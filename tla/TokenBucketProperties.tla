------------------------- MODULE TokenBucketProperties -------------------------
(* What the AI engine's limiter promises; see TokenBucket.tla. *)
EXTENDS TokenBucket

TakerType ==
    [at : Places, of : Buckets, now : Nat, tries : Nat, due : Nat, wake : Nat,
     tokens : 0..Capacity, wait : Nat]

BucketTypeOK ==
    /\ clock \in 0..MaxTime
    /\ bucket \in [Buckets -> [tokens : 0..Capacity, stamp : Nat \cup {NoStamp}]]
    /\ lock \in [Buckets -> [owner : Takers \cup {None}, until : Nat]]
    /\ taker \in [Takers -> TakerType]
    /\ ledger \in [Buckets -> [spent : Nat, twice : Nat, lapsed : BOOLEAN]]

(* "never exceeds the requests per minute" (scenario_tasks.py:8): what was
   spent is at most the burst and what the time since brought, and the ticks
   that were refilled twice because a stamp was overwritten by an older one
   or never written.  The one excuse is a lock that lapsed under its holder. *)
BudgetKept ==
    \A b \in Buckets :
        ~ledger[b].lapsed => ledger[b].spent =< Capacity + clock + ledger[b].twice

(***************************************************************************)
(* The abstract budget this limiter implements                             *)
(***************************************************************************)

AbstractBudget(b) ==
    INSTANCE Budget WITH
        Start <- Capacity, Price <- Refill,
        earned <- Capacity + clock + ledger[b].twice,
        spent <- ledger[b].spent,
        excused <- ledger[b].lapsed

(* Every step of the limiter is a step of the abstract budget or leaves it
   alone: no call spends credit the bucket had not earned. *)
KeepsBudget ==
    /\ \A b \in Buckets : AbstractBudget(b)!Init
    /\ [][\A b \in Buckets :
             [AbstractBudget(b)!Next]_(AbstractBudget(b)!vars)]_bucketVars

(* Why BudgetKept is kept: the credit in the bucket, or in the hands of the
   one taker that holds the lock, is credit earned and not yet spent. *)
Since(b) == IF bucket[b].stamp = NoStamp THEN 0 ELSE bucket[b].stamp

(* What a taker's refill counts up to. *)
Horizon(t) ==
    LET stamp == bucket[taker[t].of].stamp IN
    IF stamp = NoStamp THEN 0 ELSE Later(taker[t].now, stamp)

Earned(b) == Capacity + ledger[b].twice

TimesPast ==
    /\ \A b \in Buckets : bucket[b].stamp =< clock
    /\ \A t \in Takers : taker[t].now =< clock

HolderAlone ==
    \A t \in Takers :
        taker[t].at \in Section /\ ~ledger[taker[t].of].lapsed
            => lock[taker[t].of].owner = t

Credit(b) ==
    \/ bucket[b].tokens + ledger[b].spent =< Earned(b) + Since(b)
    \/ \E t \in Takers : taker[t].at = "mark" /\ taker[t].of = b

CreditEarned == \A b \in Buckets : ~ledger[b].lapsed => Credit(b)

Hands(t) ==
    LET k == taker[t]
        b == k.of
    IN /\ k.at = "stamp" => k.tokens = bucket[b].tokens
       /\ k.at = "spend" =>
             k.tokens + Refill + ledger[b].spent =< Earned(b) + Horizon(t)
       /\ k.at = "mark" =>
             bucket[b].tokens + ledger[b].spent =< Earned(b) + Horizon(t)

HandsEarned == \A t \in Takers : ~ledger[taker[t].of].lapsed => Hands(t)

IInv == BucketTypeOK /\ TimesPast /\ HolderAlone /\ CreditEarned /\ HandsEarned
================================================================================
