------------------------------ MODULE TokenBucket ------------------------------
(***************************************************************************)
(* The AI engine's limiter of model calls, RedisRateLimiter                *)
(* (integrations/rate_limiter.py): a token bucket two Redis keys hold, one *)
(* per model, which the engine's web process and its worker share.  A      *)
(* taker, a coroutine of either process, takes a lock in Redis, reads the  *)
(* two keys, writes them back with one token less and deletes the lock;    *)
(* or it sleeps until a token can be there, up to a deadline.              *)
(*                                                                         *)
(* Every command to Redis is a step.  Time passes between any two of them, *)
(* as it does in the web process, whose calls of the model block every     *)
(* other coroutine: the lock may lapse under its holder, and the time a    *)
(* taker stamps on the bucket is the time it had read before it asked for  *)
(* the lock.  A tick is the time one unit of credit takes to come back; a  *)
(* token is Refill units.                                                  *)
(***************************************************************************)
EXTENDS Integers, FiniteSetsExt

CONSTANTS
    Takers,         \* the coroutines that call the model
    Buckets,        \* the limiters' names
    Burst,          \* capacity, in tokens
    Refill,         \* ticks a token takes to come back: 1 / refill_per_sec
    LockTtl,        \* lock_ttl_seconds
    LockAttempts,   \* _LOCK_ACQUIRE_ATTEMPTS
    MaxWait,        \* max_wait_seconds
    MaxTime,        \* bound on the clock
    None

ASSUME TokenBucketAssumption ==
    /\ Burst \in Nat \ {0}
    /\ Refill \in Nat \ {0}
    /\ LockTtl \in Nat \ {0}
    /\ LockAttempts \in Nat \ {0}
    /\ MaxWait \in Nat
    /\ MaxTime \in Nat
    /\ None \notin Takers
    /\ Buckets # {}

VARIABLES
    clock,
    bucket,   \* the two keys of a bucket: its credit and the time it was stamped
    lock,     \* the lock's key: who set it, and when Redis drops it
    taker,    \* where each coroutine is in acquire()
    ledger    \* history of a bucket: credit spent, ticks refilled twice, lock lapsed

bucketVars == <<clock, bucket, lock, taker, ledger>>

Capacity == Burst * Refill

(* The stamp of a bucket nobody has used. *)
NoStamp == -1

Unlocked == [owner |-> None, until |-> 0]

(* Between the lock and its release. *)
Section == {"tokens", "stamp", "spend", "mark", "free"}

Places == Section \cup {"rest", "lock", "asleep", "granted", "refused", "failed"}

AtRest ==
    [at |-> "rest", of |-> CHOOSE b \in Buckets : TRUE, now |-> 0, tries |-> 0,
     due |-> 0, wake |-> 0, tokens |-> 0, wait |-> 0]

BucketInit ==
    /\ clock = 0
    /\ bucket = [b \in Buckets |-> [tokens |-> Capacity, stamp |-> NoStamp]]
    /\ lock = [b \in Buckets |-> Unlocked]
    /\ taker = [t \in Takers |-> AtRest]
    /\ ledger = [b \in Buckets |-> [spent |-> 0, twice |-> 0, lapsed |-> FALSE]]

Later(m, n) == IF m >= n THEN m ELSE n
Sooner(m, n) == IF m =< n THEN m ELSE n

(***************************************************************************)
(* acquire                                                                 *)
(***************************************************************************)

(* A try begins by reading the time, and keeps it through its attempts at
   the lock. *)
Trying(k) == [k EXCEPT !.at = "lock", !.now = clock, !.tries = 0]

Acquire(t, b) ==
    /\ taker[t].at = "rest"
    /\ taker' = [taker EXCEPT ![t] =
                    Trying([AtRest EXCEPT !.of = b, !.due = clock + MaxWait])]
    /\ UNCHANGED <<clock, bucket, lock, ledger>>

Overdue(k) == k.due =< clock

(* No token after this try: give up past the deadline, else sleep. *)
Waiting(k, wait) ==
    IF Overdue(k)
    THEN [AtRest EXCEPT !.at = "refused", !.of = k.of]
    ELSE [AtRest EXCEPT !.at = "asleep", !.of = k.of, !.due = k.due,
                        !.wake = clock + Sooner(wait, k.due - clock)]

Wake(t) ==
    /\ taker[t].at = "asleep"
    /\ taker[t].wake =< clock
    /\ taker' = [taker EXCEPT ![t] = Trying(@)]
    /\ UNCHANGED <<clock, bucket, lock, ledger>>

(***************************************************************************)
(* _try_acquire, _lock, _consume_token                                     *)
(***************************************************************************)

(* SET key NX EX ttl. *)
MaySet_Always(b) == TRUE
MaySet(b) == lock[b].owner = None

Lock(t) ==
    LET k == taker[t]
        b == k.of
    IN
    /\ k.at = "lock"
    /\ \/ /\ MaySet(b)
          /\ lock' = [lock EXCEPT ![b] = [owner |-> t, until |-> clock + LockTtl]]
          /\ taker' = [taker EXCEPT ![t] = [k EXCEPT !.at = "tokens"]]
       \/ /\ ~MaySet(b)
          /\ k.tries + 1 < LockAttempts
          /\ taker' = [taker EXCEPT ![t] = [k EXCEPT !.tries = k.tries + 1]]
          /\ UNCHANGED lock
       \/ /\ ~MaySet(b)
          /\ k.tries + 1 >= LockAttempts
          /\ taker' = [taker EXCEPT ![t] = Waiting(k, 1)]
          /\ UNCHANGED lock
    /\ UNCHANGED <<clock, bucket, ledger>>

GetTokens(t) ==
    /\ taker[t].at = "tokens"
    /\ taker' = [taker EXCEPT ![t] =
                    [@ EXCEPT !.at = "stamp", !.tokens = bucket[taker[t].of].tokens]]
    /\ UNCHANGED <<clock, bucket, lock, ledger>>

(* The credit there is now: what was left, and what came back since. *)
Refilled(k, stamp) ==
    LET last == IF stamp = NoStamp THEN k.now ELSE stamp IN
    Sooner(Capacity, k.tokens + Later(0, k.now - last))

GetStamp(t) ==
    LET k == taker[t]
        have == Refilled(k, bucket[k.of].stamp)
    IN /\ k.at = "stamp"
       /\ taker' = [taker EXCEPT ![t] =
                       IF have >= Refill
                       THEN [k EXCEPT !.at = "spend", !.tokens = have - Refill]
                       ELSE [k EXCEPT !.at = "free", !.tokens = 0,
                                      !.wait = Refill - have]]
       /\ UNCHANGED <<clock, bucket, lock, ledger>>

(* What a ledger is told of. *)
Charged(l) == [l EXCEPT !.spent = @ + Refill]
Counted(l, n) == [l EXCEPT !.twice = @ + n]

Spend(t) ==
    LET k == taker[t] IN
    /\ k.at = "spend"
    /\ bucket' = [bucket EXCEPT ![k.of] = [@ EXCEPT !.tokens = k.tokens]]
    /\ ledger' = [ledger EXCEPT ![k.of] = Charged(@)]
    /\ taker' = [taker EXCEPT ![t] = [@ EXCEPT !.at = "mark"]]
    /\ UNCHANGED <<clock, lock>>

(* The stamp may go back: what was refilled since comes back a second time. *)
Mark(t) ==
    LET k == taker[t] IN
    /\ k.at = "mark"
    /\ bucket' = [bucket EXCEPT ![k.of] = [@ EXCEPT !.stamp = k.now]]
    /\ ledger' = [ledger EXCEPT ![k.of] =
                     Counted(@, Later(0, bucket[k.of].stamp - k.now))]
    /\ taker' = [taker EXCEPT ![t] = [@ EXCEPT !.at = "free", !.wait = 0]]
    /\ UNCHANGED <<clock, lock>>

(* The lock is deleted whoever holds it by now. *)
Free(t) ==
    LET k == taker[t] IN
    /\ k.at = "free"
    /\ lock' = [lock EXCEPT ![k.of] = Unlocked]
    /\ taker' = [taker EXCEPT ![t] =
                    IF k.wait = 0
                    THEN [AtRest EXCEPT !.at = "granted", !.of = k.of]
                    ELSE Waiting(k, k.wait)]
    /\ UNCHANGED <<clock, bucket, ledger>>

(* A command fails and acquire() with it.  The lock is deleted on the way
   out, unless that fails too.  Credit that was taken and not stamped is
   refilled for the same ticks once more. *)
Failure(t) ==
    LET k == taker[t]
        seen == bucket[k.of].stamp
        again == IF k.at = "mark" /\ seen # NoStamp THEN Later(0, k.now - seen) ELSE 0
    IN /\ k.at \in Section \cup {"lock"}
       /\ \/ UNCHANGED lock
          \/ k.at \in Section /\ lock' = [lock EXCEPT ![k.of] = Unlocked]
       /\ ledger' = [ledger EXCEPT ![k.of] = Counted(@, again)]
       /\ taker' = [taker EXCEPT ![t] = [AtRest EXCEPT !.at = "failed", !.of = k.of]]
       /\ UNCHANGED <<clock, bucket>>

(* The caller goes on with what acquire() came to. *)
Ended(t) == taker[t].at \in {"granted", "refused", "failed"}

Resume(t) ==
    /\ Ended(t)
    /\ taker' = [taker EXCEPT ![t] = AtRest]
    /\ UNCHANGED <<clock, bucket, lock, ledger>>

(* The caller is gone: its process died, or its task was cancelled. *)
Abandon(t) ==
    /\ taker[t].at \notin Section \cup {"lock"}
    /\ taker' = [taker EXCEPT ![t] = AtRest]
    /\ UNCHANGED <<clock, bucket, lock, ledger>>

Command(t) ==
    Lock(t) \/ GetTokens(t) \/ GetStamp(t) \/ Spend(t) \/ Mark(t) \/ Free(t)

(***************************************************************************)
(* Time, and the specification of the buckets alone                        *)
(***************************************************************************)

Lapses(b) == lock[b].owner # None /\ lock[b].until =< clock + 1

InSection(t, b) == taker[t].at \in Section /\ taker[t].of = b

Tick ==
    /\ clock < MaxTime
    /\ clock' = clock + 1
    /\ lock' = [b \in Buckets |-> IF Lapses(b) THEN Unlocked ELSE lock[b]]
    /\ ledger' = [b \in Buckets |->
                     [ledger[b] EXCEPT !.lapsed =
                         @ \/ (Lapses(b) /\ \E t \in Takers :
                                   lock[b].owner = t /\ InSection(t, b))]]
    /\ UNCHANGED <<bucket, taker>>

BucketNext ==
    \/ Tick
    \/ \E t \in Takers :
          \/ \E b \in Buckets : Acquire(t, b)
          \/ Wake(t) \/ Command(t) \/ Failure(t) \/ Resume(t) \/ Abandon(t)

BucketSpec == BucketInit /\ [][BucketNext]_bucketVars
================================================================================
