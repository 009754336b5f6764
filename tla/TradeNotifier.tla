---------------------------- MODULE TradeNotifier ----------------------------
(***************************************************************************)
(* The trade notifier (realtime/trade_ws.py): how the rows of the          *)
(* transactions table are announced to their owners.                       *)
(*                                                                         *)
(* In every worker a matching pass pushes the fills it has committed, and  *)
(* the poll loop of the worker that leads reads the table again from a     *)
(* watermark on and pushes what nobody has.  The two meet in Redis: a      *)
(* claim per trade that lapses, a message counter per user, the stored     *)
(* watermark and the leader lock.  A step of this module ends at an await. *)
(***************************************************************************)
EXTENDS Naturals, Sequences, FiniteSetsExt

CONSTANTS
    Worker,        \* the processes
    Matcher,       \* those that match orders
    Trade,         \* the rows of transactions that may be inserted, as numbers
    User,
    Owner,         \* the user_id of every trade
    Lookback,      \* ws_trade_lookback_seconds
    Limit,         \* the LIMIT of the poll's query
    Patience,      \* no trade is older when it is claimed: see Tick
    MaxTime,       \* bound: the clock
    MaxTroubles,   \* bound: crashes (each followed by a restart), calls that
                   \* raise and locks that lapse under a live worker, together
    MaxLapses      \* bound: claims of one trade that lapse

ASSUME NotifierAssumption ==
    /\ IsFiniteSet(Worker)
    /\ Matcher \subseteq Worker
    /\ Trade \subseteq Nat \ {0}
    /\ IsFiniteSet(Trade)
    /\ Owner \in [Trade -> User]
    /\ Lookback \in Nat
    /\ Limit \in Nat \ {0}
    /\ Patience \in Nat \ {0}
    /\ MaxTime \in Nat \ {0}
    /\ {MaxTroubles, MaxLapses} \subseteq Nat

VARIABLES
    now,        \* the database's clock
    created,    \* created_at, the start of the inserting transaction; 0: no row
    open,       \* of every worker: the trade of the pass's open transaction
    task,       \* of every worker: its pass and its poll loop, where each is, the
                \* trades it has in hand and the seq each of them was given
    mark,       \* of every worker: the time of _watermark; 0: None
    seen,       \* of every worker: _seen_ids
    leading,    \* of every worker: _election.is_leader
    localSeq,   \* of every worker: _local_seq
    lock,       \* Redis: the leader lock
    claimed,    \* Redis: the dedup keys
    counter,    \* Redis: the message counter of every user
    stored,     \* Redis: the time of the stored watermark; 0: absent
    sent,       \* of every trade: the seq of every trade_fill sent for it
    dropped,    \* trades a crash took from a task that had claimed them
    lapses, crashes, faults, handovers   \* counted up to their bounds

redis == <<lock, claimed, counter, stored>>
local == <<mark, seen, leading, localSeq>>
count == <<lapses, crashes, faults, handovers>>
vars == <<now, created, open, task, local, redis, sent, dropped, count>>

Kind == {"pass", "poll"}
Free == "free"     \* nobody holds the lock
Gone == "gone"     \* a process that is gone holds it
NoTrade == 0

NoSeq == [t \in Trade |-> 0]

\* A pass that still matches is idle here, with the fills it has committed.
Rest == [at |-> "idle", batch |-> {}, seq |-> NoSeq]

Opened == {open[w] : w \in Worker} \ {NoTrade}
Committed == {t \in Trade : created[t] > 0 /\ t \notin Opened}

\* ORDER BY created_at, id
Before(t, u) == created[t] < created[u] \/ (created[t] = created[u] /\ t < u)

\* The watermark after the rows in S: it never falls.
Latest(m, S) == Max({m} \cup {created[t] : t \in S})

Goes(w, k, at, S, seq) ==
    task' = [task EXCEPT ![<<w, k>>] = [at |-> at, batch |-> S, seq |-> seq]]
Becomes(w, k, at) == Goes(w, k, at, task[<<w, k>>].batch, task[<<w, k>>].seq)

Spare == crashes + faults + handovers < MaxTroubles
Fault == Spare /\ faults' = faults + 1

-----------------------------------------------------------------------------
(* A matching pass, as far as the notifier is concerned *)

\* The first statement of a transaction fixes now(), the row's created_at.
Begin(w) ==
    /\ w \in Matcher
    /\ task[<<w, "pass">>].at = "idle" /\ open[w] = NoTrade
    /\ \E t \in Trade :
        /\ created[t] = 0
        /\ created' = [created EXCEPT ![t] = now]
        /\ open' = [open EXCEPT ![w] = t]
    /\ UNCHANGED <<now, task, local, redis, sent, dropped, count>>

Commit(w) ==
    /\ open[w] # NoTrade
    /\ Goes(w, "pass", "idle", task[<<w, "pass">>].batch \cup {open[w]}, NoSeq)
    /\ open' = [open EXCEPT ![w] = NoTrade]
    /\ UNCHANGED <<now, created, local, redis, sent, dropped, count>>

\* The pass raises: its transaction is rolled back and its fills are never
\* handed to the notifier.
PassFails(w) ==
    /\ task[<<w, "pass">>].at = "idle"
    /\ open[w] # NoTrade \/ task[<<w, "pass">>].batch # {}
    /\ created' = [t \in Trade |-> IF t = open[w] THEN 0 ELSE created[t]]
    /\ open' = [open EXCEPT ![w] = NoTrade]
    /\ Goes(w, "pass", "idle", {}, NoSeq)
    /\ UNCHANGED <<now, local, redis, sent, dropped, count>>

-----------------------------------------------------------------------------
(* _push_transactions, by either task *)

Unclaimed_All(S) == S

\* SETNX succeeds where there is no key.
Unclaimed(S) == S \ claimed

\* A pass hands its fills over when it ends (_notify_fills), the poll what it
\* has left of its rows.
MayClaim(w, k) ==
    \/ task[<<w, k>>].at = "claim"
    \/ k = "pass" /\ task[<<w, k>>].at = "idle" /\ open[w] = NoTrade /\ task[<<w, k>>].batch # {}

\* _claim_delivered.  A call that raises, whether or not Redis has run it,
\* keeps every entry.
Claim(w, k) ==
    LET batch == task[<<w, k>>].batch
        got == Unclaimed(batch)
    IN  /\ MayClaim(w, k)
        /\ \/ /\ claimed' = claimed \cup got
              /\ Goes(w, k, "number", got, NoSeq)
              /\ UNCHANGED faults
           \/ /\ Fault
              /\ claimed' \in {claimed, claimed \cup batch}
              /\ Becomes(w, k, "number")
        /\ UNCHANGED <<now, created, open, local, lock, counter, stored, sent,
                       dropped, lapses, crashes, handovers>>

SameChannel(S, t) == {u \in S : Owner[u] = Owner[t]}

\* INCR for every entry, in order.
Numbered(S, base) ==
    [t \in Trade |-> IF t \in S
                     THEN base[Owner[t]] + 1
                          + Cardinality({u \in SameChannel(S, t) : Before(u, t)})
                     ELSE 0]

Counted_Once(S, base) ==
    [u \in User |-> base[u] + Cardinality({Owner[t] : t \in S} \cap {u})]

Counted(S, base) ==
    [u \in User |-> base[u] + Cardinality({t \in S : Owner[t] = u})]

\* _assign_seqs, with the worker's own numbers when the call raises.
Number(w, k) ==
    LET batch == task[<<w, k>>].batch
        Gets(base) == Goes(w, k, IF batch = {} THEN "save" ELSE "send", batch,
                           Numbered(batch, base))
    IN  /\ task[<<w, k>>].at = "number"
        /\ \/ /\ counter' = Counted(batch, counter)
              /\ Gets(counter)
              /\ UNCHANGED <<localSeq, faults>>
           \/ /\ Fault
              /\ counter' \in {counter, Counted(batch, counter)}
              /\ localSeq' = [localSeq EXCEPT ![w] = Counted(batch, @)]
              /\ Gets(localSeq[w])
        /\ UNCHANGED <<now, created, open, mark, seen, leading, lock, claimed,
                       stored, sent, dropped, lapses, crashes, handovers>>

\* One round of the sending loop.
Send(w, k) ==
    LET batch == task[<<w, k>>].batch
    IN  /\ task[<<w, k>>].at = "send"
        /\ \E t \in batch :
            /\ \A u \in batch \ {t} : Before(t, u)
            /\ seen' = [seen EXCEPT ![w] = @ \cup {t}]
            /\ mark' = [mark EXCEPT ![w] = Latest(@, {t})]
            /\ sent' = [sent EXCEPT ![t] = Append(@, task[<<w, k>>].seq[t])]
            /\ Goes(w, k, IF batch = {t} THEN "save" ELSE "send", batch \ {t},
                    [task[<<w, k>>].seq EXCEPT ![t] = 0])
        /\ UNCHANGED <<now, created, open, leading, localSeq, redis, dropped, count>>

\* _persist_watermark writes whatever this worker's watermark is by now.
Persist(w) ==
    \/ /\ stored' = IF mark[w] = 0 THEN stored ELSE mark[w]
       /\ UNCHANGED faults
    \/ /\ mark[w] # 0 /\ Fault
       /\ UNCHANGED stored

Save(w, k) ==
    /\ task[<<w, k>>].at = "save"
    /\ Persist(w)
    /\ Becomes(w, k, IF k = "pass" THEN "idle" ELSE "keep")
    /\ UNCHANGED <<now, created, open, local, lock, claimed, counter, sent,
                   dropped, lapses, crashes, handovers>>

-----------------------------------------------------------------------------
(* _run_loop and _poll_once *)

\* acquire succeeds.  Who was not leader before takes the stored watermark.
Lead(w) ==
    /\ task[<<w, "poll">>].at = "idle"
    /\ lock \in {Free, w}
    /\ lock' = w
    /\ leading' = [leading EXCEPT ![w] = TRUE]
    /\ Becomes(w, "poll", IF leading[w] THEN "read" ELSE "load")
    /\ UNCHANGED <<now, created, open, mark, seen, localSeq, claimed, counter,
                   stored, sent, dropped, count>>

\* Another holds the lock, or the call raises, whether or not it got the lock:
\* the loop sleeps on.
Follow(w) ==
    /\ task[<<w, "poll">>].at = "idle"
    /\ \/ lock \notin {Free, w} /\ UNCHANGED <<lock, faults>>
       \/ Fault /\ lock' \in IF lock = Free THEN {Free, w} ELSE {lock}
    /\ leading' = [leading EXCEPT ![w] = FALSE]
    /\ UNCHANGED <<now, created, open, task, mark, seen, localSeq, claimed, counter,
                   stored, sent, dropped, lapses, crashes, handovers>>

Load(w) ==
    /\ task[<<w, "poll">>].at = "load"
    /\ \/ /\ mark' = [mark EXCEPT ![w] = IF stored = 0 THEN @ ELSE stored]
          /\ UNCHANGED faults
       \/ /\ Fault
          /\ UNCHANGED mark
    /\ Becomes(w, "poll", "read")
    /\ UNCHANGED <<now, created, open, seen, leading, localSeq, redis, sent,
                   dropped, lapses, crashes, handovers>>

Window_Strict(m) == {t \in Committed : created[t] >= m}

\* created_at >= watermark - lookback
Window(m) == {t \in Committed : created[t] + Lookback >= m}

Rows(m) == {t \in Window(m) : Cardinality({u \in Window(m) : Before(u, t)}) < Limit}

Read(w) ==
    /\ task[<<w, "poll">>].at = "read"
    /\ Goes(w, "poll", "check", Rows(mark[w]), NoSeq)
    /\ UNCHANGED <<now, created, open, local, redis, sent, dropped, count>>

\* The query raises: the loop sleeps on.
ReadFails(w) ==
    /\ task[<<w, "poll">>].at = "read"
    /\ Fault
    /\ Goes(w, "poll", "idle", {}, NoSeq)
    /\ UNCHANGED <<now, created, open, local, redis, sent, dropped,
                   lapses, crashes, handovers>>

\* What this worker has sent and what is claimed is left out, and the
\* watermark passes every row read.
Check(w) ==
    LET rows == task[<<w, "poll">>].batch
        fresh == rows \ seen[w]
        Pushes(S) == Goes(w, "poll", IF S = {} THEN "keep" ELSE "claim", S, NoSeq)
    IN  /\ task[<<w, "poll">>].at = "check"
        /\ \/ Pushes(Unclaimed(fresh)) /\ UNCHANGED faults
           \/ fresh # {} /\ Fault /\ Pushes(fresh)
        /\ mark' = [mark EXCEPT ![w] = Latest(@, rows)]
        /\ UNCHANGED <<now, created, open, seen, leading, localSeq, redis, sent,
                       dropped, lapses, crashes, handovers>>

\* _run_loop saves the watermark once more.
Keep(w) ==
    /\ task[<<w, "poll">>].at = "keep"
    /\ Persist(w)
    /\ Becomes(w, "poll", "idle")
    /\ UNCHANGED <<now, created, open, local, lock, claimed, counter, sent,
                   dropped, lapses, crashes, handovers>>

-----------------------------------------------------------------------------
(* Time, Redis and crashes *)

Pending == {t \in Trade : created[t] > 0 /\ t \notin claimed \cup dropped
                          /\ sent[t] = <<>>}

\* The clock of created_at.  The lookback of five seconds is meant to outlast
\* a transaction and the poll after it: a trade is at most Patience old by the
\* time somebody has claimed it.
Tick ==
    /\ now < MaxTime
    /\ \A t \in Pending : now < created[t] + Patience
    /\ now' = now + 1
    /\ UNCHANGED <<created, open, task, local, redis, sent, dropped, count>>

\* A dedup key lapses after 300 seconds, longer than any task takes.
ClaimLapses(t) ==
    /\ t \in claimed
    /\ lapses[t] < MaxLapses
    /\ \A w \in Worker, k \in Kind : t \notin task[<<w, k>>].batch
    /\ claimed' = claimed \ {t}
    /\ lapses' = [lapses EXCEPT ![t] = @ + 1]
    /\ UNCHANGED <<now, created, open, task, local, lock, counter, stored, sent,
                   dropped, crashes, faults, handovers>>

\* The lock of a process that is gone, or of one that is slow to renew.
LockLapses ==
    /\ lock # Free
    /\ \/ lock = Gone /\ UNCHANGED handovers
       \/ /\ lock # Gone
          /\ Spare
          /\ handovers' = handovers + 1
    /\ lock' = Free
    /\ UNCHANGED <<now, created, open, task, local, claimed, counter, stored, sent,
                   dropped, lapses, crashes, faults>>

Crash(w) ==
    /\ Spare
    /\ crashes' = crashes + 1
    /\ created' = [t \in Trade |-> IF t = open[w] THEN 0 ELSE created[t]]
    /\ open' = [open EXCEPT ![w] = NoTrade]
    /\ dropped' = dropped \cup UNION {task[<<w, k>>].batch : k \in
                    {j \in Kind : task[<<w, j>>].at \in {"number", "send"}}}
    /\ task' = [h \in Worker \X Kind |-> IF h[1] = w THEN Rest ELSE task[h]]
    /\ mark' = [mark EXCEPT ![w] = 0]
    /\ seen' = [seen EXCEPT ![w] = {}]
    /\ leading' = [leading EXCEPT ![w] = FALSE]
    /\ localSeq' = [localSeq EXCEPT ![w] = [u \in User |-> 0]]
    /\ lock' = IF lock = w THEN Gone ELSE lock
    /\ UNCHANGED <<now, claimed, counter, stored, sent, lapses, faults, handovers>>

-----------------------------------------------------------------------------
Init ==
    /\ now = 1
    /\ created = [t \in Trade |-> 0]
    /\ open = [w \in Worker |-> NoTrade]
    /\ task = [h \in Worker \X Kind |-> Rest]
    /\ mark = [w \in Worker |-> 0]
    /\ seen = [w \in Worker |-> {}]
    /\ leading = [w \in Worker |-> FALSE]
    /\ localSeq = [w \in Worker |-> [u \in User |-> 0]]
    /\ lock = Free
    /\ claimed = {}
    /\ counter = [u \in User |-> 0]
    /\ stored = 0
    /\ sent = [t \in Trade |-> <<>>]
    /\ dropped = {}
    /\ lapses = [t \in Trade |-> 0]
    /\ crashes = 0 /\ faults = 0 /\ handovers = 0

Push(w, k) == Claim(w, k) \/ Number(w, k) \/ Send(w, k) \/ Save(w, k)

Poll(w) ==
    \/ Lead(w) \/ Follow(w) \/ Load(w) \/ Read(w) \/ ReadFails(w)
    \/ Check(w) \/ Keep(w)

Next ==
    \/ \E w \in Worker :
        \/ Begin(w) \/ Commit(w) \/ PassFails(w)
        \/ \E k \in Kind : Push(w, k)
        \/ Poll(w) \/ Crash(w)
    \/ \E t \in Trade : ClaimLapses(t)
    \/ LockLapses
    \/ Tick

Spec == Init /\ [][Next]_vars

\* A task that has begun runs on, the loop comes round, and a lock whose
\* holder is gone lapses.
Fairness ==
    /\ \A w \in Worker : WF_vars(Poll(w) \/ Push(w, "poll"))
    /\ \A w \in Worker : WF_vars(Push(w, "pass"))
    /\ WF_vars(lock = Gone /\ LockLapses)
=============================================================================
