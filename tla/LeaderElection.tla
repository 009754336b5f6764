---------------------------- MODULE LeaderElection ----------------------------
(***************************************************************************)
(* The leader election of the background loops (realtime/leader.py) and    *)
(* the loop of the price broadcaster that relies on it                     *)
(* (realtime/price_ws.py).                                                 *)
(*                                                                         *)
(* Several workers compete for one Redis lock with a time to live.  A call *)
(* is asynchronous: Redis runs the script some time after the call was     *)
(* made, the worker sees the reply some time after that, or never.  The    *)
(* time to live passes while a worker waits, sleeps or is paused, so the   *)
(* lock may expire between any two steps.                                  *)
(***************************************************************************)
EXTENDS Naturals

CONSTANTS
    Worker,        \* the processes that run the loop
    MaxExpiries,   \* bound: locks that expire under a live worker
    MaxCrashes,    \* bound: crashes, each followed by a restart
    MaxFailures    \* bound: calls that raise

ASSUME ElectionAssumption ==
    /\ MaxExpiries \in Nat
    /\ MaxCrashes \in Nat
    /\ MaxFailures \in Nat

VARIABLES
    lock,       \* the lock key: whose token it holds
    fence,      \* the fence counter
    loop,       \* of every worker: where its loop is, and the reply under way
    token,      \* of every worker: _fencing_token; it is leader if above 0
    life,       \* of every worker: its incarnation, with a _leader_token of its own
    terms,      \* which incarnation was told which term
    expiries, crashes, failures   \* counted up to their bounds

vars == <<lock, fence, loop, token, life, terms, expiries, crashes, failures>>

\* The lock key is absent, or holds the token of a process that is gone.
Absent == [worker |-> "absent", life |-> 0]
Holder(w) == [worker |-> w, life |-> life[w]]
Live == {Holder(w) : w \in Worker}

IsLeader(w) == token[w] > 0

-----------------------------------------------------------------------------
(* The script *)

Renews_AnyHolder(w) == lock # Absent

\* GET lock = ARGV[1]: the lock is still this worker's.
Renews(w) == lock = Holder(w)

\* INCR
NextTerm == fence + 1

Lost == 0

\* ACQUIRE_OR_RENEW_LUA runs in one piece.
Evaluate(w) ==
    /\ loop[w].pc = "calling"
    /\ \/ /\ Renews(w)
          /\ loop' = [loop EXCEPT ![w] = [pc |-> "replying", reply |-> fence]]
          /\ lock' = Holder(w)
          /\ UNCHANGED fence
       \/ /\ ~Renews(w) /\ lock = Absent
          /\ lock' = Holder(w)
          /\ fence' = NextTerm
          /\ loop' = [loop EXCEPT ![w] = [pc |-> "replying", reply |-> NextTerm]]
       \/ /\ ~Renews(w) /\ lock # Absent
          /\ loop' = [loop EXCEPT ![w] = [pc |-> "replying", reply |-> Lost]]
          /\ UNCHANGED <<lock, fence>>
    /\ UNCHANGED <<token, life, terms, expiries, crashes, failures>>

-----------------------------------------------------------------------------
(* acquire and the loop around it *)

Asleep == [pc |-> "asleep", reply |-> 0]

Call(w) ==
    /\ loop[w].pc = "asleep"
    /\ loop' = [loop EXCEPT ![w].pc = "calling"]
    /\ UNCHANGED <<lock, fence, token, life, terms, expiries, crashes, failures>>

\* The reply is a term, or 0: the loop body runs, or the worker sleeps on.
Receive(w) ==
    LET term == loop[w].reply
    IN  /\ loop[w].pc = "replying"
        /\ token' = [token EXCEPT ![w] = term]
        /\ \/ /\ term > 0
              /\ loop' = [loop EXCEPT ![w].pc = "reading"]
              /\ terms' = terms \cup {[worker |-> w, life |-> life[w], term |-> term]}
           \/ /\ term = 0
              /\ loop' = [loop EXCEPT ![w] = Asleep]
              /\ UNCHANGED terms
        /\ UNCHANGED <<lock, fence, life, expiries, crashes, failures>>

\* The call raises, before or after the script has run: fail closed.
CallFails(w) ==
    /\ loop[w].pc \in {"calling", "replying"}
    /\ failures < MaxFailures
    /\ failures' = failures + 1
    /\ token' = [token EXCEPT ![w] = 0]
    /\ loop' = [loop EXCEPT ![w] = Asleep]
    /\ UNCHANGED <<lock, fence, life, terms, expiries, crashes>>

\* The prices are read and broadcast.  The test of is_leader in between reads
\* what the last call left there.
Broadcast(w) ==
    /\ loop[w].pc = "reading" /\ IsLeader(w)
    /\ loop' = [loop EXCEPT ![w] = Asleep]
    /\ UNCHANGED <<lock, fence, token, life, terms, expiries, crashes, failures>>

\* Reading the prices or broadcasting them fails: the loop logs it and sleeps.
TickFails(w) ==
    /\ loop[w].pc = "reading"
    /\ failures < MaxFailures
    /\ failures' = failures + 1
    /\ loop' = [loop EXCEPT ![w] = Asleep]
    /\ UNCHANGED <<lock, fence, token, life, terms, expiries, crashes>>

-----------------------------------------------------------------------------
(* The environment *)

\* The time to live runs out while its worker is late.
Expire ==
    /\ lock \in Live
    /\ expiries < MaxExpiries
    /\ expiries' = expiries + 1
    /\ lock' = Absent
    /\ UNCHANGED <<fence, loop, token, life, terms, crashes, failures>>

\* SET ... PX: every lock has a time to live.
HasTimeToLive(key) == key # Absent

\* Nobody renews the lock of a process that is gone.
ExpireGone ==
    /\ HasTimeToLive(lock) /\ lock \notin Live
    /\ lock' = Absent
    /\ UNCHANGED <<fence, loop, token, life, terms, expiries, crashes, failures>>

\* A worker dies and is started again: a new process draws a new token.
Crash(w) ==
    /\ crashes < MaxCrashes
    /\ crashes' = crashes + 1
    /\ life' = [life EXCEPT ![w] = @ + 1]
    /\ token' = [token EXCEPT ![w] = 0]
    /\ loop' = [loop EXCEPT ![w] = Asleep]
    /\ UNCHANGED <<lock, fence, terms, expiries, failures>>

Init ==
    /\ lock = Absent
    /\ fence = 0
    /\ loop = [w \in Worker |-> Asleep]
    /\ token = [w \in Worker |-> 0]
    /\ life = [w \in Worker |-> 1]
    /\ terms = {}
    /\ expiries = 0 /\ crashes = 0 /\ failures = 0

Step(w) == Call(w) \/ Evaluate(w) \/ Receive(w) \/ Broadcast(w)

Next == \/ \E w \in Worker : Step(w) \/ CallFails(w) \/ TickFails(w) \/ Crash(w)
        \/ Expire \/ ExpireGone

Spec == Init /\ [][Next]_vars

\* The loops go on, Redis answers, and the time to live passes.
Fairness == /\ \A w \in Worker : WF_vars(Step(w))
            /\ WF_vars(ExpireGone)

-----------------------------------------------------------------------------
(* What the election promises: a term belongs to one process, whatever     *)
(* expires, crashes or gets lost.                                          *)

Keys == [worker : Worker \cup {"absent"}, life : Nat]
Terms == [worker : Worker, life : Nat, term : Nat \ {0}]

\* A reply is a number, the lock and the terms name processes.
TypeOK ==
    /\ lock \in Keys
    /\ fence \in Nat
    /\ loop \in [Worker -> [pc : {"asleep", "calling", "replying", "reading"},
                            reply : Nat]]
    /\ token \in [Worker -> Nat]
    /\ life \in [Worker -> Nat \ {0}]
    /\ terms \subseteq Terms
    /\ expiries \in 0 .. MaxExpiries
    /\ crashes \in 0 .. MaxCrashes
    /\ failures \in 0 .. MaxFailures

\* A term is told to one process only, for good: a leader whose lock expired
\* and was taken cannot renew it, and no counter value is given out twice.
OneProcessPerTerm ==
    \A s, t \in terms : s.term = t.term => s.worker = t.worker /\ s.life = t.life
=============================================================================
