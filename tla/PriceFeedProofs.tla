---------------------------- MODULE PriceFeedProofs ----------------------------
(***************************************************************************)
(* For any number of workers: a term is told to one process only, and the  *)
(* session of the prices goes on from leader to leader.                    *)
(*                                                                         *)
(* A term counts as told from the moment the script has run, when its      *)
(* reply may still be under way.  Every told term is at most the counter,  *)
(* and the term that equals the counter is the one of the process whose    *)
(* token is in the lock; so a renewal tells a process its own term again   *)
(* and an acquisition tells a new one.                                     *)
(*                                                                         *)
(* The price broadcaster runs this election.  While no lock expires under  *)
(* a live leader and no snapshot gets lost, whoever leads goes on with the *)
(* session that is shown: it holds it, or is about to load it.             *)
(***************************************************************************)
EXTENDS PriceFeed, TLAPS

-----------------------------------------------------------------------------
(* The election *)

Pending == {w \in Worker : loop[w].pc = "replying" /\ loop[w].reply > 0}
Claim(w) == [worker |-> w, life |-> life[w], term |-> loop[w].reply]

\* The terms told, their replies arrived or not.
Told == terms \cup {Claim(w) : w \in Pending}

SameProcess(s, t) == s.worker = t.worker /\ s.life = t.life

Agree   == \A s, t \in Told : s.term = t.term => SameProcess(s, t)
Bounded == \A t \in Told : t.term <= fence
Owned   == lock # Absent => \A t \in Told : t.term = fence => SameProcess(t, lock)

IInv == TypeOK /\ Agree /\ Bounded /\ Owned

-----------------------------------------------------------------------------
\* A term told is a positive number of a worker.
LEMMA ToldType == TypeOK => Told \subseteq Terms
<1> SUFFICES ASSUME TypeOK PROVE Told \subseteq Terms
  OBVIOUS
<1>1. ASSUME NEW w \in Pending PROVE Claim(w) \in Terms
  <2>1. w \in Worker /\ life[w] \in Nat /\ loop[w].reply \in Nat \ {0}
    BY DEF TypeOK, Pending
  <2>2. QED
    BY <2>1 DEF Claim, Terms
<1>2. QED
  BY <1>1 DEF Told, TypeOK

\* The absent lock is no process's.
LEMMA HolderType ==
    ASSUME TypeOK, NEW w \in Worker
    PROVE  Holder(w) \in Keys /\ Holder(w) # Absent
<1>1. life[w] \in Nat /\ life[w] # 0
  BY DEF TypeOK
<1>2. QED
  BY <1>1 DEF Holder, Absent, Keys

\* A step that tells nothing new and leaves the counter alone, with the lock as
\* it was or gone.
LEMMA NothingTold ==
    ASSUME IInv, TypeOK', Told' \subseteq Told, fence' = fence,
           lock' = lock \/ lock' = Absent
    PROVE  IInv'
<1>1. Agree' /\ Bounded'
  BY DEF IInv, Agree, Bounded, SameProcess
<1>2. Owned'
  BY DEF IInv, Owned, SameProcess, Absent
<1>3. QED
  BY <1>1, <1>2 DEF IInv

\* Only the loops, the incarnations and the terms told matter.
LEMMA SameTold ==
    ASSUME UNCHANGED <<loop, life, terms>>
    PROVE  Told' = Told
BY DEF Told, Pending, Claim

-----------------------------------------------------------------------------
\* The invariant holds before any instance has the key.
LEMMA Initially == Init => IInv
<1> SUFFICES ASSUME Init PROVE IInv
  OBVIOUS
<1>1. TypeOK
  BY ElectionAssumption DEF Init, TypeOK, Keys, Absent, Asleep
<1>2. Told = {}
  BY DEF Init, Told, Pending, Asleep
<1>3. QED
  BY <1>1, <1>2 DEF IInv, Agree, Bounded, Owned

-----------------------------------------------------------------------------
(* Types *)

\* Types, action by action.
LEMMA TypeStep == TypeOK /\ [Next]_vars => TypeOK'
<1> SUFFICES ASSUME TypeOK, [Next]_vars PROVE TypeOK'
  OBVIOUS
<1> USE ElectionAssumption
<1>1. ASSUME NEW w \in Worker, Call(w) PROVE TypeOK'
  BY <1>1 DEF TypeOK, Call
<1>2. ASSUME NEW w \in Worker, Evaluate(w) PROVE TypeOK'
  BY <1>2, HolderType DEF TypeOK, Evaluate, Lost, NextTerm
<1>3. ASSUME NEW w \in Worker, Receive(w) PROVE TypeOK'
  <2>1. loop[w].reply \in Nat /\ life[w] \in Nat
    BY DEF TypeOK
  <2>2. token' \in [Worker -> Nat]
    BY <1>3, <2>1 DEF TypeOK, Receive
  <2>3. loop' \in [Worker -> [pc : {"asleep", "calling", "replying", "reading"},
                              reply : Nat]]
    BY <1>3, <2>1 DEF TypeOK, Receive, Asleep
  <2>4. terms' \subseteq Terms
    BY <1>3, <2>1 DEF TypeOK, Receive, Terms
  <2>5. QED
    BY <1>3, <2>2, <2>3, <2>4 DEF TypeOK, Receive
<1>4. ASSUME NEW w \in Worker, Broadcast(w) PROVE TypeOK'
  BY <1>4 DEF TypeOK, Broadcast, Asleep
<1>5. ASSUME NEW w \in Worker, CallFails(w) \/ TickFails(w) PROVE TypeOK'
  <2>1. failures' \in 0 .. MaxFailures
    BY <1>5 DEF TypeOK, CallFails, TickFails
  <2>2. QED
    BY <1>5, <2>1 DEF TypeOK, CallFails, TickFails, Asleep
<1>6. ASSUME NEW w \in Worker, Crash(w) PROVE TypeOK'
  <2>1. crashes' \in 0 .. MaxCrashes
    BY <1>6 DEF TypeOK, Crash
  <2>2. life' \in [Worker -> Nat \ {0}]
    BY <1>6 DEF TypeOK, Crash
  <2>3. QED
    BY <1>6, <2>1, <2>2 DEF TypeOK, Crash, Asleep
<1>7. CASE Expire \/ ExpireGone
  <2>1. expiries' \in 0 .. MaxExpiries
    BY <1>7 DEF TypeOK, Expire, ExpireGone
  <2>2. lock' \in Keys
    BY <1>7 DEF TypeOK, Expire, ExpireGone, Absent, Keys
  <2>3. QED
    BY <1>7, <2>1, <2>2 DEF TypeOK, Expire, ExpireGone
<1>8. CASE UNCHANGED vars
  BY <1>8 DEF TypeOK, vars
<1>9. QED
  BY <1>1, <1>2, <1>3, <1>4, <1>5, <1>6, <1>7, <1>8 DEF Next, Step

-----------------------------------------------------------------------------
(* What the steps of one worker tell *)

\* A worker that had no reply under way and has one now.
LEMMA OneMore ==
    ASSUME TypeOK, NEW w \in Worker, NEW term \in Nat,
           loop' = [loop EXCEPT ![w] = [pc |-> "replying", reply |-> term]],
           UNCHANGED <<life, terms>>
    PROVE  \A t \in Told' : \/ t \in Told
                            \/ t = [worker |-> w, life |-> life[w], term |-> term]
<1>1. ASSUME NEW v \in Pending' PROVE \/ Claim(v)' \in Told
                                      \/ Claim(v)' = [worker |-> w, life |-> life[w],
                                                      term |-> term]
  <2>1. CASE v = w
    BY <2>1 DEF Pending, Claim, TypeOK
  <2>2. CASE v # w
    <3>1. loop'[v] = loop[v] /\ v \in Pending
      BY <2>2 DEF Pending, TypeOK
    <3>2. QED
      BY <3>1 DEF Claim, Told
  <2>3. QED
    BY <2>1, <2>2
<1>2. QED
  BY <1>1 DEF Told

\* The script renews the lock of its holder, takes an absent one, or refuses.
LEMMA EvaluateStep ==
    ASSUME IInv, NEW w \in Worker, Evaluate(w), TypeOK'
    PROVE  IInv'
<1> DEFINE told(f) == [worker |-> w, life |-> life[w], term |-> f]
<1>1. fence \in Nat /\ Told \subseteq Terms /\ Told' \subseteq Terms
  BY ToldType DEF IInv, TypeOK, Told, Terms, Pending, Claim, Keys
<1>2. CASE Renews(w) /\ loop' = [loop EXCEPT ![w] = [pc |-> "replying", reply |-> fence]]
           /\ lock' = Holder(w) /\ fence' = fence
  <2>1. \A t \in Told' : t \in Told \/ t = told(fence)
    BY <1>1, <1>2, OneMore DEF IInv, Evaluate
  <2>2. lock = Holder(w) /\ lock # Absent
    BY <1>2, HolderType DEF IInv, Renews
  <2>3. \A t \in Told' : t.term = fence => SameProcess(t, lock)
    BY <2>1, <2>2 DEF IInv, Owned, SameProcess, Holder
  <2>4. Bounded'
    BY <1>1, <1>2, <2>1 DEF IInv, Bounded
  <2>5. Agree'
    <3>1. SUFFICES ASSUME NEW s \in Told', NEW t \in Told', s.term = t.term
                   PROVE  SameProcess(s, t)
      BY DEF Agree, SameProcess
    <3>2. CASE s.term = fence
      BY <2>3, <3>1, <3>2 DEF SameProcess
    <3>3. CASE s.term # fence
      BY <2>1, <3>1, <3>3 DEF IInv, Agree
    <3>4. QED
      BY <3>2, <3>3
  <2>6. Owned'
    BY <1>2, <2>2, <2>3 DEF Owned, SameProcess
  <2>7. QED
    BY <2>4, <2>5, <2>6 DEF IInv
<1>3. CASE lock = Absent /\ lock' = Holder(w) /\ fence' = NextTerm
           /\ loop' = [loop EXCEPT ![w] = [pc |-> "replying", reply |-> NextTerm]]
  <2>1. NextTerm \in Nat /\ NextTerm = fence + 1
    BY <1>1 DEF NextTerm
  <2>2. \A t \in Told' : t \in Told \/ t = told(NextTerm)
    BY <1>3, <2>1, OneMore DEF IInv, Evaluate
  <2>3. \A t \in Told : t.term \in Nat /\ t.term <= fence
    BY <1>1 DEF IInv, Bounded, Terms
  <2>4. Bounded'
    BY <1>1, <1>3, <2>1, <2>2, <2>3 DEF Bounded
  <2>5. \A t \in Told' : t.term = NextTerm => t = told(NextTerm)
    BY <1>1, <2>1, <2>2, <2>3
  <2>6. Agree'
    <3>1. SUFFICES ASSUME NEW s \in Told', NEW t \in Told', s.term = t.term
                   PROVE  SameProcess(s, t)
      BY DEF Agree, SameProcess
    <3>2. CASE s.term = NextTerm
      BY <2>5, <3>1, <3>2 DEF SameProcess
    <3>3. CASE s.term # NextTerm
      BY <2>2, <3>1, <3>3 DEF IInv, Agree
    <3>4. QED
      BY <3>2, <3>3
  <2>7. Owned'
    BY <1>3, <2>5 DEF Owned, SameProcess, Holder
  <2>8. QED
    BY <2>4, <2>6, <2>7 DEF IInv
<1>4. CASE loop' = [loop EXCEPT ![w] = [pc |-> "replying", reply |-> Lost]]
           /\ UNCHANGED <<lock, fence>>
  <2>1. \A t \in Told' : t \in Told \/ t = told(0)
    BY <1>4, OneMore DEF IInv, Evaluate, Lost
  <2>2. \A t \in Told' : t.term # 0
    BY <1>1 DEF Terms
  <2>3. Told' \subseteq Told
    BY <2>1, <2>2
  <2>4. QED
    BY <1>4, <2>3, NothingTold
<1>5. QED
  BY <1>2, <1>3, <1>4 DEF Evaluate

\* A reply that arrives was told before.
LEMMA ReceiveStep ==
    ASSUME IInv, NEW w \in Worker, Receive(w), TypeOK'
    PROVE  IInv'
<1>1. loop \in [Worker -> [pc : {"asleep", "calling", "replying", "reading"}, reply : Nat]]
  BY DEF IInv, TypeOK
<1>2. terms' \subseteq Told
  <2>1. CASE loop[w].reply > 0
    <3>1. w \in Pending /\ Claim(w) \in Told
      BY <2>1 DEF Receive, Pending, Told
    <3>2. QED
      BY <3>1 DEF Receive, Claim, Told
  <2>2. CASE ~(loop[w].reply > 0)
    BY <2>2 DEF Receive, Told
  <2>3. QED
    BY <2>1, <2>2
<1>3. ASSUME NEW v \in Pending' PROVE Claim(v)' \in Told
  <2>1. v # w
    BY <1>1, <1>3 DEF Receive, Pending, Asleep
  <2>2. loop'[v] = loop[v] /\ life'[v] = life[v] /\ v \in Pending
    BY <1>1, <1>3, <2>1 DEF Receive, Pending
  <2>3. QED
    BY <2>2 DEF Claim, Told
<1>4. Told' \subseteq Told
  BY <1>2, <1>3 DEF Told
<1>5. QED
  BY <1>4, NothingTold DEF Receive

\* A worker that stops waiting for a reply forgets it.
LEMMA ForgetStep ==
    ASSUME IInv, TypeOK', NEW w \in Worker,
           loop'[w].pc # "replying",
           \A v \in Worker \ {w} : loop'[v] = loop[v] /\ life'[v] = life[v],
           UNCHANGED <<lock, fence, terms>>
    PROVE  IInv'
<1>1. ASSUME NEW v \in Pending' PROVE Claim(v)' \in Told
  <2>1. v # w /\ v \in Worker
    BY <1>1 DEF Pending
  <2>2. v \in Pending /\ loop'[v] = loop[v] /\ life'[v] = life[v]
    BY <1>1, <2>1 DEF Pending
  <2>3. QED
    BY <2>2 DEF Claim, Told
<1>2. Told' \subseteq Told
  BY <1>1 DEF Told
<1>3. QED
  BY <1>2, NothingTold

-----------------------------------------------------------------------------
\* Every step keeps the invariant.
LEMMA Inductive == IInv /\ [Next]_vars => IInv'
<1> SUFFICES ASSUME IInv, [Next]_vars PROVE IInv'
  OBVIOUS
<1>1. TypeOK' /\ TypeOK
  BY TypeStep DEF IInv
<1>2. ASSUME NEW w \in Worker,
             Call(w) \/ Broadcast(w) \/ CallFails(w) \/ TickFails(w) \/ Crash(w)
      PROVE  IInv'
  <2>1. loop'[w].pc # "replying"
    BY <1>1, <1>2 DEF TypeOK, Call, Broadcast, CallFails, TickFails, Crash, Asleep
  <2>2. \A v \in Worker \ {w} : loop'[v] = loop[v] /\ life'[v] = life[v]
    BY <1>1, <1>2 DEF TypeOK, Call, Broadcast, CallFails, TickFails, Crash
  <2>3. UNCHANGED <<lock, fence, terms>>
    BY <1>2 DEF Call, Broadcast, CallFails, TickFails, Crash
  <2>4. QED
    BY <1>1, <2>1, <2>2, <2>3, ForgetStep
<1>3. CASE Expire \/ ExpireGone
  <2>1. Told' = Told
    BY <1>3, SameTold DEF Expire, ExpireGone
  <2>2. QED
    BY <1>1, <1>3, <2>1, NothingTold DEF Expire, ExpireGone
<1>4. CASE UNCHANGED vars
  <2>1. Told' = Told
    BY <1>4, SameTold DEF vars
  <2>2. QED
    BY <1>1, <1>4, <2>1, NothingTold DEF vars
<1>5. QED
  BY <1>1, <1>2, <1>3, <1>4, EvaluateStep, ReceiveStep DEF Next, Step

\* The invariant holds in every reachable state.
THEOREM Invariance == Spec => []IInv
<1>1. QED
  BY Initially, Inductive, PTL DEF Spec

\* The variables keep their types.
THEOREM TypeCorrect == Spec => []TypeOK
<1>1. IInv => TypeOK
  BY DEF IInv
<1>2. QED
  BY <1>1, Invariance, PTL

\* The atomic script and the counter that never expires are enough: no two
\* processes are ever told the same term.
THEOREM TermsAreUnique == Spec => []OneProcessPerTerm
<1>1. IInv => OneProcessPerTerm
  BY DEF IInv, Agree, Told, OneProcessPerTerm, SameProcess
<1>2. QED
  BY <1>1, Invariance, PTL

-----------------------------------------------------------------------------
(* The price broadcaster: the inductive invariant *)

\* While no lock expired under a live leader, a worker that leads, or is about to be told
\* that it does, holds the lock.
LeadersHold ==
    expiries = 0 => \A w \in Worker :
        token[w] > 0 \/ (loop[w].pc = "replying" /\ loop[w].reply > 0) => lock = Holder(w)

\* Where a broadcaster is, by where its election is.
Places ==
    \A w \in Worker :
        /\ feed[w].stage # "idle" => token[w] > 0
        /\ loop[w].pc \in {"calling", "replying"} =>
              feed[w].stage = "idle" /\ (feed[w].was => token[w] > 0)
        /\ loop[w].pc = "reading" => feed[w].stage \in {"load", "read", "send"}

Spans(tick) == tick.low <= tick.price /\ tick.price <= tick.high /\ tick.day <= today

TicksSpan == Spans(shown) /\ Spans(snapshot) /\ \A w \in Worker : Spans(feed[w].tick)

\* As long as nothing got lost, the session of a leader, and the one kept, is the one
\* shown.
SessionKept ==
    expiries = 0 /\ misses = 0 =>
        /\ \A w \in Worker :
              /\ token[w] > 0 /\ feed[w].stage # "load" => feed[w].tick = shown
              /\ shown = NoTick => feed[w].tick = NoTick
        /\ (\A w \in Worker : feed[w].stage # "persist") => snapshot = shown

FeedInv == FeedTypeOK /\ LeadersHold /\ Places /\ TicksSpan /\ SessionKept

-----------------------------------------------------------------------------
(* The price broadcaster: the election below it *)

\* Every step of the broadcaster is a step of the election, or leaves it alone.
LEMMA FeedIsElection == [FeedNext]_allVars => [Next]_vars
<1> SUFFICES ASSUME [FeedNext]_allVars PROVE [Next]_vars
  OBVIOUS
<1>1. ASSUME NEW w \in Worker,
             \/ FeedStep(w) \/ Unheard(w) \/ LoadFails(w) \/ FeedFails(w)
             \/ PersistFails(w) \/ Restart(w)
      PROVE  [Next]_vars
  <2>1. \/ Call(w) \/ Receive(w) \/ Evaluate(w) \/ Broadcast(w) \/ CallFails(w)
        \/ TickFails(w) \/ Crash(w) \/ UNCHANGED vars
    BY <1>1 DEF FeedStep, Ask, Hear, Load, Inherit, ReadPrice, Send, Persist, Unheard,
                LoadFails, FeedFails, PersistFails, Restart
  <2>2. QED
    BY <2>1 DEF Next, Step
<1>2. CASE UNCHANGED allVars
  BY <1>2 DEF allVars
<1>3. CASE Move \/ NextDay \/ SnapshotExpires
  BY <1>3 DEF Move, NextDay, SnapshotExpires
<1>4. CASE (MayFault /\ Expire /\ Unfed) \/ (ExpireGone /\ Unfed)
  BY <1>4 DEF Next
<1>5. QED
  BY <1>1, <1>2, <1>3, <1>4 DEF FeedNext

\* Every step keeps the lock with whoever leads.
LEMMA HoldStep == TypeOK /\ LeadersHold /\ [Next]_vars => LeadersHold'
<1> SUFFICES ASSUME TypeOK, LeadersHold, [Next]_vars, expiries' = 0, NEW w \in Worker,
                    token'[w] > 0 \/ (loop'[w].pc = "replying" /\ loop'[w].reply > 0)
             PROVE  lock' = Holder(w)'
  BY DEF LeadersHold
<1> DEFINE leads == token[w] > 0 \/ (loop[w].pc = "replying" /\ loop[w].reply > 0)
<1>1. /\ expiries \in Nat /\ fence \in Nat
      /\ loop \in [Worker -> [pc : {"asleep", "calling", "replying", "reading"}, reply : Nat]]
      /\ token \in [Worker -> Nat] /\ life \in [Worker -> Nat \ {0}]
  BY ElectionAssumption DEF TypeOK
<1>2. leads /\ expiries = 0 => lock = Holder(w)
  BY DEF LeadersHold
<1>3. ASSUME NEW v \in Worker,
             Call(v) \/ Receive(v) \/ Broadcast(v) \/ CallFails(v) \/ TickFails(v)
      PROVE  lock' = Holder(w)'
  <2>1. lock' = lock /\ life' = life /\ expiries' = expiries
    BY <1>3 DEF Call, Receive, Broadcast, CallFails, TickFails
  <2>2. leads
    BY <1>1, <1>3 DEF Call, Receive, Broadcast, CallFails, TickFails, Asleep
  <2>3. QED
    BY <1>2, <2>1, <2>2 DEF Holder
<1>4. ASSUME NEW v \in Worker, Crash(v) PROVE lock' = Holder(w)'
  <2>1. lock' = lock /\ expiries' = expiries /\ w # v
    BY <1>1, <1>4 DEF Crash, Asleep
  <2>2. leads /\ life'[w] = life[w]
    BY <1>1, <1>4, <2>1 DEF Crash
  <2>3. QED
    BY <1>2, <2>1, <2>2 DEF Holder
<1>5. ASSUME NEW v \in Worker, Evaluate(v) PROVE lock' = Holder(w)'
  <2>1. life' = life /\ expiries' = expiries /\ token' = token
    BY <1>5 DEF Evaluate
  <2>2. lock' = Holder(v) \/ (lock' = lock /\ loop'[v].reply = 0)
    BY <1>1, <1>5 DEF Evaluate, Lost
  <2>3. lock' = Holder(v) => lock = Holder(v) \/ lock = Absent
    BY <1>5 DEF Evaluate, Renews
  <2>4. CASE w = v /\ loop'[v].reply > 0
    BY <1>1, <2>1, <2>2, <2>4 DEF Holder
  <2>5. CASE ~(w = v /\ loop'[v].reply > 0)
    <3>1. leads
      BY <1>1, <1>5, <2>1, <2>5 DEF Evaluate
    <3>2. lock = Holder(w) /\ Holder(w) # Absent
      BY <1>2, <2>1, <3>1, HolderType
    <3>3. lock' = Holder(v) => Holder(v) = Holder(w)
      BY <2>3, <3>2
    <3>4. QED
      BY <2>1, <2>2, <3>2, <3>3 DEF Holder
  <2>6. QED
    BY <2>4, <2>5
<1>6. CASE Expire
  BY <1>1, <1>6 DEF Expire
<1>7. CASE ExpireGone \/ UNCHANGED vars
  <2>1. leads /\ expiries = 0 /\ life' = life
    BY <1>7 DEF ExpireGone, vars
  <2>2. lock = Holder(w) /\ lock \in Live
    BY <1>2, <2>1 DEF Live
  <2>3. QED
    BY <1>7, <2>1, <2>2 DEF ExpireGone, vars, Holder
<1>8. QED
  BY <1>3, <1>4, <1>5, <1>6, <1>7 DEF Next, Step

-----------------------------------------------------------------------------
(* The price broadcaster: ticks *)

\* A tick built of a tick is one, and takes the price in.
LEMMA BuiltTick ==
    ASSUME NEW tick \in Ticks, Spans(tick), NEW p \in Nat, today \in Nat \ {0}
    PROVE  /\ Built(tick, p) \in Ticks /\ Spans(Built(tick, p))
           /\ Built(tick, p) # NoTick /\ Built(tick, p).day = today
           /\ tick.day = today => Built(tick, p) = Extended(tick, p)
           /\ tick.day # today => Built(tick, p) = Opened(tick, p)
           /\ tick.day = today /\ tick.price = p => Built(tick, p) = tick
<1>1. /\ tick.price \in Nat /\ tick.day \in Nat /\ tick.open \in Nat /\ tick.high \in Nat
      /\ tick.low \in Nat /\ tick.prev \in Nat
      /\ tick = [price |-> tick.price, day |-> tick.day, open |-> tick.open,
                 high |-> tick.high, low |-> tick.low, prev |-> tick.prev]
  BY DEF Ticks
<1>2. CASE tick.day = today
  <2> DEFINE high == Larger(tick.high, p)  low == Smaller(tick.low, p)
             built == [tick EXCEPT !.price = p, !.high = high, !.low = low]
  <2>1. high \in Nat /\ low \in Nat /\ low <= p /\ p <= high
    BY <1>1 DEF Larger, Smaller
  <2>2. tick.price = p => high = tick.high /\ low = tick.low
    BY <1>1 DEF Spans, Larger, Smaller
  <2>3. Built(tick, p) = built /\ Extended(tick, p) = built
    BY <1>2 DEF Built, Extended
  <2> HIDE DEF high, low
  <2>4. /\ built \in Ticks /\ built.price = p /\ built.high = high /\ built.low = low
        /\ built.day = tick.day /\ built.open = tick.open /\ built.prev = tick.prev
    BY <2>1 DEF Ticks
  <2>5. tick.price = p => built = tick
    BY <2>2 DEF Ticks
  <2> HIDE DEF built
  <2>6. built # NoTick
    BY <1>2, <2>4 DEF NoTick
  <2>7. Spans(built)
    BY <1>2, <2>1, <2>4 DEF Spans
  <2>8. QED
    BY <1>2, <2>3, <2>4, <2>5, <2>6, <2>7
<1>3. CASE tick.day # today
  BY <1>1, <1>3 DEF Built, Opened, Ticks, Spans, NoTick
<1>4. QED
  BY <1>2, <1>3
-----------------------------------------------------------------------------
(* The price broadcaster: types *)

\* Every step of the broadcaster keeps the types.
LEMMA FeedTypeStep == FeedTypeOK /\ TicksSpan /\ [FeedNext]_allVars => FeedTypeOK'
<1> SUFFICES ASSUME FeedTypeOK, TicksSpan, [FeedNext]_allVars PROVE FeedTypeOK'
  OBVIOUS
<1> USE FeedAssumption
<1> DEFINE FeedType == [stage : {"idle", "load", "read", "send", "persist"},
                        was : BOOLEAN, loaded : BOOLEAN, tick : Ticks, seen : Nat]
<1>1. TypeOK'
  BY FeedIsElection, TypeStep DEF FeedTypeOK
<1>2. /\ NoTick \in Ticks /\ NewFeed \in FeedType
      /\ today \in Nat \ {0} /\ price \in Nat \ {0} /\ today <= MaxDay
  BY DEF FeedTypeOK, NoTick, NewFeed, Ticks
<1>3. ASSUME NEW w \in Worker,
             \/ FeedStep(w) \/ Unheard(w) \/ LoadFails(w) \/ FeedFails(w)
             \/ PersistFails(w) \/ Restart(w)
      PROVE  FeedTypeOK'
  <2>1. price' = price /\ today' = today /\ moves' = moves
    BY <1>3 DEF FeedStep, Ask, Hear, Unfed, feedVars, Load, Inherit, ReadPrice, Send, Persist,
                Unheard, LoadFails, FeedFails, PersistFails, Restart
  <2>2. misses' \in 0 .. MaxMisses
    BY <1>3 DEF FeedTypeOK, FeedStep, Ask, Hear, Unfed, feedVars, Load, Inherit, ReadPrice,
                Send, Persist, Unheard, LoadFails, FeedFails, PersistFails, Restart, Miss
  <2>3. feed[w] \in FeedType /\ feed[w].tick \in Ticks
    BY DEF FeedTypeOK
  <2>4. feed' = feed \/ \E next \in FeedType : Becomes(w, next)
    <3>1. CASE Ask(w)
      <4>1. IsLeader(w) \in BOOLEAN
        BY DEF IsLeader
      <4>2. [feed[w] EXCEPT !.was = IsLeader(w)] \in FeedType
        BY <2>3, <4>1
      <4>3. QED
        BY <3>1, <4>2 DEF Ask
    <3>2. CASE Hear(w)
      BY <2>3, <3>2 DEF Hear
    <3>3. CASE Load(w) \/ LoadFails(w)
      BY <1>2, <2>3, <3>3 DEF Load, LoadFails, Inherit, FeedTypeOK
    <3>4. CASE ReadPrice(w)
      BY <1>2, <2>3, <3>4 DEF ReadPrice
    <3>5. CASE Send(w)
      <4>1. Built(feed[w].tick, feed[w].seen) \in Ticks
        BY <1>2, <2>3, BuiltTick DEF TicksSpan
      <4>2. Becomes(w, [feed[w] EXCEPT !.stage = "persist",
                               !.tick = Built(feed[w].tick, feed[w].seen), !.seen = 0])
        BY <3>5 DEF Send
      <4>3. QED
        BY <2>3, <4>1, <4>2
    <3>6. CASE Persist(w) \/ PersistFails(w) \/ Unheard(w) \/ FeedFails(w)
      BY <2>3, <3>6 DEF Persist, PersistFails, Unheard, FeedFails
    <3>7. CASE Restart(w)
      BY <1>2, <3>7 DEF Restart
    <3>8. CASE Evaluate(w) /\ Unfed
      BY <3>8 DEF Unfed, feedVars
    <3>9. QED
      BY <1>3, <3>1, <3>2, <3>3, <3>4, <3>5, <3>6, <3>7, <3>8 DEF FeedStep
  <2>5. snapshot' \in Ticks /\ shown' \in Ticks
    <3>1. CASE Send(w)
      <4>1. shown' = shown \/ shown' = Built(feed[w].tick, feed[w].seen)
        BY <3>1 DEF Send
      <4>2. Built(feed[w].tick, feed[w].seen) \in Ticks
        BY <1>2, <2>3, BuiltTick DEF TicksSpan
      <4>3. QED
        BY <3>1, <4>1, <4>2 DEF Send, FeedTypeOK
    <3>2. CASE ~Send(w)
      BY <1>3, <2>3, <3>2 DEF FeedTypeOK, FeedStep, Ask, Hear, Unfed, feedVars, Load, Inherit,
         ReadPrice, Persist, Unheard, LoadFails, FeedFails, PersistFails, Restart
    <3>3. QED
      BY <3>1, <3>2
  <2>6. QED
    BY <1>1, <1>2, <2>1, <2>2, <2>4, <2>5 DEF FeedTypeOK, Becomes
<1>4. CASE UNCHANGED feedVars
  BY <1>1, <1>4 DEF FeedTypeOK, feedVars
<1>5. CASE Move \/ NextDay \/ SnapshotExpires
  BY <1>1, <1>2, <1>5 DEF FeedTypeOK, Move, NextDay, SnapshotExpires, Miss
<1>6. QED
  BY <1>3, <1>4, <1>5 DEF FeedNext, Unfed, allVars
-----------------------------------------------------------------------------
(* The price broadcaster: places *)

\* The other workers' loops and broadcasters are as they were.
Others(w) ==
    \A v \in Worker \ {w} : loop'[v] = loop[v] /\ token'[v] = token[v] /\ feed'[v] = feed[v]

PlaceOf(w) ==
    /\ feed[w].stage # "idle" => token[w] > 0
    /\ loop[w].pc \in {"calling", "replying"} =>
          feed[w].stage = "idle" /\ (feed[w].was => token[w] > 0)
    /\ loop[w].pc = "reading" => feed[w].stage \in {"load", "read", "send"}

\* A step of a worker changes nothing of another's loop or broadcaster.
LEMMA OthersStay ==
    ASSUME FeedTypeOK, NEW w \in Worker,
           \/ FeedStep(w) \/ Unheard(w) \/ LoadFails(w) \/ FeedFails(w)
           \/ PersistFails(w) \/ Restart(w)
    PROVE  Others(w)
<1> SUFFICES ASSUME NEW v \in Worker \ {w}
             PROVE  loop'[v] = loop[v] /\ token'[v] = token[v] /\ feed'[v] = feed[v]
  BY DEF Others
<1>1. feed'[v] = feed[v]
  BY DEF FeedTypeOK, FeedStep, Ask, Hear, Unfed, feedVars, Load, Inherit, ReadPrice, Send,
         Persist, Unheard, LoadFails, FeedFails, PersistFails, Restart, Becomes
<1>2. \/ Call(w) \/ Receive(w) \/ Evaluate(w) \/ Broadcast(w) \/ CallFails(w)
      \/ TickFails(w) \/ Crash(w) \/ UNCHANGED vars
  BY DEF FeedStep, Ask, Hear, Load, Inherit, ReadPrice, Send, Persist, Unheard,
         LoadFails, FeedFails, PersistFails, Restart
<1>3. loop'[v] = loop[v] /\ token'[v] = token[v]
  BY <1>2 DEF FeedTypeOK, TypeOK, Call, Receive, Evaluate, Broadcast, CallFails, TickFails,
              Crash, vars
<1>4. QED
  BY <1>1, <1>3

\* Every step keeps a broadcaster in the place its election says.
LEMMA PlacesStep == FeedTypeOK /\ Places /\ [FeedNext]_allVars => Places'
<1> SUFFICES ASSUME FeedTypeOK, Places, [FeedNext]_allVars PROVE Places'
  OBVIOUS
<1>1. \A v \in Worker : PlaceOf(v)
  BY DEF Places, PlaceOf
<1>2. SUFFICES \A v \in Worker : PlaceOf(v)'
  BY DEF Places, PlaceOf
<1>3. ASSUME NEW w \in Worker,
             \/ FeedStep(w) \/ Unheard(w) \/ LoadFails(w) \/ FeedFails(w)
             \/ PersistFails(w) \/ Restart(w)
      PROVE  \A v \in Worker : PlaceOf(v)'
  <2> DEFINE l == loop[w]  t == token[w]  f == feed[w]
  <2>1. Others(w)
    BY <1>3, OthersStay
  <2>2. /\ l \in [pc : {"asleep", "calling", "replying", "reading"}, reply : Nat]
        /\ t \in Nat
        /\ f \in [stage : {"idle", "load", "read", "send", "persist"},
                  was : BOOLEAN, loaded : BOOLEAN, tick : Ticks, seen : Nat]
    BY DEF FeedTypeOK, TypeOK
  <2>3. PlaceOf(w)'
    <3>0. /\ f.stage # "idle" => t > 0
          /\ l.pc \in {"calling", "replying"} => f.stage = "idle" /\ (f.was => t > 0)
          /\ l.pc = "reading" => f.stage \in {"load", "read", "send"}
      BY <1>1 DEF PlaceOf
    <3>1. CASE Ask(w)
      <4>1. /\ l.pc = "asleep" /\ loop'[w] = [l EXCEPT !.pc = "calling"] /\ token'[w] = t
            /\ f.stage = "idle" /\ feed'[w] = [f EXCEPT !.was = IsLeader(w)]
        BY <3>1 DEF Ask, Call, Becomes, FeedTypeOK, TypeOK
      <4>2. feed'[w].stage = "idle" /\ feed'[w].was = IsLeader(w) /\ loop'[w].pc = "calling"
        BY <2>2, <4>1
      <4>3. QED
        BY <2>2, <4>1, <4>2 DEF PlaceOf, IsLeader
    <3>2. CASE Hear(w)
      <4> DEFINE next == IF ~(l.reply > 0) THEN "idle"
                         ELSE IF Inherits(f) THEN "load" ELSE "read"
      <4>1. /\ l.pc = "replying" /\ token'[w] = l.reply
            /\ l.reply > 0 => loop'[w].pc = "reading"
            /\ ~(l.reply > 0) => loop'[w].pc = "asleep"
        BY <2>2, <3>2 DEF Hear, Receive, FeedTypeOK, TypeOK, Asleep
      <4>2. feed'[w] = [f EXCEPT !.stage = next]
        BY <3>2, <4>1 DEF Hear, Becomes, FeedTypeOK
      <4>3. feed'[w].stage = next /\ feed'[w].was = f.was
        BY <2>2, <4>2
      <4>4. QED
        BY <2>2, <4>1, <4>3 DEF PlaceOf
    <3>3. CASE Load(w) \/ LoadFails(w)
      <4>1. PICK x : /\ f.stage = "load" /\ loop' = loop /\ token' = token
                     /\ Becomes(w, [f EXCEPT !.stage = "read", !.loaded = TRUE, !.tick = x])
        BY <3>3 DEF Load, LoadFails, Inherit, vars
      <4>2. feed'[w].stage = "read"
        BY <2>2, <4>1 DEF Becomes, FeedTypeOK
      <4>3. QED
        BY <2>2, <3>0, <4>1, <4>2 DEF PlaceOf
    <3>4. CASE ReadPrice(w)
      <4>1. /\ f.stage = "read" /\ loop' = loop /\ token' = token
            /\ feed'[w].stage = "send" /\ feed'[w].was = f.was
        BY <2>2, <3>4 DEF ReadPrice, Becomes, FeedTypeOK, vars
      <4>2. QED
        BY <2>2, <3>0, <4>1 DEF PlaceOf
    <3>5. CASE Send(w)
      <4>1. f.stage = "send" /\ token' = token /\ loop'[w].pc = "asleep"
        BY <2>2, <3>5 DEF Send, Broadcast, FeedTypeOK, TypeOK, Asleep
      <4>2. QED
        BY <2>2, <3>0, <4>1 DEF PlaceOf
    <3>6. CASE Persist(w) \/ PersistFails(w)
      <4>1. /\ f.stage = "persist" /\ loop' = loop /\ token' = token
            /\ feed'[w].stage = "idle" /\ feed'[w].was = f.was
        BY <2>2, <3>6 DEF Persist, PersistFails, Becomes, FeedTypeOK, vars
      <4>2. l.pc = "asleep"
        BY <2>2, <3>0, <4>1
      <4>3. QED
        BY <4>1, <4>2 DEF PlaceOf
    <3>7. CASE Unheard(w) \/ FeedFails(w) \/ Restart(w)
      <4>1. loop'[w].pc = "asleep" /\ feed'[w].stage = "idle"
        BY <2>2, <3>7 DEF Unheard, FeedFails, Restart, CallFails, TickFails, Crash, Becomes,
                          NewFeed, Asleep, FeedTypeOK, TypeOK
      <4>2. QED
        BY <4>1 DEF PlaceOf
    <3>8. CASE Evaluate(w) /\ Unfed
      <4>1. /\ l.pc = "calling" /\ loop'[w].pc = "replying"
            /\ token' = token /\ feed' = feed
        BY <2>2, <3>8 DEF Evaluate, Unfed, feedVars, FeedTypeOK, TypeOK
      <4>2. QED
        BY <3>0, <4>1 DEF PlaceOf
    <3>9. QED
      BY <1>3, <3>1, <3>2, <3>3, <3>4, <3>5, <3>6, <3>7, <3>8 DEF FeedStep
  <2>4. QED
    BY <1>1, <2>1, <2>3 DEF PlaceOf, Others
<1>4. CASE UNCHANGED <<loop, token, feed>>
  BY <1>1, <1>4 DEF PlaceOf
<1>5. (Expire \/ ExpireGone) /\ Unfed => UNCHANGED <<loop, token, feed>>
  BY DEF Expire, ExpireGone, Unfed, feedVars
<1>6. Move \/ NextDay \/ SnapshotExpires \/ UNCHANGED allVars =>
          UNCHANGED <<loop, token, feed>>
  BY DEF Move, NextDay, SnapshotExpires, allVars, vars, feedVars
<1>7. QED
  BY <1>3, <1>4, <1>5, <1>6 DEF FeedNext
-----------------------------------------------------------------------------
(* The price broadcaster: the session *)

Known(tick) ==
    tick = NoTick \/ tick = shown \/ tick = snapshot \/ \E v \in Worker : tick = feed[v].tick

\* A tick that is built in a step, or was there before it.
Sourced(tick) ==
    \/ Known(tick)
    \/ \E v \in Worker : tick = Built(feed[v].tick, feed[v].seen)

\* No step invents a tick.
LEMMA TicksSourced ==
    ASSUME FeedTypeOK, [FeedNext]_allVars
    PROVE  /\ Sourced(shown') /\ Sourced(snapshot') /\ \A v \in Worker : Sourced(feed'[v].tick)
           /\ today' \in Nat /\ today <= today'
<1>1. ASSUME NEW w \in Worker,
             \/ FeedStep(w) \/ Unheard(w) \/ LoadFails(w) \/ FeedFails(w)
             \/ PersistFails(w) \/ Restart(w)
      PROVE  /\ today' = today
             /\ Sourced(shown') /\ Sourced(snapshot') /\ Sourced(feed'[w].tick)
             /\ \A v \in Worker \ {w} : feed'[v].tick = feed[v].tick
  <2> DEFINE f == feed[w]
  <2>1. f \in [stage : {"idle", "load", "read", "send", "persist"},
               was : BOOLEAN, loaded : BOOLEAN, tick : Ticks, seen : Nat]
    BY DEF FeedTypeOK
  <2>2. \A v \in Worker \ {w} : feed'[v].tick = feed[v].tick
    BY <1>1, OthersStay DEF Others
  <2>3. ASSUME NEW stage, NEW was, NEW loaded, NEW tick, NEW seen,
               \/ Becomes(w, [f EXCEPT !.stage = stage, !.loaded = loaded, !.tick = tick])
               \/ Becomes(w, [f EXCEPT !.stage = stage, !.tick = tick, !.seen = seen])
        PROVE  feed'[w].tick = tick
    BY <2>1, <2>3 DEF Becomes, FeedTypeOK
  <2>4. CASE Ask(w)
    BY <2>1, <2>2, <2>4 DEF Ask, Becomes, FeedTypeOK, Sourced, Known
  <2>5. CASE Hear(w)
    <3>1. PICK stage : Becomes(w, [f EXCEPT !.stage = stage])
      BY <2>5 DEF Hear
    <3>2. feed'[w].tick = f.tick
      BY <2>1, <3>1 DEF Becomes, FeedTypeOK
    <3>3. QED
      BY <2>2, <2>5, <3>2 DEF Hear, Sourced, Known
  <2>6. CASE Load(w) \/ LoadFails(w)
    <3>1. PICK tick : /\ tick \in {f.tick, snapshot, NoTick}
                      /\ Becomes(w, [f EXCEPT !.stage = "read", !.loaded = TRUE, !.tick = tick])
      BY <2>6 DEF Load, LoadFails, Inherit
    <3>2. feed'[w].tick = tick
      BY <2>3, <3>1
    <3>3. QED
      BY <2>2, <2>6, <3>1, <3>2 DEF Load, LoadFails, Inherit, Sourced, Known
  <2>7. CASE ReadPrice(w)
    BY <2>1, <2>2, <2>7 DEF ReadPrice, Becomes, FeedTypeOK, Sourced, Known
  <2>8. CASE Send(w)
    <3>1. feed'[w].tick = Built(f.tick, f.seen)
      BY <2>3, <2>8 DEF Send
    <3>2. QED
      BY <2>2, <2>8, <3>1 DEF Send, Sourced, Known
  <2>9. CASE Persist(w) \/ PersistFails(w) \/ Unheard(w) \/ FeedFails(w)
    <3>1. Becomes(w, [f EXCEPT !.stage = "idle"])
      BY <2>9 DEF Persist, PersistFails, Unheard, FeedFails
    <3>2. feed'[w].tick = f.tick
      BY <2>1, <3>1 DEF Becomes, FeedTypeOK
    <3>3. QED
      BY <2>2, <2>9, <3>2 DEF Persist, PersistFails, Unheard, FeedFails, Sourced, Known
  <2>10. CASE Restart(w)
    BY <2>2, <2>10 DEF Restart, Becomes, NewFeed, FeedTypeOK, Sourced, Known
  <2>11. CASE Evaluate(w) /\ Unfed
    BY <2>11 DEF Unfed, feedVars, Sourced, Known
  <2>12. QED
    BY <1>1, <2>4, <2>5, <2>6, <2>7, <2>8, <2>9, <2>10, <2>11, <2>2 DEF FeedStep
<1>2. CASE Unfed \/ Move \/ NextDay \/ SnapshotExpires
  BY <1>2 DEF FeedTypeOK, Unfed, feedVars, Move, NextDay, SnapshotExpires, Sourced, Known
<1>3. today \in Nat
  BY DEF FeedTypeOK
<1>4. CASE \E w \in Worker : \/ FeedStep(w) \/ Unheard(w) \/ LoadFails(w) \/ FeedFails(w)
                             \/ PersistFails(w) \/ Restart(w)
  <2>1. PICK w \in Worker : \/ FeedStep(w) \/ Unheard(w) \/ LoadFails(w) \/ FeedFails(w)
                            \/ PersistFails(w) \/ Restart(w)
    BY <1>4
  <2>2. \A v \in Worker : Sourced(feed'[v].tick)
    BY <1>1, <2>1 DEF Sourced, Known
  <2>3. QED
    BY <1>1, <1>3, <2>1, <2>2
<1>5. QED
  BY <1>2, <1>4 DEF FeedNext, Unfed, allVars

\* In every tick the price lies between the low and the high, and the day has begun.
LEMMA SpansStep == FeedTypeOK /\ TicksSpan /\ [FeedNext]_allVars => TicksSpan'
<1> SUFFICES ASSUME FeedTypeOK, TicksSpan, [FeedNext]_allVars PROVE TicksSpan'
  OBVIOUS
<1>1. /\ NoTick \in Ticks /\ shown \in Ticks /\ snapshot \in Ticks
      /\ \A v \in Worker : feed[v].tick \in Ticks /\ feed[v].seen \in Nat
      /\ today \in Nat \ {0}
  BY FeedAssumption DEF FeedTypeOK, NoTick, Ticks
<1>2. \A v \in Worker : /\ Built(feed[v].tick, feed[v].seen) \in Ticks
                         /\ Spans(Built(feed[v].tick, feed[v].seen))
  BY <1>1, BuiltTick DEF TicksSpan
<1>3. Spans(NoTick)
  BY <1>1 DEF Spans, NoTick
<1>4. \A tick : Sourced(tick) => tick \in Ticks /\ Spans(tick)
  BY <1>1, <1>2, <1>3 DEF Sourced, Known, TicksSpan
<1>5. /\ today' \in Nat /\ today <= today'
      /\ Sourced(shown') /\ Sourced(snapshot') /\ \A v \in Worker : Sourced(feed'[v].tick)
  BY TicksSourced
<1>6. \A tick : Sourced(tick) =>
          tick.low <= tick.price /\ tick.price <= tick.high /\ tick.day <= today'
  BY <1>1, <1>4, <1>5 DEF Spans, Ticks
<1>7. QED
  BY <1>5, <1>6 DEF TicksSpan, Spans
\* Only one worker leads while no lock expired under a live leader.
LEMMA OneLeads ==
    ASSUME TypeOK, LeadersHold, expiries = 0, NEW v \in Worker, NEW w \in Worker,
           token[v] > 0, token[w] > 0
    PROVE  v = w
  BY DEF LeadersHold, Holder

\* A step in which no worker comes to lead, or to the end of its loading, keeps what the
\* sessions are.
LEMMA KeptQuietly ==
    ASSUME SessionKept, shown' = shown, snapshot' = snapshot,
           expiries' = 0 => expiries = 0, misses' = 0 => misses = 0,
           \A v \in Worker :
              /\ token'[v] > 0 /\ feed'[v].stage # "load" =>
                    token[v] > 0 /\ feed[v].stage # "load" /\ feed'[v].tick = feed[v].tick
              /\ feed'[v].tick \in {feed[v].tick, NoTick}
              /\ feed[v].stage = "persist" /\ misses' = 0 => feed'[v].stage = "persist"
    PROVE  SessionKept'
  BY DEF SessionKept

\* Every step keeps the sessions at what is shown.
LEMMA KeptStep == FeedInv /\ [FeedNext]_allVars => SessionKept'
<1> SUFFICES ASSUME FeedInv, [FeedNext]_allVars PROVE SessionKept'
  OBVIOUS
<1>0. FeedTypeOK /\ TypeOK /\ LeadersHold /\ TicksSpan /\ SessionKept
  BY DEF FeedInv, FeedTypeOK
<1>1. \A v \in Worker : PlaceOf(v)
  BY DEF FeedInv, Places, PlaceOf
<1>2. expiries \in Nat /\ misses \in Nat
  BY ElectionAssumption, FeedAssumption DEF FeedInv, FeedTypeOK, TypeOK
<1>3. ASSUME NEW w \in Worker,
             \/ FeedStep(w) \/ Unheard(w) \/ LoadFails(w) \/ FeedFails(w)
             \/ PersistFails(w) \/ Restart(w)
      PROVE  SessionKept'
  <2> DEFINE l == loop[w]  t == token[w]  f == feed[w]
  <2>1. Others(w)
    BY <1>0, <1>3, OthersStay
  <2>2. /\ l \in [pc : {"asleep", "calling", "replying", "reading"}, reply : Nat]
        /\ t \in Nat
        /\ f \in [stage : {"idle", "load", "read", "send", "persist"},
                  was : BOOLEAN, loaded : BOOLEAN, tick : Ticks, seen : Nat]
    BY <1>0 DEF FeedTypeOK, TypeOK
  <2>3. /\ f.stage # "idle" => t > 0
        /\ l.pc \in {"calling", "replying"} => f.stage = "idle" /\ (f.was => t > 0)
    BY <1>1 DEF PlaceOf
  <2>4. expiries' = expiries
    BY <1>3 DEF FeedStep, Ask, Call, Hear, Receive, Evaluate, Load, Inherit, ReadPrice, Send,
         Broadcast, Persist, Unheard, CallFails, LoadFails, FeedFails, TickFails,
         PersistFails, Restart, Crash, vars
  <2>5. misses' = misses \/ misses' = misses + 1
    BY <1>3 DEF FeedStep, Ask, Hear, Load, LoadFails, Inherit, ReadPrice, Send, Persist,
         Unheard, FeedFails, PersistFails, Restart, Miss, Unfed, feedVars
  <2>6. misses' = 0 => misses = 0 /\ misses' = misses
    BY <1>2, <2>5
  <2>7. ASSUME shown' = shown, snapshot' = snapshot,
               token'[w] > 0 /\ feed'[w].stage # "load" =>
                    t > 0 /\ f.stage # "load" /\ feed'[w].tick = f.tick,
               feed'[w].tick \in {f.tick, NoTick},
               f.stage = "persist" /\ misses' = 0 => feed'[w].stage = "persist"
        PROVE  SessionKept'
    BY <1>0, <2>1, <2>4, <2>6, <2>7, KeptQuietly DEF Others
  <2>8. CASE \/ Ask(w) \/ ReadPrice(w) \/ FeedFails(w) \/ Unheard(w)
             \/ (Evaluate(w) /\ Unfed)
    <3>1. /\ shown' = shown /\ snapshot' = snapshot /\ f.stage \notin {"load", "persist"}
          /\ token'[w] = t \/ token'[w] = 0
      BY <1>0, <2>2, <2>3, <2>8 DEF FeedTypeOK, TypeOK, Ask, Call, ReadPrice, FeedFails,
           TickFails, Unheard, CallFails, Evaluate, Unfed, feedVars, vars
    <3>2. feed'[w].tick = f.tick
      <4>1. CASE Ask(w)
        <5>1. PICK was : Becomes(w, [f EXCEPT !.was = was])
          BY <4>1 DEF Ask
        <5>2. QED
          BY <1>0, <2>2, <5>1 DEF FeedTypeOK, Becomes
      <4>2. CASE ReadPrice(w)
        BY <1>0, <2>2, <4>2 DEF FeedTypeOK, ReadPrice, Becomes
      <4>3. CASE FeedFails(w) \/ Unheard(w)
        BY <1>0, <2>2, <4>3 DEF FeedTypeOK, FeedFails, Unheard, Becomes
      <4>4. CASE Evaluate(w) /\ Unfed
        BY <4>4 DEF Unfed, feedVars
      <4>5. QED
        BY <2>8, <4>1, <4>2, <4>3, <4>4
    <3>3. QED
      BY <2>7, <3>1, <3>2
  <2>9. CASE Hear(w)
    <3> DEFINE next == IF ~(l.reply > 0) THEN "idle"
                       ELSE IF Inherits(f) THEN "load" ELSE "read"
    <3>1. l.pc = "replying" /\ token'[w] = l.reply
      BY <1>0, <2>9 DEF Hear, Receive, FeedTypeOK, TypeOK
    <3>2. feed'[w] = [f EXCEPT !.stage = next]
      BY <1>0, <2>9, <3>1 DEF Hear, Becomes, FeedTypeOK
    <3>3. feed'[w].stage = next /\ feed'[w].tick = f.tick
      BY <2>2, <3>2
    <3>4. token'[w] > 0 /\ feed'[w].stage # "load" => f.was
      BY <3>1, <3>3 DEF Inherits
    <3>5. f.stage = "idle" /\ (f.was => t > 0)
      BY <2>3, <3>1
    <3>6. shown' = shown /\ snapshot' = snapshot
      BY <2>9 DEF Hear
    <3>7. QED
      BY <2>7, <3>3, <3>4, <3>5, <3>6
  <2>10. CASE Restart(w)
    <3>1. /\ shown' = shown /\ snapshot' = snapshot /\ token'[w] = 0
          /\ feed'[w].tick = NoTick
      BY <1>0, <2>10 DEF FeedTypeOK, TypeOK, Restart, Crash, Becomes, NewFeed
    <3>2. f.stage = "persist" => misses' = misses + 1
      BY <2>10 DEF Restart, Miss
    <3>3. QED
      BY <1>2, <2>7, <3>1, <3>2
  <2>11. CASE LoadFails(w) \/ PersistFails(w)
    <3>1. misses' = misses + 1
      BY <2>11 DEF LoadFails, PersistFails, Miss
    <3>2. QED
      BY <1>2, <3>1 DEF SessionKept
  <2>12. SUFFICES ASSUME expiries' = 0, misses' = 0, Load(w) \/ Send(w) \/ Persist(w)
                  PROVE  SessionKept'
    BY <1>3, <2>8, <2>9, <2>10, <2>11 DEF FeedStep, SessionKept
  <2>13. /\ expiries = 0 /\ misses = 0
         /\ \A v \in Worker :
               /\ token[v] > 0 /\ feed[v].stage # "load" => feed[v].tick = shown
               /\ shown = NoTick => feed[v].tick = NoTick
         /\ (\A v \in Worker : feed[v].stage # "persist") => snapshot = shown
    BY <1>0, <2>4, <2>6, <2>12 DEF SessionKept
  <2>14. t > 0 /\ token'[w] = t
    BY <1>0, <2>2, <2>3, <2>12 DEF Load, Inherit, Send, Persist, Broadcast, vars
  <2>15. \A v \in Worker \ {w} : ~(token[v] > 0) /\ feed[v].stage = "idle"
    <3>1. \A v \in Worker : token[v] > 0 => v = w
      BY <1>0, <2>13, <2>14, OneLeads
    <3>2. QED
      BY <1>1, <3>1 DEF PlaceOf
  <2>16. CASE Load(w)
    <3>1. /\ f.stage = "load" /\ shown' = shown /\ snapshot' = snapshot
          /\ Becomes(w, [f EXCEPT !.stage = "read", !.loaded = TRUE,
                                  !.tick = IF snapshot = NoTick THEN f.tick ELSE snapshot])
      BY <2>16 DEF Load, Inherit
    <3>2. snapshot = shown
      BY <2>13, <2>15, <3>1
    <3>3. (IF snapshot = NoTick THEN f.tick ELSE snapshot) = shown
      BY <2>13, <3>2
    <3>4. feed'[w].tick = shown /\ feed'[w].stage = "read"
      BY <1>0, <2>2, <3>1, <3>3 DEF Becomes, FeedTypeOK
    <3>5. QED
      BY <2>1, <2>13, <2>15, <3>1, <3>2, <3>4 DEF SessionKept, Others
  <2>17. CASE Send(w)
    <3> DEFINE tick == Built(f.tick, f.seen)
    <3>1. /\ f.stage = "send" /\ shown' = IF Quiet(f) THEN shown ELSE tick
          /\ Becomes(w, [f EXCEPT !.stage = "persist", !.tick = tick, !.seen = 0])
      BY <2>17 DEF Send
    <3>2. f.tick = shown
      BY <2>13, <2>14, <3>1
    <3>3. /\ tick # NoTick
          /\ Quiet(f) => tick = f.tick
      <4>1. today \in Nat \ {0} /\ f.tick \in Ticks /\ f.seen \in Nat /\ Spans(f.tick)
        BY <1>0, <2>2, FeedAssumption DEF FeedTypeOK, TicksSpan
      <4>2. QED
        BY <4>1, BuiltTick DEF Quiet
    <3> HIDE DEF tick
    <3>4. shown' = tick /\ shown' # NoTick
      BY <3>1, <3>2, <3>3
    <3>5. feed'[w].tick = tick /\ feed'[w].stage = "persist"
      BY <1>0, <2>2, <3>1 DEF Becomes, FeedTypeOK
    <3>6. QED
      BY <2>1, <2>13, <2>15, <3>4, <3>5 DEF SessionKept, Others
  <2>18. CASE Persist(w)
    <3>1. /\ f.stage = "persist" /\ shown' = shown /\ snapshot' = f.tick
          /\ Becomes(w, [f EXCEPT !.stage = "idle"])
      BY <2>18 DEF Persist
    <3>2. f.tick = shown
      BY <2>13, <2>14, <3>1
    <3>3. feed'[w].tick = f.tick /\ feed'[w].stage = "idle"
      BY <1>0, <2>2, <3>1 DEF Becomes, FeedTypeOK
    <3>4. QED
      BY <2>1, <2>13, <2>15, <3>1, <3>2, <3>3 DEF SessionKept, Others
  <2>19. QED
    BY <2>12, <2>16, <2>17, <2>18
<1>4. CASE (MayFault /\ Expire /\ Unfed) \/ (ExpireGone /\ Unfed)
  BY <1>0, <1>2, <1>4, KeptQuietly DEF Expire, ExpireGone, Unfed, feedVars
<1>5. CASE Move \/ NextDay \/ UNCHANGED allVars
  BY <1>0, <1>5, KeptQuietly DEF Move, NextDay, allVars, vars, feedVars
<1>6. CASE SnapshotExpires
  BY <1>2, <1>6 DEF SnapshotExpires, Miss, SessionKept
<1>7. QED
  BY <1>3, <1>4, <1>5, <1>6 DEF FeedNext

-----------------------------------------------------------------------------
(* The price broadcaster: what is shown *)

SessionStep ==
    shown' # shown /\ shown # NoTick /\ expiries = 0 /\ misses = 0 =>
        IF shown'.day = shown.day
        THEN /\ shown'.open = shown.open /\ shown'.prev = shown.prev
             /\ shown'.high = Larger(shown.high, shown'.price)
             /\ shown'.low = Smaller(shown.low, shown'.price)
        ELSE shown'.day > shown.day /\ shown'.prev = shown.price

\* A tick that is sent goes on from the one that is shown.
LEMMA ShownStep == FeedInv /\ [FeedNext]_allVars => SessionStep
<1> SUFFICES ASSUME FeedInv, [FeedNext]_allVars, shown' # shown, shown # NoTick,
                    expiries = 0, misses = 0
             PROVE  IF shown'.day = shown.day
                    THEN /\ shown'.open = shown.open /\ shown'.prev = shown.prev
                         /\ shown'.high = Larger(shown.high, shown'.price)
                         /\ shown'.low = Smaller(shown.low, shown'.price)
                    ELSE shown'.day > shown.day /\ shown'.prev = shown.price
  BY DEF SessionStep
<1>1. PICK w \in Worker : Send(w)
  BY DEF FeedNext, FeedStep, Ask, Hear, Unfed, feedVars, Load, Inherit, ReadPrice, Persist,
         Unheard, LoadFails, FeedFails, PersistFails, Restart, Move, NextDay,
         SnapshotExpires, allVars
<1> DEFINE p == feed[w].seen
<1>2. feed[w].stage = "send" /\ token[w] > 0
  BY <1>1 DEF Send, Broadcast, IsLeader
<1>3. feed[w].tick = shown
  BY <1>2 DEF FeedInv, SessionKept
<1>4. shown' = Built(shown, p)
  BY <1>1, <1>3 DEF Send
<1>5. today \in Nat \ {0} /\ shown \in Ticks /\ p \in Nat /\ Spans(shown)
  BY FeedAssumption DEF FeedInv, FeedTypeOK, TicksSpan
<1>6. shown'.day = today /\ shown.day \in Nat /\ shown.day <= today
  BY <1>4, <1>5, BuiltTick DEF Spans, Ticks
<1>7. CASE shown.day = today
  <2> DEFINE high == Larger(shown.high, p)  low == Smaller(shown.low, p)
             tick == [shown EXCEPT !.price = p, !.high = high, !.low = low]
  <2>1. shown' = tick
    BY <1>4, <1>5, <1>7, BuiltTick DEF Extended
  <2> HIDE DEF high, low
  <2>2. /\ tick.price = p /\ tick.high = high /\ tick.low = low
        /\ tick.open = shown.open /\ tick.prev = shown.prev
    BY <1>5 DEF Ticks
  <2>3. QED
    BY <1>6, <1>7, <2>1, <2>2 DEF high, low
<1>8. CASE shown.day # today
  <2>1. shown' = Opened(shown, p)
    BY <1>4, <1>5, <1>8, BuiltTick
  <2>2. shown'.prev = shown.price
    BY <2>1 DEF Opened
  <2>3. QED
    BY <1>5, <1>6, <1>8, <2>2
<1>9. QED
  BY <1>7, <1>8

\* The invariant holds before a worker has asked for the lock.
LEMMA FeedStarts == FeedInit => FeedInv
<1> SUFFICES ASSUME FeedInit PROVE FeedInv
  OBVIOUS
<1>1. TypeOK
  BY Initially DEF FeedInit, IInv
<1>2. NoTick \in Ticks /\ price \in Price /\ price \in Nat
  BY FeedAssumption DEF FeedInit, NoTick, Ticks
<1>3. FeedTypeOK
  BY <1>1, <1>2, FeedAssumption DEF FeedInit, FeedTypeOK, NewFeed
<1>4. LeadersHold /\ Places
  BY DEF FeedInit, Init, LeadersHold, Places, Asleep, NewFeed
<1>5. TicksSpan /\ SessionKept
  BY DEF FeedInit, TicksSpan, SessionKept, Spans, NoTick, NewFeed
<1>6. QED
  BY <1>3, <1>4, <1>5 DEF FeedInv

\* Every step of the broadcaster keeps it.
LEMMA FeedInductive == FeedInv /\ [FeedNext]_allVars => FeedInv'
<1> SUFFICES ASSUME FeedInv, [FeedNext]_allVars PROVE FeedInv'
  OBVIOUS
<1>1. FeedTypeOK /\ TypeOK /\ LeadersHold /\ Places /\ TicksSpan
  BY DEF FeedInv, FeedTypeOK
<1>2. FeedTypeOK' /\ Places' /\ TicksSpan'
  BY <1>1, FeedTypeStep, PlacesStep, SpansStep
<1>3. LeadersHold'
  BY <1>1, FeedIsElection, HoldStep
<1>4. SessionKept'
  BY KeptStep
<1>5. QED
  BY <1>2, <1>3, <1>4 DEF FeedInv

\* The session the clients see goes on across any number of leaders, crashes and failed
\* calls, for any number of workers and any prices: price_ws.py hands the session over
\* through the Redis hash, and a worker that leads again reads it before it sends.
THEOREM SessionContinues == FeedSpec => SessionGoesOn
<1>1. FeedInv => FeedTypeOK
  BY DEF FeedInv
<1>2. FeedSpec => []FeedInv
  BY FeedStarts, FeedInductive, PTL DEF FeedSpec
<1>3. FeedSpec => []FeedTypeOK
  BY <1>1, <1>2, PTL
<1>4. FeedInv /\ [FeedNext]_allVars => [SessionStep]_allVars
  BY ShownStep
<1>5. FeedSpec => [][SessionStep]_allVars
  BY <1>2, <1>4, PTL DEF FeedSpec
<1>6. QED
  BY <1>3, <1>5 DEF SessionGoesOn, SessionStep

\* The broadcaster of the prices runs the election of LeaderElection and nothing else.
THEOREM FeedElects == FeedSpec => []OneProcessPerTerm
<1>1. FeedInit => Init
  BY DEF FeedInit
<1>2. FeedSpec => Spec
  BY <1>1, FeedIsElection, PTL DEF FeedSpec, Spec
<1>3. QED
  BY <1>2, TermsAreUnique
=============================================================================
