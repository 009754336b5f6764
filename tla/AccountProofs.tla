------------------------------ MODULE AccountProofs ------------------------------
(***************************************************************************)
(* What binds an account and what covers it.                               *)
(*                                                                         *)
(* The lock of the penalties (CooldownProperties), for any number of       *)
(* requests, any severities and any tiers: a lock is never shortened, a    *)
(* buy is never placed under a lock, and a lock is rewarded once.  The     *)
(* argument is that a session whose row nobody wrote since it was loaded   *)
(* knows the row: the score a penalty sent to the engine is still the      *)
(* account's, and so is the lock the gate read.  A lock never reaches      *)
(* further than the duration of the present score from now, and durations  *)
(* do not fall as the score rises.                                         *)
(*                                                                         *)
(* The account rows under the ticks of the market (MarketProperties), for  *)
(* any number of tickers, users, sales and events: the open sales cover    *)
(* the settling cash, the positions the frozen shares, and no event is     *)
(* applied twice.  The argument is that with one tick at a time whoever    *)
(* is in a tick holds the lease, so that nobody settles or applies what a  *)
(* transaction has read before it commits; with more than one, a release   *)
(* takes no more than the account waits for.  A batch of events is a fold  *)
(* over a sequence: what it makes of the rows is proved on its table, as   *)
(* SumProofs does for sums.                                                *)
(***************************************************************************)
EXTENDS CooldownProperties, MarketProperties, SequenceTheorems, SumProofs, TLAPS

(* The lock: what a fresh session knows *)

\* What a fresh session knows.
Knows(me) ==
    /\ me.fresh /\ me.pc = "gate" => me.cooldown = account.cooldown_until
    /\ me.fresh /\ me.pc = "place" => account.cooldown_until <= now
    /\ me.fresh /\ me.pc = "apply" => me.risk = account.risk_score

\* What a request in its loop looks like.
Shape(me) ==
    /\ me.pc = "apply" => me.severity \in Severity
    /\ me.kind = "penalty" => me.pc # "gate"

\* The inductive invariant of the lock.
IInv ==
    /\ TypeOK
    /\ \A r \in Request : Knows(request[r]) /\ Shape(request[r])
    /\ account.cooldown_until <= now + Duration(account.risk_score)
    /\ RewardedOnce
    /\ RiskCountsEvents

-----------------------------------------------------------------------------
\* The rows of the table.
LEMMA TierRow ==
    ASSUME NEW i \in DOMAIN Tiers
    PROVE  /\ i \in Nat
           /\ Tiers[i].threshold \in Nat
           /\ Tiers[i].duration \in Nat
<1>1. Tiers \in Seq([threshold : Nat, duration : Nat])
  BY CooldownAssumption
<1>2. i \in 1 .. Len(Tiers)
  BY <1>1
<1>3. Tiers[i] \in [threshold : Nat, duration : Nat]
  BY <1>1, <1>2, ElementOfSeq
<1>4. QED
  BY <1>2, <1>3

\* The durations are those of a table that covers every score.
LEMMA DurationType ==
    ASSUME NEW risk \in 0 .. MaxRisk
    PROVE  Duration(risk) \in Nat
<1>1. PICK i \in DOMAIN Tiers : TierOf(risk, i)
  BY CooldownAssumption
<1> DEFINE k == CHOOSE j \in DOMAIN Tiers : TierOf(risk, j)
<1>2. k \in DOMAIN Tiers
  BY <1>1
<1>3. Duration(risk) = Tiers[k].duration
  BY DEF Duration
<1> HIDE DEF k
<1>4. QED
  BY <1>2, <1>3, TierRow

\* A higher score never means a shorter lock.
LEMMA DurationMonotone ==
    ASSUME NEW low \in 0 .. MaxRisk, NEW high \in 0 .. MaxRisk, low <= high
    PROVE  Duration(low) <= Duration(high)
<1> DEFINE i == CHOOSE j \in DOMAIN Tiers : TierOf(low, j)
           k == CHOOSE j \in DOMAIN Tiers : TierOf(high, j)
<1>1. i \in DOMAIN Tiers /\ TierOf(low, i)
  BY CooldownAssumption
<1>2. k \in DOMAIN Tiers /\ TierOf(high, k)
  BY CooldownAssumption
<1>3. Duration(low) = Tiers[i].duration /\ Duration(high) = Tiers[k].duration
  BY DEF Duration
<1> HIDE DEF i, k
<1>4. /\ i \in Nat /\ k \in Nat
      /\ Tiers[k].threshold \in Nat /\ Tiers[i].threshold \in Nat
  BY <1>1, <1>2, TierRow
<1>5. i <= k
  <2>1. SUFFICES ASSUME ~(i <= k) PROVE FALSE
    OBVIOUS
  <2>2. k < i
    BY <2>1, <1>4
  <2>3. Tiers[k].threshold < low
    BY <2>2, <1>1, <1>2 DEF TierOf
  <2>4. high <= Tiers[k].threshold
    BY <1>2 DEF TierOf
  <2>5. QED
    BY <2>3, <2>4, <1>4
<1>6. QED
  BY <1>1, <1>2, <1>3, <1>5, CooldownAssumption

\* The engine's answer is a score again, and not a lower one.
LEMMA RaisedType ==
    ASSUME NEW risk \in 0 .. MaxRisk, NEW severity \in Severity
    PROVE  Raised(risk, severity) \in 0 .. MaxRisk /\ risk <= Raised(risk, severity)
<1>1. RiskOf[severity] \in Nat /\ MaxRisk \in Nat
  BY CooldownAssumption
<1>2. QED
  BY <1>1 DEF Raised, LesserOf

-----------------------------------------------------------------------------
(* What the trap events add up to *)

\* What the i-th event of a trail added, before the cap.
Weights(trail) == [i \in DOMAIN trail |-> RiskOf[trail[i].severity]]
Counted(trail) == SumFunctionOnSet(Weights(trail), DOMAIN trail)

Trails == Seq([severity : Severity, resolved : BOOLEAN])

\* Every event has a weight, and their sum is a natural number.
LEMMA WeightsType ==
    ASSUME NEW trail \in Trails
    PROVE  /\ IsFiniteSet(DOMAIN trail)
           /\ \A i \in DOMAIN trail : Weights(trail)[i] \in Nat
           /\ Counted(trail) \in Nat
<1>1. DOMAIN trail = 1 .. Len(trail) /\ Len(trail) \in Nat
  BY LenProperties DEF Trails
<1>2. IsFiniteSet(DOMAIN trail)
  BY <1>1, FS_Interval
<1>3. ASSUME NEW i \in DOMAIN trail PROVE Weights(trail)[i] \in Nat
  <2>1. trail[i] \in [severity : Severity, resolved : BOOLEAN]
    BY <1>1, ElementOfSeq DEF Trails
  <2>2. RiskOf[trail[i].severity] \in Nat
    BY <2>1, CooldownAssumption
  <2>3. QED
    BY <2>2 DEF Weights
<1>4. QED
  BY <1>2, <1>3, SumNat DEF Counted

\* The invariant in these words.
LEMMA CountedRisk ==
    RiskCountsEvents <=> account.risk_score = LesserOf(Counted(events), MaxRisk)
BY DEF RiskCountsEvents, Counted, Weights, SumFunction

\* No event, no risk.
LEMMA NothingCounted == Counted(<<>>) = 0
<1>1. DOMAIN (<<>>) = {}
  OBVIOUS
<1>2. QED
  BY <1>1, SumEmpty DEF Counted

\* One more event adds its own weight.
LEMMA OneMoreCounted ==
    ASSUME NEW trail \in Trails,
           NEW e \in [severity : Severity, resolved : BOOLEAN]
    PROVE  Counted(Append(trail, e)) = Counted(trail) + RiskOf[e.severity]
<1> DEFINE n == Len(trail)
           S == 1 .. n
           f == Weights(trail)
           longer == Append(trail, e)
           g == Weights(longer)
<1>1. n \in Nat /\ DOMAIN trail = S
  BY LenProperties DEF Trails
<1>2. /\ longer \in Trails
      /\ Len(longer) = n + 1
      /\ longer[n + 1] = e
      /\ \A i \in S : longer[i] = trail[i]
  BY AppendProperties DEF Trails
<1>3. /\ DOMAIN longer = S \cup {n + 1}
      /\ n + 1 \notin S
      /\ IsFiniteSet(S)
  <2>1. DOMAIN longer = 1 .. n + 1
    BY <1>2, LenProperties DEF Trails
  <2>2. 1 .. n + 1 = (1 .. n) \cup {n + 1} /\ n + 1 \notin 1 .. n
    BY <1>1
  <2>3. IsFiniteSet(1 .. n)
    BY <1>1, FS_Interval
  <2>4. QED
    BY <2>1, <2>2, <2>3
<1>4. \A i \in S \cup {n + 1} : g[i] \in Nat
  BY <1>2, <1>3, WeightsType
<1>5. g[n + 1] = RiskOf[e.severity]
  BY <1>2, <1>3 DEF Weights
<1>6. \A i \in S : g[i] = f[i]
  BY <1>1, <1>2, <1>3 DEF Weights
<1>7. /\ Counted(trail) = SumFunctionOnSet(f, S)
      /\ Counted(longer) = SumFunctionOnSet(g, S \cup {n + 1})
      /\ Counted(trail) \in Nat
  BY <1>1, <1>3, WeightsType DEF Counted
<1> HIDE DEF S, n, f, g, longer
<1>8. SumFunctionOnSet(g, S) = SumFunctionOnSet(f, S)
  BY <1>3, <1>6, SumSame
<1>9. SumFunctionOnSet(g, S \cup {n + 1}) = g[n + 1] + SumFunctionOnSet(g, S)
  BY <1>3, <1>4, SumInsert
<1>10. RiskOf[e.severity] \in Nat
  BY CooldownAssumption
<1>11. Counted(longer) = Counted(trail) + RiskOf[e.severity]
  BY <1>5, <1>7, <1>8, <1>9, <1>10
<1>12. QED
  BY <1>11 DEF longer

-----------------------------------------------------------------------------
\* The invariant holds before the first request.
THEOREM Initially == Init => IInv
<1> SUFFICES ASSUME Init PROVE IInv
  OBVIOUS
<1> USE CooldownAssumption DEF Init, Never
<1>1. TypeOK
  BY DEF TypeOK, Requests, NoRequest, Kinds
<1>2. \A r \in Request : Knows(request[r]) /\ Shape(request[r])
  BY DEF Knows, Shape, NoRequest
<1>3. Duration(account.risk_score) \in Nat
  BY <1>1, DurationType DEF TypeOK
<1>4. account.cooldown_until <= now + Duration(account.risk_score)
  BY <1>3
<1>5. RewardedOnce
  BY DEF RewardedOnce
<1>6. RiskCountsEvents
  <2>1. Counted(events) = 0 /\ MaxRisk \in Nat
    BY NothingCounted
  <2>2. QED
    BY <2>1, CountedRisk DEF LesserOf
<1>7. QED
  BY <1>1, <1>2, <1>4, <1>5, <1>6 DEF IInv

-----------------------------------------------------------------------------
(* One step of one request *)

Sessions == \A r \in Request : Knows(request[r]) /\ Shape(request[r])

\* A request that writes nothing: what the others know stays known.
LEMMA RequestMoves ==
    ASSUME TypeOK, Sessions,
           NEW r \in Request, NEW next \in Requests,
           request' = [request EXCEPT ![r] = next],
           UNCHANGED <<account, now>>,
           Knows(next), Shape(next)
    PROVE  request' \in [Request -> Requests] /\ Sessions'
<1>1. request \in [Request -> Requests]
  BY DEF TypeOK
<1>2. request' \in [Request -> Requests]
  BY <1>1
<1>3. ASSUME NEW s \in Request PROVE (Knows(request[s]) /\ Shape(request[s]))'
  <2>1. CASE s = r
    BY <2>1, <1>1 DEF Knows, Shape
  <2>2. CASE s # r
    BY <2>2, <1>1 DEF Knows, Shape, Sessions
  <2>3. QED
    BY <2>1, <2>2
<1>4. QED
  BY <1>2, <1>3 DEF Sessions

\* A request that writes the row: the others' rows are old from then on.
LEMMA RowWritten ==
    ASSUME TypeOK, Sessions,
           NEW r \in Request, NEW next \in Requests,
           WriteBy(r, next),
           next.pc \notin {"gate", "apply"},
           next.pc = "place" => account'.cooldown_until <= now'
    PROVE  request' \in [Request -> Requests] /\ Sessions'
<1>1. request \in [Request -> Requests]
  BY DEF TypeOK
<1>2. ASSUME NEW s \in Request PROVE [request[s] EXCEPT !.fresh = FALSE] \in Requests
  BY <1>1 DEF Requests
<1>3. request' \in [Request -> Requests]
  BY <1>1, <1>2 DEF WriteBy
<1>4. ASSUME NEW s \in Request PROVE (Knows(request[s]) /\ Shape(request[s]))'
  <2>1. CASE s = r
    <3>1. request'[s] = next
      BY <2>1 DEF WriteBy
    <3>2. QED
      BY <3>1 DEF Knows, Shape
  <2>2. CASE s # r
    <3>1. request'[s] = [request[s] EXCEPT !.fresh = FALSE]
      BY <2>2 DEF WriteBy
    <3>2. /\ request'[s].fresh = FALSE
          /\ request'[s].pc = request[s].pc
          /\ request'[s].kind = request[s].kind
          /\ request'[s].severity = request[s].severity
      BY <3>1, <1>1 DEF Requests
    <3>3. QED
      BY <3>2 DEF Knows, Shape, Sessions
  <2>3. QED
    BY <2>1, <2>2
<1>5. QED
  BY <1>3, <1>4 DEF Sessions

\* A request that ends knows nothing.
LEMMA Idle == NoRequest \in Requests /\ Knows(NoRequest) /\ Shape(NoRequest)
<1>1. MaxRisk \in Nat
  BY CooldownAssumption
<1>2. QED
  BY <1>1 DEF NoRequest, Requests, Kinds, Never, Knows, Shape

\* A step that leaves the account's own columns alone.
Quiet == UNCHANGED <<account, events, rewards, locks, now>>

\* Such a step keeps the invariant.
LEMMA QuietStep ==
    ASSUME IInv, Quiet,
           request' \in [Request -> Requests] /\ Sessions',
           placed' \in [buy : Nat, sell : Nat],
           writes' \in 0 .. MaxWrites
    PROVE  IInv'
BY DEF IInv, Quiet, TypeOK, RewardedOnce, RiskCountsEvents, Sessions, Duration, TierOf

-----------------------------------------------------------------------------
(* One lemma per kind of action *)

\* Requests that end without a write.
LEMMA DoneStep ==
    ASSUME IInv, NEW r \in Request, Done(r),
           UNCHANGED <<account, events, rewards, locks, placed, writes, now>>
    PROVE  IInv'
<1>1. request' \in [Request -> Requests] /\ Sessions'
  BY RequestMoves, Idle DEF IInv, Done, Sessions
<1>2. QED
  BY <1>1, QuietStep DEF Quiet, IInv, TypeOK

\* A request arrives and loads the account's row.
LEMMA ArriveStep ==
    ASSUME IInv, NEW r \in Request, Arrive(r)
    PROVE  IInv'
<1>1. PICK kind \in Kinds : request' = [request EXCEPT ![r] = Loaded(kind)]
  BY DEF Arrive
<1>2. account.cooldown_until \in Nat /\ MaxRisk \in Nat
  BY CooldownAssumption DEF IInv, TypeOK
<1>3. Loaded(kind) \in Requests
  <2>1. "none" \in Severity \cup {"none"}
    OBVIOUS
  <2>2. (IF kind = "penalty" THEN "ask" ELSE "gate")
          \in {"idle", "ask", "apply", "gate", "place"}
    OBVIOUS
  <2>3. kind \in Kinds \cup {"none"}
    OBVIOUS
  <2>4. 0 \in 0 .. MaxRisk
    BY <1>2
  <2>5. QED
    BY <1>2, <2>1, <2>2, <2>3, <2>4 DEF Loaded, Requests
<1>4. Knows(Loaded(kind)) /\ Shape(Loaded(kind))
  BY DEF Loaded, Knows, Shape
<1>5. request' \in [Request -> Requests] /\ Sessions'
  BY <1>1, <1>3, <1>4, RequestMoves DEF IInv, Sessions, Arrive
<1>6. QED
  BY <1>5, QuietStep DEF Quiet, IInv, TypeOK, Arrive

\* A penalty request asks the AI engine how severe the violation is.
LEMMA AskStep ==
    ASSUME IInv, NEW r \in Request, AskEngine(r)
    PROVE  IInv'
<1>1. CASE Done(r)
  BY <1>1, DoneStep DEF AskEngine
<1>2. ASSUME NEW severity \in Severity,
             request' = [request EXCEPT ![r].pc = "apply",
                                        ![r].severity = severity,
                                        ![r].risk = account.risk_score]
      PROVE  IInv'
  <2> DEFINE next == [request[r] EXCEPT !.pc = "apply", !.severity = severity,
                                        !.risk = account.risk_score]
  <2>1. request[r] \in Requests /\ account.risk_score \in 0 .. MaxRisk
    BY DEF IInv, TypeOK
  <2>2. next \in Requests /\ Knows(next) /\ Shape(next)
    BY <2>1 DEF Requests, Kinds, Knows, Shape, AskEngine, At
  <2>3. request' = [request EXCEPT ![r] = next]
    BY <1>2 DEF IInv, TypeOK
  <2> HIDE DEF next
  <2>4. request' \in [Request -> Requests] /\ Sessions'
    BY <2>2, <2>3, RequestMoves DEF IInv, Sessions, AskEngine
  <2>5. QED
    BY <2>4, QuietStep DEF Quiet, IInv, TypeOK, AskEngine
<1>3. QED
  BY <1>1, <1>2 DEF AskEngine

\* A fresh penalty: the score it asked with is the account's, so the new lock
\* reaches at least as far as the old one.
LEMMA PenaltyStep ==
    ASSUME IInv, NEW r \in Request, ApplyPenalty(r)
    PROVE  IInv' /\ account'.cooldown_until >= account.cooldown_until
<1> DEFINE old == account.risk_score
           new == Raised(old, request[r].severity)
<1>1. /\ request[r].risk = old
      /\ request[r].severity \in Severity
      /\ old \in 0 .. MaxRisk
      /\ account.cooldown_until \in Nat
      /\ now \in 1 .. MaxTime + 1
      /\ MaxTime \in Nat
  BY CooldownAssumption
     DEF ApplyPenalty, MayApply, At, IInv, TypeOK, Knows, Shape
<1>2. new \in 0 .. MaxRisk /\ old <= new
  BY <1>1, RaisedType
<1> HIDE DEF new
<1>3. /\ Duration(old) \in Nat /\ Duration(new) \in Nat
      /\ Duration(old) <= Duration(new)
  BY <1>1, <1>2, DurationType, DurationMonotone
<1>4. account' = [risk_score     |-> new,
                  cooldown_until |-> IF Duration(old) > 0 THEN now + Duration(old)
                                     ELSE account.cooldown_until]
  BY <1>1 DEF ApplyPenalty, new
<1>5. account.cooldown_until <= now + Duration(old)
  BY DEF IInv
<1>6. account' \in [risk_score : 0 .. MaxRisk, cooldown_until : Nat]
  BY <1>1, <1>2, <1>3, <1>4
<1>7. account'.cooldown_until >= account.cooldown_until
  BY <1>1, <1>3, <1>4, <1>5
<1>8. account'.cooldown_until <= now + Duration(account'.risk_score)
  BY <1>1, <1>3, <1>4, <1>5
<1>9. request' \in [Request -> Requests] /\ Sessions'
  BY Idle, RowWritten DEF ApplyPenalty, IInv, Sessions, NoRequest
<1>10. events' \in Seq([severity : Severity, resolved : BOOLEAN])
  <2>1. [severity |-> request[r].severity, resolved |-> FALSE]
          \in [severity : Severity, resolved : BOOLEAN]
    BY <1>1
  <2>2. events \in Seq([severity : Severity, resolved : BOOLEAN])
    BY DEF IInv, TypeOK
  <2>3. QED
    BY <2>1, <2>2, AppendProperties DEF ApplyPenalty
<1>11. /\ rewards \in Nat /\ locks \in Nat
       /\ rewards + (IF account.cooldown_until = Never THEN 0 ELSE 1) <= locks
       /\ rewards' = rewards
       /\ locks' = IF Duration(old) > 0 THEN locks + 1 ELSE locks
  BY <1>1 DEF IInv, TypeOK, RewardedOnce, ApplyPenalty
<1>12. RewardedOnce' /\ locks' \in Nat
  BY <1>1, <1>3, <1>4, <1>11 DEF RewardedOnce, Never
<1>13. TypeOK'
  BY <1>6, <1>9, <1>10, <1>12 DEF TypeOK, IInv, ApplyPenalty
<1>14. (account.cooldown_until <= now + Duration(account.risk_score))'
  BY <1>8 DEF ApplyPenalty, Duration, TierOf
<1>15. RiskCountsEvents'
  <2> DEFINE e == [severity |-> request[r].severity, resolved |-> FALSE]
  <2>1. events \in Trails /\ old = LesserOf(Counted(events), MaxRisk)
    BY CountedRisk DEF IInv, TypeOK, Trails
  <2>2. /\ e \in [severity : Severity, resolved : BOOLEAN]
        /\ e.severity = request[r].severity
        /\ events' = Append(events, e)
    BY <1>1 DEF ApplyPenalty
  <2> HIDE DEF e
  <2>3. Counted(events') = Counted(events) + RiskOf[request[r].severity]
    BY <2>1, <2>2, OneMoreCounted
  <2>4. Counted(events) \in Nat /\ RiskOf[request[r].severity] \in Nat /\ MaxRisk \in Nat
    BY <1>1, <2>1, WeightsType, CooldownAssumption
  <2>5. new = LesserOf(Counted(events'), MaxRisk)
    BY <2>1, <2>3, <2>4 DEF new, Raised, LesserOf
  <2>6. account'.risk_score = new
    BY <1>4
  <2>7. QED
    BY <2>5, <2>6 DEF RiskCountsEvents, Counted, Weights, SumFunction
<1>16. QED
  BY <1>7, <1>9, <1>12, <1>13, <1>14, <1>15 DEF IInv, Sessions

\* The gate lets an order through on a row that says it is not locked.
LEMMA AdmitStep ==
    ASSUME IInv, NEW r \in Request, Admit(r)
    PROVE  IInv'
<1>1. request[r] \in Requests /\ Knows(request[r]) /\ MaxRisk \in Nat /\ now \in Nat
  BY CooldownAssumption DEF IInv, TypeOK
<1>2. AfterGate(r) \in Requests /\ Knows(AfterGate(r)) /\ Shape(AfterGate(r))
  <2>1. CASE request[r].kind = "status"
    BY <2>1, Idle DEF AfterGate
  <2>2. CASE request[r].kind # "status"
    <3> DEFINE next == [request[r] EXCEPT !.pc = "place", !.cooldown = Never]
    <3>1. AfterGate(r) = next
      BY <2>2 DEF AfterGate
    <3>2. next \in Requests
      BY <1>1 DEF Requests, Never
    <3>3. next.pc = "place" /\ next.fresh = request[r].fresh
      BY <1>1 DEF Requests
    <3>4. request[r].fresh => account.cooldown_until = Never
      BY <1>1 DEF Knows, Admit, At
    <3> HIDE DEF next
    <3>5. next.fresh => account.cooldown_until <= now
      BY <1>1, <3>3, <3>4 DEF Never
    <3>6. QED
      BY <3>1, <3>2, <3>3, <3>5 DEF Knows, Shape
  <2>3. QED
    BY <2>1, <2>2
<1>3. request' \in [Request -> Requests] /\ Sessions'
  BY <1>2, RequestMoves DEF IInv, Sessions, Admit
<1>4. QED
  BY <1>3, QuietStep DEF Quiet, IInv, TypeOK, Admit

\* A lock that has run out is cleared and paid for.
LEMMA ClearStep ==
    ASSUME IInv, NEW r \in Request, Clear(r)
    PROVE  IInv' /\ account.cooldown_until <= now /\ account'.cooldown_until = Never
<1>1. /\ request[r] \in Requests
      /\ request[r].cooldown = account.cooldown_until
      /\ account.cooldown_until \in 1 .. now
      /\ account \in [risk_score : 0 .. MaxRisk, cooldown_until : Nat]
      /\ now \in 1 .. MaxTime + 1 /\ MaxTime \in Nat /\ MaxRisk \in Nat
  BY CooldownAssumption DEF IInv, TypeOK, Knows, Clear, MayClear, At
<1>2. /\ account'.cooldown_until = Never
      /\ account'.risk_score = account.risk_score
      /\ account' \in [risk_score : 0 .. MaxRisk, cooldown_until : Nat]
  BY <1>1 DEF Clear, Never
<1>3. AfterGate(r) \in Requests /\ Shape(AfterGate(r))
      /\ AfterGate(r).pc \notin {"gate", "apply"}
  <2>1. CASE request[r].kind = "status"
    BY <2>1, Idle DEF AfterGate, NoRequest
  <2>2. CASE request[r].kind # "status"
    BY <1>1, <2>2 DEF AfterGate, Requests, Shape, Never
  <2>3. QED
    BY <2>1, <2>2
<1>4. account'.cooldown_until <= now'
  BY <1>1, <1>2 DEF Clear, Never
<1>5. request' \in [Request -> Requests] /\ Sessions'
  BY <1>3, <1>4, RowWritten DEF IInv, Sessions, Clear
<1>6. events' \in Seq([severity : Severity, resolved : BOOLEAN])
  <2>1. events \in Seq([severity : Severity, resolved : BOOLEAN])
    BY DEF IInv, TypeOK
  <2>2. DOMAIN events = 1 .. Len(events) /\ Len(events) \in Nat
    BY <2>1, LenProperties
  <2>3. ASSUME NEW i \in 1 .. Len(events)
        PROVE  [events[i] EXCEPT !.resolved = TRUE]
                 \in [severity : Severity, resolved : BOOLEAN]
    <3>1. events[i] \in [severity : Severity, resolved : BOOLEAN]
      BY <2>1, ElementOfSeq
    <3>2. QED
      BY <3>1
  <2>4. events' = [i \in 1 .. Len(events) |-> [events[i] EXCEPT !.resolved = TRUE]]
    BY <2>2 DEF Clear
  <2>5. QED
    BY <2>2, <2>3, <2>4, IsASeq
<1>7. RewardedOnce' /\ rewards' \in Nat /\ locks' \in Nat
  BY <1>1, <1>2 DEF RewardedOnce, Never, Clear, IInv, TypeOK
<1>8. TypeOK'
  BY <1>2, <1>5, <1>6, <1>7 DEF TypeOK, IInv, Clear
<1>9. (account.cooldown_until <= now + Duration(account.risk_score))'
  <2>1. Duration(account.risk_score) \in Nat
    BY <1>1, DurationType
  <2>2. 0 <= now + Duration(account.risk_score)
    BY <2>1, <1>1
  <2>3. QED
    BY <2>2, <1>2 DEF Clear, Never, Duration, TierOf
<1>10. RiskCountsEvents'
  <2>1. events \in Trails /\ account.risk_score = LesserOf(Counted(events), MaxRisk)
    BY CountedRisk DEF IInv, TypeOK, Trails
  <2>2. \A i \in DOMAIN events : events[i] \in [severity : Severity, resolved : BOOLEAN]
    BY <2>1, ElementOfSeq, LenProperties DEF Trails
  <2>3. DOMAIN events' = DOMAIN events
    BY DEF Clear
  <2>4. \A i \in DOMAIN events : events'[i].severity = events[i].severity
    BY <2>2 DEF Clear
  <2>5. Weights(events') = Weights(events)
    BY <2>3, <2>4 DEF Weights
  <2>6. Counted(events') = Counted(events)
    BY <2>3, <2>5 DEF Counted
  <2>7. account'.risk_score = LesserOf(Counted(events'), MaxRisk)
    BY <1>2, <2>1, <2>6
  <2>8. QED
    BY <2>7 DEF RiskCountsEvents, Counted, Weights, SumFunction
<1>11. QED
  BY <1>1, <1>2, <1>5, <1>7, <1>8, <1>9, <1>10 DEF IInv, Sessions

\* An order is placed: a buy writes the row, a sell does not.
LEMMA PlaceStep ==
    ASSUME IInv, NEW r \in Request, PlaceBuy(r) \/ PlaceSell(r)
    PROVE  IInv'
<1>1. placed' \in [buy : Nat, sell : Nat]
  BY DEF IInv, TypeOK, PlaceBuy, PlaceSell
<1>2. CASE PlaceBuy(r)
  <2>1. request' \in [Request -> Requests] /\ Sessions'
    BY <1>2, Idle, RowWritten DEF IInv, Sessions, PlaceBuy, NoRequest
  <2>2. QED
    BY <1>1, <1>2, <2>1, QuietStep DEF Quiet, IInv, TypeOK, PlaceBuy
<1>3. CASE PlaceSell(r)
  <2>1. request' \in [Request -> Requests] /\ Sessions'
    BY <1>3, Idle, RequestMoves DEF IInv, Sessions, PlaceSell, Done
  <2>2. QED
    BY <1>1, <1>3, <2>1, QuietStep DEF Quiet, IInv, TypeOK, PlaceSell
<1>4. QED
  BY <1>2, <1>3

\* The rest of the system writes the row: every session's copy is old.
LEMMA ElsewhereStep ==
    ASSUME IInv, WriteElsewhere
    PROVE  IInv'
<1>1. request \in [Request -> Requests]
  BY DEF IInv, TypeOK
<1>2. ASSUME NEW r \in Request
      PROVE  /\ request'[r] \in Requests
             /\ (Knows(request[r]) /\ Shape(request[r]))'
  <2>1. request'[r] = [request[r] EXCEPT !.fresh = FALSE]
    BY DEF WriteElsewhere
  <2>2. /\ request'[r] \in Requests
        /\ request'[r].fresh = FALSE
        /\ request'[r].pc = request[r].pc
        /\ request'[r].kind = request[r].kind
        /\ request'[r].severity = request[r].severity
    <3> DEFINE q == request[r]  n == [q EXCEPT !.fresh = FALSE]
    <3>1. q \in Requests  BY <1>1
    <3> HIDE DEF q
    <3>2. /\ n \in Requests /\ n.fresh = FALSE /\ n.pc = q.pc /\ n.kind = q.kind
          /\ n.severity = q.severity
      BY <3>1 DEF Requests
    <3> HIDE DEF n
    <3>3. request'[r] = n  BY <2>1 DEF q, n
    <3>4. QED  BY <3>2, <3>3 DEF q
  <2>3. QED
    BY <2>2 DEF Knows, Shape, IInv
<1>3. request' \in [Request -> Requests]
  BY <1>2 DEF WriteElsewhere
<1>4. writes' \in 0 .. MaxWrites
  <2>1. /\ MaxWrites \in Nat /\ writes \in 0 .. MaxWrites
        /\ writes < MaxWrites /\ writes' = writes + 1
    BY CooldownAssumption DEF IInv, TypeOK, WriteElsewhere
  <2>2. QED
    BY <2>1
<1>5. QED
  BY <1>2, <1>3, <1>4, QuietStep DEF Quiet, IInv, TypeOK, Sessions, WriteElsewhere

\* Time passes.
LEMMA ClockStep ==
    ASSUME IInv, Clock
    PROVE  IInv'
<1>1. /\ now \in 1 .. MaxTime + 1 /\ MaxTime \in Nat /\ now' = now + 1 /\ now < MaxTime
      /\ account \in [risk_score : 0 .. MaxRisk, cooldown_until : Nat]
      /\ account' = account
  BY CooldownAssumption DEF IInv, TypeOK, Clock
<1>2. TypeOK'
  BY <1>1 DEF IInv, TypeOK, Clock
<1>3. Sessions'
  BY <1>1 DEF IInv, Sessions, Knows, Shape, Clock
<1>4. (account.cooldown_until <= now + Duration(account.risk_score))'
  <2>1. Duration(account.risk_score) \in Nat
    BY <1>1, DurationType
  <2>2. account.cooldown_until <= now + 1 + Duration(account.risk_score)
    BY <1>1, <2>1 DEF IInv
  <2>3. QED
    BY <2>2, <1>1 DEF Duration, TierOf
<1>5. QED
  BY <1>2, <1>3, <1>4 DEF IInv, Sessions, RewardedOnce, RiskCountsEvents, Clock

-----------------------------------------------------------------------------
\* Every step keeps the invariant.
LEMMA Step == IInv /\ [Next]_vars => IInv'
<1> SUFFICES ASSUME IInv, [Next]_vars PROVE IInv'
  OBVIOUS
<1>1. ASSUME NEW r \in Request, Serve(r) PROVE IInv'
  <2>1. CASE AskEngine(r)
    BY <2>1, AskStep
  <2>2. CASE ApplyPenalty(r)
    BY <2>2, PenaltyStep
  <2>3. CASE RollBack(r) \/ Stale(r) \/ Blocked(r) \/ Refuse(r)
    BY <2>3, DoneStep DEF RollBack, Stale, Blocked, Refuse
  <2>4. CASE Admit(r)
    BY <2>4, AdmitStep
  <2>5. CASE Clear(r)
    BY <2>5, ClearStep
  <2>6. CASE PlaceBuy(r) \/ PlaceSell(r)
    BY <2>6, PlaceStep
  <2>7. QED
    BY <1>1, <2>1, <2>2, <2>3, <2>4, <2>5, <2>6 DEF Serve
<1>2. CASE UNCHANGED vars
  <2>1. Quiet /\ placed' = placed /\ writes' = writes /\ request' = request
    BY <1>2 DEF vars, Quiet
  <2>2. request' \in [Request -> Requests] /\ Sessions'
    BY <2>1 DEF IInv, TypeOK, Quiet, Sessions, Knows, Shape
  <2>3. QED
    BY <2>1, <2>2, QuietStep DEF IInv, TypeOK
<1>3. QED
  BY <1>1, <1>2, ArriveStep, ElsewhereStep, ClockStep DEF Next

\* The invariant holds in every reachable state.
THEOREM Invariance == Spec => []IInv
<1>1. QED
  BY Initially, Step, PTL DEF Spec

\* Every state holds rows of the tables' types.
THEOREM TypeCorrect == Spec => []TypeOK
<1>1. IInv => TypeOK
  BY DEF IInv
<1>2. QED
  BY <1>1, Invariance, PTL

\* A served lock is rewarded at most once: two sessions that both see it run
\* out cannot both clear it.
THEOREM OneReward == Spec => []RewardedOnce
<1>1. IInv => RewardedOnce
  BY DEF IInv
<1>2. QED
  BY <1>1, Invariance, PTL

\* No violation is lost: whatever requests run side by side, the score is what
\* the recorded trap events add up to, under the cap.
THEOREM ViolationsCount == Spec => []RiskCountsEvents
<1>1. IInv => RiskCountsEvents
  BY DEF IInv
<1>2. QED
  BY <1>1, Invariance, PTL

\* No interleaving of penalties, clearings and orders shortens a lock.
THEOREM LockStands == Spec => NeverShortened
<1> DEFINE Stands == \/ account'.cooldown_until >= account.cooldown_until
                     \/ account'.cooldown_until = Never /\ account.cooldown_until <= now
<1>1. IInv /\ [Next]_vars => [Stands]_vars
  <2> SUFFICES ASSUME IInv, [Next]_vars PROVE [Stands]_vars
    OBVIOUS
  <2>1. ASSUME account' = account PROVE Stands
    BY <2>1 DEF IInv, TypeOK
  <2>2. ASSUME NEW r \in Request, ApplyPenalty(r) PROVE Stands
    BY <2>2, PenaltyStep
  <2>3. ASSUME NEW r \in Request, Clear(r) PROVE Stands
    BY <2>3, ClearStep
  <2> HIDE DEF Stands
  <2>4. ASSUME NEW r \in Request, Arrive(r) \/ Serve(r) PROVE Stands
    BY <2>1, <2>2, <2>3, <2>4
       DEF Arrive, Serve, AskEngine, RollBack, Stale, Blocked, Admit, PlaceBuy,
           PlaceSell, Refuse
  <2>5. CASE WriteElsewhere \/ Clock
    BY <2>1, <2>5 DEF WriteElsewhere, Clock
  <2>6. QED
    BY <2>4, <2>5 DEF Next
<1>2. QED
  BY <1>1, Invariance, PTL DEF Spec, NeverShortened

\* A buy that passed the gate before the lock was set fails its version check.
THEOREM BuysRespectLock == Spec => NoBuyWhileLocked
<1> DEFINE Respects == placed'.buy > placed.buy => account.cooldown_until <= now
<1>1. IInv /\ [Next]_vars => [Respects]_vars
  <2> SUFFICES ASSUME IInv, [Next]_vars PROVE [Respects]_vars
    OBVIOUS
  <2>1. placed.buy \in Nat /\ placed \in [buy : Nat, sell : Nat]
    BY DEF IInv, TypeOK
  <2>2. ASSUME placed'.buy = placed.buy PROVE Respects
    BY <2>1, <2>2
  <2>3. ASSUME NEW r \in Request, PlaceBuy(r) PROVE Respects
    BY <2>3 DEF PlaceBuy, MayBuy, At, IInv, Knows
  <2>4. ASSUME NEW r \in Request, PlaceSell(r) PROVE placed'.buy = placed.buy
    BY <2>1, <2>4 DEF PlaceSell
  <2> HIDE DEF Respects
  <2>5. ASSUME NEW r \in Request, Arrive(r) \/ Serve(r) PROVE Respects
    BY <2>2, <2>3, <2>4, <2>5
       DEF Arrive, Serve, AskEngine, ApplyPenalty, RollBack, Stale, Blocked, Admit,
           Clear, Refuse
  <2>6. CASE WriteElsewhere \/ Clock
    BY <2>2, <2>6 DEF WriteElsewhere, Clock
  <2>7. QED
    BY <2>5, <2>6 DEF Next
<1>2. QED
  BY <1>1, Invariance, PTL DEF Spec, NoBuyWhileLocked

-----------------------------------------------------------------------------
(* The market: what a batch of events makes of the rows *)

CompanyRow == [price : Nat, shares : Nat]
PositionRow == [quantity : Nat, frozen : Nat]
WalletRow == [cash : Nat, settling : Nat]

BatchRows ==
    [company : CompanyRow, position : [Holder -> PositionRow],
     wallet : [Holder -> WalletRow], done : SUBSET Event]

\* The events of E make b of the rows a: they touch no settling cash, take no frozen
\* share away, and freeze no share that is not in the position.
Processed(a, b, E) ==
    /\ b \in BatchRows /\ b.done \subseteq a.done \cup E
    /\ \A u \in Holder :
          /\ b.wallet[u].settling = a.wallet[u].settling
          /\ a.position[u].frozen <= b.position[u].frozen
          /\ a.position[u].frozen <= a.position[u].quantity =>
                b.position[u].frozen <= b.position[u].quantity

\* Shares are multiplied by a positive ratio.
LEMMA Multiplied ==
    ASSUME NEW f \in Nat, NEW q \in Nat, NEW a \in Nat \ {0}
    PROVE  f * a \in Nat /\ f <= f * a /\ (f <= q => f * a <= q * a)
<1>1. f * a \in Nat /\ f <= f * a
  OBVIOUS
<1>2. ASSUME f <= q PROVE f * a <= q * a
  <2>1. q - f \in Nat /\ (q - f) * a \in Nat
    BY <1>2
  <2>2. q * a = f * a + (q - f) * a
    OBVIOUS
  <2>3. QED
    BY <1>1, <2>1, <2>2
<1>3. QED
  BY <1>1, <1>2

\* A dividend adds to the cash.
LEMMA DividendRound ==
    ASSUME NEW s \in BatchRows, NEW e \in Event
    PROVE  Processed(s, [Dividend(e, s) EXCEPT !.done = @ \cup {e}], {e})
<1> DEFINE a == Amount[e]
           purse == [u \in Holder |->
                        [s.wallet[u] EXCEPT !.cash = @ + s.position[u].quantity * a]]
<1>1. a \in Nat
  BY MarketAssumption
<1>2. ASSUME NEW u \in Holder
      PROVE  /\ purse[u] \in WalletRow
             /\ purse[u].settling = s.wallet[u].settling
  <2>1. s.wallet[u] \in WalletRow /\ s.position[u].quantity \in Nat
    BY DEF BatchRows, PositionRow
  <2> DEFINE gain == s.position[u].quantity * a
  <2>2. gain \in Nat
    BY <1>1, <2>1
  <2> HIDE DEF gain
  <2>3. [s.wallet[u] EXCEPT !.cash = @ + gain] \in WalletRow
    BY <2>1, <2>2 DEF WalletRow
  <2>4. [s.wallet[u] EXCEPT !.cash = @ + gain].settling = s.wallet[u].settling
    BY <2>1 DEF WalletRow
  <2>5. purse[u] = [s.wallet[u] EXCEPT !.cash = @ + gain]
    BY DEF gain
  <2>6. QED
    BY <2>3, <2>4, <2>5
<1>3. purse \in [Holder -> WalletRow]
  BY <1>2
<1>4. Dividend(e, s) = [s EXCEPT !.wallet = purse]
  BY DEF Dividend
<1> HIDE DEF purse
<1> DEFINE paidOut == [[s EXCEPT !.wallet = purse] EXCEPT !.done = @ \cup {e}]
<1>5. /\ paidOut \in BatchRows /\ paidOut.wallet = purse /\ paidOut.position = s.position
      /\ paidOut.done = s.done \cup {e}
  BY <1>3 DEF BatchRows
<1> HIDE DEF paidOut
<1>6. \A u \in Holder : s.position[u].frozen \in Nat
  BY DEF BatchRows, PositionRow
<1>7. Processed(s, paidOut, {e})
  BY <1>2, <1>5, <1>6 DEF Processed
<1>8. QED
  BY <1>4, <1>7 DEF paidOut

\* A split multiplies the shares, the frozen ones as the others.
LEMMA SplitRound ==
    ASSUME NEW s \in BatchRows, NEW e \in Event
    PROVE  Processed(s, [Split(e, s) EXCEPT !.done = @ \cup {e}], {e})
<1> DEFINE a == Amount[e]
           row == [price |-> s.company.price \div a, shares |-> s.company.shares * a]
           held == [u \in Holder |-> [quantity |-> s.position[u].quantity * a,
                                      frozen |-> s.position[u].frozen * a]]
<1>1. a \in Nat \ {0}
  BY MarketAssumption
<1>2. row \in CompanyRow
  <2>1. s.company.price \in Nat /\ s.company.shares \in Nat
    BY DEF BatchRows, CompanyRow
  <2>2. s.company.price \div a \in Nat
    BY <1>1, <2>1
  <2>3. s.company.shares * a \in Nat
    BY <1>1, <2>1
  <2>4. QED
    BY <2>2, <2>3 DEF CompanyRow
<1>3. ASSUME NEW u \in Holder
      PROVE  /\ held[u] \in PositionRow /\ s.position[u].frozen <= held[u].frozen
             /\ s.position[u].frozen <= s.position[u].quantity =>
                   held[u].frozen <= held[u].quantity
  <2>1. s.position[u].quantity \in Nat /\ s.position[u].frozen \in Nat
    BY DEF BatchRows, PositionRow
  <2> DEFINE q == s.position[u].quantity  f == s.position[u].frozen  qa == q * a  fa == f * a
  <2>2. /\ qa \in Nat /\ fa \in Nat /\ f <= fa /\ (f <= q => fa <= qa)
    BY <1>1, <2>1, Multiplied
  <2>3. /\ held[u].quantity = qa
        /\ held[u].frozen = fa
        /\ held[u] = [quantity |-> qa, frozen |-> fa]
    OBVIOUS
  <2> HIDE DEF qa, fa, held
  <2>4. QED
    BY <2>2, <2>3 DEF PositionRow
<1>4. held \in [Holder -> PositionRow]
  BY <1>3
<1>5. Split(e, s) = [s EXCEPT !.company = row, !.position = held]
  BY DEF Split
<1> HIDE DEF row, held
<1> DEFINE split == [[s EXCEPT !.company = row, !.position = held] EXCEPT !.done = @ \cup {e}]
<1>6. /\ split \in BatchRows /\ split.wallet = s.wallet /\ split.position = held
      /\ split.done = s.done \cup {e}
  BY <1>2, <1>4 DEF BatchRows
<1> HIDE DEF split
<1>7. Processed(s, split, {e})
  BY <1>3, <1>6 DEF Processed
<1>8. QED
  BY <1>5, <1>7 DEF split

\* A round of the loop processes its event or leaves the rows alone.
LEMMA Round ==
    ASSUME NEW s \in BatchRows, NEW e \in Event
    PROVE  Processed(s, Tried(s, e), {e})
<1>1. \A u \in Holder : s.position[u].frozen \in Nat
  BY DEF BatchRows, PositionRow
<1>2. Processed(s, s, {e})
  BY <1>1 DEF Processed
<1>3. QED
  BY <1>2, DividendRound, SplitRound DEF Tried

\* One batch after another.
LEMMA RoundsMore ==
    ASSUME NEW a \in BatchRows, NEW b \in BatchRows, NEW c, NEW E, NEW e,
           Processed(a, b, E), Processed(b, c, {e})
    PROVE  Processed(a, c, E \cup {e})
<1>1. c \in BatchRows
  BY DEF Processed
<1>2. \A u \in Holder : /\ a.position[u].frozen \in Nat /\ b.position[u].frozen \in Nat
                        /\ c.position[u].frozen \in Nat
  BY <1>1 DEF BatchRows, PositionRow
<1>3. QED
  BY <1>2 DEF Processed

\* h is the table of what the events of s at every set of places make of the rows.
Rounds(h, rws, s, S) ==
    h = [D \in SUBSET S |-> IF D = {} THEN rws ELSE Tried(h[But(D)], s[Max(D)])]

\* What such a table holds for one set of places.
LEMMA RoundsValue ==
    ASSUME NEW rws, NEW s, NEW S, NEW h, Rounds(h, rws, s, S), NEW D \in SUBSET S
    PROVE  h[D] = IF D = {} THEN rws ELSE Tried(h[But(D)], s[Max(D)])
  BY DEF Rounds

\* Two tables agree wherever both have an entry.
LEMMA RoundsUnique ==
    ASSUME NEW rws, NEW s, NEW S, PlaceSet(S), NEW T \in SUBSET S,
           NEW h, NEW k, Rounds(h, rws, s, S), Rounds(k, rws, s, T)
    PROVE  \A D \in SUBSET T : h[D] = k[D]
<1> DEFINE F == {D \in SUBSET T : h[D] # k[D]}
<1> SUFFICES ASSUME F # {} PROVE FALSE
  OBVIOUS
<1>1. F \in SUBSET SUBSET S
  OBVIOUS
<1>2. IsFiniteSet(S)
  BY SomePlaces
<1>3. PICK m \in F : \A t \in F : t \subseteq m => t = m
  <2> HIDE DEF F
  <2> QED
    BY <1>1, <1>2, LeastMember
<1>4. m \in SUBSET T /\ m \in SUBSET S /\ PlaceSet(m)
  <2>1. m \in SUBSET T /\ m \in SUBSET S
    OBVIOUS
  <2>2. QED
    BY <2>1, SomePlaces
<1>5. h[m] = IF m = {} THEN rws ELSE Tried(h[But(m)], s[Max(m)])
  BY <1>4, RoundsValue
<1>6. k[m] = IF m = {} THEN rws ELSE Tried(k[But(m)], s[Max(m)])
  BY <1>4, RoundsValue
<1>7. m # {}
  BY <1>5, <1>6
<1>8. But(m) \in SUBSET T /\ But(m) \subseteq m /\ But(m) # m
  BY <1>4, <1>7, LastPlace
<1>9. h[But(m)] = k[But(m)]
  BY <1>3, <1>8
<1>10. QED
  BY <1>5, <1>6, <1>7, <1>9

\* Every batch has its table.
LEMMA RoundsExist ==
    ASSUME NEW rws, NEW s, NEW S, PlaceSet(S)
    PROVE  \E h : Rounds(h, rws, s, S)
<1> DEFINE F == {T \in SUBSET S : ~ \E h : Rounds(h, rws, s, T)}
<1> SUFFICES ASSUME F # {} PROVE FALSE
  OBVIOUS
<1>1. F \in SUBSET SUBSET S
  OBVIOUS
<1>2. IsFiniteSet(S)
  BY SomePlaces
<1>3. PICK T \in F : \A t \in F : t \subseteq T => t = T
  <2> HIDE DEF F
  <2> QED
    BY <1>1, <1>2, LeastMember
<1>4. PlaceSet(T)
  <2>1. T \in SUBSET S
    OBVIOUS
  <2>2. QED
    BY <2>1, SomePlaces
<1> DEFINE H(D) == CHOOSE h : Rounds(h, rws, s, D)
           g == [D \in SUBSET T |-> IF D = {} THEN rws
                                    ELSE Tried(H(But(D))[But(D)], s[Max(D)])]
<1>5. ASSUME NEW D \in SUBSET T, D # T PROVE Rounds(H(D), rws, s, D)
  <2>1. \E h : Rounds(h, rws, s, D)
    BY <1>3, <1>5
  <2>2. QED
    BY <2>1
<1>6. ASSUME NEW D \in SUBSET T, D # {} PROVE g[But(D)] = H(But(D))[But(D)]
  <2> DEFINE r == But(D)
  <2>1. PlaceSet(D)
    BY <1>4, <1>6, SomePlaces
  <2>2. r \in SUBSET T /\ r # T
    BY <1>6, <2>1, LastPlace
  <2>3. Rounds(H(r), rws, s, r)
    BY <1>5, <2>2
  <2> HIDE DEF r, H
  <2>4. H(r)[r] = IF r = {} THEN rws ELSE Tried(H(r)[But(r)], s[Max(r)])
    BY <2>3, RoundsValue
  <2>5. CASE r = {}
    BY <2>2, <2>4, <2>5 DEF r
  <2>6. CASE r # {}
    <3>1. PlaceSet(r)
      BY <1>4, <2>2, SomePlaces
    <3>2. But(r) \in SUBSET r /\ But(r) \in SUBSET T /\ But(r) # T
      BY <2>2, <2>6, <3>1, LastPlace
    <3>3. Rounds(H(But(r)), rws, s, But(r))
      BY <1>5, <3>2
    <3>4. H(r)[But(r)] = H(But(r))[But(r)]
      BY <2>3, <3>1, <3>2, <3>3, RoundsUnique
    <3>5. g[r] = Tried(H(But(r))[But(r)], s[Max(r)])
      BY <2>2, <2>6
    <3>6. QED
      BY <2>4, <2>6, <3>4, <3>5 DEF r
  <2>7. QED
    BY <2>5, <2>6
<1>7. Rounds(g, rws, s, T)
  <2> HIDE DEF H
  <2>1. ASSUME NEW D \in SUBSET T
        PROVE  (IF D = {} THEN rws ELSE Tried(H(But(D))[But(D)], s[Max(D)]))
                 = (IF D = {} THEN rws ELSE Tried(g[But(D)], s[Max(D)]))
    <3> HIDE DEF g
    <3> QED
      BY <1>6
  <2>2. g = [D \in SUBSET T |-> IF D = {} THEN rws ELSE Tried(g[But(D)], s[Max(D)])]
    BY <2>1
  <2>3. QED
    BY <2>2 DEF Rounds
<1>8. QED
  BY <1>7

\* What the loop makes of the rows is the entry of all the places of the batch.
LEMMA BatchIsRounds ==
    ASSUME NEW rws, NEW batch
    PROVE  FoldLeft(Tried, rws, batch)
             = (CHOOSE h : Rounds(h, rws, batch, DOMAIN batch))[DOMAIN batch]
  BY Zenon DEF FoldLeft, MapThenFoldSet, Rounds, But

\* The loop processes the events of its batch.
LEMMA BatchOf ==
    ASSUME NEW old \in BatchRows, NEW batch \in Seq(Event)
    PROVE  Processed(old, FoldLeft(Tried, old, batch), Range(batch))
<1> DEFINE S == DOMAIN batch
           h == CHOOSE h : Rounds(h, old, batch, S)
           Of(D) == {batch[i] : i \in D}
           Bad == {D \in SUBSET S : ~Processed(old, h[D], Of(D))}
<1>1. S = 1 .. Len(batch) /\ Len(batch) \in Nat /\ \A i \in S : batch[i] \in Event
  OBVIOUS
<1>2. PlaceSet(S)
  BY <1>1 DEF PlaceSet
<1> HIDE DEF S
<1>3. Rounds(h, old, batch, S)
  <2>1. \E k : Rounds(k, old, batch, S)
    BY <1>2, RoundsExist
  <2>2. QED
    BY <2>1
<1>4. FoldLeft(Tried, old, batch) = h[S]
  BY BatchIsRounds DEF S
<1> HIDE DEF h
<1>5. SUFFICES ASSUME Bad # {} PROVE FALSE
  <2>1. Of(S) = Range(batch)
    BY DEF Range, S
  <2>2. S \in SUBSET S
    OBVIOUS
  <2>3. Bad = {} => Processed(old, h[S], Of(S))
    BY <2>2
  <2> HIDE DEF Bad, Of
  <2>4. QED
    BY <1>4, <2>1, <2>3
<1>6. PICK D \in Bad : \A t \in Bad : t \subseteq D => t = D
  <2>1. Bad \in SUBSET SUBSET S /\ IsFiniteSet(S)
    BY <1>2, SomePlaces
  <2> HIDE DEF Bad
  <2>2. QED
    BY <1>5, <2>1, LeastMember
<1>7. D \in SUBSET S /\ PlaceSet(D)
  <2>1. D \in SUBSET S
    OBVIOUS
  <2>2. QED
    BY <1>2, <2>1, SomePlaces
<1>8. h[D] = IF D = {} THEN old ELSE Tried(h[But(D)], batch[Max(D)])
  <2> HIDE DEF Bad, Of
  <2>1. QED
    BY ONLY <1>3, <1>7, RoundsValue
<1>9. CASE D = {}
  <2>1. \A u \in Holder : old.position[u].frozen \in Nat
    BY DEF BatchRows, PositionRow
  <2>2. Processed(old, h[D], Of(D))
    BY <1>8, <1>9, <2>1 DEF Processed
  <2>3. QED
    BY <2>2
<1>10. CASE D # {}
  <2> DEFINE E == But(D)  e == batch[Max(D)]
  <2>1. Max(D) \in D /\ E \subseteq D /\ E # D
    BY <1>7, <1>10, LastPlace
  <2>2. Processed(old, h[E], Of(E))
    BY <1>6, <1>7, <2>1
  <2>3. e \in Event
    BY <1>1, <1>7, <2>1
  <2>4. h[D] = Tried(h[E], e)
    BY <1>8, <1>10
  <2>5. Of(D) = Of(E) \cup {e}
    BY <2>1 DEF But
  <2> HIDE DEF E, e, Of
  <2>6. h[E] \in BatchRows
    BY <2>2 DEF Processed
  <2>7. Processed(h[E], Tried(h[E], e), {e})
    BY <2>3, <2>6, Round
  <2>8. Processed(old, Tried(h[E], e), Of(E) \cup {e})
    BY <2>2, <2>6, <2>7, RoundsMore
  <2>9. Processed(old, h[D], Of(D))
    BY <2>4, <2>5, <2>8
  <2>10. QED
    BY <2>9 DEF Of
<1>11. QED
  BY <1>9, <1>10

-----------------------------------------------------------------------------
(* The market: the inductive invariant *)

\* One tick at a time: whoever is in a tick holds the lease.
TickersAlone ==
    OneTicker => \A t \in Ticker : TickerAt(t, "sleep") \/ leader = t

\* What a transaction has read is there; with one tick at a time nobody has settled or
\* applied it meanwhile.
WorkKnown ==
    \A t \in Ticker :
        /\ ticker[t].due \subseteq DOMAIN sales
        /\ ticker[t].due # {} => TickerAt(t, "release")
        /\ ticker[t].batch # <<>> => TickerAt(t, "company") \/ TickerAt(t, "apply")
        /\ OneTicker =>
              /\ \A i \in ticker[t].due : ~sales[i].settled /\ sales[i].due <= day
              /\ \A i \in DOMAIN ticker[t].batch : ticker[t].batch[i] \notin applied

\* The inductive invariant of the market.
MarketInv == AccountsCovered /\ EventsOnce /\ TickersAlone /\ WorkKnown

-----------------------------------------------------------------------------
(* The market: the sales that are open *)

SaleRow == [user : Holder, proceeds : Nat, due : Nat, settled : BOOLEAN]

\* What the sales at the places S of sl bring, and the places of u's open ones.
WorthOf(sl, S) == SumFunctionOnSet([i \in DOMAIN sl |-> sl[i].proceeds], S)
OpenOf(sl, u) == {i \in DOMAIN sl : sl[i].user = u /\ ~sl[i].settled}

\* Sales are finitely many, and what they bring is a whole number.
LEMMA WorthNat ==
    ASSUME NEW sl \in Seq(SaleRow), NEW S \in SUBSET DOMAIN sl
    PROVE  /\ IsFiniteSet(S)
           /\ \A i \in S : [j \in DOMAIN sl |-> sl[j].proceeds][i] \in Nat
           /\ WorthOf(sl, S) \in Nat
<1>1. Len(sl) \in Nat /\ DOMAIN sl = 1 .. Len(sl) /\ \A i \in DOMAIN sl : sl[i] \in SaleRow
  OBVIOUS
<1>2. IsFiniteSet(DOMAIN sl)
  BY <1>1, FS_Interval
<1>3. IsFiniteSet(S)
  BY <1>2, FS_Subset
<1> DEFINE f == [j \in DOMAIN sl |-> sl[j].proceeds]
<1>4. \A i \in S : f[i] \in Nat
  BY <1>1 DEF SaleRow
<1> HIDE DEF f
<1>5. SumFunctionOnSet(f, S) \in Nat
  BY <1>3, <1>4, SumNat
<1>6. QED
  BY <1>3, <1>4, <1>5 DEF f, WorthOf

\* A new sale is open.
LEMMA SaleOpens ==
    ASSUME NEW sl \in Seq(SaleRow), NEW r \in SaleRow, ~r.settled, NEW u
    PROVE  WorthOf(Append(sl, r), OpenOf(Append(sl, r), u))
             = WorthOf(sl, OpenOf(sl, u)) + IF r.user = u THEN r.proceeds ELSE 0
<1> DEFINE n == Len(sl) + 1
           more == Append(sl, r)
           f == [i \in DOMAIN sl |-> sl[i].proceeds]
           g == [i \in DOMAIN more |-> more[i].proceeds]
           S == OpenOf(sl, u)
<1>1. /\ Len(sl) \in Nat /\ DOMAIN sl = 1 .. Len(sl)
      /\ more \in Seq(SaleRow) /\ Len(more) = n /\ DOMAIN more = 1 .. n
      /\ more[n] = r /\ \A i \in DOMAIN sl : more[i] = sl[i]
  BY AppendProperties
<1> HIDE DEF more
<1>2. n \in DOMAIN more /\ n \notin DOMAIN sl /\ DOMAIN more = DOMAIN sl \cup {n}
  BY <1>1
<1>3. S \in SUBSET DOMAIN sl /\ S \in SUBSET DOMAIN more /\ n \notin S
  BY <1>2 DEF OpenOf
<1>4. /\ OpenOf(more, u) \in SUBSET DOMAIN more
      /\ OpenOf(more, u) = IF r.user = u THEN S \cup {n} ELSE S
  BY <1>1, <1>2 DEF OpenOf
<1>5. \A i \in S : f[i] = g[i]
  BY <1>1, <1>3
<1>6. g[n] = r.proceeds
  BY <1>1, <1>2
<1>7. IsFiniteSet(S) /\ WorthOf(sl, S) \in Nat
  BY <1>3, WorthNat
<1>8. \A i \in OpenOf(more, u) : g[i] \in Nat
  BY <1>1, <1>4, WorthNat
<1> HIDE DEF f, g, S, n
<1>9. SumFunctionOnSet(g, S) = WorthOf(sl, S)
  <2>1. SumFunctionOnSet(f, S) = SumFunctionOnSet(g, S)
    BY <1>5, <1>7, SumSame
  <2>2. QED
    BY <2>1 DEF WorthOf, f
<1>10. WorthOf(more, OpenOf(more, u)) = SumFunctionOnSet(g, OpenOf(more, u))
  BY DEF WorthOf, g
<1>11. CASE r.user = u
  <2>1. SumFunctionOnSet(g, S \cup {n}) = g[n] + SumFunctionOnSet(g, S)
    <3>1. \A i \in S \cup {n} : g[i] \in Int
      BY <1>4, <1>8, <1>11
    <3>2. QED
      BY <1>3, <1>7, <3>1, SumInsert
  <2>2. r.proceeds \in Nat
    BY DEF SaleRow
  <2>3. QED
    BY <1>4, <1>6, <1>7, <1>9, <1>10, <1>11, <2>1, <2>2 DEF more, S
<1>12. CASE r.user # u
  BY <1>4, <1>7, <1>9, <1>10, <1>12 DEF more, S
<1>13. QED
  BY <1>11, <1>12

\* The sales after the due ones are settled.
SettledBy(sl, due) == [i \in DOMAIN sl |-> [sl[i] EXCEPT !.settled = @ \/ i \in due]]

\* A settlement changes nothing but the mark of the due ones.
LEMMA SettledRows ==
    ASSUME NEW sl \in Seq(SaleRow), NEW due
    PROVE  /\ SettledBy(sl, due) \in Seq(SaleRow)
           /\ DOMAIN SettledBy(sl, due) = DOMAIN sl
           /\ \A i \in DOMAIN sl :
                 /\ SettledBy(sl, due)[i].user = sl[i].user
                 /\ SettledBy(sl, due)[i].proceeds = sl[i].proceeds
                 /\ SettledBy(sl, due)[i].due = sl[i].due
                 /\ SettledBy(sl, due)[i].settled <=> sl[i].settled \/ i \in due
<1>1. Len(sl) \in Nat /\ DOMAIN sl = 1 .. Len(sl) /\ \A i \in DOMAIN sl : sl[i] \in SaleRow
  OBVIOUS
<1>2. ASSUME NEW i \in DOMAIN sl
      PROVE  /\ SettledBy(sl, due)[i] \in SaleRow
             /\ SettledBy(sl, due)[i].user = sl[i].user
             /\ SettledBy(sl, due)[i].proceeds = sl[i].proceeds
             /\ SettledBy(sl, due)[i].due = sl[i].due
             /\ SettledBy(sl, due)[i].settled <=> sl[i].settled \/ i \in due
  <2> DEFINE is == sl[i].settled \/ i \in due
  <2>1. is \in BOOLEAN /\ sl[i] \in SaleRow
    BY <1>1
  <2>2. SettledBy(sl, due)[i] = [sl[i] EXCEPT !.settled = is]
    BY DEF SettledBy
  <2> HIDE DEF is
  <2>3. /\ [sl[i] EXCEPT !.settled = is] \in SaleRow
        /\ [sl[i] EXCEPT !.settled = is].user = sl[i].user
        /\ [sl[i] EXCEPT !.settled = is].proceeds = sl[i].proceeds
        /\ [sl[i] EXCEPT !.settled = is].due = sl[i].due
        /\ [sl[i] EXCEPT !.settled = is].settled = is
    BY <2>1 DEF SaleRow
  <2>4. QED
    BY <2>2, <2>3 DEF is
<1>3. SettledBy(sl, due) \in [1 .. Len(sl) -> SaleRow]
  <2>1. /\ DOMAIN SettledBy(sl, due) = 1 .. Len(sl)
        /\ SettledBy(sl, due) = [i \in DOMAIN sl |-> SettledBy(sl, due)[i]]
    BY <1>1 DEF SettledBy
  <2>2. QED
    BY <1>1, <1>2, <2>1
<1>4. SettledBy(sl, due) \in Seq(SaleRow)
  BY <1>1, <1>3, IsASeq
<1>5. DOMAIN SettledBy(sl, due) = DOMAIN sl
  BY DEF SettledBy
<1>6. QED
  BY <1>2, <1>4, <1>5

\* What the due sales bring and what stays open is at least what was open, and exactly
\* that when none of the due ones was settled.
LEMMA SaleSettles ==
    ASSUME NEW sl \in Seq(SaleRow), NEW due \in SUBSET DOMAIN sl, NEW u,
           NEW mine, mine = {i \in due : sl[i].user = u}
    PROVE  /\ WorthOf(sl, mine) \in Nat
           /\ WorthOf(SettledBy(sl, due), OpenOf(SettledBy(sl, due), u)) \in Nat
           /\ WorthOf(sl, OpenOf(sl, u))
                <= WorthOf(sl, mine) + WorthOf(SettledBy(sl, due), OpenOf(SettledBy(sl, due), u))
           /\ (\A i \in due : ~sl[i].settled) =>
                 WorthOf(sl, OpenOf(sl, u)) =
                 WorthOf(sl, mine) + WorthOf(SettledBy(sl, due), OpenOf(SettledBy(sl, due), u))
<1> DEFINE sm == SettledBy(sl, due)
           f == [i \in DOMAIN sl |-> sl[i].proceeds]
           S == OpenOf(sl, u)  R == OpenOf(sm, u)
<1>1. /\ sm \in Seq(SaleRow) /\ DOMAIN sm = DOMAIN sl
      /\ \A i \in DOMAIN sl : /\ sm[i].user = sl[i].user /\ sm[i].proceeds = sl[i].proceeds
                              /\ sm[i].settled <=> sl[i].settled \/ i \in due
  BY SettledRows
<1> HIDE DEF sm
<1>2. /\ mine \in SUBSET DOMAIN sl /\ S \in SUBSET DOMAIN sl /\ R \in SUBSET DOMAIN sl
      /\ mine \cap R = {} /\ S \subseteq mine \cup R
      /\ (\A i \in due : ~sl[i].settled) => S = mine \cup R
  BY <1>1 DEF OpenOf
<1>3. /\ WorthOf(sl, mine) \in Nat
      /\ WorthOf(sl, R) \in Nat
      /\ IsFiniteSet(mine)
      /\ IsFiniteSet(R)
  BY <1>2, WorthNat
<1> HIDE DEF S, R
<1>4. mine \cup R \in SUBSET DOMAIN sl
  BY <1>2
<1>5. IsFiniteSet(mine \cup R) /\ \A i \in mine \cup R : f[i] \in Nat
  BY <1>4, WorthNat
<1>6. [i \in DOMAIN sm |-> sm[i].proceeds] = f
  BY <1>1
<1> HIDE DEF f
<1>7. WorthOf(sm, R) = WorthOf(sl, R)
  BY <1>6 DEF WorthOf, f
<1>8. SumFunctionOnSet(f, mine \cup R) = SumFunctionOnSet(f, mine) + SumFunctionOnSet(f, R)
  <2>1. \A i \in mine \cup R : f[i] \in Int
    BY <1>5
  <2>2. QED
    BY <1>2, <1>3, <2>1, SumUnion
<1>9. SumFunctionOnSet(f, S) <= SumFunctionOnSet(f, mine \cup R)
  BY <1>2, <1>5, SumSubset
<1>10. \A T : SumFunctionOnSet(f, T) = WorthOf(sl, T)
  BY DEF WorthOf, f
<1>11. /\ WorthOf(sl, S) <= WorthOf(sl, mine) + WorthOf(sl, R)
       /\ (\A i \in due : ~sl[i].settled) => WorthOf(sl, S) = WorthOf(sl, mine) + WorthOf(sl, R)
  <2>1. WorthOf(sl, mine \cup R) = WorthOf(sl, mine) + WorthOf(sl, R)
    BY <1>8, <1>10
  <2>2. WorthOf(sl, S) <= WorthOf(sl, mine \cup R)
    BY <1>9, <1>10
  <2>3. QED
    BY <1>2, <2>1, <2>2
<1>12. QED
  BY <1>3, <1>7, <1>11 DEF S, R, sm

-----------------------------------------------------------------------------
(* The market: types *)

Places == {"sleep", "price", "engine", "match", "due", "release", "events", "company",
           "apply"}

TickerRow == [at : Places, primed : BOOLEAN, reference : [day : Nat, price : Nat],
              seen : Nat, due : SUBSET Nat, batch : Seq(Event), company : CompanyRow]

\* The rows have their types.
RowsTyped ==
    /\ company \in CompanyRow
    /\ position \in [Holder -> PositionRow]
    /\ wallet \in [Holder -> WalletRow]
    /\ ask \in [Holder -> Nat]
    /\ sales \in Seq(SaleRow)
    /\ applied \subseteq Event
    /\ paid \in [Event -> Nat]

TallyTyped == tally \in [asks : 0 .. MaxAsks, lapses : 0 .. MaxLapses,
                         failures : 0 .. MaxFailures]

\* The types of the rows, one by one.
LEMMA TypesAre ==
    MarketTypeOK <=> /\ day \in 1 .. MaxDay /\ RowsTyped /\ TallyTyped
                     /\ leader \in Ticker \cup {NoTicker}
                     /\ ticker \in [Ticker -> TickerRow]
  BY Zenon DEF MarketTypeOK, RowsTyped, TallyTyped, CompanyRow, PositionRow, WalletRow,
               SaleRow, TickerRow, Places

\* The same of the next state.
LEMMA TypesThen ==
    MarketTypeOK' <=> /\ (day \in 1 .. MaxDay)' /\ RowsTyped' /\ TallyTyped'
                      /\ (leader \in Ticker \cup {NoTicker})'
                      /\ (ticker \in [Ticker -> TickerRow])'
  BY Zenon DEF MarketTypeOK, RowsTyped, TallyTyped, CompanyRow, PositionRow, WalletRow,
               SaleRow, TickerRow, Places

\* The rows stay.
LEMMA RowsStay ==
    ASSUME RowsTyped, UNCHANGED rows
    PROVE  RowsTyped'
  BY DEF RowsTyped, rows

\* A worker that starts knows nothing.
LEMMA StartedRow ==
    /\ Started \in TickerRow /\ Started.at = "sleep" /\ Started.due = {}
    /\ Started.batch = <<>>
<1>1. Price0 \in Nat /\ Shares0 \in Nat
  BY MarketAssumption
<1>2. <<>> \in Seq(Event)
  OBVIOUS
<1>3. QED
  BY <1>1, <1>2 DEF Started, TickerRow, Places, CompanyRow

\* Behind a transaction what it has read is gone.
LEMMA GoesOn ==
    ASSUME ticker \in [Ticker -> TickerRow], NEW t \in Ticker, NEW place \in Places,
           Goes(t, place)
    PROVE  /\ ticker' \in [Ticker -> TickerRow]
           /\ ticker'[t].at = place /\ ticker'[t].due = {} /\ ticker'[t].batch = <<>>
           /\ \A o \in Ticker \ {t} : ticker'[o] = ticker[o]
<1> DEFINE past == ticker[t].reference
           next == [Started EXCEPT !.at = place, !.primed = TRUE, !.reference = past]
<1>1. past \in [day : Nat, price : Nat]
  BY DEF TickerRow
<1>2. ticker' = [ticker EXCEPT ![t] = next]
  BY DEF Goes
<1> HIDE DEF past
<1>3. next \in TickerRow /\ next.at = place /\ next.due = {} /\ next.batch = <<>>
  BY <1>1, StartedRow DEF TickerRow
<1> HIDE DEF next
<1>4. QED
  BY <1>2, <1>3

\* A counter that counts keeps its bound; only a lapse counts as one.
LEMMA Counts ==
    ASSUME TallyTyped,
           \/ Count("asks", MaxAsks) \/ Count("failures", MaxFailures)
           \/ Count("lapses", MaxLapses)
    PROVE  /\ TallyTyped'
           /\ tally'.lapses # tally.lapses => tally'.lapses # 0
           /\ Count("asks", MaxAsks) => tally'.lapses = tally.lapses
           /\ Count("failures", MaxFailures) => tally'.lapses = tally.lapses
           /\ Count("lapses", MaxLapses) => tally'.lapses # 0
  BY MarketAssumption DEF TallyTyped, Count

\* One step of the random walk stays a whole number, in the band or out of it.
LEMMA PriceMoves ==
    ASSUME NEW price \in Nat, NEW p \in Walked(price), NEW reference \in Nat
    PROVE  p \in Nat /\ Clipped(p, reference) \in Nat
  BY MarketAssumption DEF Walked, Clipped

\* The batch of a set of events is a sequence of them.
LEMMA BatchEvents ==
    ASSUME NEW S \in SUBSET Event, NEW batch \in Batches(S)
    PROVE  /\ batch \in Seq(Event) /\ \A i \in DOMAIN batch : batch[i] \in S
           /\ S = {} => batch = <<>>
<1>1. IsFiniteSet(S)
  BY MarketAssumption, FS_Subset
<1>2. Cardinality(S) \in Nat /\ (S = {} => Cardinality(S) = 0)
  BY <1>1, FS_CardinalityType, FS_EmptySet
<1> DEFINE n == Cardinality(S)
<1>3. batch \in [1 .. n -> S]
  BY DEF Batches, SetToSeqs
<1> HIDE DEF n
<1>4. n \in Nat
  BY <1>2 DEF n
<1>5. batch \in Seq(S)
  BY <1>3, <1>4, IsASeq
<1>6. batch \in Seq(Event)
  BY <1>5
<1>7. Len(batch) = n
  BY <1>3, <1>4, <1>5
<1>8. S = {} => batch = <<>>
  BY <1>2, <1>6, <1>7, EmptySeq DEF n
<1>9. QED
  BY <1>3, <1>6, <1>8

-----------------------------------------------------------------------------
(* The market: the types are kept *)

\* The day is counted from one.
LEMMA DayNat ==
    ASSUME MarketTypeOK
    PROVE  day \in Nat /\ day # 0 /\ MaxDay \in Nat
  BY MarketAssumption DEF MarketTypeOK

\* A tick of t that changes neither the rows nor the day.
LEMMA TickTypes ==
    ASSUME MarketTypeOK, UNCHANGED <<day, rows>>, TallyTyped',
           leader' \in Ticker \cup {NoTicker}, ticker' \in [Ticker -> TickerRow]
    PROVE  MarketTypeOK'
<1>1. RowsTyped' /\ (day \in 1 .. MaxDay)'
  BY TypesAre, RowsStay
<1>2. QED
  BY <1>1, TypesThen

\* Whoever goes on behind a transaction that failed, or that changed nothing.
LEMMA GoneTypes ==
    ASSUME MarketTypeOK, NEW t \in Ticker, NEW place \in Places, Goes(t, place),
           UNCHANGED <<day, leader, rows>>, tally' = tally \/ Count("failures", MaxFailures)
    PROVE  MarketTypeOK'
<1>1. TallyTyped'
  <2>1. TallyTyped
    BY TypesAre
  <2>2. CASE tally' = tally
    BY <2>1, <2>2 DEF TallyTyped
  <2>3. CASE Count("failures", MaxFailures)
    BY <2>1, <2>3, Counts
  <2>4. QED
    BY <2>2, <2>3
<1>2. ticker' \in [Ticker -> TickerRow]
  BY TypesAre, GoesOn
<1>3. leader' \in Ticker \cup {NoTicker}
  BY TypesAre
<1>4. QED
  BY <1>1, <1>2, <1>3, TickTypes

\* A ticker's memory changes in some of its fields.
LEMMA MemoryTypes ==
    ASSUME NEW row \in TickerRow, NEW at \in Places
    PROVE  /\ \A primed \in BOOLEAN : [row EXCEPT !.at = at, !.primed = primed] \in TickerRow
           /\ \A seen \in Nat, reference \in [day : Nat, price : Nat] :
                 [row EXCEPT !.at = at, !.seen = seen, !.reference = reference] \in TickerRow
           /\ \A due \in SUBSET Nat : [row EXCEPT !.due = due, !.at = at] \in TickerRow
           /\ \A batch \in Seq(Event) : [row EXCEPT !.batch = batch, !.at = at] \in TickerRow
           /\ \A copy \in CompanyRow : [row EXCEPT !.at = at, !.company = copy] \in TickerRow
  BY DEF TickerRow

\* Acquire keeps the types.
LEMMA AcquireTypes ==
    ASSUME MarketTypeOK, NEW t \in Ticker, Acquire(t)
    PROVE  MarketTypeOK'
<1> DEFINE at == IF ticker[t].primed THEN "price" ELSE "sleep"
           next == [ticker[t] EXCEPT !.at = at, !.primed = TRUE]
<1>1. ticker[t] \in TickerRow /\ ticker \in [Ticker -> TickerRow]
  BY TypesAre
<1>2. next \in TickerRow
  <2>1. at \in Places
    BY DEF Places
  <2> HIDE DEF at
  <2>2. QED
    BY <1>1, <2>1, MemoryTypes
<1>3. ticker' = [ticker EXCEPT ![t] = next]
  BY <1>1 DEF Acquire
<1> HIDE DEF next
<1>4. ticker' \in [Ticker -> TickerRow]
  BY <1>1, <1>2, <1>3
<1>5. leader' \in Ticker \cup {NoTicker} /\ UNCHANGED <<day, tally, rows>>
  BY DEF Acquire
<1>6. TallyTyped'
  BY <1>5, TypesAre DEF TallyTyped
<1>7. QED
  BY <1>4, <1>5, <1>6, TickTypes

\* The steps that only read.
LEMMA ReadTypes ==
    ASSUME MarketTypeOK, NEW t \in Ticker,
           ReadPrice(t) \/ ReadDue(t) \/ ReadEvents(t) \/ ReadCompany(t)
    PROVE  MarketTypeOK'
<1>1. ticker[t] \in TickerRow /\ ticker \in [Ticker -> TickerRow] /\ RowsTyped
  BY TypesAre
<1>2. company \in CompanyRow /\ company.price \in Nat /\ sales \in Seq(SaleRow)
  BY <1>1 DEF RowsTyped, CompanyRow
<1>3. ASSUME NEW next \in TickerRow, ticker' = [ticker EXCEPT ![t] = next], NoChange
      PROVE  MarketTypeOK'
  <2>1. ticker' \in [Ticker -> TickerRow]
    BY <1>1, <1>3
  <2>2. TallyTyped' /\ leader' \in Ticker \cup {NoTicker}
    BY <1>3, TypesAre DEF NoChange, TallyTyped
  <2>3. UNCHANGED <<day, rows>>
    BY <1>3 DEF NoChange
  <2>4. QED
    BY <2>1, <2>2, <2>3, TickTypes
<1>4. CASE ReadPrice(t)
  <2>1. Reference(t) \in [day : Nat, price : Nat]
    BY <1>1, <1>2, DayNat DEF Reference, TickerRow
  <2> DEFINE next == [ticker[t] EXCEPT !.at = "engine", !.seen = company.price,
                                       !.reference = Reference(t)]
  <2>2. next \in TickerRow
    <3>1. "engine" \in Places
      BY DEF Places
    <3>2. QED
      BY <1>1, <1>2, <2>1, <3>1, MemoryTypes
  <2>3. ticker' = [ticker EXCEPT ![t] = next] /\ NoChange
    BY <1>1, <1>4 DEF ReadPrice
  <2>4. QED
    BY <1>3, <2>2, <2>3
<1>5. CASE ReadDue(t)
  <2>1. Due \in SUBSET Nat
    BY <1>2 DEF Due
  <2> DEFINE at == IF Due = {} THEN "events" ELSE "release"
             next == [ticker[t] EXCEPT !.due = Due, !.at = at]
  <2>2. at \in Places
    BY DEF Places
  <2>3. next \in TickerRow
    <3> HIDE DEF at
    <3>1. QED
      BY <1>1, <2>1, <2>2, MemoryTypes
  <2>4. ticker' = [ticker EXCEPT ![t] = next] /\ NoChange
    BY <1>1, <1>5 DEF ReadDue
  <2>5. QED
    BY <1>3, <2>3, <2>4
<1>6. CASE ReadEvents(t)
  <2>1. PICK batch \in Batches(DueEvents) :
           ticker' = [ticker EXCEPT ![t].batch = batch,
                                    ![t].at = IF DueEvents = {} THEN "sleep" ELSE "company"]
    BY <1>6 DEF ReadEvents
  <2>2. batch \in Seq(Event)
    <3>1. DueEvents \in SUBSET Event
      BY DEF DueEvents
    <3>2. QED
      BY <3>1, BatchEvents
  <2> DEFINE at == IF DueEvents = {} THEN "sleep" ELSE "company"
             next == [ticker[t] EXCEPT !.batch = batch, !.at = at]
  <2>3. at \in Places
    BY DEF Places
  <2>4. next \in TickerRow
    <3> HIDE DEF at
    <3>1. QED
      BY <1>1, <2>2, <2>3, MemoryTypes
  <2>5. ticker' = [ticker EXCEPT ![t] = next] /\ NoChange
    BY <1>1, <1>6, <2>1 DEF ReadEvents
  <2>6. QED
    BY <1>3, <2>4, <2>5
<1>7. CASE ReadCompany(t)
  <2> DEFINE next == [ticker[t] EXCEPT !.at = "apply", !.company = company]
  <2>1. next \in TickerRow
    <3>1. "apply" \in Places
      BY DEF Places
    <3>2. QED
      BY <1>1, <1>2, <3>1, MemoryTypes
  <2>2. ticker' = [ticker EXCEPT ![t] = next] /\ NoChange
    BY <1>1, <1>7 DEF ReadCompany
  <2>3. QED
    BY <1>3, <2>1, <2>2
<1>8. QED
  BY <1>4, <1>5, <1>6, <1>7

\* A price is written.
LEMMA PriceTypes ==
    ASSUME MarketTypeOK, NEW t \in Ticker, EnginePrice(t) \/ FallbackPrice(t)
    PROVE  MarketTypeOK'
<1>1. /\ RowsTyped /\ TallyTyped /\ ticker \in [Ticker -> TickerRow]
      /\ day \in 1 .. MaxDay /\ leader \in Ticker \cup {NoTicker}
  BY TypesAre
<1>2. ticker[t].seen \in Nat /\ ticker[t].reference.price \in Nat
  BY <1>1 DEF TickerRow
<1>3. PICK p \in Nat : WritePrice(t, p)
  BY <1>2, PriceMoves DEF EnginePrice, FallbackPrice
<1>4. TallyTyped'
  <2>1. CASE EnginePrice(t)
    BY <1>1, <2>1 DEF EnginePrice, TallyTyped
  <2>2. CASE FallbackPrice(t)
    <3>1. Count("failures", MaxFailures)
      BY <2>2 DEF FallbackPrice
    <3>2. QED
      BY <1>1, <3>1, Counts
  <2>3. QED
    BY <2>1, <2>2
<1>5. ticker' \in [Ticker -> TickerRow]
  <2>1. Goes(t, "match") /\ "match" \in Places
    BY <1>3 DEF WritePrice, Places
  <2>2. QED
    BY <1>1, <2>1, GoesOn
<1>6. company' \in CompanyRow
  <2>1. company \in CompanyRow /\ company' = [company EXCEPT !.price = p]
    BY <1>1, <1>3 DEF RowsTyped, WritePrice
  <2>2. QED
    BY <2>1 DEF CompanyRow
<1>7. RowsTyped' /\ day' = day /\ leader' = leader
  BY <1>1, <1>3, <1>6 DEF RowsTyped, WritePrice
<1>8. (day \in 1 .. MaxDay)' /\ (leader \in Ticker \cup {NoTicker})'
  BY <1>1, <1>7
<1>9. QED
  BY <1>4, <1>5, <1>7, <1>8, TypesThen

\* What orders and fills write has its type.
OrdersTyped ==
    /\ TallyTyped
    /\ ask \in [Holder -> Nat] /\ position \in [Holder -> PositionRow]
    /\ wallet \in [Holder -> WalletRow] /\ sales \in Seq(SaleRow)

\* The orders and their fills.
LEMMA TradeTypes ==
    ASSUME MarketTypeOK, AsksCovered, Trade
    PROVE  MarketTypeOK'
<1>1. /\ RowsTyped /\ TallyTyped /\ ticker \in [Ticker -> TickerRow]
      /\ day \in 1 .. MaxDay /\ leader \in Ticker \cup {NoTicker}
  BY TypesAre
<1>2. UNCHANGED <<day, company, applied, leader, ticker, paid>>
  BY DEF Trade, CancelAsk, PlaceAsk, Fill
<1>3. ASSUME NEW u \in Holder
      PROVE  /\ position[u] \in PositionRow /\ position[u].quantity \in Nat
             /\ position[u].frozen \in Nat /\ ask[u] \in Nat /\ ask[u] <= position[u].frozen
             /\ position[u].frozen <= position[u].quantity
             /\ wallet[u] \in WalletRow /\ wallet[u].settling \in Nat
  BY <1>1 DEF RowsTyped, PositionRow, WalletRow, AsksCovered
<1>4. /\ ask \in [Holder -> Nat] /\ position \in [Holder -> PositionRow]
      /\ wallet \in [Holder -> WalletRow] /\ sales \in Seq(SaleRow)
      /\ company.price \in Nat
  BY <1>1 DEF RowsTyped, CompanyRow
<1>5. OrdersTyped'
  <2>1. ASSUME NEW u \in Holder, CancelAsk(u) PROVE OrdersTyped'
    <3> DEFINE rest == position[u].frozen - ask[u]
    <3>1. rest \in Nat
      BY <1>3
    <3>2. position' = [position EXCEPT ![u] = [position[u] EXCEPT !.frozen = rest]]
      BY <1>4, <2>1 DEF CancelAsk
    <3> HIDE DEF rest
    <3>3. [position[u] EXCEPT !.frozen = rest] \in PositionRow
      BY <1>3, <3>1 DEF PositionRow
    <3>4. position' \in [Holder -> PositionRow]
      BY <1>4, <3>2, <3>3
    <3>5. ask' \in [Holder -> Nat]
      BY <1>4, <2>1 DEF CancelAsk
    <3>6. QED
      BY <1>1, <1>4, <2>1, <3>4, <3>5 DEF CancelAsk, TallyTyped, OrdersTyped
  <2>2. ASSUME NEW u \in Holder, NEW q \in Lot, PlaceAsk(u, q)
        PROVE  OrdersTyped'
    <3> DEFINE more == position[u].frozen + q
    <3>1. q \in Nat /\ more \in Nat
      BY <1>3, MarketAssumption
    <3>2. position' = [position EXCEPT ![u] = [position[u] EXCEPT !.frozen = more]]
      BY <1>4, <2>2 DEF PlaceAsk
    <3> HIDE DEF more
    <3>3. [position[u] EXCEPT !.frozen = more] \in PositionRow
      BY <1>3, <3>1 DEF PositionRow
    <3>4. position' \in [Holder -> PositionRow]
      BY <1>4, <3>2, <3>3
    <3>5. ask' \in [Holder -> Nat] /\ wallet' = wallet /\ sales' = sales
      BY <1>4, <2>2, <3>1 DEF PlaceAsk
    <3>6. TallyTyped'
      <4>1. Count("asks", MaxAsks)
        BY <2>2 DEF PlaceAsk
      <4>2. QED
        BY <1>1, <4>1, Counts
    <3>7. QED
      BY <1>4, <3>4, <3>5, <3>6 DEF OrdersTyped
  <2>3. ASSUME NEW t \in Ticker, NEW u \in Holder, NEW q \in 1 .. ask[u], Fill(t, u, q)
        PROVE  OrdersTyped'
    <3> DEFINE row == [quantity |-> position[u].quantity - q, frozen |-> position[u].frozen - q]
               worth == q * company.price
               r == [user |-> u, proceeds |-> worth, due |-> day + SettlementDays,
                     settled |-> FALSE]
               waits == wallet[u].settling + worth
               rest == ask[u] - q
    <3>1. /\ q \in Nat /\ q <= ask[u] /\ q <= position[u].frozen
          /\ q <= position[u].quantity
      BY <1>3, <2>3 DEF Fill
    <3>2. row \in PositionRow /\ rest \in Nat
      BY <1>3, <3>1 DEF PositionRow
    <3>3. worth \in Nat
      BY <1>4, <3>1
    <3>4. position' = [position EXCEPT ![u] = row]
      BY <1>4, <2>3 DEF Fill
    <3>5. wallet' = [wallet EXCEPT ![u] = [wallet[u] EXCEPT !.settling = waits]]
      BY <1>4, <2>3 DEF Fill
    <3>6. sales' = Append(sales, r)
      BY <2>3 DEF Fill
    <3>7. ask' = [ask EXCEPT ![u] = rest] /\ tally' = tally
      BY <1>4, <2>3 DEF Fill
    <3> HIDE DEF row, worth, rest
    <3>8. r \in SaleRow
      BY <3>3, MarketAssumption, DayNat DEF SaleRow
    <3>9. waits \in Nat
      BY <1>3, <3>3
    <3> HIDE DEF r, waits
    <3>10. [wallet[u] EXCEPT !.settling = waits] \in WalletRow
      BY <1>3, <3>9 DEF WalletRow
    <3>11. TallyTyped'
      BY <1>1, <3>7 DEF TallyTyped
    <3>12. sales' \in Seq(SaleRow)
      BY <1>4, <3>6, <3>8, AppendProperties
    <3>13. QED
      BY <1>4, <3>2, <3>4, <3>5, <3>7, <3>10, <3>11, <3>12 DEF OrdersTyped
  <2>4. QED
    BY <2>1, <2>2, <2>3 DEF Trade
<1>6. RowsTyped'
  BY <1>1, <1>2, <1>5 DEF RowsTyped, OrdersTyped
<1>7. /\ (day \in 1 .. MaxDay)'
      /\ (leader \in Ticker \cup {NoTicker})'
      /\ (ticker \in [Ticker -> TickerRow])'
  BY <1>1, <1>2
<1>8. QED
  BY <1>5, <1>6, <1>7, TypesThen DEF OrdersTyped

\* What the users get from a release is what the arithmetic of one user says.
LEMMA OneRelease ==
    ASSUME NEW waits \in Nat, NEW brings \in Nat
    PROVE  LET gone == Least(brings, waits)
           IN  /\ gone \in Nat /\ waits - gone \in Nat /\ waits - gone <= waits
               /\ \A open, left \in Nat :
                     /\ waits <= open /\ open <= brings + left => waits - gone <= left
                     /\ waits = open /\ open = brings + left => waits - gone = left
  BY DEF Least

\* The accounts and the sales behind a release.
LEMMA Releases ==
    ASSUME MarketTypeOK, WorkKnown, NEW t \in Ticker, Release(t)
    PROVE  /\ sales' = SettledBy(sales, ticker[t].due)
           /\ wallet' \in [Holder -> WalletRow]
           /\ \A u \in Holder :
                 LET brings == WorthOf(sales, {i \in ticker[t].due : sales[i].user = u})
                 IN  wallet'[u].settling
                       = wallet[u].settling - Least(brings, wallet[u].settling)
<1>1. RowsTyped /\ ticker[t].due \in SUBSET DOMAIN sales
  BY TypesAre DEF WorkKnown
<1>2. sales \in Seq(SaleRow) /\ wallet \in [Holder -> WalletRow]
  BY <1>1 DEF RowsTyped
<1>3. sales' = SettledBy(sales, ticker[t].due)
  BY DEF Release, SettledBy
<1>4. ASSUME NEW u \in Holder
      PROVE  /\ wallet'[u] \in WalletRow
             /\ wallet'[u].settling = wallet[u].settling
                  - Least(WorthOf(sales, {i \in ticker[t].due : sales[i].user = u}), wallet[u].settling)
  <2> DEFINE mine == {i \in ticker[t].due : sales[i].user = u}
             brings == WorthOf(sales, mine)
             gone == Least(brings, wallet[u].settling)
             left == wallet[u].settling - gone
             has == wallet[u].cash + gone
  <2>1. mine \in SUBSET DOMAIN sales
    BY <1>1
  <2>2. brings \in Nat /\ wallet[u].settling \in Nat /\ wallet[u].cash \in Nat
    BY <1>2, <2>1, WorthNat DEF WalletRow
  <2>3. Released(u, ticker[t].due) = gone
    BY DEF Released, ProceedsOf, WorthOf
  <2>4. wallet'[u] = [cash |-> has, settling |-> left]
    BY <2>3 DEF Release
  <2> HIDE DEF brings
  <2>5. gone \in Nat /\ left \in Nat
    BY <2>2, OneRelease
  <2> HIDE DEF gone
  <2>6. has \in Nat /\ left \in Nat
    BY <2>2, <2>5
  <2> HIDE DEF has, left
  <2>7. wallet'[u] \in WalletRow /\ wallet'[u].settling = left
    BY <2>4, <2>6 DEF WalletRow
  <2>8. QED
    BY <2>7 DEF left, gone, brings
<1>5. wallet' \in [Holder -> WalletRow]
  <2>1. wallet' = [u \in Holder |-> wallet'[u]]
    BY DEF Release
  <2>2. QED
    BY <1>4, <2>1
<1>6. QED
  BY <1>3, <1>4, <1>5

\* A release keeps the types.
LEMMA ReleaseTypes ==
    ASSUME MarketTypeOK, WorkKnown, NEW t \in Ticker, Release(t)
    PROVE  MarketTypeOK'
<1>1. /\ RowsTyped /\ TallyTyped /\ ticker \in [Ticker -> TickerRow]
      /\ day \in 1 .. MaxDay /\ leader \in Ticker \cup {NoTicker}
  BY TypesAre
<1>2. /\ Goes(t, "events")
      /\ UNCHANGED <<day, company, position, ask, applied, leader, paid, tally>>
  BY DEF Release
<1>3. "events" \in Places
  BY DEF Places
<1>4. ticker' \in [Ticker -> TickerRow]
  BY <1>1, <1>2, <1>3, GoesOn
<1>5. wallet' \in [Holder -> WalletRow] /\ sales' \in Seq(SaleRow)
  <2>1. sales \in Seq(SaleRow)
    BY <1>1 DEF RowsTyped
  <2>2. QED
    BY <2>1, Releases, SettledRows
<1>6. RowsTyped' /\ TallyTyped'
  BY <1>1, <1>2, <1>5 DEF RowsTyped, TallyTyped
<1>7. (day \in 1 .. MaxDay)' /\ (leader \in Ticker \cup {NoTicker})'
  BY <1>1, <1>2
<1>8. QED
  BY <1>4, <1>6, <1>7, TypesThen

\* The rows behind a batch of events.
LEMMA Applies ==
    ASSUME MarketTypeOK, NEW t \in Ticker, ApplyEvents(t)
    PROVE  \E s \in BatchRows :
              /\ s.done \subseteq Range(ticker[t].batch)
              /\ \A u \in Holder :
                    /\ s.wallet[u].settling = wallet[u].settling
                    /\ position[u].frozen <= s.position[u].frozen
                    /\ position[u].frozen <= position[u].quantity =>
                          s.position[u].frozen <= s.position[u].quantity
              /\ company' = company \/ company' = s.company
              /\ position' = s.position /\ wallet' = s.wallet
              /\ applied' = applied \cup s.done
              /\ paid' = [e \in Event |-> IF e \in s.done THEN paid[e] + 1 ELSE paid[e]]
<1> DEFINE old == [company |-> ticker[t].company, position |-> position,
                   wallet |-> wallet, done |-> {}]
           batch == ticker[t].batch
           s == FoldLeft(Tried, old, batch)
<1>1. RowsTyped /\ ticker[t] \in TickerRow
  BY TypesAre
<1>2. batch \in Seq(Event) /\ old \in BatchRows
  BY <1>1 DEF RowsTyped, TickerRow, BatchRows
<1>3. Processed(old, s, Range(batch))
  BY <1>2, BatchOf
<1>4. /\ company' = company \/ company' = s.company
      /\ position' = s.position /\ wallet' = s.wallet
      /\ applied' = applied \cup s.done
      /\ paid' = [e \in Event |-> IF e \in s.done THEN paid[e] + 1 ELSE paid[e]]
  BY DEF ApplyEvents
<1>5. old.done = {} /\ old.wallet = wallet /\ old.position = position
  OBVIOUS
<1> HIDE DEF old, s, batch
<1>6. /\ s \in BatchRows /\ s.done \subseteq Range(batch)
      /\ \A u \in Holder :
            /\ s.wallet[u].settling = wallet[u].settling
            /\ position[u].frozen <= s.position[u].frozen
            /\ position[u].frozen <= position[u].quantity =>
                  s.position[u].frozen <= s.position[u].quantity
  BY <1>3, <1>5 DEF Processed
<1>7. QED
  BY <1>4, <1>6 DEF batch

\* So does a batch of events.
LEMMA ApplyTypes ==
    ASSUME MarketTypeOK, NEW t \in Ticker, ApplyEvents(t)
    PROVE  MarketTypeOK'
<1>1. /\ RowsTyped /\ TallyTyped /\ ticker \in [Ticker -> TickerRow]
      /\ day \in 1 .. MaxDay /\ leader \in Ticker \cup {NoTicker}
  BY TypesAre
<1>2. Goes(t, "sleep") /\ UNCHANGED <<day, ask, sales, leader, tally>>
  BY DEF ApplyEvents
<1>3. "sleep" \in Places
  BY DEF Places
<1>4. ticker' \in [Ticker -> TickerRow]
  BY <1>1, <1>2, <1>3, GoesOn
<1>5. PICK s \in BatchRows :
          /\ company' = company \/ company' = s.company
          /\ position' = s.position /\ wallet' = s.wallet
          /\ applied' = applied \cup s.done
          /\ paid' = [e \in Event |-> IF e \in s.done THEN paid[e] + 1 ELSE paid[e]]
  BY Applies
<1>6. /\ s.company \in CompanyRow /\ s.position \in [Holder -> PositionRow]
      /\ s.wallet \in [Holder -> WalletRow] /\ s.done \in SUBSET Event
  BY DEF BatchRows
<1>7. RowsTyped'
  BY <1>1, <1>2, <1>5, <1>6 DEF RowsTyped
<1>8. TallyTyped' /\ (day \in 1 .. MaxDay)' /\ (leader \in Ticker \cup {NoTicker})'
  BY <1>1, <1>2 DEF TallyTyped
<1>9. QED
  BY <1>4, <1>7, <1>8, TypesThen

\* A worker starts again.
LEMMA RestartTypes ==
    ASSUME MarketTypeOK, NEW t \in Ticker, Restart(t)
    PROVE  MarketTypeOK'
<1>1. TallyTyped /\ ticker \in [Ticker -> TickerRow] /\ leader \in Ticker \cup {NoTicker}
  BY TypesAre
<1>2. ticker' \in [Ticker -> TickerRow]
  BY <1>1, StartedRow DEF Restart
<1>3. leader' \in Ticker \cup {NoTicker}
  BY <1>1 DEF Restart
<1>4. TallyTyped'
  <2>1. Count("failures", MaxFailures)
    BY DEF Restart
  <2>2. QED
    BY <1>1, <2>1, Counts
<1>5. UNCHANGED <<day, rows>>
  BY DEF Restart
<1>6. QED
  BY <1>2, <1>3, <1>4, <1>5, TickTypes

\* A lease lapses, a day passes.
LEMMA TimeTypes ==
    ASSUME MarketTypeOK, Tomorrow \/ Lapse
    PROVE  MarketTypeOK'
<1>1. TallyTyped /\ ticker \in [Ticker -> TickerRow] /\ leader \in Ticker \cup {NoTicker}
  BY TypesAre
<1>2. CASE Tomorrow
  <2>1. RowsTyped'
    BY <1>2, TypesAre, RowsStay DEF Tomorrow
  <2>2. (day \in 1 .. MaxDay)'
    BY <1>2, TypesAre, DayNat DEF Tomorrow
  <2>3. /\ TallyTyped'
        /\ (ticker \in [Ticker -> TickerRow])'
        /\ (leader \in Ticker \cup {NoTicker})'
    BY <1>1, <1>2 DEF Tomorrow, TallyTyped
  <2>4. QED
    BY <2>1, <2>2, <2>3, TypesThen
<1>3. CASE Lapse
  <2>1. TallyTyped'
    <3>1. Count("lapses", MaxLapses)
      BY <1>3 DEF Lapse
    <3>2. QED
      BY <1>1, <3>1, Counts
  <2>2. /\ UNCHANGED <<day, rows>>
        /\ leader' \in Ticker \cup {NoTicker}
        /\ ticker' \in [Ticker -> TickerRow]
    BY <1>1, <1>3 DEF Lapse
  <2>3. QED
    BY <2>1, <2>2, TickTypes
<1>4. QED
  BY <1>2, <1>3

\* Every step keeps the types.
LEMMA MarketTypes ==
    ASSUME MarketTypeOK, AsksCovered, WorkKnown, [MarketNext]_marketVars
    PROVE  MarketTypeOK'
<1>1. CASE UNCHANGED marketVars
  BY <1>1 DEF marketVars, MarketTypeOK
<1>2. CASE Tomorrow \/ Lapse \/ Trade
  BY <1>2, TimeTypes, TradeTypes
<1>3. ASSUME NEW t \in Ticker, Tick(t) PROVE MarketTypeOK'
  <2>1. CASE Matched(t)
    <3>1. "due" \in Places
      BY DEF Places
    <3>2. Goes(t, "due") /\ UNCHANGED <<day, leader, rows>> /\ tally' = tally
      BY <2>1 DEF Matched, NoChange
    <3>3. QED
      BY <3>1, <3>2, GoneTypes
  <2>2. QED
    BY <1>3, <2>1, AcquireTypes, ReadTypes, PriceTypes, ReleaseTypes, ApplyTypes DEF Tick
<1>4. ASSUME NEW t \in Ticker, Fault(t) PROVE MarketTypeOK'
  <2>1. CASE SkipPrice(t) \/ PricesFail(t) \/ ReleaseFails(t) \/ EventsFail(t)
    <3>1. PICK place \in {"match", "sleep", "events"} : Goes(t, place)
      BY <2>1 DEF SkipPrice, PricesFail, ReleaseFails, EventsFail
    <3>2. place \in Places
      BY DEF Places
    <3>3. Count("failures", MaxFailures) /\ UNCHANGED <<day, leader, rows>>
      BY <2>1 DEF SkipPrice, PricesFail, ReleaseFails, EventsFail
    <3>4. QED
      BY <3>1, <3>2, <3>3, GoneTypes
  <2>2. QED
    BY <1>4, <2>1, PriceTypes, RestartTypes DEF Fault
<1>5. QED
  BY <1>1, <1>2, <1>3, <1>4 DEF MarketNext

-----------------------------------------------------------------------------
(* The market: the accounts stay covered *)

\* The account rows without their types.
Covered == SettlingCovered /\ SettlingExact /\ AsksCovered

\* What the accounts say of the sales.
LEMMA AccountsAre ==
    Covered <=>
        /\ \A u \in Holder : wallet[u].settling \in 0 .. WorthOf(sales, OpenOf(sales, u))
        /\ OneTicker =>
              /\ \A u \in Holder : wallet[u].settling = WorthOf(sales, OpenOf(sales, u))
              /\ \A i \in DOMAIN sales : sales[i].settled => sales[i].due <= day
        /\ AsksCovered
  BY DEF Covered, SettlingCovered, SettlingExact, ProceedsOf, Unsettled, WorthOf, OpenOf

\* The same of the next state.
LEMMA AccountsThen ==
    Covered' <=>
        /\ \A u \in Holder : wallet'[u].settling \in 0 .. WorthOf(sales', OpenOf(sales', u))
        /\ OneTicker' =>
              /\ \A u \in Holder : wallet'[u].settling = WorthOf(sales', OpenOf(sales', u))
              /\ \A i \in DOMAIN sales' : sales'[i].settled => sales'[i].due <= day'
        /\ AsksCovered'
  BY DEF Covered, SettlingCovered, SettlingExact, ProceedsOf, Unsettled, WorthOf, OpenOf

\* What stays of a day that does not go back.
LEMMA AccountsStay ==
    ASSUME MarketTypeOK, Covered, UNCHANGED <<sales, position, ask>>,
           \A u \in Holder : wallet'[u].settling = wallet[u].settling,
           day' \in Nat, day <= day', OneTicker' => OneTicker
    PROVE  Covered'
<1>1. day \in Nat /\ \A i \in DOMAIN sales : sales[i].due \in Nat
  <2>1. sales \in Seq(SaleRow)
    BY TypesAre DEF RowsTyped
  <2>2. \A i \in DOMAIN sales : sales[i] \in SaleRow
    BY <2>1
  <2>3. QED
    BY <2>2, DayNat DEF SaleRow
<1>2. AsksCovered'
  BY AccountsAre DEF AsksCovered
<1>3. QED
  BY <1>1, <1>2, AccountsAre, AccountsThen

\* An order freezes what is free, and its cancellation gives it back.
LEMMA OrderAccounts ==
    ASSUME MarketTypeOK, Covered, NEW u \in Holder,
           CancelAsk(u) \/ \E q \in Lot : PlaceAsk(u, q)
    PROVE  Covered'
<1>1. /\ UNCHANGED <<sales, wallet, day>>
      /\ OneTicker' => OneTicker
  <2>1. UNCHANGED <<sales, wallet, day>>
    BY DEF CancelAsk, PlaceAsk
  <2>2. TallyTyped
    BY TypesAre
  <2>3. CASE CancelAsk(u)
    BY <2>1, <2>3 DEF CancelAsk, OneTicker
  <2>4. CASE \E q \in Lot : PlaceAsk(u, q)
    <3>1. Count("asks", MaxAsks)
      BY <2>4 DEF PlaceAsk
    <3>2. QED
      BY <2>1, <2>2, <3>1, Counts DEF OneTicker
  <2>5. QED
    BY <2>3, <2>4
<1>2. ASSUME NEW v \in Holder
      PROVE  /\ position[v] \in PositionRow /\ position[v].frozen \in Nat
             /\ position[v].quantity \in Nat /\ ask[v] \in Nat
             /\ ask[v] <= position[v].frozen /\ position[v].frozen <= position[v].quantity
  BY TypesAre DEF RowsTyped, PositionRow, AsksCovered, Covered
<1>3. position \in [Holder -> PositionRow] /\ ask \in [Holder -> Nat]
  BY TypesAre DEF RowsTyped
<1>4. AsksCovered'
  <2>1. CASE CancelAsk(u)
    <3> DEFINE rest == position[u].frozen - ask[u]
    <3>1. position' = [position EXCEPT ![u] = [position[u] EXCEPT !.frozen = rest]]
      BY <1>3, <2>1 DEF CancelAsk
    <3>2. ask' = [ask EXCEPT ![u] = 0]
      BY <2>1 DEF CancelAsk
    <3>3. rest \in Nat /\ rest <= position[u].quantity
      BY <1>2
    <3> HIDE DEF rest
    <3>4. position'[u].frozen = rest /\ position'[u].quantity = position[u].quantity
      BY <1>2, <1>3, <3>1 DEF PositionRow
    <3>5. ASSUME NEW v \in Holder
          PROVE  /\ ask'[v] <= position'[v].frozen
                 /\ position'[v].frozen <= position'[v].quantity
      BY <1>2, <1>3, <3>1, <3>2, <3>3, <3>4
    <3>6. QED
      BY <3>5 DEF AsksCovered
  <2>2. ASSUME NEW q \in Lot, PlaceAsk(u, q) PROVE AsksCovered'
    <3> DEFINE more == position[u].frozen + q
    <3>1. position' = [position EXCEPT ![u] = [position[u] EXCEPT !.frozen = more]]
      BY <1>3, <2>2 DEF PlaceAsk
    <3>2. ask' = [ask EXCEPT ![u] = q]
      BY <2>2 DEF PlaceAsk
    <3>3. q \in Nat /\ q <= position[u].quantity - position[u].frozen
      BY <2>2, MarketAssumption DEF PlaceAsk, Free
    <3>4. more \in Nat /\ more <= position[u].quantity /\ q <= more
      BY <1>2, <3>3
    <3> HIDE DEF more
    <3>5. position'[u].frozen = more /\ position'[u].quantity = position[u].quantity
      BY <1>2, <1>3, <3>1 DEF PositionRow
    <3>6. ASSUME NEW v \in Holder
          PROVE  /\ ask'[v] <= position'[v].frozen
                 /\ position'[v].frozen <= position'[v].quantity
      BY <1>2, <1>3, <3>1, <3>2, <3>4, <3>5
    <3>7. QED
      BY <3>6 DEF AsksCovered
  <2>3. QED
    BY <2>1, <2>2
<1>5. QED
  <2>1. day \in Nat
    BY DayNat
  <2>2. QED
    BY <1>1, <1>4, <2>1, AccountsAre, AccountsThen

\* A fill adds its proceeds to the settling cash and to the open sales.
LEMMA FillAccounts ==
    ASSUME MarketTypeOK, Covered, NEW t \in Ticker, NEW u \in Holder,
           NEW q \in 1 .. ask[u], Fill(t, u, q)
    PROVE  Covered'
<1> DEFINE worth == q * company.price
           r == [user |-> u, proceeds |-> worth, due |-> day + SettlementDays,
                 settled |-> FALSE]
<1>1. /\ sales \in Seq(SaleRow) /\ wallet \in [Holder -> WalletRow]
      /\ position \in [Holder -> PositionRow] /\ ask \in [Holder -> Nat]
      /\ company.price \in Nat
  BY TypesAre DEF RowsTyped, CompanyRow
<1>2. ASSUME NEW v \in Holder
      PROVE  /\ position[v] \in PositionRow /\ position[v].frozen \in Nat
             /\ position[v].quantity \in Nat /\ ask[v] \in Nat
             /\ ask[v] <= position[v].frozen /\ position[v].frozen <= position[v].quantity
             /\ wallet[v] \in WalletRow /\ wallet[v].settling \in Nat
             /\ WorthOf(sales, OpenOf(sales, v)) \in Nat
             /\ wallet[v].settling <= WorthOf(sales, OpenOf(sales, v))
  <2>1. OpenOf(sales, v) \in SUBSET DOMAIN sales
    BY DEF OpenOf
  <2>2. WorthOf(sales, OpenOf(sales, v)) \in Nat
    BY <1>1, <2>1, WorthNat
  <2>3. QED
    BY <1>1, <2>2, AccountsAre DEF PositionRow, WalletRow, AsksCovered
<1>3. q \in Nat /\ q <= ask[u] /\ day \in Nat
  BY <1>2, DayNat
<1>4. worth \in Nat
  BY <1>1, <1>3
<1>5. sales' = Append(sales, r) /\ UNCHANGED <<day, tally>>
  BY DEF Fill
<1> DEFINE waits == wallet[u].settling + worth
<1>6. wallet' = [wallet EXCEPT ![u] = [wallet[u] EXCEPT !.settling = waits]]
  BY <1>1 DEF Fill
<1> HIDE DEF worth
<1>7. r \in SaleRow /\ ~r.settled /\ r.user = u /\ r.proceeds = worth
  BY <1>3, <1>4, MarketAssumption DEF SaleRow
<1> HIDE DEF r
<1>8. ASSUME NEW v \in Holder
      PROVE  wallet'[v].settling = wallet[v].settling + IF u = v THEN worth ELSE 0
  <2>1. waits \in Nat
    BY <1>2, <1>4
  <2> HIDE DEF waits
  <2>2. [wallet[u] EXCEPT !.settling = waits].settling = waits
    BY <1>2 DEF WalletRow
  <2>3. QED
    BY <1>1, <1>2, <1>6, <2>2 DEF waits
<1>9. ASSUME NEW v \in Holder
      PROVE  WorthOf(sales', OpenOf(sales', v))
               = WorthOf(sales, OpenOf(sales, v)) + IF u = v THEN worth ELSE 0
  <2>1. WorthOf(Append(sales, r), OpenOf(Append(sales, r), v))
          = WorthOf(sales, OpenOf(sales, v)) + IF r.user = v THEN r.proceeds ELSE 0
    BY <1>1, <1>7, SaleOpens
  <2>2. QED
    BY <1>5, <1>7, <2>1
<1>10. \A i \in DOMAIN sales' : sales'[i].settled => i \in DOMAIN sales /\ sales'[i] = sales[i]
  <2>1. /\ Len(sales) \in Nat /\ DOMAIN sales = 1 .. Len(sales)
        /\ DOMAIN sales' = 1 .. Len(sales) + 1 /\ sales'[Len(sales) + 1] = r
        /\ \A i \in 1 .. Len(sales) : sales'[i] = sales[i]
    BY <1>1, <1>5, <1>7, AppendProperties
  <2>2. QED
    BY <1>7, <2>1
<1>11. AsksCovered'
  <2> DEFINE row == [quantity |-> position[u].quantity - q, frozen |-> position[u].frozen - q]
             rest == ask[u] - q
  <2>1. position' = [position EXCEPT ![u] = row]
    BY <1>1 DEF Fill
  <2>2. ask' = [ask EXCEPT ![u] = rest]
    BY <1>1 DEF Fill
  <2>3. rest <= row.frozen /\ row.frozen <= row.quantity
    BY <1>2, <1>3
  <2> HIDE DEF row, rest
  <2>4. ASSUME NEW v \in Holder
        PROVE  /\ ask'[v] <= position'[v].frozen
               /\ position'[v].frozen <= position'[v].quantity
    BY <1>1, <1>2, <2>1, <2>2, <2>3
  <2>5. QED
    BY <2>4 DEF AsksCovered
<1>12. \A v \in Holder : wallet'[v].settling \in 0 .. WorthOf(sales', OpenOf(sales', v))
  <2> SUFFICES ASSUME NEW v \in Holder
               PROVE  wallet'[v].settling \in 0 .. WorthOf(sales', OpenOf(sales', v))
    OBVIOUS
  <2> DEFINE has == wallet[v].settling  open == WorthOf(sales, OpenOf(sales, v))
             gain == IF u = v THEN worth ELSE 0
  <2>1. has \in Nat /\ open \in Nat /\ has <= open /\ gain \in Nat
    BY <1>2, <1>4
  <2>2. /\ wallet'[v].settling = has + gain
        /\ WorthOf(sales', OpenOf(sales', v)) = open + gain
    BY <1>8, <1>9
  <2> HIDE DEF has, open, gain
  <2>3. QED
    BY <2>1, <2>2
<1>13. OneTicker' =>
          /\ \A v \in Holder : wallet'[v].settling = WorthOf(sales', OpenOf(sales', v))
          /\ \A i \in DOMAIN sales' : sales'[i].settled => sales'[i].due <= day'
  <2> SUFFICES ASSUME OneTicker'
               PROVE  /\ \A v \in Holder : wallet'[v].settling = WorthOf(sales', OpenOf(sales', v))
                      /\ \A i \in DOMAIN sales' : sales'[i].settled => sales'[i].due <= day'
    OBVIOUS
  <2>1. OneTicker
    BY <1>5 DEF OneTicker
  <2>2. \A v \in Holder : wallet[v].settling = WorthOf(sales, OpenOf(sales, v))
    BY <2>1, AccountsAre
  <2>3. \A v \in Holder : wallet'[v].settling = WorthOf(sales', OpenOf(sales', v))
    BY <1>8, <1>9, <2>2
  <2>4. \A i \in DOMAIN sales : sales[i].settled => sales[i].due <= day
    BY <2>1, AccountsAre
  <2>5. QED
    BY <1>5, <1>10, <2>3, <2>4
<1>14. QED
  BY <1>11, <1>12, <1>13, AccountsThen

\* A release takes off the settling cash at most what its sales bring.
LEMMA ReleaseAccounts ==
    ASSUME MarketTypeOK, Covered, WorkKnown, NEW t \in Ticker, Release(t)
    PROVE  Covered'
<1> DEFINE due == ticker[t].due
           sm == SettledBy(sales, due)
<1>1. /\ sales \in Seq(SaleRow)
      /\ wallet \in [Holder -> WalletRow]
      /\ due \in SUBSET DOMAIN sales
  BY TypesAre DEF RowsTyped, WorkKnown
<1>2. UNCHANGED <<day, position, ask, tally>> /\ sales' = sm
  BY Releases DEF Release
<1>3. /\ DOMAIN sm = DOMAIN sales
      /\ \A i \in DOMAIN sales : sm[i].due = sales[i].due /\ (sm[i].settled <=> sales[i].settled \/ i \in due)
  BY <1>1, SettledRows
<1>4. OneTicker => \A i \in due : ~sales[i].settled /\ sales[i].due <= day
  BY DEF WorkKnown
<1>5. ASSUME NEW u \in Holder
      PROVE  /\ wallet'[u].settling \in 0 .. WorthOf(sm, OpenOf(sm, u))
             /\ OneTicker => wallet'[u].settling = WorthOf(sm, OpenOf(sm, u))
  <2> DEFINE mine == {i \in due : sales[i].user = u}
             brings == WorthOf(sales, mine)
             open == WorthOf(sales, OpenOf(sales, u))
             left == WorthOf(sm, OpenOf(sm, u))
             waits == wallet[u].settling
  <2>1. wallet'[u].settling = waits - Least(brings, waits)
    BY Releases
  <2>2. /\ brings \in Nat /\ left \in Nat /\ open <= brings + left
        /\ (\A i \in due : ~sales[i].settled) => open = brings + left
    BY <1>1, SaleSettles
  <2>3. open \in Nat
    <3>1. OpenOf(sales, u) \in SUBSET DOMAIN sales
      BY DEF OpenOf
    <3>2. QED
      BY <1>1, <3>1, WorthNat
  <2>4. waits \in Nat /\ waits <= open /\ (OneTicker => waits = open)
    BY <1>1, <2>3, AccountsAre DEF WalletRow
  <2>5. OneTicker => open = brings + left
    BY <1>4, <2>2
  <2> HIDE DEF brings, open, left, waits
  <2>6. LET gone == Least(brings, waits)
        IN  /\ gone \in Nat /\ waits - gone \in Nat
            /\ waits - gone <= left
            /\ waits = open /\ open = brings + left => waits - gone = left
    BY <2>2, <2>3, <2>4, OneRelease
  <2>7. waits - Least(brings, waits) \in 0 .. left /\ (OneTicker => waits - Least(brings, waits) = left)
    BY <2>2, <2>4, <2>5, <2>6
  <2>8. QED
    BY <2>1, <2>7 DEF left
<1>6. AsksCovered'
  BY <1>2 DEF Covered, AsksCovered
<1>7. OneTicker' => OneTicker
  BY <1>2 DEF OneTicker
<1>8. OneTicker => \A i \in DOMAIN sales : sales[i].settled => sales[i].due <= day
  BY AccountsAre
<1> HIDE DEF sm, due
<1>9. OneTicker' => \A i \in DOMAIN sales' : sales'[i].settled => sales'[i].due <= day'
  BY <1>2, <1>3, <1>4, <1>7, <1>8
<1>10. QED
  BY <1>2, <1>5, <1>6, <1>7, <1>9, AccountsThen

\* A batch of events leaves the settling cash alone and keeps the shares in order.
LEMMA ApplyAccounts ==
    ASSUME MarketTypeOK, Covered, NEW t \in Ticker, ApplyEvents(t)
    PROVE  Covered'
<1>1. PICK s \in BatchRows :
          /\ \A u \in Holder :
                /\ s.wallet[u].settling = wallet[u].settling
                /\ position[u].frozen <= s.position[u].frozen
                /\ position[u].frozen <= position[u].quantity =>
                      s.position[u].frozen <= s.position[u].quantity
          /\ position' = s.position /\ wallet' = s.wallet
  BY Applies
<1>2. UNCHANGED <<day, ask, sales, tally>>
  BY DEF ApplyEvents
<1>3. \A u \in Holder : /\ ask[u] \in Nat /\ position[u].frozen \in Nat
                        /\ s.position[u].frozen \in Nat
  BY TypesAre DEF RowsTyped, PositionRow, BatchRows
<1>4. AsksCovered'
  BY <1>1, <1>2, <1>3 DEF Covered, AsksCovered
<1>5. \A u \in Holder : wallet'[u].settling = wallet[u].settling
  BY <1>1
<1>6. QED
  BY <1>2, <1>4, <1>5, AccountsAre, AccountsThen DEF OneTicker

\* Every step keeps the accounts covered.
LEMMA MarketAccounts ==
    ASSUME MarketTypeOK, Covered, WorkKnown, [MarketNext]_marketVars
    PROVE  Covered'
<1>1. ASSUME UNCHANGED <<sales, position, ask, wallet>>, day' = day,
             tally' = tally \/ Count("failures", MaxFailures) \/ Count("lapses", MaxLapses)
      PROVE  Covered'
  <2>1. OneTicker' => OneTicker
    BY <1>1, TypesAre, Counts DEF OneTicker
  <2>2. day \in Nat
    BY DayNat
  <2>3. QED
    BY <1>1, <2>1, <2>2, AccountsStay
<1>2. CASE UNCHANGED marketVars
  BY <1>1, <1>2 DEF marketVars
<1>3. CASE Tomorrow
  <2>1. day \in Nat /\ day' = day + 1 /\ UNCHANGED <<sales, position, ask, wallet, tally>>
    BY <1>3, DayNat DEF Tomorrow, rows
  <2>2. QED
    BY <2>1, AccountsStay DEF OneTicker
<1>4. CASE Lapse
  BY <1>1, <1>4 DEF Lapse, rows
<1>5. CASE Trade
  BY <1>5, OrderAccounts, FillAccounts DEF Trade
<1>6. ASSUME NEW t \in Ticker, Tick(t) PROVE Covered'
  <2>1. CASE Acquire(t) \/ ReadPrice(t) \/ Matched(t) \/ ReadDue(t) \/ ReadEvents(t) \/ ReadCompany(t)
    BY <1>1, <2>1 DEF Acquire, ReadPrice, Matched, ReadDue, ReadEvents, ReadCompany, NoChange, rows
  <2>2. CASE EnginePrice(t)
    BY <1>1, <2>2 DEF EnginePrice, WritePrice
  <2>3. QED
    BY <1>6, <2>1, <2>2, ReleaseAccounts, ApplyAccounts DEF Tick
<1>7. ASSUME NEW t \in Ticker, Fault(t) PROVE Covered'
  <2>1. CASE FallbackPrice(t)
    BY <1>1, <2>1 DEF FallbackPrice, WritePrice
  <2>2. QED
    BY <1>1, <1>7, <2>1 DEF Fault, SkipPrice, PricesFail, ReleaseFails, EventsFail, Restart, rows
<1>8. QED
  BY <1>2, <1>3, <1>4, <1>5, <1>6, <1>7 DEF MarketNext

-----------------------------------------------------------------------------
(* The market: one ticker at a time, and what it works on *)

Work == EventsOnce /\ TickersAlone /\ WorkKnown

\* With one tick at a time whoever is not t sleeps while t is in a tick.
LEMMA OthersSleep ==
    ASSUME MarketTypeOK, Work, OneTicker, NEW t \in Ticker, ~TickerAt(t, "sleep")
    PROVE  /\ leader = t
           /\ \A o \in Ticker \ {t} : /\ TickerAt(o, "sleep")
                                      /\ ticker[o].due = {} /\ ticker[o].batch = <<>>
<1>1. \A o \in Ticker : TickerAt(o, "sleep") \/ leader = o
  BY DEF Work, TickersAlone
<1>2. QED
  BY <1>1 DEF Work, WorkKnown, TickerAt

\* A step of t that leaves the sales and the events alone, and t without work.
LEMMA WorkStays ==
    ASSUME MarketTypeOK, Work, NEW t \in Ticker,
           \A o \in Ticker \ {t} : ticker'[o] = ticker[o],
           ticker'[t].due = {}, ticker'[t].batch = <<>>,
           UNCHANGED <<day, sales, applied, paid>>, OneTicker' => OneTicker
    PROVE  EventsOnce' /\ WorkKnown'
<1>1. EventsOnce'
  BY DEF Work, EventsOnce
<1>2. WorkKnown'
  BY DEF Work, WorkKnown, TickerAt
<1>3. QED
  BY <1>1, <1>2

\* t goes on behind a transaction that left the sales and the events alone.
LEMMA GoneWork ==
    ASSUME MarketTypeOK, Work, NEW t \in Ticker, ~TickerAt(t, "sleep"),
           NEW place \in Places, Goes(t, place),
           UNCHANGED <<day, leader, sales, applied, paid>>,
           tally' = tally \/ Count("failures", MaxFailures)
    PROVE  Work'
<1>1. ticker \in [Ticker -> TickerRow] /\ TallyTyped
  BY TypesAre
<1>2. /\ ticker'[t].due = {} /\ ticker'[t].batch = <<>>
      /\ \A o \in Ticker \ {t} : ticker'[o] = ticker[o]
  BY <1>1, GoesOn
<1>3. OneTicker' => OneTicker
  BY <1>1, Counts DEF OneTicker
<1>4. EventsOnce' /\ WorkKnown'
  BY <1>2, <1>3, WorkStays
<1>5. TickersAlone'
  BY <1>2, <1>3 DEF Work, TickersAlone, TickerAt
<1>6. QED
  BY <1>4, <1>5 DEF Work

\* Whoever acquires finds the others asleep.
LEMMA AcquireWork ==
    ASSUME MarketTypeOK, Work, NEW t \in Ticker, Acquire(t)
    PROVE  Work'
<1> DEFINE at == IF ticker[t].primed THEN "price" ELSE "sleep"
<1>1. ticker[t] \in TickerRow /\ ticker \in [Ticker -> TickerRow]
  BY TypesAre
<1>2. /\ UNCHANGED <<day, tally, sales, applied, paid>> /\ leader' = t
      /\ leader \in {NoTicker, t} /\ TickerAt(t, "sleep")
  BY DEF Acquire, rows
<1>3. ticker' = [ticker EXCEPT ![t] = [ticker[t] EXCEPT !.at = at, !.primed = TRUE]]
  BY <1>1 DEF Acquire
<1> HIDE DEF at
<1>4. /\ ticker'[t].due = ticker[t].due /\ ticker'[t].batch = ticker[t].batch
      /\ \A o \in Ticker \ {t} : ticker'[o] = ticker[o]
  BY <1>1, <1>3 DEF TickerRow
<1>5. ticker[t].due = {} /\ ticker[t].batch = <<>>
  BY <1>2 DEF Work, WorkKnown, TickerAt
<1>6. EventsOnce' /\ WorkKnown'
  BY <1>2, <1>4, <1>5, WorkStays DEF OneTicker
<1>7. TickersAlone'
  BY <1>2, <1>4, MarketAssumption DEF Work, TickersAlone, TickerAt, OneTicker
<1>8. QED
  BY <1>6, <1>7 DEF Work

\* The steps that only read keep what they have read.
LEMMA ReadWork ==
    ASSUME MarketTypeOK, Work, NEW t \in Ticker,
           ReadPrice(t) \/ ReadDue(t) \/ ReadEvents(t) \/ ReadCompany(t)
    PROVE  Work'
<1>1. ticker[t] \in TickerRow /\ ticker \in [Ticker -> TickerRow]
  BY TypesAre
<1>2. UNCHANGED <<day, leader, tally, sales, applied, paid>> /\ ~TickerAt(t, "sleep")
  BY DEF ReadPrice, ReadDue, ReadEvents, ReadCompany, NoChange, rows, TickerAt
<1>3. \A o \in Ticker \ {t} : ticker'[o] = ticker[o]
  <2>1. CASE ReadPrice(t)
    BY <1>1, <2>1 DEF ReadPrice
  <2>2. CASE ReadDue(t)
    BY <1>1, <2>2 DEF ReadDue
  <2>3. CASE ReadEvents(t)
    <3>1. PICK batch \in Batches(DueEvents), at \in {"sleep", "company"} :
             ticker' = [ticker EXCEPT ![t].batch = batch, ![t].at = at]
      BY <2>3 DEF ReadEvents
    <3>2. QED
      BY <1>1, <3>1
  <2>4. CASE ReadCompany(t)
    BY <1>1, <2>4 DEF ReadCompany
  <2>5. QED
    BY <2>1, <2>2, <2>3, <2>4
<1>4. EventsOnce' /\ TickersAlone'
  BY <1>2, <1>3 DEF Work, EventsOnce, TickersAlone, TickerAt, OneTicker
<1>5. ASSUME /\ ticker'[t].due \subseteq DOMAIN sales
             /\ ticker'[t].due # {} => TickerAt(t, "release")'
             /\ ticker'[t].batch # <<>> => TickerAt(t, "company")' \/ TickerAt(t, "apply")'
             /\ OneTicker =>
                   /\ \A i \in ticker'[t].due : ~sales[i].settled /\ sales[i].due <= day
                   /\ \A i \in DOMAIN ticker'[t].batch : ticker'[t].batch[i] \notin applied
      PROVE  Work'
  <2>1. WorkKnown'
    BY <1>2, <1>3, <1>5 DEF Work, WorkKnown, TickerAt, OneTicker
  <2>2. QED
    BY <1>4, <2>1 DEF Work
<1>6. /\ ticker[t].due # {} => TickerAt(t, "release")
      /\ ticker[t].batch # <<>> => TickerAt(t, "company") \/ TickerAt(t, "apply")
      /\ OneTicker => \A i \in DOMAIN ticker[t].batch : ticker[t].batch[i] \notin applied
  BY DEF Work, WorkKnown
<1>7. CASE ReadPrice(t)
  <2>1. ticker[t].due = {} /\ ticker[t].batch = <<>>
    BY <1>6, <1>7 DEF ReadPrice, TickerAt
  <2>2. ticker'[t].due = {} /\ ticker'[t].batch = <<>>
    BY <1>1, <1>7, <2>1 DEF ReadPrice, TickerRow
  <2>3. QED
    BY <1>5, <2>2
<1>8. CASE ReadDue(t)
  <2> DEFINE at == IF Due = {} THEN "events" ELSE "release"
  <2>1. ticker[t].batch = <<>>
    BY <1>6, <1>8 DEF ReadDue, TickerAt
  <2>2. ticker' = [ticker EXCEPT ![t] = [ticker[t] EXCEPT !.due = Due, !.at = at]]
    BY <1>1, <1>8 DEF ReadDue
  <2>3. /\ Due \subseteq DOMAIN sales
        /\ \A i \in Due : ~sales[i].settled /\ sales[i].due <= day
    BY DEF Due
  <2>4. Due # {} => at = "release"
    OBVIOUS
  <2> HIDE DEF at
  <2>5. ticker'[t].due = Due /\ ticker'[t].batch = <<>> /\ ticker'[t].at = at
    BY <1>1, <2>1, <2>2 DEF TickerRow
  <2>6. QED
    BY <1>5, <2>3, <2>4, <2>5 DEF TickerAt
<1>9. CASE ReadEvents(t)
  <2>1. PICK batch \in Batches(DueEvents) :
           ticker' = [ticker EXCEPT ![t].batch = batch,
                                    ![t].at = IF DueEvents = {} THEN "sleep" ELSE "company"]
    BY <1>9 DEF ReadEvents
  <2> DEFINE at == IF DueEvents = {} THEN "sleep" ELSE "company"
  <2>2. ticker[t].due = {}
    BY <1>6, <1>9 DEF ReadEvents, TickerAt
  <2>3. ticker' = [ticker EXCEPT ![t] = [ticker[t] EXCEPT !.batch = batch, !.at = at]]
    BY <1>1, <2>1
  <2>4. /\ \A i \in DOMAIN batch : batch[i] \notin applied
        /\ DueEvents = {} => batch = <<>>
    <3>1. DueEvents \in SUBSET Event /\ \A e \in DueEvents : e \notin applied
      BY DEF DueEvents
    <3>2. QED
      BY <3>1, BatchEvents
  <2>5. batch # <<>> => at = "company"
    BY <2>4
  <2> HIDE DEF at
  <2>6. ticker'[t].due = {} /\ ticker'[t].batch = batch /\ ticker'[t].at = at
    BY <1>1, <2>2, <2>3 DEF TickerRow
  <2>7. QED
    BY <1>5, <2>4, <2>5, <2>6 DEF TickerAt
<1>10. CASE ReadCompany(t)
  <2>1. ticker[t].due = {}
    BY <1>6, <1>10 DEF ReadCompany, TickerAt
  <2>2. /\ ticker'[t].due = {} /\ ticker'[t].batch = ticker[t].batch
        /\ ticker'[t].at = "apply"
    BY <1>1, <1>10, <2>1 DEF ReadCompany, TickerRow
  <2>3. QED
    BY <1>5, <1>6, <2>2 DEF TickerAt
<1>11. QED
  BY <1>7, <1>8, <1>9, <1>10

\* A fill leaves the sales before it as they are.
LEMMA FillWork ==
    ASSUME MarketTypeOK, Work, NEW t \in Ticker, NEW u \in Holder,
           NEW q \in 1 .. ask[u], Fill(t, u, q), MarketTypeOK'
    PROVE  Work'
<1>1. UNCHANGED <<day, applied, leader, ticker, paid, tally>>
  BY DEF Fill
<1>2. sales \in Seq(SaleRow) /\ sales' \in Seq(SaleRow)
  BY TypesAre, TypesThen DEF RowsTyped
<1>3. DOMAIN sales \subseteq DOMAIN sales' /\ \A i \in DOMAIN sales : sales'[i] = sales[i]
  <2>1. PICK r : sales' = Append(sales, r)
    BY DEF Fill
  <2>2. Len(sales) \in Nat /\ DOMAIN sales = 1 .. Len(sales)
    BY <1>2
  <2>3. /\ DOMAIN sales' = 1 .. Len(sales) + 1
        /\ \A i \in 1 .. Len(sales) : sales'[i] = sales[i]
    BY <1>2, <2>1, <2>2
  <2>4. QED
    BY <2>2, <2>3
<1>4. WorkKnown'
  BY <1>1, <1>3 DEF Work, WorkKnown, TickerAt, OneTicker
<1>5. EventsOnce' /\ TickersAlone'
  BY <1>1 DEF Work, EventsOnce, TickersAlone, TickerAt, OneTicker
<1>6. QED
  BY <1>4, <1>5 DEF Work

\* A release settles what nobody else is about to settle.
LEMMA ReleaseWork ==
    ASSUME MarketTypeOK, Work, NEW t \in Ticker, Release(t)
    PROVE  Work'
<1>1. ticker \in [Ticker -> TickerRow] /\ sales \in Seq(SaleRow)
  BY TypesAre DEF RowsTyped
<1>2. /\ UNCHANGED <<day, applied, leader, paid, tally>> /\ Goes(t, "events")
      /\ ~TickerAt(t, "sleep") /\ "events" \in Places
  BY DEF Release, TickerAt, Places
<1>3. /\ ticker'[t].due = {} /\ ticker'[t].batch = <<>>
      /\ \A o \in Ticker \ {t} : ticker'[o] = ticker[o]
  BY <1>1, <1>2, GoesOn
<1>4. DOMAIN sales' = DOMAIN sales
  <2>1. sales' = SettledBy(sales, ticker[t].due)
    BY Releases DEF Work
  <2>2. QED
    BY <1>1, <2>1, SettledRows
<1>5. EventsOnce' /\ TickersAlone'
  BY <1>2, <1>3 DEF Work, EventsOnce, TickersAlone, TickerAt, OneTicker
<1>6. WorkKnown'
  <2>1. CASE OneTicker
    <3>1. \A o \in Ticker : ticker'[o].due = {} /\ ticker'[o].batch = <<>>
      BY <1>2, <1>3, <2>1, OthersSleep
    <3>2. QED
      BY <3>1 DEF WorkKnown
  <2>2. CASE ~OneTicker
    BY <1>2, <1>3, <1>4, <2>2 DEF Work, WorkKnown, TickerAt, OneTicker
  <2>3. QED
    BY <2>1, <2>2
<1>7. QED
  BY <1>5, <1>6 DEF Work

\* A batch is applied by the only one who has read it.
LEMMA ApplyWork ==
    ASSUME MarketTypeOK, Work, NEW t \in Ticker, ApplyEvents(t)
    PROVE  Work'
<1>1. ticker \in [Ticker -> TickerRow] /\ paid \in [Event -> Nat]
  BY TypesAre DEF RowsTyped
<1>2. /\ UNCHANGED <<day, sales, leader, tally>> /\ Goes(t, "sleep")
      /\ ~TickerAt(t, "sleep") /\ "sleep" \in Places
  BY DEF ApplyEvents, TickerAt, Places
<1>3. /\ ticker'[t].at = "sleep" /\ ticker'[t].due = {} /\ ticker'[t].batch = <<>>
      /\ \A o \in Ticker \ {t} : ticker'[o] = ticker[o]
  BY <1>1, <1>2, GoesOn
<1>4. TickersAlone'
  BY <1>2, <1>3 DEF Work, TickersAlone, TickerAt, OneTicker
<1>5. CASE OneTicker
  <2>1. \A o \in Ticker : ticker'[o].due = {} /\ ticker'[o].batch = <<>>
    BY <1>2, <1>3, <1>5, OthersSleep
  <2>2. WorkKnown'
    BY <2>1 DEF WorkKnown
  <2>3. PICK s \in BatchRows :
            /\ s.done \subseteq Range(ticker[t].batch)
            /\ applied' = applied \cup s.done
            /\ paid' = [e \in Event |-> IF e \in s.done THEN paid[e] + 1 ELSE paid[e]]
    BY Applies
  <2>4. \A e \in s.done : e \notin applied
    <3>1. \A i \in DOMAIN ticker[t].batch : ticker[t].batch[i] \notin applied
      BY <1>5 DEF Work, WorkKnown
    <3>2. QED
      BY <2>3, <3>1 DEF Range
  <2>5. \A e \in Event : paid[e] = IF e \in applied THEN 1 ELSE 0
    BY <1>5 DEF Work, EventsOnce
  <2>6. EventsOnce'
    BY <2>3, <2>4, <2>5 DEF EventsOnce
  <2>7. QED
    BY <1>4, <2>2, <2>6 DEF Work
<1>6. CASE ~OneTicker
  <2>1. ~OneTicker'
    BY <1>2, <1>6 DEF OneTicker
  <2>2. EventsOnce' /\ WorkKnown'
    BY <1>2, <1>3, <2>1 DEF Work, EventsOnce, WorkKnown, TickerAt
  <2>3. QED
    BY <1>4, <2>2 DEF Work
<1>7. QED
  BY <1>5, <1>6

\* A worker that starts again has no work.
LEMMA RestartWork ==
    ASSUME MarketTypeOK, Work, NEW t \in Ticker, Restart(t)
    PROVE  Work'
<1>1. ticker \in [Ticker -> TickerRow] /\ TallyTyped
  BY TypesAre
<1>2. /\ ticker'[t].at = "sleep" /\ ticker'[t].due = {} /\ ticker'[t].batch = <<>>
      /\ \A o \in Ticker \ {t} : ticker'[o] = ticker[o]
  BY <1>1, StartedRow DEF Restart
<1>3. /\ UNCHANGED <<day, sales, applied, paid>>
      /\ leader' = IF leader = t THEN NoTicker ELSE leader
  BY DEF Restart, rows
<1>4. OneTicker' => OneTicker
  <2>1. Count("failures", MaxFailures)
    BY DEF Restart
  <2>2. QED
    BY <1>1, <2>1, Counts DEF OneTicker
<1>5. EventsOnce' /\ WorkKnown'
  BY <1>2, <1>3, <1>4, WorkStays
<1>6. TickersAlone'
  BY <1>2, <1>3, <1>4 DEF Work, TickersAlone, TickerAt
<1>7. QED
  BY <1>5, <1>6 DEF Work

\* A day passes, or the lease lapses: from then on there may be two ticks.
LEMMA TimeWork ==
    ASSUME MarketTypeOK, Work, Tomorrow \/ Lapse
    PROVE  Work'
<1>1. CASE Tomorrow
  <2>1. /\ UNCHANGED <<leader, ticker, tally, sales, applied, paid>>
        /\ day' = day + 1 /\ day \in Nat
    BY <1>1, DayNat DEF Tomorrow, rows
  <2>2. \A i \in DOMAIN sales : sales[i].due \in Nat
    <3>1. sales \in Seq(SaleRow)
      BY TypesAre DEF RowsTyped
    <3>2. \A i \in DOMAIN sales : sales[i] \in SaleRow
      BY <3>1
    <3>3. QED
      BY <3>2 DEF SaleRow
  <2>3. WorkKnown'
    BY <2>1, <2>2 DEF Work, WorkKnown, TickerAt, OneTicker
  <2>4. EventsOnce' /\ TickersAlone'
    BY <2>1 DEF Work, EventsOnce, TickersAlone, TickerAt, OneTicker
  <2>5. QED
    BY <2>3, <2>4 DEF Work
<1>2. CASE Lapse
  <2>1. UNCHANGED <<day, ticker, sales, applied, paid>> /\ Count("lapses", MaxLapses)
    BY <1>2 DEF Lapse, rows
  <2>2. ~OneTicker'
    BY <2>1, TypesAre, Counts DEF OneTicker
  <2>3. QED
    BY <2>1, <2>2 DEF Work, EventsOnce, TickersAlone, WorkKnown, TickerAt
<1>3. QED
  BY <1>1, <1>2

\* Every step keeps what the tickers work on.
LEMMA MarketWork ==
    ASSUME MarketTypeOK, Work, [MarketNext]_marketVars, MarketTypeOK'
    PROVE  Work'
<1>1. CASE UNCHANGED marketVars
  BY <1>1 DEF marketVars, Work, EventsOnce, TickersAlone, WorkKnown, TickerAt, OneTicker
<1>2. CASE Tomorrow \/ Lapse
  BY <1>2, TimeWork
<1>3. CASE Trade
  <2>1. ASSUME NEW u \in Holder, CancelAsk(u) \/ \E q \in Lot : PlaceAsk(u, q)
        PROVE  Work'
    <3>1. UNCHANGED <<day, sales, applied, leader, ticker, paid>>
      BY <2>1 DEF CancelAsk, PlaceAsk
    <3>2. OneTicker' => OneTicker
      <4>1. tally' = tally \/ Count("asks", MaxAsks)
        BY <2>1 DEF CancelAsk, PlaceAsk
      <4>2. QED
        BY <4>1, TypesAre, Counts DEF OneTicker
    <3>3. QED
      BY <3>1, <3>2 DEF Work, EventsOnce, TickersAlone, WorkKnown, TickerAt
  <2>2. QED
    BY <1>3, <2>1, FillWork DEF Trade
<1>4. ASSUME NEW t \in Ticker, NEW place \in Places, Goes(t, place), ~TickerAt(t, "sleep"),
             UNCHANGED <<day, leader, sales, applied, paid>>,
             tally' = tally \/ Count("failures", MaxFailures)
      PROVE  Work'
  BY <1>4, GoneWork
<1>5. {"match", "due", "events", "sleep"} \subseteq Places
  BY DEF Places
<1>6. ASSUME NEW t \in Ticker, Tick(t) PROVE Work'
  <2>1. CASE EnginePrice(t)
    BY <1>4, <1>5, <2>1 DEF EnginePrice, WritePrice, TickerAt
  <2>2. CASE Matched(t)
    BY <1>4, <1>5, <2>2 DEF Matched, NoChange, rows, TickerAt
  <2>3. QED
    BY <1>6, <2>1, <2>2, AcquireWork, ReadWork, ReleaseWork, ApplyWork DEF Tick
<1>7. ASSUME NEW t \in Ticker, Fault(t) PROVE Work'
  <2>1. CASE FallbackPrice(t)
    BY <1>4, <1>5, <2>1 DEF FallbackPrice, WritePrice, TickerAt
  <2>2. CASE SkipPrice(t)
    BY <1>4, <1>5, <2>2 DEF SkipPrice, rows, TickerAt
  <2>3. CASE PricesFail(t)
    BY <1>4, <1>5, <2>3 DEF PricesFail, rows, TickerAt
  <2>4. CASE ReleaseFails(t)
    BY <1>4, <1>5, <2>4 DEF ReleaseFails, rows, TickerAt
  <2>5. CASE EventsFail(t)
    BY <1>4, <1>5, <2>5 DEF EventsFail, rows, TickerAt
  <2>6. QED
    BY <1>7, <2>1, <2>2, <2>3, <2>4, <2>5, RestartWork DEF Fault
<1>8. QED
  BY <1>1, <1>2, <1>3, <1>6, <1>7 DEF MarketNext

-----------------------------------------------------------------------------
(* The market: the theorems *)

\* The market starts in the invariant.
LEMMA MarketStarts == MarketInit => MarketInv
<1> SUFFICES ASSUME MarketInit PROVE MarketInv
  OBVIOUS
<1>1. /\ Price0 \in Nat /\ Shares0 \in Nat /\ Quantity0 \in Nat /\ MaxDay \in Nat /\ MaxDay > 0
      /\ MaxAsks \in Nat /\ MaxLapses \in Nat /\ MaxFailures \in Nat
  BY MarketAssumption
<1>2. <<>> \in Seq(SaleRow) /\ DOMAIN <<>> = {}
  OBVIOUS
<1>3. MarketTypeOK
  <2>1. RowsTyped
    BY <1>1, <1>2 DEF MarketInit, RowsTyped, CompanyRow, PositionRow, WalletRow
  <2>2. TallyTyped
    BY <1>1 DEF MarketInit, TallyTyped
  <2>3. /\ day \in 1 .. MaxDay
        /\ leader \in Ticker \cup {NoTicker}
        /\ ticker \in [Ticker -> TickerRow]
    BY <1>1, StartedRow DEF MarketInit
  <2>4. QED
    BY <2>1, <2>2, <2>3, TypesAre
<1>4. Covered
  <2>1. \A u \in Holder : WorthOf(sales, OpenOf(sales, u)) = 0
    <3>1. DOMAIN sales = {}
      BY <1>2 DEF MarketInit
    <3>2. \A u \in Holder : OpenOf(sales, u) = {}
      BY <3>1 DEF OpenOf
    <3>3. QED
      BY <3>2, SumEmpty DEF WorthOf
  <2>2. AsksCovered
    BY <1>1 DEF MarketInit, AsksCovered
  <2>3. \A u \in Holder : wallet[u].settling = 0
    BY DEF MarketInit
  <2>4. DOMAIN sales = {}
    BY <1>2 DEF MarketInit
  <2>5. QED
    BY <2>1, <2>2, <2>3, <2>4, AccountsAre
<1>5. EventsOnce /\ TickersAlone /\ WorkKnown
  BY StartedRow DEF MarketInit, EventsOnce, TickersAlone, WorkKnown, TickerAt
<1>6. QED
  BY <1>3, <1>4, <1>5 DEF MarketInv, AccountsCovered, Covered

\* Every step of the market keeps it.
LEMMA MarketSteps == MarketInv /\ [MarketNext]_marketVars => MarketInv'
<1> SUFFICES ASSUME MarketInv, [MarketNext]_marketVars PROVE MarketInv'
  OBVIOUS
<1>1. MarketTypeOK /\ Covered /\ Work
  BY DEF MarketInv, AccountsCovered, Covered, Work
<1>2. MarketTypeOK'
  BY <1>1, MarketTypes DEF Covered, Work
<1>3. Covered'
  BY <1>1, MarketAccounts DEF Work
<1>4. Work'
  BY <1>1, <1>2, MarketWork
<1>5. QED
  BY <1>2, <1>3, <1>4 DEF MarketInv, AccountsCovered, Covered, Work

\* So it always holds.
LEMMA MarketHolds == MarketSpec => []MarketInv
  BY MarketStarts, MarketSteps, PTL DEF MarketSpec

\* For any number of tickers, users, sales and events: the settling cash of an account is
\* covered by its open sales, exactly while one ticker ticks at a time, and its frozen
\* shares by its position (settlement_service.release_due, corporate_events.apply_due_events).
THEOREM AccountsStayCovered == MarketSpec => []AccountsCovered
<1>1. MarketInv => AccountsCovered
  BY DEF MarketInv
<1>2. QED
  BY <1>1, MarketHolds, PTL

\* For any number of tickers and events: while one ticker ticks at a time no event is
\* applied twice, and none is marked without being applied (apply_due_events).
THEOREM EventsAppliedOnce == MarketSpec => []EventsOnce
<1>1. MarketInv => EventsOnce
  BY DEF MarketInv
<1>2. QED
  BY <1>1, MarketHolds, PTL
==============================================================================
