------------------------------- MODULE Cooldown -------------------------------
(***************************************************************************)
(* The penalty and the trading lock of one account: POST /risk/penalties,  *)
(* GET /risk/cooldown, POST /risk/cooldown/clear and the gate in front of  *)
(* POST /orders (services/penalty_service.py, api/v1/trades.py).           *)
(*                                                                         *)
(* Every request has a database session of its own.  Authentication loads  *)
(* the account's row into it; the session never reads that row again, not  *)
(* even under FOR UPDATE, and the version_id check of its UPDATE is what   *)
(* tells it that another transaction wrote the row in between.             *)
(***************************************************************************)
EXTENDS Naturals, Sequences

CONSTANTS
    Request,       \* requests served at the same time
    Severity,      \* trap severities
    RiskOf,        \* SEVERITY_RISK_MAP
    Tiers,         \* COOLDOWN_TIERS, in clock ticks
    MaxRisk,       \* the risk score is 0 .. 100
    MaxPenalties,  \* bound: penalties applied
    MaxOrders,     \* bound: orders placed
    MaxWrites,     \* bound: writes of the row by the rest of the system
    MaxTime        \* bound: clock ticks

\* The tier of a risk score: the first one whose threshold it does not exceed.
TierOf(risk, i) == /\ i \in DOMAIN Tiers
                   /\ risk <= Tiers[i].threshold
                   /\ \A j \in DOMAIN Tiers : j < i => Tiers[j].threshold < risk

ASSUME CooldownAssumption ==
    /\ MaxRisk \in Nat /\ MaxPenalties \in Nat /\ MaxOrders \in Nat
    /\ MaxWrites \in Nat /\ MaxTime \in Nat
    /\ RiskOf \in [Severity -> Nat]
    /\ Tiers \in Seq([threshold : Nat, duration : Nat])
    /\ \A i, j \in DOMAIN Tiers : i <= j => Tiers[i].duration <= Tiers[j].duration
    /\ \A risk \in 0 .. MaxRisk : \E i \in DOMAIN Tiers : TierOf(risk, i)

VARIABLES
    account,   \* users: risk_score, cooldown_until
    events,    \* trap_events, in the order of detected_at: severity, resolved
    rewards,   \* discipline_score_history: rows of mentor_reflection
    locks,     \* how many penalties set cooldown_until
    placed,    \* orders placed, by side
    request,   \* the local state of every request
    writes,    \* how often the rest of the system wrote the row
    now        \* the real clock

vars == <<account, events, rewards, locks, placed, request, writes, now>>

Never == 0   \* cooldown_until is NULL

-----------------------------------------------------------------------------
(* The math engine *)

LesserOf(a, b) == IF a <= b THEN a ELSE b

\* calc_cooldown_seconds
Duration(risk) == Tiers[CHOOSE i \in DOMAIN Tiers : TierOf(risk, i)].duration

\* new_risk_score: calc_risk_score_delta is capped at 100.
Raised(risk, severity) == LesserOf(risk + RiskOf[severity], MaxRisk)

-----------------------------------------------------------------------------
(* Sessions *)

Kinds == {"penalty", "buy", "sell", "status"}

NoRequest == [kind |-> "none", pc |-> "idle", cooldown |-> Never, fresh |-> FALSE,
              severity |-> "none", risk |-> 0]

At(r, kinds, pc) == request[r].kind \in kinds /\ request[r].pc = pc

\* The transaction of r wrote the account's row, and r goes on as "next": every
\* other session that holds the row now holds an old one.
WriteBy(r, next) ==
    request' = [s \in Request |-> IF s = r THEN next
                                  ELSE [request[s] EXCEPT !.fresh = FALSE]]

Done(r) == request' = [request EXCEPT ![r] = NoRequest]

\* get_current_user
Loaded(kind) ==
    [kind |-> kind, pc |-> IF kind = "penalty" THEN "ask" ELSE "gate",
     cooldown |-> account.cooldown_until, fresh |-> TRUE,
     severity |-> "none", risk |-> 0]

Arrive(r) ==
    /\ request[r].pc = "idle"
    /\ \E kind \in Kinds : request' = [request EXCEPT ![r] = Loaded(kind)]
    /\ UNCHANGED <<account, events, rewards, locks, placed, writes, now>>

\* StaleDataError from the flush of a session whose row is old.
Stale(r) ==
    /\ ~request[r].fresh
    /\ \/ At(r, {"penalty"}, "apply")
       \/ At(r, {"buy"}, "place")
       \/ At(r, Kinds, "gate") /\ request[r].cooldown \in 1 .. now
    /\ Done(r)
    /\ UNCHANGED <<account, events, rewards, locks, placed, writes, now>>

-----------------------------------------------------------------------------
(* apply_penalty *)

\* The risk score is selected again as a column, and the engine is asked.
AskEngine(r) ==
    /\ At(r, {"penalty"}, "ask")
    /\ \/ \E severity \in Severity :
            request' = [request EXCEPT ![r].pc = "apply",
                                       ![r].severity = severity,
                                       ![r].risk = account.risk_score]
       \/ Done(r)   \* the engine failed
    /\ UNCHANGED <<account, events, rewards, locks, placed, writes, now>>

MayApply_Unversioned(r) == At(r, {"penalty"}, "apply")

MayApply(r) == At(r, {"penalty"}, "apply") /\ request[r].fresh

\* The engine's answer is written: the risk score, the lock and the evidence.
ApplyPenalty(r) ==
    LET duration == Duration(request[r].risk)
    IN  /\ MayApply(r)
        /\ Len(events) < MaxPenalties
        /\ account' = [risk_score     |-> Raised(request[r].risk, request[r].severity),
                       cooldown_until |-> IF duration > 0 THEN now + duration
                                          ELSE account.cooldown_until]
        /\ locks' = IF duration > 0 THEN locks + 1 ELSE locks
        /\ events' = Append(events, [severity |-> request[r].severity,
                                     resolved |-> FALSE])
        /\ WriteBy(r, NoRequest)
        /\ UNCHANGED <<rewards, placed, writes, now>>

\* The deduction is more than the cash and the pending buys can give: rollback.
RollBack(r) ==
    /\ At(r, {"penalty"}, "apply")
    /\ Done(r)
    /\ UNCHANGED <<account, events, rewards, locks, placed, writes, now>>

-----------------------------------------------------------------------------
(* get_penalty_status, enforce_cooldown and clear_cooldown *)

\* After the gate an order goes on to be placed; a status is answered.
AfterGate(r) == IF request[r].kind = "status" THEN NoRequest
                ELSE [request[r] EXCEPT !.pc = "place", !.cooldown = Never]

\* HTTP 423, or the answer that the account is still locked.
Blocked(r) ==
    /\ At(r, Kinds, "gate") /\ request[r].cooldown > now
    /\ Done(r)
    /\ UNCHANGED <<account, events, rewards, locks, placed, writes, now>>

Admit(r) ==
    /\ At(r, Kinds, "gate") /\ request[r].cooldown = Never
    /\ request' = [request EXCEPT ![r] = AfterGate(r)]
    /\ UNCHANGED <<account, events, rewards, locks, placed, writes, now>>

MayClear_Unversioned(r) == At(r, Kinds, "gate") /\ request[r].cooldown \in 1 .. now

MayClear(r) == /\ At(r, Kinds, "gate") /\ request[r].cooldown \in 1 .. now
               /\ request[r].fresh

\* The lock has run out: it is cleared, the reflection is rewarded and the
\* violations are resolved.
Clear(r) ==
    /\ MayClear(r)
    /\ account' = [account EXCEPT !.cooldown_until = Never]
    /\ rewards' = rewards + 1
    /\ events' = [i \in DOMAIN events |-> [events[i] EXCEPT !.resolved = TRUE]]
    /\ WriteBy(r, AfterGate(r))
    /\ UNCHANGED <<locks, placed, writes, now>>

-----------------------------------------------------------------------------
(* create_order behind the gate *)

MayBuy_Unversioned(r) == At(r, {"buy"}, "place")

MayBuy(r) == At(r, {"buy"}, "place") /\ request[r].fresh

\* A buy freezes cash in the account's row.
PlaceBuy(r) ==
    /\ MayBuy(r)
    /\ placed.buy + placed.sell < MaxOrders
    /\ placed' = [placed EXCEPT !.buy = @ + 1]
    /\ WriteBy(r, NoRequest)
    /\ UNCHANGED <<account, events, rewards, locks, writes, now>>

\* A sell freezes shares in the portfolio's row and leaves the account's alone.
PlaceSell(r) ==
    /\ At(r, {"sell"}, "place")
    /\ placed.buy + placed.sell < MaxOrders
    /\ placed' = [placed EXCEPT !.sell = @ + 1]
    /\ Done(r)
    /\ UNCHANGED <<account, events, rewards, locks, writes, now>>

\* The order is refused for another reason: the company, the band, the balance.
Refuse(r) ==
    /\ At(r, {"buy", "sell"}, "place")
    /\ Done(r)
    /\ UNCHANGED <<account, events, rewards, locks, placed, writes, now>>

-----------------------------------------------------------------------------
\* Fills, settlements and rewards write the account's row too.
WriteElsewhere ==
    /\ writes < MaxWrites
    /\ writes' = writes + 1
    /\ request' = [r \in Request |-> [request[r] EXCEPT !.fresh = FALSE]]
    /\ UNCHANGED <<account, events, rewards, locks, placed, now>>

Clock ==
    /\ now < MaxTime
    /\ now' = now + 1
    /\ UNCHANGED <<account, events, rewards, locks, placed, request, writes>>

Init ==
    /\ account = [risk_score |-> 0, cooldown_until |-> Never]
    /\ events = <<>>
    /\ rewards = 0
    /\ locks = 0
    /\ placed = [buy |-> 0, sell |-> 0]
    /\ request = [r \in Request |-> NoRequest]
    /\ writes = 0
    /\ now = 1

Serve(r) == \/ AskEngine(r) \/ ApplyPenalty(r) \/ RollBack(r) \/ Stale(r)
            \/ Blocked(r) \/ Admit(r) \/ Clear(r)
            \/ PlaceBuy(r) \/ PlaceSell(r) \/ Refuse(r)

Next == \/ \E r \in Request : Arrive(r) \/ Serve(r)
        \/ WriteElsewhere
        \/ Clock

Spec == Init /\ [][Next]_vars
=============================================================================
