-------------------------- MODULE CooldownProperties --------------------------
(***************************************************************************)
(* What the penalty promises: every violation counts once, a lock is never *)
(* shortened and is served once, whatever requests run side by side.       *)
(***************************************************************************)
EXTENDS Cooldown, Functions

Requests == [kind : Kinds \cup {"none"}, pc : {"idle", "ask", "apply", "gate", "place"},
             cooldown : Nat, fresh : BOOLEAN, severity : Severity \cup {"none"},
             risk : 0 .. MaxRisk]

\* Every variable holds rows of its table.
TypeOK ==
    /\ account \in [risk_score : 0 .. MaxRisk, cooldown_until : Nat]
    /\ events \in Seq([severity : Severity, resolved : BOOLEAN])
    /\ rewards \in Nat /\ locks \in Nat
    /\ placed \in [buy : Nat, sell : Nat]
    /\ request \in [Request -> Requests]
    /\ writes \in 0 .. MaxWrites
    /\ now \in 1 .. MaxTime + 1

\* No violation is lost: the risk score is the sum of what the recorded trap
\* events add, up to the cap, although it is computed by another service from
\* a score read without a lock.
RiskCountsEvents ==
    account.risk_score =
        LesserOf(SumFunction([i \in DOMAIN events |-> RiskOf[events[i].severity]]),
                 MaxRisk)

\* The points for serving a lock are paid once per lock, however many tabs ask.
RewardedOnce ==
    rewards + (IF account.cooldown_until = Never THEN 0 ELSE 1) <= locks

\* A lock may be extended, and cleared when it has run out, but nothing ends it
\* earlier: not a penalty computed from an old score either.
NeverShortened ==
    [][\/ account'.cooldown_until >= account.cooldown_until
       \/ account'.cooldown_until = Never /\ account.cooldown_until <= now]_vars

\* A buy is never placed on an account that is locked by then, even if the
\* penalty came after the gate.
NoBuyWhileLocked ==
    [][placed'.buy > placed.buy => account.cooldown_until <= now]_vars
=============================================================================
