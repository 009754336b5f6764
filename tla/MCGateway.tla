----------------------------- MODULE MCGateway ------------------------------
(***************************************************************************)
(* Three services of the gateway that share no state: contests, sessions   *)
(* over WebSockets, and the rate limiter.  Every behaviour exercises one   *)
(* of them while the others are at rest, which loses no behaviour of any.  *)
(***************************************************************************)
EXTENDS Contests, Sessions, RateLimiter, TLC

CONSTANTS r1, r2, t1, t2, c1, c2

TwoRequests == {r1, r2}
Seeds == [tech |-> <<"TECHA", "TECHB">>, bank |-> <<"FINA">>]
Fillers == <<"SCEN001">>
Symbols == {"TECHA", "TECHB", "FINA", "SCEN001"}
Choices == {[industry |-> "tech", count |-> 2, emphasis |-> TRUE, news |-> TRUE, social |-> TRUE],
            [industry |-> "bank", count |-> 1, emphasis |-> FALSE, news |-> FALSE, social |-> TRUE]}

TwoTabs == {t1, t2}
Owners == [t \in TwoTabs |-> "alice"]

TwoCallers == {c1, c2}
Limits == [k \in {"alice", "office", "minute", "day"} |->
              CASE k = "day" -> [max |-> 3, window |-> 4]
                [] OTHER     -> [max |-> 2, window |-> 2]]

(* Within the limiter, logins and questions share no counter either. *)
NoQuestions == \A k \in {Minute, Day} : last[k] = -1
NoLogins == \A c \in Caller : login[c].at = "idle" /\ \A k \in Name \cup Address : last[k] = -1

GatewayInit == Init /\ SessionsInit /\ LimiterInit

GatewayNext ==
    \/ SessionsInit /\ LimiterInit /\ Next /\ UNCHANGED <<sessionVars, limiterVars>>
    \/ Init /\ LimiterInit /\ SessionsNext /\ UNCHANGED <<vars, limiterVars>>
    \/ /\ Init /\ SessionsInit /\ LimiterNext /\ UNCHANGED <<vars, sessionVars>>
       /\ NoQuestions' \/ NoLogins'

GatewaySpec == GatewayInit /\ [][GatewayNext]_<<vars, sessionVars, limiterVars>>

Symmetry == Permutations(TwoRequests) \cup Permutations(TwoTabs) \cup Permutations(TwoCallers)
=============================================================================
