-------------------------------- MODULE Budget --------------------------------
(***************************************************************************)
(* What a token bucket promises, with nothing of how it is kept: credit is *)
(* earned by the passing of time, a call spends Price of it, and no call   *)
(* goes ahead on credit that was not earned.  The one way out is an        *)
(* excuse, after which the promise is void.  TokenBucket.tla implements    *)
(* this specification.                                                     *)
(***************************************************************************)
EXTENDS Integers

CONSTANTS
    Start,     \* the credit a fresh bucket has
    Price      \* what one call spends

VARIABLES
    earned,    \* the credit earned so far
    spent,     \* the credit spent so far
    excused    \* TRUE once the promise is void

vars == <<earned, spent, excused>>

Init ==
    /\ earned = Start
    /\ spent = 0
    /\ excused = FALSE

(* Time passes: credit is earned. *)
Earn ==
    /\ earned' \in Nat
    /\ earned' >= earned
    /\ excused' \in {excused, TRUE}
    /\ UNCHANGED spent

(* A call goes ahead. *)
Spend ==
    /\ excused \/ spent + Price =< earned
    /\ spent' = spent + Price
    /\ UNCHANGED <<earned, excused>>

Next == Earn \/ Spend

Spec == Init /\ [][Next]_vars
================================================================================
