----------------------------- MODULE RewardLedger -----------------------------
(***************************************************************************)
(* What the rewards promise: an item (a task of a period, a challenge) is  *)
(* paid at most once, and the cash is what the paid items are worth.       *)
(***************************************************************************)
EXTENDS Naturals

CONSTANTS
    Item,    \* what can be rewarded
    Worth    \* what an item pays

VARIABLES
    paid,    \* items that were paid
    cash     \* what they have paid

Init == paid = {} /\ cash = 0

Pay(item) ==
    /\ item \notin paid
    /\ paid' = paid \cup {item}
    /\ cash' = cash + Worth[item]

Next == \E item \in Item : Pay(item)

Spec == Init /\ [][Next]_<<paid, cash>>
=============================================================================
