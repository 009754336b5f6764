------------------------------ MODULE MCAccounts ------------------------------
(***************************************************************************)
(* The users rows under the penalties' lock, and under the market's ticks. *)
(* The two write different columns and share no state here; a behaviour    *)
(* exercises one of them while the other is at rest, which loses no        *)
(* behaviour of either.                                                    *)
(***************************************************************************)
EXTENDS CooldownProperties, MarketProperties, TLC

CONSTANTS r1, r2, r3, severe

ThreeRequests == {r1, r2, r3}
OneSeverity == {severe}
SevereRisk == severe :> 1
ThreeTiers == <<[threshold |-> 0, duration |-> 0],
                [threshold |-> 1, duration |-> 1],
                [threshold |-> 3, duration |-> 2]>>

CONSTANTS t1, t2, ann, dividend, split, broken

TwoTickers == {t1, t2}
OneHolder == {ann}
ThreeEvents == {dividend, split, broken}
Actions == dividend :> "dividend" @@ split :> "split" @@ broken :> "broken"
Amounts == [e \in ThreeEvents |-> IF e = split THEN 2 ELSE 1]
ExDates == dividend :> 2 @@ split :> 2 @@ broken :> 1
Stay == {0}
Lots == {2}

AccountsInit == Init /\ MarketInit

AccountsNext ==
    \/ MarketInit /\ Next /\ UNCHANGED marketVars
    \/ Init /\ MarketNext /\ UNCHANGED vars

AccountsSpec == AccountsInit /\ [][AccountsNext]_<<vars, marketVars>>

Symmetry == Permutations(ThreeRequests) \cup Permutations(TwoTickers)
=============================================================================
