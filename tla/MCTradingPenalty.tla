--------------------------- MODULE MCTradingPenalty ---------------------------
EXTENDS TradingPenalty, TLC

CONSTANTS alice, bob, p1, p2

FairSpec == PenaltySpec /\ PassFairness /\ TickFairness

MCUser == {alice, bob}
OneUser == {alice}
OnePass == {p1}
TwoPasses == {p1, p2}
Symmetry == Permutations({alice, bob})
=============================================================================
