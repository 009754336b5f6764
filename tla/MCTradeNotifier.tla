--------------------------- MODULE MCTradeNotifier ---------------------------
EXTENDS TradeNotifierProperties, TLC

CONSTANTS w1, w2, u1

FairSpec == Spec /\ Fairness

TwoWorkers == {w1, w2}
OneMatcher == {w1}
TwoTrades == {1, 2}
OneUser == {u1}
AllOfOne == [t \in Trade |-> u1]
=============================================================================
