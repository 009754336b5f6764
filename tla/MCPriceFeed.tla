------------------------------ MODULE MCPriceFeed ------------------------------
EXTENDS PriceFeed, TLC

CONSTANTS w1, w2

FairFeed == FeedSpec /\ FeedFairness

TwoWorkers == {w1, w2}
TwoPrices == {1, 2}
=============================================================================
