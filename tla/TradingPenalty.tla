---------------------------- MODULE TradingPenalty ----------------------------
(***************************************************************************)
(* The trading core together with apply_penalty of                         *)
(* services/penalty_service.py, which takes a deduction from the user's    *)
(* cash and, where the cash does not suffice, from the cash that pending   *)
(* buys hold frozen, and locks the user out of placing orders.             *)
(***************************************************************************)
EXTENDS TradingProperties

CONSTANTS
    Deductions,  \* points_deducted, in cents
    Durations,   \* cooldown_seconds, in clock ticks
    MaxPenalties \* bound: penalties altogether

ASSUME PenaltyAssumption ==
    /\ Deductions \subseteq Nat /\ Durations \subseteq Nat
    /\ MaxPenalties \in Nat

VARIABLES
    struck       \* history: how many penalties each user has paid

penaltyVars == <<vars, struck>>

-----------------------------------------------------------------------------
(* The pending buys, oldest first *)

PendingBuys(u) == {o \in OrdersOf(u, "buy") : Open(o) /\ Remaining(o) > 0}

\* _buy_freeze_price of penalty_service.py is FreezePrice(o) / FreezeShares(o):
\* of a limit order the limit without the fee, unlike in trading_service.py.
FreezePrice(o)  == IF IsMarket(o) THEN orders[o].frozen ELSE orders[o].price
FreezeShares(o) == IF IsMarket(o) THEN Remaining(o) ELSE 1

\* order_frozen: what cancelling the order gives back.
Gives(o) == IF IsMarket(o) THEN orders[o].frozen
            ELSE LesserOf(Remaining(o) * orders[o].price, orders[o].frozen)

GivenBy(S) == SumFunction([o \in S |-> Gives(o)])

\* What is still needed when it is o's turn.
Needed(o, shortfall) ==
    shortfall - GivenBy({x \in PendingBuys(orders[o].user) : x < o /\ Gives(x) > 0})

\* The orders that have to give, and the shares each of them loses.
Givers(u, shortfall) ==
    {o \in PendingBuys(u) : Gives(o) > 0 /\ Needed(o, shortfall) > 0}

CancelQuantity(o, shortfall) ==
    LET scaled == Needed(o, shortfall) * FreezeShares(o)
    IN  (scaled + FreezePrice(o) - 1) \div FreezePrice(o)

CancelsAll(o, shortfall) ==
    LET qty == CancelQuantity(o, shortfall)
    IN  \/ Gives(o) <= Needed(o, shortfall)
        \/ qty >= Remaining(o)
        \/ qty * FreezePrice(o) > orders[o].frozen * FreezeShares(o)

\* The order that loses a part of its shares: it is the last one, if any.
Reduced(u, shortfall) ==
    {o \in Givers(u, shortfall) : ~CancelsAll(o, shortfall)}

\* The cash taken back, over Scale: a part of a market order's frozen cash need
\* not be whole cents.
Scale(u, shortfall) ==
    IF Reduced(u, shortfall) = {} THEN 1
    ELSE SumFunction([o \in Reduced(u, shortfall) |-> FreezeShares(o)])

Recovered(u, shortfall) ==
    Scale(u, shortfall)
        * GivenBy(Givers(u, shortfall) \ Reduced(u, shortfall))
      + SumFunction([o \in Reduced(u, shortfall) |->
                        CancelQuantity(o, shortfall) * FreezePrice(o)])

\* The row of a giver.
Withdrawn(o, shortfall) ==
    IF CancelsAll(o, shortfall)
    THEN Cancelled(o)
    ELSE LET qty == CancelQuantity(o, shortfall)
         IN  [orders[o] EXCEPT
                 !.frozen   = Round(@ * FreezeShares(o) - qty * FreezePrice(o),
                                    FreezeShares(o)),
                 !.quantity = @ - qty,
                 !.version  = @ + 1]

\* The account after the deduction, with back / scale taken from the orders.
Penalised(row, back, scale, deduction) ==
    [row EXCEPT !.cash_balance = Round((@ - deduction) * scale + back, scale),
                !.frozen_cash  = Round(@ * scale - back, scale)]

-----------------------------------------------------------------------------
Affordable_Always(u, shortfall) == TRUE

\* Otherwise the penalty is rolled back.
Affordable(u, shortfall) == GivenBy(PendingBuys(u)) >= shortfall

\* apply_penalty, from its row lock to its commit.
ApplyPenalty(u, deduction, duration) ==
    LET shortfall == IF deduction > user[u].cash_balance /\ deduction > 0
                     THEN deduction - user[u].cash_balance ELSE 0
        givers == Givers(u, shortfall)
        paid   == Penalised(user[u], Recovered(u, shortfall), Scale(u, shortfall),
                            deduction)
    IN  /\ SumFunction(struck) < MaxPenalties
        /\ Affordable(u, shortfall)
        /\ struck' = [struck EXCEPT ![u] = @ + 1]
        /\ user' = [user EXCEPT ![u] =
                       IF duration > 0
                       THEN [paid EXCEPT !.cooldown_until = now + duration]
                       ELSE paid]
        /\ orders' = [o \in OrderId |-> IF o \in givers THEN Withdrawn(o, shortfall)
                                        ELSE orders[o]]
        /\ house' = [house EXCEPT !.cash = @ + deduction]
        /\ UNCHANGED <<portfolio, placed, unsettled, pass, failures, env>>
        /\ Wrote({}, {u})

PenaltyInit == Init /\ struck = [u \in User |-> 0]

\* The steps of the exchange, and the penalty.
PenaltyNext ==
    \/ \E u \in User : Place(u) /\ UNCHANGED struck
    \/ \E o \in OrderId : CancelOrder(o) /\ UNCHANGED struck
    \/ \E p \in Pass : \/ StartPass(p) /\ UNCHANGED struck
                       \/ PassStep(p) /\ UNCHANGED struck
                       \/ Fail(p) /\ UNCHANGED struck
    \/ ReleaseDue /\ UNCHANGED struck
    \/ \E price \in MarketPrices : UpdatePrice(price) /\ UNCHANGED struck
    \/ \E u \in User, amount \in Rewards : CreditCash(u, amount) /\ UNCHANGED struck
    \/ Clock /\ UNCHANGED struck
    \/ \E u \in User, deduction \in Deductions, duration \in Durations :
          ApplyPenalty(u, deduction, duration)

PenaltySpec == PenaltyInit /\ [][PenaltyNext]_penaltyVars

-----------------------------------------------------------------------------
Held(u) == SumFunction([o \in OrdersOf(u, "buy") |-> orders[o].frozen])

\* users.frozen_cash is the sum of what the user's buy orders hold frozen:
\* every fill, cancellation and self-trade releases from both rows alike.  Only
\* a penalty may leave more there, and where freezes are whole cents nothing
\* leaves less, so no release makes it negative.
CashEscrow ==
    \A u \in User :
        /\ struck[u] = 0 => user[u].frozen_cash = Held(u)
        /\ user[u].frozen_cash >= Held(u)

\* Only a purchase spends cash an account does not have; a penalty that cannot
\* be paid in full from the cash and the pending buys is not taken at all.
PenaltyWithinMeans ==
    [][\A u \in User :
         (user'[u].cash_balance < user[u].cash_balance
            /\ \A o \in OrdersOf(u, "buy") : orders'[o].filled = orders[o].filled)
         => user'[u].cash_balance >= 0]_vars

-----------------------------------------------------------------------------
\* What the documentation says and the code does not do: cancelling a pending
\* buy releases its frozen cash, so a user without one has none frozen.
NoOrphanedFreeze ==
    \A u \in User : (\A o \in OrdersOf(u, "buy") : ~Open(o)) => user[u].frozen_cash = 0
=============================================================================
