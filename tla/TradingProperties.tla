-------------------------- MODULE TradingProperties --------------------------
(***************************************************************************)
(* What the trading core promises its users: the money and the shares that *)
(* open orders freeze are exactly what the accounts hold frozen, nothing   *)
(* is lost or spent twice whatever passes and cancellations interleave,    *)
(* and every pass and every market order comes to an end.                  *)
(***************************************************************************)
EXTENDS Trading

UserRows == [cash_balance : Int, frozen_cash : Int, settling_cash : Int,
             cooldown_until : Nat]
PortfolioRows == [quantity : Int, frozen_quantity : Int]
OrderRows == [user : User \cup {"nobody"}, side : {"buy", "sell", "none"},
              price : Nat, quantity : Nat, filled : Nat, frozen : Int,
              status : Statuses, version : Nat]
PassRows == [pc : {"idle", "peekBuy", "peekSell", "pair", "makerBuy", "makerSell"},
             stage : {"book", "maker"},
             skipBuy : SUBSET OrderId, skipSell : SUBSET OrderId,
             liquidity : 0 .. Depth, market : Nat, simAt : Nat,
             buy : 0 .. MaxOrders, buyVersion : Nat,
             sell : 0 .. MaxOrders, sellVersion : Nat]
SellTransactions == [order : OrderId, fill : Nat, user : User, amount : Int,
                     settles_at : Nat]

\* Every variable holds rows of its table.
TypeOK ==
    /\ user \in [User -> UserRows]
    /\ portfolio \in [User -> PortfolioRows]
    /\ orders \in [OrderId -> OrderRows]
    /\ placed \in 0 .. MaxOrders
    /\ company \in [current_price : MarketPrices, updated_at : Nat]
    /\ unsettled \subseteq SellTransactions /\ IsFiniteSet(unsettled)
    /\ now \in 0 .. MaxTime
    /\ pass \in [Pass -> PassRows]
    /\ stale \in [Pass -> SUBSET User]
    /\ house \in [cash : Int, shares : Int]
    /\ credited \in 0 .. MaxRewards
    /\ failures \in 0 .. MaxFailures

OrdersOf(u, side) == {o \in OrderId : orders[o].user = u /\ orders[o].side = side}

-----------------------------------------------------------------------------
(* Ledger *)

\* portfolios.frozen_quantity is what the user's open sells have yet to
\* deliver, through partial fills, cancellations and self-trades.
FrozenIsOffered ==
    \A u \in User : portfolio[u].frozen_quantity =
        SumFunction([o \in {x \in OrdersOf(u, "sell") : Open(x)} |-> Remaining(o)])

\* users.settling_cash is the sum of the proceeds still to settle: the T+2
\* release never meets its lower bound and never pays what is not there.
SettlingBacked ==
    \A u \in User : user[u].settling_cash =
        Amounts({t \in unsettled : t.user = u})

\* Every open sell can be delivered in full, so no fill ever fails on
\* InsufficientHoldingError and nobody sells what he does not hold.
SellsCovered ==
    \A o \in OrderId : orders[o].side = "sell" /\ Open(o) => CanDeliver(o, Remaining(o))

\* Shares are neither created nor destroyed: what users hold and what the
\* market maker bought add up to what was handed out.
SharesConserved ==
    SumFunction([u \in User |-> portfolio[u].quantity]) + house.shares
      = SumFunction([u \in User |-> InitShares])

\* A seller's escrow: the shares that are offered are there and frozen, the
\* proceeds of those that are sold are there and settling, and every share is
\* still with somebody.
ShareEscrow == FrozenIsOffered /\ SettlingBacked /\ SellsCovered /\ SharesConserved

\* Money is neither created nor destroyed: the accounts and what went to the
\* house add up to what was paid in, when freezes are whole cents.
CashConserved ==
    SumFunction([u \in User |-> user[u].cash_balance + user[u].frozen_cash
                                  + user[u].settling_cash]) + house.cash
      = SumFunction([u \in User |-> InitCash])

-----------------------------------------------------------------------------
(* Orders *)

\* The status of an order says how much of it is filled, and an order that can
\* no longer be filled as a buy holds no cash.
RowOK(row) ==
    /\ row.status # "none" => /\ row.user \in User
                              /\ row.side \in {"buy", "sell"}
                              /\ row.quantity > 0
                              /\ row.filled <= row.quantity
    /\ row.status = "pending" => row.filled = 0
    /\ row.status = "partially_filled" => row.filled \in 1 .. row.quantity - 1
    /\ row.status = "filled" => row.filled = row.quantity
    /\ row.status \in {"filled", "cancelled"} => row.frozen = 0
    /\ row.side = "sell" => row.frozen = 0

\* The life of an order: no interleaving of passes and cancellations fills it
\* beyond its quantity, leaves cash on a final order or reuses an id.
OrderLife == \A o \in OrderId : /\ orders[o].status = "none" <=> o > placed
                                /\ RowOK(orders[o])

\* What a pass knows of an order it peeked at version v without a lock.
Known(o, v, side) ==
    /\ o \in 1 .. placed
    /\ v <= orders[o].version
    /\ v = orders[o].version => /\ orders[o].side = side
                                /\ Open(o)
                                /\ Remaining(o) > 0

Trusts(me) ==
    /\ me.pc # "idle" => me.liquidity > 0
    /\ me.buy # Nobody => Known(me.buy, me.buyVersion, "buy")
    /\ me.sell # Nobody => Known(me.sell, me.sellVersion, "sell")
    /\ me.pc \in {"pair", "makerBuy"} => me.buy # Nobody
    /\ me.pc \in {"pair", "makerSell"} => me.sell # Nobody

\* The version check is enough: an order whose version is still the one a pass
\* peeked is still open, with something left to fill, and the pass has
\* liquidity for it.  Every writer of an order row bumps its version.
PeeksTrusted == \A p \in Pass : Trusts(pass[p])

\* What a pass does with what it peeked is sound: the orders are sound, and
\* those whose version has not moved are as the pass saw them.
OrdersTrusted == TypeOK /\ OrderLife /\ PeeksTrusted

\* A filled or cancelled order never changes again, whatever a pass that
\* peeked it earlier does.
FinalIsFinal ==
    [][\A o \in OrderId : orders[o].status \in {"filled", "cancelled"}
                            => orders'[o] = orders[o]]_vars

-----------------------------------------------------------------------------
(* Prices, where freezes are whole cents: see Trading *)

Wealth(u) == user[u].cash_balance + user[u].frozen_cash

NewlyFilled(o) == orders'[o].filled - orders[o].filled

\* The buyer of a limit order never pays more than its limit and the fee on it.
BuyLimitHonoured(o) ==
    LET u == orders[o].user
    IN  ~IsMarket(o) => Wealth(u) - Wealth(u)' <= Debit(NewlyFilled(o), orders[o].price)

\* A buy is paid from the cash it froze: a fill takes at most a cent of
\* rounding from the cash the user can still spend.
PaidFromEscrow(o) ==
    LET u == orders[o].user IN user'[u].cash_balance >= user[u].cash_balance - 1

\* The seller of a limit order never receives less than its limit minus the
\* fee and the tax on it.
SellLimitHonoured(o) ==
    LET u == orders[o].user
    IN  ~IsMarket(o) =>
          user'[u].settling_cash - user[u].settling_cash
            >= Proceeds(NewlyFilled(o), orders[o].price)

\* Whoever is on the other side, and whatever the market did since the order
\* was placed, every fill honours the terms the user agreed to.
TermsHonoured ==
    [][\A o \in OrderId :
         NewlyFilled(o) > 0 =>
           IF orders[o].side = "buy" THEN BuyLimitHonoured(o) /\ PaidFromEscrow(o)
           ELSE SellLimitHonoured(o)]_vars

-----------------------------------------------------------------------------
(* Progress *)

\* Every pass ends: each round fills something, cancels something or skips an
\* order for good.
PassEnds == \A p \in Pass : (pass[p].pc # "idle") ~> (pass[p].pc = "idle")

\* A market order never hangs: the market maker is always there to fill it, as
\* long as the tick keeps matching and nothing but other orders competes for
\* the liquidity.
MarketOrdersFinish ==
    \A o \in OrderId : (Open(o) /\ IsMarket(o)) ~> ~Open(o)

=============================================================================
