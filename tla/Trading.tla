------------------------------- MODULE Trading -------------------------------
(***************************************************************************)
(* The trading core of the backend gateway: the orders placed through      *)
(* api/v1/trades.py, the matching passes of services/trading_service.py    *)
(* and the T+2 release of services/settlement_service.py, for the users'   *)
(* accounts and the order book of one company.                             *)
(*                                                                         *)
(* Every action is one database transaction (or one unlocked read) of the  *)
(* code.  A matching pass is a process of its own: the market tick and     *)
(* every POST /orders run match_orders, so several passes interleave with  *)
(* each other and with placements, cancellations and releases.             *)
(*                                                                         *)
(* Money is in cents.  Rates are fractions over RateDen.  What the schema  *)
(* stores in a NUMERIC(20,2) column is rounded by Round, half away from    *)
(* zero, as Postgres does when the transaction writes it.  Fees and taxes  *)
(* are rounded before they are paid, freezes and their releases are not,   *)
(* and a session goes on with the un-rounded values it wrote, over its     *)
(* commits too (core/database.py:14, expire_on_commit=False).  The model   *)
(* goes on with the stored ones.  So cash_balance, frozen_cash and frozen  *)
(* are the code's where freezes are whole cents a share, as the            *)
(* configurations choose prices and rates; elsewhere they may be a cent    *)
(* off, and nothing is claimed of them there.                              *)
(***************************************************************************)
EXTENDS Integers, FiniteSetsExt

CONSTANTS
    User,          \* the traders
    Pass,          \* concurrent runs of match_orders
    MaxOrders,     \* bound: orders ever placed
    Quantities,    \* order sizes users ask for
    LimitPrices,   \* limit prices users ask for, in cents
    MarketPrices,  \* prices the market simulation produces, in cents
    InitCash,      \* a new account's cash_balance
    InitShares,    \* a new account's holding
    RateDen,       \* the rates below are x / RateDen
    FeeNum,        \* settings.trading_fee_rate
    TaxNum,        \* settings.sell_tax_rate
    SlipNum,       \* settings.max_slippage_impact
    ImpactNum,     \* settings.slippage_impact_factor
    BandNum,       \* settings.price_band_pct
    TickSize,      \* vn_tick_size on the price scale in use
    Depth,         \* Company.liquidity_depth
    SettleTime,    \* real_seconds_for_sim_days(settlement_days)
    MaxTime,       \* bound: clock ticks
    Rewards,       \* credits other services pay into cash_balance
    MaxRewards,    \* bound: credits paid
    MaxFailures    \* bound: database errors that abort a pass

ASSUME TradingAssumption ==
    /\ IsFiniteSet(User)
    /\ MaxOrders \in Nat
    /\ Quantities \subseteq Nat \ {0}
    /\ LimitPrices \subseteq Nat \ {0}
    /\ MarketPrices \subseteq Nat \ {0}
    /\ InitCash \in Nat
    /\ InitShares \in Nat
    /\ RateDen \in Nat \ {0}
    /\ FeeNum \in Nat /\ TaxNum \in Nat /\ SlipNum \in Nat
    /\ ImpactNum \in Nat /\ BandNum \in Nat
    /\ SlipNum <= RateDen
    /\ TickSize \in Nat \ {0}
    /\ Depth \in Nat \ {0}
    /\ SettleTime \in Nat
    /\ MaxTime \in Nat
    /\ Rewards \subseteq Nat
    /\ MaxRewards \in Nat
    /\ MaxFailures \in Nat

\* A sale brings in at least its fee and tax (0.15 and 0.1 percent): together
\* they take no more than half, which also covers their rounding.
ASSUME RatesAssumption == 2 * (FeeNum + TaxNum) <= RateDen

VARIABLES
    user,       \* users: cash_balance, frozen_cash, settling_cash, cooldown_until
    portfolio,  \* portfolios: quantity, frozen_quantity
    orders,     \* orders, by id; ids are given in the order of created_at
    placed,     \* number of orders created
    company,    \* companies: current_price, updated_at
    unsettled,  \* sell transactions whose settles_at is not NULL
    now,        \* the real clock
    pass,       \* the local state of every matching pass
    stale,      \* users whose rows others wrote since the pass began
    house,      \* what left the users' accounts: fees, tax, market maker
    credited,   \* how many rewards were paid
    failures    \* how many passes a database error aborted

book == <<orders, placed>>
env  == <<company, now, credited>>
vars == <<user, portfolio, orders, placed, company, unsettled, now, pass, stale,
          house, credited, failures>>

OrderId == 1 .. MaxOrders
Market  == 0   \* the price column of a market order is NULL

Statuses == {"none", "pending", "partially_filled", "filled", "cancelled"}
OpenStatuses == {"pending", "partially_filled"}

-----------------------------------------------------------------------------
(* Arithmetic *)

\* numeric(20,2) rounding and ROUND_HALF_UP: n / d to the nearest integer,
\* halves away from zero, for d > 0.
Round(n, d) == IF n >= 0 THEN (2 * n + d) \div (2 * d)
                         ELSE - ((d - 2 * n) \div (2 * d))

LesserOf(a, b) == IF a <= b THEN a ELSE b

Fee(gross) == Round(gross * FeeNum, RateDen)
Tax(gross) == Round(gross * TaxNum, RateDen)

\* _trade_costs as used by the two sides of a fill.
Debit(q, p)    == q * p + Fee(q * p)
Proceeds(q, p) == q * p - Fee(q * p) - Tax(q * p)

\* is_price_within_band against price_band_bounds.
WithinBand(price, reference) ==
    /\ Round(reference * (RateDen - BandNum), RateDen) <= price
    /\ price <= Round(reference * (RateDen + BandNum), RateDen)

\* total_cost of create_order, over FreezeDen: the price a buy can be filled
\* at (a market order with its slippage buffer) plus the fee.
FreezeDen == RateDen * RateDen
FreezeNum(price, qty, current) ==
    IF price = Market
    THEN qty * current * (RateDen + SlipNum) * (RateDen + FeeNum)
    ELSE qty * price * RateDen * (RateDen + FeeNum)

RoundToTick(n, d)     == TickSize * Round(n, d * TickSize)
RoundDownToTick(n, d) == TickSize * (n \div (d * TickSize))

\* compute_fill_price: impact = min(min(q / depth, 1) * factor, max slippage).
MakerPrice(side, q, market) ==
    LET den    == Depth * RateDen
        impact == LesserOf(LesserOf(q, Depth) * ImpactNum, SlipNum * Depth)
    IN  RoundToTick(market * (IF side = "buy" THEN den + impact ELSE den - impact),
                    den)

-----------------------------------------------------------------------------
(* Orders *)

NoOrder == [user |-> "nobody", side |-> "none", price |-> 0, quantity |-> 0,
            filled |-> 0, frozen |-> 0, status |-> "none", version |-> 0]

Open(o)      == orders[o].status \in OpenStatuses
Remaining(o) == orders[o].quantity - orders[o].filled
IsMarket(o)  == orders[o].price = Market

Candidates(side, skip) ==
    {o \in OrderId \ skip : /\ orders[o].side = side
                            /\ Open(o)
                            /\ Remaining(o) > 0}

\* ORDER BY price DESC NULLS FIRST, created_at ASC
BuyBefore(a, b) ==
    LET pa == orders[a].price
        pb == orders[b].price
    IN  \/ pa = pb /\ a <= b
        \/ pa # pb /\ (pa = Market \/ (pb # Market /\ pa > pb))

\* ORDER BY price ASC NULLS FIRST, created_at ASC (the NULL price is 0 here)
SellBefore(a, b) ==
    \/ orders[a].price < orders[b].price
    \/ orders[a].price = orders[b].price /\ a <= b

Nobody == 0   \* scalar_one_or_none() returned no order

\* o is what _peek_best_buy, _peek_best_sell returns.
BestBuy(o, skip) ==
    IF o = Nobody THEN Candidates("buy", skip) = {}
    ELSE /\ o \in Candidates("buy", skip)
         /\ \A x \in Candidates("buy", skip) : BuyBefore(o, x)

BestSell(o, skip) ==
    IF o = Nobody THEN Candidates("sell", skip) = {}
    ELSE /\ o \in Candidates("sell", skip)
         /\ \A x \in Candidates("sell", skip) : SellBefore(o, x)

\* _price_crosses
Crosses(b, s) == \/ IsMarket(b)
                 \/ IsMarket(s)
                 \/ orders[b].price >= orders[s].price

\* Altered forms used to show that the properties can fail carry the name of
\* the definition they alter and of the mistake they make.
Marketable_LimitOnly(o, market) ==
    \/ orders[o].side = "buy"  /\ orders[o].price >= market /\ ~IsMarket(o)
    \/ orders[o].side = "sell" /\ orders[o].price <= market /\ ~IsMarket(o)

\* _is_marketable
Marketable(o, market) ==
    \/ IsMarket(o)
    \/ orders[o].side = "buy"  /\ orders[o].price >= market
    \/ orders[o].side = "sell" /\ orders[o].price <= market

OverCap_LimitOnly(b, p) == ~IsMarket(b) /\ p > orders[b].price

\* A buy may not be filled above its limit, nor a market buy above the cash
\* it froze per share without the fee buffer (_buy_max_fill_price).
OverCap(b, p) ==
    IF IsMarket(b)
    THEN /\ orders[b].frozen > 0
         /\ p * Remaining(b) * (RateDen + FeeNum) > orders[b].frozen * RateDen
    ELSE p > orders[b].price

\* The price of a user-to-user fill: of two limit orders the older one's.
PairPrice(b, s, market) ==
    CASE IsMarket(b) /\ IsMarket(s) -> market
      [] IsMarket(b) /\ ~IsMarket(s) -> orders[s].price
      [] ~IsMarket(b) /\ IsMarket(s) -> orders[b].price
      [] OTHER -> IF b < s THEN orders[b].price ELSE orders[s].price

\* The price of a fill against the market maker.
MakerBuyPrice(b, q, market) ==
    LET p == MakerPrice("buy", q, market)
    IN  CASE ~OverCap(b, p) -> p
          [] OverCap(b, p) /\ ~IsMarket(b) -> orders[b].price
          [] OTHER -> RoundDownToTick(orders[b].frozen * RateDen,
                                      Remaining(b) * (RateDen + FeeNum))

MakerSellPrice(s, q, market) ==
    LET p == MakerPrice("sell", q, market)
    IN  IF ~IsMarket(s) /\ p < orders[s].price THEN orders[s].price ELSE p

StatusAfter(o, q) ==
    IF orders[o].filled + q >= orders[o].quantity THEN "filled" ELSE "partially_filled"

-----------------------------------------------------------------------------
(* Rows after an update *)

\* Frozen cash given back in full.
Refunded(row, amount) == [row EXCEPT !.cash_balance = @ + amount,
                                     !.frozen_cash  = @ - amount]

Paid_NoFee(row, o, q, p) ==
    LET rest == Remaining(o)
        freed == q * orders[o].frozen
    IN  [row EXCEPT !.cash_balance = Round((@ - q * p) * rest + freed, rest),
                    !.frozen_cash  = Round(@ * rest - freed, rest)]

\* _apply_buy_fill: q of the Remaining(o) shares release their part of the
\* order's frozen cash, and the debit is taken from cash_balance.  The columns
\* start from their stored values: on whole cents, those of the session.
Paid(row, o, q, p) ==
    LET rest == Remaining(o)
        freed == q * orders[o].frozen   \* over rest
    IN  [row EXCEPT !.cash_balance = Round((@ - Debit(q, p)) * rest + freed, rest),
                    !.frozen_cash  = Round(@ * rest - freed, rest)]

BuyFilled_SameVersion(o, q) ==
    [orders[o] EXCEPT !.filled  = @ + q,
                      !.frozen  = Round(@ * (Remaining(o) - q), Remaining(o)),
                      !.status  = StatusAfter(o, q)]

BuyFilled(o, q) ==
    [orders[o] EXCEPT !.filled  = @ + q,
                      !.frozen  = Round(@ * (Remaining(o) - q), Remaining(o)),
                      !.status  = StatusAfter(o, q),
                      !.version = @ + 1]

SellFilled(o, q) ==
    [orders[o] EXCEPT !.filled  = @ + q,
                      !.status  = StatusAfter(o, q),
                      !.version = @ + 1]

Cancelled_KeepsFrozen(o) == [orders[o] EXCEPT !.status  = "cancelled",
                                              !.version = @ + 1]

Cancelled(o) == [orders[o] EXCEPT !.frozen  = 0,
                                  !.status  = "cancelled",
                                  !.version = @ + 1]

\* _apply_sell_fill: the proceeds settle later, the shares leave now.
Sold(row, q, p)      == [row EXCEPT !.settling_cash = @ + Proceeds(q, p)]

Delivered(holding, q) == [holding EXCEPT !.quantity        = @ - q,
                                         !.frozen_quantity = @ - q]

Received(holding, q) == [holding EXCEPT !.quantity = @ + q]

\* The guard of _apply_sell_fill.  That it always holds, so that the handlers
\* of InsufficientHoldingError are never reached, is the invariant SellsCovered.
CanDeliver(s, q) == /\ portfolio[orders[s].user].frozen_quantity >= q
                    /\ portfolio[orders[s].user].quantity >= q

\* The sell Transaction with its settles_at (settlement_deadline).
SellTransaction(s, q, p, simAt) ==
    [order |-> s, fill |-> orders[s].filled + q, user |-> orders[s].user,
     amount |-> Proceeds(q, p), settles_at |-> simAt + SettleTime]

-----------------------------------------------------------------------------
(* Sessions *)

IdlePass == [pc |-> "idle", stage |-> "book", skipBuy |-> {}, skipSell |-> {},
             liquidity |-> 0, market |-> 0, simAt |-> 0,
             buy |-> Nobody, buyVersion |-> 0, sell |-> Nobody, sellVersion |-> 0]

\* match_orders begins.  POST /orders runs it in its own session, where the
\* company is the row it read before it placed the order.
Started == [IdlePass EXCEPT !.pc = "peekBuy", !.liquidity = Depth,
                            !.market = company.current_price,
                            !.simAt = company.updated_at]

ThenMatches == \/ UNCHANGED pass   \* the request fails after its commit
               \/ \E p \in Pass : /\ pass[p].pc = "idle"
                                  /\ pass' = [pass EXCEPT ![p] = Started]

\* A transaction of the passes in "who", or of a request, wrote the account, the
\* holding or an order of these users.
Wrote(who, users) ==
    stale' = [p \in Pass |-> IF pass'[p].pc = "idle" THEN {}
                             ELSE IF p \in who THEN stale[p]
                             ELSE stale[p] \cup users]

-----------------------------------------------------------------------------
(* Requests: api/v1/trades.py.  A request whose session read a row before   *)
(* another transaction wrote it fails its version check and changes nothing. *)

\* enforce_cooldown; an expired cooldown is cleared on the way.
MayTrade(u) == user[u].cooldown_until <= now

Available_IgnoresFrozen(u) == portfolio[u].quantity

\* What a sell order may still freeze.
Available(u) == portfolio[u].quantity - portfolio[u].frozen_quantity

NewOrder(u, side, price, qty, frozenCash) ==
    [user |-> u, side |-> side, price |-> price, quantity |-> qty, filled |-> 0,
     frozen |-> frozenCash, status |-> "pending", version |-> 1]

\* create_order, side buy.  The balances are read under FOR UPDATE.  Here the
\* freeze is rounded at once; the code's session keeps it un-rounded.
PlaceBuy(u, price, qty) ==
    LET cost == FreezeNum(price, qty, company.current_price)   \* over FreezeDen
    IN  /\ placed < MaxOrders
        /\ MayTrade(u)
        /\ price # Market => WithinBand(price, company.current_price)
        /\ cost <= (user[u].cash_balance - user[u].frozen_cash) * FreezeDen
        /\ user' = [user EXCEPT
                       ![u].cash_balance = Round(@ * FreezeDen - cost, FreezeDen),
                       ![u].frozen_cash  = Round(@ * FreezeDen + cost, FreezeDen),
                       ![u].cooldown_until = 0]
        /\ placed' = placed + 1
        /\ orders' = [orders EXCEPT ![placed + 1] =
                         NewOrder(u, "buy", price, qty, Round(cost, FreezeDen))]
        /\ ThenMatches
        /\ Wrote({}, {u})
        /\ UNCHANGED <<portfolio, unsettled, house, failures, env>>

\* create_order, side sell: the shares are frozen on the portfolio row.
PlaceSell(u, price, qty) ==
    /\ placed < MaxOrders
    /\ MayTrade(u)
    /\ price # Market => WithinBand(price, company.current_price)
    /\ qty <= Available(u)
    /\ portfolio' = [portfolio EXCEPT ![u].frozen_quantity = @ + qty]
    /\ user' = [user EXCEPT ![u].cooldown_until = 0]
    /\ placed' = placed + 1
    /\ orders' = [orders EXCEPT ![placed + 1] = NewOrder(u, "sell", price, qty, 0)]
    /\ ThenMatches
    /\ Wrote({}, {u})
    /\ UNCHANGED <<unsettled, house, failures, env>>

\* cancel_order: what is still frozen goes back to its owner.
CancelOrder(o) ==
    LET u == orders[o].user
    IN  /\ Open(o)
        /\ \/ /\ orders[o].side = "buy"
              /\ user' = [user EXCEPT ![u] = Refunded(@, orders[o].frozen)]
              /\ UNCHANGED portfolio
           \/ /\ orders[o].side = "sell"
              /\ portfolio' = [portfolio EXCEPT ![u].frozen_quantity = @ - Remaining(o)]
              /\ UNCHANGED user
        /\ orders' = [orders EXCEPT ![o] = Cancelled(o)]
        /\ UNCHANGED <<placed, unsettled, pass, house, failures, env>>
        /\ Wrote({}, {u})

-----------------------------------------------------------------------------
(* Matching passes: match_orders and _fill_against_market *)

VersionOf(o) == IF o = Nobody THEN 0 ELSE orders[o].version

\* Back to the head of a loop of match_orders.
Looping(me, stage) == [me EXCEPT !.pc = "peekBuy", !.stage = stage,
                                 !.buy = Nobody,  !.buyVersion = 0,
                                 !.sell = Nobody, !.sellVersion = 0]

LeavingBook_Continues(me) == Looping(me, "book")

\* The user-to-user loop is over; the maker loop begins.
LeavingBook(me) == Looping(me, "maker")

\* After a fill of q: the loop stops when the liquidity is used up.
AfterFill(me, stage, q) ==
    IF me.liquidity - q <= 0
    THEN IdlePass
    ELSE Looping([me EXCEPT !.liquidity = @ - q], stage)

SkipBuy(me)  == [me EXCEPT !.skipBuy  = @ \cup {me.buy}]
SkipSell(me) == [me EXCEPT !.skipSell = @ \cup {me.sell}]
SkipPair(me) == SkipSell(SkipBuy(me))

Fresh_Unchecked(p) == pass[p].pc # "idle"

\* The rows peeked without a lock are the rows locked afterwards.  The session
\* does not refresh them (no populate_existing), so a row another transaction
\* wrote in between fails the version_id check of the flush.
Fresh(p) == /\ VersionOf(pass[p].buy) = pass[p].buyVersion
            /\ VersionOf(pass[p].sell) = pass[p].sellVersion

\* The market tick visits the companies that have an open order.
StartPass(p) ==
    /\ pass[p].pc = "idle"
    /\ \E o \in OrderId : Open(o)
    /\ pass' = [pass EXCEPT ![p] = Started]
    /\ UNCHANGED <<user, portfolio, book, unsettled, stale, house, failures, env>>

PeekBuy(p) ==
    /\ pass[p].pc = "peekBuy"
    /\ \E o \in 0 .. MaxOrders :
         /\ BestBuy(o, pass[p].skipBuy)
         /\ pass' = [pass EXCEPT ![p].pc = "peekSell",
                                ![p].buy = o, ![p].buyVersion = VersionOf(o)]
    /\ UNCHANGED <<user, portfolio, book, unsettled, house, failures, env>>
    /\ Wrote({p}, {})

\* The user-to-user loop: go on to lock the pair, or leave for the maker loop.
PeekSell(p) ==
    LET b == pass[p].buy
        Meets(s) == b # Nobody /\ s # Nobody /\ Crosses(b, s)
    IN  /\ pass[p].pc = "peekSell" /\ pass[p].stage = "book"
        /\ \E s \in 0 .. MaxOrders :
             /\ BestSell(s, pass[p].skipSell)
             /\ \/ /\ Meets(s)
                   /\ pass' = [pass EXCEPT ![p].pc = "pair", ![p].sell = s,
                                           ![p].sellVersion = VersionOf(s)]
                \/ /\ ~Meets(s)
                   /\ pass' = [pass EXCEPT ![p] = LeavingBook(@)]
        /\ UNCHANGED <<user, portfolio, book, unsettled, house, failures, env>>
        /\ Wrote({p}, {})

\* The maker loop: the best buy if it is marketable, else the best sell.
PeekMaker(p) ==
    LET Goes(o) == o # Nobody /\ Marketable(o, pass[p].market)
        b == pass[p].buy
    IN  /\ pass[p].pc = "peekSell" /\ pass[p].stage = "maker"
        /\ \E s \in 0 .. MaxOrders :
             /\ BestSell(s, pass[p].skipSell)
             /\ \/ /\ Goes(b)
                   /\ pass' = [pass EXCEPT ![p].pc = "makerBuy"]
                \/ /\ ~Goes(b) /\ Goes(s)
                   /\ pass' = [pass EXCEPT ![p].pc = "makerSell",
                                           ![p].buy = Nobody, ![p].buyVersion = 0,
                                           ![p].sell = s,
                                           ![p].sellVersion = VersionOf(s)]
                \/ /\ ~Goes(b) /\ ~Goes(s)
                   /\ pass' = [pass EXCEPT ![p] = IdlePass]
        /\ UNCHANGED <<user, portfolio, book, unsettled, house, failures, env>>
        /\ Wrote({p}, {})

SelfTrading(p) == orders[pass[p].buy].user = orders[pass[p].sell].user

\* Both orders of the pair belong to one user: cancel both.
CancelSelfTrade(p) ==
    LET b == pass[p].buy
        s == pass[p].sell
        u == orders[b].user
    IN  /\ pass[p].pc = "pair" /\ Fresh(p) /\ SelfTrading(p)
        /\ user' = [user EXCEPT ![u] = Refunded(@, orders[b].frozen)]
        /\ portfolio' = [portfolio EXCEPT ![u].frozen_quantity = @ - Remaining(s)]
        /\ orders' = [orders EXCEPT ![b] = Cancelled(b), ![s] = Cancelled(s)]
        /\ pass' = [pass EXCEPT ![p] = Looping(SkipPair(@), "book")]
        /\ Wrote({p}, {u})
        /\ UNCHANGED <<placed, unsettled, house, failures, env>>

PairQuantity(p) ==
    LesserOf(LesserOf(Remaining(pass[p].buy), Remaining(pass[p].sell)),
             pass[p].liquidity)

PairFillPrice(p) == PairPrice(pass[p].buy, pass[p].sell, pass[p].market)

\* The session may still hold rows it read before another transaction wrote
\* them: those of the users in stale, if a local of the pass keeps them alive.
Owner(o) == orders[o].user
HoldsStale(p) == \E o \in {pass[p].buy, pass[p].sell} \ {Nobody} : Owner(o) \in stale[p]

\* The price is above what the buy froze: leave the user-to-user loop.  The
\* test reads the peeked row, so a stale market buy may also end up here.
LeaveBook(p) ==
    /\ pass[p].pc = "pair" /\ ~SelfTrading(p)
    /\ \/ OverCap(pass[p].buy, PairFillPrice(p))
       \/ IsMarket(pass[p].buy) /\ (~Fresh(p) \/ HoldsStale(p))
    /\ pass' = [pass EXCEPT ![p] = LeavingBook(@)]
    /\ UNCHANGED <<user, portfolio, book, unsettled, house, failures, env>>
    /\ Wrote({p}, {})

\* A user-to-user fill.
FillPair(p) ==
    LET b == pass[p].buy
        s == pass[p].sell
        q == PairQuantity(p)
        price == PairFillPrice(p)
        buyer == orders[b].user
        seller == orders[s].user
    IN  /\ pass[p].pc = "pair" /\ Fresh(p) /\ ~SelfTrading(p)
        /\ ~OverCap(b, price)
        /\ CanDeliver(s, q)
        /\ user' = [user EXCEPT ![buyer] = Paid(@, b, q, price),
                                ![seller] = Sold(@, q, price)]
        /\ portfolio' = [portfolio EXCEPT ![buyer] = Received(@, q),
                                          ![seller] = Delivered(@, q)]
        /\ orders' = [orders EXCEPT ![b] = BuyFilled(b, q), ![s] = SellFilled(s, q)]
        /\ unsettled' = unsettled \cup {SellTransaction(s, q, price, pass[p].simAt)}
        /\ house' = [house EXCEPT !.cash = @ + Debit(q, price) - Proceeds(q, price)]
        /\ pass' = [pass EXCEPT ![p] = AfterFill(@, "book", q)]
        /\ Wrote({p}, {buyer, seller})
        /\ UNCHANGED <<placed, failures, env>>

\* A buy filled by the market maker.
FillMakerBuy(p) ==
    LET b == pass[p].buy
        q == LesserOf(Remaining(b), pass[p].liquidity)
        price == MakerBuyPrice(b, q, pass[p].market)
        u == orders[b].user
    IN  /\ pass[p].pc = "makerBuy" /\ Fresh(p)
        /\ user' = [user EXCEPT ![u] = Paid(@, b, q, price)]
        /\ portfolio' = [portfolio EXCEPT ![u] = Received(@, q)]
        /\ orders' = [orders EXCEPT ![b] = BuyFilled(b, q)]
        /\ house' = [house EXCEPT !.cash = @ + Debit(q, price), !.shares = @ - q]
        /\ pass' = [pass EXCEPT ![p] = AfterFill(SkipBuy(@), "maker", q)]
        /\ Wrote({p}, {u})
        /\ UNCHANGED <<placed, unsettled, failures, env>>

\* A sell filled by the market maker.
FillMakerSell(p) ==
    LET s == pass[p].sell
        q == LesserOf(Remaining(s), pass[p].liquidity)
        price == MakerSellPrice(s, q, pass[p].market)
        u == orders[s].user
    IN  /\ pass[p].pc = "makerSell" /\ Fresh(p)
        /\ CanDeliver(s, q)
        /\ user' = [user EXCEPT ![u] = Sold(@, q, price)]
        /\ portfolio' = [portfolio EXCEPT ![u] = Delivered(@, q)]
        /\ orders' = [orders EXCEPT ![s] = SellFilled(s, q)]
        /\ unsettled' = unsettled \cup {SellTransaction(s, q, price, pass[p].simAt)}
        /\ house' = [house EXCEPT !.cash = @ - Proceeds(q, price), !.shares = @ + q]
        /\ pass' = [pass EXCEPT ![p] = AfterFill(SkipSell(@), "maker", q)]
        /\ Wrote({p}, {u})
        /\ UNCHANGED <<placed, failures, env>>

\* StaleDataError: match_orders raises, and create_order or the tick logs it.
Raise(p) ==
    /\ pass[p].pc \in {"pair", "makerBuy", "makerSell"}
    /\ ~Fresh(p) \/ HoldsStale(p)
    /\ pass' = [pass EXCEPT ![p] = IdlePass]
    /\ UNCHANGED <<user, portfolio, book, unsettled, house, failures, env>>
    /\ Wrote({p}, {})

\* Any other database error: a lost connection, a deadlock victim.
Fail(p) ==
    /\ pass[p].pc # "idle"
    /\ failures < MaxFailures
    /\ failures' = failures + 1
    /\ pass' = [pass EXCEPT ![p] = IdlePass]
    /\ UNCHANGED <<user, portfolio, book, unsettled, house, env>>
    /\ Wrote({p}, {})

-----------------------------------------------------------------------------
(* Settlement, prices, credits and time *)

Amounts(sales) == SumFunction([t \in sales |-> t.amount])

DueTransactions == {t \in unsettled : t.settles_at <= now}

\* release_due: one transaction for everything that is due.
ReleaseDue ==
    LET Due(u) == Amounts({t \in DueTransactions : t.user = u})
        release == [u \in User |-> LesserOf(Due(u), user[u].settling_cash)]
    IN  /\ DueTransactions # {}
        /\ user' = [u \in User |->
                       [user[u] EXCEPT !.settling_cash = @ - release[u],
                                       !.cash_balance  = @ + release[u]]]
        /\ unsettled' = unsettled \ DueTransactions
        /\ UNCHANGED <<portfolio, book, pass, house, failures, env>>
        /\ Wrote({}, {t.user : t \in DueTransactions})

\* update_all_prices, for this company.
UpdatePrice(price) ==
    /\ company' = [current_price |-> price, updated_at |-> now]
    /\ company' # company
    /\ UNCHANGED <<user, portfolio, book, unsettled, pass, stale, house, failures,
                   now, credited>>

\* Cash other services credit under the user's row lock: challenge and task
\* rewards, dividends.
CreditCash(u, amount) ==
    /\ credited < MaxRewards
    /\ credited' = credited + 1
    /\ user' = [user EXCEPT ![u].cash_balance = @ + amount]
    /\ house' = [house EXCEPT !.cash = @ - amount]
    /\ UNCHANGED <<portfolio, book, unsettled, pass, failures, company, now>>
    /\ Wrote({}, {u})

Clock ==
    /\ now < MaxTime
    /\ now' = now + 1
    /\ UNCHANGED <<user, portfolio, book, unsettled, pass, stale, house, failures,
                   company, credited>>

-----------------------------------------------------------------------------
Init ==
    /\ user = [u \in User |-> [cash_balance |-> InitCash, frozen_cash |-> 0,
                               settling_cash |-> 0, cooldown_until |-> 0]]
    /\ portfolio = [u \in User |-> [quantity |-> InitShares, frozen_quantity |-> 0]]
    /\ orders = [o \in OrderId |-> NoOrder]
    /\ placed = 0
    /\ company \in [current_price : MarketPrices, updated_at : {0}]
    /\ unsettled = {}
    /\ now = 0
    /\ pass = [p \in Pass |-> IdlePass]
    /\ stale = [p \in Pass |-> {}]
    /\ house = [cash |-> 0, shares |-> 0]
    /\ credited = 0
    /\ failures = 0

PassStep(p) == \/ PeekBuy(p) \/ PeekSell(p) \/ PeekMaker(p)
               \/ CancelSelfTrade(p) \/ LeaveBook(p)
               \/ FillPair(p) \/ FillMakerBuy(p) \/ FillMakerSell(p)
               \/ Raise(p)

Place(u) == \E qty \in Quantities, price \in LimitPrices \cup {Market} :
               PlaceBuy(u, price, qty) \/ PlaceSell(u, price, qty)

Next == \/ \E u \in User : Place(u)
        \/ \E o \in OrderId : CancelOrder(o)
        \/ \E p \in Pass : StartPass(p) \/ PassStep(p) \/ Fail(p)
        \/ ReleaseDue
        \/ \E price \in MarketPrices : UpdatePrice(price)
        \/ \E u \in User, amount \in Rewards : CreditCash(u, amount)
        \/ Clock

Spec == Init /\ [][Next]_vars

\* A pass that has begun goes on: it only waits for the database.
PassFairness == \A p \in Pass : WF_vars(PassStep(p))

\* The market tick keeps starting passes for companies with open orders.
TickFairness == \A p \in Pass : WF_vars(StartPass(p))
=============================================================================
