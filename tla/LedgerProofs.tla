----------------------------- MODULE LedgerProofs -----------------------------
(***************************************************************************)
(* Proofs about the exchange, for any number of users, passes, orders and  *)
(* penalties.  What is proved of orders, shares and sales holds at any     *)
(* prices and rates; what is proved of the users' cash is stated where     *)
(* freezes are whole cents (WholeCents, WholeFreezes), since only there    *)
(* are the modelled cash columns those of the code.                        *)
(*                                                                         *)
(* The trading core first: the types, the life of an order, and that a     *)
(* final order never changes.  Its inductive invariant IInv adds           *)
(* PeeksTrusted to TypeOK and OrderLife: a pass acts on order rows it read *)
(* earlier, and only the version check ties what it knew of them to what   *)
(* they are now.                                                           *)
(*                                                                         *)
(* Then the books, with the penalties: what the accounts hold frozen and   *)
(* settling is what the orders and the sales say, no share is lost, nobody *)
(* but a buyer is taken below zero, every fill honours the limits of its   *)
(* orders and the money of everybody adds up.  The inductive invariant,    *)
(* LedgerInv, adds to IInv one statement for each book, as a sum over all  *)
(* orders or sales.                                                        *)
(* Each is kept by the few ways in which an action moves it, the effects   *)
(* PairTrade, MakerSells, MakerBuys, PairCancelled and Quiet and the       *)
(* requests: one lemma for each of them and each book (...Shares,          *)
(* ...Sales, ...Cash), and one for what they do to the money of everybody  *)
(* together (...Money).                                                    *)
(***************************************************************************)
EXTENDS TradingPenalty, TradingProperties, SumProofs, TLAPS

USE TradingAssumption DEF OrderId

IInv == TypeOK /\ OrderLife /\ PeeksTrusted

-----------------------------------------------------------------------------
(* Arithmetic *)

\* A product of positive numbers is positive.
LEMMA ProductPositive ==
    ASSUME NEW a \in Nat \ {0}, NEW b \in Nat \ {0}
    PROVE  a * b \in Nat \ {0}
  BY SMT

\* Rounding a fraction yields a whole number.
LEMMA RoundInt ==
    ASSUME NEW n \in Int, NEW d \in Nat \ {0}
    PROVE  Round(n, d) \in Int
  BY SMT DEF Round

\* Nothing rounds to nothing.
LEMMA RoundZero ==
    ASSUME NEW d \in Nat \ {0}
    PROVE  Round(0, d) = 0
<1>1. Round(0, d) = d \div (2 * d)  BY SMT DEF Round
<1>2. d \div (2 * d) = 0  BY SMT
<1>3. QED  BY <1>1, <1>2

\* The amounts of a fill are whole cents.
LEMMA AmountsInt ==
    ASSUME NEW q \in Int, NEW p \in Int
    PROVE  /\ Debit(q, p) \in Int
           /\ Proceeds(q, p) \in Int
<1>1. q * p \in Int  BY SMT
<1>2. Fee(q * p) \in Int
  <2>1. q * p * FeeNum \in Int  BY <1>1, SMT
  <2>2. QED  BY <2>1, RoundInt DEF Fee
<1>3. Tax(q * p) \in Int
  <2>1. q * p * TaxNum \in Int  BY <1>1, SMT
  <2>2. QED  BY <2>1, RoundInt DEF Tax
<1>4. QED  BY <1>1, <1>2, <1>3, SMT DEF Debit, Proceeds

\* The price of the market maker is a whole number of cents.
LEMMA MakerPriceInt ==
    ASSUME NEW side, NEW q \in Int, NEW market \in Int
    PROVE  MakerPrice(side, q, market) \in Int
<1> DEFINE den    == Depth * RateDen
           impact == LesserOf(LesserOf(q, Depth) * ImpactNum, SlipNum * Depth)
           n      == market * (IF side = "buy" THEN den + impact ELSE den - impact)
<1>1. den \in Nat \ {0}  BY ProductPositive
<1>2. impact \in Int
  <2>1. LesserOf(q, Depth) \in Int  BY DEF LesserOf
  <2>2. LesserOf(q, Depth) * ImpactNum \in Int  BY <2>1, SMT
  <2>3. SlipNum * Depth \in Int  BY SMT
  <2>4. QED  BY <2>2, <2>3 DEF LesserOf
<1>3. n \in Int
  <2>1. (IF side = "buy" THEN den + impact ELSE den - impact) \in Int
    BY <1>1, <1>2, SMT
  <2>2. QED  BY <2>1, SMT
<1>4. Round(n, den * TickSize) \in Int
  <2>1. den * TickSize \in Nat \ {0}  BY <1>1, ProductPositive
  <2>2. QED  BY <1>3, <2>1, RoundInt
<1>5. RoundToTick(n, den) \in Int  BY <1>4, SMT DEF RoundToTick
<1>6. QED  BY <1>5 DEF MakerPrice

\* A buy is filled by the market maker at a whole number of cents.
LEMMA MakerBuyPriceInt ==
    ASSUME TypeOK, NEW b \in OrderId, Remaining(b) > 0, NEW q \in Int,
           NEW market \in Int
    PROVE  MakerBuyPrice(b, q, market) \in Int
<1> DEFINE p == MakerPrice("buy", q, market)
           n == orders[b].frozen * RateDen
           d == Remaining(b) * (RateDen + FeeNum)
<1>1. p \in Int  BY MakerPriceInt
<1>2. orders[b].price \in Int /\ orders[b].frozen \in Int /\ Remaining(b) \in Nat \ {0}
  BY DEF TypeOK, OrderRows, Remaining
<1>3. RoundDownToTick(n, d) \in Int
  <2>1. n \in Int  BY <1>2, SMT
  <2>2. d \in Nat \ {0}  BY <1>2, ProductPositive
  <2>3. d * TickSize \in Nat \ {0}  BY <2>2, ProductPositive
  <2>4. n \div (d * TickSize) \in Int  BY <2>1, <2>3, SMT
  <2>5. QED  BY <2>4, SMT DEF RoundDownToTick
<1>4. MakerBuyPrice(b, q, market) \in {p, orders[b].price, RoundDownToTick(n, d)}
  <2>1. CASE ~OverCap(b, p)  BY <2>1 DEF MakerBuyPrice
  <2>2. CASE OverCap(b, p) /\ ~IsMarket(b)  BY <2>2 DEF MakerBuyPrice
  <2>3. CASE OverCap(b, p) /\ IsMarket(b)  BY <2>3 DEF MakerBuyPrice
  <2>4. QED  BY <2>1, <2>2, <2>3
<1>5. QED  BY <1>1, <1>2, <1>3, <1>4

\* A sell is filled by the market maker at a whole number of cents.
LEMMA MakerSellPriceInt ==
    ASSUME TypeOK, NEW s \in OrderId, NEW q \in Int, NEW market \in Int
    PROVE  MakerSellPrice(s, q, market) \in Int
<1>1. MakerPrice("sell", q, market) \in Int  BY MakerPriceInt
<1>2. orders[s].price \in Int  BY DEF TypeOK, OrderRows
<1>3. QED  BY <1>1, <1>2 DEF MakerSellPrice

\* Two users' orders are filled at a whole number of cents.
LEMMA PairPriceInt ==
    ASSUME TypeOK, NEW b \in OrderId, NEW s \in OrderId, NEW market \in Int
    PROVE  PairPrice(b, s, market) \in Int
<1>1. orders[b].price \in Int /\ orders[s].price \in Int  BY DEF TypeOK, OrderRows
<1>2. PairPrice(b, s, market) \in {market, orders[b].price, orders[s].price}
  <2>1. CASE IsMarket(b) /\ IsMarket(s)  BY <2>1 DEF PairPrice
  <2>2. CASE IsMarket(b) /\ ~IsMarket(s)  BY <2>2 DEF PairPrice
  <2>3. CASE ~IsMarket(b) /\ IsMarket(s)  BY <2>3 DEF PairPrice
  <2>4. CASE ~IsMarket(b) /\ ~IsMarket(s)  BY <2>4 DEF PairPrice
  <2>5. QED  BY <2>1, <2>2, <2>3, <2>4
<1>3. QED  BY <1>1, <1>2

-----------------------------------------------------------------------------
(* Rows *)

\* A row an action may write over order o: a version later, and still the row
\* of a sound order.
Rewritten(o, row) == /\ row \in OrderRows
                     /\ RowOK(row)
                     /\ row.status # "none"
                     /\ row.version > orders[o].version

\* The columns an action writes on an order keep their types.
LEMMA OrderRowType ==
    ASSUME NEW row \in OrderRows, NEW filled \in Nat, NEW frozen \in Int,
           NEW status \in Statuses, NEW version \in Nat
    PROVE  [row EXCEPT !.filled = filled, !.frozen = frozen,
                       !.status = status, !.version = version] \in OrderRows
  BY DEF OrderRows

\* What a cancellation writes on an order keeps the types.
LEMMA CancelRowType ==
    ASSUME NEW row \in OrderRows, NEW frozen \in Int,
           NEW status \in Statuses, NEW version \in Nat
    PROVE  [row EXCEPT !.frozen = frozen,
                       !.status = status, !.version = version] \in OrderRows
  BY DEF OrderRows

\* What the fill of a sell writes on an order keeps the types.
LEMMA SellRowType ==
    ASSUME NEW row \in OrderRows, NEW filled \in Nat,
           NEW status \in Statuses, NEW version \in Nat
    PROVE  [row EXCEPT !.filled = filled,
                       !.status = status, !.version = version] \in OrderRows
  BY DEF OrderRows

\* A buy that is filled by what it still asks for, or less, stays sound.
LEMMA BuyFilledRewrites ==
    ASSUME TypeOK, OrderLife, NEW o \in OrderId, Open(o), orders[o].side = "buy",
           NEW q \in 1 .. Remaining(o)
    PROVE  Rewritten(o, BuyFilled(o, q))
<1> DEFINE row == BuyFilled(o, q)
           rest == Remaining(o)
<1>1. /\ orders[o] \in OrderRows
      /\ RowOK(orders[o])
      /\ orders[o].status \in OpenStatuses
  BY DEF TypeOK, OrderLife, Open
<1>2. /\ rest \in Nat \ {0}
      /\ q \in Nat \ {0}
      /\ orders[o].filled + q \in Nat
      /\ orders[o].filled + q <= orders[o].quantity
  BY <1>1 DEF RowOK, OpenStatuses, OrderRows, Remaining
<1>3. Round(orders[o].frozen * (rest - q), rest) \in Int
  <2>1. orders[o].frozen \in Int  BY <1>1 DEF OrderRows
  <2>2. orders[o].frozen * (rest - q) \in Int  BY <1>2, <2>1, SMT
  <2>3. QED  BY <1>2, <2>2, RoundInt
<1>4. StatusAfter(o, q) \in {"filled", "partially_filled"}
  BY DEF StatusAfter
<1>5. /\ row.user = orders[o].user
      /\ row.side = orders[o].side
      /\ row.price = orders[o].price
      /\ row.quantity = orders[o].quantity
      /\ row.filled = orders[o].filled + q
      /\ row.frozen = Round(orders[o].frozen * (rest - q), rest)
      /\ row.status = StatusAfter(o, q)
      /\ row.version = orders[o].version + 1
  BY <1>1 DEF BuyFilled, OrderRows
<1>6. row \in OrderRows
  <2>1. orders[o].version + 1 \in Nat  BY <1>1 DEF OrderRows
  <2>2. StatusAfter(o, q) \in Statuses  BY <1>4 DEF Statuses
  <2>3. QED  BY <1>1, <1>2, <1>3, <2>1, <2>2, OrderRowType DEF BuyFilled
<1>7. row.status = "filled" => row.frozen = 0
  <2>1. SUFFICES ASSUME row.status = "filled" PROVE row.frozen = 0  OBVIOUS
  <2>2. orders[o].filled + q = orders[o].quantity
    BY <1>1, <1>2, <1>5, <2>1 DEF StatusAfter, OrderRows
  <2>3. rest - q = 0  BY <1>1, <1>2, <2>2 DEF Remaining, OrderRows
  <2>4. orders[o].frozen * (rest - q) = 0
    <3>1. orders[o].frozen \in Int  BY <1>1 DEF OrderRows
    <3>2. QED  BY <2>3, <3>1, SMT
  <2>5. QED  BY <1>2, <1>5, <2>4, RoundZero
<1>8. RowOK(row)
  <2>1. /\ row.user \in User /\ row.side = "buy" /\ row.quantity > 0
        /\ row.filled <= row.quantity
        /\ row.filled \in Nat \ {0} /\ row.quantity \in Nat
    BY <1>1, <1>2, <1>5 DEF RowOK, OpenStatuses, OrderRows
  <2>2. row.filled < row.quantity <=> row.status = "partially_filled"
    BY <1>4, <1>5, <2>1 DEF StatusAfter
  <2> HIDE DEF row
  <2>3. row.status \in {"filled", "partially_filled"}  BY <1>4, <1>5
  <2>4. QED  BY <1>7, <2>1, <2>2, <2>3 DEF RowOK
<1>9. QED  BY <1>1, <1>4, <1>5, <1>6, <1>8 DEF Rewritten, OrderRows

\* So does a sell.
LEMMA SellFilledRewrites ==
    ASSUME TypeOK, OrderLife, NEW o \in OrderId, Open(o), orders[o].side = "sell",
           NEW q \in 1 .. Remaining(o)
    PROVE  Rewritten(o, SellFilled(o, q))
<1> DEFINE row == SellFilled(o, q)
<1>1. /\ orders[o] \in OrderRows
      /\ RowOK(orders[o])
      /\ orders[o].status \in OpenStatuses
  BY DEF TypeOK, OrderLife, Open
<1>2. /\ q \in Nat \ {0}
      /\ orders[o].filled + q \in Nat
      /\ orders[o].filled + q <= orders[o].quantity
  BY <1>1 DEF RowOK, OpenStatuses, OrderRows, Remaining
<1>3. /\ row.user = orders[o].user
      /\ row.side = orders[o].side
      /\ row.price = orders[o].price
      /\ row.quantity = orders[o].quantity
      /\ row.filled = orders[o].filled + q
      /\ row.frozen = orders[o].frozen
      /\ row.status = StatusAfter(o, q)
      /\ row.version = orders[o].version + 1
  BY <1>1 DEF SellFilled, OrderRows
<1>4. StatusAfter(o, q) \in {"filled", "partially_filled"}
  BY DEF StatusAfter
<1>5. row \in OrderRows
  <2>1. orders[o].version + 1 \in Nat  BY <1>1 DEF OrderRows
  <2>2. StatusAfter(o, q) \in Statuses  BY <1>4 DEF Statuses
  <2>3. QED  BY <1>1, <1>2, <2>1, <2>2, SellRowType DEF SellFilled
<1>6. RowOK(row)
  BY <1>1, <1>2, <1>3, <1>4 DEF RowOK, StatusAfter, OpenStatuses, OrderRows
<1>7. QED  BY <1>1, <1>3, <1>4, <1>5, <1>6 DEF Rewritten, OrderRows

\* A cancelled order is sound.
LEMMA CancelledRewrites ==
    ASSUME TypeOK, OrderLife, NEW o \in OrderId, Open(o)
    PROVE  Rewritten(o, Cancelled(o))
<1> DEFINE row == Cancelled(o)
<1>1. /\ orders[o] \in OrderRows
      /\ RowOK(orders[o])
      /\ orders[o].status \in OpenStatuses
  BY DEF TypeOK, OrderLife, Open
<1>2. /\ row.user = orders[o].user
      /\ row.side = orders[o].side
      /\ row.price = orders[o].price
      /\ row.quantity = orders[o].quantity
      /\ row.filled = orders[o].filled
      /\ row.frozen = 0
      /\ row.status = "cancelled"
      /\ row.version = orders[o].version + 1
  BY <1>1 DEF Cancelled, OrderRows
<1>3. row \in OrderRows
  <2>1. orders[o].version + 1 \in Nat  BY <1>1 DEF OrderRows
  <2>2. 0 \in Int /\ "cancelled" \in Statuses  BY DEF Statuses
  <2>3. QED  BY <1>1, <2>1, <2>2, CancelRowType DEF Cancelled
<1>4. RowOK(row)
  BY <1>1, <1>2 DEF RowOK, OpenStatuses, OrderRows
<1>5. QED  BY <1>1, <1>2, <1>3, <1>4 DEF Rewritten, OrderRows

\* Paying a fill keeps the types of the account.
LEMMA PaidType ==
    ASSUME TypeOK, NEW row \in UserRows, NEW o \in OrderId, Remaining(o) > 0,
           NEW q \in Int, NEW p \in Int
    PROVE  Paid(row, o, q, p) \in UserRows
<1> DEFINE rest  == Remaining(o)
           freed == q * orders[o].frozen
           cash  == Round((row.cash_balance - Debit(q, p)) * rest + freed, rest)
           froze == Round(row.frozen_cash * rest - freed, rest)
<1>1. rest \in Nat \ {0} /\ orders[o].frozen \in Int
  BY DEF TypeOK, OrderRows, Remaining
<1>2. freed \in Int  BY <1>1, SMT
<1>3. cash \in Int
  <2>1. Debit(q, p) \in Int  BY AmountsInt
  <2>2. row.cash_balance - Debit(q, p) \in Int  BY <2>1 DEF UserRows
  <2>3. (row.cash_balance - Debit(q, p)) * rest + freed \in Int
    BY <1>1, <1>2, <2>2, SMT
  <2>4. QED  BY <1>1, <2>3, RoundInt
<1>4. froze \in Int
  <2>1. row.frozen_cash \in Int  BY DEF UserRows
  <2>2. row.frozen_cash * rest - freed \in Int  BY <1>1, <1>2, <2>1, SMT
  <2>3. QED  BY <1>1, <2>2, RoundInt
<1>5. Paid(row, o, q, p) = [row EXCEPT !.cash_balance = cash, !.frozen_cash = froze]
  BY DEF Paid
<1> HIDE DEF cash, froze
<1>6. QED  BY <1>3, <1>4, <1>5 DEF UserRows

\* So does crediting a sale.
LEMMA SoldType ==
    ASSUME NEW row \in UserRows, NEW q \in Int, NEW p \in Int
    PROVE  Sold(row, q, p) \in UserRows
<1>1. Proceeds(q, p) \in Int  BY AmountsInt
<1>2. QED  BY <1>1 DEF Sold, UserRows

-----------------------------------------------------------------------------
(* Steps *)

\* What every action does to the orders: it leaves a row alone, rewrites it at
\* a later version, or creates the rows of new ids.
OrdersStep ==
    /\ placed' \in placed .. MaxOrders
    /\ orders' \in [OrderId -> OrderRows]
    /\ \A o \in OrderId :
         \/ orders'[o] = orders[o] /\ (o <= placed \/ o > placed')
         \/ /\ o <= placed'
            /\ orders'[o].status # "none"
            /\ RowOK(orders'[o])
            /\ o <= placed => orders'[o].version > orders[o].version

\* A sound step of the book keeps the types of its rows.
LEMMA OrdersStepType ==
    ASSUME TypeOK, OrdersStep
    PROVE  placed' \in 0 .. MaxOrders /\ orders' \in [OrderId -> OrderRows]
  BY DEF TypeOK, OrdersStep

\* Such a step keeps the life of every order.
LEMMA OrdersStepLife ==
    ASSUME TypeOK, OrderLife, OrdersStep
    PROVE  OrderLife'
<1> SUFFICES ASSUME NEW o \in OrderId
             PROVE  /\ orders'[o].status = "none" <=> o > placed'
                    /\ RowOK(orders'[o])
  BY DEF OrderLife
<1>1. placed \in Nat /\ placed' \in Nat /\ placed <= placed'
  BY DEF OrdersStep, TypeOK
<1>2. QED  BY <1>1 DEF OrdersStep, OrderLife

\* What a pass knew of an order is still true of it.
LEMMA OrdersStepKnown ==
    ASSUME TypeOK, OrdersStep, NEW o \in 0 .. MaxOrders, NEW v \in Nat, NEW side,
           Known(o, v, side)
    PROVE  Known(o, v, side)'
<1>1. /\ o \in 1 .. placed
      /\ o \in OrderId
      /\ placed \in Nat /\ placed' \in Nat /\ placed <= placed'
      /\ orders[o].version \in Nat /\ orders'[o].version \in Nat
  BY DEF Known, OrdersStep, TypeOK, OrderRows
<1>2. CASE orders'[o] = orders[o]
  BY <1>1, <1>2 DEF Known, Open, Remaining
<1>3. CASE orders'[o].version > orders[o].version
  BY <1>1, <1>3 DEF Known
<1>4. QED  BY <1>1, <1>2, <1>3 DEF OrdersStep

\* A step that does not touch the passes keeps what they know.
LEMMA PassesUnchanged ==
    ASSUME TypeOK, PeeksTrusted, OrdersStep, UNCHANGED pass
    PROVE  PeeksTrusted'
<1> SUFFICES ASSUME NEW p \in Pass  PROVE Trusts(pass[p])'
  BY DEF PeeksTrusted
<1>1. pass'[p] = pass[p] /\ pass[p] \in PassRows /\ Trusts(pass[p])
  BY DEF TypeOK, PeeksTrusted
<1> DEFINE me == pass[p]
<1>2. me.buy # Nobody => Known(me.buy, me.buyVersion, "buy")'
  BY <1>1, OrdersStepKnown DEF Trusts, PassRows
<1>3. me.sell # Nobody => Known(me.sell, me.sellVersion, "sell")'
  BY <1>1, OrdersStepKnown DEF Trusts, PassRows
<1>4. QED  BY <1>1, <1>2, <1>3 DEF Trusts

\* A pass may move on to any local state that its peeks justify.
LEMMA PassMoves ==
    ASSUME TypeOK, PeeksTrusted, OrdersStep, NEW p \in Pass,
           NEW me \in PassRows, Trusts(me), pass' = [pass EXCEPT ![p] = me]
    PROVE  pass' \in [Pass -> PassRows] /\ PeeksTrusted'
<1>1. pass' \in [Pass -> PassRows]  BY DEF TypeOK
<1>2. ASSUME NEW r \in Pass  PROVE Trusts(pass[r])'
  <2> DEFINE it == IF r = p THEN me ELSE pass[r]
  <2>1. pass'[r] = it /\ it \in PassRows /\ Trusts(it)
    BY DEF TypeOK, PeeksTrusted
  <2> HIDE DEF it
  <2>2. pass'[r].buy # Nobody => Known(pass[r].buy, pass[r].buyVersion, "buy")'
    BY <2>1, OrdersStepKnown DEF Trusts, PassRows
  <2>3. pass'[r].sell # Nobody => Known(pass[r].sell, pass[r].sellVersion, "sell")'
    BY <2>1, OrdersStepKnown DEF Trusts, PassRows
  <2>4. QED  BY <2>1, <2>2, <2>3 DEF Trusts
<1>3. QED  BY <1>1, <1>2 DEF PeeksTrusted

\* An idle pass knows nothing.
LEMMA IdleMoves == IdlePass \in PassRows /\ Trusts(IdlePass)
  BY DEF IdlePass, PassRows, Trusts, Nobody

\* A pass back at the head of a loop is a row of PassRows.
LEMMA LoopRowType ==
    ASSUME NEW me \in PassRows, NEW stage \in {"book", "maker"},
           NEW buy \in 0 .. MaxOrders, NEW buyVersion \in Nat,
           NEW sell \in 0 .. MaxOrders, NEW sellVersion \in Nat
    PROVE  [me EXCEPT !.pc = "peekBuy", !.stage = stage,
                      !.buy = buy,  !.buyVersion = buyVersion,
                      !.sell = sell, !.sellVersion = sellVersion] \in PassRows
  BY DEF PassRows

\* Nor does a pass at the head of a loop.
LEMMA LoopingMoves ==
    ASSUME NEW me \in PassRows, me.liquidity > 0, NEW stage \in {"book", "maker"}
    PROVE  Looping(me, stage) \in PassRows /\ Trusts(Looping(me, stage))
<1>1. Looping(me, stage) \in PassRows
  <2>1. 0 \in 0 .. MaxOrders /\ 0 \in Nat  OBVIOUS
  <2>2. QED  BY <2>1, LoopRowType DEF Looping, Nobody
<1>2. /\ Looping(me, stage).pc = "peekBuy"
      /\ Looping(me, stage).liquidity = me.liquidity
      /\ Looping(me, stage).buy = Nobody
      /\ Looping(me, stage).sell = Nobody
  BY DEF Looping, PassRows
<1>3. QED  BY <1>1, <1>2 DEF Trusts

\* A pass that fills goes on only with liquidity.
LEMMA AfterFillMoves ==
    ASSUME NEW me \in PassRows, NEW q \in Nat, NEW stage \in {"book", "maker"}
    PROVE  AfterFill(me, stage, q) \in PassRows /\ Trusts(AfterFill(me, stage, q))
<1>1. CASE me.liquidity - q <= 0
  BY <1>1, IdleMoves DEF AfterFill
<1>2. CASE ~(me.liquidity - q <= 0)
  <2> DEFINE less == [me EXCEPT !.liquidity = @ - q]
  <2>1. less \in PassRows /\ less.liquidity > 0  BY <1>2 DEF PassRows
  <2>2. AfterFill(me, stage, q) = Looping(less, stage)  BY <1>2 DEF AfterFill
  <2> HIDE DEF less
  <2>3. QED  BY <2>1, <2>2, LoopingMoves
<1>3. QED  BY <1>1, <1>2

\* A pass that begins is a row of PassRows.
LEMMA StartRowType ==
    ASSUME NEW row \in PassRows, NEW liquidity \in 0 .. Depth, NEW market \in Nat,
           NEW simAt \in Nat
    PROVE  [row EXCEPT !.pc = "peekBuy", !.liquidity = liquidity,
                       !.market = market, !.simAt = simAt] \in PassRows
  BY DEF PassRows

\* A pass begins with liquidity and knows nothing.
LEMMA StartedMoves ==
    ASSUME TypeOK
    PROVE  Started \in PassRows /\ Trusts(Started)
<1>1. company.current_price \in Nat /\ company.updated_at \in Nat  BY DEF TypeOK
<1>2. Started \in PassRows
  <2>1. IdlePass \in PassRows /\ Depth \in 0 .. Depth  BY IdleMoves
  <2>2. QED  BY <1>1, <2>1, StartRowType DEF Started
<1>3. /\ Started.pc = "peekBuy" /\ Started.liquidity = Depth
      /\ Started.buy = Nobody /\ Started.sell = Nobody
  BY DEF Started, IdlePass
<1>4. Depth > 0  OBVIOUS
<1>5. QED  BY <1>2, <1>3, <1>4 DEF Trusts

\* A request may start a pass.
LEMMA MatchesMoves ==
    ASSUME TypeOK, PeeksTrusted, OrdersStep, ThenMatches
    PROVE  pass' \in [Pass -> PassRows] /\ PeeksTrusted'
<1>1. CASE UNCHANGED pass  BY <1>1, PassesUnchanged DEF TypeOK
<1>2. CASE \E p \in Pass : pass' = [pass EXCEPT ![p] = Started]
  BY <1>2, StartedMoves, PassMoves
<1>3. QED  BY <1>1, <1>2 DEF ThenMatches

\* Only users are ever stale.
LEMMA WroteType ==
    ASSUME TypeOK, NEW who, NEW users \in SUBSET User, Wrote(who, users)
    PROVE  stale' \in [Pass -> SUBSET User]
  BY DEF TypeOK, Wrote

-----------------------------------------------------------------------------
(* Requests *)

\* A new order is sound, whatever it froze.
LEMMA NewOrderSound ==
    ASSUME NEW u \in User, NEW side \in {"buy", "sell"}, NEW price \in Nat,
           NEW qty \in Nat \ {0}, NEW frozen \in Int, side = "sell" => frozen = 0
    PROVE  /\ NewOrder(u, side, price, qty, frozen) \in OrderRows
           /\ NewOrder(u, side, price, qty, frozen).status # "none"
           /\ RowOK(NewOrder(u, side, price, qty, frozen))
  BY DEF NewOrder, OrderRows, Statuses, RowOK

\* Appending an order is a step of the book.
LEMMA PlacementStep ==
    ASSUME TypeOK, OrderLife, placed < MaxOrders, placed' = placed + 1,
           NEW row \in OrderRows, row.status # "none", RowOK(row),
           orders' = [orders EXCEPT ![placed + 1] = row]
    PROVE  OrdersStep
<1>1. placed \in Nat /\ placed + 1 \in OrderId  BY DEF TypeOK
<1>2. orders' \in [OrderId -> OrderRows]  BY <1>1 DEF TypeOK
<1>3. ASSUME NEW o \in OrderId
      PROVE  \/ orders'[o] = orders[o] /\ (o <= placed \/ o > placed')
             \/ /\ o <= placed'
                /\ orders'[o].status # "none"
                /\ RowOK(orders'[o])
                /\ o <= placed => orders'[o].version > orders[o].version
  <2>1. CASE o = placed + 1  BY <1>1, <2>1 DEF TypeOK
  <2>2. CASE o # placed + 1  BY <1>1, <2>2 DEF TypeOK
  <2>3. QED  BY <2>1, <2>2
<1>4. QED  BY <1>1, <1>2, <1>3 DEF OrdersStep

\* The cost of a buy is a whole number of fractions of a cent.
LEMMA FreezeNumInt ==
    ASSUME NEW price \in Nat, NEW qty \in Nat, NEW current \in Nat
    PROVE  FreezeNum(price, qty, current) \in Int /\ FreezeDen \in Nat \ {0}
<1>1. FreezeDen \in Nat \ {0}  BY ProductPositive DEF FreezeDen
<1>2. qty * current * (RateDen + SlipNum) * (RateDen + FeeNum) \in Int
  <2>1. qty * current \in Int  BY SMT
  <2>2. qty * current * (RateDen + SlipNum) \in Int  BY <2>1, SMT
  <2>3. QED  BY <2>2, SMT
<1>3. qty * price * RateDen * (RateDen + FeeNum) \in Int
  <2>1. qty * price \in Int  BY SMT
  <2>2. qty * price * RateDen \in Int  BY <2>1, SMT
  <2>3. QED  BY <2>2, SMT
<1>4. QED  BY <1>1, <1>2, <1>3 DEF FreezeNum

\* create_order, side buy, keeps the invariant.
LEMMA PlaceBuyInv ==
    ASSUME IInv, NEW u \in User, NEW price \in LimitPrices \cup {Market},
           NEW qty \in Quantities, PlaceBuy(u, price, qty)
    PROVE  IInv'
<1> DEFINE cost == FreezeNum(price, qty, company.current_price)
           row  == NewOrder(u, "buy", price, qty, Round(cost, FreezeDen))
<1> USE DEF IInv
<1>1. cost \in Int /\ FreezeDen \in Nat \ {0}
  BY FreezeNumInt DEF TypeOK, Market
<1>2. row \in OrderRows /\ row.status # "none" /\ RowOK(row)
  <2>1. Round(cost, FreezeDen) \in Int  BY <1>1, RoundInt
  <2>2. price \in Nat /\ qty \in Nat \ {0}  BY DEF Market
  <2>3. QED  BY <2>1, <2>2, NewOrderSound
<1>3. OrdersStep
  <2> HIDE DEF row
  <2>1. orders' = [orders EXCEPT ![placed + 1] = row]  BY DEF PlaceBuy, row
  <2>2. QED  BY <1>2, <2>1, PlacementStep DEF PlaceBuy
<1>4. pass' \in [Pass -> PassRows] /\ PeeksTrusted'
  BY <1>3, MatchesMoves DEF PlaceBuy
<1>5. user' \in [User -> UserRows]
  <2> DEFINE cash  == Round(user[u].cash_balance * FreezeDen - cost, FreezeDen)
             froze == Round(user[u].frozen_cash * FreezeDen + cost, FreezeDen)
  <2>1. user[u] \in UserRows  BY DEF TypeOK
  <2>2. cash \in Int
    <3>1. user[u].cash_balance * FreezeDen - cost \in Int
      BY <1>1, <2>1, SMT DEF UserRows
    <3>2. QED  BY <1>1, <3>1, RoundInt
  <2>3. froze \in Int
    <3>1. user[u].frozen_cash * FreezeDen + cost \in Int
      BY <1>1, <2>1, SMT DEF UserRows
    <3>2. QED  BY <1>1, <3>1, RoundInt
  <2>4. user' = [user EXCEPT ![u].cash_balance = cash, ![u].frozen_cash = froze,
                             ![u].cooldown_until = 0]
    BY DEF PlaceBuy
  <2> HIDE DEF cash, froze
  <2>5. QED  BY <2>1, <2>2, <2>3, <2>4 DEF TypeOK, UserRows
<1>6. TypeOK'
  <2>1. UNCHANGED <<portfolio, unsettled, house, failures, company, now, credited>>
    BY DEF PlaceBuy, env
  <2>2. stale' \in [Pass -> SUBSET User]  BY WroteType DEF PlaceBuy
  <2>3. QED  BY <1>3, <1>4, <1>5, <2>1, <2>2, OrdersStepType DEF TypeOK
<1>7. QED  BY <1>3, <1>4, <1>6, OrdersStepLife

\* create_order, side sell, keeps the invariant.
LEMMA PlaceSellInv ==
    ASSUME IInv, NEW u \in User, NEW price \in LimitPrices \cup {Market},
           NEW qty \in Quantities, PlaceSell(u, price, qty)
    PROVE  IInv'
<1> DEFINE row == NewOrder(u, "sell", price, qty, 0)
<1> USE DEF IInv
<1>1. row \in OrderRows /\ row.status # "none" /\ RowOK(row)
  <2>1. price \in Nat /\ qty \in Nat \ {0} /\ 0 \in Int  BY DEF Market
  <2>2. QED  BY <2>1, NewOrderSound
<1>2. OrdersStep
  <2> HIDE DEF row
  <2>1. orders' = [orders EXCEPT ![placed + 1] = row]  BY DEF PlaceSell, row
  <2>2. QED  BY <1>1, <2>1, PlacementStep DEF PlaceSell
<1>3. pass' \in [Pass -> PassRows] /\ PeeksTrusted'
  BY <1>2, MatchesMoves DEF PlaceSell
<1>4. user' \in [User -> UserRows]
  <2>1. user' = [user EXCEPT ![u].cooldown_until = 0]  BY DEF PlaceSell
  <2>2. user[u] \in UserRows  BY DEF TypeOK
  <2>3. QED  BY <2>1, <2>2 DEF TypeOK, UserRows
<1>5. portfolio' \in [User -> PortfolioRows]
  <2>1. portfolio' = [portfolio EXCEPT ![u].frozen_quantity = @ + qty]
    BY DEF PlaceSell
  <2>2. portfolio[u] \in PortfolioRows  BY DEF TypeOK
  <2>3. portfolio[u].frozen_quantity + qty \in Int
    <3>1. qty \in Int  OBVIOUS
    <3>2. QED  BY <2>2, <3>1 DEF PortfolioRows
  <2>4. QED  BY <2>1, <2>2, <2>3 DEF TypeOK, PortfolioRows
<1>6. TypeOK'
  <2>1. UNCHANGED <<unsettled, house, failures, company, now, credited>>
    BY DEF PlaceSell, env
  <2>2. stale' \in [Pass -> SUBSET User]  BY WroteType DEF PlaceSell
  <2>3. QED  BY <1>2, <1>3, <1>4, <1>5, <2>1, <2>2, OrdersStepType DEF TypeOK
<1>7. QED  BY <1>2, <1>3, <1>6, OrdersStepLife

\* An order that is not final has an owner.
LEMMA OpenOrder ==
    ASSUME TypeOK, OrderLife, NEW o \in OrderId, Open(o)
    PROVE  /\ o <= placed
           /\ orders[o] \in OrderRows
           /\ orders[o].user \in User
           /\ orders[o].frozen \in Int
           /\ Remaining(o) \in Int
<1>1. orders[o] \in OrderRows /\ placed \in Nat  BY DEF TypeOK
<1>2. orders[o].status # "none" /\ RowOK(orders[o])
  BY DEF Open, OpenStatuses, OrderLife
<1>3. o <= placed  BY <1>1, <1>2 DEF OrderLife
<1>4. QED  BY <1>1, <1>2, <1>3 DEF RowOK, OrderRows, Remaining

\* Rewriting one open order is a step of the book.
LEMMA RewriteStep ==
    ASSUME TypeOK, OrderLife, NEW o \in OrderId, Open(o), NEW row, Rewritten(o, row),
           orders' = [orders EXCEPT ![o] = row], placed' = placed
    PROVE  OrdersStep
<1>1. o <= placed /\ placed \in 0 .. MaxOrders  BY OpenOrder DEF TypeOK
<1>2. orders' \in [OrderId -> OrderRows]  BY DEF TypeOK, Rewritten
<1>3. ASSUME NEW x \in OrderId
      PROVE  \/ orders'[x] = orders[x] /\ (x <= placed \/ x > placed')
             \/ /\ x <= placed'
                /\ orders'[x].status # "none"
                /\ RowOK(orders'[x])
                /\ x <= placed => orders'[x].version > orders[x].version
  <2>1. CASE x = o  BY <1>1, <2>1 DEF TypeOK, Rewritten
  <2>2. CASE x # o  BY <1>1, <2>2 DEF TypeOK
  <2>3. QED  BY <2>1, <2>2
<1>4. QED  BY <1>1, <1>2, <1>3 DEF OrdersStep

\* So is rewriting two.
LEMMA RewritePairStep ==
    ASSUME TypeOK, OrderLife, NEW b \in OrderId, NEW s \in OrderId, b # s,
           Open(b), Open(s),
           NEW rb, Rewritten(b, rb), NEW rs, Rewritten(s, rs),
           orders' = [orders EXCEPT ![b] = rb, ![s] = rs], placed' = placed
    PROVE  OrdersStep
<1>1. /\ b <= placed /\ s <= placed /\ placed \in 0 .. MaxOrders
  BY OpenOrder DEF TypeOK
<1>2. orders' \in [OrderId -> OrderRows]  BY DEF TypeOK, Rewritten
<1>3. ASSUME NEW x \in OrderId
      PROVE  \/ orders'[x] = orders[x] /\ (x <= placed \/ x > placed')
             \/ /\ x <= placed'
                /\ orders'[x].status # "none"
                /\ RowOK(orders'[x])
                /\ x <= placed => orders'[x].version > orders[x].version
  <2>1. CASE x = b  BY <1>1, <2>1 DEF TypeOK, Rewritten
  <2>2. CASE x = s  BY <1>1, <2>2 DEF TypeOK, Rewritten
  <2>3. CASE x # b /\ x # s  BY <1>1, <2>3 DEF TypeOK
  <2>4. QED  BY <2>1, <2>2, <2>3
<1>4. QED  BY <1>1, <1>2, <1>3 DEF OrdersStep

\* A step that leaves the orders alone is a step of the book.
LEMMA BookUnchanged ==
    ASSUME TypeOK, UNCHANGED book
    PROVE  OrdersStep
<1>1. placed \in 0 .. MaxOrders /\ orders \in [OrderId -> OrderRows]
  BY DEF TypeOK
<1>2. placed' = placed /\ orders' = orders  BY DEF book
<1>3. QED  BY <1>1, <1>2 DEF OrdersStep

\* Giving frozen cash back keeps the types of the account.
LEMMA RefundedType ==
    ASSUME NEW row \in UserRows, NEW amount \in Int
    PROVE  Refunded(row, amount) \in UserRows
<1> DEFINE cash  == row.cash_balance + amount
           froze == row.frozen_cash - amount
<1>1. cash \in Int /\ froze \in Int  BY DEF UserRows
<1>2. Refunded(row, amount) = [row EXCEPT !.cash_balance = cash, !.frozen_cash = froze]
  BY DEF Refunded
<1> HIDE DEF cash, froze
<1>3. QED  BY <1>1, <1>2 DEF UserRows

\* cancel_order keeps the invariant.
LEMMA CancelOrderInv ==
    ASSUME IInv, NEW o \in OrderId, CancelOrder(o)
    PROVE  IInv'
<1> DEFINE u == orders[o].user
<1> USE DEF IInv
<1>1. Open(o) /\ u \in User /\ orders[o].frozen \in Int /\ Remaining(o) \in Int
  BY OpenOrder DEF CancelOrder
<1>2. OrdersStep
  <2>1. Rewritten(o, Cancelled(o))  BY <1>1, CancelledRewrites
  <2>2. orders' = [orders EXCEPT ![o] = Cancelled(o)]  BY DEF CancelOrder
  <2>3. placed' = placed  BY DEF CancelOrder
  <2>4. QED  BY <1>1, <2>1, <2>2, <2>3, RewriteStep
<1>3. PeeksTrusted'  BY <1>2, PassesUnchanged DEF CancelOrder
<1>4. user' \in [User -> UserRows] /\ portfolio' \in [User -> PortfolioRows]
  <2>1. user[u] \in UserRows /\ portfolio[u] \in PortfolioRows
    BY <1>1 DEF TypeOK
  <2>2. CASE /\ user' = [user EXCEPT ![u] = Refunded(@, orders[o].frozen)]
             /\ UNCHANGED portfolio
    <3>1. Refunded(user[u], orders[o].frozen) \in UserRows
      BY <1>1, <2>1, RefundedType
    <3>2. QED  BY <2>2, <3>1 DEF TypeOK
  <2>3. CASE /\ portfolio' = [portfolio EXCEPT ![u].frozen_quantity = @ - Remaining(o)]
             /\ UNCHANGED user
    <3>1. portfolio[u].frozen_quantity - Remaining(o) \in Int
      BY <1>1, <2>1 DEF PortfolioRows
    <3>2. QED  BY <1>1, <2>1, <2>3, <3>1 DEF TypeOK, PortfolioRows
  <2>4. QED  BY <2>2, <2>3 DEF CancelOrder
<1>5. TypeOK'
  <2>1. UNCHANGED <<placed, unsettled, pass, house, failures, company, now, credited>>
    BY DEF CancelOrder, env
  <2>2. stale' \in [Pass -> SUBSET User]  BY <1>1, WroteType DEF CancelOrder
  <2>3. QED  BY <1>2, <1>4, <2>1, <2>2, OrdersStepType DEF TypeOK
<1>6. QED  BY <1>2, <1>3, <1>5, OrdersStepLife

-----------------------------------------------------------------------------
(* Passes *)

\* The steps of a pass that write nothing to the database.
PassOnly == /\ UNCHANGED <<user, portfolio, book, unsettled, house, env>>
            /\ stale' \in [Pass -> SUBSET User]

\* A pass that wrote nothing leaves nobody else's rows stale.
LEMMA QuietWrites ==
    ASSUME IInv, NEW p \in Pass, Wrote({p}, {})
    PROVE  stale' \in [Pass -> SUBSET User]
  BY WroteType DEF IInv

\* A step that moves one pass to a sound state keeps the invariant.
LEMMA PassOnlyInv ==
    ASSUME IInv, PassOnly, failures' \in 0 .. MaxFailures, NEW p \in Pass,
           NEW me \in PassRows, Trusts(me), pass' = [pass EXCEPT ![p] = me]
    PROVE  IInv'
<1> USE DEF IInv
<1>1. OrdersStep  BY BookUnchanged DEF PassOnly
<1>2. pass' \in [Pass -> PassRows] /\ PeeksTrusted'  BY <1>1, PassMoves
<1>3. TypeOK'
  <2>1. UNCHANGED <<user, portfolio, unsettled, house, company, now, credited>>
    BY DEF PassOnly, env
  <2>2. QED  BY <1>1, <1>2, <2>1, OrdersStepType DEF PassOnly, TypeOK
<1>4. QED  BY <1>1, <1>2, <1>3, OrdersStepLife

\* An order that is peeked is open, with something left to fill.
LEMMA PeekKnown ==
    ASSUME TypeOK, OrderLife, NEW side, NEW skip, NEW o,
           o \in Candidates(side, skip)
    PROVE  o \in 0 .. MaxOrders /\ VersionOf(o) \in Nat /\ Known(o, VersionOf(o), side)
<1>1. /\ o \in OrderId /\ orders[o].side = side /\ Open(o) /\ Remaining(o) > 0
  BY DEF Candidates
<1>2. o \in 1 .. placed  BY <1>1, OpenOrder DEF TypeOK
<1>3. VersionOf(o) = orders[o].version /\ orders[o].version \in Nat
  BY <1>1 DEF VersionOf, Nobody, TypeOK, OrderRows
<1>4. QED  BY <1>1, <1>2, <1>3 DEF Known

\* The start of a pass keeps the invariant.
LEMMA StartPassInv ==
    ASSUME IInv, NEW p \in Pass, StartPass(p)
    PROVE  IInv'
<1>1. pass' = [pass EXCEPT ![p] = Started]  BY DEF StartPass
<1>2. PassOnly /\ failures' \in 0 .. MaxFailures
  BY DEF StartPass, PassOnly, IInv, TypeOK
<1>3. QED  BY <1>1, <1>2, StartedMoves, PassOnlyInv DEF IInv

\* The peek at the best buy keeps the invariant.
LEMMA PeekBuyInv ==
    ASSUME IInv, NEW p \in Pass, PeekBuy(p)
    PROVE  IInv'
<1>1. PICK o \in 0 .. MaxOrders :
        /\ BestBuy(o, pass[p].skipBuy)
        /\ pass' = [pass EXCEPT ![p].pc = "peekSell", ![p].buy = o,
                                ![p].buyVersion = VersionOf(o)]
  BY DEF PeekBuy
<1> DEFINE me == [pass[p] EXCEPT !.pc = "peekSell", !.buy = o,
                                !.buyVersion = VersionOf(o)]
<1>2. pass[p] \in PassRows /\ Trusts(pass[p]) /\ pass[p].pc = "peekBuy"
  BY DEF IInv, TypeOK, PeeksTrusted, PeekBuy
<1>3. VersionOf(o) \in Nat /\ (o # Nobody => Known(o, VersionOf(o), "buy"))
  <2>1. CASE o = Nobody  BY <2>1 DEF VersionOf
  <2>2. CASE o # Nobody
    <3>1. o \in Candidates("buy", pass[p].skipBuy)  BY <1>1, <2>2 DEF BestBuy
    <3>2. QED  BY <3>1, PeekKnown DEF IInv
  <2>3. QED  BY <2>1, <2>2
<1>4. me \in PassRows  BY <1>2, <1>3 DEF PassRows
<1>5. Trusts(me)  BY <1>2, <1>3 DEF Trusts, PassRows
<1>6. pass' = [pass EXCEPT ![p] = me]  BY <1>1 DEF IInv, TypeOK
<1>7. PassOnly /\ failures' \in 0 .. MaxFailures
  BY QuietWrites DEF PeekBuy, PassOnly, IInv, TypeOK
<1> HIDE DEF me
<1>8. QED  BY <1>4, <1>5, <1>6, <1>7, PassOnlyInv

\* What BestSell and BestBuy return is known.
LEMMA PeekSellKnown ==
    ASSUME TypeOK, OrderLife, NEW skip, NEW s \in 0 .. MaxOrders, BestSell(s, skip)
    PROVE  VersionOf(s) \in Nat /\ (s # Nobody => Known(s, VersionOf(s), "sell"))
<1>1. CASE s = Nobody  BY <1>1 DEF VersionOf
<1>2. CASE s # Nobody
  <2>1. s \in Candidates("sell", skip)  BY <1>2 DEF BestSell
  <2>2. QED  BY <2>1, PeekKnown
<1>3. QED  BY <1>1, <1>2

\* The peek at the best sell, and the choice of the pair, keep the invariant.
LEMMA PeekSellInv ==
    ASSUME IInv, NEW p \in Pass, PeekSell(p)
    PROVE  IInv'
<1> DEFINE Meets(s) == pass[p].buy # Nobody /\ s # Nobody /\ Crosses(pass[p].buy, s)
<1>1. PICK s \in 0 .. MaxOrders :
        /\ BestSell(s, pass[p].skipSell)
        /\ \/ /\ Meets(s)
              /\ pass' = [pass EXCEPT ![p].pc = "pair", ![p].sell = s,
                                      ![p].sellVersion = VersionOf(s)]
           \/ pass' = [pass EXCEPT ![p] = LeavingBook(@)]
  BY DEF PeekSell
<1>2. pass[p] \in PassRows /\ Trusts(pass[p]) /\ pass[p].pc = "peekSell"
  BY DEF IInv, TypeOK, PeeksTrusted, PeekSell
<1>3. PassOnly /\ failures' \in 0 .. MaxFailures
  BY QuietWrites DEF PeekSell, PassOnly, IInv, TypeOK
<1>4. CASE /\ Meets(s)
           /\ pass' = [pass EXCEPT ![p].pc = "pair", ![p].sell = s,
                                   ![p].sellVersion = VersionOf(s)]
  <2> DEFINE me == [pass[p] EXCEPT !.pc = "pair", !.sell = s,
                                  !.sellVersion = VersionOf(s)]
  <2>1. VersionOf(s) \in Nat /\ Known(s, VersionOf(s), "sell")
    BY <1>1, <1>4, PeekSellKnown DEF IInv
  <2>2. me \in PassRows  BY <1>2, <2>1 DEF PassRows
  <2>3. Trusts(me)  BY <1>2, <1>4, <2>1 DEF Trusts, PassRows
  <2>4. pass' = [pass EXCEPT ![p] = me]  BY <1>4 DEF IInv, TypeOK
  <2> HIDE DEF me
  <2>5. QED  BY <1>3, <2>2, <2>3, <2>4, PassOnlyInv
<1>5. CASE pass' = [pass EXCEPT ![p] = LeavingBook(@)]
  <2>1. pass[p].liquidity > 0  BY <1>2 DEF Trusts
  <2>2. LeavingBook(pass[p]) \in PassRows /\ Trusts(LeavingBook(pass[p]))
    BY <1>2, <2>1, LoopingMoves DEF LeavingBook
  <2>3. QED  BY <1>3, <1>5, <2>2, PassOnlyInv
<1>6. QED  BY <1>1, <1>4, <1>5

\* A pass that goes for a sell of the maker loop is a row of PassRows.
LEMMA MakerRowType ==
    ASSUME NEW row \in PassRows,
           NEW buy \in 0 .. MaxOrders, NEW buyVersion \in Nat,
           NEW sell \in 0 .. MaxOrders, NEW sellVersion \in Nat
    PROVE  [row EXCEPT !.pc = "makerSell", !.buy = buy, !.buyVersion = buyVersion,
                       !.sell = sell, !.sellVersion = sellVersion] \in PassRows
  BY DEF PassRows

\* The choice of the maker loop keeps the invariant.
LEMMA PeekMakerInv ==
    ASSUME IInv, NEW p \in Pass, PeekMaker(p)
    PROVE  IInv'
<1>1. PICK s \in 0 .. MaxOrders :
        /\ BestSell(s, pass[p].skipSell)
        /\ \/ /\ pass[p].buy # Nobody
              /\ pass' = [pass EXCEPT ![p].pc = "makerBuy"]
           \/ /\ s # Nobody
              /\ pass' = [pass EXCEPT ![p].pc = "makerSell",
                                      ![p].buy = Nobody, ![p].buyVersion = 0,
                                      ![p].sell = s,
                                      ![p].sellVersion = VersionOf(s)]
           \/ pass' = [pass EXCEPT ![p] = IdlePass]
  BY DEF PeekMaker
<1>2. pass[p] \in PassRows /\ Trusts(pass[p]) /\ pass[p].pc = "peekSell"
  BY DEF IInv, TypeOK, PeeksTrusted, PeekMaker
<1>3. PassOnly /\ failures' \in 0 .. MaxFailures
  BY QuietWrites DEF PeekMaker, PassOnly, IInv, TypeOK
<1>4. CASE /\ pass[p].buy # Nobody
           /\ pass' = [pass EXCEPT ![p].pc = "makerBuy"]
  <2> DEFINE me == [pass[p] EXCEPT !.pc = "makerBuy"]
  <2>1. me \in PassRows  BY <1>2 DEF PassRows
  <2>2. Trusts(me)  BY <1>2, <1>4 DEF Trusts, PassRows
  <2>3. pass' = [pass EXCEPT ![p] = me]  BY <1>4 DEF IInv, TypeOK
  <2> HIDE DEF me
  <2>4. QED  BY <1>3, <2>1, <2>2, <2>3, PassOnlyInv
<1>5. CASE /\ s # Nobody
           /\ pass' = [pass EXCEPT ![p].pc = "makerSell",
                                   ![p].buy = Nobody, ![p].buyVersion = 0,
                                   ![p].sell = s,
                                   ![p].sellVersion = VersionOf(s)]
  <2> DEFINE me == [pass[p] EXCEPT !.pc = "makerSell",
                                  !.buy = Nobody, !.buyVersion = 0,
                                  !.sell = s, !.sellVersion = VersionOf(s)]
  <2>1. VersionOf(s) \in Nat /\ Known(s, VersionOf(s), "sell")
    BY <1>1, <1>5, PeekSellKnown DEF IInv
  <2>2. me \in PassRows
    <3>1. Nobody \in 0 .. MaxOrders /\ 0 \in Nat  BY DEF Nobody
    <3>2. QED  BY <1>2, <2>1, <3>1, MakerRowType
  <2>3. Trusts(me)  BY <1>2, <1>5, <2>1 DEF Trusts, PassRows
  <2>4. pass' = [pass EXCEPT ![p] = me]  BY <1>5 DEF IInv, TypeOK
  <2> HIDE DEF me
  <2>5. QED  BY <1>3, <2>2, <2>3, <2>4, PassOnlyInv
<1>6. CASE pass' = [pass EXCEPT ![p] = IdlePass]
  BY <1>3, <1>6, IdleMoves, PassOnlyInv
<1>7. QED  BY <1>1, <1>4, <1>5, <1>6

\* Leaving the user-to-user loop keeps the invariant.
LEMMA LeaveBookInv ==
    ASSUME IInv, NEW p \in Pass, LeaveBook(p)
    PROVE  IInv'
<1>1. pass[p] \in PassRows /\ Trusts(pass[p]) /\ pass[p].pc = "pair"
  BY DEF IInv, TypeOK, PeeksTrusted, LeaveBook
<1>2. LeavingBook(pass[p]) \in PassRows /\ Trusts(LeavingBook(pass[p]))
  <2>1. pass[p].liquidity > 0  BY <1>1 DEF Trusts
  <2>2. QED  BY <1>1, <2>1, LoopingMoves DEF LeavingBook
<1>3. PassOnly /\ failures' \in 0 .. MaxFailures
  BY QuietWrites DEF LeaveBook, PassOnly, IInv, TypeOK
<1>4. pass' = [pass EXCEPT ![p] = LeavingBook(pass[p])]  BY DEF LeaveBook
<1>5. QED  BY <1>2, <1>3, <1>4, PassOnlyInv

\* A stale row that ends a pass keeps the invariant.
LEMMA RaiseInv ==
    ASSUME IInv, NEW p \in Pass, Raise(p)
    PROVE  IInv'
<1>1. PassOnly /\ failures' \in 0 .. MaxFailures
  BY QuietWrites DEF Raise, PassOnly, IInv, TypeOK
<1>2. pass' = [pass EXCEPT ![p] = IdlePass]  BY DEF Raise
<1>3. QED  BY <1>1, <1>2, IdleMoves, PassOnlyInv

\* Any other database error keeps the invariant.
LEMMA FailInv ==
    ASSUME IInv, NEW p \in Pass, Fail(p)
    PROVE  IInv'
<1>1. PassOnly /\ failures' \in 0 .. MaxFailures
  BY QuietWrites DEF Fail, PassOnly, IInv, TypeOK
<1>2. pass' = [pass EXCEPT ![p] = IdlePass]  BY DEF Fail
<1>3. QED  BY <1>1, <1>2, IdleMoves, PassOnlyInv

-----------------------------------------------------------------------------
(* Fills *)

\* A fresh peek is of an open order of its side.
LEMMA FreshBuy ==
    ASSUME IInv, NEW p \in Pass, Fresh(p), pass[p].buy # Nobody
    PROVE  /\ pass[p].buy \in OrderId
           /\ Open(pass[p].buy)
           /\ orders[pass[p].buy].side = "buy"
           /\ Remaining(pass[p].buy) \in Nat \ {0}
<1> DEFINE b == pass[p].buy
<1>1. Known(b, pass[p].buyVersion, "buy")  BY DEF IInv, PeeksTrusted, Trusts
<1>2. b \in OrderId  BY <1>1 DEF Known, IInv, TypeOK
<1>3. orders[b].version = pass[p].buyVersion  BY DEF Fresh, VersionOf
<1>4. Open(b) /\ orders[b].side = "buy" /\ Remaining(b) > 0
  BY <1>1, <1>3 DEF Known
<1>5. QED  BY <1>2, <1>4, OpenOrder DEF IInv

\* A sell whose version is the one peeked is an open sell with shares left.
LEMMA FreshSell ==
    ASSUME IInv, NEW p \in Pass, Fresh(p), pass[p].sell # Nobody
    PROVE  /\ pass[p].sell \in OrderId
           /\ Open(pass[p].sell)
           /\ orders[pass[p].sell].side = "sell"
           /\ Remaining(pass[p].sell) \in Nat \ {0}
<1> DEFINE s == pass[p].sell
<1>1. Known(s, pass[p].sellVersion, "sell")  BY DEF IInv, PeeksTrusted, Trusts
<1>2. s \in OrderId  BY <1>1 DEF Known, IInv, TypeOK
<1>3. orders[s].version = pass[p].sellVersion  BY DEF Fresh, VersionOf
<1>4. Open(s) /\ orders[s].side = "sell" /\ Remaining(s) > 0
  BY <1>1, <1>3 DEF Known
<1>5. QED  BY <1>2, <1>4, OpenOrder DEF IInv

\* The transaction of a sale is a row of its table.
LEMMA SellTransactionType ==
    ASSUME TypeOK, OrderLife, NEW s \in OrderId, Open(s), NEW q \in Nat, NEW p \in Int,
           NEW simAt \in Nat
    PROVE  SellTransaction(s, q, p, simAt) \in SellTransactions
<1>1. orders[s].filled + q \in Nat /\ orders[s].user \in User
  BY OpenOrder DEF OrderRows
<1>2. Proceeds(q, p) \in Int  BY AmountsInt
<1>3. simAt + SettleTime \in Nat  OBVIOUS
<1>4. QED  BY <1>1, <1>2, <1>3 DEF SellTransaction, SellTransactions

\* Cancelling a self-trade keeps the invariant.
LEMMA CancelSelfTradeInv ==
    ASSUME IInv, NEW p \in Pass, CancelSelfTrade(p)
    PROVE  IInv'
<1> DEFINE b == pass[p].buy
           s == pass[p].sell
           u == orders[b].user
<1> USE DEF IInv
<1>1. pass[p] \in PassRows /\ Trusts(pass[p]) /\ pass[p].pc = "pair" /\ Fresh(p)
  BY DEF TypeOK, PeeksTrusted, CancelSelfTrade
<1>2. b # Nobody /\ s # Nobody /\ pass[p].liquidity > 0  BY <1>1 DEF Trusts
<1>3. /\ b \in OrderId /\ Open(b) /\ orders[b].side = "buy"
      /\ s \in OrderId /\ Open(s) /\ orders[s].side = "sell"
      /\ Remaining(s) \in Nat
  BY <1>1, <1>2, FreshBuy, FreshSell
<1>4. b # s  BY <1>3
<1>5. OrdersStep
  <2>1. Rewritten(b, Cancelled(b)) /\ Rewritten(s, Cancelled(s))
    BY <1>3, CancelledRewrites
  <2>2. orders' = [orders EXCEPT ![b] = Cancelled(b), ![s] = Cancelled(s)]
    BY DEF CancelSelfTrade
  <2>3. placed' = placed  BY DEF CancelSelfTrade
  <2>4. QED  BY <1>3, <1>4, <2>1, <2>2, <2>3, RewritePairStep
<1>6. pass' \in [Pass -> PassRows] /\ PeeksTrusted'
  <2> DEFINE skip == SkipPair(pass[p])
  <2>1. skip \in PassRows /\ skip.liquidity > 0
    BY <1>1, <1>2, <1>3 DEF SkipPair, SkipBuy, SkipSell, PassRows
  <2> HIDE DEF skip
  <2>2. Looping(skip, "book") \in PassRows /\ Trusts(Looping(skip, "book"))
    BY <2>1, LoopingMoves
  <2>3. pass' = [pass EXCEPT ![p] = Looping(skip, "book")]
    BY DEF CancelSelfTrade, skip
  <2>4. QED  BY <1>5, <2>2, <2>3, PassMoves
<1>7. user' \in [User -> UserRows]
  <2>1. u \in User /\ orders[b].frozen \in Int /\ user[u] \in UserRows
    BY <1>3, OpenOrder DEF TypeOK
  <2>2. Refunded(user[u], orders[b].frozen) \in UserRows  BY <2>1, RefundedType
  <2>3. user' = [user EXCEPT ![u] = Refunded(@, orders[b].frozen)]
    BY DEF CancelSelfTrade
  <2>4. QED  BY <2>2, <2>3 DEF TypeOK
<1>8. portfolio' \in [User -> PortfolioRows]
  <2>1. u \in User /\ portfolio[u] \in PortfolioRows  BY <1>3, OpenOrder DEF TypeOK
  <2>2. portfolio[u].frozen_quantity - Remaining(s) \in Int
    BY <1>3, <2>1 DEF PortfolioRows
  <2>3. portfolio' = [portfolio EXCEPT ![u].frozen_quantity = @ - Remaining(s)]
    BY DEF CancelSelfTrade
  <2>4. QED  BY <2>1, <2>2, <2>3 DEF TypeOK, PortfolioRows
<1>9. TypeOK'
  <2>1. UNCHANGED <<placed, unsettled, house, failures, company, now, credited>>
    BY DEF CancelSelfTrade, env
  <2>2. stale' \in [Pass -> SUBSET User]
    <3>1. u \in User  BY <1>3, OpenOrder
    <3>2. QED  BY <3>1, WroteType DEF CancelSelfTrade
  <2>3. QED  BY <1>5, <1>6, <1>7, <1>8, <2>1, <2>2, OrdersStepType DEF TypeOK
<1>10. QED  BY <1>5, <1>6, <1>9, OrdersStepLife

\* A holding that receives shares keeps its type.
LEMMA ReceivedType ==
    ASSUME NEW holding \in PortfolioRows, NEW q \in Int
    PROVE  Received(holding, q) \in PortfolioRows
<1>1. holding.quantity + q \in Int  BY DEF PortfolioRows
<1>2. QED  BY <1>1 DEF Received, PortfolioRows

\* A holding that delivers shares keeps its type.
LEMMA DeliveredType ==
    ASSUME NEW holding \in PortfolioRows, NEW q \in Int
    PROVE  Delivered(holding, q) \in PortfolioRows
<1> DEFINE held == holding.quantity - q
           froze == holding.frozen_quantity - q
<1>1. held \in Int /\ froze \in Int  BY DEF PortfolioRows
<1>2. Delivered(holding, q)
        = [holding EXCEPT !.quantity = held, !.frozen_quantity = froze]
  BY DEF Delivered
<1> HIDE DEF held, froze
<1>3. QED  BY <1>1, <1>2 DEF PortfolioRows

\* A buy filled by the market maker keeps the invariant.
LEMMA FillMakerBuyInv ==
    ASSUME IInv, NEW p \in Pass, FillMakerBuy(p)
    PROVE  IInv'
<1> DEFINE b == pass[p].buy
           q == LesserOf(Remaining(b), pass[p].liquidity)
           price == MakerBuyPrice(b, q, pass[p].market)
           u == orders[b].user
<1> USE DEF IInv
<1>1. pass[p] \in PassRows /\ Trusts(pass[p]) /\ pass[p].pc = "makerBuy" /\ Fresh(p)
  BY DEF TypeOK, PeeksTrusted, FillMakerBuy
<1>2. b # Nobody /\ pass[p].liquidity \in Nat \ {0} /\ pass[p].market \in Int
  BY <1>1 DEF Trusts, PassRows
<1>3. /\ b \in OrderId /\ Open(b) /\ orders[b].side = "buy"
      /\ Remaining(b) \in Nat \ {0}
  BY <1>1, <1>2, FreshBuy
<1>4. q \in 1 .. Remaining(b) /\ q \in Nat  BY <1>2, <1>3 DEF LesserOf
<1>5. price \in Int  BY <1>2, <1>3, <1>4, MakerBuyPriceInt
<1> HIDE DEF q, price
<1>6. OrdersStep
  <2>1. Rewritten(b, BuyFilled(b, q))  BY <1>3, <1>4, BuyFilledRewrites
  <2>2. orders' = [orders EXCEPT ![b] = BuyFilled(b, q)]
    BY DEF FillMakerBuy, q
  <2>3. placed' = placed  BY DEF FillMakerBuy
  <2>4. QED  BY <1>3, <2>1, <2>2, <2>3, RewriteStep
<1>7. pass' \in [Pass -> PassRows] /\ PeeksTrusted'
  <2> DEFINE skip == SkipBuy(pass[p])
  <2>1. skip \in PassRows  BY <1>1, <1>3 DEF SkipBuy, PassRows
  <2> HIDE DEF skip
  <2>2. AfterFill(skip, "maker", q) \in PassRows /\ Trusts(AfterFill(skip, "maker", q))
    BY <1>4, <2>1, AfterFillMoves
  <2>3. pass' = [pass EXCEPT ![p] = AfterFill(skip, "maker", q)]
    BY DEF FillMakerBuy, skip, q
  <2>4. QED  BY <1>6, <2>2, <2>3, PassMoves
<1>8. u \in User /\ user[u] \in UserRows /\ portfolio[u] \in PortfolioRows
  BY <1>3, OpenOrder DEF TypeOK
<1>9. user' \in [User -> UserRows]
  <2>1. Paid(user[u], b, q, price) \in UserRows  BY <1>3, <1>4, <1>5, <1>8, PaidType
  <2>2. user' = [user EXCEPT ![u] = Paid(@, b, q, price)]
    BY DEF FillMakerBuy, q, price
  <2>3. QED  BY <2>1, <2>2 DEF TypeOK
<1>10. portfolio' \in [User -> PortfolioRows]
  <2>1. Received(portfolio[u], q) \in PortfolioRows  BY <1>4, <1>8, ReceivedType
  <2>2. portfolio' = [portfolio EXCEPT ![u] = Received(@, q)]
    BY DEF FillMakerBuy, q
  <2>3. QED  BY <2>1, <2>2 DEF TypeOK
<1>11. house' \in [cash : Int, shares : Int]
  <2>1. Debit(q, price) \in Int  BY <1>4, <1>5, AmountsInt
  <2>2. house' = [house EXCEPT !.cash = @ + Debit(q, price), !.shares = @ - q]
    BY DEF FillMakerBuy, q, price
  <2>3. /\ house \in [cash : Int, shares : Int]
        /\ house.cash + Debit(q, price) \in Int
        /\ house.shares - q \in Int
    BY <1>4, <2>1 DEF TypeOK
  <2>4. QED  BY <2>2, <2>3
<1>12. TypeOK'
  <2>1. UNCHANGED <<placed, unsettled, failures, company, now, credited>>
    BY DEF FillMakerBuy, env
  <2>2. stale' \in [Pass -> SUBSET User]  BY <1>8, WroteType DEF FillMakerBuy
  <2>3. QED  BY <1>6, <1>7, <1>9, <1>10, <1>11, <2>1, <2>2, OrdersStepType DEF TypeOK
<1>13. QED  BY <1>6, <1>7, <1>12, OrdersStepLife

\* A sell filled by the market maker keeps the invariant.
LEMMA FillMakerSellInv ==
    ASSUME IInv, NEW p \in Pass, FillMakerSell(p)
    PROVE  IInv'
<1> DEFINE s == pass[p].sell
           q == LesserOf(Remaining(s), pass[p].liquidity)
           price == MakerSellPrice(s, q, pass[p].market)
           u == orders[s].user
<1> USE DEF IInv
<1>1. pass[p] \in PassRows /\ Trusts(pass[p]) /\ pass[p].pc = "makerSell" /\ Fresh(p)
  BY DEF TypeOK, PeeksTrusted, FillMakerSell
<1>2. s # Nobody /\ pass[p].liquidity \in Nat \ {0} /\ pass[p].market \in Int
  BY <1>1 DEF Trusts, PassRows
<1>3. /\ s \in OrderId /\ Open(s) /\ orders[s].side = "sell"
      /\ Remaining(s) \in Nat \ {0}
  BY <1>1, <1>2, FreshSell
<1>4. q \in 1 .. Remaining(s) /\ q \in Nat  BY <1>2, <1>3 DEF LesserOf
<1>5. price \in Int  BY <1>2, <1>3, <1>4, MakerSellPriceInt
<1> HIDE DEF q, price
<1>6. OrdersStep
  <2>1. Rewritten(s, SellFilled(s, q))  BY <1>3, <1>4, SellFilledRewrites
  <2>2. orders' = [orders EXCEPT ![s] = SellFilled(s, q)]
    BY DEF FillMakerSell, q
  <2>3. placed' = placed  BY DEF FillMakerSell
  <2>4. QED  BY <1>3, <2>1, <2>2, <2>3, RewriteStep
<1>7. pass' \in [Pass -> PassRows] /\ PeeksTrusted'
  <2> DEFINE skip == SkipSell(pass[p])
  <2>1. skip \in PassRows  BY <1>1, <1>3 DEF SkipSell, PassRows
  <2> HIDE DEF skip
  <2>2. AfterFill(skip, "maker", q) \in PassRows /\ Trusts(AfterFill(skip, "maker", q))
    BY <1>4, <2>1, AfterFillMoves
  <2>3. pass' = [pass EXCEPT ![p] = AfterFill(skip, "maker", q)]
    BY DEF FillMakerSell, skip, q
  <2>4. QED  BY <1>6, <2>2, <2>3, PassMoves
<1>8. u \in User /\ user[u] \in UserRows /\ portfolio[u] \in PortfolioRows
  BY <1>3, OpenOrder DEF TypeOK
<1>9. user' \in [User -> UserRows]
  <2>1. Sold(user[u], q, price) \in UserRows  BY <1>4, <1>5, <1>8, SoldType
  <2>2. user' = [user EXCEPT ![u] = Sold(@, q, price)]
    BY DEF FillMakerSell, q, price
  <2>3. QED  BY <2>1, <2>2 DEF TypeOK
<1>10. portfolio' \in [User -> PortfolioRows]
  <2>1. Delivered(portfolio[u], q) \in PortfolioRows  BY <1>4, <1>8, DeliveredType
  <2>2. portfolio' = [portfolio EXCEPT ![u] = Delivered(@, q)]
    BY DEF FillMakerSell, q
  <2>3. QED  BY <2>1, <2>2 DEF TypeOK
<1>11. house' \in [cash : Int, shares : Int]
  <2>1. Proceeds(q, price) \in Int  BY <1>4, <1>5, AmountsInt
  <2>2. house' = [house EXCEPT !.cash = @ - Proceeds(q, price), !.shares = @ + q]
    BY DEF FillMakerSell, q, price
  <2>3. /\ house \in [cash : Int, shares : Int]
        /\ house.cash - Proceeds(q, price) \in Int
        /\ house.shares + q \in Int
    BY <1>4, <2>1 DEF TypeOK
  <2>4. QED  BY <2>2, <2>3
<1>12. unsettled' \subseteq SellTransactions /\ IsFiniteSet(unsettled')
  <2>1. pass[p].simAt \in Nat  BY <1>1 DEF PassRows
  <2>2. SellTransaction(s, q, price, pass[p].simAt) \in SellTransactions
    BY <1>3, <1>4, <1>5, <2>1, SellTransactionType
  <2>3. unsettled' = unsettled \cup {SellTransaction(s, q, price, pass[p].simAt)}
    BY DEF FillMakerSell, q, price
  <2>4. QED  BY <2>2, <2>3, FS_AddElement DEF TypeOK
<1>13. TypeOK'
  <2>1. UNCHANGED <<placed, failures, company, now, credited>>
    BY DEF FillMakerSell, env
  <2>2. stale' \in [Pass -> SUBSET User]  BY <1>8, WroteType DEF FillMakerSell
  <2>3. QED  BY <1>6, <1>7, <1>9, <1>10, <1>11, <1>12, <2>1, <2>2, OrdersStepType
             DEF TypeOK
<1>14. QED  BY <1>6, <1>7, <1>13, OrdersStepLife

\* A user-to-user fill keeps the invariant.
LEMMA FillPairInv ==
    ASSUME IInv, NEW p \in Pass, FillPair(p)
    PROVE  IInv'
<1> DEFINE b == pass[p].buy
           s == pass[p].sell
           q == PairQuantity(p)
           price == PairFillPrice(p)
           buyer == orders[b].user
           seller == orders[s].user
<1> USE DEF IInv
<1>1. /\ pass[p] \in PassRows /\ Trusts(pass[p]) /\ pass[p].pc = "pair" /\ Fresh(p)
      /\ buyer # seller
  BY DEF TypeOK, PeeksTrusted, FillPair, SelfTrading
<1>2. /\ b # Nobody /\ s # Nobody
      /\ pass[p].liquidity \in Nat \ {0} /\ pass[p].market \in Int
      /\ pass[p].simAt \in Nat
  BY <1>1 DEF Trusts, PassRows
<1>3. /\ b \in OrderId /\ Open(b) /\ orders[b].side = "buy"
      /\ Remaining(b) \in Nat \ {0}
      /\ s \in OrderId /\ Open(s) /\ orders[s].side = "sell"
      /\ Remaining(s) \in Nat \ {0}
  BY <1>1, <1>2, FreshBuy, FreshSell
<1>4. q \in 1 .. Remaining(b) /\ q \in 1 .. Remaining(s) /\ q \in Nat
  BY <1>2, <1>3 DEF PairQuantity, LesserOf
<1>5. price \in Int  BY <1>2, <1>3, PairPriceInt DEF PairFillPrice
<1>6. b # s  BY <1>3
<1> HIDE DEF q, price
<1>7. OrdersStep
  <2>1. Rewritten(b, BuyFilled(b, q))  BY <1>3, <1>4, BuyFilledRewrites
  <2>2. Rewritten(s, SellFilled(s, q))  BY <1>3, <1>4, SellFilledRewrites
  <2>3. orders' = [orders EXCEPT ![b] = BuyFilled(b, q), ![s] = SellFilled(s, q)]
    BY DEF FillPair, q
  <2>4. placed' = placed  BY DEF FillPair
  <2>5. QED  BY <1>3, <1>6, <2>1, <2>2, <2>3, <2>4, RewritePairStep
<1>8. pass' \in [Pass -> PassRows] /\ PeeksTrusted'
  <2> DEFINE me == AfterFill(pass[p], "book", q)
  <2>1. me \in PassRows /\ Trusts(me)  BY <1>1, <1>4, AfterFillMoves
  <2>2. pass' = [pass EXCEPT ![p] = me]  BY DEF FillPair, q
  <2> HIDE DEF me
  <2>3. QED  BY <1>7, <2>1, <2>2, PassMoves
<1>9. /\ buyer \in User /\ user[buyer] \in UserRows
      /\ portfolio[buyer] \in PortfolioRows
      /\ seller \in User /\ user[seller] \in UserRows
      /\ portfolio[seller] \in PortfolioRows
  BY <1>3, OpenOrder DEF TypeOK
<1>10. user' \in [User -> UserRows]
  <2>1. Paid(user[buyer], b, q, price) \in UserRows
    BY <1>3, <1>4, <1>5, <1>9, PaidType
  <2>2. Sold(user[seller], q, price) \in UserRows
    BY <1>4, <1>5, <1>9, SoldType
  <2>3. user' = [user EXCEPT ![buyer] = Paid(user[buyer], b, q, price),
                             ![seller] = Sold(user[seller], q, price)]
    BY <1>1, <1>9 DEF FillPair, q, price, TypeOK
  <2>4. QED  BY <2>1, <2>2, <2>3 DEF TypeOK
<1>11. portfolio' \in [User -> PortfolioRows]
  <2>1. Delivered(portfolio[seller], q) \in PortfolioRows
    BY <1>4, <1>9, DeliveredType
  <2>2. Received(portfolio[buyer], q) \in PortfolioRows
    BY <1>4, <1>9, ReceivedType
  <2>3. portfolio' = [portfolio EXCEPT ![buyer] = Received(portfolio[buyer], q),
                                       ![seller] = Delivered(portfolio[seller], q)]
    BY <1>1, <1>9 DEF FillPair, q, TypeOK
  <2>4. QED  BY <2>1, <2>2, <2>3 DEF TypeOK
<1>12. house' \in [cash : Int, shares : Int]
  <2>1. Debit(q, price) \in Int /\ Proceeds(q, price) \in Int
    <3>1. q \in Int  BY <1>4
    <3>2. QED  BY <1>5, <3>1, AmountsInt
  <2>2. house' = [house EXCEPT !.cash = @ + Debit(q, price) - Proceeds(q, price)]
    BY DEF FillPair, q, price
  <2>3. /\ house \in [cash : Int, shares : Int]
        /\ house.cash + Debit(q, price) - Proceeds(q, price) \in Int
    BY <2>1 DEF TypeOK
  <2>4. QED  BY <2>2, <2>3
<1>13. unsettled' \subseteq SellTransactions /\ IsFiniteSet(unsettled')
  <2>1. SellTransaction(s, q, price, pass[p].simAt) \in SellTransactions
    BY <1>2, <1>3, <1>4, <1>5, SellTransactionType
  <2>2. unsettled' = unsettled \cup {SellTransaction(s, q, price, pass[p].simAt)}
    BY DEF FillPair, q, price
  <2>3. QED  BY <2>1, <2>2, FS_AddElement DEF TypeOK
<1>14. TypeOK'
  <2>1. UNCHANGED <<placed, failures, company, now, credited>>
    BY DEF FillPair, env
  <2>2. stale' \in [Pass -> SUBSET User]
    <3>1. {buyer, seller} \in SUBSET User  BY <1>9
    <3>2. QED  BY <3>1, WroteType DEF FillPair
  <2>3. QED  BY <1>7, <1>8, <1>10, <1>11, <1>12, <1>13, <2>1, <2>2, OrdersStepType
             DEF TypeOK
<1>15. QED  BY <1>7, <1>8, <1>14, OrdersStepLife

-----------------------------------------------------------------------------
(* Settlement, prices, credits and time *)

\* The steps that touch neither orders nor passes.
LEMMA OtherStepInv ==
    ASSUME IInv, UNCHANGED <<portfolio, book, pass, failures>>,
           user' \in [User -> UserRows],
           unsettled' \subseteq SellTransactions, IsFiniteSet(unsettled'),
           company' \in [current_price : MarketPrices, updated_at : Nat],
           now' \in 0 .. MaxTime, house' \in [cash : Int, shares : Int],
           credited' \in 0 .. MaxRewards, stale' \in [Pass -> SUBSET User]
    PROVE  IInv'
<1> USE DEF IInv
<1>1. OrdersStep  BY BookUnchanged
<1>2. PeeksTrusted'  BY <1>1, PassesUnchanged
<1>3. TypeOK'  BY <1>1, OrdersStepType DEF TypeOK
<1>4. QED  BY <1>1, <1>2, <1>3, OrdersStepLife

\* The amounts of some of the unsettled sales add up to a whole number.
LEMMA SalesAmountInt ==
    ASSUME TypeOK, NEW S \in SUBSET unsettled
    PROVE  IsFiniteSet(S) /\ Amounts(S) \in Int
<1> DEFINE f == [t \in S |-> t.amount]
<1>1. IsFiniteSet(S)  BY FS_Subset DEF TypeOK
<1>2. \A t \in S : f[t] \in Int  BY DEF TypeOK, SellTransactions
<1>3. DOMAIN f = S  OBVIOUS
<1> HIDE DEF f
<1>4. SumFunctionOnSet(f, S) \in Int  BY <1>1, <1>2, SumInt
<1>5. QED  BY <1>1, <1>3, <1>4 DEF Amounts, SumFunction, f

\* release_due keeps the invariant.
LEMMA ReleaseDueInv ==
    ASSUME IInv, ReleaseDue
    PROVE  IInv'
<1>1. PICK release \in [User -> Int] :
        user' = [u \in User |-> [user[u] EXCEPT !.settling_cash = @ - release[u],
                                               !.cash_balance  = @ + release[u]]]
  <2> DEFINE Due(u) == Amounts({t \in DueTransactions : t.user = u})
             release == [u \in User |-> LesserOf(Due(u), user[u].settling_cash)]
  <2>1. ASSUME NEW u \in User
        PROVE  LesserOf(Due(u), user[u].settling_cash) \in Int
    <3>1. Due(u) \in Int
      <4>1. {t \in DueTransactions : t.user = u} \in SUBSET unsettled
        BY DEF DueTransactions
      <4>2. QED  BY <4>1, SalesAmountInt DEF IInv
    <3>2. user[u].settling_cash \in Int  BY DEF IInv, TypeOK, UserRows
    <3> HIDE DEF Due
    <3>3. QED  BY <3>1, <3>2 DEF LesserOf
  <2>2. release \in [User -> Int]  BY <2>1
  <2>3. user' = [u \in User |-> [user[u] EXCEPT !.settling_cash = @ - release[u],
                                               !.cash_balance  = @ + release[u]]]
    BY DEF ReleaseDue
  <2> HIDE DEF release
  <2>4. QED  BY <2>2, <2>3
<1>2. ASSUME NEW u \in User
      PROVE  [user[u] EXCEPT !.settling_cash = @ - release[u],
                             !.cash_balance  = @ + release[u]] \in UserRows
  <2> DEFINE settling == user[u].settling_cash - release[u]
             cash     == user[u].cash_balance + release[u]
  <2>1. user[u] \in UserRows /\ release[u] \in Int  BY <1>1 DEF IInv, TypeOK
  <2>2. settling \in Int /\ cash \in Int  BY <2>1 DEF UserRows
  <2> HIDE DEF settling, cash
  <2>3. [user[u] EXCEPT !.settling_cash = settling, !.cash_balance = cash] \in UserRows
    BY <2>1, <2>2 DEF UserRows
  <2>4. QED  BY <2>3 DEF settling, cash
<1>3. user' \in [User -> UserRows]  BY <1>1, <1>2
<1>4. unsettled' \subseteq SellTransactions /\ IsFiniteSet(unsettled')
  BY FS_Difference DEF ReleaseDue, IInv, TypeOK
<1>5. /\ UNCHANGED <<portfolio, book, pass, failures>>
      /\ UNCHANGED <<company, now, house, credited>>
  BY DEF ReleaseDue, env
<1>6. stale' \in [Pass -> SUBSET User]
  <2>1. {t.user : t \in DueTransactions} \in SUBSET User
    <3>1. \A t \in DueTransactions : t \in SellTransactions
      BY DEF DueTransactions, IInv, TypeOK
    <3>2. \A t \in DueTransactions : t.user \in User
      BY <3>1 DEF SellTransactions
    <3>3. QED  BY <3>2
  <2>2. QED  BY <2>1, WroteType DEF ReleaseDue, IInv
<1>7. QED  BY <1>3, <1>4, <1>5, <1>6, OtherStepInv DEF IInv, TypeOK

\* A new price keeps the invariant.
LEMMA UpdatePriceInv ==
    ASSUME IInv, NEW price \in MarketPrices, UpdatePrice(price)
    PROVE  IInv'
<1>1. company' \in [current_price : MarketPrices, updated_at : Nat]
  BY DEF UpdatePrice, IInv, TypeOK
<1>2. /\ UNCHANGED <<portfolio, book, pass, failures>>
      /\ UNCHANGED <<user, unsettled, now, house, credited, stale>>
  BY DEF UpdatePrice
<1>3. QED  BY <1>1, <1>2, OtherStepInv DEF IInv, TypeOK

\* A credit keeps the invariant.
LEMMA CreditCashInv ==
    ASSUME IInv, NEW u \in User, NEW amount \in Rewards, CreditCash(u, amount)
    PROVE  IInv'
<1>1. amount \in Int  OBVIOUS
<1>2. user[u] \in UserRows /\ house \in [cash : Int, shares : Int]
      /\ credited \in 0 .. MaxRewards
  BY DEF IInv, TypeOK
<1>3. user' \in [User -> UserRows]
  <2>1. user[u].cash_balance + amount \in Int  BY <1>1, <1>2 DEF UserRows
  <2>2. user' = [user EXCEPT ![u].cash_balance = @ + amount]  BY DEF CreditCash
  <2>3. QED  BY <1>2, <2>1, <2>2 DEF IInv, TypeOK, UserRows
<1>4. house' \in [cash : Int, shares : Int]
  <2>1. house.cash - amount \in Int  BY <1>1, <1>2
  <2>2. house' = [house EXCEPT !.cash = @ - amount]  BY DEF CreditCash
  <2>3. QED  BY <1>2, <2>1, <2>2
<1>5. credited' \in 0 .. MaxRewards  BY <1>2 DEF CreditCash
<1>6. /\ UNCHANGED <<portfolio, book, pass, failures>>
      /\ UNCHANGED <<unsettled, company, now>>
  BY DEF CreditCash
<1>7. stale' \in [Pass -> SUBSET User]  BY WroteType DEF CreditCash, IInv
<1>8. QED  BY <1>3, <1>4, <1>5, <1>6, <1>7, OtherStepInv DEF IInv, TypeOK

\* Time keeps the invariant.
LEMMA ClockInv ==
    ASSUME IInv, Clock
    PROVE  IInv'
<1>1. now' \in 0 .. MaxTime  BY DEF Clock, IInv, TypeOK
<1>2. /\ UNCHANGED <<portfolio, book, pass, failures>>
      /\ UNCHANGED <<user, unsettled, company, house, credited, stale>>
  BY DEF Clock
<1>3. QED  BY <1>1, <1>2, OtherStepInv DEF IInv, TypeOK

-----------------------------------------------------------------------------
(* What holds of the trading core *)

\* The empty book satisfies the invariant.
LEMMA InitInv == Init => IInv
<1> SUFFICES ASSUME Init PROVE IInv  OBVIOUS
<1>1. NoOrder \in OrderRows /\ RowOK(NoOrder) /\ NoOrder.status = "none"
  BY DEF NoOrder, OrderRows, Statuses, RowOK
<1>2. TypeOK
  <2>1. user \in [User -> UserRows] /\ portfolio \in [User -> PortfolioRows]
    BY DEF Init, UserRows, PortfolioRows
  <2>2. orders \in [OrderId -> OrderRows] /\ placed \in 0 .. MaxOrders
    BY <1>1 DEF Init
  <2>3. pass \in [Pass -> PassRows] /\ stale \in [Pass -> SUBSET User]
    BY IdleMoves DEF Init
  <2>4. company \in [current_price : MarketPrices, updated_at : Nat]  BY DEF Init
  <2>5. /\ unsettled \subseteq SellTransactions
        /\ IsFiniteSet(unsettled)
        /\ now \in 0 .. MaxTime
        /\ house \in [cash : Int, shares : Int]
        /\ credited \in 0 .. MaxRewards
        /\ failures \in 0 .. MaxFailures
    BY FS_EmptySet DEF Init
  <2>6. QED  BY <2>1, <2>2, <2>3, <2>4, <2>5 DEF TypeOK
<1>3. OrderLife  BY <1>1 DEF Init, OrderLife
<1>4. PeeksTrusted  BY IdleMoves DEF Init, PeeksTrusted
<1>5. QED  BY <1>2, <1>3, <1>4 DEF IInv

\* Every step of a pass keeps the invariant.
LEMMA PassStepInv ==
    ASSUME IInv, NEW p \in Pass, StartPass(p) \/ PassStep(p) \/ Fail(p)
    PROVE  IInv'
  BY StartPassInv, FailInv, PeekBuyInv, PeekSellInv, PeekMakerInv,
     CancelSelfTradeInv, LeaveBookInv, FillPairInv, FillMakerBuyInv,
     FillMakerSellInv, RaiseInv DEF PassStep

\* A step that changes nothing keeps the invariant.
LEMMA StutterInv ==
    ASSUME IInv, UNCHANGED vars
    PROVE  IInv'
  BY OtherStepInv DEF IInv, TypeOK, vars, book

\* Every step of the exchange keeps the invariant.
LEMMA NextInv == IInv /\ [Next]_vars => IInv'
<1> SUFFICES ASSUME IInv, [Next]_vars PROVE IInv'  OBVIOUS
<1>1. CASE \E u \in User : Place(u)
  BY <1>1, PlaceBuyInv, PlaceSellInv DEF Place
<1>2. CASE \E o \in OrderId : CancelOrder(o)
  BY <1>2, CancelOrderInv
<1>3. CASE \E p \in Pass : StartPass(p) \/ PassStep(p) \/ Fail(p)
  BY <1>3, PassStepInv
<1>4. CASE ReleaseDue  BY <1>4, ReleaseDueInv
<1>5. CASE \E price \in MarketPrices : UpdatePrice(price)
  BY <1>5, UpdatePriceInv
<1>6. CASE \E u \in User, amount \in Rewards : CreditCash(u, amount)
  BY <1>6, CreditCashInv
<1>7. CASE Clock  BY <1>7, ClockInv
<1>8. CASE UNCHANGED vars  BY <1>8, StutterInv
<1>9. QED  BY <1>1, <1>2, <1>3, <1>4, <1>5, <1>6, <1>7, <1>8 DEF Next

\* The inductive invariant holds in every state of the exchange.
THEOREM Invariance == Spec => []IInv
<1>1. Init => IInv  BY InitInv
<1>2. IInv /\ [Next]_vars => IInv'  BY NextInv
<1>3. QED  BY <1>1, <1>2, PTL DEF Spec

\* Every variable holds rows of its table, whatever the sizes and rates.
THEOREM TypeCorrect == Spec => []TypeOK
<1>1. IInv => TypeOK  BY DEF IInv
<1>2. QED  BY <1>1, Invariance, PTL

\* No interleaving of passes and cancellations overfills an order, leaves cash
\* frozen on a final one or reuses an id (orders of models/trade.py).
THEOREM LifeOfOrders == Spec => []OrderLife
<1>1. IInv => OrderLife  BY DEF IInv
<1>2. QED  BY <1>1, Invariance, PTL

\* The version_id check of the flush makes the unlocked peeks of match_orders
\* safe to act on.
THEOREM VersionsSuffice == Spec => []PeeksTrusted
<1>1. IInv => PeeksTrusted  BY DEF IInv
<1>2. QED  BY <1>1, Invariance, PTL

\* A pass acts soundly on what it peeked, however long ago.
THEOREM PassesActSoundly == Spec => []OrdersTrusted
<1>1. IInv => OrdersTrusted  BY DEF IInv, OrdersTrusted
<1>2. QED  BY <1>1, Invariance, PTL

Final(o) == orders[o].status \in {"filled", "cancelled"}

FinalKept == \A o \in OrderId : Final(o) => orders'[o] = orders[o]

\* Writing over open orders keeps the final ones.
LEMMA OpenRewritten ==
    ASSUME TypeOK, NEW a \in OrderId, NEW b \in OrderId, Open(a), Open(b),
           NEW ra, NEW rb, orders' = [orders EXCEPT ![a] = ra, ![b] = rb]
    PROVE  FinalKept
<1> SUFFICES ASSUME NEW o \in OrderId, Final(o) PROVE orders'[o] = orders[o]
  BY DEF FinalKept
<1>1. o # a /\ o # b  BY DEF Final, Open, OpenStatuses
<1>2. QED  BY <1>1 DEF TypeOK

\* Writing over one open order keeps the final ones.
LEMMA OneRewritten ==
    ASSUME TypeOK, NEW a \in OrderId, Open(a),
           NEW ra, orders' = [orders EXCEPT ![a] = ra]
    PROVE  FinalKept
<1> SUFFICES ASSUME NEW o \in OrderId, Final(o) PROVE orders'[o] = orders[o]
  BY DEF FinalKept
<1>1. o # a  BY DEF Final, Open, OpenStatuses
<1>2. QED  BY <1>1 DEF TypeOK

\* A new order takes the place of none.
LEMMA PlacementKeepsFinal ==
    ASSUME IInv, NEW row, orders' = [orders EXCEPT ![placed + 1] = row]
    PROVE  FinalKept
<1> SUFFICES ASSUME NEW o \in OrderId, Final(o) PROVE orders'[o] = orders[o]
  BY DEF FinalKept
<1>1. o <= placed /\ placed \in Nat  BY DEF Final, IInv, TypeOK, OrderLife
<1>2. o # placed + 1  BY <1>1
<1>3. QED  BY <1>2 DEF IInv, TypeOK

\* A pass only writes over open orders.
LEMMA PassStepKeepsFinal ==
    ASSUME IInv, NEW p \in Pass, PassStep(p)
    PROVE  FinalKept
<1> DEFINE b == pass[p].buy
           s == pass[p].sell
<1> USE DEF IInv
<1>1. Trusts(pass[p])  BY DEF PeeksTrusted
<1>2. CASE CancelSelfTrade(p)
  <2>1. b # Nobody /\ s # Nobody /\ Fresh(p)
    BY <1>1, <1>2 DEF CancelSelfTrade, Trusts
  <2>2. b \in OrderId /\ Open(b) /\ s \in OrderId /\ Open(s)
    BY <2>1, FreshBuy, FreshSell
  <2>3. orders' = [orders EXCEPT ![b] = Cancelled(b), ![s] = Cancelled(s)]
    BY <1>2 DEF CancelSelfTrade
  <2>4. QED  BY <2>2, <2>3, OpenRewritten
<1>3. CASE FillPair(p)
  <2> DEFINE q == PairQuantity(p)
  <2>1. b # Nobody /\ s # Nobody /\ Fresh(p)  BY <1>1, <1>3 DEF FillPair, Trusts
  <2>2. b \in OrderId /\ Open(b) /\ s \in OrderId /\ Open(s)
    BY <2>1, FreshBuy, FreshSell
  <2>3. orders' = [orders EXCEPT ![b] = BuyFilled(b, q), ![s] = SellFilled(s, q)]
    BY <1>3 DEF FillPair
  <2>4. QED  BY <2>2, <2>3, OpenRewritten
<1>4. CASE FillMakerBuy(p)
  <2> DEFINE q == LesserOf(Remaining(b), pass[p].liquidity)
  <2>1. b # Nobody /\ Fresh(p)  BY <1>1, <1>4 DEF FillMakerBuy, Trusts
  <2>2. b \in OrderId /\ Open(b)  BY <2>1, FreshBuy
  <2>3. orders' = [orders EXCEPT ![b] = BuyFilled(b, q)]
    BY <1>4 DEF FillMakerBuy
  <2>4. QED  BY <2>2, <2>3, OneRewritten
<1>5. CASE FillMakerSell(p)
  <2> DEFINE q == LesserOf(Remaining(s), pass[p].liquidity)
  <2>1. s # Nobody /\ Fresh(p)  BY <1>1, <1>5 DEF FillMakerSell, Trusts
  <2>2. s \in OrderId /\ Open(s)  BY <2>1, FreshSell
  <2>3. orders' = [orders EXCEPT ![s] = SellFilled(s, q)]
    BY <1>5 DEF FillMakerSell
  <2>4. QED  BY <2>2, <2>3, OneRewritten
<1>6. CASE PeekBuy(p) \/ PeekSell(p) \/ PeekMaker(p) \/ LeaveBook(p) \/ Raise(p)
  <2>1. orders' = orders
    BY <1>6 DEF PeekBuy, PeekSell, PeekMaker, LeaveBook, Raise, book
  <2>2. QED  BY <2>1 DEF FinalKept
<1>7. QED  BY <1>2, <1>3, <1>4, <1>5, <1>6 DEF PassStep

\* No step of the exchange changes a final order.
LEMMA NextKeepsFinal == IInv /\ [Next]_vars => FinalKept
<1> SUFFICES ASSUME IInv, [Next]_vars PROVE FinalKept  OBVIOUS
<1>1. CASE \E u \in User : Place(u)
  <2>1. PICK u \in User, price \in LimitPrices \cup {Market}, qty \in Quantities :
          PlaceBuy(u, price, qty) \/ PlaceSell(u, price, qty)
    BY <1>1 DEF Place
  <2>2. CASE PlaceBuy(u, price, qty)
    BY <2>2, PlacementKeepsFinal DEF PlaceBuy
  <2>3. CASE PlaceSell(u, price, qty)
    BY <2>3, PlacementKeepsFinal DEF PlaceSell
  <2>4. QED  BY <2>1, <2>2, <2>3
<1>2. CASE \E o \in OrderId : CancelOrder(o)
  <2>1. PICK o \in OrderId : Open(o) /\ orders' = [orders EXCEPT ![o] = Cancelled(o)]
    BY <1>2 DEF CancelOrder
  <2>2. QED  BY <2>1, OneRewritten DEF IInv
<1>3. CASE \E p \in Pass : PassStep(p)
  BY <1>3, PassStepKeepsFinal
<1>4. CASE UNCHANGED orders
  BY <1>4 DEF FinalKept
<1>5. (\E p \in Pass : StartPass(p) \/ Fail(p)) \/ ReleaseDue \/ Clock
        \/ (\E price \in MarketPrices : UpdatePrice(price))
        \/ (\E u \in User, amount \in Rewards : CreditCash(u, amount))
        \/ UNCHANGED vars
      => UNCHANGED orders
  BY DEF StartPass, Fail, ReleaseDue, Clock, UpdatePrice, CreditCash, vars, book
<1>6. QED  BY <1>1, <1>2, <1>3, <1>4, <1>5 DEF Next

\* A filled or cancelled order never changes again (cancel_order's status test,
\* and the version_id of a row some pass peeked before it became final).
THEOREM FinalForGood == Spec => FinalIsFinal
<1>1. IInv /\ [Next]_vars
        => [\A o \in OrderId : orders[o].status \in {"filled", "cancelled"}
                                 => orders'[o] = orders[o]]_vars
  BY NextKeepsFinal DEF FinalKept, Final
<1>2. QED  BY <1>1, Invariance, PTL DEF Spec, FinalIsFinal

-----------------------------------------------------------------------------
(* Arithmetic of the books *)

\* Whole multiples of the divisor pass through a division.
LEMMA DivShift ==
    ASSUME NEW n \in Int, NEW a \in Int, NEW m \in Nat \ {0}
    PROVE  (n + a * m) \div m = a + (n \div m)
<1> DEFINE q == n \div m
           r == n % m
<1>1. q \in Int /\ r \in 0 .. m - 1 /\ n = m * q + r  BY SMT
<1>2. n + a * m = m * (a + q) + r  BY <1>1, SMT
<1>3. a + q \in Int  BY <1>1
<1> HIDE DEF q, r
<1>4. (m * (a + q) + r) \div m = a + q  BY <1>1, <1>3, SMT
<1>5. QED  BY <1>2, <1>4 DEF q

\* Whole cents pass through the rounding of a sum that is not negative.
LEMMA RoundShift ==
    ASSUME NEW n \in Nat, NEW a \in Nat, NEW d \in Nat \ {0}
    PROVE  Round(n + a * d, d) = a + Round(n, d)
<1>1. n + a * d \in Nat /\ a * d \in Nat  BY SMT
<1>2. Round(n + a * d, d) = (2 * (n + a * d) + d) \div (2 * d)
  BY <1>1 DEF Round
<1>3. 2 * (n + a * d) + d = (2 * n + d) + a * (2 * d)  BY SMT
<1>4. ((2 * n + d) + a * (2 * d)) \div (2 * d) = a + (2 * n + d) \div (2 * d)
  <2> DEFINE k == 2 * n + d
             m == 2 * d
  <2>1. k \in Int /\ m \in Nat \ {0}  OBVIOUS
  <2>2. a \in Int  OBVIOUS
  <2> HIDE DEF k, m
  <2>3. (k + a * m) \div m = a + (k \div m)  BY <2>1, <2>2, DivShift
  <2>4. QED  BY <2>3 DEF k, m
<1>5. Round(n, d) = (2 * n + d) \div (2 * d)  BY DEF Round
<1>6. QED  BY <1>2, <1>3, <1>4, <1>5

\* Rounding does not change a sign, and adds at most a half.
LEMMA RoundBounds ==
    ASSUME NEW n \in Nat, NEW d \in Nat \ {0}
    PROVE  /\ Round(n, d) \in Nat
           /\ 2 * d * Round(n, d) <= 2 * n + d
<1> DEFINE k == 2 * n + d
           m == 2 * d
<1>1. k \in Nat /\ m \in Nat \ {0}  OBVIOUS
<1>2. Round(n, d) = k \div m  BY DEF Round
<1> HIDE DEF k, m
<1>3. k \div m \in Nat /\ m * (k \div m) <= k  BY <1>1, SMT
<1>4. QED  BY <1>2, <1>3 DEF k, m

\* Whole cents are not rounded.
LEMMA RoundWhole ==
    ASSUME NEW a \in Nat, NEW d \in Nat \ {0}
    PROVE  Round(a * d, d) = a
<1>1. Round(0 + a * d, d) = a + Round(0, d)  BY RoundShift
<1>2. a * d \in Nat  BY SMT
<1>3. QED  BY <1>1, <1>2, RoundZero

\* Nor is anything over one.
LEMMA RoundOne ==
    ASSUME NEW n \in Int
    PROVE  Round(n, 1) = n
<1>1. CASE n >= 0
  <2>1. Round(n, 1) = (2 * n + 2 * 0 + 1) \div 2  BY <1>1 DEF Round
  <2>2. (2 * n + 1) \div 2 = n  BY SMT
  <2>3. QED  BY <2>1, <2>2
<1>2. CASE ~(n >= 0)
  <2>1. Round(n, 1) = - ((1 - 2 * n) \div 2)  BY <1>2 DEF Round
  <2>2. (1 - 2 * n) \div 2 = - n  BY SMT
  <2>3. QED  BY <2>1, <2>2
<1>3. QED  BY <1>1, <1>2

\* A sale brings in no less than its fee and its tax.
LEMMA ProceedsNat ==
    ASSUME NEW q \in Nat, NEW p \in Nat
    PROVE  Proceeds(q, p) \in Nat
<1> DEFINE g == q * p
           F == FeeNum
           T == TaxNum
           D == RateDen
           a == Round(g * F, D)
           b == Round(g * T, D)
<1>1. g \in Nat  BY SMT
<1>2. g * F \in Nat /\ g * T \in Nat
  <2> HIDE DEF g
  <2> QED  BY <1>1, SMT
<1>3. /\ a \in Nat /\ 2 * D * a <= 2 * (g * F) + D
      /\ b \in Nat /\ 2 * D * b <= 2 * (g * T) + D
  <2> HIDE DEF g
  <2> QED  BY <1>2, RoundBounds
<1>4. D \in Nat \ {0} /\ F \in Nat /\ T \in Nat /\ 2 * (F + T) <= D
  BY RatesAssumption
<1> HIDE DEF g, F, T, D, a, b
<1>5. 2 * D * (a + b) <= g * D + 2 * D
  <2>1. 2 * D * (a + b) = 2 * D * a + 2 * D * b  BY <1>3, <1>4, SMT
  <2>2. 2 * (g * F) + 2 * (g * T) = g * (2 * (F + T))  BY <1>1, <1>4, SMT
  <2>3. g * (2 * (F + T)) <= g * D  BY <1>1, <1>4, SMT
  <2>4. /\ 2 * D * a \in Int /\ 2 * D * b \in Int /\ g * F \in Int /\ g * T \in Int
        /\ g * D \in Int /\ g * (2 * (F + T)) \in Int
    BY <1>1, <1>3, <1>4, SMT
  <2>5. QED  BY <1>3, <1>4, <2>1, <2>2, <2>3, <2>4
<1>6. 2 * (a + b) <= g + 2
  <2>1. g * D + 2 * D = (g + 2) * D /\ 2 * D * (a + b) = (2 * (a + b)) * D
    BY <1>1, <1>3, <1>4, SMT
  <2> DEFINE x == 2 * (a + b)
             y == g + 2
  <2>2. x \in Nat /\ y \in Nat  BY <1>1, <1>3
  <2> HIDE DEF x, y
  <2>3. x * D <= y * D  BY <1>5, <2>1 DEF x, y
  <2>4. x <= y  BY <1>4, <2>2, <2>3, SMT
  <2>5. QED  BY <2>4 DEF x, y
<1>7. a + b <= g
  <2>1. CASE g >= 2  BY <1>1, <1>3, <1>6, <2>1
  <2>2. CASE g = 0
    <3>1. g * F = 0 /\ g * T = 0  BY <1>4, <2>2, SMT
    <3>2. a = 0 /\ b = 0  BY <1>4, <3>1, RoundZero DEF a, b
    <3>3. QED  BY <2>2, <3>2
  <2>3. CASE g = 1
    <3>1. g * D = D  BY <1>4, <2>3, SMT
    <3>2. g * F = F /\ g * T = T  BY <1>4, <2>3, SMT
    <3>3. 2 * D * a + 2 * D * b <= 2 * F + 2 * T + 2 * D
      <4>1. 2 * D * a \in Int /\ 2 * D * b \in Int  BY <1>3, <1>4, SMT
      <4>2. QED  BY <1>3, <1>4, <3>2, <4>1
    <3>4. 2 * D * (a + b) <= 3 * D
      <4>1. 2 * D * (a + b) = 2 * D * a + 2 * D * b  BY <1>3, <1>4, SMT
      <4>2. 2 * D * a \in Int /\ 2 * D * b \in Int  BY <1>3, <1>4, SMT
      <4>3. QED  BY <1>4, <3>3, <4>1, <4>2
    <3>5. a + b < 2
      <4> SUFFICES ASSUME a + b >= 2 PROVE FALSE  BY <1>3
      <4>1. 2 * D * (a + b) >= 4 * D  BY <1>3, <1>4, SMT
      <4>2. 2 * D * (a + b) \in Int  BY <1>3, <1>4, SMT
      <4> DEFINE x == 2 * D * (a + b)
      <4> HIDE DEF x
      <4>3. x >= 4 * D /\ x <= 3 * D /\ x \in Int  BY <3>4, <4>1, <4>2 DEF x
      <4>4. QED  BY <1>4, <4>3
    <3>6. QED  BY <1>3, <2>3, <3>5
  <2>4. QED  BY <1>1, <2>1, <2>2, <2>3
<1>8. Proceeds(q, p) = g - a - b  BY DEF Proceeds, Fee, Tax, g, a, b, F, T, D
<1>9. QED  BY <1>1, <1>3, <1>7, <1>8

\* Rounding loses less than half a unit, of what is negative exactly half at
\* most.
LEMMA RoundNear ==
    ASSUME NEW n \in Int, NEW d \in Nat \ {0}
    PROVE  /\ Round(n, d) \in Int
           /\ 2 * d * Round(n, d) >= 2 * n - d
           /\ n >= 0 => 2 * d * Round(n, d) >= 2 * n - d + 1
<1>1. 2 * d \in Nat \ {0}  OBVIOUS
<1>2. CASE n >= 0
  <2> DEFINE k == 2 * n + d
             m == 2 * d
  <2>1. k \in Nat /\ m \in Nat \ {0}  BY <1>1, <1>2
  <2> HIDE DEF k, m
  <2>2. m * (k \div m) + m >= k + 1 /\ k \div m \in Int  BY <2>1, SMT
  <2>3. Round(n, d) = k \div m  BY <1>2 DEF Round, k, m
  <2>4. 2 * d * Round(n, d) + 2 * d >= 2 * n + d + 1 /\ Round(n, d) \in Int
    BY <2>2, <2>3 DEF k, m
  <2> DEFINE x == 2 * d * Round(n, d)
  <2>5. x \in Int  BY <1>1, <2>4
  <2> HIDE DEF x
  <2>6. x + 2 * d >= 2 * n + d + 1  BY <2>4 DEF x
  <2>7. x >= 2 * n - d + 1  BY <2>5, <2>6
  <2>8. QED  BY <2>4, <2>5, <2>7 DEF x
<1>3. CASE ~(n >= 0)
  <2> DEFINE k == d - 2 * n
             m == 2 * d
             r == k \div m
  <2>1. k \in Nat /\ m \in Nat \ {0}  BY <1>1, <1>3
  <2> HIDE DEF k, m
  <2>2. m * r <= k /\ r \in Int  BY <2>1, SMT
  <2>3. m * (-r) = -(m * r) /\ m * r \in Int  BY <2>1, <2>2, SMT
  <2>4. Round(n, d) = -r  BY <1>3 DEF Round, k, m
  <2> HIDE DEF r
  <2>5. m * (-r) >= -k  BY <2>1, <2>2, <2>3
  <2>6. QED  BY <1>3, <2>2, <2>4, <2>5 DEF k, m
<1>4. QED  BY <1>2, <1>3

\* Less than one more of a unit is none.
LEMMA WholeUnits ==
    ASSUME NEW m \in Nat \ {0}, NEW x \in Int, NEW y \in Int, m * x > m * y - m
    PROVE  x >= y
  BY SMT

\* Two roundings of what adds up to a whole number never lose.
LEMMA RoundPair ==
    ASSUME NEW n \in Int, NEW k \in Nat, NEW d \in Nat \ {0}, NEW a \in Int, n + k = a * d
    PROVE  Round(n, d) + Round(k, d) >= a
<1> DEFINE x == Round(n, d)
           y == Round(k, d)
           m == 2 * d
<1>1. /\ x \in Int /\ y \in Int /\ m \in Nat \ {0}
      /\ m * x >= 2 * n - d /\ m * y >= 2 * k - d + 1
  BY RoundNear
<1>2. m * a = 2 * (a * d) /\ m = 2 * d
  BY SMT
<1> HIDE DEF x, y, m
<1>3. m * x + m * y = m * (x + y) /\ m * x \in Int /\ m * y \in Int /\ m * a \in Int
  BY <1>1, SMT
<1>4. m * (x + y) > m * a - m
  <2> DEFINE mx == m * x
             my == m * y
             ma == m * a
             ad == a * d
  <2>1. mx \in Int /\ my \in Int /\ ma \in Int  BY <1>3
  <2>2. mx >= 2 * n - d /\ my >= 2 * k - d + 1 /\ ma = 2 * ad /\ n + k = ad /\ ad \in Int
    BY <1>1, <1>2
  <2> HIDE DEF mx, my, ma, ad
  <2>3. mx + my > ma - m  BY <1>1, <1>2, <2>1, <2>2
  <2>4. QED  BY <1>3, <2>3 DEF mx, my, ma
<1>5. x + y >= a  BY <1>1, <1>4, WholeUnits
<1>6. QED  BY <1>5 DEF x, y

\* Rounding keeps the order.
LEMMA RoundGrows ==
    ASSUME NEW n \in Nat, NEW k \in Nat, n <= k, NEW d \in Nat \ {0}
    PROVE  Round(n, d) <= Round(k, d)
<1> DEFINE x == Round(n, d)
           y == Round(k, d)
           m == 2 * d
<1>1. /\ x \in Int /\ y \in Int /\ m \in Nat \ {0}
      /\ m * x <= 2 * n + d /\ m * y >= 2 * k - d + 1
  BY RoundNear, RoundBounds
<1> HIDE DEF x, y
<1>2. m * y > m * x - m
  <2> DEFINE mx == m * x
             my == m * y
  <2>1. mx \in Int /\ my \in Int  BY <1>1
  <2>2. mx <= 2 * n + d /\ my >= 2 * k - d + 1  BY <1>1
  <2> HIDE DEF mx, my
  <2>3. my > mx - 2 * d  BY <2>1, <2>2
  <2>4. QED  BY <2>3 DEF mx, my
<1> HIDE DEF m
<1>3. y >= x  BY <1>1, <1>2, WholeUnits
<1>4. QED  BY <1>1, <1>3 DEF x, y

\* A lower price never costs more.
LEMMA DebitGrows ==
    ASSUME NEW q \in Nat, NEW p \in Nat, NEW l \in Nat, p <= l
    PROVE  Debit(q, p) <= Debit(q, l) /\ Debit(q, p) \in Int /\ Debit(q, l) \in Int
<1> DEFINE g == q * p
           h == q * l
<1>1. g \in Nat /\ h \in Nat /\ g <= h  BY SMT
<1> HIDE DEF g, h
<1>2. g * FeeNum \in Nat /\ h * FeeNum \in Nat /\ g * FeeNum <= h * FeeNum
  BY <1>1, SMT
<1> DEFINE a == g * FeeNum
           c == h * FeeNum
<1>3. a \in Nat /\ c \in Nat /\ a <= c  BY <1>2
<1> HIDE DEF a, c
<1>4. Round(a, RateDen) <= Round(c, RateDen)  BY <1>3, RoundGrows
<1>5. Round(a, RateDen) \in Int /\ Round(c, RateDen) \in Int  BY <1>3, RoundNear
<1>6. Debit(q, p) = g + Round(a, RateDen) /\ Debit(q, l) = h + Round(c, RateDen)
  BY DEF Debit, Fee, g, h, a, c
<1>7. QED  BY <1>1, <1>4, <1>5, <1>6

\* Whole cents are not rounded, below zero either.
LEMMA RoundExact ==
    ASSUME NEW a \in Int, NEW d \in Nat \ {0}
    PROVE  Round(a * d, d) = a
<1>1. CASE a >= 0  BY <1>1, RoundWhole
<1>2. CASE ~(a >= 0)
  <2>1. a * d \in Int /\ a * d < 0  BY <1>2, SMT
  <2>2. Round(a * d, d) = - ((d - 2 * (a * d)) \div (2 * d))  BY <2>1 DEF Round
  <2>3. d - 2 * (a * d) = d + (-a) * (2 * d)  BY SMT
  <2>4. (d + (-a) * (2 * d)) \div (2 * d) = -a + (d \div (2 * d))
    <3> DEFINE m == 2 * d
    <3>1. m \in Nat \ {0} /\ -a \in Int /\ d \in Int  OBVIOUS
    <3> HIDE DEF m
    <3>2. (d + (-a) * m) \div m = -a + (d \div m)  BY <3>1, DivShift
    <3>3. QED  BY <3>2 DEF m
  <2>5. d \div (2 * d) = 0  BY SMT
  <2>6. QED  BY <2>2, <2>3, <2>4, <2>5
<1>3. QED  BY <1>1, <1>2

\* Two roundings of what adds up to a whole number never lose; of whole numbers
\* they gain nothing.
LEMMA RoundPairWhole ==
    ASSUME NEW n \in Int, NEW k \in Nat, NEW d \in Nat \ {0}, NEW a \in Int, n + k = a * d
    PROVE  /\ Round(n, d) \in Int /\ Round(k, d) \in Int
           /\ Round(n, d) + Round(k, d) >= a
           /\ (\E f \in Int : k = f * d) => Round(n, d) + Round(k, d) = a
<1>1. Round(n, d) \in Int /\ Round(k, d) \in Int
  <2>1. k \in Int  OBVIOUS
  <2>2. QED  BY <2>1, RoundInt
<1>2. ASSUME NEW f \in Int, k = f * d PROVE Round(n, d) + Round(k, d) = a
  <2>1. f * d \in Int /\ a * d \in Int /\ (a - f) * d = a * d - f * d  BY SMT
  <2>2. n = (a - f) * d  BY <1>2, <2>1
  <2>3. a - f \in Int  OBVIOUS
  <2>4. Round(n, d) = a - f /\ Round(k, d) = f  BY <1>2, <2>2, <2>3, RoundExact
  <2>5. QED  BY <2>4
<1>3. Round(n, d) + Round(k, d) >= a  BY RoundPair
<1>4. QED  BY <1>1, <1>2, <1>3

-----------------------------------------------------------------------------
(* Sums over the order book *)

\* What a row offers for sale, and what it holds frozen, of user u.
OfferedRow(row, u) ==
    IF row.user = u /\ row.side = "sell" /\ row.status \in OpenStatuses
    THEN row.quantity - row.filled ELSE 0

HeldRow(row, u) == IF row.user = u /\ row.side = "buy" THEN row.frozen ELSE 0

OfferedBy(rows, u) == [o \in OrderId |-> OfferedRow(rows[o], u)]
HeldBy(rows, u)    == [o \in OrderId |-> HeldRow(rows[o], u)]

Offered(rows, u) == SumFunctionOnSet(OfferedBy(rows, u), OrderId)
Frozen(rows, u)  == SumFunctionOnSet(HeldBy(rows, u), OrderId)

\* The book is finite, so its sums are defined.
LEMMA OrdersFinite == IsFiniteSet(OrderId)
<1>1. 1 \in Int /\ MaxOrders \in Int  OBVIOUS
<1>2. QED  BY <1>1, FS_Interval

\* The columns of a row are numbers.
LEMMA RowNumbers ==
    ASSUME NEW row \in OrderRows, NEW u
    PROVE  OfferedRow(row, u) \in Int /\ HeldRow(row, u) \in Int
  BY DEF OrderRows, OfferedRow, HeldRow

\* What a user offers is a whole number of shares.
LEMMA OfferedInt ==
    ASSUME NEW rows \in [OrderId -> OrderRows], NEW u
    PROVE  /\ \A o \in OrderId : OfferedBy(rows, u)[o] \in Int
           /\ Offered(rows, u) \in Int
<1>1. \A o \in OrderId : OfferedBy(rows, u)[o] \in Int
  <2>1. \A o \in OrderId : OfferedBy(rows, u)[o] = OfferedRow(rows[o], u)
    BY DEF OfferedBy
  <2>2. QED  BY <2>1, RowNumbers
<1>2. QED  BY <1>1, OrdersFinite, SumInt DEF Offered

\* What a user's buys hold frozen is a whole number of cents.
LEMMA FrozenInt ==
    ASSUME NEW rows \in [OrderId -> OrderRows], NEW u
    PROVE  /\ \A o \in OrderId : HeldBy(rows, u)[o] \in Int
           /\ Frozen(rows, u) \in Int
<1>1. \A o \in OrderId : HeldBy(rows, u)[o] \in Int
  <2>1. \A o \in OrderId : HeldBy(rows, u)[o] = HeldRow(rows[o], u)
    BY DEF HeldBy
  <2>2. QED  BY <2>1, RowNumbers
<1>2. QED  BY <1>1, OrdersFinite, SumInt DEF Frozen

\* When one row changes what it offers, the sum changes by as much.
LEMMA OfferedMoves ==
    ASSUME NEW old \in [OrderId -> OrderRows], NEW new \in [OrderId -> OrderRows],
           NEW u, NEW s \in OrderId,
           \A o \in OrderId \ {s} : OfferedRow(new[o], u) = OfferedRow(old[o], u)
    PROVE  Offered(new, u)
             = Offered(old, u) + OfferedRow(new[s], u) - OfferedRow(old[s], u)
<1> DEFINE f == OfferedBy(old, u)
           g == OfferedBy(new, u)
<1>1. \A o \in OrderId : f[o] \in Int /\ g[o] \in Int  BY OfferedInt
<1>2. \A o \in OrderId \ {s} : g[o] = f[o]  BY DEF OfferedBy
<1>3. f[s] = OfferedRow(old[s], u) /\ g[s] = OfferedRow(new[s], u)  BY DEF OfferedBy
<1> HIDE DEF f, g
<1>4. SumFunctionOnSet(g, OrderId) = SumFunctionOnSet(f, OrderId) + g[s] - f[s]
  BY <1>1, <1>2, OrdersFinite, SumUpdate
<1>5. QED  BY <1>3, <1>4 DEF Offered, f, g

\* When only one order's frozen cash changes, the sum changes by as much.
LEMMA FrozenMoves ==
    ASSUME NEW old \in [OrderId -> OrderRows], NEW new \in [OrderId -> OrderRows],
           NEW u, NEW b \in OrderId,
           \A o \in OrderId \ {b} : HeldRow(new[o], u) = HeldRow(old[o], u)
    PROVE  Frozen(new, u)
             = Frozen(old, u) + HeldRow(new[b], u) - HeldRow(old[b], u)
<1> DEFINE f == HeldBy(old, u)
           g == HeldBy(new, u)
<1>1. \A o \in OrderId : f[o] \in Int /\ g[o] \in Int  BY FrozenInt
<1>2. \A o \in OrderId \ {b} : g[o] = f[o]  BY DEF HeldBy
<1>3. f[b] = HeldRow(old[b], u) /\ g[b] = HeldRow(new[b], u)  BY DEF HeldBy
<1> HIDE DEF f, g
<1>4. SumFunctionOnSet(g, OrderId) = SumFunctionOnSet(f, OrderId) + g[b] - f[b]
  BY <1>1, <1>2, OrdersFinite, SumUpdate
<1>5. QED  BY <1>3, <1>4 DEF Frozen, f, g

\* A step that leaves every row's part alone leaves the sums alone.
LEMMA BookSame ==
    ASSUME NEW old \in [OrderId -> OrderRows], NEW new \in [OrderId -> OrderRows],
           NEW u
    PROVE  /\ (\A o \in OrderId : OfferedRow(new[o], u) = OfferedRow(old[o], u))
                => Offered(new, u) = Offered(old, u)
           /\ (\A o \in OrderId : HeldRow(new[o], u) = HeldRow(old[o], u))
                => Frozen(new, u) = Frozen(old, u)
<1>1. ASSUME \A o \in OrderId : OfferedRow(new[o], u) = OfferedRow(old[o], u)
      PROVE  Offered(new, u) = Offered(old, u)
  <2>1. OfferedBy(new, u) = OfferedBy(old, u)  BY <1>1 DEF OfferedBy
  <2>2. QED  BY <2>1 DEF Offered
<1>2. ASSUME \A o \in OrderId : HeldRow(new[o], u) = HeldRow(old[o], u)
      PROVE  Frozen(new, u) = Frozen(old, u)
  <2>1. HeldBy(new, u) = HeldBy(old, u)  BY <1>2 DEF HeldBy
  <2>2. QED  BY <2>1 DEF Frozen
<1>3. QED  BY <1>1, <1>2

-----------------------------------------------------------------------------
(* The sums of the properties are these sums *)

\* The sum of FrozenIsOffered, over open sells only, is the sum over the book.
LEMMA OfferedIsSum ==
    ASSUME TypeOK, NEW u
    PROVE  SumFunction([o \in {x \in OrdersOf(u, "sell") : Open(x)} |-> Remaining(o)])
             = Offered(orders, u)
<1> DEFINE T == {x \in OrdersOf(u, "sell") : Open(x)}
           f == [o \in T |-> Remaining(o)]
           g == OfferedBy(orders, u)
<1>1. T \in SUBSET OrderId /\ IsFiniteSet(T)  BY OrdersFinite, FS_Subset DEF OrdersOf
<1>2. \A o \in OrderId : g[o] \in Int  BY OfferedInt DEF TypeOK
<1>3. \A o \in OrderId \ T : g[o] = 0  BY DEF OfferedBy, OfferedRow, OrdersOf, Open
<1>4. \A o \in T : f[o] = g[o]
  BY DEF OfferedBy, OfferedRow, OrdersOf, Open, Remaining
<1>5. DOMAIN f = T  OBVIOUS
<1> HIDE DEF f, g, T
<1>6. SumFunctionOnSet(f, T) = SumFunctionOnSet(g, T)  BY <1>1, <1>4, SumSame
<1>7. SumFunctionOnSet(g, OrderId) = SumFunctionOnSet(g, T)
  BY <1>1, <1>2, <1>3, OrdersFinite, SumWithin
<1>8. QED  BY <1>5, <1>6, <1>7 DEF Offered, SumFunction, f, g, T

\* The sum of CashEscrow, over the user's buys only, is the sum over the book.
LEMMA FrozenIsSum ==
    ASSUME TypeOK, NEW u
    PROVE  Held(u) = Frozen(orders, u)
<1> DEFINE T == OrdersOf(u, "buy")
           f == [o \in T |-> orders[o].frozen]
           g == HeldBy(orders, u)
<1>1. T \in SUBSET OrderId /\ IsFiniteSet(T)  BY OrdersFinite, FS_Subset DEF OrdersOf
<1>2. \A o \in OrderId : g[o] \in Int  BY FrozenInt DEF TypeOK
<1>3. \A o \in OrderId \ T : g[o] = 0  BY DEF HeldBy, HeldRow, OrdersOf
<1>4. \A o \in T : f[o] = g[o]  BY DEF HeldBy, HeldRow, OrdersOf
<1>5. DOMAIN f = T  OBVIOUS
<1> HIDE DEF f, g, T
<1>6. SumFunctionOnSet(f, T) = SumFunctionOnSet(g, T)  BY <1>1, <1>4, SumSame
<1>7. SumFunctionOnSet(g, OrderId) = SumFunctionOnSet(g, T)
  BY <1>1, <1>2, <1>3, OrdersFinite, SumWithin
<1>8. QED  BY <1>5, <1>6, <1>7 DEF Held, Frozen, SumFunction, f, g, T

-----------------------------------------------------------------------------
(* The inductive invariant *)

\* Frozen shares are the offered ones, and they are there.
ShareBook == \A u \in User : /\ portfolio[u].frozen_quantity = Offered(orders, u)
                             /\ portfolio[u].frozen_quantity <= portfolio[u].quantity

\* Every unsettled sale is of an earlier fill, brings in something, and is what
\* the seller's account waits for.
SaleBook ==
    /\ \A t \in unsettled : /\ t.amount \in Nat
                            /\ t.order <= placed
                            /\ t.fill <= orders[t.order].filled
    /\ SettlingBacked

\* The frozen cash of the accounts backs the frozen cash of the orders.
CashBook ==
    /\ struck \in [User -> Nat]
    /\ \A o \in OrderId : /\ orders[o].frozen \in Nat
                          /\ o > placed => orders[o].frozen = 0
    /\ \A u \in User : /\ user[u].frozen_cash >= Frozen(orders, u)
                       /\ struck[u] = 0 => user[u].frozen_cash = Frozen(orders, u)

LedgerInv == IInv /\ ShareBook /\ SharesConserved /\ SaleBook /\ CashBook

-----------------------------------------------------------------------------
(* What the actions do to the ledger *)

\* A buy and a sell of two users are filled.
PairTrade(b, s, q, price, simAt) ==
    LET buyer == orders[b].user
        seller == orders[s].user
    IN  /\ b \in OrderId /\ Open(b) /\ orders[b].side = "buy" /\ buyer \in User
        /\ s \in OrderId /\ Open(s) /\ orders[s].side = "sell" /\ seller \in User
        /\ buyer # seller /\ b # s
        /\ q \in 1 .. Remaining(b) /\ q \in 1 .. Remaining(s)
        /\ price \in Nat /\ simAt \in Nat
        /\ user' = [user EXCEPT ![buyer] = Paid(user[buyer], b, q, price),
                                ![seller] = Sold(user[seller], q, price)]
        /\ portfolio' = [portfolio EXCEPT
                            ![buyer] = Received(portfolio[buyer], q),
                            ![seller] = Delivered(portfolio[seller], q)]
        /\ orders' = [orders EXCEPT ![b] = BuyFilled(b, q), ![s] = SellFilled(s, q)]
        /\ unsettled' = unsettled \cup {SellTransaction(s, q, price, simAt)}
        /\ house'.shares = house.shares
        /\ UNCHANGED placed

\* A buy is filled by the market maker.
MakerSells(b, q, price) ==
    LET buyer == orders[b].user
    IN  /\ b \in OrderId /\ Open(b) /\ orders[b].side = "buy" /\ buyer \in User
        /\ q \in 1 .. Remaining(b) /\ price \in Int
        /\ user' = [user EXCEPT ![buyer] = Paid(user[buyer], b, q, price)]
        /\ portfolio' = [portfolio EXCEPT ![buyer] = Received(portfolio[buyer], q)]
        /\ orders' = [orders EXCEPT ![b] = BuyFilled(b, q)]
        /\ house'.shares = house.shares - q
        /\ UNCHANGED <<placed, unsettled>>

\* A sell is filled by the market maker.
MakerBuys(s, q, price, simAt) ==
    LET seller == orders[s].user
    IN  /\ s \in OrderId /\ Open(s) /\ orders[s].side = "sell" /\ seller \in User
        /\ q \in 1 .. Remaining(s) /\ price \in Nat /\ simAt \in Nat
        /\ user' = [user EXCEPT ![seller] = Sold(user[seller], q, price)]
        /\ portfolio' = [portfolio EXCEPT ![seller] = Delivered(portfolio[seller], q)]
        /\ orders' = [orders EXCEPT ![s] = SellFilled(s, q)]
        /\ unsettled' = unsettled \cup {SellTransaction(s, q, price, simAt)}
        /\ house'.shares = house.shares + q
        /\ UNCHANGED placed

\* A pair of orders of one user is cancelled.
PairCancelled(b, s) ==
    LET u == orders[b].user
    IN  /\ b \in OrderId /\ Open(b) /\ orders[b].side = "buy" /\ u \in User
        /\ s \in OrderId /\ Open(s) /\ orders[s].side = "sell" /\ orders[s].user = u
        /\ b # s
        /\ user' = [user EXCEPT ![u] = Refunded(user[u], orders[b].frozen)]
        /\ portfolio' = [portfolio EXCEPT ![u].frozen_quantity = @ - Remaining(s)]
        /\ orders' = [orders EXCEPT ![b] = Cancelled(b), ![s] = Cancelled(s)]
        /\ UNCHANGED <<placed, unsettled, house>>

\* The ledger stays as it is.
Quiet == UNCHANGED <<user, portfolio, book, unsettled, house>>

-----------------------------------------------------------------------------
(* The effects of the fills *)

\* An impact of at most SlipNum / RateDen leaves a price.
LEMMA MakerPriceNat ==
    ASSUME NEW q \in Nat, NEW market \in Nat
    PROVE  MakerPrice("buy", q, market) \in Nat /\ MakerPrice("sell", q, market) \in Nat
<1> DEFINE den    == Depth * RateDen
           impact == LesserOf(LesserOf(q, Depth) * ImpactNum, SlipNum * Depth)
<1>1. den \in Nat \ {0}  BY ProductPositive
<1>2. impact \in Nat /\ impact <= den
  <2>1. LesserOf(q, Depth) \in Nat  BY DEF LesserOf
  <2>2. LesserOf(q, Depth) * ImpactNum \in Nat  BY <2>1, SMT
  <2>3. SlipNum * Depth \in Nat /\ SlipNum * Depth <= Depth * RateDen  BY SMT
  <2>4. QED  BY <2>2, <2>3 DEF LesserOf
<1>3. ASSUME NEW k \in Nat PROVE RoundToTick(market * k, den) \in Nat
  <2>1. market * k \in Nat  BY SMT
  <2>2. den * TickSize \in Nat \ {0}  BY <1>1, ProductPositive
  <2>3. Round(market * k, den * TickSize) \in Nat  BY <2>1, <2>2, RoundBounds
  <2>4. QED  BY <2>3, SMT DEF RoundToTick
<1>4. den + impact \in Nat /\ den - impact \in Nat  BY <1>1, <1>2
<1>5. /\ MakerPrice("buy", q, market) = RoundToTick(market * (den + impact), den)
      /\ MakerPrice("sell", q, market) = RoundToTick(market * (den - impact), den)
  BY DEF MakerPrice
<1> HIDE DEF den, impact
<1>6. QED  BY <1>3, <1>4, <1>5

\* A user-to-user fill is a trade of its pair.
LEMMA FillPairTrades ==
    ASSUME IInv, NEW p \in Pass, FillPair(p)
    PROVE  PairTrade(pass[p].buy, pass[p].sell, PairQuantity(p), PairFillPrice(p),
                     pass[p].simAt)
<1> DEFINE b == pass[p].buy
           s == pass[p].sell
           q == PairQuantity(p)
           price == PairFillPrice(p)
           buyer == orders[b].user
           seller == orders[s].user
<1> USE DEF IInv
<1>1. /\ pass[p] \in PassRows /\ Trusts(pass[p]) /\ pass[p].pc = "pair" /\ Fresh(p)
      /\ buyer # seller
  BY DEF TypeOK, PeeksTrusted, FillPair, SelfTrading
<1>2. /\ b # Nobody /\ s # Nobody
      /\ pass[p].liquidity \in Nat \ {0} /\ pass[p].market \in Nat
      /\ pass[p].simAt \in Nat
  BY <1>1 DEF Trusts, PassRows
<1>3. /\ b \in OrderId /\ Open(b) /\ orders[b].side = "buy"
      /\ Remaining(b) \in Nat \ {0}
      /\ s \in OrderId /\ Open(s) /\ orders[s].side = "sell"
      /\ Remaining(s) \in Nat \ {0}
  BY <1>1, <1>2, FreshBuy, FreshSell
<1>4. q \in 1 .. Remaining(b) /\ q \in 1 .. Remaining(s)
  BY <1>2, <1>3 DEF PairQuantity, LesserOf
<1>5. price \in Nat
  <2>1. orders[b].price \in Nat /\ orders[s].price \in Nat
    BY <1>3 DEF TypeOK, OrderRows
  <2>2. CASE IsMarket(b) /\ IsMarket(s)  BY <1>2, <2>2 DEF PairFillPrice, PairPrice
  <2>3. CASE IsMarket(b) /\ ~IsMarket(s)  BY <2>1, <2>3 DEF PairFillPrice, PairPrice
  <2>4. CASE ~IsMarket(b) /\ IsMarket(s)  BY <2>1, <2>4 DEF PairFillPrice, PairPrice
  <2>5. CASE ~IsMarket(b) /\ ~IsMarket(s)  BY <2>1, <2>5 DEF PairFillPrice, PairPrice
  <2>6. QED  BY <2>2, <2>3, <2>4, <2>5
<1>6. b # s  BY <1>3
<1> HIDE DEF q, price
<1>7. buyer \in User /\ seller \in User  BY <1>3, OpenOrder
<1>8. /\ user' = [user EXCEPT ![buyer] = Paid(user[buyer], b, q, price),
                              ![seller] = Sold(user[seller], q, price)]
      /\ portfolio' = [portfolio EXCEPT ![buyer] = Received(portfolio[buyer], q),
                                        ![seller] = Delivered(portfolio[seller], q)]
  BY <1>1, <1>7 DEF FillPair, q, price, TypeOK
<1>9. /\ orders' = [orders EXCEPT ![b] = BuyFilled(b, q), ![s] = SellFilled(s, q)]
      /\ unsettled' = unsettled \cup {SellTransaction(s, q, price, pass[p].simAt)}
      /\ placed' = placed
  BY DEF FillPair, q, price
<1>10. house'.shares = house.shares  BY DEF FillPair, TypeOK
<1>11. PairTrade(b, s, q, price, pass[p].simAt)
  BY <1>1, <1>2, <1>3, <1>4, <1>5, <1>6, <1>7, <1>8, <1>9, <1>10 DEF PairTrade
<1>12. QED  BY <1>11 DEF q, price

\* A fill against the market maker sells to the buyer.
LEMMA FillMakerBuyTrades ==
    ASSUME IInv, NEW p \in Pass, FillMakerBuy(p)
    PROVE  LET q == LesserOf(Remaining(pass[p].buy), pass[p].liquidity)
           IN  MakerSells(pass[p].buy, q, MakerBuyPrice(pass[p].buy, q, pass[p].market))
<1> DEFINE b == pass[p].buy
           q == LesserOf(Remaining(b), pass[p].liquidity)
           price == MakerBuyPrice(b, q, pass[p].market)
           u == orders[b].user
<1> USE DEF IInv
<1>1. pass[p] \in PassRows /\ Trusts(pass[p]) /\ pass[p].pc = "makerBuy" /\ Fresh(p)
  BY DEF TypeOK, PeeksTrusted, FillMakerBuy
<1>2. b # Nobody /\ pass[p].liquidity \in Nat \ {0} /\ pass[p].market \in Int
  BY <1>1 DEF Trusts, PassRows
<1>3. /\ b \in OrderId /\ Open(b) /\ orders[b].side = "buy"
      /\ Remaining(b) \in Nat \ {0}
  BY <1>1, <1>2, FreshBuy
<1>4. q \in 1 .. Remaining(b) /\ q \in Int  BY <1>2, <1>3 DEF LesserOf
<1>5. price \in Int  BY <1>2, <1>3, <1>4, MakerBuyPriceInt
<1> HIDE DEF q, price
<1>6. u \in User  BY <1>3, OpenOrder
<1>7. /\ user' = [user EXCEPT ![u] = Paid(user[u], b, q, price)]
      /\ portfolio' = [portfolio EXCEPT ![u] = Received(portfolio[u], q)]
      /\ orders' = [orders EXCEPT ![b] = BuyFilled(b, q)]
      /\ UNCHANGED <<placed, unsettled>>
  BY DEF FillMakerBuy, q, price
<1>8. house'.shares = house.shares - q  BY DEF FillMakerBuy, TypeOK, q
<1>9. MakerSells(b, q, price)
  BY <1>3, <1>4, <1>5, <1>6, <1>7, <1>8 DEF MakerSells
<1>10. QED  BY <1>9 DEF q, price

\* A fill against the market maker buys from the seller.
LEMMA FillMakerSellTrades ==
    ASSUME IInv, NEW p \in Pass, FillMakerSell(p)
    PROVE  LET q == LesserOf(Remaining(pass[p].sell), pass[p].liquidity)
           IN  MakerBuys(pass[p].sell, q, MakerSellPrice(pass[p].sell, q, pass[p].market),
                         pass[p].simAt)
<1> DEFINE s == pass[p].sell
           q == LesserOf(Remaining(s), pass[p].liquidity)
           price == MakerSellPrice(s, q, pass[p].market)
           u == orders[s].user
<1> USE DEF IInv
<1>1. pass[p] \in PassRows /\ Trusts(pass[p]) /\ pass[p].pc = "makerSell" /\ Fresh(p)
  BY DEF TypeOK, PeeksTrusted, FillMakerSell
<1>2. /\ s # Nobody /\ pass[p].liquidity \in Nat \ {0} /\ pass[p].market \in Nat
      /\ pass[p].simAt \in Nat
  BY <1>1 DEF Trusts, PassRows
<1>3. /\ s \in OrderId /\ Open(s) /\ orders[s].side = "sell"
      /\ Remaining(s) \in Nat \ {0}
  BY <1>1, <1>2, FreshSell
<1>4. q \in 1 .. Remaining(s) /\ q \in Nat  BY <1>2, <1>3 DEF LesserOf
<1>5. price \in Nat
  <2>1. orders[s].price \in Nat  BY <1>3 DEF TypeOK, OrderRows
  <2>2. MakerPrice("sell", q, pass[p].market) \in Nat  BY <1>2, <1>4, MakerPriceNat
  <2>3. QED  BY <2>1, <2>2 DEF MakerSellPrice
<1> HIDE DEF q, price
<1>6. u \in User  BY <1>3, OpenOrder
<1>7. /\ user' = [user EXCEPT ![u] = Sold(user[u], q, price)]
      /\ portfolio' = [portfolio EXCEPT ![u] = Delivered(portfolio[u], q)]
      /\ orders' = [orders EXCEPT ![s] = SellFilled(s, q)]
      /\ unsettled' = unsettled \cup {SellTransaction(s, q, price, pass[p].simAt)}
      /\ UNCHANGED placed
  BY DEF FillMakerSell, q, price
<1>8. house'.shares = house.shares + q  BY DEF FillMakerSell, TypeOK, q
<1>9. MakerBuys(s, q, price, pass[p].simAt)
  BY <1>2, <1>3, <1>4, <1>5, <1>6, <1>7, <1>8 DEF MakerBuys
<1>10. QED  BY <1>9 DEF q, price

\* A self-trade cancels a buy and a sell of one user.
LEMMA CancelSelfTradeCancels ==
    ASSUME IInv, NEW p \in Pass, CancelSelfTrade(p)
    PROVE  PairCancelled(pass[p].buy, pass[p].sell)
<1> DEFINE b == pass[p].buy
           s == pass[p].sell
<1> USE DEF IInv
<1>1. /\ pass[p] \in PassRows /\ Trusts(pass[p]) /\ pass[p].pc = "pair" /\ Fresh(p)
      /\ orders[s].user = orders[b].user
  BY DEF TypeOK, PeeksTrusted, CancelSelfTrade, SelfTrading
<1>2. b # Nobody /\ s # Nobody  BY <1>1 DEF Trusts
<1>3. /\ b \in OrderId /\ Open(b) /\ orders[b].side = "buy"
      /\ s \in OrderId /\ Open(s) /\ orders[s].side = "sell"
  BY <1>1, <1>2, FreshBuy, FreshSell
<1>4. b # s  BY <1>3
<1>5. orders[b].user \in User  BY <1>3, OpenOrder
<1>6. QED  BY <1>1, <1>3, <1>4, <1>5 DEF PairCancelled, CancelSelfTrade

-----------------------------------------------------------------------------
(* What the rows an action writes offer and hold *)

\* What is known of the row of an open order.
LEMMA OpenRow ==
    ASSUME TypeOK, OrderLife, NEW o \in OrderId, Open(o)
    PROVE  /\ orders[o] \in OrderRows /\ RowOK(orders[o])
           /\ orders[o].status \in OpenStatuses
           /\ orders[o].user \in User
           /\ orders[o].quantity \in Nat /\ orders[o].filled \in Nat
           /\ Remaining(o) = orders[o].quantity - orders[o].filled
           /\ Remaining(o) \in Nat \ {0}
<1>1. orders[o] \in OrderRows /\ RowOK(orders[o]) /\ orders[o].status \in OpenStatuses
  BY DEF TypeOK, OrderLife, Open
<1>2. orders[o].user \in User  BY OpenOrder
<1>3. orders[o].quantity \in Nat /\ orders[o].filled \in Nat
      /\ orders[o].filled < orders[o].quantity
  BY <1>1 DEF OrderRows, RowOK, OpenStatuses
<1>4. QED  BY <1>1, <1>2, <1>3 DEF Remaining

\* The tables, in one place.
LEMMA Tables ==
    ASSUME IInv
    PROVE  /\ orders \in [OrderId -> OrderRows] /\ portfolio \in [User -> PortfolioRows]
           /\ user \in [User -> UserRows] /\ house \in [cash : Int, shares : Int]
           /\ placed \in Nat
  BY DEF IInv, TypeOK

\* The counts of an open order, and whose it is.
LEMMA OpenCounts ==
    ASSUME IInv, NEW o \in OrderId, Open(o)
    PROVE  orders[o].filled \in Nat /\ Remaining(o) \in Nat /\ orders[o].user \in User
<1>1. TypeOK /\ OrderLife  BY DEF IInv
<1>2. QED  BY <1>1, OpenRow

\* Of a row that changes, only the part of its owner does.
LEMMA SellFilledRow ==
    ASSUME TypeOK, OrderLife, NEW s \in OrderId, Open(s), orders[s].side = "sell",
           NEW q \in 1 .. Remaining(s), NEW u
    PROVE  /\ u = orders[s].user =>
                OfferedRow(SellFilled(s, q), u) = OfferedRow(orders[s], u) - q
           /\ u # orders[s].user =>
                OfferedRow(SellFilled(s, q), u) = OfferedRow(orders[s], u)
           /\ HeldRow(SellFilled(s, q), u) = HeldRow(orders[s], u)
           /\ SellFilled(s, q).filled = orders[s].filled + q
           /\ SellFilled(s, q).frozen = orders[s].frozen
<1> DEFINE row == SellFilled(s, q)
<1>1. /\ orders[s] \in OrderRows /\ orders[s].status \in OpenStatuses
      /\ orders[s].quantity \in Nat /\ orders[s].filled \in Nat
      /\ Remaining(s) = orders[s].quantity - orders[s].filled
      /\ Remaining(s) \in Nat
  BY OpenRow
<1>2. /\ row.user = orders[s].user /\ row.side = orders[s].side
      /\ row.quantity = orders[s].quantity
      /\ row.filled = orders[s].filled + q
      /\ row.frozen = orders[s].frozen
      /\ row.status = StatusAfter(s, q)
  BY <1>1 DEF SellFilled, OrderRows
<1> HIDE DEF row
<1>3. /\ u = orders[s].user => OfferedRow(row, u) = OfferedRow(orders[s], u) - q
      /\ u # orders[s].user => OfferedRow(row, u) = OfferedRow(orders[s], u)
  BY <1>1, <1>2 DEF OfferedRow, StatusAfter, OpenStatuses
<1>4. HeldRow(row, u) = HeldRow(orders[s], u)  BY <1>2 DEF HeldRow
<1>5. QED  BY <1>2, <1>3, <1>4 DEF row

\* The fill of a buy offers nothing and releases its share of the frozen cash.
LEMMA BuyFilledRow ==
    ASSUME TypeOK, OrderLife, NEW b \in OrderId, Open(b), orders[b].side = "buy",
           NEW q \in 1 .. Remaining(b), NEW u
    PROVE  /\ OfferedRow(BuyFilled(b, q), u) = OfferedRow(orders[b], u)
           /\ BuyFilled(b, q).filled = orders[b].filled + q
           /\ BuyFilled(b, q).frozen
                = Round(orders[b].frozen * (Remaining(b) - q), Remaining(b))
           /\ u = orders[b].user => /\ HeldRow(orders[b], u) = orders[b].frozen
                                    /\ HeldRow(BuyFilled(b, q), u) = BuyFilled(b, q).frozen
           /\ u # orders[b].user => HeldRow(BuyFilled(b, q), u) = HeldRow(orders[b], u)
<1> DEFINE row == BuyFilled(b, q)
<1>1. orders[b] \in OrderRows  BY OpenRow
<1>2. /\ row.user = orders[b].user /\ row.side = orders[b].side
      /\ row.filled = orders[b].filled + q
      /\ row.frozen = Round(orders[b].frozen * (Remaining(b) - q), Remaining(b))
  BY <1>1 DEF BuyFilled, OrderRows
<1> HIDE DEF row
<1>3. OfferedRow(row, u) = OfferedRow(orders[b], u)  BY <1>2 DEF OfferedRow
<1>4. /\ u = orders[b].user => /\ HeldRow(orders[b], u) = orders[b].frozen
                               /\ HeldRow(row, u) = row.frozen
      /\ u # orders[b].user => HeldRow(row, u) = HeldRow(orders[b], u)
  BY <1>2 DEF HeldRow
<1>5. QED  BY <1>2, <1>3, <1>4 DEF row

\* A cancelled order offers nothing and holds nothing frozen.
LEMMA CancelledRow ==
    ASSUME TypeOK, OrderLife, NEW o \in OrderId, Open(o), NEW u
    PROVE  /\ OfferedRow(Cancelled(o), u) = 0
           /\ HeldRow(Cancelled(o), u) = 0
           /\ Cancelled(o).filled = orders[o].filled
           /\ Cancelled(o).frozen = 0
           /\ u # orders[o].user => /\ OfferedRow(orders[o], u) = 0
                                    /\ HeldRow(orders[o], u) = 0
           /\ orders[o].side = "buy" =>
                 /\ OfferedRow(orders[o], u) = 0
                 /\ u = orders[o].user => HeldRow(orders[o], u) = orders[o].frozen
           /\ orders[o].side = "sell" =>
                 /\ u = orders[o].user => OfferedRow(orders[o], u) = Remaining(o)
                 /\ HeldRow(orders[o], u) = 0
<1> DEFINE row == Cancelled(o)
<1>1. orders[o] \in OrderRows /\ orders[o].status \in OpenStatuses  BY OpenRow
<1>2. /\ row.filled = orders[o].filled /\ row.frozen = 0 /\ row.status = "cancelled"
  BY <1>1 DEF Cancelled, OrderRows
<1> HIDE DEF row
<1>3. OfferedRow(row, u) = 0  BY <1>2 DEF OfferedRow, OpenStatuses
<1>4. HeldRow(row, u) = 0  BY <1>2 DEF HeldRow
<1>5. QED  BY <1>1, <1>2, <1>3, <1>4 DEF row, OfferedRow, HeldRow, Remaining

\* A new sell offers all its shares, a new buy holds all its cash.
LEMMA NewOrderRow ==
    ASSUME NEW u, NEW side \in {"buy", "sell"}, NEW price, NEW qty \in Nat,
           NEW frozen, NEW v
    PROVE  /\ u = v /\ side = "sell" =>
                OfferedRow(NewOrder(u, side, price, qty, frozen), v) = qty
           /\ u # v \/ side = "buy" =>
                OfferedRow(NewOrder(u, side, price, qty, frozen), v) = 0
           /\ u = v /\ side = "buy" =>
                HeldRow(NewOrder(u, side, price, qty, frozen), v) = frozen
           /\ u # v \/ side = "sell" =>
                HeldRow(NewOrder(u, side, price, qty, frozen), v) = 0
           /\ NewOrder(u, side, price, qty, frozen).filled = 0
           /\ NewOrder(u, side, price, qty, frozen).frozen = frozen
  BY DEF NewOrder, OfferedRow, HeldRow, OpenStatuses

\* The row a new order takes is empty.
LEMMA FreeRow ==
    ASSUME TypeOK, OrderLife, placed < MaxOrders, NEW u
    PROVE  /\ placed + 1 \in OrderId
           /\ orders[placed + 1].status = "none"
           /\ OfferedRow(orders[placed + 1], u) = 0
<1>1. placed \in Nat /\ placed + 1 \in OrderId /\ placed + 1 > placed
  BY DEF TypeOK
<1>2. orders[placed + 1].status = "none"  BY <1>1 DEF OrderLife
<1>3. QED  BY <1>1, <1>2 DEF OfferedRow, OpenStatuses

-----------------------------------------------------------------------------
(* Shares *)

\* Where the offers of one order and the frozen shares of its owner change alike.
LEMMA ShareBookMoves ==
    ASSUME TypeOK, TypeOK', ShareBook, NEW s \in OrderId, NEW u \in User,
           \A v \in User : \A o \in OrderId \ {s} :
              OfferedRow(orders'[o], v) = OfferedRow(orders[o], v),
           \A v \in User \ {u} :
              /\ OfferedRow(orders'[s], v) = OfferedRow(orders[s], v)
              /\ portfolio'[v].frozen_quantity = portfolio[v].frozen_quantity
              /\ portfolio'[v].quantity >= portfolio[v].quantity,
           portfolio'[u].frozen_quantity
             = portfolio[u].frozen_quantity
                 + OfferedRow(orders'[s], u) - OfferedRow(orders[s], u),
           portfolio'[u].frozen_quantity <= portfolio'[u].quantity
    PROVE  ShareBook'
<1> SUFFICES ASSUME NEW v \in User
             PROVE  /\ portfolio'[v].frozen_quantity = Offered(orders', v)
                    /\ portfolio'[v].frozen_quantity <= portfolio'[v].quantity
  BY DEF ShareBook
<1>1. orders \in [OrderId -> OrderRows] /\ orders' \in [OrderId -> OrderRows]
  BY DEF TypeOK
<1>2. Offered(orders', v)
        = Offered(orders, v) + OfferedRow(orders'[s], v) - OfferedRow(orders[s], v)
  BY <1>1, OfferedMoves
<1>3. /\ portfolio[v].frozen_quantity = Offered(orders, v)
      /\ portfolio[v].frozen_quantity <= portfolio[v].quantity
      /\ portfolio[v] \in PortfolioRows /\ portfolio'[v] \in PortfolioRows
  BY DEF ShareBook, TypeOK
<1>4. CASE v = u  BY <1>2, <1>3, <1>4
<1>5. CASE v # u
  <2>1. OfferedRow(orders[s], v) \in Int  BY <1>1, RowNumbers
  <2>2. Offered(orders', v) = Offered(orders, v)
    BY <1>1, <1>2, <1>5, <2>1, OfferedInt
  <2>3. QED  BY <1>3, <1>5, <2>2 DEF PortfolioRows
<1>6. QED  BY <1>4, <1>5

\* Where neither changes.
LEMMA ShareBookStays ==
    ASSUME TypeOK, TypeOK', ShareBook,
           \A u \in User : \A o \in OrderId :
              OfferedRow(orders'[o], u) = OfferedRow(orders[o], u),
           \A u \in User :
              /\ portfolio'[u].frozen_quantity = portfolio[u].frozen_quantity
              /\ portfolio'[u].quantity >= portfolio[u].quantity
    PROVE  ShareBook'
<1> SUFFICES ASSUME NEW u \in User
             PROVE  /\ portfolio'[u].frozen_quantity = Offered(orders', u)
                    /\ portfolio'[u].frozen_quantity <= portfolio'[u].quantity
  BY DEF ShareBook
<1>1. orders \in [OrderId -> OrderRows] /\ orders' \in [OrderId -> OrderRows]
  BY DEF TypeOK
<1>2. Offered(orders', u) = Offered(orders, u)  BY <1>1, BookSame
<1>3. /\ portfolio[u].frozen_quantity = Offered(orders, u)
      /\ portfolio[u].frozen_quantity <= portfolio[u].quantity
      /\ portfolio[u] \in PortfolioRows /\ portfolio'[u] \in PortfolioRows
  BY DEF ShareBook, TypeOK
<1>4. QED  BY <1>2, <1>3 DEF PortfolioRows

\* The shares all users hold.
SharesOf(rows) == [u \in User |-> rows[u].quantity]
SharesHeld(rows) == SumFunctionOnSet(SharesOf(rows), User)

\* The sum of SharesConserved is the sum over the users.
LEMMA SharesHeldSum ==
    ASSUME NEW rows
    PROVE  SumFunction([u \in User |-> rows[u].quantity]) = SharesHeld(rows)
<1> DEFINE f == [u \in User |-> rows[u].quantity]
<1>1. DOMAIN f = User /\ f = SharesOf(rows)  BY DEF SharesOf
<1> HIDE DEF f
<1>2. SumFunction(f) = SharesHeld(rows)  BY <1>1 DEF SumFunction, SharesHeld
<1>3. QED  BY <1>2 DEF f

\* SharesConserved, before and after a step, in terms of that sum.
LEMMA ConservedIsSum ==
    /\ SharesConserved <=> SharesHeld(portfolio) + house.shares
                             = SumFunction([u \in User |-> InitShares])
    /\ SharesConserved' <=> SharesHeld(portfolio') + house'.shares
                              = SumFunction([u \in User |-> InitShares])
  BY SharesHeldSum DEF SharesConserved

\* What the users hold is a whole number of shares.
LEMMA SharesHeldInt ==
    ASSUME NEW rows \in [User -> PortfolioRows]
    PROVE  /\ \A u \in User : SharesOf(rows)[u] \in Int
           /\ SharesHeld(rows) \in Int
<1>1. \A u \in User : SharesOf(rows)[u] \in Int  BY DEF SharesOf, PortfolioRows
<1>2. QED  BY <1>1, SumInt DEF SharesHeld

\* One user's holding changes.
LEMMA HeldMoves ==
    ASSUME NEW old \in [User -> PortfolioRows], NEW new \in [User -> PortfolioRows],
           NEW u \in User, \A v \in User \ {u} : new[v].quantity = old[v].quantity
    PROVE  SharesHeld(new) = SharesHeld(old) + new[u].quantity - old[u].quantity
<1> DEFINE f == SharesOf(old)
           g == SharesOf(new)
<1>1. \A v \in User : f[v] \in Int /\ g[v] \in Int  BY SharesHeldInt
<1>2. \A v \in User \ {u} : g[v] = f[v]  BY DEF SharesOf
<1>3. f[u] = old[u].quantity /\ g[u] = new[u].quantity  BY DEF SharesOf
<1> HIDE DEF f, g
<1>4. SumFunctionOnSet(g, User) = SumFunctionOnSet(f, User) + g[u] - f[u]
  BY <1>1, <1>2, SumUpdate
<1>5. QED  BY <1>3, <1>4 DEF SharesHeld, f, g

\* Nobody's holding changes, or one user's and the house's do.
LEMMA ConservedStays ==
    ASSUME SharesConserved, \A u \in User : portfolio'[u].quantity = portfolio[u].quantity,
           house'.shares = house.shares
    PROVE  SharesConserved'
<1>1. SharesOf(portfolio') = SharesOf(portfolio)  BY DEF SharesOf
<1>2. SharesHeld(portfolio') = SharesHeld(portfolio)  BY <1>1 DEF SharesHeld
<1>3. QED  BY <1>2, ConservedIsSum

\* What one user gets from or gives to the house leaves the total as it was.
LEMMA ConservedMoves ==
    ASSUME TypeOK, TypeOK', SharesConserved, NEW u \in User,
           \A v \in User \ {u} : portfolio'[v].quantity = portfolio[v].quantity,
           portfolio'[u].quantity + house'.shares
             = portfolio[u].quantity + house.shares
    PROVE  SharesConserved'
<1>1. /\ portfolio \in [User -> PortfolioRows] /\ portfolio' \in [User -> PortfolioRows]
      /\ house \in [cash : Int, shares : Int] /\ house' \in [cash : Int, shares : Int]
  BY DEF TypeOK
<1>2. SharesHeld(portfolio')
        = SharesHeld(portfolio) + portfolio'[u].quantity - portfolio[u].quantity
  BY <1>1, HeldMoves
<1>3. /\ house.shares \in Int /\ house'.shares \in Int
      /\ portfolio[u].quantity \in Int /\ portfolio'[u].quantity \in Int
      /\ SharesHeld(portfolio) \in Int
  BY <1>1, SharesHeldInt DEF PortfolioRows
<1>4. SharesHeld(portfolio') + house'.shares = SharesHeld(portfolio) + house.shares
  BY <1>2, <1>3
<1>5. QED  BY <1>4, ConservedIsSum

\* What one user receives another delivers.
LEMMA ConservedPasses ==
    ASSUME TypeOK, TypeOK', SharesConserved, NEW u \in User, NEW w \in User, u # w,
           \A v \in User \ {u, w} : portfolio'[v].quantity = portfolio[v].quantity,
           portfolio'[u].quantity + portfolio'[w].quantity
             = portfolio[u].quantity + portfolio[w].quantity,
           house'.shares = house.shares
    PROVE  SharesConserved'
<1> DEFINE mid == [portfolio EXCEPT ![u] = portfolio'[u]]
<1>1. /\ portfolio \in [User -> PortfolioRows] /\ portfolio' \in [User -> PortfolioRows]
      /\ house \in [cash : Int, shares : Int]
  BY DEF TypeOK
<1>2. /\ mid \in [User -> PortfolioRows] /\ mid[u] = portfolio'[u]
      /\ \A v \in User \ {u} : mid[v] = portfolio[v]
  BY <1>1
<1> HIDE DEF mid
<1>3. SharesHeld(mid)
        = SharesHeld(portfolio) + mid[u].quantity - portfolio[u].quantity
  BY <1>1, <1>2, HeldMoves
<1>4. \A v \in User \ {w} : portfolio'[v].quantity = mid[v].quantity
  BY <1>2
<1>5. SharesHeld(portfolio')
        = SharesHeld(mid) + portfolio'[w].quantity - mid[w].quantity
  BY <1>1, <1>2, <1>4, HeldMoves
<1>6. /\ portfolio[u].quantity \in Int /\ portfolio'[u].quantity \in Int
      /\ portfolio[w].quantity \in Int /\ portfolio'[w].quantity \in Int
      /\ SharesHeld(portfolio) \in Int
  BY <1>1, SharesHeldInt DEF PortfolioRows
<1>7. SharesHeld(portfolio') = SharesHeld(portfolio)
  BY <1>2, <1>3, <1>5, <1>6
<1>8. QED  BY <1>7, ConservedIsSum

-----------------------------------------------------------------------------
(* Shares, action by action *)

\* A new buy moves no share.
LEMMA PlaceBuyShares ==
    ASSUME IInv, TypeOK', ShareBook, SharesConserved, NEW u \in User,
           NEW price \in LimitPrices \cup {Market}, NEW qty \in Quantities,
           PlaceBuy(u, price, qty)
    PROVE  ShareBook' /\ SharesConserved'
<1>1. PICK frozen :
        orders' = [orders EXCEPT ![placed + 1] = NewOrder(u, "buy", price, qty, frozen)]
  BY DEF PlaceBuy
<1>2. UNCHANGED <<portfolio, house>> /\ placed < MaxOrders  BY DEF PlaceBuy
<1>3. orders \in [OrderId -> OrderRows] /\ portfolio \in [User -> PortfolioRows]
  BY DEF IInv, TypeOK
<1>4. ASSUME NEW v \in User, NEW o \in OrderId
      PROVE  OfferedRow(orders'[o], v) = OfferedRow(orders[o], v)
  <2>1. CASE o = placed + 1
    <3>1. orders'[o] = NewOrder(u, "buy", price, qty, frozen)  BY <1>1, <1>3, <2>1
    <3>2. qty \in Nat  OBVIOUS
    <3>3. OfferedRow(orders'[o], v) = 0  BY <3>1, <3>2, NewOrderRow
    <3>4. OfferedRow(orders[o], v) = 0  BY <1>2, <2>1, FreeRow DEF IInv
    <3>5. QED  BY <3>3, <3>4
  <2>2. CASE o # placed + 1  BY <1>1, <1>3, <2>2
  <2>3. QED  BY <2>1, <2>2
<1>5. \A v \in User : portfolio[v].quantity >= portfolio[v].quantity
  BY <1>3 DEF PortfolioRows
<1>6. QED  BY <1>2, <1>4, <1>5, ShareBookStays, ConservedStays DEF IInv

\* A new sell freezes what it offers, and no more than is held.
LEMMA PlaceSellShares ==
    ASSUME IInv, TypeOK', ShareBook, SharesConserved, NEW u \in User,
           NEW price \in LimitPrices \cup {Market}, NEW qty \in Quantities,
           PlaceSell(u, price, qty)
    PROVE  ShareBook' /\ SharesConserved'
<1> DEFINE s == placed + 1
           row == NewOrder(u, "sell", price, qty, 0)
<1>1. /\ orders' = [orders EXCEPT ![s] = row]
      /\ portfolio' = [portfolio EXCEPT ![u].frozen_quantity = @ + qty]
      /\ qty <= portfolio[u].quantity - portfolio[u].frozen_quantity
      /\ house' = house /\ placed < MaxOrders
  BY DEF PlaceSell, Available
<1>2. orders \in [OrderId -> OrderRows] /\ portfolio \in [User -> PortfolioRows]
      /\ qty \in Nat
  BY DEF IInv, TypeOK
<1>3. s \in OrderId /\ \A v \in User : OfferedRow(orders[s], v) = 0
  BY <1>1, FreeRow DEF IInv
<1> HIDE DEF s
<1>4. orders'[s] = row /\ \A o \in OrderId \ {s} : orders'[o] = orders[o]
  BY <1>1, <1>2, <1>3
<1>5. \A v \in User : \A o \in OrderId \ {s} :
         OfferedRow(orders'[o], v) = OfferedRow(orders[o], v)
  BY <1>4
<1>6. OfferedRow(row, u) = qty /\ \A v \in User \ {u} : OfferedRow(row, v) = 0
  BY <1>2, NewOrderRow
<1> HIDE DEF row
<1>7. \A v \in User \ {u} : portfolio'[v] = portfolio[v]  BY <1>1, <1>2
<1>8. /\ portfolio'[u].frozen_quantity = portfolio[u].frozen_quantity + qty
      /\ portfolio'[u].quantity = portfolio[u].quantity
      /\ portfolio[u] \in PortfolioRows
  BY <1>1, <1>2 DEF PortfolioRows
<1>9. portfolio'[u].frozen_quantity <= portfolio'[u].quantity
  <2> DEFINE a == portfolio[u].frozen_quantity  b == portfolio[u].quantity
             c == portfolio'[u].frozen_quantity  d == portfolio'[u].quantity
  <2>1. a \in Int /\ b \in Int  BY <1>8 DEF PortfolioRows
  <2>2. qty \in Nat /\ qty <= b - a /\ c = a + qty /\ d = b
    BY <1>1, <1>2, <1>8
  <2> HIDE DEF a, b, c, d
  <2>3. c <= d  BY <2>1, <2>2
  <2>4. QED  BY <2>3 DEF c, d
<1>10. portfolio'[u].frozen_quantity
         = portfolio[u].frozen_quantity
             + OfferedRow(orders'[s], u) - OfferedRow(orders[s], u)
  BY <1>2, <1>3, <1>4, <1>6, <1>8 DEF PortfolioRows
<1>11. \A v \in User \ {u} :
              /\ OfferedRow(orders'[s], v) = OfferedRow(orders[s], v)
              /\ portfolio'[v].frozen_quantity = portfolio[v].frozen_quantity
              /\ portfolio'[v].quantity >= portfolio[v].quantity
  BY <1>2, <1>3, <1>4, <1>6, <1>7 DEF PortfolioRows
<1>12. ShareBook'
  BY <1>3, <1>5, <1>9, <1>10, <1>11, ShareBookMoves DEF IInv
<1>13. \A v \in User : portfolio'[v].quantity = portfolio[v].quantity
  BY <1>7, <1>8
<1>14. QED  BY <1>1, <1>12, <1>13, ConservedStays

\* A user takes an order of his off the book.
LEMMA OfferWithdrawn ==
    ASSUME IInv, TypeOK', ShareBook, SharesConserved,
           NEW s \in OrderId, Open(s), orders[s].side = "sell",
           portfolio' = [portfolio EXCEPT ![orders[s].user].frozen_quantity
                                            = @ - Remaining(s)],
           orders'[s] = Cancelled(s),
           \A v \in User : \A o \in OrderId \ {s} :
              OfferedRow(orders'[o], v) = OfferedRow(orders[o], v),
           house' = house
    PROVE  ShareBook' /\ SharesConserved'
<1> DEFINE u == orders[s].user
<1>0. u \in User /\ Remaining(s) \in Nat  BY OpenCounts
<1>1. /\ orders \in [OrderId -> OrderRows] /\ portfolio \in [User -> PortfolioRows]
      /\ portfolio[u].frozen_quantity <= portfolio[u].quantity
      /\ u \in User /\ Remaining(s) \in Nat
  BY <1>0, Tables DEF ShareBook
<1>2. /\ \A v \in User : OfferedRow(orders'[s], v) = 0
      /\ \A v \in User \ {u} : OfferedRow(orders[s], v) = 0
      /\ OfferedRow(orders[s], u) = Remaining(s)
  BY CancelledRow DEF IInv
<1> HIDE DEF u
<1>3. portfolio' = [portfolio EXCEPT ![u].frozen_quantity = @ - Remaining(s)]
  BY DEF u
<1>4. \A v \in User \ {u} : portfolio'[v] = portfolio[v]  BY <1>1, <1>3
<1>5. /\ portfolio'[u].frozen_quantity = portfolio[u].frozen_quantity - Remaining(s)
      /\ portfolio'[u].quantity = portfolio[u].quantity
      /\ portfolio[u].frozen_quantity \in Int /\ portfolio[u].quantity \in Int
  <2> HIDE DEF ShareBook, SharesConserved
  <2>1. portfolio[u] \in PortfolioRows  BY <1>1
  <2>2. portfolio'[u] = [portfolio[u] EXCEPT !.frozen_quantity = @ - Remaining(s)]
    BY <1>1, <1>3
  <2>3. QED  BY <2>1, <2>2 DEF PortfolioRows
<1>6. portfolio'[u].frozen_quantity <= portfolio'[u].quantity
  <2> DEFINE a == portfolio[u].frozen_quantity  b == portfolio[u].quantity
             c == portfolio'[u].frozen_quantity  d == portfolio'[u].quantity
             r == Remaining(s)
  <2>1. a \in Int /\ b \in Int /\ r \in Nat /\ a <= b /\ c = a - r /\ d = b
    BY <1>1, <1>5
  <2> HIDE DEF a, b, c, d, r
  <2>2. c <= d  BY <2>1
  <2>3. QED  BY <2>2 DEF c, d
<1>7. portfolio'[u].frozen_quantity
        = portfolio[u].frozen_quantity
            + OfferedRow(orders'[s], u) - OfferedRow(orders[s], u)
  <2>1. OfferedRow(orders'[s], u) = 0  BY <1>1, <1>2
  <2>2. QED  BY <1>1, <1>2, <1>5, <2>1
<1>8. \A v \in User \ {u} :
              /\ OfferedRow(orders'[s], v) = OfferedRow(orders[s], v)
              /\ portfolio'[v].frozen_quantity = portfolio[v].frozen_quantity
              /\ portfolio'[v].quantity >= portfolio[v].quantity
  <2> TAKE v \in User \ {u}
  <2>1. OfferedRow(orders'[s], v) = OfferedRow(orders[s], v)  BY <1>2
  <2>2. portfolio[v] \in PortfolioRows /\ portfolio'[v] = portfolio[v]  BY <1>1, <1>4
  <2>3. QED  BY <2>1, <2>2 DEF PortfolioRows
<1>9. ShareBook'  BY <1>1, <1>6, <1>7, <1>8, ShareBookMoves DEF IInv
<1>10. \A v \in User : portfolio'[v].quantity = portfolio[v].quantity
  BY <1>4, <1>5
<1>11. QED  BY <1>9, <1>10, ConservedStays

\* A cancelled order gives back what it offered.
LEMMA CancelOrderShares ==
    ASSUME IInv, TypeOK', ShareBook, SharesConserved, NEW o \in OrderId, CancelOrder(o)
    PROVE  ShareBook' /\ SharesConserved'
<1> DEFINE u == orders[o].user
<1>1. /\ Open(o) /\ orders' = [orders EXCEPT ![o] = Cancelled(o)] /\ house' = house
  BY DEF CancelOrder
<1>2. orders \in [OrderId -> OrderRows] /\ portfolio \in [User -> PortfolioRows]
  BY DEF IInv, TypeOK
<1>3. orders'[o] = Cancelled(o) /\ \A x \in OrderId \ {o} : orders'[x] = orders[x]
  BY <1>1, <1>2
<1>4. CASE orders[o].side = "buy" /\ UNCHANGED portfolio
  <2>1. ASSUME NEW v \in User, NEW x \in OrderId
        PROVE  OfferedRow(orders'[x], v) = OfferedRow(orders[x], v)
    <3>1. CASE x = o  BY <1>1, <1>3, <1>4, <3>1, CancelledRow DEF IInv
    <3>2. CASE x # o  BY <1>3, <3>2
    <3>3. QED  BY <3>1, <3>2
  <2>2. \A v \in User : portfolio[v].quantity >= portfolio[v].quantity
    BY <1>2 DEF PortfolioRows
  <2>3. QED  BY <1>1, <1>4, <2>1, <2>2, ShareBookStays, ConservedStays DEF IInv
<1>5. CASE /\ orders[o].side = "sell"
           /\ portfolio' = [portfolio EXCEPT ![u].frozen_quantity = @ - Remaining(o)]
  <2>1. \A v \in User : \A x \in OrderId \ {o} :
           OfferedRow(orders'[x], v) = OfferedRow(orders[x], v)
    BY <1>3
  <2>2. QED  BY <1>1, <1>3, <1>5, <2>1, OfferWithdrawn
<1>6. QED  BY <1>4, <1>5 DEF CancelOrder

\* A self-trade gives back what its sell offered.
LEMMA PairCancelledShares ==
    ASSUME IInv, TypeOK', ShareBook, SharesConserved, NEW b, NEW s, PairCancelled(b, s)
    PROVE  ShareBook' /\ SharesConserved'
<1>1. /\ b \in OrderId /\ Open(b) /\ orders[b].side = "buy"
      /\ s \in OrderId /\ Open(s) /\ orders[s].side = "sell"
      /\ b # s
      /\ portfolio' = [portfolio EXCEPT ![orders[s].user].frozen_quantity
                                          = @ - Remaining(s)]
      /\ orders' = [orders EXCEPT ![b] = Cancelled(b), ![s] = Cancelled(s)]
      /\ house' = house
  BY DEF PairCancelled
<1>2. orders \in [OrderId -> OrderRows]  BY DEF IInv, TypeOK
<1>3. orders'[b] = Cancelled(b) /\ orders'[s] = Cancelled(s)
      /\ \A x \in OrderId \ {b, s} : orders'[x] = orders[x]
  BY <1>1, <1>2
<1>4. ASSUME NEW v \in User, NEW x \in OrderId \ {s}
      PROVE  OfferedRow(orders'[x], v) = OfferedRow(orders[x], v)
  <2>1. CASE x = b  BY <1>1, <1>3, <2>1, CancelledRow DEF IInv
  <2>2. CASE x # b  BY <1>3, <2>2
  <2>3. QED  BY <2>1, <2>2
<1>5. QED  BY <1>1, <1>3, <1>4, OfferWithdrawn

\* What a buyer gets from the market maker leaves the house.
LEMMA MakerSellsShares ==
    ASSUME IInv, TypeOK', ShareBook, SharesConserved, NEW b, NEW q, NEW price,
           MakerSells(b, q, price)
    PROVE  ShareBook' /\ SharesConserved'
<1> DEFINE u == orders[b].user
<1>1. /\ b \in OrderId /\ Open(b) /\ orders[b].side = "buy" /\ u \in User
      /\ q \in 1 .. Remaining(b)
      /\ portfolio' = [portfolio EXCEPT ![u] = Received(portfolio[u], q)]
      /\ orders' = [orders EXCEPT ![b] = BuyFilled(b, q)]
      /\ house'.shares = house.shares - q
  BY DEF MakerSells
<1>2. /\ orders \in [OrderId -> OrderRows] /\ portfolio \in [User -> PortfolioRows]
      /\ house \in [cash : Int, shares : Int]
      /\ q \in Nat
  BY <1>1, Tables, OpenCounts
<1>3. ASSUME NEW v \in User, NEW x \in OrderId
      PROVE  OfferedRow(orders'[x], v) = OfferedRow(orders[x], v)
  <2>1. CASE x = b  BY <1>1, <1>2, <2>1, BuyFilledRow DEF IInv
  <2>2. CASE x # b  BY <1>1, <1>2, <2>2
  <2>3. QED  BY <2>1, <2>2
<1> HIDE DEF u
<1>4. \A v \in User \ {u} : portfolio'[v] = portfolio[v]  BY <1>1, <1>2
<1>5. /\ portfolio'[u].frozen_quantity = portfolio[u].frozen_quantity
      /\ portfolio'[u].quantity = portfolio[u].quantity + q
      /\ portfolio[u] \in PortfolioRows
  BY <1>1, <1>2 DEF PortfolioRows, Received
<1>6. \A v \in User : /\ portfolio'[v].frozen_quantity = portfolio[v].frozen_quantity
                      /\ portfolio'[v].quantity >= portfolio[v].quantity
  BY <1>2, <1>4, <1>5 DEF PortfolioRows
<1>7. ShareBook'  BY <1>3, <1>6, ShareBookStays DEF IInv
<1>8. portfolio'[u].quantity + house'.shares = portfolio[u].quantity + house.shares
  BY <1>1, <1>2, <1>5 DEF PortfolioRows
<1>9. QED  BY <1>1, <1>4, <1>7, <1>8, ConservedMoves DEF IInv

\* A sell is filled, whoever buys.
LEMMA OfferTaken ==
    ASSUME IInv, TypeOK', ShareBook,
           NEW s \in OrderId, Open(s), orders[s].side = "sell",
           NEW q \in 1 .. Remaining(s),
           portfolio'[orders[s].user] = Delivered(portfolio[orders[s].user], q),
           orders'[s] = SellFilled(s, q),
           \A v \in User : \A o \in OrderId \ {s} :
              OfferedRow(orders'[o], v) = OfferedRow(orders[o], v),
           \A v \in User \ {orders[s].user} :
              /\ portfolio'[v].frozen_quantity = portfolio[v].frozen_quantity
              /\ portfolio'[v].quantity >= portfolio[v].quantity
    PROVE  /\ ShareBook'
           /\ portfolio'[orders[s].user].quantity = portfolio[orders[s].user].quantity - q
<1> DEFINE u == orders[s].user
<1>0. u \in User /\ q \in Nat  BY OpenCounts
<1>1. /\ orders \in [OrderId -> OrderRows] /\ portfolio \in [User -> PortfolioRows]
      /\ portfolio[u].frozen_quantity <= portfolio[u].quantity
      /\ u \in User /\ q \in Nat
  BY <1>0, Tables DEF ShareBook
<1>2. /\ OfferedRow(orders'[s], u) = OfferedRow(orders[s], u) - q
      /\ \A v \in User \ {u} : OfferedRow(orders'[s], v) = OfferedRow(orders[s], v)
      /\ OfferedRow(orders[s], u) \in Int
  BY <1>1, SellFilledRow, RowNumbers DEF IInv
<1> HIDE DEF u
<1>3. portfolio'[u] = Delivered(portfolio[u], q)  BY DEF u
<1>4. /\ portfolio'[u].frozen_quantity = portfolio[u].frozen_quantity - q
      /\ portfolio'[u].quantity = portfolio[u].quantity - q
      /\ portfolio[u] \in PortfolioRows
  BY <1>1, <1>3 DEF PortfolioRows, Delivered
<1>5. portfolio'[u].frozen_quantity <= portfolio'[u].quantity
  BY <1>1, <1>4 DEF PortfolioRows
<1>6. portfolio'[u].frozen_quantity
        = portfolio[u].frozen_quantity
            + OfferedRow(orders'[s], u) - OfferedRow(orders[s], u)
  BY <1>1, <1>2, <1>4 DEF PortfolioRows
<1>7. \A v \in User \ {u} :
              /\ OfferedRow(orders'[s], v) = OfferedRow(orders[s], v)
              /\ portfolio'[v].frozen_quantity = portfolio[v].frozen_quantity
              /\ portfolio'[v].quantity >= portfolio[v].quantity
  BY <1>2 DEF u
<1>8. ShareBook'  BY <1>1, <1>5, <1>6, <1>7, ShareBookMoves DEF IInv
<1>9. QED  BY <1>4, <1>8 DEF u

\* What the market maker buys leaves the seller's offer and holding.
LEMMA MakerBuysShares ==
    ASSUME IInv, TypeOK', ShareBook, SharesConserved, NEW s, NEW q, NEW price, NEW simAt,
           MakerBuys(s, q, price, simAt)
    PROVE  ShareBook' /\ SharesConserved'
<1> DEFINE u == orders[s].user
<1>1. /\ s \in OrderId /\ Open(s) /\ orders[s].side = "sell" /\ u \in User
      /\ q \in 1 .. Remaining(s)
      /\ portfolio' = [portfolio EXCEPT ![u] = Delivered(portfolio[u], q)]
      /\ orders' = [orders EXCEPT ![s] = SellFilled(s, q)]
      /\ house'.shares = house.shares + q
  BY DEF MakerBuys
<1>2. /\ orders \in [OrderId -> OrderRows] /\ portfolio \in [User -> PortfolioRows]
      /\ house \in [cash : Int, shares : Int]
      /\ q \in Nat
  BY <1>1, Tables, OpenCounts
<1>3. /\ orders'[s] = SellFilled(s, q)
      /\ \A x \in OrderId \ {s} : orders'[x] = orders[x]
      /\ portfolio'[u] = Delivered(portfolio[u], q)
      /\ \A v \in User \ {u} : portfolio'[v] = portfolio[v]
  BY <1>1, <1>2
<1>4. \A v \in User : \A x \in OrderId \ {s} :
         OfferedRow(orders'[x], v) = OfferedRow(orders[x], v)
  BY <1>3
<1>5. \A v \in User \ {u} :
         /\ portfolio'[v].frozen_quantity = portfolio[v].frozen_quantity
         /\ portfolio'[v].quantity >= portfolio[v].quantity
  BY <1>2, <1>3 DEF PortfolioRows
<1>6. ShareBook' /\ portfolio'[u].quantity = portfolio[u].quantity - q
  BY <1>1, <1>3, <1>4, <1>5, OfferTaken
<1>7. portfolio'[u].quantity + house'.shares = portfolio[u].quantity + house.shares
  <2>1. portfolio[u].quantity \in Int  BY <1>1, <1>2 DEF PortfolioRows
  <2>2. QED  BY <1>1, <1>2, <1>6, <2>1
<1>8. QED  BY <1>1, <1>3, <1>6, <1>7, ConservedMoves DEF IInv

\* What the seller delivers the buyer receives.
LEMMA PairTradeShares ==
    ASSUME IInv, TypeOK', ShareBook, SharesConserved, NEW b, NEW s, NEW q, NEW price,
           NEW simAt, PairTrade(b, s, q, price, simAt)
    PROVE  ShareBook' /\ SharesConserved'
<1> DEFINE u == orders[b].user
           w == orders[s].user
<1>1. /\ b \in OrderId /\ Open(b) /\ orders[b].side = "buy" /\ u \in User
      /\ s \in OrderId /\ Open(s) /\ orders[s].side = "sell" /\ w \in User
      /\ u # w /\ b # s
      /\ q \in 1 .. Remaining(b) /\ q \in 1 .. Remaining(s)
      /\ portfolio' = [portfolio EXCEPT ![u] = Received(portfolio[u], q),
                                        ![w] = Delivered(portfolio[w], q)]
      /\ orders' = [orders EXCEPT ![b] = BuyFilled(b, q), ![s] = SellFilled(s, q)]
      /\ house'.shares = house.shares
  BY DEF PairTrade
<1>2. /\ orders \in [OrderId -> OrderRows] /\ portfolio \in [User -> PortfolioRows]
      /\ q \in Nat
  BY <1>1, Tables, OpenCounts
<1>3. /\ orders'[b] = BuyFilled(b, q) /\ orders'[s] = SellFilled(s, q)
      /\ \A x \in OrderId \ {b, s} : orders'[x] = orders[x]
      /\ portfolio'[u] = Received(portfolio[u], q)
      /\ portfolio'[w] = Delivered(portfolio[w], q)
      /\ \A v \in User \ {u, w} : portfolio'[v] = portfolio[v]
  BY <1>1, <1>2
<1>4. ASSUME NEW v \in User, NEW x \in OrderId \ {s}
      PROVE  OfferedRow(orders'[x], v) = OfferedRow(orders[x], v)
  <2>1. CASE x = b  BY <1>1, <1>3, <2>1, BuyFilledRow DEF IInv
  <2>2. CASE x # b  BY <1>3, <2>2
  <2>3. QED  BY <2>1, <2>2
<1>5. /\ portfolio'[u].frozen_quantity = portfolio[u].frozen_quantity
      /\ portfolio'[u].quantity = portfolio[u].quantity + q
      /\ portfolio[u] \in PortfolioRows /\ portfolio[w] \in PortfolioRows
  <2>1. portfolio[u] \in PortfolioRows /\ portfolio[w] \in PortfolioRows
    BY <1>1, <1>2
  <2>2. portfolio'[u] = Received(portfolio[u], q)  BY <1>3
  <2> HIDE DEF u, w
  <2>3. QED  BY <2>1, <2>2 DEF PortfolioRows, Received
<1>6. \A v \in User \ {w} :
         /\ portfolio'[v].frozen_quantity = portfolio[v].frozen_quantity
         /\ portfolio'[v].quantity >= portfolio[v].quantity
  <2> HIDE DEF u, w
  <2> TAKE v \in User \ {w}
  <2>1. CASE v = u  BY <1>2, <1>5, <2>1 DEF PortfolioRows
  <2>2. CASE v # u  BY <1>2, <1>3, <2>2 DEF PortfolioRows
  <2>3. QED  BY <2>1, <2>2
<1>7. ShareBook' /\ portfolio'[w].quantity = portfolio[w].quantity - q
  BY <1>1, <1>3, <1>4, <1>6, OfferTaken
<1>8. portfolio'[u].quantity + portfolio'[w].quantity
        = portfolio[u].quantity + portfolio[w].quantity
  <2> HIDE DEF u, w
  <2>1. QED  BY <1>2, <1>5, <1>7 DEF PortfolioRows
<1>9. \A v \in User \ {u, w} : portfolio'[v].quantity = portfolio[v].quantity
  BY <1>3
<1>10. QED  BY <1>1, <1>7, <1>8, <1>9, ConservedPasses DEF IInv

-----------------------------------------------------------------------------
(* Sales *)

AmountOf == [t \in SellTransactions |-> t.amount]

\* Amounts is the sum of one function over the sales.
LEMMA AmountsSum ==
    ASSUME NEW S \in SUBSET SellTransactions, IsFiniteSet(S)
    PROVE  /\ Amounts(S) = SumFunctionOnSet(AmountOf, S)
           /\ \A t \in S : AmountOf[t] = t.amount /\ AmountOf[t] \in Int
<1> DEFINE f == [t \in S |-> t.amount]
<1>1. DOMAIN f = S /\ \A t \in S : f[t] = AmountOf[t]  BY DEF AmountOf
<1>2. \A t \in S : AmountOf[t] = t.amount /\ AmountOf[t] \in Int
  BY DEF AmountOf, SellTransactions
<1> HIDE DEF f
<1>3. SumFunctionOnSet(f, S) = SumFunctionOnSet(AmountOf, S)  BY <1>1, SumSame
<1>4. QED  BY <1>1, <1>2, <1>3 DEF Amounts, SumFunction, f

\* A new sale adds its amount.
LEMMA AmountsAdd ==
    ASSUME NEW S \in SUBSET SellTransactions, IsFiniteSet(S),
           NEW t \in SellTransactions, t \notin S
    PROVE  Amounts(S \cup {t}) = Amounts(S) + t.amount /\ Amounts(S) \in Int
<1> DEFINE T == S \cup {t}
<1>1. T \in SUBSET SellTransactions /\ IsFiniteSet(T)  BY FS_AddElement
<1>2. Amounts(T) = SumFunctionOnSet(AmountOf, T)
      /\ \A x \in T : AmountOf[x] = x.amount /\ AmountOf[x] \in Int
  <2> HIDE DEF T
  <2> QED  BY <1>1, AmountsSum
<1>3. Amounts(S) = SumFunctionOnSet(AmountOf, S)  BY AmountsSum
<1>4. SumFunctionOnSet(AmountOf, T) = AmountOf[t] + SumFunctionOnSet(AmountOf, S)
  BY <1>2, SumInsert
<1>5. SumFunctionOnSet(AmountOf, S) \in Int /\ AmountOf[t] \in Int /\ AmountOf[t] = t.amount
  BY <1>2, SumInt
<1>6. QED  BY <1>2, <1>3, <1>4, <1>5

\* Of two parts that have nothing in common.
LEMMA AmountsSplit ==
    ASSUME NEW S \in SUBSET SellTransactions, IsFiniteSet(S), NEW T \in SUBSET S
    PROVE  /\ Amounts(S) = Amounts(T) + Amounts(S \ T)
           /\ Amounts(T) \in Int /\ Amounts(S \ T) \in Int
           /\ (\A t \in S : t.amount \in Nat) => Amounts(T) \in Nat /\ Amounts(S \ T) \in Nat
<1> DEFINE R == S \ T
<1>1. /\ IsFiniteSet(T) /\ IsFiniteSet(R) /\ T \cap R = {} /\ T \cup R = S
      /\ T \in SUBSET SellTransactions /\ R \in SUBSET SellTransactions
  BY FS_Subset
<1>2. Amounts(S) = SumFunctionOnSet(AmountOf, S)
      /\ \A t \in S : AmountOf[t] = t.amount /\ AmountOf[t] \in Int
  BY AmountsSum
<1> HIDE DEF R
<1>3. /\ Amounts(T) = SumFunctionOnSet(AmountOf, T)
      /\ Amounts(R) = SumFunctionOnSet(AmountOf, R)
  BY <1>1, AmountsSum
<1>4. SumFunctionOnSet(AmountOf, T \cup R)
        = SumFunctionOnSet(AmountOf, T) + SumFunctionOnSet(AmountOf, R)
  BY <1>1, <1>2, SumUnion
<1>5. SumFunctionOnSet(AmountOf, T) \in Int /\ SumFunctionOnSet(AmountOf, R) \in Int
  BY <1>1, <1>2, SumInt
<1>6. (\A t \in S : t.amount \in Nat) =>
         SumFunctionOnSet(AmountOf, T) \in Nat /\ SumFunctionOnSet(AmountOf, R) \in Nat
  BY <1>1, <1>2, SumNat
<1>7. QED  BY <1>1, <1>2, <1>3, <1>4, <1>5, <1>6 DEF R

SalesOf(sales, u) == {t \in sales : t.user = u}

\* SettlingBacked, before and after a step, in terms of SalesOf.
LEMMA SettlingIsAmounts ==
    /\ SettlingBacked <=>
         \A u \in User : user[u].settling_cash = Amounts(SalesOf(unsettled, u))
    /\ SettlingBacked' <=>
         \A u \in User : user'[u].settling_cash = Amounts(SalesOf(unsettled', u))
  BY DEF SettlingBacked, SalesOf

\* Sales stay while orders only fill further.
LEMMA SaleBookStays ==
    ASSUME TypeOK, TypeOK', SaleBook, unsettled' = unsettled, placed' >= placed,
           \A u \in User : user'[u].settling_cash = user[u].settling_cash,
           \A o \in OrderId : o <= placed => orders'[o].filled >= orders[o].filled
    PROVE  SaleBook'
<1>1. SettlingBacked'
  BY SettlingIsAmounts DEF SaleBook
<1>2. ASSUME NEW t \in unsettled
      PROVE  t.amount \in Nat /\ t.order <= placed' /\ t.fill <= orders'[t.order].filled
  <2>1. /\ t.order \in OrderId /\ t.fill \in Nat
        /\ placed \in Nat /\ placed' \in Nat
        /\ orders[t.order].filled \in Nat /\ orders'[t.order].filled \in Nat
    <3>1. t \in SellTransactions /\ placed \in Nat /\ placed' \in Nat  BY DEF TypeOK
    <3>2. t.order \in OrderId /\ t.fill \in Nat  BY <3>1 DEF SellTransactions
    <3>3. orders[t.order] \in OrderRows /\ orders'[t.order] \in OrderRows
      BY <3>2 DEF TypeOK
    <3>4. QED  BY <3>1, <3>2, <3>3 DEF OrderRows
  <2>2. t.amount \in Nat /\ t.order <= placed /\ t.fill <= orders[t.order].filled
    BY DEF SaleBook
  <2>3. QED  BY <2>1, <2>2
<1>3. QED  BY <1>1, <1>2 DEF SaleBook

\* A fill adds one sale to what its seller waits for.
LEMMA SaleBookSells ==
    ASSUME IInv, TypeOK', SaleBook, NEW s \in OrderId, Open(s), NEW q \in 1 .. Remaining(s),
           NEW price \in Nat, NEW simAt \in Nat,
           unsettled' = unsettled \cup {SellTransaction(s, q, price, simAt)},
           placed' = placed,
           orders'[s].filled = orders[s].filled + q,
           \A o \in OrderId \ {s} : orders'[o].filled >= orders[o].filled,
           user'[orders[s].user].settling_cash
             = user[orders[s].user].settling_cash + Proceeds(q, price),
           \A u \in User \ {orders[s].user} :
              user'[u].settling_cash = user[u].settling_cash
    PROVE  SaleBook'
<1> DEFINE t == SellTransaction(s, q, price, simAt)
           w == orders[s].user
<1>1. /\ q \in Nat \ {0} /\ orders[s].filled \in Nat /\ s <= placed /\ w \in User
  BY OpenRow, OpenOrder DEF IInv
<1>2. /\ t \in SellTransactions /\ t.amount = Proceeds(q, price) /\ t.user = w
      /\ t.order = s /\ t.fill = orders[s].filled + q
  BY <1>1, SellTransactionType DEF IInv, SellTransaction
<1>3. Proceeds(q, price) \in Nat  BY <1>1, ProceedsNat
<1>4. t \notin unsettled
  <2> SUFFICES ASSUME t \in unsettled PROVE FALSE  OBVIOUS
  <2>1. t.fill <= orders[t.order].filled  BY DEF SaleBook
  <2>2. QED  BY <1>1, <1>2, <2>1
<1>5. unsettled \subseteq SellTransactions /\ IsFiniteSet(unsettled)
  BY DEF IInv, TypeOK
<1> HIDE DEF t, w
<1>6. unsettled' = unsettled \cup {t}  BY DEF t
<1>7. ASSUME NEW x \in unsettled'
      PROVE  x.amount \in Nat /\ x.order <= placed' /\ x.fill <= orders'[x.order].filled
  <2>1. CASE x = t
    <3>1. x.amount \in Nat /\ x.order = s /\ x.fill = orders'[s].filled /\ x.fill \in Nat
      BY <1>1, <1>2, <1>3, <2>1
    <3>2. QED  BY <1>1, <3>1
  <2>2. CASE x \in unsettled
    <3>1. /\ x.order \in OrderId /\ x.fill \in Nat
          /\ orders[x.order].filled \in Nat /\ orders'[x.order].filled \in Nat
      BY <2>2 DEF IInv, TypeOK, SellTransactions, OrderRows
    <3>2. x.amount \in Nat /\ x.order <= placed /\ x.fill <= orders[x.order].filled
      BY <2>2 DEF SaleBook
    <3>3. orders'[x.order].filled >= orders[x.order].filled
      BY <1>1, <3>1
    <3>4. QED  BY <3>1, <3>2, <3>3
  <2>3. QED  BY <1>6, <2>1, <2>2
<1>8. ASSUME NEW u \in User
      PROVE  user'[u].settling_cash = Amounts(SalesOf(unsettled', u))
  <2>1. user[u].settling_cash = Amounts(SalesOf(unsettled, u))
    BY SettlingIsAmounts DEF SaleBook
  <2>2. /\ SalesOf(unsettled, u) \in SUBSET SellTransactions
        /\ IsFiniteSet(SalesOf(unsettled, u))
        /\ t \notin SalesOf(unsettled, u)
    BY <1>4, <1>5, FS_Subset DEF SalesOf
  <2>3. CASE u = w
    <3>1. SalesOf(unsettled', u) = SalesOf(unsettled, u) \cup {t}
      BY <1>2, <1>6, <2>3 DEF SalesOf
    <3>2. Amounts(SalesOf(unsettled', u)) = Amounts(SalesOf(unsettled, u)) + t.amount
      BY <1>2, <2>2, <3>1, AmountsAdd
    <3>3. user'[u].settling_cash = user[u].settling_cash + Proceeds(q, price)
      BY <2>3 DEF w
    <3>4. QED  BY <1>2, <2>1, <3>2, <3>3
  <2>4. CASE u # w
    <3>1. SalesOf(unsettled', u) = SalesOf(unsettled, u)
      BY <1>2, <1>6, <2>4 DEF SalesOf
    <3>2. user'[u].settling_cash = user[u].settling_cash  BY <2>4 DEF w
    <3>3. QED  BY <2>1, <3>1, <3>2
  <2>5. QED  BY <2>3, <2>4
<1>9. QED  BY <1>7, <1>8, SettlingIsAmounts DEF SaleBook

-----------------------------------------------------------------------------
(* Sales, action by action *)

\* The new row is the only one that a request to place an order writes.
LEMMA PlacementRows ==
    ASSUME TypeOK, OrderLife, placed < MaxOrders, placed' = placed + 1, NEW row,
           orders' = [orders EXCEPT ![placed + 1] = row]
    PROVE  /\ placed' >= placed
           /\ orders'[placed + 1] = row
           /\ \A o \in OrderId \ {placed + 1} : orders'[o] = orders[o]
           /\ \A o \in OrderId : o <= placed => orders'[o].filled >= orders[o].filled
<1>1. orders \in [OrderId -> OrderRows] /\ placed \in Nat /\ placed + 1 \in OrderId
  BY FreeRow DEF TypeOK
<1>2. orders'[placed + 1] = row /\ \A o \in OrderId \ {placed + 1} : orders'[o] = orders[o]
  BY <1>1
<1>3. ASSUME NEW o \in OrderId, o <= placed  PROVE orders'[o].filled >= orders[o].filled
  <2>1. orders'[o] = orders[o] /\ orders[o].filled \in Nat
    BY <1>1, <1>2, <1>3 DEF OrderRows
  <2>2. QED  BY <2>1
<1>4. QED  BY <1>1, <1>2, <1>3

\* A new buy sells nothing.
LEMMA PlaceBuySales ==
    ASSUME IInv, TypeOK', SaleBook, NEW u \in User,
           NEW price \in LimitPrices \cup {Market}, NEW qty \in Quantities,
           PlaceBuy(u, price, qty)
    PROVE  SaleBook'
<1>1. PICK frozen, cash, froze :
        /\ orders' = [orders EXCEPT ![placed + 1] = NewOrder(u, "buy", price, qty, frozen)]
        /\ user' = [user EXCEPT ![u].cash_balance = cash, ![u].frozen_cash = froze,
                                ![u].cooldown_until = 0]
  BY DEF PlaceBuy
<1>2. unsettled' = unsettled /\ placed < MaxOrders /\ placed' = placed + 1
  BY DEF PlaceBuy
<1>3. /\ placed' >= placed
      /\ \A o \in OrderId : o <= placed => orders'[o].filled >= orders[o].filled
  BY <1>1, <1>2, PlacementRows DEF IInv
<1>4. user \in [User -> UserRows]  BY DEF IInv, TypeOK
<1>5. \A v \in User : user'[v].settling_cash = user[v].settling_cash
  BY <1>1, <1>4 DEF UserRows
<1>6. QED  BY <1>2, <1>3, <1>5, SaleBookStays DEF IInv

\* A new sell sells nothing yet.
LEMMA PlaceSellSales ==
    ASSUME IInv, TypeOK', SaleBook, NEW u \in User,
           NEW price \in LimitPrices \cup {Market}, NEW qty \in Quantities,
           PlaceSell(u, price, qty)
    PROVE  SaleBook'
<1>1. /\ orders' = [orders EXCEPT ![placed + 1] = NewOrder(u, "sell", price, qty, 0)]
      /\ user' = [user EXCEPT ![u].cooldown_until = 0]
  BY DEF PlaceSell
<1>2. unsettled' = unsettled /\ placed < MaxOrders /\ placed' = placed + 1
  BY DEF PlaceSell
<1>3. /\ placed' >= placed
      /\ \A o \in OrderId : o <= placed => orders'[o].filled >= orders[o].filled
  BY <1>1, <1>2, PlacementRows DEF IInv
<1>4. user \in [User -> UserRows]  BY DEF IInv, TypeOK
<1>5. \A v \in User : user'[v].settling_cash = user[v].settling_cash
  BY <1>1, <1>4 DEF UserRows
<1>6. QED  BY <1>2, <1>3, <1>5, SaleBookStays DEF IInv

\* Getting frozen cash back: what it does to the account.
LEMMA RefundedAccount ==
    ASSUME NEW row \in UserRows, NEW amount
    PROVE  /\ Refunded(row, amount).settling_cash = row.settling_cash
           /\ Refunded(row, amount).cash_balance = row.cash_balance + amount
           /\ Refunded(row, amount).frozen_cash = row.frozen_cash - amount
BY DEF Refunded, UserRows

\* Paying for q shares of order o: what it does to the account.
LEMMA PaidAccount ==
    ASSUME NEW row \in UserRows, NEW o, NEW q, NEW p
    PROVE  /\ Paid(row, o, q, p).settling_cash = row.settling_cash
           /\ Paid(row, o, q, p).frozen_cash
                = Round(row.frozen_cash * Remaining(o) - q * orders[o].frozen,
                        Remaining(o))
<1> DEFINE cash == Round((row.cash_balance - Debit(q, p)) * Remaining(o)
                           + q * orders[o].frozen, Remaining(o))
           froze == Round(row.frozen_cash * Remaining(o) - q * orders[o].frozen,
                          Remaining(o))
<1>1. Paid(row, o, q, p) = [row EXCEPT !.cash_balance = cash, !.frozen_cash = froze]
  BY DEF Paid
<1> HIDE DEF cash
<1>2. Paid(row, o, q, p).settling_cash = row.settling_cash
      /\ Paid(row, o, q, p).frozen_cash = froze
  <2> HIDE DEF froze
  <2> QED  BY <1>1 DEF UserRows
<1>3. QED  BY <1>2

\* Selling q shares at p: the proceeds settle later.
LEMMA SoldAccount ==
    ASSUME NEW row \in UserRows, NEW q, NEW p
    PROVE  /\ Sold(row, q, p).settling_cash = row.settling_cash + Proceeds(q, p)
           /\ Sold(row, q, p).cash_balance = row.cash_balance
           /\ Sold(row, q, p).frozen_cash = row.frozen_cash
BY DEF Sold, UserRows

\* Some rows of the book change, and none is filled less than before.
LEMMA FilledStays ==
    ASSUME TypeOK, NEW S \in SUBSET OrderId,
           \A o \in OrderId \ S : orders'[o] = orders[o],
           \A o \in S : orders'[o].filled >= orders[o].filled
    PROVE  \A o \in OrderId : orders'[o].filled >= orders[o].filled
<1> TAKE o \in OrderId
<1>1. CASE o \in S  BY <1>1
<1>2. CASE o \notin S
  <2>1. orders'[o] = orders[o] /\ orders[o].filled \in Nat
    BY <1>2 DEF TypeOK, OrderRows
  <2>2. QED  BY <2>1
<1>3. QED  BY <1>1, <1>2

\* A cancellation sells nothing.
LEMMA CancelOrderSales ==
    ASSUME IInv, TypeOK', SaleBook, NEW o \in OrderId, CancelOrder(o)
    PROVE  SaleBook'
<1>1. /\ Open(o) /\ orders' = [orders EXCEPT ![o] = Cancelled(o)]
      /\ unsettled' = unsettled /\ placed' = placed
  BY DEF CancelOrder
<1>2. /\ orders \in [OrderId -> OrderRows] /\ user \in [User -> UserRows]
      /\ placed \in Nat /\ orders[o].filled \in Nat /\ orders[o].user \in User
  BY <1>1, Tables, OpenCounts
<1>3. \A x \in OrderId : orders'[x].filled >= orders[x].filled
  <2>1. \A x \in OrderId \ {o} : orders'[x] = orders[x]  BY <1>1, <1>2
  <2>2. orders'[o].filled = orders[o].filled
    BY <1>1, <1>2, CancelledRow DEF IInv
  <2>3. \A x \in {o} : orders'[x].filled >= orders[x].filled  BY <1>2, <2>2
  <2>4. {o} \in SUBSET OrderId  OBVIOUS
  <2>5. QED  BY <2>1, <2>3, <2>4, FilledStays DEF IInv
<1>4. ASSUME NEW v \in User  PROVE user'[v].settling_cash = user[v].settling_cash
  <2>1. CASE UNCHANGED user  BY <2>1
  <2>2. CASE user' = [user EXCEPT ![orders[o].user]
                                    = Refunded(user[orders[o].user], orders[o].frozen)]
    <3>1. CASE v = orders[o].user  BY <1>2, <2>2, <3>1, RefundedAccount
    <3>2. CASE v # orders[o].user  BY <1>2, <2>2, <3>2
    <3>3. QED  BY <3>1, <3>2
  <2>3. QED  BY <2>1, <2>2 DEF CancelOrder
<1>5. placed' >= placed  BY <1>1, <1>2
<1>6. QED  BY <1>1, <1>3, <1>4, <1>5, SaleBookStays DEF IInv

\* A self-trade sells nothing.
LEMMA PairCancelledSales ==
    ASSUME IInv, TypeOK', SaleBook, NEW b, NEW s, PairCancelled(b, s)
    PROVE  SaleBook'
<1> DEFINE u == orders[b].user
<1>1. /\ b \in OrderId /\ Open(b) /\ u \in User
      /\ s \in OrderId /\ Open(s)
      /\ b # s
      /\ user' = [user EXCEPT ![u] = Refunded(user[u], orders[b].frozen)]
      /\ orders' = [orders EXCEPT ![b] = Cancelled(b), ![s] = Cancelled(s)]
      /\ placed' = placed /\ unsettled' = unsettled
  BY DEF PairCancelled
<1>2. /\ orders \in [OrderId -> OrderRows] /\ user \in [User -> UserRows]
      /\ placed \in Nat /\ orders[b].filled \in Nat /\ orders[s].filled \in Nat
  BY <1>1, Tables, OpenCounts
<1>3. \A x \in OrderId : orders'[x].filled >= orders[x].filled
  <2>1. \A x \in OrderId \ {b, s} : orders'[x] = orders[x]  BY <1>1, <1>2
  <2>2. orders'[b] = Cancelled(b) /\ orders'[s] = Cancelled(s)  BY <1>1, <1>2
  <2>3. orders'[b].filled = orders[b].filled /\ orders'[s].filled = orders[s].filled
    BY <1>1, <2>2, CancelledRow DEF IInv
  <2>4. \A x \in {b, s} : orders'[x].filled >= orders[x].filled  BY <1>2, <2>3
  <2>5. {b, s} \in SUBSET OrderId  BY <1>1
  <2>6. QED  BY <2>1, <2>4, <2>5, FilledStays DEF IInv
<1> HIDE DEF u
<1>4. ASSUME NEW v \in User  PROVE user'[v].settling_cash = user[v].settling_cash
  <2>1. CASE v = u  BY <1>1, <1>2, <2>1, RefundedAccount
  <2>2. CASE v # u  BY <1>1, <1>2, <2>2
  <2>3. QED  BY <2>1, <2>2
<1>5. placed' >= placed  BY <1>1, <1>2
<1>6. QED  BY <1>1, <1>3, <1>4, <1>5, SaleBookStays DEF IInv

\* A buy filled by the market maker settles at once.
LEMMA MakerSellsSales ==
    ASSUME IInv, TypeOK', SaleBook, NEW b, NEW q, NEW price, MakerSells(b, q, price)
    PROVE  SaleBook'
<1> DEFINE u == orders[b].user
<1>1. /\ b \in OrderId /\ Open(b) /\ orders[b].side = "buy" /\ u \in User
      /\ q \in 1 .. Remaining(b)
      /\ user' = [user EXCEPT ![u] = Paid(user[u], b, q, price)]
      /\ orders' = [orders EXCEPT ![b] = BuyFilled(b, q)]
      /\ placed' = placed /\ unsettled' = unsettled
  BY DEF MakerSells
<1>2. /\ orders \in [OrderId -> OrderRows] /\ user \in [User -> UserRows]
      /\ placed \in Nat /\ orders[b].filled \in Nat /\ q \in Nat
  BY <1>1, Tables, OpenCounts
<1>3. \A x \in OrderId : orders'[x].filled >= orders[x].filled
  <2>1. \A x \in OrderId \ {b} : orders'[x] = orders[x]  BY <1>1, <1>2
  <2>2. orders'[b] = BuyFilled(b, q)  BY <1>1, <1>2
  <2>3. orders'[b].filled = orders[b].filled + q
    BY <1>1, <2>2, BuyFilledRow DEF IInv
  <2>4. \A x \in {b} : orders'[x].filled >= orders[x].filled  BY <1>2, <2>3
  <2>5. {b} \in SUBSET OrderId  BY <1>1
  <2>6. QED  BY <2>1, <2>4, <2>5, FilledStays DEF IInv
<1> HIDE DEF u
<1>4. ASSUME NEW v \in User  PROVE user'[v].settling_cash = user[v].settling_cash
  <2>1. CASE v = u  BY <1>1, <1>2, <2>1, PaidAccount
  <2>2. CASE v # u  BY <1>1, <1>2, <2>2
  <2>3. QED  BY <2>1, <2>2
<1>5. placed' >= placed  BY <1>1, <1>2
<1>6. QED  BY <1>1, <1>3, <1>4, <1>5, SaleBookStays DEF IInv

\* The proceeds of a sale to the market maker are settling.
LEMMA MakerBuysSales ==
    ASSUME IInv, TypeOK', SaleBook, NEW s, NEW q, NEW price, NEW simAt,
           MakerBuys(s, q, price, simAt)
    PROVE  SaleBook'
<1> DEFINE w == orders[s].user
<1>1. /\ s \in OrderId /\ Open(s) /\ orders[s].side = "sell" /\ w \in User
      /\ q \in 1 .. Remaining(s) /\ price \in Nat /\ simAt \in Nat
      /\ user' = [user EXCEPT ![w] = Sold(user[w], q, price)]
      /\ orders' = [orders EXCEPT ![s] = SellFilled(s, q)]
      /\ unsettled' = unsettled \cup {SellTransaction(s, q, price, simAt)}
      /\ placed' = placed
  BY DEF MakerBuys
<1>2. orders \in [OrderId -> OrderRows] /\ user \in [User -> UserRows]
  BY DEF IInv, TypeOK
<1>3. \A x \in OrderId \ {s} : orders'[x].filled >= orders[x].filled
  <2> TAKE x \in OrderId \ {s}
  <2>1. orders'[x] = orders[x] /\ orders[x].filled \in Nat  BY <1>1, <1>2 DEF OrderRows
  <2>2. QED  BY <2>1
<1>4. orders'[s] = SellFilled(s, q) /\ user'[w] = Sold(user[w], q, price)
  BY <1>1, <1>2
<1>5. orders'[s].filled = orders[s].filled + q  BY <1>1, <1>4, SellFilledRow DEF IInv
<1>6. user'[w].settling_cash = user[w].settling_cash + Proceeds(q, price)
  <2>1. user[w] \in UserRows  BY <1>1, <1>2
  <2> HIDE DEF w
  <2>2. QED  BY <1>4, <2>1, SoldAccount
<1>7. \A v \in User \ {w} : user'[v].settling_cash = user[v].settling_cash
  BY <1>1, <1>2
<1>8. QED  BY <1>1, <1>3, <1>5, <1>6, <1>7, SaleBookSells

\* The proceeds of a sale to a user are settling.
LEMMA PairTradeSales ==
    ASSUME IInv, TypeOK', SaleBook, NEW b, NEW s, NEW q, NEW price, NEW simAt,
           PairTrade(b, s, q, price, simAt)
    PROVE  SaleBook'
<1> DEFINE u == orders[b].user
           w == orders[s].user
<1>1. /\ b \in OrderId /\ Open(b) /\ orders[b].side = "buy" /\ u \in User
      /\ s \in OrderId /\ Open(s) /\ orders[s].side = "sell" /\ w \in User
      /\ u # w /\ b # s /\ price \in Nat /\ simAt \in Nat
      /\ q \in 1 .. Remaining(b) /\ q \in 1 .. Remaining(s)
      /\ user' = [user EXCEPT ![u] = Paid(user[u], b, q, price),
                              ![w] = Sold(user[w], q, price)]
      /\ orders' = [orders EXCEPT ![b] = BuyFilled(b, q), ![s] = SellFilled(s, q)]
      /\ unsettled' = unsettled \cup {SellTransaction(s, q, price, simAt)}
      /\ placed' = placed
  BY DEF PairTrade
<1>2. /\ orders \in [OrderId -> OrderRows] /\ user \in [User -> UserRows]
      /\ orders[b].filled \in Nat /\ q \in Nat
  BY <1>1, Tables, OpenCounts
<1>3. /\ orders'[b] = BuyFilled(b, q) /\ orders'[s] = SellFilled(s, q)
      /\ \A x \in OrderId \ {b, s} : orders'[x] = orders[x]
      /\ user'[u] = Paid(user[u], b, q, price)
      /\ user'[w] = Sold(user[w], q, price)
      /\ \A v \in User \ {u, w} : user'[v] = user[v]
  BY <1>1, <1>2
<1>4. \A x \in OrderId \ {s} : orders'[x].filled >= orders[x].filled
  <2> TAKE x \in OrderId \ {s}
  <2>1. CASE x = b
    <3>1. orders'[x].filled = orders[x].filled + q
      BY <1>1, <1>3, <2>1, BuyFilledRow DEF IInv
    <3>2. QED  BY <1>2, <2>1, <3>1
  <2>2. CASE x # b
    <3>1. orders'[x] = orders[x] /\ orders[x].filled \in Nat
      BY <1>2, <1>3, <2>2 DEF OrderRows
    <3>2. QED  BY <3>1
  <2>3. QED  BY <2>1, <2>2
<1>5. orders'[s].filled = orders[s].filled + q
  <2>1. TypeOK /\ OrderLife  BY DEF IInv
  <2>2. SellFilled(s, q).filled = orders[s].filled + q  BY <1>1, <2>1, SellFilledRow
  <2>3. QED  BY <1>3, <2>2
<1>6. user'[w].settling_cash = user[w].settling_cash + Proceeds(q, price)
  <2>1. user[w] \in UserRows  BY <1>1, <1>2
  <2> HIDE DEF w, u
  <2>2. QED  BY <1>3, <2>1, SoldAccount
<1>7. \A v \in User \ {w} : user'[v].settling_cash = user[v].settling_cash
  <2> TAKE v \in User \ {w}
  <2>1. CASE v = u
    <3>1. user[u] \in UserRows  BY <1>1, <1>2
    <3> HIDE DEF w, u
    <3>2. QED  BY <1>3, <2>1, <3>1, PaidAccount
  <2>2. CASE v # u  BY <1>3, <2>2
  <2>3. QED  BY <2>1, <2>2
<1>8. QED  BY <1>1, <1>4, <1>5, <1>6, <1>7, SaleBookSells

\* The release pays exactly what is due and leaves what is not.
LEMMA ReleaseDueSales ==
    ASSUME IInv, SaleBook, ReleaseDue
    PROVE  SaleBook'
<1> DEFINE Due(u) == Amounts({t \in DueTransactions : t.user = u})
<1>1. /\ user' = [u \in User |->
                   [user[u] EXCEPT
                      !.settling_cash = @ - LesserOf(Due(u), user[u].settling_cash),
                      !.cash_balance  = @ + LesserOf(Due(u), user[u].settling_cash)]]
      /\ unsettled' = unsettled \ DueTransactions
      /\ orders' = orders /\ placed' = placed
  BY DEF ReleaseDue, book
<1>2. /\ unsettled \subseteq SellTransactions /\ IsFiniteSet(unsettled)
      /\ user \in [User -> UserRows]
  BY DEF IInv, TypeOK
<1>3. ASSUME NEW u \in User
      PROVE  user'[u].settling_cash = Amounts(SalesOf(unsettled', u))
  <2> DEFINE S == SalesOf(unsettled, u)
             T == {t \in DueTransactions : t.user = u}
  <2>1. /\ S \in SUBSET SellTransactions /\ IsFiniteSet(S) /\ T \in SUBSET S
        /\ S \ T = SalesOf(unsettled', u)
    BY <1>1, <1>2, FS_Subset DEF SalesOf, DueTransactions
  <2>2. user[u].settling_cash = Amounts(S)
    BY SettlingIsAmounts DEF SaleBook
  <2>3. \A t \in S : t.amount \in Nat  BY DEF SaleBook, SalesOf
  <2> HIDE DEF S, T
  <2>4. /\ Amounts(S) = Amounts(T) + Amounts(S \ T)
        /\ Amounts(T) \in Nat /\ Amounts(S \ T) \in Nat
    BY <2>1, <2>3, AmountsSplit
  <2>5. Due(u) = Amounts(T)  BY DEF T
  <2>6. LesserOf(Due(u), user[u].settling_cash) = Amounts(T)
    BY <2>2, <2>4, <2>5 DEF LesserOf
  <2>7. user'[u].settling_cash
          = user[u].settling_cash - LesserOf(Due(u), user[u].settling_cash)
    <3> HIDE DEF Due
    <3> QED  BY <1>1, <1>2 DEF UserRows
  <2> DEFINE lost == LesserOf(Due(u), user[u].settling_cash)
  <2>8. user'[u].settling_cash = user[u].settling_cash - lost /\ lost = Amounts(T)
    BY <2>6, <2>7
  <2> HIDE DEF lost
  <2>9. user'[u].settling_cash = Amounts(S \ T)  BY <2>2, <2>4, <2>8
  <2>10. QED  BY <2>1, <2>9
<1>4. ASSUME NEW t \in unsettled'
      PROVE  t.amount \in Nat /\ t.order <= placed' /\ t.fill <= orders'[t.order].filled
  <2>1. t \in unsettled  BY <1>1
  <2>2. QED  BY <1>1, <2>1 DEF SaleBook
<1>5. QED  BY <1>3, <1>4, SettlingIsAmounts DEF SaleBook

\* A credit settles at once.
LEMMA CreditCashSales ==
    ASSUME IInv, TypeOK', SaleBook, NEW u \in User, NEW amount, CreditCash(u, amount)
    PROVE  SaleBook'
<1>1. /\ user' = [user EXCEPT ![u].cash_balance = @ + amount]
      /\ unsettled' = unsettled /\ orders' = orders /\ placed' = placed
  BY DEF CreditCash, book
<1>2. user \in [User -> UserRows] /\ orders \in [OrderId -> OrderRows] /\ placed \in Nat
  BY Tables
<1>3. \A v \in User : user'[v].settling_cash = user[v].settling_cash
  BY <1>1, <1>2 DEF UserRows
<1>4. placed' >= placed /\ \A o \in OrderId : orders'[o].filled >= orders[o].filled
  <2>1. \A o \in OrderId : orders[o].filled \in Nat  BY <1>2 DEF OrderRows
  <2>2. placed' = placed /\ orders' = orders /\ placed \in Nat  BY <1>1, <1>2
  <2>3. placed' >= placed  BY <2>2
  <2>4. ASSUME NEW o \in OrderId PROVE orders'[o].filled >= orders[o].filled
    <3>1. orders'[o].filled = orders[o].filled /\ orders[o].filled \in Nat  BY <2>1, <2>2
    <3>2. QED  BY <3>1
  <2>5. QED  BY <2>3, <2>4
<1>5. QED  BY <1>1, <1>3, <1>4, SaleBookStays DEF IInv

-----------------------------------------------------------------------------
(* Cash *)

\* What the orders hold frozen is not negative and covered by the account.
LEMMA HeldCovered ==
    ASSUME TypeOK, CashBook, NEW u \in User
    PROVE  /\ Frozen(orders, u) \in Nat
           /\ user[u].frozen_cash \in Nat
           /\ user[u].frozen_cash >= Frozen(orders, u)
           /\ \A o \in OrderId : /\ HeldRow(orders[o], u) \in Nat
                                 /\ HeldRow(orders[o], u) <= Frozen(orders, u)
<1> DEFINE g == HeldBy(orders, u)
<1>1. \A o \in OrderId : g[o] = HeldRow(orders[o], u)  BY DEF HeldBy
<1>2. \A o \in OrderId : HeldRow(orders[o], u) \in Nat
  BY DEF CashBook, HeldRow
<1>3. \A o \in OrderId : g[o] \in Nat  BY <1>1, <1>2
<1> HIDE DEF g
<1>4. SumFunctionOnSet(g, OrderId) \in Nat  BY <1>3, OrdersFinite, SumNat
<1>5. \A o \in OrderId : g[o] <= SumFunctionOnSet(g, OrderId)
  BY <1>3, OrdersFinite, SumMember
<1>6. Frozen(orders, u) \in Nat
      /\ \A o \in OrderId : HeldRow(orders[o], u) <= Frozen(orders, u)
  BY <1>1, <1>4, <1>5 DEF Frozen, g
<1>7. user[u].frozen_cash \in Int /\ user[u].frozen_cash >= Frozen(orders, u)
  BY DEF TypeOK, UserRows, CashBook
<1>8. QED  BY <1>2, <1>6, <1>7

\* The frozen cash of every row is a number, and a free row has none.
FrozenRows == \A o \in OrderId : /\ orders[o].frozen \in Nat
                                 /\ o > placed => orders[o].frozen = 0

\* Some rows are written.
LEMMA FrozenRowsStep ==
    ASSUME TypeOK, CashBook, NEW S \in SUBSET OrderId, placed' \in Nat, placed' >= placed,
           \A o \in OrderId \ S : orders'[o].frozen = orders[o].frozen,
           \A o \in S : orders'[o].frozen \in Nat /\ o <= placed'
    PROVE  FrozenRows'
<1> SUFFICES ASSUME NEW o \in OrderId
             PROVE  orders'[o].frozen \in Nat /\ (o > placed' => orders'[o].frozen = 0)
  BY DEF FrozenRows
<1>1. CASE o \in S  BY <1>1
<1>2. CASE o \notin S
  <2>1. /\ orders'[o].frozen = orders[o].frozen /\ orders[o].frozen \in Nat
        /\ o > placed => orders[o].frozen = 0
    BY <1>2 DEF CashBook
  <2>2. placed \in Nat  BY DEF TypeOK
  <2>3. QED  BY <2>1, <2>2
<1>3. QED  BY <1>1, <1>2

\* The frozen cash of one order and of its owner change alike.
LEMMA CashBookMoves ==
    ASSUME TypeOK, TypeOK', CashBook, struck' = struck, FrozenRows',
           NEW b \in OrderId, NEW u \in User,
           \A v \in User : \A o \in OrderId \ {b} :
              HeldRow(orders'[o], v) = HeldRow(orders[o], v),
           \A v \in User \ {u} :
              /\ HeldRow(orders'[b], v) = HeldRow(orders[b], v)
              /\ user'[v].frozen_cash = user[v].frozen_cash,
           user'[u].frozen_cash
             = user[u].frozen_cash + HeldRow(orders'[b], u) - HeldRow(orders[b], u)
    PROVE  CashBook'
<1>1. ASSUME NEW v \in User
      PROVE  /\ user'[v].frozen_cash >= Frozen(orders', v)
             /\ struck'[v] = 0 => user'[v].frozen_cash = Frozen(orders', v)
  <2>1. orders \in [OrderId -> OrderRows] /\ orders' \in [OrderId -> OrderRows]
    BY DEF TypeOK
  <2>2. Frozen(orders', v)
          = Frozen(orders, v) + HeldRow(orders'[b], v) - HeldRow(orders[b], v)
    BY <2>1, FrozenMoves
  <2>3. /\ HeldRow(orders'[b], v) \in Int /\ HeldRow(orders[b], v) \in Int
        /\ Frozen(orders, v) \in Int /\ user[v].frozen_cash \in Int
        /\ user[v].frozen_cash >= Frozen(orders, v)
        /\ struck[v] = 0 => user[v].frozen_cash = Frozen(orders, v)
    BY <2>1, RowNumbers, FrozenInt DEF TypeOK, UserRows, CashBook
  <2>4. user'[v].frozen_cash
          = user[v].frozen_cash + HeldRow(orders'[b], v) - HeldRow(orders[b], v)
    <3>1. CASE v = u  BY <3>1
    <3>2. CASE v # u  BY <2>3, <3>2
    <3>3. QED  BY <3>1, <3>2
  <2>5. QED  BY <2>2, <2>3, <2>4
<1>2. struck' \in [User -> Nat]  BY DEF CashBook
<1>3. QED  BY <1>1, <1>2 DEF CashBook, FrozenRows

\* Neither changes.
LEMMA CashBookStays ==
    ASSUME TypeOK, TypeOK', CashBook, struck' = struck, FrozenRows',
           \A v \in User : /\ \A o \in OrderId : HeldRow(orders'[o], v) = HeldRow(orders[o], v)
                           /\ user'[v].frozen_cash = user[v].frozen_cash
    PROVE  CashBook'
<1>1. ASSUME NEW v \in User
      PROVE  /\ user'[v].frozen_cash >= Frozen(orders', v)
             /\ struck'[v] = 0 => user'[v].frozen_cash = Frozen(orders', v)
  <2>1. orders \in [OrderId -> OrderRows] /\ orders' \in [OrderId -> OrderRows]
    BY DEF TypeOK
  <2>2. Frozen(orders', v) = Frozen(orders, v)  BY <2>1, BookSame
  <2>3. QED  BY <2>2 DEF CashBook
<1>2. struck' \in [User -> Nat]  BY DEF CashBook
<1>3. QED  BY <1>1, <1>2 DEF CashBook, FrozenRows

\* A buy order freezes an amount that is not negative.
LEMMA FreezeNumNat ==
    ASSUME NEW price \in Nat, NEW qty \in Nat, NEW current \in Nat
    PROVE  /\ FreezeNum(price, qty, current) \in Nat
           /\ FreezeDen \in Nat \ {0}
<1>1. FreezeDen \in Nat \ {0}  BY ProductPositive DEF FreezeDen
<1>2. qty * current * (RateDen + SlipNum) * (RateDen + FeeNum) \in Nat
  <2>1. qty * current \in Nat  BY SMT
  <2>2. qty * current * (RateDen + SlipNum) \in Nat  BY <2>1, SMT
  <2>3. QED  BY <2>2, SMT
<1>3. qty * price * RateDen * (RateDen + FeeNum) \in Nat
  <2>1. qty * price \in Nat  BY SMT
  <2>2. qty * price * RateDen \in Nat  BY <2>1, SMT
  <2>3. QED  BY <2>2, SMT
<1>4. QED  BY <1>1, <1>2, <1>3 DEF FreezeNum

-----------------------------------------------------------------------------
(* Cash, action by action *)

\* A new buy holds frozen what its account freezes.
LEMMA PlaceBuyCash ==
    ASSUME IInv, TypeOK', CashBook, struck' = struck, NEW u \in User,
           NEW price \in LimitPrices \cup {Market}, NEW qty \in Quantities,
           PlaceBuy(u, price, qty)
    PROVE  CashBook'
<1> DEFINE cost == FreezeNum(price, qty, company.current_price)
           frozen == Round(cost, FreezeDen)
           froze == Round(user[u].frozen_cash * FreezeDen + cost, FreezeDen)
           s == placed + 1
           row == NewOrder(u, "buy", price, qty, frozen)
<1>1. /\ orders \in [OrderId -> OrderRows] /\ user \in [User -> UserRows]
      /\ company.current_price \in Nat /\ placed \in Nat
  <2>1. company \in [current_price : MarketPrices, updated_at : Nat]  BY DEF IInv, TypeOK
  <2>2. company.current_price \in MarketPrices  BY <2>1
  <2>3. company.current_price \in Nat  BY <2>2
  <2>4. /\ orders \in [OrderId -> OrderRows] /\ user \in [User -> UserRows]
        /\ placed \in Nat
    BY DEF IInv, TypeOK
  <2>5. QED  BY <2>3, <2>4
<1>2. cost \in Nat /\ FreezeDen \in Nat \ {0}
  <2>1. price \in Nat /\ qty \in Nat  BY DEF Market
  <2>2. QED  BY <1>1, <2>1, FreezeNumNat
<1>3. PICK cash : user' = [user EXCEPT ![u].cash_balance = cash, ![u].frozen_cash = froze,
                                       ![u].cooldown_until = 0]
  BY DEF PlaceBuy
<1>4. orders' = [orders EXCEPT ![s] = row] /\ placed < MaxOrders /\ placed' = s
  BY DEF PlaceBuy
<1>5. user[u].frozen_cash \in Nat  BY HeldCovered DEF IInv
<1> HIDE DEF cost
<1>6. frozen \in Nat  BY <1>2, RoundBounds
<1>7. froze = user[u].frozen_cash + frozen
  <2> DEFINE D == FreezeDen
             a == user[u].frozen_cash
  <2>1. cost \in Nat /\ a \in Nat /\ D \in Nat \ {0}  BY <1>2, <1>5
  <2> HIDE DEF D, a
  <2>2. Round(cost + a * D, D) = a + Round(cost, D)  BY <2>1, RoundShift
  <2>3. cost + a * D = a * D + cost  BY <2>1, SMT
  <2>4. Round(a * D + cost, D) = a + Round(cost, D)  BY <2>2, <2>3
  <2>5. QED  BY <2>4 DEF D, a
<1> HIDE DEF frozen, froze
<1>8. /\ user'[u].frozen_cash = user[u].frozen_cash + frozen
      /\ \A v \in User \ {u} : user'[v] = user[v]
  BY <1>1, <1>3, <1>7 DEF UserRows
<1>9. s \in OrderId /\ orders[s].frozen = 0  BY <1>1, <1>4, FreeRow DEF IInv, CashBook
<1>10. /\ row.frozen = frozen /\ HeldRow(row, u) = frozen
       /\ \A v \in User \ {u} : HeldRow(row, v) = 0
  <2>1. qty \in Nat  OBVIOUS
  <2>2. QED  BY <2>1, NewOrderRow
<1> HIDE DEF row, s
<1>11. orders'[s] = row /\ \A o \in OrderId \ {s} : orders'[o] = orders[o]
  BY <1>1, <1>4, <1>9
<1>12. FrozenRows'
  <2>1. placed' \in Nat /\ placed' >= placed  BY <1>1, <1>4 DEF s
  <2>2. \A o \in OrderId \ {s} : orders'[o].frozen = orders[o].frozen  BY <1>11
  <2>3. \A o \in {s} : orders'[o].frozen \in Nat /\ o <= placed'
    BY <1>1, <1>4, <1>6, <1>10, <1>11 DEF s
  <2>4. {s} \in SUBSET OrderId  BY <1>9
  <2>5. QED  BY <2>1, <2>2, <2>3, <2>4, FrozenRowsStep DEF IInv
<1>13. \A v \in User : HeldRow(orders[s], v) = 0  BY <1>9 DEF HeldRow
<1>14. \A v \in User : \A o \in OrderId \ {s} : HeldRow(orders'[o], v) = HeldRow(orders[o], v)
  BY <1>11
<1>15. \A v \in User \ {u} : /\ HeldRow(orders'[s], v) = HeldRow(orders[s], v)
                             /\ user'[v].frozen_cash = user[v].frozen_cash
  BY <1>8, <1>10, <1>11, <1>13
<1>16. user'[u].frozen_cash
         = user[u].frozen_cash + HeldRow(orders'[s], u) - HeldRow(orders[s], u)
  BY <1>5, <1>6, <1>8, <1>10, <1>11, <1>13
<1>17. QED  BY <1>9, <1>12, <1>14, <1>15, <1>16, CashBookMoves DEF IInv

\* A new sell freezes no cash.
LEMMA PlaceSellCash ==
    ASSUME IInv, TypeOK', CashBook, struck' = struck, NEW u \in User,
           NEW price \in LimitPrices \cup {Market}, NEW qty \in Quantities,
           PlaceSell(u, price, qty)
    PROVE  CashBook'
<1> DEFINE s == placed + 1
           row == NewOrder(u, "sell", price, qty, 0)
<1>1. /\ orders \in [OrderId -> OrderRows] /\ user \in [User -> UserRows] /\ placed \in Nat
  BY DEF IInv, TypeOK
<1>2. /\ orders' = [orders EXCEPT ![s] = row] /\ placed < MaxOrders /\ placed' = s
      /\ user' = [user EXCEPT ![u].cooldown_until = 0]
  BY DEF PlaceSell
<1>3. s \in OrderId /\ orders[s].frozen = 0
  <2>1. TypeOK /\ OrderLife  BY DEF IInv
  <2>2. s \in OrderId  BY <1>2, <2>1, FreeRow
  <2>3. s > placed  BY <1>1
  <2>4. QED  BY <2>2, <2>3 DEF CashBook
<1>10. s \in Nat /\ s >= placed /\ placed' = s  BY <1>1, <1>2
<1>4. row.frozen = 0 /\ \A v \in User : HeldRow(row, v) = 0
  <2>1. qty \in Nat  OBVIOUS
  <2>2. QED  BY <2>1, NewOrderRow
<1> HIDE DEF row, s
<1>5. orders'[s] = row /\ \A o \in OrderId \ {s} : orders'[o] = orders[o]
  BY <1>1, <1>2, <1>3
<1>6. FrozenRows'
  <2>1. placed' \in Nat /\ placed' >= placed  BY <1>10
  <2>2. \A o \in OrderId \ {s} : orders'[o].frozen = orders[o].frozen  BY <1>5
  <2>3. \A o \in {s} : orders'[o].frozen \in Nat /\ o <= placed'
    <3>1. orders'[s].frozen = 0  BY <1>4, <1>5
    <3>2. s <= placed'  BY <1>10
    <3>3. QED  BY <3>1, <3>2
  <2>4. {s} \in SUBSET OrderId  BY <1>3
  <2>5. QED  BY <2>1, <2>2, <2>3, <2>4, FrozenRowsStep DEF IInv
<1>7. ASSUME NEW v \in User
      PROVE  /\ \A o \in OrderId : HeldRow(orders'[o], v) = HeldRow(orders[o], v)
             /\ user'[v].frozen_cash = user[v].frozen_cash
  <2>1. HeldRow(orders'[s], v) = HeldRow(orders[s], v)
    BY <1>3, <1>4, <1>5 DEF HeldRow
  <2>2. user'[v].frozen_cash = user[v].frozen_cash  BY <1>1, <1>2 DEF UserRows
  <2>3. QED  BY <1>5, <2>1, <2>2
<1>8. QED  BY <1>6, <1>7, CashBookStays DEF IInv

\* A buy is taken off the book and its owner gets the frozen cash back.
LEMMA RefundCash ==
    ASSUME IInv, TypeOK', CashBook, struck' = struck, placed' = placed,
           NEW b \in OrderId, Open(b), orders[b].side = "buy",
           orders'[b] = Cancelled(b), FrozenRows',
           \A v \in User : \A o \in OrderId \ {b} :
              HeldRow(orders'[o], v) = HeldRow(orders[o], v),
           user' = [user EXCEPT ![orders[b].user]
                                  = Refunded(user[orders[b].user], orders[b].frozen)]
    PROVE  CashBook'
<1> DEFINE u == orders[b].user
<1>1. u \in User /\ user \in [User -> UserRows]  BY OpenRow DEF IInv, TypeOK
<1>2. user[u] \in UserRows  BY <1>1
<1>3. HeldRow(orders[b], u) = orders[b].frozen /\ orders[b].frozen \in Nat
  BY CancelledRow DEF IInv, CashBook
<1>4. HeldRow(orders'[b], u) = 0  BY CancelledRow DEF IInv
<1>5. \A v \in User \ {u} : HeldRow(orders'[b], v) = HeldRow(orders[b], v)
  BY CancelledRow DEF IInv
<1> HIDE DEF u
<1>6. user' = [user EXCEPT ![u] = Refunded(user[u], orders[b].frozen)]  BY DEF u
<1>7. user'[u].frozen_cash = user[u].frozen_cash - orders[b].frozen
  BY <1>1, <1>2, <1>6, RefundedAccount
<1>8. \A v \in User \ {u} : user'[v].frozen_cash = user[v].frozen_cash  BY <1>1, <1>6
<1>9. user'[u].frozen_cash
        = user[u].frozen_cash + HeldRow(orders'[b], u) - HeldRow(orders[b], u)
  BY <1>2, <1>3, <1>4, <1>7 DEF UserRows
<1>10. QED  BY <1>1, <1>5, <1>8, <1>9, CashBookMoves DEF IInv

\* cancel_order releases what the buy held from both rows.
LEMMA CancelOrderCash ==
    ASSUME IInv, TypeOK', CashBook, struck' = struck, NEW o \in OrderId, CancelOrder(o)
    PROVE  CashBook'
<1>1. /\ Open(o) /\ orders' = [orders EXCEPT ![o] = Cancelled(o)] /\ placed' = placed
  BY DEF CancelOrder
<1>2. orders \in [OrderId -> OrderRows] /\ user \in [User -> UserRows] /\ placed \in Nat
  BY DEF IInv, TypeOK
<1>3. orders'[o] = Cancelled(o) /\ \A x \in OrderId \ {o} : orders'[x] = orders[x]
  BY <1>1, <1>2
<1>4. FrozenRows'
  <2>1. placed' \in Nat /\ placed' >= placed  BY <1>1, <1>2
  <2>2. \A x \in OrderId \ {o} : orders'[x].frozen = orders[x].frozen  BY <1>3
  <2>3. \A x \in {o} : orders'[x].frozen \in Nat /\ x <= placed'
    BY <1>1, <1>3, CancelledRow, OpenOrder DEF IInv
  <2>4. {o} \in SUBSET OrderId  OBVIOUS
  <2>5. QED  BY <2>1, <2>2, <2>3, <2>4, FrozenRowsStep DEF IInv
<1>5. \A v \in User : \A x \in OrderId \ {o} : HeldRow(orders'[x], v) = HeldRow(orders[x], v)
  BY <1>3
<1>6. CASE /\ orders[o].side = "buy"
           /\ user' = [user EXCEPT ![orders[o].user]
                                     = Refunded(user[orders[o].user], orders[o].frozen)]
  BY <1>1, <1>3, <1>4, <1>5, <1>6, RefundCash
<1>7. CASE orders[o].side = "sell" /\ UNCHANGED user
  <2>1. \A v \in User : HeldRow(orders'[o], v) = HeldRow(orders[o], v)
    BY <1>1, <1>3, <1>7, CancelledRow DEF IInv
  <2>2. \A v \in User : \A x \in OrderId : HeldRow(orders'[x], v) = HeldRow(orders[x], v)
    BY <1>5, <2>1
  <2>3. QED  BY <1>4, <1>7, <2>2, CashBookStays DEF IInv
<1>8. QED  BY <1>6, <1>7 DEF CancelOrder

\* A self-trade releases what its buy held from both rows.
LEMMA PairCancelledCash ==
    ASSUME IInv, TypeOK', CashBook, struck' = struck, NEW b, NEW s, PairCancelled(b, s)
    PROVE  CashBook'
<1>1. /\ b \in OrderId /\ Open(b) /\ orders[b].side = "buy"
      /\ s \in OrderId /\ Open(s) /\ orders[s].side = "sell"
      /\ b # s
      /\ user' = [user EXCEPT ![orders[b].user]
                                = Refunded(user[orders[b].user], orders[b].frozen)]
      /\ orders' = [orders EXCEPT ![b] = Cancelled(b), ![s] = Cancelled(s)]
      /\ placed' = placed
  BY DEF PairCancelled
<1>2. orders \in [OrderId -> OrderRows] /\ placed \in Nat  BY DEF IInv, TypeOK
<1>3. /\ orders'[b] = Cancelled(b) /\ orders'[s] = Cancelled(s)
      /\ \A x \in OrderId \ {b, s} : orders'[x] = orders[x]
  BY <1>1, <1>2
<1>4. FrozenRows'
  <2>1. placed' \in Nat /\ placed' >= placed  BY <1>1, <1>2
  <2>2. \A x \in OrderId \ {b, s} : orders'[x].frozen = orders[x].frozen  BY <1>3
  <2>3. \A x \in {b, s} : orders'[x].frozen \in Nat /\ x <= placed'
    BY <1>1, <1>3, CancelledRow, OpenOrder DEF IInv
  <2>4. {b, s} \in SUBSET OrderId  BY <1>1
  <2>5. QED  BY <2>1, <2>2, <2>3, <2>4, FrozenRowsStep DEF IInv
<1>5. ASSUME NEW v \in User, NEW x \in OrderId \ {b}
      PROVE  HeldRow(orders'[x], v) = HeldRow(orders[x], v)
  <2>1. CASE x = s  BY <1>1, <1>3, <2>1, CancelledRow DEF IInv
  <2>2. CASE x # s  BY <1>3, <2>2
  <2>3. QED  BY <2>1, <2>2
<1>6. QED  BY <1>1, <1>3, <1>4, <1>5, RefundCash

\* A buy is filled, whoever sells: its part of the frozen cash leaves both rows.
LEMMA BuyerPays ==
    ASSUME IInv, TypeOK', CashBook, struck' = struck, placed' = placed,
           NEW b \in OrderId, Open(b), orders[b].side = "buy",
           NEW q \in 1 .. Remaining(b), NEW price,
           orders'[b] = BuyFilled(b, q),
           \A o \in OrderId \ {b} : orders'[o].frozen = orders[o].frozen,
           \A v \in User : \A o \in OrderId \ {b} :
              HeldRow(orders'[o], v) = HeldRow(orders[o], v),
           user'[orders[b].user] = Paid(user[orders[b].user], b, q, price),
           \A v \in User \ {orders[b].user} : user'[v].frozen_cash = user[v].frozen_cash
    PROVE  CashBook'
<1> DEFINE u == orders[b].user
           rest == Remaining(b)
           f == orders[b].frozen
           n == f * (rest - q)
           a == user[u].frozen_cash - f
<1>1. /\ u \in User /\ user \in [User -> UserRows] /\ rest \in Nat \ {0}
      /\ f \in Nat /\ placed \in Nat /\ b <= placed
  BY OpenRow, OpenOrder DEF IInv, TypeOK, CashBook
<1>2. user[u] \in UserRows  BY <1>1
<1>3. /\ orders'[b].frozen = Round(n, rest)
      /\ HeldRow(orders[b], u) = f
      /\ HeldRow(orders'[b], u) = Round(n, rest)
      /\ \A v \in User \ {u} : HeldRow(orders'[b], v) = HeldRow(orders[b], v)
  BY BuyFilledRow DEF IInv
<1>4. user'[u].frozen_cash = Round(user[u].frozen_cash * rest - q * f, rest)
  BY <1>2, PaidAccount
<1>5. user[u].frozen_cash \in Nat /\ f <= user[u].frozen_cash
  BY <1>1, <1>3, HeldCovered DEF IInv
<1> HIDE DEF u, rest, f
<1>6. rest - q \in Nat /\ q \in Nat  BY <1>1 DEF rest
<1>7. n \in Nat /\ a \in Nat  BY <1>1, <1>5, <1>6, SMT
<1>8. user[u].frozen_cash * rest - q * f = n + a * rest
  BY <1>1, <1>5, <1>6, SMT
<1> HIDE DEF n, a
<1>9. Round(n + a * rest, rest) = a + Round(n, rest) /\ Round(n, rest) \in Nat
  BY <1>1, <1>7, RoundShift, RoundBounds
<1>10. user'[u].frozen_cash
         = user[u].frozen_cash + HeldRow(orders'[b], u) - HeldRow(orders[b], u)
  BY <1>1, <1>3, <1>4, <1>5, <1>8, <1>9 DEF a
<1>11. FrozenRows'
  <2>1. placed' \in Nat /\ placed' >= placed  BY <1>1
  <2>2. \A x \in {b} : orders'[x].frozen \in Nat /\ x <= placed'
    BY <1>1, <1>3, <1>9
  <2>3. {b} \in SUBSET OrderId  OBVIOUS
  <2>4. QED  BY <2>1, <2>2, <2>3, FrozenRowsStep DEF IInv
<1>12. \A v \in User \ {u} : user'[v].frozen_cash = user[v].frozen_cash  BY DEF u
<1>13. QED  BY <1>1, <1>3, <1>10, <1>11, <1>12, CashBookMoves DEF IInv

\* A fill by the market maker releases alike from the buy and its account.
LEMMA MakerSellsCash ==
    ASSUME IInv, TypeOK', CashBook, struck' = struck, NEW b, NEW q, NEW price,
           MakerSells(b, q, price)
    PROVE  CashBook'
<1> DEFINE u == orders[b].user
<1>1. /\ b \in OrderId /\ Open(b) /\ orders[b].side = "buy" /\ u \in User
      /\ q \in 1 .. Remaining(b)
      /\ user' = [user EXCEPT ![u] = Paid(user[u], b, q, price)]
      /\ orders' = [orders EXCEPT ![b] = BuyFilled(b, q)]
      /\ placed' = placed
  BY DEF MakerSells
<1>2. orders \in [OrderId -> OrderRows] /\ user \in [User -> UserRows]
  BY DEF IInv, TypeOK
<1>3. /\ orders'[b] = BuyFilled(b, q) /\ \A o \in OrderId \ {b} : orders'[o] = orders[o]
      /\ user'[u] = Paid(user[u], b, q, price) /\ \A v \in User \ {u} : user'[v] = user[v]
  BY <1>1, <1>2
<1>4. QED  BY <1>1, <1>3, BuyerPays

\* A user-to-user fill releases alike from the buy and its account.
LEMMA PairTradeCash ==
    ASSUME IInv, TypeOK', CashBook, struck' = struck, NEW b, NEW s, NEW q, NEW price,
           NEW simAt, PairTrade(b, s, q, price, simAt)
    PROVE  CashBook'
<1> DEFINE u == orders[b].user
           w == orders[s].user
<1>1. /\ b \in OrderId /\ Open(b) /\ orders[b].side = "buy" /\ u \in User
      /\ s \in OrderId /\ Open(s) /\ orders[s].side = "sell" /\ w \in User
      /\ u # w /\ b # s
      /\ q \in 1 .. Remaining(b) /\ q \in 1 .. Remaining(s)
      /\ user' = [user EXCEPT ![u] = Paid(user[u], b, q, price),
                              ![w] = Sold(user[w], q, price)]
      /\ orders' = [orders EXCEPT ![b] = BuyFilled(b, q), ![s] = SellFilled(s, q)]
      /\ placed' = placed
  BY DEF PairTrade
<1>2. orders \in [OrderId -> OrderRows] /\ user \in [User -> UserRows]
  BY DEF IInv, TypeOK
<1>3. /\ orders'[b] = BuyFilled(b, q) /\ orders'[s] = SellFilled(s, q)
      /\ \A x \in OrderId \ {b, s} : orders'[x] = orders[x]
      /\ user'[u] = Paid(user[u], b, q, price)
      /\ user'[w] = Sold(user[w], q, price)
      /\ \A v \in User \ {u, w} : user'[v] = user[v]
  BY <1>1, <1>2
<1>4. ASSUME NEW o \in OrderId \ {b}
      PROVE  /\ orders'[o].frozen = orders[o].frozen
             /\ \A v \in User : HeldRow(orders'[o], v) = HeldRow(orders[o], v)
  <2>1. CASE o = s
    <3>1. orders'[o] = SellFilled(s, q)  BY <1>3, <2>1
    <3>2. SellFilled(s, q).frozen = orders[s].frozen  BY <1>1, SellFilledRow DEF IInv
    <3>3. \A v \in User : HeldRow(SellFilled(s, q), v) = HeldRow(orders[s], v)
      BY <1>1, SellFilledRow DEF IInv
    <3>4. QED  BY <2>1, <3>1, <3>2, <3>3
  <2>2. CASE o # s  BY <1>3, <2>2
  <2>3. QED  BY <2>1, <2>2
<1>5. ASSUME NEW v \in User \ {u}
      PROVE  user'[v].frozen_cash = user[v].frozen_cash
  <2>1. CASE v = w
    <3>1. user[w] \in UserRows  BY <1>1, <1>2
    <3> HIDE DEF w, u
    <3>2. QED  BY <1>3, <2>1, <3>1, SoldAccount
  <2>2. CASE v # w  BY <1>3, <2>2
  <2>3. QED  BY <2>1, <2>2
<1>6. /\ orders'[b] = BuyFilled(b, q)
      /\ user'[orders[b].user] = Paid(user[orders[b].user], b, q, price)
      /\ \A v \in User \ {orders[b].user} : user'[v].frozen_cash = user[v].frozen_cash
      /\ \A o \in OrderId \ {b} : orders'[o].frozen = orders[o].frozen
      /\ \A v \in User : \A o \in OrderId \ {b} : HeldRow(orders'[o], v) = HeldRow(orders[o], v)
  BY <1>3, <1>4, <1>5
<1>7. b \in OrderId /\ Open(b) /\ orders[b].side = "buy" /\ q \in 1 .. Remaining(b)
      /\ placed' = placed
  BY <1>1
<1>8. QED  BY <1>6, <1>7, BuyerPays

\* A sale to the market maker releases no frozen cash.
LEMMA MakerBuysCash ==
    ASSUME IInv, TypeOK', CashBook, struck' = struck, NEW s, NEW q, NEW price, NEW simAt,
           MakerBuys(s, q, price, simAt)
    PROVE  CashBook'
<1> DEFINE w == orders[s].user
<1>1. /\ s \in OrderId /\ Open(s) /\ orders[s].side = "sell" /\ w \in User
      /\ q \in 1 .. Remaining(s)
      /\ user' = [user EXCEPT ![w] = Sold(user[w], q, price)]
      /\ orders' = [orders EXCEPT ![s] = SellFilled(s, q)]
      /\ placed' = placed
  BY DEF MakerBuys
<1>2. orders \in [OrderId -> OrderRows] /\ user \in [User -> UserRows] /\ placed \in Nat
  BY DEF IInv, TypeOK
<1>3. /\ orders'[s] = SellFilled(s, q) /\ \A o \in OrderId \ {s} : orders'[o] = orders[o]
      /\ user'[w] = Sold(user[w], q, price) /\ \A v \in User \ {w} : user'[v] = user[v]
  BY <1>1, <1>2
<1>4. ASSUME NEW o \in OrderId
      PROVE  /\ orders'[o].frozen = orders[o].frozen
             /\ \A v \in User : HeldRow(orders'[o], v) = HeldRow(orders[o], v)
  <2>1. CASE o = s  BY <1>1, <1>3, <2>1, SellFilledRow DEF IInv
  <2>2. CASE o # s  BY <1>3, <2>2
  <2>3. QED  BY <2>1, <2>2
<1>5. FrozenRows'
  <2>1. placed' \in Nat /\ placed' >= placed  BY <1>1, <1>2
  <2>2. {} \in SUBSET OrderId  OBVIOUS
  <2>3. QED  BY <1>4, <2>1, <2>2, FrozenRowsStep DEF IInv
<1>6. ASSUME NEW v \in User
      PROVE  user'[v].frozen_cash = user[v].frozen_cash
  <2>1. CASE v = w
    <3>1. user[w] \in UserRows  BY <1>1, <1>2
    <3> HIDE DEF w
    <3>2. QED  BY <1>3, <2>1, <3>1, SoldAccount
  <2>2. CASE v # w  BY <1>3, <2>2
  <2>3. QED  BY <2>1, <2>2
<1>7. QED  BY <1>4, <1>5, <1>6, CashBookStays DEF IInv

-----------------------------------------------------------------------------
(* Steps that leave the book alone *)

\* Settlement, credits, prices, the clock and the passes' own steps.
LEMMA BookKept ==
    ASSUME IInv, TypeOK', ShareBook, CashBook, SharesConserved,
           UNCHANGED <<portfolio, orders, placed, struck>>, house'.shares = house.shares,
           \A v \in User : user'[v].frozen_cash = user[v].frozen_cash
    PROVE  ShareBook' /\ CashBook' /\ SharesConserved'
<1>1. ShareBook'  BY DEF ShareBook
<1>2. SharesConserved'  BY ConservedStays
<1>3. CashBook'  BY DEF CashBook
<1>4. QED  BY <1>1, <1>2, <1>3

\* release_due touches neither the book nor what it freezes.
LEMMA ReleaseDueKeeps ==
    ASSUME IInv, TypeOK', ShareBook, CashBook, SharesConserved, ReleaseDue,
           struck' = struck
    PROVE  ShareBook' /\ CashBook' /\ SharesConserved'
<1> DEFINE Due(u) == Amounts({t \in DueTransactions : t.user = u})
           release == [u \in User |-> LesserOf(Due(u), user[u].settling_cash)]
<1>1. user' = [u \in User |-> [user[u] EXCEPT !.settling_cash = @ - release[u],
                                              !.cash_balance  = @ + release[u]]]
  BY DEF ReleaseDue
<1> HIDE DEF release
<1>2. UNCHANGED <<portfolio, orders, placed>> /\ house'.shares = house.shares
  BY DEF ReleaseDue, book
<1>3. user \in [User -> UserRows]  BY DEF IInv, TypeOK
<1>4. \A v \in User : user'[v].frozen_cash = user[v].frozen_cash
  BY <1>1, <1>3 DEF UserRows
<1>5. QED  BY <1>2, <1>4, BookKept

\* A credit touches neither the book nor what it freezes.
LEMMA CreditCashKeeps ==
    ASSUME IInv, TypeOK', ShareBook, CashBook, SharesConserved, NEW u \in User, NEW amount,
           CreditCash(u, amount), struck' = struck
    PROVE  ShareBook' /\ CashBook' /\ SharesConserved'
<1>1. /\ user' = [user EXCEPT ![u].cash_balance = @ + amount]
      /\ house' = [house EXCEPT !.cash = @ - amount]
      /\ UNCHANGED <<portfolio, orders, placed>>
  BY DEF CreditCash, book
<1>2. user \in [User -> UserRows] /\ house \in [cash : Int, shares : Int]
  BY DEF IInv, TypeOK
<1>3. house'.shares = house.shares  BY <1>1, <1>2
<1>4. \A v \in User : user'[v].frozen_cash = user[v].frozen_cash
  BY <1>1, <1>2 DEF UserRows
<1>5. QED  BY <1>1, <1>3, <1>4, BookKept

\* A step that writes no account, holding or order keeps the books.
LEMMA QuietKeeps ==
    ASSUME IInv, TypeOK', ShareBook, SaleBook, CashBook, SharesConserved, Quiet,
           struck' = struck
    PROVE  ShareBook' /\ SaleBook' /\ CashBook' /\ SharesConserved'
<1>1. UNCHANGED <<user, portfolio, orders, placed, unsettled, house>>
  BY DEF Quiet, book
<1>2. ShareBook' /\ CashBook' /\ SharesConserved'
  <2>1. \A v \in User : user'[v].frozen_cash = user[v].frozen_cash  BY <1>1
  <2>2. QED  BY <1>1, <2>1, BookKept
<1>3. SaleBook'
  <2>1. SettlingBacked'  BY <1>1, SettlingIsAmounts DEF SaleBook, SalesOf
  <2>2. QED  BY <1>1, <2>1 DEF SaleBook
<1>4. QED  BY <1>2, <1>3

-----------------------------------------------------------------------------
(* What the pending buys give back *)

\* A pending buy gives back at most what it holds frozen.
LEMMA PendingGives ==
    ASSUME TypeOK, OrderLife, CashBook, NEW u, NEW o \in PendingBuys(u)
    PROVE  /\ o \in OrderId /\ Open(o) /\ orders[o].user = u /\ orders[o].side = "buy"
           /\ Remaining(o) \in Nat \ {0} /\ orders[o].price \in Nat
           /\ orders[o].frozen \in Nat
           /\ Gives(o) \in Nat /\ Gives(o) <= orders[o].frozen
           /\ FreezeShares(o) \in Nat \ {0}
           /\ Gives(o) > 0 => FreezePrice(o) \in Nat \ {0}
<1>1. /\ o \in OrderId /\ Open(o) /\ orders[o].user = u /\ orders[o].side = "buy"
  BY DEF PendingBuys, OrdersOf
<1>2. Remaining(o) \in Nat \ {0} /\ orders[o].frozen \in Nat /\ orders[o].price \in Nat
  BY <1>1, OpenRow DEF CashBook, OrderRows
<1>3. FreezeShares(o) \in Nat \ {0}  BY <1>2 DEF FreezeShares
<1>4. CASE IsMarket(o)  BY <1>1, <1>2, <1>3, <1>4 DEF Gives, FreezePrice
<1>5. CASE ~IsMarket(o)
  <2>1. Remaining(o) * orders[o].price \in Nat  BY <1>2, SMT
  <2>2. Gives(o) \in Nat /\ Gives(o) <= orders[o].frozen
    BY <1>2, <1>5, <2>1 DEF Gives, LesserOf
  <2>3. FreezePrice(o) \in Nat \ {0}
    BY <1>2, <1>5 DEF FreezePrice, IsMarket, Market
  <2>4. QED  BY <1>1, <1>2, <1>3, <2>2, <2>3
<1>6. QED  BY <1>4, <1>5

GivesOf == [o \in OrderId |-> Gives(o)]

\* What some of a user's pending buys give together.
LEMMA GivenBySum ==
    ASSUME TypeOK, OrderLife, CashBook, NEW u, NEW S \in SUBSET PendingBuys(u)
    PROVE  /\ IsFiniteSet(S)
           /\ \A o \in S : GivesOf[o] = Gives(o) /\ GivesOf[o] \in Nat
           /\ GivenBy(S) = SumFunctionOnSet(GivesOf, S)
           /\ GivenBy(S) \in Nat
<1> DEFINE f == [o \in S |-> Gives(o)]
<1>1. S \in SUBSET OrderId /\ IsFiniteSet(S)
  <2>1. S \in SUBSET OrderId  BY DEF PendingBuys, OrdersOf
  <2>2. QED  BY <2>1, OrdersFinite, FS_Subset
<1>2. \A o \in S : GivesOf[o] = Gives(o) /\ GivesOf[o] \in Nat
  BY <1>1, PendingGives DEF GivesOf
<1>3. DOMAIN f = S /\ \A o \in S : f[o] = GivesOf[o]  BY <1>2
<1> HIDE DEF f
<1>4. SumFunctionOnSet(f, S) = SumFunctionOnSet(GivesOf, S)  BY <1>1, <1>3, SumSame
<1>5. SumFunctionOnSet(GivesOf, S) \in Nat  BY <1>1, <1>2, SumNat
<1>6. QED  BY <1>1, <1>2, <1>3, <1>4, <1>5 DEF GivenBy, SumFunction, f

\* Fewer pending buys give no more.
LEMMA GivenMonotone ==
    ASSUME TypeOK, OrderLife, CashBook, NEW u, NEW T \in SUBSET PendingBuys(u),
           NEW S \in SUBSET T
    PROVE  GivenBy(S) <= GivenBy(T)
<1>1. S \in SUBSET PendingBuys(u)  OBVIOUS
<1>2. /\ GivenBy(S) = SumFunctionOnSet(GivesOf, S)
      /\ GivenBy(T) = SumFunctionOnSet(GivesOf, T)
      /\ IsFiniteSet(T) /\ \A o \in T : GivesOf[o] \in Nat
  BY <1>1, GivenBySum
<1>3. QED  BY <1>2, SumSubset

\* A further pending buy gives what it gives.
LEMMA GivenMore ==
    ASSUME TypeOK, OrderLife, CashBook, NEW u, NEW S \in SUBSET PendingBuys(u),
           NEW o \in PendingBuys(u), o \notin S
    PROVE  GivenBy(S \cup {o}) = Gives(o) + GivenBy(S)
<1>1. S \cup {o} \in SUBSET PendingBuys(u)  OBVIOUS
<1>2. /\ GivenBy(S) = SumFunctionOnSet(GivesOf, S) /\ IsFiniteSet(S)
      /\ GivenBy(S \cup {o}) = SumFunctionOnSet(GivesOf, S \cup {o})
      /\ \A x \in S \cup {o} : GivesOf[x] \in Int /\ GivesOf[x] = Gives(x)
  BY <1>1, GivenBySum
<1>3. QED  BY <1>2, SumInsert

\* The buys whose turn comes before o's.
Before(o, u) == {x \in PendingBuys(u) : x < o /\ Gives(x) > 0}

\* What is still needed at an order's turn: what the older ones did not give.
LEMMA NeededBefore ==
    ASSUME TypeOK, OrderLife, CashBook, NEW u, NEW short \in Nat,
           NEW o \in PendingBuys(u)
    PROVE  /\ Before(o, u) \in SUBSET PendingBuys(u)
           /\ GivenBy(Before(o, u)) \in Nat
           /\ Needed(o, short) = short - GivenBy(Before(o, u))
           /\ Needed(o, short) \in Int
<1>1. orders[o].user = u  BY PendingGives
<1>2. Before(o, u) \in SUBSET PendingBuys(u)  BY DEF Before
<1>3. GivenBy(Before(o, u)) \in Nat  BY <1>2, GivenBySum
<1>4. Needed(o, short) = short - GivenBy(Before(o, u))  BY <1>1 DEF Needed, Before
<1>5. QED  BY <1>2, <1>3, <1>4

\* Later orders need less.
LEMMA NeededFalls ==
    ASSUME TypeOK, OrderLife, CashBook, NEW u, NEW short \in Nat,
           NEW x \in PendingBuys(u), NEW o \in PendingBuys(u), x < o
    PROVE  /\ Needed(o, short) <= Needed(x, short)
           /\ Gives(x) > 0 => Needed(o, short) <= Needed(x, short) - Gives(x)
<1>0. x \in Int /\ o \in Int  BY PendingGives
<1>1. /\ Before(x, u) \in SUBSET PendingBuys(u) /\ Before(o, u) \in SUBSET PendingBuys(u)
      /\ GivenBy(Before(x, u)) \in Nat /\ GivenBy(Before(o, u)) \in Nat
      /\ Needed(x, short) = short - GivenBy(Before(x, u))
      /\ Needed(o, short) = short - GivenBy(Before(o, u))
  BY NeededBefore
<1>2. Before(x, u) \in SUBSET Before(o, u) /\ x \notin Before(x, u)
  <2>1. \A y \in PendingBuys(u) : y \in Int  BY PendingGives
  <2>2. ASSUME NEW y \in PendingBuys(u), y < x  PROVE y < o  BY <1>0, <2>1, <2>2
  <2>3. Before(x, u) \in SUBSET Before(o, u)  BY <2>2 DEF Before
  <2>4. x \notin Before(x, u)
    <3>1. ~(x < x)  BY <1>0
    <3>2. QED  BY <3>1 DEF Before
  <2>5. QED  BY <2>3, <2>4
<1>3. GivenBy(Before(x, u)) <= GivenBy(Before(o, u))  BY <1>1, <1>2, GivenMonotone
<1>4. ASSUME Gives(x) > 0  PROVE Needed(o, short) <= Needed(x, short) - Gives(x)
  <2>1. Before(x, u) \cup {x} \in SUBSET Before(o, u)  BY <1>2, <1>4 DEF Before
  <2>2. GivenBy(Before(x, u) \cup {x}) <= GivenBy(Before(o, u))
    BY <1>1, <2>1, GivenMonotone
  <2>3. GivenBy(Before(x, u) \cup {x}) = Gives(x) + GivenBy(Before(x, u))
    BY <1>1, <1>2, GivenMore
  <2>4. Gives(x) \in Nat  BY PendingGives
  <2>5. QED  BY <1>1, <2>2, <2>3, <2>4
<1>5. QED  BY <1>1, <1>3, <1>4

\* An order that gives loses enough shares to cover what is needed.
LEMMA GiverTerms ==
    ASSUME TypeOK, OrderLife, CashBook, NEW u, NEW short \in Nat,
           NEW o \in Givers(u, short)
    PROVE  /\ o \in PendingBuys(u) /\ Gives(o) > 0
           /\ Needed(o, short) \in Nat \ {0}
           /\ CancelQuantity(o, short) \in Nat \ {0}
           /\ Needed(o, short) * FreezeShares(o)
                <= CancelQuantity(o, short) * FreezePrice(o)
<1>1. o \in PendingBuys(u) /\ Gives(o) > 0 /\ Needed(o, short) > 0  BY DEF Givers
<1>2. Needed(o, short) \in Nat \ {0}  BY <1>1, NeededBefore
<1>3. FreezeShares(o) \in Nat \ {0} /\ FreezePrice(o) \in Nat \ {0}
  BY <1>1, PendingGives
<1> DEFINE n == Needed(o, short) * FreezeShares(o)
           p == FreezePrice(o)
           c == (n + p - 1) \div p
<1>4. n \in Nat \ {0} /\ p \in Nat \ {0}  BY <1>2, <1>3, ProductPositive
<1>5. c = CancelQuantity(o, short)  BY DEF CancelQuantity
<1> HIDE DEF n, p
<1>6. c \in Nat \ {0} /\ n <= c * p
  <2> DEFINE k == n + p - 1
             r == k % p
  <2>1. c \in Int /\ r \in 0 .. p - 1 /\ k = p * c + r  BY <1>4, SMT
  <2> HIDE DEF c, r
  <2>2. p * c = c * p /\ c * p \in Int  BY <1>4, <2>1, SMT
  <2>3. n <= c * p  BY <1>4, <2>1, <2>2
  <2>4. c > 0
    <3> SUFFICES ASSUME c <= 0 PROVE FALSE  BY <2>1
    <3>1. c * p <= 0  BY <1>4, <2>1, SMT
    <3>2. QED  BY <1>4, <2>2, <2>3, <3>1
  <2>5. QED  BY <2>1, <2>3, <2>4
<1> HIDE DEF c
<1>7. QED  BY <1>1, <1>2, <1>5, <1>6 DEF n, p

\* The order that keeps a part of its shares gives more than is needed.
LEMMA ReducedTerms ==
    ASSUME TypeOK, OrderLife, CashBook, NEW u, NEW short \in Nat,
           NEW o \in Reduced(u, short)
    PROVE  /\ o \in Givers(u, short)
           /\ ~CancelsAll(o, short)
           /\ Gives(o) > Needed(o, short)
           /\ CancelQuantity(o, short) < Remaining(o)
           /\ CancelQuantity(o, short) * FreezePrice(o)
                <= orders[o].frozen * FreezeShares(o)
<1>1. o \in Givers(u, short) /\ ~CancelsAll(o, short)  BY DEF Reduced
<1>2. /\ o \in PendingBuys(u) /\ Needed(o, short) \in Nat
      /\ CancelQuantity(o, short) \in Nat
  BY <1>1, GiverTerms
<1>3. /\ Gives(o) \in Nat /\ Remaining(o) \in Nat /\ orders[o].frozen \in Nat
      /\ FreezeShares(o) \in Nat /\ FreezePrice(o) \in Nat
  BY <1>1, <1>2, PendingGives, GiverTerms
<1>4. /\ CancelQuantity(o, short) * FreezePrice(o) \in Nat
      /\ orders[o].frozen * FreezeShares(o) \in Nat
  BY <1>2, <1>3, SMT
<1>5. /\ ~(Gives(o) <= Needed(o, short))
      /\ ~(CancelQuantity(o, short) >= Remaining(o))
      /\ ~(CancelQuantity(o, short) * FreezePrice(o)
             > orders[o].frozen * FreezeShares(o))
  BY <1>1 DEF CancelsAll
<1>6. QED  BY <1>1, <1>2, <1>3, <1>4, <1>5

\* There is one such order at most: the last one.
LEMMA OneReduced ==
    ASSUME TypeOK, OrderLife, CashBook, NEW u, NEW short \in Nat
    PROVE  \/ Reduced(u, short) = {}
           \/ \E r \in Givers(u, short) : Reduced(u, short) = {r}
<1> SUFFICES ASSUME NEW x \in Reduced(u, short), NEW o \in Reduced(u, short), x # o
             PROVE  FALSE
  BY DEF Reduced
<1>1. ASSUME NEW y \in Reduced(u, short), NEW z \in Reduced(u, short), y < z
      PROVE  FALSE
  <2>1. /\ y \in PendingBuys(u) /\ z \in PendingBuys(u) /\ Gives(y) > 0
        /\ Gives(y) > Needed(y, short)
        /\ Needed(y, short) \in Nat /\ Needed(z, short) \in Nat \ {0}
    BY ReducedTerms, GiverTerms
  <2>2. Needed(z, short) <= Needed(y, short) - Gives(y)  BY <1>1, <2>1, NeededFalls
  <2>3. Gives(y) \in Nat  BY <2>1, PendingGives
  <2>4. QED  BY <2>1, <2>2, <2>3
<1>2. x \in Int /\ o \in Int  BY ReducedTerms, GiverTerms, PendingGives
<1>3. x < o \/ o < x  BY <1>2
<1>4. QED  BY <1>1, <1>3

\* What is taken back, over a scale: everything that the cancelled orders give,
\* and the shares that the reduced one loses.
LEMMA RecoveredTerms ==
    ASSUME TypeOK, OrderLife, CashBook, NEW u, NEW short \in Nat
    PROVE  /\ Givers(u, short) \in SUBSET PendingBuys(u)
           /\ Reduced(u, short) = {} =>
                 /\ Scale(u, short) = 1
                 /\ Recovered(u, short) = GivenBy(Givers(u, short))
           /\ \A r : Reduced(u, short) = {r} =>
                 /\ Scale(u, short) = FreezeShares(r)
                 /\ Recovered(u, short)
                      = FreezeShares(r) * GivenBy(Givers(u, short) \ {r})
                          + CancelQuantity(r, short) * FreezePrice(r)
<1>1. Givers(u, short) \in SUBSET PendingBuys(u)  BY DEF Givers
<1>2. ASSUME Reduced(u, short) = {}
      PROVE  /\ Scale(u, short) = 1
             /\ Recovered(u, short) = GivenBy(Givers(u, short))
  <2> DEFINE f == [o \in {} |-> CancelQuantity(o, short) * FreezePrice(o)]
  <2>1. Scale(u, short) = 1  BY <1>2 DEF Scale
  <2>2. SumFunction(f) = 0
    <3>1. DOMAIN f = {}  OBVIOUS
    <3> HIDE DEF f
    <3>2. QED  BY <3>1, SumEmpty DEF SumFunction
  <2>3. Recovered(u, short) = 1 * GivenBy(Givers(u, short)) + SumFunction(f)
    <3>1. Givers(u, short) \ {} = Givers(u, short)  OBVIOUS
    <3>2. QED  BY <1>2, <2>1, <3>1 DEF Recovered
  <2>4. GivenBy(Givers(u, short)) \in Nat  BY <1>1, GivenBySum
  <2> HIDE DEF f
  <2>5. QED  BY <2>1, <2>2, <2>3, <2>4
<1>3. ASSUME NEW r, Reduced(u, short) = {r}
      PROVE  /\ Scale(u, short) = FreezeShares(r)
             /\ Recovered(u, short)
                  = FreezeShares(r) * GivenBy(Givers(u, short) \ {r})
                      + CancelQuantity(r, short) * FreezePrice(r)
  <2> DEFINE f == [o \in {r} |-> CancelQuantity(o, short) * FreezePrice(o)]
             g == [o \in {r} |-> FreezeShares(o)]
  <2>1. r \in Givers(u, short)  BY <1>3, ReducedTerms
  <2>2. /\ FreezeShares(r) \in Int
        /\ CancelQuantity(r, short) * FreezePrice(r) \in Int
    <3>1. /\ r \in PendingBuys(u) /\ Gives(r) > 0 /\ CancelQuantity(r, short) \in Int
      BY <2>1, GiverTerms
    <3>2. FreezeShares(r) \in Int /\ FreezePrice(r) \in Int  BY <3>1, PendingGives
    <3>3. QED  BY <3>1, <3>2, SMT
  <2>3. /\ SumFunction(f) = CancelQuantity(r, short) * FreezePrice(r)
        /\ SumFunction(g) = FreezeShares(r)
    <3>1. /\ DOMAIN f = {r} /\ f[r] = CancelQuantity(r, short) * FreezePrice(r)
          /\ DOMAIN g = {r} /\ g[r] = FreezeShares(r)
      OBVIOUS
    <3>2. f[r] \in Int /\ g[r] \in Int  BY <2>2
    <3> HIDE DEF f, g
    <3>3. SumFunctionOnSet(f, {r}) = f[r] /\ SumFunctionOnSet(g, {r}) = g[r]
      BY <3>2, SumSingle
    <3>4. QED  BY <3>1, <3>3 DEF SumFunction
  <2>4. Scale(u, short) = SumFunction(g)
    <3>1. {r} # {}  OBVIOUS
    <3>2. QED  BY <1>3, <3>1 DEF Scale
  <2>5. Recovered(u, short)
          = Scale(u, short) * GivenBy(Givers(u, short) \ {r}) + SumFunction(f)
    BY <1>3 DEF Recovered
  <2>6. QED  BY <2>3, <2>4, <2>5
<1>4. QED  BY <1>1, <1>2, <1>3

\* Whoever gives comes before whoever needs nothing more.
LEMMA BeforeGives ==
    ASSUME TypeOK, OrderLife, CashBook, NEW u, NEW short \in Nat,
           NEW o \in PendingBuys(u),
           \A x \in Before(o, u) : Needed(x, short) > 0
    PROVE  Before(o, u) \in SUBSET Givers(u, short)
  BY DEF Before, Givers

\* A penalty that can be paid is paid in full.
LEMMA EnoughRecovered ==
    ASSUME TypeOK, OrderLife, CashBook, NEW u, NEW short \in Nat, Affordable(u, short)
    PROVE  /\ Scale(u, short) \in Nat \ {0}
           /\ Recovered(u, short) \in Nat
           /\ Recovered(u, short) >= short * Scale(u, short)
<1> DEFINE G == Givers(u, short)
           PB == PendingBuys(u)
<1>1. G \in SUBSET PB  BY RecoveredTerms
<1>2. CASE Reduced(u, short) = {}
  <2>1. Scale(u, short) = 1 /\ Recovered(u, short) = GivenBy(G)
    BY <1>2, RecoveredTerms
  <2>2. GivenBy(G) \in Nat  BY <1>1, GivenBySum
  <2>3. GivenBy(G) >= short
    <3> DEFINE F == {o \in PB : Gives(o) > 0 /\ Needed(o, short) <= 0}
    <3>1. CASE F = {}
      <4>1. \A o \in PB \ G : GivesOf[o] = 0
        <5> TAKE o \in PB \ G
        <5>1. Gives(o) \in Nat /\ Needed(o, short) \in Int /\ GivesOf[o] = Gives(o)
          BY PendingGives, NeededBefore, GivenBySum
        <5>2. QED  BY <3>1, <5>1 DEF Givers
      <4>2. /\ IsFiniteSet(PB) /\ \A o \in PB : GivesOf[o] \in Int
            /\ GivenBy(PB) = SumFunctionOnSet(GivesOf, PB)
            /\ GivenBy(G) = SumFunctionOnSet(GivesOf, G)
        <5>1. PB \in SUBSET PB  OBVIOUS
        <5>2. /\ IsFiniteSet(PB) /\ \A o \in PB : GivesOf[o] \in Nat
              /\ GivenBy(PB) = SumFunctionOnSet(GivesOf, PB)
          BY <5>1, GivenBySum
        <5>3. GivenBy(G) = SumFunctionOnSet(GivesOf, G)  BY <1>1, GivenBySum
        <5>4. QED  BY <5>2, <5>3
      <4>3. GivenBy(PB) = GivenBy(G)
        <5> HIDE DEF G, PB
        <5> QED  BY <1>1, <4>1, <4>2, SumWithin
      <4>4. GivenBy(PB) >= short  BY DEF Affordable
      <4>5. QED  BY <4>3, <4>4
    <3>2. CASE F # {}
      <4>1. F \in SUBSET Nat  BY PendingGives
      <4>2. PICK o \in F : \A x \in F : o <= x  BY <3>2, <4>1, LeastNatural
      <4>3. \A x \in Before(o, u) : Needed(x, short) > 0
        <5> TAKE x \in Before(o, u)
        <5>1. x \in PB /\ x < o /\ Gives(x) > 0 /\ x \in Int /\ o \in Int
          BY PendingGives DEF Before
        <5>2. x \notin F  BY <4>2, <5>1
        <5>3. Needed(x, short) \in Int  BY <5>1, NeededBefore
        <5>4. QED  BY <5>1, <5>2, <5>3
      <4>4. Before(o, u) \in SUBSET G  BY <4>3, BeforeGives
      <4>5. GivenBy(Before(o, u)) <= GivenBy(G)
        <5> HIDE DEF G
        <5> QED  BY <1>1, <4>4, GivenMonotone
      <4>6. /\ GivenBy(Before(o, u)) \in Nat
            /\ Needed(o, short) = short - GivenBy(Before(o, u))
        BY NeededBefore
      <4>7. Needed(o, short) <= 0  OBVIOUS
      <4>8. QED  BY <2>2, <4>5, <4>6, <4>7
    <3>3. QED  BY <3>1, <3>2
  <2>4. QED  BY <2>1, <2>2, <2>3
<1>3. CASE \E r \in G : Reduced(u, short) = {r}
  <2>1. PICK r \in G : Reduced(u, short) = {r}  BY <1>3
  <2> DEFINE m == FreezeShares(r)
             c == CancelQuantity(r, short) * FreezePrice(r)
             S == G \ {r}
             n == Needed(r, short)
             B == Before(r, u)
  <2>2. Scale(u, short) = m /\ Recovered(u, short) = m * GivenBy(S) + c
    BY <2>1, RecoveredTerms
  <2>3. /\ r \in PB /\ n \in Nat \ {0} /\ n * m <= c /\ m \in Nat \ {0}
        /\ CancelQuantity(r, short) \in Nat /\ FreezePrice(r) \in Nat
    BY GiverTerms, PendingGives
  <2>4. /\ B \in SUBSET PB /\ GivenBy(B) \in Nat /\ n = short - GivenBy(B)
    BY <2>3, NeededBefore
  <2>5. \A x \in B : Needed(x, short) > 0
    <3> TAKE x \in Before(r, u)
    <3>1. x \in PB /\ x < r  BY DEF Before
    <3>2. Needed(r, short) <= Needed(x, short) /\ Needed(x, short) \in Int
      BY <2>3, <3>1, NeededFalls, NeededBefore
    <3>3. QED  BY <2>3, <3>2
  <2>6. B \in SUBSET S
    <3>1. B \in SUBSET G  BY <2>3, <2>5, BeforeGives
    <3>2. r \in Int  BY <2>3, PendingGives
    <3>3. r \notin B
      <4>1. ~(r < r)  BY <3>2
      <4>2. QED  BY <4>1 DEF Before
    <3>4. QED  BY <3>1, <3>3
  <2>7. S \in SUBSET PB  BY <1>1
  <2> HIDE DEF S, B, n, G, PB
  <2>8. GivenBy(B) <= GivenBy(S) /\ GivenBy(S) \in Nat
    BY <2>6, <2>7, GivenMonotone, GivenBySum DEF PB
  <2>9. c \in Nat  BY <2>3, SMT
  <2> HIDE DEF m, c
  <2>10. m * GivenBy(S) + c \in Nat /\ m * GivenBy(S) + c >= short * m
    <3> DEFINE a == GivenBy(S)
               b == GivenBy(B)
    <3>1. a \in Nat /\ b \in Nat /\ b <= a /\ short = n + b /\ n \in Nat
      BY <2>3, <2>4, <2>8
    <3> HIDE DEF a, b
    <3>2. m * a \in Nat /\ n * m \in Nat /\ m * b \in Nat  BY <2>3, <3>1, SMT
    <3>3. m * b <= m * a  BY <2>3, <3>1, SMT
    <3>4. short * m = n * m + m * b  BY <2>3, <3>1, SMT
    <3>5. m * a + c \in Nat /\ m * a + c >= short * m
      BY <2>3, <2>9, <3>2, <3>3, <3>4
    <3>6. QED  BY <3>5 DEF a
  <2>11. QED  BY <2>2, <2>3, <2>10
<1>4. QED  BY <1>2, <1>3, OneReduced

\* The columns that a reduction writes keep their types.
LEMMA ReducedRowType ==
    ASSUME NEW row \in OrderRows, NEW frozen \in Int, NEW quantity \in Nat,
           NEW version \in Nat
    PROVE  [row EXCEPT !.frozen = frozen, !.quantity = quantity,
                       !.version = version] \in OrderRows
  BY DEF OrderRows

\* The row of an order that gives.
LEMMA WithdrawnRow ==
    ASSUME TypeOK, OrderLife, CashBook, NEW u, NEW short \in Nat,
           NEW o \in Givers(u, short)
    PROVE  /\ o \in OrderId /\ Open(o) /\ orders[o].user = u /\ orders[o].side = "buy"
           /\ Rewritten(o, Withdrawn(o, short))
           /\ Withdrawn(o, short).filled = orders[o].filled
           /\ Withdrawn(o, short).user = orders[o].user
           /\ Withdrawn(o, short).side = orders[o].side
           /\ Withdrawn(o, short).frozen \in Nat
           /\ o \notin Reduced(u, short) => Withdrawn(o, short).frozen = 0
           /\ o \in Reduced(u, short) =>
                 Withdrawn(o, short).frozen
                   = Round(orders[o].frozen * FreezeShares(o)
                             - CancelQuantity(o, short) * FreezePrice(o),
                           FreezeShares(o))
<1> DEFINE row == Withdrawn(o, short)
<1>1. o \in PendingBuys(u) /\ Gives(o) > 0 /\ CancelQuantity(o, short) \in Nat \ {0}
  BY GiverTerms
<1>2. /\ o \in OrderId /\ Open(o) /\ orders[o].user = u /\ orders[o].side = "buy"
      /\ Remaining(o) \in Nat /\ orders[o].frozen \in Nat
      /\ FreezeShares(o) \in Nat \ {0} /\ FreezePrice(o) \in Nat
  BY <1>1, PendingGives
<1>3. /\ orders[o] \in OrderRows /\ RowOK(orders[o])
      /\ orders[o].status \in OpenStatuses /\ orders[o].user \in User
      /\ orders[o].quantity \in Nat /\ orders[o].filled \in Nat
      /\ Remaining(o) = orders[o].quantity - orders[o].filled
  BY <1>2, OpenRow
<1>4. CASE CancelsAll(o, short)
  <2>1. row = Cancelled(o)  BY <1>4 DEF Withdrawn
  <2>2. Rewritten(o, row)  BY <1>2, <2>1, CancelledRewrites
  <2>3. /\ row.filled = orders[o].filled /\ row.user = orders[o].user
        /\ row.side = orders[o].side /\ row.frozen = 0
    BY <1>3, <2>1 DEF Cancelled, OrderRows
  <2>4. o \notin Reduced(u, short)  BY <1>4 DEF Reduced
  <2> HIDE DEF row
  <2>5. QED  BY <1>2, <2>2, <2>3, <2>4 DEF row
<1>5. CASE ~CancelsAll(o, short)
  <2> DEFINE qty == CancelQuantity(o, short)
             n == orders[o].frozen * FreezeShares(o) - qty * FreezePrice(o)
             fr == Round(n, FreezeShares(o))
  <2>1. o \in Reduced(u, short)  BY <1>5 DEF Reduced
  <2>2. qty < Remaining(o)
        /\ qty * FreezePrice(o) <= orders[o].frozen * FreezeShares(o)
    BY <2>1, ReducedTerms
  <2>3. n \in Nat
    <3>1. qty * FreezePrice(o) \in Nat /\ orders[o].frozen * FreezeShares(o) \in Nat
      BY <1>1, <1>2, SMT
    <3>2. QED  BY <2>2, <3>1
  <2>4. fr \in Nat
    <3> HIDE DEF n
    <3> QED  BY <1>2, <2>3, RoundBounds
  <2>5. row = [orders[o] EXCEPT !.frozen = fr, !.quantity = @ - qty, !.version = @ + 1]
    BY <1>5 DEF Withdrawn
  <2>6. qty \in Nat \ {0}  BY <1>1
  <2>7. fr = Round(orders[o].frozen * FreezeShares(o)
                     - CancelQuantity(o, short) * FreezePrice(o), FreezeShares(o))
    OBVIOUS
  <2> HIDE DEF fr, n, qty
  <2>8. /\ row.user = orders[o].user /\ row.side = orders[o].side
        /\ row.price = orders[o].price /\ row.quantity = orders[o].quantity - qty
        /\ row.filled = orders[o].filled /\ row.frozen = fr
        /\ row.status = orders[o].status /\ row.version = orders[o].version + 1
    BY <1>3, <2>5 DEF OrderRows
  <2>9. orders[o].filled < orders[o].quantity - qty /\ orders[o].quantity - qty \in Nat
    BY <1>3, <2>2, <2>6 DEF qty
  <2>10. row \in OrderRows
    <3>1. orders[o].version + 1 \in Nat /\ fr \in Int  BY <1>3, <2>4 DEF OrderRows
    <3> DEFINE old == orders[o]
               k == old.quantity - qty
               v == old.version + 1
    <3>2. row = [old EXCEPT !.frozen = fr, !.quantity = k, !.version = v]  BY <2>5
    <3>3. old \in OrderRows /\ k \in Nat /\ v \in Nat  BY <1>3, <2>9, <3>1
    <3> HIDE DEF old, k, v, row
    <3>4. QED  BY <3>1, <3>2, <3>3, ReducedRowType
  <2> HIDE DEF row
  <2>11. RowOK(row)
    BY <1>2, <1>3, <2>8, <2>9 DEF RowOK, OpenStatuses
  <2>12. Rewritten(o, row)
    BY <1>3, <2>8, <2>10, <2>11 DEF Rewritten, OpenStatuses, OrderRows
  <2>13. QED  BY <1>2, <2>1, <2>4, <2>7, <2>8, <2>12 DEF row
<1>6. QED  BY <1>4, <1>5

\* What every order loses at least, all the orders lose together.
LEMMA FrozenLoses ==
    ASSUME NEW old \in [OrderId -> OrderRows], NEW new \in [OrderId -> OrderRows],
           NEW u, NEW e,
           \A o \in OrderId : /\ e[o] \in Int
                              /\ HeldRow(new[o], u) + e[o] <= HeldRow(old[o], u)
    PROVE  Frozen(new, u) + SumFunctionOnSet(e, OrderId) <= Frozen(old, u)
<1> DEFINE f == HeldBy(new, u)
           g == HeldBy(old, u)
           h == [o \in OrderId |-> f[o] + e[o]]
<1>1. \A o \in OrderId : f[o] \in Int /\ g[o] \in Int  BY FrozenInt
<1>2. \A o \in OrderId : f[o] = HeldRow(new[o], u) /\ g[o] = HeldRow(old[o], u)
  BY DEF HeldBy
<1> HIDE DEF f, g
<1>3. \A o \in OrderId : h[o] = f[o] + e[o] /\ h[o] \in Int /\ h[o] <= g[o]
  BY <1>1, <1>2
<1> HIDE DEF h
<1>4. SumFunctionOnSet(h, OrderId)
        = SumFunctionOnSet(f, OrderId) + SumFunctionOnSet(e, OrderId)
  <2>1. /\ \A o \in OrderId : f[o] \in Int /\ e[o] \in Int
        /\ \A o \in OrderId : h[o] = f[o] + e[o]
    BY <1>1, <1>3
  <2>2. QED  BY <2>1, OrdersFinite, SumPlus
<1>5. SumFunctionOnSet(h, OrderId) <= SumFunctionOnSet(g, OrderId)
  <2>1. \A o \in OrderId : h[o] \in Int /\ g[o] \in Int /\ h[o] <= g[o]  BY <1>1, <1>3
  <2>2. QED  BY <2>1, OrdersFinite, SumLess
<1>6. QED  BY <1>4, <1>5 DEF Frozen, f, g

\* The book after the penalty.
Withdrawal(u, short) ==
    orders' = [o \in OrderId |-> IF o \in Givers(u, short) THEN Withdrawn(o, short)
                                 ELSE orders[o]]

\* Every giver that is cancelled loses what it gives or more.
LEMMA FrozenCancelled ==
    ASSUME TypeOK, OrderLife, CashBook, orders' \in [OrderId -> OrderRows], NEW u,
           NEW short \in Nat, Withdrawal(u, short), Reduced(u, short) = {}
    PROVE  Frozen(orders', u) + GivenBy(Givers(u, short)) <= Frozen(orders, u)
<1> DEFINE G == Givers(u, short)
           e == [o \in OrderId |-> IF o \in G THEN Gives(o) ELSE 0]
<1>1. G \in SUBSET PendingBuys(u)  BY RecoveredTerms
<1>2. G \in SUBSET OrderId  BY WithdrawnRow
<1>3. /\ GivenBy(G) = SumFunctionOnSet(GivesOf, G)
      /\ \A o \in G : GivesOf[o] = Gives(o) /\ GivesOf[o] \in Nat
      /\ IsFiniteSet(G)
  <2> HIDE DEF G
  <2> QED  BY <1>1, GivenBySum
<1>4. ASSUME NEW o \in OrderId
      PROVE  e[o] \in Int /\ HeldRow(orders'[o], u) + e[o] <= HeldRow(orders[o], u)
  <2>1. orders[o] \in OrderRows  BY DEF TypeOK
  <2>2. CASE o \in G
    <3>1. orders'[o] = Withdrawn(o, short)  BY <2>2 DEF Withdrawal
    <3>2. orders'[o].frozen = 0 /\ orders[o].user = u /\ orders[o].side = "buy"
      BY <2>2, <3>1, WithdrawnRow
    <3>3. HeldRow(orders'[o], u) = 0 /\ HeldRow(orders[o], u) = orders[o].frozen
      BY <3>2 DEF HeldRow
    <3>4. Gives(o) \in Nat /\ Gives(o) <= orders[o].frozen /\ orders[o].frozen \in Nat
      BY <1>1, <2>2, PendingGives
    <3>5. e[o] = Gives(o)  BY <2>2
    <3>6. QED  BY <3>3, <3>4, <3>5
  <2>3. CASE o \notin G
    <3>1. orders'[o] = orders[o]  BY <2>3 DEF Withdrawal
    <3>2. HeldRow(orders[o], u) \in Int  BY <2>1, RowNumbers
    <3>3. e[o] = 0  BY <2>3
    <3>4. QED  BY <3>1, <3>2, <3>3
  <2>4. QED  BY <2>2, <2>3
<1>5. (\A o \in G : e[o] = GivesOf[o]) /\ \A o \in OrderId \ G : e[o] = 0
  BY <1>2, <1>3
<1> HIDE DEF e, G
<1>6. Frozen(orders', u) + SumFunctionOnSet(e, OrderId) <= Frozen(orders, u)
  BY <1>4, FrozenLoses DEF TypeOK
<1>7. SumFunctionOnSet(e, OrderId) = SumFunctionOnSet(e, G)
  BY <1>2, <1>4, <1>5, OrdersFinite, SumWithin
<1>8. SumFunctionOnSet(e, G) = SumFunctionOnSet(GivesOf, G)
  BY <1>3, <1>5, SumSame
<1>9. QED  BY <1>3, <1>6, <1>7, <1>8 DEF G

\* The reduced one loses the difference of its frozen cash.
LEMMA FrozenReduced ==
    ASSUME TypeOK, OrderLife, CashBook, orders' \in [OrderId -> OrderRows], NEW u,
           NEW short \in Nat, Withdrawal(u, short), NEW r, Reduced(u, short) = {r}
    PROVE  Frozen(orders', u) + GivenBy(Givers(u, short) \ {r})
               + (orders[r].frozen - Withdrawn(r, short).frozen)
             <= Frozen(orders, u)
<1> DEFINE G == Givers(u, short)
           S == G \ {r}
           d == orders[r].frozen - Withdrawn(r, short).frozen
           e == [o \in OrderId |-> IF o = r THEN d ELSE IF o \in G THEN Gives(o) ELSE 0]
<1>1. G \in SUBSET PendingBuys(u) /\ r \in G  BY RecoveredTerms, ReducedTerms
<1>2. G \in SUBSET OrderId  BY WithdrawnRow
<1>3. /\ GivenBy(S) = SumFunctionOnSet(GivesOf, S)
      /\ \A o \in S : GivesOf[o] = Gives(o) /\ GivesOf[o] \in Nat
      /\ IsFiniteSet(S)
  <2>1. S \in SUBSET PendingBuys(u)  BY <1>1
  <2> HIDE DEF S
  <2>2. QED  BY <2>1, GivenBySum
<1>4. d \in Int  BY <1>1, WithdrawnRow, PendingGives
<1>5. ASSUME NEW o \in OrderId
      PROVE  e[o] \in Int /\ HeldRow(orders'[o], u) + e[o] <= HeldRow(orders[o], u)
  <2>1. orders[o] \in OrderRows  BY DEF TypeOK
  <2>2. CASE o = r
    <3>1. orders'[o] = Withdrawn(o, short)  BY <1>1, <2>2 DEF Withdrawal
    <3>2. /\ orders[o].user = u /\ orders[o].side = "buy"
          /\ Withdrawn(o, short).user = u /\ Withdrawn(o, short).side = "buy"
          /\ Withdrawn(o, short).frozen \in Nat /\ orders[o].frozen \in Nat
      BY <1>1, <2>2, WithdrawnRow, PendingGives
    <3>3. /\ HeldRow(orders'[o], u) = Withdrawn(o, short).frozen
          /\ HeldRow(orders[o], u) = orders[o].frozen
      BY <3>1, <3>2 DEF HeldRow
    <3>4. e[o] = d /\ d = orders[o].frozen - Withdrawn(o, short).frozen  BY <2>2
    <3> HIDE DEF e, d
    <3>5. QED  BY <3>2, <3>3, <3>4
  <2>3. CASE o # r /\ o \in G
    <3>1. orders'[o] = Withdrawn(o, short)  BY <2>3 DEF Withdrawal
    <3>2. o \notin Reduced(u, short)  BY <2>3
    <3>3. orders'[o].frozen = 0 /\ orders[o].user = u /\ orders[o].side = "buy"
      BY <2>3, <3>1, <3>2, WithdrawnRow
    <3>4. HeldRow(orders'[o], u) = 0 /\ HeldRow(orders[o], u) = orders[o].frozen
      BY <3>3 DEF HeldRow
    <3>5. Gives(o) \in Nat /\ Gives(o) <= orders[o].frozen /\ orders[o].frozen \in Nat
      BY <1>1, <2>3, PendingGives
    <3>6. e[o] = Gives(o)  BY <2>3
    <3>7. QED  BY <3>4, <3>5, <3>6
  <2>4. CASE o \notin G
    <3>1. orders'[o] = orders[o]  BY <2>4 DEF Withdrawal
    <3>2. HeldRow(orders[o], u) \in Int  BY <2>1, RowNumbers
    <3>3. e[o] = 0  BY <1>1, <2>4
    <3>4. QED  BY <3>1, <3>2, <3>3
  <2>5. QED  BY <2>2, <2>3, <2>4
<1>6. /\ \A o \in S : e[o] = GivesOf[o]
      /\ \A o \in OrderId \ G : e[o] = 0
      /\ e[r] = d
  BY <1>1, <1>2, <1>3
<1>7. G = S \cup {r} /\ r \notin S  BY <1>1
<1> HIDE DEF e, G, S, d
<1>8. Frozen(orders', u) + SumFunctionOnSet(e, OrderId) <= Frozen(orders, u)
  BY <1>5, FrozenLoses DEF TypeOK
<1>9. SumFunctionOnSet(e, OrderId) = SumFunctionOnSet(e, G)
  BY <1>2, <1>5, <1>6, OrdersFinite, SumWithin
<1>10. SumFunctionOnSet(e, S \cup {r}) = e[r] + SumFunctionOnSet(e, S)
  BY <1>2, <1>3, <1>5, <1>7, SumInsert
<1>11. SumFunctionOnSet(e, S) = SumFunctionOnSet(GivesOf, S)
  BY <1>3, <1>6, SumSame
<1>12. GivenBy(S) \in Int /\ Frozen(orders', u) \in Int /\ Frozen(orders, u) \in Int
  <2>1. GivenBy(S) \in Int  BY <1>3, SumNat
  <2>2. QED  BY <2>1, FrozenInt DEF TypeOK
<1>13. Frozen(orders', u) + (d + GivenBy(S)) <= Frozen(orders, u)
  BY <1>3, <1>6, <1>7, <1>8, <1>9, <1>10, <1>11
<1>14. Frozen(orders', u) + GivenBy(S) + d <= Frozen(orders, u)
  BY <1>4, <1>12, <1>13
<1>15. QED  BY <1>14 DEF S, G, d

\* Some orders give no more than they hold, and one more holds the rest.
LEMMA GivenWithin ==
    ASSUME TypeOK, OrderLife, CashBook, NEW u, NEW S \in SUBSET PendingBuys(u),
           NEW r \in PendingBuys(u), r \notin S
    PROVE  GivenBy(S) + orders[r].frozen <= Frozen(orders, u)
<1> DEFINE g == HeldBy(orders, u)
           T == S \cup {r}
<1>1. \A o \in PendingBuys(u) : /\ o \in OrderId /\ g[o] = orders[o].frozen
                                /\ Gives(o) <= orders[o].frozen
  <2> TAKE o \in PendingBuys(u)
  <2>1. o \in OrderId /\ orders[o].user = u /\ orders[o].side = "buy"
        /\ Gives(o) <= orders[o].frozen
    BY PendingGives
  <2>2. QED  BY <2>1 DEF HeldBy, HeldRow
<1>2. \A o \in OrderId : g[o] \in Nat  BY DEF HeldBy, HeldRow, CashBook
<1>3. /\ IsFiniteSet(S) /\ GivenBy(S) = SumFunctionOnSet(GivesOf, S)
      /\ \A o \in S : GivesOf[o] = Gives(o) /\ GivesOf[o] \in Nat
      /\ GivenBy(S) \in Nat
  BY GivenBySum
<1>4. T \in SUBSET OrderId  BY <1>1
<1>5. g[r] = orders[r].frozen /\ S \in SUBSET OrderId  BY <1>1
<1>6. \A o \in S : GivesOf[o] <= g[o]  BY <1>1, <1>3
<1> HIDE DEF g
<1>7. SumFunctionOnSet(g, S \cup {r}) = g[r] + SumFunctionOnSet(g, S)
  <2>1. \A o \in S \cup {r} : g[o] \in Int  BY <1>2, <1>4
  <2>2. QED  BY <1>3, <2>1, SumInsert
<1>8. SumFunctionOnSet(GivesOf, S) <= SumFunctionOnSet(g, S)
  <2>1. \A o \in S : GivesOf[o] \in Int /\ g[o] \in Int /\ GivesOf[o] <= g[o]
    BY <1>2, <1>3, <1>5, <1>6
  <2>2. QED  BY <1>3, <2>1, SumLess
<1>9. SumFunctionOnSet(g, T) <= SumFunctionOnSet(g, OrderId)
  <2> HIDE DEF T
  <2> QED  BY <1>2, <1>4, OrdersFinite, SumSubset
<1>10. SumFunctionOnSet(g, S) \in Nat /\ g[r] \in Nat /\ SumFunctionOnSet(g, OrderId) \in Nat
  <2>1. \A o \in S : g[o] \in Nat  BY <1>2, <1>5
  <2>2. g[r] \in Nat  BY <1>1, <1>2
  <2>3. QED  BY <1>2, <1>3, <2>1, <2>2, OrdersFinite, SumNat
<1>11. QED  BY <1>3, <1>5, <1>7, <1>8, <1>9, <1>10 DEF Frozen, g

-----------------------------------------------------------------------------
(* The penalty *)

\* What the deduction lacks.
Shortfall(cash, deduction) ==
    IF deduction > cash /\ deduction > 0 THEN deduction - cash ELSE 0

\* The shortfall is never negative, and none where the cash suffices.
LEMMA ShortfallNat ==
    ASSUME NEW cash \in Int, NEW deduction \in Nat
    PROVE  /\ Shortfall(cash, deduction) \in Nat
           /\ deduction = 0 \/ deduction <= cash => Shortfall(cash, deduction) = 0
           /\ Shortfall(cash, deduction) > 0 =>
                 Shortfall(cash, deduction) = deduction - cash
  BY DEF Shortfall

\* The columns that the penalty writes.
LEMMA PenalisedAccount ==
    ASSUME NEW row \in UserRows, NEW back \in Nat, NEW scale \in Nat \ {0},
           NEW deduction \in Nat
    PROVE  /\ Penalised(row, back, scale, deduction) \in UserRows
           /\ Penalised(row, back, scale, deduction).cash_balance
                = Round((row.cash_balance - deduction) * scale + back, scale)
           /\ Penalised(row, back, scale, deduction).frozen_cash
                = Round(row.frozen_cash * scale - back, scale)
           /\ Penalised(row, back, scale, deduction).settling_cash = row.settling_cash
<1> DEFINE cash == Round((row.cash_balance - deduction) * scale + back, scale)
           froze == Round(row.frozen_cash * scale - back, scale)
<1>1. row.cash_balance \in Int /\ row.frozen_cash \in Int  BY DEF UserRows
<1>2. cash \in Int
  <2>1. (row.cash_balance - deduction) * scale + back \in Int  BY <1>1, SMT
  <2>2. QED  BY <2>1, RoundInt
<1>3. froze \in Int
  <2>1. row.frozen_cash * scale - back \in Int  BY <1>1, SMT
  <2>2. QED  BY <2>1, RoundInt
<1>4. Penalised(row, back, scale, deduction)
        = [row EXCEPT !.cash_balance = cash, !.frozen_cash = froze]
  BY DEF Penalised
<1> DEFINE new == Penalised(row, back, scale, deduction)
<1> HIDE DEF cash, froze, new
<1>5. new = [row EXCEPT !.cash_balance = cash, !.frozen_cash = froze]  BY <1>4 DEF new
<1>6. /\ new \in UserRows /\ new.cash_balance = cash /\ new.frozen_cash = froze
      /\ new.settling_cash = row.settling_cash
  BY <1>2, <1>3, <1>5 DEF UserRows
<1>7. QED  BY <1>6 DEF new, cash, froze

\* The account still covers what the orders hold frozen.
LEMMA PenalisedCovers ==
    ASSUME TypeOK, OrderLife, CashBook, orders' \in [OrderId -> OrderRows],
           NEW u \in User, NEW short \in Nat, Withdrawal(u, short), Affordable(u, short),
           NEW deduction \in Nat
    PROVE  Penalised(user[u], Recovered(u, short), Scale(u, short), deduction).frozen_cash
             >= Frozen(orders', u)
<1> DEFINE fc == user[u].frozen_cash
           G == Givers(u, short)
<1>1. /\ fc \in Nat /\ fc >= Frozen(orders, u)
      /\ user[u] \in UserRows /\ Frozen(orders, u) \in Nat
  BY HeldCovered DEF TypeOK
<1>2. Frozen(orders', u) \in Nat
  <2>1. \A o \in OrderId : HeldRow(orders'[o], u) \in Nat
    <3> TAKE o \in OrderId
    <3>1. CASE o \in G
      <4>1. orders'[o] = Withdrawn(o, short)  BY <3>1 DEF Withdrawal
      <4>2. QED  BY <3>1, <4>1, WithdrawnRow DEF HeldRow
    <3>2. CASE o \notin G
      <4>1. orders'[o] = orders[o]  BY <3>2 DEF Withdrawal
      <4>2. QED  BY <4>1, HeldCovered
    <3>3. QED  BY <3>1, <3>2
  <2> DEFINE g == HeldBy(orders', u)
  <2>2. \A o \in OrderId : g[o] = HeldRow(orders'[o], u)  BY DEF HeldBy
  <2> HIDE DEF g
  <2>3. SumFunctionOnSet(g, OrderId) \in Nat  BY <2>1, <2>2, OrdersFinite, SumNat
  <2>4. QED  BY <2>3 DEF Frozen, g
<1>3. /\ Scale(u, short) \in Nat \ {0} /\ Recovered(u, short) \in Nat
  BY EnoughRecovered
<1>4. Penalised(user[u], Recovered(u, short), Scale(u, short), deduction).frozen_cash
        = Round(fc * Scale(u, short) - Recovered(u, short), Scale(u, short))
  <2> DEFINE row == user[u]
             back == Recovered(u, short)
             scale == Scale(u, short)
  <2>1. row \in UserRows /\ back \in Nat /\ scale \in Nat \ {0}  BY <1>1, <1>3
  <2> HIDE DEF row, back, scale, fc
  <2>2. Penalised(row, back, scale, deduction).frozen_cash
          = Round(row.frozen_cash * scale - back, scale)
    BY <2>1, PenalisedAccount
  <2>3. QED  BY <2>2 DEF row, back, scale, fc
<1>5. CASE Reduced(u, short) = {}
  <2>1. Scale(u, short) = 1 /\ Recovered(u, short) = GivenBy(G)
    BY <1>5, RecoveredTerms
  <2>2. Frozen(orders', u) + GivenBy(G) <= Frozen(orders, u)
    BY <1>5, FrozenCancelled
  <2>3. GivenBy(G) \in Nat
    <3>1. G \in SUBSET PendingBuys(u)  BY RecoveredTerms
    <3>2. QED  BY <3>1, GivenBySum
  <2> HIDE DEF fc
  <2>4. fc - GivenBy(G) \in Nat /\ fc - GivenBy(G) >= Frozen(orders', u)
    BY <1>1, <1>2, <2>2, <2>3
  <2>5. Round((fc - GivenBy(G)) * 1, 1) = fc - GivenBy(G)  BY <2>4, RoundWhole
  <2>6. (fc - GivenBy(G)) * 1 = fc * 1 - GivenBy(G)  BY <1>1, <2>3
  <2>7. QED  BY <1>4, <2>1, <2>4, <2>5, <2>6 DEF fc
<1>6. CASE \E r \in G : Reduced(u, short) = {r}
  <2>1. PICK r \in G : Reduced(u, short) = {r}  BY <1>6
  <2> DEFINE m == FreezeShares(r)
             c == CancelQuantity(r, short) * FreezePrice(r)
             S == G \ {r}
             f == orders[r].frozen
             left == f * m - c
             a == fc - GivenBy(S) - f
  <2>2. Scale(u, short) = m /\ Recovered(u, short) = m * GivenBy(S) + c
    BY <2>1, RecoveredTerms
  <2>3. /\ m \in Nat \ {0} /\ CancelQuantity(r, short) \in Nat /\ FreezePrice(r) \in Nat
        /\ f \in Nat
    BY GiverTerms, PendingGives
  <2>4. r \in Reduced(u, short)  BY <2>1
  <2>5. c \in Nat /\ f * m \in Nat /\ c <= f * m
    BY <2>3, <2>4, ReducedTerms, SMT
  <2>6. left \in Nat  BY <2>5
  <2>7. Withdrawn(r, short).frozen = Round(left, m)  BY <2>4, WithdrawnRow
  <2>8. Frozen(orders', u) + GivenBy(S) + (f - Round(left, m)) <= Frozen(orders, u)
    BY <2>1, <2>7, FrozenReduced
  <2>9. GivenBy(S) \in Nat
    <3>1. S \in SUBSET PendingBuys(u)  BY RecoveredTerms
    <3> HIDE DEF S
    <3>2. QED  BY <3>1, GivenBySum
  <2> HIDE DEF S, f, fc
  <2>10. a \in Nat
    <3>1. GivenBy(S) + f <= Frozen(orders, u)
      <4>1. /\ S \in SUBSET PendingBuys(u) /\ r \in PendingBuys(u) /\ r \notin S
            /\ Gives(r) > 0
        BY RecoveredTerms, GiverTerms DEF S
      <4>2. QED  BY <4>1, GivenWithin DEF f
    <3>2. QED  BY <1>1, <2>3, <2>9, <3>1
  <2> HIDE DEF m, c, left
  <2>11. Round(left, m) \in Nat  BY <2>3, <2>6, RoundBounds
  <2>12. a + Round(left, m) >= Frozen(orders', u)
    BY <1>1, <1>2, <2>3, <2>8, <2>9, <2>11
  <2>13. fc * m - (m * GivenBy(S) + c) = left + a * m
    <3>1. left = f * m - c  BY DEF left
    <3>2. c \in Nat  BY <2>5
    <3> DEFINE g == GivenBy(S)
    <3>3. g \in Nat  BY <2>9
    <3> HIDE DEF g
    <3>4. fc * m - (m * g + c) = (f * m - c) + (fc - g - f) * m
      BY <1>1, <2>3, <3>2, <3>3, SMT
    <3>5. QED  BY <3>1, <3>4 DEF g
  <2> HIDE DEF a
  <2>14. Round(left + a * m, m) = a + Round(left, m)  BY <2>3, <2>6, <2>10, RoundShift
  <2>15. QED  BY <1>4, <2>2, <2>12, <2>13, <2>14
<1>7. QED  BY <1>5, <1>6, OneReduced

\* A penalty takes an account below zero only if it was there before.
LEMMA PenalisedSolvent ==
    ASSUME TypeOK, OrderLife, CashBook, NEW u \in User, NEW deduction \in Nat,
           NEW short, short = Shortfall(user[u].cash_balance, deduction),
           Affordable(u, short),
           NEW new, new = Penalised(user[u], Recovered(u, short), Scale(u, short), deduction)
    PROVE  new.cash_balance >= 0 \/ new.cash_balance >= user[u].cash_balance
<1> DEFINE row == user[u]
           cash == row.cash_balance
           back == Recovered(u, short)
           scale == Scale(u, short)
           n == (cash - deduction) * scale + back
<1>1. row \in UserRows /\ cash \in Int  BY DEF TypeOK, UserRows
<1>2. /\ short \in Nat /\ (deduction = 0 \/ deduction <= cash => short = 0)
      /\ short > 0 => short = deduction - cash
  BY <1>1, ShortfallNat
<1>3. scale \in Nat \ {0} /\ back \in Nat /\ back >= short * scale
  BY <1>2, EnoughRecovered
<1>4. new.cash_balance = Round(n, scale)
  <2> HIDE DEF row, back, scale
  <2>1. Penalised(row, back, scale, deduction).cash_balance = Round(n, scale)
    BY <1>1, <1>3, PenalisedAccount
  <2>2. QED  BY <2>1 DEF row, back, scale
<1> HIDE DEF row, back, scale
<1>5. CASE short > 0 \/ deduction <= cash
  <2>1. n \in Nat
    <3>1. CASE short > 0
      <4>1. cash - deduction = 0 - short  BY <1>1, <1>2, <3>1
      <4>2. (0 - short) * scale + back \in Nat
        <5>1. (0 - short) * scale = 0 - short * scale /\ short * scale \in Nat
          BY <1>2, <1>3, SMT
        <5>2. QED  BY <1>3, <5>1
      <4>3. QED  BY <4>1, <4>2
    <3>2. CASE deduction <= cash
      <4>1. cash - deduction \in Nat  BY <1>1, <3>2
      <4>2. QED  BY <1>3, <4>1, SMT
    <3>3. QED  BY <1>5, <3>1, <3>2
  <2> HIDE DEF n
  <2>2. Round(n, scale) \in Nat  BY <1>3, <2>1, RoundBounds
  <2>3. QED  BY <1>4, <2>2
<1>6. CASE short = 0 /\ deduction > cash
  <2>1. deduction = 0
    <3>1. SUFFICES ASSUME deduction # 0 PROVE FALSE  OBVIOUS
    <3>2. short = deduction - cash  BY <1>6, <3>1 DEF Shortfall, cash, row
    <3>3. QED  BY <1>1, <1>6, <3>2
  <2>2. Givers(u, 0) = {}
    <3> SUFFICES ASSUME NEW o \in Givers(u, 0) PROVE FALSE  OBVIOUS
    <3>1. 0 \in Nat  OBVIOUS
    <3>2. o \in PendingBuys(u) /\ Needed(o, 0) \in Nat \ {0}  BY <3>1, GiverTerms
    <3>3. Needed(o, 0) = 0 - GivenBy(Before(o, u)) /\ GivenBy(Before(o, u)) \in Nat
      BY <3>1, <3>2, NeededBefore
    <3>4. QED  BY <3>2, <3>3
  <2>3. Reduced(u, 0) = {}  BY <2>2 DEF Reduced
  <2>4. scale = 1 /\ back = 0
    <3>1. scale = 1 /\ back = GivenBy({})
      BY <1>6, <2>2, <2>3, RecoveredTerms DEF scale, back
    <3>2. {} \in SUBSET PendingBuys(u)  OBVIOUS
    <3>3. GivenBy({}) = 0  BY <3>2, GivenBySum, SumEmpty
    <3>4. QED  BY <3>1, <3>3
  <2>5. n = cash  BY <1>1, <2>1, <2>4
  <2>6. Round(n, scale) = cash
    <3>1. Round(cash, 1) = cash  BY <1>1, RoundOne
    <3>2. QED  BY <2>4, <2>5, <3>1
  <2>7. new.cash_balance = user[u].cash_balance  BY <1>4, <2>6 DEF row
  <2>8. user[u].cash_balance \in Int  BY <1>1 DEF row
  <2>9. QED  BY <2>7, <2>8
<1>7. QED  BY <1>1, <1>2, <1>5, <1>6

\* Every writer of a penalty is sound: the inductive invariant of the exchange
\* survives it.
LEMMA ApplyPenaltyInv ==
    ASSUME IInv, CashBook, NEW u \in User, NEW deduction \in Deductions,
           NEW duration \in Durations, ApplyPenalty(u, deduction, duration)
    PROVE  IInv' /\ FinalKept
<1> DEFINE short == Shortfall(user[u].cash_balance, deduction)
           G == Givers(u, short)
           paid == Penalised(user[u], Recovered(u, short), Scale(u, short), deduction)
<1> USE PenaltyAssumption
<1>1. /\ TypeOK /\ OrderLife /\ PeeksTrusted
      /\ user \in [User -> UserRows] /\ orders \in [OrderId -> OrderRows]
      /\ placed \in 0 .. MaxOrders /\ now \in Nat
      /\ house \in [cash : Int, shares : Int]
  BY DEF IInv, TypeOK
<1>2. short \in Nat
  <2>1. user[u].cash_balance \in Int  BY <1>1 DEF UserRows
  <2>2. QED  BY <2>1, ShortfallNat
<1>3. /\ Affordable(u, short) /\ Withdrawal(u, short)
      /\ user' = [user EXCEPT ![u] = IF duration > 0
                                     THEN [paid EXCEPT !.cooldown_until = now + duration]
                                     ELSE paid]
      /\ house' = [house EXCEPT !.cash = @ + deduction]
      /\ UNCHANGED <<portfolio, placed, unsettled, pass, failures, env>>
      /\ Wrote({}, {u})
  BY DEF ApplyPenalty, Shortfall, Withdrawal
<1>4. ASSUME NEW o \in OrderId
      PROVE  \/ orders'[o] = orders[o] /\ o \notin G
             \/ o \in G /\ Rewritten(o, orders'[o]) /\ Open(o)
  <2>1. CASE o \in G
    <3>1. orders'[o] = Withdrawn(o, short)  BY <1>3, <2>1 DEF Withdrawal
    <3>2. QED  BY <1>1, <1>2, <2>1, <3>1, WithdrawnRow
  <2>2. CASE o \notin G  BY <1>3, <2>2 DEF Withdrawal
  <2>3. QED  BY <2>1, <2>2
<1> HIDE DEF short, G
<1>5. orders' \in [OrderId -> OrderRows]
  <2>1. \A o \in OrderId : orders'[o] \in OrderRows  BY <1>1, <1>4 DEF Rewritten
  <2>2. orders' = [o \in OrderId |-> orders'[o]]  BY <1>3 DEF Withdrawal
  <2>3. QED  BY <2>1, <2>2
<1>6. OrdersStep
  <2>1. ASSUME NEW o \in OrderId
        PROVE  \/ orders'[o] = orders[o] /\ (o <= placed \/ o > placed')
               \/ /\ o <= placed'
                  /\ orders'[o].status # "none"
                  /\ RowOK(orders'[o])
                  /\ o <= placed => orders'[o].version > orders[o].version
    <3>0. placed' = placed /\ placed \in Nat /\ o \in Int  BY <1>1, <1>3
    <3>1. CASE orders'[o] = orders[o]
      <4>1. o <= placed \/ o > placed'  BY <3>0
      <4>2. QED  BY <3>1, <4>1
    <3>2. CASE Rewritten(o, orders'[o]) /\ Open(o)
      BY <1>1, <1>3, <3>2, OpenOrder DEF Rewritten
    <3>3. QED  BY <1>4, <3>1, <3>2
  <2>2. placed' \in placed .. MaxOrders
    <3>1. placed' = placed /\ placed \in 0 .. MaxOrders /\ MaxOrders \in Nat
      BY <1>1, <1>3 DEF TypeOK
    <3>2. QED  BY <3>1
  <2>3. QED  BY <1>5, <2>1, <2>2 DEF OrdersStep
<1>7. user' \in [User -> UserRows]
  <2>1. user[u] \in UserRows  BY <1>1
  <2>2. Recovered(u, short) \in Nat /\ Scale(u, short) \in Nat \ {0}
    BY <1>1, <1>2, <1>3, EnoughRecovered
  <2>3. deduction \in Nat /\ duration \in Nat  OBVIOUS
  <2>4. paid \in UserRows
    <3> DEFINE row == user[u]
               back == Recovered(u, short)
               scale == Scale(u, short)
    <3>1. row \in UserRows /\ back \in Nat /\ scale \in Nat \ {0}  BY <2>1, <2>2
    <3> HIDE DEF row, back, scale
    <3>2. Penalised(row, back, scale, deduction) \in UserRows
      BY <2>3, <3>1, PenalisedAccount
    <3>3. QED  BY <3>2 DEF row, back, scale
  <2> HIDE DEF paid
  <2>5. [paid EXCEPT !.cooldown_until = now + duration] \in UserRows
    <3>1. now + duration \in Nat  BY <1>1, <2>3
    <3>2. QED  BY <2>4, <3>1 DEF UserRows
  <2>6. QED  BY <1>1, <1>3, <2>4, <2>5
<1>8. TypeOK'
  <2>1. UNCHANGED <<portfolio, unsettled, pass, failures, company, now, credited>>
    BY <1>3 DEF env
  <2>2. stale' \in [Pass -> SUBSET User]
    <3>1. {u} \in SUBSET User  OBVIOUS
    <3>2. QED  BY <1>1, <1>3, <3>1, WroteType
  <2>3. house' \in [cash : Int, shares : Int]
    <3>1. deduction \in Int  OBVIOUS
    <3>2. house.cash + deduction \in Int  BY <1>1, <3>1
    <3>3. QED  BY <1>1, <1>3, <3>2
  <2>4. placed' \in 0 .. MaxOrders  BY <1>1, <1>3
  <2>5. QED  BY <1>1, <1>5, <1>7, <2>1, <2>2, <2>3, <2>4 DEF TypeOK
<1>9. OrderLife'  BY <1>1, <1>6, OrdersStepLife
<1>10. PeeksTrusted'  BY <1>1, <1>3, <1>6, PassesUnchanged
<1>11. FinalKept
  <2>1. \A o \in OrderId : Final(o) => ~Open(o)  BY DEF Final, Open, OpenStatuses
  <2>2. QED  BY <1>4, <2>1 DEF FinalKept
<1>12. QED  BY <1>8, <1>9, <1>10, <1>11 DEF IInv

-----------------------------------------------------------------------------
(* A penalty and the ledger *)

\* What a penalty leaves of the rows it meets: it takes no share, fills nothing
\* and withdraws only buys.
LEMMA PenaltyRows ==
    ASSUME IInv, CashBook, NEW u \in User, NEW deduction \in Deductions,
           NEW duration \in Durations, ApplyPenalty(u, deduction, duration)
    PROVE  /\ \A o \in OrderId : orders'[o].filled = orders[o].filled
           /\ \A v \in User : \A o \in OrderId :
                OfferedRow(orders'[o], v) = OfferedRow(orders[o], v)
           /\ \A v \in User \ {u} : \A o \in OrderId :
                HeldRow(orders'[o], v) = HeldRow(orders[o], v)
           /\ \A o \in OrderId : orders'[o].frozen # orders[o].frozen => o <= placed
           /\ \A v \in User : user'[v].settling_cash = user[v].settling_cash
           /\ \A v \in User \ {u} : user'[v] = user[v]
           /\ Withdrawal(u, Shortfall(user[u].cash_balance, deduction))
           /\ LET short == Shortfall(user[u].cash_balance, deduction)
                  paid == Penalised(user[u], Recovered(u, short), Scale(u, short), deduction)
              IN  /\ Affordable(u, short)
                  /\ user'[u].cash_balance = paid.cash_balance
                  /\ user'[u].frozen_cash = paid.frozen_cash
<1> DEFINE short == Shortfall(user[u].cash_balance, deduction)
           G == Givers(u, short)
           paid == Penalised(user[u], Recovered(u, short), Scale(u, short), deduction)
<1> USE PenaltyAssumption
<1>1. /\ TypeOK /\ OrderLife
      /\ user \in [User -> UserRows] /\ orders \in [OrderId -> OrderRows]
      /\ placed \in 0 .. MaxOrders
  BY DEF IInv, TypeOK
<1>2. short \in Nat /\ deduction \in Nat
  <2>1. user[u].cash_balance \in Int  BY <1>1 DEF UserRows
  <2>2. QED  BY <2>1, ShortfallNat
<1>3. /\ Affordable(u, short) /\ Withdrawal(u, short)
      /\ user' = [user EXCEPT ![u] = IF duration > 0
                                     THEN [paid EXCEPT !.cooldown_until = now + duration]
                                     ELSE paid]
  BY DEF ApplyPenalty, Shortfall, Withdrawal
<1>4. G \subseteq PendingBuys(u)  BY DEF Givers
<1>5. ASSUME NEW o \in OrderId
      PROVE  \/ orders'[o] = orders[o]
             \/ /\ Open(o) /\ orders[o].side = "buy" /\ orders[o].user = u
                /\ orders'[o].side = "buy" /\ orders'[o].user = u
                /\ orders'[o].filled = orders[o].filled
  <2>1. CASE o \in G
    <3>1. orders'[o] = Withdrawn(o, short)  BY <1>3, <2>1 DEF Withdrawal
    <3>2. Open(o) /\ orders[o].side = "buy" /\ orders[o].user = u
      BY <1>4, <2>1 DEF PendingBuys, OrdersOf
    <3>3. orders[o] \in OrderRows  BY <1>1
    <3>4. /\ Withdrawn(o, short).side = orders[o].side
          /\ Withdrawn(o, short).user = orders[o].user
          /\ Withdrawn(o, short).filled = orders[o].filled
      <4>1. CASE CancelsAll(o, short)
        BY <3>3, <4>1 DEF Withdrawn, Cancelled, OrderRows
      <4>2. CASE ~CancelsAll(o, short)
        BY <3>3, <4>2 DEF Withdrawn, OrderRows
      <4>3. QED  BY <4>1, <4>2
    <3>5. QED  BY <3>1, <3>2, <3>4
  <2>2. CASE o \notin G  BY <1>3, <2>2 DEF Withdrawal
  <2>3. QED  BY <2>1, <2>2
<1> HIDE DEF short, G
<1>6. ASSUME NEW o \in OrderId
      PROVE  /\ orders'[o].filled = orders[o].filled
             /\ \A v \in User : OfferedRow(orders'[o], v) = OfferedRow(orders[o], v)
             /\ \A v \in User \ {u} : HeldRow(orders'[o], v) = HeldRow(orders[o], v)
             /\ orders'[o].frozen # orders[o].frozen => o <= placed
  <2>1. CASE orders'[o] = orders[o]  BY <2>1
  <2>2. CASE /\ Open(o) /\ orders[o].side = "buy" /\ orders[o].user = u
             /\ orders'[o].side = "buy" /\ orders'[o].user = u
             /\ orders'[o].filled = orders[o].filled
    <3>1. orders[o].status \in OpenStatuses  BY <2>2 DEF Open
    <3>2. o <= placed
      <4>1. orders[o].status # "none"  BY <3>1 DEF OpenStatuses
      <4>2. o \in Int /\ placed \in Int  BY <1>1
      <4>3. QED  BY <1>1, <4>1, <4>2 DEF OrderLife
    <3>3. \A v \in User : OfferedRow(orders'[o], v) = 0 /\ OfferedRow(orders[o], v) = 0
      BY <2>2 DEF OfferedRow
    <3>4. \A v \in User \ {u} : HeldRow(orders'[o], v) = 0 /\ HeldRow(orders[o], v) = 0
      BY <2>2 DEF HeldRow
    <3>5. QED  BY <2>2, <3>2, <3>3, <3>4
  <2>3. QED  BY <1>5, <2>1, <2>2
<1>7. \A v \in User \ {u} : user'[v] = user[v]  BY <1>1, <1>3
<1>8. /\ user'[u].cash_balance = paid.cash_balance
      /\ user'[u].frozen_cash = paid.frozen_cash
      /\ user'[u].settling_cash = user[u].settling_cash
  <2>1. user[u] \in UserRows  BY <1>1
  <2>2. paid \in UserRows /\ paid.settling_cash = user[u].settling_cash
    <3> DEFINE row == user[u]
               back == Recovered(u, short)
               scale == Scale(u, short)
    <3>1. row \in UserRows /\ back \in Nat /\ scale \in Nat \ {0}
      BY <1>1, <1>2, <1>3, EnoughRecovered
    <3> HIDE DEF row, back, scale
    <3>2. /\ Penalised(row, back, scale, deduction) \in UserRows
          /\ Penalised(row, back, scale, deduction).settling_cash = row.settling_cash
      BY <1>2, <3>1, PenalisedAccount DEF Penalised, UserRows
    <3>3. QED  BY <3>2 DEF row, back, scale
  <2> HIDE DEF paid
  <2>3. user'[u] = IF duration > 0 THEN [paid EXCEPT !.cooldown_until = now + duration]
                   ELSE paid
    BY <1>1, <1>3
  <2>4. CASE duration > 0  BY <2>2, <2>3, <2>4 DEF UserRows
  <2>5. CASE ~(duration > 0)  BY <2>2, <2>3, <2>5
  <2>6. QED  BY <2>4, <2>5
<1>9. \A v \in User : user'[v].settling_cash = user[v].settling_cash
  BY <1>7, <1>8
<1>10. QED  BY <1>3, <1>6, <1>7, <1>8, <1>9 DEF short

\* After a penalty the ledger balances as before, except that the account may
\* hold more frozen than its buys need.
LEMMA ApplyPenaltyKeeps ==
    ASSUME IInv, TypeOK', ShareBook, SaleBook, CashBook, SharesConserved,
           NEW u \in User, NEW deduction \in Deductions,
           NEW duration \in Durations, ApplyPenalty(u, deduction, duration)
    PROVE  ShareBook' /\ SaleBook' /\ CashBook' /\ SharesConserved'
<1> DEFINE short == Shortfall(user[u].cash_balance, deduction)
           paid == Penalised(user[u], Recovered(u, short), Scale(u, short), deduction)
<1> USE PenaltyAssumption
<1>1. /\ TypeOK /\ OrderLife
      /\ user \in [User -> UserRows] /\ orders \in [OrderId -> OrderRows]
      /\ portfolio \in [User -> PortfolioRows]
      /\ placed \in 0 .. MaxOrders
      /\ house \in [cash : Int, shares : Int]
  BY DEF IInv, TypeOK
<1>2. orders' \in [OrderId -> OrderRows]  BY DEF TypeOK
<1>3. /\ \A o \in OrderId : orders'[o].filled = orders[o].filled
      /\ \A v \in User : \A o \in OrderId :
            OfferedRow(orders'[o], v) = OfferedRow(orders[o], v)
      /\ \A v \in User \ {u} : \A o \in OrderId :
            HeldRow(orders'[o], v) = HeldRow(orders[o], v)
      /\ \A v \in User : user'[v].settling_cash = user[v].settling_cash
      /\ \A v \in User \ {u} : user'[v] = user[v]
      /\ Withdrawal(u, short) /\ Affordable(u, short)
      /\ user'[u].frozen_cash = paid.frozen_cash
  BY PenaltyRows
<1>4. /\ portfolio' = portfolio /\ placed' = placed /\ unsettled' = unsettled
      /\ house'.shares = house.shares
      /\ struck' = [struck EXCEPT ![u] = @ + 1]
  BY <1>1 DEF ApplyPenalty
<1>5. short \in Nat /\ deduction \in Nat
  <2>1. user[u].cash_balance \in Int  BY <1>1 DEF UserRows
  <2>2. QED  BY <2>1, ShortfallNat
<1> HIDE DEF short
<1>6. ShareBook'
  <2>1. \A v \in User : /\ portfolio'[v].frozen_quantity = portfolio[v].frozen_quantity
                        /\ portfolio'[v].quantity >= portfolio[v].quantity
    BY <1>1, <1>4 DEF PortfolioRows
  <2>2. QED  BY <1>1, <1>3, <2>1, ShareBookStays
<1>7. SharesConserved'
  <2>1. \A v \in User : portfolio'[v].quantity = portfolio[v].quantity  BY <1>4
  <2>2. QED  BY <1>4, <2>1, ConservedStays
<1>8. SaleBook'
  <2>1. \A o \in OrderId : o <= placed => orders'[o].filled >= orders[o].filled
    BY <1>1, <1>3 DEF OrderRows
  <2>2. placed' >= placed  BY <1>1, <1>4
  <2>3. QED  BY <1>1, <1>3, <1>4, <2>1, <2>2, SaleBookStays
<1>9. CashBook'
  <2>1. struck \in [User -> Nat]  BY DEF CashBook
  <2>2. struck' \in [User -> Nat]  BY <1>4, <2>1
  <2>3. ASSUME NEW o \in OrderId
        PROVE  orders'[o].frozen \in Nat /\ (o > placed' => orders'[o].frozen = 0)
    <3>1. orders[o].frozen \in Nat /\ (o > placed => orders[o].frozen = 0)
      BY DEF CashBook
    <3>2. CASE o \in Givers(u, short)
      <4>1. orders'[o] = Withdrawn(o, short)  BY <1>3, <3>2 DEF Withdrawal
      <4>2. Rewritten(o, Withdrawn(o, short)) /\ Open(o)
        BY <1>1, <1>5, <3>2, WithdrawnRow
      <4>3. o <= placed
        <5>1. o \in Int /\ placed \in Int  BY <1>1
        <5>2. QED  BY <1>1, <4>2, <5>1 DEF OrderLife, Open, OpenStatuses
      <4>4. orders'[o].frozen \in Nat
        BY <1>1, <1>5, <3>2, <4>1, WithdrawnRow
      <4>5. ~(o > placed)
        <5>1. o \in Int /\ placed \in Int  BY <1>1
        <5>2. QED  BY <4>3, <5>1
      <4>6. QED  BY <1>4, <4>4, <4>5
    <3>3. CASE o \notin Givers(u, short)
      BY <1>3, <1>4, <3>1, <3>3 DEF Withdrawal
    <3>4. QED  BY <3>2, <3>3
  <2>4. ASSUME NEW v \in User
        PROVE  /\ user'[v].frozen_cash >= Frozen(orders', v)
               /\ struck'[v] = 0 => user'[v].frozen_cash = Frozen(orders', v)
    <3>1. CASE v = u
      <4>1. user'[u].frozen_cash >= Frozen(orders', u)
        BY <1>1, <1>2, <1>3, <1>5, PenalisedCovers
      <4>2. struck'[u] # 0  BY <1>4, <2>1
      <4>3. QED  BY <3>1, <4>1, <4>2
    <3>2. CASE v # u
      <4>1. Frozen(orders', v) = Frozen(orders, v)
        BY <1>1, <1>2, <1>3, <3>2, BookSame
      <4>2. user'[v] = user[v] /\ struck'[v] = struck[v]
        BY <1>3, <1>4, <2>1, <3>2
      <4>3. /\ user[v].frozen_cash >= Frozen(orders, v)
            /\ struck[v] = 0 => user[v].frozen_cash = Frozen(orders, v)
        BY DEF CashBook
      <4>4. QED  BY <4>1, <4>2, <4>3
    <3>3. QED  BY <3>1, <3>2
  <2>5. QED  BY <2>2, <2>3, <2>4 DEF CashBook
<1>10. QED  BY <1>6, <1>7, <1>8, <1>9

-----------------------------------------------------------------------------
(* The invariant *)

\* Nothing is owed before the first order.
LEMMA LedgerInit == PenaltyInit => LedgerInv
<1> SUFFICES ASSUME PenaltyInit PROVE LedgerInv  OBVIOUS
<1>1. IInv  BY InitInv DEF PenaltyInit
<1>2. /\ user = [u \in User |-> [cash_balance |-> InitCash, frozen_cash |-> 0,
                                 settling_cash |-> 0, cooldown_until |-> 0]]
      /\ portfolio = [u \in User |-> [quantity |-> InitShares, frozen_quantity |-> 0]]
      /\ orders = [o \in OrderId |-> NoOrder]
      /\ unsettled = {} /\ house = [cash |-> 0, shares |-> 0]
      /\ struck = [u \in User |-> 0]
  BY DEF PenaltyInit, Init
<1>3. ASSUME NEW u
      PROVE  Offered(orders, u) = 0 /\ Frozen(orders, u) = 0
  <2>1. \A o \in OrderId : OfferedRow(orders[o], u) = 0 /\ HeldRow(orders[o], u) = 0
    BY <1>2 DEF NoOrder, OfferedRow, HeldRow
  <2>2. \A o \in OrderId : OfferedBy(orders, u)[o] = 0 /\ HeldBy(orders, u)[o] = 0
    BY <2>1 DEF OfferedBy, HeldBy
  <2>3. QED  BY <2>2, OrdersFinite, SumZero DEF Offered, Frozen
<1>4. ShareBook
  <2>1. \A u \in User : portfolio[u].quantity = InitShares /\ portfolio[u].frozen_quantity = 0
    BY <1>2
  <2>2. QED  BY <1>3, <2>1 DEF ShareBook
<1>5. SharesConserved
  <2>1. \A u \in User : portfolio[u].quantity = InitShares  BY <1>2
  <2>2. [u \in User |-> portfolio[u].quantity] = [u \in User |-> InitShares]
    BY <2>1
  <2>3. SumFunction([u \in User |-> portfolio[u].quantity]) \in Int
    <3>1. portfolio \in [User -> PortfolioRows]  BY <1>1 DEF IInv, TypeOK
    <3>2. QED  BY <3>1, SharesHeldInt, SharesHeldSum
  <2>4. house.shares = 0  BY <1>2
  <2>5. QED  BY <2>2, <2>3, <2>4 DEF SharesConserved
<1>6. SaleBook
  <2>1. ASSUME NEW u \in User PROVE user[u].settling_cash = Amounts(SalesOf(unsettled, u))
    <3>1. SalesOf(unsettled, u) = {}  BY <1>2 DEF SalesOf
    <3>2. {} \in SUBSET SellTransactions /\ IsFiniteSet({})  BY FS_EmptySet
    <3>3. Amounts({}) = 0  BY <3>2, AmountsSum, SumEmpty
    <3>4. user[u].settling_cash = 0  BY <1>2
    <3>5. QED  BY <3>1, <3>3, <3>4
  <2>2. SettlingBacked  BY <2>1, SettlingIsAmounts
  <2>3. QED  BY <1>2, <2>2 DEF SaleBook
<1>7. CashBook
  <2>1. \A u \in User : user[u].frozen_cash = 0 /\ struck[u] = 0  BY <1>2
  <2>2. \A o \in OrderId : orders[o].frozen = 0  BY <1>2 DEF NoOrder
  <2>3. struck \in [User -> Nat]  BY <1>2
  <2>4. QED  BY <1>3, <2>1, <2>2, <2>3 DEF CashBook
<1>8. QED  BY <1>1, <1>4, <1>5, <1>6, <1>7 DEF LedgerInv

\* Every transaction, every step of a pass and every penalty keeps the books.
LEMMA LedgerNext == LedgerInv /\ [PenaltyNext]_penaltyVars => LedgerInv'
<1> SUFFICES ASSUME LedgerInv, [PenaltyNext]_penaltyVars PROVE LedgerInv'  OBVIOUS
<1> DEFINE Books == ShareBook /\ SaleBook /\ CashBook /\ SharesConserved
<1>1. IInv /\ ShareBook /\ SharesConserved /\ SaleBook /\ CashBook  BY DEF LedgerInv
<1>2. IInv'
  <2>1. CASE [Next]_vars  BY <1>1, <2>1, NextInv
  <2>2. CASE \E u \in User, deduction \in Deductions, duration \in Durations :
                ApplyPenalty(u, deduction, duration)
    BY <1>1, <2>2, ApplyPenaltyInv
  <2>3. QED  BY <2>1, <2>2 DEF PenaltyNext, Next, penaltyVars
<1>3. TypeOK'  BY <1>2 DEF IInv
<1>4. ASSUME NEW u \in User, Place(u), UNCHANGED struck PROVE Books'
  <2>1. PICK price \in LimitPrices \cup {Market}, qty \in Quantities :
          PlaceBuy(u, price, qty) \/ PlaceSell(u, price, qty)
    BY <1>4 DEF Place
  <2>2. CASE PlaceBuy(u, price, qty)
    BY <1>1, <1>3, <1>4, <2>2, PlaceBuyShares, PlaceBuySales, PlaceBuyCash
  <2>3. CASE PlaceSell(u, price, qty)
    BY <1>1, <1>3, <1>4, <2>3, PlaceSellShares, PlaceSellSales, PlaceSellCash
  <2>4. QED  BY <2>1, <2>2, <2>3
<1>5. ASSUME NEW o \in OrderId, CancelOrder(o), UNCHANGED struck PROVE Books'
  BY <1>1, <1>3, <1>5, CancelOrderShares, CancelOrderSales, CancelOrderCash
<1>6. ASSUME NEW p \in Pass, PassStep(p), UNCHANGED struck PROVE Books'
  <2>1. CASE CancelSelfTrade(p)
    <3>1. PairCancelled(pass[p].buy, pass[p].sell)
      BY <1>1, <2>1, CancelSelfTradeCancels
    <3>2. QED
      BY <1>1, <1>3, <1>6, <3>1, PairCancelledShares, PairCancelledSales, PairCancelledCash
  <2>2. CASE FillPair(p)
    <3>1. PICK q, price, simAt : PairTrade(pass[p].buy, pass[p].sell, q, price, simAt)
      BY <1>1, <2>2, FillPairTrades
    <3>2. QED
      BY <1>1, <1>3, <1>6, <3>1, PairTradeShares, PairTradeSales, PairTradeCash
  <2>3. CASE FillMakerBuy(p)
    <3>1. PICK q, price : MakerSells(pass[p].buy, q, price)
      BY <1>1, <2>3, FillMakerBuyTrades
    <3>2. QED
      BY <1>1, <1>3, <1>6, <3>1, MakerSellsShares, MakerSellsSales, MakerSellsCash
  <2>4. CASE FillMakerSell(p)
    <3>1. PICK q, price, simAt : MakerBuys(pass[p].sell, q, price, simAt)
      BY <1>1, <2>4, FillMakerSellTrades
    <3>2. QED
      BY <1>1, <1>3, <1>6, <3>1, MakerBuysShares, MakerBuysSales, MakerBuysCash
  <2>5. CASE PeekBuy(p) \/ PeekSell(p) \/ PeekMaker(p) \/ LeaveBook(p) \/ Raise(p)
    <3>1. Quiet  BY <2>5 DEF PeekBuy, PeekSell, PeekMaker, LeaveBook, Raise, Quiet
    <3>2. QED  BY <1>1, <1>3, <1>6, <3>1, QuietKeeps
  <2>6. QED  BY <1>6, <2>1, <2>2, <2>3, <2>4, <2>5 DEF PassStep
<1>7. ASSUME NEW p \in Pass, StartPass(p) \/ Fail(p), UNCHANGED struck PROVE Books'
  <2>1. Quiet  BY <1>7 DEF StartPass, Fail, Quiet
  <2>2. QED  BY <1>1, <1>3, <1>7, <2>1, QuietKeeps
<1>8. ASSUME ReleaseDue, UNCHANGED struck PROVE Books'
  BY <1>1, <1>3, <1>8, ReleaseDueSales, ReleaseDueKeeps
<1>9. ASSUME NEW price \in MarketPrices, UpdatePrice(price), UNCHANGED struck PROVE Books'
  <2>1. Quiet  BY <1>9 DEF UpdatePrice, Quiet
  <2>2. QED  BY <1>1, <1>3, <1>9, <2>1, QuietKeeps
<1>10. ASSUME NEW u \in User, NEW amount \in Rewards, CreditCash(u, amount),
              UNCHANGED struck
       PROVE  Books'
  BY <1>1, <1>3, <1>10, CreditCashSales, CreditCashKeeps
<1>11. ASSUME Clock, UNCHANGED struck PROVE Books'
  <2>1. Quiet  BY <1>11 DEF Clock, Quiet
  <2>2. QED  BY <1>1, <1>3, <1>11, <2>1, QuietKeeps
<1>12. ASSUME NEW u \in User, NEW deduction \in Deductions, NEW duration \in Durations,
              ApplyPenalty(u, deduction, duration)
       PROVE  Books'
  BY <1>1, <1>3, <1>12, ApplyPenaltyKeeps
<1>13. ASSUME UNCHANGED penaltyVars PROVE Books'
  <2>1. Quiet /\ UNCHANGED struck  BY <1>13 DEF penaltyVars, vars, Quiet, book
  <2>2. QED  BY <1>1, <1>3, <2>1, QuietKeeps
<1>14. Books'
  <2> HIDE DEF Books
  <2>1. CASE PenaltyNext
    BY <1>4, <1>5, <1>6, <1>7, <1>8, <1>9, <1>10, <1>11, <1>12, <2>1 DEF PenaltyNext
  <2>2. QED  BY <1>13, <2>1
<1>15. QED  BY <1>2, <1>14 DEF LedgerInv

-----------------------------------------------------------------------------
(* What the invariant promises *)

\* The books are the sums of the properties: an open sell is part of what its
\* seller has frozen, so it can be delivered.
LEMMA LedgerEscrows == LedgerInv => ShareEscrow /\ CashEscrow
<1> SUFFICES ASSUME LedgerInv PROVE ShareEscrow /\ CashEscrow  OBVIOUS
<1>1. /\ TypeOK /\ OrderLife /\ ShareBook /\ SaleBook /\ CashBook
      /\ orders \in [OrderId -> OrderRows] /\ portfolio \in [User -> PortfolioRows]
  BY DEF LedgerInv, IInv, TypeOK
<1>2. FrozenIsOffered  BY <1>1, OfferedIsSum DEF FrozenIsOffered, ShareBook
<1>3. SettlingBacked  BY <1>1 DEF SaleBook
<1>4. SellsCovered
  <2> SUFFICES ASSUME NEW s \in OrderId, orders[s].side = "sell", Open(s)
               PROVE  CanDeliver(s, Remaining(s))
    BY DEF SellsCovered
  <2> DEFINE u == orders[s].user
             f == OfferedBy(orders, u)
  <2>1. u \in User /\ Remaining(s) \in Nat /\ orders[s].status \in OpenStatuses
        /\ Remaining(s) = orders[s].quantity - orders[s].filled
    BY <1>1, OpenRow
  <2>2. \A o \in OrderId : f[o] \in Nat
    <3> SUFFICES ASSUME NEW o \in OrderId PROVE OfferedRow(orders[o], u) \in Nat
      BY DEF OfferedBy
    <3>1. CASE Open(o)
      <4>1. orders[o].quantity - orders[o].filled \in Nat  BY <1>1, <3>1, OpenRow
      <4>2. QED  BY <4>1 DEF OfferedRow
    <3>2. CASE ~Open(o)  BY <3>2 DEF OfferedRow, Open
    <3>3. QED  BY <3>1, <3>2
  <2>3. f[s] = Remaining(s)  BY <2>1 DEF OfferedBy, OfferedRow
  <2> HIDE DEF f
  <2>4. f[s] <= SumFunctionOnSet(f, OrderId)  BY <2>2, OrdersFinite, SumMember
  <2>5. /\ portfolio[u].frozen_quantity = SumFunctionOnSet(f, OrderId)
        /\ portfolio[u].frozen_quantity <= portfolio[u].quantity
    BY <1>1, <2>1 DEF ShareBook, Offered, f
  <2>6. portfolio[u].frozen_quantity \in Int /\ portfolio[u].quantity \in Int
    BY <1>1, <2>1 DEF PortfolioRows
  <2>7. QED  BY <2>1, <2>3, <2>4, <2>5, <2>6 DEF CanDeliver
<1>5. CashEscrow  BY <1>1, FrozenIsSum DEF CashEscrow, CashBook
<1>6. SharesConserved  BY DEF LedgerInv
<1>7. QED  BY <1>2, <1>3, <1>4, <1>5, <1>6 DEF ShareEscrow

\* The books of the modelled columns balance.  What it says of shares, sales and
\* the life of the orders is said of the code too, at any rates: fees and taxes
\* are rounded before they are paid.  What it says of cash_balance and frozen_cash
\* is not: see WholeCents.
LEMMA BooksKept == PenaltySpec => []LedgerInv
<1>1. QED  BY LedgerInit, LedgerNext, PTL DEF PenaltySpec

\* Where the modelled cash columns are the code's.  The session keeps the
\* un-rounded freezes and releases it has written (core/database.py:14,
\* expire_on_commit=False), and goes on with them over the commits of a pass;
\* Postgres rounds what it stores.  The two are the same when freezes are whole
\* cents a share: those that an order can begin with, and those that open buys
\* hold.  Elsewhere a stored column may be a cent off the modelled one.
WholeCents ==
    \A price \in LimitPrices \cup {Market}, current \in MarketPrices :
        \E f \in Nat : FreezeNum(price, 1, current) = f * FreezeDen

WholeFreezes ==
    \A o \in OrderId : orders[o].side = "buy" /\ Open(o) =>
        \E f \in Nat : orders[o].frozen = f * Remaining(o)

\* The books of shares and sales balance for any number of users, passes and
\* orders, at any rates: create_order, match_orders, cancel_order, release_due and
\* apply_penalty together.  Of cash_balance and frozen_cash it says only their types.
THEOREM Ledger == PenaltySpec => [](IInv /\ ShareBook /\ SharesConserved /\ SaleBook)
<1>1. LedgerInv => IInv /\ ShareBook /\ SharesConserved /\ SaleBook  BY DEF LedgerInv
<1>2. QED  BY <1>1, BooksKept, PTL

\* frozen_quantity is what the open sells offer, settling_cash what their fills
\* brought in and is still to settle, every open sell can be delivered, so
\* InsufficientHoldingError is never raised, and no share is lost.
THEOREM SharesEscrowed == PenaltySpec => []ShareEscrow
<1>1. LedgerInv => ShareEscrow  BY LedgerEscrows
<1>2. QED  BY <1>1, BooksKept, PTL

\* Where cents are whole, frozen_cash is what the buys hold frozen, until a penalty
\* leaves more there; never less, so no refund of cancel_order makes it negative.
THEOREM CashEscrowed ==
    ASSUME WholeCents
    PROVE  PenaltySpec /\ []WholeFreezes => []CashEscrow
<1>1. LedgerInv => CashEscrow  BY LedgerEscrows
<1>2. QED  BY <1>1, BooksKept, PTL

\* No fill, cancellation or penalty creates or destroys a share.
THEOREM NoShareLost == PenaltySpec => []SharesConserved
<1>1. LedgerInv => SharesConserved  BY DEF LedgerInv
<1>2. QED  BY <1>1, BooksKept, PTL

\* The passes act soundly when penalties rewrite and cancel buys between their
\* peeks and their locks.
THEOREM PassesSurvivePenalties == PenaltySpec => []OrdersTrusted
<1>1. LedgerInv => OrdersTrusted  BY DEF LedgerInv, IInv, OrdersTrusted
<1>2. QED  BY <1>1, BooksKept, PTL

\* A filled or cancelled order never changes again, whatever a penalty or a pass
\* that peeked it earlier does.
THEOREM FinalDespitePenalties == PenaltySpec => FinalIsFinal
<1>1. LedgerInv /\ [PenaltyNext]_penaltyVars
        => [\A o \in OrderId : orders[o].status \in {"filled", "cancelled"}
                                 => orders'[o] = orders[o]]_vars
  <2> SUFFICES ASSUME LedgerInv, [PenaltyNext]_penaltyVars PROVE FinalKept
    BY DEF FinalKept, Final
  <2>1. IInv /\ CashBook  BY DEF LedgerInv
  <2>2. CASE [Next]_vars  BY <2>1, <2>2, NextKeepsFinal
  <2>3. CASE \E u \in User, deduction \in Deductions, duration \in Durations :
                ApplyPenalty(u, deduction, duration)
    BY <2>1, <2>3, ApplyPenaltyInv
  <2>4. QED  BY <2>2, <2>3 DEF PenaltyNext, Next, penaltyVars
<1>2. QED  BY <1>1, BooksKept, PTL DEF PenaltySpec, FinalIsFinal

-----------------------------------------------------------------------------
(* Who may go below zero *)

\* What PenaltyWithinMeans asks of a step, for one user.
Lasts(u) ==
    (user'[u].cash_balance < user[u].cash_balance
       /\ \A o \in OrdersOf(u, "buy") : orders'[o].filled = orders[o].filled)
    => user'[u].cash_balance >= 0

\* A user whose cash does not fall, or whose buy is filled, is not concerned.
LEMMA NotConcerned ==
    ASSUME TypeOK, TypeOK', NEW u \in User,
           \/ user'[u].cash_balance >= user[u].cash_balance
           \/ \E o \in OrdersOf(u, "buy") : orders'[o].filled # orders[o].filled
    PROVE  Lasts(u)
<1>1. user[u].cash_balance \in Int /\ user'[u].cash_balance \in Int
  BY DEF TypeOK, UserRows
<1>2. QED  BY <1>1 DEF Lasts

\* A freeze never takes more than is not frozen yet.
LEMMA PlaceBuyLasts ==
    ASSUME IInv, TypeOK', CashBook, NEW u \in User,
           NEW price \in LimitPrices \cup {Market}, NEW qty \in Quantities,
           PlaceBuy(u, price, qty), NEW v \in User
    PROVE  Lasts(v)
<1> DEFINE cost == FreezeNum(price, qty, company.current_price)
           cash == user[u].cash_balance
           left == Round(cash * FreezeDen - cost, FreezeDen)
<1>1. user \in [User -> UserRows] /\ company.current_price \in Nat
  <2>1. company \in [current_price : MarketPrices, updated_at : Nat]  BY DEF IInv, TypeOK
  <2>2. company.current_price \in MarketPrices  BY <2>1
  <2>3. company.current_price \in Nat  BY <2>2
  <2>4. user \in [User -> UserRows]  BY DEF IInv, TypeOK
  <2>5. QED  BY <2>3, <2>4
<1>2. cost \in Nat /\ FreezeDen \in Nat \ {0}
  <2>1. price \in Nat /\ qty \in Nat  BY DEF Market
  <2>2. QED  BY <1>1, <2>1, FreezeNumNat
<1>3. PICK froze : user' = [user EXCEPT ![u].cash_balance = left, ![u].frozen_cash = froze,
                                        ![u].cooldown_until = 0]
  BY DEF PlaceBuy
<1>4. cost <= (cash - user[u].frozen_cash) * FreezeDen  BY DEF PlaceBuy
<1>5. user[u].frozen_cash \in Nat /\ cash \in Int
  BY <1>1, HeldCovered DEF IInv, UserRows
<1> HIDE DEF cost
<1>6. left \in Nat
  <2> DEFINE D == FreezeDen
             a == user[u].frozen_cash
  <2>1. cost \in Nat /\ a \in Nat /\ D \in Nat \ {0} /\ cash \in Int /\ cost <= (cash - a) * D
    BY <1>2, <1>4, <1>5
  <2> HIDE DEF D, a, cash
  <2>2. (cash - a) * D = cash * D - a * D /\ a * D \in Nat /\ cash * D \in Int
    BY <2>1, SMT
  <2>3. cash * D - cost \in Nat  BY <2>1, <2>2
  <2> DEFINE n == cash * D - cost
  <2>4. n \in Nat  BY <2>3
  <2> HIDE DEF n
  <2>5. Round(n, D) \in Nat  BY <2>1, <2>4, RoundBounds
  <2>6. QED  BY <2>5 DEF n, D
<1> HIDE DEF left
<1>7. user'[u].cash_balance = left /\ \A w \in User \ {u} : user'[w] = user[w]
  BY <1>1, <1>3 DEF UserRows
<1>8. CASE v = u  BY <1>6, <1>7, <1>8 DEF Lasts
<1>9. CASE v # u
  <2>1. user'[v] = user[v] /\ user[v].cash_balance \in Int  BY <1>1, <1>7, <1>9 DEF UserRows
  <2>2. QED  BY <2>1 DEF Lasts
<1>10. QED  BY <1>8, <1>9

\* A sell order takes no cash.
LEMMA PlaceSellLasts ==
    ASSUME IInv, TypeOK', NEW u \in User,
           NEW price \in LimitPrices \cup {Market}, NEW qty \in Quantities,
           PlaceSell(u, price, qty), NEW v \in User
    PROVE  Lasts(v)
<1>1. user' = [user EXCEPT ![u].cooldown_until = 0]  BY DEF PlaceSell
<1>2. user \in [User -> UserRows]  BY DEF IInv, TypeOK
<1>3. user'[v].cash_balance = user[v].cash_balance /\ user[v].cash_balance \in Int
  BY <1>1, <1>2 DEF UserRows
<1>4. QED  BY <1>3 DEF Lasts

\* A refund gives.
LEMMA RefundLasts ==
    ASSUME IInv, NEW b \in OrderId, CashBook, orders[b].user \in User,
           user' = [user EXCEPT ![orders[b].user]
                                  = Refunded(user[orders[b].user], orders[b].frozen)],
           NEW v \in User
    PROVE  Lasts(v)
<1> DEFINE u == orders[b].user
           amount == orders[b].frozen
<1>1. user \in [User -> UserRows]  BY DEF IInv, TypeOK
<1>2. amount \in Nat  BY DEF CashBook
<1>3. user' = [user EXCEPT ![u] = Refunded(user[u], amount)] /\ u \in User  OBVIOUS
<1> HIDE DEF u, amount
<1>4. Refunded(user[u], amount).cash_balance = user[u].cash_balance + amount
  BY <1>1, <1>3, RefundedAccount
<1>5. user[v].cash_balance \in Int /\ user[u].cash_balance \in Int  BY <1>1, <1>3 DEF UserRows
<1>6. user'[v].cash_balance >= user[v].cash_balance
  <2>1. CASE v = u
    <3>1. user'[u] = Refunded(user[u], amount)  BY <1>1, <1>3
    <3>2. QED  BY <1>2, <1>4, <1>5, <2>1, <3>1
  <2>2. CASE v # u
    <3>1. user'[v] = user[v]  BY <1>1, <1>3, <2>2
    <3>2. QED  BY <1>5, <3>1
  <2>3. QED  BY <2>1, <2>2
<1>7. CASE user'[v].cash_balance \in Int  BY <1>5, <1>6, <1>7 DEF Lasts
<1>8. user'[v].cash_balance \in Int
  <2>1. CASE v = u
    <3>1. user'[u] = Refunded(user[u], amount)  BY <1>1, <1>3
    <3>2. QED  BY <1>2, <1>4, <1>5, <2>1, <3>1
  <2>2. CASE v # u
    <3>1. user'[v] = user[v]  BY <1>1, <1>3, <2>2
    <3>2. QED  BY <1>5, <3>1
  <2>3. QED  BY <2>1, <2>2
<1>9. QED  BY <1>7, <1>8

\* Only a fill takes cash from a buyer, and its order shows it.
LEMMA BuyerConcerned ==
    ASSUME IInv, NEW b \in OrderId, Open(b), orders[b].side = "buy",
           NEW q \in 1 .. Remaining(b), orders'[b] = BuyFilled(b, q)
    PROVE  \E o \in OrdersOf(orders[b].user, "buy") : orders'[o].filled # orders[o].filled
<1>1. TypeOK /\ OrderLife  BY DEF IInv
<1>2. orders[b].filled \in Nat /\ Remaining(b) \in Nat  BY <1>1, OpenRow
<1>3. BuyFilled(b, q).filled = orders[b].filled + q
  <2>1. orders[b] \in OrderRows  BY <1>1, OpenRow
  <2>2. QED  BY <2>1 DEF BuyFilled, OrderRows
<1>4. q \in Nat \ {0}  BY <1>2
<1>5. orders'[b].filled # orders[b].filled  BY <1>2, <1>3, <1>4
<1>6. b \in OrdersOf(orders[b].user, "buy")  BY DEF OrdersOf
<1>7. QED  BY <1>5, <1>6

\* A buyer from the market maker is not concerned.
LEMMA MakerSellsLasts ==
    ASSUME IInv, TypeOK', NEW b, NEW q, NEW price, MakerSells(b, q, price), NEW v \in User
    PROVE  Lasts(v)
<1> DEFINE u == orders[b].user
<1>1. /\ b \in OrderId /\ Open(b) /\ orders[b].side = "buy" /\ u \in User
      /\ q \in 1 .. Remaining(b)
      /\ user' = [user EXCEPT ![u] = Paid(user[u], b, q, price)]
      /\ orders' = [orders EXCEPT ![b] = BuyFilled(b, q)]
  BY DEF MakerSells
<1>2. /\ user \in [User -> UserRows] /\ orders \in [OrderId -> OrderRows] /\ TypeOK
  BY DEF IInv, TypeOK
<1>3. CASE v = u
  <2>1. orders'[b] = BuyFilled(b, q)  BY <1>1, <1>2
  <2>2. QED  BY <1>1, <1>2, <1>3, <2>1, BuyerConcerned, NotConcerned
<1>4. CASE v # u
  <2>1. user'[v] = user[v] /\ user[v].cash_balance \in Int
    BY <1>1, <1>2, <1>4 DEF UserRows
  <2>2. QED  BY <2>1 DEF Lasts
<1>5. QED  BY <1>3, <1>4

\* A sale to the market maker takes no cash.
LEMMA MakerBuysLasts ==
    ASSUME IInv, TypeOK', NEW s, NEW q, NEW price, NEW simAt, MakerBuys(s, q, price, simAt),
           NEW v \in User
    PROVE  Lasts(v)
<1> DEFINE u == orders[s].user
<1>1. u \in User /\ user' = [user EXCEPT ![u] = Sold(user[u], q, price)]
  BY DEF MakerBuys
<1>2. user \in [User -> UserRows]  BY DEF IInv, TypeOK
<1> HIDE DEF u
<1>3. user'[v].cash_balance = user[v].cash_balance /\ user[v].cash_balance \in Int
  <2>1. user[v].cash_balance \in Int  BY <1>2 DEF UserRows
  <2>2. CASE v = u
    <3>1. user'[u] = Sold(user[u], q, price)  BY <1>1, <1>2
    <3>2. Sold(user[u], q, price).cash_balance = user[u].cash_balance
      BY <1>1, <1>2, SoldAccount
    <3>3. QED  BY <2>1, <2>2, <3>1, <3>2
  <2>3. CASE v # u  BY <1>1, <1>2, <2>1, <2>3
  <2>4. QED  BY <2>2, <2>3
<1>4. QED  BY <1>3 DEF Lasts

\* A trade takes no cash of its seller, and its buyer is not concerned.
LEMMA PairTradeLasts ==
    ASSUME IInv, TypeOK', NEW b, NEW s, NEW q, NEW price, NEW simAt,
           PairTrade(b, s, q, price, simAt), NEW v \in User
    PROVE  Lasts(v)
<1> DEFINE buyer == orders[b].user
           seller == orders[s].user
<1>1. /\ b \in OrderId /\ Open(b) /\ orders[b].side = "buy" /\ buyer \in User
      /\ seller \in User /\ buyer # seller /\ b # s
      /\ q \in 1 .. Remaining(b)
      /\ user' = [user EXCEPT ![buyer] = Paid(user[buyer], b, q, price),
                              ![seller] = Sold(user[seller], q, price)]
      /\ orders' = [orders EXCEPT ![b] = BuyFilled(b, q), ![s] = SellFilled(s, q)]
  BY DEF PairTrade
<1>2. /\ user \in [User -> UserRows] /\ orders \in [OrderId -> OrderRows] /\ TypeOK
  BY DEF IInv, TypeOK
<1>3. CASE v = buyer
  <2>1. orders'[b] = BuyFilled(b, q)  BY <1>1, <1>2
  <2>2. QED  BY <1>1, <1>2, <1>3, <2>1, BuyerConcerned, NotConcerned
<1>4. CASE v # buyer
  <2>1. user[v].cash_balance \in Int  BY <1>2 DEF UserRows
  <2> HIDE DEF buyer, seller
  <2>2. user'[v].cash_balance = user[v].cash_balance
    <3>1. CASE v = seller
      <4>1. user'[seller] = Sold(user[seller], q, price)  BY <1>1, <1>2
      <4>2. Sold(user[seller], q, price).cash_balance = user[seller].cash_balance
        BY <1>1, <1>2, SoldAccount
      <4>3. QED  BY <3>1, <4>1, <4>2
    <3>2. CASE v # seller  BY <1>1, <1>2, <1>4, <3>2
    <3>3. QED  BY <3>1, <3>2
  <2>3. QED  BY <2>1, <2>2 DEF Lasts
<1>5. QED  BY <1>3, <1>4

\* A cancellation takes no cash.
LEMMA CancelOrderLasts ==
    ASSUME IInv, CashBook, NEW o \in OrderId, CancelOrder(o), NEW v \in User
    PROVE  Lasts(v)
<1>1. Open(o) /\ orders[o].user \in User
  <2>1. Open(o)  BY DEF CancelOrder
  <2>2. QED  BY <2>1, OpenRow DEF IInv
<1>2. CASE user' = [user EXCEPT ![orders[o].user]
                                  = Refunded(user[orders[o].user], orders[o].frozen)]
  BY <1>1, <1>2, RefundLasts
<1>3. CASE user' = user
  <2>1. user[v].cash_balance \in Int  BY DEF IInv, TypeOK, UserRows
  <2>2. QED  BY <1>3, <2>1 DEF Lasts
<1>4. QED  BY <1>2, <1>3 DEF CancelOrder

\* Only the due proceeds reach the cash.
LEMMA ReleaseDueLasts ==
    ASSUME IInv, SaleBook, ReleaseDue, NEW v \in User
    PROVE  Lasts(v)
<1> DEFINE S == SalesOf(unsettled, v)
           T == {t \in DueTransactions : t.user = v}
           lost == LesserOf(Amounts(T), user[v].settling_cash)
<1>1. /\ unsettled \subseteq SellTransactions /\ IsFiniteSet(unsettled)
      /\ user \in [User -> UserRows]
  BY DEF IInv, TypeOK
<1>2. user'[v].cash_balance = user[v].cash_balance + lost
  <2>1. user'[v] = [user[v] EXCEPT !.settling_cash = @ - lost, !.cash_balance = @ + lost]
    BY DEF ReleaseDue
  <2> HIDE DEF lost
  <2>2. QED  BY <1>1, <2>1 DEF UserRows
<1>3. S \in SUBSET SellTransactions /\ IsFiniteSet(S) /\ T \in SUBSET S
  BY <1>1, FS_Subset DEF SalesOf, DueTransactions
<1>4. \A t \in S : t.amount \in Nat  BY DEF SaleBook, SalesOf
<1>5. user[v].settling_cash = Amounts(S)  BY SettlingIsAmounts DEF SaleBook
<1> HIDE DEF S, T
<1>6. /\ Amounts(S) = Amounts(T) + Amounts(S \ T)
      /\ Amounts(T) \in Nat /\ Amounts(S \ T) \in Nat
  BY <1>3, <1>4, AmountsSplit
<1>7. lost \in Nat  BY <1>5, <1>6 DEF LesserOf
<1> HIDE DEF lost
<1>8. user[v].cash_balance \in Int  BY <1>1 DEF UserRows
<1>9. QED  BY <1>2, <1>7, <1>8 DEF Lasts

\* A credit takes no cash.
LEMMA CreditCashLasts ==
    ASSUME IInv, NEW u \in User, NEW amount \in Rewards, CreditCash(u, amount), NEW v \in User
    PROVE  Lasts(v)
<1>1. user' = [user EXCEPT ![u].cash_balance = @ + amount]  BY DEF CreditCash
<1>2. user \in [User -> UserRows] /\ amount \in Nat  BY DEF IInv, TypeOK
<1>3. \/ user'[v].cash_balance = user[v].cash_balance
      \/ user'[v].cash_balance = user[v].cash_balance + amount
  BY <1>1, <1>2 DEF UserRows
<1>4. user[v].cash_balance \in Int  BY <1>2 DEF UserRows
<1>5. QED  BY <1>2, <1>3, <1>4 DEF Lasts

\* A penalty takes no cash the account does not have or get back.
LEMMA ApplyPenaltyLasts ==
    ASSUME IInv, CashBook, NEW u \in User, NEW deduction \in Deductions,
           NEW duration \in Durations, ApplyPenalty(u, deduction, duration), NEW v \in User
    PROVE  Lasts(v)
<1> DEFINE short == Shortfall(user[u].cash_balance, deduction)
           paid == Penalised(user[u], Recovered(u, short), Scale(u, short), deduction)
<1>1. TypeOK /\ OrderLife /\ user \in [User -> UserRows]  BY DEF IInv, TypeOK
<1>2. /\ \A w \in User \ {u} : user'[w] = user[w]
      /\ Affordable(u, short)
      /\ user'[u].cash_balance = paid.cash_balance
  BY PenaltyRows
<1>3. deduction \in Nat  BY PenaltyAssumption
<1>4. paid.cash_balance >= 0 \/ paid.cash_balance >= user[u].cash_balance
  BY <1>1, <1>2, <1>3, PenalisedSolvent
<1>5. user[u].cash_balance \in Int /\ user[v].cash_balance \in Int
  BY <1>1 DEF UserRows
<1>6. paid.cash_balance \in Int
  <2> DEFINE row == user[u]
             back == Recovered(u, short)
             scale == Scale(u, short)
  <2>1. short \in Nat  BY <1>3, <1>5, ShortfallNat
  <2> HIDE DEF short
  <2>2. row \in UserRows /\ back \in Nat /\ scale \in Nat \ {0}
    BY <1>1, <1>2, <2>1, EnoughRecovered
  <2> HIDE DEF row, back, scale
  <2>3. Penalised(row, back, scale, deduction) \in UserRows
    BY <1>3, <2>2, PenalisedAccount
  <2>4. Penalised(row, back, scale, deduction).cash_balance \in Int  BY <2>3 DEF UserRows
  <2>5. QED  BY <2>4 DEF row, back, scale
<1> HIDE DEF paid
<1>7. CASE v = u  BY <1>2, <1>4, <1>5, <1>6, <1>7 DEF Lasts
<1>8. CASE v # u  BY <1>2, <1>5, <1>8 DEF Lasts
<1>9. QED  BY <1>7, <1>8

\* A step that writes no account takes no cash.
LEMMA SameCashLasts ==
    ASSUME IInv, user' = user, NEW v \in User
    PROVE  Lasts(v)
<1>1. user[v].cash_balance \in Int  BY DEF IInv, TypeOK, UserRows
<1>2. QED  BY <1>1 DEF Lasts

\* Every step of the exchange and every penalty is within the user's means.
LEMMA NextLasts ==
    ASSUME LedgerInv, [PenaltyNext]_penaltyVars, NEW v \in User
    PROVE  Lasts(v)
<1>1. IInv /\ SaleBook /\ CashBook  BY DEF LedgerInv
<1>2. TypeOK'
  <2>1. LedgerInv'  BY LedgerNext
  <2>2. QED  BY <2>1 DEF LedgerInv, IInv
<1>3. ASSUME NEW u \in User, Place(u) PROVE Lasts(v)
  BY <1>1, <1>2, <1>3, PlaceBuyLasts, PlaceSellLasts DEF Place
<1>4. ASSUME NEW o \in OrderId, CancelOrder(o) PROVE Lasts(v)
  BY <1>1, <1>4, CancelOrderLasts
<1>5. ASSUME NEW p \in Pass, PassStep(p) PROVE Lasts(v)
  <2>1. CASE CancelSelfTrade(p)
    <3>1. PairCancelled(pass[p].buy, pass[p].sell)
      BY <1>1, <2>1, CancelSelfTradeCancels
    <3>2. QED  BY <1>1, <3>1, RefundLasts DEF PairCancelled
  <2>2. CASE FillPair(p)
    BY <1>1, <1>2, <2>2, FillPairTrades, PairTradeLasts
  <2>3. CASE FillMakerBuy(p)
    BY <1>1, <1>2, <2>3, FillMakerBuyTrades, MakerSellsLasts
  <2>4. CASE FillMakerSell(p)
    BY <1>1, <1>2, <2>4, FillMakerSellTrades, MakerBuysLasts
  <2>5. CASE PeekBuy(p) \/ PeekSell(p) \/ PeekMaker(p) \/ LeaveBook(p) \/ Raise(p)
    <3>1. user' = user  BY <2>5 DEF PeekBuy, PeekSell, PeekMaker, LeaveBook, Raise
    <3>2. QED  BY <1>1, <3>1, SameCashLasts
  <2>6. QED  BY <1>5, <2>1, <2>2, <2>3, <2>4, <2>5 DEF PassStep
<1>6. ASSUME NEW u \in User, NEW amount \in Rewards, CreditCash(u, amount) PROVE Lasts(v)
  BY <1>1, <1>6, CreditCashLasts
<1>7. ASSUME NEW u \in User, NEW deduction \in Deductions, NEW duration \in Durations,
             ApplyPenalty(u, deduction, duration)
      PROVE  Lasts(v)
  BY <1>1, <1>7, ApplyPenaltyLasts
<1>8. ASSUME \/ \E p \in Pass : StartPass(p) \/ Fail(p)
             \/ \E price \in MarketPrices : UpdatePrice(price)
             \/ Clock
             \/ UNCHANGED penaltyVars
      PROVE  Lasts(v)
  <2>1. user' = user  BY <1>8 DEF StartPass, Fail, UpdatePrice, Clock, penaltyVars, vars
  <2>2. QED  BY <1>1, <2>1, SameCashLasts
<1>9. CASE ReleaseDue  BY <1>1, <1>9, ReleaseDueLasts
<1>10. QED  BY <1>3, <1>4, <1>5, <1>6, <1>7, <1>8, <1>9 DEF PenaltyNext

\* Where cents are whole, only a purchase spends cash an account does not have: a
\* penalty that cannot be paid in full from the cash and the pending buys is not
\* taken at all, and no freeze takes what another one holds.
THEOREM WithinMeans ==
    ASSUME WholeCents
    PROVE  PenaltySpec /\ []WholeFreezes => PenaltyWithinMeans
<1>1. LedgerInv /\ [PenaltyNext]_penaltyVars
        => [\A u \in User :
              (user'[u].cash_balance < user[u].cash_balance
                 /\ \A o \in OrdersOf(u, "buy") : orders'[o].filled = orders[o].filled)
              => user'[u].cash_balance >= 0]_vars
  BY NextLasts DEF Lasts
<1>2. QED  BY <1>1, BooksKept, PTL DEF PenaltySpec, PenaltyWithinMeans

-----------------------------------------------------------------------------
(* Pairs that meet *)

\* The terms of a placed order: create_order writes them and nobody changes
\* them.
TermsKept == \A o \in 1 .. placed : /\ orders'[o].price = orders[o].price
                                    /\ orders'[o].user = orders[o].user
                                    /\ orders'[o].side = orders[o].side

\* What a writer of an order leaves alone.
SameTerms(o, row) == /\ row.price = orders[o].price
                     /\ row.user = orders[o].user
                     /\ row.side = orders[o].side

\* Every row the passes, the cancellations and the penalties write keeps the
\* terms of its order.
LEMMA RowsKeepTerms ==
    ASSUME TypeOK, NEW o \in OrderId
    PROVE  /\ SameTerms(o, orders[o])
           /\ SameTerms(o, Cancelled(o))
           /\ \A q : SameTerms(o, BuyFilled(o, q)) /\ SameTerms(o, SellFilled(o, q))
           /\ \A short : SameTerms(o, Withdrawn(o, short))
<1>1. orders[o] \in OrderRows  BY DEF TypeOK
<1>2. SameTerms(o, Cancelled(o))  BY <1>1 DEF SameTerms, Cancelled, OrderRows
<1>3. ASSUME NEW q PROVE SameTerms(o, BuyFilled(o, q)) /\ SameTerms(o, SellFilled(o, q))
  BY <1>1 DEF SameTerms, BuyFilled, SellFilled, OrderRows
<1>4. ASSUME NEW short PROVE SameTerms(o, Withdrawn(o, short))
  <2>1. CASE CancelsAll(o, short)  BY <1>2, <2>1 DEF Withdrawn
  <2>2. CASE ~CancelsAll(o, short)  BY <1>1, <2>2 DEF Withdrawn, SameTerms, OrderRows
  <2>3. QED  BY <2>1, <2>2
<1>5. QED  BY <1>2, <1>3, <1>4 DEF SameTerms

\* Writes that keep the terms of each order keep those of the book.
LEMMA WritesKeepTerms ==
    ASSUME TypeOK, \A o \in 1 .. placed : orders'[o] = orders[o] \/ SameTerms(o, orders'[o])
    PROVE  TermsKept
  BY DEF TermsKept, SameTerms

\* Which actions write an order, and what.
LEMMA StepKeepsTerms ==
    ASSUME LedgerInv, [PenaltyNext]_penaltyVars
    PROVE  TermsKept
<1>1. IInv /\ TypeOK /\ CashBook /\ OrderLife  BY DEF LedgerInv, IInv
<1>2. /\ orders \in [OrderId -> OrderRows] /\ placed \in 0 .. MaxOrders
      /\ 1 .. placed \subseteq OrderId
  BY <1>1 DEF TypeOK
<1>3. ASSUME NEW row, orders' = [orders EXCEPT ![placed + 1] = row] PROVE TermsKept
  <2>1. \A o \in 1 .. placed : o # placed + 1  BY <1>2
  <2>2. \A o \in 1 .. placed : orders'[o] = orders[o]  BY <1>2, <1>3, <2>1
  <2>3. QED  BY <1>1, <2>2, WritesKeepTerms
<1>4. ASSUME NEW a \in OrderId, NEW b \in OrderId, NEW ra, NEW rb,
             orders' = [orders EXCEPT ![a] = ra, ![b] = rb],
             SameTerms(a, ra), SameTerms(b, rb)
      PROVE  TermsKept
  <2>1. \A o \in 1 .. placed : orders'[o] = orders[o] \/ SameTerms(o, orders'[o])
    BY <1>2, <1>4
  <2>2. QED  BY <1>1, <2>1, WritesKeepTerms
<1>5. ASSUME NEW a \in OrderId, NEW ra, orders' = [orders EXCEPT ![a] = ra], SameTerms(a, ra)
      PROVE  TermsKept
  <2>1. \A o \in 1 .. placed : orders'[o] = orders[o] \/ SameTerms(o, orders'[o])
    BY <1>2, <1>5
  <2>2. QED  BY <1>1, <2>1, WritesKeepTerms
<1>6. CASE \E u \in User : Place(u)
  <2>1. \E row : orders' = [orders EXCEPT ![placed + 1] = row]
    BY <1>6 DEF Place, PlaceBuy, PlaceSell
  <2>2. QED  BY <1>3, <2>1
<1>7. ASSUME NEW o \in OrderId, CancelOrder(o) PROVE TermsKept
  <2>1. orders' = [orders EXCEPT ![o] = Cancelled(o)]  BY <1>7 DEF CancelOrder
  <2>2. QED  BY <1>1, <1>5, <2>1, RowsKeepTerms
<1>8. ASSUME NEW p \in Pass, CancelSelfTrade(p) PROVE TermsKept
  <2> DEFINE b == pass[p].buy
             s == pass[p].sell
  <2>1. PairCancelled(b, s)  BY <1>1, <1>8, CancelSelfTradeCancels
  <2> HIDE DEF b, s
  <2>2. /\ b \in OrderId /\ s \in OrderId
        /\ orders' = [orders EXCEPT ![b] = Cancelled(b), ![s] = Cancelled(s)]
    BY <2>1 DEF PairCancelled
  <2>3. QED  BY <1>1, <1>4, <2>2, RowsKeepTerms
<1>9. ASSUME NEW p \in Pass, FillPair(p) PROVE TermsKept
  <2> DEFINE b == pass[p].buy
             s == pass[p].sell
             q == PairQuantity(p)
  <2>1. PairTrade(b, s, q, PairFillPrice(p), pass[p].simAt)  BY <1>1, <1>9, FillPairTrades
  <2> HIDE DEF b, s, q
  <2>2. /\ b \in OrderId /\ s \in OrderId
        /\ orders' = [orders EXCEPT ![b] = BuyFilled(b, q), ![s] = SellFilled(s, q)]
    BY <2>1 DEF PairTrade
  <2>3. QED  BY <1>1, <1>4, <2>2, RowsKeepTerms
<1>10. ASSUME NEW p \in Pass, FillMakerBuy(p) PROVE TermsKept
  <2> DEFINE b == pass[p].buy
             q == LesserOf(Remaining(b), pass[p].liquidity)
  <2>1. MakerSells(b, q, MakerBuyPrice(b, q, pass[p].market))
    BY <1>1, <1>10, FillMakerBuyTrades
  <2> HIDE DEF b, q
  <2>2. b \in OrderId /\ orders' = [orders EXCEPT ![b] = BuyFilled(b, q)]
    BY <2>1 DEF MakerSells
  <2>3. QED  BY <1>1, <1>5, <2>2, RowsKeepTerms
<1>11. ASSUME NEW p \in Pass, FillMakerSell(p) PROVE TermsKept
  <2> DEFINE s == pass[p].sell
             q == LesserOf(Remaining(s), pass[p].liquidity)
  <2>1. MakerBuys(s, q, MakerSellPrice(s, q, pass[p].market), pass[p].simAt)
    BY <1>1, <1>11, FillMakerSellTrades
  <2> HIDE DEF s, q
  <2>2. s \in OrderId /\ orders' = [orders EXCEPT ![s] = SellFilled(s, q)]
    BY <2>1 DEF MakerBuys
  <2>3. QED  BY <1>1, <1>5, <2>2, RowsKeepTerms
<1>12. ASSUME NEW u \in User, NEW deduction \in Deductions, NEW duration \in Durations,
              ApplyPenalty(u, deduction, duration)
       PROVE  TermsKept
  <2>1. Withdrawal(u, Shortfall(user[u].cash_balance, deduction))
    BY <1>1, <1>12, PenaltyRows
  <2>2. \A o \in 1 .. placed : orders'[o] = orders[o] \/ SameTerms(o, orders'[o])
    BY <1>1, <1>2, <2>1, RowsKeepTerms DEF Withdrawal
  <2>3. QED  BY <1>1, <2>2, WritesKeepTerms
<1>13. CASE orders' = orders  BY <1>1, <1>13, WritesKeepTerms
<1>14. (\E p \in Pass : \/ StartPass(p) \/ Fail(p) \/ PeekBuy(p) \/ PeekSell(p)
                        \/ PeekMaker(p) \/ LeaveBook(p) \/ Raise(p))
         \/ ReleaseDue \/ Clock
         \/ (\E price \in MarketPrices : UpdatePrice(price))
         \/ (\E u \in User, amount \in Rewards : CreditCash(u, amount))
         \/ UNCHANGED penaltyVars
       => orders' = orders
  BY DEF StartPass, Fail, PeekBuy, PeekSell, PeekMaker, LeaveBook, Raise, ReleaseDue,
         Clock, UpdatePrice, CreditCash, penaltyVars, vars, book
<1>15. QED
  BY <1>6, <1>7, <1>8, <1>9, <1>10, <1>11, <1>12, <1>13, <1>14 DEF PenaltyNext, PassStep

\* The orders of the pair a pass is about to fill meet: the terms it compared
\* when it peeked them are still theirs.
PairsMeet == \A p \in Pass :
    pass[p].pc = "pair" => Crosses(pass[p].buy, pass[p].sell)

\* Who sends a pass to a pair, and who leaves it there.
LEMMA PairSteps ==
    ASSUME IInv, [PenaltyNext]_penaltyVars, NEW p \in Pass, pass'[p].pc = "pair"
    PROVE  \/ pass'[p] = pass[p]
           \/ /\ orders' = orders
              /\ Crosses(pass'[p].buy, pass'[p].sell)
<1>1. pass \in [Pass -> PassRows]  BY DEF IInv, TypeOK
<1>2. Started.pc # "pair" /\ IdlePass.pc # "pair"  BY DEF Started, IdlePass
<1>3. \A me \in PassRows, stage \in {"book", "maker"} : Looping(me, stage).pc # "pair"
  BY DEF Looping, PassRows
<1>4. ASSUME NEW x \in Pass, NEW row, pass' = [pass EXCEPT ![x] = row], row.pc # "pair"
      PROVE  pass'[p] = pass[p]
  BY <1>1, <1>4
<1>5. CASE pass' = pass  BY <1>5
<1>6. CASE ThenMatches  BY <1>2, <1>4, <1>5, <1>6 DEF ThenMatches
<1>7. ASSUME NEW x \in Pass, StartPass(x) \/ Raise(x) \/ Fail(x) PROVE pass'[p] = pass[p]
  <2>1. \E row \in {Started, IdlePass} : pass' = [pass EXCEPT ![x] = row]
    BY <1>7 DEF StartPass, Raise, Fail
  <2>2. QED  BY <1>2, <1>4, <2>1
<1>8. ASSUME NEW x \in Pass, PeekBuy(x) PROVE pass'[p] = pass[p]
  <2>1. PICK o : pass' = [pass EXCEPT ![x].pc = "peekSell",
                                      ![x].buy = o, ![x].buyVersion = VersionOf(o)]
    BY <1>8 DEF PeekBuy
  <2>2. CASE p = x
    <3>1. pass'[x].pc = "peekSell"  BY <1>1, <2>1 DEF PassRows
    <3>2. QED  BY <2>2, <3>1
  <2>3. CASE p # x  BY <1>1, <2>1, <2>3
  <2>4. QED  BY <2>2, <2>3
<1>9. ASSUME NEW x \in Pass, PeekSell(x)
      PROVE  \/ pass'[p] = pass[p]
             \/ orders' = orders /\ Crosses(pass'[p].buy, pass'[p].sell)
  <2>1. PICK s \in 0 .. MaxOrders :
          \/ /\ Crosses(pass[x].buy, s)
             /\ pass' = [pass EXCEPT ![x].pc = "pair", ![x].sell = s,
                                     ![x].sellVersion = VersionOf(s)]
          \/ pass' = [pass EXCEPT ![x] = LeavingBook(@)]
    BY <1>9 DEF PeekSell
  <2>2. orders' = orders  BY <1>9 DEF PeekSell, book
  <2>3. CASE p # x  BY <1>1, <2>1, <2>3
  <2>4. CASE p = x /\ pass' = [pass EXCEPT ![x] = LeavingBook(@)]
    <3>1. pass' = [pass EXCEPT ![x] = Looping(pass[x], "maker")]
      BY <2>4 DEF LeavingBook
    <3>2. QED  BY <1>1, <1>3, <1>4, <3>1
  <2>5. CASE /\ p = x /\ Crosses(pass[x].buy, s)
             /\ pass' = [pass EXCEPT ![x].pc = "pair", ![x].sell = s,
                                     ![x].sellVersion = VersionOf(s)]
    <3>1. pass'[x].buy = pass[x].buy /\ pass'[x].sell = s
      BY <1>1, <2>5 DEF PassRows
    <3>2. QED  BY <2>2, <2>5, <3>1
  <2>6. QED  BY <2>1, <2>3, <2>4, <2>5
<1>10. ASSUME NEW x \in Pass, PeekMaker(x) PROVE pass'[p] = pass[p]
  <2>1. PICK s : \/ pass' = [pass EXCEPT ![x].pc = "makerBuy"]
                 \/ pass' = [pass EXCEPT ![x].pc = "makerSell",
                                         ![x].buy = Nobody, ![x].buyVersion = 0,
                                         ![x].sell = s,
                                         ![x].sellVersion = VersionOf(s)]
                 \/ pass' = [pass EXCEPT ![x] = IdlePass]
    BY <1>10 DEF PeekMaker
  <2>2. CASE p = x
    <3>1. pass'[x].pc \in {"makerBuy", "makerSell", "idle"}
      BY <1>1, <2>1 DEF PassRows, IdlePass
    <3>2. QED  BY <2>2, <3>1
  <2>3. CASE p # x  BY <1>1, <2>1, <2>3
  <2>4. QED  BY <2>2, <2>3
<1>11. ASSUME NEW x \in Pass, CancelSelfTrade(x) \/ LeaveBook(x) PROVE pass'[p] = pass[p]
  <2>1. CASE CancelSelfTrade(x)
    <3>1. pass' = [pass EXCEPT ![x] = Looping(SkipPair(pass[x]), "book")]
      BY <1>1, <2>1 DEF CancelSelfTrade
    <3>2. Looping(SkipPair(pass[x]), "book").pc = "peekBuy"
      BY <1>1 DEF Looping, SkipPair, SkipSell, SkipBuy, PassRows
    <3>3. QED  BY <1>4, <3>1, <3>2
  <2>2. CASE LeaveBook(x)
    <3>1. pass' = [pass EXCEPT ![x] = Looping(pass[x], "maker")]
      BY <1>1, <2>2 DEF LeaveBook, LeavingBook
    <3>2. QED  BY <1>1, <1>3, <1>4, <3>1
  <2>3. QED  BY <1>11, <2>1, <2>2
<1>12. ASSUME NEW x \in Pass, FillPair(x) \/ FillMakerBuy(x) \/ FillMakerSell(x)
       PROVE  pass'[p] = pass[p]
  <2>1. PICK q : \/ pass' = [pass EXCEPT ![x] = AfterFill(pass[x], "book", q)]
                 \/ pass' = [pass EXCEPT ![x] = AfterFill(SkipBuy(pass[x]), "maker", q)]
                 \/ pass' = [pass EXCEPT ![x] = AfterFill(SkipSell(pass[x]), "maker", q)]
    BY <1>1, <1>12 DEF FillPair, FillMakerBuy, FillMakerSell
  <2>2. CASE p # x  BY <1>1, <2>1, <2>2
  <2>3. CASE p = x
    <3>1. PICK me \in {pass[x], SkipBuy(pass[x]), SkipSell(pass[x])},
                stage \in {"book", "maker"} :
            pass'[x] = AfterFill(me, stage, q)
      BY <1>1, <2>1
    <3>2. Looping([me EXCEPT !.liquidity = @ - q], stage).pc = "peekBuy"
      BY <1>1, <3>1 DEF Looping, SkipBuy, SkipSell, PassRows
    <3>3. QED  BY <1>2, <2>3, <3>1, <3>2 DEF AfterFill
  <2>4. QED  BY <2>2, <2>3
<1>13. CASE \E u \in User : Place(u)
  <2>1. ThenMatches  BY <1>13 DEF Place, PlaceBuy, PlaceSell
  <2>2. QED  BY <1>6, <2>1
<1>14. CASE \/ \E o \in OrderId : CancelOrder(o)
            \/ ReleaseDue \/ Clock
            \/ \E price \in MarketPrices : UpdatePrice(price)
            \/ \E u \in User, amount \in Rewards : CreditCash(u, amount)
            \/ \E u \in User, deduction \in Deductions, duration \in Durations :
                  ApplyPenalty(u, deduction, duration)
            \/ UNCHANGED penaltyVars
  <2>1. pass' = pass
    BY <1>14 DEF CancelOrder, ReleaseDue, Clock, UpdatePrice, CreditCash, ApplyPenalty,
                 penaltyVars, vars
  <2>2. QED  BY <1>5, <2>1
<1>15. QED
  BY <1>7, <1>8, <1>9, <1>10, <1>11, <1>12, <1>13, <1>14 DEF PenaltyNext, PassStep

\* A pair that met still meets: no writer changes the terms of a placed order.
LEMMA PairsMeetNext == LedgerInv /\ PairsMeet /\ [PenaltyNext]_penaltyVars => PairsMeet'
<1> SUFFICES ASSUME LedgerInv, PairsMeet, [PenaltyNext]_penaltyVars,
                    NEW p \in Pass, pass'[p].pc = "pair"
             PROVE  Crosses(pass[p].buy, pass[p].sell)'
  BY DEF PairsMeet
<1>1. IInv  BY DEF LedgerInv
<1>2. CASE pass'[p] = pass[p]
  <2> DEFINE b == pass[p].buy
             s == pass[p].sell
  <2>1. Trusts(pass[p]) /\ pass[p].pc = "pair" /\ Crosses(b, s)
    BY <1>1, <1>2 DEF IInv, PeeksTrusted, PairsMeet
  <2>2. b \in 1 .. placed /\ s \in 1 .. placed  BY <2>1 DEF Trusts, Known
  <2>3. orders'[b].price = orders[b].price /\ orders'[s].price = orders[s].price
    <3> HIDE DEF b, s
    <3> QED  BY <2>2, StepKeepsTerms DEF TermsKept
  <2>4. pass'[p].buy = b /\ pass'[p].sell = s  BY <1>2
  <2>5. QED  BY <2>1, <2>3, <2>4 DEF Crosses, IsMarket
<1>3. CASE orders' = orders /\ Crosses(pass'[p].buy, pass'[p].sell)
  BY <1>3 DEF Crosses, IsMarket
<1>4. QED  BY <1>1, <1>2, <1>3, PairSteps

\* Every pair a pass is about to fill meets, whatever happened since it peeked.
LEMMA PairsMeetInit == PenaltyInit => PairsMeet
  BY DEF PenaltyInit, Init, PairsMeet, IdlePass

-----------------------------------------------------------------------------
(* The terms of a fill *)

\* Only the three fills add to what is filled.
LEMMA WhoFills ==
    ASSUME LedgerInv, [PenaltyNext]_penaltyVars, NEW o \in OrderId, NewlyFilled(o) > 0
    PROVE  \E p \in Pass : \/ FillPair(p) /\ o \in {pass[p].buy, pass[p].sell}
                           \/ FillMakerBuy(p) /\ o = pass[p].buy
                           \/ FillMakerSell(p) /\ o = pass[p].sell
<1>1. IInv /\ TypeOK /\ CashBook  BY DEF LedgerInv, IInv
<1>2. orders \in [OrderId -> OrderRows] /\ \A x \in OrderId : orders[x].filled \in Nat
  BY <1>1 DEF TypeOK, OrderRows
<1>3. ASSUME orders'[o].filled = orders[o].filled PROVE FALSE
  BY <1>2, <1>3 DEF NewlyFilled
<1>4. orders'[o] # orders[o]  BY <1>3
<1>5. ASSUME NEW x \in OrderId, CancelOrder(x) PROVE FALSE
  <2>1. orders' = [orders EXCEPT ![x] = Cancelled(x)]  BY <1>5 DEF CancelOrder
  <2>2. Cancelled(x).filled = orders[x].filled  BY <1>2 DEF Cancelled, OrderRows
  <2>3. QED  BY <1>2, <1>3, <2>1, <2>2
<1>6. ASSUME NEW u \in User, Place(u) PROVE FALSE
  <2>1. PICK row : orders' = [orders EXCEPT ![placed + 1] = row] /\ row.filled = 0
    BY <1>6 DEF Place, PlaceBuy, PlaceSell, NewOrder
  <2>2. orders'[o] = row  BY <1>2, <1>4, <2>1
  <2>3. QED  BY <1>2, <2>1, <2>2 DEF NewlyFilled
<1>7. ASSUME NEW p \in Pass, CancelSelfTrade(p) PROVE FALSE
  <2> DEFINE b == pass[p].buy
             s == pass[p].sell
  <2>1. PairCancelled(b, s)  BY <1>1, <1>7, CancelSelfTradeCancels
  <2> HIDE DEF b, s
  <2>2. /\ b \in OrderId /\ s \in OrderId
        /\ orders' = [orders EXCEPT ![b] = Cancelled(b), ![s] = Cancelled(s)]
    BY <2>1 DEF PairCancelled
  <2>3. \A x \in OrderId : Cancelled(x).filled = orders[x].filled
    BY <1>2 DEF Cancelled, OrderRows
  <2>4. QED  BY <1>2, <1>3, <2>2, <2>3
<1>8. ASSUME NEW p \in Pass, FillPair(p)
      PROVE  o \in {pass[p].buy, pass[p].sell}
  BY <1>2, <1>4, <1>8 DEF FillPair
<1>9. ASSUME NEW p \in Pass, FillMakerBuy(p) PROVE o = pass[p].buy
  BY <1>2, <1>4, <1>9 DEF FillMakerBuy
<1>10. ASSUME NEW p \in Pass, FillMakerSell(p) PROVE o = pass[p].sell
  BY <1>2, <1>4, <1>10 DEF FillMakerSell
<1>11. ASSUME NEW u \in User, NEW deduction \in Deductions, NEW duration \in Durations,
              ApplyPenalty(u, deduction, duration)
       PROVE  FALSE
  BY <1>1, <1>3, <1>11, PenaltyRows
<1>12. (\E p \in Pass : \/ StartPass(p) \/ Fail(p) \/ PeekBuy(p) \/ PeekSell(p)
                        \/ PeekMaker(p) \/ LeaveBook(p) \/ Raise(p))
         \/ ReleaseDue \/ Clock
         \/ (\E price \in MarketPrices : UpdatePrice(price))
         \/ (\E u \in User, amount \in Rewards : CreditCash(u, amount))
         \/ UNCHANGED penaltyVars
       => orders' = orders
  BY DEF StartPass, Fail, PeekBuy, PeekSell, PeekMaker, LeaveBook, Raise, ReleaseDue,
         Clock, UpdatePrice, CreditCash, penaltyVars, vars, book
<1>13. QED
  BY <1>4, <1>5, <1>6, <1>7, <1>8, <1>9, <1>10, <1>11, <1>12 DEF PenaltyNext, PassStep

\* What a fill costs is a whole number of cents.
LEMMA DebitInt ==
    ASSUME NEW q \in Int, NEW p \in Int
    PROVE  Debit(q, p) \in Int
<1>1. q * p \in Int  BY SMT
<1>2. q * p * FeeNum \in Int  BY <1>1, SMT
<1>3. Round(q * p * FeeNum, RateDen) \in Int  BY <1>2, RoundInt
<1>4. QED  BY <1>1, <1>3 DEF Debit, Fee

LEMMA ProceedsInt ==
    ASSUME NEW q \in Int, NEW p \in Int
    PROVE  Proceeds(q, p) \in Int
<1>1. q * p \in Int  BY SMT
<1>2. q * p * FeeNum \in Int /\ q * p * TaxNum \in Int  BY <1>1, SMT
<1>3. Round(q * p * FeeNum, RateDen) \in Int /\ Round(q * p * TaxNum, RateDen) \in Int
  BY <1>2, RoundInt
<1>4. QED  BY <1>1, <1>3 DEF Proceeds, Fee, Tax

\* What a fill takes from the modelled cash and escrow of a buyer together: never more
\* than the price and the fee, and exactly that when the freeze is whole cents a share.
LEMMA PaidMoney ==
    ASSUME IInv, CashBook, NEW b \in OrderId, Open(b), orders[b].side = "buy",
           NEW q \in 1 .. Remaining(b), NEW price \in Int,
           NEW row, row = Paid(user[orders[b].user], b, q, price)
    PROVE  /\ row.cash_balance \in Int /\ row.frozen_cash \in Int
           /\ row.cash_balance + row.frozen_cash
                >= Wealth(orders[b].user) - Debit(q, price)
           /\ (\E f \in Nat : orders[b].frozen = f * Remaining(b)) =>
                row.cash_balance + row.frozen_cash
                  = Wealth(orders[b].user) - Debit(q, price)
<1> DEFINE u == orders[b].user
           cash == user[u].cash_balance
           fc == user[u].frozen_cash
           fr == orders[b].frozen
           rest == Remaining(b)
           debit == Debit(q, price)
<1>1. TypeOK /\ OrderLife /\ user \in [User -> UserRows]  BY DEF IInv, TypeOK
<1>2. u \in User /\ rest \in Nat \ {0}  BY <1>1, OpenRow
<1>3. /\ fc \in Nat /\ fr \in Nat /\ fr <= fc /\ cash \in Int
  <2>1. HeldRow(orders[b], u) = fr  BY DEF HeldRow
  <2>2. fc \in Nat /\ HeldRow(orders[b], u) \in Nat
        /\ HeldRow(orders[b], u) <= Frozen(orders, u)
        /\ fc >= Frozen(orders, u) /\ Frozen(orders, u) \in Nat
    BY <1>1, <1>2, HeldCovered
  <2>3. cash \in Int  BY <1>1, <1>2 DEF UserRows
  <2>4. QED  BY <2>1, <2>2, <2>3
<1>4. q \in Nat /\ q <= rest  BY <1>2
<1>5. debit \in Int  BY <1>4, DebitInt
<1>6. /\ row.cash_balance = Round((cash - debit) * rest + q * fr, rest)
      /\ row.frozen_cash = Round(fc * rest - q * fr, rest)
  <2>1. user[u] \in UserRows  BY <1>1, <1>2
  <2> DEFINE c == Round((cash - debit) * rest + q * fr, rest)
             f == Round(fc * rest - q * fr, rest)
  <2>2. row = [user[u] EXCEPT !.cash_balance = c, !.frozen_cash = f]
    BY <2>1 DEF Paid, UserRows
  <2> HIDE DEF c, f
  <2>3. row.cash_balance = c /\ row.frozen_cash = f  BY <2>1, <2>2 DEF UserRows
  <2>4. QED  BY <2>3 DEF c, f
<1> DEFINE n == (cash - debit) * rest + q * fr
           k == fc * rest - q * fr
           a == cash - debit + fc
<1>7. Wealth(u) = cash + fc  BY DEF Wealth
<1>14. (\E f \in Nat : orders[b].frozen = f * Remaining(b)) => \E f \in Nat : fr = f * rest
  OBVIOUS
<1> HIDE DEF u, cash, fc, fr, rest, debit
<1>8. n \in Int /\ k \in Nat /\ a \in Int /\ n + k = a * rest
  <2>1. q * fr <= rest * fc /\ q * fr \in Nat /\ rest * fc \in Nat
    <3>1. q * fr <= rest * fr /\ q * fr \in Nat  BY <1>2, <1>3, <1>4, SMT
    <3>2. rest * fr <= rest * fc /\ rest * fc \in Nat /\ rest * fr \in Nat
      BY <1>2, <1>3, SMT
    <3>3. QED  BY <3>1, <3>2
  <2>2. fc * rest = rest * fc  BY <1>2, <1>3, SMT
  <2>3. k \in Nat  BY <2>1, <2>2
  <2>4. (cash - debit) * rest \in Int  BY <1>2, <1>3, <1>5, SMT
  <2>5. a * rest = (cash - debit) * rest + fc * rest  BY <1>2, <1>3, <1>5, SMT
  <2>6. a \in Int  BY <1>3, <1>5
  <2>7. n \in Int  BY <2>1, <2>4
  <2>8. n + k = a * rest  BY <2>1, <2>2, <2>4, <2>5
  <2>9. QED  BY <2>3, <2>6, <2>7, <2>8
<1>9. row.cash_balance = Round(n, rest) /\ row.frozen_cash = Round(k, rest)  BY <1>6
<1>10. a = cash + fc - debit  BY <1>3, <1>5
<1>11. ASSUME NEW f \in Nat, fr = f * rest PROVE \E g \in Int : k = g * rest
  <2>1. fc - q * f \in Int  BY <1>3, <1>4, SMT
  <2>2. q * (f * rest) = (q * f) * rest  BY <1>2, <1>4, SMT
  <2>3. (fc - q * f) * rest = fc * rest - (q * f) * rest  BY <1>2, <1>3, <1>4, SMT
  <2>4. k = (fc - q * f) * rest  BY <1>11, <2>2, <2>3
  <2>5. QED  BY <2>1, <2>4
<1> HIDE DEF n, k, a
<1>12. /\ Round(n, rest) \in Int /\ Round(k, rest) \in Int
       /\ Round(n, rest) + Round(k, rest) >= a
       /\ (\E g \in Int : k = g * rest) => Round(n, rest) + Round(k, rest) = a
  BY <1>2, <1>8, RoundPairWhole
<1> DEFINE x == Round(n, rest)
           y == Round(k, rest)
           whole == \E f \in Nat : fr = f * rest
<1>13. /\ x \in Int /\ y \in Int /\ x + y >= a
       /\ row.cash_balance = x /\ row.frozen_cash = y
       /\ whole => x + y = a
  BY <1>9, <1>11, <1>12
<1> HIDE DEF x, y, whole
<1>15. /\ x + y >= Wealth(u) - debit
       /\ whole => x + y = Wealth(u) - debit
  BY <1>3, <1>5, <1>7, <1>10, <1>13
<1>16. QED  BY <1>13, <1>14, <1>15 DEF u, debit, whole

\* The price of a fill is within the limits of both orders.
LEMMA PairPriceFair ==
    ASSUME IInv, PairsMeet, NEW p \in Pass, FillPair(p)
    PROVE  /\ ~IsMarket(pass[p].buy) => PairFillPrice(p) <= orders[pass[p].buy].price
           /\ ~IsMarket(pass[p].sell) => PairFillPrice(p) >= orders[pass[p].sell].price
<1> DEFINE b == pass[p].buy
           s == pass[p].sell
           price == PairFillPrice(p)
<1>1. pass[p].pc = "pair" /\ ~OverCap(b, price)  BY DEF FillPair
<1>2. Crosses(b, s)  BY <1>1 DEF PairsMeet
<1>3. PairTrade(b, s, PairQuantity(p), price, pass[p].simAt)  BY FillPairTrades
<1>4. price \in Nat /\ b \in OrderId /\ s \in OrderId  BY <1>3 DEF PairTrade
<1>5. orders[b].price \in Nat /\ orders[s].price \in Nat
  <2> HIDE DEF b, s
  <2> QED  BY <1>4 DEF IInv, TypeOK, OrderRows
<1>6. ~IsMarket(b) => price <= orders[b].price  BY <1>1, <1>4, <1>5 DEF OverCap
<1>7. ASSUME ~IsMarket(s) PROVE price >= orders[s].price
  <2>1. price = PairPrice(b, s, pass[p].market)  BY DEF PairFillPrice
  <2> HIDE DEF b, s, price
  <2>2. CASE IsMarket(b)  BY <1>5, <1>7, <2>1, <2>2 DEF PairPrice
  <2>3. CASE ~IsMarket(b)
    <3>1. orders[b].price >= orders[s].price  BY <1>2, <1>7, <2>3 DEF Crosses
    <3>2. price = orders[b].price \/ price = orders[s].price
      BY <1>7, <2>1, <2>3 DEF PairPrice
    <3>3. QED  BY <1>5, <3>1, <3>2
  <2>4. QED  BY <2>2, <2>3
<1>8. QED  BY <1>6, <1>7

\* The market maker's price is within the limit too.
LEMMA MakerPriceFair ==
    ASSUME TypeOK, NEW o \in OrderId, ~IsMarket(o), NEW q \in Nat, NEW market \in Nat
    PROVE  /\ MakerBuyPrice(o, q, market) \in Nat
           /\ MakerBuyPrice(o, q, market) <= orders[o].price
           /\ MakerSellPrice(o, q, market) >= orders[o].price
<1>1. orders[o].price \in Nat  BY DEF TypeOK, OrderRows
<1>2. MakerPrice("buy", q, market) \in Nat /\ MakerPrice("sell", q, market) \in Nat
  BY MakerPriceNat
<1>3. MakerBuyPrice(o, q, market) \in Nat /\ MakerBuyPrice(o, q, market) <= orders[o].price
  BY <1>1, <1>2 DEF MakerBuyPrice, OverCap
<1>4. MakerSellPrice(o, q, market) >= orders[o].price  BY <1>1, <1>2 DEF MakerSellPrice
<1>5. QED  BY <1>3, <1>4

\* How a fill writes the two rows of a buyer, and of a seller.
Bought(o, q, price) ==
    LET u == orders[o].user
    IN  /\ Open(o) /\ orders[o].side = "buy" /\ q \in 1 .. Remaining(o)
        /\ price \in Nat /\ ~OverCap(o, price)
        /\ orders'[o] = BuyFilled(o, q)
        /\ user'[u] = Paid(user[u], o, q, price)

SoldAt(o, q, price) ==
    LET u == orders[o].user
    IN  /\ Open(o) /\ orders[o].side = "sell" /\ q \in 1 .. Remaining(o)
        /\ price \in Nat /\ (~IsMarket(o) => price >= orders[o].price)
        /\ orders'[o] = SellFilled(o, q)
        /\ user'[u] = Sold(user[u], q, price)

\* A buyer who pays at most the limit per share is served as agreed.
LEMMA BuyerServed ==
    ASSUME IInv, CashBook, NEW b \in OrderId, NEW q, NEW price, Bought(b, q, price)
    PROVE  BuyLimitHonoured(b)
<1> DEFINE u == orders[b].user
           row == Paid(user[u], b, q, price)
           l == orders[b].price
<1> SUFFICES ASSUME ~IsMarket(b) PROVE Wealth(u) - Wealth(u)' <= Debit(NewlyFilled(b), l)
  BY DEF BuyLimitHonoured
<1>1. TypeOK /\ OrderLife /\ user \in [User -> UserRows] /\ orders[b] \in OrderRows
      /\ Open(b) /\ orders[b].side = "buy" /\ q \in 1 .. Remaining(b)
      /\ price \in Nat /\ ~OverCap(b, price)
      /\ orders'[b] = BuyFilled(b, q) /\ user'[u] = row
  BY DEF IInv, TypeOK, Bought
<1>2. u \in User /\ orders[b].filled \in Nat /\ Remaining(b) \in Nat /\ l \in Nat
  BY <1>1, OpenRow DEF OrderRows
<1>3. q \in Nat /\ price \in Nat /\ price <= l  BY <1>1, <1>2 DEF OverCap
<1>4. orders'[b].user = u /\ NewlyFilled(b) = q
  <2>1. BuyFilled(b, q).user = u /\ BuyFilled(b, q).filled = orders[b].filled + q
    BY <1>1 DEF BuyFilled, OrderRows
  <2>2. QED  BY <1>1, <1>2, <1>3, <2>1 DEF NewlyFilled
<1>5. Wealth(u)' = row.cash_balance + row.frozen_cash
  BY <1>1, <1>4 DEF Wealth
<1>6. /\ row.cash_balance \in Int /\ row.frozen_cash \in Int
      /\ row.cash_balance + row.frozen_cash >= Wealth(u) - Debit(q, price)
  <2> HIDE DEF row
  <2>1. row = Paid(user[u], b, q, price)  BY DEF row
  <2>2. QED  BY <1>1, <1>3, <2>1, PaidMoney
<1>7. Wealth(u) \in Int
  <2>1. user[u] \in UserRows  BY <1>1, <1>2
  <2>2. QED  BY <2>1 DEF Wealth, UserRows
<1>8. Debit(q, price) <= Debit(q, l) /\ Debit(q, price) \in Int /\ Debit(q, l) \in Int
  BY <1>2, <1>3, DebitGrows
<1> DEFINE w == row.cash_balance + row.frozen_cash
           w0 == Wealth(u)
           d == Debit(q, price)
           e == Debit(q, l)
<1>9. w \in Int /\ w0 \in Int /\ d \in Int /\ e \in Int /\ w >= w0 - d /\ d <= e
  BY <1>6, <1>7, <1>8
<1>10. Wealth(u)' = w /\ Debit(NewlyFilled(b), l) = e /\ Wealth(u) = w0  BY <1>4, <1>5
<1> HIDE DEF w, w0, d, e
<1>11. w0 - w <= e  BY <1>9
<1>12. QED  BY <1>10, <1>11

\* What a seller gets.
LEMMA SellerPaid ==
    ASSUME IInv, NEW s \in OrderId, NEW q, NEW price, SoldAt(s, q, price)
    PROVE  /\ NewlyFilled(s) = q /\ q \in Nat /\ orders[s].price \in Nat
           /\ Proceeds(q, price) \in Nat
           /\ user'[orders[s].user].settling_cash - user[orders[s].user].settling_cash
                = Proceeds(q, price)
<1> DEFINE u == orders[s].user
           old == user[u].settling_cash
           got == Proceeds(q, price)
<1>1. /\ TypeOK /\ OrderLife /\ user \in [User -> UserRows] /\ orders[s] \in OrderRows
      /\ Open(s) /\ price \in Nat
      /\ orders'[s] = SellFilled(s, q) /\ user'[u] = Sold(user[u], q, price)
  BY DEF IInv, TypeOK, SoldAt
<1>2. /\ u \in User /\ orders[s].filled \in Nat /\ Remaining(s) \in Nat
      /\ orders[s].price \in Nat
  BY <1>1, OpenRow DEF OrderRows
<1>3. q \in Nat  BY <1>2 DEF SoldAt
<1>4. NewlyFilled(s) = q
  <2>1. SellFilled(s, q).filled = orders[s].filled + q  BY <1>1 DEF SellFilled, OrderRows
  <2>2. QED  BY <1>1, <1>2, <1>3, <2>1 DEF NewlyFilled
<1>5. user'[u].settling_cash = old + got
  <2>1. user[u] \in UserRows  BY <1>1, <1>2
  <2>2. Sold(user[u], q, price).settling_cash = old + got  BY <2>1, SoldAccount
  <2>3. QED  BY <1>1, <2>2
<1>6. old \in Int  BY <1>1, <1>2 DEF UserRows
<1>7. got \in Nat  BY <1>1, <1>3, ProceedsNat
<1> DEFINE has == user'[u].settling_cash
<1>8. has = old + got  BY <1>5
<1> HIDE DEF has, old, got
<1>9. has - old = got  BY <1>6, <1>7, <1>8
<1>10. QED  BY <1>2, <1>3, <1>4, <1>7, <1>9 DEF has, old, got

\* The market maker's price is within what a buy has frozen.
LEMMA MakerCapped ==
    ASSUME IInv, CashBook, NEW b \in OrderId, Open(b), NEW q \in Nat, NEW market \in Nat
    PROVE  /\ MakerBuyPrice(b, q, market) \in Nat
           /\ ~OverCap(b, MakerBuyPrice(b, q, market))
<1> DEFINE p == MakerPrice("buy", q, market)
           fr == orders[b].frozen
           rest == Remaining(b)
           n == fr * RateDen
           d == rest * (RateDen + FeeNum)
<1>1. /\ p \in Nat /\ fr \in Nat /\ rest \in Nat \ {0} /\ orders[b].price \in Nat
  BY MakerPriceNat, OpenRow DEF IInv, CashBook, OrderRows
<1>2. CASE ~OverCap(b, p)  BY <1>1, <1>2 DEF MakerBuyPrice
<1>3. CASE OverCap(b, p) /\ ~IsMarket(b)
  <2>1. MakerBuyPrice(b, q, market) = orders[b].price  BY <1>3 DEF MakerBuyPrice
  <2>2. QED  BY <1>1, <1>3, <2>1 DEF OverCap
<1>4. CASE OverCap(b, p) /\ IsMarket(b)
  <2> DEFINE k == d * TickSize
             r == n \div k
             price == TickSize * r
  <2>1. n \in Nat /\ d \in Nat \ {0}  BY <1>1, ProductPositive, SMT
  <2>2. k \in Nat \ {0}
    <3> HIDE DEF d
    <3> QED  BY <2>1, ProductPositive
  <2>3. r \in Nat /\ k * r <= n
    <3> HIDE DEF n, k
    <3> QED  BY <2>1, <2>2, SMT
  <2>4. price \in Nat
    <3> HIDE DEF r
    <3> QED  BY <2>3, SMT
  <2>5. MakerBuyPrice(b, q, market) = price
    BY <1>4 DEF MakerBuyPrice, RoundDownToTick
  <2>6. k * r = price * rest * (RateDen + FeeNum)
    <3> HIDE DEF r, rest
    <3>1. rest \in Nat /\ r \in Nat  BY <1>1, <2>3
    <3>2. (rest * (RateDen + FeeNum) * TickSize) * r
            = TickSize * r * rest * (RateDen + FeeNum)
      BY <3>1, SMT
    <3>3. QED  BY <3>2
  <2> HIDE DEF k, r, price
  <2>7. price * rest * (RateDen + FeeNum) <= fr * RateDen  BY <2>3, <2>6
  <2>8. ~(price * rest * (RateDen + FeeNum) > fr * RateDen)
    <3>1. price * rest * (RateDen + FeeNum) \in Int /\ fr * RateDen \in Int
      BY <1>1, <2>4, SMT
    <3>2. QED  BY <2>7, <3>1
  <2>9. QED  BY <1>4, <2>4, <2>5, <2>8 DEF OverCap
<1>5. QED  BY <1>2, <1>3, <1>4

\* Every fill is such a purchase or sale, whatever the passes saw before.
LEMMA FillTerms ==
    ASSUME LedgerInv, PairsMeet, [PenaltyNext]_penaltyVars,
           NEW o \in OrderId, NewlyFilled(o) > 0
    PROVE  \E q, price : Bought(o, q, price) \/ SoldAt(o, q, price)
<1>1. IInv /\ TypeOK /\ CashBook
      /\ user \in [User -> UserRows] /\ orders \in [OrderId -> OrderRows]
  BY DEF LedgerInv, IInv, TypeOK
<1>2. PICK p \in Pass : \/ FillPair(p) /\ o \in {pass[p].buy, pass[p].sell}
                        \/ FillMakerBuy(p) /\ o = pass[p].buy
                        \/ FillMakerSell(p) /\ o = pass[p].sell
  BY WhoFills
<1>3. pass[p] \in PassRows  BY <1>1 DEF IInv, TypeOK
<1>4. CASE FillPair(p) /\ o \in {pass[p].buy, pass[p].sell}
  <2> DEFINE b == pass[p].buy
             s == pass[p].sell
             q == PairQuantity(p)
             price == PairFillPrice(p)
             buyer == orders[b].user
             seller == orders[s].user
  <2>1. PairTrade(b, s, q, price, pass[p].simAt)  BY <1>1, <1>4, FillPairTrades
  <2>2. ~OverCap(b, price) /\ (~IsMarket(s) => price >= orders[s].price)
    BY <1>1, <1>4, PairPriceFair DEF FillPair
  <2>3. o = b \/ o = s  BY <1>4
  <2> HIDE DEF b, s, q, price
  <2>4. /\ b \in OrderId /\ Open(b) /\ orders[b].side = "buy" /\ buyer \in User
        /\ s \in OrderId /\ Open(s) /\ orders[s].side = "sell" /\ seller \in User
        /\ buyer # seller /\ b # s
        /\ q \in 1 .. Remaining(b) /\ q \in 1 .. Remaining(s) /\ price \in Nat
        /\ user' = [user EXCEPT ![buyer] = Paid(user[buyer], b, q, price),
                                ![seller] = Sold(user[seller], q, price)]
        /\ orders' = [orders EXCEPT ![b] = BuyFilled(b, q), ![s] = SellFilled(s, q)]
    BY <2>1 DEF PairTrade
  <2>5. /\ user'[buyer] = Paid(user[buyer], b, q, price)
        /\ user'[seller] = Sold(user[seller], q, price)
        /\ orders'[b] = BuyFilled(b, q) /\ orders'[s] = SellFilled(s, q)
    BY <1>1, <2>4
  <2>6. Bought(b, q, price)  BY <2>2, <2>4, <2>5 DEF Bought
  <2>7. SoldAt(s, q, price)  BY <2>2, <2>4, <2>5 DEF SoldAt
  <2>8. QED  BY <2>3, <2>6, <2>7
<1>5. CASE FillMakerBuy(p) /\ o = pass[p].buy
  <2> DEFINE b == pass[p].buy
             q == LesserOf(Remaining(b), pass[p].liquidity)
             market == pass[p].market
             price == MakerBuyPrice(b, q, market)
             buyer == orders[b].user
  <2>1. MakerSells(b, q, price)  BY <1>1, <1>5, FillMakerBuyTrades
  <2>2. market \in Nat  BY <1>3 DEF PassRows
  <2> HIDE DEF b, q, market
  <2>3. b \in OrderId /\ Open(b) /\ q \in 1 .. Remaining(b)
    <3> HIDE DEF price
    <3> QED  BY <2>1 DEF MakerSells
  <2>4. q \in Nat
    <3>1. Remaining(b) \in Nat  BY <1>1, <2>3, OpenRow DEF IInv
    <3>2. QED  BY <2>3, <3>1
  <2>5. price \in Nat /\ ~OverCap(b, price)  BY <1>1, <2>2, <2>3, <2>4, MakerCapped
  <2> HIDE DEF price
  <2>6. /\ orders[b].side = "buy" /\ buyer \in User
        /\ user' = [user EXCEPT ![buyer] = Paid(user[buyer], b, q, price)]
        /\ orders' = [orders EXCEPT ![b] = BuyFilled(b, q)]
    BY <2>1 DEF MakerSells
  <2>7. user'[buyer] = Paid(user[buyer], b, q, price) /\ orders'[b] = BuyFilled(b, q)
    BY <1>1, <2>3, <2>6
  <2>8. Bought(b, q, price)  BY <2>3, <2>5, <2>6, <2>7 DEF Bought
  <2>9. QED  BY <1>5, <2>8 DEF b
<1>6. CASE FillMakerSell(p) /\ o = pass[p].sell
  <2> DEFINE s == pass[p].sell
             q == LesserOf(Remaining(s), pass[p].liquidity)
             price == MakerSellPrice(s, q, pass[p].market)
             seller == orders[s].user
  <2>1. MakerBuys(s, q, price, pass[p].simAt)  BY <1>1, <1>6, FillMakerSellTrades
  <2>2. s \in OrderId /\ Open(s) /\ q \in 1 .. Remaining(s) /\ price \in Nat
    <3> HIDE DEF s, q, price
    <3> QED  BY <2>1 DEF MakerBuys
  <2>3. pass[p].market \in Nat /\ q \in Nat
    <3>1. Remaining(s) \in Nat /\ pass[p].market \in Nat
      BY <1>1, <1>3, <2>2, OpenRow DEF IInv, PassRows
    <3>2. QED  BY <2>2, <3>1
  <2>4. ~IsMarket(s) => price >= orders[s].price
    <3> HIDE DEF s, q
    <3> QED  BY <1>1, <2>2, <2>3, MakerPriceFair
  <2> HIDE DEF s, q, price
  <2>5. /\ orders[s].side = "sell" /\ seller \in User
        /\ user' = [user EXCEPT ![seller] = Sold(user[seller], q, price)]
        /\ orders' = [orders EXCEPT ![s] = SellFilled(s, q)]
    BY <2>1 DEF MakerBuys
  <2>6. user'[seller] = Sold(user[seller], q, price) /\ orders'[s] = SellFilled(s, q)
    BY <1>1, <2>2, <2>5
  <2>7. SoldAt(s, q, price)  BY <2>2, <2>4, <2>5, <2>6 DEF SoldAt
  <2>8. QED  BY <1>6, <2>7 DEF s
<1>7. QED  BY <1>2, <1>4, <1>5, <1>6

-----------------------------------------------------------------------------
(* Money *)

\* The money of one account, and of all.
Account(row) == row.cash_balance + row.frozen_cash + row.settling_cash
MoneyOf(rows) == [u \in User |-> Account(rows[u])]
Money(rows) == SumFunctionOnSet(MoneyOf(rows), User)

\* The money that a step adds to the accounts and the house together.
Created == (Money(user') + house'.cash) - (Money(user) + house.cash)

\* Where freezes are whole cents a step adds no money.
KeepsMoney == WholeCents /\ WholeFreezes => Created = 0

\* Accounts are whole numbers of cents.
LEMMA MoneyInt ==
    ASSUME NEW rows \in [User -> UserRows]
    PROVE  /\ \A u \in User : MoneyOf(rows)[u] \in Int /\ Account(rows[u]) \in Int
           /\ Money(rows) \in Int
<1>1. \A u \in User : MoneyOf(rows)[u] \in Int /\ Account(rows[u]) \in Int
  BY DEF MoneyOf, Account, UserRows
<1>2. QED  BY <1>1, SumInt DEF Money

\* One account changes.
LEMMA MoneyMoves ==
    ASSUME NEW old \in [User -> UserRows], NEW new \in [User -> UserRows],
           NEW u \in User, \A v \in User \ {u} : Account(new[v]) = Account(old[v])
    PROVE  Money(new) = Money(old) + Account(new[u]) - Account(old[u])
<1> DEFINE f == MoneyOf(old)
           g == MoneyOf(new)
<1>1. \A v \in User : f[v] \in Int /\ g[v] \in Int  BY MoneyInt
<1>2. \A v \in User \ {u} : g[v] = f[v]  BY DEF MoneyOf
<1>3. f[u] = Account(old[u]) /\ g[u] = Account(new[u])  BY DEF MoneyOf
<1> HIDE DEF f, g
<1>4. SumFunctionOnSet(g, User) = SumFunctionOnSet(f, User) + g[u] - f[u]
  BY <1>1, <1>2, SumUpdate
<1>5. QED  BY <1>3, <1>4 DEF Money, f, g

\* A step that changes one account and the house adds what these add.
LEMMA OneAccount ==
    ASSUME TypeOK, TypeOK', NEW u \in User,
           \A v \in User \ {u} : Account(user'[v]) = Account(user[v])
    PROVE  Created = (Account(user'[u]) + house'.cash) - (Account(user[u]) + house.cash)
<1>1. /\ user \in [User -> UserRows] /\ user' \in [User -> UserRows]
      /\ house.cash \in Int /\ house'.cash \in Int
  BY DEF TypeOK
<1>2. Money(user') = Money(user) + Account(user'[u]) - Account(user[u])
  BY <1>1, MoneyMoves
<1>3. /\ Money(user) \in Int /\ Account(user[u]) \in Int /\ Account(user'[u]) \in Int
  BY <1>1, MoneyInt
<1>4. QED  BY <1>1, <1>2, <1>3 DEF Created

\* The same for two accounts.
LEMMA TwoAccounts ==
    ASSUME TypeOK, TypeOK', NEW u \in User, NEW w \in User, u # w,
           \A v \in User \ {u, w} : Account(user'[v]) = Account(user[v])
    PROVE  Created = (Account(user'[u]) + Account(user'[w]) + house'.cash)
                       - (Account(user[u]) + Account(user[w]) + house.cash)
<1> DEFINE mid == [user EXCEPT ![u] = user'[u]]
<1>1. /\ user \in [User -> UserRows] /\ user' \in [User -> UserRows]
      /\ house.cash \in Int /\ house'.cash \in Int
  BY DEF TypeOK
<1>2. /\ mid \in [User -> UserRows] /\ mid[u] = user'[u]
      /\ \A v \in User \ {u} : mid[v] = user[v]
  BY <1>1
<1> HIDE DEF mid
<1>3. Money(mid) = Money(user) + Account(mid[u]) - Account(user[u])
  <2>1. \A v \in User \ {u} : Account(mid[v]) = Account(user[v])  BY <1>2
  <2>2. QED  BY <1>1, <1>2, <2>1, MoneyMoves
<1>4. Money(user') = Money(mid) + Account(user'[w]) - Account(mid[w])
  <2>1. \A v \in User \ {w} : Account(user'[v]) = Account(mid[v])  BY <1>2
  <2>2. QED  BY <1>1, <1>2, <2>1, MoneyMoves
<1>5. mid[u] = user'[u] /\ mid[w] = user[w]  BY <1>2
<1>6. /\ Money(user) \in Int /\ Account(user[u]) \in Int /\ Account(user'[u]) \in Int
      /\ Account(user[w]) \in Int /\ Account(user'[w]) \in Int
  BY <1>1, MoneyInt
<1>7. QED  BY <1>1, <1>3, <1>4, <1>5, <1>6 DEF Created

\* No account and no money of the house changes.
LEMMA SameMoney ==
    ASSUME TypeOK, \A u \in User : Account(user'[u]) = Account(user[u]),
           house'.cash = house.cash
    PROVE  KeepsMoney
<1>1. MoneyOf(user') = MoneyOf(user)  BY DEF MoneyOf
<1>2. Money(user') = Money(user)  BY <1>1 DEF Money
<1>3. user \in [User -> UserRows] /\ house.cash \in Int  BY DEF TypeOK
<1>4. Money(user) \in Int  BY <1>3, MoneyInt
<1>5. Created = 0  BY <1>2, <1>3, <1>4 DEF Created
<1>6. QED  BY <1>5 DEF KeepsMoney

-----------------------------------------------------------------------------
(* Money, action by action *)

\* What a new order freezes is proportional to its shares.
LEMMA FreezePerShare ==
    ASSUME NEW price \in Nat, NEW qty \in Nat, NEW current \in Nat
    PROVE  FreezeNum(price, qty, current) = qty * FreezeNum(price, 1, current)
<1>1. 1 * current = current /\ 1 * price = price  OBVIOUS
<1>2. qty * current * (RateDen + SlipNum) * (RateDen + FeeNum)
        = qty * (current * (RateDen + SlipNum) * (RateDen + FeeNum))
  BY SMT
<1>3. qty * price * RateDen * (RateDen + FeeNum)
        = qty * (price * RateDen * (RateDen + FeeNum))
  BY SMT
<1>4. QED  BY <1>1, <1>2, <1>3 DEF FreezeNum

\* A freeze moves cash from one column to the other.
LEMMA PlaceBuyMoney ==
    ASSUME IInv, CashBook, TypeOK', NEW u \in User,
           NEW price \in LimitPrices \cup {Market}, NEW qty \in Quantities,
           PlaceBuy(u, price, qty)
    PROVE  KeepsMoney
<1> DEFINE cost == FreezeNum(price, qty, company.current_price)
           D == FreezeDen
           cash == user[u].cash_balance
           fc == user[u].frozen_cash
           n == cash * D - cost
           k == fc * D + cost
           x == Round(n, D)
           y == Round(k, D)
<1>1. /\ TypeOK /\ user \in [User -> UserRows] /\ user' \in [User -> UserRows]
      /\ company.current_price \in MarketPrices
      /\ company.current_price \in Nat /\ house.cash \in Int
  <2>1. /\ TypeOK /\ user \in [User -> UserRows] /\ user' \in [User -> UserRows]
        /\ company \in [current_price : MarketPrices, updated_at : Nat]
        /\ house.cash \in Int
    BY DEF IInv, TypeOK
  <2>2. company.current_price \in MarketPrices  BY <2>1
  <2>3. company.current_price \in Nat  BY <2>2
  <2>4. QED  BY <2>1, <2>2, <2>3
<1>2. price \in Nat /\ qty \in Nat  BY DEF Market
<1>3. cost \in Nat /\ D \in Nat \ {0}  BY <1>1, <1>2, FreezeNumNat
<1>4. cash \in Int /\ fc \in Nat  BY <1>1, HeldCovered DEF UserRows
<1>5. /\ user' = [user EXCEPT ![u].cash_balance = x, ![u].frozen_cash = y,
                              ![u].cooldown_until = 0]
      /\ house' = house
  BY DEF PlaceBuy
<1>6. WholeCents => \E f \in Nat : cost = f * D
  <2> SUFFICES ASSUME WholeCents PROVE \E f \in Nat : cost = f * D  OBVIOUS
  <2>1. PICK f \in Nat : FreezeNum(price, 1, company.current_price) = f * D
    BY <1>1 DEF WholeCents
  <2>2. cost = qty * FreezeNum(price, 1, company.current_price)
    BY <1>1, <1>2, FreezePerShare
  <2>3. qty * (f * D) = (qty * f) * D /\ qty * f \in Nat  BY <1>2, <1>3, SMT
  <2>4. QED  BY <2>1, <2>2, <2>3
<1> HIDE DEF cost, D
<1>7. n \in Int /\ k \in Nat /\ n + k = (cash + fc) * D
  <2>1. cash * D \in Int /\ fc * D \in Nat  BY <1>3, <1>4, SMT
  <2>2. (cash + fc) * D = cash * D + fc * D  BY <1>3, <1>4, SMT
  <2>3. QED  BY <1>3, <2>1, <2>2
<1>8. (\E f \in Nat : cost = f * D) => \E g \in Int : k = g * D
  <2> SUFFICES ASSUME NEW f \in Nat, cost = f * D PROVE \E g \in Int : k = g * D
    OBVIOUS
  <2>1. (fc + f) * D = fc * D + f * D /\ fc + f \in Int  BY <1>3, <1>4, SMT
  <2>2. QED  BY <2>1
<1>9. /\ x \in Int /\ y \in Int
      /\ (\E g \in Int : k = g * D) => x + y = cash + fc
  <2>1. cash + fc \in Int  BY <1>4
  <2> HIDE DEF n, k, cash, fc
  <2>2. QED  BY <1>3, <1>7, <2>1, RoundPairWhole
<1>10. /\ user'[u].cash_balance = x /\ user'[u].frozen_cash = y
       /\ user'[u].settling_cash = user[u].settling_cash
       /\ \A v \in User \ {u} : user'[v] = user[v]
  <2> HIDE DEF x, y
  <2> QED  BY <1>1, <1>5 DEF UserRows
<1>11. Created = (Account(user'[u]) + house'.cash) - (Account(user[u]) + house.cash)
  BY <1>1, <1>10, OneAccount
<1> DEFINE sc == user[u].settling_cash
<1>12. sc \in Int  BY <1>1 DEF UserRows
<1>13. Account(user'[u]) = x + y + sc /\ Account(user[u]) = cash + fc + sc
  BY <1>10 DEF Account
<1>14. WholeCents => x + y = cash + fc  BY <1>6, <1>8, <1>9
<1> HIDE DEF x, y, cash, fc, sc
<1>15. Created = (x + y) - (cash + fc)
  BY <1>1, <1>4, <1>5, <1>9, <1>11, <1>12, <1>13
<1>16. QED  BY <1>4, <1>9, <1>14, <1>15 DEF KeepsMoney

\* Cash given back goes from one column to the other.
LEMMA RefundMoney ==
    ASSUME IInv, CashBook, TypeOK', NEW u \in User, NEW amount \in Int,
           user' = [user EXCEPT ![u] = Refunded(user[u], amount)], house' = house
    PROVE  KeepsMoney
<1>1. TypeOK /\ user \in [User -> UserRows]  BY DEF IInv, TypeOK
<1>2. user'[u] = Refunded(user[u], amount) /\ \A v \in User \ {u} : user'[v] = user[v]
  BY <1>1
<1>3. user[u] \in UserRows  BY <1>1
<1>4. Account(user'[u]) = Account(user[u])
  <2>1. /\ user'[u].settling_cash = user[u].settling_cash
        /\ user'[u].cash_balance = user[u].cash_balance + amount
        /\ user'[u].frozen_cash = user[u].frozen_cash - amount
    BY <1>2, <1>3, RefundedAccount
  <2>2. /\ user[u].settling_cash \in Int /\ user[u].cash_balance \in Int
        /\ user[u].frozen_cash \in Int
    BY <1>3 DEF UserRows
  <2>3. QED  BY <2>1, <2>2 DEF Account
<1>5. \A v \in User : Account(user'[v]) = Account(user[v])  BY <1>2, <1>4
<1>6. QED  BY <1>1, <1>5, SameMoney

\* A cancellation gives back what the order held.
LEMMA CancelOrderMoney ==
    ASSUME IInv, CashBook, TypeOK', NEW o \in OrderId, CancelOrder(o)
    PROVE  KeepsMoney
<1> DEFINE u == orders[o].user
<1>1. TypeOK /\ user \in [User -> UserRows] /\ Open(o) /\ house' = house
  BY DEF IInv, TypeOK, CancelOrder
<1>2. u \in User /\ orders[o].frozen \in Int  BY <1>1, OpenCounts DEF CashBook
<1>3. CASE user' = [user EXCEPT ![u] = Refunded(@, orders[o].frozen)]
  <2>1. user' = [user EXCEPT ![u] = Refunded(user[u], orders[o].frozen)]
    BY <1>1, <1>2, <1>3
  <2> HIDE DEF u
  <2>2. QED  BY <1>1, <1>2, <2>1, RefundMoney
<1>4. CASE user' = user  BY <1>1, <1>4, SameMoney
<1>5. QED  BY <1>3, <1>4 DEF CancelOrder

\* So does a self-trade.
LEMMA PairCancelledMoney ==
    ASSUME IInv, CashBook, TypeOK', NEW b, NEW s, PairCancelled(b, s)
    PROVE  KeepsMoney
<1> DEFINE u == orders[b].user
           amount == orders[b].frozen
<1>1. /\ u \in User /\ b \in OrderId /\ house' = house
      /\ user' = [user EXCEPT ![u] = Refunded(user[u], amount)]
  BY DEF PairCancelled
<1>2. amount \in Int  BY <1>1 DEF CashBook
<1> HIDE DEF u, amount
<1>3. QED  BY <1>1, <1>2, RefundMoney

\* The market maker's sale: what the buyer pays the house gets.
LEMMA FillMakerBuyMoney ==
    ASSUME IInv, CashBook, TypeOK', NEW p \in Pass, FillMakerBuy(p)
    PROVE  KeepsMoney
<1> DEFINE b == pass[p].buy
           q == LesserOf(Remaining(b), pass[p].liquidity)
           price == MakerBuyPrice(b, q, pass[p].market)
           u == orders[b].user
           debit == Debit(q, price)
<1>1. MakerSells(b, q, price)  BY FillMakerBuyTrades
<1>2. TypeOK /\ user \in [User -> UserRows] /\ house.cash \in Int  BY DEF IInv, TypeOK
<1>3. house'.cash = house.cash + debit  BY <1>2 DEF FillMakerBuy, TypeOK
<1> HIDE DEF b, q, price, debit
<1>4. /\ b \in OrderId /\ Open(b) /\ orders[b].side = "buy" /\ u \in User
      /\ q \in 1 .. Remaining(b) /\ price \in Int
      /\ user' = [user EXCEPT ![u] = Paid(user[u], b, q, price)]
  BY <1>1 DEF MakerSells
<1>5. user'[u] = Paid(user[u], b, q, price) /\ \A v \in User \ {u} : user'[v] = user[v]
  BY <1>2, <1>4
<1>6. /\ user'[u].cash_balance \in Int /\ user'[u].frozen_cash \in Int
      /\ (\E f \in Nat : orders[b].frozen = f * Remaining(b)) =>
           user'[u].cash_balance + user'[u].frozen_cash = Wealth(u) - Debit(q, price)
  BY <1>4, <1>5, PaidMoney
<1>7. user'[u].settling_cash = user[u].settling_cash
  <2>1. user[u] \in UserRows  BY <1>2, <1>4
  <2>2. QED  BY <1>5, <2>1, PaidAccount
<1>8. Created = (Account(user'[u]) + house'.cash) - (Account(user[u]) + house.cash)
  BY <1>2, <1>4, <1>5, OneAccount
<1>9. debit \in Int /\ debit = Debit(q, price)
  <2>1. q \in Int  BY <1>4
  <2>2. QED  BY <1>4, <2>1, DebitInt DEF debit
<1> DEFINE w  == user'[u].cash_balance + user'[u].frozen_cash
           w0 == Wealth(u)
           sc == user[u].settling_cash
           whole == \E f \in Nat : orders[b].frozen = f * Remaining(b)
<1>10. w0 \in Int /\ sc \in Int /\ Account(user[u]) = w0 + sc
  <2>1. user[u] \in UserRows  BY <1>2, <1>4
  <2>2. QED  BY <2>1 DEF Wealth, Account, UserRows
<1>11. w \in Int /\ Account(user'[u]) = w + sc  BY <1>6, <1>7 DEF Account
<1>12. whole => w = w0 - debit
  BY <1>6, <1>9
<1>13. WholeFreezes => whole  BY <1>4 DEF WholeFreezes
<1> HIDE DEF w, w0, sc, whole, u
<1>14. Created = w - (w0 - debit)
  BY <1>2, <1>3, <1>8, <1>9, <1>10, <1>11
<1>15. QED  BY <1>9, <1>10, <1>11, <1>12, <1>13, <1>14 DEF KeepsMoney

\* The market maker's purchase: what the house pays settles for the seller.
LEMMA FillMakerSellMoney ==
    ASSUME IInv, TypeOK', NEW p \in Pass, FillMakerSell(p)
    PROVE  KeepsMoney
<1> DEFINE s == pass[p].sell
           q == LesserOf(Remaining(s), pass[p].liquidity)
           price == MakerSellPrice(s, q, pass[p].market)
           u == orders[s].user
           got == Proceeds(q, price)
<1>1. MakerBuys(s, q, price, pass[p].simAt)  BY FillMakerSellTrades
<1>2. TypeOK /\ user \in [User -> UserRows] /\ house.cash \in Int  BY DEF IInv, TypeOK
<1>3. house'.cash = house.cash - got  BY <1>2 DEF FillMakerSell, TypeOK
<1> HIDE DEF s, q, price, got
<1>4. /\ u \in User /\ q \in 1 .. Remaining(s) /\ price \in Nat
      /\ user' = [user EXCEPT ![u] = Sold(user[u], q, price)]
  BY <1>1 DEF MakerBuys
<1>5. user'[u] = Sold(user[u], q, price) /\ \A v \in User \ {u} : user'[v] = user[v]
  BY <1>2, <1>4
<1>6. user[u] \in UserRows  BY <1>2, <1>4
<1>7. /\ user'[u].settling_cash = user[u].settling_cash + Proceeds(q, price)
      /\ user'[u].cash_balance = user[u].cash_balance
      /\ user'[u].frozen_cash = user[u].frozen_cash
  BY <1>5, <1>6, SoldAccount
<1>8. Created = (Account(user'[u]) + house'.cash) - (Account(user[u]) + house.cash)
  BY <1>2, <1>4, <1>5, OneAccount
<1>9. got \in Int /\ got = Proceeds(q, price)
  <2>1. q \in Int /\ price \in Int  BY <1>4
  <2>2. QED  BY <2>1, ProceedsInt DEF got
<1>10. /\ user[u].settling_cash \in Int /\ user[u].cash_balance \in Int
       /\ user[u].frozen_cash \in Int
  BY <1>6 DEF UserRows
<1>11. Account(user'[u]) = Account(user[u]) + got /\ Account(user[u]) \in Int
  BY <1>7, <1>9, <1>10 DEF Account
<1>12. Created = 0  BY <1>2, <1>3, <1>8, <1>9, <1>11
<1>13. QED  BY <1>12 DEF KeepsMoney

\* A fill between two users: the buyer pays, the seller's proceeds settle, and the
\* house keeps the fees and the tax.
LEMMA FillPairMoney ==
    ASSUME IInv, CashBook, TypeOK', NEW p \in Pass, FillPair(p)
    PROVE  KeepsMoney
<1> DEFINE b == pass[p].buy
           s == pass[p].sell
           q == PairQuantity(p)
           price == PairFillPrice(p)
           u == orders[b].user
           v == orders[s].user
           debit == Debit(q, price)
           got == Proceeds(q, price)
<1>1. PairTrade(b, s, q, price, pass[p].simAt)  BY FillPairTrades
<1>2. TypeOK /\ user \in [User -> UserRows] /\ house.cash \in Int  BY DEF IInv, TypeOK
<1>3. house'.cash = house.cash + debit - got  BY <1>2 DEF FillPair, TypeOK
<1> HIDE DEF b, s, q, price, debit, got
<1>4. /\ b \in OrderId /\ Open(b) /\ orders[b].side = "buy" /\ u \in User
      /\ v \in User /\ u # v
      /\ q \in 1 .. Remaining(b) /\ price \in Nat
      /\ user' = [user EXCEPT ![u] = Paid(user[u], b, q, price),
                              ![v] = Sold(user[v], q, price)]
  BY <1>1 DEF PairTrade
<1>5. /\ user'[u] = Paid(user[u], b, q, price) /\ user'[v] = Sold(user[v], q, price)
      /\ \A z \in User \ {u, v} : user'[z] = user[z]
  BY <1>2, <1>4
<1>6. user[u] \in UserRows /\ user[v] \in UserRows  BY <1>2, <1>4
<1>7. /\ user'[u].cash_balance \in Int /\ user'[u].frozen_cash \in Int
      /\ (\E f \in Nat : orders[b].frozen = f * Remaining(b)) =>
           user'[u].cash_balance + user'[u].frozen_cash = Wealth(u) - Debit(q, price)
  <2>1. price \in Int  BY <1>4
  <2>2. QED  BY <1>4, <1>5, <2>1, PaidMoney
<1>8. user'[u].settling_cash = user[u].settling_cash  BY <1>5, <1>6, PaidAccount
<1>9. /\ user'[v].settling_cash = user[v].settling_cash + Proceeds(q, price)
      /\ user'[v].cash_balance = user[v].cash_balance
      /\ user'[v].frozen_cash = user[v].frozen_cash
  BY <1>5, <1>6, SoldAccount
<1>10. Created = (Account(user'[u]) + Account(user'[v]) + house'.cash)
                   - (Account(user[u]) + Account(user[v]) + house.cash)
  BY <1>2, <1>4, <1>5, TwoAccounts
<1>11. /\ debit \in Int /\ debit = Debit(q, price)
       /\ got \in Int /\ got = Proceeds(q, price)
  <2>1. q \in Int /\ price \in Int  BY <1>4
  <2>2. QED  BY <2>1, DebitInt, ProceedsInt DEF debit, got
<1> DEFINE w  == user'[u].cash_balance + user'[u].frozen_cash
           w0 == Wealth(u)
           sc == user[u].settling_cash
           av == Account(user[v])
           whole == \E f \in Nat : orders[b].frozen = f * Remaining(b)
<1>12. w0 \in Int /\ sc \in Int /\ Account(user[u]) = w0 + sc
  BY <1>6 DEF Wealth, Account, UserRows
<1>13. w \in Int /\ Account(user'[u]) = w + sc  BY <1>7, <1>8 DEF Account
<1>14. av \in Int /\ Account(user'[v]) = av + got
  <2>1. /\ user[v].settling_cash \in Int /\ user[v].cash_balance \in Int
        /\ user[v].frozen_cash \in Int
    BY <1>6 DEF UserRows
  <2>2. QED  BY <1>9, <1>11, <2>1 DEF Account
<1>15. whole => w = w0 - debit
  BY <1>7, <1>11
<1>16. WholeFreezes => whole  BY <1>4 DEF WholeFreezes
<1>17. Account(user[v]) = av  OBVIOUS
<1> HIDE DEF w, w0, sc, av, whole, u, v
<1>18. Created = w - (w0 - debit)
  BY <1>2, <1>3, <1>10, <1>11, <1>12, <1>13, <1>14, <1>17
<1>19. QED  BY <1>11, <1>12, <1>13, <1>15, <1>16, <1>18 DEF KeepsMoney

\* The release pays out what has settled.
LEMMA ReleaseDueMoney ==
    ASSUME IInv, ReleaseDue
    PROVE  KeepsMoney
<1> DEFINE lost == [u \in User |-> LesserOf(Amounts({t \in DueTransactions : t.user = u}),
                                            user[u].settling_cash)]
<1>1. TypeOK /\ user \in [User -> UserRows]  BY DEF IInv, TypeOK
<1>2. \A u \in User : lost[u] \in Int
  <2> TAKE u \in User
  <2> DEFINE T == {t \in DueTransactions : t.user = u}
  <2>1. Amounts(T) \in Int
    <3>1. T \in SUBSET unsettled  BY DEF DueTransactions
    <3> HIDE DEF T
    <3>2. QED  BY <1>1, <3>1, SalesAmountInt
  <2>2. user[u].settling_cash \in Int  BY <1>1 DEF UserRows
  <2>3. QED  BY <2>1, <2>2 DEF LesserOf
<1>3. /\ user' = [u \in User |-> [user[u] EXCEPT !.settling_cash = @ - lost[u],
                                                 !.cash_balance  = @ + lost[u]]]
      /\ house' = house
  BY DEF ReleaseDue
<1> HIDE DEF lost
<1>4. ASSUME NEW u \in User PROVE Account(user'[u]) = Account(user[u])
  <2>1. user[u] \in UserRows /\ lost[u] \in Int  BY <1>1, <1>2
  <2>2. /\ user'[u].settling_cash = user[u].settling_cash - lost[u]
        /\ user'[u].cash_balance = user[u].cash_balance + lost[u]
        /\ user'[u].frozen_cash = user[u].frozen_cash
    BY <1>3, <2>1 DEF UserRows
  <2>3. /\ user[u].settling_cash \in Int /\ user[u].cash_balance \in Int
        /\ user[u].frozen_cash \in Int
    BY <2>1 DEF UserRows
  <2>4. QED  BY <2>1, <2>2, <2>3 DEF Account
<1>5. QED  BY <1>1, <1>3, <1>4, SameMoney

\* The house pays the rewards.
LEMMA CreditCashMoney ==
    ASSUME IInv, TypeOK', NEW u \in User, NEW amount \in Rewards, CreditCash(u, amount)
    PROVE  KeepsMoney
<1>1. TypeOK /\ user \in [User -> UserRows] /\ house.cash \in Int /\ amount \in Int
  BY DEF IInv, TypeOK
<1>2. /\ user' = [user EXCEPT ![u].cash_balance = @ + amount]
      /\ house'.cash = house.cash - amount
  BY <1>1 DEF CreditCash, IInv, TypeOK
<1>3. /\ user'[u].cash_balance = user[u].cash_balance + amount
      /\ user'[u].frozen_cash = user[u].frozen_cash
      /\ user'[u].settling_cash = user[u].settling_cash
      /\ \A v \in User \ {u} : user'[v] = user[v]
  BY <1>1, <1>2 DEF UserRows
<1>4. Created = (Account(user'[u]) + house'.cash) - (Account(user[u]) + house.cash)
  BY <1>1, <1>3, OneAccount
<1>5. /\ user[u].settling_cash \in Int /\ user[u].cash_balance \in Int
      /\ user[u].frozen_cash \in Int
  BY <1>1 DEF UserRows
<1>6. Account(user'[u]) = Account(user[u]) + amount /\ Account(user[u]) \in Int
  BY <1>1, <1>3, <1>5 DEF Account
<1>7. Created = 0  BY <1>1, <1>2, <1>4, <1>6
<1>8. QED  BY <1>7 DEF KeepsMoney

\* Placing a sell touches no money.
LEMMA PlaceSellMoney ==
    ASSUME IInv, NEW u \in User, NEW price, NEW qty, PlaceSell(u, price, qty)
    PROVE  KeepsMoney
<1>1. TypeOK /\ user \in [User -> UserRows]  BY DEF IInv, TypeOK
<1>2. user' = [user EXCEPT ![u].cooldown_until = 0] /\ house' = house  BY DEF PlaceSell
<1>3. \A v \in User : /\ user'[v].cash_balance = user[v].cash_balance
                      /\ user'[v].frozen_cash = user[v].frozen_cash
                      /\ user'[v].settling_cash = user[v].settling_cash
  BY <1>1, <1>2 DEF UserRows
<1>4. \A v \in User : Account(user'[v]) = Account(user[v])  BY <1>3 DEF Account
<1>5. QED  BY <1>1, <1>2, <1>4, SameMoney

\* Orders give no more than they hold, and the account holds that.
LEMMA GivenHeld ==
    ASSUME TypeOK, OrderLife, CashBook, NEW u, NEW S \in SUBSET PendingBuys(u)
    PROVE  GivenBy(S) <= Frozen(orders, u)
<1> DEFINE g == HeldBy(orders, u)
<1>1. \A o \in PendingBuys(u) : /\ o \in OrderId /\ g[o] = orders[o].frozen
                                /\ Gives(o) <= orders[o].frozen
  <2> TAKE o \in PendingBuys(u)
  <2>1. o \in OrderId /\ orders[o].user = u /\ orders[o].side = "buy"
        /\ Gives(o) <= orders[o].frozen
    BY PendingGives
  <2>2. QED  BY <2>1 DEF HeldBy, HeldRow
<1>2. \A o \in OrderId : g[o] \in Nat  BY DEF HeldBy, HeldRow, CashBook
<1>3. /\ IsFiniteSet(S) /\ GivenBy(S) = SumFunctionOnSet(GivesOf, S)
      /\ \A o \in S : GivesOf[o] = Gives(o) /\ GivesOf[o] \in Nat
      /\ GivenBy(S) \in Nat
  BY GivenBySum
<1>4. S \in SUBSET OrderId  BY <1>1
<1>5. \A o \in S : GivesOf[o] <= g[o]  BY <1>1, <1>3
<1> HIDE DEF g
<1>6. SumFunctionOnSet(GivesOf, S) <= SumFunctionOnSet(g, S)
  <2>1. \A o \in S : GivesOf[o] \in Int /\ g[o] \in Int /\ GivesOf[o] <= g[o]
    BY <1>2, <1>3, <1>4, <1>5
  <2>2. QED  BY <1>3, <2>1, SumLess
<1>7. SumFunctionOnSet(g, S) <= SumFunctionOnSet(g, OrderId)
  BY <1>2, <1>4, OrdersFinite, SumSubset
<1>8. SumFunctionOnSet(g, S) \in Nat /\ SumFunctionOnSet(g, OrderId) \in Nat
  <2>1. \A o \in S : g[o] \in Nat  BY <1>2, <1>4
  <2>2. QED  BY <1>2, <1>3, <2>1, OrdersFinite, SumNat
<1>9. QED  BY <1>3, <1>6, <1>7, <1>8 DEF Frozen, g

\* A penalty takes back no more than the account has frozen, and whole cents where
\* the freezes are.
LEMMA RecoveredHeld ==
    ASSUME TypeOK, OrderLife, CashBook, NEW u \in User, NEW short \in Nat,
           NEW k, k = user[u].frozen_cash * Scale(u, short) - Recovered(u, short)
    PROVE  /\ k \in Nat
           /\ WholeFreezes => \E g \in Int : k = g * Scale(u, short)
<1> DEFINE fc == user[u].frozen_cash
           G == Givers(u, short)
<1>1. fc \in Nat /\ fc >= Frozen(orders, u) /\ Frozen(orders, u) \in Nat
  BY HeldCovered
<1>2. CASE Reduced(u, short) = {}
  <2>1. Scale(u, short) = 1 /\ Recovered(u, short) = GivenBy(G)
        /\ G \in SUBSET PendingBuys(u)
    BY <1>2, RecoveredTerms
  <2> HIDE DEF fc, G
  <2>2. GivenBy(G) \in Nat /\ GivenBy(G) <= Frozen(orders, u)
    BY <2>1, GivenBySum, GivenHeld
  <2>3. k = fc * 1 - GivenBy(G)  BY <2>1 DEF fc
  <2>4. k \in Nat  BY <1>1, <2>2, <2>3
  <2>5. k = k * Scale(u, short) /\ k \in Int  BY <2>1, <2>4
  <2>6. QED  BY <2>4, <2>5
<1>3. CASE \E r \in G : Reduced(u, short) = {r}
  <2>1. PICK r \in G : Reduced(u, short) = {r}  BY <1>3
  <2> DEFINE m == FreezeShares(r)
             qty == CancelQuantity(r, short)
             p == FreezePrice(r)
             S == G \ {r}
             held == orders[r].frozen
  <2>2. Scale(u, short) = m /\ Recovered(u, short) = m * GivenBy(S) + qty * p
    BY <2>1, RecoveredTerms
  <2>3. /\ m \in Nat \ {0} /\ qty \in Nat /\ p \in Nat /\ held \in Nat
        /\ r \in PendingBuys(u) /\ r \in OrderId /\ Open(r) /\ orders[r].side = "buy"
    BY GiverTerms, PendingGives
  <2>4. qty * p <= held * m
    <3>1. r \in Reduced(u, short)  BY <2>1
    <3>2. QED  BY <3>1, ReducedTerms
  <2>5. GivenBy(S) \in Nat /\ GivenBy(S) + held <= Frozen(orders, u)
    <3>1. S \in SUBSET PendingBuys(u) /\ r \notin S  BY RecoveredTerms
    <3> HIDE DEF S
    <3>2. QED  BY <2>3, <3>1, GivenBySum, GivenWithin
  <2>6. WholeFreezes => \E h \in Int : qty * p = h * m
    <3> SUFFICES ASSUME WholeFreezes PROVE \E h \in Int : qty * p = h * m  OBVIOUS
    <3>1. CASE IsMarket(r)
      <4>1. m = Remaining(r) /\ p = held  BY <3>1 DEF FreezeShares, FreezePrice
      <4>2. PICK f \in Nat : held = f * m  BY <2>3, <4>1 DEF WholeFreezes
      <4> HIDE DEF m, qty, p, held
      <4>3. qty * (f * m) = (qty * f) * m /\ qty * f \in Int  BY <2>3, SMT
      <4>4. QED  BY <4>1, <4>2, <4>3
    <3>2. CASE ~IsMarket(r)
      <4>1. m = 1  BY <3>2 DEF FreezeShares
      <4> HIDE DEF m, qty, p
      <4>2. qty * p \in Int  BY <2>3, SMT
      <4>3. qty * p = (qty * p) * m  BY <4>1, <4>2
      <4>4. QED  BY <4>2, <4>3
    <3>3. QED  BY <3>1, <3>2
  <2> DEFINE a == GivenBy(S)
             c == qty * p
  <2>7. k = fc * m - (m * a + c)  BY <2>2
  <2>8. c \in Nat /\ c <= held * m  BY <2>3, <2>4, SMT
  <2>9. a \in Nat /\ a + held <= fc  BY <1>1, <2>3, <2>5
  <2>10. WholeFreezes => \E h \in Int : c = h * m  BY <2>6
  <2>11. m \in Nat \ {0} /\ held \in Nat  BY <2>3
  <2> HIDE DEF a, c, m, held, fc
  <2>12. fc * m - (m * a + c) = (fc - a - held) * m + (held * m - c)
    BY <1>1, <2>8, <2>9, <2>11, SMT DEF fc
  <2>13. k \in Nat
    <3>1. fc \in Nat  BY <1>1 DEF fc
    <3>2. fc - a - held \in Nat  BY <2>9, <2>11, <3>1
    <3> DEFINE d == fc - a - held
    <3>3. d \in Nat  BY <3>2
    <3> HIDE DEF d
    <3>4. d * m \in Nat /\ held * m \in Nat  BY <2>11, <3>3, SMT
    <3>5. k = d * m + (held * m - c)  BY <2>7, <2>12 DEF d
    <3>6. QED  BY <2>8, <3>4, <3>5
  <2>14. WholeFreezes => \E g \in Int : k = g * m
    <3> SUFFICES ASSUME NEW h \in Int, c = h * m PROVE \E g \in Int : k = g * m
      BY <2>10
    <3>1. fc \in Nat  BY <1>1 DEF fc
    <3>2. (fc - a - h) * m = fc * m - (m * a + h * m) /\ fc - a - h \in Int
      BY <2>9, <2>11, <3>1, SMT
    <3>3. k = (fc - a - h) * m  BY <2>7, <3>2
    <3>4. QED  BY <3>2, <3>3
  <2>15. QED  BY <2>2, <2>13, <2>14
<1>4. QED  BY <1>2, <1>3, OneReduced

\* What a penalty takes from the account the house gets.
LEMMA ApplyPenaltyMoney ==
    ASSUME IInv, CashBook, TypeOK', NEW u \in User, NEW deduction \in Deductions,
           NEW duration \in Durations, ApplyPenalty(u, deduction, duration)
    PROVE  KeepsMoney
<1> DEFINE short == Shortfall(user[u].cash_balance, deduction)
           row == user[u]
           back == Recovered(u, short)
           d == Scale(u, short)
           cash == row.cash_balance
           fc == row.frozen_cash
           n == (cash - deduction) * d + back
           k == fc * d - back
<1> USE PenaltyAssumption
<1>1. /\ TypeOK /\ OrderLife /\ user \in [User -> UserRows] /\ row \in UserRows
      /\ house.cash \in Int /\ deduction \in Nat
  BY DEF IInv, TypeOK
<1>2. cash \in Int /\ fc \in Int  BY <1>1 DEF UserRows
<1>3. short \in Nat  BY <1>1, <1>2, ShortfallNat
<1>4. /\ user'[u].settling_cash = row.settling_cash
      /\ \A v \in User \ {u} : user'[v] = user[v]
      /\ Affordable(u, short)
      /\ user'[u].cash_balance = Penalised(row, back, d, deduction).cash_balance
      /\ user'[u].frozen_cash = Penalised(row, back, d, deduction).frozen_cash
  BY PenaltyRows
<1>5. house'.cash = house.cash + deduction  BY <1>1 DEF ApplyPenalty, TypeOK, IInv
<1> HIDE DEF short
<1>6. d \in Nat \ {0} /\ back \in Nat  BY <1>1, <1>3, <1>4, EnoughRecovered
<1>7. k \in Nat /\ (WholeFreezes => \E g \in Int : k = g * d)
  <2> HIDE DEF k
  <2>1. k = user[u].frozen_cash * Scale(u, short) - Recovered(u, short)  BY DEF k
  <2>2. QED  BY <1>1, <1>3, <2>1, RecoveredHeld
<1> HIDE DEF row, back, d
<1>8. user'[u].cash_balance = Round(n, d) /\ user'[u].frozen_cash = Round(k, d)
  <2> HIDE DEF cash, fc, n, k
  <2>1. /\ Penalised(row, back, d, deduction).cash_balance
             = Round((row.cash_balance - deduction) * d + back, d)
        /\ Penalised(row, back, d, deduction).frozen_cash
             = Round(row.frozen_cash * d - back, d)
    BY <1>1, <1>6, PenalisedAccount
  <2>2. n = (row.cash_balance - deduction) * d + back /\ k = row.frozen_cash * d - back
    BY DEF n, k, cash, fc
  <2>3. QED  BY <1>4, <2>1, <2>2
<1> HIDE DEF cash, fc
<1>9. n \in Int /\ n + k = (cash - deduction + fc) * d
  <2>1. (cash - deduction) * d \in Int /\ fc * d \in Int  BY <1>1, <1>2, <1>6, SMT
  <2>2. (cash - deduction + fc) * d = (cash - deduction) * d + fc * d
    BY <1>1, <1>2, <1>6, SMT
  <2>3. QED  BY <1>6, <2>1, <2>2
<1> DEFINE a == cash - deduction + fc
           x == Round(n, d)
           y == Round(k, d)
<1>10. a \in Int  BY <1>1, <1>2
<1>11. n + k = a * d  BY <1>9
<1> HIDE DEF n, k, a
<1>12. /\ x \in Int /\ y \in Int
       /\ (\E g \in Int : k = g * d) => x + y = a
  BY <1>6, <1>7, <1>9, <1>10, <1>11, RoundPairWhole
<1>13. Created = (Account(user'[u]) + house'.cash) - (Account(user[u]) + house.cash)
  BY <1>1, <1>4, OneAccount
<1>14. /\ user'[u].cash_balance = x /\ user'[u].frozen_cash = y
       /\ user[u].cash_balance = cash /\ user[u].frozen_cash = fc
       /\ user'[u].settling_cash = user[u].settling_cash
       /\ user[u].settling_cash \in Int
  <2>1. row.settling_cash \in Int  BY <1>1 DEF UserRows
  <2>2. QED  BY <1>4, <1>8, <2>1 DEF row, cash, fc
<1> HIDE DEF x, y
<1>15. /\ Account(user'[u]) = x + y + user[u].settling_cash
       /\ Account(user[u]) = cash + fc + user[u].settling_cash
  BY <1>14 DEF Account
<1>16. a = cash - deduction + fc  BY DEF a
<1>17. Created = x + y - a
  BY <1>1, <1>2, <1>5, <1>12, <1>13, <1>14, <1>15, <1>16
<1>18. WholeFreezes => x + y = a  BY <1>7, <1>12
<1>19. QED  BY <1>10, <1>12, <1>17, <1>18 DEF KeepsMoney

\* Every step of the exchange and every penalty.
LEMMA NextMoney ==
    ASSUME LedgerInv, [PenaltyNext]_penaltyVars
    PROVE  KeepsMoney
<1>1. IInv /\ TypeOK /\ CashBook /\ TypeOK'
  <2>1. LedgerInv'  BY LedgerNext
  <2>2. QED  BY <2>1 DEF LedgerInv, IInv
<1>2. ASSUME user' = user, house' = house PROVE KeepsMoney
  BY <1>1, <1>2, SameMoney
<1>3. ASSUME NEW u \in User, Place(u) PROVE KeepsMoney
  <2>1. PICK price \in LimitPrices \cup {Market}, qty \in Quantities :
          PlaceBuy(u, price, qty) \/ PlaceSell(u, price, qty)
    BY <1>3 DEF Place
  <2>2. QED  BY <1>1, <2>1, PlaceBuyMoney, PlaceSellMoney
<1>4. ASSUME NEW o \in OrderId, CancelOrder(o) PROVE KeepsMoney
  BY <1>1, <1>4, CancelOrderMoney
<1>5. ASSUME NEW p \in Pass, PassStep(p) PROVE KeepsMoney
  <2>1. CASE CancelSelfTrade(p)
    <3>1. PairCancelled(pass[p].buy, pass[p].sell)
      BY <1>1, <2>1, CancelSelfTradeCancels
    <3>2. QED  BY <1>1, <3>1, PairCancelledMoney
  <2>2. CASE FillPair(p)  BY <1>1, <2>2, FillPairMoney
  <2>3. CASE FillMakerBuy(p)  BY <1>1, <2>3, FillMakerBuyMoney
  <2>4. CASE FillMakerSell(p)  BY <1>1, <2>4, FillMakerSellMoney
  <2>5. CASE PeekBuy(p) \/ PeekSell(p) \/ PeekMaker(p) \/ LeaveBook(p) \/ Raise(p)
    BY <1>2, <2>5 DEF PeekBuy, PeekSell, PeekMaker, LeaveBook, Raise
  <2>6. QED  BY <1>5, <2>1, <2>2, <2>3, <2>4, <2>5 DEF PassStep
<1>6. ASSUME NEW p \in Pass, StartPass(p) \/ Fail(p) PROVE KeepsMoney
  BY <1>2, <1>6 DEF StartPass, Fail
<1>7. ASSUME ReleaseDue PROVE KeepsMoney  BY <1>1, <1>7, ReleaseDueMoney
<1>8. ASSUME NEW price \in MarketPrices, UpdatePrice(price) PROVE KeepsMoney
  BY <1>2, <1>8 DEF UpdatePrice
<1>9. ASSUME NEW u \in User, NEW amount \in Rewards, CreditCash(u, amount)
      PROVE  KeepsMoney
  BY <1>1, <1>9, CreditCashMoney
<1>10. ASSUME Clock PROVE KeepsMoney  BY <1>2, <1>10 DEF Clock
<1>11. ASSUME NEW u \in User, NEW deduction \in Deductions, NEW duration \in Durations,
              ApplyPenalty(u, deduction, duration)
       PROVE  KeepsMoney
  BY <1>1, <1>11, ApplyPenaltyMoney
<1>12. ASSUME UNCHANGED penaltyVars PROVE KeepsMoney
  BY <1>2, <1>12 DEF penaltyVars, vars
<1>13. CASE PenaltyNext
  BY <1>3, <1>4, <1>5, <1>6, <1>7, <1>8, <1>9, <1>10, <1>11, <1>13 DEF PenaltyNext
<1>14. QED  BY <1>12, <1>13

-----------------------------------------------------------------------------
(* What was paid in *)

PaidIn == SumFunction([u \in User |-> InitCash])

\* The sums of CashConserved.
LEMMA MoneySum ==
    /\ SumFunction([u \in User |-> user[u].cash_balance + user[u].frozen_cash
                                     + user[u].settling_cash]) = Money(user)
    /\ PaidIn \in Int
<1> DEFINE f == [u \in User |-> user[u].cash_balance + user[u].frozen_cash
                                  + user[u].settling_cash]
           g == [u \in User |-> InitCash]
<1>1. DOMAIN f = User /\ f = MoneyOf(user)  BY DEF MoneyOf, Account
<1>2. DOMAIN g = User /\ \A u \in User : g[u] \in Int  OBVIOUS
<1> HIDE DEF f, g
<1>3. SumFunction(f) = Money(user)  BY <1>1 DEF SumFunction, Money
<1>4. SumFunctionOnSet(g, User) \in Int  BY <1>2, SumInt
<1>5. SumFunction(g) \in Int  BY <1>2, <1>4 DEF SumFunction
<1>6. QED  BY <1>3, <1>5 DEF f, g, PaidIn

\* The same in the next state.
LEMMA MoneySumNext ==
    SumFunction([u \in User |-> user'[u].cash_balance + user'[u].frozen_cash
                                  + user'[u].settling_cash]) = Money(user')
<1> DEFINE f == [u \in User |-> user'[u].cash_balance + user'[u].frozen_cash
                                  + user'[u].settling_cash]
<1>1. DOMAIN f = User /\ f = MoneyOf(user')  BY DEF MoneyOf, Account
<1> HIDE DEF f
<1>2. SumFunction(f) = Money(user')  BY <1>1 DEF SumFunction, Money
<1>3. QED  BY <1>2 DEF f

\* What a step adds, counted from what was paid in.
LEMMA MoneyStep ==
    ASSUME TypeOK, TypeOK', KeepsMoney
    PROVE  WholeCents /\ WholeFreezes /\ CashConserved => CashConserved'
<1> DEFINE m == Money(user) + house.cash
           w == Money(user') + house'.cash
<1>1. m \in Int /\ w \in Int
  <2>1. /\ user \in [User -> UserRows] /\ user' \in [User -> UserRows]
        /\ house.cash \in Int /\ house'.cash \in Int
    BY DEF TypeOK
  <2>2. Money(user) \in Int /\ Money(user') \in Int  BY <2>1, MoneyInt
  <2>3. QED  BY <2>1, <2>2
<1>2. Created = w - m  BY DEF Created
<1>3. /\ CashConserved <=> m = PaidIn
      /\ CashConserved' <=> w = PaidIn
  <2>1. CashConserved <=> m = PaidIn  BY MoneySum DEF CashConserved, PaidIn
  <2>2. CashConserved' <=> w = PaidIn  BY MoneySumNext DEF CashConserved, PaidIn
  <2>3. QED  BY <2>1, <2>2
<1>4. PaidIn \in Int  BY MoneySum
<1> HIDE DEF m, w
<1>5. WholeCents /\ WholeFreezes => w - m = 0
  BY <1>2 DEF KeepsMoney
<1>6. QED  BY <1>1, <1>3, <1>4, <1>5

\* At first the money is what was paid in.
LEMMA MoneyInit == PenaltyInit => CashConserved
<1> SUFFICES ASSUME PenaltyInit PROVE CashConserved  OBVIOUS
<1>1. \A u \in User : user[u].cash_balance = InitCash /\ user[u].frozen_cash = 0
                      /\ user[u].settling_cash = 0
  BY DEF PenaltyInit, Init
<1>2. house.cash = 0  BY DEF PenaltyInit, Init
<1>3. \A u \in User : MoneyOf(user)[u] = InitCash  BY <1>1 DEF MoneyOf, Account
<1>4. MoneyOf(user) = [u \in User |-> InitCash]  BY <1>3 DEF MoneyOf
<1>5. DOMAIN [u \in User |-> InitCash] = User  OBVIOUS
<1>6. Money(user) = PaidIn
  <2> DEFINE g == [u \in User |-> InitCash]
  <2>1. DOMAIN g = User /\ MoneyOf(user) = g  BY <1>4
  <2> HIDE DEF g
  <2>2. SumFunctionOnSet(g, User) = SumFunction(g)  BY <2>1 DEF SumFunction
  <2>3. Money(user) = SumFunction(g)  BY <2>1, <2>2 DEF Money
  <2>4. QED  BY <2>3 DEF PaidIn, g
<1>7. Money(user) + house.cash = PaidIn  BY <1>2, <1>6, MoneySum
<1>8. CashConserved  BY <1>7, MoneySum DEF CashConserved, PaidIn
<1>9. QED  BY <1>8

-----------------------------------------------------------------------------
(* What a step writes to a row *)

\* The freeze of a new buy.
NewFreeze(price, qty) == Round(FreezeNum(price, qty, company.current_price), FreezeDen)

\* A row stays, is cancelled, filled, created or withdrawn for a penalty.
RowWritten(o) ==
    \/ orders'[o] = orders[o]
    \/ Open(o) /\ orders'[o] = Cancelled(o)
    \/ /\ Open(o) /\ orders[o].side = "sell"
       /\ \E q : orders'[o] = SellFilled(o, q)
    \/ /\ Open(o) /\ orders[o].side = "buy"
       /\ \E q \in 1 .. Remaining(o) : orders'[o] = BuyFilled(o, q)
    \/ \E u \in User, price \in LimitPrices \cup {Market}, qty \in Quantities :
          \/ orders'[o] = NewOrder(u, "sell", price, qty, 0)
          \/ orders'[o] = NewOrder(u, "buy", price, qty, NewFreeze(price, qty))
    \/ /\ struck' # struck
       /\ \E u \in User, short \in Nat : /\ o \in Givers(u, short)
                                         /\ orders'[o] = Withdrawn(o, short)

\* There is no other way.
LEMMA RowsWritten ==
    ASSUME LedgerInv, [PenaltyNext]_penaltyVars, NEW o \in OrderId
    PROVE  RowWritten(o)
<1>1. /\ IInv /\ TypeOK /\ CashBook /\ orders \in [OrderId -> OrderRows]
      /\ struck \in [User -> Nat]
  BY DEF LedgerInv, IInv, TypeOK, CashBook
<1>2. ASSUME orders' = orders PROVE RowWritten(o)  BY <1>2 DEF RowWritten
<1>3. ASSUME NEW u \in User, Place(u) PROVE RowWritten(o)
  <2>1. PICK price \in LimitPrices \cup {Market}, qty \in Quantities :
          PlaceBuy(u, price, qty) \/ PlaceSell(u, price, qty)
    BY <1>3 DEF Place
  <2> DEFINE buy == NewOrder(u, "buy", price, qty, NewFreeze(price, qty))
             sell == NewOrder(u, "sell", price, qty, 0)
  <2>2. \/ orders' = [orders EXCEPT ![placed + 1] = buy]
        \/ orders' = [orders EXCEPT ![placed + 1] = sell]
    BY <2>1 DEF PlaceBuy, PlaceSell, NewFreeze
  <2> HIDE DEF buy, sell
  <2>3. orders'[o] \in {orders[o], buy, sell}  BY <1>1, <2>2
  <2>4. QED  BY <2>3 DEF RowWritten, buy, sell
<1>4. ASSUME NEW x \in OrderId, CancelOrder(x) PROVE RowWritten(o)
  <2>1. Open(x) /\ orders' = [orders EXCEPT ![x] = Cancelled(x)]  BY <1>4 DEF CancelOrder
  <2>2. QED  BY <1>1, <2>1 DEF RowWritten
<1>5. ASSUME NEW p \in Pass, PassStep(p) PROVE RowWritten(o)
  <2> DEFINE b == pass[p].buy
             s == pass[p].sell
  <2>1. CASE CancelSelfTrade(p)
    <3>1. PairCancelled(b, s)  BY <1>1, <2>1, CancelSelfTradeCancels
    <3> HIDE DEF b, s
    <3>2. /\ b \in OrderId /\ Open(b) /\ s \in OrderId /\ Open(s)
          /\ orders' = [orders EXCEPT ![b] = Cancelled(b), ![s] = Cancelled(s)]
      BY <3>1 DEF PairCancelled
    <3>3. QED  BY <1>1, <3>2 DEF RowWritten
  <2>2. CASE FillPair(p)
    <3> DEFINE q == PairQuantity(p)
               price == PairFillPrice(p)
               simAt == pass[p].simAt
    <3>1. PairTrade(b, s, q, price, simAt)  BY <1>1, <2>2, FillPairTrades
    <3> HIDE DEF b, s, q, price, simAt
    <3>2. /\ b \in OrderId /\ Open(b) /\ orders[b].side = "buy" /\ q \in 1 .. Remaining(b)
          /\ s \in OrderId /\ Open(s) /\ orders[s].side = "sell"
          /\ orders' = [orders EXCEPT ![b] = BuyFilled(b, q), ![s] = SellFilled(s, q)]
      BY <3>1 DEF PairTrade
    <3>3. QED  BY <1>1, <3>2 DEF RowWritten
  <2>3. CASE FillMakerBuy(p)
    <3> DEFINE q == LesserOf(Remaining(b), pass[p].liquidity)
               price == MakerBuyPrice(b, q, pass[p].market)
    <3>1. MakerSells(b, q, price)  BY <1>1, <2>3, FillMakerBuyTrades
    <3> HIDE DEF b, q, price
    <3>2. /\ b \in OrderId /\ Open(b) /\ orders[b].side = "buy" /\ q \in 1 .. Remaining(b)
          /\ orders' = [orders EXCEPT ![b] = BuyFilled(b, q)]
      BY <3>1 DEF MakerSells
    <3>3. QED  BY <1>1, <3>2 DEF RowWritten
  <2>4. CASE FillMakerSell(p)
    <3> DEFINE q == LesserOf(Remaining(s), pass[p].liquidity)
               price == MakerSellPrice(s, q, pass[p].market)
               simAt == pass[p].simAt
    <3>1. MakerBuys(s, q, price, simAt)  BY <1>1, <2>4, FillMakerSellTrades
    <3> HIDE DEF s, q, price, simAt
    <3>2. /\ s \in OrderId /\ Open(s) /\ orders[s].side = "sell"
          /\ orders' = [orders EXCEPT ![s] = SellFilled(s, q)]
      BY <3>1 DEF MakerBuys
    <3>3. QED  BY <1>1, <3>2 DEF RowWritten
  <2>5. CASE PeekBuy(p) \/ PeekSell(p) \/ PeekMaker(p) \/ LeaveBook(p) \/ Raise(p)
    BY <1>2, <2>5 DEF PeekBuy, PeekSell, PeekMaker, LeaveBook, Raise, book
  <2>6. QED  BY <1>5, <2>1, <2>2, <2>3, <2>4, <2>5 DEF PassStep
<1>6. ASSUME NEW p \in Pass, StartPass(p) \/ Fail(p) PROVE RowWritten(o)
  BY <1>2, <1>6 DEF StartPass, Fail, book
<1>7. ASSUME ReleaseDue PROVE RowWritten(o)  BY <1>2, <1>7 DEF ReleaseDue, book
<1>8. ASSUME NEW price \in MarketPrices, UpdatePrice(price) PROVE RowWritten(o)
  BY <1>2, <1>8 DEF UpdatePrice, book
<1>9. ASSUME NEW u \in User, NEW amount \in Rewards, CreditCash(u, amount)
      PROVE  RowWritten(o)
  BY <1>2, <1>9 DEF CreditCash, book
<1>10. ASSUME Clock PROVE RowWritten(o)  BY <1>2, <1>10 DEF Clock, book
<1>11. ASSUME NEW u \in User, NEW deduction \in Deductions, NEW duration \in Durations,
              ApplyPenalty(u, deduction, duration)
       PROVE  RowWritten(o)
  <2> DEFINE short == Shortfall(user[u].cash_balance, deduction)
  <2>1. Withdrawal(u, short)  BY <1>1, <1>11, PenaltyRows
  <2>2. short \in Nat
    <3>1. user[u].cash_balance \in Int  BY <1>1 DEF TypeOK, UserRows
    <3>2. deduction \in Nat  BY PenaltyAssumption
    <3>3. QED  BY <3>1, <3>2, ShortfallNat
  <2>3. struck' # struck
    <3>1. struck' = [struck EXCEPT ![u] = @ + 1]  BY <1>11 DEF ApplyPenalty
    <3>2. struck'[u] = struck[u] + 1 /\ struck[u] \in Nat  BY <1>1, <3>1
    <3>3. QED  BY <3>2
  <2> HIDE DEF short
  <2>4. CASE o \in Givers(u, short)
    <3>1. orders'[o] = Withdrawn(o, short)  BY <2>1, <2>4 DEF Withdrawal
    <3>2. QED  BY <2>2, <2>3, <2>4, <3>1 DEF RowWritten
  <2>5. CASE o \notin Givers(u, short)
    <3>1. orders'[o] = orders[o]  BY <2>1, <2>5 DEF Withdrawal
    <3>2. QED  BY <3>1 DEF RowWritten
  <2>6. QED  BY <2>4, <2>5
<1>12. ASSUME UNCHANGED penaltyVars PROVE RowWritten(o)
  BY <1>2, <1>12 DEF penaltyVars, vars, book
<1>13. CASE PenaltyNext
  BY <1>3, <1>4, <1>5, <1>6, <1>7, <1>8, <1>9, <1>10, <1>11, <1>13 DEF PenaltyNext
<1>14. QED  BY <1>12, <1>13

-----------------------------------------------------------------------------
(* Whole cents *)

\* A row that freezes whole cents a share.
WholeRow(row) ==
    row.side = "buy" /\ row.status \in OpenStatuses =>
        \E f \in Nat : row.frozen = f * (row.quantity - row.filled)

\* What a new order freezes, share by share.
LEMMA NewFreezeWhole ==
    ASSUME IInv, WholeCents,
           NEW price \in LimitPrices \cup {Market}, NEW qty \in Quantities
    PROVE  \E f \in Nat : /\ FreezeNum(price, 1, company.current_price) = f * FreezeDen
                          /\ NewFreeze(price, qty) = f * qty
<1> DEFINE current == company.current_price
           cost == FreezeNum(price, qty, current)
           D == FreezeDen
<1>1. current \in MarketPrices /\ current \in Nat
  <2>1. company \in [current_price : MarketPrices, updated_at : Nat]
    BY DEF IInv, TypeOK
  <2>2. current \in MarketPrices  BY <2>1
  <2>3. current \in Nat  BY <2>2
  <2>4. QED  BY <2>2, <2>3
<1>2. price \in Nat /\ qty \in Nat  BY DEF Market
<1>3. D \in Nat \ {0}  BY <1>1, <1>2, FreezeNumNat
<1>4. PICK f \in Nat : FreezeNum(price, 1, current) = f * D
  BY <1>1 DEF WholeCents
<1>5. cost = qty * FreezeNum(price, 1, current)  BY <1>1, <1>2, FreezePerShare
<1>6. NewFreeze(price, qty) = Round(cost, D)  BY DEF NewFreeze
<1> HIDE DEF cost, D, current
<1>7. cost = qty * (f * D)  BY <1>4, <1>5
<1>8. qty * (f * D) = (f * qty) * D /\ f * qty \in Int  BY <1>2, <1>3, SMT
<1>9. Round((f * qty) * D, D) = f * qty  BY <1>3, <1>8, RoundExact
<1>10. QED  BY <1>4, <1>6, <1>7, <1>8, <1>9 DEF D, current

\* A fill leaves what the rest of the shares froze.
LEMMA BuyFilledWhole ==
    ASSUME IInv, WholeFreezes, NEW b \in OrderId, Open(b), orders[b].side = "buy",
           NEW q \in 1 .. Remaining(b)
    PROVE  \E f \in Nat : BuyFilled(b, q).frozen
                            = f * (BuyFilled(b, q).quantity - BuyFilled(b, q).filled)
<1> DEFINE rest == Remaining(b)
           row == BuyFilled(b, q)
           fr == orders[b].frozen
<1>1. /\ orders[b] \in OrderRows /\ rest \in Nat \ {0}
      /\ orders[b].quantity \in Nat /\ orders[b].filled \in Nat
      /\ rest = orders[b].quantity - orders[b].filled
  BY OpenRow DEF IInv
<1>2. PICK f \in Nat : fr = f * rest  BY DEF WholeFreezes
<1>3. /\ row.frozen = Round(fr * (rest - q), rest)
      /\ row.quantity = orders[b].quantity /\ row.filled = orders[b].filled + q
  BY <1>1 DEF BuyFilled, OrderRows
<1>4. q \in Nat /\ rest - q \in Nat  BY <1>1
<1>5. row.quantity - row.filled = rest - q  BY <1>1, <1>3, <1>4
<1> HIDE DEF rest, row, fr
<1>6. (f * rest) * (rest - q) = (f * (rest - q)) * rest /\ f * (rest - q) \in Int
  <2> DEFINE l == rest - q
  <2>1. l \in Nat  BY <1>4
  <2> HIDE DEF l
  <2>2. (f * rest) * l = (f * l) * rest /\ f * l \in Int  BY <1>1, <2>1, SMT
  <2>3. QED  BY <2>2 DEF l
<1>7. Round((f * (rest - q)) * rest, rest) = f * (rest - q)
  BY <1>1, <1>6, RoundExact
<1>8. row.frozen = f * (rest - q)  BY <1>2, <1>3, <1>6, <1>7
<1>9. QED  BY <1>5, <1>8 DEF row

\* Steps of the exchange keep freezes whole; a penalty may not, since it gives
\* back the limit price without the fee that was frozen on it.
LEMMA WholeStep ==
    ASSUME LedgerInv, WholeCents, WholeFreezes,
           [PenaltyNext]_penaltyVars, struck' = struck
    PROVE  WholeFreezes'
<1>1. IInv /\ TypeOK /\ OrderLife  BY DEF LedgerInv, IInv
<1>2. ASSUME NEW o \in OrderId PROVE WholeRow(orders'[o])
  <2> USE DEF WholeRow
  <2>1. CASE orders'[o] = orders[o]
    BY <2>1 DEF WholeFreezes, Open, Remaining
  <2>2. ASSUME Open(o) PROVE orders[o] \in OrderRows  BY <1>1, <2>2, OpenRow
  <2>3. CASE Open(o) /\ orders'[o] = Cancelled(o)
    <3>1. Cancelled(o).status = "cancelled"  BY <2>2, <2>3 DEF Cancelled, OrderRows
    <3>2. QED  BY <2>3, <3>1 DEF OpenStatuses
  <2>4. ASSUME Open(o), orders[o].side = "sell", NEW q, orders'[o] = SellFilled(o, q)
        PROVE  WholeRow(orders'[o])
    <3>1. SellFilled(o, q).side = "sell"  BY <2>2, <2>4 DEF SellFilled, OrderRows
    <3>2. QED  BY <2>4, <3>1
  <2>5. ASSUME Open(o), orders[o].side = "buy", NEW q \in 1 .. Remaining(o),
               orders'[o] = BuyFilled(o, q)
        PROVE  WholeRow(orders'[o])
    BY <1>1, <2>5, BuyFilledWhole
  <2>6. ASSUME NEW u \in User, NEW price \in LimitPrices \cup {Market},
               NEW qty \in Quantities
        PROVE  /\ WholeRow(NewOrder(u, "sell", price, qty, 0))
               /\ WholeRow(NewOrder(u, "buy", price, qty, NewFreeze(price, qty)))
    <3>1. PICK f \in Nat : NewFreeze(price, qty) = f * qty  BY <1>1, NewFreezeWhole
    <3> DEFINE row == NewOrder(u, "buy", price, qty, NewFreeze(price, qty))
    <3>2. /\ row.frozen = f * qty /\ row.quantity = qty /\ row.filled = 0
      BY <3>1 DEF NewOrder
    <3>3. NewOrder(u, "sell", price, qty, 0).side = "sell"  BY DEF NewOrder
    <3> HIDE DEF row
    <3>4. row.quantity - row.filled = qty  BY <3>2
    <3>5. WholeRow(row)  BY <3>2, <3>4
    <3>6. QED  BY <3>3, <3>5 DEF row
  <2> HIDE DEF WholeRow
  <2>7. RowWritten(o)  BY RowsWritten
  <2>8. QED  BY <2>1, <2>3, <2>4, <2>5, <2>6, <2>7 DEF RowWritten
<1>3. QED  BY <1>2 DEF WholeFreezes, WholeRow, Open, Remaining

\* There are no orders at first.
LEMMA WholeInit == PenaltyInit => WholeFreezes
<1> SUFFICES ASSUME PenaltyInit PROVE WholeFreezes  OBVIOUS
<1>1. \A o \in OrderId : orders[o].status = "none"
  BY DEF PenaltyInit, Init, NoOrder
<1>2. QED  BY <1>1 DEF WholeFreezes, Open, OpenStatuses

-----------------------------------------------------------------------------
(* What the exchange owes *)

\* Where freezes are whole cents they add up exactly, penalties included, as long
\* as the freezes stay whole.
THEOREM CashIsConserved ==
    ASSUME WholeCents
    PROVE  PenaltySpec /\ []WholeFreezes => []CashConserved
<1>1. PenaltyInit => CashConserved  BY MoneyInit
<1>2. LedgerInv /\ LedgerInv' /\ WholeFreezes /\ CashConserved
        /\ [PenaltyNext]_penaltyVars => CashConserved'
  BY NextMoney, MoneyStep DEF LedgerInv, IInv
<1>3. QED  BY <1>1, <1>2, BooksKept, PTL DEF PenaltySpec

\* Nobody has paid a penalty yet.
NobodyStruck == \A u \in User : struck[u] = 0

\* What is true until a penalty is paid.
UntilStruck == NobodyStruck => WholeFreezes /\ CashConserved

\* A step to a state where nobody has paid a penalty starts in one and is none.
LEMMA StruckGrows ==
    ASSUME LedgerInv, [PenaltyNext]_penaltyVars, NobodyStruck'
    PROVE  NobodyStruck /\ struck' = struck
<1>1. struck \in [User -> Nat]  BY DEF LedgerInv, CashBook
<1>2. ASSUME NEW u \in User, NEW deduction \in Deductions, NEW duration \in Durations,
             ApplyPenalty(u, deduction, duration)
      PROVE  FALSE
  <2>1. struck' = [struck EXCEPT ![u] = @ + 1]  BY <1>2 DEF ApplyPenalty
  <2>2. struck'[u] = struck[u] + 1 /\ struck[u] \in Nat  BY <1>1, <2>1
  <2>3. struck'[u] = 0  BY DEF NobodyStruck
  <2>4. QED  BY <2>2, <2>3
<1>3. struck' = struck  BY <1>2 DEF PenaltyNext, penaltyVars
<1>4. QED  BY <1>3 DEF NobodyStruck

\* It is true until then.
LEMMA HoldsUntilStruck ==
    ASSUME WholeCents
    PROVE  PenaltySpec => []UntilStruck
<1>1. PenaltyInit => UntilStruck  BY MoneyInit, WholeInit DEF UntilStruck
<1>2. LedgerInv /\ LedgerInv' /\ UntilStruck /\ [PenaltyNext]_penaltyVars => UntilStruck'
  <2> SUFFICES ASSUME LedgerInv, LedgerInv', UntilStruck, [PenaltyNext]_penaltyVars,
                      NobodyStruck'
               PROVE  WholeFreezes' /\ CashConserved'
    BY DEF UntilStruck
  <2>1. NobodyStruck /\ struck' = struck  BY StruckGrows
  <2>2. WholeFreezes /\ CashConserved  BY <2>1 DEF UntilStruck
  <2>3. WholeFreezes'  BY <2>1, <2>2, WholeStep
  <2>4. CashConserved'  BY <2>2, NextMoney, MoneyStep DEF LedgerInv, IInv
  <2>5. QED  BY <2>3, <2>4
<1>3. QED  BY <1>1, <1>2, BooksKept, PTL DEF PenaltySpec

\* Whole cents a share at which orders can begin are enough for freezes to stay
\* whole, through every partial fill, until somebody pays a penalty.
THEOREM FreezesStayWhole ==
    ASSUME WholeCents
    PROVE  PenaltySpec => [](NobodyStruck => WholeFreezes)
<1>1. UntilStruck => (NobodyStruck => WholeFreezes)  BY DEF UntilStruck
<1>2. QED  BY <1>1, HoldsUntilStruck, PTL

\* They are enough for the money to add up too: until then the passes,
\* cancellations and settlements of any number of users and requests neither make
\* nor lose a cent.
THEOREM CashIsConservedUntilStruck ==
    ASSUME WholeCents
    PROVE  PenaltySpec => [](NobodyStruck => CashConserved)
<1>1. UntilStruck => (NobodyStruck => CashConserved)  BY DEF UntilStruck
<1>2. QED  BY <1>1, HoldsUntilStruck, PTL

-----------------------------------------------------------------------------
(* The terms where cents are whole *)

\* Fee and tax of a limit price are whole cents: the fee by WholeCents.
WholeTaxes == \A price \in LimitPrices : \E c \in Nat : price * TaxNum = c * RateDen

\* A price that with its fee is within what a share froze costs no more than that.
LEMMA CoveredDebit ==
    ASSUME NEW q \in Nat, NEW p \in Nat, NEW f \in Nat,
           p * (RateDen + FeeNum) <= f * RateDen
    PROVE  Debit(q, p) <= q * f
<1> DEFINE g == q * p
           D == RateDen
           F == FeeNum
           x == Round(g * F, D)
           m == 2 * D
<1>1. g \in Nat /\ D \in Nat \ {0} /\ F \in Nat /\ m \in Nat \ {0}  BY SMT
<1>2. q * (p * (D + F)) <= q * (f * D)
  <2> DEFINE v == p * (D + F)
             w == f * D
  <2>1. v \in Nat /\ w \in Nat /\ v <= w
    <3>1. p * (D + F) \in Nat /\ f * D \in Nat  BY SMT
    <3>2. QED  BY <3>1
  <2> HIDE DEF v, w
  <2>2. q * v <= q * w  BY <2>1, SMT
  <2>3. QED  BY <2>2 DEF v, w
<1>3. q * (p * (D + F)) = g * D + g * F /\ q * (f * D) = (q * f) * D
  BY SMT
<1>4. q * f \in Nat  BY SMT
<1> HIDE DEF g
<1>5. g * F \in Nat /\ g * D \in Nat /\ (q * f) * D \in Nat  BY <1>1, <1>4, SMT
<1>6. x \in Nat /\ m * x <= 2 * (g * F) + D  BY <1>1, <1>5, RoundBounds
<1>7. Debit(q, p) = g + x  BY DEF Debit, Fee, g
<1> DEFINE w == q * f
           wD == w * D
           gD == g * D
           gF == g * F
           mx == m * x
<1>8. gD + gF <= wD /\ gD \in Nat /\ gF \in Nat /\ wD \in Nat
  BY <1>2, <1>3, <1>5
<1>9. w \in Nat  BY <1>4
<1> HIDE DEF w, x, D, F
<1>10. m * (g + x) = 2 * gD + mx /\ m * w = 2 * wD /\ mx \in Nat
  BY <1>1, <1>6, <1>9, SMT
<1>11. m * w > m * (g + x) - m
  <2>1. mx <= 2 * gF + D  BY <1>6
  <2>2. m = 2 * D  OBVIOUS
  <2> HIDE DEF gD, gF, wD, mx, m
  <2>3. QED  BY <1>1, <1>8, <1>10, <2>1, <2>2
<1> HIDE DEF m
<1>12. w >= g + x
  <2> DEFINE y == g + x
  <2>1. y \in Int /\ w \in Int /\ m * w > m * y - m  BY <1>1, <1>6, <1>9, <1>11
  <2> HIDE DEF y
  <2>2. w >= y  BY <1>1, <2>1, WholeUnits
  <2>3. QED  BY <2>2 DEF y
<1>13. QED  BY <1>1, <1>6, <1>7, <1>9, <1>12 DEF w

\* More than a limit whose fee and tax are whole cents brings in no less.
LEMMA ProceedsWhole ==
    ASSUME NEW q \in Nat, NEW p \in Nat, NEW l \in Nat, p >= l,
           NEW a \in Nat, NEW c \in Nat, l * FeeNum = a * RateDen, l * TaxNum = c * RateDen
    PROVE  Proceeds(q, p) >= Proceeds(q, l)
<1> DEFINE g == q * p
           h == q * l
           D == RateDen
           F == FeeNum
           T == TaxNum
           m == 2 * D
<1>1. g \in Nat /\ h \in Nat /\ h <= g  BY SMT
<1>2. D \in Nat \ {0} /\ F \in Nat /\ T \in Nat /\ 2 * (F + T) <= D /\ m \in Nat \ {0}
  BY RatesAssumption
<1>3. h * F = (q * a) * D /\ h * T = (q * c) * D /\ q * a \in Nat /\ q * c \in Nat
  <2>1. h * F = q * (l * F) /\ h * T = q * (l * T)  BY SMT
  <2>2. q * (a * D) = (q * a) * D /\ q * (c * D) = (q * c) * D  BY SMT
  <2>3. q * a \in Nat /\ q * c \in Nat  BY SMT
  <2>4. QED  BY <2>1, <2>2, <2>3
<1> DEFINE s == q * a
           t == q * c
<1>4. Proceeds(q, l) = h - s - t /\ s \in Nat /\ t \in Nat
  <2>1. Round((q * a) * D, D) = q * a /\ Round((q * c) * D, D) = q * c
    BY <1>2, <1>3, RoundExact
  <2>2. Round(h * F, D) = q * a /\ Round(h * T, D) = q * c  BY <1>3, <2>1
  <2>3. Proceeds(q, l) = h - Round(h * F, D) - Round(h * T, D)
    BY DEF Proceeds, Fee, Tax
  <2>4. QED  BY <1>3, <2>2, <2>3
<1>5. h * F = s * D /\ h * T = t * D  BY <1>3
<1> HIDE DEF g, h, s, t
<1>6. CASE g = h
  <2>1. Proceeds(q, p) = Proceeds(q, l)  BY <1>6 DEF Proceeds, g, h
  <2>2. Proceeds(q, l) \in Int  BY <1>1, <1>4
  <2>3. QED  BY <2>1, <2>2
<1>7. CASE g # h
  <2> DEFINE gF == g * F
             gT == g * T
             u == Round(gF, D)
             v == Round(gT, D)
  <2>1. gF \in Nat /\ gT \in Nat  BY <1>1, <1>2, SMT
  <2>2. (g - h) * (D - (F + T)) >= D - (F + T)
        /\ (g - h) * (D - (F + T)) = g * D - h * D - gF - gT + h * F + h * T
    <3>1. g - h \in Nat \ {0} /\ D - (F + T) \in Nat  BY <1>1, <1>2, <1>7
    <3> DEFINE i == g - h
               j == D - (F + T)
    <3>2. i \in Nat \ {0} /\ j \in Nat  BY <3>1
    <3>3. i * j >= j
      <4> HIDE DEF i, j
      <4> QED  BY <3>2, SMT
    <3>4. (g - h) * (D - (F + T)) = g * D - h * D - g * F - g * T + h * F + h * T
      <4> HIDE DEF D, F, T
      <4>1. g \in Int /\ h \in Int /\ D \in Int /\ F \in Int /\ T \in Int  BY <1>1, <1>2
      <4>2. QED  BY <4>1, SMT
    <3>5. QED  BY <3>3, <3>4
  <2> DEFINE gD == g * D
             hD == h * D
             sD == s * D
             tD == t * D
             K == (g - h) * (D - (F + T))
  <2>3. /\ K \in Int /\ gD \in Int /\ hD \in Int /\ sD \in Int /\ tD \in Int
        /\ K >= D - (F + T)
        /\ K = gD - hD - gF - gT + sD + tD
    <3>1. K \in Int /\ g * D \in Int /\ h * D \in Int /\ s * D \in Int /\ t * D \in Int
      BY <1>1, <1>2, <1>4, SMT
    <3>2. QED  BY <1>5, <2>2, <3>1
  <2> HIDE DEF gF, gT, K
  <2>4. /\ u \in Nat /\ v \in Nat /\ m * u <= 2 * gF + D /\ m * v <= 2 * gT + D
    BY <1>2, <2>1, RoundBounds
  <2>5. Proceeds(q, p) = g - u - v  BY DEF Proceeds, Fee, Tax, g, gF, gT
  <2> HIDE DEF u, v, D, F, T
  <2> DEFINE x == g - u - v
             y == h - s - t
             mu == m * u
             mv == m * v
  <2>6. m * x = 2 * gD - mu - mv /\ m * y = 2 * hD - 2 * sD - 2 * tD
        /\ mu \in Int /\ mv \in Int
    <3>1. m \in Int /\ D \in Int /\ g \in Int /\ h \in Int  BY <1>1, <1>2
    <3>2. QED  BY <1>4, <2>4, <3>1, SMT
  <2>7. m * x > m * y - m
    <3>1. mu <= 2 * gF + D /\ mv <= 2 * gT + D /\ m = 2 * D  BY <2>4
    <3> HIDE DEF mu, mv, gD, hD, sD, tD, x, y, m
    <3>2. 2 * gD - mu - mv > 2 * hD - 2 * sD - 2 * tD - m
      BY <1>2, <2>1, <2>3, <2>6, <3>1
    <3>3. QED  BY <2>6, <3>2
  <2>8. x \in Int /\ y \in Int  BY <1>1, <1>4, <2>4
  <2>9. x >= y
    <3> HIDE DEF x, y, m
    <3> QED  BY <1>2, <2>7, <2>8, WholeUnits
  <2>10. QED  BY <1>4, <2>5, <2>9
<1>8. QED  BY <1>6, <1>7

\* An order is at a price that can be asked, and an open buy has frozen what its
\* limit and the fee on it come to; one at the market has frozen something.
Agreed(row) ==
    /\ row.price \in LimitPrices \cup {Market}
    /\ row.side = "buy" /\ row.status \in OpenStatuses =>
         IF row.price = Market
         THEN row.frozen > 0
         ELSE (row.quantity - row.filled) * (row.price * (RateDen + FeeNum))
                <= row.frozen * RateDen

AllAgreed == \A o \in OrderId : Agreed(orders[o])

\* A share's part of that.
LEMMA PerShare ==
    ASSUME NEW f \in Nat, NEW n \in Nat \ {0}, NEW c \in Nat
    PROVE  n * c <= (f * n) * RateDen <=> c <= f * RateDen
<1> DEFINE d == f * RateDen
<1>1. (f * n) * RateDen = n * d /\ d \in Nat  BY SMT
<1> HIDE DEF d
<1>2. n * c <= n * d <=> c <= d  BY <1>1, SMT
<1>3. QED  BY <1>1, <1>2 DEF d

\* A new buy freezes that.
LEMMA NewBuyAgreed ==
    ASSUME IInv, WholeCents, NEW u,
           NEW price \in LimitPrices \cup {Market}, NEW qty \in Quantities
    PROVE  Agreed(NewOrder(u, "buy", price, qty, NewFreeze(price, qty)))
<1> DEFINE current == company.current_price
           D == FreezeDen
           row == NewOrder(u, "buy", price, qty, NewFreeze(price, qty))
<1>1. current \in Nat \ {0}
  <2>1. company \in [current_price : MarketPrices, updated_at : Nat]
    BY DEF IInv, TypeOK
  <2>2. current \in MarketPrices  BY <2>1
  <2>3. QED  BY <2>2
<1>2. price \in Nat /\ qty \in Nat \ {0}  BY DEF Market
<1>3. D \in Nat \ {0}  BY <1>1, <1>2, FreezeNumNat
<1>4. PICK f \in Nat : /\ FreezeNum(price, 1, current) = f * D
                       /\ NewFreeze(price, qty) = f * qty
  BY NewFreezeWhole
<1>5. /\ row.frozen = f * qty /\ row.quantity = qty /\ row.filled = 0
      /\ row.price = price
  BY <1>4 DEF NewOrder
<1>6. CASE price = Market
  <2>1. FreezeNum(price, 1, current)
          = current * (RateDen + SlipNum) * (RateDen + FeeNum)
    BY <1>1, <1>6, SMT DEF FreezeNum
  <2>2. current * (RateDen + SlipNum) \in Nat \ {0}
    BY <1>1, ProductPositive
  <2>3. current * (RateDen + SlipNum) * (RateDen + FeeNum) \in Nat \ {0}
    <3> DEFINE x == current * (RateDen + SlipNum)
               y == RateDen + FeeNum
    <3>1. x \in Nat \ {0} /\ y \in Nat \ {0}  BY <2>2
    <3> HIDE DEF x, y
    <3>2. x * y \in Nat \ {0}  BY <3>1, ProductPositive
    <3>3. QED  BY <3>2 DEF x, y
  <2>4. f * D > 0  BY <1>4, <2>1, <2>3
  <2>5. f # 0
    <3> SUFFICES ASSUME f = 0 PROVE FALSE  OBVIOUS
    <3> HIDE DEF D
    <3>1. f * D = 0  BY <1>3
    <3>2. QED  BY <2>4, <3>1
  <2>6. f * qty \in Nat \ {0}  BY <1>2, <2>5, ProductPositive
  <2> HIDE DEF row
  <2>7. Agreed(row)  BY <1>5, <1>6, <2>6 DEF Agreed
  <2>8. QED  BY <2>7 DEF row
<1>7. CASE price # Market
  <2>1. price * RateDen * (RateDen + FeeNum) = (price * (RateDen + FeeNum)) * RateDen
    BY <1>2, SMT
  <2>2. f * D = (f * RateDen) * RateDen  BY SMT DEF FreezeDen
  <2>3. FreezeNum(price, 1, current) = price * RateDen * (RateDen + FeeNum)
    BY <1>2, <1>7, SMT DEF FreezeNum
  <2>4. price * (RateDen + FeeNum) = f * RateDen
    <3> DEFINE x == price * (RateDen + FeeNum)
               y == f * RateDen
    <3>1. x \in Nat /\ y \in Nat  BY <1>2, SMT
    <3>2. x * RateDen = y * RateDen  BY <1>4, <2>1, <2>2, <2>3
    <3> HIDE DEF x, y
    <3>3. x = y  BY <3>1, <3>2, SMT
    <3>4. QED  BY <3>3 DEF x, y
  <2>5. qty * (price * (RateDen + FeeNum)) <= (f * qty) * RateDen
    <3> DEFINE c == price * (RateDen + FeeNum)
    <3>1. c \in Nat /\ c <= f * RateDen
      <4>1. price * (RateDen + FeeNum) \in Nat  BY <1>2, SMT
      <4>2. QED  BY <2>4, <4>1
    <3> HIDE DEF c
    <3>2. qty * c <= (f * qty) * RateDen  BY <1>2, <3>1, PerShare
    <3>3. QED  BY <3>2 DEF c
  <2> HIDE DEF row
  <2>6. row.quantity - row.filled = qty  BY <1>2, <1>5
  <2>7. Agreed(row)  BY <1>5, <1>7, <2>5, <2>6 DEF Agreed
  <2>8. QED  BY <2>7 DEF row
<1>8. QED  BY <1>6, <1>7

\* A fill takes from it what the shares have frozen that are filled.
LEMMA BuyFilledAgreed ==
    ASSUME IInv, WholeFreezes, NEW b \in OrderId, Open(b), orders[b].side = "buy",
           Agreed(orders[b]), NEW q \in 1 .. Remaining(b)
    PROVE  Agreed(BuyFilled(b, q))
<1> DEFINE rest == Remaining(b)
           row == BuyFilled(b, q)
           fr == orders[b].frozen
           cost == orders[b].price * (RateDen + FeeNum)
<1>1. /\ orders[b] \in OrderRows /\ rest \in Nat \ {0} /\ orders[b].price \in Nat
      /\ orders[b].quantity \in Nat /\ orders[b].filled \in Nat
      /\ orders[b].status \in OpenStatuses
      /\ rest = orders[b].quantity - orders[b].filled
  BY OpenRow DEF IInv, OrderRows
<1>2. PICK f \in Nat : fr = f * rest  BY DEF WholeFreezes
<1>3. /\ row.frozen = Round(fr * (rest - q), rest)
      /\ row.quantity = orders[b].quantity /\ row.filled = orders[b].filled + q
      /\ row.price = orders[b].price /\ row.status = StatusAfter(b, q)
  BY <1>1 DEF BuyFilled, OrderRows
<1>4. q \in Nat /\ rest - q \in Nat  BY <1>1
<1>5. row.quantity - row.filled = rest - q  BY <1>1, <1>3, <1>4
<1>6. row.status \in OpenStatuses => rest - q # 0
  BY <1>1, <1>3, <1>4 DEF StatusAfter, OpenStatuses
<1>7. cost \in Nat  BY <1>1, SMT
<1>8. /\ row.price \in LimitPrices \cup {Market}
      /\ IF row.price = Market THEN fr > 0 ELSE rest * cost <= fr * RateDen
  BY <1>1, <1>3 DEF Agreed
<1>9. row.price * (RateDen + FeeNum) = cost  BY <1>3
<1> DEFINE l == rest - q
<1>10. l \in Nat  BY <1>4
<1> HIDE DEF rest, row, fr, cost, l
<1>11. row.frozen = f * l
  <2>1. (f * rest) * l = (f * l) * rest /\ f * l \in Int  BY <1>1, <1>10, SMT
  <2>2. Round((f * l) * rest, rest) = f * l  BY <1>1, <2>1, RoundExact
  <2>3. row.frozen = Round(fr * l, rest)  BY <1>3 DEF l
  <2>4. QED  BY <1>2, <2>1, <2>2, <2>3
<1>12. row.quantity - row.filled = l /\ (row.status \in OpenStatuses => l # 0)
  BY <1>5, <1>6 DEF l
<1>13. ASSUME row.status \in OpenStatuses, row.price = Market PROVE row.frozen > 0
  <2>1. fr > 0  BY <1>8, <1>13
  <2>2. f # 0
    <3> SUFFICES ASSUME f = 0 PROVE FALSE  OBVIOUS
    <3>1. f * rest = 0  BY <1>1
    <3>2. QED  BY <1>2, <2>1, <3>1
  <2>3. l \in Nat \ {0}  BY <1>10, <1>12, <1>13
  <2>4. f * l \in Nat \ {0}  BY <2>2, <2>3, ProductPositive
  <2>5. QED  BY <1>11, <2>4
<1>14. ASSUME row.status \in OpenStatuses, row.price # Market
       PROVE  l * cost <= row.frozen * RateDen
  <2>1. rest * cost <= (f * rest) * RateDen  BY <1>2, <1>8, <1>14
  <2>2. cost <= f * RateDen  BY <1>1, <1>7, <2>1, PerShare
  <2>3. l \in Nat \ {0}  BY <1>10, <1>12, <1>14
  <2>4. l * cost <= (f * l) * RateDen  BY <1>7, <2>2, <2>3, PerShare
  <2>5. QED  BY <1>11, <2>4
<1>15. Agreed(row)  BY <1>8, <1>9, <1>12, <1>13, <1>14 DEF Agreed
<1>16. QED  BY <1>15 DEF row

\* An order that a penalty reduced keeps more: of a limit order only the limit is
\* given back for each share, of a market order what the share froze.
LEMMA WithdrawnAgreed ==
    ASSUME IInv, CashBook, WholeFreezes, NEW u, NEW short \in Nat,
           NEW o \in Givers(u, short), Agreed(orders[o])
    PROVE  Agreed(Withdrawn(o, short))
<1> DEFINE row == Withdrawn(o, short)
           rest == Remaining(o)
           fr == orders[o].frozen
           price == orders[o].price
           cost == price * (RateDen + FeeNum)
           cq == CancelQuantity(o, short)
           l == rest - cq
<1>1. TypeOK /\ OrderLife  BY DEF IInv
<1>2. /\ o \in OrderId /\ Open(o) /\ orders[o].side = "buy"
      /\ rest \in Nat \ {0} /\ price \in Nat /\ fr \in Nat
      /\ orders[o] \in OrderRows /\ orders[o].status \in OpenStatuses
      /\ orders[o].quantity \in Nat /\ orders[o].filled \in Nat
      /\ rest = orders[o].quantity - orders[o].filled
      /\ cq \in Nat
  <2>1. o \in PendingBuys(u) /\ cq \in Nat  BY <1>1, GiverTerms
  <2>2. o \in OrderId /\ Open(o) /\ orders[o].side = "buy"
        /\ rest \in Nat \ {0} /\ price \in Nat /\ fr \in Nat
    BY <1>1, <2>1, PendingGives
  <2>3. QED  BY <1>1, <2>1, <2>2, OpenRow
<1>3. /\ price \in LimitPrices \cup {Market}
      /\ IF price = Market THEN fr > 0 ELSE rest * cost <= fr * RateDen
  BY <1>2 DEF Agreed
<1>4. CASE CancelsAll(o, short)
  <2>1. row = Cancelled(o)  BY <1>4 DEF Withdrawn
  <2>2. Cancelled(o).price = price /\ Cancelled(o).status = "cancelled"
    BY <1>2 DEF Cancelled, OrderRows
  <2> HIDE DEF row
  <2>3. Agreed(row)  BY <1>3, <2>1, <2>2 DEF Agreed, OpenStatuses
  <2>4. QED  BY <2>3 DEF row
<1>5. CASE ~CancelsAll(o, short)
  <2> DEFINE fs == FreezeShares(o)
             fp == FreezePrice(o)
             n == fr * fs - cq * fp
  <2>1. cq < rest
    <3>1. o \in Reduced(u, short)  BY <1>5 DEF Reduced
    <3>2. QED  BY <1>1, <3>1, ReducedTerms
  <2>2. l \in Nat \ {0}  BY <1>2, <2>1
  <2>3. /\ row.frozen = Round(n, fs) /\ row.quantity = orders[o].quantity - cq
        /\ row.filled = orders[o].filled /\ row.price = price
    BY <1>2, <1>5 DEF Withdrawn, OrderRows
  <2>4. row.quantity - row.filled = l  BY <1>2, <2>3
  <2> HIDE DEF row
  <2>5. CASE price = Market
    <3>1. fs = rest /\ fp = fr  BY <2>5 DEF FreezeShares, FreezePrice, IsMarket
    <3>2. PICK f \in Nat : fr = f * rest  BY <1>2 DEF WholeFreezes
    <3> HIDE DEF fs, fp, fr, rest
    <3>3. fr * rest - cq * fr = (f * l) * rest /\ f * l \in Int
      <4>1. (f * rest) * rest - cq * (f * rest) = (f * (rest - cq)) * rest
            /\ f * (rest - cq) \in Int
        BY <1>2, <3>2, SMT
      <4>2. QED  BY <3>2, <4>1
    <3> HIDE DEF l
    <3>4. row.frozen = f * l
      <4>1. Round((f * l) * rest, rest) = f * l  BY <1>2, <3>3, RoundExact
      <4>2. QED  BY <2>3, <3>1, <3>3, <4>1
    <3>5. f # 0
      <4> SUFFICES ASSUME f = 0 PROVE FALSE  OBVIOUS
      <4>1. f * rest = 0  BY <1>2
      <4>2. QED  BY <1>3, <2>5, <3>2, <4>1
    <3>6. f * l \in Nat \ {0}  BY <2>2, <3>5, ProductPositive
    <3>7. row.frozen > 0  BY <3>4, <3>6
    <3>8. QED  BY <1>3, <2>3, <2>5, <3>7 DEF Agreed, row
  <2>6. CASE price # Market
    <3>1. fs = 1 /\ fp = price  BY <2>6 DEF FreezeShares, FreezePrice, IsMarket
    <3>2. n = fr - cq * price /\ n \in Int
      <4>1. cq * price \in Int  BY <1>2, SMT
      <4>2. QED  BY <1>2, <3>1, <4>1
    <3>3. row.frozen = fr - cq * price  BY <2>3, <3>1, <3>2, RoundOne
    <3>4. l * cost <= (fr - cq * price) * RateDen
      <4> DEFINE D == RateDen
                 F == FeeNum
      <4>1. D \in Nat /\ F \in Nat  OBVIOUS
      <4>2. cost = price * (D + F)  OBVIOUS
      <4> HIDE DEF D, F
      <4>3. /\ l * (price * (D + F)) = rest * (price * (D + F)) - (cq * price) * D
                                         - (cq * price) * F
            /\ (fr - cq * price) * D = fr * D - (cq * price) * D
        BY <1>2, <4>1, SMT
      <4>4. (cq * price) * F \in Nat /\ (cq * price) * D \in Nat
            /\ rest * (price * (D + F)) \in Nat /\ fr * D \in Nat
        BY <1>2, <4>1, SMT
      <4>5. rest * (price * (D + F)) <= fr * D  BY <1>3, <2>6, <4>2 DEF D
      <4> DEFINE x == (cq * price) * F
                 y == (cq * price) * D
                 z == rest * (price * (D + F))
                 w == fr * D
      <4>6. x \in Nat /\ y \in Nat /\ z \in Nat /\ w \in Nat /\ z <= w  BY <4>4, <4>5
      <4>7. l * (price * (D + F)) = z - y - x /\ (fr - cq * price) * D = w - y
        BY <4>3
      <4> HIDE DEF x, y, z, w
      <4>8. l * (price * (D + F)) <= (fr - cq * price) * D  BY <4>6, <4>7
      <4>9. QED  BY <4>2, <4>8 DEF D
    <3> HIDE DEF l
    <3>5. row.price * (RateDen + FeeNum) = cost  BY <2>3
    <3> HIDE DEF cost
    <3>6. QED  BY <1>3, <2>3, <2>4, <2>6, <3>3, <3>4, <3>5 DEF Agreed, row
  <2>7. QED  BY <2>5, <2>6
<1>6. QED  BY <1>4, <1>5

\* Every step keeps it.
LEMMA AgreedStep ==
    ASSUME LedgerInv, WholeCents, WholeFreezes, AllAgreed, [PenaltyNext]_penaltyVars
    PROVE  AllAgreed'
<1>1. IInv /\ TypeOK /\ OrderLife /\ CashBook  BY DEF LedgerInv, IInv
<1>2. ASSUME NEW o \in OrderId PROVE Agreed(orders'[o])
  <2>1. Agreed(orders[o])  BY DEF AllAgreed
  <2>2. ASSUME Open(o) PROVE orders[o] \in OrderRows  BY <1>1, <2>2, OpenRow
  <2>3. CASE orders'[o] = orders[o]  BY <2>1, <2>3
  <2>4. CASE Open(o) /\ orders'[o] = Cancelled(o)
    <3>1. Cancelled(o).status = "cancelled" /\ Cancelled(o).price = orders[o].price
      BY <2>2, <2>4 DEF Cancelled, OrderRows
    <3>2. QED  BY <2>1, <2>4, <3>1 DEF Agreed, OpenStatuses
  <2>5. ASSUME Open(o), orders[o].side = "sell", NEW q, orders'[o] = SellFilled(o, q)
        PROVE  Agreed(orders'[o])
    <3>1. SellFilled(o, q).side = "sell" /\ SellFilled(o, q).price = orders[o].price
      BY <2>2, <2>5 DEF SellFilled, OrderRows
    <3>2. QED  BY <2>1, <2>5, <3>1 DEF Agreed
  <2>6. ASSUME Open(o), orders[o].side = "buy", NEW q \in 1 .. Remaining(o),
               orders'[o] = BuyFilled(o, q)
        PROVE  Agreed(orders'[o])
    BY <1>1, <2>1, <2>6, BuyFilledAgreed
  <2>7. ASSUME NEW u \in User, NEW price \in LimitPrices \cup {Market},
               NEW qty \in Quantities
        PROVE  /\ Agreed(NewOrder(u, "sell", price, qty, 0))
               /\ Agreed(NewOrder(u, "buy", price, qty, NewFreeze(price, qty)))
    <3>1. Agreed(NewOrder(u, "sell", price, qty, 0))  BY DEF Agreed, NewOrder
    <3>2. QED  BY <1>1, <3>1, NewBuyAgreed
  <2>8. ASSUME NEW u \in User, NEW short \in Nat, o \in Givers(u, short),
               orders'[o] = Withdrawn(o, short)
        PROVE  Agreed(orders'[o])
    BY <1>1, <2>1, <2>8, WithdrawnAgreed
  <2>9. RowWritten(o)  BY RowsWritten
  <2>10. QED  BY <2>3, <2>4, <2>5, <2>6, <2>7, <2>8, <2>9 DEF RowWritten
<1>3. QED  BY <1>2 DEF AllAgreed

\* There are no orders at first.
LEMMA AgreedInit == PenaltyInit => AllAgreed
  BY DEF PenaltyInit, Init, NoOrder, AllAgreed, Agreed, Market, OpenStatuses

\* Then a fill costs no more than its shares have frozen.
LEMMA BuyerCovered ==
    ASSUME IInv, CashBook, WholeFreezes, NEW b \in OrderId, Agreed(orders[b]),
           NEW q, NEW price, Bought(b, q, price)
    PROVE  PaidFromEscrow(b)
<1> DEFINE u == orders[b].user
           row == Paid(user[u], b, q, price)
           cash == user[u].cash_balance
           fr == orders[b].frozen
           rest == Remaining(b)
           debit == Debit(q, price)
           l == orders[b].price
           cost == price * (RateDen + FeeNum)
           most == l * (RateDen + FeeNum)
<1>1. /\ TypeOK /\ OrderLife /\ user \in [User -> UserRows] /\ orders[b] \in OrderRows
      /\ Open(b) /\ orders[b].side = "buy" /\ q \in 1 .. Remaining(b)
      /\ price \in Nat /\ ~OverCap(b, price) /\ user'[u] = row
  BY DEF IInv, TypeOK, Bought
<1>2. /\ u \in User /\ rest \in Nat \ {0} /\ orders[b].status \in OpenStatuses
      /\ rest = orders[b].quantity - orders[b].filled
      /\ l \in Nat
  BY <1>1, OpenRow DEF OrderRows
<1>3. q \in Nat /\ cash \in Int  BY <1>1, <1>2 DEF UserRows
<1>4. PICK f \in Nat : fr = f * rest  BY <1>1 DEF WholeFreezes
<1>5. IF l = Market THEN fr > 0 ELSE rest * most <= fr * RateDen
  BY <1>1, <1>2 DEF Agreed
<1>6. IF l = Market THEN fr > 0 => ~(price * rest * (RateDen + FeeNum) > fr * RateDen)
      ELSE ~(price > l)
  BY <1>1 DEF OverCap, IsMarket
<1>7. row.cash_balance = Round((cash - debit) * rest + q * fr, rest)
  <2>1. user[u] \in UserRows  BY <1>1, <1>2
  <2> DEFINE c == Round((cash - debit) * rest + q * fr, rest)
             e == Round(user[u].frozen_cash * rest - q * fr, rest)
  <2>2. row = [user[u] EXCEPT !.cash_balance = c, !.frozen_cash = e]
    BY <2>1 DEF Paid, UserRows
  <2> HIDE DEF c, e, row
  <2>3. row.cash_balance = c  BY <2>1, <2>2 DEF UserRows
  <2>4. QED  BY <2>3 DEF c
<1>8. debit \in Int  BY <1>1, <1>3, DebitInt
<1>9. cost \in Nat /\ most \in Nat /\ fr * RateDen \in Nat
  <2>1. f * rest \in Nat  BY <1>2, SMT
  <2> HIDE DEF fr, l, rest
  <2>2. fr \in Nat  BY <1>4, <2>1
  <2>3. QED  BY <1>1, <1>2, <2>2, SMT
<1>10. price * rest * (RateDen + FeeNum) = rest * cost
  <2> HIDE DEF rest
  <2> QED  BY <1>1, <1>2, SMT
<1>11. rest * cost \in Nat
  <2> HIDE DEF rest, cost
  <2> QED  BY <1>2, <1>9, SMT
<1>12. l # Market => cost <= most
  <2> HIDE DEF l
  <2>1. ASSUME l # Market PROVE price <= l  BY <1>1, <1>2, <1>6, <2>1
  <2>2. ASSUME price <= l PROVE price * (RateDen + FeeNum) <= l * (RateDen + FeeNum)
    <3> DEFINE g == RateDen + FeeNum
    <3>1. g \in Nat  OBVIOUS
    <3> HIDE DEF g
    <3>2. price * g <= l * g  BY <1>1, <1>2, <2>2, <3>1, SMT
    <3>3. QED  BY <3>2 DEF g
  <2>3. QED  BY <2>1, <2>2
<1> HIDE DEF u, row, cash, fr, rest, debit, l, cost, most
<1>13. cost <= f * RateDen
  <2>1. CASE l = Market
    <3>1. rest * cost <= fr * RateDen  BY <1>5, <1>6, <1>9, <1>10, <1>11, <2>1
    <3>2. rest * cost <= (f * rest) * RateDen  BY <1>4, <3>1
    <3>3. QED  BY <1>2, <1>9, <3>2, PerShare
  <2>2. CASE l # Market
    <3>1. rest * most <= (f * rest) * RateDen  BY <1>4, <1>5, <2>2
    <3>2. most <= f * RateDen  BY <1>2, <1>9, <3>1, PerShare
    <3>3. f * RateDen \in Nat  BY SMT
    <3>4. QED  BY <1>9, <1>12, <2>2, <3>2, <3>3
  <2>3. QED  BY <2>1, <2>2
<1>14. debit <= q * f  BY <1>1, <1>3, <1>13, CoveredDebit DEF debit, cost
<1>15. row.cash_balance = cash - debit + q * f /\ q * f \in Nat
  <2>1. q * f \in Nat  BY <1>3, SMT
  <2>2. cash - debit + q * f \in Int  BY <1>3, <1>8, <2>1
  <2>3. (cash - debit) * rest + q * (f * rest) = (cash - debit + q * f) * rest
    BY <1>2, <1>3, <1>8, SMT
  <2>4. Round((cash - debit + q * f) * rest, rest) = cash - debit + q * f
    BY <1>2, <2>2, RoundExact
  <2>5. QED  BY <1>4, <1>7, <2>1, <2>3, <2>4
<1>16. row.cash_balance >= cash - 1  BY <1>3, <1>8, <1>14, <1>15
<1>17. QED  BY <1>1, <1>16 DEF PaidFromEscrow, u, row, cash

\* And a limit whose fee and tax are whole cents is honoured to the cent.
LEMMA SellerServedWhole ==
    ASSUME IInv, WholeCents, WholeTaxes, NEW s \in OrderId, Agreed(orders[s]),
           company.current_price \in MarketPrices,
           NEW q, NEW price, SoldAt(s, q, price)
    PROVE  SellLimitHonoured(s)
<1> DEFINE l == orders[s].price
<1> SUFFICES ASSUME ~IsMarket(s)
             PROVE  user'[orders[s].user].settling_cash
                        - user[orders[s].user].settling_cash
                      >= Proceeds(NewlyFilled(s), l)
  BY DEF SellLimitHonoured
<1>1. q \in Nat /\ l \in Nat /\ price \in Nat /\ price >= l
  BY SellerPaid DEF SoldAt
<1>2. l \in LimitPrices /\ l # Market  BY DEF Agreed, IsMarket
<1> HIDE DEF l
<1>3. PICK c \in Nat : l * TaxNum = c * RateDen  BY <1>2 DEF WholeTaxes
<1>4. \E a \in Nat : l * FeeNum = a * RateDen
  <2> DEFINE current == company.current_price
  <2>1. PICK f \in Nat : FreezeNum(l, 1, current) = f * FreezeDen
    BY <1>2 DEF WholeCents
  <2> HIDE DEF current
  <2>2. FreezeNum(l, 1, current) = (l * (RateDen + FeeNum)) * RateDen
    <3>1. l * RateDen * (RateDen + FeeNum) = (l * (RateDen + FeeNum)) * RateDen
      BY <1>1, SMT
    <3>2. 1 * l = l  BY <1>1
    <3>3. QED  BY <1>2, <3>1, <3>2 DEF FreezeNum
  <2>3. f * FreezeDen = (f * RateDen) * RateDen  BY SMT DEF FreezeDen
  <2> DEFINE x == l * (RateDen + FeeNum)
             y == f * RateDen
  <2>4. x \in Nat /\ y \in Nat /\ x * RateDen = y * RateDen
    BY <1>1, <2>1, <2>2, <2>3, SMT
  <2>5. x = y
    <3> HIDE DEF x, y
    <3> QED  BY <2>4, SMT
  <2>6. x = l * RateDen + l * FeeNum /\ l * RateDen \in Nat /\ l * FeeNum \in Nat
    BY <1>1, SMT
  <2>7. l * FeeNum = (f - l) * RateDen
    <3>1. (f - l) * RateDen = f * RateDen - l * RateDen  BY <1>1, SMT
    <3> DEFINE v == l * RateDen
               w == l * FeeNum
    <3>2. v \in Nat /\ w \in Nat /\ y = v + w  BY <2>5, <2>6
    <3>3. (f - l) * RateDen = y - v  BY <3>1
    <3> HIDE DEF v, w, y
    <3>4. y - v = w  BY <3>2
    <3>5. QED  BY <3>3, <3>4 DEF w
  <2>8. f - l \in Nat
    <3> SUFFICES ASSUME f < l PROVE FALSE  BY <1>1
    <3>1. (f - l) * RateDen < 0  BY <1>1, SMT
    <3>2. QED  BY <2>6, <2>7, <3>1
  <2>9. QED  BY <2>7, <2>8
<1>5. PICK a \in Nat : l * FeeNum = a * RateDen  BY <1>4
<1>6. Proceeds(q, price) >= Proceeds(q, l)  BY <1>1, <1>3, <1>5, ProceedsWhole
<1>7. QED  BY <1>6, SellerPaid

\* Where cents are whole every fill honours its terms to the cent, and no buy is paid
\* from anything but the cash it froze: whoever is on the other side, whatever the
\* market, other passes and penalties did since a pass peeked the orders.
THEOREM TermsAreHonoured ==
    ASSUME WholeCents, WholeTaxes
    PROVE  PenaltySpec /\ []WholeFreezes => TermsHonoured
<1>1. PenaltyInit => PairsMeet /\ AllAgreed  BY PairsMeetInit, AgreedInit
<1>2. LedgerInv /\ PairsMeet /\ [PenaltyNext]_penaltyVars => PairsMeet'  BY PairsMeetNext
<1>3. LedgerInv /\ WholeFreezes /\ AllAgreed /\ [PenaltyNext]_penaltyVars => AllAgreed'
  BY AgreedStep
<1>4. LedgerInv /\ PairsMeet /\ WholeFreezes /\ AllAgreed /\ [PenaltyNext]_penaltyVars
        => [\A o \in OrderId : NewlyFilled(o) > 0 =>
              IF orders[o].side = "buy" THEN BuyLimitHonoured(o) /\ PaidFromEscrow(o)
              ELSE SellLimitHonoured(o)]_vars
  <2> SUFFICES ASSUME LedgerInv, PairsMeet, WholeFreezes, AllAgreed,
                      [PenaltyNext]_penaltyVars, NEW o \in OrderId, NewlyFilled(o) > 0
               PROVE  IF orders[o].side = "buy"
                      THEN BuyLimitHonoured(o) /\ PaidFromEscrow(o)
                      ELSE SellLimitHonoured(o)
    OBVIOUS
  <2>1. IInv /\ CashBook /\ Agreed(orders[o]) /\ company.current_price \in MarketPrices
    BY DEF LedgerInv, IInv, TypeOK, AllAgreed
  <2>2. PICK q, price : Bought(o, q, price) \/ SoldAt(o, q, price)  BY FillTerms
  <2>3. CASE Bought(o, q, price)
    <3>1. orders[o].side = "buy"  BY <2>3 DEF Bought
    <3>2. BuyLimitHonoured(o) /\ PaidFromEscrow(o)
      BY <2>1, <2>3, BuyerServed, BuyerCovered
    <3>3. QED  BY <3>1, <3>2
  <2>4. CASE SoldAt(o, q, price)
    <3>1. orders[o].side = "sell"  BY <2>4 DEF SoldAt
    <3>2. SellLimitHonoured(o)  BY <2>1, <2>4, SellerServedWhole
    <3>3. QED  BY <3>1, <3>2
  <2>5. QED  BY <2>2, <2>3, <2>4
<1>5. QED  BY <1>1, <1>2, <1>3, <1>4, BooksKept, PTL DEF PenaltySpec, TermsHonoured
=============================================================================
