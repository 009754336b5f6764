-------------------------------- MODULE Market --------------------------------
(***************************************************************************)
(* The market simulator (realtime/market_sim.py) and the three things its  *)
(* tick does beside matching: it moves the price                           *)
(* (services/market_service.py and the math engine's band), releases the   *)
(* proceeds of sales after T+2 (services/settlement_service.py) and        *)
(* applies corporate events (services/corporate_events.py).                *)
(*                                                                         *)
(* One company.  Every worker has a ticker; the lease decides which one    *)
(* ticks, but it is looked at only before a tick: a tick that outlives its *)
(* lease goes on beside the next leader's.  Each part of a tick is a       *)
(* transaction of its own; a transaction that fails is rolled back.        *)
(* Rows that are read FOR UPDATE are read and written in the step that     *)
(* commits, the others in the step that reads them.                        *)
(***************************************************************************)
EXTENDS Naturals, Sequences, FiniteSets, SequencesExt

CONSTANTS
    Ticker,          \* the workers' MarketSim
    NoTicker,        \* nobody holds the lease
    Holder,          \* the users
    Event,           \* the rows of corporate_actions
    Kind,            \* action_type: dividend, split or broken (a bad config)
    Amount,          \* split_ratio or cash_amount_per_share
    ExDate,          \* the day of ex_date
    Move,            \* how far a step of the random walk may go
    Band,            \* the daily price limit around the reference price
    SettlementDays,  \* settings.settlement_days
    Price0, Shares0, Quantity0, \* the price, shares outstanding and holdings at the start
    Lot,             \* bound: the sizes of the sell orders
    MaxDay,          \* bound: simulated days
    MaxSales,        \* bound: sales
    MaxAsks,         \* bound: sell orders
    MaxLapses,       \* bound: leases that lapse during a tick
    MaxFailures      \* bound: failures of a transaction, of the engine, of a worker

ASSUME MarketAssumption ==
    /\ NoTicker \notin Ticker
    /\ IsFiniteSet(Event)
    /\ \A e \in Event : /\ Kind[e] \in {"dividend", "split", "broken"}
                        /\ Amount[e] \in Nat \ {0} /\ ExDate[e] \in Nat
    /\ Move \subseteq Nat /\ Band \in Nat /\ SettlementDays \in Nat
    /\ Lot \subseteq Nat /\ Price0 \in Nat \ {0} /\ Shares0 \in Nat \ {0} /\ Quantity0 \in Nat
    /\ {MaxDay, MaxSales, MaxAsks, MaxLapses, MaxFailures} \subseteq Nat /\ MaxDay > 0

VARIABLES
    day,       \* the simulated day
    company,   \* the companies row: price, shares
    position,  \* portfolios: quantity, frozen
    wallet,    \* users: cash (as it changed), settling
    ask,       \* what is left of the user's open sell order, 0 without one
    sales,     \* transactions: user, proceeds, the day of settles_at, settled
    applied,   \* the events with an applied_at
    leader,    \* who holds the lease
    ticker,    \* the local state of every ticker
    paid,      \* how often each event was applied
    tally      \* the bounded counters

marketVars == <<day, company, position, wallet, ask, sales, applied, leader, ticker,
                paid, tally>>

rows == <<company, position, wallet, ask, sales, applied, paid>>

-----------------------------------------------------------------------------
(* Tickers *)

\* A worker that has just started: primed is _last_tick_ts, reference is its
\* _DAY_REFERENCE; due, batch and seen are what a transaction has read.
Started == [at |-> "sleep", primed |-> FALSE, reference |-> [day |-> 0, price |-> 0],
            seen |-> 0, due |-> {}, batch |-> <<>>,
            company |-> [price |-> Price0, shares |-> Shares0]]

TickerAt(t, place) == ticker[t].at = place

\* t goes on behind a transaction: what the transaction has read is gone.
Goes(t, place) ==
    ticker' = [ticker EXCEPT ![t] = [Started EXCEPT !.at = place, !.primed = TRUE,
                                                    !.reference = ticker[t].reference]]

\* A part of the tick that changes no row.
NoChange == UNCHANGED <<day, leader, tally, rows>>

Count(counter, max) == /\ tally[counter] < max
                       /\ tally' = [tally EXCEPT ![counter] = @ + 1]

\* The loop: acquire, then tick.  The first tick only notes the time.
Acquire(t) ==
    /\ TickerAt(t, "sleep") /\ leader \in {NoTicker, t}
    /\ leader' = t
    /\ ticker' = [ticker EXCEPT ![t].at = IF ticker[t].primed THEN "price" ELSE "sleep",
                                ![t].primed = TRUE]
    /\ UNCHANGED <<day, tally, rows>>

-----------------------------------------------------------------------------
(* Prices *)

\* The reference price of today: the price at the worker's first sight of the day.
Reference(t) == IF ticker[t].reference.day = day THEN ticker[t].reference
                ELSE [day |-> day, price |-> company.price]

\* update_all_prices reads the companies and ends the transaction.
ReadPrice(t) ==
    /\ TickerAt(t, "price")
    /\ ticker' = [ticker EXCEPT ![t].at = "engine", ![t].seen = company.price,
                                ![t].reference = Reference(t)]
    /\ NoChange

\* One step of the random walk.
Walked(price) == {price + m : m \in Move} \cup {price - m : m \in {k \in Move : k <= price}}

\* The engine clips the step to the band; the fallback of the gateway does not.
Clipped(price, reference) ==
    CASE price + Band < reference -> reference - Band
      [] price > reference + Band -> reference + Band
      [] OTHER -> price

\* The UPDATE puts the new price over whatever is there.
WritePrice(t, price) ==
    /\ company' = [company EXCEPT !.price = price]
    /\ Goes(t, "match")
    /\ UNCHANGED <<day, leader, position, wallet, ask, sales, applied, paid>>

EnginePrice(t) ==
    /\ TickerAt(t, "engine")
    /\ \E p \in Walked(ticker[t].seen) :
           WritePrice(t, Clipped(p, ticker[t].reference.price))
    /\ UNCHANGED tally

FallbackPrice(t) ==
    /\ TickerAt(t, "engine") /\ Count("failures", MaxFailures)
    /\ \E p \in Walked(ticker[t].seen) : WritePrice(t, p)

\* The price of this company could not be fetched: the others are still written.
SkipPrice(t) ==
    /\ TickerAt(t, "engine") /\ Count("failures", MaxFailures)
    /\ Goes(t, "match") /\ UNCHANGED <<day, leader, rows>>

\* update_all_prices fails: the rest of the tick is skipped.
PricesFail(t) ==
    /\ TickerAt(t, "engine") /\ Count("failures", MaxFailures)
    /\ Goes(t, "sleep") /\ UNCHANGED <<day, leader, rows>>

-----------------------------------------------------------------------------
(* Sales *)

\* What a new sell order can freeze.
Free(u) == position[u].quantity - position[u].frozen

PlaceAsk(u, quantity) ==
    /\ ask[u] = 0 /\ quantity > 0
    /\ quantity <= Free(u)
    /\ Count("asks", MaxAsks)
    /\ ask' = [ask EXCEPT ![u] = quantity]
    /\ position' = [position EXCEPT ![u].frozen = @ + quantity]
    /\ UNCHANGED <<day, company, wallet, sales, applied, leader, ticker, paid>>

CancelAsk(u) ==
    /\ ask[u] > 0
    /\ position' = [position EXCEPT ![u].frozen = @ - ask[u]]
    /\ ask' = [ask EXCEPT ![u] = 0]
    /\ UNCHANGED <<day, company, wallet, sales, applied, leader, ticker, paid, tally>>

\* A fill of u's sell order against the market maker: the shares leave the
\* position, the proceeds wait for their settlement.
Fill(t, u, quantity) ==
    /\ TickerAt(t, "match")
    /\ 0 < quantity /\ quantity <= ask[u]
    /\ quantity <= position[u].frozen /\ quantity <= position[u].quantity
    /\ Len(sales) < MaxSales /\ day + SettlementDays <= MaxDay
    /\ ask' = [ask EXCEPT ![u] = @ - quantity]
    /\ position' = [position EXCEPT ![u] = [quantity |-> @.quantity - quantity,
                                            frozen |-> @.frozen - quantity]]
    /\ LET proceeds == quantity * company.price
       IN  /\ wallet' = [wallet EXCEPT ![u].settling = @ + proceeds]
           /\ sales' = Append(sales, [user |-> u, proceeds |-> proceeds,
                                      due |-> day + SettlementDays, settled |-> FALSE])
    /\ UNCHANGED <<day, company, applied, leader, ticker, paid, tally>>

Matched(t) == TickerAt(t, "match") /\ Goes(t, "due") /\ NoChange

-----------------------------------------------------------------------------
(* Settlement *)

Unsettled(u) == {i \in DOMAIN sales : sales[i].user = u /\ ~sales[i].settled}

\* The rows release_due selects, without a lock.
Due == {i \in DOMAIN sales : ~sales[i].settled /\ sales[i].due <= day}

ReadDue(t) ==
    /\ TickerAt(t, "due")
    /\ ticker' = [ticker EXCEPT ![t].due = Due,
                                ![t].at = IF Due = {} THEN "events" ELSE "release"]
    /\ NoChange

ProceedsOf(S) == SumFunctionOnSet([i \in DOMAIN sales |-> sales[i].proceeds], S)

Least(a, b) == IF a <= b THEN a ELSE b

Released_AllOfIt(u, due) == ProceedsOf({i \in due : sales[i].user = u})

\* What moves from u's settling cash to u's cash.
Released(u, due) ==
    Least(ProceedsOf({i \in due : sales[i].user = u}), wallet[u].settling)

\* One transaction: the users are locked, paid, and settles_at is cleared.
Release(t) ==
    /\ TickerAt(t, "release")
    /\ wallet' = [u \in Holder |->
           [cash |-> wallet[u].cash + Released(u, ticker[t].due),
            settling |-> wallet[u].settling - Released(u, ticker[t].due)]]
    /\ sales' = [i \in DOMAIN sales |->
           [sales[i] EXCEPT !.settled = @ \/ i \in ticker[t].due]]
    /\ Goes(t, "events")
    /\ UNCHANGED <<day, company, position, ask, applied, leader, paid, tally>>

ReleaseFails(t) ==
    /\ TickerAt(t, "release") /\ Count("failures", MaxFailures)
    /\ Goes(t, "events") /\ UNCHANGED <<day, leader, rows>>

-----------------------------------------------------------------------------
(* Corporate events *)

DueEvents_Again == {e \in Event : ExDate[e] <= day}

\* The events apply_due_events selects, without a lock.
DueEvents == {e \in Event \ applied : ExDate[e] <= day}

\* ORDER BY ex_date; the database chooses between events of one date.
Batches(S) == {batch \in SetToSeqs(S) : \A i, j \in DOMAIN batch :
                                            i < j => ExDate[batch[i]] <= ExDate[batch[j]]}

ReadEvents(t) ==
    /\ TickerAt(t, "events")
    /\ \E batch \in Batches(DueEvents) :
           ticker' = [ticker EXCEPT ![t].batch = batch,
                                    ![t].at = IF DueEvents = {} THEN "sleep" ELSE "company"]
    /\ NoChange

\* db.get(Company): the session keeps this copy of the row.
ReadCompany(t) ==
    /\ TickerAt(t, "company")
    /\ ticker' = [ticker EXCEPT ![t].at = "apply", ![t].company = company]
    /\ NoChange

\* _apply_cash_dividend.
Dividend(e, s) ==
    [s EXCEPT !.wallet = [u \in Holder |->
        [s.wallet[u] EXCEPT !.cash = @ + s.position[u].quantity * Amount[e]]]]

\* _apply_stock_split; the open orders stay as they are.
Split(e, s) ==
    [s EXCEPT !.company = [price |-> @.price \div Amount[e], shares |-> @.shares * Amount[e]],
              !.position = [u \in Holder |->
                  [quantity |-> s.position[u].quantity * Amount[e],
                   frozen |-> s.position[u].frozen * Amount[e]]]]

\* One round of the loop over the batch: an event that raises is left for the
\* next tick, and the loop goes on.
Tried(s, e) ==
    IF Kind[e] = "broken" THEN s
    ELSE [(IF Kind[e] = "split" THEN Split(e, s) ELSE Dividend(e, s))
          EXCEPT !.done = @ \cup {e}]

\* The batch is applied to the rows and committed as one transaction.
ApplyEvents(t) ==
    /\ TickerAt(t, "apply")
    /\ LET s == FoldLeft(Tried, [company |-> ticker[t].company, position |-> position,
                                 wallet |-> wallet, done |-> {}],
                         ticker[t].batch)
       IN  /\ company' = IF \E e \in s.done : Kind[e] = "split" THEN s.company
                         ELSE company
           /\ position' = s.position
           /\ wallet' = s.wallet
           /\ applied' = applied \cup s.done
           /\ paid' = [e \in Event |-> IF e \in s.done THEN paid[e] + 1 ELSE paid[e]]
    /\ Goes(t, "sleep")
    /\ UNCHANGED <<day, ask, sales, leader, tally>>

EventsFail(t) ==
    /\ TickerAt(t, "apply") /\ Count("failures", MaxFailures)
    /\ Goes(t, "sleep") /\ UNCHANGED <<day, leader, rows>>

-----------------------------------------------------------------------------
(* Time, leases and restarts *)

Tomorrow ==
    /\ day < MaxDay /\ day' = day + 1
    /\ UNCHANGED <<leader, ticker, tally, rows>>

\* The leader is slower than the ttl of its lease: whoever asks next holds it.
Lapse ==
    /\ leader # NoTicker /\ ~TickerAt(leader, "sleep")
    /\ Count("lapses", MaxLapses)
    /\ leader' = NoTicker
    /\ UNCHANGED <<day, ticker, rows>>

\* The worker dies, its open transaction is rolled back, its lease runs out; it
\* starts again with an empty memory.
Restart(t) ==
    /\ Count("failures", MaxFailures)
    /\ ticker' = [ticker EXCEPT ![t] = Started]
    /\ leader' = IF leader = t THEN NoTicker ELSE leader
    /\ UNCHANGED <<day, rows>>

MarketInit ==
    /\ day = 1
    /\ company = [price |-> Price0, shares |-> Shares0]
    /\ position = [u \in Holder |-> [quantity |-> Quantity0, frozen |-> 0]]
    /\ wallet = [u \in Holder |-> [cash |-> 0, settling |-> 0]]
    /\ ask = [u \in Holder |-> 0]
    /\ sales = <<>> /\ applied = {}
    /\ leader = NoTicker
    /\ ticker = [t \in Ticker |-> Started]
    /\ paid = [e \in Event |-> 0]
    /\ tally = [asks |-> 0, lapses |-> 0, failures |-> 0]

Tick(t) ==
    \/ Acquire(t)
    \/ ReadPrice(t) \/ EnginePrice(t)
    \/ Matched(t)
    \/ ReadDue(t) \/ Release(t)
    \/ ReadEvents(t) \/ ReadCompany(t) \/ ApplyEvents(t)

Fault(t) ==
    \/ FallbackPrice(t) \/ SkipPrice(t) \/ PricesFail(t)
    \/ ReleaseFails(t) \/ EventsFail(t)
    \/ Restart(t)

Trade ==
    \/ \E u \in Holder : CancelAsk(u) \/ \E q \in Lot : PlaceAsk(u, q)
    \/ \E t \in Ticker, u \in Holder : \E q \in 1 .. ask[u] : Fill(t, u, q)

MarketNext == Tomorrow \/ Lapse \/ Trade \/ \E t \in Ticker : Tick(t) \/ Fault(t)

MarketSpec == MarketInit /\ [][MarketNext]_marketVars
=============================================================================
