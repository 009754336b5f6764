# FinSimAI: specifications and proofs

FinSimAI is a stock-market simulation for learning. A FastAPI gateway
(`src/apps/backend_gateway`) keeps the accounts, the order books and the
realtime feeds in PostgreSQL and Redis; a math engine (`src/apps/math_engine`)
computes prices, penalties and indicators; an AI engine (`src/apps/ai_engine`)
answers a mentor's questions and makes content; a frontend shows it all.
This directory holds TLA+ models of the parts where requests, background loops
and workers meet, the TLC runs that check them and the proofs that hold for
every size of the system.

Paths below are relative to `src/apps/backend_gateway` unless they start with
another application's name.

## 1. Inventory

| Component | State | Operations | Hard behaviour | What makes it correct |
|---|---|---|---|---|
| Orders (`api/v1/trades.py`, `models/trade.py`) | `users.cash_balance`, `users.frozen_cash`, `portfolios.quantity`, `portfolios.frozen_quantity`, `orders` with `version_id` | place, cancel | two requests of a user, a request beside a pass, a rounding in every column | what is frozen is what open orders hold; refunds and fills release it once |
| Matching (`services/trading_service.py`, `services/slippage.py`) | the local state of `match_orders`: skip sets, liquidity, peeked rows | user-to-user loop, market-maker loop | orders are peeked without a lock; every `POST /orders` and every tick run a pass; a commit after every fill | nothing is filled twice or beyond its quantity; limits hold; passes end |
| Settlement (`services/settlement_service.py`) | `users.settling_cash`, `transactions.settles_at` | `release_due` | T+2 clock that starts at the last price update; two leaders | settling cash is the sum of what has not settled |
| Market simulation (`realtime/market_sim.py`, `services/market_service.py`) | the companies' prices, the tick clock | tick: prices, matching, settlement, corporate events | leadership is not checked within a tick; prices are overwritten without a version | one tick at a time |
| Penalty and trading lock (`services/penalty_service.py`, `api/v1/risk.py`, `math_engine` penalty tables) | `users.risk_score`, `users.cooldown_until`, `trap_events`, `discipline_score_history` | apply, status, clear, the gate of `POST /orders` | the score is read, sent to another service and written back; the row is locked but not read again | every violation counts; locks are not shortened and are rewarded once |
| Leader election (`realtime/leader.py`) | a Redis lock with a time to live, a fence counter, every worker's view | acquire/renew | pauses longer than the time to live, lost replies, crashes | a term belongs to one process; somebody leads again |
| Price broadcaster (`realtime/price_ws.py`) | a session (open, high, low, previous close) in memory, its snapshot in a Redis hash | the loop, the hand-over to a new leader, snapshots for new clients | a leader that dies between broadcast and snapshot; a session inherited late; leadership that ends during the database read | the session goes on from leader to leader; the price is shown in the end |
| Trade notifier (`realtime/trade_ws.py`) | per-user sequence numbers, claims, a watermark (all in Redis), local caches | post-commit push, catch-up poll | a crash between claim and broadcast; two workers; a blind watermark | nothing is delivered twice; nothing is lost silently |
| Connections and rooms (`realtime/connection_manager.py`, `realtime/router.py`) | sockets, rooms, a best-effort and a reliable queue per socket | connect, join, leave, send, broadcast, disconnect | the writer waits on two queues at once; send timeouts; overflow; disconnect during a join | nothing reliable is lost on an open socket; what cannot be kept closes it |
| Backplane (`realtime/backplane.py`) | subscribed channels, fallback mode, a listener task | publish, relay, room changes, reconnect | rooms change while Redis is away or while a reconnect awaits; a worker hears its own messages; a listener ends with its last room | populated rooms are subscribed and heard; no message twice; the mode is told |
| Tickets and revalidation (`realtime/auth.py`, `api/v1/auth.py`, the frontend's `useWebSocket.ts`) | tickets with a time to live, two caches per worker, live sessions | issue, redeem, revalidate, reconnect | cached answers that outlive a change of the account; a failing database | a ticket opens one socket; a locked account loses its sockets; nobody is ended without cause |
| Rate limiter (`core/ratelimit.py`, `api/v1/auth.py`, `realtime/mentor_ws.py`) | counter and expiry per key, in Redis or in memory | peek, record, reset, check | peek and record are two steps; the window slides; Redis comes and goes | the limit counts what is in the window |
| Tasks and challenges (`services/task_service.py`, `services/challenge_service.py`) | progress rows, streaks, claims, check-ins, cash | record event, complete, claim, check in, complete a challenge | unlocked read-modify-write of progress; midnight; several commits per request | a reward is paid once; a completion sticks; a streak has its days |
| Corporate events (`services/corporate_events.py`) | events with `applied_at`, prices, holdings, cash | due splits and dividends, one transaction a batch | a tick beside another's; one event of a batch that fails | an event is applied once; orders stay covered |
| Contests (`services/contest_service.py`, `api/v1/contests.py`, `api/v1/admin.py`) | contest rows with a JSON config, companies, articles, posts, members | create, edit, activate (which generates the content), delete, join, set status | an edit writes back the config it read; activation looks at the config only | the record of the content and the content agree; nobody enters an empty contest |
| Discipline score (`services/discipline_service.py`) | `users.discipline_score` and its history | apply | shares the user row with everything else | the score is the clamped sum of its history |
| Mentor chat (`realtime/mentor_ws.py`, `mentor_engine.py`, `services/mentor_*.py`, the frontend's `useMentorStore.ts`) | one session per socket, the reply task, history rows, the client's store | ask, cancel, stream, save, show | a new question cancels a reply without awaiting it; queues drop; the socket breaks | what is shown and kept of a reply is that reply's; waiting ends |
| AI engine: limiter (`ai_engine/integrations/rate_limiter.py`) | per bucket: tokens, stamp and a lock in Redis | acquire | several processes, a lock that lapses, writes one by one | no call on credit that was not earned |
| AI engine: answers (`ai_engine/routers/mentor.py`, `agents/`, the gateway's `clients/mentor_client.py`) | the state of a request | ask, generate, screen, judge, retry, fall back, time out | late answers; a retry that undoes a check; a field no check looks at | nothing refused is told; every question is answered |
| AI engine: content (`ai_engine/tasks/`, `integrations/content_sync.py`, the gateway's `api/v1/ai_sync.py`) | seen keys, the news list, batches, rows | crawl, make, post, keep | two jobs at once; a worker that dies and reruns a job | an article is listed once; an item is stored once |

Reads and single-row writes (profiles, social, news, reports, leaderboards,
technical indicators) keep no state that several actors contend for; they are
listed in `PROJECT.json` with the reason they are left out.

The parts meet in five places. (a) The `users` row: orders, fills, settlement,
penalties, rewards and dividends all write it, guarded by `FOR UPDATE` and by
SQLAlchemy's `version_id`. A session that already holds the row does *not*
read it again under `FOR UPDATE` (no `populate_existing`), so it is the version
check of the flush that catches a stale row, by an exception. (b) The order
book: passes, placements, cancellations and penalties. (c) Redis: locks,
sequence numbers, claims, tickets, counters, token buckets and channels of all
workers. (d) The tick: prices, then matching, then settlement, then corporate
events, by whoever was leader when it began. (e) A socket: its reader and writer
tasks, the backplane's listener, the heartbeat that revalidates its session, and
the client's hook and store at the other end.

## 2. Plan

Modelled first is what handles money, because every other part writes into it;
then the lock that guards it; then the election that decides who runs it; then
the rest of the tick, the rewards, the realtime layer, the gateway's services
and the AI engine.

| Step | Module | What it adds | State |
|---|---|---|---|
| 1 | `Trading` | orders, passes, settlement, prices on one book | checked, proved |
| 2 | `TradingPenalty` (extends 1) | the deduction of a penalty from cash and pending buys | checked, proved |
| 3 | `Cooldown` | risk score, lock, reward, gate, with stale sessions | checked, proved |
| 4 | `LeaderElection` | the Redis lock and its fencing terms | checked, proved |
| 5 | `TradeNotifier` | claims, sequence numbers, watermark, crash of a worker | checked, proved |
| 6 | `PriceFeed` (extends 4) | the broadcaster's session across leaders | checked, proved |
| 7 | `Market` | ticks that overlap: prices, settlement, corporate events | checked, proved |
| 8 | `Tasks` implementing `RewardLedger` | progress, streaks, rewards | checked, refinement proved |
| 9 | `Connections`, `Backplane`, `Mentor` | queues, subscriptions, replies | checked, proved |
| 10 | `Contests`, `Sessions`, `RateLimiter` | life cycles, tickets and caches, counters | checked, proved |
| 11 | `TokenBucket` implementing `Budget` | the shared limiter | checked, refinement proved |
| 12 | `Answers`, `Content`, `AiEngine` (extend 11) | the engine's two processes on one limiter | checked, proved |
| 13 | `SumProofs`, `LedgerProofs` | sums over finite sets; the books of shares, cash and sales under penalties; the money of all accounts together and the terms of fills | proved |
| 14 | `RealtimeProofs` | `NoSilentLoss`, `BridgeCarries`, `ReplyWhole` for any sockets, clients, rooms and questions | proved |
| 15 | `AccountProofs`, `PriceFeedProofs` | `AccountsCovered` and `EventsOnce` beside the proofs of 3, `SessionGoesOn` beside those of 4 | proved |

The abstract specifications are `RewardLedger` (an item is paid at most once and
the cash is what the paid items are worth), which `Tasks` implements with its
rows, requests and versions hidden, and `Budget` (credit is earned by time and a
call spends only what was earned), which `TokenBucket` and the whole `AiEngine`
implement with their locks, keys and coroutines hidden.

## 3. Modules

| Module | Kind | Models |
|---|---|---|
| `Trading`, `TradingProperties` | component | `api/v1/trades.py`, `services/trading_service.py`, `services/slippage.py`, `services/settlement_service.py`, the tick's price write |
| `TradingPenalty` | `Trading` composed with `apply_penalty` | `services/penalty_service.py:109-258` |
| `Cooldown`, `CooldownProperties` | component | `services/penalty_service.py`, `api/v1/risk.py`, the gate in `api/v1/trades.py`, `math_engine/engine/penalty_calc/penalty.py` |
| `LeaderElection` | component | `realtime/leader.py`, the calls in `_run_loop` |
| `PriceFeed` | `LeaderElection` composed with the broadcaster | `realtime/price_ws.py` |
| `TradeNotifier`, `TradeNotifierProperties` | component | `realtime/trade_ws.py`, the end of a pass in `services/trading_service.py` |
| `Market`, `MarketProperties` | component | `realtime/market_sim.py`, `services/market_service.py`, `services/settlement_service.py`, `services/corporate_events.py`, the price band of `math_engine` |
| `Tasks` | component | `services/task_service.py`, `services/challenge_service.py`, `api/v1/tasks.py`, `api/v1/challenges.py`, the scores of `services/discipline_service.py` |
| `RewardLedger` | abstract specification | what the rewards promise |
| `Connections` | component | `realtime/connection_manager.py`, `realtime/router.py` |
| `Backplane` | component | `realtime/backplane.py` |
| `Mentor` | component | `realtime/mentor_ws.py`, `services/mentor_history.py`, the frontend's `useMentorStore.ts` |
| `Contests` | component | `services/contest_service.py`, `api/v1/contests.py`, the status route of `api/v1/admin.py` |
| `Sessions` | component | `realtime/auth.py`, `api/v1/auth.py` (tickets), the frontend's `useWebSocket.ts` |
| `RateLimiter` | component | `core/ratelimit.py`, login in `api/v1/auth.py`, the quota in `realtime/mentor_ws.py` |
| `Budget` | abstract specification | what a token bucket promises |
| `TokenBucket`, `TokenBucketProperties` | component | `ai_engine/integrations/rate_limiter.py` |
| `Answers`, `AnswersProperties` | component | `ai_engine/routers/mentor.py`, `agents/socratic_mentor.py`, `policy.py`, `grounding.py`, `judge.py`, the gateway's hybrid stream and `clients/mentor_client.py` |
| `Content` | component | `ai_engine/tasks/`, `integrations/news_sources.py`, `integrations/content_sync.py`, the gateway's `api/v1/ai_sync.py` |
| `AiEngine` | `Answers` and `Content` on one `TokenBucket` | the engine's web process and worker |
| `SumProofs` | lemmas | sums and folds over finite sets |
| `LedgerProofs`, `AccountProofs`, `PriceFeedProofs`, `TradeNotifierProofs`, `ServicesProofs`, `GatewayProofs`, `RealtimeProofs` | proofs | see 5 |
| `MC...` | instances for TLC | |

### Trading

One company's book. `user`, `portfolio`, `orders` and `unsettled` are the
database's rows (`unsettled` the sell transactions whose `settles_at` is not
NULL), `company` is the price row, `house` collects what leaves the users'
accounts (fees, tax, the market maker's side) so that conservation can be
stated. Money is in cents; `Round` is what PostgreSQL does to a value written to
a `NUMERIC(20,2)` column. Rates are fractions over `RateDen`.

One action is one transaction or one unlocked read. `PlaceBuy`, `PlaceSell` and
`CancelOrder` are the routes. A run of `match_orders` is a process `p` of
`Pass`, because the tick and every `POST /orders` run one: `PeekBuy` and
`PeekSell`/`PeekMaker` are the unlocked selects, and `FillPair`,
`CancelSelfTrade`, `LeaveBook`, `FillMakerBuy`, `FillMakerSell` are what the code
does from the lock to the commit. A pass remembers the version of what it
peeked; if an order was written since, the flush raises `StaleDataError`
(`Raise`). The user and portfolio rows a session keeps alive through the peeked
orders may be old as well: `stale` holds the users others wrote since the pass
began, and such a pass *may* raise (whether it does depends on which rows the
identity map, which holds them weakly, still has). `Fail` is any other database
error: a lost connection or a deadlock victim. `ReleaseDue`, `UpdatePrice` and
`CreditCash` are the other writers; `Clock` is the time of the settlement
deadline.

The model writes a rounded amount and goes on with it. The code's session does not read a
row again after a commit (`expire_on_commit=False`, `core/database.py:14`): over the fills of
a pass it carries balances with more decimals than the columns keep, and each write rounds
them anew. Where every amount is whole cents the two are the same, and that is the only
domain on which the project claims anything of cash: the run's amounts are whole cents, and
the theorems about cash assume it (`WholeCents`, `WholeFreezes`).

Left out: quantities with four decimals (quantities are whole shares),
`liquidity_depth = 0`, `orders.frozen_quantity` (written, never read), companies
other than one, and bars.

### TradingPenalty

`apply_penalty` as one transaction beside everything in `Trading`: it takes the
deduction from the cash and, if that does not suffice, cancels pending buys from
the oldest on, the last one perhaps in part (`Givers`, `CancelQuantity`,
`CancelsAll`, `Withdrawn`). The loop of the code is the set of orders that have to
give: order *o* gives if what the older ones give does not cover the shortfall.
The deduction and the duration are parameters here; `Cooldown` computes them.

### Cooldown

One account and several requests. A request loads the account's row at
authentication and keeps it; `fresh` says whether nobody wrote the row since.
`AskEngine` selects the score again (as a column, so it is current) and asks the
engine; `ApplyPenalty` writes the engine's answer under the row lock if the row
is fresh and raises otherwise (`Stale`). `Blocked`, `Admit` and `Clear` are
`get_penalty_status`, `enforce_cooldown` and `clear_cooldown`; `PlaceBuy` writes
the account's row, `PlaceSell` only the portfolio's. `WriteElsewhere` is every
other writer of the row. The tables of the math engine are the constants `RiskOf`
and `Tiers`, whose only assumed property is that longer tiers have higher
thresholds and that every score has a tier.

### LeaderElection and PriceFeed

Workers, one lock, one fence counter. A call is split into `Call`, `Evaluate`
(the Lua script, in one piece) and `Receive`, so a reply may be old when it
arrives; `CallFails` loses the call or its reply. `Expire` lets the lock run out
under a live worker, at any moment: it stands for every pause, long query or
clock drift; `ExpireGone` is the lock of a process that is gone. `Crash` is a
restart with a new `_leader_token` (`life`).

`PriceFeed` puts the broadcaster's loop on top: `Ask`, `Hear`, `Load` (a new
leader, or one in its first round, takes the session over from the Redis hash),
`ReadPrice`, `Send` and `Persist`, each ending at an `await`. `LoadFails`,
`PersistFails`, `SnapshotExpires` and a restart before `Persist` are the ways a
snapshot does not reach the next leader; `SessionGoesOn` holds as long as none
happened and no lock expired under a live leader, because in both cases the code
opens or goes on with what it has (a leader that returns keeps an old `was_leader`
and does not load). Left out: `local_mode`, and the read of snapshots for clients
that join.

### TradeNotifier

A row of `transactions` is announced to its owner by the pass that committed it,
when that pass ends, or by the poll of a leader that reads the table again. Both
go through `_push_transactions`: `Claim` (SETNX for the whole batch), `Number`
(INCR for the whole batch), `Send` once per message, `Save` (the watermark). The
poll adds `Lead`/`Follow` (the election in one step; its details are in
`LeaderElection`), `Load`, `Read`, `Check` and `Keep`. Every action ends at an
`await`, so the two tasks of a worker, and those of the others, interleave there
and see `_watermark`, `_seen_ids` and Redis as the others left them.

A row becomes visible with `Commit` but carries the time of `Begin`, which is what
makes the lookback necessary. `PassFails` is a pass that raises between two
commits; `Crash` restarts a worker and loses its memory; `Fault` is a call to Redis
or the database that raises, before or after it took effect; `ClaimLapses` is the
dedup key's time to live, which outlasts every task. The watermark's id is left
out: only its time is ever read.

`Tick` carries the one timing assumption: a trade is at most `Patience` old when
somebody claims it. With `Patience <= Lookback` the catch-up misses nothing; without
it (no leader polls for longer than the lookback while other workers push and
store their watermark) a trade of a worker that died before `_notify_fills` falls
out of the window and is never announced. `Limit` is the query's 500; the run gives
it room for all trades of the window, because a window that holds more than `Limit`
rows stops the watermark for as long as it does.

Left out: order updates, which only take a number and are sent; the eviction of
`_seen_ids` beyond 2000 entries (the claims make it unnecessary); the hour after
which an unrenewed stored watermark lapses; the broadcast itself, which belongs to
the backplane and is one step here.

### Market

One company, its row, its holders' positions and accounts, a lease and several
tickers. A tick is `Acquire`, `ReadPrice`, `EnginePrice` (or `FallbackPrice` when the
engine fails, without the band), `Matched`, `ReadDue`/`Release`,
`ReadEvents`/`ReadCompany`/`ApplyEvents`: each part is a transaction, rows the code
reads without a lock are read in one step and written in a later one, rows it reads
`FOR UPDATE` are read and written in the step that commits. `Lapse` ends the lease
during a tick, and the tick goes on. `PlaceAsk`, `CancelAsk` and `Fill` are the parts of
`Trading` that touch the same rows. A split doubles the holdings and the frozen
shares; the order keeps its quantity, so afterwards more is frozen than is offered.
`EventsOnce` and `SettlingExact` are stated for one ticker at a time: two that overlap
may apply an event twice, since nothing locks the event's row. `Batches` leaves open in which
order events of one date come, as `ORDER BY ex_date` does.

### Tasks and RewardLedger

One user's rows and several requests, each a sequence of reads, flushes and commits
as in `record_event`, `checkin`, `claim_task` and the challenge route.
Progress rows are not locked: `Merged` writes the columns the request changed over
whatever is there, as SQLAlchemy does. What keeps a reward from being paid twice is
the version of the `users` row, which every payment writes (`MayPay`). `Midnight` lets a
request finish on another day than it began.

A check-in reads the streak without a lock and writes it by the statement its flush makes of the
change (`Statement`): the first one inserts a row, which fails if another has inserted it
meanwhile, and an UPDATE leaves out what did not change. A streak of 1 that starts again at 1
so writes `last_checkin_date` alone, over whatever is there (`StreakRow`). When a check-in of its own
day and one of the next were committed before it, the row ends with their streak and its day;
`streak.late` remembers that and `StreakHonest` excepts it; section 7 says what follows from
it.

### Connections, Backplane, Mentor

`Connections`: the sockets of one worker with the tasks of each. The writer first
looks into both queues, then waits on both at once; when both answer, what it does
not send now it sends next, and a wait that loses is cancelled (`Get`, `Resume`).
`SendFails` is a send that times out or fails; a full reliable queue starts a task
that closes the socket (`DisconnectOnOverflow`). `sent` and `received` are ghosts: what was
offered to a socket's two queues and what its client was sent of each, which the
properties compare.

`Backplane`: the bridge of one worker. `Change` and `Notify` are a join or leave and
its callback, which waits for `_sub_lock`; `Reconnect` is the loop, step by step through
`_activate_pubsub`; `Relay`, `ListenerFails` are the listener; `Outage` and `Return` are
Redis. A call to Redis adds to a subscription and never replaces it, so a room subscribed by
a call that was under way stays on the new subscription too. A listener
lives as long as its subscription has rooms: redis.asyncio's `listen()` returns when nothing is
subscribed, so the one of `start` never reads anything (`BackplaneInit`, `Activated`), one whose
last room empties ends (`ListenerEnds`), and no later subscription starts another. Redis-py
connects a broken subscription again for a call that subscribes (`Renewable`).
`missed` holds the rooms that got their first client while a reconnect awaited the
subscription of the others: they stay deaf until they change again
(`backplane.py:217`), and the properties except them by name. `BridgeCarries` is about what is
subscribed and told; that somebody reads it is `HeardAgain`, for a room with clients while the
worker falls back and until it is heard once, and `RoomsHeard`, for any room, which the code
does not keep (the run `deaf`).

`Mentor`: one socket, its reader, the task of each question, the history and the
client's store. `Run` is a task from `await` to `await`; a superseded task gets its flag
and its cancellation, and whichever it meets first decides what it sends and saves.
`HistoryHonest` says what the code keeps: a reply that is in part only is saved when its provider
or the socket failed, never when it was stopped. Two exceptions are part of the
properties because the code has them: the store appends a late piece to the next
bubble once a user has stopped a reply (`halted`), and a queue that drops the message
that ends a reply leaves the client waiting (`EndLost`).

### Contests, Sessions, RateLimiter

`Contests`: requests that load a contest at the route's start and act on it later.
`Activate` generates companies, news and posts and writes the record of it into the
config; `Update` writes the whole config back if the one it read was not generated. When such
an edit overlaps an activation the record is lost (`mixed`), the next activation
collides on the companies' unique symbols and is rolled back, or, if the edit changed
the industry, adds a second set.

`Sessions`: accounts, tabs, tickets with their time to live, the user cache of
the handshake and the revalidation cache of the heartbeats, per worker, with time in
ticks. `Switch` is an administrator who locks or unlocks; a query takes at most
`QueryTime`. `Spoken` is how long after a lock something may still speak for the account: the
last tick of an entry of either cache, or a query that was under way; `Grace` adds two
heartbeats and a check, which is how long a locked account may keep a socket. Left out: the
caches' size limits.

`RateLimiter`: a counter with an expiry in Redis, or in memory when Redis does not answer. A
login peeks both keys and records only a failure; a question to the mentor records and
is refused above the limit. Every hit renews the expiry. The history `granted` is the set of
hits of a key, told apart by their time and their number, `Recent` those within its window.

### TokenBucket and Budget

`acquire` command by command: `SET NX PX` of the lock, `GET` of the tokens and of the
stamp, the two `SET`s, the release. `Failure` is a Redis command that fails, `Wake` a sleep
that ends, `Abandon` a coroutine that is cancelled. `Later` of two
times models clocks that differ and stamps that are set back. The history `ledger` counts what was
spent, the ticks that were refilled twice (a stamp that was overwritten by an older
one or never written) and whether the lock lapsed under its holder; `Budget` with
this refinement says that nothing else is ever spent.

### Answers, Content, AiEngine

`Answers`: a question goes from the gateway to the engine, which takes a token,
asks the model, checks the draft (`SocraticClean`: the policy's patterns; `Grounded`: its numbers; the judge),
retries, and falls back to its bank; the gateway tells the answer, or composes one itself
when the engine is off, fails or is late. A draft is three fields, each a sentence that asks
or not, says one of five things and is grounded or not: what the checks tell apart. Two are the
questions and the tip of a Socratic reply; the third, `note`, is its disclaimer, which the
model writes, the player is told and no check looks at. `Screened` therefore speaks of the
first two and says so. What counts as a
question is the policy's own idea of it (`policy.py:43-47`), which also takes a statement that
opens like a question for one; `Forbidden` does not see more than that. Model
and judge are blocking calls, so while one coroutine is in such a call no other of that
process moves.

`Content`: `Crawl`, `Look`, `Push` with the seen keys; `Start`, `TakeToken`, `Make` or
`Render`, `Post`; and the gateway's `Check`, `Commit`, `Rollback`. `Die` ends a job, which is
queued again.

`AiEngine` composes them: the web process's askers and the worker's jobs are the
takers of one `TokenBucket`.

## 4. Runs

| Run | Instance | Shows |
|---|---|---|
| `book` | 2 traders with 80 and 1 share, 1 pass, 2 orders of 1 or 2 shares, limit 32 or market, prices 16 and 32, 1 tick, 1 reward, 1 penalty of 70 | escrow of cash and shares with the backing of settling cash, no share and no cent lost, limits and freezes, penalties within means |
| `passes` | 2 traders, 2 passes, 2 orders of 2 shares, liquidity 1, 1 database error, fair | order life, trust in peeked versions, finality, passes end, market orders finish |
| `accounts` | 3 requests, 4 penalties, 3 tiers, 4 ticks; 2 tickers, 1 holder with 2 shares and 1 sell order, a dividend, a split and a broken event, 3 days, 1 lapse, 1 failure | risk score, reward, lock, buys; accounts cover what is promised, events once |
| `fills` | 2 workers, both poll, one matches; 2 trades of one user, lookback 1, 2 ticks, 1 crash, failed call or slow leader, each claim lapses once, fair | one announcement per claim, numbers, no trade forgotten |
| `feed` | 2 workers, 2 prices, 2 days, 1 expiry, crash, failed call and lost snapshot, at most 2 faults together, fair | unique terms, the session's continuity, the price shown |
| `quests` | 2 requests at a time and 3 in all, 8 tasks, 2 events, 1 challenge, 3 days | meta tasks, streaks, completions, the ledger |
| `realtime` | a socket with queues of 1 and 3 posts; 2 rooms and 2 clients with an outage and a failed call; 2 questions of 2 pieces with queue 2, 1 stop, 1 break; fair | queues, bridge, replies, and their liveness |
| `gateway` | 2 contests and 4 requests, 2 at a time; 2 tabs of an account switched twice; 2 logins and a player's questions with an outage | content and its record, locked accounts, causes, limits |
| `answers` | 2 questions and 2 jobs on 2 buckets of burst 1, a lock of 1 tick, 1 retry, 4 sentences | screens, budget, answers, news and items once |
| `twice`, `orphan`, `deaf` | small; `deaf` is the instance of `realtime` | a documented statement the code does not keep, see 7 |

The bounds are chosen so that the hard cases happen. In `book` a buy of 2 against
a sell of 1 gives a partial fill whose rest is filled by the market maker, by a
later pass or cancelled; the two prices make a market buy's freeze too small
(16 to 32), so `LeaveBook` and the capped maker price occur; liquidity 2 and
quantity 2 exhaust a pass; a deduction of 70 exceeds what is left of 80 once a buy is
placed. With tax and fee of 1/4 and prices that are multiples
of 16, freezes are whole cents, the domain on which the claims about cash are made (see
`Trading` in 3). In `passes` liquidity 1 makes every pass end after one
share, so that two passes meet repeatedly on one order of 2. In `accounts` a score of
3 is the cap, 4 penalties go beyond it, and the tiers 0, 1 and 2 ticks let a lock
run out, be extended and be cleared; three requests are a penalty, a second one
computed from the older score, and a buy or a clear between them. In `fills` two
trades are what a watermark needs to pass one of them; two polls and a pass are three
tasks that may hold one row at once; all messages go to one user, so that they
compete for one counter. In `feed` two workers suffice for a successor and a return,
and two days for a session that must close at the price shown last. In `quests` three
requests are two that overlap and one that comes after; a streak of 2 needs a
midnight between two check-ins, and three days a gap. In `realtime` queues of 1 overflow
with the second message, and two questions are a reply and the one that supersedes it. In
the market of `accounts` the random walk stands still (`Move`), so the price moves by the
dividend and the split alone: it only scales what sales bring, while every day's end settles
some, the three events are one batch of which one fails, and the one sell order may come
before the split or after it, be filled in parts and be cancelled. In `gateway`
one contest's deletion and re-creation, an edit within an activation and a second
activation take four requests; times to live of 1, 2 and 3 ticks keep ticket, user entry
and check apart. In `answers` one burst for two takers makes one wait, and a lock
of one tick lapses under a holder that a blocking call delays.

`MCAccounts`, `MCRealtime` and `MCGateway` hold components that share no variable; a behaviour
exercises one of them while the others stay at rest, which loses no behaviour of any. `MCAiEngine`
does the same with four casts (one question end to end; two questions; a question and a
batch; two jobs), each a set of actors that act on one another.

Deadlock is checked in `fills` and `twice`, where loops never end. The other
instances end when their bounds are reached.

Fairness. `passes` assumes that a pass in progress continues (`WF` of each
pass: the coroutine is scheduled and the database answers) and that the tick keeps
starting passes while there are open orders (`WF` of `StartPass`: the loop of
`market_sim.py` never stops). `feed` assumes that every worker's loop goes on, that
Redis and the database answer in the end and that the lock of a process that is gone expires
(`PX` in the script). `fills` assumes the same
lock expiry, that the poll loop of every worker comes round and that a push that has
begun continues. `realtime` assumes that the event loops of the worker and of the client run
every task, that a writer's send ends or times out (`wait_for` in the code), that the
reconnect loop, which never ends, comes round, and that Redis comes back. `answers` assumes
that time passes and that a coroutine of the engine and of the gateway that can go on does. No fairness
is assumed of users, failures, expiries, crashes or administrators. Every other property is a safety property.

## 5. Proofs

All proof modules follow the same argument: a strengthening of the properties (the
module's `...Inv`) holds initially, every action preserves it (one lemma per
action), and the properties follow. Nothing is assumed but the assumptions on the
constants, which every run evaluates. TLC checked each strengthening as an
invariant before it was proved.

Assumptions that carry weight: users and tasks are finitely many; fee and tax
together are at most half of the price (`RatesAssumption`; in
`core/config.py` they are 0.15 % and 0.1 %), without which a seller could owe more
than a sale brings; a higher score never means a shorter lock (`DurationMonotone`);
time goes on at least once (`MaxTime > 0` in `TradeNotifier`), the model has a
sentence to say (`Sentences # {}`); and of the tasks (`TasksAssumption`) that events
never name a meta task and name at most one onboarding and one daily task, as
`EVENT_TASK_CODES` does, and that neither the check-in task nor the ranked task is
a meta task. Of the gateway: there is something to choose for a contest (`Options # {}`),
logins are finitely many, limits and windows are positive, and a key belongs to an account, an
address or a player's questions. Of the realtime layer: a queue has room for one message
at least, and the two names of a lock's other holders (`Nobody`, `Activation`) are no client's.
Of the market and the prices: there is a first day (`MaxDay > 0`), corporate events are finitely
many, and a split's ratio is a positive whole number.

- `SumProofs`: what `SumFunctionOnSet` and `FoldLeft` of the community modules
  compute, without induction. `LeastMember` says that a set of subsets of a finite set has
  a smallest member (the library's well-founded orderings prove it with sets in the
  place of predicates), so a lemma about all finite sets is proved by refuting its
  smallest counterexample. Since the fold is the entry of a table that `CHOOSE` picks,
  each proof shows that the table exists and that two tables agree. From this:
  a sum is a number, changes by what one member changes, and does not see members
  that add nothing. The same for folds over the places of a sequence.
- `LedgerProofs`, the core: `IInv == TypeOK /\ OrderLife /\ PeeksTrusted`. `OrderLife`
  alone is not inductive: a fill is harmless only because the order it peeked is,
  if its version is unchanged, still open with something left (`PeeksTrusted`),
  and that in turn needs that every rewriting of an order raises its version and
  that a new id was never peeked. The lemmas `BuyFilledRewrites`,
  `SellFilledRewrites`, `CancelledRewrites` say that of each row operator once.
  Proved: `TypeCorrect`, `LifeOfOrders`, `VersionsSuffice`, `PassesActSoundly`,
  `FinalForGood`, for any number of users, passes and orders and any prices and rates,
  of `Trading` alone.
- `LedgerProofs`, the books: the same and the books, of `Trading` *with* penalties.
  `LedgerInv` adds to `IInv` that a user's frozen shares are the sum of what the open
  sells have left and are there (`ShareBook`), that the shares of all users are what they
  were (`SharesConserved`), that settling cash is the sum of the unsettled sales, none of
  which is of a later fill (`SaleBook`), and that frozen cash is at least the sum of what the
  orders hold frozen, and exactly that for a user no penalty has struck (`CashBook`).
  Every action moves a book in one of a few ways (two users trade, the maker sells or
  buys, a pair is cancelled, nothing is filled, a request); one lemma
  per way and book says what the sum becomes. Proved: at any prices and rates `Ledger` (the books of
  shares and of sales), `SharesEscrowed`, `NoShareLost`, `PassesSurvivePenalties` and
  `FinalDespitePenalties` (the two properties the `passes` run checks, under penalties); and
  where orders begin and stay in whole cents (`WholeCents`, `WholeFreezes`, see below)
  `CashEscrowed` and `WithinMeans` (the cascade of `apply_penalty` collects at least what is
  missing, whichever buys give). `CashBook` is an invariant of the model at any rates, but beyond
  whole cents the model is not the code, so nothing is stated from it there.
- `LedgerProofs`, the money. `Created` is what a step adds to the accounts and the house
  together, and each way of moving a book has one lemma for it (`...Money`). A fill splits an
  amount over two columns that are rounded each on its own, and so does a penalty that
  reduces an order. The two roundings neither make nor lose a cent when one column is
  whole cents (`RoundPairWhole`), which is the case when an open buy holds whole cents a share
  (`WholeFreezes`). Where orders begin so (`WholeCents`, a condition on prices and rates
  only) a fill keeps it (`BuyFilledWhole`), so it lasts until somebody pays a penalty
  (`FreezesStayWhole`), and with it the exact sum (`CashIsConservedUntilStruck`). A penalty may
  break it, since it gives back the limit price without the fee that was frozen on it;
  `CashIsConserved` covers the runs with penalties in which it does not, and `book` is one.
- `LedgerProofs`, the terms. Where fees and taxes of
  limits are whole cents too (`WholeTaxes`), a sell's limit is honoured to the cent, and an open buy
  has frozen at least its
  limit and the fee on it, or something if it is at the market, for every share that is left
  (`Agreed`); fills and penalties keep that, and then no fill costs more than its shares froze:
  `TermsAreHonoured`, which is `TermsHonoured` on the domain of `book`. `RowWritten` lists what
  a step may write to an order, and serves both invariants.
- `AccountProofs`, the lock: `IInv` adds that a fresh session knows the row as it is
  (`Knows`), that a penalty's score is at most the account's, which only grows,
  that the lock in force is at most what the present score would give, and that the score
  is the capped sum of the recorded events. With `DurationMonotone` a penalty that is
  applied never shortens a lock. Proved: `TypeCorrect`, `OneReward`, `LockStands`,
  `BuysRespectLock`, `ViolationsCount`, for any number of requests and any tables.
- `AccountProofs`, the market: with one tick at a time whoever is in a tick holds the lease
  (`TickersAlone`), and then nobody has settled or applied meanwhile what a transaction has read
  (`WorkKnown`): a release settles open sales only, a batch holds only events that are not applied.
  When ticks overlap, a release may find its sales settled, but it takes no more than the
  account waits for, so what is left is covered by the sales left open (`SaleSettles`,
  `OneRelease`). A batch of events is a fold over a sequence; `BatchOf` shows on its table that,
  whichever of its events fail, it touches no settling cash, thaws no share and freezes none that is not
  in the position. Proved: `AccountsStayCovered`, `EventsAppliedOnce`.
- `PriceFeedProofs`, the election: the invariant speaks of the terms *told* to processes
  together with the replies that are still under way (`Told`): all are at most
  the fence counter, agree on their process, and the present counter's term, if
  told and if the lock is held, is its holder's. Proved: `TypeCorrect`,
  `TermsAreUnique`, for any set of workers.
- `PriceFeedProofs`, the session: every step of the broadcaster is a step of the election or
  leaves it alone (`FeedIsElection`), which gives `FeedElects`. `FeedInv` says that while no
  lock expired under a live leader whoever leads, or is about to be told so, holds the lock
  (`LeadersHold`); where the broadcaster is by where its election is (`Places`); and that, while
  no snapshot got lost either, a leader that has loaded holds the session that is shown, and so
  does Redis whenever nobody is about to store it (`SessionKept`). A tick computed from that session
  goes on with it. Proved: `SessionContinues`.
- `TradeNotifierProofs`: `AnnouncedOnce` counts messages sent and is not inductive,
  because a task past its claim will send one more. `Budget` counts those tasks
  (`Holders`) too and sets against them the claim that still stands, the claims
  that lapsed and the calls that failed (`Credit`). `NumbersTellLoss` needs where a number can
  be: of the numbers a user's counter has given, each is in one message or in the hands
  of one task, for a trade of its batch it has not sent (`Sound` and its parts); the
  batch is numbered in the order of its rows, each rank once, and with no crash a number
  in hand is sent. Proved: `AnnouncedOnceHolds`, `NumbersTellLossHolds`, for any number of
  workers, trades and users and any bounds.
- `ServicesProofs`, tasks: progress rows have no version, so `TasksInv` says what a request may
  rely on while others commit. Rows only grow (`Grown`): the row a request read is
  still there, of its task and period, and what it saw completed stays so. Its draft fits the
  rows, claims nothing, and completes a meta task only over what the session sees completed
  (`DraftOK`); a check-in's streak has all its days but its own, or was overtaken (`StreakReady`), and
  what it stores has them all (`StoredHonest`); and as long as
  its users row is fresh, what a claim has found unclaimed is unclaimed (`ClaimOK`),
  because everyone who claims writes the users row. `CommitOf` says of a commit, a fold over the draft,
  that it records every write of the draft and nothing else. Proved:
  `TasksInvariant`, `MetaTasksDeserved`, `StreaksHonest`, `CompletionsStick`, and
  `PaidOnceOnly`, the refinement: paying a claim or a challenge is a step of
  `RewardLedger`, and every other step leaves its variables alone.
- `GatewayProofs`, contests: an activation commits what it computed from its one reading of
  the row. `ContestsInv` adds to `RecordKept` and `OpenHasContent` what a pending request may
  rely on (`Pending`) and that a contest nobody edited during an activation records
  what its options generate (`RecordMade`): a second activation picks the same symbols
  and fails on the unique index. Proved: `ContentStaysRecorded`.
- `GatewayProofs`, sessions: `SessionsInv` dates every answer that speaks for or against an account:
  a cached entry, or a query under way, that contradicts the present status is from before
  the switch. The two bounds (`LockedOut`, `ForCause`) are then sums of times to live, two
  heartbeats and a query. The proof corrected both: they had been stated for the run's
  times and were off for others. Proved: `LockedAccountsLeave`, `SessionsEndForCause`, for any tabs,
  workers and times.
- `GatewayProofs`, the rate limiter: `WithinLimit` is not inductive, because logins that passed the peek
  will record hits nobody can refuse. `KeyInv` counts them (`Passed`) with the hits of the
  window against the room of a key; says that in Redis a counter outlives what it counts (`InOne`)
  and in memory every hit is of the open window or of the one before (`InTwo`); and that
  no counter lasts longer than a window since its last hit (`Renews`). Proved: `LimiterStarts`,
  `LimiterSteps`, `LimitsAreExact`, for any logins, accounts, addresses, limits and windows.
- `ServicesProofs`, the limiter: `IInv` says where earned credit is: in the bucket, or in the
  hands of the one taker that holds the lock, between its reads and its writes
  (`CreditEarned`, `HandsEarned`), unless the lock lapsed; with the times in the past
  (`TimesPast`) and a holder that is alone (`HolderAlone`). Proved: `LimiterInvariant`,
  `BudgetIsKept`, and `LimiterKeepsBudget`, the refinement of `Budget`. Every step of the
  engine is, on the limiter's variables, a step of the limiter or none
  (`EngineUsesLimiter`), so the whole engine implements `Budget` (`EngineKeepsBudget`).
- `ServicesProofs`, questions and content: `AnswerInv` ties the engine's record (`Checked`: a Socratic reply
  before the judge or given as the model's has passed the checks) to what the
  gateway tells (`Agreed`), of the questions and the tip. `ContentInv` says that an article that
  is new to a crawl was seen, is
  in that crawl's hands alone and neither listed nor trimmed, and that as long as no two
  posts overlapped the one transaction that runs holds rows new to the table.
  Proved: `AnswersAreScreened`, `ContentInvariant`, `NewsIsListedOnce`,
  `ItemsStoredOnce`, for any number of questions, jobs and articles.

- `RealtimeProofs`, sockets: `NoSilentLoss` does not say what the writer holds when.
  `ConnectionsInv` does (`HandsOf`): while it waits it may hold one message of each queue, while
  it sends only the one it sends, so what is put back in front is what came first. A
  registered socket is `Serving`, and one whose reader has not begun is as it was created
  (`Unused`), so nothing was sent to it before it counts. Proved: `NothingLost`.
- `RealtimeProofs`, the bridge: `BackplaneInv` says that there is at most one listener, of
  the subscription in use (`OneListener`), that besides it at most the one that is being installed is
  open (`OneSubscription`), that ids wait in an inbox in order and once (`Deliverable`), and whose
  call holds the lock (`LockHeld`). With calls under way the rooms need not be right;
  `CallsRight` says that such a call asks for what is wanted now, or that another task of the
  same room waits to ask again, and `RoomsRight` that a room without calls is right. Proved:
  `BridgeAlwaysCarries`. The proof corrected `Subscribe`, which had replaced the rooms of the
  subscription.
- `RealtimeProofs`, the mentor: `MentorInv` follows a reply from the request to the bubble.
  Questions are read in order (`AskOrder`), only the last task runs uncancelled (`Tasks`), nothing of
  an older reply follows the start of a newer one (`WireRight`), and a question that was asked
  when nothing had been halted finds every earlier reply over and off the wire
  (`EarlierOver`, `Undisturbed`), so the bubble it joins is its own (`LastBubble`). Proved:
  `RepliesWhole`.

Only model-checked, and why:

- Liveness (`PassEnds`, `MarketOrdersFinish`, `EveryTradeAnnounced`, `PriceShown`,
  `HeardAgain`, `ReplyEnds`, `ReliableOrClosed`, `AlwaysAnswered`): it rests on fairness and `ENABLED`, which
  the prover does not handle.

## 6. Hazards

`PROJECT.json` lists what in this code is hard to test, at its line, with the
properties that cover it. A hazard without a property says why: the code promises
nothing there (ghost members, the depth of a tick, a price written over a split's), a
timing assumption excludes it (the blind watermark, the poll's limit) or it is left to
the database (deadlocks).

## 7. Where documentation and code differ

Three are runs that are expected to fail:

- `orphan`: a penalty that cancels a limit buy gives back quantity times limit
  price but not the fee buffer, and then zeroes the order: the rest stays in
  `users.frozen_cash` for good.
- `twice`: a trade another worker announced is dropped from the poll's batch but not
  noted in `_seen_ids`, and the window always contains the watermark's own row; when
  no newer trade comes for the 300 seconds of the dedup key, the leader announces it
  again, which the comments of `trade_ws.py` exclude.
- `deaf`: a worker that starts before its first client, or whose last room empties, has no
  listener any more and never starts another: it subscribes the rooms of later clients, says
  it is live, and hears nothing of other workers until it falls back for another reason
  (`backplane.py:208-209` promises that it receives).

The others were met while modelling; the models have them as the code does, and a
property that would forbid them says what it excepts.

Trading and penalties

- `cash_balance >= frozen_cash`, stated in `settlement_service.py:16` and as a CHECK in
  `models/user.py:34-36`, fails with the first buy of more than half of the cash, because
  placing moves the money out of `cash_balance`.
- The liquidity depth is a budget per pass, and every placed order runs a pass of its
  own (`trading_service.py:442-443` speaks of one tick).
- A sell that passed the gate before a penalty committed is placed after it, because it
  never writes the account's row (`penalty_service.py:7`).

Market and prices

- No broadcast carries the fencing token that `leader.py:9-10` requires, and a leader
  whose lock expired during the database read still broadcasts.
- `update_all_prices` overwrites the price of a split that was applied while it awaited
  the engine, and the day's reference price (`_DAY_REFERENCE`, `corporate_events.py:10`) is
  not adjusted for a split.
- Two ticks that overlap may apply a split or a dividend twice. An event that fails in the
  database rolls the whole batch back. A split leaves open sells at their old
  quantity, with more shares frozen than the order will release.
- Prices of contest companies never move: `update_company_price` has no callers.

Rewards

- A check-in that starts a streak again at 1 leaves `current_streak` out of its UPDATE
  (`task_service.py:321`). Overtaken by one of its day and one of the next, it takes their
  longer streak back to its own day, the next day counts twice, and `streak_3` is rewarded
  after two days in a row (`seed_db.py:568-569` says three); five check-ins
  over four days suffice. Without the exception `late`, `StreakHonest` fails in `quests`.
- At the cap of 100 a check-in does not write the `users` row, so its version does
  not stop a check-in that overlaps.
- The documented "+2 points" of a challenge are the +1 of a check-in in the code.
- Two first events at once insert two progress rows of a task without a period (NULLs
  are distinct in `uq_user_task_period`), after which reading the row raises.

Realtime

- A socket that disconnects while it joins stays a member of the room
  (`connection_manager.py:370`) and is only sent to in vain.
- A room that gets its first client while a reconnect awaits its subscriptions stays
  deaf to other workers until it changes again (`backplane.py:217`).
- A reply whose provider or socket failed is saved in part, contrary to the comment at
  `mentor_ws.py:402`; one that is cancelled during the save is lost although it was shown
  whole; a late piece of a stopped reply joins the next bubble; the store stays waiting
  when the socket closes.
- A tab that reconnects presents its consumed ticket and cannot succeed until the page
  fetches another (`useWebSocket.ts`); refusals at the handshake arrive as 1006, which the client
  retries; an entry of the revalidation cache from before an unlock closes the socket with
  1008, which it never retries.

Gateway services

- An edit that read a contest before its activation writes the record of the
  content away; activating again then fails on the symbols or doubles the content
  (`docs/contests_plan.md:258` promises it is generated once). A contest that ended or
  was deleted without content can be activated; one that ended with content answers 200
  and stays ended; an administrator may open a contest that has none.
- The mentor's quota is renewed by every hit, refused ones included: a user who asks
  steadily below the limit is refused after the tenth question for as long as he goes on.

AI engine

- The disclaimer of a Socratic reply is written by the model (`socratic_mentor.py:171`) and told
  to the player, and neither the patterns nor the check of its numbers nor the judge sees it,
  although `socratic_mentor.py:6-7` and `:12-13` speak of any output and of every number.
- The gateway gives up after 25 s on an engine that may wait 90 s for a token; the late
  answer still spends it. A blocking model call lets the 3-second lock lapse. A
  Redis failure between the two writes refills the same ticks twice. Worker and API
  share bucket names but not their rates.
- Concept and strategy ask the model once more without a token after a refused
  `acquire`, leave some fields of their replies unscreened, and pass a strategy through whole
  when its name is in the bank; the gateway posts to `/api/v1/mentor` whatever the mode.
- A batch fails whole on a refused token or a Redis error, though `scenario_tasks.py:9-11`
  promises templates, and is never sent again, though `content_sync.py:62` says so. A
  crash between marking an article as seen and listing it loses the article for 30 days;
  two ingests at once may store an item twice (no unique index).

## 8. Not modelled

- Row locks as such. The database breaks a cycle by failing a transaction; the models
  have that failure, not the lock table.
- Texts: prompts, replies, templates, the mentor's rule engine, news. They are members of small
  sets that tell apart what the checks tell apart.
- Prices as random walks, bars, indicators, risk metrics, portfolio values and
  leaderboards: stateless arithmetic over reads.
- The evaluation of four-decimal quantities; companies other than one per book.
- Registration, tokens, profiles, social, saves, reports and the admin's lists: reads
  and single-row writes of one request.
- Mentor messages other than questions and cancellations (concepts, strategies,
  challenges over the socket), `seedHistory`, order updates of the trade channel,
  snapshots for clients that join the price channel.
- Eviction by size of the caches of `realtime/auth.py` and of `_seen_ids`; the time to
  live of the seen-article keys and the look-back of the titles' comparison.
- The death of a worker while it awaits the sync endpoint's answer.
- The frontend beyond the socket hook and the mentor store; the notebooks and scripts.
