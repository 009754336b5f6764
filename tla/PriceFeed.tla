------------------------------- MODULE PriceFeed -------------------------------
(***************************************************************************)
(* The price broadcaster (realtime/price_ws.py) on top of its election:    *)
(* the leader reads the prices, works out the tick of the day's session    *)
(* (open, high, low, previous close), broadcasts it and keeps it in Redis, *)
(* where the next leader finds it.                                         *)
(*                                                                         *)
(* One symbol.  A step of the election that the broadcaster has nothing to *)
(* do with is the step of LeaderElection.                                  *)
(***************************************************************************)
EXTENDS LeaderElection

CONSTANTS
    Price,       \* the prices the market may write
    MaxMoves,    \* bound: prices written
    MaxDay,      \* bound: simulated days
    MaxMisses,   \* bound: snapshots that do not reach the next leader
    MaxFaults    \* bound: faults of all kinds

ASSUME FeedAssumption ==
    /\ Price \subseteq Nat \ {0} /\ Price # {}
    /\ {MaxMoves, MaxDay, MaxMisses, MaxFaults} \subseteq Nat /\ MaxDay > 0

VARIABLES
    price,     \* companies.current_price
    today,     \* the simulated day
    feed,      \* of every worker: its broadcaster
    snapshot,  \* the tick in the Redis hash
    shown,     \* the tick the clients saw last
    moves, misses   \* counted up to their bounds

feedVars == <<price, today, feed, snapshot, shown, moves, misses>>
allVars == <<vars, feedVars>>

NoTick == [price |-> 0, day |-> 0, open |-> 0, high |-> 0, low |-> 0, prev |-> 0]

\* A broadcaster that has just started.  `tick` stands for _current, _session and
\* _last_price, which change together; `was` is was_leader.
NewFeed == [stage |-> "idle", was |-> FALSE, loaded |-> FALSE, tick |-> NoTick, seen |-> 0]

Becomes(w, next) == feed' = [feed EXCEPT ![w] = next]

Unfed == UNCHANGED feedVars

Larger(a, b) == IF a >= b THEN a ELSE b
Smaller(a, b) == IF a <= b THEN a ELSE b

MayFault == expiries + crashes + failures + misses < MaxFaults

-----------------------------------------------------------------------------
(* The loop *)

\* was_leader is read, then acquire is called.
Ask(w) ==
    /\ feed[w].stage = "idle" /\ Call(w)
    /\ Becomes(w, [feed[w] EXCEPT !.was = IsLeader(w)])
    /\ UNCHANGED <<price, today, snapshot, shown, moves, misses>>

Inherits_Never(f) == FALSE

\* A new leader, and a leader in its first round, takes the state over.
Inherits(f) == ~f.was \/ ~f.loaded

Hear(w) ==
    /\ Receive(w)
    /\ Becomes(w, [feed[w] EXCEPT !.stage =
           CASE ~(token'[w] > 0) -> "idle"
             [] token'[w] > 0 /\ Inherits(feed[w]) -> "load"
             [] OTHER -> "read"])
    /\ UNCHANGED <<price, today, snapshot, shown, moves, misses>>

Unheard(w) ==
    /\ MayFault /\ CallFails(w)
    /\ Becomes(w, [feed[w] EXCEPT !.stage = "idle"])
    /\ UNCHANGED <<price, today, snapshot, shown, moves, misses>>

\* _load_state_from_cache: without a snapshot the worker goes on with what it has.
Inherit(w, tick) ==
    /\ feed[w].stage = "load"
    /\ Becomes(w, [feed[w] EXCEPT !.stage = "read", !.loaded = TRUE,
                                  !.tick = IF tick = NoTick THEN @ ELSE tick])
    /\ UNCHANGED vars /\ UNCHANGED <<price, today, snapshot, shown, moves>>

Load(w) == Inherit(w, snapshot) /\ UNCHANGED misses

Miss == MayFault /\ misses < MaxMisses /\ misses' = misses + 1

LoadFails(w) == Inherit(w, NoTick) /\ Miss

\* price_source
ReadPrice(w) ==
    /\ feed[w].stage = "read"
    /\ Becomes(w, [feed[w] EXCEPT !.stage = "send", !.seen = price])
    /\ UNCHANGED vars /\ UNCHANGED <<price, today, snapshot, shown, moves, misses>>

FeedFails(w) ==
    /\ feed[w].stage \in {"read", "send"} /\ MayFault /\ TickFails(w)
    /\ Becomes(w, [feed[w] EXCEPT !.stage = "idle"])
    /\ UNCHANGED <<price, today, snapshot, shown, moves, misses>>

-----------------------------------------------------------------------------
(* Ticks *)

\* The session goes on.
Extended(tick, p) == [tick EXCEPT !.price = p, !.high = Larger(@, p), !.low = Smaller(@, p)]

\* A session opens: the close of the session before is the last price seen.
Opened(tick, p) == [price |-> p, day |-> today, open |-> p, high |-> p, low |-> p,
                    prev |-> IF tick = NoTick THEN p ELSE tick.price]

Quiet_Today(f) == f.tick.day = today

\* Within a session only another price is sent.
Quiet(f) == f.tick.day = today /\ f.tick.price = f.seen

\* _build_tick.
Built(tick, p) == IF tick.day = today THEN Extended(tick, p) ELSE Opened(tick, p)

\* process_snapshots, if the worker still believes to lead.
Send(w) ==
    /\ feed[w].stage = "send" /\ Broadcast(w)
    /\ LET tick == Built(feed[w].tick, feed[w].seen)
       IN  /\ Becomes(w, [feed[w] EXCEPT !.stage = "persist", !.tick = tick, !.seen = 0])
           /\ shown' = IF Quiet(feed[w]) THEN shown ELSE tick
    /\ UNCHANGED <<price, today, snapshot, moves, misses>>

\* _persist_snapshots; a failure is passed over.
Persist(w) ==
    /\ feed[w].stage = "persist"
    /\ snapshot' = feed[w].tick
    /\ Becomes(w, [feed[w] EXCEPT !.stage = "idle"])
    /\ UNCHANGED vars /\ UNCHANGED <<price, today, shown, moves, misses>>

PersistFails(w) ==
    /\ feed[w].stage = "persist" /\ Miss
    /\ Becomes(w, [feed[w] EXCEPT !.stage = "idle"])
    /\ UNCHANGED vars /\ UNCHANGED <<price, today, snapshot, shown, moves>>

-----------------------------------------------------------------------------
(* The environment *)

\* The market writes another price.
Move ==
    /\ moves < MaxMoves /\ moves' = moves + 1
    /\ \E p \in Price \ {price} : price' = p
    /\ UNCHANGED vars /\ UNCHANGED <<today, feed, snapshot, shown, misses>>

NextDay ==
    /\ today < MaxDay /\ today' = today + 1
    /\ UNCHANGED vars /\ UNCHANGED <<price, feed, snapshot, shown, moves, misses>>

\* Nobody has refreshed the hash for snapshot_ttl seconds.
SnapshotExpires ==
    /\ snapshot # NoTick /\ Miss
    /\ snapshot' = NoTick
    /\ UNCHANGED vars /\ UNCHANGED <<price, today, feed, shown, moves>>

Restart(w) ==
    /\ MayFault /\ Crash(w)
    /\ Becomes(w, NewFeed)
    /\ IF feed[w].stage = "persist" THEN Miss ELSE UNCHANGED misses
    /\ UNCHANGED <<price, today, snapshot, shown, moves>>

FeedInit ==
    /\ Init
    /\ price \in Price /\ today = 1
    /\ feed = [w \in Worker |-> NewFeed]
    /\ snapshot = NoTick /\ shown = NoTick
    /\ moves = 0 /\ misses = 0

FeedStep(w) == \/ Ask(w) \/ Hear(w) \/ (Evaluate(w) /\ Unfed)
               \/ Load(w) \/ ReadPrice(w) \/ Send(w) \/ Persist(w)

FeedNext ==
    \/ \E w \in Worker : \/ FeedStep(w) \/ Unheard(w) \/ LoadFails(w) \/ FeedFails(w)
                         \/ PersistFails(w) \/ Restart(w)
    \/ (MayFault /\ Expire /\ Unfed) \/ (ExpireGone /\ Unfed)
    \/ Move \/ NextDay \/ SnapshotExpires

FeedSpec == FeedInit /\ [][FeedNext]_allVars

\* The loops go on, Redis answers, and the time to live passes.
FeedFairness == /\ \A w \in Worker : WF_allVars(FeedStep(w))
                /\ WF_allVars(ExpireGone /\ Unfed)

-----------------------------------------------------------------------------
(* What the clients see: a session that a change of the leader does not    *)
(* falsify, and the market's price in the end.                             *)

Ticks == [price : Nat, day : Nat, open : Nat, high : Nat, low : Nat, prev : Nat]

FeedTypeOK ==
    /\ TypeOK
    /\ price \in Price /\ today \in 1 .. MaxDay
    /\ feed \in [Worker -> [stage : {"idle", "load", "read", "send", "persist"},
                            was : BOOLEAN, loaded : BOOLEAN, tick : Ticks, seen : Nat]]
    /\ snapshot \in Ticks /\ shown \in Ticks
    /\ moves \in 0 .. MaxMoves /\ misses \in 0 .. MaxMisses

\* The session that is shown goes on from tick to tick: within a day its open and
\* previous close stay, its high and low take in every price shown, and a new day
\* closes the last one at the last price shown; across any number of leaders, as
\* long as no lock expires under a live leader and no snapshot gets lost.
SessionGoesOn ==
    /\ []FeedTypeOK
    /\ [][shown' # shown /\ shown # NoTick /\ expiries = 0 /\ misses = 0 =>
              IF shown'.day = shown.day
              THEN /\ shown'.open = shown.open /\ shown'.prev = shown.prev
                   /\ shown'.high = Larger(shown.high, shown'.price)
                   /\ shown'.low = Smaller(shown.low, shown'.price)
              ELSE shown'.day > shown.day /\ shown'.prev = shown.price]_allVars

\* The clients are shown the market's price in the end, as long as no lock
\* expires under a live leader.
PriceShown == <>[](expiries > 0 \/ shown.price = price)
=============================================================================
