--------------------------- MODULE MarketProperties ---------------------------
(***************************************************************************)
(* What the ticks of the market simulator have to keep.  A lease that      *)
(* lapses during a tick lets two ticks run at the same time: the           *)
(* properties that need one ticker at a time say so (OneTicker).           *)
(***************************************************************************)
EXTENDS Market

OneTicker == tally.lapses = 0

\* Every variable has its type.
MarketTypeOK ==
    /\ day \in 1 .. MaxDay
    /\ company \in [price : Nat, shares : Nat]
    /\ position \in [Holder -> [quantity : Nat, frozen : Nat]]
    /\ wallet \in [Holder -> [cash : Nat, settling : Nat]]
    /\ ask \in [Holder -> Nat]
    /\ sales \in Seq([user : Holder, proceeds : Nat, due : Nat, settled : BOOLEAN])
    /\ applied \subseteq Event
    /\ leader \in Ticker \cup {NoTicker}
    /\ ticker \in [Ticker -> [at : {"sleep", "price", "engine", "match", "due", "release",
                                    "events", "company", "apply"},
                              primed : BOOLEAN,
                              reference : [day : Nat, price : Nat],
                              seen : Nat, due : SUBSET Nat, batch : Seq(Event),
                              company : [price : Nat, shares : Nat]]]
    /\ paid \in [Event -> Nat]
    /\ tally \in [asks : 0 .. MaxAsks, lapses : 0 .. MaxLapses, failures : 0 .. MaxFailures]

\* Two ticks may release the same sales: what a user's account is still waiting
\* for is never less than nothing, and never more than the sales that no release
\* has touched (settlement_service.release_due, the lower bound of `release`).
SettlingCovered ==
    \A u \in Holder : wallet[u].settling \in 0 .. ProceedsOf(Unsettled(u))

\* One tick at a time: what waits is exactly the proceeds of the open sales, and
\* no sale is settled before its day (release_due is idempotent).
SettlingExact ==
    OneTicker =>
        /\ \A u \in Holder : wallet[u].settling = ProceedsOf(Unsettled(u))
        /\ \A i \in DOMAIN sales : sales[i].settled => sales[i].due <= day

\* One tick at a time: an event is applied as often as it is marked applied,
\* through failures, rollbacks and restarts (apply_due_events is idempotent).
EventsOnce ==
    OneTicker => \A e \in Event : paid[e] = IF e \in applied THEN 1 ELSE 0

\* The frozen shares cover the open sell order and belong to the position, a
\* split in between included: a fill always finds its shares.
AsksCovered ==
    \A u \in Holder : /\ ask[u] <= position[u].frozen
                      /\ position[u].frozen <= position[u].quantity

\* The account rows always cover what is promised of them: the money of the sales
\* that settle and the shares of the order that is open.
AccountsCovered == MarketTypeOK /\ SettlingCovered /\ SettlingExact /\ AsksCovered
=============================================================================
