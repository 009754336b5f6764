----------------------- MODULE TradeNotifierProperties -----------------------
(***************************************************************************)
(* What the notifier promises: no trade twice, none forgotten, and numbers *)
(* that let a client tell what it has missed.                              *)
(***************************************************************************)
EXTENDS TradeNotifier

Stage == {"idle", "load", "read", "check", "claim", "number", "send", "save", "keep"}

\* Every variable has the type the code gives it, and a number that waits is
\* the number of a trade that waits.
TypeOK ==
    /\ now \in 1..MaxTime
    /\ created \in [Trade -> 0..MaxTime]
    /\ open \in [Worker -> Trade \cup {NoTrade}]
    /\ \A w \in Worker, k \in Kind :
        /\ task[<<w, k>>].at \in Stage
        /\ task[<<w, k>>].batch \subseteq Committed
        /\ task[<<w, k>>].seq \in [Trade -> Nat]
        /\ \A t \in Trade : task[<<w, k>>].seq[t] > 0 <=>
                            task[<<w, k>>].at = "send" /\ t \in task[<<w, k>>].batch
    /\ mark \in [Worker -> 0..now]
    /\ seen \in [Worker -> SUBSET Committed]
    /\ leading \in [Worker -> BOOLEAN]
    /\ localSeq \in [Worker -> [User -> Nat]]
    /\ lock \in Worker \cup {Free, Gone}
    /\ claimed \subseteq Committed
    /\ counter \in [User -> Nat]
    /\ stored \in 0..now
    /\ \A t \in Trade : sent[t] \in Seq(Nat \ {0})
    /\ dropped \subseteq Committed
    /\ lapses \in [Trade -> 0..MaxLapses]
    /\ {crashes, faults, handovers} \subseteq Nat
    /\ crashes + faults + handovers <= MaxTroubles

\* The claim comes before the message: however pass and poll, two leaders or a
\* restarted worker meet, a trade is announced a second time only when its
\* claim has lapsed or a call to Redis has failed.
AnnouncedOnce ==
    \A t \in Trade : Len(sent[t]) <= 1 + lapses[t] + faults

\* The messages to u: those that were sent, the i-th of a trade at place <<i>>,
\* and those a task is about to send.
SentTo(u) ==
    UNION {{[trade |-> t, place |-> <<i>>, seq |-> sent[t][i]] : i \in DOMAIN sent[t]} :
           t \in {x \in Trade : Owner[x] = u}}
WaitingFor(u) ==
    UNION {{[trade |-> t, place |-> h, seq |-> task[h].seq[t]] :
            t \in {x \in task[h].batch : Owner[x] = u}} :
           h \in {g \in Worker \X Kind : task[g].at = "send"}}
Messages(u) == SentTo(u) \cup WaitingFor(u)

NumbersTo(u) == {m.seq : m \in Messages(u)}

\* While Redis answers, no two messages to a user bear the same number, and
\* without a crash every number given out is on its way: a client that sees a
\* gap that stays has missed a message.
NumbersTellLoss ==
    /\ TypeOK
    /\ faults = 0 =>
          \A u \in User :
              /\ \A m, n \in Messages(u) : m.seq = n.seq => m = n
              /\ NumbersTo(u) \subseteq 1..counter[u]
              /\ crashes = 0 => NumbersTo(u) = 1..counter[u]

\* A committed trade is announced in the end, by its pass or by the poll of
\* some leader, unless a worker crashed between its claim and its message.
EveryTradeAnnounced ==
    []<>(\A t \in Committed : sent[t] # <<>> \/ t \in dropped)

\* As trade_ws.py says of the claims: a trade is never announced twice.
NeverTwice ==
    \A t \in Trade : Len(sent[t]) <= 1
=============================================================================
