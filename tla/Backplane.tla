------------------------------- MODULE Backplane -------------------------------
(***************************************************************************)
(* The Redis bridge of one worker (realtime/backplane.py): it subscribes   *)
(* to the rooms that have local clients, relays what other workers publish *)
(* and, when Redis fails, serves its own clients only until a reconnect    *)
(* loop has installed a new subscription.                                  *)
(*                                                                         *)
(* A step is what one task of the event loop does between two awaits.      *)
(* Redis is external: a server that goes down breaks every connection, and *)
(* a single call may fail while the subscription lives on.  A listener     *)
(* lasts as long as its subscription has rooms: the client library's loop  *)
(* of messages ends without an error when the last one is gone.            *)
(***************************************************************************)
EXTENDS Naturals, Sequences, FiniteSets

CONSTANTS
    Client,       \* local clients
    Channel,      \* rooms, each a channel of Redis
    MaxChanges,   \* bound: joins and leaves
    MaxMessages,  \* bound: messages published, by any worker
    MaxOutages,   \* bound: how often Redis goes down
    MaxFailures   \* bound: publish calls that fail while Redis is up

\* Who holds the lock when no client's call does.
Nobody == "nobody"
Activation == "activation"

ASSUME BackplaneAssumption ==
    /\ Nobody \notin Client /\ Activation \notin Client
    /\ MaxChanges \in Nat /\ MaxMessages \in Nat
    /\ MaxOutages \in Nat /\ MaxFailures \in Nat

VARIABLES
    present,     \* the manager's rooms
    notice,      \* every client's call of on_room_changed
    pubsub,      \* _pubsub: the number of a subscription, or 0
    task,        \* _task: the subscription its listener reads, or 0
    subscribed,  \* _subscribed
    fallback,    \* _fallback_mode
    status,      \* _status
    stopped,     \* _stopped
    lock,        \* _sub_lock: who holds it
    activation,  \* start and the reconnect loop, up to the end of _activate_pubsub
    missed,      \* rooms that changed unheard: after the activation had read them, or in
                 \* a call that failed
    opened,      \* subscriptions opened so far
    server,      \* every subscription: its connection, its rooms and what waits to be read
    listeners,   \* the subscriptions that live listener tasks read
    redis,       \* Redis is up
    outages,     \* how often it went down
    failures,    \* publish calls that failed while it was up
    changes,     \* joins and leaves so far
    relayed      \* how often every message reached the local clients

link == <<pubsub, task, subscribed, fallback, status, lock, activation, opened, listeners>>
bounds == <<outages, failures, changes>>
backplaneVars == <<present, notice, link, stopped, missed, server, redis, bounds, relayed>>

None == 0

\* Every subscription that may be opened.
Handle == 1 .. 1 + MaxOutages + MaxFailures

Populated == {room \in Channel : present[room] # {}}

\* A subscription on which calls succeed.
Alive(h) == h # None /\ server[h].open

-----------------------------------------------------------------------------
(* Losing the bridge *)

Scheduled_Never == activation

\* _schedule_reconnect: one loop at a time.
Scheduled == IF stopped \/ activation.pc # "none" THEN activation
             ELSE [pc |-> "sleep", handle |-> None, rooms |-> {}]

\* Local-only mode is entered and announced.
FallBack == /\ fallback' = TRUE
            /\ status' = "degraded"
            /\ activation' = Scheduled

\* publish_room: local clients first, then the other workers.
Publish(room) ==
    /\ ~stopped
    /\ Len(relayed) < MaxMessages
    /\ relayed' = Append(relayed, 1)
    /\ \/ /\ fallback
          /\ UNCHANGED <<link, server, failures>>
       \/ /\ ~fallback /\ redis
          /\ server' = [h \in Handle |->
                 IF server[h].open /\ room \in server[h].rooms
                 THEN [server[h] EXCEPT !.inbox = Append(@, [id |-> Len(relayed) + 1,
                                                             own |-> TRUE])]
                 ELSE server[h]]
          /\ UNCHANGED <<link, failures>>
       \/ /\ ~fallback /\ (~redis \/ failures < MaxFailures)
          /\ failures' = IF redis THEN failures + 1 ELSE failures
          /\ FallBack
          /\ UNCHANGED <<pubsub, task, subscribed, lock, opened, listeners, server>>
    /\ UNCHANGED <<present, notice, stopped, missed, redis, outages, changes>>

\* Another worker publishes.
PublishElsewhere(room) ==
    /\ redis
    /\ Len(relayed) < MaxMessages
    /\ relayed' = Append(relayed, 0)
    /\ server' = [h \in Handle |->
           IF server[h].open /\ room \in server[h].rooms
           THEN [server[h] EXCEPT !.inbox = Append(@, [id |-> Len(relayed) + 1,
                                                       own |-> FALSE])]
           ELSE server[h]]
    /\ UNCHANGED <<present, notice, link, stopped, missed, redis, bounds>>

\* _relay: a worker has served its own messages already.
Skips(message) == message.own

\* _listen reads a message.
Relay(h) ==
    /\ h \in listeners /\ server[h].open /\ server[h].inbox # <<>>
    /\ LET message == Head(server[h].inbox)
       IN  relayed' = IF Skips(message) THEN relayed
                      ELSE [relayed EXCEPT ![message.id] = @ + 1]
    /\ server' = [server EXCEPT ![h].inbox = Tail(@)]
    /\ UNCHANGED <<present, notice, link, stopped, missed, redis, bounds>>

\* _listen meets a broken connection.
ListenerFails(h) ==
    /\ h \in listeners /\ ~server[h].open
    /\ listeners' = listeners \ {h}
    /\ task' = IF task = h THEN None ELSE task
    /\ FallBack
    /\ UNCHANGED <<present, notice, pubsub, subscribed, stopped, lock, missed, opened,
                   server, redis, bounds, relayed>>

\* _listen comes to an end with the last room: nobody is told, nothing is scheduled.
ListenerEnds(h) ==
    /\ h \in listeners /\ server[h].rooms = {} /\ server[h].inbox = <<>>
    /\ listeners' = listeners \ {h}
    /\ task' = IF task = h THEN None ELSE task
    /\ UNCHANGED <<present, notice, pubsub, subscribed, fallback, status, activation, stopped,
                   lock, missed, opened, server, redis, bounds, relayed>>

-----------------------------------------------------------------------------
(* The rooms change *)

NoNotice == [pc |-> "none", room |-> "none", handle |-> None]

\* A task that asks for the lock gets it at once: nobody holds it or waits for it.
Free == lock = Nobody /\ activation.pc # "lock" /\ \A c \in Client : notice[c].pc # "lock"

\* The clients are counted again under the lock, whatever count the caller passed.
Wanted(room, now) == now[room] # {}

\* What c does once it has the lock: a call to Redis, or nothing.
Locked(c, room, now) ==
    IF Wanted(room, now) = (room \in subscribed)
    THEN /\ notice' = [notice EXCEPT ![c] = NoNotice]
         /\ lock' = Nobody
    ELSE /\ notice' = [notice EXCEPT ![c] =
                [pc |-> IF Wanted(room, now) THEN "subscribe" ELSE "unsubscribe",
                 room |-> room, handle |-> pubsub]]
         /\ lock' = c

\* join_room and leave_room, up to the first await of on_room_changed.
Change(c, room) ==
    /\ notice[c].pc = "none" /\ changes < MaxChanges
    /\ changes' = changes + 1
    /\ present' = [present EXCEPT ![room] = IF c \in @ THEN @ \ {c} ELSE @ \cup {c}]
    /\ \/ /\ pubsub = None \/ fallback
          /\ missed' = IF activation.pc = "subscribe" THEN missed \cup {room} ELSE missed
          /\ UNCHANGED <<notice, lock>>
       \/ /\ pubsub # None /\ ~fallback /\ ~Free
          /\ notice' = [notice EXCEPT ![c] = [pc |-> "lock", room |-> room, handle |-> None]]
          /\ UNCHANGED <<missed, lock>>
       \/ /\ pubsub # None /\ ~fallback /\ Free
          /\ Locked(c, room, present')
          /\ missed' = missed \ {room}
    /\ UNCHANGED <<pubsub, task, subscribed, fallback, status, activation, opened, listeners,
                   stopped, server, redis, outages, failures, relayed>>

\* A task that waited gets the lock, whatever has happened to the bridge meanwhile.
TakeLock(c) ==
    /\ notice[c].pc = "lock" /\ lock = Nobody
    /\ Locked(c, notice[c].room, present)
    /\ missed' = missed \ {notice[c].room}
    /\ UNCHANGED <<present, pubsub, task, subscribed, fallback, status, activation, opened,
                   listeners, stopped, server, redis, bounds, relayed>>

\* The client library connects a broken subscription again for a call, with the rooms it
\* had, unless a listener has met the break first.
Renewable(h) == ~Alive(h) /\ redis /\ h # None /\ h = pubsub /\ h \notin listeners

\* The call returns; a failure is logged and nothing else.
EndCall(c) ==
    LET h == notice[c].handle
        room == notice[c].room
        With(rooms) == IF notice[c].pc = "subscribe" THEN rooms \cup {room}
                       ELSE rooms \ {room}
    IN  /\ notice[c].pc \in {"subscribe", "unsubscribe"}
        /\ \/ /\ Alive(h) \/ Renewable(h)
              /\ server' = [server EXCEPT ![h].open = TRUE, ![h].rooms = With(@)]
              /\ subscribed' = With(subscribed)
              /\ UNCHANGED missed
           \/ /\ ~Alive(h)
              /\ missed' = missed \cup {room}
              /\ UNCHANGED <<server, subscribed>>
        /\ lock' = Nobody
        /\ notice' = [notice EXCEPT ![c] = NoNotice]
        /\ UNCHANGED <<present, pubsub, task, fallback, status, activation, opened,
                       listeners, stopped, redis, bounds, relayed>>

-----------------------------------------------------------------------------
(* start and _reconnect_loop *)

\* The loop wakes up, pings Redis and opens a subscription.  _activate_pubsub begins by
\* stopping the old listener.
Dial ==
    /\ activation.pc = "sleep" /\ redis /\ opened < Cardinality(Handle)
    /\ opened' = opened + 1
    /\ server' = [server EXCEPT ![opened + 1].open = TRUE]
    /\ listeners' = listeners \ {task}
    /\ task' = None
    /\ activation' = [activation EXCEPT !.pc = "install", !.handle = opened + 1]
    /\ UNCHANGED <<present, notice, pubsub, subscribed, fallback, status, stopped, lock,
                   missed, redis, bounds, relayed>>

\* The new subscription replaces the old one, which is closed.
Install ==
    /\ activation.pc = "install"
    /\ pubsub' = activation.handle
    /\ server' = IF pubsub = None THEN server
                 ELSE [server EXCEPT ![pubsub] = [open |-> FALSE, rooms |-> {}, inbox |-> <<>>]]
    /\ activation' = [activation EXCEPT !.pc = "lock"]
    /\ UNCHANGED <<present, notice, task, subscribed, fallback, status, stopped, lock,
                   missed, opened, listeners, redis, bounds, relayed>>

\* The end of a successful activation: the mode is live and the listener starts; with no
\* room to listen to it returns at once.
Activated(rooms) ==
    /\ subscribed' = rooms
    /\ task' = IF rooms = {} THEN None ELSE activation.handle
    /\ listeners' = IF rooms = {} THEN listeners ELSE listeners \cup {activation.handle}
    /\ fallback' = FALSE
    /\ status' = "live"
    /\ activation' = [pc |-> "none", handle |-> None, rooms |-> {}]

ToSubscribe_AsBefore == subscribed

\* The rooms a new subscription starts with: those that have clients now.
ToSubscribe == Populated

\* They are read under the lock.
ReadRooms ==
    /\ activation.pc = "lock" /\ lock = Nobody
    /\ missed' = {}
    /\ \/ /\ ToSubscribe = {}
          /\ Activated({})
          /\ UNCHANGED lock
       \/ /\ ToSubscribe # {}
          /\ activation' = [activation EXCEPT !.pc = "subscribe", !.rooms = ToSubscribe]
          /\ lock' = Activation
          /\ UNCHANGED <<subscribed, task, listeners, fallback, status>>
    /\ UNCHANGED <<present, notice, pubsub, stopped, opened, server, redis, bounds, relayed>>

\* The subscription succeeds, or the loop goes back to sleep.
Subscribe ==
    LET h == activation.handle
    IN  /\ activation.pc = "subscribe"
        /\ lock' = Nobody
        /\ \/ /\ Alive(h)
              /\ server' = [server EXCEPT ![h].rooms = @ \cup activation.rooms]
              /\ Activated(activation.rooms)
           \/ /\ ~Alive(h)
              /\ fallback' = TRUE
              /\ status' = "degraded"
              /\ activation' = [pc |-> "sleep", handle |-> None, rooms |-> {}]
              /\ UNCHANGED <<server, subscribed, task, listeners>>
        /\ UNCHANGED <<present, notice, pubsub, stopped, missed, opened, redis, bounds, relayed>>

\* stop: tasks are cancelled and the subscription is closed.
Stop ==
    /\ ~stopped
    /\ stopped' = TRUE
    /\ listeners' = {} /\ task' = None /\ pubsub' = None /\ subscribed' = {}
    /\ activation' = [pc |-> "none", handle |-> None, rooms |-> {}]
    /\ lock' = IF lock = Activation THEN Nobody ELSE lock
    /\ server' = [h \in Handle |-> [open |-> FALSE, rooms |-> {}, inbox |-> <<>>]]
    /\ UNCHANGED <<present, notice, fallback, status, missed, opened, redis, bounds, relayed>>

-----------------------------------------------------------------------------
(* Redis *)

\* What was on its way over a broken connection is lost; the subscription knows its rooms.
Broken(subscription) == [open |-> FALSE, rooms |-> subscription.rooms, inbox |-> <<>>]

Outage ==
    /\ redis /\ outages < MaxOutages
    /\ outages' = outages + 1
    /\ redis' = FALSE
    /\ server' = [h \in Handle |-> Broken(server[h])]
    /\ UNCHANGED <<present, notice, link, stopped, missed, failures, changes, relayed>>

Return ==
    /\ ~redis
    /\ redis' = TRUE
    /\ UNCHANGED <<present, notice, link, stopped, missed, server, bounds, relayed>>

-----------------------------------------------------------------------------
\* start, before there are clients: the first subscription, whose listener has no room to
\* listen to, or local-only mode.
BackplaneInit ==
    /\ present = [room \in Channel |-> {}]
    /\ notice = [c \in Client |-> NoNotice]
    /\ subscribed = {} /\ lock = Nobody /\ missed = {}
    /\ task = None /\ listeners = {}
    /\ stopped = FALSE
    /\ \/ /\ redis = TRUE /\ opened = 1 /\ pubsub = 1
          /\ fallback = FALSE /\ status = "none"
          /\ activation = [pc |-> "none", handle |-> None, rooms |-> {}]
       \/ /\ redis = FALSE /\ opened = 0 /\ pubsub = None
          /\ fallback = TRUE /\ status = "degraded"
          /\ activation = [pc |-> "sleep", handle |-> None, rooms |-> {}]
    /\ server = [h \in Handle |-> [open |-> h <= opened, rooms |-> {}, inbox |-> <<>>]]
    /\ outages = 0 /\ failures = 0 /\ changes = 0
    /\ relayed = <<>>

Reconnect == Dial \/ Install \/ ReadRooms \/ Subscribe

Notify(c) == TakeLock(c) \/ EndCall(c)

BackplaneNext ==
    \/ \E c \in Client : Notify(c) \/ \E room \in Channel : Change(c, room)
    \/ \E room \in Channel : Publish(room) \/ PublishElsewhere(room)
    \/ \E h \in Handle : Relay(h) \/ ListenerFails(h) \/ ListenerEnds(h)
    \/ Reconnect
    \/ Stop
    \/ Outage
    \/ Return

BackplaneSpec == BackplaneInit /\ [][BackplaneNext]_backplaneVars

-----------------------------------------------------------------------------
(* Properties *)

BackplaneTypeOK ==
    /\ present \in [Channel -> SUBSET Client]
    /\ pubsub \in 0 .. opened /\ task \in 0 .. opened /\ opened \in 0 .. Cardinality(Handle)
    /\ subscribed \subseteq Channel /\ missed \subseteq Channel
    /\ fallback \in BOOLEAN /\ stopped \in BOOLEAN
    /\ status \in {"none", "live", "degraded"}
    /\ lock \in Client \cup {Nobody, Activation}
    /\ listeners \subseteq Handle

\* No message reaches the local clients twice: the worker's own are not relayed back to
\* them, and there are never two listeners, even when a publish failed on a bridge
\* whose subscription lives on.
RelayedOnce == \A i \in DOMAIN relayed : relayed[i] <= 1

\* The clients have been told the mode the worker is in.
StatusTold == fallback = (status = "degraded")

\* The bridge is at rest over a room: nothing is about to change its subscription.
AtRest(room) ==
    /\ ~stopped /\ ~fallback /\ Alive(pubsub)
    /\ activation.pc = "none"
    /\ \A c \in Client : notice[c].room # room

\* Whatever clients joined and left meanwhile, a room at rest that has clients is
\* subscribed, and one that is empty is not counted as subscribed; the exception is a
\* room that changed while a reconnect subscribed.
SubscribedIfPopulated ==
    \A room \in Channel :
        AtRest(room) /\ room \notin missed =>
            /\ room \in Populated => room \in server[pubsub].rooms
            /\ room \in subscribed => room \in Populated

\* The bridge is subscribed to the rooms its clients are in, tells them when it has fallen
\* back to local-only mode, and hands them no message twice.  Whether a listener reads
\* what it is subscribed to is RoomsHeard's and HeardAgain's question.
BridgeCarries == BackplaneTypeOK /\ RelayedOnce /\ StatusTold /\ SubscribedIfPopulated

Hears(room) == \E h \in listeners : server[h].open /\ room \in server[h].rooms

\* A worker that fell back to local-only mode gets Redis back once it is up, and its
\* clients hear the room they are in; the exceptions are a room that changed while the
\* reconnect subscribed, another outage, and a worker that stops.
HeardAgain ==
    \A room \in Channel :
        (fallback /\ room \in Populated) ~>
            (\/ Hears(room) \/ room \notin Populated \/ (room \in missed /\ ~fallback)
             \/ ~redis \/ stopped)

\* What on_room_changed promises of a room with local clients: the worker receives what
\* other workers publish there.
RoomsHeard ==
    \A room \in Channel :
        AtRest(room) /\ room \in Populated /\ room \notin missed => Hears(room)
=============================================================================
