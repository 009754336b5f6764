------------------------------ MODULE Connections ------------------------------
(***************************************************************************)
(* The sockets of one worker (realtime/connection_manager.py and the       *)
(* endpoints of price_ws.py and trade_ws.py): the registry, the rooms and, *)
(* for every socket, a reader task that handles the client's messages, a   *)
(* writer task and two queues: reliable messages are never dropped, a full *)
(* reliable queue closes the socket; best-effort messages push out the     *)
(* oldest.                                                                 *)
(*                                                                         *)
(* One event loop runs the tasks: a step is what happens between two       *)
(* awaits.  The manager's lock is never contended, because no task awaits  *)
(* while it holds it.  A client that comes back is another socket.         *)
(***************************************************************************)
EXTENDS Naturals, Sequences

CONSTANTS
    Conn,         \* sockets
    Room,         \* rooms: "prices:*", "user:..."
    MaxQueue,     \* max_queue_size
    MaxReliable,  \* reliable_max_queue_size
    MaxPosts,     \* bound: messages broadcast
    MaxRequests   \* bound: messages a client sends

ASSUME ConnectionsAssumption ==
    /\ MaxQueue \in Nat \ {0} /\ MaxReliable \in Nat \ {0}
    /\ MaxPosts \in Nat /\ MaxRequests \in Nat

VARIABLES
    registered,  \* _connections
    members,     \* _rooms
    socket,      \* the ClientConnection of every socket
    reader,      \* handle_connection of every socket
    writer,      \* _writer of every socket
    posts,       \* messages broadcast so far
    asked,       \* messages the client of a socket has sent
    sent,        \* what was put, or should have been put, on each queue of a socket
    received     \* what the socket's client was sent of either queue, in order

vars == <<registered, members, socket, reader, writer, posts, asked, sent, received>>

\* Two kinds of messages.  A broadcast carries its number, an answer to the client 0.
Reliable == "reliable"
BestEffort == "best_effort"
Kind == {Reliable, BestEffort}
Message == [kind : Kind, number : 0 .. MaxPosts]

-----------------------------------------------------------------------------
(* The queues *)

\* What becomes of a queue of best-effort messages when one is put: the oldest goes
\* when it is full.
Pushed(queue, msg) ==
    Append(IF Len(queue) >= MaxQueue THEN Tail(queue) ELSE queue, msg)

Overflows(queue) == Len(queue) >= MaxReliable

\* _enqueue_str and _enqueue_reliable_str on one socket.
Enqueued(s, msg) ==
    IF s.closed THEN s
    ELSE IF msg.kind = BestEffort
    THEN [s EXCEPT !.queue = Pushed(@, msg),
                   !.dropped = IF Len(s.queue) >= MaxQueue THEN @ + 1 ELSE @]
    ELSE IF Overflows(s.reliable) THEN [s EXCEPT !.overflow = TRUE, !.closing = @ + 1]
    ELSE [s EXCEPT !.reliable = Append(@, msg)]

\* A broadcast to a set of sockets: those that are not registered are skipped.
Broadcast(to, msg) ==
    /\ socket' = [c \in Conn |-> IF c \in to \cap registered THEN Enqueued(socket[c], msg)
                                 ELSE socket[c]]
    /\ sent' = [c \in Conn |-> IF c \in to \cap registered /\ ~socket[c].closed
                               THEN [sent[c] EXCEPT ![msg.kind] = Append(@, msg)]
                               ELSE sent[c]]

Answer(c) == Broadcast({c}, [kind |-> BestEffort, number |-> 0])

-----------------------------------------------------------------------------
(* Connecting and disconnecting *)

NewSocket == [closed |-> FALSE, rooms |-> {}, queue |-> <<>>, reliable |-> <<>>,
              dropped |-> 0, overflow |-> FALSE, closing |-> 0]

NoMessage == [kind |-> "none", number |-> 0]

\* connect: the socket is registered, its writer starts, and on_connect joins its room.
Connect(c) ==
    /\ reader[c].pc = "new"
    /\ registered' = registered \cup {c}
    /\ writer' = [writer EXCEPT ![c].pc = "next"]
    /\ \E rooms \in {<<room>> : room \in Room} \cup {<<>>} :
           reader' = [reader EXCEPT ![c] = [pc |-> "handle", join |-> TRUE, rooms |-> rooms]]
    /\ UNCHANGED <<members, socket, posts, asked, sent, received>>

\* _leave_room_unlocked for each of the rooms.
Left(c, rooms) == [room \in Room |-> IF room \in rooms THEN members[room] \ {c}
                                     ELSE members[room]]

\* disconnect: the first call closes the socket, ends the writer and leaves the rooms
\* the socket is in now; every other call returns at once.
Disconnect(c) ==
    /\ ~socket[c].closed
    /\ socket' = [socket EXCEPT ![c].closed = TRUE, ![c].rooms = {}]
    /\ registered' = registered \ {c}
    /\ members' = Left(c, socket[c].rooms)
    /\ writer' = [writer EXCEPT ![c].pc = "done"]

\* The task that an overflow has scheduled.
DisconnectOnOverflow(c) ==
    /\ socket[c].closing > 0
    /\ \/ Disconnect(c)
       \/ /\ socket[c].closed
          /\ socket' = [socket EXCEPT ![c].closing = 0]
          /\ UNCHANGED <<registered, members, writer>>
    /\ UNCHANGED <<reader, posts, asked, sent, received>>

\* shutdown_connections: the server stops.
Shutdown(c) ==
    /\ c \in registered
    /\ Disconnect(c)
    /\ UNCHANGED <<reader, posts, asked, sent, received>>

-----------------------------------------------------------------------------
(* The reader *)

\* The lists of rooms a message names, each room once.
RoomLists ==
    {rooms \in {<<room>> : room \in Room} \cup {<<a, b>> : a, b \in Room} :
         \A i, j \in DOMAIN rooms : rooms[i] = rooms[j] => i = j}

\* The client's message: a list of rooms to join or to leave.
Request(c) ==
    /\ reader[c].pc = "receive" /\ ~socket[c].closed
    /\ asked[c] < MaxRequests
    /\ asked' = [asked EXCEPT ![c] = @ + 1]
    /\ \E join \in BOOLEAN, rooms \in RoomLists :
          reader' = [reader EXCEPT ![c] = [pc |-> "handle", join |-> join, rooms |-> rooms]]
    /\ UNCHANGED <<registered, members, socket, writer, posts, sent, received>>

\* A message that is answered on the spot: ping, invalid JSON, an unknown action, and
\* the keepalive ping of a client that was silent for a heartbeat.
AnswerAtOnce(c) ==
    /\ reader[c].pc = "receive" /\ ~socket[c].closed
    /\ asked[c] < MaxRequests
    /\ asked' = [asked EXCEPT ![c] = @ + 1]
    /\ Answer(c)
    /\ UNCHANGED <<registered, members, reader, writer, posts, received>>

\* join_room: nothing looks at closed.  The task then awaits the backplane.
Join(c) ==
    /\ reader[c].pc = "handle" /\ reader[c].join /\ reader[c].rooms # <<>>
    /\ LET room == Head(reader[c].rooms)
       IN  /\ members' = [members EXCEPT ![room] = @ \cup {c}]
           /\ socket' = [socket EXCEPT ![c].rooms = @ \cup {room}]
    /\ reader' = [reader EXCEPT ![c].rooms = Tail(@)]
    /\ UNCHANGED <<registered, writer, posts, asked, sent, received>>

\* leave_room
Leave(c) ==
    /\ reader[c].pc = "handle" /\ ~reader[c].join /\ reader[c].rooms # <<>>
    /\ LET room == Head(reader[c].rooms)
       IN  /\ members' = Left(c, {room})
           /\ socket' = [socket EXCEPT ![c].rooms = @ \ {room}]
    /\ reader' = [reader EXCEPT ![c].rooms = Tail(@)]
    /\ UNCHANGED <<registered, writer, posts, asked, sent, received>>

\* The message is answered: welcome, subscribed, unsubscribed.
Handled(c) ==
    /\ reader[c].pc = "handle" /\ reader[c].rooms = <<>>
    /\ reader' = [reader EXCEPT ![c].pc = "receive"]
    /\ Answer(c)
    /\ UNCHANGED <<registered, members, writer, posts, asked, received>>

\* The client is gone, the token has expired, or the socket is closed already: the
\* reader's last act is to disconnect.
EndReader(c) ==
    /\ reader[c].pc = "receive"
    /\ reader' = [reader EXCEPT ![c].pc = "end"]
    /\ \/ Disconnect(c)
       \/ socket[c].closed /\ UNCHANGED <<registered, members, socket, writer>>
    /\ UNCHANGED <<posts, asked, sent, received>>

-----------------------------------------------------------------------------
(* The writer *)

\* _next_payload without waiting: the reliable queue first.
TakeNow(c) ==
    /\ writer[c].pc = "next"
    /\ \/ /\ socket[c].reliable # <<>>
          /\ writer' = [writer EXCEPT ![c].pc = "send", ![c].payload = Head(socket[c].reliable)]
          /\ socket' = [socket EXCEPT ![c].reliable = Tail(@)]
       \/ /\ socket[c].reliable = <<>> /\ socket[c].queue # <<>>
          /\ writer' = [writer EXCEPT ![c].pc = "send", ![c].payload = Head(socket[c].queue)]
          /\ socket' = [socket EXCEPT ![c].queue = Tail(@)]
       \/ /\ socket[c].reliable = <<>> /\ socket[c].queue = <<>>
          /\ writer' = [writer EXCEPT ![c].pc = "wait"]
          /\ UNCHANGED socket
    /\ UNCHANGED <<registered, members, reader, posts, asked, sent, received>>

GetReliable_NotAwaited(c) == FALSE

\* While the writer waits, two tasks wait on the queues, each for one message.
GetReliable(c) ==
    /\ writer[c].pc = "wait" /\ writer[c].reliable = NoMessage
    /\ socket[c].reliable # <<>>

GetBestEffort(c) ==
    /\ writer[c].pc = "wait" /\ writer[c].best = NoMessage
    /\ socket[c].queue # <<>>

Get(c) ==
    /\ \/ /\ GetReliable(c)
          /\ writer' = [writer EXCEPT ![c].reliable = Head(socket[c].reliable)]
          /\ socket' = [socket EXCEPT ![c].reliable = Tail(@)]
       \/ /\ GetBestEffort(c)
          /\ writer' = [writer EXCEPT ![c].best = Head(socket[c].queue)]
          /\ socket' = [socket EXCEPT ![c].queue = Tail(@)]
    /\ UNCHANGED <<registered, members, reader, posts, asked, sent, received>>

Requeued_Dropped(queue, best) == queue

\* When both came at once, the best-effort message is queued again, at the end.
Requeued(queue, best) == IF best = NoMessage THEN queue ELSE Append(queue, best)

Chosen(w) == IF w.reliable # NoMessage THEN w.reliable ELSE w.best

\* The writer wakes up, with a message or with both.
Resume(c) ==
    LET w == writer[c]
        both == w.reliable # NoMessage /\ w.best # NoMessage
    IN  /\ w.pc = "wait" /\ (w.reliable # NoMessage \/ w.best # NoMessage)
        /\ writer' = [writer EXCEPT ![c] = [pc |-> "send", payload |-> Chosen(w),
                                            reliable |-> NoMessage, best |-> NoMessage]]
        /\ socket' = IF both THEN [socket EXCEPT ![c].queue = Requeued(@, w.best)]
                     ELSE socket
        /\ UNCHANGED <<registered, members, reader, posts, asked, sent, received>>

\* send_text returns in time.
SendText(c) ==
    /\ writer[c].pc = "send"
    /\ received' = [received EXCEPT ![c][writer[c].payload.kind] = Append(@, writer[c].payload)]
    /\ writer' = [writer EXCEPT ![c].pc = "next", ![c].payload = NoMessage]
    /\ UNCHANGED <<registered, members, socket, reader, posts, asked, sent>>

\* send_text fails or takes longer than write_timeout: the writer disconnects.
SendFails(c) ==
    /\ writer[c].pc = "send"
    /\ Disconnect(c)
    /\ UNCHANGED <<reader, posts, asked, sent, received>>

-----------------------------------------------------------------------------
(* The rest of the worker *)

\* broadcast_local_room, broadcast_local_room_reliable
Post(room) ==
    /\ posts < MaxPosts
    /\ posts' = posts + 1
    /\ \E kind \in {Reliable, BestEffort} :
           Broadcast(members[room], [kind |-> kind, number |-> posts + 1])
    /\ UNCHANGED <<registered, members, reader, writer, asked, received>>

\* broadcast_status: every connection of the worker.
PostStatus ==
    /\ posts < MaxPosts
    /\ posts' = posts + 1
    /\ Broadcast(registered, [kind |-> BestEffort, number |-> posts + 1])
    /\ UNCHANGED <<registered, members, reader, writer, asked, received>>

-----------------------------------------------------------------------------
Init ==
    /\ registered = {}
    /\ members = [room \in Room |-> {}]
    /\ socket = [c \in Conn |-> NewSocket]
    /\ reader = [c \in Conn |-> [pc |-> "new", join |-> FALSE, rooms |-> <<>>]]
    /\ writer = [c \in Conn |-> [pc |-> "new", payload |-> NoMessage,
                                 reliable |-> NoMessage, best |-> NoMessage]]
    /\ posts = 0
    /\ asked = [c \in Conn |-> 0]
    /\ sent = [c \in Conn |-> [kind \in Kind |-> <<>>]]
    /\ received = [c \in Conn |-> [kind \in Kind |-> <<>>]]

Read(c) == Request(c) \/ AnswerAtOnce(c) \/ Join(c) \/ Leave(c) \/ Handled(c) \/ EndReader(c)

WriteNext(c) == TakeNow(c) \/ Get(c) \/ Resume(c) \/ SendText(c) \/ SendFails(c)

Next ==
    \/ \E c \in Conn : \/ Connect(c)
                       \/ Read(c)
                       \/ WriteNext(c)
                       \/ DisconnectOnOverflow(c)
                       \/ Shutdown(c)
    \/ \E room \in Room : Post(room)
    \/ PostStatus

Spec == Init /\ [][Next]_vars

-----------------------------------------------------------------------------
(* Properties *)

TypeOK ==
    /\ registered \subseteq Conn
    /\ members \in [Room -> SUBSET Conn]
    /\ \A c \in Conn :
          /\ socket[c].queue \in Seq(Message) /\ Len(socket[c].queue) <= MaxQueue + 1
          /\ socket[c].reliable \in Seq(Message) /\ Len(socket[c].reliable) <= MaxReliable
          /\ socket[c].rooms \subseteq Room
          /\ socket[c].dropped \in Nat /\ socket[c].closing \in Nat
          /\ socket[c].closed \in BOOLEAN /\ socket[c].overflow \in BOOLEAN

Held(msg, kind) == IF msg.kind = kind THEN <<msg>> ELSE <<>>

\* What the writer has taken from the queues and not sent yet.
InHand(w, kind) ==
    Held(w.payload, kind) \o Held(IF kind = Reliable THEN w.reliable ELSE w.best, kind)

ReliableKept(c) ==
    sent[c][Reliable] =
        received[c][Reliable] \o InHand(writer[c], Reliable) \o socket[c].reliable

BestEffortCounted(c) ==
    Len(sent[c][BestEffort]) =
        Len(received[c][BestEffort]) + Len(InHand(writer[c], BestEffort))
            + Len(socket[c].queue) + socket[c].dropped

\* A socket that is open and did not overflow loses no reliable message and keeps their
\* order: what was sent to it is what its client got, what the writer has in hand and
\* what is still queued.  And a best-effort message of an open socket is delivered, in
\* hand, queued or counted in dropped_messages: the writer loses none when both queues
\* answer at once.
NoSilentLoss ==
    /\ TypeOK
    /\ \A c \in registered : /\ socket[c].overflow \/ ReliableKept(c)
                             /\ BestEffortCounted(c)

\* A reliable message is delivered, or the socket is closed: a stalled client, a full
\* queue or a dead connection never leaves one waiting for ever.
ReliableOrClosed ==
    \A c \in Conn :
        sent[c][Reliable] # <<>> ~> (socket[c].closed \/ sent[c][Reliable] = received[c][Reliable])
=============================================================================
