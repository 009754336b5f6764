---------------------------- MODULE RealtimeProofs ----------------------------
(***************************************************************************)
(* Proofs about the realtime layer, for every value of the constants: any  *)
(* number of sockets, rooms, workers' clients and questions, queues of any *)
(* size, and any number of outages, failures and stops.                    *)
(*                                                                         *)
(*   NothingLost          what a socket that stays open is sent is what    *)
(*                        its client receives, or is counted               *)
(*   BridgeAlwaysCarries  a room at rest is subscribed if it has members,  *)
(*                        and no message is relayed twice                  *)
(*   RepliesWhole         what is sent, kept and shown of a reply of the   *)
(*                        mentor is that reply's                           *)
(*                                                                         *)
(* Each rests on an inductive invariant of its module: ConnectionsInv,     *)
(* BackplaneInv and MentorInv.                                             *)
(***************************************************************************)
EXTENDS Connections, Backplane, Mentor, FiniteSetTheorems, SequenceTheorems, TLAPS

-----------------------------------------------------------------------------
(* Connections: the inductive invariant *)

ReliableMessage == [kind : {Reliable}, number : 0 .. MaxPosts]
BestMessage == [kind : {BestEffort}, number : 0 .. MaxPosts]

SocketType ==
    [closed : BOOLEAN, rooms : SUBSET Room, queue : Seq(BestMessage),
     reliable : Seq(ReliableMessage), dropped : Nat, overflow : BOOLEAN, closing : Nat]

WriterType ==
    [pc : {"new", "next", "wait", "send", "done"}, payload : Message \cup {NoMessage},
     reliable : ReliableMessage \cup {NoMessage}, best : BestMessage \cup {NoMessage}]

ReaderType == [pc : {"new", "handle", "receive", "end"}, join : BOOLEAN, rooms : Seq(Room)]

LogType == [Kind -> Seq(Message)]

\* What the writer holds, by where it is.
HandsOf(w) ==
    /\ w.pc \in {"new", "next", "wait"} => w.payload = NoMessage
    /\ w.pc \in {"new", "next", "send"} => w.reliable = NoMessage /\ w.best = NoMessage
    /\ w.pc = "send" => w.payload # NoMessage

\* A queue exceeds its limit by one message at most, and only when none is in hand that
\* would be queued again.
Within(s, w) ==
    /\ Len(s.reliable) <= MaxReliable
    /\ Len(s.queue) <= MaxQueue + 1
    /\ w.best # NoMessage => Len(s.queue) <= MaxQueue

InOrderKept(s, w, put, got) ==
    put[Reliable] = got[Reliable] \o InHand(w, Reliable) \o s.reliable

AllCounted(s, w, put, got) ==
    Len(put[BestEffort]) =
        Len(got[BestEffort]) + Len(InHand(w, BestEffort)) + Len(s.queue) + s.dropped

\* A registered socket is open, its writer runs, and nothing it was sent is lost.
Serving(s, w, put, got) ==
    /\ s.closed = FALSE
    /\ w.pc \in {"next", "wait", "send"}
    /\ s.overflow = FALSE => InOrderKept(s, w, put, got)
    /\ AllCounted(s, w, put, got)

\* One socket, its writer, and what it was sent and has delivered.
SocketInv(s, w, put, got) ==
    /\ s \in SocketType /\ w \in WriterType
    /\ put \in LogType /\ got \in LogType
    /\ HandsOf(w) /\ Within(s, w)

NewWriter == [pc |-> "new", payload |-> NoMessage, reliable |-> NoMessage, best |-> NoMessage]
NoLog == [kind \in Kind |-> <<>>]

\* A socket whose reader has not begun is as it was created.
Unused(c) ==
    /\ c \notin registered /\ socket[c] = NewSocket /\ writer[c] = NewWriter
    /\ sent[c] = NoLog /\ received[c] = NoLog

ConnectionsTyped ==
    /\ registered \subseteq Conn
    /\ members \in [Room -> SUBSET Conn]
    /\ socket \in [Conn -> SocketType] /\ writer \in [Conn -> WriterType]
    /\ reader \in [Conn -> ReaderType]
    /\ sent \in [Conn -> LogType] /\ received \in [Conn -> LogType]
    /\ posts \in 0 .. MaxPosts

ConnectionsInv ==
    /\ ConnectionsTyped
    /\ \A c \in Conn :
          /\ SocketInv(socket[c], writer[c], sent[c], received[c])
          /\ c \in registered => Serving(socket[c], writer[c], sent[c], received[c])
          /\ reader[c].pc = "new" => Unused(c)
-----------------------------------------------------------------------------
(* Connections: queues and what the writer holds *)

\* A sequence that is not empty is its head and the rest.
LEMMA HeadFirst ==
    ASSUME NEW S, NEW s \in Seq(S), s # <<>>
    PROVE  /\ Head(s) \in S /\ Tail(s) \in Seq(S)
           /\ Len(s) \in Nat /\ Len(Tail(s)) \in Nat /\ Len(s) = Len(Tail(s)) + 1
           /\ s = <<Head(s)>> \o Tail(s)
<1>1. Head(s) \in S /\ Tail(s) \in Seq(S) /\ Len(Tail(s)) = Len(s) - 1
  BY HeadTailProperties
<1>2. Len(s) \in Nat /\ Len(s) # 0 /\ Len(Tail(s)) \in Nat  BY <1>1, EmptySeq, LenProperties
<1>3. SubSeq(s, 1, Len(s)) = <<s[1]>> \o SubSeq(s, 2, Len(s))
  <2>1. 1 \in 1 .. Len(s) /\ Len(s) \in 1 .. Len(s)  BY <1>2
  <2>2. SubSeq(s, 1, Len(s)) = <<s[1]>> \o SubSeq(s, 1 + 1, Len(s))
    BY ONLY s \in Seq(S), <2>1, SubSeqRecursiveFirst
  <2> QED  BY <2>2
<1>4. s[1] = Head(s)  OBVIOUS
<1>5. QED  BY <1>1, <1>2, <1>3, <1>4, SubSeqFull, TailIsSubSeq

\* Appending to the end of a concatenation.
LEMMA AppendLast ==
    ASSUME NEW a \in Seq(Message), NEW b \in Seq(Message), NEW m \in Message
    PROVE  Append(a \o b, m) = a \o Append(b, m)
<1>1. a \o b \in Seq(Message) /\ <<m>> \in Seq(Message)  BY ConcatProperties
<1>2. Append(a \o b, m) = (a \o b) \o <<m>>  BY <1>1, AppendIsConcat
<1>3. Append(b, m) = b \o <<m>>  BY AppendIsConcat
<1>4. (a \o b) \o <<m>> = a \o (b \o <<m>>)  BY <1>1, ConcatAssociative
<1>5. QED  BY <1>2, <1>3, <1>4

\* Sequences of one kind of messages are sequences of messages.
LEMMA MessageSeqs ==
    /\ \A q \in Seq(ReliableMessage) : q \in Seq(Message)
    /\ \A q \in Seq(BestMessage) : q \in Seq(Message)
<1>1. ReliableMessage \subseteq Message /\ BestMessage \subseteq Message
  BY DEF ReliableMessage, BestMessage, Message, Kind
<1>2. QED  BY <1>1, SeqMonotonic

\* A message is of one of two kinds, and is not the absence of one.
LEMMA TwoKinds ==
    ASSUME NEW msg \in Message
    PROVE  /\ msg.kind \in Kind /\ msg # NoMessage
           /\ msg.kind = Reliable \/ msg.kind = BestEffort
           /\ msg.kind = Reliable => msg \in ReliableMessage
           /\ msg.kind = BestEffort => msg \in BestMessage
  BY DEF Message, NoMessage, Kind, Reliable, BestEffort, ReliableMessage, BestMessage

\* The kinds of the messages of either queue, and of none.
LEMMA KindsOf ==
    /\ Reliable # BestEffort
    /\ NoMessage.kind # Reliable /\ NoMessage.kind # BestEffort
    /\ NoMessage \notin Message
    /\ \A m \in ReliableMessage : m \in Message /\ m.kind = Reliable /\ m # NoMessage
    /\ \A m \in BestMessage : m \in Message /\ m.kind = BestEffort /\ m # NoMessage
  BY DEF Message, NoMessage, Kind, Reliable, BestEffort, ReliableMessage, BestMessage

\* What is in hand of either kind is a sequence of messages.
LEMMA HandType ==
    ASSUME NEW w \in WriterType, NEW kind \in Kind
    PROVE  InHand(w, kind) \in Seq(Message) /\ Len(InHand(w, kind)) \in Nat
<1> DEFINE x == IF kind = Reliable THEN w.reliable ELSE w.best
<1>1. w.payload \in Message \cup {NoMessage} /\ x \in Message \cup {NoMessage}
  BY KindsOf DEF WriterType
<1>2. ASSUME NEW m \in Message \cup {NoMessage}  PROVE Held(m, kind) \in Seq(Message)
  <2>1. CASE m = NoMessage  BY <2>1, KindsOf, EmptySeq DEF Held, Kind
  <2>2. CASE m \in Message  BY <2>2 DEF Held
  <2> QED  BY <2>1, <2>2
<1>3. InHand(w, kind) = Held(w.payload, kind) \o Held(x, kind)  BY DEF InHand
<1> HIDE DEF x
<1>4. Held(w.payload, kind) \in Seq(Message) /\ Held(x, kind) \in Seq(Message)
  BY <1>1, <1>2
<1>5. InHand(w, kind) \in Seq(Message)  BY <1>3, <1>4, ConcatProperties
<1>6. QED  BY <1>5, LenProperties

\* What a writer holds that has nothing in hand.
LEMMA NothingInHand ==
    ASSUME NEW w, NEW kind \in Kind, w.payload = NoMessage,
           kind = Reliable => w.reliable = NoMessage,
           kind = BestEffort => w.best = NoMessage
    PROVE  InHand(w, kind) = <<>>
<1>1. Held(NoMessage, kind) = <<>>  BY KindsOf DEF Held, Kind
<1>2. InHand(w, kind) = Held(NoMessage, kind) \o Held(NoMessage, kind)
  BY KindsOf DEF InHand, Kind
<1>3. QED  BY <1>1, <1>2, ConcatEmptySeq, EmptySeq

\* What a writer holds that waits with at most one message of each kind.
LEMMA WaitingHand ==
    ASSUME NEW w \in WriterType, w.payload = NoMessage
    PROVE  /\ InHand(w, Reliable) = IF w.reliable = NoMessage THEN <<>> ELSE <<w.reliable>>
           /\ InHand(w, BestEffort) = IF w.best = NoMessage THEN <<>> ELSE <<w.best>>
<1>1. Held(NoMessage, Reliable) = <<>> /\ Held(NoMessage, BestEffort) = <<>>
  BY KindsOf DEF Held
<1>2. w.reliable \in ReliableMessage \cup {NoMessage} /\ w.best \in BestMessage \cup {NoMessage}
  BY DEF WriterType
<1> DEFINE r == Held(w.reliable, Reliable)
           b == Held(w.best, BestEffort)
<1>3. r = IF w.reliable = NoMessage THEN <<>> ELSE <<w.reliable>>  BY <1>2, KindsOf DEF Held
<1>4. b = IF w.best = NoMessage THEN <<>> ELSE <<w.best>>  BY <1>2, KindsOf DEF Held
<1>5. InHand(w, Reliable) = <<>> \o r /\ InHand(w, BestEffort) = <<>> \o b
  BY <1>1, KindsOf DEF InHand
<1>6. r \in Seq(Message) /\ b \in Seq(Message)
  <2>1. r = <<>> \/ (r = <<w.reliable>> /\ w.reliable \in Message)  BY <1>2, <1>3, KindsOf
  <2>2. b = <<>> \/ (b = <<w.best>> /\ w.best \in Message)  BY <1>2, <1>4, KindsOf
  <2> HIDE DEF r, b
  <2>3. <<>> \in Seq(Message)  BY EmptySeq
  <2>4. ASSUME NEW m \in Message  PROVE <<m>> \in Seq(Message)  OBVIOUS
  <2>5. r \in Seq(Message)  BY <2>1, <2>3, <2>4
  <2>6. b \in Seq(Message)  BY <2>2, <2>3, <2>4
  <2> QED  BY <2>5, <2>6
<1> HIDE DEF r, b
<1>7. QED  BY <1>3, <1>4, <1>5, <1>6, ConcatEmptySeq

\* What a writer holds that sends a message.
LEMMA SendingHand ==
    ASSUME NEW w \in WriterType, w.payload # NoMessage,
           w.reliable = NoMessage, w.best = NoMessage
    PROVE  /\ w.payload \in Message
           /\ InHand(w, w.payload.kind) = <<w.payload>>
           /\ \A kind \in Kind : kind # w.payload.kind => InHand(w, kind) = <<>>
<1>1. w.payload \in Message  BY DEF WriterType
<1>2. ASSUME NEW kind \in Kind
      PROVE  InHand(w, kind) = Held(w.payload, kind)
  <2>1. Held(NoMessage, kind) = <<>>  BY KindsOf DEF Held, Kind
  <2>2. InHand(w, kind) = Held(w.payload, kind) \o <<>>  BY <2>1 DEF InHand
  <2>3. Held(w.payload, kind) \in Seq(Message)
    <3>1. CASE w.payload.kind = kind  BY <1>1, <3>1 DEF Held
    <3>2. CASE w.payload.kind # kind  BY <3>2, EmptySeq DEF Held
    <3> QED  BY <3>1, <3>2
  <2> QED  BY <2>2, <2>3, ConcatEmptySeq
<1>3. w.payload.kind \in Kind  BY <1>1, TwoKinds
<1>4. QED  BY <1>1, <1>2, <1>3 DEF Held

-----------------------------------------------------------------------------
(* Connections: what each operation does to one socket *)

\* A queue that was put a message into.
LEMMA PushedQueue ==
    ASSUME NEW q \in Seq(BestMessage), Len(q) <= MaxQueue + 1, NEW m \in BestMessage
    PROVE  /\ Pushed(q, m) \in Seq(BestMessage)
           /\ Len(Pushed(q, m)) = IF Len(q) >= MaxQueue THEN Len(q) ELSE Len(q) + 1
<1>1. Len(q) \in Nat  BY LenProperties
<1>2. CASE Len(q) >= MaxQueue
  <2>1. q # <<>>  BY <1>2, ConnectionsAssumption, EmptySeq
  <2>2. Tail(q) \in Seq(BestMessage) /\ Len(q) = Len(Tail(q)) + 1  BY <2>1, HeadFirst
  <2>3. Pushed(q, m) = Append(Tail(q), m)  BY <1>2 DEF Pushed
  <2> QED  BY <1>2, <2>2, <2>3, AppendProperties
<1>3. CASE ~(Len(q) >= MaxQueue)
  <2>1. Pushed(q, m) = Append(q, m)  BY <1>3 DEF Pushed
  <2> QED  BY <1>3, <2>1, AppendProperties
<1>4. QED  BY <1>2, <1>3

\* A log with one message more.
LEMMA LogAppended ==
    ASSUME NEW log \in LogType, NEW m \in Message,
           NEW more, more = [log EXCEPT ![m.kind] = Append(@, m)]
    PROVE  /\ more \in LogType
           /\ m.kind = Reliable => (more[Reliable] = Append(log[Reliable], m)
                                     /\ more[BestEffort] = log[BestEffort])
           /\ m.kind = BestEffort => (more[BestEffort] = Append(log[BestEffort], m)
                                       /\ more[Reliable] = log[Reliable])
<1>1. m.kind \in Kind  BY TwoKinds
<1>2. log[m.kind] \in Seq(Message)  BY <1>1 DEF LogType
<1>3. Append(log[m.kind], m) \in Seq(Message)  BY <1>2, AppendProperties
<1>4. Reliable \in Kind /\ BestEffort \in Kind  BY DEF Kind
<1>5. QED  BY <1>1, <1>3, <1>4, KindsOf DEF LogType

\* The lengths that are counted.
LEMMA LogLengths ==
    ASSUME NEW log \in LogType
    PROVE  /\ log[Reliable] \in Seq(Message) /\ log[BestEffort] \in Seq(Message)
           /\ Len(log[Reliable]) \in Nat /\ Len(log[BestEffort]) \in Nat
<1>1. log[Reliable] \in Seq(Message) /\ log[BestEffort] \in Seq(Message)  BY DEF LogType, Kind
<1>2. QED  BY <1>1, LenProperties

\* The fields of a socket.
LEMMA SocketFields ==
    ASSUME NEW s \in SocketType
    PROVE  /\ s.queue \in Seq(BestMessage) /\ Len(s.queue) \in Nat
           /\ s.reliable \in Seq(ReliableMessage) /\ Len(s.reliable) \in Nat
           /\ s.reliable \in Seq(Message) /\ s.queue \in Seq(Message)
           /\ s.rooms \subseteq Room /\ s.dropped \in Nat /\ s.closing \in Nat
           /\ s.closed \in BOOLEAN /\ s.overflow \in BOOLEAN
<1>1. s.queue \in Seq(BestMessage) /\ s.reliable \in Seq(ReliableMessage)  BY DEF SocketType
<1>2. Len(s.queue) \in Nat /\ Len(s.reliable) \in Nat  BY <1>1, LenProperties
<1>3. QED  BY <1>1, <1>2, MessageSeqs DEF SocketType

\* A best-effort message put into a full queue pushes one out, which is counted.
LEMMA PutBestEffort ==
    ASSUME NEW s, NEW w, NEW put, NEW got, SocketInv(s, w, put, got), Serving(s, w, put, got),
           NEW m \in Message, m.kind = BestEffort,
           NEW more, more = [put EXCEPT ![m.kind] = Append(@, m)]
    PROVE  /\ SocketInv(Enqueued(s, m), w, more, got)
           /\ Serving(Enqueued(s, m), w, more, got)
<1>1. s \in SocketType /\ w \in WriterType /\ put \in LogType /\ got \in LogType
  BY DEF SocketInv
<1>2. HandsOf(w) /\ Within(s, w) /\ Serving(s, w, put, got)  BY DEF SocketInv
<1>3. m \in BestMessage  BY TwoKinds
<1> DEFINE q == Pushed(s.queue, m)
           d == IF Len(s.queue) >= MaxQueue THEN s.dropped + 1 ELSE s.dropped
           t == [s EXCEPT !.queue = q, !.dropped = d]
<1>4. Enqueued(s, m) = t
  <2>1. s.closed = FALSE  BY <1>2 DEF Serving
  <2> QED  BY <2>1 DEF Enqueued
<1>5. q \in Seq(BestMessage) /\ Len(q) = IF Len(s.queue) >= MaxQueue THEN Len(s.queue)
                                         ELSE Len(s.queue) + 1
  BY <1>1, <1>2, <1>3, PushedQueue, SocketFields DEF Within
<1>6. d \in Nat  BY <1>1, SocketFields
<1>7. /\ more \in LogType /\ more[BestEffort] = Append(put[BestEffort], m)
      /\ more[Reliable] = put[Reliable]
  BY <1>1, LogAppended
<1> HIDE DEF q
<1>8. d = IF Len(s.queue) >= MaxQueue THEN s.dropped + 1 ELSE s.dropped  OBVIOUS
<1> HIDE DEF d
<1>9. /\ t \in SocketType /\ t.queue = q /\ t.dropped = d /\ t.reliable = s.reliable
      /\ t.closed = s.closed /\ t.overflow = s.overflow
  BY <1>1, <1>5, <1>6 DEF SocketType
<1> HIDE DEF t
<1>10. Within(t, w)
  <2>1. Len(s.queue) \in Nat /\ Len(s.reliable) \in Nat  BY <1>1, SocketFields
  <2> QED  BY <1>2, <1>5, <1>9, <2>1, ConnectionsAssumption DEF Within
<1>11. InOrderKept(t, w, more, got) \/ t.overflow # FALSE
  BY <1>2, <1>7, <1>9 DEF Serving, InOrderKept
<1>12. AllCounted(t, w, more, got)
  <2>1. Len(Append(put[BestEffort], m)) = Len(put[BestEffort]) + 1
    BY <1>1, LogLengths, AppendProperties
  <2>2. /\ Len(put[BestEffort]) \in Nat /\ Len(got[BestEffort]) \in Nat
        /\ Len(s.queue) \in Nat /\ s.dropped \in Nat
    BY <1>1, LogLengths, SocketFields
  <2>3. Len(InHand(w, BestEffort)) \in Nat  BY <1>1, HandType DEF Kind
  <2>4. Len(put[BestEffort]) =
          Len(got[BestEffort]) + Len(InHand(w, BestEffort)) + Len(s.queue) + s.dropped
    BY <1>2 DEF Serving, AllCounted
  <2>5. Len(q) + d = Len(s.queue) + s.dropped + 1  BY <1>5, <1>8, <2>2
  <2>6. Len(q) \in Nat  BY <1>5, LenProperties
  <2> DEFINE n == Len(put[BestEffort])
             g == Len(got[BestEffort])
             h == Len(InHand(w, BestEffort))
             k == Len(s.queue)
             l == Len(q)
  <2>8. n \in Nat /\ g \in Nat /\ h \in Nat /\ k \in Nat /\ s.dropped \in Nat /\ l \in Nat
    BY <2>2, <2>3, <2>6
  <2>9. n = g + h + k + s.dropped /\ l + d = k + s.dropped + 1  BY <2>4, <2>5
  <2>7. Len(put[BestEffort]) + 1 = Len(got[BestEffort]) + Len(InHand(w, BestEffort)) + Len(q) + d
    <3> HIDE DEF n, g, h, k, l
    <3>1. n + 1 = g + h + l + d  BY <1>6, <2>8, <2>9
    <3> QED  BY <3>1 DEF n, g, h, l
  <2> QED  BY <1>7, <1>9, <2>1, <2>7 DEF AllCounted
<1>13. QED
  BY <1>1, <1>2, <1>4, <1>7, <1>9, <1>10, <1>11, <1>12 DEF SocketInv, Serving

\* A reliable message is queued behind the others, or the socket overflows.
LEMMA PutReliable ==
    ASSUME NEW s, NEW w, NEW put, NEW got, SocketInv(s, w, put, got), Serving(s, w, put, got),
           NEW m \in Message, m.kind = Reliable,
           NEW more, more = [put EXCEPT ![m.kind] = Append(@, m)]
    PROVE  /\ SocketInv(Enqueued(s, m), w, more, got)
           /\ Serving(Enqueued(s, m), w, more, got)
<1>1. s \in SocketType /\ w \in WriterType /\ put \in LogType /\ got \in LogType
  BY DEF SocketInv
<1>2. HandsOf(w) /\ Within(s, w) /\ Serving(s, w, put, got)  BY DEF SocketInv
<1>3. m \in ReliableMessage /\ m.kind # BestEffort  BY TwoKinds, KindsOf
<1>4. s.closed = FALSE  BY <1>2 DEF Serving
<1>5. /\ more \in LogType /\ more[Reliable] = Append(put[Reliable], m)
      /\ more[BestEffort] = put[BestEffort]
  BY <1>1, LogAppended
<1>6. CASE Overflows(s.reliable)
  <2> DEFINE n == s.closing + 1
             t == [s EXCEPT !.overflow = TRUE, !.closing = n]
  <2>1. Enqueued(s, m) = t  BY <1>3, <1>4, <1>6 DEF Enqueued
  <2>2. n \in Nat  BY <1>1, SocketFields
  <2> HIDE DEF n
  <2>3. /\ t \in SocketType /\ t.queue = s.queue /\ t.dropped = s.dropped
        /\ t.reliable = s.reliable /\ t.closed = s.closed /\ t.overflow = TRUE
    BY <1>1, <2>2 DEF SocketType
  <2> HIDE DEF t
  <2>4. Within(t, w)  BY <1>2, <2>3 DEF Within
  <2>5. AllCounted(t, w, more, got)  BY <1>2, <1>5, <2>3 DEF Serving, AllCounted
  <2> QED  BY <1>1, <1>2, <1>4, <1>5, <2>1, <2>3, <2>4, <2>5 DEF SocketInv, Serving
<1>7. CASE ~Overflows(s.reliable)
  <2> DEFINE q == Append(s.reliable, m)
             t == [s EXCEPT !.reliable = q]
  <2>1. Enqueued(s, m) = t  BY <1>3, <1>4, <1>7 DEF Enqueued
  <2>2. q \in Seq(ReliableMessage) /\ Len(q) = Len(s.reliable) + 1
    BY <1>1, <1>3, SocketFields, AppendProperties
  <2>3. q = Append(s.reliable, m)  OBVIOUS
  <2> HIDE DEF q
  <2>4. /\ t \in SocketType /\ t.queue = s.queue /\ t.dropped = s.dropped
        /\ t.reliable = q /\ t.closed = s.closed /\ t.overflow = s.overflow
    BY <1>1, <2>2 DEF SocketType
  <2> HIDE DEF t
  <2>5. Within(t, w)
    <3>1. Len(s.reliable) \in Nat /\ ~(Len(s.reliable) >= MaxReliable)
      BY <1>1, <1>7, SocketFields DEF Overflows
    <3> QED  BY <1>2, <2>2, <2>4, <3>1, ConnectionsAssumption DEF Within
  <2>6. AllCounted(t, w, more, got)  BY <1>2, <1>5, <2>4 DEF Serving, AllCounted
  <2>7. ASSUME t.overflow = FALSE  PROVE InOrderKept(t, w, more, got)
    <3>1. put[Reliable] = got[Reliable] \o InHand(w, Reliable) \o s.reliable
      BY <1>2, <2>4, <2>7 DEF Serving, InOrderKept
    <3> DEFINE a == got[Reliable] \o InHand(w, Reliable)
    <3>2. a \in Seq(Message)
      BY <1>1, LogLengths, HandType, ConcatProperties DEF Kind
    <3>3. Append(a \o s.reliable, m) = a \o q
      <4> HIDE DEF a
      <4>1. s.reliable \in Seq(Message)  BY <1>1, SocketFields
      <4>2. Append(a \o s.reliable, m) = a \o Append(s.reliable, m)
        BY <3>2, <4>1, AppendLast
      <4> QED  BY <2>3, <4>2
    <3> QED  BY <1>5, <2>4, <3>1, <3>3 DEF InOrderKept
  <2> QED
    BY <1>1, <1>2, <1>4, <1>5, <2>1, <2>4, <2>5, <2>6, <2>7 DEF SocketInv, Serving
<1>8. QED  BY <1>6, <1>7

\* The writer takes the oldest reliable message, to send it or while it waits.
LEMMA TakeReliable ==
    ASSUME NEW s, NEW w, NEW put, NEW got, SocketInv(s, w, put, got),
           s.reliable # <<>>,
           NEW t, t = [s EXCEPT !.reliable = Tail(@)],
           NEW v \in WriterType, HandsOf(v), v.best = w.best, v.pc \in {"send", "wait"},
           InHand(w, Reliable) = <<>>, InHand(v, Reliable) = <<Head(s.reliable)>>,
           InHand(v, BestEffort) = InHand(w, BestEffort)
    PROVE  /\ SocketInv(t, v, put, got)
           /\ Serving(s, w, put, got) => Serving(t, v, put, got)
<1>1. s \in SocketType /\ put \in LogType /\ got \in LogType /\ Within(s, w)
  BY DEF SocketInv
<1> DEFINE q == Tail(s.reliable)
           h == Head(s.reliable)
<1>2. /\ h \in Message /\ q \in Seq(Message) /\ q \in Seq(ReliableMessage)
      /\ s.reliable = <<h>> \o q /\ Len(q) \in Nat /\ Len(s.reliable) = Len(q) + 1
  BY <1>1, SocketFields, HeadFirst, MessageSeqs, KindsOf
<1>3. t = [s EXCEPT !.reliable = q]  OBVIOUS
<1>4. InHand(v, Reliable) = <<h>>  OBVIOUS
<1> HIDE DEF q, h
<1>5. /\ t \in SocketType /\ t.queue = s.queue /\ t.dropped = s.dropped
      /\ t.reliable = q /\ t.closed = s.closed /\ t.overflow = s.overflow
  BY <1>1, <1>2, <1>3 DEF SocketType
<1>6. Within(t, v)
  <2>1. Len(s.reliable) <= MaxReliable  BY <1>1 DEF Within
  <2>2. Len(q) <= MaxReliable  BY <1>2, <2>1, ConnectionsAssumption
  <2> QED  BY <1>1, <1>5, <2>2 DEF Within
<1>7. ASSUME Serving(s, w, put, got)  PROVE Serving(t, v, put, got)
  <2>1. Serving(s, w, put, got)  BY <1>7
  <2>2. AllCounted(t, v, put, got)  BY <1>5, <2>1 DEF Serving, AllCounted
  <2>3. ASSUME t.overflow = FALSE  PROVE InOrderKept(t, v, put, got)
    <3>1. put[Reliable] = got[Reliable] \o <<>> \o s.reliable
      BY <1>5, <2>1, <2>3 DEF Serving, InOrderKept
    <3>2. got[Reliable] \in Seq(Message) /\ <<h>> \in Seq(Message)  BY <1>1, <1>2, LogLengths
    <3>3. got[Reliable] \o <<>> = got[Reliable]  BY <3>2, ConcatEmptySeq
    <3>4. got[Reliable] \o (<<h>> \o q) = (got[Reliable] \o <<h>>) \o q
      <4> DEFINE g == got[Reliable]
                 k == <<h>>
      <4>1. g \in Seq(Message) /\ k \in Seq(Message) /\ q \in Seq(Message)  BY <1>2, <3>2
      <4> HIDE DEF g, k
      <4>2. (g \o k) \o q = g \o (k \o q)  BY ONLY <4>1, ConcatAssociative
      <4> QED  BY <4>2 DEF g, k
    <3> QED  BY <1>2, <1>4, <1>5, <3>1, <3>3, <3>4 DEF InOrderKept
  <2> QED  BY <1>5, <2>1, <2>2, <2>3 DEF Serving
<1>8. QED  BY <1>1, <1>5, <1>6, <1>7 DEF SocketInv

\* The writer takes the oldest best-effort message.
LEMMA TakeBestEffort ==
    ASSUME NEW s, NEW w, NEW put, NEW got, SocketInv(s, w, put, got),
           s.queue # <<>>,
           NEW t, t = [s EXCEPT !.queue = Tail(@)],
           NEW v \in WriterType, HandsOf(v), v.pc \in {"send", "wait"},
           InHand(w, BestEffort) = <<>>, InHand(v, BestEffort) = <<Head(s.queue)>>,
           InHand(v, Reliable) = InHand(w, Reliable)
    PROVE  /\ SocketInv(t, v, put, got)
           /\ Serving(s, w, put, got) => Serving(t, v, put, got)
<1>1. s \in SocketType /\ put \in LogType /\ got \in LogType /\ Within(s, w)
  BY DEF SocketInv
<1> DEFINE q == Tail(s.queue)
<1>2. q \in Seq(BestMessage) /\ Len(q) \in Nat /\ Len(s.queue) = Len(q) + 1
  BY <1>1, SocketFields, HeadFirst
<1>3. t = [s EXCEPT !.queue = q]  OBVIOUS
<1> HIDE DEF q
<1>4. /\ t \in SocketType /\ t.queue = q /\ t.dropped = s.dropped
      /\ t.reliable = s.reliable /\ t.closed = s.closed /\ t.overflow = s.overflow
  BY <1>1, <1>2, <1>3 DEF SocketType
<1>5. Within(t, v)
  <2>1. Len(s.queue) <= MaxQueue + 1  BY <1>1 DEF Within
  <2>2. Len(q) <= MaxQueue  BY <1>2, <2>1, ConnectionsAssumption
  <2> QED  BY <1>1, <1>2, <1>4, <2>2, ConnectionsAssumption DEF Within
<1>6. ASSUME Serving(s, w, put, got)  PROVE Serving(t, v, put, got)
  <2>1. Serving(s, w, put, got)  BY <1>6
  <2>2. t.overflow = FALSE => InOrderKept(t, v, put, got)
    BY <1>4, <2>1 DEF Serving, InOrderKept
  <2>3. Len(put[BestEffort]) = Len(got[BestEffort]) + 0 + Len(s.queue) + s.dropped
    <3>1. Len(<<>>) = 0  BY EmptySeq
    <3> QED  BY <2>1, <3>1 DEF Serving, AllCounted
  <2>4. Len(InHand(v, BestEffort)) = 1
    <3> DEFINE h == Head(s.queue)
    <3>1. Len(<<h>>) = 1  OBVIOUS
    <3> QED  BY <3>1
  <2>5. AllCounted(t, v, put, got)
    <3> DEFINE n == Len(put[BestEffort])
               g == Len(got[BestEffort])
               k == Len(s.queue)
               l == Len(q)
    <3>1. n \in Nat /\ g \in Nat /\ k \in Nat /\ s.dropped \in Nat /\ l \in Nat
      BY <1>1, <1>2, LogLengths, SocketFields
    <3>2. n = g + 0 + k + s.dropped /\ k = l + 1  BY <1>2, <2>3
    <3>3. n = g + 1 + l + s.dropped
      <4> HIDE DEF n, g, k, l
      <4> QED  BY <3>1, <3>2
    <3> QED  BY <1>4, <2>4, <3>3 DEF AllCounted
  <2> QED  BY <1>4, <2>1, <2>2, <2>5 DEF Serving
<1>7. QED  BY <1>1, <1>4, <1>5, <1>6 DEF SocketInv

\* The writer goes on with what it holds and nothing else changes.
LEMMA SameHands ==
    ASSUME NEW s, NEW w, NEW put, NEW got, SocketInv(s, w, put, got),
           NEW v \in WriterType, HandsOf(v), v.best # NoMessage => w.best # NoMessage,
           v.pc \in {"next", "wait", "send"},
           InHand(v, Reliable) = InHand(w, Reliable),
           InHand(v, BestEffort) = InHand(w, BestEffort)
    PROVE  /\ SocketInv(s, v, put, got)
           /\ Serving(s, w, put, got) => Serving(s, v, put, got)
<1>1. Within(s, v)  BY DEF SocketInv, Within
<1>2. ASSUME Serving(s, w, put, got)  PROVE Serving(s, v, put, got)
  BY <1>2 DEF SocketInv, Serving, InOrderKept, AllCounted
<1>3. QED  BY <1>1, <1>2 DEF SocketInv

\* The best-effort message that came with a reliable one is queued again.
LEMMA QueuedAgain ==
    ASSUME NEW s, NEW w, NEW put, NEW got, SocketInv(s, w, put, got),
           NEW m \in BestMessage, w.best # NoMessage, InHand(w, BestEffort) = <<m>>,
           NEW q, q = Append(s.queue, m), NEW t, t = [s EXCEPT !.queue = q],
           NEW v \in WriterType, HandsOf(v), v.best = NoMessage, v.pc = "send",
           InHand(v, Reliable) = InHand(w, Reliable), InHand(v, BestEffort) = <<>>
    PROVE  /\ SocketInv(t, v, put, got)
           /\ Serving(s, w, put, got) => Serving(t, v, put, got)
<1>1. s \in SocketType /\ put \in LogType /\ got \in LogType /\ Within(s, w)
  BY DEF SocketInv
<1>2. q \in Seq(BestMessage) /\ Len(q) = Len(s.queue) + 1 /\ Len(s.queue) \in Nat
  BY <1>1, SocketFields, AppendProperties
<1>4. /\ t \in SocketType /\ t.queue = q /\ t.dropped = s.dropped
      /\ t.reliable = s.reliable /\ t.closed = s.closed /\ t.overflow = s.overflow
  BY <1>1, <1>2 DEF SocketType
<1>5. Within(t, v)
  <2>1. Len(s.queue) <= MaxQueue  BY <1>1 DEF Within
  <2>2. Len(q) <= MaxQueue + 1  BY <1>2, <2>1, ConnectionsAssumption
  <2> QED  BY <1>1, <1>4, <2>2 DEF Within
<1>6. ASSUME Serving(s, w, put, got)  PROVE Serving(t, v, put, got)
  <2>1. Serving(s, w, put, got)  BY <1>6
  <2>2. t.overflow = FALSE => InOrderKept(t, v, put, got)
    BY <1>4, <2>1 DEF Serving, InOrderKept
  <2>3. Len(put[BestEffort]) = Len(got[BestEffort]) + 1 + Len(s.queue) + s.dropped
    <3>1. Len(<<m>>) = 1  OBVIOUS
    <3> QED  BY <2>1, <3>1 DEF Serving, AllCounted
  <2>4. Len(InHand(v, BestEffort)) = 0  BY EmptySeq
  <2>5. AllCounted(t, v, put, got)
    <3> DEFINE n == Len(put[BestEffort])
               g == Len(got[BestEffort])
               k == Len(s.queue)
               l == Len(q)
    <3>1. n \in Nat /\ g \in Nat /\ k \in Nat /\ s.dropped \in Nat
      BY <1>1, <1>2, LogLengths, SocketFields
    <3>2. n = g + 1 + k + s.dropped /\ l = k + 1  BY <1>2, <2>3
    <3>3. n = g + 0 + l + s.dropped
      <4> HIDE DEF n, g, k, l
      <4> QED  BY <3>1, <3>2
    <3> QED  BY <1>4, <2>4, <3>3 DEF AllCounted
  <2> QED  BY <1>4, <2>1, <2>2, <2>5 DEF Serving
<1>7. QED  BY <1>1, <1>4, <1>5, <1>6 DEF SocketInv

\* A message is sent: what was in hand is delivered.
LEMMA Delivered ==
    ASSUME NEW s, NEW w, NEW put, NEW got, SocketInv(s, w, put, got),
           w.pc = "send", NEW m, m = w.payload,
           NEW more \in LogType, more[m.kind] = Append(got[m.kind], m),
           \A kind \in Kind : kind # m.kind => more[kind] = got[kind],
           NEW v \in WriterType, v.pc = "next", v.payload = NoMessage,
           v.reliable = NoMessage, v.best = NoMessage
    PROVE  /\ SocketInv(s, v, put, more)
           /\ Serving(s, w, put, got) => Serving(s, v, put, more)
<1>1. /\ s \in SocketType /\ w \in WriterType /\ put \in LogType /\ got \in LogType
      /\ HandsOf(w) /\ Within(s, w)
  BY DEF SocketInv
<1>2. w.payload # NoMessage /\ w.reliable = NoMessage /\ w.best = NoMessage
  BY <1>1 DEF HandsOf
<1>3. /\ m \in Message /\ InHand(w, m.kind) = <<m>>
      /\ \A kind \in Kind : kind # m.kind => InHand(w, kind) = <<>>
  BY <1>1, <1>2, SendingHand
<1>4. /\ more \in LogType
      /\ m.kind = Reliable => (more[Reliable] = Append(got[Reliable], m)
                                /\ more[BestEffort] = got[BestEffort])
      /\ m.kind = BestEffort => (more[BestEffort] = Append(got[BestEffort], m)
                                  /\ more[Reliable] = got[Reliable])
  BY KindsOf DEF Kind, Reliable, BestEffort
<1>5. InHand(v, Reliable) = <<>> /\ InHand(v, BestEffort) = <<>>
  BY NothingInHand DEF Kind
<1>6. HandsOf(v) /\ Within(s, v)  BY <1>1 DEF HandsOf, Within
<1>7. m.kind = Reliable \/ m.kind = BestEffort  BY <1>3, TwoKinds
<1>8. ASSUME Serving(s, w, put, got)  PROVE Serving(s, v, put, more)
  <2>1. Serving(s, w, put, got)  BY <1>8
  <2>2. ASSUME s.overflow = FALSE  PROVE InOrderKept(s, v, put, more)
    <3>1. put[Reliable] = got[Reliable] \o InHand(w, Reliable) \o s.reliable
      BY <2>1, <2>2 DEF Serving, InOrderKept
    <3>2. more[Reliable] \in Seq(Message) /\ got[Reliable] \in Seq(Message)
      BY <1>1, <1>4, LogLengths
    <3>3. more[Reliable] \o InHand(v, Reliable) = got[Reliable] \o InHand(w, Reliable)
      <4>1. more[Reliable] \o InHand(v, Reliable) = more[Reliable]
        BY <1>5, <3>2, ConcatEmptySeq
      <4>2. CASE m.kind = Reliable
        <5>1. InHand(w, Reliable) = <<m>>  BY <1>3, <4>2
        <5>2. Append(got[Reliable], m) = got[Reliable] \o <<m>>
          BY <1>3, <3>2, AppendIsConcat
        <5> QED  BY <1>4, <4>1, <4>2, <5>1, <5>2
      <4>3. CASE m.kind = BestEffort
        <5>1. InHand(w, Reliable) = <<>>  BY <1>3, <4>3, KindsOf DEF Kind
        <5>2. got[Reliable] \o <<>> = got[Reliable]  BY <3>2, ConcatEmptySeq
        <5> QED  BY <1>4, <4>1, <4>3, <5>1, <5>2
      <4> QED  BY <1>7, <4>2, <4>3
    <3> QED  BY <3>1, <3>3 DEF InOrderKept
  <2>3. AllCounted(s, v, put, more)
    <3>1. Len(put[BestEffort]) =
            Len(got[BestEffort]) + Len(InHand(w, BestEffort)) + Len(s.queue) + s.dropped
      BY <2>1 DEF Serving, AllCounted
    <3>2. got[BestEffort] \in Seq(Message) /\ Len(got[BestEffort]) \in Nat
      BY <1>1, LogLengths
    <3>3. Len(InHand(v, BestEffort)) = 0  BY <1>5, EmptySeq
    <3>4. Len(more[BestEffort]) + 0 = Len(got[BestEffort]) + Len(InHand(w, BestEffort))
      <4>1. CASE m.kind = BestEffort
        <5>1. InHand(w, BestEffort) = <<m>>  BY <1>3, <4>1
        <5>2. Len(<<m>>) = 1  OBVIOUS
        <5>3. Len(Append(got[BestEffort], m)) = Len(got[BestEffort]) + 1
          BY <1>3, <3>2, AppendProperties
        <5> QED  BY <1>4, <3>2, <4>1, <5>1, <5>2, <5>3
      <4>2. CASE m.kind = Reliable
        <5>1. InHand(w, BestEffort) = <<>>  BY <1>3, <4>2, KindsOf DEF Kind
        <5>2. Len(<<>>) = 0  BY EmptySeq
        <5> QED  BY <1>4, <3>2, <4>2, <5>1, <5>2
      <4> QED  BY <1>7, <4>1, <4>2
    <3> QED  BY <3>1, <3>3, <3>4 DEF AllCounted
  <2> QED  BY <2>1, <2>2, <2>3 DEF Serving
<1>9. QED  BY <1>1, <1>4, <1>6, <1>8 DEF SocketInv

\* Joining, leaving and the end of an overflow's task leave the queues alone.
LEMMA SameQueues ==
    ASSUME NEW s, NEW w, NEW put, NEW got, SocketInv(s, w, put, got),
           NEW t \in SocketType, t.queue = s.queue, t.reliable = s.reliable,
           t.dropped = s.dropped, t.closed = s.closed, t.overflow = s.overflow
    PROVE  /\ SocketInv(t, w, put, got)
           /\ Serving(s, w, put, got) => Serving(t, w, put, got)
<1>1. Within(t, w)  BY DEF SocketInv, Within
<1>2. ASSUME Serving(s, w, put, got)  PROVE Serving(t, w, put, got)
  BY <1>2 DEF SocketInv, Serving, InOrderKept, AllCounted
<1>3. QED  BY <1>1, <1>2 DEF SocketInv

\* A socket that is closed is not served.
LEMMA ClosedSocket ==
    ASSUME NEW s, NEW w, NEW put, NEW got, SocketInv(s, w, put, got),
           NEW t, t = [s EXCEPT !.closed = TRUE, !.rooms = {}],
           NEW v, v = [w EXCEPT !.pc = "done"]
    PROVE  t \in SocketType /\ v \in WriterType /\ SocketInv(t, v, put, got)
<1>1. s \in SocketType /\ w \in WriterType /\ HandsOf(w) /\ Within(s, w)  BY DEF SocketInv
<1>2. t \in SocketType /\ t.queue = s.queue /\ t.reliable = s.reliable
  BY <1>1 DEF SocketType
<1>3. v \in WriterType /\ v.pc = "done" /\ v.best = w.best  BY <1>1 DEF WriterType
<1>4. HandsOf(v) /\ Within(t, v)  BY <1>1, <1>2, <1>3 DEF HandsOf, Within
<1>5. QED  BY <1>2, <1>3, <1>4 DEF SocketInv

-----------------------------------------------------------------------------
(* Connections: every step keeps the invariant *)

\* What is known of one socket.
LEMMA OfSocket ==
    ASSUME ConnectionsInv, NEW c \in Conn
    PROVE  /\ SocketInv(socket[c], writer[c], sent[c], received[c])
           /\ c \in registered => Serving(socket[c], writer[c], sent[c], received[c])
           /\ reader[c].pc = "new" => Unused(c)
           /\ socket[c] \in SocketType /\ writer[c] \in WriterType /\ reader[c] \in ReaderType
           /\ sent[c] \in LogType /\ received[c] \in LogType
           /\ HandsOf(writer[c]) /\ Within(socket[c], writer[c])
  BY DEF ConnectionsInv, ConnectionsTyped, SocketInv

\* A step that concerns one socket, whose reader has begun.
LEMMA OneSocketStep ==
    ASSUME ConnectionsInv, NEW c \in Conn,
           registered' \subseteq Conn, registered' \ {c} = registered \ {c},
           members' \in [Room -> SUBSET Conn], posts' \in 0 .. MaxPosts,
           socket' = [socket EXCEPT ![c] = socket'[c]],
           writer' = [writer EXCEPT ![c] = writer'[c]],
           reader' = [reader EXCEPT ![c] = reader'[c]],
           sent' = [sent EXCEPT ![c] = sent'[c]],
           received' = [received EXCEPT ![c] = received'[c]],
           reader'[c] \in ReaderType, reader'[c].pc # "new",
           SocketInv(socket'[c], writer'[c], sent'[c], received'[c]),
           c \in registered' => Serving(socket'[c], writer'[c], sent'[c], received'[c])
    PROVE  ConnectionsInv'
<1>1. /\ socket \in [Conn -> SocketType] /\ writer \in [Conn -> WriterType]
      /\ reader \in [Conn -> ReaderType]
      /\ sent \in [Conn -> LogType] /\ received \in [Conn -> LogType]
  BY DEF ConnectionsInv, ConnectionsTyped
<1>2. /\ socket'[c] \in SocketType /\ writer'[c] \in WriterType
      /\ sent'[c] \in LogType /\ received'[c] \in LogType
  BY DEF SocketInv
<1>3. ConnectionsTyped'  BY <1>1, <1>2 DEF ConnectionsTyped
<1>4. ASSUME NEW d \in Conn
      PROVE  /\ SocketInv(socket'[d], writer'[d], sent'[d], received'[d])
             /\ d \in registered' => Serving(socket'[d], writer'[d], sent'[d], received'[d])
             /\ reader'[d].pc = "new" => Unused(d)'
  <2>1. CASE d = c  BY <2>1
  <2>2. CASE d # c
    <3>1. /\ socket'[d] = socket[d] /\ writer'[d] = writer[d] /\ reader'[d] = reader[d]
          /\ sent'[d] = sent[d] /\ received'[d] = received[d]
      BY <1>1, <2>2
    <3>2. d \in registered' <=> d \in registered  BY <2>2
    <3> QED  BY <3>1, <3>2, OfSocket DEF Unused
  <2> QED  BY <2>1, <2>2
<1>5. QED  BY <1>3, <1>4 DEF ConnectionsInv

\* The facts of the initial state.
LEMMA NewSocketInv == SocketInv(NewSocket, NewWriter, NoLog, NoLog)
<1>1. <<>> \in Seq(BestMessage) /\ <<>> \in Seq(ReliableMessage) /\ <<>> \in Seq(Message)
  BY EmptySeq
<1>2. NewSocket \in SocketType /\ NewSocket.queue = <<>> /\ NewSocket.reliable = <<>>
  BY <1>1 DEF NewSocket, SocketType
<1>3. /\ NewWriter \in WriterType /\ NewWriter.payload = NoMessage
      /\ NewWriter.reliable = NoMessage /\ NewWriter.best = NoMessage /\ NewWriter.pc = "new"
  BY DEF NewWriter, WriterType
<1>4. NoLog \in LogType  BY <1>1 DEF NoLog, LogType
<1>5. Len(<<>>) = 0  BY EmptySeq
<1>6. HandsOf(NewWriter) /\ Within(NewSocket, NewWriter)
  BY <1>2, <1>3, <1>5, ConnectionsAssumption DEF HandsOf, Within
<1>7. QED  BY <1>2, <1>3, <1>4, <1>6 DEF SocketInv

\* The program starts in a state of the invariant.
LEMMA ConnectionsInit == Init => ConnectionsInv
<1> SUFFICES ASSUME Init PROVE ConnectionsInv  OBVIOUS
<1>1. \A c \in Conn : /\ socket[c] = NewSocket /\ writer[c] = NewWriter /\ sent[c] = NoLog
                      /\ received[c] = NoLog
  BY DEF Init, NewWriter, NoLog
<1>2. NewSocket \in SocketType /\ NewWriter \in WriterType /\ NoLog \in LogType
  BY NewSocketInv DEF SocketInv
<1>3. <<>> \in Seq(Room)  BY EmptySeq
<1>4. reader \in [Conn -> ReaderType]
  <2>1. [pc |-> "new", join |-> FALSE, rooms |-> <<>>] \in ReaderType
    BY <1>3 DEF ReaderType
  <2> QED  BY <2>1 DEF Init
<1>5. ConnectionsTyped
  <2>1. socket \in [Conn -> SocketType]
    <3>1. socket = [c \in Conn |-> NewSocket]  BY DEF Init
    <3> QED  BY <1>2, <3>1
  <2>2. writer \in [Conn -> WriterType]
    <3>1. writer = [c \in Conn |-> NewWriter]  BY DEF Init, NewWriter
    <3> QED  BY <1>2, <3>1
  <2>3. sent \in [Conn -> LogType] /\ received \in [Conn -> LogType]
    <3>1. sent = [c \in Conn |-> NoLog] /\ received = [c \in Conn |-> NoLog]
      BY DEF Init, NoLog
    <3> QED  BY <1>2, <3>1
  <2>4. /\ registered = {} /\ members \in [Room -> SUBSET Conn] /\ posts \in 0 .. MaxPosts
    BY ConnectionsAssumption DEF Init
  <2> QED  BY <1>4, <2>1, <2>2, <2>3, <2>4 DEF ConnectionsTyped
<1>6. registered = {}  BY DEF Init
<1>7. QED  BY <1>1, <1>5, <1>6, NewSocketInv DEF ConnectionsInv, Unused

\* A socket that was put a message into.
LEMMA PutOne ==
    ASSUME NEW s, NEW w, NEW put, NEW got, SocketInv(s, w, put, got), Serving(s, w, put, got),
           NEW m \in Message,
           NEW more, more = [put EXCEPT ![m.kind] = Append(@, m)]
    PROVE  /\ SocketInv(Enqueued(s, m), w, more, got)
           /\ Serving(Enqueued(s, m), w, more, got)
<1>1. CASE m.kind = Reliable  BY <1>1, PutReliable
<1>2. CASE m.kind = BestEffort  BY <1>2, PutBestEffort
<1>3. QED  BY <1>1, <1>2, TwoKinds

\* What a broadcast does to one socket.
LEMMA BroadcastOne ==
    ASSUME ConnectionsInv, NEW to, NEW m \in Message, Broadcast(to, m), NEW c \in Conn
    PROVE  /\ SocketInv(socket'[c], writer[c], sent'[c], received[c])
           /\ c \in registered => Serving(socket'[c], writer[c], sent'[c], received[c])
           /\ c \notin registered => socket'[c] = socket[c] /\ sent'[c] = sent[c]
<1>1. CASE c \in to \cap registered
  <2>1. Serving(socket[c], writer[c], sent[c], received[c])  BY <1>1, OfSocket
  <2>2. socket[c].closed = FALSE  BY <2>1 DEF Serving
  <2>3. socket'[c] = Enqueued(socket[c], m)  BY <1>1 DEF Broadcast
  <2>4. sent'[c] = [sent[c] EXCEPT ![m.kind] = Append(@, m)]
    BY <1>1, <2>2 DEF Broadcast
  <2> QED  BY <1>1, <2>1, <2>3, <2>4, OfSocket, PutOne
<1>2. CASE c \notin to \cap registered
  <2>1. socket'[c] = socket[c] /\ sent'[c] = sent[c]  BY <1>2 DEF Broadcast
  <2> QED  BY <2>1, OfSocket
<1>3. QED  BY <1>1, <1>2

\* The types of what a broadcast leaves.
LEMMA BroadcastKeeps ==
    ASSUME ConnectionsInv, NEW to, NEW m \in Message, Broadcast(to, m),
           UNCHANGED <<registered, members, writer, received>>,
           reader' \in [Conn -> ReaderType], \A c \in Conn : reader'[c].pc = "new" => reader[c].pc = "new",
           posts' \in 0 .. MaxPosts
    PROVE  ConnectionsInv'
<1>1. ASSUME NEW c \in Conn
      PROVE  /\ SocketInv(socket'[c], writer[c], sent'[c], received[c])
             /\ c \in registered => Serving(socket'[c], writer[c], sent'[c], received[c])
             /\ c \notin registered => socket'[c] = socket[c] /\ sent'[c] = sent[c]
  BY BroadcastOne
<1>2. ASSUME NEW c \in Conn  PROVE socket'[c] \in SocketType /\ sent'[c] \in LogType
  BY <1>1 DEF SocketInv
<1>3. socket' \in [Conn -> SocketType] /\ sent' \in [Conn -> LogType]
  <2>1. /\ DOMAIN socket' = Conn /\ socket' = [c \in Conn |-> socket'[c]]
        /\ DOMAIN sent' = Conn /\ sent' = [c \in Conn |-> sent'[c]]
    BY DEF Broadcast
  <2> QED  BY <1>2, <2>1
<1>4. ConnectionsTyped'  BY <1>3 DEF ConnectionsInv, ConnectionsTyped
<1>5. ASSUME NEW c \in Conn, reader'[c].pc = "new"  PROVE Unused(c)'
  <2>1. Unused(c)  BY <1>5, OfSocket
  <2> QED  BY <1>1, <2>1 DEF Unused
<1>6. QED  BY <1>1, <1>4, <1>5 DEF ConnectionsInv

\* Disconnecting a socket whose reader has begun.
LEMMA DisconnectKeeps ==
    ASSUME ConnectionsInv, NEW c \in Conn, Disconnect(c), reader[c].pc # "new",
           reader' = [reader EXCEPT ![c] = reader'[c]], reader'[c] \in ReaderType,
           reader'[c].pc # "new", UNCHANGED <<posts, sent, received>>
    PROVE  ConnectionsInv'
<1>1. /\ registered \subseteq Conn /\ members \in [Room -> SUBSET Conn]
      /\ socket \in [Conn -> SocketType] /\ writer \in [Conn -> WriterType]
      /\ posts \in 0 .. MaxPosts
      /\ sent \in [Conn -> LogType] /\ received \in [Conn -> LogType]
  BY DEF ConnectionsInv, ConnectionsTyped
<1>2. /\ socket'[c] = [socket[c] EXCEPT !.closed = TRUE, !.rooms = {}]
      /\ writer'[c] = [writer[c] EXCEPT !.pc = "done"]
      /\ socket' = [socket EXCEPT ![c] = socket'[c]]
      /\ writer' = [writer EXCEPT ![c] = writer'[c]]
  BY <1>1 DEF Disconnect
<1>3. SocketInv(socket'[c], writer'[c], sent[c], received[c])
  <2>1. SocketInv(socket[c], writer[c], sent[c], received[c])  BY OfSocket
  <2> QED  BY ONLY <1>2, <2>1, ClosedSocket
<1>4. members' \in [Room -> SUBSET Conn]
  <2>1. members' = Left(c, socket[c].rooms)  BY DEF Disconnect
  <2> QED  BY <1>1, <2>1 DEF Left
<1>5. /\ registered' \subseteq Conn /\ registered' \ {c} = registered \ {c}
      /\ c \notin registered'
  BY <1>1 DEF Disconnect
<1>6. /\ sent' = [sent EXCEPT ![c] = sent'[c]] /\ received' = [received EXCEPT ![c] = received'[c]]
      /\ sent'[c] = sent[c] /\ received'[c] = received[c] /\ posts' = posts
  BY <1>1
<1>7. QED  BY <1>1, <1>2, <1>3, <1>4, <1>5, <1>6, OneSocketStep

\* The variables that one socket's steps leave alone, as functions.
LEMMA SameFunctions ==
    ASSUME ConnectionsInv, NEW c \in Conn
    PROVE  /\ socket = [socket EXCEPT ![c] = socket[c]]
           /\ writer = [writer EXCEPT ![c] = writer[c]]
           /\ reader = [reader EXCEPT ![c] = reader[c]]
           /\ sent = [sent EXCEPT ![c] = sent[c]]
           /\ received = [received EXCEPT ![c] = received[c]]
           /\ registered \subseteq Conn /\ members \in [Room -> SUBSET Conn]
           /\ posts \in 0 .. MaxPosts
  BY DEF ConnectionsInv, ConnectionsTyped

\* Connect registers a socket and starts its writer.
LEMMA ConnectKeeps ==
    ASSUME ConnectionsInv, NEW c \in Conn, Connect(c)
    PROVE  ConnectionsInv'
<1>1. Unused(c)  BY OfSocket DEF Connect
<1>2. /\ registered' = registered \cup {c} /\ writer' = [writer EXCEPT ![c].pc = "next"]
      /\ UNCHANGED <<members, socket, posts, sent, received>>
  BY DEF Connect
<1>3. PICK rooms \in {<<room>> : room \in Room} \cup {<<>>} :
          reader' = [reader EXCEPT ![c] = [pc |-> "handle", join |-> TRUE, rooms |-> rooms]]
  BY DEF Connect
<1>4. rooms \in Seq(Room)
  <2>1. <<>> \in Seq(Room)  BY EmptySeq
  <2>2. ASSUME NEW room \in Room  PROVE <<room>> \in Seq(Room)  OBVIOUS
  <2> QED  BY <1>3, <2>1, <2>2
<1>5. /\ writer \in [Conn -> WriterType] /\ reader \in [Conn -> ReaderType]
      /\ registered \subseteq Conn
  BY DEF ConnectionsInv, ConnectionsTyped
<1>6. reader' = [reader EXCEPT ![c] = reader'[c]] /\ reader'[c].pc # "new"
  BY <1>3, <1>5
<1>7. reader'[c] \in ReaderType
  <2>1. reader'[c] = [pc |-> "handle", join |-> TRUE, rooms |-> rooms]  BY <1>3, <1>5
  <2> QED  BY <1>4, <2>1 DEF ReaderType
<1>8. writer' = [writer EXCEPT ![c] = writer'[c]] /\ writer'[c] = [NewWriter EXCEPT !.pc = "next"]
  BY <1>1, <1>2, <1>5 DEF Unused
<1> DEFINE v == [NewWriter EXCEPT !.pc = "next"]
<1>9. /\ v \in WriterType /\ v.pc = "next" /\ v.payload = NoMessage /\ v.reliable = NoMessage
      /\ v.best = NoMessage
  BY DEF NewWriter, WriterType
<1>10. InHand(v, Reliable) = <<>> /\ InHand(v, BestEffort) = <<>>
  <2> HIDE DEF v
  <2> QED  BY <1>9, NothingInHand DEF Kind
<1>11. SocketInv(NewSocket, v, NoLog, NoLog) /\ Serving(NewSocket, v, NoLog, NoLog)
  <2> HIDE DEF v
  <2>1. /\ NewSocket.queue = <<>> /\ NewSocket.reliable = <<>> /\ NewSocket.dropped = 0
        /\ NewSocket.closed = FALSE
    BY DEF NewSocket
  <2>2. NoLog[Reliable] = <<>> /\ NoLog[BestEffort] = <<>>  BY DEF NoLog, Kind
  <2>3. HandsOf(v) /\ Within(NewSocket, v)
    BY <1>9, NewSocketInv DEF HandsOf, Within, SocketInv
  <2>4. <<>> \o <<>> \o <<>> = <<>>
    <3>1. <<>> \o <<>> = <<>>  BY EmptySeq, ConcatEmptySeq
    <3> QED  BY <3>1
  <2>5. Len(<<>>) = 0  BY EmptySeq
  <2>6. InOrderKept(NewSocket, v, NoLog, NoLog) /\ AllCounted(NewSocket, v, NoLog, NoLog)
    BY <1>10, <2>1, <2>2, <2>4, <2>5 DEF InOrderKept, AllCounted
  <2> QED  BY <1>9, <2>1, <2>3, <2>6, NewSocketInv DEF SocketInv, Serving
<1>12. /\ SocketInv(socket'[c], writer'[c], sent'[c], received'[c])
       /\ Serving(socket'[c], writer'[c], sent'[c], received'[c])
  BY <1>1, <1>2, <1>8, <1>11 DEF Unused
<1>13. /\ registered' \subseteq Conn /\ registered' \ {c} = registered \ {c}  BY <1>2, <1>5
<1> HIDE DEF v
<1>14. /\ socket' = [socket EXCEPT ![c] = socket'[c]] /\ sent' = [sent EXCEPT ![c] = sent'[c]]
       /\ received' = [received EXCEPT ![c] = received'[c]]
       /\ members' \in [Room -> SUBSET Conn] /\ posts' \in 0 .. MaxPosts
  BY <1>2, SameFunctions
<1>15. QED  BY <1>6, <1>7, <1>8, <1>12, <1>13, <1>14, OneSocketStep

\* The lists of rooms are sequences of rooms.
LEMMA RoomListType == RoomLists \subseteq Seq(Room)
<1>1. ASSUME NEW p \in {<<room>> : room \in Room}  PROVE p \in Seq(Room)
  <2>1. PICK a \in Room : p = <<a>>  BY <1>1
  <2>2. <<a>> \in Seq(Room)  OBVIOUS
  <2> QED  BY <2>1, <2>2
<1>2. ASSUME NEW p \in {<<a, b>> : a, b \in Room}  PROVE p \in Seq(Room)
  <2>1. PICK a \in Room, b \in Room : p = <<a, b>>  BY <1>2
  <2>2. <<a, b>> \in Seq(Room)  OBVIOUS
  <2> QED  BY <2>1, <2>2
<1>3. QED  BY <1>1, <1>2 DEF RoomLists

\* Requests and the answers to them.
LEMMA ReaderKeeps ==
    ASSUME ConnectionsInv, NEW c \in Conn, Request(c) \/ AnswerAtOnce(c) \/ Handled(c)
    PROVE  ConnectionsInv'
<1>1. reader \in [Conn -> ReaderType] /\ posts \in 0 .. MaxPosts
  BY DEF ConnectionsInv, ConnectionsTyped
<1> DEFINE m == [kind |-> BestEffort, number |-> 0]
<1>2. m \in Message  BY ConnectionsAssumption DEF Message, Kind
<1>3. CASE Request(c)
  <2>1. PICK join \in BOOLEAN, rooms \in RoomLists :
            reader' = [reader EXCEPT ![c] = [pc |-> "handle", join |-> join, rooms |-> rooms]]
    BY <1>3 DEF Request
  <2>2. rooms \in Seq(Room)  BY <2>1, RoomListType
  <2>3. reader'[c] \in ReaderType /\ reader'[c].pc = "handle"
    <3>1. reader'[c] = [pc |-> "handle", join |-> join, rooms |-> rooms]  BY <1>1, <2>1
    <3> QED  BY <2>1, <2>2, <3>1 DEF ReaderType
  <2>4. reader' = [reader EXCEPT ![c] = reader'[c]]  BY <1>1, <2>1
  <2>5. UNCHANGED <<registered, members, socket, writer, posts, sent, received>>
    BY <1>3 DEF Request
  <2>6. /\ socket' = [socket EXCEPT ![c] = socket'[c]] /\ writer' = [writer EXCEPT ![c] = writer'[c]]
        /\ sent' = [sent EXCEPT ![c] = sent'[c]] /\ received' = [received EXCEPT ![c] = received'[c]]
        /\ registered' \subseteq Conn /\ members' \in [Room -> SUBSET Conn]
        /\ posts' \in 0 .. MaxPosts
    BY <2>5, SameFunctions
  <2>7. /\ SocketInv(socket'[c], writer'[c], sent'[c], received'[c])
        /\ c \in registered' => Serving(socket'[c], writer'[c], sent'[c], received'[c])
    BY <2>5, OfSocket
  <2> QED  BY <2>3, <2>4, <2>5, <2>6, <2>7, OneSocketStep
<1>4. CASE AnswerAtOnce(c)
  <2>1. Broadcast({c}, m) /\ UNCHANGED <<registered, members, writer, received, reader, posts>>
    BY <1>4 DEF AnswerAtOnce, Answer
  <2> HIDE DEF m
  <2> QED  BY <1>1, <1>2, <2>1, BroadcastKeeps
<1>5. CASE Handled(c)
  <2>1. Broadcast({c}, m) /\ UNCHANGED <<registered, members, writer, received, posts>>
    BY <1>5 DEF Handled, Answer
  <2>2. reader' = [reader EXCEPT ![c].pc = "receive"]  BY <1>5 DEF Handled
  <2>3. reader' \in [Conn -> ReaderType]
    <3>1. [reader[c] EXCEPT !.pc = "receive"] \in ReaderType  BY <1>1 DEF ReaderType
    <3> QED  BY <1>1, <2>2, <3>1
  <2>4. ASSUME NEW d \in Conn, reader'[d].pc = "new"  PROVE reader[d].pc = "new"
    <3>1. CASE d = c
      <4>1. reader'[c].pc = "receive"  BY <1>1, <2>2 DEF ReaderType
      <4> QED  BY <2>4, <3>1, <4>1
    <3>2. CASE d # c  BY <1>1, <2>2, <2>4, <3>2
    <3> QED  BY <3>1, <3>2
  <2> HIDE DEF m
  <2> QED  BY <1>1, <1>2, <2>1, <2>3, <2>4, BroadcastKeeps
<1>6. QED  BY <1>3, <1>4, <1>5

\* Joining and leaving a room.
LEMMA RoomsKeep ==
    ASSUME ConnectionsInv, NEW c \in Conn, Join(c) \/ Leave(c)
    PROVE  ConnectionsInv'
<1>1. /\ reader \in [Conn -> ReaderType] /\ socket \in [Conn -> SocketType]
      /\ members \in [Room -> SUBSET Conn]
  BY DEF ConnectionsInv, ConnectionsTyped
<1>2. /\ reader[c].pc = "handle" /\ reader[c].rooms # <<>>
      /\ reader' = [reader EXCEPT ![c].rooms = Tail(@)]
      /\ UNCHANGED <<registered, writer, posts, sent, received>>
  BY DEF Join, Leave
<1> DEFINE q == Tail(reader[c].rooms)
           room == Head(reader[c].rooms)
<1>3. q \in Seq(Room) /\ room \in Room
  <2>1. reader[c].rooms \in Seq(Room)  BY <1>1 DEF ReaderType
  <2> QED  BY <1>2, <2>1, HeadFirst
<1>4. reader' = [reader EXCEPT ![c].rooms = q]  BY <1>2
<1> HIDE DEF q
<1>5. /\ reader'[c] \in ReaderType /\ reader'[c].pc # "new"
      /\ reader' = [reader EXCEPT ![c] = reader'[c]]
  <2>1. reader'[c] = [reader[c] EXCEPT !.rooms = q]  BY <1>1, <1>4
  <2>2. reader[c] \in ReaderType  BY <1>1
  <2>3. reader'[c] \in ReaderType /\ reader'[c].pc = reader[c].pc
    BY <1>3, <2>1, <2>2 DEF ReaderType
  <2> QED  BY <1>1, <1>2, <1>4, <2>3
<1>6. \E r \in SUBSET Room : socket' = [socket EXCEPT ![c].rooms = r]
  <2>1. socket[c].rooms \subseteq Room  BY OfSocket, SocketFields
  <2>2. CASE Join(c)
    <3>1. socket' = [socket EXCEPT ![c].rooms = socket[c].rooms \cup {room}]  BY <2>2 DEF Join
    <3>2. socket[c].rooms \cup {room} \in SUBSET Room  BY <1>3, <2>1
    <3> QED  BY <3>1, <3>2
  <2>3. CASE Leave(c)
    <3>1. socket' = [socket EXCEPT ![c].rooms = socket[c].rooms \ {room}]  BY <2>3 DEF Leave
    <3>2. socket[c].rooms \ {room} \in SUBSET Room  BY <2>1
    <3> QED  BY <3>1, <3>2
  <2> QED  BY <2>2, <2>3
<1>7. PICK r \in SUBSET Room : socket' = [socket EXCEPT ![c].rooms = r]  BY <1>6
<1>8. members' \in [Room -> SUBSET Conn]
  <2>1. CASE Join(c)
    <3>1. members' = [members EXCEPT ![room] = @ \cup {c}]  BY <2>1 DEF Join
    <3> QED  BY <1>1, <1>3, <3>1
  <2>2. CASE Leave(c)
    <3>1. members' = Left(c, {room})  BY <2>2 DEF Leave
    <3> QED  BY <1>1, <3>1 DEF Left
  <2> QED  BY <2>1, <2>2
<1> HIDE DEF room
<1>9. /\ socket'[c] = [socket[c] EXCEPT !.rooms = r]
      /\ socket' = [socket EXCEPT ![c] = socket'[c]]
  BY <1>1, <1>7
<1>10. /\ socket'[c] \in SocketType /\ socket'[c].queue = socket[c].queue
       /\ socket'[c].reliable = socket[c].reliable /\ socket'[c].dropped = socket[c].dropped
       /\ socket'[c].closed = socket[c].closed /\ socket'[c].overflow = socket[c].overflow
  <2>1. socket[c] \in SocketType  BY <1>1
  <2> QED  BY <1>7, <1>9, <2>1 DEF SocketType
<1>11. /\ SocketInv(socket'[c], writer[c], sent[c], received[c])
       /\ c \in registered => Serving(socket'[c], writer[c], sent[c], received[c])
  BY <1>10, OfSocket, SameQueues
<1>12. /\ writer' = [writer EXCEPT ![c] = writer'[c]] /\ sent' = [sent EXCEPT ![c] = sent'[c]]
       /\ received' = [received EXCEPT ![c] = received'[c]]
       /\ registered' \subseteq Conn /\ posts' \in 0 .. MaxPosts
  BY <1>2, SameFunctions
<1>13. QED  BY <1>2, <1>5, <1>8, <1>9, <1>11, <1>12, OneSocketStep

\* A step of the writer that changes its socket and what it holds.
LEMMA WriterStep ==
    ASSUME ConnectionsInv, NEW c \in Conn, reader[c].pc # "new",
           NEW t, NEW v, socket' = [socket EXCEPT ![c] = t], writer' = [writer EXCEPT ![c] = v],
           NEW got, received' = [received EXCEPT ![c] = got],
           UNCHANGED <<registered, members, reader, posts, sent>>,
           SocketInv(t, v, sent[c], got),
           Serving(socket[c], writer[c], sent[c], received[c]) => Serving(t, v, sent[c], got)
    PROVE  ConnectionsInv'
<1>1. /\ socket \in [Conn -> SocketType] /\ writer \in [Conn -> WriterType]
      /\ received \in [Conn -> LogType]
  BY DEF ConnectionsInv, ConnectionsTyped
<1>2. socket'[c] = t /\ writer'[c] = v /\ received'[c] = got  BY <1>1
<1>3. /\ sent' = [sent EXCEPT ![c] = sent'[c]] /\ reader' = [reader EXCEPT ![c] = reader'[c]]
      /\ registered' \subseteq Conn /\ members' \in [Room -> SUBSET Conn]
      /\ posts' \in 0 .. MaxPosts /\ reader'[c] \in ReaderType
  BY SameFunctions, OfSocket
<1>4. c \in registered => Serving(t, v, sent[c], got)  BY OfSocket
<1>5. QED  BY <1>2, <1>3, <1>4, OneSocketStep

\* A writer that runs belongs to a reader that has begun.
LEMMA WriterBegun ==
    ASSUME ConnectionsInv, NEW c \in Conn, writer[c].pc # "new"
    PROVE  reader[c].pc # "new"
<1>1. Unused(c) => writer[c].pc = "new"  BY DEF Unused, NewWriter
<1>2. QED  BY <1>1, OfSocket

\* Taking a message without waiting.
LEMMA TakeNowKeeps ==
    ASSUME ConnectionsInv, NEW c \in Conn, TakeNow(c)
    PROVE  ConnectionsInv'
<1> DEFINE s == socket[c]
           w == writer[c]
<1>1. /\ socket \in [Conn -> SocketType] /\ writer \in [Conn -> WriterType]
      /\ received = [received EXCEPT ![c] = received[c]]
      /\ socket = [socket EXCEPT ![c] = s]
  BY SameFunctions DEF ConnectionsInv, ConnectionsTyped
<1>2. /\ s \in SocketType /\ w \in WriterType /\ HandsOf(w)
      /\ SocketInv(s, w, sent[c], received[c])
  BY OfSocket
<1>3. w.pc = "next" /\ UNCHANGED <<registered, members, reader, posts, sent, received>>
  BY DEF TakeNow
<1>4. reader[c].pc # "new"  BY <1>3, WriterBegun
<1>5. w.payload = NoMessage /\ w.reliable = NoMessage /\ w.best = NoMessage
  BY <1>2, <1>3 DEF HandsOf
<1>6. InHand(w, Reliable) = <<>> /\ InHand(w, BestEffort) = <<>>
  <2> HIDE DEF w
  <2> QED  BY <1>5, NothingInHand DEF Kind
<1>7. CASE s.reliable # <<>>
  <2> DEFINE h == Head(s.reliable)
             v == [w EXCEPT !.pc = "send", !.payload = h]
             t == [s EXCEPT !.reliable = Tail(@)]
  <2>1. /\ writer' = [writer EXCEPT ![c] = v] /\ socket' = [socket EXCEPT ![c] = t]
    BY <1>1, <1>7 DEF TakeNow
  <2>2. h \in ReliableMessage  BY <1>2, <1>7, SocketFields, HeadFirst
  <2>3. h \in Message /\ h.kind = Reliable /\ h # NoMessage  BY <2>2, KindsOf
  <2> HIDE DEF h
  <2>4. /\ v \in WriterType /\ v.pc = "send" /\ v.payload = h /\ v.reliable = NoMessage
        /\ v.best = NoMessage
    BY <1>2, <1>5, <2>3 DEF WriterType
  <2> HIDE DEF v
  <2>5. HandsOf(v)  BY <2>3, <2>4 DEF HandsOf
  <2>6. InHand(v, Reliable) = <<h>> /\ InHand(v, BestEffort) = <<>>
    BY <2>3, <2>4, SendingHand, KindsOf DEF Kind
  <2>7. /\ SocketInv(t, v, sent[c], received[c])
        /\ Serving(s, w, sent[c], received[c]) => Serving(t, v, sent[c], received[c])
    <3>1. t = [s EXCEPT !.reliable = Tail(@)] /\ InHand(v, Reliable) = <<Head(s.reliable)>>
          /\ v.best = w.best /\ v.pc \in {"send", "wait"}
          /\ InHand(v, BestEffort) = InHand(w, BestEffort)
      BY <1>5, <1>6, <2>4, <2>6 DEF h
    <3> HIDE DEF s, w, t
    <3> QED  BY <1>2, <1>6, <1>7, <2>4, <2>5, <3>1, TakeReliable
  <2> HIDE DEF t
  <2> QED  BY <1>1, <1>3, <1>4, <2>1, <2>7, WriterStep
<1>8. CASE s.reliable = <<>> /\ s.queue # <<>>
  <2> DEFINE h == Head(s.queue)
             v == [w EXCEPT !.pc = "send", !.payload = h]
             t == [s EXCEPT !.queue = Tail(@)]
  <2>1. /\ writer' = [writer EXCEPT ![c] = v] /\ socket' = [socket EXCEPT ![c] = t]
    BY <1>1, <1>8 DEF TakeNow
  <2>2. h \in BestMessage  BY <1>2, <1>8, SocketFields, HeadFirst
  <2>3. h \in Message /\ h.kind = BestEffort /\ h # NoMessage  BY <2>2, KindsOf
  <2> HIDE DEF h
  <2>4. /\ v \in WriterType /\ v.pc = "send" /\ v.payload = h /\ v.reliable = NoMessage
        /\ v.best = NoMessage
    BY <1>2, <1>5, <2>3 DEF WriterType
  <2> HIDE DEF v
  <2>5. HandsOf(v)  BY <2>3, <2>4 DEF HandsOf
  <2>6. InHand(v, BestEffort) = <<h>> /\ InHand(v, Reliable) = <<>>
    BY <2>3, <2>4, SendingHand, KindsOf DEF Kind
  <2>7. /\ SocketInv(t, v, sent[c], received[c])
        /\ Serving(s, w, sent[c], received[c]) => Serving(t, v, sent[c], received[c])
    <3>1. t = [s EXCEPT !.queue = Tail(@)] /\ InHand(v, BestEffort) = <<Head(s.queue)>>
          /\ v.pc \in {"send", "wait"} /\ InHand(v, Reliable) = InHand(w, Reliable)
      BY <1>6, <2>4, <2>6 DEF h
    <3> HIDE DEF s, w, t
    <3> QED  BY <1>2, <1>6, <1>8, <2>4, <2>5, <3>1, TakeBestEffort
  <2> HIDE DEF t
  <2> QED  BY <1>1, <1>3, <1>4, <2>1, <2>7, WriterStep
<1>9. CASE s.reliable = <<>> /\ s.queue = <<>>
  <2> DEFINE v == [w EXCEPT !.pc = "wait"]
  <2>1. writer' = [writer EXCEPT ![c] = v] /\ socket' = [socket EXCEPT ![c] = s]
    BY <1>1, <1>9 DEF TakeNow
  <2>2. /\ v \in WriterType /\ v.pc = "wait" /\ v.payload = NoMessage
        /\ v.reliable = NoMessage /\ v.best = NoMessage
    BY <1>2, <1>5 DEF WriterType
  <2> HIDE DEF v
  <2>3. HandsOf(v)  BY <2>2 DEF HandsOf
  <2>4. InHand(v, Reliable) = <<>> /\ InHand(v, BestEffort) = <<>>
    BY <2>2, NothingInHand DEF Kind
  <2>5. /\ SocketInv(s, v, sent[c], received[c])
        /\ Serving(s, w, sent[c], received[c]) => Serving(s, v, sent[c], received[c])
    <3> HIDE DEF s, w
    <3> QED  BY <1>2, <1>6, <2>2, <2>3, <2>4, SameHands
  <2> QED  BY <1>1, <1>3, <1>4, <2>1, <2>5, WriterStep
<1>10. QED  BY <1>7, <1>8, <1>9

\* Taking a message while waiting.
LEMMA GetKeeps ==
    ASSUME ConnectionsInv, NEW c \in Conn, Get(c)
    PROVE  ConnectionsInv'
<1> DEFINE s == socket[c]
           w == writer[c]
<1>1. /\ socket \in [Conn -> SocketType] /\ writer \in [Conn -> WriterType]
      /\ received = [received EXCEPT ![c] = received[c]]
  BY SameFunctions DEF ConnectionsInv, ConnectionsTyped
<1>2. /\ s \in SocketType /\ w \in WriterType /\ HandsOf(w)
      /\ SocketInv(s, w, sent[c], received[c])
  BY OfSocket
<1>3. w.pc = "wait" /\ UNCHANGED <<registered, members, reader, posts, sent, received>>
  BY DEF Get, GetReliable, GetBestEffort
<1>4. reader[c].pc # "new"  BY <1>3, WriterBegun
<1>5. w.payload = NoMessage  BY <1>2, <1>3 DEF HandsOf
<1>6. CASE GetReliable(c) /\ writer' = [writer EXCEPT ![c].reliable = Head(s.reliable)]
                          /\ socket' = [socket EXCEPT ![c].reliable = Tail(@)]
  <2> DEFINE h == Head(s.reliable)
             v == [w EXCEPT !.reliable = h]
             t == [s EXCEPT !.reliable = Tail(@)]
  <2>1. /\ writer' = [writer EXCEPT ![c] = v] /\ socket' = [socket EXCEPT ![c] = t]
    BY <1>1, <1>6
  <2>2. s.reliable # <<>> /\ w.reliable = NoMessage  BY <1>6 DEF GetReliable
  <2>3. h \in ReliableMessage  BY <1>2, <2>2, SocketFields, HeadFirst
  <2>4. h # NoMessage  BY <2>3, KindsOf
  <2>5. h = Head(s.reliable)  OBVIOUS
  <2> HIDE DEF h
  <2>6. /\ v \in WriterType /\ v.pc = "wait" /\ v.payload = NoMessage /\ v.reliable = h
        /\ v.best = w.best
    BY <1>2, <1>3, <1>5, <2>3 DEF WriterType
  <2>7. t = [s EXCEPT !.reliable = Tail(@)]  OBVIOUS
  <2> HIDE DEF v, s, w, t
  <2>8. HandsOf(v)  BY <2>6 DEF HandsOf
  <2>9. /\ InHand(w, Reliable) = <<>> /\ InHand(v, Reliable) = <<h>>
        /\ InHand(v, BestEffort) = InHand(w, BestEffort)
    BY <1>2, <1>5, <2>2, <2>4, <2>6, WaitingHand
  <2>10. /\ SocketInv(t, v, sent[c], received[c])
         /\ Serving(s, w, sent[c], received[c]) => Serving(t, v, sent[c], received[c])
    <3>1. InHand(v, Reliable) = <<Head(s.reliable)>> /\ v.pc \in {"send", "wait"}
      BY <2>5, <2>6, <2>9
    <3> QED  BY <1>2, <2>2, <2>6, <2>7, <2>8, <2>9, <3>1, TakeReliable
  <2> QED  BY <1>1, <1>3, <1>4, <2>1, <2>10, WriterStep DEF s, w
<1>7. CASE GetBestEffort(c) /\ writer' = [writer EXCEPT ![c].best = Head(s.queue)]
                            /\ socket' = [socket EXCEPT ![c].queue = Tail(@)]
  <2> DEFINE h == Head(s.queue)
             v == [w EXCEPT !.best = h]
             t == [s EXCEPT !.queue = Tail(@)]
  <2>1. /\ writer' = [writer EXCEPT ![c] = v] /\ socket' = [socket EXCEPT ![c] = t]
    BY <1>1, <1>7
  <2>2. s.queue # <<>> /\ w.best = NoMessage  BY <1>7 DEF GetBestEffort
  <2>3. h \in BestMessage  BY <1>2, <2>2, SocketFields, HeadFirst
  <2>4. h # NoMessage  BY <2>3, KindsOf
  <2>5. h = Head(s.queue)  OBVIOUS
  <2> HIDE DEF h
  <2>6. /\ v \in WriterType /\ v.pc = "wait" /\ v.payload = NoMessage /\ v.best = h
        /\ v.reliable = w.reliable
    BY <1>2, <1>3, <1>5, <2>3 DEF WriterType
  <2>7. t = [s EXCEPT !.queue = Tail(@)]  OBVIOUS
  <2> HIDE DEF v, s, w, t
  <2>8. HandsOf(v)  BY <2>6 DEF HandsOf
  <2>9. /\ InHand(w, BestEffort) = <<>> /\ InHand(v, BestEffort) = <<h>>
        /\ InHand(v, Reliable) = InHand(w, Reliable)
    BY <1>2, <1>5, <2>2, <2>4, <2>6, WaitingHand
  <2>10. /\ SocketInv(t, v, sent[c], received[c])
         /\ Serving(s, w, sent[c], received[c]) => Serving(t, v, sent[c], received[c])
    <3>1. InHand(v, BestEffort) = <<Head(s.queue)>> /\ v.pc \in {"send", "wait"}
      BY <2>5, <2>6, <2>9
    <3> QED  BY <1>2, <2>2, <2>6, <2>7, <2>8, <2>9, <3>1, TakeBestEffort
  <2> QED  BY <1>1, <1>3, <1>4, <2>1, <2>10, WriterStep DEF s, w
<1>8. QED  BY <1>6, <1>7 DEF Get

\* The writer wakes up.
LEMMA ResumeKeeps ==
    ASSUME ConnectionsInv, NEW c \in Conn, Resume(c)
    PROVE  ConnectionsInv'
<1> DEFINE s == socket[c]
           w == writer[c]
           m == Chosen(w)
           v == [pc |-> "send", payload |-> m, reliable |-> NoMessage, best |-> NoMessage]
<1>1. /\ socket \in [Conn -> SocketType] /\ writer \in [Conn -> WriterType]
      /\ received = [received EXCEPT ![c] = received[c]]
      /\ socket = [socket EXCEPT ![c] = s]
  BY SameFunctions DEF ConnectionsInv, ConnectionsTyped
<1>2. /\ s \in SocketType /\ w \in WriterType /\ HandsOf(w)
      /\ SocketInv(s, w, sent[c], received[c])
  BY OfSocket
<1>3. /\ w.pc = "wait" /\ (w.reliable # NoMessage \/ w.best # NoMessage)
      /\ writer' = [writer EXCEPT ![c] = v]
      /\ UNCHANGED <<registered, members, reader, posts, sent, received>>
  BY DEF Resume
<1>4. reader[c].pc # "new"  BY <1>3, WriterBegun
<1>5. w.payload = NoMessage  BY <1>2, <1>3 DEF HandsOf
<1>6. /\ w.reliable \in ReliableMessage \cup {NoMessage}
      /\ w.best \in BestMessage \cup {NoMessage}
  BY <1>2 DEF WriterType
<1>7. m = IF w.reliable # NoMessage THEN w.reliable ELSE w.best  BY DEF Chosen
<1>8. socket' = IF w.reliable # NoMessage /\ w.best # NoMessage
                THEN [socket EXCEPT ![c].queue = Append(@, w.best)] ELSE socket
  BY DEF Resume, Requeued
<1> HIDE DEF m
<1>9. m \in Message /\ m # NoMessage  BY <1>3, <1>6, <1>7, KindsOf
<1>10. /\ v \in WriterType /\ v.pc = "send" /\ v.payload = m /\ v.reliable = NoMessage
       /\ v.best = NoMessage
  BY <1>9 DEF WriterType
<1> HIDE DEF v
<1>11. HandsOf(v)  BY <1>9, <1>10 DEF HandsOf
<1>12. CASE w.reliable # NoMessage
  <2>1. m = w.reliable /\ m.kind = Reliable  BY <1>6, <1>7, <1>12, KindsOf
  <2>2. InHand(v, Reliable) = <<m>> /\ InHand(v, BestEffort) = <<>>
    BY <1>9, <1>10, <2>1, SendingHand, KindsOf DEF Kind
  <2>3. InHand(w, Reliable) = <<m>>
    <3> HIDE DEF w
    <3> QED  BY <1>2, <1>5, <1>12, <2>1, WaitingHand
  <2>4. CASE w.best = NoMessage
    <3>1. socket' = [socket EXCEPT ![c] = s]  BY <1>1, <1>8, <2>4
    <3>2. /\ SocketInv(s, v, sent[c], received[c])
          /\ Serving(s, w, sent[c], received[c]) => Serving(s, v, sent[c], received[c])
      <4> HIDE DEF s, w
      <4>1. InHand(w, BestEffort) = <<>>  BY <1>2, <1>5, <2>4, WaitingHand
      <4> QED  BY <1>2, <1>10, <1>11, <2>2, <2>3, <4>1, SameHands
    <3> QED  BY <1>1, <1>3, <1>4, <3>1, <3>2, WriterStep
  <2>5. CASE w.best # NoMessage
    <3> DEFINE t == [s EXCEPT !.queue = Append(@, w.best)]
    <3>1. socket' = [socket EXCEPT ![c] = t]  BY <1>1, <1>8, <1>12, <2>5
    <3>2. /\ SocketInv(t, v, sent[c], received[c])
          /\ Serving(s, w, sent[c], received[c]) => Serving(t, v, sent[c], received[c])
      <4> DEFINE b == w.best
                 q == Append(s.queue, b)
      <4>1. b \in BestMessage /\ t = [s EXCEPT !.queue = q] /\ q = Append(s.queue, b)
        BY <1>6, <2>5
      <4>2. InHand(w, BestEffort) = <<b>>
        <5> HIDE DEF w
        <5> QED  BY <1>2, <1>5, <2>5, WaitingHand
      <4>3. v.best = NoMessage /\ v.pc = "send" /\ InHand(v, Reliable) = InHand(w, Reliable)
        BY <1>10, <2>2, <2>3
      <4> DEFINE put == sent[c]
                 got == received[c]
      <4>4. SocketInv(s, w, put, got) /\ w.best # NoMessage  BY <1>2, <2>5
      <4>5. v \in WriterType /\ HandsOf(v) /\ InHand(v, BestEffort) = <<>>
        BY <1>10, <1>11, <2>2
      <4> HIDE DEF s, w, t, b, q, put, got
      <4>6. /\ SocketInv(t, v, put, got)
            /\ Serving(s, w, put, got) => Serving(t, v, put, got)
        BY ONLY <4>1, <4>2, <4>3, <4>4, <4>5, QueuedAgain
      <4> QED  BY <4>6 DEF put, got
    <3> HIDE DEF t
    <3> QED  BY <1>1, <1>3, <1>4, <3>1, <3>2, WriterStep
  <2> QED  BY <2>4, <2>5
<1>13. CASE w.reliable = NoMessage
  <2>1. m = w.best /\ m.kind = BestEffort  BY <1>3, <1>6, <1>7, <1>13, KindsOf
  <2>2. InHand(v, BestEffort) = <<m>> /\ InHand(v, Reliable) = <<>>
    BY <1>9, <1>10, <2>1, SendingHand, KindsOf DEF Kind
  <2>3. InHand(w, BestEffort) = <<m>> /\ InHand(w, Reliable) = <<>>
    <3> HIDE DEF w
    <3> QED  BY <1>2, <1>5, <1>9, <1>13, <2>1, WaitingHand
  <2>4. socket' = [socket EXCEPT ![c] = s]  BY <1>1, <1>8, <1>13
  <2>5. /\ SocketInv(s, v, sent[c], received[c])
        /\ Serving(s, w, sent[c], received[c]) => Serving(s, v, sent[c], received[c])
    <3> HIDE DEF s, w
    <3> QED  BY <1>2, <1>10, <1>11, <2>2, <2>3, SameHands
  <2> QED  BY <1>1, <1>3, <1>4, <2>4, <2>5, WriterStep
<1>14. QED  BY <1>12, <1>13

\* A message is sent.
LEMMA SendTextKeeps ==
    ASSUME ConnectionsInv, NEW c \in Conn, SendText(c)
    PROVE  ConnectionsInv'
<1> DEFINE s == socket[c]
           w == writer[c]
           v == [w EXCEPT !.pc = "next", !.payload = NoMessage]
           more == [received[c] EXCEPT ![w.payload.kind] = Append(@, w.payload)]
<1>1. /\ writer \in [Conn -> WriterType] /\ received \in [Conn -> LogType]
      /\ socket = [socket EXCEPT ![c] = s]
  BY SameFunctions DEF ConnectionsInv, ConnectionsTyped
<1>2. SocketInv(s, w, sent[c], received[c])  BY OfSocket
<1>3. /\ w.pc = "send" /\ writer' = [writer EXCEPT ![c] = v]
      /\ received' = [received EXCEPT ![c] = more]
      /\ UNCHANGED <<registered, members, socket, reader, posts, sent>>
  BY <1>1 DEF SendText
<1>4. reader[c].pc # "new"  BY <1>3, WriterBegun
<1>5. /\ SocketInv(s, v, sent[c], more)
      /\ Serving(s, w, sent[c], received[c]) => Serving(s, v, sent[c], more)
  <2> DEFINE put == sent[c]
             got == received[c]
             m == w.payload
  <2>1. /\ m = w.payload /\ more \in LogType /\ more[m.kind] = Append(got[m.kind], m)
        /\ \A kind \in Kind : kind # m.kind => more[kind] = got[kind]
    <3>1. /\ m \in Message /\ got \in LogType /\ more = [got EXCEPT ![m.kind] = Append(@, m)]
      <4>1. w \in WriterType /\ HandsOf(w) /\ got \in LogType  BY <1>2 DEF SocketInv
      <4> HIDE DEF w
      <4> QED  BY <1>3, <4>1 DEF WriterType, HandsOf
    <3> HIDE DEF m, got, more
    <3>2. more \in LogType  BY ONLY <3>1, LogAppended
    <3>3. m.kind \in Kind /\ DOMAIN got = Kind  BY <3>1, TwoKinds DEF LogType
    <3>4. /\ more[m.kind] = Append(got[m.kind], m)
          /\ \A kind \in Kind : kind # m.kind => more[kind] = got[kind]
      BY ONLY <3>1, <3>3
    <3> QED  BY <3>2, <3>4 DEF m
  <2>2. w.pc = "send" /\ SocketInv(s, w, put, got)  BY <1>2, <1>3
  <2>3. /\ v \in WriterType /\ v.pc = "next" /\ v.payload = NoMessage
        /\ v.reliable = NoMessage /\ v.best = NoMessage
    <3>1. w \in WriterType /\ HandsOf(w)  BY <1>2 DEF SocketInv
    <3> HIDE DEF w
    <3> QED  BY <1>3, <3>1 DEF WriterType, HandsOf
  <2> HIDE DEF s, w, v, more, put, got, m
  <2>4. /\ SocketInv(s, v, put, more)
        /\ Serving(s, w, put, got) => Serving(s, v, put, more)
    BY ONLY <2>1, <2>2, <2>3, Delivered
  <2> QED  BY <2>4 DEF put, got
<1> HIDE DEF v, more
<1>6. socket' = [socket EXCEPT ![c] = s]  BY <1>1, <1>3
<1>7. QED  BY <1>3, <1>4, <1>5, <1>6, WriterStep

\* The task that an overflow scheduled ends.
LEMMA OverflowKeeps ==
    ASSUME ConnectionsInv, NEW c \in Conn, DisconnectOnOverflow(c)
    PROVE  ConnectionsInv'
<1>1. /\ socket \in [Conn -> SocketType] /\ socket[c].closing > 0
      /\ UNCHANGED <<reader, posts, sent, received>>
  BY DEF ConnectionsInv, ConnectionsTyped, DisconnectOnOverflow
<1>2. reader[c].pc # "new"
  <2>1. Unused(c) => socket[c].closing = 0  BY DEF Unused, NewSocket
  <2> QED  BY <1>1, <2>1, OfSocket
<1>3. CASE Disconnect(c)  BY <1>1, <1>2, <1>3, SameFunctions, OfSocket, DisconnectKeeps
<1>4. CASE /\ socket' = [socket EXCEPT ![c].closing = 0]
           /\ UNCHANGED <<registered, members, writer>>
  <2> DEFINE s == socket[c]
             t == [s EXCEPT !.closing = 0]
             w == writer[c]
             put == sent[c]
             got == received[c]
  <2>1. socket' = [socket EXCEPT ![c] = t]  BY <1>1, <1>4
  <2>2. SocketInv(s, w, put, got) /\ s \in SocketType  BY OfSocket
  <2>3. /\ t \in SocketType /\ t.queue = s.queue /\ t.reliable = s.reliable
        /\ t.dropped = s.dropped /\ t.closed = s.closed /\ t.overflow = s.overflow
    <3> HIDE DEF s
    <3> QED  BY <2>2 DEF SocketType
  <2>4. /\ writer' = [writer EXCEPT ![c] = w] /\ received' = [received EXCEPT ![c] = got]
    BY <1>1, <1>4, SameFunctions
  <2> HIDE DEF s, t, w, put, got
  <2>5. /\ SocketInv(t, w, put, got)
        /\ Serving(s, w, put, got) => Serving(t, w, put, got)
    BY ONLY <2>2, <2>3, SameQueues
  <2>6. UNCHANGED <<registered, members, reader, posts, sent>>  BY <1>1, <1>4
  <2>7. /\ SocketInv(t, w, sent[c], got)
        /\ Serving(socket[c], writer[c], sent[c], received[c]) => Serving(t, w, sent[c], got)
    BY <2>5 DEF s, w, put, got
  <2> QED  BY ONLY ConnectionsInv, c \in Conn, <1>2, <2>1, <2>4, <2>6, <2>7, WriterStep
<1>5. QED  BY <1>3, <1>4 DEF DisconnectOnOverflow

\* The other ways in which a socket is closed: the server stops, a send fails, the reader
\* ends.
LEMMA ClosingKeeps ==
    ASSUME ConnectionsInv, NEW c \in Conn, Shutdown(c) \/ SendFails(c) \/ EndReader(c)
    PROVE  ConnectionsInv'
<1>1. CASE Shutdown(c)
  <2>1. Disconnect(c) /\ c \in registered /\ UNCHANGED <<reader, posts, sent, received>>
    BY <1>1 DEF Shutdown
  <2>2. reader[c].pc # "new"  BY <2>1, OfSocket DEF Unused
  <2> QED  BY <2>1, <2>2, SameFunctions, OfSocket, DisconnectKeeps
<1>2. CASE SendFails(c)
  <2>1. Disconnect(c) /\ writer[c].pc = "send" /\ UNCHANGED <<reader, posts, sent, received>>
    BY <1>2 DEF SendFails
  <2>2. reader[c].pc # "new"  BY <2>1, WriterBegun
  <2> QED  BY <2>1, <2>2, SameFunctions, OfSocket, DisconnectKeeps
<1>3. CASE EndReader(c)
  <2>1. /\ reader[c].pc = "receive" /\ reader' = [reader EXCEPT ![c].pc = "end"]
        /\ UNCHANGED <<posts, sent, received>>
    BY <1>3 DEF EndReader
  <2>2. reader \in [Conn -> ReaderType] /\ reader[c] \in ReaderType
    BY DEF ConnectionsInv, ConnectionsTyped
  <2>3. /\ reader' = [reader EXCEPT ![c] = reader'[c]]
        /\ reader'[c] = [reader[c] EXCEPT !.pc = "end"]
    BY <2>1, <2>2
  <2>4. reader'[c] \in ReaderType /\ reader'[c].pc = "end"
    BY <2>2, <2>3 DEF ReaderType
  <2>5. CASE Disconnect(c)  BY <2>1, <2>3, <2>4, <2>5, DisconnectKeeps
  <2>6. CASE UNCHANGED <<registered, members, socket, writer>>
    <3>1. /\ socket' = [socket EXCEPT ![c] = socket'[c]]
          /\ writer' = [writer EXCEPT ![c] = writer'[c]]
          /\ sent' = [sent EXCEPT ![c] = sent'[c]]
          /\ received' = [received EXCEPT ![c] = received'[c]]
          /\ registered' \subseteq Conn /\ members' \in [Room -> SUBSET Conn]
          /\ posts' \in 0 .. MaxPosts
      BY <2>1, <2>6, SameFunctions
    <3>2. /\ SocketInv(socket'[c], writer'[c], sent'[c], received'[c])
          /\ c \in registered' => Serving(socket'[c], writer'[c], sent'[c], received'[c])
      BY <2>1, <2>6, OfSocket
    <3>3. registered' \ {c} = registered \ {c}  BY <2>6
    <3> QED  BY <2>3, <2>4, <3>1, <3>2, <3>3, OneSocketStep
  <2> QED  BY <1>3, <2>5, <2>6 DEF EndReader
<1>4. QED  BY <1>1, <1>2, <1>3

\* Messages of the rest of the worker.
LEMMA PostsKeep ==
    ASSUME ConnectionsInv, PostStatus \/ \E room \in Room : Post(room)
    PROVE  ConnectionsInv'
<1>1. /\ reader \in [Conn -> ReaderType] /\ posts \in 0 .. MaxPosts
  BY DEF ConnectionsInv, ConnectionsTyped
<1>2. ASSUME posts < MaxPosts, NEW kind \in Kind
      PROVE  posts + 1 \in 0 .. MaxPosts /\ [kind |-> kind, number |-> posts + 1] \in Message
  BY <1>1, <1>2, ConnectionsAssumption DEF Message
<1>3. CASE PostStatus
  <2> DEFINE m == [kind |-> BestEffort, number |-> posts + 1]
  <2>1. /\ posts < MaxPosts /\ posts' = posts + 1 /\ Broadcast(registered, m)
        /\ UNCHANGED <<registered, members, reader, writer, received>>
    BY <1>3 DEF PostStatus
  <2>2. m \in Message /\ posts' \in 0 .. MaxPosts  BY <1>2, <2>1 DEF Kind
  <2> HIDE DEF m
  <2> QED  BY <1>1, <2>1, <2>2, BroadcastKeeps
<1>4. ASSUME NEW room \in Room, Post(room)  PROVE ConnectionsInv'
  <2>1. PICK kind \in Kind : Broadcast(members[room], [kind |-> kind, number |-> posts + 1])
    BY <1>4 DEF Post, Kind
  <2> DEFINE m == [kind |-> kind, number |-> posts + 1]
             to == members[room]
  <2>2. /\ posts < MaxPosts /\ posts' = posts + 1 /\ Broadcast(to, m)
        /\ UNCHANGED <<registered, members, reader, writer, received>>
    BY <1>4, <2>1 DEF Post
  <2>3. m \in Message /\ posts' \in 0 .. MaxPosts  BY <1>2, <2>1, <2>2
  <2> HIDE DEF m, to
  <2> QED  BY <1>1, <2>2, <2>3, BroadcastKeeps
<1>5. QED  BY <1>3, <1>4

LEMMA ConnectionsStep == ConnectionsInv /\ [Next]_vars => ConnectionsInv'
<1> SUFFICES ASSUME ConnectionsInv, [Next]_vars  PROVE ConnectionsInv'
  OBVIOUS
<1>1. ASSUME NEW c \in Conn,
             Connect(c) \/ Read(c) \/ WriteNext(c) \/ DisconnectOnOverflow(c) \/ Shutdown(c)
      PROVE  ConnectionsInv'
  <2>1. CASE Connect(c)  BY <2>1, ConnectKeeps
  <2>2. CASE Read(c)  BY <2>2, ReaderKeeps, RoomsKeep, ClosingKeeps DEF Read
  <2>3. CASE WriteNext(c)
    BY <2>3, TakeNowKeeps, GetKeeps, ResumeKeeps, SendTextKeeps, ClosingKeeps DEF WriteNext
  <2>4. CASE DisconnectOnOverflow(c)  BY <2>4, OverflowKeeps
  <2>5. CASE Shutdown(c)  BY <2>5, ClosingKeeps
  <2> QED  BY <1>1, <2>1, <2>2, <2>3, <2>4, <2>5
<1>2. CASE UNCHANGED vars
  <2>1. UNCHANGED <<registered, members, socket, reader, writer, posts, sent, received>>
    BY <1>2 DEF vars
  <2> QED  BY <2>1 DEF ConnectionsInv, ConnectionsTyped, Unused
<1>3. QED  BY <1>1, <1>2, PostsKeep DEF Next

\* The invariant gives what the run checks.
LEMMA ConnectionsSafe == ConnectionsInv => NoSilentLoss
<1> SUFFICES ASSUME ConnectionsInv  PROVE NoSilentLoss
  OBVIOUS
<1>1. TypeOK
  <2>1. ASSUME NEW c \in Conn
        PROVE  /\ socket[c].queue \in Seq(Message) /\ Len(socket[c].queue) <= MaxQueue + 1
               /\ socket[c].reliable \in Seq(Message) /\ Len(socket[c].reliable) <= MaxReliable
               /\ socket[c].rooms \subseteq Room
               /\ socket[c].dropped \in Nat /\ socket[c].closing \in Nat
               /\ socket[c].closed \in BOOLEAN /\ socket[c].overflow \in BOOLEAN
    <3>1. socket[c] \in SocketType /\ Within(socket[c], writer[c])  BY OfSocket
    <3>2. /\ socket[c].queue \in Seq(Message) /\ socket[c].reliable \in Seq(Message)
      BY <3>1, MessageSeqs DEF SocketType
    <3> QED  BY <3>1, <3>2 DEF SocketType, Within
  <2> QED  BY <2>1 DEF TypeOK, ConnectionsInv, ConnectionsTyped
<1>2. ASSUME NEW c \in registered
      PROVE  (socket[c].overflow \/ ReliableKept(c)) /\ BestEffortCounted(c)
  <2>1. c \in Conn  BY DEF ConnectionsInv, ConnectionsTyped
  <2>2. Serving(socket[c], writer[c], sent[c], received[c]) /\ socket[c] \in SocketType
    BY <2>1, OfSocket
  <2>3. BestEffortCounted(c)  BY <2>2 DEF Serving, AllCounted, BestEffortCounted
  <2>4. socket[c].overflow \/ ReliableKept(c)
    <3>1. socket[c].overflow \in BOOLEAN  BY <2>2 DEF SocketType
    <3>2. CASE socket[c].overflow = FALSE
      BY <2>2, <3>2 DEF Serving, InOrderKept, ReliableKept
    <3>3. CASE socket[c].overflow = TRUE  BY <3>3
    <3> QED  BY <3>1, <3>2, <3>3
  <2> QED  BY <2>3, <2>4
<1>3. QED  BY <1>1, <1>2 DEF NoSilentLoss

THEOREM NothingLost == Spec => []NoSilentLoss
<1>1. Spec => []ConnectionsInv  BY ConnectionsInit, ConnectionsStep, PTL DEF Spec
<1>2. QED  BY <1>1, ConnectionsSafe, PTL

-----------------------------------------------------------------------------
(* Backplane: the inductive invariant *)

Relayable == [id : Nat \ {0}, own : BOOLEAN]

SubscriptionType == [open : BOOLEAN, rooms : SUBSET Channel, inbox : Seq(Relayable)]

NoticeType == [pc : {"none", "lock", "subscribe", "unsubscribe"}, room : Channel \cup {"none"},
               handle : Nat]

ActivationType == [pc : {"none", "sleep", "install", "lock", "subscribe"}, handle : Nat,
                   rooms : SUBSET Channel]

BackplaneTyped ==
    /\ present \in [Channel -> SUBSET Client]
    /\ notice \in [Client -> NoticeType]
    /\ opened \in Nat /\ opened <= 1 + MaxOutages + MaxFailures
    /\ pubsub \in Nat /\ pubsub <= opened
    /\ subscribed \subseteq Channel /\ missed \subseteq Channel
    /\ fallback \in BOOLEAN /\ stopped \in BOOLEAN /\ redis \in BOOLEAN
    /\ status \in {"none", "live", "degraded"}
    /\ activation \in ActivationType
    /\ server \in [Handle -> SubscriptionType]
    /\ relayed \in Seq({0, 1})

\* A message that waits in an inbox waits there once, and one of another worker has not
\* been relayed yet.
Deliverable(q, log) ==
    /\ \A i, j \in 1 .. Len(q) : i < j => q[i].id < q[j].id
    /\ \A i \in 1 .. Len(q) : q[i].id <= Len(log) /\ (q[i].own = FALSE => log[q[i].id] = 0)

\* One listener at most, of the subscription in use, and none while another is set up.
OneListener ==
    /\ listeners = IF task = None THEN {} ELSE {task}
    /\ task # None => task = pubsub
    /\ activation.pc \in {"install", "lock", "subscribe"} => task = None

\* Besides the subscription in use, only one that is being installed is open, and that
\* one has no rooms yet.
OneSubscription ==
    \A h \in Handle :
        /\ server[h].open => h = pubsub \/ (activation.pc = "install" /\ h = activation.handle)
        /\ h # pubsub => server[h].rooms = {} /\ server[h].inbox = <<>>
        /\ Deliverable(server[h].inbox, relayed)

ActivationSteps ==
    /\ activation.pc # "none" => fallback
    /\ stopped => activation.pc = "none" /\ pubsub = None
    /\ stopped \/ fallback \/ pubsub # None
    /\ activation.pc = "install" =>
          /\ activation.handle = opened /\ pubsub < opened
          /\ \A c \in Client : notice[c].handle < opened
    /\ activation.pc \in {"lock", "subscribe"} =>
          activation.handle = pubsub /\ pubsub # None
    /\ \A c \in Client : notice[c].handle <= opened

\* The lock is held by who calls Redis for a room, or for all rooms.
LockHeld ==
    /\ lock \in Client \cup {Nobody, Activation}
    /\ lock = Activation <=> activation.pc = "subscribe"
    /\ \A c \in Client :
          /\ lock = c <=> notice[c].pc \in {"subscribe", "unsubscribe"}
          /\ notice[c].pc # "none" => notice[c].room \in Channel

\* The bridge is in use, whether or not its connection has broken.
BridgeUp == ~stopped /\ ~fallback

NoNoticeOf(room) == \A c \in Client : notice[c].pc # "none" => notice[c].room # room

\* A call in flight serves the subscription in use and asks for what is wanted, unless
\* another task waits to ask again.
CallsRight ==
    BridgeUp => \A c \in Client :
        notice[c].pc \in {"subscribe", "unsubscribe"} =>
            /\ notice[c].handle = pubsub
            /\ \/ \E d \in Client : /\ d # c /\ notice[d].pc # "none"
                                   /\ notice[d].room = notice[c].room
               \/ notice[c].pc = "subscribe" <=> present[notice[c].room] # {}

RoomsRight ==
    /\ BridgeUp =>
          /\ subscribed \subseteq server[pubsub].rooms
          /\ \A room \in Channel :
                room \notin missed /\ NoNoticeOf(room) =>
                    (room \in subscribed <=> present[room] # {})
    /\ activation.pc = "subscribe" =>
          \A room \in Channel :
              room \notin missed => (room \in activation.rooms <=> present[room] # {})

BackplaneInv ==
    /\ BackplaneTyped /\ OneListener /\ OneSubscription /\ ActivationSteps /\ LockHeld
    /\ StatusTold /\ CallsRight /\ RoomsRight

-----------------------------------------------------------------------------
(* Backplane: lemmas *)

\* How many subscriptions may be opened.
LEMMA Handles ==
    /\ Cardinality(Handle) = 1 + MaxOutages + MaxFailures
    /\ \A h : h \in Handle <=> h \in Nat /\ h # None /\ h <= 1 + MaxOutages + MaxFailures
<1> DEFINE last == 1 + MaxOutages + MaxFailures
<1>1. last \in Nat /\ last >= 1  BY BackplaneAssumption
<1> HIDE DEF last
<1>2. Cardinality(1 .. last) = last - 1 + 1  BY <1>1, FS_Interval
<1>3. /\ Cardinality(1 .. last) = last
      /\ \A h : h \in 1 .. last <=> h \in Nat /\ h # None /\ h <= last
  BY <1>1, <1>2 DEF None
<1>4. QED  BY <1>3 DEF last, Handle

\* Nothing waits in an empty inbox.
LEMMA EmptyInbox == ASSUME NEW log  PROVE Deliverable(<<>>, log)
<1>1. Len(<<>>) = 0  BY EmptySeq
<1>2. QED  BY <1>1 DEF Deliverable

\* A message that is published waits in the inboxes of the room's subscribers.
LEMMA PublishedInbox ==
    ASSUME NEW q \in Seq(Relayable), NEW log \in Seq({0, 1}), Deliverable(q, log),
           NEW times \in {0, 1}, NEW own \in BOOLEAN, own = FALSE => times = 0,
           NEW more, more = Append(log, times),
           NEW msg, msg = [id |-> Len(log) + 1, own |-> own],
           NEW r, r = Append(q, msg)
    PROVE  /\ more \in Seq({0, 1})
           /\ Deliverable(q, more)
           /\ r \in Seq(Relayable) /\ Deliverable(r, more)
<1>1. Len(log) \in Nat /\ Len(q) \in Nat  BY LenProperties
<1>2. /\ more \in Seq({0, 1}) /\ Len(more) = Len(log) + 1 /\ more[Len(log) + 1] = times
      /\ \A k \in 1 .. Len(log) : more[k] = log[k]
  BY AppendProperties
<1>3. msg \in Relayable /\ msg.id = Len(log) + 1 /\ msg.own = own
  BY <1>1 DEF Relayable
<1>4. /\ r \in Seq(Relayable) /\ Len(r) = Len(q) + 1 /\ r[Len(q) + 1] = msg
      /\ \A k \in 1 .. Len(q) : r[k] = q[k]
  BY <1>3, AppendProperties
<1>5. ASSUME NEW k \in 1 .. Len(q)
      PROVE  /\ q[k] \in Relayable /\ q[k].id \in Nat \ {0} /\ q[k].id <= Len(log)
             /\ q[k].own = FALSE => more[q[k].id] = 0
  <2>1. q[k] \in Relayable  BY <1>5, ElementOfSeq
  <2>2. q[k].id \in Nat \ {0} /\ q[k].id <= Len(log)  BY <2>1 DEF Relayable, Deliverable
  <2>3. q[k].id \in 1 .. Len(log)  BY <1>1, <2>2
  <2> QED  BY <1>2, <2>1, <2>2, <2>3 DEF Deliverable
<1>6. Deliverable(q, more)
  <2>1. ASSUME NEW k \in 1 .. Len(q)  PROVE q[k].id <= Len(more)
    <3> DEFINE d == q[k].id
               n == Len(log)
    <3>1. d \in Nat /\ d <= n /\ n \in Nat /\ Len(more) = n + 1  BY <1>1, <1>2, <1>5
    <3>2. d <= n + 1
      <4> HIDE DEF d, n
      <4> QED  BY <3>1
    <3> QED  BY <3>1, <3>2
  <2> QED  BY <1>5, <2>1 DEF Deliverable
<1>7. ASSUME NEW i \in 1 .. Len(r), NEW j \in 1 .. Len(r), i < j  PROVE r[i].id < r[j].id
  <2>1. i \in 1 .. Len(q)  BY <1>1, <1>4, <1>7
  <2>2. CASE j \in 1 .. Len(q)  BY <1>4, <1>7, <2>1, <2>2 DEF Deliverable
  <2>3. CASE j = Len(q) + 1
    <3>1. r[i].id \in Nat /\ r[i].id <= Len(log) /\ r[j].id = Len(log) + 1
      BY <1>3, <1>4, <1>5, <2>1, <2>3
    <3> QED  BY <1>1, <3>1
  <2> QED  BY <1>1, <1>4, <2>2, <2>3
<1>8. ASSUME NEW i \in 1 .. Len(r)
      PROVE  r[i].id <= Len(more) /\ (r[i].own = FALSE => more[r[i].id] = 0)
  <2>1. CASE i \in 1 .. Len(q)
    <3>1. r[i] = q[i] /\ q[i].id \in Nat /\ q[i].id <= Len(log)  BY <1>4, <1>5, <2>1
    <3>2. q[i].id <= Len(more)  BY <1>1, <1>2, <3>1
    <3> QED  BY <1>5, <2>1, <3>1, <3>2
  <2>2. CASE i = Len(q) + 1  BY <1>1, <1>2, <1>3, <1>4, <2>2
  <2>3. i \in 1 .. Len(q) \/ i = Len(q) + 1
    <3> DEFINE n == Len(q)
    <3>1. n \in Nat /\ i \in 1 .. n + 1  BY <1>1, <1>4
    <3>2. i \in 1 .. n \/ i = n + 1
      <4> HIDE DEF n
      <4> QED  BY ONLY <3>1
    <3> QED  BY <3>2
  <2> QED  BY <2>1, <2>2, <2>3
<1>9. Deliverable(r, more)  BY <1>7, <1>8 DEF Deliverable
<1>10. QED  BY <1>2, <1>4, <1>6, <1>9

\* The listener takes a message: no other is the same, so none is relayed twice.
LEMMA RelayedInbox ==
    ASSUME NEW q \in Seq(Relayable), q # <<>>, NEW log \in Seq({0, 1}), Deliverable(q, log),
           NEW more, more = IF Skips(Head(q)) THEN log ELSE [log EXCEPT ![Head(q).id] = @ + 1]
    PROVE  /\ more \in Seq({0, 1}) /\ Len(more) = Len(log)
           /\ Tail(q) \in Seq(Relayable) /\ Deliverable(Tail(q), more)
<1>1. /\ Len(q) \in Nat /\ Len(q) >= 1 /\ Len(log) \in Nat /\ Head(q) = q[1]
      /\ Tail(q) \in Seq(Relayable) /\ Len(Tail(q)) = Len(q) - 1
      /\ \A k \in 1 .. Len(Tail(q)) : Tail(q)[k] = q[k + 1]
  BY LenProperties, HeadTailProperties, EmptySeq
<1>2. 1 \in 1 .. Len(q)  BY <1>1
<1> DEFINE d == q[1].id
<1>3. q[1] \in Relayable  BY <1>2, ElementOfSeq
<1>4. d \in 1 .. Len(log) /\ q[1].own \in BOOLEAN
  <2>1. d \in Nat \ {0} /\ d <= Len(log) /\ q[1].own \in BOOLEAN
    BY <1>2, <1>3 DEF Relayable, Deliverable
  <2> QED  BY <1>1, <2>1
<1>5. ASSUME q[1].own = FALSE  PROVE log[d] = 0  BY <1>2, <1>5 DEF Deliverable
<1>6. more = IF q[1].own THEN log ELSE [log EXCEPT ![d] = @ + 1]  BY <1>1 DEF Skips
<1> HIDE DEF d
<1>7. /\ more \in Seq({0, 1}) /\ Len(more) = Len(log)
      /\ \A k \in 1 .. Len(log) : k # d => more[k] = log[k]
  <2>1. CASE q[1].own = TRUE  BY <1>6, <2>1
  <2>2. CASE q[1].own = FALSE
    <3>1. log[d] + 1 = 1
      <4>1. log[d] = 0  BY <1>5, <2>2, Zenon
      <4> QED  BY ONLY <4>1
    <3>2. more = [log EXCEPT ![d] = 1]  BY <1>6, <2>2, <3>1
    <3> DEFINE one == [log EXCEPT ![d] = 1]
    <3>3. one \in Seq({0, 1}) /\ Len(one) = Len(log)
      <4>1. 1 \in {0, 1}  OBVIOUS
      <4> QED  BY ONLY <1>4, <4>1, log \in Seq({0, 1}), ExceptSeq
    <3>4. \A k \in 1 .. Len(log) : k # d => one[k] = log[k]
      BY ONLY <1>4, log \in Seq({0, 1}), 1 \in {0, 1}, ExceptSeq
    <3> HIDE DEF one
    <3>5. more = one  BY <3>2 DEF one
    <3> QED  BY <3>3, <3>4, <3>5
  <2> QED  BY <1>4, <2>1, <2>2
<1> DEFINE r == Tail(q)
<1>8. ASSUME NEW k \in 1 .. Len(r)
      PROVE  /\ k + 1 \in 1 .. Len(q) /\ r[k] = q[k + 1] /\ d < q[k + 1].id
             /\ q[k + 1] \in Relayable
  <2>1. k + 1 \in 1 .. Len(q) /\ 1 < k + 1  BY <1>1, <1>8
  <2>2. q[1].id < q[k + 1].id  BY <1>2, <2>1 DEF Deliverable
  <2> QED  BY <1>1, <1>8, <2>1, <2>2, ElementOfSeq DEF d
<1>9. ASSUME NEW i \in 1 .. Len(r), NEW j \in 1 .. Len(r), i < j  PROVE r[i].id < r[j].id
  <2>1. i + 1 < j + 1  BY <1>1, <1>9
  <2> QED  BY <1>8, <2>1 DEF Deliverable
<1>10. ASSUME NEW i \in 1 .. Len(r)
       PROVE  r[i].id <= Len(more) /\ (r[i].own = FALSE => more[r[i].id] = 0)
  <2>1. q[i + 1].id <= Len(log) /\ (q[i + 1].own = FALSE => log[q[i + 1].id] = 0)
    BY <1>8 DEF Deliverable
  <2>2. q[i + 1].id \in 1 .. Len(log) /\ q[i + 1].id # d
    <3>1. q[i + 1].id \in Nat \ {0} /\ d < q[i + 1].id /\ d \in Nat
      BY <1>4, <1>8 DEF Relayable
    <3> QED  BY <1>1, <2>1, <3>1
  <2> QED  BY <1>7, <1>8, <2>1, <2>2
<1>11. Deliverable(r, more)  BY <1>9, <1>10 DEF Deliverable
<1>12. QED  BY <1>1, <1>7, <1>11

-----------------------------------------------------------------------------
(* Backplane: every step keeps the invariant *)

LEMMA BackplaneStarts == BackplaneInit => BackplaneInv
<1> SUFFICES ASSUME BackplaneInit  PROVE BackplaneInv
  OBVIOUS
<1>1. /\ present = [room \in Channel |-> {}] /\ notice = [c \in Client |-> NoNotice]
      /\ subscribed = {} /\ lock = Nobody /\ missed = {} /\ stopped = FALSE
      /\ task = None /\ listeners = {}
      /\ server = [h \in Handle |-> [open |-> h <= opened, rooms |-> {}, inbox |-> <<>>]]
      /\ relayed = <<>>
  BY DEF BackplaneInit
<1>2. \/ /\ redis = TRUE /\ opened = 1 /\ pubsub = 1
         /\ fallback = FALSE /\ status = "none"
         /\ activation = [pc |-> "none", handle |-> None, rooms |-> {}]
      \/ /\ redis = FALSE /\ opened = 0 /\ pubsub = None
         /\ fallback = TRUE /\ status = "degraded"
         /\ activation = [pc |-> "sleep", handle |-> None, rooms |-> {}]
  BY DEF BackplaneInit
<1>3. /\ opened \in Nat /\ opened <= 1 + MaxOutages + MaxFailures
      /\ pubsub \in Nat /\ pubsub = opened
  BY <1>2, BackplaneAssumption DEF None
<1>4. NoNotice \in NoticeType /\ NoNotice.pc = "none" /\ NoNotice.handle = 0
  BY DEF NoNotice, NoticeType, None
<1>5. /\ activation \in ActivationType /\ activation.pc \in {"none", "sleep"}
      /\ activation.pc # "none" => fallback
  BY <1>2 DEF ActivationType, None
<1>6. server \in [Handle -> SubscriptionType] /\ relayed \in Seq({0, 1})
  <2>1. <<>> \in Seq(Relayable) /\ <<>> \in Seq({0, 1})  BY EmptySeq
  <2>2. ASSUME NEW h \in Handle
        PROVE  [open |-> h <= opened, rooms |-> {}, inbox |-> <<>>] \in SubscriptionType
    <3>1. (h <= opened) \in BOOLEAN  BY <2>2, <1>3, Handles
    <3> QED  BY <2>1, <3>1 DEF SubscriptionType
  <2> QED  BY <1>1, <2>1, <2>2
<1>7. BackplaneTyped
  <2>1. notice \in [Client -> NoticeType]  BY <1>1, <1>4
  <2>2. present \in [Channel -> SUBSET Client] /\ subscribed \subseteq Channel
        /\ missed \subseteq Channel
    BY <1>1
  <2>3. /\ fallback \in BOOLEAN /\ stopped \in BOOLEAN /\ redis \in BOOLEAN
        /\ status \in {"none", "live", "degraded"}
    BY <1>1, <1>2
  <2>4. pubsub <= opened  BY <1>3
  <2> QED  BY <1>3, <1>5, <1>6, <2>1, <2>2, <2>3, <2>4 DEF BackplaneTyped
<1>8. OneListener  BY <1>1 DEF OneListener
<1>9. OneSubscription
  <2>1. ASSUME NEW h \in Handle
        PROVE  /\ server[h].open => h = pubsub
               /\ server[h].rooms = {} /\ server[h].inbox = <<>>
    <3>1. /\ server[h].open = (h <= opened)
          /\ server[h].rooms = {} /\ server[h].inbox = <<>>
      BY <1>1, <2>1
    <3>2. h \in Nat /\ h # 0  BY <2>1, Handles DEF None
    <3>3. h <= opened => h = pubsub  BY <1>2, <3>2 DEF None
    <3> QED  BY <3>1, <3>3
  <2> QED  BY <2>1, EmptyInbox DEF OneSubscription
<1>10. ActivationSteps
  <2>1. ASSUME NEW c \in Client  PROVE notice[c].handle <= opened
    <3>1. notice[c].handle = 0  BY <1>1, <1>4, <2>1
    <3> QED  BY <1>3, <3>1
  <2>2. stopped \/ fallback \/ pubsub # None  BY <1>2 DEF None
  <2> QED  BY <1>1, <1>5, <2>1, <2>2 DEF ActivationSteps
<1>11. LockHeld
  <2>1. ASSUME NEW c \in Client  PROVE lock # c /\ notice[c].pc = "none"
    BY <1>1, <1>4, <2>1, BackplaneAssumption
  <2>2. lock = Nobody /\ lock # Activation  BY <1>1 DEF Nobody, Activation
  <2> QED  BY <1>5, <2>1, <2>2 DEF LockHeld
<1>12. StatusTold  BY <1>2 DEF StatusTold
<1>13. CallsRight  BY <1>1, <1>4 DEF CallsRight
<1>14. RoomsRight  BY <1>1, <1>5 DEF RoomsRight
<1>15. QED
  BY <1>7, <1>8, <1>9, <1>10, <1>11, <1>12, <1>13, <1>14 DEF BackplaneInv

\* The subscription in use is one of those that may be opened.
LEMMA PubsubHandle ==
    ASSUME BackplaneInv
    PROVE  (pubsub # None => pubsub \in Handle) /\ (BridgeUp => pubsub \in Handle)
<1>1. /\ pubsub \in Nat /\ opened \in Nat /\ pubsub <= opened
      /\ opened <= 1 + MaxOutages + MaxFailures
  BY DEF BackplaneInv, BackplaneTyped
<1> DEFINE last == 1 + MaxOutages + MaxFailures
<1>2. last \in Nat /\ opened <= last  BY <1>1, BackplaneAssumption
<1>3. pubsub <= last
  <2> HIDE DEF last
  <2> QED  BY <1>1, <1>2
<1>4. BridgeUp => pubsub # None  BY DEF BackplaneInv, ActivationSteps, BridgeUp
<1>5. QED  BY <1>1, <1>3, <1>4, Handles

\* The rooms stay right while the subscriptions stay open and keep their rooms.
LEMMA SameRooms ==
    ASSUME BackplaneInv,
           UNCHANGED <<present, notice, stopped, fallback, pubsub, subscribed, missed, activation>>,
           \A h \in Handle : server'[h].open = server[h].open /\ server'[h].rooms = server[h].rooms
    PROVE  CallsRight' /\ RoomsRight'
<1>1. BridgeUp' <=> BridgeUp  BY DEF BridgeUp
<1>2. CallsRight'  BY <1>1 DEF BackplaneInv, CallsRight
<1>3. BridgeUp => server'[pubsub].rooms = server[pubsub].rooms  BY PubsubHandle
<1>4. RoomsRight'
  <2>1. RoomsRight  BY DEF BackplaneInv
  <2>2. \A room : NoNoticeOf(room)' <=> NoNoticeOf(room)  BY DEF NoNoticeOf
  <2> QED  BY <1>1, <1>3, <2>1, <2>2 DEF RoomsRight
<1>5. QED  BY <1>2, <1>4

\* A message that is published is in the inboxes of the room's subscribers.
LEMMA ServerPublished ==
    ASSUME BackplaneInv, NEW room, NEW own \in BOOLEAN, NEW times \in {0, 1},
           own = FALSE => times = 0,
           relayed' = Append(relayed, times),
           server' = [h \in Handle |->
                         IF server[h].open /\ room \in server[h].rooms
                         THEN [server[h] EXCEPT !.inbox = Append(@, [id |-> Len(relayed) + 1,
                                                                     own |-> own])]
                         ELSE server[h]],
           UNCHANGED <<pubsub, activation>>
    PROVE  /\ server' \in [Handle -> SubscriptionType] /\ relayed' \in Seq({0, 1})
           /\ OneSubscription'
           /\ \A h \in Handle :
                 server'[h].open = server[h].open /\ server'[h].rooms = server[h].rooms
<1>1. /\ server \in [Handle -> SubscriptionType] /\ relayed \in Seq({0, 1}) /\ OneSubscription
  BY DEF BackplaneInv, BackplaneTyped
<1> DEFINE msg == [id |-> Len(relayed) + 1, own |-> own]
<1>2. ASSUME NEW h \in Handle
      PROVE  /\ server'[h] \in SubscriptionType
             /\ server'[h].open = server[h].open /\ server'[h].rooms = server[h].rooms
             /\ Deliverable(server'[h].inbox, relayed')
             /\ room \notin server[h].rooms => server'[h].inbox = server[h].inbox
  <2> DEFINE q == server[h].inbox
             r == Append(q, msg)
             more == Append(relayed, times)
  <2>1. q \in Seq(Relayable) /\ server[h] \in SubscriptionType  BY <1>1 DEF SubscriptionType
  <2>2. Deliverable(q, relayed)  BY <1>1 DEF OneSubscription
  <2>3. /\ Deliverable(q, more) /\ r \in Seq(Relayable) /\ Deliverable(r, more)
    <3>1. /\ msg = [id |-> Len(relayed) + 1, own |-> own] /\ r = Append(q, msg)
          /\ more = Append(relayed, times)
      OBVIOUS
    <3> HIDE DEF msg, r, more, q
    <3> QED
      BY ONLY <1>1, <2>1, <2>2, <3>1, PublishedInbox, own \in BOOLEAN, times \in {0, 1},
              own = FALSE => times = 0
  <2>4. relayed' = more  OBVIOUS
  <2>5. CASE server[h].open /\ room \in server[h].rooms
    <3>1. server'[h] = [server[h] EXCEPT !.inbox = r]  BY <2>5
    <3> HIDE DEF r, more, msg
    <3>2. /\ server'[h] \in SubscriptionType /\ server'[h].open = server[h].open
          /\ server'[h].rooms = server[h].rooms /\ server'[h].inbox = r
      BY <2>1, <2>3, <3>1 DEF SubscriptionType
    <3> QED  BY <2>3, <2>4, <2>5, <3>2
  <2>6. CASE ~(server[h].open /\ room \in server[h].rooms)
    <3>1. server'[h] = server[h]  BY <2>6
    <3> HIDE DEF r, more, msg
    <3> QED  BY <2>1, <2>3, <2>4, <3>1
  <2> QED  BY <2>5, <2>6
<1>3. relayed' \in Seq({0, 1})  BY <1>1, AppendProperties
<1>4. server' \in [Handle -> SubscriptionType]
  <2> HIDE DEF msg
  <2> QED  BY <1>2
<1>5. OneSubscription'
  <2>1. ASSUME NEW h \in Handle
        PROVE  /\ server'[h].open =>
                      h = pubsub \/ (activation.pc = "install" /\ h = activation.handle)
               /\ h # pubsub => server'[h].rooms = {} /\ server'[h].inbox = <<>>
               /\ Deliverable(server'[h].inbox, relayed')
    <3>1. /\ server[h].open =>
                 h = pubsub \/ (activation.pc = "install" /\ h = activation.handle)
          /\ h # pubsub => server[h].rooms = {} /\ server[h].inbox = <<>>
      BY <1>1 DEF OneSubscription
    <3> QED  BY ONLY <1>2, <3>1, h \in Handle
  <2> QED  BY <2>1 DEF OneSubscription
<1>6. QED  BY <1>2, <1>3, <1>4, <1>5

\* The bridge is lost: the mode is local-only, and a reconnect is scheduled.
LEMMA BridgeLost ==
    ASSUME BackplaneInv, FallBack,
           UNCHANGED <<present, notice, pubsub, subscribed, lock, opened, missed, stopped, redis,
                       server>>,
           relayed' \in Seq({0, 1}),
           \A h \in Handle : Deliverable(server[h].inbox, relayed'),
           \/ UNCHANGED <<task, listeners>>
           \/ task' = None /\ listeners' = {}
    PROVE  BackplaneInv'
<1>1. /\ BackplaneTyped /\ OneListener /\ OneSubscription /\ ActivationSteps /\ LockHeld
      /\ RoomsRight /\ activation \in ActivationType
  BY DEF BackplaneInv, BackplaneTyped
<1>2. /\ fallback' = TRUE /\ status' = "degraded" /\ activation' = Scheduled
  BY DEF FallBack
<1>3. \/ activation' = activation
      \/ /\ activation'.pc = "sleep" /\ activation' \in ActivationType
         /\ activation.pc = "none" /\ ~stopped
  <2>1. [pc |-> "sleep", handle |-> None, rooms |-> {}] \in ActivationType
    BY DEF ActivationType, None
  <2> QED  BY <1>2, <2>1 DEF Scheduled
<1>4. BackplaneTyped'  BY <1>1, <1>2, <1>3 DEF BackplaneTyped
<1>5. OneListener'
  <2>1. CASE UNCHANGED <<task, listeners>>  BY <1>1, <1>3, <2>1 DEF OneListener
  <2>2. CASE task' = None /\ listeners' = {}  BY <2>2 DEF OneListener
  <2> QED  BY <2>1, <2>2
<1>6. OneSubscription'  BY <1>1, <1>3 DEF OneSubscription
<1>7. ActivationSteps'  BY <1>1, <1>2, <1>3 DEF ActivationSteps
<1>8. LockHeld'  BY <1>1, <1>3 DEF LockHeld
<1>9. StatusTold'  BY <1>2 DEF StatusTold
<1>10. CallsRight'  BY <1>2 DEF CallsRight, BridgeUp
<1>11. RoomsRight'  BY <1>1, <1>2, <1>3 DEF RoomsRight, BridgeUp
<1>12. QED
  BY <1>4, <1>5, <1>6, <1>7, <1>8, <1>9, <1>10, <1>11 DEF BackplaneInv

\* The worker publishes.
LEMMA PublishKeeps ==
    ASSUME BackplaneInv, NEW room \in Channel, Publish(room)
    PROVE  BackplaneInv'
<1>1. /\ BackplaneTyped /\ OneListener /\ OneSubscription /\ ActivationSteps /\ LockHeld
      /\ StatusTold /\ server \in [Handle -> SubscriptionType] /\ relayed \in Seq({0, 1})
  BY DEF BackplaneInv, BackplaneTyped
<1>2. /\ UNCHANGED <<present, notice, stopped, missed, redis>> /\ relayed' = Append(relayed, 1)
  BY DEF Publish
<1>3. ASSUME UNCHANGED link, server' \in [Handle -> SubscriptionType],
             relayed' \in Seq({0, 1}), OneSubscription',
             \A h \in Handle :
                 server'[h].open = server[h].open /\ server'[h].rooms = server[h].rooms
      PROVE  BackplaneInv'
  <2>1. UNCHANGED <<pubsub, task, subscribed, fallback, status, lock, activation, opened,
                    listeners>>
    BY <1>3 DEF link
  <2>2. CallsRight' /\ RoomsRight'  BY <1>2, <1>3, <2>1, SameRooms
  <2>3. BackplaneTyped'  BY <1>1, <1>2, <1>3, <2>1 DEF BackplaneTyped
  <2>4. OneListener' /\ ActivationSteps' /\ LockHeld' /\ StatusTold'
    BY <1>1, <1>2, <2>1 DEF OneListener, ActivationSteps, LockHeld, StatusTold
  <2> QED  BY <1>3, <2>2, <2>3, <2>4 DEF BackplaneInv
<1>4. ASSUME NEW h \in Handle  PROVE Deliverable(server[h].inbox, relayed')
  <2> DEFINE q == server[h].inbox
             more == Append(relayed, 1)
             msg == [id |-> Len(relayed) + 1, own |-> TRUE]
             r == Append(q, msg)
  <2>1. q \in Seq(Relayable) /\ Deliverable(q, relayed)
    <3>1. server[h] \in SubscriptionType  BY <1>1
    <3> QED  BY <1>1, <3>1 DEF SubscriptionType, OneSubscription
  <2>2. more = Append(relayed, 1) /\ msg = [id |-> Len(relayed) + 1, own |-> TRUE]
        /\ r = Append(q, msg)
    OBVIOUS
  <2> HIDE DEF q, more, msg, r
  <2>3. Deliverable(q, more)
    BY ONLY <1>1, <2>1, <2>2, PublishedInbox, TRUE \in BOOLEAN, 1 \in {0, 1}, TRUE # FALSE
  <2> QED  BY <1>2, <2>3 DEF q, more
<1>5. relayed' \in Seq({0, 1})  BY <1>1, <1>2, AppendProperties
<1>6. CASE UNCHANGED <<link, server>>
  <2>1. OneSubscription'
    <3>1. UNCHANGED <<pubsub, activation>>  BY <1>6 DEF link
    <3> QED  BY <1>1, <1>4, <1>6, <3>1 DEF OneSubscription
  <2> QED  BY <1>1, <1>3, <1>5, <1>6, <2>1
<1>7. CASE /\ server' = [h \in Handle |->
                 IF server[h].open /\ room \in server[h].rooms
                 THEN [server[h] EXCEPT !.inbox = Append(@, [id |-> Len(relayed) + 1,
                                                             own |-> TRUE])]
                 ELSE server[h]]
           /\ UNCHANGED link
  <2>1. UNCHANGED <<pubsub, activation>>  BY <1>7 DEF link
  <2>2. /\ server' \in [Handle -> SubscriptionType] /\ OneSubscription'
        /\ \A h \in Handle :
               server'[h].open = server[h].open /\ server'[h].rooms = server[h].rooms
    BY <1>2, <1>7, <2>1, ServerPublished
  <2> QED  BY <1>3, <1>5, <1>7, <2>2
<1>8. CASE FallBack /\ UNCHANGED <<pubsub, task, subscribed, lock, opened, listeners, server>>
  BY <1>2, <1>4, <1>5, <1>8, BridgeLost
<1>9. QED  BY <1>6, <1>7, <1>8 DEF Publish

\* Another worker publishes.
LEMMA PublishElsewhereKeeps ==
    ASSUME BackplaneInv, NEW room \in Channel, PublishElsewhere(room)
    PROVE  BackplaneInv'
<1>1. /\ BackplaneTyped /\ OneListener /\ ActivationSteps /\ LockHeld /\ StatusTold
  BY DEF BackplaneInv
<1>2. /\ UNCHANGED <<present, notice, pubsub, task, subscribed, fallback, status, lock,
                     activation, opened, listeners, stopped, missed, redis>>
      /\ relayed' = Append(relayed, 0)
      /\ server' = [h \in Handle |->
           IF server[h].open /\ room \in server[h].rooms
           THEN [server[h] EXCEPT !.inbox = Append(@, [id |-> Len(relayed) + 1,
                                                       own |-> FALSE])]
           ELSE server[h]]
  BY DEF PublishElsewhere, link
<1>3. /\ server' \in [Handle -> SubscriptionType] /\ relayed' \in Seq({0, 1})
      /\ OneSubscription'
      /\ \A h \in Handle :
             server'[h].open = server[h].open /\ server'[h].rooms = server[h].rooms
  BY <1>2, ServerPublished
<1>4. CallsRight' /\ RoomsRight'  BY <1>2, <1>3, SameRooms
<1>5. BackplaneTyped'  BY <1>1, <1>2, <1>3 DEF BackplaneTyped
<1>6. OneListener' /\ ActivationSteps' /\ LockHeld' /\ StatusTold'
  BY <1>1, <1>2 DEF OneListener, ActivationSteps, LockHeld, StatusTold
<1>7. QED  BY <1>3, <1>4, <1>5, <1>6 DEF BackplaneInv

\* The listener relays a message.
LEMMA RelayKeeps ==
    ASSUME BackplaneInv, NEW h \in Handle, Relay(h)
    PROVE  BackplaneInv'
<1>1. /\ BackplaneTyped /\ OneListener /\ OneSubscription /\ ActivationSteps /\ LockHeld
      /\ StatusTold /\ server \in [Handle -> SubscriptionType] /\ relayed \in Seq({0, 1})
  BY DEF BackplaneInv, BackplaneTyped
<1> DEFINE q == server[h].inbox
<1>2. /\ UNCHANGED <<present, notice, pubsub, task, subscribed, fallback, status, lock,
                     activation, opened, listeners, stopped, missed, redis>>
      /\ relayed' = IF Skips(Head(q)) THEN relayed ELSE [relayed EXCEPT ![Head(q).id] = @ + 1]
      /\ server' = [server EXCEPT ![h].inbox = Tail(q)]
      /\ q # <<>> /\ h \in listeners
  BY DEF Relay, link
<1>3. h = pubsub  BY <1>1, <1>2 DEF OneListener
<1>4. q \in Seq(Relayable) /\ Deliverable(q, relayed) /\ server[h] \in SubscriptionType
  <2>1. server[h] \in SubscriptionType  BY <1>1
  <2> QED  BY <1>1, <2>1 DEF SubscriptionType, OneSubscription
<1>5. /\ relayed' \in Seq({0, 1}) /\ Tail(q) \in Seq(Relayable)
      /\ Deliverable(Tail(q), relayed')
  <2> DEFINE more == IF Skips(Head(q)) THEN relayed
                     ELSE [relayed EXCEPT ![Head(q).id] = @ + 1]
  <2>1. more \in Seq({0, 1}) /\ Tail(q) \in Seq(Relayable) /\ Deliverable(Tail(q), more)
    <3>1. more = IF Skips(Head(q)) THEN relayed
                 ELSE [relayed EXCEPT ![Head(q).id] = @ + 1]
      OBVIOUS
    <3> HIDE DEF more, q
    <3> QED  BY ONLY <1>1, <1>2, <1>4, <3>1, RelayedInbox
  <2> QED  BY <1>2, <2>1
<1> DEFINE r == Tail(q)
<1>6. server' = [server EXCEPT ![h].inbox = r]  BY <1>2
<1>7. r \in Seq(Relayable) /\ Deliverable(r, relayed')  BY <1>5
<1> HIDE DEF q, r
<1>8. /\ server'[h] \in SubscriptionType /\ server'[h].inbox = r
      /\ server'[h].open = server[h].open /\ server'[h].rooms = server[h].rooms
      /\ \A k \in Handle : k # h => server'[k] = server[k]
      /\ server' \in [Handle -> SubscriptionType]
  <2>1. server'[h] = [server[h] EXCEPT !.inbox = r]  BY <1>1, <1>6
  <2>2. /\ server'[h] \in SubscriptionType /\ server'[h].inbox = r
        /\ server'[h].open = server[h].open /\ server'[h].rooms = server[h].rooms
    BY <1>4, <1>7, <2>1 DEF SubscriptionType
  <2> QED  BY <1>1, <1>6, <2>2
<1>9. OneSubscription'
  <2>1. ASSUME NEW k \in Handle
        PROVE  /\ server'[k].open =>
                      k = pubsub \/ (activation.pc = "install" /\ k = activation.handle)
               /\ k # pubsub => server'[k].rooms = {} /\ server'[k].inbox = <<>>
               /\ Deliverable(server'[k].inbox, relayed')
    <3>1. CASE k = h  BY <1>3, <1>7, <1>8, <3>1
    <3>2. CASE k # h
      <4>1. server'[k] = server[k] /\ k # pubsub  BY <1>3, <1>8, <3>2
      <4>2. server[k].inbox = <<>>  BY <1>1, <4>1 DEF OneSubscription
      <4>3. Deliverable(<<>>, relayed')  BY EmptyInbox
      <4> QED  BY <1>1, <4>1, <4>2, <4>3 DEF OneSubscription
    <3> QED  BY <3>1, <3>2
  <2> QED  BY <1>2, <2>1 DEF OneSubscription
<1>10. CallsRight' /\ RoomsRight'  BY <1>2, <1>8, SameRooms
<1>11. BackplaneTyped'  BY <1>1, <1>2, <1>5, <1>8 DEF BackplaneTyped
<1>12. OneListener' /\ ActivationSteps' /\ LockHeld' /\ StatusTold'
  BY <1>1, <1>2 DEF OneListener, ActivationSteps, LockHeld, StatusTold
<1>13. QED  BY <1>9, <1>10, <1>11, <1>12 DEF BackplaneInv

\* The listener meets a broken connection.
LEMMA ListenerFailsKeeps ==
    ASSUME BackplaneInv, NEW h \in Handle, ListenerFails(h)
    PROVE  BackplaneInv'
<1>1. /\ OneListener /\ OneSubscription /\ relayed \in Seq({0, 1})
  BY DEF BackplaneInv, BackplaneTyped
<1>2. /\ FallBack /\ h \in listeners /\ listeners' = listeners \ {h}
      /\ task' = IF task = h THEN None ELSE task
      /\ UNCHANGED <<present, notice, pubsub, subscribed, stopped, lock, missed, opened,
                     server, redis, relayed>>
  BY DEF ListenerFails
<1>3. task' = None /\ listeners' = {}
  <2>1. task = h /\ listeners = {h}  BY <1>1, <1>2 DEF OneListener
  <2> QED  BY <1>2, <2>1
<1>4. \A k \in Handle : Deliverable(server[k].inbox, relayed')
  BY <1>1, <1>2 DEF OneSubscription
<1>5. relayed' \in Seq({0, 1})  BY <1>1, <1>2
<1>6. QED  BY <1>2, <1>3, <1>4, <1>5, BridgeLost

\* The listener has no room left.
LEMMA ListenerEndsKeeps ==
    ASSUME BackplaneInv, NEW h \in Handle, ListenerEnds(h)
    PROVE  BackplaneInv'
<1>1. /\ BackplaneTyped /\ OneListener /\ OneSubscription /\ ActivationSteps /\ LockHeld
      /\ StatusTold
  BY DEF BackplaneInv
<1>2. /\ h \in listeners /\ listeners' = listeners \ {h}
      /\ task' = IF task = h THEN None ELSE task
      /\ UNCHANGED <<present, notice, pubsub, subscribed, fallback, status, activation,
                     stopped, lock, missed, opened, server, redis, relayed>>
  BY DEF ListenerEnds
<1>3. task' = None /\ listeners' = {}
  <2>1. task = h /\ listeners = {h}  BY <1>1, <1>2 DEF OneListener
  <2> QED  BY <1>2, <2>1
<1>4. BackplaneTyped'  BY <1>1, <1>2 DEF BackplaneTyped
<1>5. OneListener'  BY <1>3 DEF OneListener
<1>6. OneSubscription' /\ ActivationSteps' /\ LockHeld' /\ StatusTold'
  BY <1>1, <1>2 DEF OneSubscription, ActivationSteps, LockHeld, StatusTold
<1>7. CallsRight' /\ RoomsRight'  BY <1>2, SameRooms
<1>8. QED  BY <1>4, <1>5, <1>6, <1>7 DEF BackplaneInv

\* What c does when it has the lock.
LEMMA LockTaken ==
    ASSUME BackplaneInv, NEW c \in Client, NEW room \in Channel,
           notice[c].pc \in {"none", "lock"}, lock = Nobody,
           present' \in [Channel -> SUBSET Client],
           \A other \in Channel : other # room => present'[other] = present[other],
           notice[c].pc = "lock" => notice[c].room = room,
           Locked(c, room, present'), missed' = missed \ {room},
           UNCHANGED <<pubsub, task, subscribed, fallback, status, activation, opened, listeners,
                       stopped, server, redis, relayed>>
    PROVE  BackplaneInv'
<1>1. /\ BackplaneTyped /\ OneListener /\ OneSubscription /\ ActivationSteps /\ LockHeld
      /\ StatusTold /\ RoomsRight /\ CallsRight
      /\ notice \in [Client -> NoticeType] /\ pubsub \in Nat /\ opened \in Nat
      /\ pubsub <= opened /\ subscribed \subseteq Channel
  BY DEF BackplaneInv, BackplaneTyped
<1> DEFINE wanted == present'[room] # {}
           call == [pc |-> IF wanted THEN "subscribe" ELSE "unsubscribe",
                    room |-> room, handle |-> pubsub]
<1>2. \/ /\ wanted <=> room \in subscribed
         /\ notice' = [notice EXCEPT ![c] = NoNotice] /\ lock' = Nobody
      \/ /\ ~(wanted <=> room \in subscribed)
         /\ notice' = [notice EXCEPT ![c] = call] /\ lock' = c
  BY DEF Locked, Wanted
<1>3. /\ NoNotice \in NoticeType /\ NoNotice.pc = "none" /\ NoNotice.handle = 0
      /\ call \in NoticeType /\ call.pc \in {"subscribe", "unsubscribe"}
      /\ call.pc = "subscribe" <=> wanted
      /\ call.room = room /\ call.handle = pubsub
  BY <1>1 DEF NoNotice, NoticeType, None
<1> HIDE DEF call, wanted
<1>4. activation.pc # "subscribe"
  <2>1. lock # Activation  BY DEF Nobody, Activation
  <2> QED  BY <1>1, <2>1 DEF LockHeld
<1>5. /\ notice' \in [Client -> NoticeType]
      /\ \A d \in Client : d # c => notice'[d] = notice[d]
      /\ notice'[c] = NoNotice \/ notice'[c] = call
  BY <1>1, <1>2, <1>3
<1>6. \A d \in Client : d # c => notice[d].pc \notin {"subscribe", "unsubscribe"}
  BY <1>1, BackplaneAssumption DEF LockHeld
<1>7. BackplaneTyped'  BY <1>1, <1>5 DEF BackplaneTyped
<1>8. OneListener'  BY <1>1 DEF OneListener
<1>9. OneSubscription'  BY <1>1 DEF OneSubscription
<1>10. ActivationSteps'
  <2>1. ASSUME NEW d \in Client
        PROVE  /\ notice'[d].handle <= opened
               /\ activation.pc = "install" => notice'[d].handle < opened
    <3>1. CASE d # c  BY <1>1, <1>5, <3>1 DEF ActivationSteps
    <3>2. CASE d = c /\ notice'[c] = NoNotice
      <4>1. activation.pc = "install" => 0 < opened  BY <1>1 DEF ActivationSteps
      <4> QED  BY <1>1, <1>3, <3>2, <4>1
    <3>3. CASE d = c /\ notice'[c] = call
      BY <1>1, <1>3, <3>3 DEF ActivationSteps
    <3> QED  BY <1>5, <3>1, <3>2, <3>3
  <2> QED  BY <1>1, <2>1 DEF ActivationSteps
<1>11. LockHeld'
  <2>1. lock' \in Client \cup {Nobody, Activation} /\ lock' # Activation
    BY <1>2, BackplaneAssumption DEF Nobody, Activation
  <2>2. ASSUME NEW d \in Client
        PROVE  /\ lock' = d <=> notice'[d].pc \in {"subscribe", "unsubscribe"}
               /\ notice'[d].pc # "none" => notice'[d].room \in Channel
    <3>1. CASE d # c
      <4>1. notice'[d] = notice[d] /\ notice[d].pc \notin {"subscribe", "unsubscribe"}
        BY <1>5, <1>6, <3>1
      <4>2. lock' # d  BY <1>2, <3>1, BackplaneAssumption
      <4> QED  BY <1>1, <4>1, <4>2 DEF LockHeld
    <3>2. CASE d = c
      <4>1. notice' = [notice EXCEPT ![c] = NoNotice] => notice'[c] = NoNotice  BY <1>1
      <4>2. notice' = [notice EXCEPT ![c] = call] => notice'[c] = call  BY <1>1
      <4> QED  BY <1>2, <1>3, <3>2, <4>1, <4>2, BackplaneAssumption
    <3> QED  BY <3>1, <3>2
  <2> QED  BY <1>1, <1>4, <2>1, <2>2 DEF LockHeld
<1>12. StatusTold'  BY <1>1 DEF StatusTold
<1>13. CallsRight'
  <2>1. ASSUME NEW d \in Client, notice'[d].pc \in {"subscribe", "unsubscribe"}
        PROVE  /\ notice'[d].handle = pubsub
               /\ notice'[d].pc = "subscribe" <=> present'[notice'[d].room] # {}
    <3>1. d = c  BY <1>5, <1>6, <2>1
    <3>2. notice'[c] = call  BY <1>3, <1>5, <2>1, <3>1
    <3> QED  BY <1>3, <3>1, <3>2 DEF wanted
  <2> QED  BY <2>1 DEF CallsRight
<1>14. RoomsRight'
  <2>1. BridgeUp' <=> BridgeUp  BY DEF BridgeUp
  <2>2. ASSUME BridgeUp  PROVE subscribed \subseteq server[pubsub].rooms
    BY <1>1, <2>2 DEF RoomsRight
  <2>3. ASSUME BridgeUp, NEW other \in Channel, other \notin missed', NoNoticeOf(other)'
        PROVE  other \in subscribed <=> present'[other] # {}
    <3>1. CASE other = room
      <4>1. notice'[c] # call  BY <1>3, <2>3, <3>1 DEF NoNoticeOf
      <4>2. wanted <=> room \in subscribed  BY <1>1, <1>2, <4>1
      <4> QED  BY <3>1, <4>2 DEF wanted
    <3>2. CASE other # room
      <4>1. other \notin missed /\ present'[other] = present[other]  BY <2>3, <3>2
      <4>2. NoNoticeOf(other)
        <5>1. ASSUME NEW d \in Client, notice[d].pc # "none"  PROVE notice[d].room # other
          <6>1. CASE d # c  BY <1>5, <2>3, <5>1, <6>1 DEF NoNoticeOf
          <6>2. CASE d = c  BY <3>2, <5>1, <6>2
          <6> QED  BY <6>1, <6>2
        <5> QED  BY <5>1 DEF NoNoticeOf
      <4> QED  BY <1>1, <2>3, <4>1, <4>2 DEF RoomsRight
    <3> QED  BY <3>1, <3>2
  <2> QED  BY <1>4, <2>1, <2>2, <2>3 DEF RoomsRight
<1>15. QED
  BY <1>7, <1>8, <1>9, <1>10, <1>11, <1>12, <1>13, <1>14 DEF BackplaneInv

\* Clients join and leave.
LEMMA ChangeKeeps ==
    ASSUME BackplaneInv, NEW c \in Client, NEW room \in Channel, Change(c, room)
    PROVE  BackplaneInv'
<1>1. /\ BackplaneTyped /\ OneListener /\ OneSubscription /\ ActivationSteps /\ LockHeld
      /\ StatusTold /\ RoomsRight /\ CallsRight
      /\ notice \in [Client -> NoticeType] /\ opened \in Nat /\ missed \subseteq Channel
      /\ present \in [Channel -> SUBSET Client] /\ NoNotice.pc = "none"
  BY DEF BackplaneInv, BackplaneTyped, NoNotice
<1>2. /\ notice[c].pc = "none"
      /\ present' = [present EXCEPT ![room] = IF c \in @ THEN @ \ {c} ELSE @ \cup {c}]
      /\ UNCHANGED <<pubsub, task, subscribed, fallback, status, activation, opened, listeners,
                     stopped, server, redis, relayed>>
  BY DEF Change
<1>3. /\ present' \in [Channel -> SUBSET Client]
      /\ \A other \in Channel : other # room => present'[other] = present[other]
  BY <1>1, <1>2
<1>4. CASE /\ pubsub = None \/ fallback
           /\ missed' = IF activation.pc = "subscribe" THEN missed \cup {room} ELSE missed
           /\ UNCHANGED <<notice, lock>>
  <2>1. ~BridgeUp'  BY <1>1, <1>2, <1>4 DEF BridgeUp, ActivationSteps
  <2>2. RoomsRight'
    <3>1. ASSUME activation.pc = "subscribe", NEW other \in Channel, other \notin missed'
          PROVE  other \in activation.rooms <=> present'[other] # {}
      <4>1. other # room /\ other \notin missed  BY <1>4, <3>1
      <4> QED  BY <1>1, <1>3, <3>1, <4>1 DEF RoomsRight
    <3> QED  BY <1>2, <2>1, <3>1 DEF RoomsRight
  <2>3. missed' \subseteq Channel  BY <1>1, <1>4
  <2>4. BackplaneTyped'  BY <1>1, <1>2, <1>3, <1>4, <2>3 DEF BackplaneTyped
  <2>5. /\ OneListener' /\ OneSubscription' /\ ActivationSteps' /\ LockHeld' /\ StatusTold'
        /\ CallsRight'
    BY <1>1, <1>2, <1>4, <2>1
       DEF OneListener, OneSubscription, ActivationSteps, LockHeld, StatusTold, CallsRight
  <2> QED  BY <2>2, <2>4, <2>5 DEF BackplaneInv
<1>5. CASE /\ notice' = [notice EXCEPT ![c] = [pc |-> "lock", room |-> room, handle |-> None]]
           /\ UNCHANGED <<missed, lock>> /\ ~fallback
  <2> DEFINE waits == [pc |-> "lock", room |-> room, handle |-> None]
  <2>1. waits \in NoticeType /\ waits.pc = "lock" /\ waits.room = room /\ waits.handle = 0
    BY DEF NoticeType, None
  <2>2. notice' = [notice EXCEPT ![c] = waits]  BY <1>5
  <2> HIDE DEF waits
  <2>3. /\ notice'[c] = waits /\ notice' \in [Client -> NoticeType]
        /\ \A d \in Client : d # c => notice'[d] = notice[d]
    BY <1>1, <2>1, <2>2
  <2>4. activation.pc = "none"  BY <1>1, <1>5 DEF ActivationSteps
  <2>5. BackplaneTyped'  BY <1>1, <1>2, <1>3, <1>5, <2>3 DEF BackplaneTyped
  <2>6. OneListener' /\ OneSubscription' /\ StatusTold'
    BY <1>1, <1>2 DEF OneListener, OneSubscription, StatusTold
  <2>7. ActivationSteps'
    <3>1. ASSUME NEW d \in Client  PROVE notice'[d].handle <= opened
      BY <1>1, <2>1, <2>3 DEF ActivationSteps
    <3> QED  BY <1>1, <1>2, <2>4, <3>1 DEF ActivationSteps
  <2>8. LockHeld'
    <3>1. ASSUME NEW d \in Client
          PROVE  /\ lock = d <=> notice'[d].pc \in {"subscribe", "unsubscribe"}
                 /\ notice'[d].pc # "none" => notice'[d].room \in Channel
      <4>1. CASE d = c  BY <1>1, <1>2, <2>1, <2>3, <4>1 DEF LockHeld
      <4>2. CASE d # c  BY <1>1, <2>3, <4>2 DEF LockHeld
      <4> QED  BY <4>1, <4>2
    <3> QED  BY <1>1, <1>2, <1>5, <3>1 DEF LockHeld
  <2>9. CallsRight'
    <3>1. ASSUME BridgeUp, NEW d \in Client, notice'[d].pc \in {"subscribe", "unsubscribe"}
          PROVE  /\ notice'[d].handle = pubsub
                 /\ \/ \E e \in Client : /\ e # d /\ notice'[e].pc # "none"
                                         /\ notice'[e].room = notice'[d].room
                    \/ notice'[d].pc = "subscribe" <=> present'[notice'[d].room] # {}
      <4>1. d # c /\ notice'[d] = notice[d]  BY <2>1, <2>3, <3>1
      <4>2. /\ notice[d].handle = pubsub /\ notice[d].room \in Channel
            /\ \/ \E e \in Client : /\ e # d /\ notice[e].pc # "none"
                                    /\ notice[e].room = notice[d].room
               \/ notice[d].pc = "subscribe" <=> present[notice[d].room] # {}
        BY <1>1, <3>1, <4>1 DEF CallsRight, LockHeld
      <4>3. CASE notice[d].room = room  BY <2>1, <2>3, <4>1, <4>2, <4>3
      <4>4. CASE notice[d].room # room
        <5>1. present'[notice[d].room] = present[notice[d].room]  BY <1>3, <4>2, <4>4
        <5>2. \A e \in Client : notice[e].pc # "none" => notice'[e] = notice[e]
          BY <1>2, <2>3
        <5> QED  BY <4>1, <4>2, <5>1, <5>2
      <4> QED  BY <4>3, <4>4
    <3>2. BridgeUp' <=> BridgeUp  BY <1>2 DEF BridgeUp
    <3> QED  BY <1>2, <3>1, <3>2 DEF CallsRight
  <2>10. RoomsRight'
    <3>1. BridgeUp' <=> BridgeUp  BY <1>2 DEF BridgeUp
    <3>2. ASSUME NEW other \in Channel, NoNoticeOf(other)'
          PROVE  NoNoticeOf(other) /\ present'[other] = present[other]
      <4>1. other # room  BY <2>1, <2>3, <3>2 DEF NoNoticeOf
      <4>2. \A e \in Client : notice[e].pc # "none" => notice'[e] = notice[e]
        BY <1>2, <2>3
      <4> QED  BY <1>3, <3>2, <4>1, <4>2 DEF NoNoticeOf
    <3> QED  BY <1>1, <1>2, <1>5, <2>4, <3>1, <3>2 DEF RoomsRight
  <2> QED
    BY <2>5, <2>6, <2>7, <2>8, <2>9, <2>10 DEF BackplaneInv
<1>6. CASE Free /\ Locked(c, room, present') /\ missed' = missed \ {room}
  <2>1. lock = Nobody  BY <1>6 DEF Free
  <2>2. notice[c].pc \in {"none", "lock"} /\ notice[c].pc # "lock"  BY <1>2
  <2> QED  BY <1>2, <1>3, <1>6, <2>1, <2>2, LockTaken
<1>7. QED  BY <1>4, <1>5, <1>6 DEF Change

\* A task that waited gets the lock.
LEMMA TakeLockKeeps ==
    ASSUME BackplaneInv, NEW c \in Client, TakeLock(c)
    PROVE  BackplaneInv'
<1> DEFINE room == notice[c].room
<1>1. /\ notice[c].pc = "lock" /\ lock = Nobody /\ Locked(c, room, present)
      /\ missed' = missed \ {room}
      /\ UNCHANGED <<present, pubsub, task, subscribed, fallback, status, activation, opened,
                     listeners, stopped, server, redis, relayed>>
  BY DEF TakeLock
<1>2. room \in Channel  BY <1>1 DEF BackplaneInv, LockHeld
<1>3. present' \in [Channel -> SUBSET Client]  BY <1>1 DEF BackplaneInv, BackplaneTyped
<1>4. Locked(c, room, present')  BY <1>1
<1>5. notice[c].room = room  OBVIOUS
<1> HIDE DEF room
<1>6. QED  BY <1>1, <1>2, <1>3, <1>4, <1>5, LockTaken

\* A call returns.
LEMMA EndCallKeeps ==
    ASSUME BackplaneInv, NEW c \in Client, EndCall(c)
    PROVE  BackplaneInv'
<1> DEFINE h == notice[c].handle
           room == notice[c].room
           With(rooms) == IF notice[c].pc = "subscribe" THEN rooms \cup {room}
                          ELSE rooms \ {room}
<1>1. /\ BackplaneTyped /\ OneListener /\ OneSubscription /\ ActivationSteps /\ LockHeld
      /\ StatusTold /\ RoomsRight /\ CallsRight
      /\ notice \in [Client -> NoticeType] /\ server \in [Handle -> SubscriptionType]
      /\ subscribed \subseteq Channel /\ missed \subseteq Channel /\ opened \in Nat
      /\ NoNotice.pc = "none" /\ NoNotice.handle = 0 /\ NoNotice \in NoticeType
  BY DEF BackplaneInv, BackplaneTyped, NoNotice, NoticeType, None
<1>2. /\ notice[c].pc \in {"subscribe", "unsubscribe"}
      /\ \/ /\ Alive(h) \/ Renewable(h)
            /\ server' = [server EXCEPT ![h].open = TRUE, ![h].rooms = With(@)]
            /\ subscribed' = With(subscribed) /\ missed' = missed
         \/ /\ missed' = missed \cup {room}
            /\ UNCHANGED <<server, subscribed>>
      /\ lock' = Nobody
      /\ notice' = [notice EXCEPT ![c] = NoNotice]
      /\ UNCHANGED <<present, pubsub, task, fallback, status, activation, opened,
                     listeners, stopped, redis, relayed>>
  BY DEF EndCall
<1>3. room \in Channel /\ lock = c /\ activation.pc # "subscribe"
  BY <1>1, <1>2, BackplaneAssumption DEF LockHeld
<1>4. /\ notice' \in [Client -> NoticeType] /\ notice'[c] = NoNotice
      /\ \A d \in Client : d # c =>
             notice'[d] = notice[d] /\ notice[d].pc \notin {"subscribe", "unsubscribe"}
  BY <1>1, <1>2, <1>3 DEF LockHeld
<1>5. ASSUME Alive(h) \/ Renewable(h)  PROVE h \in Handle /\ h = pubsub
  <2>1. h \in Handle
    <3>1. h \in Nat /\ h # None /\ h <= opened /\ opened <= 1 + MaxOutages + MaxFailures
      BY <1>1, <1>5 DEF Alive, Renewable, NoticeType, ActivationSteps, BackplaneTyped
    <3> DEFINE last == 1 + MaxOutages + MaxFailures
    <3>2. h <= last
      <4>1. last \in Nat /\ opened <= last  BY <3>1, BackplaneAssumption
      <4> HIDE DEF last, h
      <4> QED  BY <1>1, <3>1, <4>1
    <3> QED  BY <3>1, <3>2, Handles
  <2>2. activation.pc = "install" => h < activation.handle /\ h \in Nat /\ activation.handle \in Nat
    BY <1>1 DEF ActivationSteps, NoticeType
  <2> QED  BY <1>1, <1>5, <2>1, <2>2 DEF Alive, Renewable, OneSubscription
<1>6. ASSUME BridgeUp  PROVE h = pubsub
  BY <1>1, <1>2, <1>6 DEF CallsRight
<1>7. /\ server' \in [Handle -> SubscriptionType]
      /\ \A k \in Handle : /\ server'[k].inbox = server[k].inbox
                           /\ k # pubsub => server'[k] = server[k]
      /\ \/ /\ server'[h].rooms = With(server[h].rooms)
            /\ subscribed' = With(subscribed) /\ missed' = missed
         \/ UNCHANGED <<server, subscribed>> /\ missed' = missed \cup {room}
      /\ subscribed' \subseteq Channel /\ missed' \subseteq Channel
  <2>1. CASE /\ Alive(h) \/ Renewable(h)
             /\ server' = [server EXCEPT ![h].open = TRUE, ![h].rooms = With(@)]
             /\ subscribed' = With(subscribed) /\ missed' = missed
    <3> DEFINE rooms == With(server[h].rooms)
    <3>1. server[h] \in SubscriptionType /\ h \in Handle /\ h = pubsub  BY <1>1, <1>5, <2>1
    <3>2. rooms \subseteq Channel
      <4>1. server[h].rooms \subseteq Channel  BY <3>1 DEF SubscriptionType
      <4> QED  BY <1>3, <4>1
    <3>3. server' = [server EXCEPT ![h].open = TRUE, ![h].rooms = rooms]  BY <2>1
    <3>4. subscribed' \subseteq Channel  BY <1>1, <1>3, <2>1
    <3> HIDE DEF rooms, h
    <3>5. /\ server'[h] = [server[h] EXCEPT !.open = TRUE, !.rooms = rooms]
          /\ \A k \in Handle : k # h => server'[k] = server[k]
      BY <1>1, <3>1, <3>3
    <3>6. /\ server'[h] \in SubscriptionType /\ server'[h].rooms = rooms
          /\ server'[h].inbox = server[h].inbox
      BY <3>1, <3>2, <3>5 DEF SubscriptionType
    <3>7. server' \in [Handle -> SubscriptionType]  BY <1>1, <3>3, <3>5, <3>6
    <3> QED  BY <1>1, <2>1, <3>1, <3>4, <3>5, <3>6, <3>7 DEF rooms
  <2>2. CASE missed' = missed \cup {room} /\ UNCHANGED <<server, subscribed>>
    BY <1>1, <1>3, <2>2
  <2> QED  BY <1>2, <2>1, <2>2
<1> HIDE DEF h
<1>8. BackplaneTyped'  BY <1>1, <1>2, <1>4, <1>7 DEF BackplaneTyped
<1>9. OneListener' /\ StatusTold'  BY <1>1, <1>2 DEF OneListener, StatusTold
<1>10. OneSubscription'  BY <1>1, <1>2, <1>7 DEF OneSubscription
<1>11. ActivationSteps'
  <2>1. ASSUME NEW d \in Client
        PROVE  /\ notice'[d].handle <= opened
               /\ activation.pc = "install" => notice'[d].handle < opened
    <3>1. CASE d # c  BY <1>1, <1>4, <3>1 DEF ActivationSteps
    <3>2. CASE d = c
      <4>1. activation.pc = "install" => 0 < opened
        <5>1. pubsub \in Nat  BY <1>1 DEF BackplaneTyped
        <5> QED  BY <1>1, <5>1 DEF ActivationSteps
      <4> QED  BY <1>1, <1>4, <3>2, <4>1
    <3> QED  BY <3>1, <3>2
  <2> QED  BY <1>1, <1>2, <2>1 DEF ActivationSteps
<1>12. LockHeld'
  <2>1. \A d \in Client : Nobody # d  BY BackplaneAssumption
  <2> QED  BY <1>1, <1>2, <1>3, <1>4, <2>1 DEF LockHeld, Nobody, Activation
<1>13. CallsRight'
  <2>1. \A d \in Client : notice'[d].pc \notin {"subscribe", "unsubscribe"}
    BY <1>1, <1>4
  <2> QED  BY <2>1 DEF CallsRight
<1>14. RoomsRight'
  <2>1. BridgeUp' <=> BridgeUp  BY <1>2 DEF BridgeUp
  <2>2. ASSUME BridgeUp  PROVE subscribed' \subseteq server'[pubsub].rooms
    <3>1. subscribed \subseteq server[pubsub].rooms  BY <1>1, <2>2 DEF RoomsRight
    <3> QED  BY <1>2, <1>6, <1>7, <2>2, <3>1
  <2>3. ASSUME BridgeUp, NEW other \in Channel, other \notin missed', NoNoticeOf(other)'
        PROVE  other \in subscribed' <=> present[other] # {}
    <3>1. \A d \in Client : d # c => (notice[d].pc # "none" => notice[d].room # other)
      BY <1>4, <2>3 DEF NoNoticeOf
    <3>2. CASE other = room
      <4>1. subscribed' = With(subscribed)  BY <1>7, <2>3, <3>2
      <4>2. notice[c].pc = "subscribe" <=> present[other] # {}
        BY <1>1, <1>2, <2>3, <3>1, <3>2 DEF CallsRight
      <4> QED  BY <3>2, <4>1, <4>2
    <3>3. CASE other # room
      <4>1. NoNoticeOf(other) /\ other \notin missed
        BY <1>7, <2>3, <3>1, <3>3 DEF NoNoticeOf
      <4>2. other \in subscribed <=> present[other] # {}
        BY <1>1, <2>3, <4>1 DEF RoomsRight
      <4> QED  BY <1>7, <3>3, <4>2
    <3> QED  BY <3>2, <3>3
  <2> QED  BY <1>2, <1>3, <2>1, <2>2, <2>3 DEF RoomsRight
<1>15. QED
  BY <1>8, <1>9, <1>10, <1>11, <1>12, <1>13, <1>14 DEF BackplaneInv

\* The loop opens a subscription.
LEMMA DialKeeps ==
    ASSUME BackplaneInv, Dial
    PROVE  BackplaneInv'
<1>1. /\ BackplaneTyped /\ OneListener /\ OneSubscription /\ ActivationSteps /\ LockHeld
      /\ StatusTold /\ RoomsRight /\ CallsRight
      /\ notice \in [Client -> NoticeType] /\ server \in [Handle -> SubscriptionType]
      /\ opened \in Nat /\ pubsub \in Nat /\ pubsub <= opened /\ activation \in ActivationType
  BY DEF BackplaneInv, BackplaneTyped
<1> DEFINE new == opened + 1
           last == 1 + MaxOutages + MaxFailures
           next == [activation EXCEPT !.pc = "install", !.handle = new]
<1>2. /\ activation.pc = "sleep" /\ opened < Cardinality(Handle) /\ opened' = new
      /\ server' = [server EXCEPT ![new].open = TRUE]
      /\ listeners' = listeners \ {task} /\ task' = None
      /\ activation' = next
      /\ UNCHANGED <<present, notice, pubsub, subscribed, fallback, status, stopped, lock,
                     missed, redis, relayed>>
  BY DEF Dial
<1>3. /\ new \in Nat /\ new <= last /\ pubsub < new /\ opened < new /\ new \in Handle
  <2>1. last \in Nat /\ Cardinality(Handle) = last  BY Handles, BackplaneAssumption
  <2>2. opened < last  BY <1>2, <2>1
  <2>3. new \in Nat /\ new <= last /\ new # 0 /\ pubsub < new /\ opened < new
    <3> HIDE DEF last
    <3> QED  BY <1>1, <2>1, <2>2
  <2> QED  BY <2>3, Handles DEF None
<1>4. /\ next \in ActivationType /\ next.pc = "install" /\ next.handle = new
  BY <1>1, <1>3 DEF ActivationType
<1>5. fallback = TRUE  BY <1>1, <1>2 DEF ActivationSteps, BackplaneTyped
<1> HIDE DEF new, next
<1>6. /\ server'[new] \in SubscriptionType /\ server'[new].rooms = {}
      /\ server'[new].inbox = <<>>
      /\ \A k \in Handle : k # new => server'[k] = server[k]
      /\ server' \in [Handle -> SubscriptionType]
  <2>1. server'[new] = [server[new] EXCEPT !.open = TRUE] /\ server[new] \in SubscriptionType
    BY <1>1, <1>2, <1>3
  <2>2. server[new].rooms = {} /\ server[new].inbox = <<>>
    BY <1>1, <1>3 DEF OneSubscription
  <2>3. /\ server'[new] \in SubscriptionType /\ server'[new].rooms = server[new].rooms
        /\ server'[new].inbox = server[new].inbox
    BY <2>1 DEF SubscriptionType
  <2> QED  BY <1>1, <1>2, <2>2, <2>3
<1>7. BackplaneTyped'
  <2>1. opened' \in Nat /\ opened' <= last /\ pubsub' \in Nat /\ pubsub' <= opened'
    BY <1>1, <1>2, <1>3
  <2> QED  BY <1>1, <1>2, <1>4, <1>6, <2>1 DEF BackplaneTyped
<1>8. OneListener'  BY <1>1, <1>2 DEF OneListener
<1>9. OneSubscription'
  <2>1. ASSUME NEW h \in Handle
        PROVE  /\ server'[h].open => h = pubsub \/ h = new
               /\ h # pubsub => server'[h].rooms = {} /\ server'[h].inbox = <<>>
               /\ Deliverable(server'[h].inbox, relayed)
    <3>1. CASE h = new  BY <1>6, <3>1, EmptyInbox
    <3>2. CASE h # new
      <4>1. server'[h] = server[h]  BY <1>6, <3>2
      <4> QED  BY <1>1, <1>2, <4>1 DEF OneSubscription
    <3> QED  BY <3>1, <3>2
  <2> QED  BY <1>2, <1>4, <2>1 DEF OneSubscription
<1>10. ActivationSteps'
  <2>1. ~stopped  BY <1>1, <1>2 DEF ActivationSteps
  <2>2. ASSUME NEW d \in Client  PROVE notice[d].handle < new /\ notice[d].handle <= new
    <3>1. notice[d].handle \in Nat /\ notice[d].handle <= opened
      BY <1>1 DEF ActivationSteps, NoticeType
    <3> QED  BY <1>1, <1>3, <3>1
  <2> QED  BY <1>2, <1>3, <1>4, <1>5, <2>1, <2>2 DEF ActivationSteps
<1>11. LockHeld'  BY <1>1, <1>2, <1>4 DEF LockHeld
<1>12. StatusTold' /\ CallsRight'  BY <1>1, <1>2, <1>5 DEF StatusTold, CallsRight, BridgeUp
<1>13. RoomsRight'  BY <1>2, <1>4, <1>5 DEF RoomsRight, BridgeUp
<1>14. QED
  BY <1>7, <1>8, <1>9, <1>10, <1>11, <1>12, <1>13 DEF BackplaneInv

\* The new subscription replaces the old one.
LEMMA InstallKeeps ==
    ASSUME BackplaneInv, Install
    PROVE  BackplaneInv'
<1>1. /\ BackplaneTyped /\ OneListener /\ OneSubscription /\ ActivationSteps /\ LockHeld
      /\ StatusTold
      /\ notice \in [Client -> NoticeType] /\ server \in [Handle -> SubscriptionType]
      /\ opened \in Nat /\ pubsub \in Nat /\ pubsub <= opened /\ activation \in ActivationType
  BY DEF BackplaneInv, BackplaneTyped
<1> DEFINE closed == [open |-> FALSE, rooms |-> {}, inbox |-> <<>>]
           next == [activation EXCEPT !.pc = "lock"]
<1>2. /\ activation.pc = "install" /\ pubsub' = activation.handle
      /\ server' = IF pubsub = None THEN server ELSE [server EXCEPT ![pubsub] = closed]
      /\ activation' = next
      /\ UNCHANGED <<present, notice, task, subscribed, fallback, status, stopped, lock,
                     missed, opened, listeners, redis, relayed>>
  BY DEF Install
<1>3. /\ activation.handle = opened /\ pubsub < opened /\ fallback /\ ~stopped
      /\ \A d \in Client : notice[d].handle <= opened
  BY <1>1, <1>2 DEF ActivationSteps
<1>4. /\ next \in ActivationType /\ next.pc = "lock" /\ next.handle = activation.handle
  BY <1>1 DEF ActivationType
<1>5. closed \in SubscriptionType /\ closed.rooms = {} /\ closed.inbox = <<>> /\ ~closed.open
  BY EmptySeq DEF SubscriptionType
<1> HIDE DEF closed, next
<1>6. /\ server' \in [Handle -> SubscriptionType]
      /\ \A h \in Handle : server'[h] = IF h = pubsub THEN closed ELSE server[h]
  BY <1>1, <1>2, <1>5, Handles
<1>7. OneSubscription'
  <2>1. ASSUME NEW h \in Handle
        PROVE  /\ server'[h].open => h = activation.handle
               /\ server'[h].rooms = {} /\ server'[h].inbox = <<>>
               /\ Deliverable(server'[h].inbox, relayed)
    <3>1. CASE h = pubsub  BY <1>5, <1>6, <3>1, EmptyInbox
    <3>2. CASE h # pubsub
      <4>1. server'[h] = server[h]  BY <1>6, <3>2
      <4> QED  BY <1>1, <3>2, <4>1 DEF OneSubscription
    <3> QED  BY <3>1, <3>2
  <2> QED  BY <1>2, <2>1 DEF OneSubscription
<1>8. BackplaneTyped'
  <2>1. pubsub' \in Nat /\ pubsub' <= opened  BY <1>1, <1>2, <1>3
  <2> QED  BY <1>1, <1>2, <1>4, <1>6, <2>1 DEF BackplaneTyped
<1>9. OneListener'  BY <1>1, <1>2, <1>4 DEF OneListener
<1>10. ActivationSteps'
  <2>1. opened # None  BY <1>1, <1>3 DEF None
  <2> QED  BY <1>2, <1>3, <1>4, <2>1 DEF ActivationSteps
<1>11. LockHeld'  BY <1>1, <1>2, <1>4 DEF LockHeld
<1>12. StatusTold' /\ CallsRight'  BY <1>1, <1>2, <1>3 DEF StatusTold, CallsRight, BridgeUp
<1>13. RoomsRight'  BY <1>2, <1>3, <1>4 DEF RoomsRight, BridgeUp
<1>14. QED
  BY <1>7, <1>8, <1>9, <1>10, <1>11, <1>12, <1>13 DEF BackplaneInv

\* The mode is live again, with rooms that are right.
LEMMA LiveAgain ==
    ASSUME BackplaneInv, NEW rooms \in SUBSET Channel, Activated(rooms),
           activation.pc \in {"lock", "subscribe"}, lock' = Nobody,
           lock \in {Nobody, Activation}, missed' \subseteq Channel,
           UNCHANGED <<present, notice, pubsub, stopped, opened, redis, relayed>>,
           server' \in [Handle -> SubscriptionType],
           \A h \in Handle : /\ server'[h].open = server[h].open
                             /\ server'[h].inbox = server[h].inbox
                             /\ h # pubsub => server'[h] = server[h],
           rooms \subseteq server'[pubsub].rooms,
           \A room \in Channel :
               room \notin missed' => (room \in rooms <=> present[room] # {})
    PROVE  BackplaneInv'
<1>1. /\ BackplaneTyped /\ OneListener /\ OneSubscription /\ ActivationSteps /\ LockHeld
      /\ opened \in Nat
  BY DEF BackplaneInv, BackplaneTyped
<1> DEFINE none == [pc |-> "none", handle |-> None, rooms |-> {}]
<1>2. /\ subscribed' = rooms
      /\ task' = IF rooms = {} THEN None ELSE activation.handle
      /\ listeners' = IF rooms = {} THEN listeners ELSE listeners \cup {activation.handle}
      /\ fallback' = FALSE /\ status' = "live" /\ activation' = none
  BY DEF Activated
<1>3. none \in ActivationType /\ none.pc = "none"  BY DEF ActivationType, None
<1> HIDE DEF none
<1>4. activation.handle = pubsub /\ pubsub # None  BY <1>1 DEF ActivationSteps
<1>5. \A d \in Client : notice[d].pc \notin {"subscribe", "unsubscribe"}
  BY <1>1, BackplaneAssumption DEF LockHeld
<1>6. BackplaneTyped'  BY <1>1, <1>2, <1>3 DEF BackplaneTyped
<1>7. OneListener'
  <2>1. listeners = {}  BY <1>1 DEF OneListener
  <2> QED  BY <1>2, <1>3, <1>4, <2>1 DEF OneListener
<1>8. OneSubscription'
  <2>1. ASSUME NEW h \in Handle
        PROVE  /\ server'[h].open => h = pubsub
               /\ h # pubsub => server'[h].rooms = {} /\ server'[h].inbox = <<>>
               /\ Deliverable(server'[h].inbox, relayed)
    BY <1>1 DEF OneSubscription
  <2> QED  BY <2>1 DEF OneSubscription
<1>9. ActivationSteps'
  <2>1. ~stopped  BY <1>1, <1>4 DEF ActivationSteps
  <2> QED  BY <1>1, <1>2, <1>3, <1>4, <2>1 DEF ActivationSteps
<1>10. LockHeld'
  <2>1. /\ \A d \in Client : Nobody # d
        /\ Nobody # Activation /\ activation'.pc # "subscribe"
    BY <1>2, <1>3, BackplaneAssumption DEF Nobody, Activation
  <2>2. \A d \in Client : notice[d].pc # "none" => notice[d].room \in Channel
    BY <1>1 DEF LockHeld
  <2> HIDE DEF Nobody, Activation
  <2> QED  BY <1>5, <2>1, <2>2 DEF LockHeld
<1>11. StatusTold'  BY <1>2 DEF StatusTold
<1>12. CallsRight'  BY <1>5 DEF CallsRight
<1>13. RoomsRight'  BY <1>2, <1>3 DEF RoomsRight
<1>14. QED
  BY <1>6, <1>7, <1>8, <1>9, <1>10, <1>11, <1>12, <1>13 DEF BackplaneInv

\* The rooms of the activation are read.
LEMMA ReadRoomsKeeps ==
    ASSUME BackplaneInv, ReadRooms
    PROVE  BackplaneInv'
<1>1. /\ BackplaneTyped /\ OneListener /\ OneSubscription /\ ActivationSteps /\ LockHeld
      /\ StatusTold /\ server \in [Handle -> SubscriptionType] /\ activation \in ActivationType
      /\ activation.pc = "lock" /\ lock = Nobody /\ fallback
  BY DEF BackplaneInv, BackplaneTyped, ActivationSteps, ReadRooms
<1>2. /\ missed' = {} /\ ToSubscribe \subseteq Channel
      /\ \A room \in Channel : room \in ToSubscribe <=> present[room] # {}
      /\ UNCHANGED <<present, notice, pubsub, stopped, opened, server, redis, relayed>>
  BY DEF ReadRooms, ToSubscribe, Populated
<1>3. CASE ToSubscribe = {} /\ Activated({}) /\ UNCHANGED lock
  <2>1. /\ {} \in SUBSET Channel /\ missed' \subseteq Channel
        /\ activation.pc \in {"lock", "subscribe"}
        /\ lock' = Nobody /\ lock \in {Nobody, Activation}
        /\ server' \in [Handle -> SubscriptionType] /\ {} \subseteq server'[pubsub].rooms
        /\ \A room \in Channel : room \notin missed' => (room \in {} <=> present[room] # {})
    BY <1>1, <1>2, <1>3
  <2> QED  BY <1>2, <1>3, <2>1, LiveAgain
<1>4. CASE /\ activation' = [activation EXCEPT !.pc = "subscribe", !.rooms = ToSubscribe]
           /\ lock' = Activation
           /\ UNCHANGED <<subscribed, task, listeners, fallback, status>>
  <2>1. /\ activation' \in ActivationType /\ activation'.pc = "subscribe"
        /\ activation'.rooms = ToSubscribe /\ activation'.handle = activation.handle
    BY <1>1, <1>2, <1>4 DEF ActivationType
  <2>2. BackplaneTyped'  BY <1>1, <1>2, <1>4, <2>1 DEF BackplaneTyped
  <2>3. OneListener' /\ OneSubscription' /\ ActivationSteps' /\ StatusTold'
    BY <1>1, <1>2, <1>4, <2>1 DEF OneListener, OneSubscription, ActivationSteps, StatusTold
  <2>4. LockHeld'
    <3>1. \A d \in Client : Activation # d /\ Nobody # d  BY BackplaneAssumption
    <3> QED  BY <1>1, <1>2, <1>4, <2>1, <3>1 DEF LockHeld
  <2>5. CallsRight'  BY <1>1, <1>4 DEF CallsRight, BridgeUp
  <2>6. RoomsRight'  BY <1>1, <1>2, <1>4, <2>1 DEF RoomsRight, BridgeUp
  <2> QED  BY <2>2, <2>3, <2>4, <2>5, <2>6 DEF BackplaneInv
<1>5. QED  BY <1>3, <1>4 DEF ReadRooms

\* The activation subscribes its rooms.
LEMMA SubscribeKeeps ==
    ASSUME BackplaneInv, Subscribe
    PROVE  BackplaneInv'
<1> DEFINE h == activation.handle
           rooms == activation.rooms
<1>1. /\ BackplaneTyped /\ OneListener /\ OneSubscription /\ ActivationSteps /\ LockHeld
      /\ RoomsRight /\ server \in [Handle -> SubscriptionType] /\ activation \in ActivationType
      /\ activation.pc = "subscribe" /\ missed \subseteq Channel
  BY DEF BackplaneInv, BackplaneTyped, Subscribe
<1>2. /\ lock' = Nobody
      /\ UNCHANGED <<present, notice, pubsub, stopped, missed, opened, redis, relayed>>
      /\ lock = Activation /\ h = pubsub /\ rooms \subseteq Channel
  BY <1>1 DEF Subscribe, LockHeld, ActivationSteps, ActivationType
<1>3. CASE /\ Alive(h)
           /\ server' = [server EXCEPT ![h].rooms = @ \cup activation.rooms]
           /\ Activated(activation.rooms)
  <2>1. h \in Handle /\ server[h] \in SubscriptionType
    BY <1>1, <1>2, <1>3, PubsubHandle DEF Alive
  <2> DEFINE more == server[h].rooms \cup rooms
  <2>2. server' = [server EXCEPT ![h].rooms = more] /\ more \subseteq Channel
    BY <1>2, <1>3, <2>1 DEF SubscriptionType
  <2>3. rooms \subseteq more /\ Activated(rooms)  BY <1>3
  <2>4. \A room \in Channel : room \notin missed' => (room \in rooms <=> present[room] # {})
    BY <1>1, <1>2 DEF RoomsRight
  <2> HIDE DEF more, h, rooms
  <2>5. /\ server'[h] = [server[h] EXCEPT !.rooms = more]
        /\ \A k \in Handle : k # h => server'[k] = server[k]
    BY <1>1, <2>1, <2>2
  <2>6. /\ server'[h] \in SubscriptionType /\ server'[h].rooms = more
        /\ server'[h].open = server[h].open /\ server'[h].inbox = server[h].inbox
    BY <2>1, <2>2, <2>5 DEF SubscriptionType
  <2>7. server' \in [Handle -> SubscriptionType]  BY <1>1, <2>2, <2>5, <2>6
  <2>8. /\ activation.pc \in {"lock", "subscribe"} /\ lock \in {Nobody, Activation}
        /\ missed' \subseteq Channel
    BY <1>1, <1>2
  <2>9. /\ \A k \in Handle : /\ server'[k].open = server[k].open
                             /\ server'[k].inbox = server[k].inbox
                             /\ k # pubsub => server'[k] = server[k]
        /\ rooms \subseteq server'[pubsub].rooms
    BY <1>2, <2>3, <2>5, <2>6
  <2> QED  BY <1>2, <2>3, <2>4, <2>7, <2>8, <2>9, LiveAgain
<1>4. CASE /\ fallback' = TRUE /\ status' = "degraded"
           /\ activation' = [pc |-> "sleep", handle |-> None, rooms |-> {}]
           /\ UNCHANGED <<server, subscribed, task, listeners>>
  <2>1. activation' \in ActivationType /\ activation'.pc = "sleep"
    BY <1>4 DEF ActivationType, None
  <2>2. BackplaneTyped'  BY <1>1, <1>2, <1>4, <2>1 DEF BackplaneTyped
  <2>3. OneListener' /\ OneSubscription'
    BY <1>1, <1>2, <1>4, <2>1 DEF OneListener, OneSubscription
  <2>4. ActivationSteps' /\ StatusTold'
    BY <1>1, <1>2, <1>4, <2>1 DEF ActivationSteps, StatusTold
  <2>5. LockHeld'
    <3>1. /\ Nobody # Activation
          /\ \A d \in Client : Activation # d /\ Nobody # d
      BY BackplaneAssumption DEF Nobody, Activation
    <3> HIDE DEF Nobody, Activation
    <3> QED  BY <1>1, <1>2, <2>1, <3>1 DEF LockHeld
  <2>6. CallsRight'  BY <1>4 DEF CallsRight, BridgeUp
  <2>7. RoomsRight'  BY <1>4, <2>1 DEF RoomsRight, BridgeUp
  <2> QED  BY <2>2, <2>3, <2>4, <2>5, <2>6, <2>7 DEF BackplaneInv
<1>5. QED  BY <1>3, <1>4 DEF Subscribe

\* The bridge is stopped.
LEMMA StopKeeps ==
    ASSUME BackplaneInv, Stop
    PROVE  BackplaneInv'
<1>1. /\ BackplaneTyped /\ ActivationSteps /\ LockHeld /\ StatusTold /\ opened \in Nat
  BY DEF BackplaneInv, BackplaneTyped
<1> DEFINE closed == [open |-> FALSE, rooms |-> {}, inbox |-> <<>>]
<1>2. /\ stopped' = TRUE /\ listeners' = {} /\ task' = None /\ pubsub' = None
      /\ subscribed' = {}
      /\ activation' = [pc |-> "none", handle |-> None, rooms |-> {}]
      /\ lock' = IF lock = Activation THEN Nobody ELSE lock
      /\ server' = [h \in Handle |-> closed]
      /\ UNCHANGED <<present, notice, fallback, status, missed, opened, redis, relayed>>
  BY DEF Stop
<1>3. closed \in SubscriptionType /\ closed.rooms = {} /\ closed.inbox = <<>> /\ ~closed.open
  BY EmptySeq DEF SubscriptionType
<1> HIDE DEF closed
<1>4. server' \in [Handle -> SubscriptionType] /\ \A h \in Handle : server'[h] = closed
  BY <1>2, <1>3
<1>5. OneSubscription'  BY <1>3, <1>4, EmptyInbox DEF OneSubscription
<1>6. activation' \in ActivationType /\ activation'.pc = "none"
  BY <1>2 DEF ActivationType, None
<1>7. BackplaneTyped'
  <2>1. pubsub' \in Nat /\ pubsub' <= opened  BY <1>1, <1>2 DEF None
  <2> QED  BY <1>1, <1>2, <1>4, <1>6, <2>1 DEF BackplaneTyped
<1>8. OneListener' /\ ActivationSteps' /\ StatusTold' /\ CallsRight' /\ RoomsRight'
  BY <1>1, <1>2, <1>6
     DEF OneListener, ActivationSteps, StatusTold, CallsRight, RoomsRight, BridgeUp
<1>9. LockHeld'
  <2>1. /\ Nobody # Activation
        /\ \A d \in Client : Activation # d /\ Nobody # d
    BY BackplaneAssumption DEF Nobody, Activation
  <2> HIDE DEF Nobody, Activation
  <2> QED  BY <1>1, <1>2, <1>6, <2>1 DEF LockHeld
<1>10. QED  BY <1>5, <1>7, <1>8, <1>9 DEF BackplaneInv

\* Redis goes down: the connections break, the rooms stay.
LEMMA OutageKeeps ==
    ASSUME BackplaneInv, Outage
    PROVE  BackplaneInv'
<1>1. /\ BackplaneTyped /\ OneListener /\ OneSubscription /\ ActivationSteps /\ LockHeld
      /\ StatusTold /\ RoomsRight /\ CallsRight /\ server \in [Handle -> SubscriptionType]
  BY DEF BackplaneInv, BackplaneTyped
<1>2. /\ UNCHANGED <<present, notice, pubsub, task, subscribed, fallback, status, lock,
                     activation, opened, listeners, stopped, missed, relayed>>
      /\ redis' = FALSE
      /\ server' = [h \in Handle |-> Broken(server[h])]
  BY DEF Outage, link
<1>3. ASSUME NEW h \in Handle
      PROVE  /\ server'[h] \in SubscriptionType /\ ~server'[h].open
             /\ server'[h].rooms = server[h].rooms /\ server'[h].inbox = <<>>
  <2>1. server'[h] = Broken(server[h])  BY <1>2
  <2>2. server[h] \in SubscriptionType /\ <<>> \in Seq(Relayable)  BY <1>1, EmptySeq
  <2> QED  BY <2>1, <2>2 DEF SubscriptionType, Broken
<1>4. server' \in [Handle -> SubscriptionType]  BY <1>2, <1>3
<1>5. BackplaneTyped'  BY <1>1, <1>2, <1>4 DEF BackplaneTyped
<1>6. OneSubscription'  BY <1>1, <1>2, <1>3, EmptyInbox DEF OneSubscription
<1>7. OneListener' /\ ActivationSteps' /\ StatusTold' /\ LockHeld'
  BY <1>1, <1>2 DEF OneListener, ActivationSteps, StatusTold, LockHeld
<1>8. BridgeUp' <=> BridgeUp  BY <1>2 DEF BridgeUp
<1>9. CallsRight'  BY <1>1, <1>2, <1>8 DEF CallsRight
<1>10. BridgeUp => server'[pubsub].rooms = server[pubsub].rooms  BY <1>3, PubsubHandle
<1>11. RoomsRight'
  <2>1. \A room : NoNoticeOf(room)' <=> NoNoticeOf(room)  BY <1>2 DEF NoNoticeOf
  <2> QED  BY <1>1, <1>2, <1>8, <1>10, <2>1 DEF RoomsRight
<1>12. QED  BY <1>5, <1>6, <1>7, <1>9, <1>11 DEF BackplaneInv

\* Redis is back, or nothing happens.
LEMMA ReturnKeeps ==
    ASSUME BackplaneInv, Return \/ UNCHANGED backplaneVars
    PROVE  BackplaneInv'
<1>1. /\ UNCHANGED <<present, notice, pubsub, task, subscribed, fallback, status, lock,
                     activation, opened, listeners, stopped, missed, server, relayed>>
      /\ redis' = TRUE \/ redis' = redis
  BY DEF Return, backplaneVars, link
<1>2. /\ BackplaneTyped /\ OneListener /\ OneSubscription /\ ActivationSteps /\ LockHeld
      /\ StatusTold
  BY DEF BackplaneInv
<1>3. BackplaneTyped'  BY <1>1, <1>2 DEF BackplaneTyped
<1>4. /\ OneListener' /\ OneSubscription' /\ ActivationSteps' /\ LockHeld' /\ StatusTold'
  BY <1>1, <1>2 DEF OneListener, OneSubscription, ActivationSteps, LockHeld, StatusTold
<1>5. CallsRight' /\ RoomsRight'  BY <1>1, SameRooms
<1>6. QED  BY <1>3, <1>4, <1>5 DEF BackplaneInv

LEMMA BackplaneStep == BackplaneInv /\ [BackplaneNext]_backplaneVars => BackplaneInv'
<1> SUFFICES ASSUME BackplaneInv, [BackplaneNext]_backplaneVars  PROVE BackplaneInv'
  OBVIOUS
<1>1. ASSUME NEW c \in Client, Notify(c) \/ \E room \in Channel : Change(c, room)
      PROVE  BackplaneInv'
  BY <1>1, TakeLockKeeps, EndCallKeeps, ChangeKeeps DEF Notify
<1>2. ASSUME NEW room \in Channel, Publish(room) \/ PublishElsewhere(room)
      PROVE  BackplaneInv'
  BY <1>2, PublishKeeps, PublishElsewhereKeeps
<1>3. ASSUME NEW h \in Handle, Relay(h) \/ ListenerFails(h) \/ ListenerEnds(h)
      PROVE  BackplaneInv'
  BY <1>3, RelayKeeps, ListenerFailsKeeps, ListenerEndsKeeps
<1>4. CASE Reconnect
  BY <1>4, DialKeeps, InstallKeeps, ReadRoomsKeeps, SubscribeKeeps DEF Reconnect
<1>5. CASE Stop \/ Outage  BY <1>5, StopKeeps, OutageKeeps
<1>6. CASE Return \/ UNCHANGED backplaneVars  BY <1>6, ReturnKeeps
<1>7. QED  BY <1>1, <1>2, <1>3, <1>4, <1>5, <1>6 DEF BackplaneNext

\* The invariant gives what the run checks.
LEMMA BackplaneSafe == BackplaneInv => BridgeCarries
<1> SUFFICES ASSUME BackplaneInv  PROVE BridgeCarries
  OBVIOUS
<1>1. /\ BackplaneTyped /\ OneListener /\ LockHeld /\ StatusTold /\ RoomsRight
      /\ opened \in Nat /\ pubsub \in Nat /\ pubsub <= opened /\ relayed \in Seq({0, 1})
  BY DEF BackplaneInv, BackplaneTyped
<1>2. BackplaneTypeOK
  <2>1. opened \in 0 .. Cardinality(Handle)
    <3>1. opened <= Cardinality(Handle)  BY <1>1, Handles DEF BackplaneTyped
    <3>2. Cardinality(Handle) \in Nat  BY Handles, BackplaneAssumption
    <3> QED  BY <1>1, <3>1, <3>2
  <2>2. pubsub \in 0 .. opened  BY <1>1
  <2>3. task \in 0 .. opened  BY <1>1, <2>2 DEF OneListener, None
  <2>4. listeners \subseteq Handle
    <3>1. task # None => task \in Handle  BY <1>1, PubsubHandle DEF OneListener
    <3> QED  BY <1>1, <3>1 DEF OneListener
  <2> QED  BY <1>1, <2>1, <2>2, <2>3, <2>4 DEF BackplaneTypeOK, BackplaneTyped, LockHeld
<1>3. RelayedOnce
  <2>1. ASSUME NEW i \in DOMAIN relayed  PROVE relayed[i] <= 1
    <3>1. relayed[i] \in {0, 1}
      <4>1. DOMAIN relayed = 1 .. Len(relayed)  BY <1>1, LenProperties
      <4> QED  BY <1>1, <2>1, <4>1, ElementOfSeq
    <3> QED  BY <3>1
  <2> QED  BY <2>1 DEF RelayedOnce
<1>4. SubscribedIfPopulated
  <2>1. ASSUME NEW room \in Channel, AtRest(room), room \notin missed
        PROVE  /\ room \in Populated => room \in server[pubsub].rooms
               /\ room \in subscribed => room \in Populated
    <3>1. BridgeUp /\ NoNoticeOf(room)  BY <2>1 DEF AtRest, BridgeUp, NoNoticeOf
    <3> QED  BY <1>1, <2>1, <3>1 DEF RoomsRight, Populated
  <2> QED  BY <2>1 DEF SubscribedIfPopulated
<1>5. QED  BY <1>1, <1>2, <1>3, <1>4 DEF BridgeCarries

THEOREM BridgeAlwaysCarries == BackplaneSpec => []BridgeCarries
<1>1. BackplaneSpec => []BackplaneInv  BY BackplaneStarts, BackplaneStep, PTL DEF BackplaneSpec
<1>2. QED  BY <1>1, BackplaneSafe, PTL

-----------------------------------------------------------------------------
(* Mentor: the inductive invariant *)

Has(q, x) == \E i \in 1 .. Len(q) : q[i] = x
Precedes(q, x, y) == \E i, j \in 1 .. Len(q) : i < j /\ q[i] = x /\ q[j] = y

RequestType == [kind : {"ask", "cancel"}, ask : Ask]
WireType == [kind : Kinds, ask : Ask \cup {NoAsk}]

Asked(n) == Has(requests, [kind |-> "ask", ask |-> n])
Launched(n) == reply[n].at # "none"

\* Questions are read in the order in which they were asked, each once.
AskOrder ==
    /\ \A x, y \in RequestType :
          Precedes(requests, x, y) /\ x.kind = "ask" /\ y.kind = "ask" => x.ask < y.ask
    /\ \A x \in RequestType : Has(requests, x) => x.ask <= questions
    /\ \A n \in Ask : Asked(n) => waiting < n /\ \A m \in Ask : Launched(m) => m < n
    /\ waiting # NoAsk => \A m \in Ask : Launched(m) => m < waiting
    /\ \A m \in Ask : Launched(m) => m <= questions
    /\ waiting <= questions /\ active <= questions /\ \A k \in halted : k <= questions
    /\ streaming \/ transcript # <<>> => questions >= 1

\* Only the last task started is not cancelled, and what it has produced is what its
\* state says.
Tasks ==
    \A n \in Ask :
        /\ Live(n) /\ ~reply[n].cancelled =>
              active = n /\ \A m \in Ask : Launched(m) => m <= n
        /\ reply[n].at \in {"none", "created", "streaming"} => reply[n].pieces < Pieces
        /\ reply[n].at = "saving" =>
              reply[n].pieces >= 1 /\ (reply[n].pieces = Pieces \/ n \in failed)

\* What is on its way to the client.
WireRight ==
    /\ \A x \in WireType : Has(wire, x) =>
          x.kind = "notice" \/ (x.ask \in Ask /\ x.ask <= questions)
    /\ \A x \in WireType : Has(wire, x) /\ x.kind = "start" => Launched(x.ask)
    /\ \A x, y \in WireType :
          Precedes(wire, x, y) /\ x.kind = "start" /\ y.kind \in {"chunk", "end"} =>
              y.ask >= x.ask

\* Nothing of the reply to m will be shown any more.
Over(m) ==
    /\ ~Asked(m) /\ waiting # m
    /\ reply[m].at \in {"created", "streaming"} => reply[m].cancelled
    /\ \A x \in WireType : Has(wire, x) /\ x.kind \in {"start", "chunk"} => x.ask # m

\* A question that was asked before anything was halted finds the earlier replies over.
EarlierOver ==
    \A n \in Ask : n <= questions /\ (\A k \in halted : k >= n) =>
        \A m \in Ask : m < n => Over(m)

\* The server is done with m, and nothing of m is on its way.
Settled(m) == ~Asked(m) /\ waiting # m /\ reply[m].at \notin {"created", "streaming"}
Gone(m) == Settled(m) /\ \A x \in WireType : Has(wire, x) => x.ask # m

\* As long as nothing was halted, a reply ends before the next question is asked.
Undisturbed ==
    halted = {} =>
        /\ \A x \in RequestType : Has(requests, x) => x.kind = "ask"
        /\ \A m \in Ask : m < questions \/ (m = questions /\ ~streaming) => Gone(m)
        /\ \A x \in WireType : Has(wire, x) /\ x.kind \in Closing =>
              /\ x.ask = questions /\ Settled(questions)
              /\ \A y \in WireType : Precedes(wire, x, y) => y.ask # questions

\* The message the next piece would join is not of an earlier question.
LastBubble ==
    LET last == Len(transcript) IN
    last > 0 /\ transcript[last].role = "mentor" =>
        \A m \in transcript[last].asks, n \in Ask :
            m < n /\ n <= questions => \E k \in halted : k < n

BubblesAsked == \A i \in 1 .. Len(transcript) : \A m \in transcript[i].asks : m <= questions

MentorInv ==
    /\ MentorTypeOK /\ AskOrder /\ Tasks /\ WireRight /\ EarlierOver /\ Undisturbed
    /\ LastBubble /\ BubblesAsked /\ BubblesApart /\ HistoryHonest

ReplyType == [at : {"none", "created", "streaming", "saving", "done"},
              cancelled : BOOLEAN, pieces : 0 .. Pieces]

\* A step that puts the messages of said on the wire, and may drop others.
Delivers(said) ==
    /\ wire' \in Seq(WireType) /\ Len(wire') <= QueueSize
    /\ dropped' \subseteq [kind : Closing, ask : Ask]
    /\ \A x \in WireType : Has(wire', x) => Has(wire, x) \/ Has(said, x)
    /\ \A x, y \in WireType : Precedes(wire', x, y) =>
          \/ Precedes(wire, x, y)
          \/ Has(said, y) /\ (Has(wire, x) \/ Precedes(said, x, y))

-----------------------------------------------------------------------------
(* Mentor: queues *)

\* What is left of a queue after its oldest elements.
LEMMA Shifted ==
    ASSUME NEW q, NEW r, NEW d \in Nat, Len(q) \in Nat, Len(r) \in Nat, Len(q) = Len(r) + d,
           \A i \in 1 .. Len(r) : r[i] = q[i + d]
    PROVE  /\ \A x : Has(r, x) => Has(q, x)
           /\ \A x, y : Precedes(r, x, y) => Precedes(q, x, y)
<1>1. ASSUME NEW i \in 1 .. Len(r)  PROVE i + d \in 1 .. Len(q)  OBVIOUS
<1>2. ASSUME NEW x, Has(r, x)  PROVE Has(q, x)
  <2>1. PICK i \in 1 .. Len(r) : r[i] = x  BY <1>2 DEF Has
  <2> QED  BY <1>1, <2>1 DEF Has
<1>3. ASSUME NEW x, NEW y, Precedes(r, x, y)  PROVE Precedes(q, x, y)
  <2>1. PICK i \in 1 .. Len(r), j \in 1 .. Len(r) : i < j /\ r[i] = x /\ r[j] = y
    BY <1>3 DEF Precedes
  <2>2. i + d < j + d  BY <2>1
  <2> QED  BY <1>1, <2>1, <2>2 DEF Precedes
<1>4. QED  BY <1>2, <1>3

\* One queue after another.
LEMMA Joined ==
    ASSUME NEW q, NEW r, NEW s, Len(q) \in Nat, Len(r) \in Nat, Len(s) = Len(q) + Len(r),
           \A i \in 1 .. Len(s) : s[i] = IF i <= Len(q) THEN q[i] ELSE r[i - Len(q)]
    PROVE  /\ \A x : Has(s, x) => Has(q, x) \/ Has(r, x)
           /\ \A x, y : Precedes(s, x, y) =>
                 Precedes(q, x, y) \/ (Has(r, y) /\ (Has(q, x) \/ Precedes(r, x, y)))
<1>1. ASSUME NEW i \in 1 .. Len(s)
      PROVE  \/ i \in 1 .. Len(q) /\ s[i] = q[i]
             \/ i - Len(q) \in 1 .. Len(r) /\ s[i] = r[i - Len(q)] /\ i > Len(q)
  <2>1. CASE i <= Len(q)  BY <2>1
  <2>2. CASE ~(i <= Len(q))
    <3>1. i - Len(q) \in 1 .. Len(r) /\ i > Len(q)  BY <2>2
    <3> QED  BY <2>2, <3>1
  <2> QED  BY <2>1, <2>2
<1>2. ASSUME NEW x, Has(s, x)  PROVE Has(q, x) \/ Has(r, x)
  <2>1. PICK i \in 1 .. Len(s) : s[i] = x  BY <1>2 DEF Has
  <2> QED  BY <1>1, <2>1 DEF Has
<1>3. ASSUME NEW x, NEW y, Precedes(s, x, y)
      PROVE  Precedes(q, x, y) \/ (Has(r, y) /\ (Has(q, x) \/ Precedes(r, x, y)))
  <2>1. PICK i \in 1 .. Len(s), j \in 1 .. Len(s) : i < j /\ s[i] = x /\ s[j] = y
    BY <1>3 DEF Precedes
  <2>2. CASE j \in 1 .. Len(q) /\ s[j] = q[j]
    <3>1. i \in 1 .. Len(q) /\ s[i] = q[i]  BY <1>1, <2>1, <2>2
    <3> QED  BY <2>1, <2>2, <3>1 DEF Precedes
  <2>3. CASE j - Len(q) \in 1 .. Len(r) /\ s[j] = r[j - Len(q)]
    <3>1. Has(r, y)  BY <2>1, <2>3 DEF Has
    <3>2. CASE i \in 1 .. Len(q) /\ s[i] = q[i]  BY <2>1, <3>1, <3>2 DEF Has
    <3>3. CASE i - Len(q) \in 1 .. Len(r) /\ s[i] = r[i - Len(q)]
      <4>1. i - Len(q) < j - Len(q)  BY <2>1
      <4> QED  BY <2>1, <2>3, <3>1, <3>3, <4>1 DEF Precedes
    <3> QED  BY <1>1, <3>2, <3>3
  <2> QED  BY <1>1, <2>2, <2>3
<1>4. QED  BY <1>2, <1>3

\* Nothing is in an empty queue, one thing in a queue of one.
LEMMA FewMessages ==
    /\ \A x : ~Has(<<>>, x)
    /\ \A x, y : ~Precedes(<<>>, x, y)
    /\ \A a, x : Has(<<a>>, x) <=> x = a
    /\ \A a, x, y : ~Precedes(<<a>>, x, y)
    /\ \A a, b, x : Has(<<a, b>>, x) <=> x = a \/ x = b
    /\ \A a, b, x, y : Precedes(<<a, b>>, x, y) => x = a
<1>1. Len(<<>>) = 0  BY EmptySeq
<1>2. (\A x : ~Has(<<>>, x)) /\ (\A x, y : ~Precedes(<<>>, x, y))
  BY <1>1 DEF Has, Precedes
<1>3. ASSUME NEW a  PROVE (\A x : Has(<<a>>, x) <=> x = a) /\ \A x, y : ~Precedes(<<a>>, x, y)
  <2>1. Len(<<a>>) = 1 /\ <<a>>[1] = a  OBVIOUS
  <2>2. \A i \in 1 .. 1 : i = 1  OBVIOUS
  <2> DEFINE q == <<a>>
  <2> HIDE DEF q
  <2>3. Len(q) = 1 /\ q[1] = a  BY <2>1 DEF q
  <2>4. (\A x : Has(q, x) <=> x = a) /\ \A x, y : ~Precedes(q, x, y)
    BY <2>2, <2>3 DEF Has, Precedes
  <2> QED  BY <2>4 DEF q
<1>4. ASSUME NEW a, NEW b
      PROVE  /\ \A x : Has(<<a, b>>, x) <=> x = a \/ x = b
             /\ \A x, y : Precedes(<<a, b>>, x, y) => x = a
  <2>1. Len(<<a, b>>) = 2 /\ <<a, b>>[1] = a /\ <<a, b>>[2] = b  OBVIOUS
  <2> DEFINE q == <<a, b>>
  <2> HIDE DEF q
  <2>2. Len(q) = 2 /\ q[1] = a /\ q[2] = b  BY <2>1 DEF q
  <2>3. \A i \in 1 .. 2 : i = 1 \/ i = 2  OBVIOUS
  <2>4. 1 \in 1 .. 2 /\ 2 \in 1 .. 2  OBVIOUS
  <2>5. \A x : Has(q, x) <=> x = a \/ x = b  BY <2>2, <2>3, <2>4 DEF Has
  <2>6. ASSUME NEW x, NEW y, Precedes(q, x, y)  PROVE x = a
    <3>1. PICK i \in 1 .. 2, j \in 1 .. 2 : i < j /\ q[i] = x /\ q[j] = y
      BY <2>2, <2>6 DEF Precedes
    <3>2. i = 1  BY <2>3, <3>1
    <3> QED  BY <2>2, <3>1, <3>2
  <2> QED  BY <2>5, <2>6 DEF q
<1>5. QED  BY <1>2, <1>3, <1>4

\* A queue without its head.
LEMMA TailOf ==
    ASSUME NEW q, NEW r, Len(q) \in Nat, Len(q) >= 1, Len(r) = Len(q) - 1,
           \A i \in 1 .. Len(r) : r[i] = q[i + 1]
    PROVE  /\ \A x : Has(r, x) => Has(q, x)
           /\ \A x, y : Precedes(r, x, y) => Precedes(q, x, y)
           /\ \A y : Has(r, y) => Precedes(q, q[1], y)
           /\ Has(q, q[1])
<1>1. Len(r) \in Nat /\ Len(q) = Len(r) + 1 /\ 1 \in 1 .. Len(q)  OBVIOUS
<1>2. /\ \A x : Has(r, x) => Has(q, x)
      /\ \A x, y : Precedes(r, x, y) => Precedes(q, x, y)
  BY <1>1, Shifted
<1>3. ASSUME NEW y, Has(r, y)  PROVE Precedes(q, q[1], y)
  <2>1. PICK i \in 1 .. Len(r) : r[i] = y  BY <1>3 DEF Has
  <2>2. i + 1 \in 1 .. Len(q) /\ 1 < i + 1 /\ q[i + 1] = y  BY <1>1, <2>1
  <2> QED  BY <1>1, <2>2 DEF Precedes
<1>4. QED  BY <1>1, <1>2, <1>3 DEF Has

\* The last elements of a queue.
LEMMA LastOf ==
    ASSUME NEW all \in Seq(WireType), NEW over \in Nat, over <= Len(all),
           NEW r, r = SubSeq(all, over + 1, Len(all))
    PROVE  /\ r \in Seq(WireType) /\ Len(all) = Len(r) + over
           /\ \A i \in 1 .. Len(r) : r[i] = all[i + over]
<1> DEFINE m == over + 1
           n == Len(all)
<1>1. m \in Int /\ n \in Int /\ n \in Nat  BY LenProperties
<1>2. \A i \in m .. n : all[i] \in WireType
  <2>1. \A i \in m .. n : i \in 1 .. n  BY <1>1
  <2> QED  BY <2>1, ElementOfSeq
<1>3. r = SubSeq(all, m, n)  OBVIOUS
<1>4. /\ r \in Seq(WireType) /\ Len(r) = IF m <= n THEN n - m + 1 ELSE 0
      /\ \A i \in 1 .. n - m + 1 : r[i] = all[m + i - 1]
  <2> HIDE DEF m, n
  <2> QED  BY ONLY <1>1, <1>2, <1>3, SubSeqProperties
<1>5. Len(r) = n - over  BY <1>1, <1>4
<1>6. ASSUME NEW i \in 1 .. Len(r)  PROVE r[i] = all[i + over]
  <2>1. i \in 1 .. n - m + 1 /\ m + i - 1 = i + over  BY <1>1, <1>5
  <2> QED  BY <1>4, <2>1
<1>7. QED  BY <1>1, <1>4, <1>5, <1>6

\* What a full queue keeps, and what it loses.
LEMMA QueuedMessages ==
    ASSUME NEW q \in Seq(WireType), NEW said \in Seq(WireType),
           NEW r, r = Queued(q, said)
    PROVE  /\ r \in Seq(WireType) /\ Len(r) <= QueueSize
           /\ \A x : Has(r, x) => Has(q, x) \/ Has(said, x)
           /\ \A x, y : Precedes(r, x, y) =>
                 Precedes(q, x, y) \/ (Has(said, y) /\ (Has(q, x) \/ Precedes(said, x, y)))
           /\ \A x \in Lost(q, said) :
                 x \in WireType /\ x.kind \in Closing /\ (Has(q, x) \/ Has(said, x))
<1> DEFINE all == q \o said
           over == IF Len(all) > QueueSize THEN Len(all) - QueueSize ELSE 0
<1>1. /\ all \in Seq(WireType) /\ Len(all) = Len(q) + Len(said)
      /\ \A i \in 1 .. Len(all) : all[i] = IF i <= Len(q) THEN q[i] ELSE said[i - Len(q)]
  BY ConcatProperties
<1>2. Len(all) \in Nat /\ Len(q) \in Nat /\ Len(said) \in Nat /\ QueueSize \in Nat
  BY <1>1, LenProperties, MentorAssumption
<1>3. /\ \A x : Has(all, x) => Has(q, x) \/ Has(said, x)
      /\ \A x, y : Precedes(all, x, y) =>
            Precedes(q, x, y) \/ (Has(said, y) /\ (Has(q, x) \/ Precedes(said, x, y)))
  <2> HIDE DEF all
  <2> QED  BY <1>1, <1>2, Joined
<1>4. r = SubSeq(all, over + 1, Len(all))  BY DEF Queued
<1> HIDE DEF all
<1>5. over \in Nat /\ over <= Len(all) /\ Len(all) - over <= QueueSize  BY <1>2
<1> HIDE DEF over
<1>6. /\ r \in Seq(WireType) /\ Len(all) = Len(r) + over
      /\ \A i \in 1 .. Len(r) : r[i] = all[i + over]
  BY ONLY <1>1, <1>4, <1>5, LastOf
<1>7. Len(r) \in Nat /\ Len(r) <= QueueSize
  <2>1. Len(r) \in Nat  BY <1>6, LenProperties
  <2> QED  BY <1>2, <1>5, <1>6, <2>1
<1>8. /\ \A x : Has(r, x) => Has(all, x)
      /\ \A x, y : Precedes(r, x, y) => Precedes(all, x, y)
  BY <1>2, <1>5, <1>6, <1>7, Shifted
<1>9. ASSUME NEW x \in Lost(q, said)
      PROVE  x \in WireType /\ x.kind \in Closing /\ (Has(q, x) \/ Has(said, x))
  <2>1. PICK i \in 1 .. Len(all) : x = all[i] /\ all[i].kind \in Closing
    BY <1>9 DEF Lost, all
  <2>2. x \in WireType  BY <1>1, <2>1, ElementOfSeq
  <2>3. Has(all, x)  BY <2>1 DEF Has
  <2> QED  BY <1>3, <2>1, <2>2, <2>3
<1>10. QED  BY <1>3, <1>6, <1>7, <1>8, <1>9

\* The types of what the chat keeps.
LEMMA WireTyped ==
    ASSUME MentorInv
    PROVE  /\ wire \in Seq(WireType) /\ Len(wire) <= QueueSize /\ Len(wire) \in Nat
           /\ dropped \subseteq [kind : Closing, ask : Ask]
           /\ requests \in Seq(RequestType) /\ Len(requests) \in Nat
           /\ reply \in [Ask -> ReplyType] /\ questions \in Nat /\ questions <= MaxAsks
           /\ waiting \in Ask \cup {NoAsk} /\ active \in Ask \cup {NoAsk}
           /\ waiting \in Nat /\ active \in Nat
           /\ \A n \in Ask : n \in Nat /\ n # NoAsk /\ n >= 1
  BY MentorAssumption, LenProperties
     DEF MentorInv, MentorTypeOK, WireType, RequestType, ReplyType, Ask, NoAsk

\* A step that says nothing.
LEMMA SaysNothing ==
    ASSUME MentorInv
    PROVE  /\ UNCHANGED <<wire, dropped>> => Delivers(<<>>)
           /\ wire' = <<>> /\ UNCHANGED dropped => Delivers(<<>>)
<1>1. ASSUME UNCHANGED <<wire, dropped>>  PROVE Delivers(<<>>)
  BY <1>1, WireTyped DEF Delivers
<1>2. ASSUME wire' = <<>>, UNCHANGED dropped  PROVE Delivers(<<>>)
  <2>1. Len(<<>>) = 0 /\ <<>> \in Seq(WireType)  BY EmptySeq
  <2>2. Len(<<>>) <= QueueSize  BY <2>1, MentorAssumption
  <2> QED  BY <1>2, <2>1, <2>2, WireTyped, FewMessages DEF Delivers
<1>3. QED  BY <1>1, <1>2

\* A send delivers its messages, unless the connection is closed.
LEMMA SendDelivers ==
    ASSUME MentorInv, NEW said \in Seq(WireType), Send(said),
           \A x \in WireType : Has(said, x) => x.kind = "notice" \/ x.ask \in Ask
    PROVE  (conn = "open" => Delivers(said)) /\ (conn # "open" => Delivers(<<>>))
<1>1. CASE conn # "open"
  <2>1. UNCHANGED <<wire, dropped>>  BY <1>1 DEF Send
  <2> QED  BY <1>1, <2>1, SaysNothing
<1>2. CASE conn = "open"
  <2>1. wire' = Queued(wire, said) /\ dropped' = dropped \cup Lost(wire, said)
    BY <1>2 DEF Send
  <2>2. wire \in Seq(WireType) /\ dropped \subseteq [kind : Closing, ask : Ask]
    BY WireTyped
  <2> DEFINE r == Queued(wire, said)
  <2>3. /\ r \in Seq(WireType) /\ Len(r) <= QueueSize
        /\ \A x : Has(r, x) => Has(wire, x) \/ Has(said, x)
        /\ \A x, y : Precedes(r, x, y) =>
              Precedes(wire, x, y) \/ (Has(said, y) /\ (Has(wire, x) \/ Precedes(said, x, y)))
        /\ \A x \in Lost(wire, said) :
              x \in WireType /\ x.kind \in Closing /\ (Has(wire, x) \/ Has(said, x))
    <3>1. r = Queued(wire, said)  OBVIOUS
    <3> HIDE DEF r
    <3> QED  BY ONLY <2>2, <3>1, said \in Seq(WireType), MentorAssumption, QueuedMessages
  <2>4. ASSUME NEW x \in Lost(wire, said)  PROVE x \in [kind : Closing, ask : Ask]
    <3>1. x \in WireType /\ x.kind \in Closing /\ (Has(wire, x) \/ Has(said, x))
      BY <2>3
    <3>2. x.ask \in Ask  BY <3>1 DEF MentorInv, WireRight, Closing
    <3> QED  BY <3>1, <3>2 DEF WireType
  <2>5. dropped' \subseteq [kind : Closing, ask : Ask]  BY <2>1, <2>2, <2>4
  <2> HIDE DEF r
  <2>6. wire' = r  BY <2>1 DEF r
  <2> QED  BY <1>2, <2>3, <2>5, <2>6 DEF Delivers
<1>3. QED  BY <1>1, <1>2

-----------------------------------------------------------------------------
(* Mentor: the order of messages survives every step but a question's *)

\* A message that is said may be about n only while n is being answered, and what ends
\* the reply is said last.
LEMMA FlowKeeps ==
    ASSUME MentorInv, NEW said, Delivers(said),
           questions' = questions, halted \subseteq halted',
           halted' = {} /\ ~streaming' =>
               ~streaming \/ \A m \in Ask : m = questions => Gone(m)',
           \A x \in RequestType : Has(requests', x) =>
               Has(requests, x) \/ (x.kind = "cancel" /\ halted' # {}),
           waiting' = waiting \/ waiting' = NoAsk \/ Asked(waiting'),
           \A m \in Ask : reply'[m].at \in {"created", "streaming"} =>
               \/ waiting = m
               \/ /\ reply[m].at \in {"created", "streaming"}
                  /\ reply[m].cancelled => reply'[m].cancelled,
           \A m \in Ask : Launched(m) => Launched(m)',
           \A x \in WireType : Has(said, x) =>
               /\ x.kind = "notice" \/ (x.ask \in Ask /\ x.ask <= questions)
               /\ x.kind = "start" => Launched(x.ask)
               /\ x.kind \in {"chunk", "end"} => \A m \in Ask : Launched(m) => m <= x.ask
               /\ x.kind \in {"start", "chunk"} =>
                     reply[x.ask].at \in {"created", "streaming"} /\ ~reply[x.ask].cancelled
               /\ halted = {} /\ x.ask \in Ask => ~Settled(x.ask)
               /\ halted = {} /\ x.kind \in Closing => Settled(x.ask)',
           \A x, y \in WireType : Precedes(said, x, y) => x.kind = "chunk"
    PROVE  WireRight' /\ EarlierOver' /\ Undisturbed'
<1>1. /\ WireRight /\ EarlierOver /\ Undisturbed
      /\ \A n \in Ask : n \in Nat /\ n # NoAsk /\ n >= 1
      /\ questions \in Nat
  BY WireTyped DEF MentorInv
<1>2. \A n \in Ask : [kind |-> "ask", ask |-> n] \in RequestType  BY DEF RequestType
<1>3. ASSUME NEW n \in Ask, Asked(n)'  PROVE Asked(n)
  <2>1. Has(requests', [kind |-> "ask", ask |-> n])  BY <1>3 DEF Asked
  <2>2. [kind |-> "ask", ask |-> n].kind # "cancel"  OBVIOUS
  <2> QED  BY <1>2, <2>1, <2>2 DEF Asked
<1>4. ASSUME NEW n \in Ask, waiting' = n  PROVE waiting = n \/ Asked(n)
  BY <1>1, <1>4
<1>5. WireRight'
  <2>1. ASSUME NEW x \in WireType, Has(wire', x)
        PROVE  /\ x.kind = "notice" \/ (x.ask \in Ask /\ x.ask <= questions)
               /\ x.kind = "start" => Launched(x.ask)'
    <3>1. Has(wire, x) \/ Has(said, x)  BY <2>1 DEF Delivers
    <3>2. /\ x.kind = "notice" \/ (x.ask \in Ask /\ x.ask <= questions)
          /\ x.kind = "start" => Launched(x.ask)
      BY <1>1, <3>1 DEF WireRight
    <3> QED  BY <3>2
  <2>2. ASSUME NEW x \in WireType, NEW y \in WireType, Precedes(wire', x, y),
               x.kind = "start", y.kind \in {"chunk", "end"}
        PROVE  y.ask >= x.ask
    <3>1. CASE Precedes(wire, x, y)  BY <1>1, <2>2, <3>1 DEF WireRight
    <3>2. CASE Has(said, y) /\ (Has(wire, x) \/ Precedes(said, x, y))
      <4>1. Has(wire, x)  BY <2>2, <3>2
      <4>2. Launched(x.ask) /\ x.ask \in Ask  BY <1>1, <2>2, <4>1 DEF WireRight
      <4>3. x.ask <= y.ask  BY <2>2, <3>2, <4>2
      <4>4. x.ask \in Nat /\ y.ask \in Nat  BY <1>1, <2>2, <3>2, <4>2
      <4> QED  BY <4>3, <4>4
    <3> QED  BY <2>2, <3>1, <3>2 DEF Delivers
  <2> QED  BY <2>1, <2>2 DEF WireRight
<1>6. EarlierOver'
  <2>1. ASSUME NEW m \in Ask, Over(m)  PROVE Over(m)'
    <3>1. ~Asked(m)' /\ waiting' # m  BY <1>3, <1>4, <2>1 DEF Over
    <3>2. reply'[m].at \in {"created", "streaming"} => reply'[m].cancelled
      BY <2>1 DEF Over
    <3>3. ASSUME NEW x \in WireType, Has(wire', x), x.kind \in {"start", "chunk"}
          PROVE  x.ask # m
      <4>1. CASE Has(wire, x)  BY <2>1, <3>3, <4>1 DEF Over
      <4>2. CASE Has(said, x)
        <5>1. reply[x.ask].at \in {"created", "streaming"} /\ ~reply[x.ask].cancelled
          BY <3>3, <4>2
        <5> QED  BY <2>1, <5>1 DEF Over
      <4> QED  BY <3>3, <4>1, <4>2 DEF Delivers
    <3> QED  BY <3>1, <3>2, <3>3 DEF Over
  <2>2. ASSUME NEW n \in Ask, n <= questions, \A k \in halted' : k >= n, NEW m \in Ask, m < n
        PROVE  Over(m)'
    <3>1. \A k \in halted : k >= n  BY <2>2
    <3>2. Over(m)  BY <1>1, <2>2, <3>1 DEF EarlierOver
    <3> QED  BY <2>1, <3>2
  <2> QED  BY <2>2 DEF EarlierOver
<1>7. Undisturbed'
  <2> SUFFICES ASSUME halted' = {}
               PROVE  /\ \A x \in RequestType : Has(requests', x) => x.kind = "ask"
                      /\ \A m \in Ask :
                            m < questions \/ (m = questions /\ ~streaming') => Gone(m)'
                      /\ \A x \in WireType : Has(wire', x) /\ x.kind \in Closing =>
                            /\ x.ask = questions /\ Settled(questions)'
                            /\ \A y \in WireType : Precedes(wire', x, y) => y.ask # questions
    BY DEF Undisturbed
  <2>1. halted = {}  OBVIOUS
  <2>2. /\ \A x \in RequestType : Has(requests, x) => x.kind = "ask"
        /\ \A m \in Ask : m < questions \/ (m = questions /\ ~streaming) => Gone(m)
        /\ \A x \in WireType : Has(wire, x) /\ x.kind \in Closing =>
              /\ x.ask = questions /\ Settled(questions)
              /\ \A y \in WireType : Precedes(wire, x, y) => y.ask # questions
    BY <1>1, <2>1 DEF Undisturbed
  <2>3. \A x \in RequestType : Has(requests', x) => x.kind = "ask"  BY <2>2
  <2>4. ASSUME NEW m \in Ask, Settled(m)  PROVE Settled(m)'
    BY <1>3, <1>4, <2>4 DEF Settled
  <2>5. ASSUME NEW m \in Ask, Gone(m)  PROVE Gone(m)'
    <3>1. Settled(m)'  BY <2>4, <2>5 DEF Gone
    <3>2. ASSUME NEW x \in WireType, Has(wire', x)  PROVE x.ask # m
      <4>1. CASE Has(wire, x)  BY <2>5, <4>1 DEF Gone
      <4>2. CASE Has(said, x)  BY <2>1, <2>5, <4>2 DEF Gone
      <4> QED  BY <3>2, <4>1, <4>2 DEF Delivers
    <3> QED  BY <3>1, <3>2 DEF Gone
  <2>6. \A m \in Ask : m < questions \/ (m = questions /\ ~streaming') => Gone(m)'
    BY <2>2, <2>5
  <2>7. ASSUME NEW x \in WireType, Has(wire', x), x.kind \in Closing
        PROVE  /\ x.ask = questions /\ Settled(questions)'
               /\ \A y \in WireType : Precedes(wire', x, y) => y.ask # questions
    <3>1. x.kind # "notice"  BY <2>7 DEF Closing
    <3>2. CASE Has(wire, x)
      <4>1. x.ask = questions /\ Settled(questions) /\ x.ask \in Ask
        BY <1>1, <2>2, <2>7, <3>1, <3>2 DEF WireRight
      <4>2. ASSUME NEW y \in WireType, Precedes(wire', x, y)  PROVE y.ask # questions
        <5>1. CASE Precedes(wire, x, y)  BY <2>2, <2>7, <3>2, <5>1
        <5>2. CASE Has(said, y)  BY <2>1, <4>1, <5>2
        <5> QED  BY <4>2, <5>1, <5>2 DEF Delivers
      <4> QED  BY <2>4, <4>1, <4>2
    <3>3. CASE ~Has(wire, x)
      <4>1. Has(said, x)  BY <2>7, <3>3 DEF Delivers
      <4>2. x.ask \in Ask /\ x.ask <= questions /\ ~Settled(x.ask) /\ Settled(x.ask)'
        BY <2>1, <2>7, <3>1, <4>1
      <4>3. x.ask = questions
        <5>1. ~(x.ask < questions)  BY <2>2, <4>2 DEF Gone
        <5>2. x.ask \in Nat  BY <1>1, <4>2
        <5> QED  BY <1>1, <4>2, <5>1, <5>2
      <4>4. ASSUME NEW y \in WireType, Precedes(wire', x, y)  PROVE FALSE
        <5>1. ~Precedes(wire, x, y)  BY <3>3 DEF Has, Precedes
        <5>2. Precedes(said, x, y)  BY <3>3, <4>4, <5>1 DEF Delivers
        <5>3. x.kind = "chunk"  BY <5>2
        <5> QED  BY <2>7, <5>3 DEF Closing
      <4> QED  BY <4>2, <4>3, <4>4
    <3> QED  BY <3>2, <3>3
  <2> QED  BY <2>3, <2>6, <2>7
<1>8. QED  BY <1>5, <1>6, <1>7

-----------------------------------------------------------------------------
(* Mentor: the chat begins *)

LEMMA MentorStarts == MentorInit => MentorInv
<1> SUFFICES ASSUME MentorInit PROVE MentorInv  OBVIOUS
<1> USE DEF MentorInit
<1>1. Len(<<>>) = 0  BY EmptySeq
<1>2. \A n \in Ask : n \in Nat /\ n # NoAsk /\ n >= 1  BY MentorAssumption DEF Ask, NoAsk
<1>3. MentorTypeOK
  <2>1. NoTask \in ReplyType  BY MentorAssumption DEF NoTask, ReplyType
  <2>2. reply \in [Ask -> ReplyType]  BY <2>1
  <2>3. 0 \in 0 .. MaxAsks /\ 0 \in 0 .. MaxNotices /\ 0 <= QueueSize  BY MentorAssumption
  <2>4. \A S : <<>> \in Seq(S)  BY EmptySeq
  <2> QED  BY <1>1, <2>2, <2>3, <2>4 DEF MentorTypeOK, ReplyType
<1>4. \A m \in Ask : reply[m] = NoTask  OBVIOUS
<1>5. \A m \in Ask : ~Launched(m) /\ ~Live(m) /\ reply[m].at = "none" /\ reply[m].pieces = 0
  BY <1>4 DEF Launched, Live, NoTask
<1>6. AskOrder
  BY <1>2, <1>5, FewMessages DEF AskOrder, Asked, NoAsk
<1>7. Tasks  BY <1>5, MentorAssumption DEF Tasks
<1>8. WireRight  BY FewMessages DEF WireRight
<1>9. ASSUME NEW m \in Ask  PROVE Over(m) /\ Gone(m)
  BY <1>2, <1>5, FewMessages DEF Over, Gone, Settled, Asked, NoAsk
<1>10. EarlierOver  BY <1>9 DEF EarlierOver
<1>11. Undisturbed  BY <1>9, FewMessages DEF Undisturbed
<1>12. LastBubble /\ BubblesAsked /\ BubblesApart /\ HistoryHonest
  BY <1>1 DEF LastBubble, BubblesAsked, BubblesApart, HistoryHonest
<1>13. QED  BY <1>3, <1>6, <1>7, <1>8, <1>10, <1>11, <1>12 DEF MentorInv

-----------------------------------------------------------------------------
(* Mentor: the task of a question *)

\* What the client shows survives every step of the server.
LEMMA ClientSame ==
    ASSUME MentorInv, UNCHANGED <<transcript, questions>>, halted \subseteq halted'
    PROVE  LastBubble' /\ BubblesAsked' /\ BubblesApart'
  BY DEF MentorInv, LastBubble, BubblesAsked, BubblesApart

\* A step of a task that is not done: what it says is about its own question.
LEMMA RunKeeps ==
    ASSUME MentorInv, NEW n \in Ask, NEW said, NEW r \in ReplyType,
           Live(n), reply' = [reply EXCEPT ![n] = r],
           r.at \in {"streaming", "saving", "done"}, r.cancelled = reply[n].cancelled,
           r.at = "streaming" =>
               reply[n].at \in {"created", "streaming"} /\ r.pieces < Pieces,
           r.at = "saving" => r.pieces >= 1 /\ (r.pieces = Pieces \/ n \in failed'),
           active' = active \/ (r.at = "done" /\ active' = Popped(n)),
           failed \subseteq failed', failed' \subseteq Ask \cup {NoAsk},
           history' \subseteq [ask : Ask, pieces : 1 .. Pieces],
           \A e \in history' : e.pieces = Pieces \/ e.ask \in failed',
           Delivers(said),
           \A x \in WireType : Has(said, x) =>
               /\ x.ask = n /\ x.kind # "notice"
               /\ reply[n].at \in {"created", "streaming"} /\ ~reply[n].cancelled
               /\ x.kind \in Closing => r.at # "streaming",
           \A x, y \in WireType : Precedes(said, x, y) => x.kind = "chunk",
           UNCHANGED <<requests, waiting, conn, noticed, clientVars>>
    PROVE  MentorInv'
<1> DEFINE live == Live(n)
<1> HIDE DEF live
<1>1. /\ wire \in Seq(WireType) /\ requests \in Seq(RequestType)
      /\ reply \in [Ask -> ReplyType] /\ questions \in Nat
      /\ active \in Ask \cup {NoAsk}
      /\ \A m \in Ask : m \in Nat /\ m # NoAsk /\ m >= 1
  BY WireTyped
<1>2. UNCHANGED <<streaming, online, transcript, questions, halted>>  BY DEF clientVars
<1>3. reply'[n] = r /\ \A m \in Ask : m # n => reply'[m] = reply[m]  BY <1>1
<1>4. reply' \in [Ask -> ReplyType]  BY <1>1
<1>5. active' \in Ask \cup {NoAsk}  BY <1>1 DEF Popped
<1>6. Launched(n) /\ Launched(n)' /\ n <= questions
  BY <1>3 DEF Live, Launched, MentorInv, AskOrder
<1>7. \A m \in Ask : Launched(m)' <=> Launched(m)  BY <1>3, <1>6 DEF Launched
<1>8. ~Asked(n) /\ waiting # n
  <2>1. AskOrder /\ n \in Nat  BY <1>1 DEF MentorInv
  <2> QED  BY <1>1, <1>6, <2>1 DEF AskOrder
<1>9. MentorTypeOK'
  <2>1. wire' \in Seq(WireType) /\ Len(wire') <= QueueSize
        /\ dropped' \subseteq [kind : Closing, ask : Ask]
    BY DEF Delivers
  <2> QED  BY <1>2, <1>4, <1>5, <2>1 DEF MentorInv, MentorTypeOK, WireType, ReplyType
<1>10. AskOrder'
  <2>1. AskOrder /\ UNCHANGED <<requests, waiting, questions, streaming, transcript, halted>>
    BY <1>2 DEF MentorInv
  <2>2. active' <= questions  BY <2>1, <1>1 DEF AskOrder, Popped, NoAsk
  <2>3. \A m : Asked(m)' <=> Asked(m)  BY <2>1 DEF Asked
  <2> QED  BY <1>7, <2>1, <2>2, <2>3 DEF AskOrder
<1>11. Tasks'
  <2> SUFFICES ASSUME NEW m \in Ask
               PROVE  /\ Live(m)' /\ ~reply'[m].cancelled =>
                            active' = m /\ \A k \in Ask : Launched(k)' => k <= m
                      /\ reply'[m].at \in {"none", "created", "streaming"} =>
                            reply'[m].pieces < Pieces
                      /\ reply'[m].at = "saving" => reply'[m].pieces >= 1
                            /\ (reply'[m].pieces = Pieces \/ m \in failed')
    BY DEF Tasks
  <2>1. Tasks  BY DEF MentorInv
  <2>2. CASE m = n
    <3>1. ASSUME Live(m)', ~reply'[m].cancelled
          PROVE  active' = m /\ \A k \in Ask : Launched(k)' => k <= m
      <4>1. r.at # "done" /\ ~reply[n].cancelled  BY <1>3, <2>2, <3>1 DEF Live
      <4>2. active' = active  BY <4>1
      <4>3. active = n /\ \A k \in Ask : Launched(k) => k <= n  BY <2>1, <4>1 DEF Tasks
      <4> QED  BY <1>7, <2>2, <4>2, <4>3
    <3>2. r.at # "none" /\ r.at # "created"  OBVIOUS
    <3> QED  BY <1>3, <2>2, <3>1, <3>2
  <2>3. CASE m # n
    <3>1. reply'[m] = reply[m]  BY <1>3, <2>3
    <3>2. ASSUME Live(m)', ~reply'[m].cancelled
          PROVE  active' = m /\ \A k \in Ask : Launched(k)' => k <= m
      <4>1. Live(m) /\ ~reply[m].cancelled  BY <3>1, <3>2 DEF Live
      <4>2. active = m /\ \A k \in Ask : Launched(k) => k <= m  BY <2>1, <4>1 DEF Tasks
      <4>3. active' = active  BY <2>3, <4>2 DEF Popped
      <4> QED  BY <1>7, <4>2, <4>3
    <3>3. reply[m].at = "saving" => reply[m].pieces >= 1
                            /\ (reply[m].pieces = Pieces \/ m \in failed)
      BY <2>1 DEF Tasks
    <3>4. reply[m].at \in {"none", "created", "streaming"} => reply[m].pieces < Pieces
      BY <2>1 DEF Tasks
    <3> QED  BY <3>1, <3>2, <3>3, <3>4
  <2> QED  BY <2>2, <2>3
<1>12. WireRight' /\ EarlierOver' /\ Undisturbed'
  <2>1. \A m \in Ask : reply'[m].at \in {"created", "streaming"} =>
               \/ waiting = m
               \/ /\ reply[m].at \in {"created", "streaming"}
                  /\ reply[m].cancelled => reply'[m].cancelled
    BY <1>3
  <2>2. ASSUME NEW x \in WireType, Has(said, x)
        PROVE  /\ x.kind = "notice" \/ (x.ask \in Ask /\ x.ask <= questions)
               /\ x.kind = "start" => Launched(x.ask)
               /\ x.kind \in {"chunk", "end"} => \A m \in Ask : Launched(m) => m <= x.ask
               /\ x.kind \in {"start", "chunk"} =>
                     reply[x.ask].at \in {"created", "streaming"} /\ ~reply[x.ask].cancelled
               /\ halted = {} /\ x.ask \in Ask => ~Settled(x.ask)
               /\ halted = {} /\ x.kind \in Closing => Settled(x.ask)'
    <3>1. /\ x.ask = n /\ x.kind # "notice"
          /\ reply[n].at \in {"created", "streaming"} /\ ~reply[n].cancelled
          /\ x.kind \in Closing => r.at # "streaming"
      BY <2>2
    <3>2. \A m \in Ask : Launched(m) => m <= n  BY <3>1 DEF MentorInv, Tasks, Live
    <3>3. ~Settled(n)  BY <3>1 DEF Settled
    <3>4. x.kind \in Closing => Settled(n)'
      <4>1. ~Asked(n)' /\ waiting' # n  BY <1>8 DEF Asked
      <4> QED  BY <1>3, <3>1, <4>1 DEF Settled
    <3> QED  BY <1>6, <3>1, <3>2, <3>3, <3>4
  <2>3. UNCHANGED <<requests, waiting, streaming, questions, halted>>  BY <1>2
  <2>4. \A m \in Ask : Launched(m) => Launched(m)'  BY <1>7
  <2>5. halted \subseteq halted' /\ (halted' = {} /\ ~streaming' =>
               ~streaming \/ \A m \in Ask : m = questions => Gone(m)')
    BY <2>3
  <2>6. \A x \in RequestType : Has(requests', x) =>
               Has(requests, x) \/ (x.kind = "cancel" /\ halted' # {})
    BY <2>3
  <2> QED  BY ONLY MentorInv, Delivers(said), <2>1, <2>2, <2>3, <2>4, <2>5, <2>6,
              \A x, y \in WireType : Precedes(said, x, y) => x.kind = "chunk", FlowKeeps
<1>13. LastBubble' /\ BubblesAsked' /\ BubblesApart'  BY <1>2, ClientSame
<1>14. HistoryHonest'  BY DEF HistoryHonest
<1>15. QED  BY <1>9, <1>10, <1>11, <1>12, <1>13, <1>14 DEF MentorInv

\* A reply that comes to its end is saved, or the task is done.
LEMMA Concludes ==
    ASSUME MentorInv, NEW n \in Ask, NEW p \in 0 .. Pieces, Conclude(n, p),
           ~reply[n].cancelled => p = Pieces \/ n \in failed'
    PROVE  \E r \in ReplyType :
              /\ reply' = [reply EXCEPT ![n] = r]
              /\ r.at \in {"saving", "done"} /\ r.cancelled = reply[n].cancelled
              /\ r.at = "saving" => r.pieces >= 1 /\ (r.pieces = Pieces \/ n \in failed')
              /\ active' = active \/ (r.at = "done" /\ active' = Popped(n))
<1>1. reply \in [Ask -> ReplyType] /\ reply[n] \in ReplyType  BY WireTyped
<1>2. CASE Saves(n, p)
  <2> DEFINE r == [reply[n] EXCEPT !.at = "saving", !.pieces = p]
  <2>1. r \in ReplyType /\ r.at = "saving" /\ r.pieces = p /\ r.cancelled = reply[n].cancelled
    BY <1>1 DEF ReplyType
  <2>2. reply' = [reply EXCEPT ![n] = r] /\ active' = active
    BY <1>1, <1>2 DEF Conclude, ReplyType
  <2>3. p >= 1 /\ (p = Pieces \/ n \in failed')  BY <1>2 DEF Saves
  <2> HIDE DEF r
  <2> QED  BY <2>1, <2>2, <2>3
<1>3. CASE ~Saves(n, p)
  <2> DEFINE r == [reply[n] EXCEPT !.at = "done"]
  <2>1. r \in ReplyType /\ r.at = "done" /\ r.cancelled = reply[n].cancelled
    BY <1>1 DEF ReplyType
  <2>2. reply' = [reply EXCEPT ![n] = r] /\ active' = Popped(n)
    BY <1>1, <1>3 DEF Conclude, Finish
  <2> HIDE DEF r
  <2> QED  BY <2>1, <2>2
<1>4. QED  BY <1>2, <1>3

\* The messages the mentor sends.
LEMMA Sayings ==
    ASSUME NEW n \in Ask, NEW k \in Kinds
    PROVE  /\ Says(k, n) \in WireType
           /\ Says(k, n).kind = k /\ Says(k, n).ask = n
           /\ <<Says(k, n)>> \in Seq(WireType)
           /\ \A j \in Kinds : <<Says(k, n), Says(j, n)>> \in Seq(WireType)
<1>1. \A j \in Kinds : Says(j, n) \in WireType  BY DEF Says, WireType
<1>2. Says(k, n).kind = k /\ Says(k, n).ask = n  BY DEF Says
<1>3. \A x, y \in WireType : <<x>> \in Seq(WireType) /\ <<x, y>> \in Seq(WireType)
  OBVIOUS
<1>4. QED  BY <1>1, <1>2, <1>3

LEMMA StartKeeps == ASSUME MentorInv, NEW n \in Ask, Start(n)  PROVE MentorInv'
<1> USE DEF Start
<1> DEFINE at == IF conn = "open" THEN "streaming" ELSE "done"
           r == [reply[n] EXCEPT !.at = at]
           x == Says("start", n)
           said == IF conn = "open" THEN <<x>> ELSE <<>>
<1>1. reply \in [Ask -> ReplyType] /\ reply[n] \in ReplyType  BY WireTyped
<1>2. /\ r \in ReplyType /\ r.at = at /\ r.cancelled = reply[n].cancelled
      /\ r.pieces = reply[n].pieces
  BY <1>1 DEF ReplyType
<1>3. reply' = [reply EXCEPT ![n] = r]  BY <1>1 DEF Finish, ReplyType
<1>4. active' = active \/ (r.at = "done" /\ active' = Popped(n))  BY <1>2 DEF Finish
<1>5. r.pieces < Pieces  BY <1>2 DEF MentorInv, Tasks
<1>6. x \in WireType /\ x.kind = "start" /\ x.ask = n /\ <<x>> \in Seq(WireType)
  <2>1. "start" \in Kinds  BY DEF Kinds
  <2> QED  BY <2>1, Sayings
<1>7. Delivers(said)
  <2>1. \A y \in WireType : Has(<<x>>, y) => y.kind = "notice" \/ y.ask \in Ask
    BY <1>6, FewMessages
  <2>2. Send(<<x>>)  OBVIOUS
  <2> HIDE DEF x
  <2> QED  BY <1>6, <2>1, <2>2, SendDelivers
<1>8. (\A y : Has(said, y) => y = x) /\ \A y, z : ~Precedes(said, y, z)
  <2> HIDE DEF x
  <2> QED  BY FewMessages
<1>9. x.kind \notin Closing  BY <1>6 DEF Closing
<1>10. Live(n) /\ r.at \in {"streaming", "saving", "done"} /\ r.at # "saving"
  BY <1>2 DEF Live
<1>11. /\ failed \subseteq failed' /\ failed' \subseteq Ask \cup {NoAsk}
       /\ history' \subseteq [ask : Ask, pieces : 1 .. Pieces]
       /\ \A e \in history' : e.pieces = Pieces \/ e.ask \in failed'
  BY DEF MentorInv, MentorTypeOK, HistoryHonest
<1>12. \A y \in WireType : Has(said, y) =>
               /\ y.ask = n /\ y.kind # "notice"
               /\ reply[n].at \in {"created", "streaming"} /\ ~reply[n].cancelled
               /\ y.kind \in Closing => r.at # "streaming"
  <2> HIDE DEF x, said
  <2> QED  BY <1>6, <1>8, <1>9
<1>13. \A y, z \in WireType : Precedes(said, y, z) => y.kind = "chunk"  BY <1>8
<1>14. reply[n].at \in {"created", "streaming"}  OBVIOUS
<1>15. UNCHANGED <<requests, waiting, conn, noticed, clientVars>>  OBVIOUS
<1> HIDE DEF r, said, at, Start
<1> QED  BY ONLY MentorInv, n \in Ask, <1>2, <1>3, <1>4, <1>5, <1>7, <1>10, <1>11, <1>12,
            <1>13, <1>14, <1>15, RunKeeps

LEMMA PieceKeeps == ASSUME MentorInv, NEW n \in Ask, Piece(n)  PROVE MentorInv'
<1> USE DEF Piece
<1> DEFINE p == reply[n].pieces + 1
           x == Says("chunk", n)
           y == Says("end", n)
           all == IF p = Pieces THEN <<x, y>> ELSE <<x>>
           said == IF conn = "open" THEN all ELSE <<>>
<1>1. reply \in [Ask -> ReplyType] /\ reply[n] \in ReplyType  BY WireTyped
<1>2. reply[n].pieces < Pieces /\ p \in 0 .. Pieces /\ Live(n)
  <2>1. reply[n].pieces < Pieces  BY DEF MentorInv, Tasks
  <2> QED  BY <1>1, <2>1, MentorAssumption DEF ReplyType, Live
<1>3. /\ failed \subseteq failed' /\ failed' \subseteq Ask \cup {NoAsk}
      /\ history' \subseteq [ask : Ask, pieces : 1 .. Pieces]
      /\ \A e \in history' : e.pieces = Pieces \/ e.ask \in failed'
      /\ conn # "open" => n \in failed'
  BY DEF MentorInv, MentorTypeOK, HistoryHonest
<1>4. \E r \in ReplyType :
         /\ reply' = [reply EXCEPT ![n] = r]
         /\ r.at \in {"streaming", "saving", "done"} /\ r.cancelled = reply[n].cancelled
         /\ r.at = "streaming" => r.pieces < Pieces /\ conn = "open" /\ p < Pieces
         /\ r.at = "saving" => r.pieces >= 1 /\ (r.pieces = Pieces \/ n \in failed')
         /\ active' = active \/ (r.at = "done" /\ active' = Popped(n))
  <2>1. CASE conn = "open" /\ p < Pieces
    <3> DEFINE r == [reply[n] EXCEPT !.pieces = p]
    <3>1. /\ r \in ReplyType /\ r.at = "streaming" /\ r.pieces = p
          /\ r.cancelled = reply[n].cancelled
      BY <1>1, <1>2 DEF ReplyType
    <3>2. reply' = [reply EXCEPT ![n] = r] /\ active' = active
      BY <1>1, <2>1 DEF ReplyType
    <3> HIDE DEF r
    <3> QED  BY <2>1, <3>1, <3>2
  <2>2. CASE ~(conn = "open" /\ p < Pieces)
    <3>1. Conclude(n, p)  BY <2>2
    <3>2. p = Pieces \/ n \in failed'
      <4>1. p \in 0 .. Pieces /\ Pieces \in Nat  BY <1>2, MentorAssumption
      <4> HIDE DEF p, Piece
      <4>2. ~(p < Pieces) => p = Pieces  BY ONLY <4>1
      <4> QED  BY <1>3, <2>2, <4>2
    <3>3. PICK r \in ReplyType :
              /\ reply' = [reply EXCEPT ![n] = r]
              /\ r.at \in {"saving", "done"} /\ r.cancelled = reply[n].cancelled
              /\ r.at = "saving" => r.pieces >= 1 /\ (r.pieces = Pieces \/ n \in failed')
              /\ active' = active \/ (r.at = "done" /\ active' = Popped(n))
      <4> HIDE DEF p
      <4> QED  BY ONLY MentorInv, n \in Ask, <1>2, <3>1, <3>2, Concludes
    <3> QED  BY <3>3
  <2> QED  BY <2>1, <2>2
<1>5. /\ x \in WireType /\ x.kind = "chunk" /\ x.ask = n
      /\ y \in WireType /\ y.kind = "end" /\ y.ask = n
      /\ all \in Seq(WireType)
  <2>1. "chunk" \in Kinds /\ "end" \in Kinds  BY DEF Kinds
  <2> QED  BY <2>1, Sayings
<1>6. /\ \A z : Has(all, z) => z = x \/ (z = y /\ p = Pieces)
      /\ \A z, w : Precedes(all, z, w) => z = x
  <2> HIDE DEF x, y, p
  <2> QED  BY FewMessages
<1>7. Delivers(said)
  <2>1. \A z \in WireType : Has(all, z) => z.kind = "notice" \/ z.ask \in Ask
    BY <1>5, <1>6
  <2>2. Send(all)  OBVIOUS
  <2> HIDE DEF all
  <2> QED  BY <1>5, <2>1, <2>2, SendDelivers
<1>8. /\ \A z : Has(said, z) => z = x \/ (z = y /\ p = Pieces)
      /\ \A z, w : Precedes(said, z, w) => z = x
  <2> HIDE DEF x, y, p, all
  <2> QED  BY <1>6, FewMessages
<1>9. x.kind \notin Closing  BY <1>5 DEF Closing
<1>10. PICK r \in ReplyType :
         /\ reply' = [reply EXCEPT ![n] = r]
         /\ r.at \in {"streaming", "saving", "done"} /\ r.cancelled = reply[n].cancelled
         /\ r.at = "streaming" => r.pieces < Pieces /\ conn = "open" /\ p < Pieces
         /\ r.at = "saving" => r.pieces >= 1 /\ (r.pieces = Pieces \/ n \in failed')
         /\ active' = active \/ (r.at = "done" /\ active' = Popped(n))
  BY <1>4
<1>11. p \in Nat /\ Pieces \in Nat  BY <1>2, MentorAssumption
<1>12. reply[n].at \in {"created", "streaming"} /\ ~reply[n].cancelled  OBVIOUS
<1>13. \A z \in WireType : Has(said, z) =>
               /\ z.ask = n /\ z.kind # "notice"
               /\ reply[n].at \in {"created", "streaming"} /\ ~reply[n].cancelled
               /\ z.kind \in Closing => r.at # "streaming"
  <2>1. r.at = "streaming" => p # Pieces  BY <1>10, <1>11
  <2> HIDE DEF x, y, said, p
  <2> QED  BY <1>5, <1>8, <1>9, <1>12, <2>1
<1>14. \A z, w \in WireType : Precedes(said, z, w) => z.kind = "chunk"
  <2> HIDE DEF x, said
  <2> QED  BY <1>5, <1>8
<1>15. UNCHANGED <<requests, waiting, conn, noticed, clientVars>>  OBVIOUS
<1> HIDE DEF said, Piece, p, x, y
<1> QED  BY ONLY MentorInv, n \in Ask, <1>2, <1>3, <1>7, <1>10, <1>12, <1>13, <1>14, <1>15,
            RunKeeps

LEMMA BreakKeeps == ASSUME MentorInv, NEW n \in Ask, Break(n)  PROVE MentorInv'
<1> USE DEF Break
<1> DEFINE p == reply[n].pieces
           x == Says("error", n)
           said == IF conn = "open" THEN <<x>> ELSE <<>>
<1>1. reply \in [Ask -> ReplyType] /\ reply[n] \in ReplyType  BY WireTyped
<1>2. p \in 0 .. Pieces /\ Live(n)  BY <1>1 DEF ReplyType, Live
<1>3. /\ failed \subseteq failed' /\ failed' \subseteq Ask \cup {NoAsk}
      /\ history' \subseteq [ask : Ask, pieces : 1 .. Pieces]
      /\ \A e \in history' : e.pieces = Pieces \/ e.ask \in failed'
      /\ n \in failed'
  BY DEF MentorInv, MentorTypeOK, HistoryHonest
<1>4. Conclude(n, p)  OBVIOUS
<1>5. PICK r \in ReplyType :
              /\ reply' = [reply EXCEPT ![n] = r]
              /\ r.at \in {"saving", "done"} /\ r.cancelled = reply[n].cancelled
              /\ r.at = "saving" => r.pieces >= 1 /\ (r.pieces = Pieces \/ n \in failed')
              /\ active' = active \/ (r.at = "done" /\ active' = Popped(n))
  <2> HIDE DEF p
  <2> QED  BY ONLY MentorInv, n \in Ask, <1>2, <1>3, <1>4, Concludes
<1>6. x \in WireType /\ x.kind = "error" /\ x.ask = n /\ <<x>> \in Seq(WireType)
  <2>1. "error" \in Kinds  BY DEF Kinds
  <2> QED  BY <2>1, Sayings
<1>7. Delivers(said)
  <2>1. \A y \in WireType : Has(<<x>>, y) => y.kind = "notice" \/ y.ask \in Ask
    BY <1>6, FewMessages
  <2>2. Send(<<x>>)  OBVIOUS
  <2> HIDE DEF x
  <2> QED  BY <1>6, <2>1, <2>2, SendDelivers
<1>8. (\A y : Has(said, y) => y = x) /\ \A y, z : ~Precedes(said, y, z)
  <2> HIDE DEF x
  <2> QED  BY FewMessages
<1>9. reply[n].at \in {"created", "streaming"} /\ ~reply[n].cancelled  OBVIOUS
<1>10. r.at \in {"streaming", "saving", "done"} /\ r.at # "streaming"  BY <1>5
<1>11. \A y \in WireType : Has(said, y) =>
               /\ y.ask = n /\ y.kind # "notice"
               /\ reply[n].at \in {"created", "streaming"} /\ ~reply[n].cancelled
               /\ y.kind \in Closing => r.at # "streaming"
  <2> HIDE DEF x, said
  <2> QED  BY <1>6, <1>8, <1>9, <1>10
<1>12. \A y, z \in WireType : Precedes(said, y, z) => y.kind = "chunk"  BY <1>8
<1>13. UNCHANGED <<requests, waiting, conn, noticed, clientVars>>  OBVIOUS
<1> HIDE DEF said, Break, p, x
<1> QED  BY ONLY MentorInv, n \in Ask, <1>2, <1>3, <1>5, <1>7, <1>10, <1>11, <1>12, <1>13,
            RunKeeps

\* What a task saves is whole, or its provider or the socket failed.
LEMMA SavedHonest ==
    ASSUME MentorInv, NEW n \in Ask, reply[n].at = "saving", failed \subseteq failed',
           history' \in {history, Saved(n)}
    PROVE  /\ history' \subseteq [ask : Ask, pieces : 1 .. Pieces]
           /\ \A e \in history' : e.pieces = Pieces \/ e.ask \in failed'
<1>1. /\ history \subseteq [ask : Ask, pieces : 1 .. Pieces]
      /\ \A e \in history : e.pieces = Pieces \/ e.ask \in failed
  BY DEF MentorInv, MentorTypeOK, HistoryHonest
<1>2. reply[n].pieces >= 1 /\ (reply[n].pieces = Pieces \/ n \in failed)
  BY DEF MentorInv, Tasks
<1>3. reply[n].pieces \in 1 .. Pieces  BY <1>2, WireTyped DEF ReplyType
<1>4. QED  BY <1>1, <1>2, <1>3 DEF Saved

\* A task that ends without a word.
LEMMA QuietEnd ==
    ASSUME MentorInv, NEW n \in Ask, Live(n), reply' = [reply EXCEPT ![n].at = "done"],
           active' = active \/ active' = Popped(n),
           failed \subseteq failed', failed' \subseteq Ask \cup {NoAsk},
           history' \subseteq [ask : Ask, pieces : 1 .. Pieces],
           \A e \in history' : e.pieces = Pieces \/ e.ask \in failed',
           UNCHANGED <<requests, waiting, wire, dropped, conn, noticed, clientVars>>
    PROVE  MentorInv'
<1> DEFINE r == [reply[n] EXCEPT !.at = "done"]
<1>1. reply \in [Ask -> ReplyType] /\ reply[n] \in ReplyType  BY WireTyped
<1>2. r \in ReplyType /\ r.at = "done" /\ r.cancelled = reply[n].cancelled
  BY <1>1 DEF ReplyType
<1>3. reply' = [reply EXCEPT ![n] = r]  OBVIOUS
<1>4. Delivers(<<>>)  BY SaysNothing
<1>5. \A y \in WireType : Has(<<>>, y) =>
               /\ y.ask = n /\ y.kind # "notice"
               /\ reply[n].at \in {"created", "streaming"} /\ ~reply[n].cancelled
               /\ y.kind \in Closing => r.at # "streaming"
  BY FewMessages
<1>6. \A y, z \in WireType : Precedes(<<>>, y, z) => y.kind = "chunk"  BY FewMessages
<1> HIDE DEF r
<1>7. r.at \in {"streaming", "saving", "done"} /\ r.at # "saving" /\ r.at # "streaming"
  BY <1>2
<1>8. active' = active \/ (r.at = "done" /\ active' = Popped(n))  BY <1>2
<1> DEFINE nothing == <<>>
<1> HIDE DEF nothing
<1>9. Delivers(nothing) /\ (\A y : ~Has(nothing, y)) /\ \A y, z : ~Precedes(nothing, y, z)
  BY <1>4, FewMessages DEF nothing
<1>10. /\ failed \subseteq failed' /\ failed' \subseteq Ask \cup {NoAsk}
       /\ history' \subseteq [ask : Ask, pieces : 1 .. Pieces]
       /\ \A e \in history' : e.pieces = Pieces \/ e.ask \in failed'
       /\ UNCHANGED <<requests, waiting, conn, noticed, clientVars>>
  OBVIOUS
<1> QED  BY ONLY MentorInv, n \in Ask, Live(n), <1>2, <1>3, <1>7, <1>8, <1>9, <1>10, RunKeeps

LEMMA SaveKeeps == ASSUME MentorInv, NEW n \in Ask, Save(n)  PROVE MentorInv'
<1>1. failed \subseteq failed' /\ failed' \subseteq Ask \cup {NoAsk}
  BY DEF Save, MentorInv, MentorTypeOK
<1>2. reply[n].at = "saving" /\ Live(n) /\ history' \in {history, Saved(n)}
  BY DEF Save, Live
<1>3. /\ history' \subseteq [ask : Ask, pieces : 1 .. Pieces]
      /\ \A e \in history' : e.pieces = Pieces \/ e.ask \in failed'
  BY <1>1, <1>2, SavedHonest
<1>4. reply' = [reply EXCEPT ![n].at = "done"] /\ active' = Popped(n)
  BY DEF Save, Finish
<1>5. UNCHANGED <<requests, waiting, wire, dropped, conn, noticed, clientVars>>
  BY DEF Save
<1> QED  BY <1>1, <1>2, <1>3, <1>4, <1>5, QuietEnd

LEMMA UnwindKeeps == ASSUME MentorInv, NEW n \in Ask, Unwind(n)  PROVE MentorInv'
<1>1. failed \subseteq failed' /\ failed' \subseteq Ask \cup {NoAsk}
  BY DEF Unwind, MentorInv, MentorTypeOK
<1>2. Live(n) /\ reply' = [reply EXCEPT ![n].at = "done"]
      /\ (active' = active \/ active' = Popped(n))
  <2>1. reply[n].cancelled  BY DEF Unwind
  <2>2. \A p : Conclude(n, p) => Finish(n)  BY <2>1 DEF Conclude, Saves
  <2> QED  BY <2>2 DEF Unwind, Finish, Live
<1>3. /\ history' \subseteq [ask : Ask, pieces : 1 .. Pieces]
      /\ \A e \in history' : e.pieces = Pieces \/ e.ask \in failed'
  <2>1. CASE history' = history
    BY <1>1, <2>1 DEF MentorInv, MentorTypeOK, HistoryHonest
  <2>2. CASE history' # history
    <3>1. reply[n].at = "saving" /\ history' \in {history, Saved(n)}
      BY <2>2 DEF Unwind
    <3> QED  BY <1>1, <3>1, SavedHonest
  <2> QED  BY <2>1, <2>2
<1>4. UNCHANGED <<requests, waiting, wire, dropped, conn, noticed, clientVars>>
  BY DEF Unwind
<1> QED  BY <1>1, <1>2, <1>3, <1>4, QuietEnd

-----------------------------------------------------------------------------
(* Mentor: the reader *)

\* A send of one message says at most that message.
LEMMA SendOne ==
    ASSUME MentorInv, NEW x \in WireType, x.kind = "notice" \/ x.ask \in Ask, Send(<<x>>)
    PROVE  \E said : /\ Delivers(said)
                     /\ \A y : Has(said, y) => y = x
                     /\ \A y, z : ~Precedes(said, y, z)
<1>1. <<x>> \in Seq(WireType)  OBVIOUS
<1>2. \A y : Has(<<x>>, y) => y = x  BY FewMessages
<1>3. (conn = "open" => Delivers(<<x>>)) /\ (conn # "open" => Delivers(<<>>))
  BY <1>1, <1>2, SendDelivers
<1>4. CASE conn = "open"  BY <1>3, <1>4, FewMessages
<1>5. CASE conn # "open"  BY <1>3, <1>5, FewMessages
<1>6. QED  BY <1>4, <1>5

\* Cancelling the task of m changes nothing but its flag.
LEMMA CancelledTask ==
    ASSUME MentorInv, NEW m \in Ask \cup {NoAsk}, NEW c, c = Cancelled(m)
    PROVE  /\ c \in [Ask -> ReplyType]
           /\ \A k \in Ask :
                 /\ c[k].at = reply[k].at /\ c[k].pieces = reply[k].pieces
                 /\ reply[k].cancelled => c[k].cancelled
                 /\ Live(k) /\ k = m => c[k].cancelled
<1>1. reply \in [Ask -> ReplyType]  BY WireTyped
<1>2. CASE m # NoAsk /\ Live(m)
  <2>1. m \in Ask /\ c = [reply EXCEPT ![m].cancelled = TRUE]  BY <1>2 DEF Cancelled
  <2>2. reply[m] \in ReplyType  BY <1>1, <2>1
  <2>3. c \in [Ask -> ReplyType]  BY <1>1, <2>1, <2>2 DEF ReplyType
  <2> QED  BY <1>1, <2>1, <2>2, <2>3 DEF ReplyType
<1>3. CASE ~(m # NoAsk /\ Live(m))
  <2>1. c = reply  BY <1>3 DEF Cancelled
  <2>2. \A k \in Ask : k # NoAsk  BY WireTyped
  <2> QED  BY <1>1, <1>3, <2>1, <2>2
<1>4. QED  BY <1>2, <1>3

\* A step of the server that starts no task and ends none.
LEMMA ServerKeeps ==
    ASSUME MentorInv, NEW said, Delivers(said),
           reply' \in [Ask -> ReplyType],
           \A k \in Ask :
               /\ reply'[k].at = reply[k].at /\ reply'[k].pieces = reply[k].pieces
               /\ reply[k].cancelled => reply'[k].cancelled,
           requests' \in Seq(RequestType),
           \A x \in RequestType : Has(requests', x) => Has(requests, x),
           \A x, y \in RequestType : Precedes(requests', x, y) => Precedes(requests, x, y),
           active' = active
               \/ (active' = NoAsk /\ \A k \in Ask : Live(k) => reply'[k].cancelled),
           waiting' = waiting
               \/ (/\ waiting' \in Ask /\ Asked(waiting')
                   /\ \A n \in Ask : Asked(n)' => waiting' < n),
           failed \subseteq failed', failed' \subseteq Ask \cup {NoAsk},
           conn' \in {"open", "closed", "gone"}, noticed' \in 0 .. MaxNotices,
           UNCHANGED <<history, clientVars>>,
           \A x \in WireType : Has(said, x) =>
               /\ x.kind \notin {"start", "chunk", "end"}
               /\ x.kind = "notice" \/ (x.ask \in Ask /\ x.ask <= questions)
               /\ halted = {} /\ x.ask \in Ask => ~Settled(x.ask)
               /\ halted = {} /\ x.kind \in Closing => Settled(x.ask)',
           \A x, y \in WireType : ~Precedes(said, x, y)
    PROVE  MentorInv'
<1>1. /\ questions \in Nat /\ waiting \in Ask \cup {NoAsk} /\ active \in Ask \cup {NoAsk}
      /\ \A m \in Ask : m \in Nat /\ m # NoAsk /\ m >= 1
  BY WireTyped
<1>2. UNCHANGED <<streaming, online, transcript, questions, halted>>  BY DEF clientVars
<1>3. \A n \in Ask : [kind |-> "ask", ask |-> n] \in RequestType  BY DEF RequestType
<1>4. \A n \in Ask : Asked(n)' => Asked(n)  BY <1>3 DEF Asked
<1>5. \A m \in Ask : (Launched(m)' <=> Launched(m)) /\ (Live(m)' <=> Live(m))
  BY DEF Launched, Live
<1>6. \A n \in Ask : Asked(n) => n <= questions /\ \A m \in Ask : Launched(m) => m < n
  <2>1. AskOrder  BY DEF MentorInv
  <2> QED  BY <1>3, <2>1 DEF AskOrder, Asked
<1>7. MentorTypeOK'
  <2>1. wire' \in Seq(WireType) /\ Len(wire') <= QueueSize
        /\ dropped' \subseteq [kind : Closing, ask : Ask]
    BY DEF Delivers
  <2>2. waiting' \in Ask \cup {NoAsk} /\ active' \in Ask \cup {NoAsk}  BY <1>1
  <2> QED  BY <1>2, <2>1, <2>2 DEF MentorInv, MentorTypeOK, WireType, ReplyType, RequestType
<1>8. AskOrder'
  <2>1. AskOrder  BY DEF MentorInv
  <2>2. active' <= questions  BY <1>1, <2>1 DEF AskOrder, NoAsk
  <2>3. /\ waiting' <= questions
        /\ \A n \in Ask : Asked(n)' => waiting' < n
        /\ waiting' # NoAsk => \A m \in Ask : Launched(m)' => m < waiting'
    <3>1. CASE waiting' = waiting  BY <1>4, <1>5, <2>1, <3>1 DEF AskOrder
    <3>2. CASE /\ waiting' \in Ask /\ Asked(waiting')
               /\ \A n \in Ask : Asked(n)' => waiting' < n
      BY <1>5, <1>6, <3>2
    <3> QED  BY <3>1, <3>2
  <2> HIDE DEF Asked, Launched
  <2>4. \A n \in Ask : Asked(n)' => \A m \in Ask : Launched(m)' => m < n
    BY <1>4, <1>5, <1>6
  <2> QED  BY <1>2, <1>5, <2>1, <2>2, <2>3, <2>4 DEF AskOrder
<1>9. Tasks'
  <2>1. Tasks  BY DEF MentorInv
  <2>2. ASSUME NEW n \in Ask, Live(n)', ~reply'[n].cancelled
        PROVE  active' = n /\ \A m \in Ask : Launched(m)' => m <= n
    <3>1. Live(n) /\ ~reply[n].cancelled  BY <1>5, <2>2
    <3>2. active = n /\ \A m \in Ask : Launched(m) => m <= n  BY <2>1, <3>1 DEF Tasks
    <3>3. active' = active  BY <2>2, <3>1
    <3> QED  BY <1>5, <3>2, <3>3
  <2>3. \A n \in Ask :
           /\ reply'[n].at \in {"none", "created", "streaming"} => reply'[n].pieces < Pieces
           /\ reply'[n].at = "saving" => reply'[n].pieces >= 1
                  /\ (reply'[n].pieces = Pieces \/ n \in failed')
    BY <2>1 DEF Tasks
  <2> QED  BY <2>2, <2>3 DEF Tasks
<1>10. WireRight' /\ EarlierOver' /\ Undisturbed'
  <2>1. \A m \in Ask : reply'[m].at \in {"created", "streaming"} =>
               \/ waiting = m
               \/ /\ reply[m].at \in {"created", "streaming"}
                  /\ reply[m].cancelled => reply'[m].cancelled
    OBVIOUS
  <2>2. ASSUME NEW x \in WireType, Has(said, x)
        PROVE  /\ x.kind = "notice" \/ (x.ask \in Ask /\ x.ask <= questions)
               /\ x.kind = "start" => Launched(x.ask)
               /\ x.kind \in {"chunk", "end"} => \A m \in Ask : Launched(m) => m <= x.ask
               /\ x.kind \in {"start", "chunk"} =>
                     reply[x.ask].at \in {"created", "streaming"} /\ ~reply[x.ask].cancelled
               /\ halted = {} /\ x.ask \in Ask => ~Settled(x.ask)
               /\ halted = {} /\ x.kind \in Closing => Settled(x.ask)'
    <3>1. x.kind \notin {"start", "chunk", "end"}  BY <2>2
    <3>2. /\ x.kind = "notice" \/ (x.ask \in Ask /\ x.ask <= questions)
          /\ halted = {} /\ x.ask \in Ask => ~Settled(x.ask)
          /\ halted = {} /\ x.kind \in Closing => Settled(x.ask)'
      BY <2>2
    <3> QED  BY <3>1, <3>2
  <2>3. UNCHANGED <<streaming, questions, halted>>  BY <1>2
  <2>4. \A m \in Ask : Launched(m) => Launched(m)'  BY <1>5
  <2>5. halted \subseteq halted' /\ (halted' = {} /\ ~streaming' =>
               ~streaming \/ \A m \in Ask : m = questions => Gone(m)')
    BY <2>3
  <2>6. \A x \in RequestType : Has(requests', x) =>
               Has(requests, x) \/ (x.kind = "cancel" /\ halted' # {})
    OBVIOUS
  <2>7. waiting' = waiting \/ waiting' = NoAsk \/ Asked(waiting')  OBVIOUS
  <2>8. \A x, y \in WireType : Precedes(said, x, y) => x.kind = "chunk"  OBVIOUS
  <2> QED  BY ONLY MentorInv, Delivers(said), <2>1, <2>2, <2>3, <2>4, <2>5, <2>6, <2>7, <2>8,
              FlowKeeps
<1>11. LastBubble' /\ BubblesAsked' /\ BubblesApart'  BY <1>2, ClientSame
<1>12. HistoryHonest'  BY DEF MentorInv, HistoryHonest
<1>13. QED  BY <1>7, <1>8, <1>9, <1>10, <1>11, <1>12 DEF MentorInv

\* The tail of the requests: what was read is older than what is left.
LEMMA NextRequest ==
    ASSUME MentorInv, requests # <<>>, requests' = Tail(requests)
    PROVE  /\ Head(requests) \in RequestType /\ Has(requests, Head(requests))
           /\ requests' \in Seq(RequestType)
           /\ \A x \in RequestType : Has(requests', x) => Has(requests, x)
           /\ \A x, y \in RequestType : Precedes(requests', x, y) => Precedes(requests, x, y)
           /\ Head(requests).kind = "ask" =>
                 /\ Asked(Head(requests).ask)
                 /\ \A n \in Ask : Asked(n)' => Head(requests).ask < n
<1>1. requests \in Seq(RequestType)  BY WireTyped
<1>2. /\ Head(requests) \in RequestType /\ Head(requests) = requests[1]
      /\ requests' \in Seq(RequestType) /\ Len(requests') = Len(requests) - 1
      /\ \A i \in 1 .. Len(requests') : requests'[i] = requests[i + 1]
      /\ Len(requests) \in Nat /\ Len(requests) >= 1
  BY <1>1, HeadTailProperties, LenProperties, EmptySeq
<1> DEFINE h == Head(requests)
<1>3. /\ \A x : Has(requests', x) => Has(requests, x)
      /\ \A x, y : Precedes(requests', x, y) => Precedes(requests, x, y)
      /\ \A y : Has(requests', y) => Precedes(requests, requests[1], y)
      /\ Has(requests, requests[1])
  BY ONLY <1>2, TailOf
<1>4. ASSUME h.kind = "ask"
      PROVE  Asked(h.ask) /\ \A n \in Ask : Asked(n)' => h.ask < n
  <2>1. h = [kind |-> "ask", ask |-> h.ask]  BY <1>2, <1>4 DEF RequestType
  <2>2. Asked(h.ask)  BY <1>2, <1>3, <2>1 DEF Asked
  <2>3. ASSUME NEW n \in Ask, Asked(n)'  PROVE h.ask < n
    <3> DEFINE y == [kind |-> "ask", ask |-> n]
    <3>1. y \in RequestType /\ y.kind = "ask" /\ y.ask = n  BY DEF RequestType
    <3>2. Has(requests', y)  BY <2>3 DEF Asked
    <3>3. Precedes(requests, h, y)  BY <1>2, <1>3, <3>2
    <3> HIDE DEF y, h
    <3>4. h \in RequestType  BY <1>2 DEF h
    <3> QED  BY <1>4, <3>1, <3>3, <3>4 DEF MentorInv, AskOrder
  <2> QED  BY <2>2, <2>3
<1>5. QED  BY <1>2, <1>3, <1>4

LEMMA ReadAskKeeps == ASSUME MentorInv, ReadAsk  PROVE MentorInv'
<1>0. \E n : n = Head(requests).ask  OBVIOUS
<1> PICK n : n = Head(requests).ask  BY <1>0
<1> DEFINE x == Says("error", n)
<1>1. /\ requests # <<>> /\ requests' = Tail(requests) /\ Head(requests).kind = "ask"
      /\ waiting = NoAsk
  BY DEF ReadAsk, ReaderIdle
<1>2. /\ Head(requests) \in RequestType /\ Has(requests, Head(requests))
      /\ requests' \in Seq(RequestType)
      /\ \A z \in RequestType : Has(requests', z) => Has(requests, z)
      /\ \A z, y \in RequestType : Precedes(requests', z, y) => Precedes(requests, z, y)
      /\ Asked(n) /\ \A m \in Ask : Asked(m)' => n < m
  BY <1>1, NextRequest
<1>3. n \in Ask  BY <1>2 DEF RequestType
<1>4. n <= questions /\ reply[n].at = "none"
  <2>1. AskOrder  BY DEF MentorInv
  <2>2. n <= questions  BY <1>2, <2>1 DEF AskOrder
  <2>3. ~Launched(n)
    <3>1. \A m \in Ask : Launched(m) => m < n  BY <1>2, <1>3, <2>1 DEF AskOrder
    <3> QED  BY <1>3, <3>1, WireTyped
  <2> QED  BY <2>2, <2>3 DEF Launched
<1>5. /\ x \in WireType /\ x.kind = "error" /\ x.ask = n
  <2>1. "error" \in Kinds  BY DEF Kinds
  <2> QED  BY <1>3, <2>1, Sayings
<1>6. /\ failed' = failed /\ conn' = conn /\ noticed' = noticed /\ active' = active
      /\ reply' = reply /\ UNCHANGED <<history, clientVars>>
  BY DEF ReadAsk
<1>7. /\ reply' \in [Ask -> ReplyType] /\ failed' \subseteq Ask \cup {NoAsk}
      /\ conn' \in {"open", "closed", "gone"} /\ noticed' \in 0 .. MaxNotices
      /\ failed \subseteq failed'
  BY <1>6, WireTyped DEF MentorInv, MentorTypeOK
<1>8. CASE waiting' = n /\ UNCHANGED <<wire, dropped>>
  <2> DEFINE said == <<>>
  <2>1. Delivers(said) /\ (\A y : ~Has(said, y)) /\ \A y, z : ~Precedes(said, y, z)
    BY <1>8, SaysNothing, FewMessages
  <2>2. waiting' \in Ask /\ Asked(waiting') /\ \A m \in Ask : Asked(m)' => waiting' < m
    BY <1>2, <1>3, <1>8
  <2> HIDE DEF said
  <2> QED  BY ONLY MentorInv, <1>2, <1>6, <1>7, <2>1, <2>2, ServerKeeps
<1>9. CASE Send(<<x>>) /\ UNCHANGED waiting
  <2>1. PICK said : /\ Delivers(said)
                    /\ \A y : Has(said, y) => y = x
                    /\ \A y, z : ~Precedes(said, y, z)
    <3> HIDE DEF x
    <3> QED  BY <1>3, <1>5, <1>9, SendOne
  <2>2. ~Settled(n)  BY <1>2 DEF Settled
  <2>3. Settled(n)'
    <3>1. ~Asked(n)'
      <4>1. Asked(n)' => n < n  BY <1>2, <1>3
      <4>2. ~(n < n)
        <5>1. n \in Nat  BY <1>3, WireTyped
        <5> QED  BY ONLY <5>1
      <4> QED  BY <4>1, <4>2
    <3>2. waiting' # n
      <4>1. n # NoAsk  BY <1>3, WireTyped
      <4> QED  BY <1>1, <1>9, <4>1
    <3>3. reply'[n].at = "none"  BY <1>4, <1>6
    <3> QED  BY <3>1, <3>2, <3>3 DEF Settled
  <2>4. ASSUME NEW y \in WireType, Has(said, y)
        PROVE  /\ y.kind \notin {"start", "chunk", "end"}
               /\ y.kind = "notice" \/ (y.ask \in Ask /\ y.ask <= questions)
               /\ halted = {} /\ y.ask \in Ask => ~Settled(y.ask)
               /\ halted = {} /\ y.kind \in Closing => Settled(y.ask)'
    <3>1. y = x  BY <2>1, <2>4
    <3>2. y.ask = n /\ y.kind = "error"  BY <1>5, <3>1
    <3>3. Settled(y.ask)'  BY <2>3, <3>2 DEF Settled
    <3> QED  BY <1>3, <1>4, <2>2, <3>2, <3>3
  <2>5. waiting' = waiting  BY <1>9
  <2> HIDE DEF x
  <2> QED  BY ONLY MentorInv, <1>2, <1>6, <1>7, <2>1, <2>4, <2>5, ServerKeeps
<1>10. QED  BY <1>8, <1>9 DEF ReadAsk, Refusal

LEMMA ReadCancelKeeps == ASSUME MentorInv, ReadCancel  PROVE MentorInv'
<1> DEFINE c == Cancelled(active)
           x == Says("cancelled", active)
<1>1. /\ requests # <<>> /\ requests' = Tail(requests) /\ Head(requests).kind = "cancel"
      /\ reply' = c
  BY DEF ReadCancel
<1>2. /\ Head(requests) \in RequestType /\ Has(requests, Head(requests))
      /\ requests' \in Seq(RequestType)
      /\ \A z \in RequestType : Has(requests', z) => Has(requests, z)
      /\ \A z, y \in RequestType : Precedes(requests', z, y) => Precedes(requests, z, y)
  BY <1>1, NextRequest
<1>3. halted # {}  BY <1>1, <1>2 DEF MentorInv, Undisturbed
<1>4. /\ c \in [Ask -> ReplyType]
      /\ \A k \in Ask :
            /\ c[k].at = reply[k].at /\ c[k].pieces = reply[k].pieces
            /\ reply[k].cancelled => c[k].cancelled
  <2>1. active \in Ask \cup {NoAsk}  BY WireTyped
  <2> QED  BY <2>1, CancelledTask
<1>5. /\ failed' = failed /\ conn' = conn /\ noticed' = noticed /\ active' = active
      /\ waiting' = waiting /\ UNCHANGED <<history, clientVars>>
  BY DEF ReadCancel
<1>6. /\ failed' \subseteq Ask \cup {NoAsk}
      /\ conn' \in {"open", "closed", "gone"} /\ noticed' \in 0 .. MaxNotices
      /\ failed \subseteq failed'
  BY <1>5 DEF MentorInv, MentorTypeOK
<1>7. PICK said : /\ Delivers(said)
                  /\ \A y : Has(said, y) => active \in Ask /\ y = x
                  /\ \A y, z : ~Precedes(said, y, z)
  <2>1. CASE active # NoAsk /\ Live(active)
    <3>1. active \in Ask /\ Send(<<x>>)  BY <2>1, WireTyped DEF ReadCancel
    <3>2. "cancelled" \in Kinds  BY DEF Kinds
    <3>3. x \in WireType /\ x.ask = active  BY <3>1, <3>2, Sayings
    <3> HIDE DEF x
    <3> QED  BY <3>1, <3>3, SendOne
  <2>2. CASE ~(active # NoAsk /\ Live(active))
    <3>1. Delivers(<<>>)  BY <2>2, SaysNothing DEF ReadCancel
    <3> QED  BY <3>1, FewMessages
  <2> QED  BY <2>1, <2>2
<1>8. ASSUME NEW y \in WireType, Has(said, y)
      PROVE  /\ y.kind \notin {"start", "chunk", "end"}
             /\ y.kind = "notice" \/ (y.ask \in Ask /\ y.ask <= questions)
  <2>1. active \in Ask /\ y.kind = "cancelled" /\ y.ask = active
    BY <1>7, <1>8, Sayings DEF Says
  <2>2. active <= questions  BY DEF MentorInv, AskOrder
  <2> QED  BY <2>1, <2>2
<1>9. \A k \in Ask :
         /\ reply'[k].at = reply[k].at /\ reply'[k].pieces = reply[k].pieces
         /\ reply[k].cancelled => reply'[k].cancelled
  BY <1>1, <1>4
<1>10. reply' \in [Ask -> ReplyType]  BY <1>1, <1>4
<1>11. ASSUME NEW y \in WireType, Has(said, y)
       PROVE  /\ y.kind \notin {"start", "chunk", "end"}
              /\ y.kind = "notice" \/ (y.ask \in Ask /\ y.ask <= questions)
              /\ halted = {} /\ y.ask \in Ask => ~Settled(y.ask)
              /\ halted = {} /\ y.kind \in Closing => Settled(y.ask)'
  BY <1>3, <1>8, <1>11
<1> QED  BY ONLY MentorInv, <1>2, <1>5, <1>6, <1>7, <1>9, <1>10, <1>11, ServerKeeps

LEMMA HangUpKeeps == ASSUME MentorInv, HangUp  PROVE MentorInv'
<1> DEFINE c == Cancelled(active)
           said == <<>>
<1>1. requests' = <<>> /\ reply' = c /\ active' = NoAsk /\ conn' = "gone"
  BY DEF HangUp
<1>2. /\ c \in [Ask -> ReplyType]
      /\ \A k \in Ask :
            /\ c[k].at = reply[k].at /\ c[k].pieces = reply[k].pieces
            /\ reply[k].cancelled => c[k].cancelled
            /\ Live(k) /\ k = active => c[k].cancelled
  <2>1. active \in Ask \cup {NoAsk}  BY WireTyped
  <2> QED  BY <2>1, CancelledTask
<1>3. /\ failed' = failed /\ noticed' = noticed
      /\ waiting' = waiting /\ UNCHANGED <<history, clientVars>>
  BY DEF HangUp
<1>4. /\ failed' \subseteq Ask \cup {NoAsk}
      /\ conn' \in {"open", "closed", "gone"} /\ noticed' \in 0 .. MaxNotices
      /\ failed \subseteq failed'
  BY <1>1, <1>3 DEF MentorInv, MentorTypeOK
<1>5. Delivers(said) /\ (\A y : ~Has(said, y)) /\ \A y, z : ~Precedes(said, y, z)
  BY SaysNothing, FewMessages DEF HangUp
<1>6. \A k \in Ask :
         /\ reply'[k].at = reply[k].at /\ reply'[k].pieces = reply[k].pieces
         /\ reply[k].cancelled => reply'[k].cancelled
  BY <1>1, <1>2
<1>7. reply' \in [Ask -> ReplyType]  BY <1>1, <1>2
<1>8. ASSUME NEW k \in Ask, Live(k)  PROVE reply'[k].cancelled
  <2>1. ~reply[k].cancelled => k = active  BY <1>8 DEF MentorInv, Tasks
  <2> QED  BY <1>1, <1>2, <1>8, <2>1
<1>9. /\ requests' \in Seq(RequestType)
      /\ \A z \in RequestType : Has(requests', z) => Has(requests, z)
      /\ \A z, y \in RequestType : Precedes(requests', z, y) => Precedes(requests, z, y)
  BY <1>1, EmptySeq, FewMessages
<1> HIDE DEF said
<1> QED  BY ONLY MentorInv, <1>1, <1>3, <1>4, <1>5, <1>6, <1>7, <1>8, <1>9, ServerKeeps

\* The requests and the tasks are left alone.
LEMMA QuietServer ==
    ASSUME MentorInv, UNCHANGED <<requests, reply>>
    PROVE  /\ reply' \in [Ask -> ReplyType] /\ requests' \in Seq(RequestType)
           /\ \A k \in Ask :
                 /\ reply'[k].at = reply[k].at /\ reply'[k].pieces = reply[k].pieces
                 /\ reply[k].cancelled => reply'[k].cancelled
           /\ \A x \in RequestType : Has(requests', x) => Has(requests, x)
           /\ \A x, y \in RequestType : Precedes(requests', x, y) => Precedes(requests, x, y)
  BY WireTyped

LEMMA FailKeeps == ASSUME MentorInv, Fail  PROVE MentorInv'
<1> DEFINE said == <<>>
<1>1. /\ UNCHANGED <<requests, wire, dropped, noticed, waiting, active, reply, history,
                      clientVars>>
      /\ conn' = "closed" /\ failed' = failed \cup {NoAsk}
  BY DEF Fail, serverVars
<1>2. Delivers(said) /\ (\A y : ~Has(said, y)) /\ \A y, z : ~Precedes(said, y, z)
  BY <1>1, SaysNothing, FewMessages
<1>3. /\ failed' \subseteq Ask \cup {NoAsk}
      /\ conn' \in {"open", "closed", "gone"} /\ noticed' \in 0 .. MaxNotices
      /\ failed \subseteq failed'
  BY <1>1 DEF MentorInv, MentorTypeOK
<1>4. UNCHANGED <<requests, reply, waiting, active, history, clientVars>>  BY <1>1
<1>5. /\ reply' \in [Ask -> ReplyType] /\ requests' \in Seq(RequestType)
      /\ \A k \in Ask :
            /\ reply'[k].at = reply[k].at /\ reply'[k].pieces = reply[k].pieces
            /\ reply[k].cancelled => reply'[k].cancelled
      /\ \A x \in RequestType : Has(requests', x) => Has(requests, x)
      /\ \A x, y \in RequestType : Precedes(requests', x, y) => Precedes(requests, x, y)
  BY <1>4, QuietServer
<1> HIDE DEF said
<1> QED  BY ONLY MentorInv, <1>2, <1>3, <1>4, <1>5, ServerKeeps

LEMMA NoticeKeeps == ASSUME MentorInv, Notice  PROVE MentorInv'
<1> DEFINE x == Says("notice", NoAsk)
<1>1. /\ UNCHANGED <<requests, conn, failed, waiting, active, reply, history, clientVars>>
      /\ noticed' = noticed + 1 /\ noticed < MaxNotices /\ Send(<<x>>)
  BY DEF Notice, serverVars
<1>2. /\ failed' \subseteq Ask \cup {NoAsk}
      /\ conn' \in {"open", "closed", "gone"} /\ noticed' \in 0 .. MaxNotices
      /\ failed \subseteq failed'
  BY <1>1, MentorAssumption DEF MentorInv, MentorTypeOK
<1>3. x \in WireType /\ x.kind = "notice" /\ x.ask = NoAsk  BY DEF Says, WireType, Kinds
<1>4. PICK said : /\ Delivers(said)
                  /\ \A y : Has(said, y) => y = x
                  /\ \A y, z : ~Precedes(said, y, z)
  <2> HIDE DEF x
  <2> QED  BY <1>1, <1>3, SendOne
<1>5. ASSUME NEW y \in WireType, Has(said, y)
      PROVE  /\ y.kind \notin {"start", "chunk", "end"}
             /\ y.kind = "notice" \/ (y.ask \in Ask /\ y.ask <= questions)
             /\ halted = {} /\ y.ask \in Ask => ~Settled(y.ask)
             /\ halted = {} /\ y.kind \in Closing => Settled(y.ask)'
  <2>1. y.kind = "notice" /\ y.ask = NoAsk  BY <1>3, <1>4, <1>5
  <2>2. y.ask \notin Ask  BY <2>1, WireTyped
  <2> QED  BY <2>1, <2>2 DEF Closing
<1>6. UNCHANGED <<requests, reply, waiting, active, history, clientVars>>  BY <1>1
<1>7. /\ reply' \in [Ask -> ReplyType] /\ requests' \in Seq(RequestType)
      /\ \A k \in Ask :
            /\ reply'[k].at = reply[k].at /\ reply'[k].pieces = reply[k].pieces
            /\ reply[k].cancelled => reply'[k].cancelled
      /\ \A z \in RequestType : Has(requests', z) => Has(requests, z)
      /\ \A z, y \in RequestType : Precedes(requests', z, y) => Precedes(requests, z, y)
  BY <1>6, QuietServer
<1> HIDE DEF x
<1> QED  BY ONLY MentorInv, <1>2, <1>4, <1>5, <1>6, <1>7, ServerKeeps

LEMMA LaunchKeeps == ASSUME MentorInv, Launch  PROVE MentorInv'
<1>0. \E w : w = waiting  OBVIOUS
<1> PICK w : w = waiting  BY <1>0
<1> DEFINE c == Cancelled(active)
           said == <<>>
<1>1. /\ w # NoAsk /\ reply' = [c EXCEPT ![w].at = "created"] /\ active' = w
      /\ waiting' = NoAsk
      /\ UNCHANGED <<requests, wire, dropped, conn, history, noticed, failed>>
      /\ UNCHANGED <<streaming, online, transcript, questions, halted>>
  BY DEF Launch, clientVars
<1>2. /\ w \in Ask /\ questions \in Nat /\ active \in Ask \cup {NoAsk}
      /\ \A m \in Ask : m \in Nat /\ m # NoAsk /\ m >= 1
      /\ reply \in [Ask -> ReplyType] /\ requests \in Seq(RequestType)
  BY <1>1, WireTyped
<1>3. /\ c \in [Ask -> ReplyType]
      /\ \A k \in Ask :
            /\ c[k].at = reply[k].at /\ c[k].pieces = reply[k].pieces
            /\ reply[k].cancelled => c[k].cancelled
            /\ Live(k) /\ k = active => c[k].cancelled
  BY <1>2, CancelledTask
<1>4. /\ reply' \in [Ask -> ReplyType]
      /\ reply'[w].at = "created" /\ reply'[w].pieces = c[w].pieces
      /\ \A k \in Ask : k # w => reply'[k] = c[k]
  <2> HIDE DEF c
  <2>1. c[w] \in ReplyType  BY <1>2, <1>3
  <2> QED  BY <1>1, <1>2, <1>3, <2>1 DEF ReplyType
<1>5. AskOrder /\ Tasks  BY DEF MentorInv
<1>6. w <= questions /\ (\A m \in Ask : Launched(m) => m < w)
      /\ (\A n \in Ask : Asked(n) => w < n)
  BY <1>1, <1>5 DEF AskOrder
<1>7. \A n \in Ask : Asked(n)' <=> Asked(n)  BY <1>1 DEF Asked
<1>8. \A m \in Ask : Launched(m)' <=> (Launched(m) \/ m = w)
  BY <1>3, <1>4 DEF Launched
<1>9. reply[w].at = "none"
  <2>1. ~Launched(w)
    <3>1. Launched(w) => w < w  BY <1>2, <1>6
    <3>2. w \in Nat  BY <1>2
    <3>3. ~(w < w)  BY ONLY <3>2
    <3> QED  BY <3>1, <3>3
  <2> QED  BY <2>1 DEF Launched
<1>10. MentorTypeOK'
  BY <1>1, <1>2, <1>4 DEF MentorInv, MentorTypeOK, ReplyType
<1>11. AskOrder'
  <2>1. \A n \in Ask : Asked(n)' => waiting' < n /\ \A m \in Ask : Launched(m)' => m < n
    <3> SUFFICES ASSUME NEW n \in Ask, Asked(n)'
                 PROVE  waiting' < n /\ \A m \in Ask : Launched(m)' => m < n
      OBVIOUS
    <3>1. w < n /\ \A m \in Ask : Launched(m) => m < n  BY <1>5, <1>6, <1>7 DEF AskOrder
    <3>2. 0 < n  BY <1>2
    <3> QED  BY <1>1, <1>8, <3>1, <3>2 DEF NoAsk
  <2>2. waiting' <= questions' /\ active' <= questions'  BY <1>1, <1>2, <1>6 DEF NoAsk
  <2>3. \A m \in Ask : Launched(m)' => m <= questions'  BY <1>1, <1>5, <1>6, <1>8 DEF AskOrder
  <2> HIDE DEF Launched, Asked
  <2> QED  BY <1>1, <1>5, <2>1, <2>2, <2>3 DEF AskOrder
<1>12. Tasks'
  <2> SUFFICES ASSUME NEW n \in Ask
               PROVE  /\ Live(n)' /\ ~reply'[n].cancelled =>
                            active' = n /\ \A k \in Ask : Launched(k)' => k <= n
                      /\ reply'[n].at \in {"none", "created", "streaming"} =>
                            reply'[n].pieces < Pieces
                      /\ reply'[n].at = "saving" => reply'[n].pieces >= 1
                            /\ (reply'[n].pieces = Pieces \/ n \in failed')
    BY DEF Tasks
  <2>1. CASE n = w
    <3>1. \A k \in Ask : Launched(k)' => k <= n  BY <1>2, <1>6, <1>8, <2>1
    <3>2. reply'[n].pieces < Pieces
      <4>1. reply[w].pieces < Pieces  BY <1>2, <1>5, <1>9 DEF Tasks
      <4> QED  BY <1>2, <1>3, <1>4, <2>1, <4>1
    <3> QED  BY <1>1, <1>4, <2>1, <3>1, <3>2
  <2>2. CASE n # w
    <3>1. reply'[n].at = reply[n].at /\ reply'[n].pieces = reply[n].pieces
      BY <1>3, <1>4, <2>2
    <3>2. ASSUME Live(n)', ~reply'[n].cancelled  PROVE FALSE
      <4>1. Live(n)  BY <3>1, <3>2 DEF Live
      <4>2. ~c[n].cancelled  BY <1>4, <2>2, <3>2
      <4>3. ~reply[n].cancelled /\ n # active  BY <1>3, <4>1, <4>2
      <4> QED  BY <1>5, <4>1, <4>3 DEF Tasks
    <3>3. /\ reply[n].at \in {"none", "created", "streaming"} => reply[n].pieces < Pieces
          /\ reply[n].at = "saving" => reply[n].pieces >= 1
                /\ (reply[n].pieces = Pieces \/ n \in failed)
      BY <1>5 DEF Tasks
    <3>4. failed' = failed  BY <1>1
    <3> QED  BY <3>1, <3>2, <3>3, <3>4
  <2> QED  BY <2>1, <2>2
<1>13. Delivers(said) /\ (\A y : ~Has(said, y)) /\ \A y, z : ~Precedes(said, y, z)
  BY <1>1, SaysNothing, FewMessages
<1>14. WireRight' /\ EarlierOver' /\ Undisturbed'
  <2>1. \A m \in Ask : reply'[m].at \in {"created", "streaming"} =>
               \/ waiting = m
               \/ /\ reply[m].at \in {"created", "streaming"}
                  /\ reply[m].cancelled => reply'[m].cancelled
    BY <1>3, <1>4
  <2>2. \A m \in Ask : Launched(m) => Launched(m)'  BY <1>8
  <2>3. halted \subseteq halted' /\ questions' = questions /\ (halted' = {} /\ ~streaming' =>
               ~streaming \/ \A m \in Ask : m = questions => Gone(m)')
    BY <1>1
  <2>4. \A x \in RequestType : Has(requests', x) =>
               Has(requests, x) \/ (x.kind = "cancel" /\ halted' # {})
    BY <1>1
  <2>5. waiting' = waiting \/ waiting' = NoAsk \/ Asked(waiting')  BY <1>1
  <2> HIDE DEF said
  <2> QED  BY ONLY MentorInv, <1>13, <2>1, <2>2, <2>3, <2>4, <2>5, FlowKeeps
<1>15. LastBubble' /\ BubblesAsked' /\ BubblesApart'  BY <1>1, ClientSame
<1>16. HistoryHonest'  BY <1>1 DEF MentorInv, HistoryHonest
<1>17. QED  BY <1>10, <1>11, <1>12, <1>14, <1>15, <1>16 DEF MentorInv

-----------------------------------------------------------------------------
(* Mentor: the client *)

\* A queue with one more element.
LEMMA OneMore ==
    ASSUME NEW q, NEW x, NEW r, Len(q) \in Nat, Len(r) = Len(q) + 1, r[Len(r)] = x,
           \A i \in 1 .. Len(q) : r[i] = q[i]
    PROVE  /\ \A y : Has(r, y) => Has(q, y) \/ y = x
           /\ \A y, z : Precedes(r, y, z) => Precedes(q, y, z) \/ (z = x /\ Has(q, y))
<1>1. Len(r) = Len(q) + 1 /\ r[Len(r)] = x /\ Len(q) \in Nat /\ \A i \in 1 .. Len(q) : r[i] = q[i]
  OBVIOUS
<1>2. \A i \in 1 .. Len(r) : (i \in 1 .. Len(q) /\ r[i] = q[i]) \/ (i = Len(r) /\ r[i] = x)
  BY <1>1
<1>3. \A y : Has(r, y) => Has(q, y) \/ y = x  BY <1>2 DEF Has
<1>4. ASSUME NEW y, NEW z, Precedes(r, y, z)
      PROVE  Precedes(q, y, z) \/ (z = x /\ Has(q, y))
  <2>1. PICK i \in 1 .. Len(r), j \in 1 .. Len(r) : i < j /\ r[i] = y /\ r[j] = z
    BY <1>4 DEF Precedes
  <2>2. i \in 1 .. Len(q) /\ r[i] = q[i]  BY <1>1, <1>2, <2>1
  <2>3. CASE j \in 1 .. Len(q) /\ r[j] = q[j]  BY <2>1, <2>2, <2>3 DEF Precedes
  <2>4. CASE r[j] = x  BY <2>1, <2>2, <2>4 DEF Has
  <2> QED  BY <1>2, <2>1, <2>3, <2>4
<1>5. QED  BY <1>3, <1>4

\* The server is not told of what the client does in these steps, but for a cancel.
LEMMA ServerSame ==
    ASSUME MentorInv, UNCHANGED <<conn, noticed, failed, serverVars>>, questions' = questions,
           halted \subseteq halted', \A k \in halted' : k <= questions,
           requests' \in Seq(RequestType),
           \A x \in RequestType : Has(requests', x) =>
               Has(requests, x) \/ (x.kind = "cancel" /\ halted' # {} /\ x.ask <= questions),
           \A x, y \in RequestType : Precedes(requests', x, y) =>
               Precedes(requests, x, y) \/ y.kind = "cancel",
           Delivers(<<>>),
           halted' = {} /\ ~streaming' =>
               ~streaming \/ \A m \in Ask : m = questions => Gone(m)',
           streaming' \/ transcript' # <<>> => questions >= 1
    PROVE  AskOrder' /\ Tasks' /\ WireRight' /\ EarlierOver' /\ Undisturbed' /\ HistoryHonest'
<1> DEFINE said == <<>>
<1>1. UNCHANGED <<waiting, active, reply, history, failed>>  BY DEF serverVars
<1>2. \A n \in Ask : [kind |-> "ask", ask |-> n] \in RequestType  BY DEF RequestType
<1>3. ASSUME NEW n \in Ask, Asked(n)'  PROVE Asked(n)
  <2>1. Has(requests', [kind |-> "ask", ask |-> n])  BY <1>3 DEF Asked
  <2>2. [kind |-> "ask", ask |-> n].kind # "cancel"  OBVIOUS
  <2> QED  BY <1>2, <2>1, <2>2 DEF Asked
<1>4. \A m \in Ask : (Launched(m)' <=> Launched(m)) /\ (Live(m)' <=> Live(m))
  BY <1>1 DEF Launched, Live
<1>5. AskOrder'
  <2>1. AskOrder  BY DEF MentorInv
  <2>2. \A x \in RequestType : Has(requests', x) => x.ask <= questions'
    BY <2>1 DEF AskOrder
  <2>3. \A x, y \in RequestType :
          Precedes(requests', x, y) /\ x.kind = "ask" /\ y.kind = "ask" => x.ask < y.ask
    <3>1. "ask" # "cancel"  OBVIOUS
    <3> QED  BY <2>1, <3>1 DEF AskOrder
  <2> HIDE DEF Asked, Launched
  <2> QED  BY <1>1, <1>3, <1>4, <2>1, <2>2, <2>3 DEF AskOrder
<1>6. Tasks'  BY <1>1, <1>4 DEF MentorInv, Tasks
<1>7. Delivers(said) /\ (\A y : ~Has(said, y)) /\ \A y, z : ~Precedes(said, y, z)
  BY FewMessages
<1>8. WireRight' /\ EarlierOver' /\ Undisturbed'
  <2>1. \A m \in Ask : reply'[m].at \in {"created", "streaming"} =>
               \/ waiting = m
               \/ /\ reply[m].at \in {"created", "streaming"}
                  /\ reply[m].cancelled => reply'[m].cancelled
    BY <1>1
  <2>2. \A m \in Ask : Launched(m) => Launched(m)'  BY <1>4
  <2>3. halted \subseteq halted' /\ questions' = questions /\ (halted' = {} /\ ~streaming' =>
               ~streaming \/ \A m \in Ask : m = questions => Gone(m)')
    OBVIOUS
  <2>4. \A x \in RequestType : Has(requests', x) =>
               Has(requests, x) \/ (x.kind = "cancel" /\ halted' # {})
    OBVIOUS
  <2>5. waiting' = waiting \/ waiting' = NoAsk \/ Asked(waiting')  BY <1>1
  <2> HIDE DEF said
  <2> QED  BY ONLY MentorInv, <1>7, <2>1, <2>2, <2>3, <2>4, <2>5, FlowKeeps
<1>9. HistoryHonest'  BY <1>1 DEF MentorInv, HistoryHonest
<1>10. QED  BY <1>5, <1>6, <1>8, <1>9

\* A cancel joins the requests, or nothing does.
LEMMA CancelRequested ==
    ASSUME MentorInv, questions \in Ask, RequestCancel \/ UNCHANGED requests,
           halted' # {}
    PROVE  /\ requests' \in Seq(RequestType)
           /\ \A x \in RequestType : Has(requests', x) =>
                 Has(requests, x) \/ (x.kind = "cancel" /\ halted' # {} /\ x.ask <= questions)
           /\ \A x, y \in RequestType : Precedes(requests', x, y) =>
                 Precedes(requests, x, y) \/ y.kind = "cancel"
<1>1. requests \in Seq(RequestType) /\ questions \in Nat  BY WireTyped
<1>2. CASE requests' = requests  BY <1>1, <1>2
<1>3. CASE requests' # requests
  <2> DEFINE c == [kind |-> "cancel", ask |-> questions]
  <2>1. c \in RequestType /\ c.kind = "cancel" /\ c.ask = questions  BY DEF RequestType
  <2>2. requests' = Append(requests, c)  BY <1>3 DEF RequestCancel
  <2> HIDE DEF c
  <2>3. /\ requests' \in Seq(RequestType)
        /\ \A y : Has(requests', y) => Has(requests, y) \/ y = c
        /\ \A y, z : Precedes(requests', y, z) =>
              Precedes(requests, y, z) \/ (z = c /\ Has(requests, y))
    <3>1. requests' \in Seq(RequestType) /\ Len(requests) \in Nat
          /\ Len(requests') = Len(requests) + 1 /\ requests'[Len(requests')] = c
          /\ \A i \in 1 .. Len(requests) : requests'[i] = requests[i]
      BY <1>1, <2>1, <2>2, AppendProperties, LenProperties
    <3> QED  BY ONLY <3>1, OneMore
  <2> QED  BY <1>1, <2>1, <2>3
<1>4. QED  BY <1>2, <1>3

\* A reply is stopped, or the chat reset, only after a question.
LEMMA HaltedAsked ==
    ASSUME MentorInv, streaming \/ transcript # <<>>
    PROVE  questions \in Ask /\ questions >= 1
<1>1. questions >= 1  BY DEF MentorInv, AskOrder
<1>2. questions \in 0 .. MaxAsks /\ MaxAsks \in Nat
  BY MentorAssumption DEF MentorInv, MentorTypeOK
<1>3. QED  BY <1>1, <1>2 DEF Ask

LEMMA SendCancelKeeps == ASSUME MentorInv, SendCancel  PROVE MentorInv'
<1>1. /\ UNCHANGED <<online, transcript, questions, wire, dropped, conn, noticed, failed,
                      serverVars>>
      /\ streaming /\ streaming' = FALSE /\ halted' = halted \cup {questions}
  BY DEF SendCancel
<1>2. questions \in Ask /\ questions >= 1  BY <1>1, HaltedAsked
<1>3. halted \subseteq halted' /\ halted' # {} /\ \A k \in halted' : k <= questions
  BY <1>1, <1>2, WireTyped DEF MentorInv, AskOrder
<1>4. /\ requests' \in Seq(RequestType)
      /\ \A x \in RequestType : Has(requests', x) =>
            Has(requests, x) \/ (x.kind = "cancel" /\ halted' # {} /\ x.ask <= questions)
      /\ \A x, y \in RequestType : Precedes(requests', x, y) =>
            Precedes(requests, x, y) \/ y.kind = "cancel"
  BY <1>2, <1>3, CancelRequested DEF SendCancel
<1>5. Delivers(<<>>)  BY <1>1, SaysNothing
<1>6. AskOrder' /\ Tasks' /\ WireRight' /\ EarlierOver' /\ Undisturbed' /\ HistoryHonest'
  BY ONLY MentorInv, <1>1, <1>2, <1>3, <1>4, <1>5, ServerSame
<1>7. LastBubble' /\ BubblesAsked' /\ BubblesApart'  BY <1>1, <1>3, ClientSame
<1>8. MentorTypeOK'
  BY <1>1, <1>2, <1>4 DEF MentorInv, MentorTypeOK, serverVars, RequestType
<1>9. QED  BY <1>6, <1>7, <1>8 DEF MentorInv

LEMMA ResetKeeps == ASSUME MentorInv, Reset  PROVE MentorInv'
<1>1. /\ UNCHANGED <<online, questions, wire, dropped, conn, noticed, failed, serverVars>>
      /\ transcript # <<>> /\ streaming' = FALSE /\ transcript' = <<>>
      /\ halted' = halted \cup {questions}
  BY DEF Reset
<1>2. questions \in Ask /\ questions >= 1  BY <1>1, HaltedAsked
<1>3. halted \subseteq halted' /\ halted' # {} /\ \A k \in halted' : k <= questions
  BY <1>1, <1>2, WireTyped DEF MentorInv, AskOrder
<1>4. /\ requests' \in Seq(RequestType)
      /\ \A x \in RequestType : Has(requests', x) =>
            Has(requests, x) \/ (x.kind = "cancel" /\ halted' # {} /\ x.ask <= questions)
      /\ \A x, y \in RequestType : Precedes(requests', x, y) =>
            Precedes(requests, x, y) \/ y.kind = "cancel"
  BY <1>2, <1>3, CancelRequested DEF Reset
<1>5. Delivers(<<>>)  BY <1>1, SaysNothing
<1>6. AskOrder' /\ Tasks' /\ WireRight' /\ EarlierOver' /\ Undisturbed' /\ HistoryHonest'
  BY ONLY MentorInv, <1>1, <1>2, <1>3, <1>4, <1>5, ServerSame
<1>7. Len(transcript') = 0 /\ \A S : transcript' \in Seq(S)  BY <1>1, EmptySeq
<1>8. LastBubble' /\ BubblesAsked' /\ BubblesApart'
  BY <1>7 DEF LastBubble, BubblesAsked, BubblesApart
<1>9. MentorTypeOK'
  BY <1>1, <1>2, <1>4, <1>7 DEF MentorInv, MentorTypeOK, serverVars, RequestType
<1>10. QED  BY <1>6, <1>8, <1>9 DEF MentorInv

BubbleType == [role : {"user", "mentor"}, asks : SUBSET Ask]

\* A piece joins the last message if that is the mentor's.
LEMMA AppendedPiece ==
    ASSUME MentorInv, NEW a \in Ask, NEW t, t = Appended(a)
    PROVE  /\ t \in Seq(BubbleType) /\ Len(t) \in Nat
           /\ \A i \in 1 .. Len(t) :
                 \/ i \in 1 .. Len(transcript) /\ t[i] = transcript[i] /\ i # Len(t)
                 \/ /\ i = Len(t)
                    /\ \/ t[i].asks = {a}
                       \/ /\ Len(transcript) > 0 /\ transcript[Len(transcript)].role = "mentor"
                          /\ t[i].asks = transcript[Len(transcript)].asks \cup {a}
<1>1. transcript \in Seq(BubbleType)  BY DEF MentorInv, MentorTypeOK, BubbleType
<1>2. Len(transcript) \in Nat  BY <1>1, LenProperties
<1>3. PICK last : last = Len(transcript)  OBVIOUS
<1>4. CASE last > 0 /\ transcript[last].role = "mentor"
  <2>1. t = [transcript EXCEPT ![last].asks = @ \cup {a}]  BY <1>3, <1>4 DEF Appended
  <2>2. last \in 1 .. Len(transcript) /\ transcript[last] \in BubbleType
    BY <1>1, <1>2, <1>3, <1>4, ElementOfSeq
  <2> DEFINE b == [transcript[last] EXCEPT !.asks = transcript[last].asks \cup {a}]
  <2>3. b \in BubbleType /\ b.asks = transcript[last].asks \cup {a}  BY <2>2 DEF BubbleType
  <2>4. t = [transcript EXCEPT ![last] = b]  BY <2>1, <2>2 DEF BubbleType
  <2> HIDE DEF b
  <2>5. /\ t \in Seq(BubbleType) /\ Len(t) = last /\ t[last] = b
        /\ \A i \in 1 .. last : i # last => t[i] = transcript[i]
    BY <1>1, <1>3, <2>2, <2>3, <2>4, ExceptSeq
  <2> QED  BY <1>2, <1>3, <1>4, <2>3, <2>5
<1>5. CASE ~(last > 0 /\ transcript[last].role = "mentor")
  <2> DEFINE b == [role |-> "mentor", asks |-> {a}]
  <2>1. b \in BubbleType /\ b.asks = {a}  BY DEF BubbleType
  <2>2. t = Append(transcript, b)  BY <1>3, <1>5 DEF Appended
  <2> HIDE DEF b
  <2>3. /\ t \in Seq(BubbleType) /\ Len(t) = last + 1 /\ t[Len(t)] = b
        /\ \A i \in 1 .. last : t[i] = transcript[i]
    BY <1>1, <1>3, <2>1, <2>2, AppendProperties
  <2>4. \A i \in 1 .. Len(t) : i \in 1 .. last \/ i = Len(t)  BY <1>2, <1>3, <2>3
  <2>5. \A i \in 1 .. last : i # Len(t)  BY <1>2, <1>3, <2>3
  <2> QED  BY <1>2, <1>3, <2>1, <2>3, <2>4, <2>5
<1>6. QED  BY <1>4, <1>5

LEMMA ReceiveKeeps == ASSUME MentorInv, Receive  PROVE MentorInv'
<1>0. \E m : m = Head(wire)  OBVIOUS
<1> PICK m : m = Head(wire)  BY <1>0
<1>1. /\ UNCHANGED <<requests, dropped, conn, noticed, failed, online, questions, halted,
                      serverVars>>
      /\ wire # <<>> /\ wire' = Tail(wire)
      /\ transcript' = IF m.kind = "chunk" THEN Appended(m.ask) ELSE transcript
      /\ streaming' = CASE m.kind = "start" -> TRUE
                        [] m.kind \in Closing -> FALSE
                        [] OTHER -> streaming
  BY DEF Receive
<1>2. /\ wire \in Seq(WireType) /\ Len(wire) \in Nat /\ Len(wire) <= QueueSize
      /\ dropped \subseteq [kind : Closing, ask : Ask] /\ questions \in Nat
      /\ requests \in Seq(RequestType)
      /\ \A n \in Ask : n \in Nat /\ n # NoAsk /\ n >= 1
  BY WireTyped
<1>3. /\ m \in WireType /\ m = wire[1] /\ Len(wire) >= 1
      /\ wire' \in Seq(WireType) /\ Len(wire') = Len(wire) - 1
      /\ \A i \in 1 .. Len(wire') : wire'[i] = wire[i + 1]
  BY <1>1, <1>2, HeadTailProperties, EmptySeq
<1>4. /\ \A x : Has(wire', x) => Has(wire, x)
      /\ \A x, y : Precedes(wire', x, y) => Precedes(wire, x, y)
      /\ \A y : Has(wire', y) => Precedes(wire, m, y)
      /\ Has(wire, m)
  BY ONLY <1>2, <1>3, TailOf
<1>5. Delivers(<<>>)
  <2>1. Len(wire') <= QueueSize  BY <1>2, <1>3, MentorAssumption
  <2> QED  BY <1>1, <1>2, <1>3, <1>4, <2>1 DEF Delivers
<1>6. m.kind # "notice" => m.ask \in Ask /\ m.ask <= questions
  BY <1>3, <1>4 DEF MentorInv, WireRight
<1>7. AskOrder' /\ Tasks' /\ WireRight' /\ EarlierOver' /\ Undisturbed' /\ HistoryHonest'
  <2>1. ASSUME halted' = {}, ~streaming'
        PROVE  ~streaming \/ \A k \in Ask : k = questions => Gone(k)'
    <3>1. CASE m.kind \in Closing
      <4>1. /\ m.ask = questions /\ Settled(questions)
            /\ \A y \in WireType : Precedes(wire, m, y) => y.ask # questions
        BY <1>1, <1>3, <1>4, <2>1, <3>1 DEF MentorInv, Undisturbed
      <4>2. \A y \in WireType : Has(wire', y) => y.ask # questions  BY <1>4, <4>1
      <4>3. ASSUME NEW k \in Ask, k = questions  PROVE Gone(k)'
        <5>1. Settled(k)'  BY <1>1, <4>1, <4>3 DEF Settled, Asked, serverVars
        <5> QED  BY <4>2, <4>3, <5>1 DEF Gone
      <4> QED  BY <4>3
    <3>2. CASE m.kind \notin Closing
      <4>1. ~streaming  BY <1>1, <2>1, <3>2
      <4> QED  BY <4>1
    <3> QED  BY <3>1, <3>2
  <2>2. streaming' \/ transcript' # <<>> => questions >= 1
    <3>1. CASE m.kind \in {"start", "chunk"}
      <4>1. m.ask \in Ask /\ m.ask <= questions  BY <1>6, <3>1
      <4> QED  BY <1>2, <4>1
    <3>2. CASE m.kind \notin {"start", "chunk"}
      <4>1. transcript' = transcript /\ (streaming' => streaming)  BY <1>1, <3>2
      <4> QED  BY <4>1 DEF MentorInv, AskOrder
    <3> QED  BY <3>1, <3>2
  <2>3. /\ \A x \in RequestType : Has(requests', x) =>
               Has(requests, x) \/ (x.kind = "cancel" /\ halted' # {} /\ x.ask <= questions)
        /\ \A x, y \in RequestType : Precedes(requests', x, y) =>
               Precedes(requests, x, y) \/ y.kind = "cancel"
        /\ halted \subseteq halted' /\ \A k \in halted' : k <= questions
        /\ requests' \in Seq(RequestType)
        /\ UNCHANGED <<conn, noticed, failed, serverVars>> /\ questions' = questions
    BY <1>1, <1>2 DEF MentorInv, AskOrder
  <2> QED  BY ONLY MentorInv, <1>5, <2>1, <2>2, <2>3, ServerSame
<1>8. streaming' \in BOOLEAN  BY <1>1 DEF MentorInv, MentorTypeOK
<1>9. CASE m.kind # "chunk"
  <2>1. transcript' = transcript  BY <1>1, <1>9
  <2>2. LastBubble' /\ BubblesAsked' /\ BubblesApart'  BY <1>1, <2>1, ClientSame
  <2>3. MentorTypeOK'
    <3>1. wire' \in Seq(WireType) /\ Len(wire') <= QueueSize  BY <1>5 DEF Delivers
    <3> QED  BY <1>1, <1>2, <1>8, <2>1, <3>1 DEF MentorInv, MentorTypeOK, serverVars, WireType
  <2> QED  BY <1>7, <2>2, <2>3 DEF MentorInv
<1>10. CASE m.kind = "chunk"
  <2>1. m.ask \in Ask /\ m.ask <= questions  BY <1>6, <1>10
  <2> DEFINE a == m.ask
             old == transcript[Len(transcript)].asks
             t == transcript'
  <2>2. /\ t \in Seq(BubbleType) /\ Len(t) \in Nat
        /\ \A i \in 1 .. Len(t) :
              \/ i \in 1 .. Len(transcript) /\ t[i] = transcript[i] /\ i # Len(t)
              \/ /\ i = Len(t)
                 /\ \/ t[i].asks = {a}
                    \/ /\ Len(transcript) > 0 /\ transcript[Len(transcript)].role = "mentor"
                       /\ t[i].asks = old \cup {a}
    <3>1. t = Appended(a)  BY <1>1, <1>10
    <3> HIDE DEF t, a
    <3>2. a \in Ask  BY <2>1 DEF a
    <3> QED  BY <3>1, <3>2, AppendedPiece
  <2>3. ASSUME NEW n \in Ask, a < n, n <= questions  PROVE \E k \in halted : k < n
    <3>1. ~Over(a)  BY <1>3, <1>4, <1>10 DEF Over
    <3>2. ~(\A k \in halted : k >= n)  BY <2>1, <2>3, <3>1 DEF MentorInv, EarlierOver
    <3>3. \A k \in halted : k \in Nat  BY <1>2 DEF MentorInv, MentorTypeOK
    <3> QED  BY <1>2, <3>2, <3>3
  <2>4. LastBubble /\ BubblesAsked /\ BubblesApart  BY DEF MentorInv
  <2>5. transcript \in Seq(BubbleType) /\ Len(transcript) \in Nat
    BY LenProperties DEF MentorInv, MentorTypeOK, BubbleType
  <2>6. ASSUME Len(transcript) > 0, transcript[Len(transcript)].role = "mentor"
        PROVE  /\ old \subseteq Ask
               /\ \A k \in old : k <= questions
               /\ \A k \in old, n \in Ask : k < n /\ n <= questions => \E h \in halted : h < n
               /\ \A k, n \in old : k < n => \E h \in halted : h < n
    <3>1. Len(transcript) \in 1 .. Len(transcript)  BY <2>5, <2>6
    <3>2. old \subseteq Ask
      <4>1. transcript[Len(transcript)] \in BubbleType  BY <2>5, <3>1, ElementOfSeq
      <4> QED  BY <4>1 DEF BubbleType
    <3>3. \A k \in old : k <= questions  BY <2>4, <3>1 DEF BubblesAsked
    <3>4. \A k \in old, n \in Ask : k < n /\ n <= questions => \E h \in halted : h < n
      BY <2>4, <2>6 DEF LastBubble
    <3>5. \A k, n \in old : k < n => \E h \in halted : h < n  BY <3>2, <3>3, <3>4
    <3> QED  BY <3>2, <3>3, <3>4, <3>5
  <2>7. ASSUME NEW i \in 1 .. Len(t)
        PROVE  /\ \A k \in t[i].asks : k <= questions
               /\ \A k, n \in t[i].asks : k < n => \E h \in halted : h < n
               /\ i = Len(t) => \A k \in t[i].asks, n \in Ask :
                     k < n /\ n <= questions => \E h \in halted : h < n
    <3>1. CASE i \in 1 .. Len(transcript) /\ t[i] = transcript[i] /\ i # Len(t)
      BY <2>4, <3>1 DEF BubblesAsked, BubblesApart
    <3>2. CASE i = Len(t) /\ t[i].asks = {a}
      <4>1. ~(a < a)
        <5>1. a \in Nat  BY <1>2, <2>1
        <5> HIDE DEF a
        <5> QED  BY ONLY <5>1
      <4> HIDE DEF t
      <4>2. \A k \in t[i].asks : k = a  BY <3>2
      <4> QED  BY <2>1, <2>3, <4>1, <4>2
    <3>3. CASE /\ i = Len(t) /\ Len(transcript) > 0
               /\ transcript[Len(transcript)].role = "mentor" /\ t[i].asks = old \cup {a}
      <4>1. /\ old \subseteq Ask
            /\ \A k \in old : k <= questions
            /\ \A k \in old, n \in Ask : k < n /\ n <= questions => \E h \in halted : h < n
            /\ \A k, n \in old : k < n => \E h \in halted : h < n
        BY <2>6, <3>3
      <4>2. a \in Ask /\ a <= questions  BY <2>1
      <4>3. ~(a < a)
        <5>1. a \in Nat  BY <1>2, <2>1
        <5> HIDE DEF a
        <5> QED  BY ONLY <5>1
      <4> HIDE DEF t, a, old
      <4>4. \A k \in t[i].asks : k \in old \/ k = a  BY <3>3
      <4>5. \A k \in t[i].asks, n \in Ask : k < n /\ n <= questions => \E h \in halted : h < n
        BY <2>3, <4>1, <4>4
      <4>6. \A k \in t[i].asks : k \in Ask /\ k <= questions  BY <4>1, <4>2, <4>4
      <4> QED  BY <4>5, <4>6
    <3> QED  BY <2>2, <3>1, <3>2, <3>3
  <2>8. UNCHANGED <<questions, halted>>  BY <1>1
  <2>9. LastBubble'
    <3>1. Len(t) > 0 => Len(t) \in 1 .. Len(t)  BY <2>2
    <3> HIDE DEF a, old
    <3> QED  BY <2>7, <2>8, <3>1 DEF LastBubble
  <2>10. BubblesAsked' /\ BubblesApart'
    <3> HIDE DEF a, old
    <3> QED  BY <2>7, <2>8 DEF BubblesAsked, BubblesApart
  <2>11. MentorTypeOK'
    <3>1. wire' \in Seq(WireType) /\ Len(wire') <= QueueSize  BY <1>5 DEF Delivers
    <3>2. transcript' \in Seq(BubbleType)  BY <2>2
    <3> HIDE DEF t, a, old
    <3> QED  BY <1>1, <1>2, <1>8, <3>1, <3>2
               DEF MentorInv, MentorTypeOK, serverVars, WireType, BubbleType
  <2> QED  BY <1>7, <2>9, <2>10, <2>11 DEF MentorInv
<1>11. QED  BY <1>9, <1>10

LEMMA CloseKeeps == ASSUME MentorInv, Close  PROVE MentorInv'
<1>1. /\ UNCHANGED <<requests, dropped, conn, noticed, failed, streaming, transcript,
                      questions, halted, serverVars>>
      /\ online' = FALSE /\ wire' = <<>>
  BY DEF Close
<1>2. Delivers(<<>>)  BY <1>1, SaysNothing
<1>3. /\ \A x \in RequestType : Has(requests', x) =>
             Has(requests, x) \/ (x.kind = "cancel" /\ halted' # {} /\ x.ask <= questions)
      /\ \A x, y \in RequestType : Precedes(requests', x, y) =>
             Precedes(requests, x, y) \/ y.kind = "cancel"
      /\ halted \subseteq halted' /\ \A k \in halted' : k <= questions
      /\ requests' \in Seq(RequestType)
      /\ UNCHANGED <<conn, noticed, failed, serverVars>> /\ questions' = questions
      /\ halted' = {} /\ ~streaming' =>
             ~streaming \/ \A m \in Ask : m = questions => Gone(m)'
      /\ streaming' \/ transcript' # <<>> => questions >= 1
  BY <1>1, WireTyped DEF MentorInv, AskOrder
<1>4. AskOrder' /\ Tasks' /\ WireRight' /\ EarlierOver' /\ Undisturbed' /\ HistoryHonest'
  BY ONLY MentorInv, <1>2, <1>3, ServerSame
<1>5. LastBubble' /\ BubblesAsked' /\ BubblesApart'  BY <1>1, ClientSame
<1>6. MentorTypeOK'
  <2>1. wire' \in Seq(WireType) /\ Len(wire') <= QueueSize  BY <1>2 DEF Delivers
  <2> QED  BY <1>1, <2>1 DEF MentorInv, MentorTypeOK, serverVars, WireType
<1>7. QED  BY <1>4, <1>5, <1>6 DEF MentorInv

\* A question is asked when the store shows no reply as running: whatever is left of an
\* earlier one is over, or something was halted.
LEMMA SendAskKeeps == ASSUME MentorInv, SendAsk  PROVE MentorInv'
<1>0. \E q : q = questions + 1  OBVIOUS
<1> PICK q : q = questions + 1  BY <1>0
<1> DEFINE ask == [kind |-> "ask", ask |-> q]
           bubble == UserSays(q)
<1>1. /\ UNCHANGED <<online, halted, wire, dropped, conn, noticed, failed>>
      /\ UNCHANGED <<waiting, active, reply, history>>
      /\ ~streaming /\ questions < MaxAsks /\ questions' = q /\ streaming' = TRUE
      /\ transcript' = Append(transcript, bubble)
      /\ requests' = requests \/ requests' = Append(requests, ask)
  BY DEF SendAsk, serverVars
<1>2. /\ wire \in Seq(WireType) /\ requests \in Seq(RequestType) /\ questions \in Nat
      /\ reply \in [Ask -> ReplyType] /\ Len(requests) \in Nat
      /\ waiting \in Nat /\ active \in Nat
      /\ \A n \in Ask : n \in Nat /\ n # NoAsk /\ n >= 1
  BY WireTyped
<1>3. q \in Ask /\ q \in Nat /\ q >= 1 /\ q \in 0 .. MaxAsks
  <2>1. MaxAsks \in Nat  BY MentorAssumption
  <2> QED  BY <1>1, <1>2, <2>1 DEF Ask
<1>4. \A k \in Nat : k <= questions => k < q /\ k # q /\ k <= q  BY <1>2
<1>5. ask \in RequestType /\ ask.kind = "ask" /\ ask.ask = q  BY <1>3 DEF RequestType
<1>6. /\ requests' \in Seq(RequestType)
      /\ \A y : Has(requests', y) => Has(requests, y) \/ y = ask
      /\ \A y, z : Precedes(requests', y, z) =>
            Precedes(requests, y, z) \/ (z = ask /\ Has(requests, y))
  <2> HIDE DEF ask
  <2>1. CASE requests' = requests  BY <1>2, <2>1
  <2>2. CASE requests' = Append(requests, ask)
    <3>1. requests' \in Seq(RequestType) /\ Len(requests) \in Nat
          /\ Len(requests') = Len(requests) + 1 /\ requests'[Len(requests')] = ask
          /\ \A i \in 1 .. Len(requests) : requests'[i] = requests[i]
      BY <1>2, <1>5, <2>2, AppendProperties, LenProperties
    <3> QED  BY ONLY <3>1, OneMore
  <2> QED  BY <1>1, <2>1, <2>2
<1>7. /\ AskOrder /\ Tasks /\ WireRight /\ EarlierOver /\ Undisturbed
      /\ LastBubble /\ BubblesAsked /\ BubblesApart /\ HistoryHonest
  BY DEF MentorInv
<1>8. \A n \in Ask : [kind |-> "ask", ask |-> n] \in RequestType  BY DEF RequestType
<1>9. /\ \A n \in Ask : Asked(n)' => Asked(n) \/ n = q
      /\ \A n \in Ask : Asked(n) => n <= questions
      /\ \A n \in Ask : Launched(n) => n <= questions
  <2>1. ASSUME NEW n \in Ask, Asked(n)'  PROVE Asked(n) \/ n = q
    <3> DEFINE y == [kind |-> "ask", ask |-> n]
    <3>1. Has(requests', y)  BY <2>1 DEF Asked
    <3>2. Has(requests, y) \/ y = ask  BY <1>6, <3>1
    <3>3. y = ask => n = q  BY <1>5
    <3> QED  BY <3>2, <3>3 DEF Asked
  <2>2. \A n \in Ask : Asked(n) => n <= questions  BY <1>7, <1>8 DEF AskOrder, Asked
  <2>3. \A n \in Ask : Launched(n) => n <= questions  BY <1>7 DEF AskOrder
  <2> QED  BY <2>1, <2>2, <2>3
<1>10. \A m \in Ask : (Launched(m)' <=> Launched(m)) /\ (Live(m)' <=> Live(m))
  BY <1>1 DEF Launched, Live
<1>11. waiting <= questions /\ active <= questions /\ \A k \in halted : k <= questions
  BY <1>7 DEF AskOrder
<1>12. halted \subseteq Ask  BY DEF MentorInv, MentorTypeOK
<1>13. bubble.role = "user" /\ bubble.asks = {q} /\ bubble \in BubbleType
  BY <1>3 DEF UserSays, BubbleType
<1>14. /\ transcript' \in Seq(BubbleType) /\ Len(transcript) \in Nat
       /\ Len(transcript') = Len(transcript) + 1 /\ transcript'[Len(transcript')] = bubble
       /\ \A i \in 1 .. Len(transcript) : transcript'[i] = transcript[i]
  <2>1. transcript \in Seq(BubbleType)  BY DEF MentorInv, MentorTypeOK, BubbleType
  <2> HIDE DEF bubble
  <2> QED  BY <1>1, <1>13, <2>1, AppendProperties, LenProperties
<1> HIDE DEF ask, bubble
<1>15. MentorTypeOK'
  BY <1>1, <1>3, <1>6, <1>14 DEF MentorInv, MentorTypeOK, RequestType, BubbleType
<1>16. AskOrder'
  <2>1. \A x, y \in RequestType :
          Precedes(requests', x, y) /\ x.kind = "ask" /\ y.kind = "ask" => x.ask < y.ask
    <3> SUFFICES ASSUME NEW x \in RequestType, NEW y \in RequestType,
                        Precedes(requests', x, y), x.kind = "ask", y.kind = "ask"
                 PROVE  x.ask < y.ask
      OBVIOUS
    <3>1. CASE Precedes(requests, x, y)  BY <1>7, <3>1 DEF AskOrder
    <3>2. CASE y = ask /\ Has(requests, x)
      <4>1. x.ask <= questions  BY <1>7, <3>2 DEF AskOrder
      <4>2. x.ask \in Nat  BY <1>2 DEF RequestType
      <4> QED  BY <1>4, <1>5, <3>2, <4>1, <4>2
    <3> QED  BY <1>6, <3>1, <3>2
  <2>2. ASSUME NEW x \in RequestType, Has(requests', x)  PROVE x.ask <= q
    <3>1. x.ask \in Nat  BY <1>2 DEF RequestType
    <3>2. CASE Has(requests, x)
      <4>1. x.ask <= questions  BY <1>7, <3>2 DEF AskOrder
      <4> QED  BY <1>4, <3>1, <4>1
    <3>3. CASE x = ask  BY <1>3, <1>5, <3>3
    <3> QED  BY <1>6, <2>2, <3>2, <3>3
  <2>3. ASSUME NEW n \in Ask, Asked(n)'
        PROVE  waiting' < n /\ \A m \in Ask : Launched(m)' => m < n
    <3>1. CASE Asked(n)  BY <1>1, <1>7, <1>10, <3>1 DEF AskOrder
    <3>2. CASE n = q
      <4>1. waiting' < n  BY <1>1, <1>2, <1>4, <1>11, <3>2
      <4> QED  BY <1>2, <1>4, <1>9, <1>10, <3>2, <4>1
    <3> QED  BY <1>9, <2>3, <3>1, <3>2
  <2>4. waiting' # NoAsk => \A m \in Ask : Launched(m)' => m < waiting'
    BY <1>1, <1>7, <1>10 DEF AskOrder
  <2>5. \A m \in Ask : Launched(m)' => m <= q  BY <1>2, <1>4, <1>9, <1>10
  <2>6. waiting' <= q /\ active' <= q /\ \A k \in halted' : k <= q
    <3>1. \A k \in halted : k \in Nat  BY <1>2, <1>12
    <3> QED  BY <1>1, <1>2, <1>4, <1>11, <3>1
  <2> HIDE DEF Asked, Launched
  <2> QED  BY <1>1, <1>3, <2>1, <2>2, <2>3, <2>4, <2>5, <2>6 DEF AskOrder
<1>17. Tasks'  BY <1>1, <1>7, <1>10 DEF Tasks
<1>18. WireRight'
  <2>1. ASSUME NEW x \in WireType, Has(wire', x)
        PROVE  x.kind = "notice" \/ (x.ask \in Ask /\ x.ask <= q)
    <3>1. x.kind = "notice" \/ (x.ask \in Ask /\ x.ask <= questions)
      BY <1>1, <1>7, <2>1 DEF WireRight
    <3> QED  BY <1>2, <1>4, <3>1
  <2>2. /\ \A x \in WireType : Has(wire', x) /\ x.kind = "start" => Launched(x.ask)'
        /\ \A x, y \in WireType :
              Precedes(wire', x, y) /\ x.kind = "start" /\ y.kind \in {"chunk", "end"} =>
                  y.ask >= x.ask
    BY <1>1, <1>7 DEF WireRight, Launched
  <2> QED  BY <1>1, <2>1, <2>2 DEF WireRight
<1>19. ASSUME NEW m \in Ask, m <= questions
       PROVE  (Over(m) => Over(m)') /\ (Gone(m) => Gone(m)')
  <2>1. m # q  BY <1>2, <1>4, <1>19
  <2>2. Asked(m)' => Asked(m)  BY <1>9, <2>1
  <2> QED  BY <1>1, <2>2 DEF Over, Gone, Settled
<1>20. EarlierOver'
  <2> SUFFICES ASSUME NEW n \in Ask, n <= q, \A k \in halted : k >= n, NEW m \in Ask, m < n
               PROVE  Over(m)'
    BY <1>1 DEF EarlierOver
  <2>1. CASE n <= questions
    <3>1. Over(m)  BY <1>7, <2>1 DEF EarlierOver
    <3>2. m <= questions  BY <1>2, <2>1
    <3> QED  BY <1>19, <3>1, <3>2
  <2>2. CASE ~(n <= questions)
    <3>1. n = q /\ m <= questions  BY <1>2, <2>2
    <3>2. halted = {}
      <4>1. ASSUME NEW k \in halted  PROVE FALSE
        <5>1. k \in Nat /\ k <= questions /\ k >= q  BY <1>2, <1>11, <1>12, <3>1
        <5> QED  BY ONLY <1>2, <5>1, q = questions + 1
      <4> QED  BY <4>1
    <3>3. m < questions \/ m = questions  BY <1>2, <3>1
    <3>4. Gone(m)  BY <1>1, <1>7, <3>2, <3>3 DEF Undisturbed
    <3>5. Over(m)  BY <3>4 DEF Over, Gone, Settled
    <3> QED  BY <1>19, <3>1, <3>5
  <2> QED  BY <2>1, <2>2
<1>21. Undisturbed'
  <2> SUFFICES ASSUME halted = {}
               PROVE  /\ \A x \in RequestType : Has(requests', x) => x.kind = "ask"
                      /\ \A m \in Ask : m < q => Gone(m)'
                      /\ \A x \in WireType : Has(wire, x) => x.kind \notin Closing
    BY <1>1 DEF Undisturbed
  <2>1. \A x \in RequestType : Has(requests', x) => x.kind = "ask"
    BY <1>5, <1>6, <1>7 DEF Undisturbed
  <2>2. ASSUME NEW m \in Ask, m < q  PROVE Gone(m) /\ Gone(m)'
    <3>1. m <= questions /\ (m < questions \/ m = questions)  BY <1>2, <2>2
    <3>2. Gone(m)  BY <1>1, <1>7, <3>1 DEF Undisturbed
    <3> QED  BY <1>19, <3>1, <3>2
  <2>3. ASSUME NEW x \in WireType, Has(wire, x), x.kind \in Closing  PROVE FALSE
    <3>1. x.kind # "notice"  BY <2>3 DEF Closing
    <3>2. x.ask \in Ask /\ x.ask <= questions  BY <1>7, <2>3, <3>1 DEF WireRight
    <3>3. x.ask < q  BY <1>2, <1>4, <3>2
    <3>4. Gone(x.ask)  BY <2>2, <3>2, <3>3
    <3> QED  BY <2>3, <3>4 DEF Gone
  <2> QED  BY <2>1, <2>2, <2>3
<1>22. \A i \in 1 .. Len(transcript') :
          \/ i \in 1 .. Len(transcript) /\ transcript'[i] = transcript[i]
          \/ transcript'[i] = bubble
  BY <1>14
<1>23. LastBubble'  BY <1>13, <1>14 DEF LastBubble
<1>24. BubblesAsked'
  <2> SUFFICES ASSUME NEW i \in 1 .. Len(transcript'), NEW m \in transcript'[i].asks
               PROVE  m <= q
    BY <1>1 DEF BubblesAsked
  <2>1. CASE i \in 1 .. Len(transcript) /\ transcript'[i] = transcript[i]
    <3>1. m <= questions  BY <1>7, <2>1 DEF BubblesAsked
    <3>2. transcript'[i] \in BubbleType  BY <1>14, ElementOfSeq
    <3>3. m \in Nat  BY <1>2, <3>2 DEF BubbleType
    <3> QED  BY <1>4, <3>1, <3>3
  <2>2. CASE transcript'[i] = bubble  BY <1>3, <1>13, <2>2
  <2> QED  BY <1>22, <2>1, <2>2
<1>25. BubblesApart'
  <2> SUFFICES ASSUME NEW i \in 1 .. Len(transcript'), NEW m \in transcript'[i].asks,
                      NEW n \in transcript'[i].asks, m < n
               PROVE  \E k \in halted : k < n
    BY <1>1 DEF BubblesApart
  <2>1. CASE i \in 1 .. Len(transcript) /\ transcript'[i] = transcript[i]
    BY <1>7, <2>1 DEF BubblesApart
  <2>2. CASE transcript'[i] = bubble
    <3>1. m = q /\ n = q  BY <1>13, <2>2
    <3>2. ~(q < q)  BY ONLY <1>3
    <3> QED  BY <3>1, <3>2
  <2> QED  BY <1>22, <2>1, <2>2
<1>26. HistoryHonest'  BY <1>1, <1>7 DEF HistoryHonest
<1>27. QED
  BY <1>15, <1>16, <1>17, <1>18, <1>20, <1>21, <1>23, <1>24, <1>25, <1>26 DEF MentorInv

-----------------------------------------------------------------------------
(* Mentor: what is shown and kept of a reply *)

LEMMA MentorSteps == ASSUME MentorInv, [MentorNext]_mentorVars  PROVE MentorInv'
<1>1. ASSUME NEW n \in Ask, Run(n)  PROVE MentorInv'
  BY <1>1, StartKeeps, PieceKeeps, BreakKeeps, SaveKeeps, UnwindKeeps DEF Run
<1>2. CASE ReaderStep
  BY <1>2, ReadAskKeeps, LaunchKeeps, ReadCancelKeeps, HangUpKeeps DEF ReaderStep
<1>3. CASE Fail  BY <1>3, FailKeeps
<1>4. CASE Notice  BY <1>4, NoticeKeeps
<1>5. CASE User  BY <1>5, SendAskKeeps, SendCancelKeeps, ResetKeeps DEF User
<1>6. CASE Show  BY <1>6, ReceiveKeeps, CloseKeeps DEF Show
<1>7. CASE UNCHANGED mentorVars
  <2>1. /\ UNCHANGED <<requests, wire, dropped, conn, noticed, failed, waiting, active, reply,
                        history>>
        /\ UNCHANGED <<streaming, online, transcript, questions, halted>>
    BY <1>7 DEF mentorVars, serverVars, clientVars
  <2>2. MentorTypeOK' <=> MentorTypeOK  BY <2>1 DEF MentorTypeOK
  <2>3. (AskOrder' <=> AskOrder) /\ (Tasks' <=> Tasks)
    BY <2>1 DEF AskOrder, Tasks, Asked, Launched, Live
  <2>4. (WireRight' <=> WireRight) /\ (EarlierOver' <=> EarlierOver)
    BY <2>1 DEF WireRight, EarlierOver, Over, Asked, Launched
  <2>5. Undisturbed' <=> Undisturbed  BY <2>1 DEF Undisturbed, Gone, Settled, Asked
  <2>6. (LastBubble' <=> LastBubble) /\ (BubblesAsked' <=> BubblesAsked)
        /\ (BubblesApart' <=> BubblesApart) /\ (HistoryHonest' <=> HistoryHonest)
    BY <2>1 DEF LastBubble, BubblesAsked, BubblesApart, HistoryHonest
  <2> QED  BY <2>2, <2>3, <2>4, <2>5, <2>6 DEF MentorInv
<1>8. QED  BY <1>1, <1>2, <1>3, <1>4, <1>5, <1>6, <1>7 DEF MentorNext

LEMMA MentorSafe == MentorInv => ReplyWhole
<1> SUFFICES ASSUME MentorInv PROVE ReplyWhole  OBVIOUS
<1>1. MentorTypeOK /\ BubblesApart /\ HistoryHonest  BY DEF MentorInv
<1>2. RepliesApart
  <2> SUFFICES ASSUME NEW i \in 1 .. Len(wire), NEW j \in 1 .. Len(wire), i < j,
                      wire[i].kind = "start", wire[j].kind \in {"chunk", "end"}
               PROVE  wire[j].ask >= wire[i].ask
    BY DEF RepliesApart
  <2>1. wire \in Seq(WireType)  BY WireTyped
  <2>2. wire[i] \in WireType /\ wire[j] \in WireType  BY <2>1, ElementOfSeq
  <2>3. Precedes(wire, wire[i], wire[j])  BY DEF Precedes
  <2> QED  BY <2>2, <2>3 DEF MentorInv, WireRight
<1>3. QED  BY <1>1, <1>2 DEF ReplyWhole

(* What is sent, what is kept and what is shown of a reply of the mentor is *)
(* that reply's, whatever is cancelled, superseded, refused or dropped on   *)
(* the way (mentor_ws.py:376-402, :570-574; useMentorStore.ts).             *)
THEOREM RepliesWhole == MentorSpec => []ReplyWhole
<1>1. MentorInit => MentorInv  BY MentorStarts
<1>2. MentorInv /\ [MentorNext]_mentorVars => MentorInv'  BY MentorSteps
<1>3. MentorInv => ReplyWhole  BY MentorSafe
<1>4. QED  BY <1>1, <1>2, <1>3, PTL DEF MentorSpec
=============================================================================
