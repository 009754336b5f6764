------------------------------- MODULE Mentor -------------------------------
(***************************************************************************)
(* A chat with the mentor over one socket (realtime/mentor_ws.py) and the  *)
(* client that shows it (useSocraticMentor.ts, useMentorStore.ts).         *)
(*                                                                         *)
(* The socket's reader handles one request after the other: it checks the  *)
(* rate, awaits the trade snapshot, cancels the task of the previous       *)
(* question without waiting for it and starts one for the new question.    *)
(* The task streams the reply in pieces and then awaits the save of the    *)
(* exchange.  cancel() sets a flag and schedules a CancelledError that the *)
(* task meets at its next await, so a cancelled task still occupies its    *)
(* place until it runs again.                                              *)
(*                                                                         *)
(* Messages go through the socket's best-effort queue, which drops its     *)
(* oldest message when it is full (Connections models that queue in        *)
(* full); the writer, the network and the client's event loop are one      *)
(* first-in-first-out step here.  Whether a question passes the rate       *)
(* limiter and whether the provider or the database fails is a choice of   *)
(* the environment.  The text of a reply is the number of its pieces.      *)
(***************************************************************************)
EXTENDS Integers, Sequences, FiniteSets

CONSTANTS
    Pieces,        \* pieces a whole reply is cut into (mentor_ws._chunk_text)
    QueueSize,     \* capacity of the socket's best-effort queue
    MaxAsks,       \* bound: questions the user asks
    MaxStops,      \* bound: times the user stops a reply or resets the chat
    MaxNotices,    \* bound: other messages that use the same queue
    MaxBreaks      \* bound: failures of the provider, a save or the socket

ASSUME MentorAssumption ==
    /\ Pieces \in Nat \ {0}
    /\ QueueSize \in Nat \ {0}
    /\ {MaxAsks, MaxStops, MaxNotices, MaxBreaks} \subseteq Nat

Ask == 1..MaxAsks
NoAsk == 0

Kinds == {"start", "chunk", "end", "error", "cancelled", "notice"}

(* The last message of a reply, whatever became of it. *)
Closing == {"end", "error", "cancelled"}

VARIABLES
    requests,      \* what the client has sent and the reader has not read
    waiting,       \* the question whose snapshot the reader awaits, or NoAsk
    active,        \* active_sessions[connection_id]: a question, or NoAsk
    reply,         \* the task of each question
    wire,          \* messages on their way to the client
    dropped,       \* the last messages of replies that a full queue dropped
    conn,          \* the server's side: open, closed (sends fail), gone
    history,       \* mentor_messages: the exchanges saved
    streaming,     \* the store's isStreaming
    online,        \* the client believes the socket is open
    transcript,    \* the store's messages
    questions,     \* number of questions the user has asked
    halted,        \* the questions the user stopped or reset away
    noticed,       \* other messages so far
    failed         \* the questions whose provider or socket failed, with
                   \* NoAsk for every save that failed

serverVars == <<waiting, active, reply, history>>
clientVars == <<streaming, online, transcript, questions, halted>>
mentorVars == <<requests, wire, dropped, conn, noticed, failed, serverVars, clientVars>>

(***************************************************************************)
(* Sending.  send() puts a message into the best-effort queue, and fails   *)
(* only when the connection is closed.                                     *)
(***************************************************************************)
Says(kind, n) == [kind |-> kind, ask |-> n]

Queued(queue, messages) ==
    LET all == queue \o messages
        over == IF Len(all) > QueueSize THEN Len(all) - QueueSize ELSE 0
    IN  SubSeq(all, over + 1, Len(all))

Lost(queue, messages) ==
    LET all == queue \o messages IN
    {all[i] : i \in {j \in 1..Len(all) : /\ all[j].kind \in Closing
                                         /\ j + QueueSize <= Len(all)}}

Send(messages) ==
    IF conn = "open"
    THEN /\ wire' = Queued(wire, messages)
         /\ dropped' = dropped \cup Lost(wire, messages)
    ELSE UNCHANGED <<wire, dropped>>

(***************************************************************************)
(* The task of a question: _run_ask.                                       *)
(***************************************************************************)
NoTask == [at |-> "none", cancelled |-> FALSE, pieces |-> 0]

Live(n) == reply[n].at \in {"created", "streaming", "saving"}

(* The finally block's last lines: the entry is removed only by its owner. *)
Popped(n) == IF active = n THEN NoAsk ELSE active

Finish(n) ==
    /\ reply' = [reply EXCEPT ![n].at = "done"]
    /\ active' = Popped(n)

Saves_Cancelled(n, pieces) == pieces > 0

(* What is saved: a reply of which something was produced, if the task     *)
(* was not cancelled.                                                      *)
Saves(n, pieces) == pieces > 0 /\ ~reply[n].cancelled

(* The stream is over: the exchange is saved next, or the task ends. *)
Conclude(n, pieces) ==
    IF Saves(n, pieces)
    THEN /\ reply' = [reply EXCEPT ![n].at = "saving", ![n].pieces = pieces]
         /\ UNCHANGED active
    ELSE Finish(n)

(* The first step of the task announces the reply. *)
Start(n) ==
    /\ reply[n].at = "created" /\ ~reply[n].cancelled
    /\ Send(<<Says("start", n)>>)
    /\ IF conn = "open"
       THEN reply' = [reply EXCEPT ![n].at = "streaming"] /\ UNCHANGED active
       ELSE Finish(n)
    /\ UNCHANGED <<requests, waiting, history, conn, noticed, failed, clientVars>>

(* The provider yields a piece; the last one is followed by mentor_end     *)
(* without another await.  A send that fails ends the stream.              *)
Piece(n) ==
    LET pieces == reply[n].pieces + 1 IN
    /\ reply[n].at = "streaming" /\ ~reply[n].cancelled
    /\ Send(IF pieces = Pieces
            THEN <<Says("chunk", n), Says("end", n)>>
            ELSE <<Says("chunk", n)>>)
    /\ IF conn = "open" /\ pieces < Pieces
       THEN reply' = [reply EXCEPT ![n].pieces = pieces] /\ UNCHANGED active
       ELSE Conclude(n, pieces)
    /\ failed' = IF conn = "open" THEN failed ELSE failed \cup {n}
    /\ UNCHANGED <<requests, waiting, history, conn, noticed, clientVars>>

(* The provider raises: the client is told, and what was produced so far   *)
(* goes through the same finally block.                                    *)
Break(n) ==
    /\ Cardinality(failed) < MaxBreaks
    /\ reply[n].at = "streaming" /\ ~reply[n].cancelled
    /\ Send(<<Says("error", n)>>)
    /\ Conclude(n, reply[n].pieces)
    /\ failed' = failed \cup {n}
    /\ UNCHANGED <<requests, waiting, history, conn, noticed, clientVars>>

Saved(n) == history \cup {[ask |-> n, pieces |-> reply[n].pieces]}

(* The save has committed, or has failed and was logged. *)
Save(n) ==
    /\ reply[n].at = "saving" /\ ~reply[n].cancelled
    /\ \/ history' = Saved(n) /\ UNCHANGED failed
       \/ /\ Cardinality(failed) < MaxBreaks
          /\ failed' = failed \cup {NoAsk}
          /\ UNCHANGED history
    /\ Finish(n)
    /\ UNCHANGED <<requests, waiting, wire, dropped, conn, noticed, clientVars>>

(* The cancelled task runs again.  One that never started ends without     *)
(* entering its body; one that was streaming runs its finally block; a     *)
(* save may have committed before it was interrupted, and an interrupted   *)
(* save leaves the entry of active_sessions behind.                        *)
Unwind(n) ==
    /\ reply[n].cancelled
    /\ \/ /\ reply[n].at = "created"
          /\ reply' = [reply EXCEPT ![n].at = "done"]
          /\ UNCHANGED <<active, history>>
       \/ /\ reply[n].at = "streaming"
          /\ Conclude(n, reply[n].pieces)
          /\ UNCHANGED history
       \/ /\ reply[n].at = "saving"
          /\ reply' = [reply EXCEPT ![n].at = "done"]
          /\ history' \in {history, Saved(n)}
          /\ UNCHANGED active
    /\ UNCHANGED <<requests, waiting, wire, dropped, conn, noticed, failed,
                   clientVars>>

Run(n) == Start(n) \/ Piece(n) \/ Break(n) \/ Save(n) \/ Unwind(n)

(***************************************************************************)
(* The reader: on_message and on_disconnect.                               *)
(***************************************************************************)
ReaderIdle == conn # "gone" /\ waiting = NoAsk

(* task with the running task of the entry cancelled *)
Cancelled(m) ==
    IF m # NoAsk /\ Live(m) THEN [reply EXCEPT ![m].cancelled = TRUE] ELSE reply

Refusal_Silent(n) == <<>>

(* A question over the limit is answered with an error and gets no task. *)
Refusal(n) == <<Says("error", n)>>

(* The rate limiter refuses the question, or the reader goes on to await   *)
(* the snapshot.                                                           *)
ReadAsk ==
    /\ ReaderIdle /\ requests # <<>> /\ Head(requests).kind = "ask"
    /\ requests' = Tail(requests)
    /\ \/ /\ waiting' = Head(requests).ask
          /\ UNCHANGED <<wire, dropped>>
       \/ /\ Send(Refusal(Head(requests).ask))
          /\ UNCHANGED waiting
    /\ UNCHANGED <<active, reply, history, conn, noticed, failed, clientVars>>

(* A new question cancels the task of the previous one. *)
Launch ==
    /\ waiting # NoAsk
    /\ reply' = [Cancelled(active) EXCEPT ![waiting].at = "created"]
    /\ active' = waiting
    /\ waiting' = NoAsk
    /\ UNCHANGED <<requests, wire, dropped, conn, history, noticed, failed,
                   clientVars>>

ReadCancel ==
    /\ ReaderIdle /\ requests # <<>> /\ Head(requests).kind = "cancel"
    /\ requests' = Tail(requests)
    /\ reply' = Cancelled(active)
    /\ IF active # NoAsk /\ Live(active)
       THEN Send(<<Says("cancelled", active)>>)
       ELSE UNCHANGED <<wire, dropped>>
    /\ UNCHANGED <<waiting, active, history, conn, noticed, failed, clientVars>>

(* The socket fails under the writer: sends fail, the reader has not yet   *)
(* noticed.                                                                *)
Fail ==
    /\ conn = "open" /\ Cardinality(failed) < MaxBreaks
    /\ conn' = "closed"
    /\ failed' = failed \cup {NoAsk}
    /\ UNCHANGED <<requests, wire, dropped, noticed, serverVars, clientVars>>

(* The reader has read all the client sent before it left, or notices that *)
(* the socket is closed: on_disconnect.                                    *)
HangUp ==
    /\ ReaderIdle
    /\ conn = "closed" \/ (~online /\ requests = <<>>)
    /\ conn' = "gone"
    /\ reply' = Cancelled(active)
    /\ active' = NoAsk
    /\ requests' = <<>>
    /\ UNCHANGED <<waiting, wire, dropped, history, noticed, failed, clientVars>>

(* A status or a keepalive uses the same queue. *)
Notice ==
    /\ conn = "open" /\ noticed < MaxNotices
    /\ noticed' = noticed + 1
    /\ Send(<<Says("notice", NoAsk)>>)
    /\ UNCHANGED <<requests, conn, failed, serverVars, clientVars>>

ReaderStep == ReadAsk \/ Launch \/ ReadCancel \/ HangUp

(***************************************************************************)
(* The client.                                                             *)
(***************************************************************************)
UserSays(n) == [role |-> "user", asks |-> {n}]

(* sendAsk: refused while a reply is streaming. *)
SendAsk ==
    /\ online /\ ~streaming /\ questions < MaxAsks
    /\ questions' = questions + 1
    /\ transcript' = Append(transcript, UserSays(questions + 1))
    /\ streaming' = TRUE
    /\ requests' = IF conn = "open"
                   THEN Append(requests, [kind |-> "ask", ask |-> questions + 1])
                   ELSE requests
    /\ UNCHANGED <<online, halted, wire, dropped, conn, noticed, failed,
                   serverVars>>

RequestCancel ==
    requests' = IF online /\ conn = "open"
                THEN Append(requests, [kind |-> "cancel", ask |-> questions])
                ELSE requests

(* sendCancel: the store does not wait for mentor_cancelled. *)
SendCancel ==
    /\ streaming /\ Cardinality(halted) < MaxStops
    /\ RequestCancel
    /\ streaming' = FALSE
    /\ halted' = halted \cup {questions}
    /\ UNCHANGED <<online, transcript, questions, wire, dropped, conn, noticed,
                   failed, serverVars>>

(* reset: an empty transcript under a new session id. *)
Reset ==
    /\ transcript # <<>> /\ Cardinality(halted) < MaxStops
    /\ IF streaming THEN RequestCancel ELSE UNCHANGED requests
    /\ streaming' = FALSE
    /\ transcript' = <<>>
    /\ halted' = halted \cup {questions}
    /\ UNCHANGED <<online, questions, wire, dropped, conn, noticed, failed, serverVars>>

(* appendChunk: the piece joins the last message if that is the mentor's. *)
Appended(n) ==
    LET last == Len(transcript) IN
    IF last > 0 /\ transcript[last].role = "mentor"
    THEN [transcript EXCEPT ![last].asks = @ \cup {n}]
    ELSE Append(transcript, [role |-> "mentor", asks |-> {n}])

(* onServerMessage *)
Receive ==
    /\ online /\ wire # <<>>
    /\ wire' = Tail(wire)
    /\ LET m == Head(wire) IN
       /\ transcript' = IF m.kind = "chunk" THEN Appended(m.ask)
                        ELSE transcript
       /\ streaming' = CASE m.kind = "start" -> TRUE
                         [] m.kind \in Closing -> FALSE
                         [] OTHER -> streaming
    /\ UNCHANGED <<requests, dropped, conn, noticed, failed, online, questions,
                   halted, serverVars>>

(* The chat is unmounted, or onclose tells of a closed socket: the store   *)
(* keeps everything but isReady.                                           *)
Close ==
    /\ online
    /\ conn = "gone" \/ questions = MaxAsks
    /\ online' = FALSE
    /\ wire' = <<>>
    /\ UNCHANGED <<requests, dropped, conn, noticed, failed, streaming,
                   transcript, questions, halted, serverVars>>

-----------------------------------------------------------------------------
MentorInit ==
    /\ requests = <<>> /\ waiting = NoAsk /\ active = NoAsk
    /\ reply = [n \in Ask |-> NoTask]
    /\ wire = <<>> /\ dropped = {} /\ conn = "open" /\ history = {}
    /\ streaming = FALSE /\ online = TRUE /\ transcript = <<>>
    /\ questions = 0 /\ halted = {} /\ noticed = 0 /\ failed = {}

User == SendAsk \/ SendCancel \/ Reset

Show == Receive \/ Close

MentorNext ==
    \/ \E n \in Ask : Run(n)
    \/ ReaderStep \/ Fail \/ Notice \/ User \/ Show

MentorSpec == MentorInit /\ [][MentorNext]_mentorVars

(* The event loops of the server and of the client go on. *)
MentorFairSpec ==
    /\ MentorSpec
    /\ \A n \in Ask : WF_mentorVars(Run(n))
    /\ WF_mentorVars(ReaderStep)
    /\ WF_mentorVars(Show)

-----------------------------------------------------------------------------
(* Properties *)

(* Every variable has its type. *)
MentorTypeOK ==
    /\ requests \in Seq([kind : {"ask", "cancel"}, ask : Ask])
    /\ waiting \in Ask \cup {NoAsk} /\ active \in Ask \cup {NoAsk}
    /\ reply \in [Ask -> [at : {"none", "created", "streaming", "saving", "done"},
                         cancelled : BOOLEAN, pieces : 0..Pieces]]
    /\ wire \in Seq([kind : Kinds, ask : Ask \cup {NoAsk}])
    /\ Len(wire) <= QueueSize
    /\ dropped \subseteq [kind : Closing, ask : Ask]
    /\ conn \in {"open", "closed", "gone"}
    /\ history \subseteq [ask : Ask, pieces : 1..Pieces]
    /\ streaming \in BOOLEAN /\ online \in BOOLEAN
    /\ transcript \in Seq([role : {"user", "mentor"}, asks : SUBSET Ask])
    /\ questions \in 0..MaxAsks /\ halted \subseteq Ask
    /\ noticed \in 0..MaxNotices /\ failed \subseteq Ask \cup {NoAsk}

(* Although a new question does not wait for the task it cancels           *)
(* (mentor_ws.py:570-574), nothing of an older reply is sent after a newer *)
(* one has started.                                                        *)
RepliesApart ==
    \A i, j \in 1..Len(wire) :
        (i < j /\ wire[i].kind = "start" /\ wire[j].kind \in {"chunk", "end"})
            => wire[j].ask >= wire[i].ask

(* The history that the language model and the client read back holds a    *)
(* reply that is not whole only when its provider or the socket failed:    *)
(* stopping or superseding a reply never leaves a part of it there         *)
(* (mentor_ws.py:402), although the flag, the cancellation and the save    *)
(* are set, delivered and made at three different times.                   *)
HistoryHonest ==
    \A e \in history : e.pieces = Pieces \/ e.ask \in failed

(* A message the client shows as one reply holds the pieces of one, unless *)
(* the user has stopped a reply or reset the chat before: the store joins  *)
(* pieces, and ends a reply, without looking at whose they are             *)
(* (useMentorStore.ts, appendChunk and onServerMessage).                   *)
BubblesApart ==
    \A i \in 1..Len(transcript) :
        \A m, n \in transcript[i].asks :
            m < n => \E k \in halted : k < n

(* What is sent, what is kept and what is shown of a reply is that reply's. *)
ReplyWhole == MentorTypeOK /\ RepliesApart /\ BubblesApart /\ HistoryHonest

EndLost ==
    \E m \in dropped : m.kind \in {"end", "error"}

(* A client that waits for a reply stops waiting, whatever is cancelled,   *)
(* refused or failing on the way and although the queue drops messages:    *)
(* unless the socket is lost, or the message dropped is one that ends a    *)
(* reply.                                                                  *)
ReplyEnds ==
    streaming ~> (~streaming \/ ~online \/ conn # "open" \/ EndLost)
=============================================================================
