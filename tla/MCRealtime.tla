------------------------------ MODULE MCRealtime ------------------------------
(***************************************************************************)
(* The three protocols a worker's WebSockets live by, for TLC: the queues  *)
(* of a socket (Connections), the bridge to Redis (Backplane) and a chat   *)
(* with the mentor (Mentor).  They share no variable, so a behaviour       *)
(* exercises one of them and leaves the others at rest.                    *)
(***************************************************************************)
EXTENDS Connections, Backplane, Mentor

CONSTANTS c1, k1, k2, prices, user

VARIABLE part

realtimeVars == <<vars, backplaneVars, mentorVars, part>>

Of(p, step) == part = p /\ step /\ UNCHANGED part
OfSockets(step) == Of("sockets", step) /\ UNCHANGED <<backplaneVars, mentorVars>>
OfBridge(step) == Of("bridge", step) /\ UNCHANGED <<vars, mentorVars>>
OfChat(step) == Of("chat", step) /\ UNCHANGED <<vars, backplaneVars>>

RealtimeInit ==
    /\ Init /\ BackplaneInit /\ MentorInit
    /\ part \in {"sockets", "bridge", "chat"}
    /\ part # "bridge" => activation.pc = "none"

RealtimeNext == OfSockets(Next) \/ OfBridge(BackplaneNext) \/ OfChat(MentorNext)

(* The event loops of the worker and of the client run every task: a writer's
   send ends or times out, and Redis comes back. *)
RealtimeFairSpec ==
    /\ RealtimeInit /\ [][RealtimeNext]_realtimeVars
    /\ \A c \in Conn : /\ WF_realtimeVars(OfSockets(WriteNext(c)))
                       /\ WF_realtimeVars(OfSockets(DisconnectOnOverflow(c)))
    /\ WF_realtimeVars(OfBridge(Reconnect)) /\ WF_realtimeVars(OfBridge(Return))
    /\ \A c \in Client : WF_realtimeVars(OfBridge(Notify(c)))
    /\ \A h \in Handle : /\ WF_realtimeVars(OfBridge(Relay(h)))
                         /\ WF_realtimeVars(OfBridge(ListenerFails(h) \/ ListenerEnds(h)))
    /\ \A n \in Ask : WF_realtimeVars(OfChat(Run(n)))
    /\ WF_realtimeVars(OfChat(ReaderStep))
    /\ WF_realtimeVars(OfChat(Show))

OneSocket == {c1}
OneRoom == {prices}
TwoClients == {k1, k2}
TwoChannels == {prices, user}
=============================================================================
