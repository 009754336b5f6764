-------------------------------- MODULE AiEngine --------------------------------
(***************************************************************************)
(* The AI engine's two processes together: the web process that answers    *)
(* mentor questions (Answers.tla) and the worker that makes content        *)
(* (Content.tla), which share the Flash model's budget of calls            *)
(* (TokenBucket.tla), and the gateway at their other ends.                 *)
(***************************************************************************)
EXTENDS AnswersProperties, Content

ASSUME AiEngineAssumption ==
    /\ Takers = Asks \cup Jobs
    /\ Asks \cap Jobs = {}
    /\ WorkerBucket = Flash

aiVars == <<bucketVars, answerVars, contentVars>>

AiInit == BucketInit /\ AnswersInit /\ ContentInit

TimePasses == Tick /\ UNCHANGED <<answerVars, contentVars>>

AiNext ==
    \/ TimePasses
    \/ \E a \in Asks : AskStep(a) /\ UNCHANGED contentVars
    \/ \E j \in Jobs : JobStep(j) /\ UNCHANGED answerVars

AiSpec == AiInit /\ [][AiNext]_aiVars
=================================================================================
