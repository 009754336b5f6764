------------------------------- MODULE MCAiEngine -------------------------------
(***************************************************************************)
(* AiEngine in four casts, each with the parts of the engine that act on   *)
(* one another and the others at rest: one question of a player from end   *)
(* to end; two requests of the web process that share a limiter; one of    *)
(* them and a batch of the worker; and two jobs of the worker with no key  *)
(* of the model, which crawl, or make and post a batch.  A step of any     *)
(* cast is a step of AiNext.                                               *)
(***************************************************************************)
EXTENDS AiEngine, TLC

CONSTANTS a1, a2, j1, j2

VARIABLE cast

allVars == <<aiVars, cast>>

Casts == {{a1}, {a1, a2}, {a1, j1}, {j1, j2}}

Say(asks, says, grounded) ==
    [asks |-> asks, says |-> says, general |-> FALSE, grounded |-> grounded]

MCSentences ==
    {Say(TRUE, "advice", TRUE), Say(FALSE, "advice", TRUE),
     Say(FALSE, "hint", TRUE), Say(FALSE, "plain", FALSE)}

MCInit ==
    /\ AiInit
    /\ cast \in Casts
    /\ cast = {a1} \/ (setup.llm /\ setup.key /\ setup.judge)

Player(a) == cast = {a} /\ (\E mode \in Modes : Ask(a, mode)) /\ UNCHANGED contentVars

Caller(a) ==
    a \in cast /\ (\E kind \in {"concept", "strategy"} : Call(a, kind)) /\ UNCHANGED contentVars

(* One field of a reply at most differs from the first, and none where two
   requests meet; its note differs in a Socratic reply only. *)
OfEngine(a) ==
    /\ EngineStep(a)
    /\ LET draft == engine'[a].draft
       IN  /\ draft.second = draft.first \/ (draft.note = draft.first /\ cast = {a})
           /\ draft.note = draft.first \/ (cast = {a} /\ engine[a].kind = "socratic")
    /\ UNCHANGED contentVars

OfGateway(a) == GatewayStep(a) /\ UNCHANGED contentVars

NoAnswer(a) == Lost(a) /\ UNCHANGED contentVars

OfBatch(j) ==
    /\ cast # {j1, j2}
    /\ j \in cast
    /\ Start(j) \/ TakeToken(j) \/ Taking(j) \/ Make(j)
    /\ UNCHANGED answerVars

OfWorker(j) ==
    /\ cast = {j1, j2}
    /\ \/ Crawl(j) \/ Look(j) \/ Push(j)
       \/ Start(j) \/ Render(j) \/ Post(j) \/ Check(j) \/ Commit(j) \/ Rollback(j)
       \/ Die(j)
    /\ UNCHANGED answerVars

Clock == cast # {j1, j2} /\ TimePasses

MCNext ==
    /\ \/ Clock
       \/ \E a \in Asks : Player(a) \/ Caller(a) \/ OfEngine(a) \/ OfGateway(a) \/ NoAnswer(a)
       \/ \E j \in Jobs : OfBatch(j) \/ OfWorker(j)
    /\ UNCHANGED cast

MCFairSpec ==
    /\ MCInit /\ [][MCNext]_allVars
    /\ WF_allVars(Clock /\ UNCHANGED cast)
    /\ \A a \in Asks :
          /\ WF_allVars(OfEngine(a) /\ UNCHANGED cast)
          /\ WF_allVars(OfGateway(a) /\ UNCHANGED cast)
================================================================================
