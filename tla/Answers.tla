-------------------------------- MODULE Answers --------------------------------
(***************************************************************************)
(* How a mentor question is answered: the gateway's HybridMentorStream     *)
(* (realtime/mentor_ws.py) posts it to the AI engine (routers/mentor.py)   *)
(* and tells the player the engine's answer, or one it composes itself     *)
(* when the engine is off, fails or is late.  The engine takes a token of  *)
(* a shared budget (TokenBucket.tla) and asks the model; what the model    *)
(* writes is checked against its schema, the policy's patterns and the     *)
(* numbers of the prompt, and by a second model, the judge; after the      *)
(* retries it answers from its own bank.                                   *)
(*                                                                         *)
(* The model and the judge are called synchronously: while one coroutine   *)
(* of the engine is in such a call no other one of that process moves, but *)
(* the gateway, the engine's worker and the time do.  Each coroutine here  *)
(* handles one question.                                                   *)
(***************************************************************************)
EXTENDS TokenBucket

CONSTANTS
    Asks,            \* the questions, each a coroutine that takes tokens
    Pro, Flash,      \* the two limiters: "gemini-pro" and "gemini-flash"
    Sentences,       \* what a field of a reply may say, see Sentence
    MaxRetries,      \* gemini_max_retries
    GatewayTimeout,  \* ai_engine_timeout_seconds, in ticks
    LastStart        \* bound: the latest a question is asked or taken up

(* What the checks tell apart in a field a model writes: whether it reads as
   a question; what it says; whether a rule of the whitelist covers it; and
   whether its numbers are those of the prompt.  "hint" is advice no pattern
   knows. *)
Sentence ==
    [asks : BOOLEAN, says : {"plain", "advice", "judgment", "target", "hint"},
     general : BOOLEAN, grounded : BOOLEAN]

ASSUME AnswersAssumption ==
    /\ Asks \subseteq Takers
    /\ {Pro, Flash} \subseteq Buckets
    /\ Sentences \subseteq Sentence /\ Sentences # {}
    /\ MaxRetries \in Nat
    /\ GatewayTimeout \in Nat \ {0}
    /\ LastStart + MaxWait =< MaxTime
    /\ LastStart + GatewayTimeout =< MaxTime

VARIABLES
    setup,     \* the environment's switches, fixed at the start
    gate,      \* the gateway's side of each question
    engine     \* the engine's side of each question

answerVars == <<setup, gate, engine>>

Kinds == {"socratic", "concept", "strategy"}

Modes == {"socratic", "concept", "plan", "trade_now"}

BucketOf(kind) == IF kind = "socratic" THEN Pro ELSE Flash

NoSentence == CHOOSE s \in Sentences : TRUE

NoDraft == [first |-> NoSentence, second |-> NoSentence, note |-> NoSentence]

(* A reply of the model.  first and second are the questions and the tip of
   a Socratic reply, the definition and the follow-up of a concept, the rules
   and the questions of a strategy.  note is the disclaimer a Socratic reply
   ends with, which the model writes too; a concept's and a strategy's are
   replaced by the bank's. *)
Drafts == [first : Sentences, second : Sentences, note : Sentences]

Unasked == [at |-> "idle", mode |-> "socratic", since |-> 0, told |-> "nothing"]

NotPosted ==
    [at |-> "idle", kind |-> "socratic", attempt |-> 0, round |-> 1,
     again |-> FALSE, draft |-> NoDraft, verdict |-> "none", from |-> "nothing"]

AnswersInit ==
    /\ setup \in [llm : BOOLEAN, key : BOOLEAN, judge : BOOLEAN]
    /\ gate = [a \in Asks |-> Unasked]
    /\ engine = [a \in Asks |-> NotPosted]

(***************************************************************************)
(* The checks of a reply                                                   *)
(***************************************************************************)

(* scan_policy on one sentence. *)
Flagged(s, whitelist) ==
    /\ ~s.asks
    /\ IF whitelist /\ s.general
       THEN s.says = "target"
       ELSE s.says \in {"advice", "judgment", "target"}

(* A question mark is added to what lacks one. *)
Asking(s) == [s EXCEPT !.asks = TRUE]

(* The questions are scanned as they came and again as questions, the tip once,
   the disclaimer never. *)
SocraticClean_AsAsked(d) ==
    /\ ~Flagged(Asking(d.first), FALSE)
    /\ ~Flagged(d.second, FALSE)
SocraticClean(d) ==
    /\ ~Flagged(d.first, FALSE)
    /\ ~Flagged(Asking(d.first), FALSE)
    /\ ~Flagged(d.second, FALSE)

(* Nor are the disclaimer's numbers looked up in the prompt. *)
Grounded(d) == d.first.grounded /\ d.second.grounded

(* The schema's validators and the caller's validator, by kind of reply.  (A
   reply whose shape is wrong, or a strategy whose name is not the bank's,
   is one Generate tries again.) *)
Valid(kind, d) ==
    CASE kind = "socratic" -> SocraticClean(d) /\ Grounded(d)
      [] kind = "concept"  -> ~Flagged(d.first, FALSE) /\ Grounded(d)
      [] kind = "strategy" -> ~Flagged(d.first, TRUE)

(***************************************************************************)
(* The engine                                                              *)
(***************************************************************************)

Blocking == {"generating", "judging"}

(* The engine's event loop is free for a. *)
LoopFree(a) == \A b \in Asks \ {a} : engine[b].at \notin Blocking

Answered(e, from) == [e EXCEPT !.at = "answered", !.from = from]

Generating(e) == [e EXCEPT !.at = "generating", !.attempt = 0]

(* The ways a handler goes on when its call of the model came to nothing.
   A concept is looked up in the glossary first; then the model is asked
   again, with no token taken.  A strategy is always asked for again. *)
FellThrough(e) ==
    CASE e.kind = "socratic" -> {Answered(e, "bank")}
      [] e.kind = "concept" /\ ~e.again ->
            {Answered(e, "bank"), Generating([e EXCEPT !.again = TRUE])}
      [] e.kind = "strategy" /\ ~e.again ->
            {Generating([e EXCEPT !.again = TRUE])}
      [] OTHER -> {Answered(e, "bank")}

(* A request reaches its handler. *)
Reach(a) ==
    /\ engine[a].at = "posted"
    /\ LoopFree(a)
    /\ clock =< LastStart
    /\ \/ /\ setup.key
          /\ Acquire(a, BucketOf(engine[a].kind))
          /\ engine' = [engine EXCEPT ![a].at = "acquiring"]
       \/ /\ ~setup.key
          /\ engine' = [engine EXCEPT ![a] = Answered(@, "bank")]
          /\ UNCHANGED bucketVars
    /\ UNCHANGED <<setup, gate>>

(* acquire() goes on, a command at a time. *)
Acquiring(a) ==
    /\ engine[a].at = "acquiring"
    /\ LoopFree(a)
    /\ Wake(a) \/ Command(a)
    /\ UNCHANGED answerVars

AcquireFails(a) ==
    /\ engine[a].at = "acquiring"
    /\ LoopFree(a)
    /\ Failure(a)
    /\ UNCHANGED answerVars

(* With a token the model is asked; without one the handler falls back. *)
Acquired(a) ==
    /\ engine[a].at = "acquiring"
    /\ LoopFree(a)
    /\ Resume(a)
    /\ \E e \in IF taker[a].at = "granted"
                THEN {Generating(engine[a])} ELSE FellThrough(engine[a]) :
          engine' = [engine EXCEPT ![a] = e]
    /\ UNCHANGED <<setup, gate>>

(* A reply that passes the checks: only a Socratic one goes to the judge. *)
Passed(e, d) ==
    CASE e.kind = "socratic" /\ setup.judge -> [e EXCEPT !.at = "judging", !.draft = d]
      [] e.kind = "strategy" /\ e.again ->
            Answered([e EXCEPT !.draft = d], "bank and llm")
      [] OTHER -> Answered([e EXCEPT !.draft = d], "llm")

(* One attempt of generate_structured: a reply that passes; one that does
   not, or a network error, is tried again; no content at all ends it. *)
Generate(a) ==
    LET e == engine[a] IN
    /\ e.at = "generating"
    /\ \E e2 \in {Passed(e, d) : d \in {d \in Drafts : Valid(e.kind, d)}}
                 \cup (IF e.attempt < MaxRetries
                       THEN {[e EXCEPT !.attempt = @ + 1]} ELSE {})
                 \cup FellThrough(e) :
          engine' = [engine EXCEPT ![a] = e2]
    /\ UNCHANGED <<bucketVars, setup, gate>>

(* What becomes of a reply whose questions and tip the judge looked at.  A
   judge that cannot be asked lets it pass; one refusal earns a second reply,
   a second one the bank's. *)
Judged(e, verdict) ==
    IF verdict # "violation"
    THEN Answered([e EXCEPT !.verdict = verdict], "llm")
    ELSE IF e.round = 1
         THEN Generating([e EXCEPT !.round = 2])
         ELSE Answered([e EXCEPT !.verdict = "violation"], "bank")

Judge(a) ==
    /\ engine[a].at = "judging"
    /\ \E verdict \in {"fine", "violation", "none"} :
          engine' = [engine EXCEPT ![a] = Judged(@, verdict)]
    /\ UNCHANGED <<bucketVars, setup, gate>>

EngineStep(a) ==
    Reach(a) \/ Acquiring(a) \/ AcquireFails(a) \/ Acquired(a) \/ Generate(a) \/ Judge(a)

(***************************************************************************)
(* The gateway                                                             *)
(***************************************************************************)

(* A player asks.  Whatever the mode, it is posted to /api/v1/mentor. *)
Ask(a, mode) ==
    /\ gate[a].at = "idle"
    /\ clock =< LastStart
    /\ gate' = [gate EXCEPT ![a] =
                   [at |-> IF setup.llm THEN "waiting" ELSE "composing",
                    mode |-> mode, since |-> clock, told |-> "nothing"]]
    /\ engine' = IF setup.llm THEN [engine EXCEPT ![a].at = "posted"] ELSE engine
    /\ UNCHANGED <<bucketVars, setup>>

(* Another holder of the internal key calls one of the other endpoints. *)
Call(a, kind) ==
    /\ gate[a].at = "idle"
    /\ clock =< LastStart
    /\ gate' = [gate EXCEPT ![a].at = "elsewhere"]
    /\ engine' = [engine EXCEPT ![a].at = "posted", ![a].kind = kind]
    /\ UNCHANGED <<bucketVars, setup>>

(* The engine's answer comes back in time. *)
Tell(a) ==
    /\ gate[a].at = "waiting"
    /\ engine[a].at = "answered"
    /\ gate' = [gate EXCEPT ![a].at = "told", ![a].told = engine[a].from]
    /\ UNCHANGED <<bucketVars, setup, engine>>

Late_Never(g) == FALSE
Late(g) == g.since + GatewayTimeout =< clock

(* The call fails, or times out; the engine does not learn of it. *)
Lost(a) ==
    /\ gate[a].at = "waiting"
    /\ gate' = [gate EXCEPT ![a].at = "composing"]
    /\ UNCHANGED <<bucketVars, setup, engine>>

TimeOut(a) ==
    /\ Late(gate[a])
    /\ Lost(a)

(* What DeterministicMentorStream may tell.  A question the bank's keywords do
   not cover goes to the gateway's own call of the model, whose text is told
   as it is; if that gives none, to the bank. *)
Questioned == {"bank", "model"}

(* A concept of the glossary is explained from it; one it lacks is the model's
   to explain, and failing that a question like any other. *)
Explained == {"bank", "model"} \cup Questioned

(* A plan is rendered from the bank's frameworks. *)
Planned == {"bank"}

(* A trade whose snapshot is there is challenged by its risk flags. *)
Challenged == {"bank"}

Composed(mode) ==
    CASE mode = "concept"   -> Explained
      [] mode = "plan"      -> Planned
      [] mode = "trade_now" -> Challenged \cup Questioned
      [] mode = "socratic"  -> Questioned

Compose(a) ==
    /\ gate[a].at = "composing"
    /\ \E text \in Composed(gate[a].mode) :
          gate' = [gate EXCEPT ![a].at = "told", ![a].told = text]
    /\ UNCHANGED <<bucketVars, setup, engine>>

GatewayStep(a) == Tell(a) \/ TimeOut(a) \/ Compose(a)

AskStep(a) ==
    \/ \E mode \in Modes : Ask(a, mode)
    \/ \E kind \in {"concept", "strategy"} : Call(a, kind)
    \/ EngineStep(a) \/ GatewayStep(a) \/ Lost(a)
================================================================================
