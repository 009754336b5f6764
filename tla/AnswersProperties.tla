--------------------------- MODULE AnswersProperties ---------------------------
(* What the answers promise; see Answers.tla. *)
EXTENDS Answers, TokenBucketProperties

AnswersTypeOK ==
    /\ setup \in [llm : BOOLEAN, key : BOOLEAN, judge : BOOLEAN]
    /\ gate \in [Asks -> [at : {"idle", "waiting", "composing", "elsewhere", "told"},
                          mode : Modes, since : Nat,
                          told : {"nothing", "bank", "llm", "bank and llm", "model"}]]
    /\ engine \in [Asks -> [at : {"idle", "posted", "acquiring", "generating",
                                  "judging", "answered"},
                            kind : Kinds, attempt : 0..MaxRetries, round : 1..2,
                            again : BOOLEAN, draft : Drafts,
                            verdict : {"none", "fine", "violation"},
                            from : {"nothing", "bank", "llm", "bank and llm"}]]

(* A statement the policy forbids.  What asks is the policy's own idea of a
   question, a sentence with a question mark or one that opens like a question
   (policy.py:43-47): a statement that opens so is not one here either. *)
Forbidden(s) == ~s.asks /\ s.says \in {"advice", "judgment", "target"}

(* In what the player is told as the model's reply, the questions and the tip
   never state what the policy forbids, not in a sentence a question mark was
   added to either, have no number the prompt lacks, and are not a text the
   judge refused, in the first round or in the second.  The disclaimer told
   below them, draft.note, is the exception: the model writes it, and none of
   the checks looks at it. *)
Screened ==
    /\ AnswersTypeOK
    /\ \A a \in Asks :
          gate[a].told = "llm" =>
              /\ ~Forbidden(engine[a].draft.first)
              /\ ~Forbidden(engine[a].draft.second)
              /\ Grounded(engine[a].draft)
              /\ engine[a].verdict # "violation"

(* "the player never goes without an answer" (mentor_client.py:5): whatever
   becomes of the engine, of the token or of the call, a question that was
   asked is told an answer.  And the engine finishes every request it took
   up, on its own: it never waits for a token for ever, nor asks the model or
   the judge for ever. *)
AlwaysAnswered ==
    \A a \in Asks :
        /\ gate[a].at = "waiting" ~> gate[a].at = "told"
        /\ engine[a].at = "acquiring" ~> engine[a].at = "answered"
================================================================================
