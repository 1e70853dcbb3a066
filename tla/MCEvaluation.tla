---------------------------- MODULE MCEvaluation ----------------------------
(***************************************************************************)
(* What eval/ does, side by side: the conversation a question is put to    *)
(* and the record read back from it (Transcript), a golden question with   *)
(* its grading (EvalRun), or the commands of the recall study              *)
(* (RecallStudy).  They share no state, and each is explored for itself.   *)
(***************************************************************************)
EXTENDS Transcript, MCEvalRun, MCRecallStudy

VARIABLE part

EvaluationInit ==
  /\ ChatInit /\ Init /\ StudyInit
  /\ part \in {"chat", "questions", "study"}
  /\ part # "study" => corpus = {}
  /\ part # "questions" => stored = {} /\ now = 0 /\ question = "freshness"

EvaluationNext ==
  \/ part = "chat" /\ ChatNext /\ UNCHANGED <<vars, studyVars, part>>
  \/ part = "questions" /\ Next /\ UNCHANGED <<chatVars, studyVars, part>>
  \/ part = "study" /\ StudyNext /\ UNCHANGED <<chatVars, vars, part>>

EvaluationSpec ==
  EvaluationInit /\ [][EvaluationNext]_<<chatVars, vars, studyVars, part>>
=============================================================================
