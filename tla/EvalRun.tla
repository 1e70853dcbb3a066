------------------------------- MODULE EvalRun -------------------------------
(***************************************************************************)
(* One golden question from the asking to the verdict: the agent calls     *)
(* tools (Tools) and answers, the harness captures ground truth right      *)
(* after (eval/run_eval.py, eval/ground_truth_queries.py), and some time   *)
(* later the grader scores the record (eval/grade.py,                      *)
(* eval/mechanical_checks.py).  The stream goes on all the while.          *)
(*                                                                         *)
(* The answer is whatever a model may write.  Of its text the model keeps  *)
(* what the regular expressions look for: the ids it cites, a number per   *)
(* category or a rate in ten-thousandths, and the set of assertions whose  *)
(* phrase is there.  What a regular expression captures as a number need   *)
(* not be one (Garbled): a comma after the category is captured as well.   *)
(***************************************************************************)
EXTENDS Tools

CONSTANTS Marked,          \* rows that match the incident's BIN or signature
          Focus,           \* the gateway of gateway_rate
          Sample,          \* LIMIT of the ground-truth samples
          QuestionWindow,  \* window of the ground-truth queries
          Garbled,         \* captured as a number, and none
          CountTolerance,  \* COUNT_TOLERANCE_PCT, in percent
          RateTolerance,   \* RATE_TOLERANCE_ABS, in ten-thousandths
          Answers          \* bound: what an answer to a question may hold

ASSUME EvalAssumption ==
  /\ CountTolerance \in Nat /\ RateTolerance \in Nat \ {0}
  /\ None # Garbled /\ Garbled \notin Int

Questions == {"aggregation", "gateway_rate", "fraud_pattern", "novel_error",
              "freshness", "hallucination_control"}

VARIABLES question,
          phase,       \* "agent", "answered", "captured", then "graded" or
                       \* "ungraded", when the grader has stopped
          answer, truth, verdict,
          answeredOn   \* history: the rows when the answer was given

evalVars == <<question, phase, answer, truth, verdict, answeredOn>>
vars == <<toolVars, evalVars>>

Expected(q) ==
  CASE q \in {"aggregation", "gateway_rate", "hallucination_control"} -> {"query_stats"}
    [] q = "fraud_pattern" -> {"get_transactions"}
    [] q = "novel_error" -> {"semantic_search", "get_transactions"}
    [] q = "freshness" -> {"system_freshness"}

(* ASSERTION_CHECKS, by what decides each.                                  *)
AssertionChecks(q) ==
  CASE q = "aggregation"           -> <<"text", "text", "number">>
    [] q = "gateway_rate"          -> <<"text", "number", "text">>
    [] q = "fraud_pattern"         -> <<"text", "text", "cites">>
    [] q = "novel_error"           -> <<"semantic", "text", "cites">>
    [] q = "freshness"             -> <<"text", "recent">>
    [] q = "hallucination_control" -> <<"text", "text">>

Init ==
  /\ now \in 0 .. MaxNow
  /\ stored \in SUBSET {r \in Rows : r \leq now}
  /\ call = None /\ results = <<>>
  /\ question \in Questions
  /\ phase = "agent"
  /\ answer = None /\ truth = None /\ verdict = None /\ answeredOn = {}

Agent == phase = "agent" /\ Tool /\ UNCHANGED evalVars

Answer(a) ==
  /\ phase = "agent" /\ call = None
  /\ phase' = "answered"
  /\ answer' = a
  /\ answeredOn' = stored
  /\ UNCHANGED <<toolVars, question, truth, verdict>>

(* GROUND_TRUTH_FUNCS: fresh SQL, over the window of the question.          *)
Matching ==
  Marked \cap
    CASE question = "fraud_pattern" -> Newest(stored \ Failed, Sample)
      [] question = "novel_error" ->
           Newest(InWindow(QuestionWindow, now) \cap Failed, Sample)
      [] OTHER -> {}

Capture ==
  /\ phase = "answered"
  /\ phase' = "captured"
  /\ truth' = [rows |-> InWindow(QuestionWindow, now), matching |-> Matching]
  /\ UNCHANGED <<toolVars, question, answer, verdict, answeredOn>>

-----------------------------------------------------------------------------
(* _tool_results_blob(): the ids in any tool result.                        *)
Blob == UNION {results[k].ids : k \in 1 .. Len(results)}

(* Mutants of CheckCitations: the database answers for all ids; a run       *)
(* without results is not checked.                                          *)
UnknownIsFabricated(cited, existing, checked) ==
  LET others == cited \ Blob
      real   == IF checked THEN {} ELSE others
  IN  [valid |-> cited \ others, fabricated |-> others \ real, ungrounded |-> real,
       passed |-> others = {}]
EmptyBlobGrounds(cited, existing, checked) ==
  LET others == IF Blob = {} THEN {} ELSE cited \ Blob
      real   == IF checked THEN others \cap existing ELSE {}
  IN  [valid |-> cited \ others, fabricated |-> others \ real, ungrounded |-> real,
       passed |-> others = {}]

CheckCitations(cited, existing, checked) ==
  LET others == cited \ Blob
      real   == IF checked THEN others \cap existing ELSE {}
  IN  [valid |-> cited \ others, fabricated |-> others \ real, ungrounded |-> real,
       passed |-> others = {}]

(* Mutant of WithinTolerance: strictly less.                                *)
StrictlyWithin(x, y) ==
  100 * (IF x > y THEN x - y ELSE y - x) < CountTolerance * y

(* The extracted count x against the ground truth y.                        *)
WithinTolerance(x, y) ==
  100 * (IF x > y THEN x - y ELSE y - x) \leq CountTolerance * y

(* The rates are compared as binary fractions: at a difference of just the  *)
(* tolerance it is their rounding that decides.                             *)
RateVerdicts(x, y) ==
  LET difference == IF x > y THEN x - y ELSE y - x
  IN  IF difference < RateTolerance THEN {TRUE}
      ELSE IF difference > RateTolerance THEN {FALSE} ELSE BOOLEAN

(* int() and float() raise on what is no number, and nothing catches it.    *)
Extractable ==
  /\ question = "aggregation" => \A g \in Gateways : answer.numbers[g] # Garbled
  /\ question = "gateway_rate" => answer.rate # Garbled

(* What could not be extracted, or has no ground truth, is not checked.     *)
NumericVerdicts ==
  CASE question = "aggregation" ->
         {\A g \in Gateways :
            answer.numbers[g] # None /\ Counted(truth.rows, g) # 0
              => WithinTolerance(answer.numbers[g], Counted(truth.rows, g))}
    [] question = "gateway_rate" ->
         IF answer.rate # None /\ Counted(truth.rows, Focus) # 0
         THEN RateVerdicts(answer.rate, Rate(truth.rows, Focus))
         ELSE {TRUE}
    [] OTHER -> {TRUE}

RoutingPassed ==
  \E k \in 1 .. Len(results) : results[k].tool \in Expected(question)

(* A checker's verdict on the i-th assertion.                               *)
Attempted(i) == AssertionChecks(question)[i] # "recent" \/ 1 \in answer.says
Holds(i, citation) ==
  LET check == AssertionChecks(question)[i]
  IN  CASE check = "number" -> \/ answer.rate # None
                               \/ \E g \in Gateways : answer.numbers[g] # None
        [] check = "cites"  -> citation.valid \cap truth.matching # {}
        [] OTHER            -> i \in answer.says

Mechanical == {i \in 1 .. Len(AssertionChecks(question)) :
                 AssertionChecks(question)[i] # "semantic"}

(* Mutant of OverallPass: the assertions a model judges count, too.          *)
JudgedToo(citation, numeric) ==
  /\ citation.passed /\ numeric /\ RoutingPassed
  /\ \A i \in 1 .. Len(AssertionChecks(question)) :
       Attempted(i) => Holds(i, citation)

OverallPass(citation, numeric) ==
  /\ citation.passed /\ numeric /\ RoutingPassed
  /\ \A i \in Mechanical : Attempted(i) => Holds(i, citation)

FailureReasons(citation, numeric) ==
  (IF citation.passed THEN {} ELSE {<<"citation", 0>>})
    \cup (IF numeric THEN {} ELSE {<<"numeric_accuracy", 0>>})
    \cup (IF RoutingPassed THEN {} ELSE {<<"routing", 0>>})
    \cup {<<"assertion", i>> : i \in {j \in Mechanical :
                                        Attempted(j) /\ ~Holds(j, citation)}}

(* grade_run(), with the database there or not.                             *)
Grade(checked) ==
  /\ phase = "captured" /\ Extractable
  /\ phase' = "graded"
  /\ LET citation == CheckCitations(answer.cited,
                                    IF checked THEN answer.cited \cap stored ELSE {},
                                    checked)
     IN  \E numeric \in NumericVerdicts :
           verdict' = [citation |-> citation, checked |-> checked, numeric |-> numeric,
                       pass |-> OverallPass(citation, numeric),
                       reasons |-> FailureReasons(citation, numeric)]
  /\ UNCHANGED <<toolVars, question, answer, truth, answeredOn>>

(* main() closes the connection and ends with the exception: of this run    *)
(* and of the others in its file no verdict is written.                     *)
GradeRaises ==
  /\ phase = "captured" /\ ~Extractable
  /\ phase' = "ungraded"
  /\ UNCHANGED <<toolVars, question, answer, truth, verdict, answeredOn>>

Done == phase \in {"graded", "ungraded"}

Next ==
  \/ Agent
  \/ \E a \in Answers[question] : Answer(a)
  \/ Capture
  \/ \E checked \in BOOLEAN : Grade(checked)
  \/ GradeRaises
  \/ ~Done /\ Stream /\ UNCHANGED evalVars
  \/ Done /\ UNCHANGED vars

Spec == Init /\ [][Next]_vars
-----------------------------------------------------------------------------
TypeOK ==
  /\ ToolsTypeOK
  /\ question \in Questions
  /\ phase \in {"agent", "answered", "captured", "graded", "ungraded"}
  /\ call # None => phase = "agent"
  /\ phase = "agent" => answer = None
  /\ phase \in {"agent", "answered"} => truth = None
  /\ phase \in {"captured", "graded", "ungraded"} => truth.rows \subseteq Rows
  /\ phase # "graded" => verdict = None
  /\ answeredOn \subseteq stored

(* What passes for grounded is a transaction, unless the agent itself had   *)
(* passed the id to a tool: as an id to look up, in a query text or as a    *)
(* filter, which the results repeat whether there is such a row or not      *)
(* (mechanical_checks.py:68, transactions.py:139, 146, 181, semantic.py:88, *)
(* stats.py:122).                                                           *)
ValidIsRowOrAsked ==
  verdict # None =>
    verdict.citation.valid \subseteq
      stored \cup UNION {results[k].asked : k \in 1 .. Len(results)}

(* With the database there, no id that was a transaction when the answer    *)
(* was given is called fabricated, however late the grading                 *)
(* (grade.py:99-121, mechanical_checks.py:68-71).                           *)
FabricatedWasAbsent ==
  verdict # None /\ verdict.checked => verdict.citation.fabricated \cap answeredOn = {}

(* A run fails for reasons, and passes for want of them: the report shows   *)
(* one list, the pass rate counts the other (grade.py:162-206).             *)
PassIffNoReasons == verdict # None => (verdict.pass <=> verdict.reasons = {})

(* An answer that quotes the tool's figures passes the numeric check if the *)
(* rows that came or went between the tool's statement and the ground truth *)
(* are few enough: of a group's count up to the tolerance, of the rows a    *)
(* rate is over, up to the last digit short of it.  However many of them    *)
(* are failures, and whatever the rounding of both rates                    *)
(* (mechanical_checks.py:119-161, stats.py:89-95).                          *)
ComeOrGone(S, g) == Counted((S \ truth.rows) \cup (truth.rows \ S), g)

Quotes(s) ==
  /\ s.grouped
  /\ question = "aggregation" => \A g \in Gateways : answer.numbers[g] # None =>
       /\ g \in s.groups /\ answer.numbers[g] = Counted(s.rows, g)
       /\ 100 * ComeOrGone(s.rows, g) \leq CountTolerance * Counted(truth.rows, g)
  /\ question = "gateway_rate" /\ answer.rate # None =>
       /\ s.metric = "failure_rate" /\ Focus \in s.groups
       /\ answer.rate = Rate(s.rows, Focus)
       /\ 10000 * ComeOrGone(s.rows, Focus)
            \leq (RateTolerance - 1) * Counted(truth.rows, Focus)

QuotesAreAccurate ==
  verdict # None =>
    \A k \in 1 .. Len(results) :
      LET s == results[k].stats
      IN  s # None /\ Quotes(s) => verdict.numeric

EvalInv ==
  /\ TypeOK /\ IdsKnown /\ StatsInv
  /\ ValidIsRowOrAsked /\ FabricatedWasAbsent /\ PassIffNoReasons /\ QuotesAreAccurate
=============================================================================
