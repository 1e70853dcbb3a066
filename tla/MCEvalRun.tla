------------------------------ MODULE MCEvalRun ------------------------------
(* A small instance of EvalRun for TLC: rows 1 to 3, two gateways, an id no  *)
(* row has.  Row 3 can come while the agent works, and is the second row of  *)
(* its gateway and its only failure: the count of a and its rate are then    *)
(* just at the tolerances of the configuration.                              *)
EXTENDS EvalRun

CONSTANTS a, b

MCRows == 1 .. 3
MCGatewayOf == [r \in MCRows |-> IF r = 1 THEN b ELSE a]
MCAsks == {{1}, {2, 9}}

(* Only what the checks of a question look at varies.                        *)
Nothing == [g \in {a, b} |-> None]
Rates == {None, Garbled, 0, 5000, 5001, 10000}
Citable(q) == CASE q = "fraud_pattern" -> {1, 2, 9}
                [] q = "novel_error"   -> {1, 3, 9}
                [] q \in {"aggregation", "gateway_rate"} -> {}
                [] OTHER               -> {9}
Phrases(q) == {{}, {1, 2, 3}} \cup CASE q = "novel_error" -> {{2}}
                                    [] q = "freshness"   -> {{1}}
                                    [] OTHER             -> {}
MCAnswers ==
  [q \in Questions |->
     {[cited |-> c, says |-> t, numbers |-> n, rate |-> x] :
        c \in SUBSET Citable(q), t \in Phrases(q),
        n \in IF q = "aggregation" THEN [{a, b} -> {None, Garbled, 1, 2}] ELSE {Nothing},
        x \in IF q = "gateway_rate" THEN Rates ELSE {None}}]
=============================================================================
