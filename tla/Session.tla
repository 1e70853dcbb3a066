------------------------------- MODULE Session -------------------------------
(***************************************************************************)
(* A psycopg connection to Postgres as consumer/search.py, eval/recall.py  *)
(* and eval/isolation_experiment.py use one: the transaction that the      *)
(* first statement opens, planner settings that last until that            *)
(* transaction ends, and the plan that is cached for a statement which is  *)
(* executed often.  The connection is a value; each operator says what one *)
(* use makes of it.                                                        *)
(***************************************************************************)
EXTENDS Naturals

CONSTANTS Null,        \* no plan, no result
          DefaultEf,   \* hnsw.ef_search when nobody sets it
          CustomRuns   \* executions of a statement before a cached plan may
                       \* serve it: 5 before psycopg prepares it
                       \* (prepare_threshold), 5 custom plans of Postgres

Scans == {"sequential", "index"}

ASSUME SessionAssumption ==
  /\ Null \notin Scans
  /\ DefaultEf \in Nat \ {0}
  /\ CustomRuns \in Nat

(* enable_bitmapscan always goes with enable_indexscan.                     *)
Settings == [seqscan : BOOLEAN, indexscan : BOOLEAN, ef : Nat]
Defaults == [seqscan |-> TRUE, indexscan |-> TRUE, ef |-> DefaultEf]

(* open: a transaction is open; set: the settings in force; runs: how often *)
(* the top-k statement has been executed; generic: the scan of its cached   *)
(* plan.                                                                    *)
Sessions == [open : BOOLEAN, set : Settings, runs : Nat, generic : Scans \cup {Null}]

Connected == [open |-> FALSE, set |-> Defaults, runs |-> 0, generic |-> Null]

(* A statement outside a block opens a transaction, which stays open.       *)
Executed(s) == [s EXCEPT !.open = TRUE]

(* commit() ends it, and SET LOCAL with it.                                 *)
Committed(s) == [s EXCEPT !.open = FALSE, !.set = Defaults]

(* The end of "with conn.transaction()".  In an open transaction the block  *)
(* is a savepoint, whose release keeps the settings.                        *)
BlockLeft(s) == IF s.open THEN s ELSE Committed(s)

(* enable_* = off is a price and no ban: the planner is free where both     *)
(* scans are allowed, and where both are not.                               *)
Planned(set) ==
  IF set.seqscan = set.indexscan THEN Scans
  ELSE {IF set.seqscan THEN "sequential" ELSE "index"}

(* The scans an execution may run, with the plan that is cached afterwards. *)
(* A cached plan is made under the settings of its time, does not follow    *)
(* later ones, and is used whenever its estimate is good enough.            *)
Executions(s) ==
  IF s.runs < CustomRuns
  THEN {[scan |-> x, generic |-> Null] : x \in Planned(s.set)}
  ELSE LET cached == IF s.generic = Null THEN Planned(s.set) ELSE {s.generic}
       IN  {[scan |-> g, generic |-> g] : g \in cached} \cup
           {[scan |-> x, generic |-> g] : x \in Planned(s.set), g \in cached}

(* One execution in a block with these settings.                            *)
AfterExecution(s, set, x) ==
  BlockLeft([s EXCEPT !.set = set, !.runs = @ + 1, !.generic = x.generic])
=============================================================================
