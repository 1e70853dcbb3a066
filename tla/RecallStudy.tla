----------------------------- MODULE RecallStudy -----------------------------
(***************************************************************************)
(* The commands that search the embeddings of failures by their distance   *)
(* to a query: semantic search (consumer/search.py), the recall            *)
(* measurement (eval/recall.py) and the isolation experiment               *)
(* (eval/isolation_experiment.py).  One command runs at a time, on a       *)
(* connection of its own (Session), while the consumer fills the table of  *)
(* embeddings; it can be killed anywhere.  What outlives a command is the  *)
(* experiment's scratch table and the file RECALL.md, which two of the     *)
(* commands write.                                                         *)
(*                                                                         *)
(* A row of a table is <<command that inserted it, event>>, 0 for the      *)
(* consumer.  The distances of events to queries are given: two distances  *)
(* are equal when they are within EPSILON of each other.                   *)
(***************************************************************************)
EXTENDS Session, Sequences, FiniteSetsExt

CONSTANTS Failures,      \* failures the consumer may store
          Queries,       \* the length of QUERY_SET
          Distance,      \* Distance[q][e]: of event e to query q
          K,             \* --k
          Sweeps,        \* values of --ef-search, as sequences
          HeadlineEf,    \* HEADLINE_EF_SEARCH
          ExperimentEfs, \* EF_SEARCH_VALUES
          Baseline,      \* the baseline's events, batch by batch
          Novel,         \* the novel events, in the order of insertion
          Checkpoints,   \* CLUSTER_CHECKPOINTS
          SearchThreshold, \* EXACT_SCAN_THRESHOLD
          MaxCommands    \* bound: commands

Events == Failures \cup (UNION {Baseline[b] : b \in 1 .. Len(Baseline)})
            \cup {Novel[n] : n \in 1 .. Len(Novel)}

ASSUME StudyAssumption ==
  /\ {Queries, K, HeadlineEf} \subseteq Nat \ {0}
  /\ IsFiniteSet(Events)
  /\ Distance \in [1 .. Queries -> [Events -> Nat]]
  /\ Sweeps \subseteq Seq(Nat \ {0}) \ {<<>>}
  /\ ExperimentEfs \in Seq(Nat \ {0}) \ {<<>>}
  /\ Baseline \in Seq(SUBSET Events) \ {<<>>}
  /\ Novel \in Seq(Events)
  /\ Checkpoints \in Seq(1 .. Len(Novel)) \ {<<>>}
  /\ \A i \in 1 .. Len(Checkpoints) - 1 : Checkpoints[i] \leq Checkpoints[i + 1]
  /\ SearchThreshold \in Nat /\ MaxCommands \in Nat

VARIABLES
  \* the database and the file system
  corpus,    \* rows of table embeddings
  scratch,   \* rows of table eval_isolation.embeddings
  report,    \* RECALL.md: its parts, by the command that wrote them
  \* the command under way
  command,   \* how many commands have been started
  study,     \* "recall", "isolation" or "search"
  stage,     \* where it is; "idle" when no command runs
  step,      \* the query, the batch or the checkpoint it is at
  sweep,     \* the ef_search values it measures
  pos,       \* the one it is at
  session,   \* its connection
  counted,   \* the rows of embeddings it has counted
  kept,      \* what it will write in front of its part of RECALL.md
  exact,     \* the last exact scan: its rows, of which table
  compared,  \* the last comparison of the index with it
  searched   \* the last search: its rows, of which table, by what path

tableVars  == <<corpus, scratch, report>>
placeVars  == <<command, study, stage, step, sweep, pos>>
resultVars == <<exact, compared, searched>>
studyVars  == <<tableVars, placeVars, session, counted, kept, resultVars>>

StudyInit ==
  /\ corpus \in SUBSET ({0} \X Failures)
  /\ scratch = {} /\ report = <<>>
  /\ command = 0 /\ study = "search" /\ stage = "idle"
  /\ step = 1 /\ sweep = <<>> /\ pos = 1
  /\ session = Connected /\ counted = 0 /\ kept = <<>>
  /\ exact = Null /\ compared = Null /\ searched = Null

-----------------------------------------------------------------------------
(* Scans and metrics.                                                       *)
Table == IF study = "isolation" THEN scratch ELSE corpus
Query == IF study = "recall" THEN step ELSE 1

AtMostK(T) == Min({K, Cardinality(T)})
IsNearest(q, S, T) ==
  /\ S \subseteq T /\ Cardinality(S) = AtMostK(T)
  /\ \A near \in S, far \in T \ S : Distance[q][near[2]] \leq Distance[q][far[2]]

(* ORDER BY distance LIMIT k: ties are open.  The index looks at ef rows    *)
(* and may miss any; from a table with rows it returns one.                 *)
Found(scan, ef, T) ==
  {S \in SUBSET T :
     IF scan = "sequential" THEN IsNearest(Query, S, T)
     ELSE Cardinality(S) \leq Min({ef, AtMostK(T)}) /\ (S = {} => T = {})}

To(row) == Distance[Query][row[2]]

(* Entry i of the sorted distances of S.                                    *)
DistanceAt(S, i) ==
  CHOOSE d \in {To(r) : r \in S} :
    /\ Cardinality({r \in S : To(r) < d}) < i
    /\ Cardinality({r \in S : To(r) \leq d}) \geq i

(* A score is a share of k, also where the table has fewer rows.            *)
OutOfK(matches) == [matches |-> matches, of |-> K]
Full(score) == score.matches = score.of

(* Mutant of DistanceRecall: the distances are compared as sets.            *)
DistancesInCommon(E, H) ==
  OutOfK(Cardinality({r \in E : \E h \in H : To(h) = To(r)}))

(* _id_recall(), _distance_recall().                                        *)
IdRecall(E, H) == OutOfK(Cardinality(E \cap H))
DistanceRecall(E, H) ==
  OutOfK(Cardinality({i \in 1 .. Cardinality(E) : DistanceAt(E, i) = DistanceAt(H, i)}))

-----------------------------------------------------------------------------
(* Mutant of Connection: one connection serves all commands.                *)
ConnectionKept == session
Connection == Connected

Start(s, efs) ==
  /\ stage = "idle" /\ command < MaxCommands
  /\ command' = command + 1
  /\ study' = s /\ sweep' = efs
  /\ stage' = "count"
  /\ step' = 1 /\ pos' = 1
  /\ session' = Connection
  /\ exact' = Null /\ compared' = Null /\ searched' = Null
  /\ UNCHANGED <<tableVars, counted, kept>>

(* An exception, or a kill: the connection is closed, nothing is written.   *)
Stop ==
  /\ stage' = "idle"
  /\ UNCHANGED <<tableVars, command, study, step, sweep, pos, session, counted, kept>>
Kill == stage # "idle" /\ Stop /\ UNCHANGED resultVars

(* The first statement counts rows: those a search chooses its path by,     *)
(* the corpus of the measurement, and the experiment's safety check.        *)
Count ==
  /\ stage = "count"
  /\ stage' = CASE study = "search" -> "search" [] study = "recall" -> "exact"
                [] study = "isolation" -> "setup"
  /\ session' = Executed(session)
  /\ counted' = Cardinality(corpus)
  /\ UNCHANGED <<tableVars, command, study, step, sweep, pos, kept, resultVars>>

(* search(): a small table is scanned, of a large one the index is asked.   *)
Search ==
  /\ stage = "search"
  /\ LET small == counted \leq SearchThreshold
         set   == IF small THEN [session.set EXCEPT !.indexscan = FALSE] ELSE session.set
     IN  \E x \in Executions([session EXCEPT !.set = set]) :
           /\ \E S \in Found(x.scan, set.ef, corpus) :
                searched' = [path |-> IF small THEN "exact" ELSE "hnsw",
                             rows |-> S, table |-> corpus, index |-> set.indexscan]
           /\ session' = AfterExecution(session, set, x)
  /\ stage' = "idle"
  /\ UNCHANGED <<tableVars, command, study, step, sweep, pos, counted, kept, exact,
                 compared>>

-----------------------------------------------------------------------------
(* The experiment's table.  Mutant of EmptyTable: one that is there stays.  *)
TableStays == scratch
EmptyTable == {}

(* DROP SCHEMA IF EXISTS ... CREATE TABLE, committed.                       *)
SetUp ==
  /\ stage = "setup"
  /\ scratch' = EmptyTable
  /\ session' = Committed(session)
  /\ stage' = "baseline" /\ step' = 1
  /\ UNCHANGED <<corpus, report, command, study, sweep, pos, counted, kept, resultVars>>

(* Mutant of InsertBaseline: the loop ends one batch early.                 *)
BatchForgotten ==
  /\ stage = "baseline"
  /\ scratch' = scratch \cup ({command} \X Baseline[step])
  /\ session' = Committed(session)
  /\ IF step + 1 < Len(Baseline) THEN step' = step + 1 /\ stage' = stage
     ELSE step' = 1 /\ stage' = "novel"
  /\ UNCHANGED <<corpus, report, command, study, sweep, pos, counted, kept, resultVars>>

(* _insert_rows(): one transaction per batch.                               *)
InsertBaseline ==
  /\ stage = "baseline"
  /\ scratch' = scratch \cup ({command} \X Baseline[step])
  /\ session' = Committed(session)
  /\ IF step < Len(Baseline) THEN step' = step + 1 /\ stage' = stage
     ELSE step' = 1 /\ stage' = "novel"
  /\ UNCHANGED <<corpus, report, command, study, sweep, pos, counted, kept, resultVars>>

NovelUpTo(n) == {command} \X {Novel[i] : i \in 1 .. n}

InsertNovel ==
  /\ stage = "novel"
  /\ scratch' = scratch \cup NovelUpTo(Checkpoints[step])
  /\ session' = Committed(session)
  /\ stage' = "exact"
  /\ UNCHANGED <<corpus, report, command, study, step, sweep, pos, counted, kept,
                 resultVars>>

-----------------------------------------------------------------------------
(* Mutant of ExactSettings: as before Sub-commit 20C-3, only what the mode  *)
(* needs off is set.                                                        *)
OnlyIndexOff == [session.set EXCEPT !.indexscan = FALSE]

(* _topk(): every setting is set, whatever the last call has left.          *)
ExactSettings == [session.set EXCEPT !.seqscan = TRUE, !.indexscan = FALSE]
IndexSettings(ef) == [seqscan |-> FALSE, indexscan |-> TRUE, ef |-> ef]

ScanExact ==
  /\ stage = "exact"
  /\ \E x \in Executions([session EXCEPT !.set = ExactSettings]) :
       /\ \E S \in Found(x.scan, session.set.ef, Table) :
            exact' = [rows |-> S, table |-> Table, query |-> Query]
       /\ session' = AfterExecution(session, ExactSettings, x)
  /\ stage' = "hnsw" /\ pos' = 1
  /\ compared' = Null
  /\ UNCHANGED <<tableVars, command, study, step, sweep, counted, kept, searched>>

(* On to the next ef_search, query or checkpoint, or to the report.         *)
Steps == IF study = "recall" THEN Queries ELSE Len(Checkpoints)
Proceed ==
  IF pos < Len(sweep) THEN pos' = pos + 1 /\ UNCHANGED <<step, stage>>
  ELSE IF step < Steps
  THEN /\ step' = step + 1 /\ pos' = pos
       /\ stage' = IF study = "recall" THEN "exact" ELSE "novel"
  ELSE stage' = "measured" /\ UNCHANGED <<step, pos>>

(* One ef_search.  zip(strict=True) raises when the index has returned too  *)
(* few rows, exact_distances[-1] when there are none.                       *)
ScanIndex ==
  /\ stage = "hnsw"
  /\ LET set == IndexSettings(sweep[pos])
     IN  \E x \in Executions([session EXCEPT !.set = set]) :
         \E S \in Found(x.scan, sweep[pos], Table) :
           IF Cardinality(S) = Cardinality(exact.rows) /\ S # {}
           THEN /\ compared' = [rows |-> S, table |-> Table,
                                id |-> IdRecall(exact.rows, S),
                                distance |-> DistanceRecall(exact.rows, S)]
                /\ session' = AfterExecution(session, set, x)
                /\ Proceed
           ELSE /\ compared' = Null /\ session' = session
                /\ stage' = "idle" /\ UNCHANGED <<step, pos>>
  /\ UNCHANGED <<tableVars, command, study, sweep, counted, kept, exact, searched>>

-----------------------------------------------------------------------------
(* RECALL.md.  The measurement prints its headline figure first: there is   *)
(* none if the sweep lacks HEADLINE_EF_SEARCH.  The experiment counts the   *)
(* rows of embeddings again, and raises if the consumer stored some.        *)
Finishes == IF study = "recall" THEN \E i \in 1 .. Len(sweep) : sweep[i] = HeadlineEf
            ELSE counted = Cardinality(corpus)

(* What stands in front of the first of the experiment's sections.          *)
BeforeSection ==
  LET sections == {i \in 1 .. Len(report) : report[i].by = "isolation"}
  IN  SubSeq(report, 1, Min(sections \cup {Len(report) + 1}) - 1)

(* Mutant of KeptPart: the section is appended to whatever is there.        *)
AppendOnly == IF study = "recall" THEN <<>> ELSE report
KeptPart == IF study = "recall" THEN <<>> ELSE BeforeSection

OpenReport ==
  /\ stage = "measured"
  /\ Finishes
  /\ stage' = "write"
  /\ kept' = KeptPart
  /\ report' = <<>>
  /\ UNCHANGED <<corpus, scratch, command, study, step, sweep, pos, session, counted,
                 resultVars>>

NoReport == stage = "measured" /\ ~Finishes /\ Stop /\ UNCHANGED resultVars

WriteReport ==
  /\ stage = "write"
  /\ stage' = "idle"
  /\ report' = Append(kept, [by |-> study, command |-> command])
  /\ UNCHANGED <<corpus, scratch, command, study, step, sweep, pos, session, counted,
                 kept, resultVars>>

(* The consumer commits a batch.                                            *)
Ingest ==
  /\ \E S \in (SUBSET ({0} \X Failures)) \ {{}} :
       S \cap corpus = {} /\ corpus' = corpus \cup S
  /\ UNCHANGED <<scratch, report, placeVars, session, counted, kept, resultVars>>

StudyNext ==
  \/ Start("search", <<>>)
  \/ \E efs \in Sweeps : Start("recall", efs)
  \/ Start("isolation", ExperimentEfs)
  \/ Kill \/ Count \/ Search
  \/ SetUp \/ InsertBaseline \/ InsertNovel
  \/ ScanExact \/ ScanIndex
  \/ OpenReport \/ NoReport \/ WriteReport
  \/ Ingest
  \/ stage = "idle" /\ command = MaxCommands /\ UNCHANGED studyVars

StudySpec == StudyInit /\ [][StudyNext]_studyVars
-----------------------------------------------------------------------------
(* The inductive invariant, by parts.  A command is at a stage of its own,  *)
(* at a query, batch or checkpoint that exists.                             *)
StagesOf ==
  [search    |-> {"count", "search"},
   recall    |-> {"count", "exact", "hnsw", "measured", "write"},
   isolation |-> {"count", "setup", "baseline", "novel", "exact", "hnsw", "measured",
                  "write"}]

StudyTypeOK ==
  /\ command \in 0 .. MaxCommands /\ (stage # "idle" => command # 0)
  /\ study \in {"search", "recall", "isolation"}
  /\ stage \in StagesOf[study] \cup {"idle"}
  /\ stage = "baseline" => step \in 1 .. Len(Baseline)
  /\ stage = "count" => step = 1
  /\ stage \in {"exact", "hnsw", "novel"} => step \in 1 .. Steps
  /\ stage = "hnsw" => pos \in 1 .. Len(sweep)
  /\ sweep \in Seq(Nat \ {0}) /\ (study # "search" => sweep # <<>>)
  /\ session \in Sessions
  /\ Len(report) \in 0 .. 2
  /\ \A i \in 1 .. Len(report) :
       report[i] \in [by : {"recall", "isolation"}, command : 1 .. command]

(* No plan is cached before CustomRuns executions, and a connection is as   *)
(* it was made until its first scan.                                        *)
SessionInv ==
  /\ session.generic # Null => session.runs \geq CustomRuns
  /\ stage \in {"count", "search"} => session.set = Defaults /\ session.generic = Null

(* The scratch table grows with the command that set it up.                 *)
OwnRows(batches, novel) ==
  ({command} \X (UNION {Baseline[b] : b \in 1 .. batches})) \cup NovelUpTo(novel)

ScratchInv ==
  /\ stage = "baseline" => scratch = OwnRows(step - 1, 0)
  /\ stage = "novel" =>
       scratch = OwnRows(Len(Baseline), IF step = 1 THEN 0 ELSE Checkpoints[step - 1])

(* What a command finds in RECALL.md is older than the command, and what it *)
(* keeps of it is the part of a measurement.                                *)
ReportInv ==
  /\ stage # "idle" => \A i \in 1 .. Len(report) : report[i].command < command
  /\ stage = "write" =>
       /\ report = <<>>
       /\ \/ kept = <<>>
          \/ /\ study = "isolation" /\ Len(kept) = 1
             /\ kept \in Seq([by : {"recall"}, command : 1 .. command - 1])

(* Every setting is set on every call: without a cached plan, the exact     *)
(* scan is exact whatever ran before on the connection (recall.py:190-205). *)
ExactUnlessCached ==
  exact # Null /\ session.generic = Null => IsNearest(exact.query, exact.rows, exact.table)

(* The path a search reports is the one it took, and the index is there for *)
(* the searches that want it, although SET LOCAL outlives its block         *)
(* (search.py:83-89, 109-116): each has a connection of its own.            *)
ReportedPathRan ==
  searched # Null =>
    /\ searched.path = "exact" => IsNearest(1, searched.rows, searched.table)
    /\ searched.path = "hnsw" => searched.index

(* If both scans saw the same table and the ground truth is one, as many    *)
(* distances match as there are rows to return exactly when the index has   *)
(* returned the nearest, whichever of the tied ones; the score is full, 1.0 *)
(* of the report, exactly then and if the table has k rows: a perfect       *)
(* result over fewer scores less (recall.py:31-37, 235).                    *)
FullScoreIsOptimal ==
  compared # Null /\ compared.table = exact.table
      /\ IsNearest(exact.query, exact.rows, exact.table)
    => LET perfect == IsNearest(exact.query, compared.rows, compared.table)
       IN  /\ compared.distance.matches = AtMostK(exact.table) <=> perfect
           /\ Full(compared.distance) <=> Cardinality(exact.table) \geq K /\ perfect

(* What is measured at a checkpoint is this experiment's baseline and the   *)
(* novel rows up to it, whatever a killed one has left                      *)
(* (isolation_experiment.py:12-25, 156-170, 246-255).                       *)
ScratchIsOwn ==
  study = "isolation" /\ stage \in {"exact", "hnsw"} =>
    scratch = OwnRows(Len(Baseline), Checkpoints[step])

(* RECALL.md holds at most one section of the experiment, last, and never   *)
(* one older than the measurement above it, although either command may be  *)
(* run again, fail or be killed while it writes                             *)
(* (isolation_experiment.py:505-517, recall.py:830-832).                    *)
NoStaleSection ==
  \A i, j \in 1 .. Len(report) : i < j =>
    /\ report[i].by = "recall" /\ report[j].by = "isolation"
    /\ report[i].command < report[j].command

CommandInv ==
  /\ StudyTypeOK /\ SessionInv /\ ScratchInv /\ ReportInv
  /\ ExactUnlessCached /\ ReportedPathRan /\ ScratchIsOwn /\ NoStaleSection

(* The tables are finite, and the exact scan that the index is compared     *)
(* with was for the query that is at hand.                                  *)
TablesInv ==
  /\ corpus \subseteq {0} \X Failures
  /\ scratch \subseteq (1 .. command) \X Events
  /\ stage = "hnsw" => exact.query = Query

StudyInv == CommandInv /\ TablesInv /\ FullScoreIsOptimal

(* The exact scan is "the only valid ground truth for recall"               *)
(* (recall.py:182-186).                                                     *)
GroundTruthIsExact == exact # Null => IsNearest(exact.query, exact.rows, exact.table)
=============================================================================
