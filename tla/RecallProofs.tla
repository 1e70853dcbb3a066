---------------------------- MODULE RecallProofs ----------------------------
(***************************************************************************)
(* Proofs about RecallStudy for any tables, distances, sweeps and number   *)
(* of commands: the inductive invariant StudyInv, and what follows from it *)
(* about the two scans, the scratch table and RECALL.md.                   *)
(***************************************************************************)
EXTENDS RecallStudy, DataInduction, SequenceTheorems

Parts(c) == [by : {"recall", "isolation"}, command : 1 .. c]

-----------------------------------------------------------------------------
(* What an execution may do: no plan is cached early, and a scan without a  *)
(* cached plan is one of those the settings allow.                          *)
LEMMA ExecutionFacts ==
  ASSUME NEW s \in Sessions,
         s.generic # Null => s.runs \geq CustomRuns,
         NEW x \in Executions(s)
  PROVE  /\ x.generic \in Scans \cup {Null}
         /\ x.generic # Null => s.runs \geq CustomRuns
         /\ x.generic = Null => s.generic = Null
         /\ s.generic = Null => x.scan \in Planned(s.set)
<1>0. CustomRuns \in Nat /\ Null \notin Scans
  BY SessionAssumption DEF SessionAssumption
<1>1. Planned(s.set) \subseteq Scans
  BY DEF Planned, Scans
<1>2. s.runs \in Nat /\ s.generic \in Scans \cup {Null}
  BY DEF Sessions
<1>3. CASE s.runs < CustomRuns
  <2>1. s.generic = Null
    BY <1>0, <1>2, <1>3
  <2>2. PICK y \in Planned(s.set) : x = [scan |-> y, generic |-> Null]
    BY <1>3 DEF Executions
  <2>. QED  BY <2>1, <2>2
<1>4. CASE ~(s.runs < CustomRuns)
  <2>. DEFINE cached == IF s.generic = Null THEN Planned(s.set) ELSE {s.generic}
  <2>1. cached \subseteq Scans
    BY <1>1, <1>2
  <2>2. \/ \E g \in cached : x = [scan |-> g, generic |-> g]
        \/ \E y \in Planned(s.set), g \in cached : x = [scan |-> y, generic |-> g]
    BY <1>4 DEF Executions
  <2>3. x.generic \in cached /\ (x.scan = x.generic \/ x.scan \in Planned(s.set))
    BY <2>2
  <2>. QED  BY <1>0, <1>2, <1>4, <2>1, <2>3
<1>. QED  BY <1>3, <1>4

LEMMA AfterExecutionFacts ==
  ASSUME NEW s \in Sessions, NEW set \in Settings, NEW x,
         x.generic \in Scans \cup {Null}
  PROVE  /\ AfterExecution(s, set, x) \in Sessions
         /\ AfterExecution(s, set, x).generic = x.generic
         /\ AfterExecution(s, set, x).runs = s.runs + 1
<1>. DEFINE t == [s EXCEPT !.set = set, !.runs = @ + 1, !.generic = x.generic]
<1>1. t \in Sessions /\ t.generic = x.generic /\ t.runs = s.runs + 1
  <2>. DEFINE t1 == [s EXCEPT !.set = set]
              t2 == [t1 EXCEPT !.runs = @ + 1]
  <2>1. t1 \in Sessions /\ t1.runs = s.runs
    BY DEF Sessions
  <2>2. t = [t2 EXCEPT !.generic = x.generic]
    OBVIOUS
  <2>. HIDE DEF t1
  <2>3. t2 \in Sessions /\ t2.runs = s.runs + 1
    BY <2>1 DEF Sessions
  <2>. HIDE DEF t2, t
  <2>. QED  BY <2>2, <2>3 DEF Sessions
<1>2. Defaults \in Settings
  BY SessionAssumption DEF SessionAssumption, Settings, Defaults
<1>3. CASE t.open
  BY <1>1, <1>3 DEF AfterExecution, BlockLeft
<1>4. CASE ~t.open
  <2>1. AfterExecution(s, set, x) = [t EXCEPT !.open = FALSE, !.set = Defaults]
    BY <1>4 DEF AfterExecution, BlockLeft, Committed
  <2>. HIDE DEF t
  <2>. QED  BY <1>1, <1>2, <2>1 DEF Sessions
<1>. QED  BY <1>3, <1>4

LEMMA ConnectedFacts == Connected \in Sessions /\ Defaults \in Settings
BY SessionAssumption DEF SessionAssumption, Connected, Sessions, Settings, Defaults

(* What a scan finds in the order of the distances alone.                   *)
LEMMA SequentialIsNearest ==
  ASSUME NEW ef, NEW T, NEW S \in Found("sequential", ef, T)
  PROVE  IsNearest(Query, S, T)
BY DEF Found

(* A batch more, and the novel rows up to a later checkpoint.               *)
LEMMA BatchAdded ==
  ASSUME NEW n \in Nat \ {0}
  PROVE  OwnRows(n - 1, 0) \cup ({command} \X Baseline[n]) = OwnRows(n, 0)
BY DEF OwnRows, NovelUpTo

LEMMA NovelAdded ==
  ASSUME NEW b \in Nat, NEW m \in Nat, NEW n \in Nat, m \leq n
  PROVE  OwnRows(b, m) \cup NovelUpTo(n) = OwnRows(b, n)
BY DEF OwnRows, NovelUpTo

(* What the experiment keeps of a file in which its section is the last.    *)
LEMMA KeptIsMeasurement ==
  ASSUME NEW c \in Nat, NEW r, r = report, Len(r) \in 0 .. 2,
         \A i \in 1 .. Len(r) : r[i] \in Parts(c),
         NoStaleSection
  PROVE  \/ BeforeSection = <<>>
         \/ /\ Len(BeforeSection) = 1
            /\ BeforeSection \in Seq([by : {"recall"}, command : 1 .. c])
<1>. DEFINE sections == {i \in 1 .. Len(r) : r[i].by = "isolation"}
            ends == sections \cup {Len(r) + 1}
            m == Min(ends)
<1>1. Len(r) = 0 \/ Len(r) = 1 \/ Len(r) = 2
  OBVIOUS
<1>2. Len(r) = 2 => 2 \in sections
  BY DEF NoStaleSection
<1>3. \E x \in ends : \A y \in ends : x \leq y
  <2>1. CASE 1 \in ends
    BY <1>1, <2>1
  <2>2. CASE 1 \notin ends
    <3>1. Len(r) # 0
      BY <2>2
    <3>2. 2 \in ends
      BY <1>1, <1>2, <3>1
    <3>3. \A y \in ends : 2 \leq y
      BY <1>1, <2>2
    <3>. QED  BY <3>2, <3>3
  <2>. QED  BY <2>1, <2>2
<1>4. m \in ends /\ \A y \in ends : m \leq y
  BY <1>3 DEF Min
<1>5. m \in 1 .. 2
  <2>. HIDE DEF m
  <2>1. CASE Len(r) = 2
    BY <1>1, <1>2, <1>4, <2>1
  <2>2. CASE Len(r) = 0 \/ Len(r) = 1
    BY <1>1, <1>4, <2>2
  <2>. QED  BY <1>1, <2>1, <2>2
<1>6. BeforeSection = SubSeq(r, 1, m - 1)
  BY DEF BeforeSection
<1>. HIDE DEF m
<1>7. CASE m = 1
  BY <1>6, <1>7, SubSeqEmpty
<1>8. CASE m = 2
  <2>1. 1 \in 1 .. Len(r) /\ 1 \notin sections
    BY <1>1, <1>4, <1>8
  <2>2. r[1] \in [by : {"recall"}, command : 1 .. c]
    BY <1>1, <2>1 DEF Parts
  <2>3. BeforeSection = SubSeq(r, 1, 1)
    BY <1>6, <1>8
  <2>. QED  BY <2>2, <2>3, SubSeqProperties
<1>. QED  BY <1>5, <1>7, <1>8
-----------------------------------------------------------------------------
(* The stages that tell which command is under way.                         *)
LEMMA StudyOfStage ==
  ASSUME StudyTypeOK
  PROVE  /\ stage = "search" => study = "search"
         /\ stage \in {"setup", "baseline", "novel"} => study = "isolation"
         /\ stage \in {"exact", "hnsw", "measured", "write"} => study # "search"
<1>1. CASE study = "search"
  BY <1>1 DEF StudyTypeOK, StagesOf
<1>2. CASE study = "recall"
  BY <1>2 DEF StudyTypeOK, StagesOf
<1>3. CASE study = "isolation"
  BY <1>3 DEF StudyTypeOK, StagesOf
<1>. QED  BY <1>1, <1>2, <1>3 DEF StudyTypeOK

(* A step that leaves the results and the cached plan alone, or clears      *)
(* them, keeps what is said of the two scans.                               *)
LEMMA ResultsKept ==
  ASSUME ExactUnlessCached, ReportedPathRan,
         UNCHANGED <<exact, searched>>,
         session'.generic = Null => session.generic = Null
  PROVE  ExactUnlessCached' /\ ReportedPathRan'
BY DEF ExactUnlessCached, ReportedPathRan, IsNearest, AtMostK

(* A step that leaves RECALL.md alone.                                      *)
LEMMA ReportKept ==
  ASSUME NoStaleSection, report' = report
  PROVE  NoStaleSection'
BY DEF NoStaleSection

LEMMA CommandStarts == StudyInit => CommandInv
<1>. SUFFICES ASSUME StudyInit PROVE CommandInv
  OBVIOUS
<1>. USE DEF StudyInit
<1>1. StudyTypeOK
  BY StudyAssumption, ConnectedFacts DEF StudyAssumption, StudyTypeOK, StagesOf
<1>2. SessionInv
  BY DEF SessionInv, Connected
<1>3. ScratchInv /\ ScratchIsOwn
  BY DEF ScratchInv, ScratchIsOwn
<1>4. ReportInv /\ NoStaleSection
  BY DEF ReportInv, NoStaleSection
<1>5. ExactUnlessCached /\ ReportedPathRan
  BY DEF ExactUnlessCached, ReportedPathRan
<1>. QED  BY <1>1, <1>2, <1>3, <1>4, <1>5 DEF CommandInv

LEMMA StartStep ==
  ASSUME CommandInv, NEW s \in {"search", "recall", "isolation"},
         NEW efs \in Seq(Nat \ {0}), s # "search" => efs # <<>>, Start(s, efs)
  PROVE  CommandInv'
<1>. USE DEF CommandInv, Start, Connection, tableVars
<1>1. StudyTypeOK'
  <2>1. MaxCommands \in Nat /\ command \in Nat
    BY StudyAssumption DEF StudyAssumption, StudyTypeOK
  <2>2. \A i \in 1 .. Len(report) :
          report[i] \in [by : {"recall", "isolation"}, command : 1 .. command + 1]
    BY <2>1 DEF StudyTypeOK
  <2>. QED  BY <2>1, <2>2, ConnectedFacts DEF StudyTypeOK, StagesOf
<1>2. SessionInv'
  BY DEF SessionInv, Connected
<1>3. ScratchInv' /\ ScratchIsOwn'
  BY DEF ScratchInv, ScratchIsOwn
<1>4. ReportInv'
  <2>1. \A i \in 1 .. Len(report) : report[i].command < command + 1
    BY DEF StudyTypeOK
  <2>. QED  BY <2>1 DEF ReportInv
<1>5. NoStaleSection'
  BY ReportKept
<1>6. ExactUnlessCached' /\ ReportedPathRan'
  BY DEF ExactUnlessCached, ReportedPathRan
<1>. QED  BY <1>1, <1>2, <1>3, <1>4, <1>5, <1>6

LEMMA StopStep ==
  ASSUME CommandInv, Stop, UNCHANGED resultVars
  PROVE  CommandInv'
<1>. USE DEF CommandInv, Stop, tableVars, resultVars
<1>1. StudyTypeOK'
  BY DEF StudyTypeOK, StagesOf
<1>2. SessionInv'
  BY DEF SessionInv
<1>3. ScratchInv' /\ ScratchIsOwn'
  BY DEF ScratchInv, ScratchIsOwn
<1>4. ReportInv'
  BY DEF ReportInv
<1>5. NoStaleSection'
  BY ReportKept
<1>6. ExactUnlessCached' /\ ReportedPathRan'
  BY ResultsKept
<1>. QED  BY <1>1, <1>2, <1>3, <1>4, <1>5, <1>6

LEMMA CountStep ==
  ASSUME CommandInv, Count
  PROVE  CommandInv'
<1>. USE DEF CommandInv, Count, tableVars, resultVars
<1>0. /\ session' \in Sessions
      /\ session'.generic = session.generic /\ session'.runs = session.runs
      /\ session'.set = session.set
  BY DEF Executed, Sessions, StudyTypeOK
<1>1. StudyTypeOK'
  <2>1. Queries \in Nat \ {0}
    BY StudyAssumption DEF StudyAssumption
  <2>. QED  BY <1>0, <2>1 DEF StudyTypeOK, StagesOf, Steps
<1>2. SessionInv'
  BY <1>0 DEF SessionInv
<1>3. ScratchInv' /\ ScratchIsOwn'
  BY DEF ScratchInv, ScratchIsOwn, StudyTypeOK
<1>4. ReportInv'
  BY DEF ReportInv, StudyTypeOK
<1>5. NoStaleSection'
  BY ReportKept
<1>6. ExactUnlessCached' /\ ReportedPathRan'
  BY <1>0, ResultsKept
<1>. QED  BY <1>1, <1>2, <1>3, <1>4, <1>5, <1>6

(* A connection that has not searched yet serves the path the search has    *)
(* chosen.                                                                  *)
LEMMA SearchStep ==
  ASSUME CommandInv, Search
  PROVE  CommandInv'
<1>. USE DEF CommandInv, tableVars
<1>. DEFINE small == counted \leq SearchThreshold
            set == IF small THEN [session.set EXCEPT !.indexscan = FALSE] ELSE session.set
            s == [session EXCEPT !.set = set]
<1>0. /\ stage = "search" /\ stage' = "idle" /\ study = "search"
      /\ session.set = Defaults /\ session.generic = Null /\ session \in Sessions
      /\ UNCHANGED <<tableVars, command, study, step, sweep, pos, counted, kept, exact,
                     compared>>
  <2>1. stage = "search" /\ study = "search" /\ session \in Sessions
    BY StudyOfStage DEF Search, StudyTypeOK
  <2>2. session.set = Defaults /\ session.generic = Null
    BY <2>1 DEF SessionInv
  <2>. QED  BY <2>1, <2>2 DEF Search
<1>1. PICK x \in Executions(s) :
        /\ \E S \in Found(x.scan, set.ef, corpus) :
             searched' = [path |-> IF small THEN "exact" ELSE "hnsw",
                          rows |-> S, table |-> corpus, index |-> set.indexscan]
        /\ session' = AfterExecution(session, set, x)
  BY DEF Search
<1>2. set \in Settings /\ set.seqscan = TRUE /\ (small <=> ~set.indexscan)
  BY <1>0, ConnectedFacts DEF Settings, Defaults
<1>3. s \in Sessions /\ s.set = set /\ s.generic = Null
  <2>. HIDE DEF set
  <2>. QED  BY <1>0, <1>2 DEF Sessions
<1>4. /\ x.generic \in Scans \cup {Null}
      /\ x.generic # Null => s.runs \geq CustomRuns
      /\ x.scan \in Planned(set)
  <2>. HIDE DEF s
  <2>. QED  BY <1>3, ExecutionFacts
<1>5. session' \in Sessions /\ session'.generic = x.generic /\ session'.runs = session.runs + 1
  BY <1>0, <1>1, <1>2, <1>4, AfterExecutionFacts
<1>6. StudyTypeOK'
  BY <1>0, <1>5 DEF StudyTypeOK, StagesOf
<1>7. SessionInv'
  <2>1. s.runs = session.runs /\ session.runs \in Nat /\ CustomRuns \in Nat
    BY <1>0, SessionAssumption DEF Sessions, SessionAssumption
  <2>. QED  BY <1>0, <1>4, <1>5, <2>1 DEF SessionInv
<1>8. ScratchInv' /\ ScratchIsOwn' /\ ReportInv'
  BY <1>0 DEF ScratchInv, ScratchIsOwn, ReportInv
<1>9. NoStaleSection'
  BY <1>0, ReportKept
<1>10. ExactUnlessCached'
  BY <1>0 DEF ExactUnlessCached, IsNearest, AtMostK
<1>11. ReportedPathRan'
  <2>1. CASE small
    <3>1. x.scan = "sequential"
      BY <1>2, <1>4, <2>1 DEF Planned
    <3>2. searched'.path = "exact" /\ IsNearest(Query, searched'.rows, corpus)
             /\ searched'.table = corpus
      BY <1>1, <2>1, <3>1, SequentialIsNearest
    <3>3. Query = 1
      BY <1>0 DEF Query
    <3>. QED  BY <3>2, <3>3 DEF ReportedPathRan, IsNearest, AtMostK
  <2>2. CASE ~small
    BY <1>1, <1>2, <2>2 DEF ReportedPathRan
  <2>. QED  BY <2>1, <2>2
<1>. QED  BY <1>6, <1>7, <1>8, <1>9, <1>10, <1>11

(* Steps that only commit keep the results.                                 *)
LEMMA CommittedFacts ==
  ASSUME StudyTypeOK, SessionInv, session' = Committed(session)
  PROVE  /\ session' \in Sessions
         /\ session'.generic = session.generic /\ session'.runs = session.runs
BY ConnectedFacts DEF Committed, Sessions, StudyTypeOK

LEMMA SetUpStep ==
  ASSUME CommandInv, SetUp
  PROVE  CommandInv'
<1>. USE DEF CommandInv, SetUp, EmptyTable, resultVars
<1>0. /\ session' \in Sessions
      /\ session'.generic = session.generic /\ session'.runs = session.runs
  BY CommittedFacts
<1>1. StudyTypeOK'
  <2>1. Len(Baseline) \in Nat \ {0}
    BY StudyAssumption DEF StudyAssumption
  <2>. QED  BY <1>0, <2>1 DEF StudyTypeOK, StagesOf
<1>2. SessionInv'
  BY <1>0 DEF SessionInv
<1>3. ScratchInv' /\ ScratchIsOwn'
  <2>1. OwnRows(0, 0)' = {}
    BY DEF OwnRows, NovelUpTo
  <2>. QED  BY <2>1 DEF ScratchInv, ScratchIsOwn
<1>4. ReportInv'
  BY DEF ReportInv
<1>5. NoStaleSection'
  BY ReportKept
<1>6. ExactUnlessCached' /\ ReportedPathRan'
  BY <1>0, ResultsKept
<1>. QED  BY <1>1, <1>2, <1>3, <1>4, <1>5, <1>6

LEMMA InsertBaselineStep ==
  ASSUME CommandInv, InsertBaseline
  PROVE  CommandInv'
<1>. USE DEF CommandInv, InsertBaseline, resultVars
<1>0. /\ session' \in Sessions
      /\ session'.generic = session.generic /\ session'.runs = session.runs
  BY CommittedFacts
<1>1. /\ step \in 1 .. Len(Baseline) /\ Len(Baseline) \in Nat /\ step \in Nat \ {0}
      /\ study = "isolation"
  <2>1. Len(Baseline) \in Nat
    BY StudyAssumption DEF StudyAssumption
  <2>2. step \in 1 .. Len(Baseline)
    BY DEF StudyTypeOK
  <2>3. study = "isolation"
    BY StudyOfStage
  <2>. QED  BY <2>1, <2>2, <2>3
<1>2. StudyTypeOK'
  <2>1. Len(Checkpoints) \in Nat \ {0}
    BY StudyAssumption DEF StudyAssumption
  <2>. QED  BY <1>0, <1>1, <2>1 DEF StudyTypeOK, StagesOf, Steps
<1>3. SessionInv'
  BY <1>0 DEF SessionInv
<1>4. ScratchInv' /\ ScratchIsOwn'
  <2>1. scratch' = OwnRows(step, 0)
    BY <1>1, BatchAdded DEF ScratchInv
  <2>2. \A n, m : OwnRows(n, m)' = OwnRows(n, m)
    BY DEF OwnRows, NovelUpTo
  <2>3. CASE step < Len(Baseline)
    BY <1>1, <2>1, <2>2, <2>3 DEF ScratchInv, ScratchIsOwn
  <2>4. CASE ~(step < Len(Baseline))
    <3>1. step = Len(Baseline)
      BY <1>1, <2>4
    <3>. QED  BY <2>1, <2>2, <2>4, <3>1 DEF ScratchInv, ScratchIsOwn
  <2>. QED  BY <2>3, <2>4
<1>5. ReportInv'
  BY DEF ReportInv
<1>6. NoStaleSection'
  BY ReportKept
<1>7. ExactUnlessCached' /\ ReportedPathRan'
  BY <1>0, ResultsKept
<1>. QED  BY <1>2, <1>3, <1>4, <1>5, <1>6, <1>7

LEMMA InsertNovelStep ==
  ASSUME CommandInv, InsertNovel
  PROVE  CommandInv'
<1>. USE DEF CommandInv, InsertNovel, resultVars
<1>0. /\ session' \in Sessions
      /\ session'.generic = session.generic /\ session'.runs = session.runs
  BY CommittedFacts
<1>1. step \in 1 .. Len(Checkpoints) /\ study = "isolation"
  BY DEF StudyTypeOK, StagesOf, Steps
<1>2. StudyTypeOK'
  BY <1>0, <1>1 DEF StudyTypeOK, StagesOf, Steps
<1>3. SessionInv'
  BY <1>0 DEF SessionInv
<1>4. ScratchInv' /\ ScratchIsOwn'
  <2>. DEFINE before == IF step = 1 THEN 0 ELSE Checkpoints[step - 1]
  <2>1. /\ Len(Novel) \in Nat /\ Len(Checkpoints) \in Nat
        /\ \A i \in 1 .. Len(Checkpoints) : Checkpoints[i] \in 1 .. Len(Novel)
        /\ \A i \in 1 .. Len(Checkpoints) - 1 : Checkpoints[i] \leq Checkpoints[i + 1]
    BY StudyAssumption, SMTT(20) DEF StudyAssumption
  <2>2. before \in Nat /\ Checkpoints[step] \in Nat /\ before \leq Checkpoints[step]
    <3>1. CASE step = 1
      BY <1>1, <2>1, <3>1
    <3>2. CASE step # 1
      <4>1. step - 1 \in 1 .. Len(Checkpoints) - 1 /\ (step - 1) + 1 = step
        BY <1>1, <2>1, <3>2
      <4>2. Checkpoints[step - 1] \leq Checkpoints[(step - 1) + 1]
        BY <2>1, <4>1
      <4>. QED  BY <1>1, <2>1, <3>2, <4>1, <4>2
    <3>. QED  BY <3>1, <3>2
  <2>3. scratch = OwnRows(Len(Baseline), before)
    BY DEF ScratchInv
  <2>. HIDE DEF before
  <2>4. scratch' = OwnRows(Len(Baseline), Checkpoints[step])
    <3>1. Len(Baseline) \in Nat
      BY StudyAssumption DEF StudyAssumption
    <3>. QED  BY <2>2, <2>3, <3>1, NovelAdded
  <2>5. OwnRows(Len(Baseline), Checkpoints[step])' = OwnRows(Len(Baseline), Checkpoints[step])
    BY DEF OwnRows, NovelUpTo
  <2>. QED  BY <2>4, <2>5 DEF ScratchInv, ScratchIsOwn
<1>5. ReportInv'
  BY DEF ReportInv
<1>6. NoStaleSection'
  BY ReportKept
<1>7. ExactUnlessCached' /\ ReportedPathRan'
  BY <1>0, ResultsKept
<1>. QED  BY <1>2, <1>3, <1>4, <1>5, <1>6, <1>7

(* Without a cached plan the settings of an exact scan leave it no choice.  *)
LEMMA ScanExactStep ==
  ASSUME CommandInv, ScanExact
  PROVE  CommandInv'
<1>. USE DEF CommandInv, tableVars
<1>. DEFINE s == [session EXCEPT !.set = ExactSettings]
<1>0. /\ stage = "exact" /\ stage' = "hnsw" /\ pos' = 1
      /\ study \in {"recall", "isolation"}
      /\ session \in Sessions /\ step \in 1 .. Steps
      /\ UNCHANGED <<tableVars, command, study, step, sweep, counted, kept, searched>>
  BY DEF ScanExact, StudyTypeOK, StagesOf
<1>1. PICK x \in Executions(s) :
        /\ \E S \in Found(x.scan, session.set.ef, Table) :
             exact' = [rows |-> S, table |-> Table, query |-> Query]
        /\ session' = AfterExecution(session, ExactSettings, x)
  BY DEF ScanExact
<1>2. ExactSettings \in Settings /\ Planned(ExactSettings) = {"sequential"}
  BY <1>0 DEF ExactSettings, Planned, Sessions, Settings
<1>3. /\ s \in Sessions /\ s.set = ExactSettings
      /\ s.generic = session.generic /\ s.runs = session.runs
  <2>. HIDE DEF ExactSettings
  <2>. QED  BY <1>0, <1>2 DEF Sessions
<1>4. /\ x.generic \in Scans \cup {Null}
      /\ x.generic # Null => s.runs \geq CustomRuns
      /\ x.generic = Null => x.scan = "sequential"
  <2>1. s.generic # Null => s.runs \geq CustomRuns
    BY <1>3 DEF SessionInv
  <2>. HIDE DEF s
  <2>. QED  BY <1>2, <1>3, <2>1, ExecutionFacts
<1>5. session' \in Sessions /\ session'.generic = x.generic /\ session'.runs = session.runs + 1
  BY <1>0, <1>1, <1>2, <1>4, AfterExecutionFacts
<1>6. StudyTypeOK'
  <2>1. sweep \in Seq(Nat \ {0}) /\ sweep # <<>>
    BY <1>0 DEF StudyTypeOK
  <2>2. 1 \in 1 .. Len(sweep)
    BY <2>1
  <2>. QED  BY <1>0, <1>5, <2>2 DEF StudyTypeOK, StagesOf, Steps
<1>7. SessionInv'
  <2>1. session.runs \in Nat /\ CustomRuns \in Nat
    BY <1>0, SessionAssumption DEF Sessions, SessionAssumption
  <2>. QED  BY <1>0, <1>3, <1>4, <1>5, <2>1 DEF SessionInv
<1>8. ScratchInv' /\ ScratchIsOwn'
  BY <1>0 DEF ScratchInv, ScratchIsOwn, OwnRows, NovelUpTo
<1>9. ReportInv'
  BY <1>0 DEF ReportInv
<1>10. NoStaleSection'
  BY <1>0, ReportKept
<1>11. ExactUnlessCached'
  <2>1. CASE x.generic = Null
    <3>1. IsNearest(Query, exact'.rows, Table) /\ exact'.table = Table
             /\ exact'.query = Query
      BY <1>1, <1>4, <2>1, SequentialIsNearest
    <3>. QED  BY <3>1 DEF ExactUnlessCached, IsNearest, AtMostK
  <2>2. CASE x.generic # Null
    BY <1>5, <2>2 DEF ExactUnlessCached
  <2>. QED  BY <2>1, <2>2
<1>12. ReportedPathRan'
  BY <1>0 DEF ReportedPathRan, IsNearest, AtMostK
<1>. QED  BY <1>6, <1>7, <1>8, <1>9, <1>10, <1>11, <1>12

(* The measurement goes on, or ends with the exception of too few rows.     *)
LEMMA ScanIndexStep ==
  ASSUME CommandInv, ScanIndex
  PROVE  CommandInv'
<1>. USE DEF CommandInv, tableVars
<1>. DEFINE set == IndexSettings(sweep[pos])
            s == [session EXCEPT !.set = set]
<1>0. /\ stage = "hnsw"
      /\ study \in {"recall", "isolation"}
      /\ session \in Sessions /\ step \in 1 .. Steps
      /\ sweep \in Seq(Nat \ {0}) /\ pos \in 1 .. Len(sweep)
      /\ UNCHANGED <<tableVars, command, study, sweep, counted, kept, exact, searched>>
  BY DEF ScanIndex, StudyTypeOK, StagesOf
<1>1. set \in Settings
  BY <1>0 DEF IndexSettings, Settings
<1>2. \/ /\ \E x \in Executions(s) : session' = AfterExecution(session, set, x)
         /\ Proceed
      \/ session' = session /\ stage' = "idle" /\ UNCHANGED <<step, pos>>
  BY DEF ScanIndex
<1>3. /\ session' \in Sessions
      /\ session'.generic # Null => session'.runs \geq CustomRuns
      /\ session'.generic = Null => session.generic = Null
  <2>1. session.generic # Null => session.runs \geq CustomRuns
    BY DEF SessionInv
  <2>2. ASSUME NEW x \in Executions(s), session' = AfterExecution(session, set, x)
        PROVE  /\ session' \in Sessions
               /\ session'.generic # Null => session'.runs \geq CustomRuns
               /\ session'.generic = Null => session.generic = Null
    <3>. HIDE DEF set
    <3>1. s \in Sessions /\ s.generic = session.generic /\ s.runs = session.runs
      BY <1>0, <1>1 DEF Sessions
    <3>. HIDE DEF s
    <3>2. /\ x.generic \in Scans \cup {Null}
          /\ x.generic # Null => s.runs \geq CustomRuns
          /\ x.generic = Null => s.generic = Null
      BY <2>1, <3>1, ExecutionFacts
    <3>3. /\ session' \in Sessions /\ session'.generic = x.generic
          /\ session'.runs = session.runs + 1
      BY <1>0, <1>1, <2>2, <3>2, AfterExecutionFacts
    <3>4. session.runs \in Nat /\ CustomRuns \in Nat
      BY <1>0, SessionAssumption DEF Sessions, SessionAssumption
    <3>. QED  BY <3>1, <3>2, <3>3, <3>4
  <2>3. CASE session' = session
    BY <1>0, <2>1, <2>3
  <2>. QED  BY <1>2, <2>2, <2>3
<1>4. \/ stage' = "hnsw" /\ step' = step /\ pos' \in 1 .. Len(sweep)
      \/ /\ step' = step + 1 /\ step' \in 1 .. Steps
         /\ stage' = IF study = "recall" THEN "exact" ELSE "novel"
      \/ stage' \in {"measured", "idle"} /\ step' = step
  <2>1. Steps \in Nat /\ Len(sweep) \in Nat
    BY <1>0, StudyAssumption, SMTT(20) DEF StudyAssumption, Steps
  <2>. QED  BY <1>0, <1>2, <2>1 DEF Proceed
<1>5. StudyTypeOK'
  BY <1>0, <1>3, <1>4 DEF StudyTypeOK, StagesOf, Steps
<1>6. SessionInv'
  BY <1>3, <1>4 DEF SessionInv
<1>7. ScratchInv' /\ ScratchIsOwn'
  <2>1. \A n, m : OwnRows(n, m)' = OwnRows(n, m)
    BY <1>0 DEF OwnRows, NovelUpTo
  <2>2. study = "isolation" => scratch = OwnRows(Len(Baseline), Checkpoints[step])
    BY <1>0 DEF ScratchIsOwn
  <2>3. CASE stage' = "hnsw" /\ step' = step
    BY <1>0, <2>1, <2>2, <2>3 DEF ScratchInv, ScratchIsOwn
  <2>4. CASE step' = step + 1 /\ step' \in 1 .. Steps
             /\ stage' = IF study = "recall" THEN "exact" ELSE "novel"
    <3>1. step' # 1 /\ step' - 1 = step
      BY <1>0, <2>4
    <3>. QED  BY <1>0, <2>1, <2>2, <2>4, <3>1 DEF ScratchInv, ScratchIsOwn
  <2>5. CASE stage' \in {"measured", "idle"}
    BY <2>5 DEF ScratchInv, ScratchIsOwn
  <2>. QED  BY <1>4, <2>3, <2>4, <2>5
<1>8. ReportInv'
  BY <1>0, <1>4 DEF ReportInv
<1>9. NoStaleSection'
  BY <1>0, ReportKept
<1>10. ExactUnlessCached' /\ ReportedPathRan'
  BY <1>0, <1>3, ResultsKept
<1>. QED  BY <1>5, <1>6, <1>7, <1>8, <1>9, <1>10

LEMMA OpenReportStep ==
  ASSUME CommandInv, OpenReport
  PROVE  CommandInv'
<1>. USE DEF CommandInv, OpenReport, resultVars
<1>0. study \in {"recall", "isolation"}
  BY StudyOfStage DEF StudyTypeOK
<1>1. StudyTypeOK'
  BY <1>0 DEF StudyTypeOK, StagesOf
<1>2. SessionInv'
  BY DEF SessionInv
<1>3. ScratchInv' /\ ScratchIsOwn'
  BY DEF ScratchInv, ScratchIsOwn
<1>4. ReportInv'
  <2>1. CASE study = "recall"
    BY <2>1 DEF ReportInv, KeptPart
  <2>2. CASE study = "isolation"
    <3>1. /\ command \in Nat /\ Len(report) \in 0 .. 2
          /\ \A i \in 1 .. Len(report) :
               report[i] \in Parts(command) /\ report[i].command < command
      <4>1. command \in Nat /\ Len(report) \in 0 .. 2
        BY StudyAssumption DEF StudyAssumption, StudyTypeOK
      <4>2. \A i \in 1 .. Len(report) : report[i] \in Parts(command)
        BY DEF StudyTypeOK, Parts
      <4>. QED  BY <4>1, <4>2 DEF ReportInv
    <3>2. \A i \in 1 .. Len(report) : report[i] \in Parts(command - 1)
      BY <3>1 DEF Parts
    <3>3. command - 1 \in Nat
      BY <3>1 DEF StudyTypeOK
    <3>4. \/ BeforeSection = <<>>
          \/ /\ Len(BeforeSection) = 1
             /\ BeforeSection \in Seq([by : {"recall"}, command : 1 .. command - 1])
      BY <3>1, <3>2, <3>3, KeptIsMeasurement
    <3>. QED  BY <2>2, <3>4 DEF ReportInv, KeptPart
  <2>. QED  BY <1>0, <2>1, <2>2
<1>5. NoStaleSection'
  BY DEF NoStaleSection
<1>6. ExactUnlessCached' /\ ReportedPathRan'
  BY ResultsKept
<1>. QED  BY <1>1, <1>2, <1>3, <1>4, <1>5, <1>6

LEMMA WriteReportStep ==
  ASSUME CommandInv, WriteReport
  PROVE  CommandInv'
<1>. USE DEF CommandInv, WriteReport, resultVars
<1>. DEFINE part == [by |-> study, command |-> command]
<1>0. /\ study \in {"recall", "isolation"} /\ command \in Nat
      /\ command \in 1 .. command
      /\ \/ kept = <<>>
         \/ /\ study = "isolation" /\ Len(kept) = 1
            /\ kept \in Seq([by : {"recall"}, command : 1 .. command - 1])
  <2>1. study \in {"recall", "isolation"}
    BY StudyOfStage DEF StudyTypeOK
  <2>2. command \in Nat /\ command # 0
    BY StudyAssumption DEF StudyAssumption, StudyTypeOK
  <2>3. command \in 1 .. command
    BY <2>2
  <2>. QED  BY <2>1, <2>2, <2>3 DEF ReportInv
<1>. DEFINE older == [by : {"recall"}, command : 1 .. command - 1]
<1>1. /\ Len(report') \in 1 .. 2
      /\ report'[Len(report')] = part
      /\ Len(report') = 2 => study = "isolation" /\ report'[1] \in older
  <2>1. kept \in Seq(older) /\ (kept = <<>> \/ Len(kept) = 1)
    <3>1. <<>> \in Seq(older)
      <4>. HIDE DEF older
      <4>. QED  OBVIOUS
    <3>. QED  BY <1>0, <3>1
  <2>2. kept = <<>> \/ study = "isolation"
    BY <1>0
  <2>3. report' = Append(kept, part)
    OBVIOUS
  <2>. HIDE DEF part, older
  <2>4. CASE kept = <<>>
    BY <2>3, <2>4
  <2>5. CASE kept # <<>>
    <3>1. Len(kept) = 1 /\ kept[1] \in older
      BY <2>1, <2>5
    <3>2. Len(report') = 2 /\ report'[1] = kept[1] /\ report'[2] = part
      <4>. DEFINE any == older \cup {part}
      <4>1. kept \in Seq(any) /\ part \in any
        <5>1. Len(kept) \in Nat /\ kept \in [1 .. Len(kept) -> older]
          BY <2>1
        <5>. QED  BY <5>1
      <4>2. /\ Len(Append(kept, part)) = Len(kept) + 1
            /\ \A i \in 1 .. Len(kept) : Append(kept, part)[i] = kept[i]
            /\ Append(kept, part)[Len(kept) + 1] = part
        <5>. HIDE DEF any
        <5>. QED  BY <4>1, AppendProperties
      <4>. QED  BY <2>3, <3>1, <4>2
    <3>. QED  BY <2>2, <2>5, <3>1, <3>2
  <2>. QED  BY <2>4, <2>5
<1>2. StudyTypeOK'
  <2>1. \A i \in 1 .. Len(report') :
          report'[i] \in [by : {"recall", "isolation"}, command : 1 .. command]
    BY <1>0, <1>1
  <2>. QED  BY <1>1, <2>1 DEF StudyTypeOK, StagesOf
<1>3. SessionInv'
  BY DEF SessionInv
<1>4. ScratchInv' /\ ScratchIsOwn' /\ ReportInv'
  BY DEF ScratchInv, ScratchIsOwn, ReportInv
<1>5. NoStaleSection'
  BY <1>0, <1>1 DEF NoStaleSection
<1>6. ExactUnlessCached' /\ ReportedPathRan'
  BY ResultsKept
<1>. QED  BY <1>2, <1>3, <1>4, <1>5, <1>6

(* Rows of the consumer, and steps that change nothing.                     *)
LEMMA OutsideStep ==
  ASSUME CommandInv, Ingest \/ UNCHANGED studyVars
  PROVE  CommandInv'
<1>. USE DEF CommandInv
<1>0. UNCHANGED <<scratch, report, placeVars, session, counted, kept, resultVars>>
  BY DEF Ingest, studyVars, tableVars
<1>. USE DEF placeVars, resultVars
<1>1. StudyTypeOK'
  BY <1>0 DEF StudyTypeOK, Steps
<1>2. SessionInv'
  BY <1>0 DEF SessionInv
<1>3. ScratchInv' /\ ScratchIsOwn'
  BY <1>0 DEF ScratchInv, ScratchIsOwn, OwnRows, NovelUpTo
<1>4. ReportInv'
  BY <1>0 DEF ReportInv
<1>5. NoStaleSection'
  BY <1>0, ReportKept
<1>6. ExactUnlessCached' /\ ReportedPathRan'
  BY <1>0, ResultsKept
<1>. QED  BY <1>1, <1>2, <1>3, <1>4, <1>5, <1>6

-----------------------------------------------------------------------------
LEMMA CommandNext == CommandInv /\ [StudyNext]_studyVars => CommandInv'
<1>. SUFFICES ASSUME CommandInv, [StudyNext]_studyVars PROVE CommandInv'
  OBVIOUS
<1>1. CASE Start("search", <<>>)
  <2>1. <<>> \in Seq(Nat \ {0})
    OBVIOUS
  <2>. QED  BY <1>1, <2>1, StartStep
<1>2. CASE \E efs \in Sweeps : Start("recall", efs)
  <2>1. PICK efs \in Sweeps : Start("recall", efs)
    BY <1>2
  <2>2. efs \in Seq(Nat \ {0}) /\ efs # <<>>
    BY StudyAssumption DEF StudyAssumption
  <2>. QED  BY <2>1, <2>2, StartStep
<1>3. CASE Start("isolation", ExperimentEfs)
  <2>1. ExperimentEfs \in Seq(Nat \ {0}) /\ ExperimentEfs # <<>>
    BY StudyAssumption DEF StudyAssumption
  <2>. QED  BY <1>3, <2>1, StartStep
<1>4. CASE Kill \/ NoReport
  BY <1>4, StopStep DEF Kill, NoReport
<1>5. CASE Count \/ Search
  BY <1>5, CountStep, SearchStep
<1>6. CASE SetUp \/ InsertBaseline \/ InsertNovel
  BY <1>6, SetUpStep, InsertBaselineStep, InsertNovelStep
<1>7. CASE ScanExact \/ ScanIndex
  BY <1>7, ScanExactStep, ScanIndexStep
<1>8. CASE OpenReport \/ WriteReport
  BY <1>8, OpenReportStep, WriteReportStep
<1>9. CASE Ingest \/ UNCHANGED studyVars
  BY <1>9, OutsideStep
<1>. QED  BY <1>1, <1>2, <1>3, <1>4, <1>5, <1>6, <1>7, <1>8, <1>9 DEF StudyNext

-----------------------------------------------------------------------------
(* The rows of S within a distance, and those closer.                       *)
Within(S, d) == {r \in S : To(r) \leq d}
Closer(S, d) == {r \in S : To(r) < d}

(* A finite table has a row that is farthest.                               *)
LEMMA DistancesBounded ==
  ASSUME NEW S, IsFiniteSet(S), \A r \in S : To(r) \in Nat
  PROVE  \E m \in Nat : \A r \in S : To(r) \leq m
<1>. DEFINE bounded == {T \in SUBSET S : \E m \in Nat : \A r \in T : To(r) \leq m}
<1>1. ASSUME NEW T \in SUBSET S, \A x \in T : T \ {x} \in bounded
      PROVE  T \in bounded
  <2>1. CASE T = {}
    <3>1. 0 \in Nat /\ \A r \in T : To(r) \leq 0
      BY <2>1
    <3>. QED  BY <3>1
  <2>2. CASE T # {}
    <3>1. PICK x \in T : TRUE
      BY <2>2
    <3>2. PICK m \in Nat : \A r \in T \ {x} : To(r) \leq m
      BY <1>1
    <3>3. To(x) \in Nat
      BY <3>1
    <3>4. m + To(x) \in Nat /\ \A r \in T : To(r) \in Nat /\ To(r) \leq m + To(x)
      BY <3>2, <3>3
    <3>. QED  BY <3>4
  <2>. QED  BY <2>1, <2>2
<1>2. SUBSET S \subseteq bounded
  <2>. HIDE DEF bounded
  <2>. QED  BY <1>1, FiniteSetInduction
<1>3. S \in bounded
  BY <1>2
<1>. QED  BY <1>3

(* Rows within a distance, counted.                                         *)
LEMMA WithinCounted ==
  ASSUME NEW S, IsFiniteSet(S), \A r \in S : To(r) \in Nat, NEW d \in Nat
  PROVE  /\ IsFiniteSet(Within(S, d)) /\ IsFiniteSet(Closer(S, d))
         /\ Cardinality(Within(S, d)) \in 0 .. Cardinality(S)
         /\ Cardinality(Closer(S, d)) \in Nat
         /\ \A e \in Nat : d \leq e =>
              Cardinality(Within(S, d)) \leq Cardinality(Within(S, e))
         /\ \A e \in Nat : d < e =>
              Cardinality(Within(S, d)) \leq Cardinality(Closer(S, e))
<1>1. /\ Within(S, d) \in SUBSET S /\ Closer(S, d) \in SUBSET S
      /\ \A e : Within(S, e) \in SUBSET S /\ Closer(S, e) \in SUBSET S
  BY DEF Within, Closer
<1>2. /\ IsFiniteSet(Within(S, d)) /\ IsFiniteSet(Closer(S, d))
      /\ Cardinality(Within(S, d)) \leq Cardinality(S)
  BY <1>1, FS_Subset
<1>3. Cardinality(Within(S, d)) \in Nat /\ Cardinality(Closer(S, d)) \in Nat
        /\ Cardinality(S) \in Nat
  BY <1>2, FS_CardinalityType
<1>4. ASSUME NEW e \in Nat, d \leq e
      PROVE  Cardinality(Within(S, d)) \leq Cardinality(Within(S, e))
  <2>1. Within(S, d) \in SUBSET Within(S, e)
    BY <1>4 DEF Within
  <2>2. IsFiniteSet(Within(S, e))
    BY <1>1, FS_Subset
  <2>. QED  BY <2>1, <2>2, FS_Subset
<1>5. ASSUME NEW e \in Nat, d < e
      PROVE  Cardinality(Within(S, d)) \leq Cardinality(Closer(S, e))
  <2>1. Within(S, d) \in SUBSET Closer(S, e)
    BY <1>5 DEF Within, Closer
  <2>2. IsFiniteSet(Closer(S, e))
    BY <1>1, FS_Subset
  <2>. QED  BY <2>1, <2>2, FS_Subset
<1>. QED  BY <1>2, <1>3, <1>4, <1>5

(* Entry i of the sorted distances exists, and is within d exactly when     *)
(* i rows are.                                                              *)
LEMMA EntryWithin ==
  ASSUME NEW S, IsFiniteSet(S), \A r \in S : To(r) \in Nat,
         NEW i \in 1 .. Cardinality(S)
  PROVE  /\ DistanceAt(S, i) \in Nat
         /\ \A d \in Nat : DistanceAt(S, i) \leq d <=> Cardinality(Within(S, d)) \geq i
<1>0. Cardinality(S) \in Nat
  BY FS_CardinalityType
<1>. DEFINE enough == {d \in Nat : Cardinality(Within(S, d)) \geq i}
<1>1. enough # {}
  <2>1. PICK m \in Nat : \A r \in S : To(r) \leq m
    BY DistancesBounded
  <2>2. Within(S, m) = S
    BY <2>1 DEF Within
  <2>. QED  BY <1>0, <2>2
<1>2. PICK least \in enough : \A d \in enough : least \leq d
  <2>1. enough \in SUBSET Nat
    OBVIOUS
  <2>. HIDE DEF enough
  <2>. QED  BY <1>1, <2>1, LeastNatural
<1>3. Cardinality(Closer(S, least)) < i
  <2>1. CASE least = 0
    <3>1. Closer(S, least) = {}
      BY <2>1 DEF Closer
    <3>. QED  BY <3>1, FS_EmptySet
  <2>2. CASE least # 0
    <3>1. least - 1 \in Nat /\ least - 1 \notin enough
      BY <1>2, <2>2
    <3>2. Closer(S, least) = Within(S, least - 1)
      BY <1>2, <3>1 DEF Closer, Within
    <3>3. Cardinality(Within(S, least - 1)) \in Nat
      BY <1>0, <3>1, WithinCounted
    <3>. QED  BY <3>1, <3>2, <3>3
  <2>. QED  BY <2>1, <2>2
<1>4. \E r \in S : To(r) = least
  <2>1. Closer(S, least) # Within(S, least)
    BY <1>0, <1>2, <1>3, WithinCounted
  <2>. QED  BY <1>2, <2>1 DEF Closer, Within
<1>. DEFINE d0 == DistanceAt(S, i)
<1>5. /\ d0 \in {To(r) : r \in S}
      /\ Cardinality(Closer(S, d0)) < i
      /\ Cardinality(Within(S, d0)) \geq i
  <2>1. /\ least \in {To(r) : r \in S}
        /\ Cardinality({r \in S : To(r) < least}) < i
        /\ Cardinality({r \in S : To(r) \leq least}) \geq i
    BY <1>2, <1>3, <1>4 DEF Closer, Within
  <2>. QED  BY <2>1 DEF DistanceAt, Closer, Within
<1>. HIDE DEF d0
<1>6. d0 \in Nat
  BY <1>5
<1>7. ASSUME NEW d \in Nat
      PROVE  d0 \leq d <=> Cardinality(Within(S, d)) \geq i
  <2>1. CASE d0 \leq d
    <3>1. Cardinality(Within(S, d0)) \leq Cardinality(Within(S, d))
      BY <1>6, <2>1, WithinCounted
    <3>2. Cardinality(Within(S, d0)) \in Nat /\ Cardinality(Within(S, d)) \in Nat
      BY <1>0, <1>6, WithinCounted
    <3>. QED  BY <1>5, <2>1, <3>1, <3>2
  <2>2. CASE ~(d0 \leq d)
    <3>1. Cardinality(Within(S, d)) \leq Cardinality(Closer(S, d0))
      BY <1>6, <2>2, WithinCounted
    <3>2. Cardinality(Closer(S, d0)) \in Nat /\ Cardinality(Within(S, d)) \in Nat
      BY <1>0, <1>6, WithinCounted
    <3>. QED  BY <1>5, <2>2, <3>1, <3>2
  <2>. QED  BY <2>1, <2>2
<1>. QED  BY <1>6, <1>7 DEF d0

(* Two tables of the same size have the same sorted distances exactly when  *)
(* they have as many rows within every distance.                            *)
LEMMA SameEntries ==
  ASSUME NEW E, NEW H, IsFiniteSet(E), IsFiniteSet(H),
         Cardinality(E) = Cardinality(H),
         \A r \in E \cup H : To(r) \in Nat
  PROVE  (\A i \in 1 .. Cardinality(E) : DistanceAt(E, i) = DistanceAt(H, i))
           <=> \A d \in Nat : Cardinality(Within(E, d)) = Cardinality(Within(H, d))
<1>. DEFINE n == Cardinality(E)
            Entries == \A i \in 1 .. n : DistanceAt(E, i) = DistanceAt(H, i)
            Counts == \A d \in Nat : Cardinality(Within(E, d)) = Cardinality(Within(H, d))
<1>1. n \in Nat
  BY FS_CardinalityType
<1>2. \A d \in Nat : /\ Cardinality(Within(E, d)) \in 0 .. n
                     /\ Cardinality(Within(H, d)) \in 0 .. n
  BY WithinCounted
<1>3. ASSUME NEW i \in 1 .. n
      PROVE  /\ DistanceAt(E, i) \in Nat /\ DistanceAt(H, i) \in Nat
             /\ \A d \in Nat : DistanceAt(E, i) \leq d <=> Cardinality(Within(E, d)) \geq i
             /\ \A d \in Nat : DistanceAt(H, i) \leq d <=> Cardinality(Within(H, d)) \geq i
  BY EntryWithin
<1>. HIDE DEF n
<1>4. ASSUME Entries PROVE Counts
  <2>. SUFFICES ASSUME NEW d \in Nat
                PROVE  Cardinality(Within(E, d)) = Cardinality(Within(H, d))
    OBVIOUS
  <2>. DEFINE e == Cardinality(Within(E, d))
              h == Cardinality(Within(H, d))
  <2>1. e \in 0 .. n /\ h \in 0 .. n
    BY <1>2
  <2>2. \A i \in 1 .. n : e \geq i <=> h \geq i
    BY <1>3, <1>4
  <2>. HIDE DEF e, h
  <2>3. (e # 0 => h \geq e) /\ (h # 0 => e \geq h)
    <3>1. (e # 0 => e \in 1 .. n) /\ (h # 0 => h \in 1 .. n)
      BY <1>1, <2>1
    <3>. QED  BY <2>1, <2>2, <3>1
  <2>4. e = h
    BY <2>1, <2>3
  <2>. QED  BY <2>4 DEF e, h
<1>5. ASSUME Counts PROVE Entries
  <2>. SUFFICES ASSUME NEW i \in 1 .. n PROVE DistanceAt(E, i) = DistanceAt(H, i)
    OBVIOUS
  <2>. DEFINE e == DistanceAt(E, i)
              h == DistanceAt(H, i)
  <2>1. e \in Nat /\ h \in Nat
    BY <1>3
  <2>2. \A d \in Nat : e \leq d <=> h \leq d
    BY <1>3, <1>5
  <2>. HIDE DEF e, h
  <2>3. e = h
    BY <2>1, <2>2
  <2>. QED  BY <2>3 DEF e, h
<1>. QED  BY <1>4, <1>5 DEF n

(* Rows of a table are the nearest exactly when, at every distance, they    *)
(* are all of those within it or all lie within it.                         *)
LEMMA NearestByCounts ==
  ASSUME NEW T, NEW S \in SUBSET T, IsFiniteSet(T), \A r \in T : To(r) \in Nat
  PROVE  (\A near \in S, far \in T \ S : To(near) \leq To(far))
           <=> \A d \in Nat :
                 \/ Cardinality(Within(S, d)) = Cardinality(S)
                 \/ Cardinality(Within(S, d)) = Cardinality(Within(T, d))
<1>1. IsFiniteSet(S)
  BY FS_Subset
<1>. DEFINE Nearest == \A near \in S, far \in T \ S : To(near) \leq To(far)
            Counts == \A d \in Nat :
                        \/ Cardinality(Within(S, d)) = Cardinality(S)
                        \/ Cardinality(Within(S, d)) = Cardinality(Within(T, d))
<1>2. ASSUME Nearest, NEW d \in Nat
      PROVE  \/ Cardinality(Within(S, d)) = Cardinality(S)
             \/ Cardinality(Within(S, d)) = Cardinality(Within(T, d))
  <2>1. CASE \A r \in T : To(r) \leq d => r \in S
    <3>1. Within(S, d) = Within(T, d)
      BY <2>1 DEF Within
    <3>. QED  BY <3>1
  <2>2. CASE \E r \in T : To(r) \leq d /\ r \notin S
    <3>1. PICK far \in T \ S : To(far) \leq d
      BY <2>2
    <3>2. \A near \in S : To(near) \in Nat /\ To(near) \leq To(far) /\ To(far) \in Nat
      BY <1>2, <3>1
    <3>3. Within(S, d) = S
      BY <3>1, <3>2 DEF Within
    <3>. QED  BY <3>3
  <2>. QED  BY <2>1, <2>2
<1>3. ASSUME Counts, NEW near \in S, NEW far \in T \ S
      PROVE  To(near) \leq To(far)
  <2>. DEFINE d == To(far)
  <2>1. d \in Nat
    OBVIOUS
  <2>2. far \in Within(T, d) /\ far \notin Within(S, d)
    BY <2>1 DEF Within
  <2>3. Within(S, d) \in SUBSET Within(T, d) /\ Within(S, d) \in SUBSET S
    BY DEF Within
  <2>4. IsFiniteSet(Within(T, d))
    BY <2>1, WithinCounted
  <2>. HIDE DEF d
  <2>5. Cardinality(Within(S, d)) # Cardinality(Within(T, d))
    BY <2>2, <2>3, <2>4, FS_Subset
  <2>6. Cardinality(Within(S, d)) = Cardinality(S)
    BY <1>3, <2>1, <2>5
  <2>7. Within(S, d) = S
    BY <1>1, <2>3, <2>6, FS_Subset
  <2>8. near \in Within(S, d)
    BY <2>7
  <2>. QED  BY <2>8 DEF Within, d
<1>. QED  BY <1>2, <1>3

(* The distance metric is full exactly when all entries agree.              *)
LEMMA FullRecall ==
  ASSUME NEW E, NEW H, IsFiniteSet(E)
  PROVE  /\ DistanceRecall(E, H).matches = Cardinality(E)
              <=> \A i \in 1 .. Cardinality(E) : DistanceAt(E, i) = DistanceAt(H, i)
         /\ DistanceRecall(E, H).matches \in 0 .. Cardinality(E)
         /\ DistanceRecall(E, H).of = K
<1>. DEFINE n == Cardinality(E)
            same == {i \in 1 .. n : DistanceAt(E, i) = DistanceAt(H, i)}
<1>1. n \in Nat /\ IsFiniteSet(1 .. n) /\ Cardinality(1 .. n) = n
  <2>1. n \in Nat
    BY FS_CardinalityType
  <2>. HIDE DEF n
  <2>. QED  BY <2>1, FS_Interval
<1>2. DistanceRecall(E, H).matches = Cardinality(same) /\ DistanceRecall(E, H).of = K
  BY DEF DistanceRecall, OutOfK
<1>3. same \in SUBSET (1 .. n)
  OBVIOUS
<1>4. Cardinality(same) = n => same = 1 .. n
  <2>. HIDE DEF same, n
  <2>. QED  BY <1>1, <1>3, FS_Subset
<1>5. same = 1 .. n => Cardinality(same) = n
  BY <1>1
<1>6. Cardinality(same) \in 0 .. n
  <2>. HIDE DEF same, n
  <2>1. Cardinality(same) \leq Cardinality(1 .. n) /\ IsFiniteSet(same)
    BY <1>1, <1>3, FS_Subset
  <2>2. Cardinality(same) \in Nat
    BY <2>1, FS_CardinalityType
  <2>. QED  BY <1>1, <2>1, <2>2
<1>. QED  BY <1>2, <1>4, <1>5, <1>6

(* All distances match exactly when the rows the index has returned are     *)
(* nearest, if those of the exact scan are and both returned as many.       *)
LEMMA FullRecallIsOptimal ==
  ASSUME NEW T, NEW E \in SUBSET T, NEW H \in SUBSET T, IsFiniteSet(T),
         \A r \in T : To(r) \in Nat,
         Cardinality(E) = Cardinality(H), IsNearest(Query, E, T)
  PROVE  DistanceRecall(E, H).matches = Cardinality(E) <=> IsNearest(Query, H, T)
<1>0. IsFiniteSet(E) /\ IsFiniteSet(H)
  BY FS_Subset
<1>. DEFINE n == Cardinality(E)
<1>1. ASSUME NEW d \in Nat
      PROVE  /\ Cardinality(Within(E, d)) \in 0 .. n /\ Cardinality(Within(H, d)) \in 0 .. n
             /\ Cardinality(Within(E, d)) \leq Cardinality(Within(T, d))
             /\ Cardinality(Within(H, d)) \leq Cardinality(Within(T, d))
             /\ Cardinality(Within(T, d)) \in Nat
  <2>1. IsFiniteSet(Within(T, d)) /\ Cardinality(Within(T, d)) \in 0 .. Cardinality(T)
    BY WithinCounted
  <2>2. Within(E, d) \in SUBSET Within(T, d) /\ Within(H, d) \in SUBSET Within(T, d)
    BY DEF Within
  <2>3. Cardinality(Within(E, d)) \in 0 .. n /\ Cardinality(Within(H, d)) \in 0 .. n
    BY <1>0, WithinCounted
  <2>. QED  BY <2>1, <2>2, <2>3, FS_Subset
<1>2. /\ IsNearest(Query, E, T) <=>
           Cardinality(E) = AtMostK(T) /\ \A near \in E, far \in T \ E : To(near) \leq To(far)
      /\ IsNearest(Query, H, T) <=>
           Cardinality(H) = AtMostK(T) /\ \A near \in H, far \in T \ H : To(near) \leq To(far)
  BY DEF IsNearest, To
<1>3. \A d \in Nat : \/ Cardinality(Within(E, d)) = n
                     \/ Cardinality(Within(E, d)) = Cardinality(Within(T, d))
  BY <1>2, NearestByCounts
<1>4. IsNearest(Query, H, T) <=>
        \A d \in Nat : \/ Cardinality(Within(H, d)) = n
                       \/ Cardinality(Within(H, d)) = Cardinality(Within(T, d))
  BY <1>2, NearestByCounts
<1>5. DistanceRecall(E, H).matches = n <=>
        \A d \in Nat : Cardinality(Within(E, d)) = Cardinality(Within(H, d))
  BY <1>0, SameEntries, FullRecall
<1>. HIDE DEF n
<1>6. ASSUME NEW d \in Nat
      PROVE  Cardinality(Within(E, d)) = Cardinality(Within(H, d)) <=>
               \/ Cardinality(Within(H, d)) = n
               \/ Cardinality(Within(H, d)) = Cardinality(Within(T, d))
  BY <1>1, <1>3
<1>. QED  BY <1>4, <1>5, <1>6 DEF n

-----------------------------------------------------------------------------
(* A step that leaves the tables and the two scans alone, or stops          *)
(* comparing them, and does not come to a comparison.                       *)
LEMMA ScoreKept ==
  ASSUME StudyInv, CommandInv', stage' # "hnsw",
         UNCHANGED <<corpus, scratch>>, command' \in {command, command + 1},
         UNCHANGED <<exact, compared>> \/ compared' = Null
  PROVE  StudyInv'
<1>1. TablesInv'
  <2>1. command \in Nat
    BY StudyAssumption DEF StudyAssumption, StudyInv, CommandInv, StudyTypeOK
  <2>2. 1 .. command \subseteq 1 .. command'
    BY <2>1
  <2>. QED  BY <2>2 DEF StudyInv, TablesInv
<1>2. FullScoreIsOptimal'
  BY DEF StudyInv, FullScoreIsOptimal, IsNearest, AtMostK
<1>. QED  BY <1>1, <1>2 DEF StudyInv

(* The rows of a command are of its own, and of the experiment's events.    *)
LEMMA ScratchStep ==
  ASSUME StudyInv, SetUp \/ InsertBaseline \/ InsertNovel, CommandInv'
  PROVE  StudyInv'
<1>1. /\ UNCHANGED <<corpus, command, exact, compared>>
      /\ stage' # "hnsw" /\ stage # "idle"
  BY DEF SetUp, InsertBaseline, InsertNovel, resultVars
<1>2. command \in 1 .. command
  BY <1>1, StudyAssumption DEF StudyAssumption, StudyInv, CommandInv, StudyTypeOK
<1>3. scratch' \subseteq (1 .. command) \X Events
  <2>1. CASE SetUp
    BY <2>1 DEF SetUp, EmptyTable
  <2>2. CASE InsertBaseline
    <3>1. step \in 1 .. Len(Baseline)
      BY <2>2 DEF StudyInv, CommandInv, StudyTypeOK, InsertBaseline
    <3>2. Baseline[step] \subseteq Events
      BY <3>1 DEF Events
    <3>. QED  BY <1>2, <2>2, <3>2 DEF InsertBaseline, StudyInv, TablesInv
  <2>3. CASE InsertNovel
    <3>1. step \in 1 .. Len(Checkpoints) /\ Len(Novel) \in Nat
      <4>1. study = "isolation"
        BY <2>3, StudyOfStage DEF InsertNovel, StudyInv, CommandInv
      <4>2. step \in 1 .. Len(Checkpoints)
        BY <2>3, <4>1 DEF InsertNovel, StudyInv, CommandInv, StudyTypeOK, Steps
      <4>3. Len(Novel) \in Nat
        BY StudyAssumption DEF StudyAssumption
      <4>. QED  BY <4>2, <4>3
    <3>2. Checkpoints[step] \in 1 .. Len(Novel)
      BY <3>1, StudyAssumption DEF StudyAssumption
    <3>3. {Novel[i] : i \in 1 .. Checkpoints[step]} \subseteq Events
      BY <3>1, <3>2 DEF Events
    <3>. QED  BY <1>2, <2>3, <3>3 DEF InsertNovel, NovelUpTo, StudyInv, TablesInv
  <2>. QED  BY <2>1, <2>2, <2>3
<1>4. TablesInv'
  BY <1>1, <1>3 DEF StudyInv, TablesInv
<1>5. FullScoreIsOptimal'
  BY <1>1 DEF StudyInv, FullScoreIsOptimal, IsNearest, AtMostK
<1>. QED  BY <1>4, <1>5 DEF StudyInv

LEMMA GroundTruthStep ==
  ASSUME StudyInv, ScanExact, CommandInv'
  PROVE  StudyInv'
<1>1. /\ UNCHANGED <<corpus, scratch, command, study, step>> /\ compared' = Null
      /\ exact'.query = Query
  BY DEF ScanExact, tableVars
<1>2. Query' = Query
  BY <1>1 DEF Query
<1>3. TablesInv'
  BY <1>1, <1>2 DEF StudyInv, TablesInv
<1>4. FullScoreIsOptimal'
  BY <1>1 DEF FullScoreIsOptimal
<1>. QED  BY <1>3, <1>4 DEF StudyInv

(* The distances of the rows of the table that is searched.                 *)
LEMMA AtMostKIsMin ==
  ASSUME NEW T, K \in Nat, Cardinality(T) \in Nat
  PROVE  /\ Cardinality(T) \geq K => AtMostK(T) = K
         /\ Cardinality(T) < K => AtMostK(T) = Cardinality(T)
<1>1. \E x \in {K, Cardinality(T)} : \A y \in {K, Cardinality(T)} : x \leq y
  OBVIOUS
<1>. QED  BY <1>1 DEF AtMostK, Min

LEMMA TableFacts ==
  ASSUME StudyInv, stage = "hnsw"
  PROVE  IsFiniteSet(Table) /\ \A r \in Table : To(r) \in Nat
<1>1. /\ corpus \subseteq {0} \X Failures /\ scratch \subseteq (1 .. command) \X Events
      /\ study # "search" /\ step \in 1 .. Steps /\ command \in Nat
      /\ study \in {"recall", "isolation"}
  <2>1. StudyTypeOK /\ TablesInv
    BY DEF StudyInv, CommandInv
  <2>2. corpus \subseteq {0} \X Failures /\ scratch \subseteq (1 .. command) \X Events
    BY <2>1 DEF TablesInv
  <2>3. study # "search"
    BY <2>1, StudyOfStage
  <2>4. /\ command \in Nat /\ step \in 1 .. Steps
        /\ study \in {"recall", "isolation", "search"}
    BY <2>1, StudyAssumption DEF StudyAssumption, StudyTypeOK
  <2>. QED  BY <2>2, <2>3, <2>4
<1>2. /\ IsFiniteSet(Events) /\ Queries \in Nat \ {0}
      /\ Distance \in [1 .. Queries -> [Events -> Nat]]
  BY StudyAssumption DEF StudyAssumption
<1>3. Failures \subseteq Events
  BY DEF Events
<1>4. Table \subseteq (0 .. command) \X Events
  BY <1>1, <1>3 DEF Table
<1>5. IsFiniteSet(Table)
  <2>1. IsFiniteSet(0 .. command)
    BY <1>1, FS_Interval
  <2>2. IsFiniteSet((0 .. command) \X Events)
    BY <1>2, <2>1, FS_Product
  <2>. QED  BY <1>4, <2>2, FS_Subset
<1>6. Query \in 1 .. Queries
  BY <1>1, <1>2 DEF Query, Steps
<1>7. ASSUME NEW r \in Table PROVE To(r) \in Nat
  <2>1. r[2] \in Events
    BY <1>4
  <2>. QED  BY <1>2, <1>6, <2>1 DEF To
<1>. QED  BY <1>5, <1>7

LEMMA ComparisonStep ==
  ASSUME StudyInv, ScanIndex, CommandInv'
  PROVE  StudyInv'
<1>1. /\ stage = "hnsw" /\ study \in {"recall", "isolation"}
      /\ UNCHANGED <<corpus, scratch, command, study, exact>>
      /\ exact.query = Query
  BY StudyOfStage DEF ScanIndex, tableVars, StudyInv, CommandInv, StudyTypeOK, TablesInv
<1>2. PICK S \in SUBSET Table :
        \/ /\ Cardinality(S) = Cardinality(exact.rows)
           /\ compared' = [rows |-> S, table |-> Table,
                           id |-> IdRecall(exact.rows, S),
                           distance |-> DistanceRecall(exact.rows, S)]
           /\ Proceed
        \/ compared' = Null /\ stage' = "idle"
  <2>1. \A scan, ef : Found(scan, ef, Table) \subseteq SUBSET Table
    BY DEF Found
  <2>. QED  BY <2>1 DEF ScanIndex
<1>3. TablesInv'
  <2>1. stage' = "hnsw" => step' = step
    BY <1>1, <1>2 DEF Proceed
  <2>2. stage' = "hnsw" => Query' = Query
    BY <1>1, <2>1 DEF Query
  <2>. QED  BY <1>1, <2>2 DEF StudyInv, TablesInv
<1>4. FullScoreIsOptimal'
  <2>. DEFINE perfect == IsNearest(Query, compared'.rows, compared'.table)
  <2>. SUFFICES ASSUME compared' # Null, compared'.table = exact.table,
                       IsNearest(Query, exact.rows, exact.table)
                PROVE  /\ compared'.distance.matches = AtMostK(exact.table) <=> perfect
                       /\ compared'.distance.matches = compared'.distance.of
                            <=> Cardinality(exact.table) \geq K /\ perfect
    BY <1>1 DEF FullScoreIsOptimal, Full, IsNearest, AtMostK
  <2>1. /\ Cardinality(exact.rows) = Cardinality(S) /\ compared'.rows = S
        /\ compared'.table = Table /\ exact.table = Table
        /\ compared'.distance = DistanceRecall(exact.rows, S)
    BY <1>2
  <2>2. S \in SUBSET Table
    BY <1>2
  <2>3. exact.rows \in SUBSET Table /\ IsNearest(Query, exact.rows, Table)
    BY <2>1 DEF IsNearest
  <2>4. DistanceRecall(exact.rows, S).matches = Cardinality(exact.rows) <=> perfect
    BY <1>1, <2>1, <2>2, <2>3, TableFacts, FullRecallIsOptimal
  <2>5. Cardinality(exact.rows) = AtMostK(Table)
    BY <2>3 DEF IsNearest
  <2>6. /\ K \in Nat /\ Cardinality(Table) \in Nat
        /\ Cardinality(Table) \geq K => AtMostK(Table) = K
        /\ Cardinality(Table) < K => AtMostK(Table) = Cardinality(Table)
    <3>1. K \in Nat /\ Cardinality(Table) \in Nat
      BY <1>1, TableFacts, FS_CardinalityType, StudyAssumption DEF StudyAssumption
    <3>. QED  BY <3>1, AtMostKIsMin
  <2>7. /\ DistanceRecall(exact.rows, S).matches \in 0 .. Cardinality(exact.rows)
        /\ DistanceRecall(exact.rows, S).of = K
    <3>1. IsFiniteSet(exact.rows)
      BY <1>1, <2>3, TableFacts, FS_Subset
    <3>. QED  BY <3>1, FullRecall
  <2>. HIDE DEF perfect
  <2>. QED  BY <2>1, <2>4, <2>5, <2>6, <2>7
<1>. QED  BY <1>3, <1>4 DEF StudyInv

LEMMA InitInv == StudyInit => StudyInv
<1>. SUFFICES ASSUME StudyInit PROVE StudyInv
  OBVIOUS
<1>1. CommandInv
  BY CommandStarts
<1>2. TablesInv
  BY DEF StudyInit, TablesInv
<1>3. FullScoreIsOptimal
  BY DEF StudyInit, FullScoreIsOptimal
<1>. QED  BY <1>1, <1>2, <1>3 DEF StudyInv

LEMMA NextInv == StudyInv /\ [StudyNext]_studyVars => StudyInv'
<1>. SUFFICES ASSUME StudyInv, [StudyNext]_studyVars PROVE StudyInv'
  OBVIOUS
<1>1. CommandInv'
  BY CommandNext DEF StudyInv
<1>2. CASE \/ Start("search", <<>>)
           \/ \E efs \in Sweeps : Start("recall", efs)
           \/ Start("isolation", ExperimentEfs)
  <2>1. PICK s, efs : Start(s, efs)
    BY <1>2
  <2>. QED  BY <1>1, <2>1, ScoreKept DEF Start, tableVars
<1>3. CASE Kill \/ NoReport \/ Count \/ Search \/ OpenReport \/ WriteReport
  <2>1. stage' # "hnsw"
    <3>1. CASE Count
      <4>1. study \in {"search", "recall", "isolation"}
        BY DEF StudyInv, CommandInv, StudyTypeOK
      <4>. QED  BY <3>1, <4>1 DEF Count
    <3>2. CASE ~Count
      BY <1>3, <3>2 DEF Kill, NoReport, Stop, Search, OpenReport, WriteReport
    <3>. QED  BY <3>1, <3>2
  <2>2. UNCHANGED <<corpus, scratch, command, exact, compared>>
    BY <1>3 DEF Kill, NoReport, Stop, Count, Search, OpenReport, WriteReport,
                tableVars, resultVars
  <2>. QED  BY <1>1, <2>1, <2>2, ScoreKept
<1>4. CASE SetUp \/ InsertBaseline \/ InsertNovel
  BY <1>1, <1>4, ScratchStep
<1>5. CASE ScanExact
  BY <1>1, <1>5, GroundTruthStep
<1>6. CASE ScanIndex
  BY <1>1, <1>6, ComparisonStep
<1>7. CASE Ingest \/ UNCHANGED studyVars
  <2>1. /\ corpus' \subseteq {0} \X Failures
        /\ UNCHANGED <<scratch, command, stage, study, step, exact, compared>>
    BY <1>7 DEF Ingest, studyVars, tableVars, placeVars, resultVars, StudyInv, TablesInv
  <2>2. TablesInv'
    BY <2>1 DEF StudyInv, TablesInv, Query
  <2>3. FullScoreIsOptimal'
    BY <2>1 DEF StudyInv, FullScoreIsOptimal, IsNearest, AtMostK
  <2>. QED  BY <1>1, <2>2, <2>3 DEF StudyInv
<1>. QED  BY <1>2, <1>3, <1>4, <1>5, <1>6, <1>7 DEF StudyNext

(* Commands, connection, scratch table and RECALL.md agree in every         *)
(* reachable state, wherever a command is killed (recall.py, search.py,     *)
(* isolation_experiment.py).                                                *)
THEOREM StudyInvariance == StudySpec => []StudyInv
<1>. QED  BY InitInv, NextInv, PTL DEF StudySpec

(* While no plan is cached, a forced exact scan is exact, whatever the      *)
(* connection did before and however many settings are left over            *)
(* (recall.py:190-205, isolation_experiment.py:173-194).                    *)
THEOREM ForcedScansAreExact == StudySpec => []ExactUnlessCached
<1>1. StudyInv => ExactUnlessCached
  BY DEF StudyInv, CommandInv
<1>. QED  BY <1>1, StudyInvariance, PTL

(* On a connection that has executed the statement at most CustomRuns times *)
(* every ground truth is one: the bound below which the sweeps of recall.py *)
(* and isolation_experiment.py would be safe.                               *)
THEOREM FewExecutionsAreExact ==
  StudySpec => [](session.runs < CustomRuns => GroundTruthIsExact)
<1>1. StudyInv => (session.runs < CustomRuns => GroundTruthIsExact)
  <2>. SUFFICES ASSUME StudyInv, session.runs < CustomRuns PROVE GroundTruthIsExact
    OBVIOUS
  <2>1. session.runs \in Nat /\ CustomRuns \in Nat
    BY SessionAssumption DEF SessionAssumption, StudyInv, CommandInv, StudyTypeOK, Sessions
  <2>2. session.generic = Null
    BY <2>1 DEF StudyInv, CommandInv, SessionInv
  <2>. QED  BY <2>2 DEF StudyInv, CommandInv, ExactUnlessCached, GroundTruthIsExact
<1>. QED  BY <1>1, StudyInvariance, PTL

(* A search has run on the path it reports, and has the index when it asks  *)
(* for it (search.py:83-118).                                               *)
THEOREM SearchesRunAsReported == StudySpec => []ReportedPathRan
<1>1. StudyInv => ReportedPathRan
  BY DEF StudyInv, CommandInv
<1>. QED  BY <1>1, StudyInvariance, PTL

(* The experiment measures the table it has built, up to its checkpoint,    *)
(* whatever a killed one left (isolation_experiment.py:156-170, 246-255).   *)
THEOREM ExperimentIsIsolated == StudySpec => []ScratchIsOwn
<1>1. StudyInv => ScratchIsOwn
  BY DEF StudyInv, CommandInv
<1>. QED  BY <1>1, StudyInvariance, PTL

(* RECALL.md has one section of the experiment at most, last and newer than *)
(* what is above it (isolation_experiment.py:505-517, recall.py:830-832).   *)
THEOREM SectionsAreCurrent == StudySpec => []NoStaleSection
<1>1. StudyInv => NoStaleSection
  BY DEF StudyInv, CommandInv
<1>. QED  BY <1>1, StudyInvariance, PTL

(* If both scans saw the same table, all distances of a comparison match    *)
(* exactly when the index has returned the nearest rows, whichever of those *)
(* that are equally far, and the score, a share of k, is full exactly then  *)
(* and if there are k rows (recall.py:31-37, 235): for any distances, any k *)
(* and any table.                                                           *)
THEOREM FullScoresAreOptimal == StudySpec => []FullScoreIsOptimal
<1>1. StudyInv => FullScoreIsOptimal
  BY DEF StudyInv
<1>. QED  BY <1>1, StudyInvariance, PTL
=============================================================================
