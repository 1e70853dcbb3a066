--------------------------- MODULE IncidentProofs ---------------------------
(***************************************************************************)
(* Proofs about IncidentHarness, for all durations and lists of questions. *)
(***************************************************************************)
EXTENDS IncidentHarness, TLAPS

LEMMA Constants ==
  /\ Len(Questions) \in Nat /\ Len(Questions) \geq 1
  /\ Duration \in Nat /\ Window \in Nat /\ PollInterval \in Nat /\ MaxWait \in Nat
  /\ Buffer \in Nat /\ Pause \in Nat /\ EnginePoll \in Nat /\ Latency \in Nat
  /\ MaxAsk \in Nat
  /\ None \notin Buffered
  /\ \A r : BufferOf(r) \in Nat /\ BufferOf(r) \leq Buffer
BY HarnessAssumption DEF BufferOf

-----------------------------------------------------------------------------
(* Types.                                                                   *)
LEMMA BeginTypes ==
  ASSUME TypeOK, step # "done", Begin(run + 1), now' = now,
         UNCHANGED <<deadline, control, expires, engineVars>>
  PROVE  TypeOK'
BY Constants
   DEF TypeOK, Begin, Prepare, GoTo, Steps, engineVars, Incidents, Never

LEMMA TypesInit == Init => TypeOK
<1> SUFFICES ASSUME Init PROVE TypeOK
  OBVIOUS
<1>1. \A i \in Incidents : started[i] \in {0, Never} /\ expires[i] \in Nat
  BY Constants DEF Init
<1> QED
  BY <1>1, Constants DEF Init, TypeOK, Steps, Incidents, Never

LEMMA TypesStep == TypeOK /\ [Next]_vars => TypeOK'
<1> SUFFICES ASSUME TypeOK, [Next]_vars PROVE TypeOK'
  OBVIOUS
<1> USE Constants
<1>1. CASE Reset
  BY <1>1 DEF Reset, FileEmptied, PauseFor, GoTo, TypeOK, Steps, engineVars
<1>2. CASE ResetDone
  BY <1>2 DEF ResetDone, Prepare, GoTo, TypeOK, Steps, engineVars
<1>3. CASE InjectWrites
  <2>1. PICK t \in injectStart .. now :
          expires' = [expires EXCEPT ![run] = t + Duration]
    BY <1>3 DEF InjectWrites
  <2>2. t + Duration \in Nat /\ run \in Incidents
    BY <1>3 DEF InjectWrites, TypeOK, Incidents
  <2>3. expires' \in [Incidents -> Nat]
    BY <2>1, <2>2 DEF TypeOK
  <2>4. control' \subseteq Incidents
    BY <1>3, <2>2 DEF InjectWrites, TypeOK
  <2> QED
    BY <1>3, <2>3, <2>4 DEF InjectWrites, TypeOK, Steps, engineVars
<1>4. CASE InjectReturns
  BY <1>4, SMTT(20) DEF InjectReturns, GoTo, TypeOK, Steps, engineVars
<1>5. CASE GatePasses
  BY <1>5, SMTT(20) DEF GatePasses, GateEnds, GoTo, TypeOK, Steps, engineVars
<1>6. CASE GateGivesUp
  BY <1>6, SMTT(20) DEF GateGivesUp, GateEnds, GoTo, TypeOK, Steps, engineVars
<1>7. CASE GateWaits
  BY <1>7 DEF GateWaits, GoTo, TypeOK, Steps, engineVars
<1>8. CASE Ask
  BY <1>8 DEF Ask, GoTo, TypeOK, Steps, engineVars
<1>9. CASE Answer
  <2>1. CASE Questions[run] = None
    BY <1>9, <2>1, BeginTypes DEF Answer
  <2>2. CASE Questions[run] # None
    BY <1>9, <2>2 DEF Answer, RecordsSince, GoTo, TypeOK, Steps, engineVars
  <2> QED
    BY <2>1, <2>2
<1>10. CASE Clear
  BY <1>10 DEF Clear, FileEmptied, PauseFor, GoTo, TypeOK, Steps, engineVars
<1>11. CASE ClearDone
  BY <1>11, BeginTypes DEF ClearDone
<1>12. CASE Fail
  BY <1>12 DEF Fail, TypeOK, Steps, engineVars
<1>13. CASE Poll
  BY <1>13 DEF Poll, TypeOK, Steps, harnessVars
<1>14. CASE Tick
  BY <1>14 DEF Tick, TypeOK, Steps, harnessVars, engineVars
<1>15. CASE UNCHANGED vars
  BY <1>15 DEF vars, TypeOK, Steps, harnessVars, engineVars
<1> QED
  BY <1>1, <1>2, <1>3, <1>4, <1>5, <1>6, <1>7, <1>8, <1>9, <1>10, <1>11, <1>12,
     <1>13, <1>14, <1>15 DEF Next, Harness

-----------------------------------------------------------------------------
(* What a poll does: it holds what the file holds and has not expired, and  *)
(* writes no record of an incident that is neither in the file nor held.    *)
LEMMA PollActive ==
  ASSUME TypeOK, Poll
  PROVE  /\ Active' \subseteq control
         /\ \A i \in control : expires[i] > now => i \in Active'
         /\ \A i \in Incidents \ control :
              /\ started'[i] = started[i]
              /\ ended'[i] = ended[i] \/ (i \in Active /\ ended'[i] = now)
<1> DEFINE ending   == {i \in Active : i \notin control \/ expires[i] \leq now}
           starting == {i \in control \ Active : expires[i] > now}
<1>1. \A i \in Incidents :
        /\ started'[i] = IF i \in starting THEN now ELSE started[i]
        /\ ended'[i] = IF i \in ending THEN now
                       ELSE IF i \in starting THEN Never ELSE ended[i]
  BY DEF Poll
<1>2. now # Never /\ Active \subseteq Incidents /\ control \subseteq Incidents
  BY DEF TypeOK, Active, Never
<1> HIDE DEF ending, starting
<1>3. \A i \in Incidents : i \in Active' <=> (started'[i] # Never /\ ended'[i] = Never)
  BY DEF Active
<1>4. \A i \in Incidents : i \in Active <=> (started[i] # Never /\ ended[i] = Never)
  BY DEF Active
<1>5. \A i \in Incidents :
        /\ i \in ending <=> (i \in Active /\ (i \notin control \/ expires[i] \leq now))
        /\ i \in starting <=> (i \in control /\ i \notin Active /\ expires[i] > now)
  BY <1>2 DEF ending, starting
<1>6. Active' \subseteq Incidents
  BY DEF Active
<1>7. \A i \in control : expires[i] \in Nat /\ now \in Nat
  BY <1>2 DEF TypeOK
<1> QED
  <2>1. ASSUME NEW i \in Active' PROVE i \in control
    <3>1. i \in Incidents /\ started'[i] # Never /\ ended'[i] = Never
      BY <1>3, <1>6
    <3>2. CASE i \in starting
      BY <3>2, <1>5, <3>1
    <3>3. CASE i \notin starting
      BY <3>1, <3>3, <1>1, <1>2, <1>4, <1>5
    <3> QED
      BY <3>2, <3>3
  <2>2. ASSUME NEW i \in control, expires[i] > now PROVE i \in Active'
    <3>1. i \in Incidents /\ ~(expires[i] \leq now)
      BY <1>2, <1>7, <2>2
    <3>2. CASE i \in Active
      BY <3>1, <3>2, <1>1, <1>3, <1>4, <1>5
    <3>3. CASE i \notin Active
      <4>1. i \in starting /\ i \notin ending
        BY <3>1, <3>3, <1>5, <2>2
      <4> QED
        BY <3>1, <4>1, <1>1, <1>2, <1>3
    <3> QED
      BY <3>2, <3>3
  <2>3. ASSUME NEW i \in Incidents \ control
        PROVE  /\ started'[i] = started[i]
               /\ ended'[i] = ended[i] \/ (i \in Active /\ ended'[i] = now)
    BY <1>1, <1>5
  <2> QED
    BY <2>1, <2>2, <2>3

-----------------------------------------------------------------------------
(* The clock.                                                               *)
LEMMA ClockStep ==
  TypeOK /\ Clock /\ [Next]_vars => Clock'
<1> SUFFICES ASSUME TypeOK, Clock, [Next]_vars PROVE Clock'
  OBVIOUS
<1> USE Constants
<1>1. CASE Reset
  BY <1>1 DEF Reset, FileEmptied, PauseFor, GoTo, engineVars, Clock, TypeOK
<1>2. CASE ResetDone
  BY <1>2 DEF ResetDone, Prepare, GoTo, engineVars, Clock, TypeOK
<1>3. CASE InjectWrites
  BY <1>3 DEF InjectWrites, engineVars, Clock, TypeOK
<1>4. CASE InjectReturns
  BY <1>4 DEF InjectReturns, GoTo, engineVars, Clock, TypeOK
<1>5. CASE GatePasses
  BY <1>5 DEF GatePasses, GateEnds, GoTo, engineVars, Clock, TypeOK
<1>6. CASE GateGivesUp
  BY <1>6 DEF GateGivesUp, GateEnds, GoTo, engineVars, Clock, TypeOK
<1>7. CASE GateWaits
  BY <1>7 DEF GateWaits, GoTo, engineVars, Clock, TypeOK
<1>8. CASE Ask
  BY <1>8 DEF Ask, GoTo, engineVars, Clock, TypeOK
<1>9. CASE Answer
  BY <1>9 DEF Answer, RecordsSince, Begin, Prepare, GoTo, engineVars, Clock, TypeOK
<1>10. CASE Clear
  BY <1>10 DEF Clear, FileEmptied, PauseFor, GoTo, engineVars, Clock, TypeOK
<1>11. CASE ClearDone
  BY <1>11 DEF ClearDone, Begin, Prepare, GoTo, engineVars, Clock, TypeOK
<1>12. CASE Fail
  BY <1>12 DEF Fail, engineVars, Clock, TypeOK
<1>13. CASE Poll
  BY <1>13 DEF Poll, harnessVars, Clock, TypeOK, Never
<1>14. CASE Tick
  BY <1>14 DEF Tick, harnessVars, engineVars, Clock, TypeOK, Never
<1>15. CASE UNCHANGED vars
  BY <1>15 DEF vars, harnessVars, engineVars, Clock, TypeOK
<1> QED
  BY <1>1, <1>2, <1>3, <1>4, <1>5, <1>6, <1>7, <1>8, <1>9, <1>10, <1>11, <1>12,
     <1>13, <1>14, <1>15 DEF Next, Harness

-----------------------------------------------------------------------------
(* The steps up to the question.                                            *)
LEMMA BudgetStep ==
  TypeOK /\ Clock /\ Budget /\ [Next]_vars => Budget'
<1> SUFFICES ASSUME TypeOK, Clock, Budget, [Next]_vars PROVE Budget'
  OBVIOUS
<1> USE Constants
<1>1. CASE Reset
  BY <1>1 DEF Reset, FileEmptied, PauseFor, GoTo, engineVars, Budget, Clock, TypeOK, HasIncident
<1>2. CASE ResetDone
  BY <1>2 DEF ResetDone, Prepare, GoTo, engineVars, Budget, Clock, TypeOK, HasIncident
<1>3. CASE InjectWrites
  <2>1. PICK t \in injectStart .. now :
          expires' = [expires EXCEPT ![run] = t + Duration]
    BY <1>3 DEF InjectWrites
  <2>2. run \in Incidents /\ step = "inject"
    BY <1>3 DEF InjectWrites, TypeOK, Incidents
  <2>3. expires'[run] = t + Duration /\ t + Duration \geq injectStart + Duration
    BY <2>1, <2>2 DEF TypeOK
  <2> QED
    BY <1>3, <2>2, <2>3 DEF InjectWrites, Budget, Clock, TypeOK, HasIncident
<1>4. CASE InjectReturns
  BY <1>4 DEF InjectReturns, GoTo, engineVars, Budget, Clock, TypeOK, HasIncident
<1>5. CASE GatePasses
  BY <1>5 DEF GatePasses, GateEnds, GoTo, engineVars, Budget, Clock, TypeOK, HasIncident
<1>6. CASE GateGivesUp
  BY <1>6 DEF GateGivesUp, GateEnds, GoTo, engineVars, Budget, Clock, TypeOK, HasIncident
<1>7. CASE GateWaits
  BY <1>7 DEF GateWaits, GoTo, engineVars, Budget, Clock, TypeOK, HasIncident
<1>8. CASE Ask
  BY <1>8 DEF Ask, GoTo, engineVars, Budget, Clock, TypeOK, HasIncident
<1>9. CASE Answer
  BY <1>9 DEF Answer, RecordsSince, Begin, Prepare, GoTo, engineVars, Budget, Clock, TypeOK, HasIncident
<1>10. CASE Clear
  BY <1>10 DEF Clear, FileEmptied, PauseFor, GoTo, engineVars, Budget, Clock, TypeOK, HasIncident
<1>11. CASE ClearDone
  BY <1>11 DEF ClearDone, Begin, Prepare, GoTo, engineVars, Budget, Clock, TypeOK, HasIncident
<1>12. CASE Fail
  BY <1>12 DEF Fail, engineVars, Budget, Clock, TypeOK, HasIncident
<1>13. CASE Poll
  BY <1>13 DEF Poll, harnessVars, Budget, Clock, TypeOK, HasIncident
<1>14. CASE Tick
  BY <1>14 DEF Tick, harnessVars, engineVars, Budget, Clock, TypeOK, HasIncident
<1>15. CASE UNCHANGED vars
  BY <1>15 DEF vars, harnessVars, engineVars, Budget, Clock, TypeOK, HasIncident
<1> QED
  BY <1>1, <1>2, <1>3, <1>4, <1>5, <1>6, <1>7, <1>8, <1>9, <1>10, <1>11, <1>12,
     <1>13, <1>14, <1>15 DEF Next, Harness

-----------------------------------------------------------------------------
(* The buffer.                                                              *)
LEMMA HeldStep ==
  TypeOK /\ TypeOK' /\ Clock /\ Budget /\ LongEnough /\ Held /\ [Next]_vars => Held'
<1> SUFFICES ASSUME TypeOK, TypeOK', Clock, Budget, LongEnough, Held, [Next]_vars PROVE Held'
  OBVIOUS
<1> USE Constants
<1>1. CASE Reset
  BY <1>1 DEF Reset, FileEmptied, PauseFor, GoTo, engineVars, Held, Budget, Clock, LongEnough, TypeOK, HasIncident, Active, Incidents
<1>2. CASE ResetDone
  BY <1>2 DEF ResetDone, Prepare, GoTo, engineVars, Held, Budget, Clock, LongEnough, TypeOK, HasIncident, Active, Incidents
<1>3. CASE InjectWrites
  BY <1>3 DEF InjectWrites, engineVars, Held, Budget, Clock, LongEnough, TypeOK, HasIncident, Active, Incidents
<1>4. CASE InjectReturns
  BY <1>4 DEF InjectReturns, GoTo, engineVars, Held, Budget, Clock, LongEnough, TypeOK, HasIncident, Active, Incidents
<1>5. CASE GatePasses
  <2>1. wake' = now + BufferOf(run) /\ polledAt' = polledAt /\ run' = run
    BY <1>5 DEF GatePasses, GateEnds, GoTo, engineVars
  <2> QED
    BY <2>1 DEF BufferOf, Held, Clock, TypeOK
<1>6. CASE GateGivesUp
  <2>1. wake' = now + BufferOf(run) /\ polledAt' = polledAt /\ run' = run
    BY <1>6 DEF GateGivesUp, GateEnds, GoTo, engineVars
  <2> QED
    BY <2>1 DEF BufferOf, Held, Clock, TypeOK
<1>7. CASE GateWaits
  BY <1>7 DEF GateWaits, GoTo, engineVars, Held, Budget, Clock, LongEnough, TypeOK, HasIncident, Active, Incidents
<1>8. CASE Ask
  BY <1>8 DEF Ask, GoTo, engineVars, Held, Budget, Clock, LongEnough, TypeOK, HasIncident, Active, Incidents
<1>9. CASE Answer
  BY <1>9 DEF Answer, RecordsSince, Begin, Prepare, GoTo, engineVars, Held, Budget, Clock, LongEnough, TypeOK, HasIncident, Active, Incidents
<1>10. CASE Clear
  BY <1>10 DEF Clear, FileEmptied, PauseFor, GoTo, engineVars, Held, Budget, Clock, LongEnough, TypeOK, HasIncident, Active, Incidents
<1>11. CASE ClearDone
  BY <1>11 DEF ClearDone, Begin, Prepare, GoTo, engineVars, Held, Budget, Clock, LongEnough, TypeOK, HasIncident, Active, Incidents
<1>12. CASE Fail
  BY <1>12 DEF Fail, engineVars, Held, Budget, Clock, LongEnough, TypeOK, HasIncident, Active, Incidents
<1>13. CASE Poll
  <2>1. SUFFICES ASSUME step = "ready", Questions[run] \in Buffered
                 PROVE  run \in Active'
    BY <1>13 DEF Poll, harnessVars, Held
  <2>2. run \in control /\ expires[run] \geq injectStart + Duration
    BY <2>1 DEF Budget, HasIncident
  <2>3. now \leq injectStart + MaxWait + PollInterval + Buffer + 3 * Latency
    BY <2>1, SMTT(20) DEF Budget, Clock, TypeOK, HasIncident
  <2>4. expires[run] \in Nat /\ now \in Nat /\ injectStart \in Nat
    BY <2>2 DEF TypeOK
  <2>5. injectStart + Duration > injectStart + MaxWait + PollInterval + Buffer + 3 * Latency
    BY <2>4, LongEnough DEF LongEnough
  <2>6. expires[run] > now
    BY <2>2, <2>3, <2>4, <2>5
  <2> QED
    BY <1>13, <2>2, <2>6, PollActive
<1>14. CASE Tick
  BY <1>14 DEF Tick, harnessVars, engineVars, Held, Budget, Clock, LongEnough, TypeOK, HasIncident, Active, Incidents
<1>15. CASE UNCHANGED vars
  BY <1>15 DEF vars, harnessVars, engineVars, Held, Budget, Clock, LongEnough, TypeOK, HasIncident, Active, Incidents
<1> QED
  BY <1>1, <1>2, <1>3, <1>4, <1>5, <1>6, <1>7, <1>8, <1>9, <1>10, <1>11, <1>12,
     <1>13, <1>14, <1>15 DEF Next, Harness

-----------------------------------------------------------------------------
(* The pause.                                                               *)
LEMMA QuietStep ==
  TypeOK /\ TypeOK' /\ Clock /\ ClearsFirst /\ PollsInPause /\ Quiet /\ [Next]_vars => Quiet'
<1> SUFFICES ASSUME TypeOK, TypeOK', Clock, ClearsFirst, PollsInPause, Quiet, [Next]_vars PROVE Quiet'
  OBVIOUS
<1> USE Constants
<1>1. CASE Reset
  <2>1. /\ step' = "resetPause" /\ wake' = now + Pause /\ control' = {}
        /\ UNCHANGED <<captured, started, ended, polledAt, run>>
    BY <1>1 DEF Reset, FileEmptied, PauseFor, GoTo, engineVars
  <2>2. polledAt' \leq wake' - Pause
    BY <2>1 DEF Clock, TypeOK
  <2>3. \A i \in Incidents : /\ started'[i] \leq wake' - Pause
                            /\ ended'[i] \leq wake' - Pause + EnginePoll
    BY <2>1 DEF Clock, TypeOK, Never
  <2> QED
    BY <2>1, <2>2, <2>3 DEF Quiet, InForce
<1>2. CASE ResetDone
  <2>1. /\ step = "resetPause" /\ now \geq wake
        /\ step' \in {"inject", "ready"} /\ injectStart' = now
        /\ UNCHANGED <<captured, control, started, ended, run>>
    BY <1>2 DEF ResetDone, Prepare, GoTo, engineVars
  <2>2. Active = {} /\ control = {}
    BY <2>1 DEF Quiet, PollsInPause, Clock, TypeOK
  <2>3. Active' = {}
    BY <2>1, <2>2 DEF Active
  <2>4. \A i \in Incidents : started'[i] < injectStart' /\ ended'[i] < injectStart'
    <3> TAKE i \in Incidents
    <3>1. /\ started[i] \leq wake - Pause /\ ended[i] \leq wake - Pause + EnginePoll
          /\ started[i] \in Int /\ ended[i] \in Int
      BY <2>1, SMTT(20) DEF Quiet, TypeOK, Never
    <3>2. EnginePoll < Pause /\ wake \in Nat /\ now \in Nat
      BY DEF PollsInPause, TypeOK
    <3> QED
      BY <2>1, <3>1, <3>2
  <2> QED
    BY <2>1, <2>2, <2>3, <2>4 DEF Quiet, InForce
<1>3. CASE InjectWrites
  BY <1>3 DEF InjectWrites, engineVars, Quiet, PollsInPause, InForce, Clock, TypeOK, Active, Incidents, Never
<1>4. CASE InjectReturns
  BY <1>4 DEF InjectReturns, GoTo, engineVars, Quiet, PollsInPause, InForce, Clock, TypeOK, Active, Incidents, Never
<1>5. CASE GatePasses
  BY <1>5 DEF GatePasses, GateEnds, GoTo, engineVars, Quiet, PollsInPause, InForce, Clock, TypeOK, Active, Incidents, Never
<1>6. CASE GateGivesUp
  BY <1>6 DEF GateGivesUp, GateEnds, GoTo, engineVars, Quiet, PollsInPause, InForce, Clock, TypeOK, Active, Incidents, Never
<1>7. CASE GateWaits
  BY <1>7 DEF GateWaits, GoTo, engineVars, Quiet, PollsInPause, InForce, Clock, TypeOK, Active, Incidents, Never
<1>8. CASE Ask
  BY <1>8 DEF Ask, GoTo, engineVars, Quiet, PollsInPause, InForce, Clock, TypeOK, Active, Incidents, Never
<1>9. CASE Answer
  <2>1. step' \in {"reset", "done", "clear"} /\ step = "ask"
    BY <1>9 DEF Answer, Begin, GoTo
  <2>2. captured' = {} \/ (run' = run /\ captured' = RecordsSince(injectStart))
    <3>1. CASE Questions[run] = None
      BY <1>9, <3>1 DEF Answer, Begin
    <3>2. CASE Questions[run] # None
      BY <1>9, <3>2 DEF Answer
    <3> QED
      BY <3>1, <3>2
  <2>3. RecordsSince(injectStart) \subseteq {run}
    <3>1. ASSUME NEW i \in Incidents, i # run
          PROVE  ~(started[i] \geq injectStart) /\ ~(ended[i] \geq injectStart)
      <4>1. started[i] < injectStart /\ ended[i] < injectStart
        BY <2>1, <3>1 DEF Quiet, InForce
      <4>2. started[i] \in Int /\ ended[i] \in Int /\ injectStart \in Int
        BY SMTT(20) DEF TypeOK, Never
      <4> QED
        BY <4>1, <4>2
    <3> QED
      BY <3>1 DEF RecordsSince
  <2> QED
    BY <2>1, <2>2, <2>3 DEF Quiet, InForce
<1>10. CASE Clear
  BY <1>10 DEF Clear, FileEmptied, PauseFor, GoTo, engineVars, Quiet, PollsInPause, InForce, Clock, TypeOK, Active, Incidents, Never
<1>11. CASE ClearDone
  BY <1>11 DEF ClearDone, Begin, Prepare, GoTo, engineVars, Quiet, PollsInPause, InForce, Clock, TypeOK, Active, Incidents, Never
<1>12. CASE Fail
  BY <1>12 DEF Fail, engineVars, Quiet, PollsInPause, InForce, Clock, TypeOK, Active, Incidents, Never
<1>13. CASE Poll
  <2>1. Active' \subseteq control
    BY <1>13, PollActive
  <2>2. UNCHANGED <<now, harnessVars, control>> /\ polledAt' = now
    BY <1>13 DEF Poll
  <2>3. \A i \in Incidents \ control :
          /\ started'[i] = started[i]
          /\ ended'[i] = ended[i] \/ (i \in Active /\ ended'[i] = now)
    BY <1>13, PollActive
  <2>4. CASE step = "resetPause"
    <3>1. now \leq wake - Pause + EnginePoll \/ Active = {}
      BY <2>4, SMTT(20) DEF Quiet, Clock, TypeOK
    <3> QED
      <4>1. control = {} /\ Active' = {}
        BY <2>1, <2>4 DEF Quiet
      <4>2. ASSUME NEW i \in Incidents
            PROVE  started'[i] \leq wake - Pause /\ ended'[i] \leq wake - Pause + EnginePoll
        BY <2>3, <2>4, <3>1, <4>1 DEF Quiet
      <4> QED
        BY <2>2, <2>4, <4>1, <4>2 DEF Quiet, InForce, harnessVars
  <2>5. CASE step \in {"inject"} \cup InForce
    <3>1. \A i \in Incidents \ {run} : started'[i] = started[i] /\ ended'[i] = ended[i]
      BY <2>3, <2>5 DEF Quiet
    <3> QED
      BY <2>1, <2>2, <2>5, <3>1 DEF Quiet, InForce, harnessVars
  <2>6. CASE step \notin {"resetPause", "inject"} \cup InForce
    BY <2>2, <2>6 DEF Quiet, InForce, harnessVars
  <2> QED
    BY <2>4, <2>5, <2>6
<1>14. CASE Tick
  BY <1>14 DEF Tick, harnessVars, engineVars, Quiet, PollsInPause, InForce, Clock, TypeOK, Active, Incidents, Never
<1>15. CASE UNCHANGED vars
  BY <1>15 DEF vars, harnessVars, engineVars, Quiet, PollsInPause, InForce, Clock, TypeOK, Active, Incidents, Never
<1> QED
  BY <1>1, <1>2, <1>3, <1>4, <1>5, <1>6, <1>7, <1>8, <1>9, <1>10, <1>11, <1>12,
     <1>13, <1>14, <1>15 DEF Next, Harness

-----------------------------------------------------------------------------
LEMMA InitInv == Init => IInv
<1> SUFFICES ASSUME Init PROVE IInv
  OBVIOUS
<1>1. TypeOK
  BY TypesInit
<1>2. \A i \in Incidents : started[i] \in {0, Never} /\ ended[i] = Never
  BY DEF Init
<1>3. Clock
  BY <1>2, Constants DEF Init, Clock, Never
<1>4. Budget
  BY Constants DEF Init, Budget, HasIncident
<1>5. Held
  BY Constants DEF Init, Held
<1>6. ClearsFirst => Quiet
  BY DEF Init, Quiet, InForce
<1> QED
  BY <1>1, <1>3, <1>4, <1>5, <1>6 DEF IInv

LEMMA StepInv == IInv /\ [Next]_vars => IInv'
<1> SUFFICES ASSUME IInv, [Next]_vars PROVE IInv'
  OBVIOUS
<1>1. TypeOK /\ Clock /\ Budget /\ TypeOK'
  BY TypesStep DEF IInv
<1>2. Clock' /\ Budget'
  BY <1>1, ClockStep, BudgetStep
<1>3. LongEnough => Held'
  BY <1>1, HeldStep DEF IInv
<1>4. ClearsFirst /\ PollsInPause => Quiet'
  BY <1>1, QuietStep DEF IInv
<1> QED
  BY <1>1, <1>2, <1>3, <1>4 DEF IInv, LongEnough, PollsInPause

(* The inductive invariant holds in every reachable state.                  *)
THEOREM Invariance == Spec => []IInv
  BY InitInv, StepInv, PTL DEF Spec

(* poll_until() never hangs (incident_control.py:69-84).                    *)
THEOREM GateEndsInTime == Spec => []GateIsBounded
<1>1. IInv => GateIsBounded
  BY Constants DEF IInv, Budget, Clock, TypeOK, GateIsBounded
<1> QED
  BY <1>1, Invariance, PTL

(* With durations as LongEnough says, every question about an incident is   *)
(* asked before the incident is over (run_demo.py:74-76).                   *)
THEOREM AskInTime == ASSUME LongEnough PROVE Spec => AskedBeforeExpiry
<1>1. ASSUME IInv, [Next]_vars
      PROVE  [step = "ready" /\ step' = "ask" /\ HasIncident => now < expires[run]]_vars
  <2> SUFFICES ASSUME step = "ready", HasIncident PROVE now < expires[run]
    OBVIOUS
  <2>1. run \in Incidents /\ step # "done"
    BY <1>1, Constants DEF IInv, TypeOK, Incidents
  <2> QED
    BY <1>1, <2>1, LongEnough, Constants
       DEF IInv, Budget, Clock, TypeOK, LongEnough
<1> QED
  BY <1>1, Invariance, PTL DEF Spec, AskedBeforeExpiry

(* When the engine polls within the buffer as well, it holds the incident a *)
(* buffered question is about, on whatever rows the gate has passed.        *)
THEOREM BufferHelps ==
  ASSUME LongEnough, PollsInBuffer PROVE Spec => BufferedIsActive
<1>1. ASSUME IInv, [Next]_vars
      PROVE  [step = "ready" /\ step' = "ask" /\ Questions[run] \in Buffered
                => run \in Active]_vars
  <2> SUFFICES ASSUME step = "ready", step' = "ask", Questions[run] \in Buffered
               PROVE  run \in Active
    OBVIOUS
  <2>1. now \geq wake
    BY <1>1, Constants DEF Next, Harness, Reset, FileEmptied, ResetDone, InjectWrites,
       InjectReturns, GatePasses, GateGivesUp, GateEnds, GateWaits, Ask, Answer, Begin,
       Prepare, Clear,
       ClearDone, Fail, Poll, Tick, PauseFor, GoTo, vars, harnessVars
  <2> QED
    BY <1>1, <2>1, LongEnough, PollsInBuffer, Constants
       DEF IInv, Held, Clock, TypeOK, PollsInBuffer
<1> QED
  BY <1>1, Invariance, PTL DEF Spec, BufferedIsActive

(* When the engine polls within the pause, no run of the evaluation         *)
(* inherits an incident (run_eval.py:252-255).                              *)
THEOREM RunsAreIndependent ==
  ASSUME ClearsFirst, PollsInPause PROVE Spec => []NoneInherited
<1>1. IInv => NoneInherited
  BY ClearsFirst, PollsInPause DEF IInv, Quiet, NoneInherited
<1> QED
  BY <1>1, Invariance, PTL

(* Nor does the snapshot of a run hold a record of another one              *)
(* (run_eval.py:115-148).                                                   *)
THEOREM SnapshotsAreOwn ==
  ASSUME ClearsFirst, PollsInPause PROVE Spec => []RecordsAreOwn
<1>1. IInv => RecordsAreOwn
  BY ClearsFirst, PollsInPause DEF IInv, Quiet, RecordsAreOwn
<1> QED
  BY <1>1, Invariance, PTL

-----------------------------------------------------------------------------
(* When the gate is right.                                                  *)

GateInv ==
  gate = "passed" /\ Unmistakable(run) => run \in Incidents /\ started[run] # Never

LEMMA GateStep ==
  ASSUME IInv, GateInv, [Next]_vars
  PROVE  GateInv'
<1>1. /\ run \in 1 .. Len(Questions) + 1 /\ started \in [Incidents -> Nat \cup {Never}]
      /\ now \in Nat
      /\ step # "done" => run \in Incidents \ {0}
  BY Constants DEF IInv, TypeOK, Incidents
<1>2. CASE GatePasses
  <2>1. /\ step = "gate" /\ run' = run /\ started' = started
        /\ MayShow(Questions[run])
    BY <1>2 DEF GatePasses, GateEnds, GoTo, engineVars
  <2>2. ASSUME Unmistakable(run) PROVE run \in Incidents /\ started[run] # Never
    <3>1. PICK i \in Incidents : Kind(i) = Questions[run] /\ started[i] # Never
      BY <2>1, <2>2 DEF MayShow, Unmistakable
    <3>2. i = run
      BY <2>2, <3>1 DEF Unmistakable
    <3> QED
      BY <3>1, <3>2
  <2>3. Unmistakable(run)' <=> Unmistakable(run)
    BY <2>1 DEF Unmistakable, Kind
  <2> QED
    BY <2>1, <2>2, <2>3 DEF GateInv
<1>3. CASE Poll
  <2>1. gate' = gate /\ run' = run /\ step' = step
    BY <1>3 DEF Poll, harnessVars
  <2>2. ASSUME run \in Incidents, started[run] # Never PROVE started'[run] # Never
    <3>1. started'[run] \in {now, started[run]}
      BY <1>3, <2>2 DEF Poll
    <3>2. now # Never
      BY <1>1 DEF Never
    <3> QED
      BY <2>2, <3>1, <3>2
  <2>3. Unmistakable(run)' <=> Unmistakable(run)
    BY <2>1 DEF Unmistakable, Kind
  <2> QED
    BY <2>1, <2>2, <2>3 DEF GateInv
<1>4. ASSUME ~ GatePasses, ~ Poll
      PROVE  started' = started /\ ((gate' = gate /\ run' = run) \/ gate' # "passed")
  BY <1>4 DEF Next, Harness, Reset, ResetDone, InjectWrites, InjectReturns,
     GateGivesUp, GateEnds, GateWaits, Ask, Answer, Begin, Prepare, Clear,
     ClearDone, Fail, Tick, PauseFor, GoTo, vars, harnessVars, engineVars
<1>5. CASE ~ GatePasses /\ ~ Poll
  <2>1. run' = run => (Unmistakable(run)' <=> Unmistakable(run))
    BY DEF Unmistakable, Kind
  <2> QED
    BY <1>4, <1>5, <2>1 DEF GateInv
<1> QED
  BY <1>2, <1>3, <1>5

(* What run_demo.py:19-21 says of its wait holds of a run whose type of     *)
(* incident no other run has, nor the leftover, unless its gate is one that *)
(* baseline rows can open (incident_control.py:87-147).                     *)
THEOREM GateIsRightForItsOwn == Spec => []GateIsRight
<1>1. Init => GateInv
  BY DEF Init, GateInv
<1>2. IInv /\ GateInv /\ [Next]_vars => GateInv'
  BY GateStep
<1>3. GateInv => GateIsRight
  BY DEF GateInv, GateIsRight
<1> QED
  BY <1>1, <1>2, <1>3, Invariance, PTL DEF Spec

-----------------------------------------------------------------------------
(* The durations of the repository, in half seconds (run_demo.py:76,        *)
(* incident_control.py:24-37, scenarios.py:28), satisfy what the theorems   *)
(* above suppose, as long as no call takes more than three seconds and the  *)
(* engine polls every one and a half.                                       *)
THEOREM DurationsSuffice ==
  ASSUME Duration = 360, MaxWait = 180, PollInterval = 10, Buffer = 150, Pause = 4,
         Latency \leq 6, EnginePoll \leq 3
  PROVE  LongEnough /\ PollsInPause /\ PollsInBuffer
<1>1. Latency \in Nat /\ EnginePoll \in Nat
  BY Constants
<1> QED
  BY <1>1 DEF LongEnough, PollsInPause, PollsInBuffer
=============================================================================
