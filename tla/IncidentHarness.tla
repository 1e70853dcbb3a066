--------------------------- MODULE IncidentHarness ---------------------------
(***************************************************************************)
(* The harness that runs the demo (demo/run_demo.py) and the evaluation    *)
(* (eval/run_eval.py) by way of demo/incident_control.py: for every        *)
(* question clear, inject, wait until the incident shows in the data, ask, *)
(* clear.  It runs by the clock, next to an engine that polls the control  *)
(* file (producer/scenarios.py).  The pipeline may be of any lag, so rows  *)
(* have no variable: what a query may find is read off the log.            *)
(*                                                                         *)
(* Time is discrete.  A call or a sleep ends between wake and limit, the   *)
(* engine polls at least every EnginePoll, and the clock waits for both.   *)
(* CLI processes follow each other here; ScenarioEngine has them overlap.  *)
(***************************************************************************)
EXTENDS Integers, Sequences

CONSTANTS Kinds,         \* incident types, each with its fixed target
          Questions,     \* per run, the type of its incident, or None
          Leftover,      \* type of an incident a failed harness has left, or None
          None,
          Ambient,       \* types whose gate rows of no incident can open
          Buffered,      \* _POST_GATE_BUFFER_TYPES
          ClearsFirst,   \* run_eval clears before a question, run_demo does not
          Duration,      \* of an incident
          Window,        \* window_minutes of the gate's queries
          PollInterval,  \* GATE_POLL_INTERVAL_SECONDS
          MaxWait,       \* GATE_MAX_WAIT_SECONDS
          Buffer,        \* POST_GATE_BUFFER_SECONDS
          Pause,         \* POST_CLEAR_PAUSE_SECONDS
          EnginePoll,    \* longest time between two polls of the engine
          Latency,       \* longest time of a call, the question excepted
          MaxAsk         \* bound: longest time the agent takes to answer

Incidents == 0 .. Len(Questions)   \* named after their runs; 0 is left over
Kind(i) == IF i = 0 THEN Leftover ELSE Questions[i]
Never == -1

ASSUME HarnessAssumption ==
  /\ Questions \in Seq(Kinds \cup {None}) /\ Questions # <<>>
  /\ None \notin Kinds
  /\ Leftover \in Kinds \cup {None} /\ Buffered \subseteq Kinds /\ Ambient \subseteq Kinds
  /\ ClearsFirst \in BOOLEAN
  /\ Duration \in Nat \ {0} /\ Window \in Nat
  /\ PollInterval \in Nat /\ MaxWait \in Nat /\ Buffer \in Nat /\ Pause \in Nat
  /\ EnginePoll \in Nat /\ Latency \in Nat /\ MaxAsk \in Nat

VARIABLES
  now,
  \* the harness
  run, step,
  wake, limit,    \* when the step may end, and when it has ended
  deadline,       \* of poll_until()
  gate,           \* what poll_until() returned: "passed", "gaveUp" or "none"
  injectStart,    \* inject_started_at
  captured,       \* incidents with a record in the run's incident_records
  \* control file, engine and ground-truth log
  control, expires,
  started, ended, \* timestamps of the records of each incident, or Never
  polledAt

harnessVars == <<run, step, wake, limit, deadline, gate, injectStart, captured>>
engineVars == <<started, ended, polledAt>>
vars == <<now, harnessVars, control, expires, engineVars>>

Steps == {"reset", "resetPause", "inject", "injected", "gate", "ready", "ask",
          "clear", "clearPause", "done", "failed"}
Active == {i \in Incidents : started[i] # Never /\ ended[i] = Never}

(* The step s begins; it takes between least and most.                      *)
GoTo(s, least, most) ==
  step' = s /\ wake' = now + least /\ limit' = now + most

(* Mutant of BufferOf: no settle buffer.                                    *)
NoBuffer(r) == 0

BufferOf(r) == IF Questions[r] \in Buffered THEN Buffer ELSE 0

(* Run r before its question: an incident is injected, no question waits.   *)
Prepare(r) == /\ IF Questions[r] = None
                 THEN GoTo("ready", 0, Latency)
                 ELSE GoTo("inject", 0, Latency)
              /\ injectStart' = now

(* Mutant of Begin: one run too many.                                       *)
BeginOneMore(r) ==
  /\ run' = r
  /\ gate' = "none"
  /\ captured' = {}
  /\ IF r > Len(Questions) + 1
     THEN GoTo("done", 0, 0) /\ UNCHANGED injectStart
     ELSE IF ClearsFirst THEN GoTo("reset", 0, Latency) /\ UNCHANGED injectStart
                         ELSE Prepare(r)

Begin(r) == /\ run' = r
            /\ gate' = "none"
            /\ captured' = {}
            /\ IF r > Len(Questions)
               THEN GoTo("done", 0, 0) /\ UNCHANGED injectStart
               ELSE IF ClearsFirst
                    THEN GoTo("reset", 0, Latency) /\ UNCHANGED injectStart
                    ELSE Prepare(r)

(* The stack is up.  A harness that failed may have left its incident.      *)
Init ==
  /\ now = 0
  /\ run = 1
  /\ step = IF ClearsFirst THEN "reset"
            ELSE IF Questions[1] = None THEN "ready" ELSE "inject"
  /\ wake = 0 /\ limit = Latency /\ deadline = 0
  /\ gate = "none"
  /\ injectStart = 0
  /\ captured = {}
  /\ control \in {{}, {0}} /\ (Leftover = None => control = {})
  /\ \E t \in 0 .. Duration :
       expires = [i \in Incidents |-> IF i \in control THEN t ELSE 0]
  /\ started = [i \in Incidents |-> IF i \in control THEN 0 ELSE Never]
  /\ ended = [i \in Incidents |-> Never]
  /\ polledAt = 0

-----------------------------------------------------------------------------
(* Mutant of PauseFor: time.sleep(POST_CLEAR_PAUSE_SECONDS) is missing.     *)
NoPause(s) == GoTo(s, 0, Latency)

(* The pause after a clear.                                                 *)
PauseFor(s) == GoTo(s, Pause, Pause + Latency)

(* The file has no entry, and so no expires_at.                             *)
FileEmptied == control' = {} /\ expires' = [i \in Incidents |-> 0]

(* clear_incident(): before a question of run_eval, and after an incident.  *)
Reset ==
  /\ step = "reset"
  /\ FileEmptied
  /\ PauseFor("resetPause")
  /\ UNCHANGED <<now, run, deadline, gate, injectStart, captured, engineVars>>

ResetDone ==
  /\ step = "resetPause"
  /\ now \geq wake
  /\ Prepare(run)
  /\ UNCHANGED <<now, run, deadline, gate, captured, control, expires,
                 engineVars>>

(* The CLI computes expires_at when it starts, and adds its entry.          *)
InjectWrites ==
  /\ step = "inject"
  /\ step' = "injected"
  /\ control' = control \cup {run}
  /\ \E t \in injectStart .. now :
       expires' = [expires EXCEPT ![run] = t + Duration]
  /\ UNCHANGED <<now, run, wake, limit, deadline, gate, injectStart, captured,
                 engineVars>>

InjectReturns ==
  /\ step = "injected"
  /\ deadline' = now + MaxWait
  /\ GoTo("gate", 0, Latency)
  /\ UNCHANGED <<now, run, gate, injectStart, captured, control, expires,
                 engineVars>>

(* A gate's query may find the rows of the last Window of any incident of   *)
(* the kind and target that bias events then: by now some may have landed.  *)
(* The gate of gateway_degradation is a rate over whatever rows there are,  *)
(* which the failures of the baseline can lift over the threshold; the      *)
(* others want a BIN below five dollars or a signature, which no baseline   *)
(* row has.                                                                 *)
MayShow(kind) ==
  \/ kind \in Ambient
  \/ \E i \in Incidents : /\ Kind(i) = kind /\ started[i] # Never
                          /\ ended[i] = Never \/ ended[i] \geq now - Window

GateEnds(result) ==
  /\ gate' = result
  /\ GoTo("ready", BufferOf(run), BufferOf(run) + Latency)
  /\ UNCHANGED <<now, run, deadline, injectStart, captured, control, expires,
                 engineVars>>

(* check_fn() finds enough rows, ...                                        *)
GatePasses ==
  /\ step = "gate" /\ now \geq wake
  /\ MayShow(Questions[run])
  /\ GateEnds("passed")

(* ... finds too few, or gets an error for an answer; in time or too late.  *)
GateGivesUp ==
  /\ step = "gate" /\ now \geq wake
  /\ now \geq deadline
  /\ GateEnds("gaveUp")

(* Mutant of GateWaits: no deadline.                                        *)
GateWaitsOn ==
  /\ step = "gate" /\ now \geq wake
  /\ GoTo("gate", PollInterval, PollInterval + Latency)
  /\ UNCHANGED <<now, run, deadline, gate, injectStart, captured, control,
                 expires, engineVars>>

GateWaits ==
  /\ step = "gate" /\ now \geq wake
  /\ now < deadline
  /\ GoTo("gate", PollInterval, PollInterval + Latency)
  /\ UNCHANGED <<now, run, deadline, gate, injectStart, captured, control,
                 expires, engineVars>>

Ask ==
  /\ step = "ready" /\ now \geq wake
  /\ GoTo("ask", 0, MaxAsk)
  /\ UNCHANGED <<now, run, deadline, gate, injectStart, captured, control,
                 expires, engineVars>>

(* Records of the log that match type and target, from inject_started_at on.*)
RecordsSince(t) ==
  {i \in Incidents : /\ Kind(i) = Questions[run]
                     /\ started[i] \geq t \/ ended[i] \geq t}

(* The answer; ground truth is captured at once, and the incident cleared.  *)
Answer ==
  /\ step = "ask"
  /\ IF Questions[run] = None
     THEN Begin(run + 1)
     ELSE /\ GoTo("clear", 0, Latency)
          /\ captured' = IF ClearsFirst THEN RecordsSince(injectStart) ELSE {}
          /\ UNCHANGED <<run, gate, injectStart>>
  /\ UNCHANGED <<now, deadline, control, expires, engineVars>>

Clear ==
  /\ step = "clear"
  /\ FileEmptied
  /\ PauseFor("clearPause")
  /\ UNCHANGED <<now, run, deadline, gate, injectStart, captured, engineVars>>

ClearDone ==
  /\ step = "clearPause" /\ now \geq wake
  /\ Begin(run + 1)
  /\ UNCHANGED <<now, deadline, control, expires, engineVars>>

(* A CLI or API call raises, or Ctrl-C: nothing is cleared on the way out.  *)
Fail ==
  /\ step \notin {"done", "failed"}
  /\ step' = "failed"
  /\ UNCHANGED <<now, run, wake, limit, deadline, gate, injectStart, captured,
                 control, expires, engineVars>>

-----------------------------------------------------------------------------
(* poll() of the engine (ScenarioEngine has its steps).                     *)
Poll ==
  LET ending   == {i \in Active : i \notin control \/ expires[i] \leq now}
      starting == {i \in control \ Active : expires[i] > now}
  IN  /\ started' = [i \in Incidents |-> IF i \in starting THEN now ELSE started[i]]
      /\ ended' = [i \in Incidents |-> IF i \in ending THEN now
                                       ELSE IF i \in starting THEN Never
                                       ELSE ended[i]]
      /\ polledAt' = now
      /\ UNCHANGED <<now, harnessVars, control, expires>>

Tick ==
  /\ step \notin {"done", "failed"}
  /\ now < limit
  /\ now < polledAt + EnginePoll
  /\ now' = now + 1
  /\ UNCHANGED <<harnessVars, control, expires, engineVars>>

Harness == \/ Reset \/ ResetDone \/ InjectWrites \/ InjectReturns
           \/ GatePasses \/ GateGivesUp \/ GateWaits \/ Ask \/ Answer
           \/ Clear \/ ClearDone \/ Fail

Next == Harness \/ Poll \/ Tick

Spec == Init /\ [][Next]_vars
-----------------------------------------------------------------------------
TypeOK ==
  /\ now \in Nat
  /\ run \in 1 .. Len(Questions) + 1
  /\ step \in Steps
  /\ wake \in Nat /\ limit \in Nat /\ deadline \in Nat
  /\ gate \in {"none", "passed", "gaveUp"}
  /\ injectStart \in Nat
  /\ captured \subseteq Incidents
  /\ control \subseteq Incidents
  /\ expires \in [Incidents -> Nat]
  /\ started \in [Incidents -> Nat \cup {Never}]
  /\ ended \in [Incidents -> Nat \cup {Never}]
  /\ polledAt \in Nat
  /\ step # "done" => run \leq Len(Questions)

HasIncident == Questions[run] # None
InForce == {"injected", "gate", "ready", "ask"}

(* poll_until() never hangs: it is over one interval and one check after    *)
(* its deadline (incident_control.py:69-84).                                *)
GateIsBounded ==
  step = "gate" => now \leq deadline + PollInterval + Latency

(* The question is asked before the incident's duration is over             *)
(* (run_demo.py:74-76), whatever the gate did.                              *)
AskedBeforeExpiry ==
  [][step = "ready" /\ step' = "ask" /\ HasIncident => now < expires[run]]_vars

(* After the buffer the engine holds the incident asked about, also when    *)
(* the gate passed on rows of an earlier one or gave up (run_eval.py:65-68).*)
BufferedIsActive ==
  [][step = "ready" /\ step' = "ask" /\ Questions[run] \in Buffered
       => run \in Active]_vars

(* No run of the evaluation inherits an incident: from its injection to its *)
(* answer nothing else biases events (run_eval.py:252-255, 326-330).        *)
NoneInherited ==
  step \in {"inject"} \cup InForce => Active \subseteq {run}

(* The confirmation from the engine's log is of this run's own incident     *)
(* (run_eval.py:115-121), although an end counts for as much as a start.    *)
RecordsAreOwn == captured \subseteq {run}

(* Why.  The clock stays within the limits of the step and of the engine,   *)
Clock ==
  /\ now \leq limit
  /\ polledAt \leq now /\ now \leq polledAt + EnginePoll
  /\ injectStart \leq now
  /\ \A i \in Incidents : started[i] \leq now /\ ended[i] \leq now

(* the steps up to the question add up from the injection, ...              *)
Budget ==
  /\ step \in {"inject", "injected"} =>
       HasIncident /\ limit \leq injectStart + Latency
  /\ step \in {"injected", "gate", "ready"} /\ HasIncident =>
       run \in control /\ expires[run] \geq injectStart + Duration
  /\ step = "gate" =>
       /\ HasIncident
       /\ deadline \leq injectStart + Latency + MaxWait
       /\ limit \leq deadline + PollInterval + Latency
  /\ step = "ready" /\ HasIncident =>
       limit \leq injectStart + MaxWait + PollInterval + Buffer + 3 * Latency

(* ... the buffer spans a poll of the engine that finds the incident, ...   *)
Held ==
  step = "ready" /\ Questions[run] \in Buffered
    => run \in Active \/ polledAt \leq wake - Buffer

(* ... and the pause spans one that finds the file empty.                   *)
Quiet ==
  /\ step = "resetPause" =>
       /\ control = {}
       /\ Active = {} \/ polledAt \leq wake - Pause
       /\ \A i \in Incidents : /\ started[i] \leq wake - Pause
                               /\ ended[i] \leq wake - Pause + EnginePoll
  /\ step = "inject" => control = {}
  /\ step \in {"inject"} \cup InForce =>
       /\ control \subseteq {run} /\ Active \subseteq {run}
       /\ \A i \in Incidents \ {run} :
            started[i] < injectStart /\ ended[i] < injectStart
  /\ captured \subseteq {run}

(* The timing the durations are chosen for: an incident outlasts a gate     *)
(* that gives up and the buffer; the engine polls within pause and buffer.  *)
LongEnough == MaxWait + PollInterval + Buffer + 3 * Latency < Duration
PollsInPause == EnginePoll < Pause
PollsInBuffer == EnginePoll < Buffer

IInv ==
  /\ TypeOK /\ Clock /\ Budget
  /\ LongEnough => Held
  /\ ClearsFirst /\ PollsInPause => Quiet

(* run_demo.py:19-21: the wait "only proceeds once the incident's actual    *)
(* signature shows up in the data".                                         *)
GatePassesOnOwnRows == gate = "passed" => started[run] # Never

(* The wait is for the run's own incident, if no other is of its type, the  *)
(* leftover one included, and its gate is none that the baseline can open.  *)
Unmistakable(r) ==
  /\ Questions[r] \notin Ambient
  /\ \A i \in Incidents : Kind(i) = Questions[r] => i = r
GateIsRight == gate = "passed" /\ Unmistakable(run) => started[run] # Never

=============================================================================
