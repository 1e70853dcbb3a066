--------------------------- MODULE ScenarioEngine ---------------------------
(***************************************************************************)
(* The injection CLI (producer/inject.py) and the scenario engine of the   *)
(* producer (producer/scenarios.py), which share control.json without a    *)
(* lock.                                                                   *)
(*                                                                         *)
(* A CLI process replaces the control file by way of a temporary file      *)
(* whose name all processes share.  Paths and the files they name are      *)
(* kept apart, since a process goes on writing the file it has opened when *)
(* another process has renamed it (POSIX semantics of open and rename).    *)
(*                                                                         *)
(* The engine polls the control file between events, keeps the active      *)
(* incidents in memory, and appends their starts and ends to the           *)
(* ground-truth log incidents.jsonl, which outlives it.                    *)
(***************************************************************************)
EXTENDS Integers, Sequences, FiniteSets

CONSTANTS Injections,   \* CLI processes that inject; each is its incident's id
          Clears,       \* CLI processes that run "clear"
          None,         \* no file, or no file opened
          MaxRunning,   \* CLI processes alive at the same time
          MaxSessions   \* bound: runs of the producer, the last of which goes on

Commands == Injections \cup Clears

ASSUME ConstantsAssumption ==
  /\ Injections \cap Clears = {}
  /\ None \notin Commands
  /\ IsFiniteSet(Commands)
  /\ MaxRunning \in Nat \ {0}
  /\ MaxSessions \in Nat \ {0}

(* A file is named by the process that created it.  What a reader sees in   *)
(* it: whether it parses, and the entries that make up its length.  The     *)
(* order of the entries is left out: incidents do not affect each other.    *)
Texts == [parses : BOOLEAN, entries : SUBSET Injections]
Empty == [parses |-> FALSE, entries |-> {}]
Dump(entries) == [parses |-> TRUE, entries |-> entries]

VARIABLES
  \* the file system
  control,    \* the file named control.json, or None
  tmp,        \* the file named control.tmp, or None
  text,       \* what each file holds
  \* the CLI processes
  pc,         \* where each process is
  buffer,     \* the list each process is going to write
  fd,         \* the file each process has opened
  \* time
  expired,    \* incidents whose expires_at has passed
  \* the producer's engine
  session,    \* how many times the producer has been started
  phase,      \* "down"; "start" until the first poll; in poll(), "track" the
              \* entries, then "sweep" the cleared; "loop" emits events
  active,     \* _active: the incidents that bias events
  seen,       \* seen_ids of the poll under way
  todo,       \* entries of the poll under way not yet looked at
  past,       \* incidents expired at the "now" of the last poll
  \* the ground-truth log: the records of each incident, in order
  log,
  \* history: the incidents injected and not cleared, by commands that ended
  \* well, and whether a command has ever been started while another one ran
  standing, overlapped

fileVars   == <<control, tmp, text>>
cliVars    == <<pc, buffer, fd>>
engineVars == <<session, phase, active, seen, todo, past>>
history    == <<standing, overlapped>>
vars == <<fileVars, cliVars, expired, engineVars, log, history>>

Init ==
  /\ control = None
  /\ tmp = None
  /\ text = [f \in Commands |-> Empty]
  /\ pc = [w \in Commands |-> "ready"]
  /\ buffer = [w \in Commands |-> {}]
  /\ fd = [w \in Commands |-> None]
  /\ expired = {}
  /\ session = 0
  /\ phase = "down"
  /\ active = {}
  /\ seen = {}
  /\ todo = {}
  /\ past = {}
  /\ log = [i \in Injections |-> <<>>]
  /\ standing = {}
  /\ overlapped = FALSE

-----------------------------------------------------------------------------
(* Reading the control file.  Both readers take a file that is missing or   *)
(* does not parse for an empty list.                                        *)
ReadControl ==
  IF control # None /\ text[control].parses THEN text[control].entries ELSE {}

(* Writing a whole text at the start of a file that may already hold one:   *)
(* what sticks out behind a shorter text is extra data to the parser.  Two  *)
(* texts of as many entries may have any lengths.                           *)
Overwrites(old, new) ==
  LET longer == Cardinality(old.entries) - Cardinality(new.entries)
      rest   == [parses |-> FALSE, entries |-> old.entries]
  IN  IF old \in {Empty, new} \/ longer < 0 THEN {new}
      ELSE IF longer > 0 THEN {rest} ELSE {new, rest}

Alive(w) == pc[w] \in {"read", "opened", "written"}
Running  == {w \in Commands : Alive(w)}

(* Mutant of StartCommand: clear writes back the list it has read.          *)
ClearRewrites(w) ==
  /\ pc[w] = "ready"
  /\ Cardinality(Running) < MaxRunning
  /\ pc' = [pc EXCEPT ![w] = "read"]
  /\ buffer' = [buffer EXCEPT ![w] = ReadControl \cup ({w} \cap Injections)]
  /\ overlapped' = (overlapped \/ Running # {})
  /\ UNCHANGED <<fileVars, fd, expired, engineVars, log, standing>>

(* A process starts.  An injection reads the file first, "clear" does not.  *)
StartCommand(w) ==
  /\ pc[w] = "ready"
  /\ Cardinality(Running) < MaxRunning
  /\ pc' = [pc EXCEPT ![w] = "read"]
  /\ buffer' = [buffer EXCEPT ![w] = IF w \in Injections
                                     THEN ReadControl \cup {w} ELSE {}]
  /\ overlapped' = (overlapped \/ Running # {})
  /\ UNCHANGED <<fileVars, fd, expired, engineVars, log, standing>>

Opened(w, f) ==
  /\ pc[w] = "read"
  /\ pc' = [pc EXCEPT ![w] = "opened"]
  /\ tmp' = f
  /\ fd' = [fd EXCEPT ![w] = f]
  /\ UNCHANGED <<control, buffer, expired, engineVars, log, history>>

(* Mutants of OpenTmp: the file is not truncated; the process writes the    *)
(* control file itself.                                                     *)
OpenKeepsText(w) == Opened(w, IF tmp = None THEN w ELSE tmp) /\ UNCHANGED text
OpenInPlace(w) ==
  LET f == IF control = None THEN w ELSE control
  IN  Opened(w, f) /\ text' = [text EXCEPT ![f] = Empty]

(* Path.write_text opens the file: created if there is none, truncated.     *)
OpenTmp(w) ==
  LET f == IF tmp = None THEN w ELSE tmp
  IN  Opened(w, f) /\ text' = [text EXCEPT ![f] = Empty]

(* ... and its buffer reaches the file when it is closed.                   *)
WriteTmp(w) ==
  /\ pc[w] = "opened"
  /\ pc' = [pc EXCEPT ![w] = "written"]
  /\ \E t \in Overwrites(text[fd[w]], Dump(buffer[w])) :
       text' = [text EXCEPT ![fd[w]] = t]
  /\ UNCHANGED <<control, tmp, buffer, fd, expired, engineVars, log, history>>

(* tmp.replace(CONTROL_FILE).                                               *)
Replace(w) ==
  /\ pc[w] = "written"
  /\ tmp # None
  /\ pc' = [pc EXCEPT ![w] = "done"]
  /\ control' = tmp
  /\ tmp' = None
  /\ standing' = IF w \in Injections THEN standing \cup {w} ELSE {}
  /\ UNCHANGED <<text, buffer, fd, expired, engineVars, log, overlapped>>

(* Another process has renamed the temporary file: FileNotFoundError.       *)
ReplaceFails(w) ==
  /\ pc[w] = "written"
  /\ tmp = None
  /\ pc' = [pc EXCEPT ![w] = "dead"]
  /\ UNCHANGED <<fileVars, buffer, fd, expired, engineVars, log, history>>

KillCommand(w) ==
  /\ Alive(w)
  /\ pc' = [pc EXCEPT ![w] = "dead"]
  /\ UNCHANGED <<fileVars, buffer, fd, expired, engineVars, log, history>>

(* Time passes the expires_at of an incident whose command has been started *)
(* (the command computes it first).                                         *)
Expire(i) ==
  /\ pc[i] # "ready"
  /\ i \notin expired
  /\ expired' = expired \cup {i}
  /\ UNCHANGED <<fileVars, cliVars, engineVars, log, history>>

-----------------------------------------------------------------------------
(* The producer is started: a new engine that remembers nothing.            *)
StartProducer ==
  /\ phase = "down"
  /\ session' = session + 1
  /\ phase' = "start"
  /\ active' = {}
  /\ seen' = {}
  /\ todo' = {}
  /\ past' = {}
  /\ UNCHANGED <<fileVars, cliVars, expired, log, history>>

(* The producer ends: on SIGINT or at its count or duration (from the loop),*)
(* or killed anywhere.  It logs no ends.                                    *)
StopProducer ==
  /\ phase # "down"
  /\ session < MaxSessions
  /\ phase' = "down"
  /\ UNCHANGED <<fileVars, cliVars, expired, session, active, seen, todo, past,
                 log, history>>

(* Mutant of Poll: seen_ids is kept from one poll to the next.              *)
SeenKept ==
  /\ phase \in {"start", "loop"}
  /\ phase' = "track"
  /\ past' = expired
  /\ todo' = ReadControl
  /\ UNCHANGED <<fileVars, cliVars, expired, session, active, seen, log, history>>

(* poll(): the interval has passed, as it always has before the first event; *)
(* the clock and the file are read.                                         *)
Poll ==
  /\ phase \in {"start", "loop"}
  /\ phase' = "track"
  /\ past' = expired
  /\ todo' = ReadControl
  /\ seen' = {}
  /\ UNCHANGED <<fileVars, cliVars, expired, session, active, log, history>>

Logged(i, action) ==
  log' = [log EXCEPT ![i] = Append(@, [action |-> action, session |-> session])]

(* Mutant of EndIncident: the end is logged, the incident stays.            *)
EndForgetsPop(i) == active' = active /\ Logged(i, "end")

(* _end_incident(): forget the incident, then log its end.  A kill between  *)
(* the two is the kill before both, since memory dies with the process.     *)
EndIncident(i) ==
  /\ active' = active \ {i}
  /\ Logged(i, "end")

(* Mutant of TrackEntry: an expired entry is skipped, tracked or not.       *)
ExpiredSkipped(i) ==
  /\ phase = "track"
  /\ i \in todo
  /\ todo' = todo \ {i}
  /\ seen' = seen \cup {i}
  /\ IF i \in past \cup active
     THEN UNCHANGED <<active, log>>
     ELSE active' = active \cup {i} /\ Logged(i, "start")
  /\ UNCHANGED <<fileVars, cliVars, expired, session, phase, past, history>>

(* One entry of the file: ended if it has expired, started if it is new.    *)
TrackEntry(i) ==
  /\ phase = "track"
  /\ i \in todo
  /\ todo' = todo \ {i}
  /\ seen' = seen \cup {i}
  /\ \/ /\ i \in past /\ i \in active
        /\ EndIncident(i)
     \/ /\ i \notin past /\ i \notin active
        /\ active' = active \cup {i}
        /\ Logged(i, "start")
     \/ /\ (i \in past) # (i \in active)
        /\ UNCHANGED <<active, log>>
  /\ UNCHANGED <<fileVars, cliVars, expired, session, phase, past, history>>

(* All entries seen: on to the incidents in memory that the file has lost.  *)
TrackDone ==
  /\ phase = "track"
  /\ todo = {}
  /\ phase' = "sweep"
  /\ UNCHANGED <<fileVars, cliVars, expired, session, active, seen, todo, past,
                 log, history>>

SweepCleared(i) ==
  /\ phase = "sweep"
  /\ i \in active \ seen
  /\ EndIncident(i)
  /\ UNCHANGED <<fileVars, cliVars, expired, session, phase, seen, todo, past,
                 history>>

(* Mutant of PollReturns: incidents gone from the file are not looked for.  *)
ReturnsUnswept ==
  /\ phase = "sweep"
  /\ phase' = "loop"
  /\ UNCHANGED <<fileVars, cliVars, expired, session, active, seen, todo, past,
                 log, history>>

(* poll() returns; until the next one every event is biased by what is      *)
(* active.                                                                  *)
PollReturns ==
  /\ phase = "sweep"
  /\ active \subseteq seen
  /\ phase' = "loop"
  /\ UNCHANGED <<fileVars, cliVars, expired, session, active, seen, todo, past,
                 log, history>>

Command(w) == StartCommand(w) \/ OpenTmp(w) \/ WriteTmp(w) \/ Replace(w)
              \/ ReplaceFails(w)
Engine == \/ Poll \/ TrackDone \/ PollReturns
          \/ \E i \in Injections : TrackEntry(i) \/ SweepCleared(i)

Next ==
  \/ \E w \in Commands : Command(w) \/ KillCommand(w)
  \/ \E i \in Injections : Expire(i)
  \/ StartProducer
  \/ StopProducer
  \/ Engine

Spec == Init /\ [][Next]_vars

(* The producer's loop runs on, and somebody starts it again (make produce). *)
(* Nothing is assumed of the CLI, of faults, or that incidents expire.       *)
Fairness == WF_vars(Engine) /\ WF_vars(StartProducer)
FairSpec == Spec /\ Fairness
-----------------------------------------------------------------------------
(* Types, and that a process writes a file it has opened.                   *)
Records == [action : {"start", "end"}, session : Nat]

TypeOK ==
  /\ control \in Commands \cup {None}
  /\ tmp \in Commands \cup {None}
  /\ text \in [Commands -> Texts]
  /\ pc \in [Commands -> {"ready", "read", "opened", "written", "done", "dead"}]
  /\ buffer \in [Commands -> SUBSET Injections]
  /\ fd \in [Commands -> Commands \cup {None}]
  /\ \A w \in Commands : pc[w] \in {"opened", "written"} => fd[w] \in Commands
  /\ expired \subseteq Injections
  /\ session \in Nat
  /\ phase \in {"down", "start", "track", "sweep", "loop"}
  /\ active \subseteq Injections
  /\ seen \subseteq Injections
  /\ todo \subseteq Injections
  /\ past \subseteq Injections
  /\ log \in [Injections -> Seq(Records)]
  /\ standing \subseteq Injections
  /\ overlapped \in BOOLEAN

LastRecord(i) == log[i][Len(log[i])]
LogOpen(i) == log[i] # <<>> /\ LastRecord(i).action = "start"

(* The ground-truth log pairs its records (scenarios.py:147-178): an end    *)
(* closes a start of the same run of the producer, and a second start       *)
(* without an end between comes from a later run, whatever the files did.   *)
Follows(r, s) ==
  \/ s.action = "end" /\ r = [s EXCEPT !.action = "start"]
  \/ s.action = "start" /\ r.action = "end" /\ r.session \leq s.session
  \/ s.action = "start" /\ r.action = "start" /\ r.session < s.session

EndsMatchStarts ==
  \A i \in Injections :
    /\ log[i] # <<>> => log[i][1].action = "start"
    /\ \A k \in 1 .. Len(log[i]) - 1 : Follows(log[i][k], log[i][k + 1])

(* Between polls events are biased by exactly those entries the last poll   *)
(* has read that had not expired by its clock, whatever earlier polls read, *)
(* and each is open on record (scenarios.py:4-6, 137-168, main.py:70-72):   *)
(* torn, lost or replaced files and restarts included.                      *)
EmittedIsLogged ==
  phase = "loop" => active = seen \ past /\ \A i \in active : LogOpen(i)

(* Why.  The engine's memory and the log of this run agree, and the poll    *)
(* under way has ended every expired entry it has seen and started the      *)
(* others.                                                                  *)
MemoryIsLogged ==
  phase # "down" =>
    \A i \in Injections :
      i \in active <=> LogOpen(i) /\ LastRecord(i).session = session

SessionsPast ==
  \A i \in Injections : log[i] # <<>> => LastRecord(i).session \leq session

PollInv ==
  /\ phase \in {"track", "sweep"} => active \cap seen = seen \ past
  /\ phase = "loop" => active = seen \ past
  /\ phase = "start" => active = {}

IInv == TypeOK /\ EndsMatchStarts /\ MemoryIsLogged /\ SessionsPast /\ PollInv

(* As long as no two commands have run at once, killed anywhere or not:     *)
(* every reader finds a whole file that holds what successful commands have *)
(* injected and not cleared (inject.py:47-51, the temporary file and its    *)
(* rename).                                                                 *)
StandingText ==
  IF control = None THEN standing = {} ELSE text[control] = Dump(standing)

FileIsStanding == ~ overlapped => StandingText

(* Why it holds while no two commands have run at once.  The process that   *)
(* runs is alone and writes the list the file should get into the temporary *)
(* file; ...                                                                *)
WriterInv ==
  \A w \in Commands : Alive(w) =>
    /\ \A v \in Commands : Alive(v) => v = w
    /\ buffer[w] = IF w \in Injections THEN standing \cup {w} ELSE {}
    /\ pc[w] = "opened" => fd[w] = tmp /\ tmp # None /\ text[tmp] = Empty
    /\ pc[w] = "written" => tmp # None /\ text[tmp] = Dump(buffer[w])

(* ... which is not the control file; a process that has opened nothing has *)
(* created neither; ...                                                     *)
FilesApart ==
  /\ tmp # None => tmp # control
  /\ \A w \in Commands : pc[w] \in {"ready", "read"} => control # w /\ tmp # w

(* ... and what the engine holds was injected and, when it polled, standing.*)
EngineReads ==
  /\ past \subseteq expired
  /\ \A i \in standing \cup active \cup todo : pc[i] = "done"
  /\ phase \in {"track", "sweep"} => (active \ (seen \cup todo)) \cap standing = {}
  /\ phase = "sweep" => todo = {}

SequentialInv == StandingText /\ WriterInv /\ FilesApart /\ EngineReads

(* No two commands at once so far: the log ends an incident only when it    *)
(* has expired or been cleared, never because a reader met a half-written   *)
(* file (scenarios.py:147-168, 205-207).                                    *)
Ends(i) == /\ Len(log'[i]) > Len(log[i])
           /\ log'[i][Len(log'[i])].action = "end"

EndsOnlyWhenDue ==
  [][~ overlapped =>
       \A i \in Injections : Ends(i) => i \in expired \/ i \notin standing]_vars

(* No two commands at once so far: a cleared incident the engine does not   *)
(* hold is never read again, let alone started (inject.py:134-135).         *)
ClearedStaysCleared ==
  [][~ overlapped =>
       \A i \in Injections :
       pc[i] = "done" /\ i \notin standing /\ i \notin active \cup todo
         => i \notin active' \cup todo']_vars

(* The engine follows the file (scenarios.py:137-168): an entry that stays  *)
(* and does not expire becomes and stays active, one that has gone or       *)
(* expired does not bias events for ever.                                   *)
EngineFollowsFile ==
  \A i \in Injections :
    /\ <>[](i \in ReadControl /\ i \notin expired) => <>[](i \in active)
    /\ <>[](i \notin ReadControl \/ i \in expired) => <>[](i \notin active)

(* scenarios.py:5-6 calls the log "the source of truth for what was         *)
(* actually emitted": an incident it holds open biases events.              *)
OpenIsEmitted ==
  phase = "loop" => \A i \in Injections : LogOpen(i) => i \in active
=============================================================================
