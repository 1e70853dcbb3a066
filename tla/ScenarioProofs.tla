---------------------------- MODULE ScenarioProofs ----------------------------
(***************************************************************************)
(* Proofs about ScenarioEngine, for any number of injections, clears and   *)
(* runs of the producer: what the ground-truth log says whatever the CLI   *)
(* processes do to the files, and what the files hold when no two commands *)
(* have run at once.                                                       *)
(***************************************************************************)
EXTENDS ScenarioEngine, TLAPS

-----------------------------------------------------------------------------
(* Type correctness.                                                       *)

LEMMA ReadControlType ==
  ASSUME TypeOK PROVE ReadControl \subseteq Injections
BY DEF TypeOK, ReadControl, Texts

LEMMA OverwritesType ==
  ASSUME NEW old \in Texts, NEW new \in Texts PROVE Overwrites(old, new) \subseteq Texts
<1>1. old.entries \subseteq Injections /\ [parses |-> FALSE, entries |-> old.entries] \in Texts
  BY DEF Texts
<1>. QED BY <1>1 DEF Overwrites

LEMMA LoggedType ==
  ASSUME TypeOK, NEW i \in Injections, NEW a \in {"start", "end"}, Logged(i, a)
  PROVE  log' \in [Injections -> Seq(Records)]
<1>1. [action |-> a, session |-> session] \in Records
  BY DEF TypeOK, Records
<1>2. log[i] \in Seq(Records) BY DEF TypeOK
<1>3. Append(log[i], [action |-> a, session |-> session]) \in Seq(Records)
  BY <1>1, <1>2
<1>. QED BY <1>3 DEF TypeOK, Logged

LEMMA CommandType ==
  ASSUME TypeOK, NEW w \in Commands, Command(w) \/ KillCommand(w) PROVE TypeOK'
<1>. USE DEF engineVars, cliVars, fileVars, history
<1>0. w \in Injections \/ w \in Clears
  BY DEF Commands
<1>1. CASE StartCommand(w)
  BY <1>0, <1>1, ReadControlType DEF TypeOK, StartCommand
<1>2. CASE OpenTmp(w)
  <2>. DEFINE f == IF tmp = None THEN w ELSE tmp
  <2>1. f \in Commands
    BY DEF TypeOK
  <2>2. Empty \in Texts
    BY DEF Texts, Empty
  <2>3. /\ text' = [text EXCEPT ![f] = Empty] /\ tmp' = f
        /\ fd' = [fd EXCEPT ![w] = f] /\ pc' = [pc EXCEPT ![w] = "opened"]
        /\ UNCHANGED <<control, buffer, expired, engineVars, log, history>>
    BY <1>2 DEF OpenTmp, Opened
  <2>. HIDE DEF f
  <2>. QED BY <2>1, <2>2, <2>3 DEF TypeOK
<1>3. CASE WriteTmp(w)
  <2>1. fd[w] \in Commands /\ Dump(buffer[w]) \in Texts
    BY <1>3 DEF TypeOK, WriteTmp, Dump, Texts
  <2>2. Overwrites(text[fd[w]], Dump(buffer[w])) \subseteq Texts
    BY <2>1, OverwritesType DEF TypeOK
  <2>3. PICK t \in Texts : text' = [text EXCEPT ![fd[w]] = t]
    BY <1>3, <2>2 DEF WriteTmp
  <2>4. text' \in [Commands -> Texts]
    BY <2>3, <2>1 DEF TypeOK
  <2>. QED BY <2>4, <1>3 DEF TypeOK, WriteTmp
<1>4. CASE Replace(w)
  BY <1>4 DEF TypeOK, Replace
<1>5. CASE ReplaceFails(w) \/ KillCommand(w)
  BY <1>5 DEF TypeOK, ReplaceFails, KillCommand
<1>. QED BY <1>1, <1>2, <1>3, <1>4, <1>5 DEF Command

LEMMA EngineType ==
  ASSUME TypeOK, Engine \/ StartProducer \/ StopProducer PROVE TypeOK'
<1>. USE DEF engineVars, cliVars, fileVars, history
<1>1. CASE StartProducer \/ StopProducer \/ TrackDone \/ PollReturns
  BY <1>1 DEF TypeOK, StartProducer, StopProducer, TrackDone, PollReturns
<1>2. CASE Poll
  BY <1>2, ReadControlType DEF TypeOK, Poll
<1>3. ASSUME NEW i \in Injections, TrackEntry(i) PROVE TypeOK'
  <2>1. log' \in [Injections -> Seq(Records)] /\ active' \subseteq Injections
    BY <1>3, LoggedType DEF TrackEntry, EndIncident, TypeOK
  <2>. QED BY <2>1, <1>3 DEF TypeOK, TrackEntry
<1>4. ASSUME NEW i \in Injections, SweepCleared(i) PROVE TypeOK'
  <2>1. log' \in [Injections -> Seq(Records)] /\ active' \subseteq Injections
    BY <1>4, LoggedType DEF SweepCleared, EndIncident, TypeOK
  <2>. QED BY <2>1, <1>4 DEF TypeOK, SweepCleared
<1>. QED BY <1>1, <1>2, <1>3, <1>4 DEF Engine

LEMMA TypeStep ==
  ASSUME TypeOK, [Next]_vars PROVE TypeOK'
<1>1. ASSUME NEW i \in Injections, Expire(i) PROVE TypeOK'
  BY <1>1 DEF TypeOK, Expire, fileVars, cliVars, engineVars, history
<1>2. CASE UNCHANGED vars
  BY <1>2 DEF TypeOK, vars, fileVars, cliVars, engineVars, history
<1>. QED BY <1>1, <1>2, CommandType, EngineType DEF Next

-----------------------------------------------------------------------------
(* The ground-truth log, whatever happens to the files.                    *)

(* What appending one record of this run does to the log of an incident.   *)
LEMMA Appended ==
  ASSUME TypeOK, NEW i \in Injections, NEW a \in {"start", "end"}, Logged(i, a)
  PROVE  /\ Len(log'[i]) = Len(log[i]) + 1
         /\ \A k \in 1 .. Len(log[i]) : log'[i][k] = log[i][k]
         /\ log'[i][Len(log[i]) + 1] = [action |-> a, session |-> session]
         /\ Len(log[i]) \in Nat
         /\ \A j \in Injections \ {i} : log'[j] = log[j]
<1>. DEFINE r == [action |-> a, session |-> session]
<1>1. log[i] \in Seq(Records) /\ r \in Records
  BY DEF TypeOK, Records
<1>2. log'[i] = Append(log[i], r) /\ \A j \in Injections \ {i} : log'[j] = log[j]
  BY DEF TypeOK, Logged
<1>. HIDE DEF r
<1>3. /\ Len(Append(log[i], r)) = Len(log[i]) + 1
      /\ \A k \in 1 .. Len(log[i]) : Append(log[i], r)[k] = log[i][k]
      /\ Append(log[i], r)[Len(log[i]) + 1] = r
      /\ Len(log[i]) \in Nat
  BY <1>1
<1>. QED BY <1>2, <1>3 DEF r

LEMMA LastType ==
  ASSUME TypeOK, NEW i \in Injections, log[i] # <<>>
  PROVE  LastRecord(i) \in Records /\ Len(log[i]) \in Nat \ {0}
<1>1. log[i] \in Seq(Records)
  BY DEF TypeOK
<1>2. Len(log[i]) \in Nat \ {0}
  BY <1>1
<1>. QED BY <1>1, <1>2 DEF LastRecord

(* A record written when memory calls for it follows the one before it.     *)
LEMMA RecordFollows ==
  ASSUME IInv, phase # "down", NEW i \in Injections, NEW a \in {"start", "end"},
         (a = "end") <=> (i \in active), log[i] # <<>>
  PROVE  Follows(LastRecord(i), [action |-> a, session |-> session])
<1>1. /\ i \in active <=> LogOpen(i) /\ LastRecord(i).session = session
      /\ LastRecord(i).session \leq session
  BY DEF IInv, MemoryIsLogged, SessionsPast
<1>2. LastRecord(i) \in Records /\ session \in Nat
  BY LastType DEF IInv, TypeOK
<1>3. PICK b \in {"start", "end"}, n \in Nat : LastRecord(i) = [action |-> b, session |-> n]
  BY <1>2 DEF Records
<1>4. LogOpen(i) <=> b = "start"
  BY <1>3 DEF LogOpen
<1>5. CASE a = "end"
  <2>1. b = "start" /\ n = session
    BY <1>1, <1>3, <1>4, <1>5
  <2>. QED BY <2>1, <1>3, <1>5 DEF Follows
<1>6. CASE a = "start" /\ b = "end"
  BY <1>1, <1>3, <1>6 DEF Follows
<1>7. CASE a = "start" /\ b = "start"
  <2>1. n # session /\ n \leq session
    BY <1>1, <1>3, <1>4, <1>7
  <2>. QED BY <2>1, <1>2, <1>3, <1>7 DEF Follows
<1>. QED BY <1>5, <1>6, <1>7

LEMMA LoggedInv ==
  ASSUME IInv, phase # "down", phase' # "down", session' = session,
         NEW i \in Injections, NEW a \in {"start", "end"},
         (a = "end") <=> (i \in active), Logged(i, a),
         active' = IF a = "end" THEN active \ {i} ELSE active \cup {i}
  PROVE  EndsMatchStarts' /\ MemoryIsLogged' /\ SessionsPast'
<1>. DEFINE n == Len(log[i])
            r == [action |-> a, session |-> session]
<1>1. TypeOK /\ session \in Nat
  BY DEF IInv, TypeOK
<1>2. /\ Len(log'[i]) = n + 1
      /\ \A k \in 1 .. n : log'[i][k] = log[i][k]
      /\ log'[i][n + 1] = r
      /\ n \in Nat
      /\ \A j \in Injections \ {i} : log'[j] = log[j]
  BY <1>1, Appended
<1>3. log[i] \in Seq(Records) /\ (log[i] = <<>> <=> n = 0)
  BY <1>1 DEF TypeOK
<1>4. EndsMatchStarts'
  <2>1. ASSUME NEW j \in Injections \ {i}
        PROVE  /\ log'[j] # <<>> => log'[j][1].action = "start"
               /\ \A k \in 1 .. Len(log'[j]) - 1 : Follows(log'[j][k], log'[j][k + 1])
    BY <1>2 DEF IInv, EndsMatchStarts
  <2>2. log'[i][1].action = "start"
    <3>1. CASE n = 0
      <4>1. ~ LogOpen(i)
        BY <3>1, <1>3 DEF LogOpen
      <4>2. i \notin active
        BY <4>1 DEF IInv, MemoryIsLogged
      <4>. QED BY <4>2, <3>1, <1>2
    <3>2. CASE n # 0
      <4>1. log[i] # <<>> /\ log'[i][1] = log[i][1]
        BY <3>2, <1>2, <1>3
      <4>. QED BY <4>1 DEF IInv, EndsMatchStarts
    <3>. QED BY <3>1, <3>2
  <2>3. ASSUME NEW k \in 1 .. n PROVE Follows(log'[i][k], log'[i][k + 1])
    <3>1. CASE k = n
      <4>1. log[i] # <<>> /\ log'[i][k] = LastRecord(i) /\ log'[i][k + 1] = r
        BY <3>1, <2>3, <1>2, <1>3 DEF LastRecord
      <4>. QED BY <4>1, RecordFollows
    <3>2. CASE k # n
      <4>1. k \in 1 .. n - 1 /\ log'[i][k] = log[i][k] /\ log'[i][k + 1] = log[i][k + 1]
        BY <3>2, <2>3, <1>2
      <4>. QED BY <4>1 DEF IInv, EndsMatchStarts
    <3>. QED BY <3>1, <3>2
  <2>4. \A k \in 1 .. Len(log'[i]) - 1 : Follows(log'[i][k], log'[i][k + 1])
    BY <2>3, <1>2
  <2>. QED BY <2>1, <2>2, <2>4 DEF EndsMatchStarts
<1>5. log'[i] # <<>> /\ log'[i][Len(log'[i])] = r
  <2>1. Len(<<>>) = 0
    OBVIOUS
  <2>. QED BY <1>2, <2>1
<1>6. MemoryIsLogged'
  <2>1. ASSUME NEW j \in Injections
        PROVE  (j \in active <=> LogOpen(j) /\ LastRecord(j).session = session)'
    <3>1. CASE j = i
      BY <3>1, <1>5 DEF LogOpen, LastRecord
    <3>2. CASE j # i
      BY <3>2, <1>2 DEF IInv, MemoryIsLogged, LogOpen, LastRecord
    <3>. QED BY <3>1, <3>2
  <2>. QED BY <2>1 DEF MemoryIsLogged
<1>7. SessionsPast'
  BY <1>1, <1>2, <1>5 DEF IInv, SessionsPast, LastRecord
<1>. QED BY <1>4, <1>6, <1>7

LEMMA TrackInv ==
  ASSUME IInv, NEW i \in Injections, TrackEntry(i)
  PROVE  EndsMatchStarts' /\ MemoryIsLogged' /\ SessionsPast' /\ PollInv'
<1>1. /\ phase = "track" /\ phase' = phase /\ session' = session /\ past' = past
      /\ seen' = seen \cup {i}
  BY DEF TrackEntry
<1>2. CASE i \in past /\ i \in active /\ EndIncident(i)
  <2>1. EndsMatchStarts' /\ MemoryIsLogged' /\ SessionsPast'
    BY <1>1, <1>2, LoggedInv DEF EndIncident
  <2>2. PollInv'
    BY <1>1, <1>2 DEF IInv, PollInv, EndIncident
  <2>. QED BY <2>1, <2>2
<1>3. CASE i \notin past /\ i \notin active /\ active' = active \cup {i} /\ Logged(i, "start")
  <2>1. EndsMatchStarts' /\ MemoryIsLogged' /\ SessionsPast'
    BY <1>1, <1>3, LoggedInv
  <2>2. PollInv'
    BY <1>1, <1>3 DEF IInv, PollInv
  <2>. QED BY <2>1, <2>2
<1>4. CASE (i \in past) # (i \in active) /\ UNCHANGED <<active, log>>
  <2>1. EndsMatchStarts' /\ MemoryIsLogged' /\ SessionsPast'
    BY <1>1, <1>4 DEF IInv, EndsMatchStarts, MemoryIsLogged, SessionsPast, LogOpen, LastRecord
  <2>2. ~ (i \in past /\ i \in active)
    BY <1>4
  <2>3. PollInv'
    BY <1>1, <1>4, <2>2 DEF IInv, PollInv
  <2>. QED BY <2>1, <2>3
<1>. QED BY <1>2, <1>3, <1>4 DEF TrackEntry

LEMMA SweepInv ==
  ASSUME IInv, NEW i \in Injections, SweepCleared(i)
  PROVE  EndsMatchStarts' /\ MemoryIsLogged' /\ SessionsPast' /\ PollInv'
<1>1. /\ phase = "sweep" /\ phase' = phase /\ session' = session
      /\ past' = past /\ seen' = seen /\ i \in active /\ i \notin seen
      /\ active' = active \ {i} /\ Logged(i, "end")
  BY DEF SweepCleared, EndIncident
<1>2. EndsMatchStarts' /\ MemoryIsLogged' /\ SessionsPast'
  BY <1>1, LoggedInv
<1>. QED BY <1>1, <1>2 DEF IInv, PollInv

(* Steps that leave memory and log alone.                                   *)
LEMMA QuietInv ==
  ASSUME IInv, UNCHANGED <<session, active, log>>,
         phase' = "down" \/ (phase # "down" /\ phase' # "down")
  PROVE  EndsMatchStarts' /\ MemoryIsLogged' /\ SessionsPast'
BY DEF IInv, EndsMatchStarts, MemoryIsLogged, SessionsPast, LogOpen, LastRecord

LEMMA PollStepInv ==
  ASSUME IInv, Poll \/ TrackDone \/ PollReturns
  PROVE  EndsMatchStarts' /\ MemoryIsLogged' /\ SessionsPast' /\ PollInv'
<1>1. CASE Poll
  BY <1>1, QuietInv DEF IInv, Poll, PollInv
<1>2. CASE TrackDone
  BY <1>2, QuietInv DEF IInv, TrackDone, PollInv
<1>3. CASE PollReturns
  BY <1>3, QuietInv DEF IInv, PollReturns, PollInv
<1>. QED BY <1>1, <1>2, <1>3

LEMMA StartInv ==
  ASSUME IInv, StartProducer
  PROVE  EndsMatchStarts' /\ MemoryIsLogged' /\ SessionsPast' /\ PollInv'
<1>1. /\ active' = {} /\ session' = session + 1 /\ log' = log /\ phase' = "start"
  BY DEF StartProducer
<1>2. EndsMatchStarts' /\ PollInv'
  BY <1>1 DEF IInv, EndsMatchStarts, PollInv
<1>3. ASSUME NEW i \in Injections, log[i] # <<>>
      PROVE  LastRecord(i).session < session' /\ LastRecord(i).session \leq session'
  <2>1. LastRecord(i).session \in Nat /\ session \in Nat /\ LastRecord(i).session \leq session
    BY <1>3, LastType DEF IInv, TypeOK, SessionsPast, Records
  <2>. QED BY <2>1, <1>1
<1>4. MemoryIsLogged'
  <2>1. ASSUME NEW i \in Injections
        PROVE  ~ (LogOpen(i) /\ LastRecord(i).session = session)'
    <3>1. CASE log[i] = <<>>
      BY <3>1, <1>1 DEF LogOpen
    <3>2. CASE log[i] # <<>>
      <4>1. LastRecord(i).session < session' /\ LastRecord(i).session \in Nat /\ session' \in Nat
        BY <3>2, <1>1, <1>3, LastType DEF IInv, TypeOK, Records
      <4>. QED BY <4>1, <1>1 DEF LastRecord
    <3>. QED BY <3>1, <3>2
  <2>. QED BY <2>1, <1>1 DEF MemoryIsLogged
<1>5. SessionsPast'
  BY <1>1, <1>3 DEF SessionsPast, LastRecord
<1>. QED BY <1>2, <1>4, <1>5

LEMMA InitInv == Init => IInv
<1>. SUFFICES ASSUME Init PROVE IInv
  OBVIOUS
<1>1. TypeOK
  <2>1. Empty \in Texts
    BY DEF Empty, Texts
  <2>2. \A i \in Injections : <<>> \in Seq(Records)
    OBVIOUS
  <2>. QED BY <2>1, <2>2 DEF Init, TypeOK
<1>2. EndsMatchStarts
  BY DEF Init, EndsMatchStarts
<1>. QED BY <1>1, <1>2 DEF Init, IInv, MemoryIsLogged, SessionsPast, PollInv

LEMMA NextInv == IInv /\ [Next]_vars => IInv'
<1>. SUFFICES ASSUME IInv, [Next]_vars PROVE IInv'
  OBVIOUS
<1>1. TypeOK'
  BY TypeStep DEF IInv
<1>2. ASSUME UNCHANGED <<engineVars, log>>
      PROVE  EndsMatchStarts' /\ MemoryIsLogged' /\ SessionsPast' /\ PollInv'
  <2>1. phase' = "down" \/ (phase # "down" /\ phase' # "down")
    BY <1>2 DEF engineVars
  <2>. QED BY <1>2, <2>1, QuietInv DEF IInv, PollInv, engineVars
<1>3. ASSUME NEW w \in Commands, Command(w) \/ KillCommand(w)
      PROVE  UNCHANGED <<engineVars, log>>
  BY <1>3 DEF Command, StartCommand, OpenTmp, Opened, WriteTmp, Replace, ReplaceFails,
              KillCommand
<1>4. ASSUME NEW i \in Injections, Expire(i) PROVE UNCHANGED <<engineVars, log>>
  BY <1>4 DEF Expire
<1>5. CASE UNCHANGED vars
  BY <1>5, <1>1, <1>2 DEF IInv, vars
<1>6. CASE StopProducer
  <2>1. EndsMatchStarts' /\ MemoryIsLogged' /\ SessionsPast'
    BY <1>6, QuietInv DEF StopProducer
  <2>. QED BY <2>1, <1>1, <1>6 DEF IInv, PollInv, StopProducer
<1>7. CASE StartProducer
  BY <1>7, <1>1, StartInv DEF IInv
<1>8. CASE Engine
  BY <1>8, <1>1, PollStepInv, TrackInv, SweepInv DEF IInv, Engine
<1>. QED BY <1>1, <1>2, <1>3, <1>4, <1>5, <1>6, <1>7, <1>8 DEF Next, IInv

(* The inductive invariant: memory, log and the poll under way agree.       *)
THEOREM Invariance == Spec => []IInv
<1>. QED BY InitInv, NextInv, PTL DEF Spec

(* The log pairs starts and ends, and repeats a start only across runs of   *)
(* the producer, whatever the CLI processes do to the files.                *)
THEOREM LogPairs == Spec => []EndsMatchStarts
<1>1. IInv => EndsMatchStarts
  BY DEF IInv
<1>. QED BY <1>1, Invariance, PTL

(* What biases events is what the last poll read and had not expired, and   *)
(* is on record.                                                            *)
THEOREM BiasIsLogged == Spec => []EmittedIsLogged
<1>1. IInv => EmittedIsLogged
  <2>. SUFFICES ASSUME IInv, phase = "loop"
                PROVE  active = seen \ past /\ \A i \in active : LogOpen(i)
    BY DEF EmittedIsLogged
  <2>1. active = seen \ past /\ active \subseteq Injections
    BY DEF IInv, TypeOK, PollInv
  <2>. QED BY <2>1 DEF IInv, MemoryIsLogged
<1>. QED BY <1>1, Invariance, PTL

-----------------------------------------------------------------------------
(* As long as no two commands have run at once.                            *)

(* SequentialInv says, on top of types: the process that runs is alone and  *)
(* holds the list the file should get; what it has opened is the temporary  *)
(* file, which is not the control file; a process that has opened nothing   *)
(* has created no file; and what the engine has read was standing then.     *)
(* A command started while another one runs is noticed for good.            *)
LEMMA AloneRuns ==
  ASSUME NEW w \in Commands, StartCommand(w), ~ overlapped'
  PROVE  \A v \in Commands : ~ Alive(v)
BY DEF StartCommand, Running

LEMMA OverlapStays ==
  ASSUME TypeOK, [Next]_vars, ~ overlapped' PROVE ~ overlapped
<1>1. ASSUME NEW w \in Commands, Command(w) \/ KillCommand(w) PROVE ~ overlapped
  BY <1>1 DEF Command, StartCommand, OpenTmp, Opened, WriteTmp, Replace, ReplaceFails,
              KillCommand, history
<1>2. ASSUME ~ \E w \in Commands : Command(w) \/ KillCommand(w) PROVE ~ overlapped
  BY <1>2 DEF Next, vars, Expire, StartProducer, StopProducer, Engine, Poll, TrackDone,
              PollReturns, TrackEntry, SweepCleared, history
<1>. QED BY <1>1, <1>2

LEMMA SequentialInit == Init => SequentialInv
BY ConstantsAssumption
   DEF Init, SequentialInv, StandingText, FilesApart, WriterInv, EngineReads, Alive

LEMMA SequentialRead ==
  ASSUME TypeOK, SequentialInv PROVE ReadControl = standing
BY DEF SequentialInv, StandingText, ReadControl, Dump, TypeOK

LEMMA SequentialStart ==
  ASSUME TypeOK, SequentialInv, NEW w \in Commands, StartCommand(w), ~ overlapped'
  PROVE  SequentialInv'
<1>1. \A v \in Commands : ~ Alive(v)
  BY AloneRuns
<1>2. ReadControl = standing
  BY SequentialRead
<1>3. /\ pc' = [pc EXCEPT ![w] = "read"]
      /\ buffer' = [buffer EXCEPT ![w] = IF w \in Injections
                                         THEN standing \cup {w} ELSE {}]
      /\ UNCHANGED <<control, tmp, text, fd, expired, session, phase, active, seen,
                     todo, past, standing>>
      /\ pc[w] = "ready"
  BY <1>2 DEF StartCommand, fileVars, engineVars, history
<1>4. FilesApart' /\ StandingText'
  BY <1>3 DEF SequentialInv, FilesApart, StandingText, TypeOK
<1>5. WriterInv'
  <2>1. ASSUME NEW v \in Commands, v # w PROVE ~ Alive(v)'
    BY <2>1, <1>1, <1>3 DEF Alive, TypeOK
  <2>2. pc'[w] = "read" /\ buffer'[w] = IF w \in Injections THEN standing \cup {w} ELSE {}
    BY <1>3 DEF TypeOK
  <2>. QED BY <2>1, <2>2, <1>3 DEF WriterInv, Alive
<1>6. EngineReads'
  BY <1>3 DEF SequentialInv, EngineReads, TypeOK, Commands
<1>. QED BY <1>4, <1>5, <1>6 DEF SequentialInv

LEMMA SequentialOpen ==
  ASSUME TypeOK, SequentialInv, NEW w \in Commands, OpenTmp(w)
  PROVE  SequentialInv'
<1>. DEFINE f == IF tmp = None THEN w ELSE tmp
<1>1. /\ pc[w] = "read" /\ pc' = [pc EXCEPT ![w] = "opened"]
      /\ tmp' = f /\ fd' = [fd EXCEPT ![w] = f] /\ text' = [text EXCEPT ![f] = Empty]
      /\ UNCHANGED <<control, buffer, expired, session, phase, active, seen, todo,
                     past, standing>>
  BY DEF OpenTmp, Opened, engineVars, history
<1>2. f \in Commands /\ f # None /\ f # control
  BY <1>1, ConstantsAssumption DEF SequentialInv, FilesApart, TypeOK
<1>3. f = w \/ (f = tmp /\ tmp # None)
  OBVIOUS
<1>. HIDE DEF f
<1>4. StandingText'
  BY <1>1, <1>2 DEF SequentialInv, StandingText, TypeOK
<1>5. FilesApart'
  BY <1>1, <1>2, <1>3 DEF SequentialInv, FilesApart, TypeOK
<1>6. Alive(w)
  BY <1>1 DEF Alive
<1>7. WriterInv'
  <2>1. ASSUME NEW v \in Commands, v # w PROVE ~ Alive(v)'
    BY <2>1, <1>1, <1>6 DEF SequentialInv, WriterInv, Alive, TypeOK
  <2>2. pc'[w] = "opened" /\ fd'[w] = f /\ text'[f] = Empty
    BY <1>1, <1>2 DEF TypeOK
  <2>3. buffer'[w] = IF w \in Injections THEN standing' \cup {w} ELSE {}
    BY <1>1, <1>6 DEF SequentialInv, WriterInv
  <2>. QED BY <2>1, <2>2, <2>3, <1>1, <1>2 DEF WriterInv, Alive
<1>8. EngineReads'
  BY <1>1 DEF SequentialInv, EngineReads, TypeOK, Commands
<1>. QED BY <1>4, <1>5, <1>7, <1>8 DEF SequentialInv

LEMMA SequentialWrite ==
  ASSUME TypeOK, SequentialInv, NEW w \in Commands, WriteTmp(w)
  PROVE  SequentialInv'
<1>1. /\ pc[w] = "opened" /\ Alive(w)
      /\ fd[w] = tmp /\ tmp # None /\ tmp \in Commands /\ text[tmp] = Empty /\ tmp # control
  BY DEF WriteTmp, Alive, SequentialInv, WriterInv, FilesApart, TypeOK
<1>2. Overwrites(text[fd[w]], Dump(buffer[w])) = {Dump(buffer[w])}
  BY <1>1 DEF Overwrites
<1>3. /\ pc' = [pc EXCEPT ![w] = "written"]
      /\ text' = [text EXCEPT ![tmp] = Dump(buffer[w])]
      /\ UNCHANGED <<control, tmp, buffer, fd, expired, session, phase, active, seen,
                     todo, past, standing>>
  BY <1>1, <1>2 DEF WriteTmp, engineVars, history
<1>4. StandingText' /\ FilesApart'
  BY <1>1, <1>3 DEF SequentialInv, StandingText, FilesApart, TypeOK
<1>5. WriterInv'
  <2>1. ASSUME NEW v \in Commands, v # w PROVE ~ Alive(v)'
    BY <2>1, <1>1, <1>3 DEF SequentialInv, WriterInv, Alive, TypeOK
  <2>2. pc'[w] = "written" /\ text'[tmp] = Dump(buffer[w])
    BY <1>1, <1>3 DEF TypeOK
  <2>3. buffer[w] = IF w \in Injections THEN standing \cup {w} ELSE {}
    BY <1>1 DEF SequentialInv, WriterInv
  <2>. QED BY <2>1, <2>2, <2>3, <1>1, <1>3 DEF WriterInv, Alive
<1>6. EngineReads'
  BY <1>1, <1>3 DEF SequentialInv, EngineReads, TypeOK, Commands
<1>. QED BY <1>4, <1>5, <1>6 DEF SequentialInv

LEMMA SequentialReplace ==
  ASSUME TypeOK, SequentialInv, NEW w \in Commands, Replace(w)
  PROVE  SequentialInv'
<1>1. /\ pc[w] = "written" /\ Alive(w) /\ tmp # None /\ tmp \in Commands
      /\ text[tmp] = Dump(buffer[w])
      /\ buffer[w] = IF w \in Injections THEN standing \cup {w} ELSE {}
  BY DEF Replace, Alive, SequentialInv, WriterInv, TypeOK
<1>2. /\ pc' = [pc EXCEPT ![w] = "done"] /\ control' = tmp /\ tmp' = None
      /\ standing' = buffer[w]
      /\ UNCHANGED <<text, buffer, fd, expired, session, phase, active, seen, todo, past>>
  BY <1>1 DEF Replace, engineVars, history
<1>3. StandingText'
  BY <1>1, <1>2 DEF StandingText
<1>4. FilesApart'
  BY <1>1, <1>2, ConstantsAssumption DEF SequentialInv, FilesApart, TypeOK
<1>5. WriterInv'
  <2>1. ASSUME NEW v \in Commands PROVE ~ Alive(v)'
    BY <2>1, <1>1, <1>2 DEF SequentialInv, WriterInv, Alive, TypeOK
  <2>. QED BY <2>1 DEF WriterInv
<1>6. EngineReads'
  <2>1. standing' \subseteq standing \cup {w}
    BY <1>1, <1>2
  <2>2. ASSUME NEW i \in Injections PROVE pc[i] = "done" => pc'[i] = "done" /\ i # w
    BY <1>1, <1>2 DEF TypeOK, Commands
  <2>3. ASSUME NEW i \in standing' PROVE pc'[i] = "done"
    BY <1>2, <2>1, <2>2 DEF SequentialInv, EngineReads, TypeOK, Commands
  <2>4. \A i \in active \cup todo : i \in Injections /\ pc'[i] = "done" /\ i # w
    BY <2>2 DEF SequentialInv, EngineReads, TypeOK
  <2>. QED BY <2>1, <2>3, <2>4, <1>2 DEF SequentialInv, EngineReads
<1>. QED BY <1>3, <1>4, <1>5, <1>6 DEF SequentialInv

LEMMA SequentialEnd ==
  ASSUME TypeOK, SequentialInv, NEW w \in Commands, ReplaceFails(w) \/ KillCommand(w)
  PROVE  SequentialInv'
<1>1. /\ Alive(w) /\ pc' = [pc EXCEPT ![w] = "dead"]
      /\ UNCHANGED <<control, tmp, text, buffer, fd, expired, session, phase, active,
                     seen, todo, past, standing>>
  BY DEF ReplaceFails, KillCommand, Alive, fileVars, engineVars, history
<1>2. StandingText' /\ FilesApart'
  BY <1>1 DEF SequentialInv, StandingText, FilesApart, TypeOK
<1>3. WriterInv'
  <2>1. ASSUME NEW v \in Commands PROVE ~ Alive(v)'
    BY <2>1, <1>1 DEF SequentialInv, WriterInv, Alive, TypeOK
  <2>. QED BY <2>1 DEF WriterInv
<1>4. EngineReads'
  <2>1. ASSUME NEW i \in Injections PROVE pc[i] = "done" => pc'[i] = "done"
    BY <1>1 DEF TypeOK, Commands, Alive
  <2>. QED BY <1>1, <2>1 DEF SequentialInv, EngineReads, TypeOK
<1>. QED BY <1>2, <1>3, <1>4 DEF SequentialInv

(* The engine only reads the files; what it holds keeps coming from them.   *)
LEMMA SequentialEngine ==
  ASSUME TypeOK, SequentialInv, Engine \/ StartProducer \/ StopProducer
  PROVE  SequentialInv'
<1>1. UNCHANGED <<control, tmp, text, pc, buffer, fd, expired, standing>>
  BY DEF Engine, StartProducer, StopProducer, Poll, TrackDone, PollReturns, TrackEntry,
         SweepCleared, fileVars, cliVars, history
<1>2. StandingText' /\ FilesApart' /\ WriterInv'
  BY <1>1 DEF SequentialInv, StandingText, FilesApart, WriterInv, Alive
<1>3. EngineReads'
  <2>1. CASE StartProducer
    BY <2>1, <1>1 DEF SequentialInv, EngineReads, StartProducer
  <2>2. CASE StopProducer \/ TrackDone \/ PollReturns
    BY <2>2, <1>1 DEF SequentialInv, EngineReads, StopProducer, TrackDone, PollReturns
  <2>3. CASE Poll
    BY <2>3, <1>1, SequentialRead DEF SequentialInv, EngineReads, Poll
  <2>4. ASSUME NEW i \in Injections, TrackEntry(i) PROVE EngineReads'
    <3>1. /\ phase = "track" /\ phase' = "track" /\ i \in todo /\ todo' = todo \ {i}
          /\ seen' = seen \cup {i} /\ past' = past
          /\ active' \subseteq active \cup {i}
      BY <2>4 DEF TrackEntry, EndIncident
    <3>. QED BY <3>1, <1>1 DEF SequentialInv, EngineReads
  <2>5. ASSUME NEW i \in Injections, SweepCleared(i) PROVE EngineReads'
    BY <2>5, <1>1 DEF SequentialInv, EngineReads, SweepCleared, EndIncident
  <2>. QED BY <2>1, <2>2, <2>3, <2>4, <2>5 DEF Engine
<1>. QED BY <1>2, <1>3 DEF SequentialInv

LEMMA SequentialStep ==
  ASSUME TypeOK, SequentialInv, [Next]_vars, ~ overlapped'
  PROVE  SequentialInv'
<1>1. ASSUME NEW i \in Injections, Expire(i) PROVE SequentialInv'
  BY <1>1 DEF Expire, SequentialInv, StandingText, FilesApart, WriterInv, EngineReads,
              Alive, fileVars, cliVars, history, engineVars
<1>2. CASE UNCHANGED vars
  BY <1>2 DEF vars, SequentialInv, StandingText, FilesApart, WriterInv, EngineReads,
              Alive, fileVars, cliVars, history, engineVars
<1>3. ASSUME NEW w \in Commands, Command(w) \/ KillCommand(w) PROVE SequentialInv'
  BY <1>3, SequentialStart, SequentialOpen, SequentialWrite, SequentialReplace,
     SequentialEnd DEF Command
<1>. QED BY <1>1, <1>2, <1>3, SequentialEngine DEF Next

THEOREM SequentialInvariance == Spec => [](~ overlapped => SequentialInv)
<1>1. Spec => []TypeOK
  <2>1. IInv => TypeOK
    BY DEF IInv
  <2>. QED BY <2>1, Invariance, PTL
<1>2. TypeOK /\ (~ overlapped => SequentialInv) /\ [Next]_vars
        => (~ overlapped => SequentialInv)'
  BY SequentialStep, OverlapStays
<1>. QED BY <1>1, <1>2, SequentialInit, PTL DEF Spec

(* As long as no two commands have run at once, every reader finds the      *)
(* control file whole, holding what successful commands have injected and   *)
(* not cleared.                                                             *)
THEOREM WholeFile == Spec => []FileIsStanding
<1>1. (~ overlapped => SequentialInv) => FileIsStanding
  BY DEF SequentialInv, FileIsStanding
<1>. QED BY <1>1, SequentialInvariance, PTL

LEMMA EndIsDue ==
  ASSUME TypeOK, SequentialInv, [Next]_vars, NEW i \in Injections, Ends(i)
  PROVE  i \in expired \/ i \notin standing
<1>1. log'[i] # log[i]
  <2>1. Len(log[i]) \in Nat
    BY DEF TypeOK
  <2>. QED BY <2>1 DEF Ends
<1>2. log' # log
  BY <1>1
<1>3. PICK j \in Injections : TrackEntry(j) \/ SweepCleared(j)
  BY <1>2 DEF Next, vars, Command, StartCommand, OpenTmp, Opened, WriteTmp, Replace,
              ReplaceFails, KillCommand, Expire, StartProducer, StopProducer, Engine,
              Poll, TrackDone, PollReturns
<1>4. j = i
  BY <1>1, <1>3 DEF TrackEntry, SweepCleared, EndIncident, Logged, TypeOK
<1>5. CASE SweepCleared(j)
  BY <1>4, <1>5 DEF SweepCleared, SequentialInv, EngineReads
<1>6. CASE TrackEntry(j) /\ Logged(j, "start")
  <2>1. log'[i][Len(log[i]) + 1].action = "start" /\ Len(log'[i]) = Len(log[i]) + 1
    BY <1>4, <1>6, Appended
  <2>. QED BY <2>1 DEF Ends
<1>7. CASE TrackEntry(j) /\ ~ Logged(j, "start")
  <2>1. j \in past
    BY <1>2, <1>7 DEF TrackEntry
  <2>. QED BY <2>1, <1>4 DEF SequentialInv, EngineReads
<1>. QED BY <1>3, <1>5, <1>6, <1>7

(* As long as no two commands have run at once, the log ends only what      *)
(* expired or was cleared.                                                  *)
THEOREM NoEarlyEnd == Spec => EndsOnlyWhenDue
<1>1. Spec => []TypeOK
  <2>1. IInv => TypeOK
    BY DEF IInv
  <2>. QED BY <2>1, Invariance, PTL
<1>2. TypeOK /\ (~ overlapped => SequentialInv) /\ [Next]_vars
        => [~ overlapped => \A i \in Injections : Ends(i) => i \in expired \/ i \notin standing]_vars
  BY EndIsDue
<1>. QED BY <1>1, <1>2, SequentialInvariance, PTL DEF Spec, EndsOnlyWhenDue

LEMMA ClearedStep ==
  ASSUME TypeOK, SequentialInv, [Next]_vars, NEW i \in Injections,
         i \notin standing, i \notin active \cup todo
  PROVE  i \notin active' \cup todo'
<1>1. CASE UNCHANGED <<active, todo>>
  BY <1>1
<1>2. CASE Poll
  BY <1>2, SequentialRead DEF Poll
<1>3. ASSUME NEW j \in Injections, TrackEntry(j) \/ SweepCleared(j)
      PROVE  i \notin active' \cup todo'
  BY <1>3 DEF TrackEntry, SweepCleared, EndIncident
<1>4. CASE StartProducer
  BY <1>4 DEF StartProducer
<1>5. ASSUME ~ Poll, ~ StartProducer,
             \A j \in Injections : ~ TrackEntry(j) /\ ~ SweepCleared(j)
      PROVE  UNCHANGED <<active, todo>>
  BY <1>5 DEF Next, vars, Command, StartCommand, OpenTmp, Opened, WriteTmp, Replace,
              ReplaceFails, KillCommand, Expire, StopProducer, Engine, TrackDone,
              PollReturns, engineVars
<1>. QED BY <1>1, <1>2, <1>3, <1>4, <1>5

(* As long as no two commands have run at once, a cleared incident is never *)
(* read again.                                                              *)
THEOREM ClearIsFinal == Spec => ClearedStaysCleared
<1>1. Spec => []TypeOK
  <2>1. IInv => TypeOK
    BY DEF IInv
  <2>. QED BY <2>1, Invariance, PTL
<1>2. TypeOK /\ (~ overlapped => SequentialInv) /\ [Next]_vars
        => [~ overlapped => \A i \in Injections :
              pc[i] = "done" /\ i \notin standing /\ i \notin active \cup todo
                => i \notin active' \cup todo']_vars
  BY ClearedStep
<1>. QED BY <1>1, <1>2, SequentialInvariance, PTL DEF Spec, ClearedStaysCleared

-----------------------------------------------------------------------------
(* A producer that is never restarted.                                      *)

OneSessionInv ==
  /\ phase = "down" => session = 0 /\ \A i \in Injections : log[i] = <<>>
  /\ phase # "down" => session = 1
  /\ \A i \in Injections : log[i] # <<>> => LastRecord(i).session = session

LEMMA OneSessionLogs ==
  ASSUME IInv, OneSessionInv, NEW i \in Injections, NEW a \in {"start", "end"},
         Logged(i, a), session' = session, phase # "down", phase' # "down"
  PROVE  OneSessionInv'
<1>1. /\ log'[i][Len(log'[i])] = [action |-> a, session |-> session]
      /\ \A j \in Injections \ {i} : log'[j] = log[j]
  BY Appended DEF IInv
<1>2. ASSUME NEW j \in Injections, log'[j] # <<>> PROVE LastRecord(j)'.session = session
  <2>1. CASE j = i
    BY <1>1, <2>1 DEF LastRecord
  <2>2. CASE j # i
    BY <1>1, <1>2, <2>2 DEF OneSessionInv, LastRecord
  <2>. QED BY <2>1, <2>2
<1>. QED BY <1>2 DEF OneSessionInv

LEMMA OneSessionStep ==
  ASSUME MaxSessions = 1, IInv, OneSessionInv, [Next]_vars
  PROVE  OneSessionInv'
<1>1. ASSUME NEW i \in Injections, TrackEntry(i) \/ SweepCleared(i)
      PROVE  OneSessionInv'
  <2>1. /\ phase' = phase /\ session' = session /\ phase # "down"
        /\ \/ log' = log
           \/ Logged(i, "start") \/ Logged(i, "end")
    BY <1>1 DEF TrackEntry, SweepCleared, EndIncident
  <2>2. CASE log' = log
    BY <2>1, <2>2 DEF OneSessionInv, LastRecord
  <2>. QED BY <2>1, <2>2, OneSessionLogs
<1>2. CASE StartProducer
  BY <1>2 DEF StartProducer, OneSessionInv, LastRecord
<1>3. CASE StopProducer
  BY <1>3 DEF StopProducer, OneSessionInv
<1>4. ASSUME ~ StartProducer, ~ StopProducer,
             \A i \in Injections : ~ TrackEntry(i) /\ ~ SweepCleared(i)
      PROVE  /\ UNCHANGED <<session, log>>
             /\ phase' = "down" <=> phase = "down"
  BY <1>4 DEF Next, vars, Command, StartCommand, OpenTmp, Opened, WriteTmp, Replace,
              ReplaceFails, KillCommand, Expire, Engine, Poll, TrackDone,
              PollReturns, engineVars
<1>5. ASSUME UNCHANGED <<session, log>>, phase' = "down" <=> phase = "down"
      PROVE  OneSessionInv'
  BY <1>5 DEF OneSessionInv, LastRecord
<1>. QED BY <1>1, <1>2, <1>3, <1>4, <1>5

(* What scenarios.py:5-6 says of the log holds of a producer that is never  *)
(* restarted: what the log holds open biases events.  The log and memory    *)
(* part only where one producer ends and the next begins.                   *)
THEOREM OpenIsEmittedInOneSession ==
  ASSUME MaxSessions = 1 PROVE Spec => []OpenIsEmitted
<1>1. Init => OneSessionInv
  BY DEF Init, OneSessionInv
<1>2. IInv /\ OneSessionInv /\ [Next]_vars => OneSessionInv'
  BY OneSessionStep
<1>3. IInv /\ OneSessionInv => OpenIsEmitted
  <2>. SUFFICES ASSUME IInv, OneSessionInv, phase = "loop", NEW i \in Injections, LogOpen(i)
                PROVE  i \in active
    BY DEF OpenIsEmitted
  <2>1. LastRecord(i).session = session
    BY DEF OneSessionInv, LogOpen
  <2>. QED BY <2>1 DEF IInv, MemoryIsLogged
<1>. QED BY <1>1, <1>2, <1>3, Invariance, PTL DEF Spec
=============================================================================
