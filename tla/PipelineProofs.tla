---------------------------- MODULE PipelineProofs ----------------------------
(***************************************************************************)
(* Proofs about Pipeline, for every number of partitions, consumers and    *)
(* messages, every batch size and every number of faults.                  *)
(***************************************************************************)
EXTENDS Pipeline, TLAPS

(* What the sequence operators of the model do: a log or a batch that      *)
(* grows by Append keeps what it had, and its new last element is known.   *)
LEMMA AppendKeeps ==
  ASSUME NEW S, NEW s \in Seq(S), NEW e \in S
  PROVE  /\ Append(s, e) \in Seq(S)
         /\ Len(Append(s, e)) = Len(s) + 1
         /\ Append(s, e)[Len(s) + 1] = e
         /\ \A i \in 1 .. Len(s) : Append(s, e)[i] = s[i]
         /\ Range(Append(s, e)) = Range(s) \union {e}
<1>1. /\ Append(s, e) \in Seq(S)
      /\ Len(Append(s, e)) = Len(s) + 1
      /\ Append(s, e)[Len(s) + 1] = e
      /\ \A i \in 1 .. Len(s) : Append(s, e)[i] = s[i]
  OBVIOUS
<1>2. /\ DOMAIN Append(s, e) = 1 .. Len(s) + 1
      /\ DOMAIN s = 1 .. Len(s)
      /\ Len(s) \in Nat
  BY <1>1
<1>3. Range(Append(s, e)) = Range(s) \union {e}
  <2>1. ASSUME NEW x \in Range(Append(s, e))
        PROVE  x \in Range(s) \union {e}
    <3>1. PICK i \in 1 .. Len(s) + 1 : x = Append(s, e)[i]
      BY <1>2, <2>1 DEF Range
    <3>2. CASE i = Len(s) + 1
      BY <3>1, <3>2, <1>1
    <3>3. CASE i \in 1 .. Len(s)
      BY <3>1, <3>3, <1>1, <1>2 DEF Range
    <3>. QED BY <3>1, <3>2, <3>3, <1>2
  <2>2. ASSUME NEW x \in Range(s) PROVE x \in Range(Append(s, e))
    <3>1. PICK i \in 1 .. Len(s) : x = s[i]
      BY <1>2, <2>2 DEF Range
    <3>2. i \in DOMAIN Append(s, e) /\ x = Append(s, e)[i]
      BY <3>1, <1>1, <1>2
    <3>. QED BY <3>2 DEF Range
  <2>3. e \in Range(Append(s, e))
    <3>1. Len(s) + 1 \in DOMAIN Append(s, e) /\ e = Append(s, e)[Len(s) + 1]
      BY <1>1, <1>2
    <3>. QED BY <3>1 DEF Range
  <2>. QED BY <2>1, <2>2, <2>3
<1>. QED BY <1>1, <1>3

-------------------------------------------------------------------------------
(* Type correctness.                                                       *)

LEMMA FaultType ==
  ASSUME TypeOK, NEW k \in FaultKinds, Fault(k)
  PROVE  faults' \in [FaultKinds -> Nat]
BY DEF TypeOK, Fault

LEMMA LandedType ==
  ASSUME TypeOK, NEW c \in Consumers, BatchInv
  PROVE  Landed(Range(batch[c])) \in SUBSET Payloads
<1>1. ASSUME NEW loc \in Range(batch[c]) PROVE Payload(loc) \in Payloads
  <2>1. Payload(loc) \in Readable
    BY <1>1 DEF BatchInv
  <2>. QED BY <2>1 DEF Readable, Payloads
<1>. QED BY <1>1 DEF Landed, TypeOK

LEMMA CommittingType ==
  ASSUME TypeOK, NEW c \in Consumers
  PROVE  Committing(c) \in [Partitions -> Nat]
<1>1. \A p \in Partitions : position[c][p] \in Nat /\ committed[p] \in Nat
  BY DEF TypeOK
<1>. QED BY <1>1 DEF Committing

LEMMA AppendLogType ==
  ASSUME TypeOK, NEW e \in Payloads, Append2Log(e)
  PROVE  log' \in [Partitions -> Seq(Payloads)]
<1>1. PICK p \in PartitionsOf[e] : log' = [log EXCEPT ![p] = Append(@, e)]
  BY DEF Append2Log
<1>2. p \in Partitions
  BY <1>1, PipelineAssumption
<1>3. log[p] \in Seq(Payloads)
  BY <1>2 DEF TypeOK
<1>4. Append(log[p], e) \in Seq(Payloads)
  BY <1>3, AppendKeeps
<1>. QED BY <1>1, <1>2, <1>4 DEF TypeOK

LEMMA VanishType ==
  ASSUME TypeOK, NEW c \in Consumers, Vanish(c)
  PROVE  /\ phase' \in [Consumers -> Phases] /\ final' \in [Consumers -> BOOLEAN]
         /\ batch' \in [Consumers -> Seq(Locations)]
         /\ connected' \in [Consumers -> BOOLEAN]
         /\ member' \in SUBSET Consumers
         /\ assigned' \in [Consumers -> SUBSET Partitions]
         /\ position' \in [Consumers -> [Partitions -> Nat]]
         /\ known' \in [Consumers -> [Partitions -> Nat]]
<1>1. <<>> \in Seq(Locations) /\ "down" \in Phases
  BY DEF Phases
<1>2. [p \in Partitions |-> 0] \in [Partitions -> Nat]
  OBVIOUS
<1>. QED BY <1>1, <1>2 DEF TypeOK, Vanish

LEMMA GenerationType ==
  ASSUME TypeOK, NEW S \in SUBSET Consumers, NewGeneration(S)
  PROVE  /\ member' \in SUBSET Consumers
         /\ assigned' \in [Consumers -> SUBSET Partitions]
         /\ position' \in [Consumers -> [Partitions -> Nat]]
         /\ known' \in [Consumers -> [Partitions -> Nat]]
BY DEF TypeOK, NewGeneration

LEMMA AfterFlushType ==
  ASSUME TypeOK, NEW c \in Consumers, AfterFlush(c)
  PROVE  /\ phase' \in [Consumers -> Phases]
         /\ batch' \in [Consumers -> Seq(Locations)]
<1>1. <<>> \in Seq(Locations) /\ {"poll", "close"} \subseteq Phases
  BY DEF Phases
<1>. QED BY <1>1 DEF TypeOK, AfterFlush

(* What both kinds of turn, the one that goes on and the one that raises,  *)
(* do to a consumer.                                                       *)
LEMMA TurnStep ==
  ASSUME NEW c \in Consumers, NEW p \in Partitions, Turn(c, p)
  PROVE  /\ phase[c] = "poll" /\ p \in assigned[c]
         /\ position[c][p] < Len(log[p])
         /\ position' = [position EXCEPT ![c][p] = @ + 1]
         /\ batch' = [batch EXCEPT ![c] = Read(c, p)]
         /\ phase' \in {phase, [phase EXCEPT ![c] = "write"], [phase EXCEPT ![c] = "close"]}
         /\ final' \in {final, [final EXCEPT ![c] = TRUE]}
         /\ UNCHANGED <<unsent, log, committed, member, connected, assigned,
                        known, transactions, aborted, faults>>
<1>1. CASE Poll(c, p)
  BY <1>1 DEF Poll, Receive, kafkaVars
<1>2. CASE PollRaises(c, p)
  BY <1>2 DEF PollRaises, Receive, LeaveLoop, kafkaVars
<1>. QED BY <1>1, <1>2 DEF Turn

LEMMA TurnType ==
  ASSUME TypeOK, NEW c \in Consumers, NEW p \in Partitions, Turn(c, p)
  PROVE  /\ phase' \in [Consumers -> Phases]
         /\ batch' \in [Consumers -> Seq(Locations)]
         /\ position' \in [Consumers -> [Partitions -> Nat]]
<1>. DEFINE i    == position[c][p] + 1
            read == IF log[p][i] \in Readable THEN Append(batch[c], <<p, i>>)
                                              ELSE batch[c]
<1>1. i \in Nat \ {0} /\ <<p, i>> \in Locations /\ batch[c] \in Seq(Locations)
  BY DEF TypeOK, Locations
<1>2. read \in Seq(Locations)
  BY <1>1, AppendKeeps
<1>3. /\ position' = [position EXCEPT ![c] = [@ EXCEPT ![p] = i]]
      /\ batch' = [batch EXCEPT ![c] = read]
      /\ phase' \in {phase, [phase EXCEPT ![c] = "write"], [phase EXCEPT ![c] = "close"]}
  <2>1. read = Read(c, p)
    BY DEF Read, NextMessage
  <2>. HIDE DEF read
  <2>. QED BY <2>1, TurnStep
<1>4. {"write", "close"} \subseteq Phases
  BY DEF Phases
<1>5. [position[c] EXCEPT ![p] = i] \in [Partitions -> Nat]
  BY <1>1 DEF TypeOK
<1>. HIDE DEF i, read
<1>6. position' \in [Consumers -> [Partitions -> Nat]]
  BY <1>3, <1>5 DEF TypeOK
<1>7. batch' \in [Consumers -> Seq(Locations)]
  BY <1>2, <1>3 DEF TypeOK
<1>8. phase' \in [Consumers -> Phases]
  BY <1>3, <1>4 DEF TypeOK
<1>. QED BY <1>6, <1>7, <1>8

LEMMA CommitType ==
  ASSUME TypeOK, NEW c \in Consumers, CommitOffsets(c)
  PROVE  known' \in [Consumers -> [Partitions -> Nat]]
<1>1. \A p \in Partitions : position[c][p] \in Nat /\ known[c][p] \in Nat
  BY DEF TypeOK
<1>. DEFINE new == [p \in Partitions |-> IF p \in Advanced(c) THEN position[c][p]
                                                             ELSE known[c][p]]
<1>2. new \in [Partitions -> Nat]
  BY <1>1
<1>3. known' = [known EXCEPT ![c] = new]
  BY DEF CommitOffsets
<1>. QED BY <1>2, <1>3 DEF TypeOK
-------------------------------------------------------------------------------
(* The inductive invariant.                                                *)

(* The topic, the table and the dropped locations only ever grow; what is  *)
(* published and settled stays so.                                         *)
Grows ==
  /\ \A p \in Partitions :
       /\ Len(log[p]) <= Len(log'[p])
       /\ \A i \in 1 .. Len(log[p]) : log'[p][i] = log[p][i]
  /\ transactions \subseteq transactions'
  /\ aborted \subseteq aborted'

LEMMA EmptyRange == Range(<<>>) = {}
BY DEF Range

LEMMA BatchLocations ==
  ASSUME TypeOK, NEW c \in Consumers
  PROVE  Range(batch[c]) \subseteq Locations
<1>1. batch[c] \in Seq(Locations)
  BY DEF TypeOK
<1>2. \A i \in DOMAIN batch[c] : batch[c][i] \in Locations
  BY <1>1
<1>. QED BY <1>2 DEF Range

LEMMA AppendGrows ==
  ASSUME TypeOK, NEW e \in Payloads, Append2Log(e),
         UNCHANGED <<transactions, aborted>>
  PROVE  Grows
<1>1. PICK q \in PartitionsOf[e] : log' = [log EXCEPT ![q] = Append(@, e)]
  BY DEF Append2Log
<1>2. q \in Partitions
  BY <1>1, PipelineAssumption
<1>3. ASSUME NEW p \in Partitions
      PROVE  /\ Len(log[p]) <= Len(log'[p])
             /\ \A i \in 1 .. Len(log[p]) : log'[p][i] = log[p][i]
  <2>1. log[p] \in Seq(Payloads) /\ Len(log[p]) \in Nat
    BY DEF TypeOK
  <2>2. CASE p = q
    <3>1. log'[p] = Append(log[p], e)
      BY <1>1, <1>2, <2>2 DEF TypeOK
    <3>. QED BY <3>1, <2>1, AppendKeeps
  <2>3. CASE p # q
    <3>1. log'[p] = log[p]
      BY <1>1, <1>2, <2>3 DEF TypeOK
    <3>. QED BY <3>1, <2>1
  <2>. QED BY <2>2, <2>3
<1>. QED BY <1>3 DEF Grows

LEMMA FixedLogGrows ==
  ASSUME TypeOK, log' = log, transactions \subseteq transactions',
         aborted \subseteq aborted'
  PROVE  Grows
<1>1. \A p \in Partitions : Len(log[p]) \in Nat
  BY DEF TypeOK
<1>. QED BY <1>1 DEF Grows

LEMMA SettledStable ==
  ASSUME TypeOK, Grows, NEW p \in Partitions, NEW i, Published(p, i)
  PROVE  /\ Published(p, i)'
         /\ log'[p][i] = log[p][i]
         /\ Settled(p, i) => Settled(p, i)'
<1>1. Len(log[p]) \in Nat
  BY DEF TypeOK
<1>2. log'[p][i] = log[p][i]
  BY DEF Grows, Published
<1>3. i \in 1 .. Len(log'[p])
  <2>1. i \in 1 .. Len(log[p]) /\ Len(log[p]) <= Len(log'[p])
    BY DEF Grows, Published
  <2>2. i \in Int /\ 1 <= i /\ i <= Len(log[p])
    BY <2>1, <1>1
  <2>. QED BY <2>1, <2>2
<1>4. Settled(p, i) => Settled(p, i)'
  BY <1>2 DEF Grows, Settled
<1>. QED BY <1>2, <1>3, <1>4 DEF Published
(* The part of IInv that is about what has been read and committed, when   *)
(* offsets, assignments, batches and phases stand still.                   *)
LEMMA FrameInv ==
  ASSUME IInv, Grows, TypeOK',
         UNCHANGED <<committed, member, processVars, clientVars>>
  PROVE  IInv'
<1>. USE DEF IInv, processVars, clientVars
<1>1. GroupInv'
  BY DEF GroupInv
<1>2. OffsetInv'
  <2>1. \A p \in Partitions : Len(log[p]) <= Len(log'[p])
    BY DEF Grows
  <2>2. \A c \in Consumers : \A p \in assigned[c] :
          /\ p \in Partitions
          /\ position[c][p] \in Nat
          /\ Len(log[p]) \in Nat /\ Len(log'[p]) \in Nat
    BY DEF TypeOK
  <2>. QED BY <2>1, <2>2 DEF OffsetInv
<1>3. BatchInv' /\ WrittenInv'
  <2>1. ASSUME NEW c \in Consumers, NEW loc \in Range(batch[c])
        PROVE  /\ Published(loc[1], loc[2])'
               /\ Payload(loc)' = Payload(loc)
    <3>1. Published(loc[1], loc[2])
      BY <2>1 DEF BatchInv
    <3>2. loc[1] \in Partitions
      BY <2>1, BatchLocations DEF Locations
    <3>. QED BY <3>1, <3>2, SettledStable DEF Payload
  <2>2. BatchInv'
    BY <2>1 DEF BatchInv
  <2>3. WrittenInv'
    BY <2>1 DEF WrittenInv, Grows
  <2>. QED BY <2>2, <2>3
<1>4. HandedInv'
  <2>1. ASSUME NEW c \in Consumers, NEW p \in assigned[c],
               NEW i \in 1 .. position[c][p], Settled(p, i)
        PROVE  Settled(p, i)'
    <3>1. p \in Partitions /\ position[c][p] \in Nat /\ Len(log[p]) \in Nat
      BY DEF TypeOK
    <3>2. position[c][p] <= Len(log[p])
      BY DEF OffsetInv
    <3>3. Published(p, i)
      BY <3>1, <3>2 DEF Published
    <3>. QED BY <2>1, <3>1, <3>3, SettledStable
  <2>. QED BY <2>1 DEF HandedInv, Reading
<1>5. CommittedIsSettled'
  BY SettledStable DEF CommittedIsSettled
<1>. QED BY <1>1, <1>2, <1>3, <1>4, <1>5

LEMMA ProducerInv ==
  ASSUME IInv, Producer
  PROVE  IInv'
<1>1. PICK e \in Payloads :
        Deliver(e) \/ DeliverUnacknowledged(e) \/ DeliveryFails(e)
  BY DEF Producer
<1>2. CASE Deliver(e)
  <2>1. TypeOK'
    BY <1>2, AppendLogType DEF Deliver, IInv, TypeOK, processVars, clientVars
  <2>2. Grows
    BY <1>2, AppendGrows DEF Deliver, IInv
  <2>. QED BY <1>2, <2>1, <2>2, FrameInv DEF Deliver
<1>3. CASE DeliverUnacknowledged(e)
  <2>1. TypeOK'
    BY <1>3, AppendLogType, FaultType
    DEF DeliverUnacknowledged, IInv, TypeOK, processVars, clientVars, FaultKinds
  <2>2. Grows
    BY <1>3, AppendGrows DEF DeliverUnacknowledged, IInv
  <2>. QED BY <1>3, <2>1, <2>2, FrameInv DEF DeliverUnacknowledged
<1>4. CASE DeliveryFails(e)
  <2>1. TypeOK'
    BY <1>4 DEF DeliveryFails, IInv, TypeOK, processVars, clientVars
  <2>2. Grows
    BY <1>4, FixedLogGrows DEF DeliveryFails, IInv
  <2>. QED BY <1>4, <2>1, <2>2, FrameInv DEF DeliveryFails
<1>. QED BY <1>1, <1>2, <1>3, <1>4
(* A step that neither publishes, writes, gives up nor commits, changes no *)
(* assignment and only moves consumer c to another phase of its life.      *)
LEMMA PhaseInv ==
  ASSUME IInv, TypeOK', NEW c \in Consumers,
         UNCHANGED <<log, committed, member, batch, clientVars,
                     transactions, aborted>>,
         \A d \in Consumers \ {c} :
           phase'[d] = phase[d] /\ connected'[d] = connected[d],
         phase'[c] # "commit",
         phase'[c] = "down" => phase[c] = "down",
         Reading(c)' => Reading(c) \/ assigned[c] = {}
  PROVE  IInv'
<1>. USE DEF IInv, clientVars
<1>1. GroupInv'
  BY DEF GroupInv
<1>2. OffsetInv'
  BY DEF OffsetInv
<1>3. BatchInv'
  BY DEF BatchInv, Published, Payload
<1>4. HandedInv'
  <2>1. ASSUME NEW d \in Consumers, Reading(d)', assigned[d] # {}
        PROVE  Reading(d)
    BY <2>1 DEF Reading
  <2>2. \A p, i : Settled(p, i)' = Settled(p, i)
    BY DEF Settled
  <2>. QED BY <2>1, <2>2 DEF HandedInv
<1>5. WrittenInv'
  BY DEF WrittenInv, Payload
<1>6. CommittedIsSettled'
  BY DEF CommittedIsSettled, Published, Settled
<1>. QED BY <1>1, <1>2, <1>3, <1>4, <1>5, <1>6

LEMMA StartInv ==
  ASSUME IInv, NEW c \in Consumers, Start(c)
  PROVE  IInv'
<1>1. TypeOK'
  BY DEF Start, IInv, TypeOK, kafkaVars, clientVars, Phases
<1>2. \A d \in Consumers \ {c} :
        phase'[d] = phase[d] /\ connected'[d] = connected[d]
  BY DEF Start, IInv, TypeOK
<1>3. phase'[c] = "poll" /\ assigned[c] = {}
  BY DEF Start, IInv, TypeOK, GroupInv
<1>. QED BY <1>1, <1>2, <1>3, PhaseInv DEF Start, kafkaVars

LEMMA BatchTimeoutInv ==
  ASSUME IInv, NEW c \in Consumers, BatchTimeout(c)
  PROVE  IInv'
<1>1. TypeOK'
  BY DEF BatchTimeout, IInv, TypeOK, kafkaVars, clientVars, Phases
<1>2. \A d \in Consumers \ {c} :
        phase'[d] = phase[d] /\ connected'[d] = connected[d]
  BY DEF BatchTimeout, IInv, TypeOK
<1>3. phase[c] = "poll" /\ phase'[c] = "write" /\ connected'[c] = connected[c]
  BY DEF BatchTimeout, IInv, TypeOK
<1>. QED BY <1>1, <1>2, <1>3, PhaseInv DEF BatchTimeout, kafkaVars, Reading

LEMMA InterruptInv ==
  ASSUME IInv, NEW c \in Consumers, Interrupt(c)
  PROVE  IInv'
<1>1. TypeOK'
  <2>1. faults' \in [FaultKinds -> Nat]
    BY FaultType DEF Interrupt, IInv, FaultKinds
  <2>. QED BY <2>1 DEF Interrupt, LeaveLoop, IInv, TypeOK, kafkaVars, clientVars, Phases
<1>2. \A d \in Consumers \ {c} :
        phase'[d] = phase[d] /\ connected'[d] = connected[d]
  BY DEF Interrupt, LeaveLoop, IInv, TypeOK
<1>3. /\ phase[c] = "poll" /\ phase'[c] \in {"write", "close"}
      /\ connected'[c] = connected[c]
  BY DEF Interrupt, LeaveLoop, IInv, TypeOK
<1>. QED BY <1>1, <1>2, <1>3, PhaseInv DEF Interrupt, LeaveLoop, kafkaVars, Reading

(* A new generation: every member starts again at the committed offsets.   *)
LEMMA GenerationInv ==
  ASSUME IInv, TypeOK', NEW S \in SUBSET Live, NewGeneration(S),
         UNCHANGED <<log, committed, processVars, transactions, aborted>>
  PROVE  IInv'
<1>. USE DEF IInv, processVars
<1>1. PICK owner \in [Partitions -> S] :
        /\ member' = S
        /\ assigned' = [c \in Consumers |->
                          IF c \in S THEN {p \in Partitions : owner[p] = c}
                                     ELSE assigned[c]]
        /\ position' = [c \in Consumers |->
                          IF c \in S THEN committed ELSE position[c]]
        /\ known' = [c \in Consumers |->
                       IF c \in S THEN committed ELSE known[c]]
  BY DEF NewGeneration
<1>2. \A c \in S : c \in Consumers /\ phase[c] # "down"
  BY DEF Live
<1>3. GroupInv'
  BY <1>1, <1>2 DEF GroupInv
<1>4. \A p \in Partitions : committed[p] \in Nat /\ Len(log[p]) \in Nat
  BY DEF TypeOK
<1>5. \A p \in Partitions : committed[p] <= Len(log[p])
  <2>1. ASSUME NEW p \in Partitions, committed[p] > Len(log[p]) PROVE FALSE
    <3>1. committed[p] \in 1 .. committed[p]
      BY <1>4, <2>1
    <3>2. committed[p] \in 1 .. Len(log[p])
      BY <3>1 DEF CommittedIsSettled, Published
    <3>. QED BY <1>4, <2>1, <3>2
  <2>. QED BY <1>4, <2>1
<1>6. OffsetInv'
  <2>1. ASSUME NEW c \in Consumers, NEW p \in assigned'[c]
        PROVE  position'[c][p] <= Len(log[p])
    BY <1>1, <1>5 DEF OffsetInv
  <2>2. ASSUME NEW c \in S, NEW p \in assigned'[c]
        PROVE  known'[c][p] <= committed[p] /\ committed[p] <= position'[c][p]
    <3>1. known'[c] = committed /\ position'[c] = committed
      BY <1>1, <1>2
    <3>2. p \in Partitions
      BY <1>1, <1>2
    <3>. QED BY <1>4, <3>1, <3>2
  <2>3. log' = log /\ committed' = committed /\ member' = S
    BY <1>1
  <2>. QED BY ONLY <2>1, <2>2, <2>3 DEF OffsetInv
<1>7. BatchInv'
  BY DEF BatchInv, Published, Payload
<1>8. HandedInv'
  <2>1. \A p, i : Settled(p, i)' = Settled(p, i)
    BY DEF Settled
  <2>2. ASSUME NEW c \in Consumers, Reading(c), NEW p \in assigned'[c],
               NEW i \in 1 .. position'[c][p]
        PROVE  Settled(p, i) \/ <<p, i>> \in Range(batch[c])
    <3>1. CASE c \in S
      BY <1>1, <3>1 DEF CommittedIsSettled
    <3>2. CASE c \notin S
      BY <1>1, <2>2, <3>2 DEF HandedInv
    <3>. QED BY <3>1, <3>2
  <2>. QED BY <2>1, <2>2 DEF HandedInv, Reading
<1>9. WrittenInv'
  BY DEF WrittenInv, Payload
<1>10. CommittedIsSettled'
  BY DEF CommittedIsSettled, Published, Settled
<1>. QED BY <1>3, <1>6, <1>7, <1>8, <1>9, <1>10

LEMMA GroupStepInv ==
  ASSUME IInv, Group
  PROVE  IInv'
<1>1. CASE JoinGroup
  <2>1. Live \in SUBSET Live /\ Live \in SUBSET Consumers
    BY DEF Live
  <2>2. NewGeneration(Live)
    BY <1>1 DEF JoinGroup
  <2>3. TypeOK'
    BY <1>1, <2>1, <2>2, GenerationType
    DEF JoinGroup, IInv, TypeOK, processVars
  <2>. QED BY <1>1, <2>1, <2>2, <2>3, GenerationInv DEF JoinGroup
<1>2. ASSUME NEW S \in SUBSET Consumers, Rebalance(S)
      PROVE  IInv'
  <2>1. S \in SUBSET Live /\ NewGeneration(S)
    BY <1>2 DEF Rebalance
  <2>2. faults' \in [FaultKinds -> Nat]
    BY <1>2, FaultType DEF Rebalance, IInv, FaultKinds
  <2>3. TypeOK'
    BY <1>2, <2>1, <2>2, GenerationType
    DEF Rebalance, IInv, TypeOK, processVars
  <2>. QED BY <1>2, <2>1, <2>3, GenerationInv DEF Rebalance
<1>. QED BY <1>1, <1>2 DEF Group

(* A message handed out joins the batch or carries no event, also when the *)
(* turn that got it raises.                                                *)
LEMMA TurnInv ==
  ASSUME IInv, NEW c \in Consumers, NEW p \in Partitions, Turn(c, p)
  PROVE  IInv'
<1>. DEFINE i    == position[c][p] + 1
            read == IF log[p][i] \in Readable THEN Append(batch[c], <<p, i>>)
                                              ELSE batch[c]
<1>1. /\ TypeOK /\ GroupInv /\ OffsetInv /\ BatchInv /\ HandedInv
      /\ WrittenInv /\ CommittedIsSettled
  BY DEF IInv
<1>2. /\ phase[c] = "poll" /\ p \in assigned[c]
      /\ position[c][p] < Len(log[p])
      /\ position' = [position EXCEPT ![c] = [@ EXCEPT ![p] = i]]
      /\ batch' = [batch EXCEPT ![c] = read]
      /\ phase' \in {phase, [phase EXCEPT ![c] = "write"], [phase EXCEPT ![c] = "close"]}
      /\ final' \in {final, [final EXCEPT ![c] = TRUE]}
      /\ UNCHANGED <<unsent, log, committed, member, connected, assigned,
                     known, transactions, aborted, faults>>
  <2>1. read = Read(c, p)
    BY DEF Read, NextMessage
  <2>. HIDE DEF read
  <2>. QED BY <2>1, TurnStep
<1>3. /\ position[c] \in [Partitions -> Nat] /\ position[c][p] \in Nat
      /\ i \in Nat \ {0} /\ i \in 1 .. Len(log[p]) /\ log[p][i] \in Payloads
      /\ batch[c] \in Seq(Locations) /\ <<p, i>> \in Locations
  <2>1. log[p] \in Seq(Payloads) /\ Len(log[p]) \in Nat
    BY <1>1 DEF TypeOK
  <2>2. position[c] \in [Partitions -> Nat] /\ batch[c] \in Seq(Locations)
    BY <1>1 DEF TypeOK
  <2>3. i \in Nat \ {0} /\ i \in 1 .. Len(log[p])
    BY <1>2, <2>1, <2>2
  <2>4. log[p][i] \in Payloads
    BY <2>1, <2>3
  <2>. QED BY <2>2, <2>3, <2>4 DEF Locations
<1>4. Range(read) = IF log[p][i] \in Readable
                    THEN Range(batch[c]) \union {<<p, i>>} ELSE Range(batch[c])
  <2>1. Range(Append(batch[c], <<p, i>>)) = Range(batch[c]) \union {<<p, i>>}
    BY <1>3, AppendKeeps, SMTT(20)
  <2>. QED BY <2>1
<1>5. TypeOK'
  <2>1. /\ phase' \in [Consumers -> Phases]
        /\ batch' \in [Consumers -> Seq(Locations)]
        /\ position' \in [Consumers -> [Partitions -> Nat]]
    BY <1>1, TurnType
  <2>. QED BY <1>1, <1>2, <2>1 DEF TypeOK
<1>. HIDE DEF i, read
<1>6. /\ position'[c] = [position[c] EXCEPT ![p] = i]
      /\ batch'[c] = read
      /\ phase'[c] \in {"poll", "write", "close"}
      /\ \A d \in Consumers \ {c} : /\ position'[d] = position[d]
                                    /\ batch'[d] = batch[d]
                                    /\ phase'[d] = phase[d]
  BY <1>1, <1>2 DEF TypeOK
<1>7. /\ position'[c][p] = i
      /\ \A q \in Partitions \ {p} : position'[c][q] = position[c][q]
  BY <1>3, <1>6
<1>8. GroupInv'
  BY <1>1, <1>2, <1>6 DEF GroupInv
<1>9. OffsetInv'
  <2>1. ASSUME NEW d \in Consumers, NEW q \in assigned[d]
        PROVE  position[d][q] <= position'[d][q] /\ position'[d][q] <= Len(log[q])
    <3>1. /\ q \in Partitions /\ position[d][q] \in Nat /\ Len(log[q]) \in Nat
          /\ position[d][q] <= Len(log[q])
      BY <1>1 DEF TypeOK, OffsetInv
    <3>2. CASE d = c /\ q = p
      BY <1>3, <1>7, <3>1, <3>2 DEF i
    <3>3. CASE d = c /\ q # p
      <4>1. position'[d][q] = position[d][q]
        BY <1>7, <3>1, <3>3
      <4>. QED BY <3>1, <4>1
    <3>4. CASE d # c
      <4>1. position'[d] = position[d]
        BY <1>6, <3>4
      <4>. QED BY <3>1, <4>1
    <3>. QED BY <3>2, <3>3, <3>4
  <2>2. ASSUME NEW d \in member, NEW q \in assigned[d]
        PROVE  known[d][q] <= committed[q] /\ committed[q] <= position'[d][q]
    <3>0. d \in Consumers /\ q \in Partitions
      BY <1>1 DEF TypeOK
    <3>1. /\ position[d][q] \in Nat /\ committed[q] \in Nat
          /\ position'[d][q] \in Nat
      BY <1>1, <1>5, <3>0 DEF TypeOK
    <3>2. /\ known[d][q] <= committed[q] /\ committed[q] <= position[d][q]
          /\ position[d][q] <= position'[d][q]
      BY <1>1, <2>1, <3>0 DEF OffsetInv
    <3>. QED BY <3>1, <3>2
  <2>3. /\ log' = log /\ committed' = committed /\ member' = member
        /\ assigned' = assigned /\ known' = known
    BY <1>2
  <2>. QED BY ONLY <2>1, <2>2, <2>3 DEF OffsetInv
<1>10. BatchInv'
  <2>1. Published(p, i) /\ Payload(<<p, i>>) = log[p][i]
    BY <1>2, <1>3 DEF Published, Payload
  <2>2. \A d \in Consumers : \A loc \in Range(batch'[d]) :
          Published(loc[1], loc[2]) /\ Payload(loc) \in Readable
    BY <1>1, <1>4, <1>6, <2>1 DEF BatchInv
  <2>. QED BY <1>2, <2>2 DEF BatchInv, Published, Payload
<1>11. HandedInv'
  <2>1. \A q, j : Settled(q, j)' = Settled(q, j)
    BY <1>2 DEF Settled
  <2>2. ASSUME NEW d \in Consumers, Reading(d)', NEW q \in assigned[d],
               NEW j \in 1 .. position'[d][q]
        PROVE  Settled(q, j) \/ <<q, j>> \in Range(batch'[d])
    <3>1. Reading(d)
      BY <1>2, <1>6, <2>2 DEF Reading
    <3>2. Range(batch[d]) \subseteq Range(batch'[d])
      BY <1>4, <1>6
    <3>3. CASE j \in 1 .. position[d][q]
      BY <1>1, <3>1, <3>2, <3>3 DEF HandedInv
    <3>4. CASE j \notin 1 .. position[d][q]
      <4>1. d = c /\ q = p
        <5>1. q \in Partitions
          BY <1>1 DEF TypeOK
        <5>. QED BY <1>6, <1>7, <3>4, <5>1
      <4>2. j = i
        BY <1>3, <1>7, <3>4, <4>1 DEF i
      <4>3. log[p][i] \in Readable \/ log[p][i] \in Eventless
        BY <1>3 DEF Payloads
      <4>. QED BY <1>4, <1>6, <4>1, <4>2, <4>3 DEF Settled
    <3>. QED BY <3>3, <3>4
  <2>. QED BY <1>2, <2>1, <2>2 DEF HandedInv
<1>12. WrittenInv'
  <2>1. ASSUME NEW d \in Consumers, phase'[d] = "commit"
        PROVE  d # c /\ phase[d] = "commit" /\ batch'[d] = batch[d]
    BY <1>6, <2>1
  <2>. QED BY <1>1, <1>2, <2>1 DEF WrittenInv, Payload
<1>13. CommittedIsSettled'
  BY <1>1, <1>2 DEF CommittedIsSettled, Published, Settled
<1>. QED BY <1>5, <1>8, <1>9, <1>10, <1>11, <1>12, <1>13 DEF IInv
LEMMA WriteBatchInv ==
  ASSUME IInv, NEW c \in Consumers, WriteBatch(c)
  PROVE  IInv'
<1>1. /\ TypeOK /\ GroupInv /\ OffsetInv /\ BatchInv /\ HandedInv
      /\ WrittenInv /\ CommittedIsSettled
  BY DEF IInv
<1>2. /\ phase[c] = "write" /\ connected[c]
      /\ transactions' = Landed(Range(batch[c]))
      /\ phase' = [phase EXCEPT ![c] = "commit"]
      /\ UNCHANGED <<unsent, log, committed, member, final, batch, connected,
                     assigned, position, known, aborted, faults>>
  BY DEF WriteBatch, kafkaVars, clientVars
<1>3. /\ phase'[c] = "commit"
      /\ \A d \in Consumers \ {c} : phase'[d] = phase[d]
  BY <1>1, <1>2 DEF TypeOK
<1>4. transactions \subseteq transactions'
  BY <1>2 DEF Landed
<1>5. TypeOK'
  <2>1. transactions' \in SUBSET Payloads
    BY <1>1, <1>2, LandedType
  <2>. QED BY <1>1, <1>2, <2>1 DEF TypeOK, Phases
<1>6. GroupInv' /\ OffsetInv'
  BY <1>1, <1>2, <1>3 DEF GroupInv, OffsetInv
<1>7. BatchInv'
  BY <1>1, <1>2 DEF BatchInv, Published, Payload
<1>8. \A p, i : Settled(p, i) => Settled(p, i)'
  BY <1>2, <1>4 DEF Settled
<1>9. HandedInv'
  <2>1. \A d \in Consumers : Reading(d)' => Reading(d)
    BY <1>2, <1>3 DEF Reading
  <2>. QED BY <1>1, <1>2, <1>8, <2>1 DEF HandedInv
<1>10. WrittenInv'
  <2>1. ASSUME NEW loc \in Range(batch[c]) PROVE Payload(loc) \in transactions'
    BY <1>2, <2>1 DEF Landed
  <2>. QED BY <1>1, <1>2, <1>3, <1>4, <2>1 DEF WrittenInv, Payload
<1>11. CommittedIsSettled'
  BY <1>1, <1>2, <1>8 DEF CommittedIsSettled, Published
<1>. QED BY <1>5, <1>6, <1>7, <1>9, <1>10, <1>11 DEF IInv

(* The flush of consumer c ends without a commit, and c either goes on     *)
(* with what it dropped settled, or will not commit any more.              *)
LEMMA FailedFlushInv ==
  ASSUME IInv, NEW c \in Consumers, AfterFlush(c), phase[c] = "write", TypeOK',
         UNCHANGED <<kafkaVars, clientVars>>,
         \A d \in Consumers \ {c} : connected'[d] = connected[d],
         connected'[c] => connected[c],
         transactions \subseteq transactions', aborted \subseteq aborted',
         \/ ~connected'[c]
         \/ phase'[c] = "close"
         \/ Range(batch[c]) \subseteq aborted'
  PROVE  IInv'
<1>1. /\ TypeOK /\ GroupInv /\ OffsetInv /\ BatchInv /\ HandedInv
      /\ WrittenInv /\ CommittedIsSettled
  BY DEF IInv
<1>2. /\ log' = log /\ committed' = committed /\ member' = member
      /\ assigned' = assigned /\ position' = position /\ known' = known
  BY DEF kafkaVars, clientVars
<1>3. /\ phase'[c] \in {"poll", "close"} /\ batch'[c] = <<>>
      /\ \A d \in Consumers \ {c} :
           phase'[d] = phase[d] /\ batch'[d] = batch[d]
  BY <1>1 DEF TypeOK, AfterFlush
<1>4. GroupInv' /\ OffsetInv'
  BY <1>1, <1>2, <1>3 DEF GroupInv, OffsetInv
<1>5. Range(batch'[c]) = {}
  BY <1>3, EmptyRange
<1>6. BatchInv'
  BY <1>1, <1>2, <1>3, <1>5 DEF BatchInv, Published, Payload
<1>7. \A p, i : Settled(p, i) => Settled(p, i)'
  BY <1>2 DEF Settled
<1>8. HandedInv'
  <2>1. ASSUME NEW d \in Consumers, Reading(d)', NEW p \in assigned[d],
               NEW i \in 1 .. position[d][p]
        PROVE  Settled(p, i)' \/ <<p, i>> \in Range(batch'[d])
    <3>1. CASE d = c
      <4>1. Reading(c)
        BY <2>1, <3>1 DEF Reading
      <4>2. Range(batch[c]) \subseteq aborted'
        BY <2>1, <3>1 DEF Reading
      <4>3. Settled(p, i) \/ <<p, i>> \in Range(batch[c])
        BY <1>1, <3>1, <4>1 DEF HandedInv
      <4>. QED BY <1>7, <4>2, <4>3 DEF Settled
    <3>2. CASE d # c
      <4>1. Reading(d) /\ batch'[d] = batch[d]
        BY <1>3, <2>1, <3>2 DEF Reading
      <4>. QED BY <1>1, <1>7, <4>1 DEF HandedInv
    <3>. QED BY <3>1, <3>2
  <2>. QED BY <1>2, <2>1 DEF HandedInv
<1>9. WrittenInv'
  <2>1. ASSUME NEW d \in Consumers, phase'[d] = "commit"
        PROVE  /\ phase[d] = "commit" /\ batch'[d] = batch[d]
               /\ connected'[d] = connected[d]
    BY <1>3, <2>1
  <2>. QED BY <1>1, <1>2, <2>1 DEF WrittenInv, Payload
<1>10. CommittedIsSettled'
  BY <1>1, <1>2, <1>7 DEF CommittedIsSettled, Published
<1>. QED BY <1>4, <1>6, <1>8, <1>9, <1>10 DEF IInv

LEMMA WriteAbortedInv ==
  ASSUME IInv, NEW c \in Consumers, WriteAborted(c)
  PROVE  IInv'
<1>1. TypeOK /\ AfterFlush(c) /\ phase[c] = "write"
  BY DEF IInv, WriteAborted
<1>2. /\ UNCHANGED <<kafkaVars, final, connected, clientVars, transactions>>
      /\ aborted' = IF final[c] THEN aborted ELSE aborted \union Range(batch[c])
  BY DEF WriteAborted
<1>3. faults' \in [FaultKinds -> Nat]
  <2>1. faults' = faults \/ Fault("abort")
    BY DEF WriteAborted
  <2>. QED BY <1>1, <2>1, FaultType DEF TypeOK, FaultKinds
<1>4. TypeOK'
  <2>1. aborted' \in SUBSET Locations
    BY <1>1, <1>2, BatchLocations DEF TypeOK
  <2>2. /\ phase' \in [Consumers -> Phases]
        /\ batch' \in [Consumers -> Seq(Locations)]
    BY <1>1, AfterFlushType
  <2>. QED BY <1>1, <1>2, <1>3, <2>1, <2>2 DEF TypeOK, kafkaVars, clientVars
<1>5. final[c] => phase'[c] = "close"
  BY <1>1 DEF AfterFlush, TypeOK
<1>. QED BY <1>1, <1>2, <1>4, <1>5, FailedFlushInv

LEMMA ConnectionLostInv ==
  ASSUME IInv, NEW c \in Consumers, ConnectionLost(c)
  PROVE  IInv'
<1>1. TypeOK /\ BatchInv /\ AfterFlush(c) /\ phase[c] = "write"
  BY DEF IInv, ConnectionLost
<1>2. /\ UNCHANGED <<kafkaVars, final, clientVars, aborted>>
      /\ transactions' \in {transactions, Landed(Range(batch[c]))}
      /\ connected' = [connected EXCEPT ![c] = FALSE]
  BY DEF ConnectionLost
<1>3. faults' \in [FaultKinds -> Nat]
  <2>1. faults' = faults \/ Fault("disconnect")
    BY DEF ConnectionLost
  <2>. QED BY <1>1, <2>1, FaultType DEF TypeOK, FaultKinds
<1>4. /\ transactions \subseteq transactions'
      /\ transactions' \in SUBSET Payloads
  BY <1>1, <1>2, LandedType DEF Landed, TypeOK
<1>5. TypeOK'
  <2>1. /\ phase' \in [Consumers -> Phases]
        /\ batch' \in [Consumers -> Seq(Locations)]
    BY <1>1, AfterFlushType
  <2>2. connected' \in [Consumers -> BOOLEAN]
    BY <1>1, <1>2 DEF TypeOK
  <2>. QED BY <1>1, <1>2, <1>3, <1>4, <2>1, <2>2
       DEF TypeOK, kafkaVars, clientVars
<1>6. /\ ~connected'[c]
      /\ \A d \in Consumers \ {c} : connected'[d] = connected[d]
  BY <1>1, <1>2 DEF TypeOK
<1>. QED BY <1>1, <1>2, <1>4, <1>5, <1>6, FailedFlushInv
(* What a commit sends is settled, newer than what the group has, and      *)
(* touches no partition of another member.                                 *)
LEMMA CommittingSettled ==
  ASSUME IInv, NEW c \in member, phase[c] = "commit"
  PROVE  /\ \A p \in Partitions :
              /\ committed[p] <= Committing(c)[p]
              /\ \A i \in 1 .. Committing(c)[p] : Published(p, i) /\ Settled(p, i)
         /\ \A d \in member \ {c} : \A p \in assigned[d] :
              Committing(c)[p] = committed[p]
         /\ \A p \in assigned[c] : Committing(c)[p] <= position[c][p]
<1>1. /\ TypeOK /\ GroupInv /\ OffsetInv /\ BatchInv /\ HandedInv
      /\ WrittenInv /\ CommittedIsSettled /\ c \in Consumers
  BY DEF IInv, TypeOK
<1>2. \A p \in Partitions :
        position[c][p] \in Nat /\ committed[p] \in Nat /\ Len(log[p]) \in Nat
  BY <1>1 DEF TypeOK
<1>3. \A p \in Partitions :
        Committing(c)[p] = IF p \in Advanced(c) THEN position[c][p] ELSE committed[p]
  BY DEF Committing
<1>4. Advanced(c) \subseteq assigned[c] /\ assigned[c] \subseteq Partitions
  BY <1>1 DEF Advanced, TypeOK
<1>5. ASSUME NEW p \in assigned[c], NEW i \in 1 .. position[c][p]
      PROVE  Published(p, i) /\ Settled(p, i)
  <2>1. position[c][p] <= Len(log[p])
    BY <1>1 DEF OffsetInv
  <2>2. Published(p, i)
    BY <1>2, <1>4, <2>1 DEF Published
  <2>3. Settled(p, i) \/ <<p, i>> \in Range(batch[c])
    BY <1>1 DEF HandedInv, Reading, WrittenInv
  <2>4. <<p, i>> \in Range(batch[c]) => log[p][i] \in transactions
    BY <1>1 DEF WrittenInv, Payload
  <2>. QED BY <2>2, <2>3, <2>4 DEF Settled
<1>6. ASSUME NEW p \in Partitions
      PROVE  /\ committed[p] <= Committing(c)[p]
             /\ \A i \in 1 .. Committing(c)[p] : Published(p, i) /\ Settled(p, i)
  <2>1. CASE p \in Advanced(c)
    BY <1>1, <1>3, <1>4, <1>5, <2>1 DEF OffsetInv
  <2>2. CASE p \notin Advanced(c)
    <3>1. Committing(c)[p] = committed[p]
      BY <1>3, <2>2
    <3>. QED BY <1>1, <1>2, <3>1 DEF CommittedIsSettled
  <2>. QED BY <2>1, <2>2
<1>7. ASSUME NEW d \in member \ {c}, NEW p \in assigned[d]
      PROVE  Committing(c)[p] = committed[p]
  <2>1. p \in Partitions /\ p \notin assigned[c]
    BY <1>1 DEF GroupInv, TypeOK
  <2>. QED BY <1>3, <1>4, <2>1
<1>8. ASSUME NEW p \in assigned[c] PROVE Committing(c)[p] <= position[c][p]
  BY <1>1, <1>2, <1>3, <1>4 DEF OffsetInv
<1>. QED BY <1>6, <1>7, <1>8

LEMMA CommitOffsetsInv ==
  ASSUME IInv, NEW c \in Consumers, CommitOffsets(c)
  PROVE  IInv'
<1>1. /\ TypeOK /\ GroupInv /\ OffsetInv /\ BatchInv /\ HandedInv
      /\ WrittenInv /\ CommittedIsSettled
  BY DEF IInv
<1>2. /\ phase[c] = "commit" /\ c \in member /\ AfterFlush(c)
      /\ committed' = Committing(c)
      /\ known' = [known EXCEPT ![c] =
                     [p \in Partitions |-> IF p \in Advanced(c)
                                           THEN position[c][p] ELSE @[p]]]
      /\ log' = log /\ member' = member /\ connected' = connected
      /\ assigned' = assigned /\ position' = position
      /\ transactions' = transactions /\ aborted' = aborted
  BY DEF CommitOffsets
<1>3. TypeOK'
  <2>1. /\ phase' \in [Consumers -> Phases]
        /\ batch' \in [Consumers -> Seq(Locations)]
    BY <1>1, <1>2, AfterFlushType
  <2>2. known' \in [Consumers -> [Partitions -> Nat]]
    BY <1>1, CommitType
  <2>3. committed' \in [Partitions -> Nat]
    BY <1>1, <1>2, CommittingType
  <2>. QED BY <1>1, <1>2, <2>1, <2>2, <2>3 DEF CommitOffsets, TypeOK
<1>4. /\ phase'[c] \in {"poll", "close"} /\ batch'[c] = <<>>
      /\ \A d \in Consumers \ {c} :
           phase'[d] = phase[d] /\ batch'[d] = batch[d] /\ known'[d] = known[d]
  BY <1>1, <1>2 DEF TypeOK, AfterFlush
<1>5. Range(batch'[c]) = {}
  BY <1>4, EmptyRange
<1>6. GroupInv'
  BY <1>1, <1>2, <1>4 DEF GroupInv
<1>7. OffsetInv'
  <2>1. ASSUME NEW p \in assigned[c]
        PROVE  known'[c][p] <= committed'[p] /\ committed'[p] <= position[c][p]
    <3>1. p \in Partitions
      BY <1>1 DEF TypeOK
    <3>2. /\ known'[c][p] = IF p \in Advanced(c) THEN position[c][p] ELSE known[c][p]
          /\ committed'[p] = IF p \in Advanced(c) THEN position[c][p] ELSE committed[p]
      BY <1>1, <1>2, <3>1 DEF TypeOK, Committing
    <3>3. /\ position[c][p] \in Nat
          /\ known[c][p] <= committed[p] /\ committed[p] <= position[c][p]
      BY <1>1, <1>2, <3>1 DEF TypeOK, OffsetInv
    <3>. QED BY <3>2, <3>3
  <2>2. ASSUME NEW d \in member \ {c}, NEW p \in assigned[d]
        PROVE  known'[d][p] <= committed'[p] /\ committed'[p] <= position[d][p]
    <3>1. committed'[p] = committed[p]
      BY <1>2, CommittingSettled
    <3>2. known'[d] = known[d]
      BY <1>1, <1>4 DEF TypeOK
    <3>. QED BY <1>1, <3>1, <3>2 DEF OffsetInv
  <2>3. \A d \in Consumers : \A p \in assigned[d] : position[d][p] <= Len(log[p])
    BY <1>1 DEF OffsetInv
  <2>4. /\ log' = log /\ member' = member /\ assigned' = assigned
        /\ position' = position
    BY <1>2
  <2>. QED BY ONLY <2>1, <2>2, <2>3, <2>4 DEF OffsetInv
<1>8. BatchInv'
  BY <1>1, <1>2, <1>4, <1>5 DEF BatchInv, Published, Payload
<1>9. \A p, i : Settled(p, i)' = Settled(p, i)
  BY <1>2 DEF Settled
<1>10. HandedInv'
  <2>1. ASSUME NEW d \in Consumers, Reading(d)', NEW p \in assigned[d],
               NEW i \in 1 .. position[d][p]
        PROVE  Settled(p, i) \/ <<p, i>> \in Range(batch'[d])
    <3>1. CASE d = c
      <4>1. Settled(p, i) \/ <<p, i>> \in Range(batch[c])
        BY <1>1, <1>2, <3>1 DEF HandedInv, Reading, WrittenInv
      <4>2. <<p, i>> \in Range(batch[c]) => log[p][i] \in transactions
        BY <1>1, <1>2 DEF WrittenInv, Payload
      <4>. QED BY <4>1, <4>2 DEF Settled
    <3>2. CASE d # c
      BY <1>1, <1>2, <1>4, <2>1, <3>2 DEF HandedInv, Reading
    <3>. QED BY <3>1, <3>2
  <2>. QED BY <1>2, <1>9, <2>1 DEF HandedInv
<1>11. WrittenInv'
  <2>1. ASSUME NEW d \in Consumers, phase'[d] = "commit"
        PROVE  phase[d] = "commit" /\ batch'[d] = batch[d]
    BY <1>4, <2>1
  <2>. QED BY <1>1, <1>2, <2>1 DEF WrittenInv, Payload
<1>12. CommittedIsSettled'
  BY <1>2, <1>9, CommittingSettled DEF CommittedIsSettled, Published
<1>. QED BY <1>3, <1>6, <1>7, <1>8, <1>10, <1>11, <1>12 DEF IInv

(* Offsets that a step may commit while a process dies or is about to      *)
(* flush once more: newer, settled, and of no partition of another member. *)
MayCommit(c) ==
  \/ committed' = committed
  \/ phase[c] = "commit" /\ c \in member /\ committed' = Committing(c)

LEMMA MayCommitSettled ==
  ASSUME IInv, NEW c \in Consumers, MayCommit(c), log' = log,
         transactions' = transactions, aborted' = aborted
  PROVE  /\ CommittedIsSettled'
         /\ committed' \in [Partitions -> Nat]
         /\ \A p \in Partitions : committed[p] <= committed'[p]
         /\ \A d \in member \ {c} : \A p \in assigned[d] :
              committed'[p] = committed[p]
         /\ c \in member => \A p \in assigned[c] : committed'[p] <= position[c][p]
<1>1. TypeOK /\ CommittedIsSettled /\ OffsetInv
  BY DEF IInv
<1>2. CASE committed' = committed
  <2>1. \A p \in Partitions : committed[p] \in Nat
    BY <1>1 DEF TypeOK
  <2>2. CommittedIsSettled'
    BY <1>1, <1>2 DEF CommittedIsSettled, Published, Settled
  <2>3. committed' \in [Partitions -> Nat]
    BY <1>1, <1>2 DEF TypeOK
  <2>. QED BY <1>1, <1>2, <2>1, <2>2, <2>3 DEF OffsetInv
<1>3. CASE phase[c] = "commit" /\ c \in member /\ committed' = Committing(c)
  <2>1. CommittedIsSettled'
    BY <1>3, CommittingSettled DEF CommittedIsSettled, Published, Settled
  <2>2. committed' \in [Partitions -> Nat]
    BY <1>1, <1>3, CommittingType
  <2>. QED BY <1>3, <2>1, <2>2, CommittingSettled
<1>. QED BY <1>2, <1>3 DEF MayCommit

LEMMA VanishInv ==
  ASSUME IInv, TypeOK', NEW c \in Consumers, Vanish(c), MayCommit(c),
         log' = log, transactions' = transactions, aborted' = aborted
  PROVE  IInv'
<1>1. /\ TypeOK /\ GroupInv /\ OffsetInv /\ BatchInv /\ HandedInv
      /\ WrittenInv /\ CommittedIsSettled
  BY DEF IInv
<1>2. /\ phase'[c] = "down" /\ batch'[c] = <<>> /\ assigned'[c] = {}
      /\ member' = member \ {c}
      /\ \A d \in Consumers \ {c} :
           /\ phase'[d] = phase[d] /\ batch'[d] = batch[d]
           /\ connected'[d] = connected[d] /\ assigned'[d] = assigned[d]
           /\ position'[d] = position[d] /\ known'[d] = known[d]
  BY <1>1 DEF Vanish, TypeOK
<1>3. GroupInv'
  BY <1>1, <1>2 DEF GroupInv, TypeOK
<1>4. OffsetInv'
  <2>1. \A d \in Consumers : \A p \in assigned'[d] :
          position'[d][p] <= Len(log[p])
    BY <1>1, <1>2 DEF OffsetInv
  <2>2. ASSUME NEW d \in member', NEW p \in assigned'[d]
        PROVE  known'[d][p] <= committed'[p] /\ committed'[p] <= position'[d][p]
    <3>1. d \in member \ {c} /\ d \in Consumers /\ p \in assigned[d]
      BY <1>1, <1>2 DEF TypeOK
    <3>2. committed'[p] = committed[p]
      BY <3>1, MayCommitSettled
    <3>. QED BY <1>1, <1>2, <3>1, <3>2 DEF OffsetInv
  <2>. QED BY ONLY <2>1, <2>2, log' = log DEF OffsetInv
<1>5. Range(batch'[c]) = {}
  BY <1>2, EmptyRange
<1>6. BatchInv' /\ WrittenInv'
  BY <1>1, <1>2, <1>5 DEF BatchInv, WrittenInv, Published, Payload
<1>7. HandedInv'
  <2>1. \A p, i : Settled(p, i)' = Settled(p, i)
    BY DEF Settled
  <2>2. \A d \in Consumers : Reading(d)' => d # c /\ Reading(d)
    BY <1>2 DEF Reading
  <2>. QED BY <1>1, <1>2, <2>1, <2>2 DEF HandedInv
<1>8. CommittedIsSettled'
  BY MayCommitSettled
<1>. QED BY <1>3, <1>4, <1>6, <1>7, <1>8 DEF IInv

LEMMA EndInv ==
  ASSUME IInv, NEW c \in Consumers, Close(c) \/ Kill(c)
  PROVE  IInv'
<1>1. /\ Vanish(c)
      /\ UNCHANGED <<unsent, log, committed, transactions, aborted>>
      /\ faults' = faults \/ Fault("stop")
  BY DEF Close, Kill
<1>2. faults' \in [FaultKinds -> Nat]
  BY <1>1, FaultType DEF IInv, TypeOK, FaultKinds
<1>3. TypeOK'
  BY <1>1, <1>2, VanishType DEF IInv, TypeOK
<1>. QED BY <1>1, <1>3, VanishInv DEF MayCommit

LEMMA CommitFailsInv ==
  ASSUME IInv, NEW c \in Consumers, CommitFails(c)
  PROVE  IInv'
<1>1. /\ phase[c] = "commit"
      /\ UNCHANGED <<unsent, log, transactions, aborted>>
      /\ MayCommit(c)
      /\ faults' = faults \/ Fault("commit")
  BY DEF CommitFails, MayCommit
<1>2. TypeOK /\ GroupInv /\ OffsetInv /\ BatchInv /\ HandedInv /\ WrittenInv
  BY DEF IInv
<1>3. /\ faults' \in [FaultKinds -> Nat]
      /\ committed' \in [Partitions -> Nat]
  BY <1>1, <1>2, FaultType, MayCommitSettled DEF TypeOK, FaultKinds
<1>4. CASE final[c]
  <2>1. Vanish(c)
    BY <1>4 DEF CommitFails
  <2>2. TypeOK'
    BY <1>1, <1>2, <1>3, <2>1, VanishType DEF TypeOK
  <2>. QED BY <1>1, <2>1, <2>2, VanishInv
<1>5. CASE ~final[c]
  <2>1. /\ final' = [final EXCEPT ![c] = TRUE]
        /\ phase' = [phase EXCEPT ![c] = "write"]
        /\ batch' = batch /\ connected' = connected /\ member' = member
        /\ assigned' = assigned /\ position' = position /\ known' = known
    BY <1>5 DEF CommitFails, clientVars
  <2>2. TypeOK'
    BY <1>1, <1>2, <1>3, <2>1 DEF TypeOK, Phases
  <2>3. /\ phase'[c] = "write"
        /\ \A d \in Consumers \ {c} : phase'[d] = phase[d]
    BY <1>2, <2>1 DEF TypeOK
  <2>4. GroupInv'
    BY <1>1, <1>2, <2>1, <2>3 DEF GroupInv
  <2>5. OffsetInv'
    <3>1. ASSUME NEW d \in member, NEW p \in assigned[d]
          PROVE  known[d][p] <= committed'[p] /\ committed'[p] <= position[d][p]
      <4>1. /\ d \in Consumers /\ p \in Partitions
        BY <1>2 DEF TypeOK
      <4>2. /\ known[d][p] \in Nat /\ committed[p] \in Nat
            /\ committed'[p] \in Nat /\ position[d][p] \in Nat
        BY <1>2, <1>3, <4>1 DEF TypeOK
      <4>3. /\ known[d][p] <= committed[p] /\ committed[p] <= position[d][p]
        BY <1>2 DEF OffsetInv
      <4>4. committed[p] <= committed'[p] /\ committed'[p] <= position[d][p]
        BY <1>1, <4>1, <4>3, MayCommitSettled
      <4>. QED BY <4>2, <4>3, <4>4
    <3>2. \A d \in Consumers : \A p \in assigned[d] : position[d][p] <= Len(log[p])
      BY <1>2 DEF OffsetInv
    <3>3. log' = log
      BY <1>1
    <3>. QED BY ONLY <2>1, <3>1, <3>2, <3>3 DEF OffsetInv
  <2>6. BatchInv'
    BY <1>1, <1>2, <2>1 DEF BatchInv, Published, Payload
  <2>7. HandedInv'
    <3>1. \A p, i : Settled(p, i)' = Settled(p, i)
      BY <1>1 DEF Settled
    <3>2. \A d \in Consumers : Reading(d)' => Reading(d)
      BY <1>1, <2>1, <2>3 DEF Reading
    <3>. QED BY <1>2, <2>1, <3>1, <3>2 DEF HandedInv
  <2>8. WrittenInv'
    BY <1>1, <1>2, <2>1, <2>3 DEF WrittenInv, Payload
  <2>9. CommittedIsSettled'
    BY <1>1, MayCommitSettled
  <2>. QED BY <2>2, <2>4, <2>5, <2>6, <2>7, <2>8, <2>9 DEF IInv
<1>. QED BY <1>4, <1>5
-------------------------------------------------------------------------------
(* The theorems.                                                           *)

LEMMA InitInv == Init => IInv
<1>. SUFFICES ASSUME Init PROVE IInv
  OBVIOUS
<1>1. TypeOK
  <2>1. <<>> \in Seq(Payloads) /\ <<>> \in Seq(Locations) /\ "down" \in Phases
    BY DEF Phases
  <2>. QED BY <2>1 DEF Init, TypeOK
<1>2. \A c \in Consumers : phase[c] = "down" /\ assigned[c] = {} /\ batch[c] = <<>>
  BY DEF Init
<1>3. \A c \in Consumers : Range(batch[c]) = {}
  BY <1>2, EmptyRange
<1>4. GroupInv /\ OffsetInv
  BY <1>2 DEF Init, GroupInv, OffsetInv
<1>5. BatchInv /\ HandedInv /\ WrittenInv
  BY <1>2, <1>3 DEF BatchInv, HandedInv, WrittenInv, Reading
<1>6. CommittedIsSettled
  BY DEF Init, CommittedIsSettled
<1>. QED BY <1>1, <1>4, <1>5, <1>6 DEF IInv

LEMMA NextInv == IInv /\ [Next]_vars => IInv'
<1>. SUFFICES ASSUME IInv, [Next]_vars PROVE IInv'
  OBVIOUS
<1>1. CASE Producer
  BY <1>1, ProducerInv
<1>2. CASE Group
  BY <1>2, GroupStepInv
<1>3. ASSUME NEW c \in Consumers, Consumer(c)
      PROVE  IInv'
  <2>1. CASE Start(c)
    BY <2>1, StartInv
  <2>2. CASE \E p \in Partitions : Turn(c, p)
    BY <2>2, TurnInv
  <2>3. CASE BatchTimeout(c)
    BY <2>3, BatchTimeoutInv
  <2>4. CASE Interrupt(c)
    BY <2>4, InterruptInv
  <2>5. CASE Write(c)
    BY <2>5, WriteBatchInv, WriteAbortedInv, ConnectionLostInv DEF Write
  <2>6. CASE Commit(c)
    BY <2>6, CommitOffsetsInv, CommitFailsInv DEF Commit
  <2>7. CASE Close(c) \/ Kill(c)
    BY <2>7, EndInv
  <2>. QED BY <1>3, <2>1, <2>2, <2>3, <2>4, <2>5, <2>6, <2>7 DEF Consumer
<1>4. CASE UNCHANGED vars
  <2>1. TypeOK'
    BY <1>4 DEF vars, kafkaVars, processVars, clientVars, IInv, TypeOK
  <2>2. Grows
    BY <1>4, FixedLogGrows DEF vars, kafkaVars, IInv
  <2>. QED BY <1>4, <2>1, <2>2, FrameInv DEF vars, kafkaVars
<1>. QED BY <1>1, <1>2, <1>3, <1>4 DEF Next

(* The invariant holds in every reachable state.                           *)
THEOREM Invariance == Spec => []IInv
BY InitInv, NextInv, PTL DEF Spec

(* Every variable keeps its type: offsets are numbers, a batch is a list   *)
(* of locations, and so on.                                                *)
THEOREM TypeCorrect == Spec => []TypeOK
<1>1. IInv => TypeOK
  BY DEF IInv
<1>. QED BY <1>1, Invariance, PTL

(* No committed offset passes an event that is neither in the table nor    *)
(* dropped with an aborted write (consumer/main.py:55-70).                 *)
THEOREM NothingElseIsLost == Spec => []CommittedIsSettled
<1>1. IInv => CommittedIsSettled
  BY DEF IInv
<1>. QED BY <1>1, Invariance, PTL

LEMMA CommittedStep ==
  ASSUME IInv, [Next]_vars
  PROVE  \A p \in Partitions : committed'[p] >= committed[p]
<1>1. \A p \in Partitions : committed[p] \in Nat
  BY DEF IInv, TypeOK
<1>2. \/ committed' = committed
      \/ \E c \in Consumers : CommitOffsets(c) \/ CommitFails(c)
  BY DEF Next, vars, kafkaVars, Producer, Deliver, DeliverUnacknowledged,
         DeliveryFails, Group, JoinGroup, Rebalance, Consumer, Start, Turn, Poll,
         PollRaises, Receive, BatchTimeout, Interrupt, Write, WriteBatch, WriteAborted,
         ConnectionLost, Commit, Close, Kill
<1>3. ASSUME NEW c \in Consumers, CommitOffsets(c) \/ CommitFails(c)
      PROVE  \A p \in Partitions : committed[p] <= committed'[p]
  <2>1. /\ phase[c] = "commit"
        /\ committed' = committed \/ (c \in member /\ committed' = Committing(c))
    BY <1>3 DEF CommitOffsets, CommitFails
  <2>. QED BY <1>1, <2>1, CommittingSettled
<1>4. IInv'
  BY NextInv
<1>5. \A p \in Partitions : committed'[p] \in Nat
  BY <1>4 DEF IInv, TypeOK
<1>. QED BY <1>1, <1>2, <1>3, <1>5

(* The offsets of the group only move forward, fenced and retried commits  *)
(* included.                                                               *)
THEOREM NoRegress == Spec => CommittedNeverRegresses
<1>1. IInv /\ [Next]_vars
        => [\A p \in Partitions : committed'[p] >= committed[p]]_vars
  BY CommittedStep
<1>. QED BY <1>1, Invariance, PTL DEF Spec, CommittedNeverRegresses

LEMMA NoAbortStep ==
  ASSUME Poison = {}, MaxFaults["abort"] = 0, IInv, aborted = {}, [Next]_vars
  PROVE  aborted' = {}
<1>1. \/ aborted' = aborted
      \/ \E c \in Consumers : WriteAborted(c)
  BY DEF Next, vars, Producer, Deliver, DeliverUnacknowledged,
         DeliveryFails, Group, JoinGroup, Rebalance, Consumer, Start, Turn, Poll,
         PollRaises, Receive, BatchTimeout, Interrupt, Write, WriteBatch,
         ConnectionLost, Commit, CommitOffsets, CommitFails, Close, Kill
<1>2. ASSUME NEW c \in Consumers, WriteAborted(c) PROVE FALSE
  <2>1. Fault("abort")
    BY <1>2 DEF WriteAborted
  <2>2. faults["abort"] \in Nat
    BY DEF IInv, TypeOK, FaultKinds
  <2>. QED BY <2>1, <2>2 DEF Fault
<1>. QED BY <1>1, <1>2

(* The documented guarantee (consumer/main.py:11-13) under its unspoken    *)
(* condition: if the database never aborts a write, and the topic carries  *)
(* no event it refuses, then every event the group has moved past is in    *)
(* the table, whatever crashes, rebalances, disconnections, lost answers   *)
(* and duplicates there are.                                               *)
THEOREM ExactlyOnceWithoutAborts ==
  ASSUME Poison = {}, MaxFaults["abort"] = 0
  PROVE  Spec => []CommittedIsLanded
<1>1. Init => aborted = {}
  BY DEF Init
<1>2. IInv /\ aborted = {} /\ [Next]_vars => (aborted = {})'
  BY NoAbortStep
<1>3. IInv /\ aborted = {} => CommittedIsLanded
  <2>. SUFFICES ASSUME IInv, aborted = {}, NEW p \in Partitions,
                       NEW i \in 1 .. committed[p], log[p][i] \in Good
                PROVE  log[p][i] \in transactions
    BY DEF CommittedIsLanded
  <2>1. Settled(p, i)
    BY DEF IInv, CommittedIsSettled
  <2>. QED BY <2>1, PipelineAssumption DEF Settled, Readable
<1>. QED BY <1>1, <1>2, <1>3, Invariance, PTL DEF Spec
-------------------------------------------------------------------------------
(* The pipeline implements the ledger.                                     *)

LEMMA LedgerInit == Init => LedgerOf!Init
BY DEF Init, LedgerOf!Init

LEMMA PublishStep ==
  ASSUME NEW e \in Payloads, Append2Log(e),
         UNCHANGED <<transactions, aborted, committed>>
  PROVE  LedgerOf!Publish
<1>1. PICK p \in PartitionsOf[e] : log' = [log EXCEPT ![p] = Append(@, e)]
  BY DEF Append2Log
<1>2. p \in Partitions
  BY <1>1, PipelineAssumption
<1>. QED BY <1>1, <1>2 DEF LedgerOf!Publish

LEMMA BatchPublished ==
  ASSUME IInv, NEW c \in Consumers, NEW loc \in Range(batch[c])
  PROVE  \E p \in Partitions : \E i \in LedgerOf!Indices(p) :
           loc = <<p, i>> /\ log[p][i] \in Readable
<1>1. loc \in Locations
  BY BatchLocations DEF IInv
<1>2. PICK p \in Partitions, i \in Nat \ {0} : loc = <<p, i>>
  BY <1>1 DEF Locations
<1>3. i \in 1 .. Len(log[p]) /\ log[p][i] \in Readable
  BY <1>2 DEF IInv, BatchInv, Published, Payload
<1>. QED BY <1>2, <1>3 DEF LedgerOf!Indices

LEMMA LandStep ==
  ASSUME IInv, NEW c \in Consumers,
         transactions' = Landed(Range(batch[c])),
         UNCHANGED <<log, aborted, committed>>
  PROVE  LedgerOf!Land
<1>1. ASSUME NEW e \in transactions' \ transactions
      PROVE  /\ e \notin Eventless
             /\ \E p \in Partitions : \E i \in LedgerOf!Indices(p) : log[p][i] = e
  <2>1. PICK loc \in Range(batch[c]) : e = Payload(loc)
    BY DEF Landed
  <2>2. PICK p \in Partitions : \E i \in LedgerOf!Indices(p) :
          loc = <<p, i>> /\ log[p][i] \in Readable
    BY BatchPublished
  <2>3. PICK i \in LedgerOf!Indices(p) : loc = <<p, i>> /\ log[p][i] \in Readable
    BY <2>2, <1>1 DEF TypeOK
  <2>4. e = log[p][i] /\ e \in Readable
    BY <2>1, <2>3 DEF Payload
  <2>. QED BY <2>4, PipelineAssumption
<1>2. transactions \subseteq transactions'
  BY DEF Landed
<1>. QED BY <1>1, <1>2 DEF LedgerOf!Land

LEMMA AcknowledgeStep ==
  ASSUME IInv, IInv', [Next]_vars,
         UNCHANGED <<log, transactions, aborted>>
  PROVE  LedgerOf!Acknowledge
<1>1. committed' \in [Partitions -> Nat]
  BY DEF IInv, TypeOK
<1>2. \A p \in Partitions : \A i \in 1 .. committed'[p] :
        i \in LedgerOf!Indices(p) /\ LedgerOf!Settled(p, i)
  BY DEF IInv, CommittedIsSettled, Published, Settled, LedgerOf!Indices,
         LedgerOf!Settled
<1>. QED BY <1>1, <1>2, CommittedStep DEF LedgerOf!Acknowledge

LEMMA LedgerStep ==
  ASSUME IInv, [Next]_vars
  PROVE  LedgerOf!Next \/ UNCHANGED <<log, transactions, aborted, committed>>
<1>1. CASE \E e \in Payloads : Deliver(e) \/ DeliverUnacknowledged(e)
  BY <1>1, PublishStep DEF Deliver, DeliverUnacknowledged, LedgerOf!Next
<1>2. ASSUME NEW c \in Consumers, WriteBatch(c) \/ ConnectionLost(c)
      PROVE  LedgerOf!Next \/ UNCHANGED <<log, transactions, aborted, committed>>
  <2>1. /\ UNCHANGED <<log, aborted, committed>>
        /\ transactions' = transactions \/ transactions' = Landed(Range(batch[c]))
    BY <1>2 DEF WriteBatch, ConnectionLost, kafkaVars
  <2>. QED BY <2>1, LandStep DEF LedgerOf!Next
<1>3. ASSUME NEW c \in Consumers, WriteAborted(c)
      PROVE  LedgerOf!Next
  <2>1. /\ UNCHANGED <<log, transactions, committed>>
        /\ aborted \subseteq aborted' /\ aborted' \subseteq aborted \union Range(batch[c])
    BY <1>3 DEF WriteAborted, kafkaVars
  <2>2. \A loc \in aborted' \ aborted :
          \E p \in Partitions : \E i \in LedgerOf!Indices(p) : loc = <<p, i>>
    BY <2>1, BatchPublished
  <2>. QED BY <2>1, <2>2 DEF LedgerOf!GiveUp, LedgerOf!Next
<1>4. ASSUME NEW c \in Consumers, Commit(c)
      PROVE  LedgerOf!Next
  <2>1. UNCHANGED <<log, transactions, aborted>>
    BY <1>4 DEF Commit, CommitOffsets, CommitFails
  <2>. QED BY <2>1, NextInv, AcknowledgeStep DEF LedgerOf!Next
<1>5. \/ UNCHANGED <<log, transactions, aborted, committed>>
      \/ \E e \in Payloads : Deliver(e) \/ DeliverUnacknowledged(e)
      \/ \E c \in Consumers : \/ WriteBatch(c) \/ ConnectionLost(c)
                              \/ WriteAborted(c) \/ Commit(c)
  BY DEF Next, vars, kafkaVars, Producer, DeliveryFails, Group, JoinGroup,
         Rebalance, Consumer, Start, Turn, Poll, PollRaises, Receive,
         BatchTimeout, Interrupt, Write,
         Close, Kill
<1>. QED BY <1>1, <1>2, <1>3, <1>4, <1>5

(* The detailed pipeline, with its groups, batches and faults, implements  *)
(* the ledger: events land, are given up or wait, and the committed mark   *)
(* moves forward over settled messages only (consumer/main.py:3-13).       *)
THEOREM PipelineRefinesLedger == Spec => RefinesLedger
<1>1. IInv /\ [Next]_vars => [LedgerOf!Next]_(LedgerOf!vars)
  BY LedgerStep DEF LedgerOf!vars
<1>. QED BY <1>1, LedgerInit, Invariance, PTL DEF Spec, RefinesLedger, LedgerOf!Spec

-------------------------------------------------------------------------------
(* What the ledger promises by itself, whatever implements it.             *)

(* Every row is of a message of the topic that carries an event.           *)
NoPhantoms ==
  \A e \in transactions :
    e \notin Eventless /\ \E p \in Partitions : \E i \in 1 .. Len(log[p]) : log[p][i] = e

LedgerInv ==
  /\ log \in [Partitions -> Seq(Payloads)]
  /\ committed \in [Partitions -> Nat]
  /\ CommittedIsSettled
  /\ NoPhantoms

LEMMA LedgerInvInit == LedgerOf!Init => LedgerInv
<1>. SUFFICES ASSUME LedgerOf!Init PROVE LedgerInv
  OBVIOUS
<1>1. \A p \in Partitions : committed[p] = 0 /\ 1 .. 0 = {}
  BY DEF LedgerOf!Init
<1>. QED BY <1>1 DEF LedgerOf!Init, LedgerInv, CommittedIsSettled, NoPhantoms

LEMMA LedgerPublishes == LedgerInv /\ LedgerOf!Publish => LedgerInv'
<1>. SUFFICES ASSUME LedgerInv, LedgerOf!Publish PROVE LedgerInv'
  OBVIOUS
<1>1. PICK q \in Partitions, e \in Payloads : log' = [log EXCEPT ![q] = Append(@, e)]
  BY DEF LedgerOf!Publish
<1>2. UNCHANGED <<transactions, aborted, committed>>
  BY DEF LedgerOf!Publish
<1>3. ASSUME NEW p \in Partitions
      PROVE  /\ log'[p] \in Seq(Payloads)
             /\ \A i \in 1 .. Len(log[p]) : i \in 1 .. Len(log'[p]) /\ log'[p][i] = log[p][i]
  <2>1. log[p] \in Seq(Payloads) /\ Len(log[p]) \in Nat
    BY DEF LedgerInv
  <2>2. log'[p] = IF p = q THEN Append(log[p], e) ELSE log[p]
    BY <1>1 DEF LedgerInv
  <2>. QED BY <2>1, <2>2, AppendKeeps
<1>4. log' \in [Partitions -> Seq(Payloads)]
  BY <1>1, <1>3 DEF LedgerInv
<1>5. CommittedIsSettled'
  BY <1>2, <1>3 DEF LedgerInv, CommittedIsSettled, Published, Settled
<1>6. NoPhantoms'
  <2>1. ASSUME NEW d \in transactions
        PROVE  d \notin Eventless
               /\ \E p \in Partitions : \E i \in 1 .. Len(log'[p]) : log'[p][i] = d
    <3>1. d \notin Eventless
      BY DEF LedgerInv, NoPhantoms
    <3>2. PICK p \in Partitions : \E i \in 1 .. Len(log[p]) : log[p][i] = d
      BY DEF LedgerInv, NoPhantoms
    <3>3. PICK i \in 1 .. Len(log[p]) : log[p][i] = d
      BY <3>2
    <3>. QED BY <1>3, <3>1, <3>3
  <2>. QED BY <1>2, <2>1 DEF NoPhantoms
<1>. QED BY <1>2, <1>4, <1>5, <1>6 DEF LedgerInv

LEMMA LedgerMoves ==
  ASSUME LedgerInv, LedgerOf!Land \/ LedgerOf!GiveUp \/ LedgerOf!Acknowledge
  PROVE  LedgerInv'
<1>1. CASE LedgerOf!Land
  BY <1>1 DEF LedgerOf!Land, LedgerOf!Indices, LedgerInv, CommittedIsSettled, NoPhantoms,
              Published, Settled
<1>2. CASE LedgerOf!GiveUp
  BY <1>2 DEF LedgerOf!GiveUp, LedgerInv, CommittedIsSettled, NoPhantoms, Published, Settled
<1>3. CASE LedgerOf!Acknowledge
  BY <1>3 DEF LedgerOf!Acknowledge, LedgerOf!Indices, LedgerOf!Settled, LedgerInv,
              CommittedIsSettled, NoPhantoms, Published, Settled
<1>. QED BY <1>1, <1>2, <1>3

(* The abstract specification is enough for what callers rely on           *)
(* (consumer/main.py:3-13): in whatever implements it, the pipeline among  *)
(* others, offsets pass settled messages only, and every row in the table  *)
(* is of an event that is on the topic.                                    *)
THEOREM LedgerSuffices == RefinesLedger => [](CommittedIsSettled /\ NoPhantoms)
<1>1. LedgerInv /\ [LedgerOf!Next]_(LedgerOf!vars) => LedgerInv'
  <2>1. CASE UNCHANGED LedgerOf!vars
    BY <2>1 DEF LedgerOf!vars, LedgerInv, CommittedIsSettled, NoPhantoms, Published, Settled
  <2>2. CASE LedgerOf!Next
    BY <2>2, LedgerPublishes, LedgerMoves DEF LedgerOf!Next
  <2>. QED BY <2>1, <2>2
<1>2. LedgerInv => CommittedIsSettled /\ NoPhantoms
  BY DEF LedgerInv
<1>. QED BY <1>1, <1>2, LedgerInvInit, PTL DEF RefinesLedger, LedgerOf!Spec
===============================================================================
