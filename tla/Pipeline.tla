------------------------------- MODULE Pipeline -------------------------------
(***************************************************************************)
(* The ingestion path of the system: producer, Kafka topic "transactions", *)
(* the consumer processes of group "rag-consumer" (consumer/main.py) and   *)
(* the Postgres table transactions (consumer/db.py).                       *)
(*                                                                         *)
(* A consumer reads messages into a batch, writes the batch in one         *)
(* database transaction and only then commits its Kafka offsets.  The      *)
(* write and the offset commit are two steps; between any two steps of     *)
(* this module a process can be killed, the group can rebalance, another   *)
(* consumer of the group can run, and either of the two calls can fail or  *)
(* succeed without its answer arriving.                                    *)
(*                                                                         *)
(* A message is a payload: its transaction_id and content, always the same *)
(* for the same id.  Payloads fall in four classes, all the consumer can   *)
(* tell apart: Good ones, Poison ones (JSON with a transaction_id that the *)
(* INSERT refuses, e.g. the events of infra/smoke_test.py, which lack most *)
(* columns), Unreadable ones (no JSON, or no transaction_id) and Raising   *)
(* ones, which raise what the loop does not catch (no value at all, or a   *)
(* number, in which a transaction_id cannot even be looked for).           *)
(***************************************************************************)
EXTENDS Naturals, Sequences, Functions

CONSTANTS
  Partitions,     (* partitions of the topic                                *)
  Consumers,      (* slots for consumer processes of the group              *)
  Good,           (* payloads the database accepts                          *)
  Poison,         (* payloads that make write_batch raise                   *)
  Unreadable,     (* payloads the poll loop skips                           *)
  Raising,        (* payloads that end the poll loop                        *)
  Unprintable,    (* events _format_event() cannot print                    *)
  PartitionsOf,   (* partitions a payload may be routed to (its key's hash) *)
  BatchSize,      (* BATCH_SIZE                                             *)
  MaxFaults       (* bound on the environment's faults, per kind            *)

Readable  == Good \union Poison
Eventless == Unreadable \union Raising
Payloads  == Readable \union Eventless

(* duplicate : the producer's client resends a message it had delivered    *)
(* rebalance : a rebalance nobody needed, possibly evicting live members   *)
(* stop      : SIGINT or a kill of a consumer process                      *)
(* abort     : the database aborts a write (deadlock, timeout, model error)*)
(* disconnect: the database connection dies                                *)
(* commit    : the broker refuses an offset commit or its answer is lost   *)
FaultKinds ==
  {"duplicate", "rebalance", "stop", "abort", "disconnect", "commit"}

ASSUME PipelineAssumption ==
  /\ Partitions # {}
  /\ BatchSize \in Nat \ {0}
  /\ PartitionsOf \in [Payloads -> (SUBSET Partitions) \ {{}}]
  /\ MaxFaults \in [FaultKinds -> Nat]
  /\ Readable \intersect Eventless = {} /\ Unreadable \intersect Raising = {}
  /\ Unprintable \subseteq Readable

VARIABLES
  (* Kafka *)
  unsent,         (* payloads the producer has yet to see acknowledged      *)
  log,            (* log[p]: the payloads of partition p, oldest first      *)
  committed,      (* committed[p]: how many messages of p are committed     *)
  member,         (* members of the group's current generation              *)
  (* the consumer processes *)
  phase,          (* where in run() a process is                            *)
  final,          (* the process has left the loop and is in its finally    *)
  batch,          (* the list batch, as locations <<partition, index>>      *)
  connected,      (* its database connection is alive                       *)
  assigned,       (* partitions its Kafka client holds                      *)
  position,       (* messages of a partition handed out by poll()           *)
  known,          (* the committed offset as its Kafka client knows it      *)
  (* Postgres *)
  transactions,   (* payloads with a row in table transactions              *)
  (* history and bounds *)
  aborted,        (* locations of batches dropped after an aborted write    *)
  faults          (* faults so far, per kind                                *)

kafkaVars    == <<unsent, log, committed, member>>
processVars  == <<phase, final, batch, connected>>
clientVars   == <<assigned, position, known>>
vars == <<kafkaVars, processVars, clientVars, transactions, aborted, faults>>

Phases    == {"down", "poll", "write", "commit", "close"}
Locations == Partitions \X (Nat \ {0})

TypeOK ==
  /\ unsent \in SUBSET Payloads
  /\ log \in [Partitions -> Seq(Payloads)]
  /\ committed \in [Partitions -> Nat]
  /\ member \in SUBSET Consumers
  /\ phase \in [Consumers -> Phases]
  /\ final \in [Consumers -> BOOLEAN]
  /\ batch \in [Consumers -> Seq(Locations)]
  /\ connected \in [Consumers -> BOOLEAN]
  /\ assigned \in [Consumers -> SUBSET Partitions]
  /\ position \in [Consumers -> [Partitions -> Nat]]
  /\ known \in [Consumers -> [Partitions -> Nat]]
  /\ transactions \in SUBSET Payloads
  /\ aborted \in SUBSET Locations
  /\ faults \in [FaultKinds -> Nat]

Init ==
  /\ unsent = Payloads
  /\ log = [p \in Partitions |-> <<>>]
  /\ committed = [p \in Partitions |-> 0]     \* auto.offset.reset = earliest
  /\ member = {}
  /\ phase = [c \in Consumers |-> "down"]
  /\ final = [c \in Consumers |-> FALSE]
  /\ batch = [c \in Consumers |-> <<>>]
  /\ connected = [c \in Consumers |-> FALSE]
  /\ assigned = [c \in Consumers |-> {}]
  /\ position = [c \in Consumers |-> [p \in Partitions |-> 0]]
  /\ known = [c \in Consumers |-> [p \in Partitions |-> 0]]
  /\ transactions = {}
  /\ aborted = {}
  /\ faults = [k \in FaultKinds |-> 0]

Fault(kind) ==
  /\ faults[kind] < MaxFaults[kind]
  /\ faults' = [faults EXCEPT ![kind] = @ + 1]

Payload(loc)  == log[loc[1]][loc[2]]
Live          == {c \in Consumers : phase[c] # "down"}
Landed(locs)  == transactions \union {Payload(loc) : loc \in locs}

-------------------------------------------------------------------------------
(* Producer.  produce() only queues; the client library sends, retries and *)
(* finally gives up, which the delivery callback merely prints.            *)

Append2Log(e) ==
  \E p \in PartitionsOf[e] : log' = [log EXCEPT ![p] = Append(@, e)]

Deliver(e) ==
  /\ e \in unsent
  /\ unsent' = unsent \ {e}
  /\ Append2Log(e)
  /\ UNCHANGED <<committed, member, processVars, clientVars, transactions,
                 aborted, faults>>

(* The broker appended the message but its answer was lost: the client,    *)
(* which is not configured to be idempotent, will send it again.           *)
DeliverUnacknowledged(e) ==
  /\ e \in unsent
  /\ Append2Log(e)
  /\ Fault("duplicate")
  /\ UNCHANGED <<unsent, committed, member, processVars, clientVars,
                 transactions, aborted>>

DeliveryFails(e) ==
  /\ e \in unsent
  /\ unsent' = unsent \ {e}
  /\ UNCHANGED <<log, committed, member, processVars, clientVars,
                 transactions, aborted, faults>>

-------------------------------------------------------------------------------
(* Group coordinator and the clients' automatic assignment: run() installs *)
(* no rebalance callbacks, so an assignment changes behind its back while  *)
(* the batch stays as it is.                                               *)

(* Mutant of NewGeneration: a client that resumes where it was.            *)
GenerationKeepsPosition(S) ==
  \E owner \in [Partitions -> S] :
    /\ member' = S
    /\ assigned' = [c \in Consumers |->
                      IF c \in S THEN {p \in Partitions : owner[p] = c}
                                 ELSE assigned[c]]
    /\ known' = [c \in Consumers |-> IF c \in S THEN committed ELSE known[c]]
    /\ UNCHANGED position

(* S are the members of the next generation; a live consumer outside it is *)
(* evicted and does not know yet.                                          *)
NewGeneration(S) ==
  \E owner \in [Partitions -> S] :
    /\ member' = S
    /\ assigned' = [c \in Consumers |->
                      IF c \in S THEN {p \in Partitions : owner[p] = c}
                                 ELSE assigned[c]]
    /\ position' = [c \in Consumers |->
                      IF c \in S THEN committed ELSE position[c]]
    /\ known' = [c \in Consumers |-> IF c \in S THEN committed ELSE known[c]]

(* Someone wants to join, or a member left and its partitions are orphans. *)
JoinGroup ==
  /\ Live # {}
  /\ \/ member # Live
     \/ \E p \in Partitions : \A c \in member : p \notin assigned[c]
  /\ NewGeneration(Live)
  /\ UNCHANGED <<unsent, log, committed, processVars, transactions, aborted,
                 faults>>

(* A rebalance of any other cause: a missed heartbeat, a stalled process.  *)
Rebalance(S) ==
  /\ S \subseteq Live /\ S # {}
  /\ Fault("rebalance")
  /\ NewGeneration(S)
  /\ UNCHANGED <<unsent, log, committed, processVars, transactions, aborted>>

-------------------------------------------------------------------------------
(* A consumer process.                                                     *)

Start(c) ==
  /\ phase[c] = "down"
  /\ phase' = [phase EXCEPT ![c] = "poll"]
  /\ final' = [final EXCEPT ![c] = FALSE]
  /\ connected' = [connected EXCEPT ![c] = TRUE]
  /\ UNCHANGED <<kafkaVars, batch, clientVars, transactions, aborted, faults>>

(* poll() hands out the next message of p; an event joins the batch.       *)
NextMessage(c, p) == log[p][position[c][p] + 1]
Read(c, p) ==
  IF NextMessage(c, p) \in Readable
  THEN Append(batch[c], <<p, position[c][p] + 1>>) ELSE batch[c]

Receive(c, p) ==
  /\ phase[c] = "poll"
  /\ p \in assigned[c]
  /\ position[c][p] < Len(log[p])
  /\ position' = [position EXCEPT ![c][p] = @ + 1]
  /\ batch' = [batch EXCEPT ![c] = Read(c, p)]
  /\ UNCHANGED <<kafkaVars, connected, assigned, known, transactions, aborted,
                 faults>>

(* One turn of the loop that gets a message.  The check at its end starts  *)
(* a flush when the batch is full, or not empty and old enough: the age is *)
(* measured from the last flush, so any non-empty batch may be.            *)
Poll(c, p) ==
  /\ Receive(c, p)
  /\ NextMessage(c, p) \notin Raising
  /\ \/ Len(Read(c, p)) < BatchSize /\ phase' = phase
     \/ Read(c, p) # <<>> /\ phase' = [phase EXCEPT ![c] = "write"]
  /\ UNCHANGED final

(* The loop is left for the finally clause, which flushes what is left.    *)
LeaveLoop(c, left) ==
  /\ final' = [final EXCEPT ![c] = TRUE]
  /\ phase' = [phase EXCEPT ![c] = IF left = <<>> THEN "close" ELSE "write"]

(* A turn that raises, at a message without an event or at the line every  *)
(* twentieth event is printed with: the client has moved past the message, *)
(* and commits it with whatever the finally clause still writes.           *)
PollRaises(c, p) ==
  /\ Receive(c, p)
  /\ NextMessage(c, p) \in Raising \union Unprintable
  /\ LeaveLoop(c, Read(c, p))

(* Mutants of BatchTimeout: only a full batch is flushed; the offsets are  *)
(* committed before the write.                                             *)
TimeoutIgnored(c) ==
  /\ phase[c] = "poll"
  /\ Len(batch[c]) >= BatchSize
  /\ phase' = [phase EXCEPT ![c] = "write"]
  /\ UNCHANGED <<kafkaVars, final, batch, connected, clientVars, transactions,
                 aborted, faults>>

TimeoutCommitsFirst(c) ==
  /\ phase[c] = "poll"
  /\ batch[c] # <<>>
  /\ phase' = [phase EXCEPT ![c] = "commit"]
  /\ UNCHANGED <<kafkaVars, final, batch, connected, clientVars, transactions,
                 aborted, faults>>

(* A turn that gets none, with a batch past BATCH_TIMEOUT_SEC.             *)
BatchTimeout(c) ==
  /\ phase[c] = "poll"
  /\ batch[c] # <<>>
  /\ phase' = [phase EXCEPT ![c] = "write"]
  /\ UNCHANGED <<kafkaVars, final, batch, connected, clientVars, transactions,
                 aborted, faults>>

(* SIGINT sets _shutdown; the loop sees it at its head.                    *)
Interrupt(c) ==
  /\ phase[c] = "poll"
  /\ Fault("stop")
  /\ LeaveLoop(c, batch[c])
  /\ UNCHANGED <<kafkaVars, batch, connected, clientVars, transactions,
                 aborted>>

(* write_batch commits: every row of the batch is in, old or new.          *)
WriteBatch(c) ==
  /\ phase[c] = "write"
  /\ connected[c]
  /\ \A loc \in Range(batch[c]) : Payload(loc) \notin Poison
  /\ transactions' = Landed(Range(batch[c]))
  /\ phase' = [phase EXCEPT ![c] = "commit"]
  /\ UNCHANGED <<kafkaVars, final, batch, connected, clientVars, aborted,
                 faults>>

(* What follows a call of _flush_batch: the loop goes on with an empty     *)
(* batch, whether or not it was written; the finally clause closes.        *)
AfterFlush(c) ==
  /\ batch' = [batch EXCEPT ![c] = <<>>]
  /\ phase' = [phase EXCEPT ![c] = IF final[c] THEN "close" ELSE "poll"]

(* write_batch raises and its transaction is rolled back: _flush_batch     *)
(* prints the error and returns, and the loop drops the batch.             *)
WriteAborted(c) ==
  /\ phase[c] = "write"
  /\ connected[c]
  /\ IF \E loc \in Range(batch[c]) : Payload(loc) \in Poison
     THEN UNCHANGED faults
     ELSE Fault("abort")
  /\ aborted' = IF final[c] THEN aborted
                            ELSE aborted \union Range(batch[c])
  /\ AfterFlush(c)
  /\ UNCHANGED <<kafkaVars, final, connected, clientVars, transactions>>

(* Mutant of ConnectionLost: the error is printed and the commit follows.  *)
LostButCommits(c) ==
  /\ phase[c] = "write"
  /\ IF connected[c] THEN Fault("disconnect") ELSE UNCHANGED faults
  /\ connected' = [connected EXCEPT ![c] = FALSE]
  /\ phase' = [phase EXCEPT ![c] = "commit"]
  /\ UNCHANGED <<kafkaVars, final, batch, clientVars, transactions, aborted>>

(* write_batch raises because the connection is dead or dies in the call,  *)
(* before or after the server's COMMIT.  It is never opened again.         *)
ConnectionLost(c) ==
  /\ phase[c] = "write"
  /\ IF connected[c] THEN Fault("disconnect") ELSE UNCHANGED faults
  /\ \/ UNCHANGED transactions
     \/ /\ connected[c]
        /\ \A loc \in Range(batch[c]) : Payload(loc) \notin Poison
        /\ transactions' = Landed(Range(batch[c]))
  /\ connected' = [connected EXCEPT ![c] = FALSE]
  /\ AfterFlush(c)
  /\ UNCHANGED <<kafkaVars, final, clientVars, aborted>>

(* consumer.commit() sends the position of every partition the client      *)
(* holds, where it is past the committed offset the client knows of.       *)
Advanced(c) == {p \in assigned[c] : position[c][p] > known[c][p]}
Committing(c) ==
  [p \in Partitions |-> IF p \in Advanced(c) THEN position[c][p]
                                             ELSE committed[p]]

CommitOffsets(c) ==
  /\ phase[c] = "commit"
  /\ c \in member
  /\ Advanced(c) # {}
  /\ committed' = Committing(c)
  /\ known' = [known EXCEPT ![c] =
                 [p \in Partitions |-> IF p \in Advanced(c) THEN position[c][p]
                                                            ELSE @[p]]]
  /\ AfterFlush(c)
  /\ UNCHANGED <<unsent, log, member, final, connected, assigned, position,
                 transactions, aborted, faults>>

(* The process is gone: its batch and its client with it.                  *)
Vanish(c) ==
  /\ phase' = [phase EXCEPT ![c] = "down"]
  /\ final' = [final EXCEPT ![c] = FALSE]
  /\ batch' = [batch EXCEPT ![c] = <<>>]
  /\ connected' = [connected EXCEPT ![c] = FALSE]
  /\ member' = member \ {c}
  /\ assigned' = [assigned EXCEPT ![c] = {}]
  /\ position' = [position EXCEPT ![c] = [p \in Partitions |-> 0]]
  /\ known' = [known EXCEPT ![c] = [p \in Partitions |-> 0]]

(* consumer.commit() raises: the client has nothing to commit, it is not   *)
(* of the current generation, or the broker fails it, perhaps after having *)
(* stored the offsets.  _flush_batch does not catch this: the exception    *)
(* leaves the loop, the finally clause flushes the same batch once more,   *)
(* and if that raises too the process ends without closing anything.       *)
CommitFails(c) ==
  /\ phase[c] = "commit"
  /\ \/ /\ c \notin member \/ Advanced(c) = {}
        /\ UNCHANGED <<committed, faults>>
     \/ /\ c \in member /\ Advanced(c) # {}
        /\ Fault("commit")
        /\ committed' \in {committed, Committing(c)}
  /\ IF final[c]
     THEN Vanish(c)
     ELSE /\ final' = [final EXCEPT ![c] = TRUE]
          /\ phase' = [phase EXCEPT ![c] = "write"]
          /\ UNCHANGED <<batch, connected, member, clientVars>>
  /\ UNCHANGED <<unsent, log, transactions, aborted>>

(* consumer.close() leaves the group, conn.close(), end of the process.    *)
Close(c) ==
  /\ phase[c] = "close"
  /\ Vanish(c)
  /\ UNCHANGED <<unsent, log, committed, transactions, aborted, faults>>

Kill(c) ==
  /\ phase[c] # "down"
  /\ Fault("stop")
  /\ Vanish(c)
  /\ UNCHANGED <<unsent, log, committed, transactions, aborted>>

-------------------------------------------------------------------------------
Producer ==
  \E e \in Payloads : Deliver(e) \/ DeliverUnacknowledged(e) \/ DeliveryFails(e)

Group ==
  \/ JoinGroup
  \/ \E S \in SUBSET Consumers : Rebalance(S)

Write(c)  == WriteBatch(c) \/ WriteAborted(c) \/ ConnectionLost(c)
Commit(c) == CommitOffsets(c) \/ CommitFails(c)
Turn(c, p) == Poll(c, p) \/ PollRaises(c, p)

Consumer(c) ==
  \/ Start(c)
  \/ \E p \in Partitions : Turn(c, p)
  \/ BatchTimeout(c)
  \/ Interrupt(c)
  \/ Write(c)
  \/ Commit(c)
  \/ Close(c)
  \/ Kill(c)

Next == Producer \/ Group \/ \E c \in Consumers : Consumer(c)

Spec == Init /\ [][Next]_vars

(* The loop of a running process turns, its calls return, the coordinator  *)
(* completes the rebalances it has begun, and whoever runs the system      *)
(* starts a consumer that has ended.  Nothing is assumed of the producer.  *)
Fairness ==
  /\ WF_vars(JoinGroup)
  /\ \A c \in Consumers :
       /\ WF_vars(Start(c))
       /\ WF_vars(\E p \in Partitions : Turn(c, p))
       /\ WF_vars(BatchTimeout(c))
       /\ WF_vars(Write(c))
       /\ WF_vars(Commit(c))
       /\ WF_vars(Close(c))

FairSpec == Spec /\ Fairness

-------------------------------------------------------------------------------
(* Properties.                                                             *)

Published(p, i) == i \in 1 .. Len(log[p])

(* A location is settled when its message needs no redelivery any more: it *)
(* carries no event, its row is in the table, or it was in a batch the     *)
(* consumer dropped after an aborted write.                                *)
Settled(p, i) ==
  \/ log[p][i] \in Eventless
  \/ log[p][i] \in transactions
  \/ <<p, i>> \in aborted

(* The guarantee of the two-step flush (consumer/main.py:55-70): whatever  *)
(* is killed, rebalanced, fenced, retried or cut off, the group's offsets  *)
(* never pass an event that is not in the table, other than through an     *)
(* aborted write of a consumer whose connection survived it.  Offsets      *)
(* dropped with a dead connection or in the finally clause stay behind.    *)
CommittedIsSettled ==
  \A p \in Partitions : \A i \in 1 .. committed[p] :
    Published(p, i) /\ Settled(p, i)

(* What consumer/main.py:11-13 and README.md:172-175 promise: an event the *)
(* group has moved past is in the table.                                   *)
CommittedIsLanded ==
  \A p \in Partitions : \A i \in 1 .. committed[p] :
    log[p][i] \in Good => log[p][i] \in transactions

(* The group never moves back: no commit of a fenced, restarted or retried *)
(* consumer (consumer/main.py:66) overwrites a newer offset by an older.   *)
CommittedNeverRegresses ==
  [][\A p \in Partitions : committed'[p] >= committed[p]]_vars

(* Redelivery works (consumer/main.py:11-13): every good event that        *)
(* reaches the topic lands in the table or is dropped with an aborted      *)
(* batch, whoever dies holding it, ...                                     *)
EveryEventSettles ==
  \A e \in Good :
    (\E p \in Partitions : e \in Range(log[p])) ~>
      \/ e \in transactions
      \/ \E loc \in aborted : Payload(loc) = e

(* ... unless a consumer goes on for ever with a dead connection (87), or  *)
(* processes die for ever, each restarted, of exceptions the loop does not *)
(* catch: a message that raises (104-113), a commit that does (66).        *)
Zombie(c) == phase[c] # "down" /\ ~connected[c]
Dies      == \E c \in Consumers : CommitFails(c) \/ \E p \in Partitions : PollRaises(c, p)
ZombiesEnd == <>[] \A c \in Consumers : ~Zombie(c)
DeathsEnd  == <>[][~Dies]_vars
EventsSettle == ZombiesEnd /\ DeathsEnd => EveryEventSettles

(* Every step of the consumers, the group and their faults is a step of    *)
(* the ledger, or none: see Ledger.tla.                                    *)
LedgerOf == INSTANCE Ledger
RefinesLedger == LedgerOf!Spec

(* The inductive invariant behind CommittedIsSettled.                      *)

Reading(c) == phase[c] \in {"poll", "write", "commit"} /\ connected[c]

GroupInv ==
  /\ \A c \in Consumers : phase[c] = "down" => c \notin member /\ assigned[c] = {}
  /\ \A c, d \in member : c # d => assigned[c] \intersect assigned[d] = {}

OffsetInv ==
  /\ \A c \in Consumers : \A p \in assigned[c] : position[c][p] <= Len(log[p])
  /\ \A c \in member : \A p \in assigned[c] :
       known[c][p] <= committed[p] /\ committed[p] <= position[c][p]

BatchInv ==
  \A c \in Consumers : \A loc \in Range(batch[c]) :
    Published(loc[1], loc[2]) /\ Payload(loc) \in Readable

(* Whatever a reading consumer has been handed it still holds in its batch *)
(* or is settled.                                                          *)
HandedInv ==
  \A c \in Consumers : Reading(c) =>
    \A p \in assigned[c] : \A i \in 1 .. position[c][p] :
      Settled(p, i) \/ <<p, i>> \in Range(batch[c])

WrittenInv ==
  \A c \in Consumers : phase[c] = "commit" =>
    /\ connected[c]
    /\ \A loc \in Range(batch[c]) : Payload(loc) \in transactions

IInv ==
  /\ TypeOK
  /\ GroupInv
  /\ OffsetInv
  /\ BatchInv
  /\ HandedInv
  /\ WrittenInv
  /\ CommittedIsSettled
===============================================================================
