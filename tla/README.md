# Verification of real-time-rag

TLA+ specifications of the system under `src/`, the TLC models that check them
on small instances, and TLAPS proofs about them for every instance. Line numbers
refer to the files under `src/`.

## 1. The system

Transactions flow from a synthetic producer through Kafka into Postgres, where
an agent answers questions about them through MCP tools; a harness injects
incidents and grades the answers.

| Component | State it keeps | Operations | Interacts with |
|---|---|---|---|
| **Event producer** `producer/main.py`, `event.py`, `errors.py` | messages queued in the client library | produce, delivery callback, flush at exit | scenario engine (in process), Kafka |
| **Scenario engine** `producer/scenarios.py` | active incidents, time of the last poll; the append-only log `incidents.jsonl` | poll, apply, generate_extra_events | reads the control file |
| **Incident injector** `producer/inject.py` | `control.json` and its temporary file | inject (three kinds), status, clear | shares the control file with the engine and with other injectors, without a lock |
| **Kafka topic and group** (external) | partition logs, committed offsets, group generation | append, assign, commit, evict | `enable.auto.commit=False`, no rebalance callbacks, three partitions |
| **Ingestion consumer** `consumer/main.py` | the batch, its age, the shutdown flag; client position and assignment; one database connection | poll turn, flush, commit, finally clause | Kafka, batch writer |
| **Batch writer** `consumer/db.py`, `embedder.py` | one database transaction | insert transactions, embed failures, insert embeddings | Postgres |
| **Schema** `infra/init.sql` | `transactions`, `embeddings` | primary key, foreign key, unique and HNSW indexes | – |
| **Search** `consumer/search.py` | a connection's transaction nesting and planner settings | search, filtered search | Postgres |
| **MCP tools** `mcp_server/*` | none; a connection per call | get_transactions, query_stats, semantic_search, system_freshness | Postgres, search |
| **Agent** `agent/*` | the message list of a conversation | turn, tool calls, REPL commands | model API, MCP tools |
| **Demo and evaluation harness** `demo/*`, `eval/run_eval.py` | run records, snapshots of ground truth | preflight, clear, inject, wait for visibility, ask | injector, MCP tools, agent |
| **Grading and reports** `eval/grade.py`, `mechanical_checks.py`, `report.py`, `llm_judge.py` | graded records | citation, routing, number and assertion checks, aggregation | Postgres, run records |
| **Experiments** `eval/recall.py`, `isolation_experiment.py` | planner settings and cached plan of a connection; a scratch schema; `RECALL.md`, which both write | exact and approximate top-k, set-up and growth of the scratch table, report | Postgres |

### What is hard, and what makes each component correct

* **Consumer.** The database write and the offset commit are two steps. Around
  them: kills, SIGINT, rebalances the code has no callback for, a second
  consumer (the demo preflight starts one whenever it sees no fresh data), a
  commit that fails or whose answer is lost, a dead connection, a write the
  database aborts. Correct: offsets never pass an event that is not stored,
  never move back, and everything is stored in the end.
* **Batch writer.** Two inserts in one transaction against another consumer doing
  the same. Correct: an embedding for every stored failure, none without its row,
  no second row, first write kept, also when two writers wait for each other.
* **Scenario engine and injector.** Unlocked read-modify-replace of a shared file
  with a shared temporary name; the engine treats an unreadable file as an empty
  one. Correct: the ground-truth log brackets every biased event; a cleared
  incident ends and stays ended.
* **Harness.** Fixed incident durations, gates and two-minute windows against
  each other. Correct: the question is asked while the incident is active and
  visible.
* **Search and experiments.** Nested transaction blocks, settings and cached plans
  of a connection, a scratch table and a report that outlive a killed command, a
  consumer that stores rows meanwhile. Correct: the path reported is the path taken,
  the ground truth of recall is exact, an experiment measures its own rows, and no
  report keeps a section older than the measurement it belongs to.
* **Tools.** Argument validation at its boundaries, canonical and other spellings
  of ids, two statements over two snapshots.
* **Agent.** Each tool use answered in the next message, roles alternate, the
  limit on iterations, a follow-up question that can see the answer before it.
* **Grading.** A citation counts only if it exists; a run passes only if every
  check that applies does.

`PROJECT.json` lists the hazards at their lines, and which property covers each.

## 2. Plan

| # | Module | Models | Abstract specification / theorems | State |
|---|---|---|---|---|
| 1 | `Pipeline`, `MCPipeline` | producer delivery, topic, group, consumers, atomic batch write | refines `Ledger` | done |
| 2 | `Ledger` | what the ingestion path promises | – | done |
| 3 | `PipelineProofs` | – | seven theorems, 3.4 | done |
| 4 | `ScenarioEngine`, `ScenarioProofs` | control-file writers, engine poll, ground-truth log, producer restarts | log pairing; one writer at a time: whole file, due ends, final clears; section 4 | done |
| 5 | `BatchWriter`, `AtomicStore`, `BatchWriterProofs` | rows, open transactions, ON CONFLICT waits, deadlock abort, embeddings | refines `AtomicStore`; pairing; section 5 | done |
| 6 | `IncidentHarness`, `IncidentProofs` | discrete time: gate, buffer, duration, pauses | asked in time, runs independent; section 6 | done |
| 7 | `AgentLoop`, `Transcript`, `AgentProofs` | turns, tool calls, message list, the record read back from it | pairing, bounds, /clear; section 7 | done |
| 8 | `Tools`, `EvalRun` | tool statements over a moving table, capture, grading | section 8 | done |
| 9 | `EvalProofs` | – | citations, totals, reasons, quotations for all constants; section 8.3 | done |
| 10 | `Session`, `RecallStudy` | transaction, savepoint, SET LOCAL and cached plan of a connection; search, recall measurement, isolation experiment, `RECALL.md` | section 9 | done |
| 11 | `RecallProofs` | – | ground truth, path, isolation, sections, the metric for all constants; section 9.3 | done |
| 12 | `DataInduction` | – | least elements, induction over numbers and finite sets, used by 7, 9 and 11; section 11 | done |
| 13 | a second producer | two engines on one log (run_demo.py:284) | which log properties survive | later |

`MCEvaluation` puts the conversation of 7, 8 and 10 side by side, as the parts of `eval/`.

Runs stay below three minutes each: two actors per role, two or three messages, one
fault of each kind that matters to the question. The order was: what loses data
first, then what the demo and the evaluation rest on.

## 3. The ingestion pipeline

### 3.1 Model

`Pipeline.tla` has one action per step of `consumer/main.py` that another process
can see or a fault can separate.

| Code | Model |
|---|---|
| `run()` up to the loop (73-97) | `Start` |
| a turn with a message (101-113, 119-123) | `Poll`; `Receive` is what any turn with a message does |
| a turn that raises (105, 109, 112-113) | `PollRaises` |
| a turn without one, batch old enough (119-123) | `BatchTimeout` |
| `_shutdown` seen (100), the `finally` clause entered | `Interrupt`, `LeaveLoop`, `final` |
| `write_batch` (db.py:64-96) commits / rolls back / loses its connection | `WriteBatch` / `WriteAborted` / `ConnectionLost` |
| `batch = []` (122), or on to the end of `finally` | `AfterFlush` |
| `consumer.commit` (66) returns / raises | `CommitOffsets` / `CommitFails` |
| `consumer.close(); conn.close()` (128-129) | `Close` |
| the process is killed | `Kill` |

`phase[c]` is where process `c` is: `poll` in the loop, `write` and `commit`
inside `_flush_batch`, `close` at the end of `finally`. `batch[c]` is the list of
the code with locations `<<partition, index>>` instead of dictionaries.

Kafka is external, modelled as the code configures it: `assigned`, `position` and
`known` belong to the client library of a process; `member` and `committed` to
the coordinator. Reading after an assignment begins at the committed offset.
`commit()` without arguments sends the position of every held partition past the
committed offset the client knows; it raises when there is nothing to send, when
the client is not a member of the current generation, or when the broker fails.
A broker stores what it is sent and never compares it with what it had: that
offsets do not move back (`CommittedNeverRegresses`, proved; `RefinesLedger` in the
run) is a property of the whole and not of the broker.

Time is a choice: the age of a batch is measured from the last flush (123), so any
non-empty batch may be old enough. A payload is `Good`, `Poison` (the INSERT refuses it:
`infra/smoke_test.py` sends such events to this very topic), `Unreadable` (the loop
skips it: not JSON, falsy, or without a `transaction_id`) or `Raising` (the loop does
not catch what it raises: a JSON number, for which `in` is not defined (109), or a
message without a value (105)). An event that is `Unprintable` may raise once it is in
the batch, when `_format_event` prints every twentieth (112-113). Either exception
leaves the loop; the client's position is past the message by then, so a `finally`
clause that still has a batch to write commits past it, and one that has none commits
nothing.
The history variable `aborted` holds the locations of batches the loop dropped
after a write that was rolled back; it is never read by an action.

`Ledger.tla` is the abstract promise: the log grows, the table grows by events of
the log, locations are given up, and the committed mark moves forward over
messages that are settled.

### 3.2 Runs

| Run | Instance | Shows |
|---|---|---|
| `pipeline_group` | 2 consumers, 2 partitions, 2 events, the second (unprintable) for either partition; a rebalance, a stop, a commit fault | `IInv` is an invariant, and every step refines `Ledger`: what is committed is settled, and the mark only moves forward |
| `pipeline_delivery` | 2 consumers, 1 partition; a good, a skipped and a raising message, one of them twice; an aborted write, a lost connection; fairness | offsets pass settled messages only, and every good event settles |
| `pipeline_dropped_batch` | 1 consumer, a refused event | **violation**: see 3.5 |
| `pipeline_blocked` | 1 consumer, a raising message, no faults; fairness | **violation**: see 3.5 |

`MaxFaults` bounds the faults of each kind, and with the finitely many payloads it
is the only bound; the proofs have none. One fault per kind is enough for the
shapes that matter, since each of them (a retried commit, a fenced
commit, a lost answer followed by the flush in `finally`, a second delivery) needs
one fault or two of different kinds, and an abort or a restart repeats by itself:
a refused event aborts every batch it is in, and restarts are free. `BatchSize` 2 is the least
that has both a full and a partial batch. Deadlock is not checked: when all
messages are read and written the system rests.

### 3.3 Fairness

Weak fairness of the consumer's own steps (its loop turns and its calls return), of
`JoinGroup` (the coordinator completes a rebalance somebody asked for) and of `Start`
(somebody restarts a consumer that ended; nothing in the repository does). Nothing
is assumed of the producer or of faults. `EveryEventSettles` is what one would expect
of that, and it is false (3.5); `EventsSettle`, checked by `pipeline_delivery`, is it
under two premises. `ZombiesEnd`: the connection is opened once (main.py:87), and a
consumer whose connection died keeps reading and dropping its partitions' messages
until it is killed. `DeathsEnd`: from some point on no process dies of an exception the
loop does not catch, that of a message (104-113) or of a commit (66). The premise is
about these two kinds of death only: `SIGINT`, kills, restarts, rebalances, aborted
writes and everything before that point are as free as before.

### 3.4 Proofs

`PipelineProofs.tla`, checked by TLAPS for all values of the constants satisfying
`PipelineAssumption` (at least one partition, a positive batch size, every payload
routed somewhere, the classes of payloads as in 3.1):

* `Invariance`: `IInv` is inductive. `CommittedIsSettled` alone is not: a commit
  sends positions, so one must know that whatever was handed to a process is in its
  batch or settled (`HandedInv`), that in phase `commit` the batch is stored
  (`WrittenInv`), and, for the order of offsets, that two members never hold the
  same partition (`GroupInv`) and that a member's position is not behind
  the committed offset (`OffsetInv`). `BatchInv` ties batch entries to the log.
* `TypeCorrect`, `NothingElseIsLost`, `NoRegress`: from `IInv`.
* `ExactlyOnceWithoutAborts`: the guarantee of main.py:11-13 under the condition it
  leaves unsaid, that no write is aborted and no event is refused.
* `PipelineRefinesLedger`: every step is a step of the ledger or none.
* `LedgerSuffices`: the ledger alone, by an invariant of its own, implies that offsets
  pass settled messages only and that every row is of an event of the topic. So the
  abstract specification says what callers rely on, and the refinement carries it over.

Liveness is only model-checked: it rests on fairness, which the prover does not
handle.

### 3.5 Findings

main.py:11-13 says every event lands in each table exactly once. There are three ways
in which one does not.

*Dropped with an aborted write.* `_flush_batch` returns normally after printing the
error (62-64), `run()` empties the batch (122), and the position has moved on, so the
next successful batch commits past the dropped events. One refused event costs up to
`BATCH_SIZE - 1` good ones. `pipeline_dropped_batch` shows it; `CommittedIsSettled`
and its proof show that this is the only way in which the group moves past one.

*Never reached, behind a message that raises.* The loop catches what decoding raises
and nothing else. A process that reads a JSON number or a message without a value with
an empty batch commits nothing on its way out, and the next one begins at the same
message: `pipeline_blocked`. The same message behind others of a batch is committed
past by the `finally` clause, so whether the partition is blocked depends on where
batches happen to end.

*Never reached, because no commit succeeds.* A commit that fails ends the process, and
the rebalance its restart brings makes the other consumer's commit fail. Two good
messages and batches of one, without any fault or raising message, are enough for TLC
to find this behaviour against `EveryEventSettles` too. It needs an unlucky schedule
each time; nothing in the code (a retry, a rebalance callback, a pause before the
restart) ends it. `DeathsEnd` is the premise that both of these violate.

## 4. Scenario engine and injector

### 4.1 Model

`ScenarioEngine.tla` has the CLI processes of `producer/inject.py` and the engine of
`producer/scenarios.py`. Names and files are kept apart: `control` and `tmp` are the
files that `control.json` and `control.tmp` name, `text[f]` is what file `f` holds,
`fd[w]` the file process `w` has open. `open(..., "w")` creates or truncates, a
write through a descriptor goes to the file and not to the name, `os.replace` moves
the name: POSIX semantics, which is an assumption (on Windows a rename over an
open file fails). What a text tells a reader is whether it parses and which incidents are in
it; a shorter text written over a longer one does not parse.

| Code | Model |
|---|---|
| a CLI command: read, open, write, replace (inject.py:38-51, 58-135) | `StartCommand`, `OpenTmp`, `WriteTmp`, `Replace` |
| a rename that finds no file; a command that is killed | `ReplaceFails`, `KillCommand` |
| `poll()` (scenarios.py:127-179): read; entry by entry; cleared entries | `Poll`, `TrackEntry`, `TrackDone`, `SweepCleared` |
| the end of `poll()`, emitting events | `PollReturns`, phase `loop` |
| producer start, exit | `StartProducer`, `StopProducer` |

`expired` is a set that grows at any time: no property depends on how long an
incident lasts. `standing` is history: what successful commands have injected and not
cleared since.

### 4.2 Runs

| Run | Instance | Shows |
|---|---|---|
| `scenario_concurrent` | 2 injections and a clear, up to 2 at a time, the producer run twice; fairness | the log pairs starts and ends whatever happens to the files, what biases events is on record, the engine follows the file; while no two commands have run at once, every reader finds a whole and right file, incidents end only when due and a cleared one stays cleared |
| `scenario_restart` | 1 injection, 1 clear | **violation**: see 4.4 |

`overlapped` is history: it becomes true when a command starts while another is alive, and
stays so, because a file two commands have written may be wrong for good. The three properties of the
file have it as their premise and all killed commands, restarts and interleavings with the engine
within it; without the premise each of them fails.
Each command runs once, so that its name is the incident's id; two overlapping
commands already reach every interleaving of two writers on the shared temporary
name. The fairness is of the producer's loop and of its being started again
(`make produce`); nothing is assumed of commands, faults, or of incidents expiring.

### 4.3 Proofs

`ScenarioProofs.tla`, for any number of commands, at once or not, and of sessions: `Invariance` of
`IInv`, from which `LogPairs` and `BiasIsLogged`. `EndsMatchStarts` is inductive only with
`MemoryIsLogged`: what the engine holds is exactly what the log has open for this
session. `BiasIsLogged` is the safety half of `EngineFollowsFile`: after each poll the engine
holds exactly the unexpired entries that poll has read, which `PollInv` builds up entry by entry. As long as no two commands have overlapped, `SequentialInvariance` of
`SequentialInv`, from which `WholeFile`, `NoEarlyEnd` and `ClearIsFinal`. It needs that the
process that runs holds the list the file should get (`WriterInv`), that temporary and
control file are different files (`FilesApart`), and that the engine holds nothing that
was not standing at its poll (`EngineReads`). With two commands at a time all three
fail, which is the lock the code lacks: a lost injection, an undone clear or a torn
file are behaviours of the model.

### 4.4 Finding

scenarios.py:5-6 calls the log the source of truth for what was emitted. Active incidents live in
memory (124) and no exit of the producer logs their ends; an incident that is gone
from the file when the producer comes back is never closed (`scenario_restart`). A restart is the only way:
`OpenIsEmittedInOneSession` proves `OpenIsEmitted` for a producer that runs once.

## 5. Batch writer

### 5.1 Model

`BatchWriter.tla` opens up the step `WriteBatch` of `Pipeline`: `write_batch` (db.py:64-96)
row by row, for several consumers at once. Postgres is external and modelled as
READ COMMITTED with `ON CONFLICT DO NOTHING`: a row that is committed or the
transaction's own is skipped, a row in another's open transaction is waited for
(`Holders`), and a cycle of such waits ends by aborting one (`DeadlockDetected`). `rows[e]` is
the writer whose insert made the row, which tells a first write from a second.

`AtomicStore.tla` is the promise of db.py:3-13: a call stores its whole batch with the
embeddings, or nothing. `RefinesAtomicStore` is what entitles `Pipeline` to a single step.

`SomeoneCanMove` is the absence of deadlock without ENABLED and without counting on broken
connections: `CanMove` lists the guards of the steps that are no accident, and `S` ranges over the
sets that contain whomever their members wait for.

### 5.2 Run, fairness and proofs

`writer_overlap`: two writers, a success, a failure and a refused event, batches of up
to two in any order and with repetitions, so that waits, cycles, refused rows and
redelivered rows all occur. `WritesEnd` needs, besides weak fairness of every call's
progress, strong fairness of `InsertTransaction`: a writer that waits is enabled and disabled
as others begin and end, and Postgres grants locks in the order of their requests.

`BatchWriterProofs.tla`, for any number of writers, events and batch sizes:
`Invariance` of `IInv`; `NoOrphanNoMissing`, `EmbeddingsFree`, `FirstWriteStays`, and
`WritesAreAtomic`, the refinement. `Paired` alone is not inductive: open inserts of one row must exclude each
other (`Exclusive`), and what a writer has passed must be in the tables or in its transaction
(`Passed`). `EmbeddingsUncontended` is the fact that makes the second statement safe: it never waits,
so that deadlocks come from the first only.

`NoSilentDeadlock` proves `SomeoneCanMove` for any finite number of writers, where the run has two. A row is held by calls under way
only (`Passed`), a call that waits for nobody has a step, and among the sets of waiting calls that wait only for
their own members the smallest is equal to what it waits for, hence the cycle the deadlock detector looks for. With it, what is left to
`WritesEnd` is fairness alone. `ReplayIsHarmless`: a batch delivered again changes neither table. `AtomicWritesArePaired`: the
abstract store implies `Paired` by itself.

## 6. Demo and evaluation harness

### 6.1 Model

`IncidentHarness.tla` has the sequence of `eval/run_eval.py` and `demo/run_demo.py` for each question:
clear, pause, inject, gate, buffer, ask, clear. Time is a number. A step ends between
`wake` and `limit`; the engine polls at least every `EnginePoll`; `Tick` waits for both. The pipeline's lag is
unbounded, so that rows have no variable: `MayShow` says which gates may pass, by rows of any
incident whose bias overlapped the window, and, for the types in `Ambient`, by rows of no incident: the gate of
`gateway_degradation` is a failure rate (incident_control.py:87-103), which the 4% of the baseline can lift over
the threshold, as run_demo.py:91-99 saw it do. The other gates want a BIN below five dollars (118-125) or the novel signature (136), which
no baseline row has (producer/config.py:59-63). `ClearsFirst` tells the
evaluation from the demo, `Leftover` is an incident a failed harness left behind. Preflight,
the demo's wait for a baseline, `--pause` and the result file are not modelled.

The runs take small durations (`Latency` 1, `PollInterval` 1, `MaxWait` 2, `Buffer` 2, `Pause` 2,
`EnginePoll` 1, `Duration` 9, `Window` 5) for the real ones (5, 90, 75, 2, 0.5, 180, 120 seconds for all but the
latency, which is open); what matters is their order, stated as `LongEnough`, `PollsInPause` and `PollsInBuffer`.
For the real durations `LongEnough` says 90 + 5 + 75 + 3 L < 180: calls to the CLI and the database may take
up to three seconds each.

### 6.2 Runs and proofs

`harness_repeats`: two repeats of a buffered incident question whose gate the baseline can open (`Ambient`), with or
without an incident of the same type that a failed harness has left in force (`Leftover`): what the second
repeat must not inherit is then also what a failure in the middle of a run leaves. `harness_residue`: the second
of two repeats of an unbuffered question (**violation**), whose gate no baseline row opens. One incident type per run is enough to
inherit from itself.

`IncidentProofs.tla`, for any durations, list of questions, leftover and either harness: `Invariance`;
`GateEndsInTime` without a premise, `AskInTime` under `LongEnough`, `BufferHelps` under `LongEnough` and
`PollsInBuffer`, `RunsAreIndependent` and `SnapshotsAreOwn` under `PollsInPause` for a harness that clears first. The inductive invariant keeps the clock within the limits of the step
(`Clock`), adds up the steps since the injection (`Budget`), and says that buffer and pause
span a poll of the engine (`Held`, `Quiet`). `DurationsSuffice` shows that the premises hold of the durations in the
repository, for calls up to three seconds and an engine that polls every one and a half. `AskInTime` is about the question:
the answer may come after the incident is over, and then ground truth is captured
from a stream that has returned to normal.

### 6.3 Finding

The gates look two minutes back for a fixed target, and repeats follow each other in
seconds: the gate of a repeat passes on the rows of the one before it
(incident_control.py:91, 109, 128; run_demo.py:19-22). `BufferedIsActive` shows that the buffer makes up for it; `fraud_burst`
has none. Two things can open a gate before its incident has begun: rows of another incident of the type, and, for
`gateway_degradation`, the failures of the baseline. `GateIsRightForItsOwn` proves that there is no third: a gate is right
when no other incident of the list, the leftover included, is of its type, and its type is not in `Ambient` (`Unmistakable`).
One pass over `golden_questions.json`, which has each type once, is right about fraud and the novel error, `--repeats` is not; nor is a
second run within two minutes, which the model takes for a longer list of questions.

## 7. Agent

### 7.1 Model

`AgentLoop.tla` is `run_turn()` (loop.py:90-143) request by request and tool call by tool call, and the
REPL around it (chat.py). The model behind the API may ask for any number of calls up to a bound or end its turn.
A message is a record of its kind, its turn, the ids it asks for and the results it
answers; the text of a result is the number of the execution it came from, so that a
result given to the wrong call shows. The counter of context tokens counts messages.

`Transcript.tla` is the evaluation's reading of the same list (run_eval.py:151-196).
`MCEvaluation` puts it beside the grading and the study.

### 7.2 Runs and proofs

`evaluation`, its part `chat`: three turns, two requests each, up to two calls per response, `/clear` at any prompt:
a list that a capped turn left is taken up by the next turn, and cleared or not by the one after.
`agent_memory` is the **violation** below.

`AgentProofs.tla`, for any caps and number of turns: `Invariance`, `RequestsArePaired`, `TurnsAreBounded`, `ClearIsComplete`. `Paired` is
about requests; between them `ToolsInv` keeps the results collected so far aligned with the
calls, and `PairInv` allows a message with open calls only at the end.

`TranscriptInvariance` and `RecordsAreFaithful` are about the record the evaluation reads back. It is a fold over the list
(`FlattenSeq`) and a search by id, and says nothing of executions that `/clear` has removed. `OrderInv` says
that the calls in the list are the last ones of those executed or about to be; `IdsInv` that ids increase, so that a text found by id
is of one execution only; `AnswersInv` that each result kept, in a message or not yet, is of the execution it names. The three are
inductive together with `IInv`. What the fold does is in lemmas about flattened lists (`FlattenAppend`, `FlattenElements`) and their
endings (`Suffix`), proved by induction over prefixes.

### 7.3 Finding

loop.py:100-105 promises memory over turns. The final answer is returned and not appended, so
the next question directly follows the earlier one (`agent_memory`).

## 8. Tools and grading

### 8.1 Model

`Tools.tla` has the four MCP tools statement by statement: `query_stats` counts the total and then the
groups, `semantic_search` counts the candidates and then searches, and the stream may commit
rows and the clock may move between the two. `now()` is fixed by the first statement, because
psycopg opens a transaction with it. A row is its event time and its gateway, which stands for the other columns to filter and
group by. A filter is a text, which may be an id. A result is the tool's name, the ids anywhere in its text, which of them
stand there because the agent passed them (`asked`), and the figures. All tools but `system_freshness` repeat what they were passed:
`get_transactions` the ids and the gateway (transactions.py:139, 146, 181), `query_stats` its filters (stats.py:122), `semantic_search` the query and the gateway
(semantic.py:88-90). Arguments that are refused, and a database that is down, give a text without rows that may repeat
the ids passed. `TopGroups` orders by the metric asked for, and without `group_by` there is one row.

`EvalRun.tla` extends it to a golden question from asking to verdict: `Answer` (any answer of `Answers`),
`Capture` (run_eval.py:282-324), `Grade` (grade.py:99-217) some time later and with or without the database. What the
regular expressions find in an answer is kept (ids, numbers per category or a rate, phrases);
how they find it is not. What a pattern captures as a number need not be one (`Garbled`): grading then ends with the exception
(`GradeRaises`). Rates are in ten-thousandths, to which `query_stats` rounds them. A count is within its tolerance by exact arithmetic (`WithinTolerance`; for whole numbers the product with 0.02 decides as the exact one does); two rates that differ by exactly the tolerance are
compared as binary fractions of their decimals, and which of them pass depends on the rounding, so `RateVerdicts` allows either. The judge of the semantic assertion is external.

### 8.2 Run

`evaluation`, its part `questions`: three rows, two gateways, an id no row has, one tool call, and every question. Default, cap
and refusal of windows and limits are each reached (`WindowArgs`, `LimitArgs`); the default window is short enough for a
row to leave it between two statements. One call is enough: citations look at the union of results, routing at
whether one fits, and `QuotesAreAccurate` at one result. The filters are none, a gateway and the id no row has; that id is also in a query and a lookup. Answers are restricted to what the checks of a
question read, with numbers at, within and beyond the tolerances. `CountTolerance` is 50% and `RateTolerance` 5001 ten-thousandths, for 2% and 200, since with three rows the least change of a count
is a half of it: the row that comes late puts the count and the rate of its gateway right at the edge. There is no liveness: a harness that stops has no verdict.

What it shows: the parts of a statistic never add up to less than its total (the converse fails: rows may land between
the statements, although stats.py:4 speaks of a single SELECT); a citation that passes is a row or an id the agent
had itself passed to a tool; with the database there, a late grading never calls a row fabricated (without it every id that stands in no result is
called so, mechanical_checks.py:70-73, whereas the pass flag is the same); a run fails
exactly if it has reasons; an answer that quotes a tool's figures passes although rows have come or gone since, as long as they are within the tolerance.

### 8.3 Proofs

`EvalProofs.tla`, for any finite set of rows and invented ids, any arguments, bounds and answers: `EvalInvariance` of
`EvalInv`, from which `ValidCitations`, `TotalsAreCovered`, `RowsAreNotFabricated`, `FailuresHaveReasons` and `QuotationsPass`. The first needs
`IdsKnown`, that the ids in a result are of rows or were asked for, which every statement of every tool must
keep while rows land, and that `asked` has all that was passed.

`QuotationsPass` is arithmetic over a table that has changed. Two counts differ by no more than the rows that came or went (`CountsDiffer`), which is the tolerance for a count. For a rate,
both the failures and the rows of the gateway have changed: the two shares differ by at most the rows that came or went over those of the ground truth, and each is rounded to the nearest ten-thousandth, so that
the rounded rates differ by less than one more (`RoundedWithin`, `RatesWithin`). Hence the premise of `QuotesAreAccurate`, one ten-thousandth short of the tolerance, under which the
open case of `RateVerdicts` does not arise.

`TotalsAreCovered` proves `PartsCoverTheWhole`: `StatsInv` keeps, from the first statement to the second, that the total is no more than the rows
in the window now, and the parts of a table's rows by group add up to its size, by induction over the finite set of groups.

### 8.4 Gradings that end

mechanical_checks.py:142 says that an extraction that fails leaves a number unchecked. One does not: the pattern `[\d,]+` (87) is satisfied by a comma, and `int("")` raises (91). An answer
that lists the categories, "card, ach and wallet", ends the grading of its whole results file. For percentages, a dot alone does the same (96-101). `Grade` and `GradeRaises` split on
exactly this (`Garbled`), the run reaches both, and the properties of the verdict say nothing of an answer that has none.

## 9. Search and the recall study

### 9.1 Model

`Session.tla` is a psycopg connection as a value. A statement outside a block opens a transaction that stays open; a
`with conn.transaction()` in it is a savepoint, whose release keeps what `SET LOCAL` has set; `commit()` ends both. Postgres plans
a statement under the settings in force, until it has been executed `CustomRuns` times on the connection (10 with the
driver's and the server's defaults: five before psycopg prepares it, five custom plans); from then on it may serve it
from a plan that it caches then and never makes again. `Executions` says which scans an execution may run: switching a scan off is a
price, so the planner is free when both kinds are on or both off.

`RecallStudy.tla` has the three commands that search, statement by statement, one at a time (an operator runs them by hand),
each on a connection of its own, with the consumer adding rows and a kill anywhere.

| Code | Model |
|---|---|
| a command starts and connects (recall.py:849-856, isolation_experiment.py:533, server.py:84-95) | `Start`, `Connection` |
| count of rows (search.py:68-71, recall.py:317-323, isolation_experiment.py:535-537) | `Count` |
| `search()` from the choice of path on (search.py:96-118) | `Search` |
| DROP and CREATE of the scratch schema; batches; novel rows (isolation_experiment.py:137-170, 243-247) | `SetUp`, `InsertBaseline`, `InsertNovel` |
| `_topk("exact")`; `_topk("hnsw")` with the metrics (recall.py:175-235, isolation_experiment.py:173-275) | `ScanExact`, `ScanIndex` |
| report refused: no headline value; production count changed | `NoReport` |
| `open("w")`; the write of the whole text (recall.py:833, isolation_experiment.py:504-513) | `OpenReport`, `WriteReport` |
| an exception, a kill | `Stop`, `Kill` |

A row carries the command that inserted it, so that a row of an earlier experiment shows. Distances are given by `Distance`: they
may tie. An exact scan returns some k nearest rows; the index at most `ef`, any of them, and one at least from a table that
is not empty. `RECALL.md` is a sequence of parts, each with its command.
A recall value is a number of matches out of k (`OutOfK`), also where the table has fewer than k rows (recall.py:224, 235); percentiles, duplication statistics, `novel_recall` and wording are left out.

### 9.2 Runs

`evaluation`, its part `study`: five failures, two queries with ties at either end of the top two, sweeps of one and two values, with and
without the headline value, two baseline batches, three checkpoints, `CustomRuns` 3 and three commands: enough for an experiment after a
killed one, a measurement after an experiment and an experiment after that, and for a cached plan to be made and used. The halves do not interact, and each starts only once.
`FullScoreIsOptimal` compares the metric with its meaning, for all outcomes of both scans: as many distances match as there are rows to return exactly
for an optimal result, ties included; the reported share is 1 exactly then and if the table has k rows. Over fewer, as in a corpus of one row here, a perfect result scores less than 1. `recall_ground_truth` is the **violation** below. There is no liveness: nothing restarts a killed command.

### 9.3 Proofs

`RecallProofs.tla`, for any table, distances, sweeps, checkpoints and number of commands: `StudyInvariance` of `StudyInv`, from which `ForcedScansAreExact`,
`SearchesRunAsReported`, `ExperimentIsIsolated` and `SectionsAreCurrent`; and `FewExecutionsAreExact`, which has no run of its own: the ground truth is exact at every execution
before `CustomRuns`, hence for every query of a connection that is closed before. The invariant needs that no plan is cached before `CustomRuns`, that a
connection has its defaults until its first scan (`SessionInv`), that the scratch table grows batch by batch from nothing (`ScratchInv`), and that what a command finds or keeps of
`RECALL.md` is older than itself (`ReportInv`).

`FullScoresAreOptimal` proves `FullScoreIsOptimal`, for any distances with any ties and any table, with k rows or fewer. The metric compares the two results position by position in
order of distance; being optimal is about sets. Counting connects them: the entry at a position is within `d` exactly if at least that many rows
of the result are within `d` (`WithinCounted`), so that two results agree at every position exactly if they have as many rows within every distance
(`FullRecall`, `NearestByCounts`). The invariant needs that tables are finite, which is why `StudyAssumption` asks for finitely many events, and that
the exact result at hand is of the query at hand (`TablesInv`).

### 9.4 Finding

recall.py:182-184 calls the exact mode the only valid ground truth because Postgres has no choice. It has one: the plan it cached for the same statement
when the driver prepared it (`recall_ground_truth`). The defaults of recall.py run five scans per query, so that the plan is made by an exact one;
`--ef-search` of another length, and the experiment's three scans per checkpoint, make it by an index scan. eval/RECALL.md:159 shows what follows: 7
novel rows among the exact ten nearest at cluster size 25, after 10 of 10 at size 10. `ExactUnlessCached` shows that setting every parameter on
each call mends everything else.

## 10. Differences from comments that no run states

* `get_transactions` lists the id of a row it returns as missing when the id was not
  spelled canonically (transactions.py:135-136, 81-82). Ids are model values here.
* An id that occurs in a tool result only because the agent passed it, as an id, in a query or as a filter, counts as grounded
  (mechanical_checks.py:66-69); `ValidIsRowOrAsked` names the exception.
* search.py:111-112 says that `SET LOCAL` lasts for its own transaction. In the block of 109-116 it lasts until the implicit
  outer one ends, which the count before it has opened. `ReportedPathRan` holds because every search has a connection of its own.
* recall.py:32-34 leaves ties as the explanation of a gap between the two metrics. Without any tie, one missed nearest neighbour shifts
  all positions after it, and distance recall is then below id recall. A tie between the last row within k and the first beyond is not flagged (238-247).
* Rows the consumer stores between the exact scan and the index scan count as misses of the index; id recall divides by k also when the corpus is smaller (recall.py:224).
* `novel_recall` counts ids although the novel rows tie among themselves (isolation_experiment.py:208-219).
* The experiment takes any change of the production count for its own doing (isolation_experiment.py:544-549): with the consumer running it refuses to report.
* A command killed between `open("w")` and the write leaves `RECALL.md` empty, also of the measurement another command had written; `NoStaleSection` says
  that it is never left with a stale part.
* `_db_existing_ids` returns after an exception with the transaction aborted (grade.py:99-121), so that every later run of the same grading
  goes unchecked too. In `Grade` each run is checked or not.

## 11. What is not modelled

The component list in `PROJECT.json` has a reason for each part: the embedding model, the
build of the approximate index, the LLM and its judge are numerical or external; console output,
reports and the contents of random events are wording, and `report.py` and the totals of `grade.py` only format and add up what
`EvalRun` grades. Preflight is out: it starts containers and, when no row is younger than a minute, a producer and a consumer (run_demo.py:266-318). A second consumer is in `Pipeline`
and `BatchWriter`; a second producer, which the same lines can start beside a slow one, is in the plan. Two engines share the control file, which they only read, and the log, to which each
appends the records of its own memory: what is proved of the log holds of the records of each, and not of their mixture.

## 12. What is proved and what is not

Every invariant and action property of the passing runs, and both refinements, are checked on an instance and proved for all constants. Liveness
(`EventsSettle`, `WritesEnd`, `EngineFollowsFile`) rests on fairness and ENABLED, which the prover does not handle: it is model-checked only,
and `SomeoneCanMove`, `BiasIsLogged` and `NothingElseIsLost` prove the part of it that is safety.

Most of the violations have a counterpart, a theorem that says under which condition the refuted sentence holds: `ExactlyOnceWithoutAborts`,
`OpenIsEmittedInOneSession`, `GateIsRightForItsOwn`, `FewExecutionsAreExact`. `EarlierAnswersAreSeen` has none, since a final answer is never kept;
for `EveryEventSettles` it is `EventsSettle`, which is model-checked.

The provers take no induction theorem with a predicate as a parameter. `DataInduction.tla` states induction over sets instead, from the
library's theorem that a well-founded relation has minimal elements: a set that holds 0 and with each number the next holds all; a set of subsets
that holds a finite set whenever it holds all that lack one of its elements holds them all. To prove a fact of all `n` is then to prove that the
set of those it is true of is `Nat`. All folds, sums and sorted positions of the models are reasoned about this way. What stays out of reach
is a function defined by RECURSIVE, and no module here has one.

The assumptions of the proofs are the named ASSUMEs of the modules: types and sizes of constants, disjointness of classes, finiteness of commands,
writers, rows and events. The theorems about time and about sequential commands state their premises (`LongEnough`, `PollsInPause`, `PollsInBuffer`,
`~ overlapped`). The environment is trusted as modelled: POSIX renames, Postgres's locks and snapshots, Kafka's group protocol.
