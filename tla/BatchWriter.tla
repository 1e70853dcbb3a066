----------------------------- MODULE BatchWriter -----------------------------
(***************************************************************************)
(* write_batch() of consumer/db.py, row by row: several consumers, each in *)
(* a READ COMMITTED transaction of its own, insert overlapping batches     *)
(* into transactions and then their failures into embeddings.  Pipeline    *)
(* takes a batch as written in one step; this module is about what lies    *)
(* within it.                                                              *)
(*                                                                         *)
(* The locking is Postgres's: INSERT ... ON CONFLICT DO NOTHING skips a    *)
(* row that is committed or the transaction's own, and waits for an open   *)
(* transaction that has inserted the row.                                  *)
(***************************************************************************)
EXTENDS Naturals, Sequences, FiniteSets

CONSTANTS Writers,      \* consumer processes
          Events,       \* transaction ids
          Failures,     \* events with an error_text, which get an embedding
          Refused,      \* events the INSERT refuses
          BatchSize,    \* bound of a batch
          None

ASSUME WriterAssumption ==
  /\ Failures \subseteq Events
  /\ Refused \subseteq Events
  /\ None \notin Writers
  /\ IsFiniteSet(Writers)
  /\ BatchSize \in Nat \ {0}

VARIABLES
  rows,           \* transactions: the writer whose INSERT made each row, or None
  embedded,       \* embeddings: the events that have one
  phase,          \* where each write_batch() call is; "idle" outside one
  batch,          \* its argument
  next,           \* the row its executemany() is at
  newRows,        \* rows inserted by its open transaction
  newEmbeddings,
  outcome         \* how the last call ended: "stored", "failed" or "none"

vars == <<rows, embedded, phase, batch, next, newRows, newEmbeddings, outcome>>

Phases == {"idle", "transactions", "embeddings", "commit"}
Stored == {e \in Events : rows[e] # None}
Contents(s) == {s[i] : i \in 1 .. Len(s)}

Init ==
  /\ rows = [e \in Events |-> None]
  /\ embedded = {}
  /\ phase = [w \in Writers |-> "idle"]
  /\ batch = [w \in Writers |-> <<>>]
  /\ next = [w \in Writers |-> 1]
  /\ newRows = [w \in Writers |-> {}]
  /\ newEmbeddings = [w \in Writers |-> {}]
  /\ outcome = [w \in Writers |-> "none"]

-----------------------------------------------------------------------------
(* _flush_batch() calls with a batch that is not empty (main.py:57).        *)
Begin(w, b) ==
  /\ phase[w] = "idle"
  /\ phase' = [phase EXCEPT ![w] = "transactions"]
  /\ batch' = [batch EXCEPT ![w] = b]
  /\ next' = [next EXCEPT ![w] = 1]
  /\ outcome' = [outcome EXCEPT ![w] = "none"]
  /\ UNCHANGED <<rows, embedded, newRows, newEmbeddings>>

Current(w) == batch[w][next[w]]
Inserting(w, table) == phase[w] = table /\ next[w] \leq Len(batch[w])

(* Writers whose open transactions have inserted the row w is at.           *)
Holders(w) ==
  {v \in Writers \ {w} :
     \/ Inserting(w, "transactions") /\ Current(w) \in newRows[v]
     \/ /\ Inserting(w, "embeddings")
        /\ Current(w) \in Failures \cap newEmbeddings[v]}

(* Mutants of InsertTransaction: the row is looked up and then inserted     *)
(* without a unique index to wait on; a row in an open transaction is taken *)
(* for present.                                                             *)
InsertUnchecked(w) ==
  /\ Inserting(w, "transactions")
  /\ Current(w) \notin Refused
  /\ newRows' = [newRows EXCEPT ![w] = @ \cup ({Current(w)} \ Stored)]
  /\ next' = [next EXCEPT ![w] = @ + 1]
  /\ UNCHANGED <<rows, embedded, phase, batch, newEmbeddings, outcome>>
InsertSkipsOpen(w) ==
  /\ Inserting(w, "transactions")
  /\ Current(w) \notin Refused
  /\ newRows' = [newRows EXCEPT ![w] =
                   IF Holders(w) = {} THEN @ \cup ({Current(w)} \ Stored) ELSE @]
  /\ next' = [next EXCEPT ![w] = @ + 1]
  /\ UNCHANGED <<rows, embedded, phase, batch, newEmbeddings, outcome>>

InsertTransaction(w) ==
  /\ Inserting(w, "transactions")
  /\ Current(w) \notin Refused
  /\ Holders(w) = {}
  /\ newRows' = [newRows EXCEPT ![w] = @ \cup ({Current(w)} \ Stored)]
  /\ next' = [next EXCEPT ![w] = @ + 1]
  /\ UNCHANGED <<rows, embedded, phase, batch, newEmbeddings, outcome>>

(* Mutants of Embed: a batch with a success in it is not embedded; the rows *)
(* need not all be in.                                                      *)
EmbedNoSuccesses(w) ==
  /\ phase[w] = "transactions"
  /\ next[w] > Len(batch[w])
  /\ phase' = [phase EXCEPT ![w] =
                 IF Contents(batch[w]) \subseteq Failures THEN "embeddings" ELSE "commit"]
  /\ next' = [next EXCEPT ![w] = 1]
  /\ UNCHANGED <<rows, embedded, batch, newRows, newEmbeddings, outcome>>
EmbedTooSoon(w) ==
  /\ phase[w] = "transactions"
  /\ phase' = [phase EXCEPT ![w] = "embeddings"]
  /\ next' = [next EXCEPT ![w] = 1]
  /\ UNCHANGED <<rows, embedded, batch, newRows, newEmbeddings, outcome>>

(* All rows are in; the failures, if there are any, are embedded.           *)
Embed(w) ==
  /\ phase[w] = "transactions"
  /\ next[w] > Len(batch[w])
  /\ phase' = [phase EXCEPT ![w] =
                 IF Contents(batch[w]) \cap Failures = {} THEN "commit" ELSE "embeddings"]
  /\ next' = [next EXCEPT ![w] = 1]
  /\ UNCHANGED <<rows, embedded, batch, newRows, newEmbeddings, outcome>>

(* Every failure of the batch, also one whose row was there before.  The    *)
(* foreign key wants its row committed or inserted by this transaction.     *)
InsertEmbedding(w) ==
  /\ Inserting(w, "embeddings")
  /\ Current(w) \in Failures
  /\ Holders(w) = {}
  /\ Current(w) \in embedded \cup Stored \cup newRows[w]
  /\ newEmbeddings' = [newEmbeddings EXCEPT ![w] = @ \cup ({Current(w)} \ embedded)]
  /\ next' = [next EXCEPT ![w] = @ + 1]
  /\ UNCHANGED <<rows, embedded, phase, batch, newRows, outcome>>

(* failure_events leaves the others out.                                    *)
PassSuccess(w) ==
  /\ Inserting(w, "embeddings")
  /\ Current(w) \notin Failures
  /\ next' = [next EXCEPT ![w] = @ + 1]
  /\ UNCHANGED <<rows, embedded, phase, batch, newRows, newEmbeddings, outcome>>

EmbeddingsDone(w) ==
  /\ phase[w] = "embeddings"
  /\ next[w] > Len(batch[w])
  /\ phase' = [phase EXCEPT ![w] = "commit"]
  /\ UNCHANGED <<rows, embedded, batch, next, newRows, newEmbeddings, outcome>>

(* The transaction ends; its inserts land together or not at all.           *)
EndTransaction(w, how) ==
  /\ phase' = [phase EXCEPT ![w] = "idle"]
  /\ newRows' = [newRows EXCEPT ![w] = {}]
  /\ newEmbeddings' = [newEmbeddings EXCEPT ![w] = {}]
  /\ outcome' = [outcome EXCEPT ![w] = how]
  /\ UNCHANGED <<batch, next>>

(* The block ends: COMMIT, whose answer may be lost with the connection.    *)
Commit(w) ==
  /\ phase[w] = "commit"
  /\ rows' = [e \in Events |-> IF e \in newRows[w] THEN w ELSE rows[e]]
  /\ embedded' = embedded \cup newEmbeddings[w]
  /\ \E how \in {"stored", "failed"} : EndTransaction(w, how)

(* Mutant of Rollback: without the block, each INSERT commits by itself.    *)
Autocommit(w) ==
  /\ EndTransaction(w, "failed")
  /\ rows' = [e \in Events |-> IF e \in newRows[w] THEN w ELSE rows[e]]
  /\ embedded' = embedded \cup newEmbeddings[w]

(* Mutant of Rollback: the error is reported and the transaction left open, *)
(* with the rows it holds.                                                  *)
LeftOpen(w) ==
  /\ phase' = [phase EXCEPT ![w] = "idle"]
  /\ outcome' = [outcome EXCEPT ![w] = "failed"]
  /\ UNCHANGED <<rows, embedded, batch, next, newRows, newEmbeddings>>

Rollback(w) ==
  /\ EndTransaction(w, "failed")
  /\ UNCHANGED <<rows, embedded>>

(* Mutant of RowRefused: the INSERT is tried again.                         *)
RefusedRetried(w) ==
  /\ Inserting(w, "transactions")
  /\ Current(w) \in Refused
  /\ UNCHANGED vars

RowRefused(w) ==
  /\ Inserting(w, "transactions")
  /\ Current(w) \in Refused
  /\ Rollback(w)

(* The embedder raises, an INSERT fails, the connection is lost or the       *)
(* process dies.                                                            *)
Broken(w) == phase[w] # "idle" /\ Rollback(w)

(* S is made of cycles of the wait-for graph.                               *)
Cyclic(S) == /\ \A v \in S : Holders(v) # {}
             /\ UNION {Holders(v) : v \in S} = S

(* Postgres aborts a transaction that waits for itself.                     *)
DeadlockDetected(w) ==
  /\ \E S \in SUBSET Writers : w \in S /\ Cyclic(S)
  /\ Rollback(w)

Progress(w) == \/ InsertTransaction(w) \/ Embed(w) \/ InsertEmbedding(w)
               \/ PassSuccess(w) \/ EmbeddingsDone(w) \/ Commit(w)
               \/ RowRefused(w) \/ DeadlockDetected(w)

Batches == UNION {[1 .. n -> Events] : n \in 1 .. BatchSize}

Next == \E w \in Writers : \/ \E b \in Batches : Begin(w, b)
                           \/ Progress(w)
                           \/ Broken(w)

Spec == Init /\ [][Next]_vars

(* Statements return, the deadlock detector runs, and a writer woken again  *)
(* and again from its wait gets its row in the end.                         *)
Fairness ==
  \A w \in Writers : WF_vars(Progress(w)) /\ SF_vars(InsertTransaction(w))
FairSpec == Spec /\ Fairness
-----------------------------------------------------------------------------
TypeOK ==
  /\ rows \in [Events -> Writers \cup {None}]
  /\ embedded \subseteq Events
  /\ phase \in [Writers -> Phases]
  /\ batch \in [Writers -> Seq(Events)]
  /\ next \in [Writers -> Nat \ {0}]
  /\ newRows \in [Writers -> SUBSET Events]
  /\ newEmbeddings \in [Writers -> SUBSET Events]
  /\ outcome \in [Writers -> {"none", "stored", "failed"}]
  /\ \A w \in Writers : next[w] \leq Len(batch[w]) + 1

(* db.py:8-9, "no orphaned embeddings, no missing embeddings".              *)
Paired == Stored \cap Failures = embedded

(* A row keeps what the first write put into it (db.py:11-13).              *)
FirstWriteKept ==
  [][\A e \in Events : rows[e] # None => rows'[e] = rows[e]]_vars

(* An INSERT into embeddings never waits and never meets a missing row: who *)
(* would be ahead holds or has committed the row of transactions, which     *)
(* comes first (db.py:79-94).                                               *)
EmbeddingsUncontended ==
  \A w \in Writers :
    Inserting(w, "embeddings") /\ Current(w) \in Failures
      => Holders(w) = {} /\ Current(w) \in Stored \cup newRows[w]

(* Whoever waits for rows waits, through others or not, for a call that can *)
(* go on, or for itself, which Postgres notices: nobody holds a row without *)
(* a call under way (db.py:76, the transaction block), and no wait needs a  *)
(* connection to break.  S is whom a call waits for, and more.              *)
CanMove(w) ==
  \/ /\ Inserting(w, "transactions")
     /\ Current(w) \in Refused \/ Holders(w) = {}
  \/ /\ Inserting(w, "embeddings")
     /\ Current(w) \in Failures =>
          Holders(w) = {} /\ Current(w) \in embedded \cup Stored \cup newRows[w]
  \/ phase[w] \in {"transactions", "embeddings"} /\ next[w] > Len(batch[w])
  \/ phase[w] = "commit"
  \/ \E S \in SUBSET Writers : w \in S /\ Cyclic(S)

SomeoneCanMove ==
  \A S \in SUBSET Writers :
    (\E w \in S : phase[w] # "idle") /\ (\A w \in S : Holders(w) \subseteq S)
      => \E w \in S : CanMove(w)

(* Why: open inserts of a row exclude each other, ...                       *)
Exclusive ==
  \A w \in Writers :
    /\ newRows[w] \cap Stored = {}
    /\ \A v \in Writers \ {w} : newRows[w] \cap newRows[v] = {}

(* ... and what a writer has passed is in the tables or in its transaction. *)
Passed ==
  \A w \in Writers :
    /\ newEmbeddings[w] \subseteq newRows[w] \cap Failures
    /\ newRows[w] \subseteq Contents(batch[w])
    /\ phase[w] = "idle" => newRows[w] = {}
    /\ phase[w] = "transactions" =>
         \A i \in 1 .. next[w] - 1 : batch[w][i] \in Stored \cup newRows[w]
    /\ phase[w] \in {"embeddings", "commit"} =>
         Contents(batch[w]) \subseteq Stored \cup newRows[w]
    /\ phase[w] = "embeddings" =>
         \A i \in 1 .. next[w] - 1 :
           batch[w][i] \in Failures => batch[w][i] \in embedded \cup newEmbeddings[w]
    /\ phase[w] = "commit" =>
         Contents(batch[w]) \cap Failures \subseteq embedded \cup newEmbeddings[w]

IInv == TypeOK /\ Paired /\ Exclusive /\ Passed

(* A batch is written in one step or not at all, as Pipeline has it: all of *)
(* its rows, each failure with its embedding, whatever other writers do     *)
(* (db.py:3-13).                                                            *)
Store == INSTANCE AtomicStore
           WITH stored <- Stored, busy <- {w \in Writers : phase[w] # "idle"}
RefinesAtomicStore == Store!Spec

(* Every call ends, those that wait for each other included: nobody holds   *)
(* rows for ever (db.py:76, main.py:55-70).                                 *)
WritesEnd == \A w \in Writers : phase[w] # "idle" ~> phase[w] = "idle"
=============================================================================
