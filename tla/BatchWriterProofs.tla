--------------------------- MODULE BatchWriterProofs ---------------------------
(***************************************************************************)
(* Proofs about BatchWriter, for any number of writers and events, any     *)
(* batches and any interleaving of their statements.                       *)
(***************************************************************************)
EXTENDS BatchWriter, DataInduction

LEMMA BatchType ==
  ASSUME NEW b \in Batches
  PROVE  b \in Seq(Events) /\ Len(b) \in Nat \ {0} /\ Len(b) \leq BatchSize
<1>1. PICK n \in 1 .. BatchSize : b \in [1 .. n -> Events]
  BY DEF Batches
<1>2. n \in Nat
  BY <1>1, WriterAssumption
<1>3. b \in Seq(Events) /\ Len(b) = n
  BY <1>1, <1>2
<1>. QED BY <1>1, <1>3, WriterAssumption

LEMMA CurrentType ==
  ASSUME TypeOK, NEW w \in Writers, next[w] \leq Len(batch[w])
  PROVE  /\ Current(w) \in Events
         /\ Current(w) \in Contents(batch[w])
         /\ next[w] \in 1 .. Len(batch[w])
<1>1. batch[w] \in Seq(Events) /\ next[w] \in Nat \ {0}
  BY DEF TypeOK
<1>2. next[w] \in 1 .. Len(batch[w]) /\ Len(batch[w]) \in Nat
  BY <1>1
<1>. QED BY <1>1, <1>2 DEF Current, Contents

LEMMA ContentsType ==
  ASSUME TypeOK, NEW w \in Writers PROVE Contents(batch[w]) \subseteq Events
<1>1. batch[w] \in Seq(Events)
  BY DEF TypeOK
<1>. QED BY <1>1 DEF Contents

-----------------------------------------------------------------------------
(* Steps within a transaction, one lemma each.                              *)

LEMMA BeginInv ==
  ASSUME IInv, NEW w \in Writers, NEW b \in Batches, Begin(w, b)
  PROVE  IInv'
<1>1. /\ phase[w] = "idle" /\ phase' = [phase EXCEPT ![w] = "transactions"]
      /\ batch' = [batch EXCEPT ![w] = b] /\ next' = [next EXCEPT ![w] = 1]
      /\ outcome' = [outcome EXCEPT ![w] = "none"]
      /\ UNCHANGED <<rows, embedded, newRows, newEmbeddings>>
  BY DEF Begin
<1>2. TypeOK'
  <2>1. b \in Seq(Events) /\ Len(b) \in Nat
    BY BatchType
  <2>. QED BY <1>1, <2>1 DEF IInv, TypeOK, Phases
<1>3. Stored' = Stored
  BY <1>1 DEF Stored
<1>4. Paired' /\ Exclusive'
  BY <1>1, <1>3 DEF IInv, Paired, Exclusive
<1>5. Passed'
  <2>1. newRows[w] = {}
    BY <1>1 DEF IInv, Passed
  <2>2. 1 .. 1 - 1 = {}
    OBVIOUS
  <2>. QED BY <1>1, <1>3, <2>1, <2>2 DEF IInv, TypeOK, Passed, Contents
<1>. QED BY <1>2, <1>4, <1>5 DEF IInv

LEMMA InsertTransactionInv ==
  ASSUME IInv, NEW w \in Writers, InsertTransaction(w)
  PROVE  IInv'
<1>. DEFINE e == Current(w)
<1>0. TypeOK
  BY DEF IInv
<1>1. /\ phase[w] = "transactions" /\ next[w] \leq Len(batch[w]) /\ Holders(w) = {}
      /\ newRows' = [newRows EXCEPT ![w] = @ \cup ({e} \ Stored)]
      /\ next' = [next EXCEPT ![w] = @ + 1]
      /\ UNCHANGED <<rows, embedded, phase, batch, newEmbeddings, outcome>>
  BY DEF InsertTransaction, Inserting
<1>2. e \in Events /\ e \in Contents(batch[w]) /\ next[w] \in 1 .. Len(batch[w])
  BY <1>0, <1>1, CurrentType
<1>3. e = batch[w][next[w]]
  BY DEF Current
<1>4. \A v \in Writers \ {w} : e \notin newRows[v]
  BY <1>1 DEF Holders, Inserting
<1>. HIDE DEF e
<1>5. TypeOK'
  <2>1. batch[w] \in Seq(Events) /\ Len(batch[w]) \in Nat
    BY <1>0 DEF TypeOK
  <2>. QED BY <1>0, <1>1, <1>2, <2>1 DEF TypeOK
<1>6. Stored' = Stored
  BY <1>1 DEF Stored
<1>7. Paired' /\ Exclusive'
  BY <1>0, <1>1, <1>4, <1>6 DEF IInv, Paired, Exclusive, TypeOK
<1>8. Passed'
  <2>1. newRows'[w] = newRows[w] \cup ({e} \ Stored) /\ next'[w] = next[w] + 1
    BY <1>0, <1>1 DEF TypeOK
  <2>2. \A v \in Writers \ {w} : newRows'[v] = newRows[v] /\ next'[v] = next[v]
    BY <1>0, <1>1 DEF TypeOK
  <2>3. ASSUME NEW i \in 1 .. next'[w] - 1
        PROVE  batch[w][i] \in Stored \cup newRows'[w]
    <3>1. i = next[w] \/ i \in 1 .. next[w] - 1
      BY <1>2, <2>1, <2>3
    <3>. QED BY <1>1, <1>3, <2>1, <3>1 DEF IInv, Passed
  <2>4. ASSUME NEW v \in Writers
        PROVE  /\ newEmbeddings'[v] \subseteq newRows'[v] \cap Failures
               /\ newRows'[v] \subseteq Contents(batch'[v])
               /\ phase'[v] = "idle" => newRows'[v] = {}
               /\ phase'[v] = "transactions" =>
                    \A i \in 1 .. next'[v] - 1 : batch'[v][i] \in Stored' \cup newRows'[v]
               /\ phase'[v] \in {"embeddings", "commit"} =>
                    Contents(batch'[v]) \subseteq Stored' \cup newRows'[v]
               /\ phase'[v] = "embeddings" =>
                    \A i \in 1 .. next'[v] - 1 :
                      batch'[v][i] \in Failures => batch'[v][i] \in (embedded \cup newEmbeddings[v])'
               /\ phase'[v] = "commit" =>
                    Contents(batch'[v]) \cap Failures \subseteq (embedded \cup newEmbeddings[v])'
    <3>1. CASE v = w
      BY <1>1, <1>2, <1>6, <2>1, <2>3, <3>1 DEF IInv, Passed
    <3>2. CASE v # w
      BY <1>1, <1>6, <2>2, <3>2 DEF IInv, Passed
    <3>. QED BY <3>1, <3>2
  <2>. QED BY <2>4 DEF Passed
<1>. QED BY <1>5, <1>7, <1>8 DEF IInv

LEMMA EmbedInv ==
  ASSUME IInv, NEW w \in Writers, Embed(w)
  PROVE  IInv'
<1>. DEFINE after == IF Contents(batch[w]) \cap Failures = {} THEN "commit" ELSE "embeddings"
<1>0. TypeOK
  BY DEF IInv
<1>1. /\ phase[w] = "transactions" /\ next[w] > Len(batch[w])
      /\ phase' = [phase EXCEPT ![w] = after]
      /\ next' = [next EXCEPT ![w] = 1]
      /\ UNCHANGED <<rows, embedded, batch, newRows, newEmbeddings, outcome>>
  BY DEF Embed
<1>2. batch[w] \in Seq(Events) /\ Len(batch[w]) \in Nat /\ next[w] \in Nat
  BY <1>0 DEF TypeOK
<1>3. after \in {"commit", "embeddings"}
      /\ (after = "commit" => Contents(batch[w]) \cap Failures = {})
  OBVIOUS
<1>. HIDE DEF after
<1>4. Contents(batch[w]) \subseteq Stored \cup newRows[w]
  <2>1. \A i \in 1 .. Len(batch[w]) : i \in 1 .. next[w] - 1
    BY <1>1, <1>2
  <2>. QED BY <1>1, <2>1 DEF IInv, Passed, Contents
<1>5. TypeOK'
  BY <1>0, <1>1, <1>2, <1>3 DEF TypeOK, Phases
<1>6. Stored' = Stored
  BY <1>1 DEF Stored
<1>7. Paired' /\ Exclusive'
  BY <1>1, <1>6 DEF IInv, Paired, Exclusive
<1>8. Passed'
  <2>1. 1 .. 1 - 1 = {}
    OBVIOUS
  <2>2. phase'[w] = after /\ next'[w] = 1
    BY <1>0, <1>1 DEF TypeOK
  <2>3. \A v \in Writers \ {w} : phase'[v] = phase[v] /\ next'[v] = next[v]
    BY <1>0, <1>1 DEF TypeOK
  <2>. QED BY <1>1, <1>3, <1>4, <1>6, <2>1, <2>2, <2>3 DEF IInv, Passed
<1>. QED BY <1>5, <1>7, <1>8 DEF IInv

(* What the embeddings phase meets: the row is in, and nobody else has its  *)
(* embedding in an open transaction.                                        *)
LEMMA Uncontended ==
  ASSUME IInv, NEW w \in Writers, Inserting(w, "embeddings"), Current(w) \in Failures
  PROVE  Holders(w) = {} /\ Current(w) \in Stored \cup newRows[w]
<1>1. Current(w) \in Contents(batch[w])
  BY CurrentType DEF IInv, Inserting
<1>2. Current(w) \in Stored \cup newRows[w]
  BY <1>1 DEF IInv, Passed, Inserting
<1>3. ASSUME NEW v \in Writers \ {w}, Current(w) \in newEmbeddings[v] PROVE FALSE
  <2>1. Current(w) \in newRows[v]
    BY <1>3 DEF IInv, Passed
  <2>. QED BY <1>2, <2>1 DEF IInv, Exclusive
<1>. QED BY <1>2, <1>3 DEF Holders, Inserting

(* A step of the embeddings phase past one event of the batch.              *)
LEMMA PassEventInv ==
  ASSUME IInv, NEW w \in Writers, Inserting(w, "embeddings"),
         NEW E \in SUBSET (newRows[w] \cap Failures),
         Current(w) \in Failures => Current(w) \in embedded \cup E,
         newEmbeddings' = [newEmbeddings EXCEPT ![w] = @ \cup E],
         next' = [next EXCEPT ![w] = @ + 1],
         UNCHANGED <<rows, embedded, phase, batch, newRows, outcome>>
  PROVE  IInv'
<1>0. TypeOK
  BY DEF IInv
<1>1. phase[w] = "embeddings" /\ next[w] \leq Len(batch[w])
  BY DEF Inserting
<1>2. next[w] \in 1 .. Len(batch[w]) /\ Current(w) = batch[w][next[w]]
  BY <1>0, <1>1, CurrentType DEF Current
<1>3. TypeOK'
  <2>1. batch[w] \in Seq(Events) /\ Len(batch[w]) \in Nat /\ E \subseteq Events
    BY <1>0 DEF TypeOK
  <2>. QED BY <1>0, <1>1, <2>1 DEF TypeOK
<1>4. Stored' = Stored
  BY DEF Stored
<1>5. Paired' /\ Exclusive'
  BY <1>4 DEF IInv, Paired, Exclusive
<1>6. /\ newEmbeddings'[w] = newEmbeddings[w] \cup E /\ next'[w] = next[w] + 1
      /\ \A v \in Writers \ {w} : newEmbeddings'[v] = newEmbeddings[v] /\ next'[v] = next[v]
  BY <1>0 DEF TypeOK
<1>7. ASSUME NEW i \in 1 .. next'[w] - 1, batch[w][i] \in Failures
      PROVE  batch[w][i] \in embedded \cup newEmbeddings'[w]
  <2>1. i = next[w] \/ i \in 1 .. next[w] - 1
    BY <1>2, <1>6, <1>7
  <2>. QED BY <1>1, <1>2, <1>6, <1>7, <2>1 DEF IInv, Passed
<1>8. Passed'
  <2>1. ASSUME NEW v \in Writers
        PROVE  /\ newEmbeddings'[v] \subseteq newRows'[v] \cap Failures
               /\ newRows'[v] \subseteq Contents(batch'[v])
               /\ phase'[v] = "idle" => newRows'[v] = {}
               /\ phase'[v] = "transactions" =>
                    \A i \in 1 .. next'[v] - 1 : batch'[v][i] \in Stored' \cup newRows'[v]
               /\ phase'[v] \in {"embeddings", "commit"} =>
                    Contents(batch'[v]) \subseteq Stored' \cup newRows'[v]
               /\ phase'[v] = "embeddings" =>
                    \A i \in 1 .. next'[v] - 1 :
                      batch'[v][i] \in Failures => batch'[v][i] \in (embedded \cup newEmbeddings[v])'
               /\ phase'[v] = "commit" =>
                    Contents(batch'[v]) \cap Failures \subseteq (embedded \cup newEmbeddings[v])'
    <3>1. CASE v = w
      BY <1>1, <1>4, <1>6, <1>7, <3>1 DEF IInv, Passed
    <3>2. CASE v # w
      BY <1>4, <1>6, <3>2 DEF IInv, Passed
    <3>. QED BY <3>1, <3>2
  <2>. QED BY <2>1 DEF Passed
<1>. QED BY <1>3, <1>5, <1>8 DEF IInv

LEMMA InsertEmbeddingInv ==
  ASSUME IInv, NEW w \in Writers, InsertEmbedding(w)
  PROVE  IInv'
<1>1. /\ Inserting(w, "embeddings") /\ Current(w) \in Failures
      /\ newEmbeddings' = [newEmbeddings EXCEPT ![w] = @ \cup ({Current(w)} \ embedded)]
      /\ next' = [next EXCEPT ![w] = @ + 1]
      /\ UNCHANGED <<rows, embedded, phase, batch, newRows, outcome>>
  BY DEF InsertEmbedding
<1>2. Current(w) \in Stored \cup newRows[w]
  BY <1>1, Uncontended
<1>3. {Current(w)} \ embedded \in SUBSET (newRows[w] \cap Failures)
  BY <1>1, <1>2 DEF IInv, Paired
<1>4. Current(w) \in embedded \cup ({Current(w)} \ embedded)
  OBVIOUS
<1>. QED BY <1>1, <1>3, <1>4, PassEventInv

LEMMA PassSuccessInv ==
  ASSUME IInv, NEW w \in Writers, PassSuccess(w)
  PROVE  IInv'
<1>1. /\ Inserting(w, "embeddings") /\ Current(w) \notin Failures
      /\ next' = [next EXCEPT ![w] = @ + 1]
      /\ UNCHANGED <<rows, embedded, phase, batch, newRows, newEmbeddings, outcome>>
  BY DEF PassSuccess
<1>2. newEmbeddings' = [newEmbeddings EXCEPT ![w] = @ \cup {}]
  BY <1>1 DEF IInv, TypeOK
<1>3. {} \in SUBSET (newRows[w] \cap Failures)
  OBVIOUS
<1>. QED BY <1>1, <1>2, <1>3, PassEventInv

LEMMA EmbeddingsDoneInv ==
  ASSUME IInv, NEW w \in Writers, EmbeddingsDone(w)
  PROVE  IInv'
<1>0. TypeOK
  BY DEF IInv
<1>1. /\ phase[w] = "embeddings" /\ next[w] > Len(batch[w])
      /\ phase' = [phase EXCEPT ![w] = "commit"]
      /\ UNCHANGED <<rows, embedded, batch, next, newRows, newEmbeddings, outcome>>
  BY DEF EmbeddingsDone
<1>2. Len(batch[w]) \in Nat /\ next[w] \in Nat
  BY <1>0 DEF TypeOK
<1>3. Contents(batch[w]) \cap Failures \subseteq embedded \cup newEmbeddings[w]
  <2>1. \A i \in 1 .. Len(batch[w]) : i \in 1 .. next[w] - 1
    BY <1>1, <1>2
  <2>. QED BY <1>1, <2>1 DEF IInv, Passed, Contents
<1>4. TypeOK'
  BY <1>0, <1>1 DEF TypeOK, Phases
<1>5. Stored' = Stored
  BY <1>1 DEF Stored
<1>6. Paired' /\ Exclusive'
  BY <1>1, <1>5 DEF IInv, Paired, Exclusive
<1>7. Passed'
  <2>1. phase'[w] = "commit" /\ \A v \in Writers \ {w} : phase'[v] = phase[v]
    BY <1>0, <1>1 DEF TypeOK
  <2>. QED BY <1>1, <1>3, <1>5, <2>1 DEF IInv, Passed
<1>. QED BY <1>4, <1>6, <1>7 DEF IInv

-----------------------------------------------------------------------------
(* The end of a transaction.                                                *)

LEMMA CommitStored ==
  ASSUME TypeOK, NEW w \in Writers, Commit(w)
  PROVE  Stored' = Stored \cup newRows[w]
<1>1. rows' = [e \in Events |-> IF e \in newRows[w] THEN w ELSE rows[e]]
  BY DEF Commit
<1>2. newRows[w] \subseteq Events /\ w # None
  BY WriterAssumption DEF TypeOK
<1>. QED BY <1>1, <1>2 DEF Stored

LEMMA EndInv ==
  ASSUME IInv, NEW w \in Writers, NEW how \in {"stored", "failed"},
         EndTransaction(w, how),
         rows' \in [Events -> Writers \cup {None}],
         \/ Stored' = Stored /\ embedded' = embedded
         \/ /\ Stored' = Stored \cup newRows[w]
            /\ embedded' = embedded \cup newEmbeddings[w]
            /\ phase[w] = "commit"
  PROVE  IInv'
<1>0. TypeOK
  BY DEF IInv
<1>1. /\ phase' = [phase EXCEPT ![w] = "idle"]
      /\ newRows' = [newRows EXCEPT ![w] = {}]
      /\ newEmbeddings' = [newEmbeddings EXCEPT ![w] = {}]
      /\ outcome' = [outcome EXCEPT ![w] = how]
      /\ UNCHANGED <<batch, next>>
  BY DEF EndTransaction
<1>2. embedded' \subseteq Events
  BY <1>0 DEF TypeOK
<1>3. TypeOK'
  BY <1>0, <1>1, <1>2 DEF TypeOK, Phases
<1>4. Paired'
  <2>1. CASE phase[w] = "commit"
    <3>1. newRows[w] \cap Failures \subseteq embedded \cup newEmbeddings[w]
      BY <2>1 DEF IInv, Passed
    <3>2. newEmbeddings[w] \subseteq newRows[w] \cap Failures
      BY DEF IInv, Passed
    <3>. QED BY <3>1, <3>2 DEF IInv, Paired
  <2>2. CASE phase[w] # "commit"
    BY <2>2 DEF IInv, Paired
  <2>. QED BY <2>1, <2>2
<1>5. /\ newRows'[w] = {} /\ newEmbeddings'[w] = {} /\ phase'[w] = "idle"
      /\ \A v \in Writers \ {w} : /\ newRows'[v] = newRows[v]
                                  /\ newEmbeddings'[v] = newEmbeddings[v]
                                  /\ phase'[v] = phase[v]
  BY <1>0, <1>1 DEF TypeOK
<1>6. Stored' \subseteq Stored \cup newRows[w] /\ Stored \subseteq Stored' /\ embedded \subseteq embedded'
  OBVIOUS
<1>7. Exclusive'
  BY <1>5, <1>6 DEF IInv, Exclusive
<1>8. Passed'
  <2>1. ASSUME NEW v \in Writers, v # w
        PROVE  /\ newEmbeddings'[v] \subseteq newRows'[v] \cap Failures
               /\ newRows'[v] \subseteq Contents(batch'[v])
               /\ phase'[v] = "idle" => newRows'[v] = {}
               /\ phase'[v] = "transactions" =>
                    \A i \in 1 .. next'[v] - 1 : batch'[v][i] \in Stored' \cup newRows'[v]
               /\ phase'[v] \in {"embeddings", "commit"} =>
                    Contents(batch'[v]) \subseteq Stored' \cup newRows'[v]
               /\ phase'[v] = "embeddings" =>
                    \A i \in 1 .. next'[v] - 1 :
                      batch'[v][i] \in Failures => batch'[v][i] \in (embedded \cup newEmbeddings[v])'
               /\ phase'[v] = "commit" =>
                    Contents(batch'[v]) \cap Failures \subseteq (embedded \cup newEmbeddings[v])'
    BY <1>1, <1>5, <1>6, <2>1 DEF IInv, Passed
  <2>. QED BY <1>5, <2>1 DEF Passed
<1>. QED BY <1>3, <1>4, <1>7, <1>8 DEF IInv

LEMMA CommitInv ==
  ASSUME IInv, NEW w \in Writers, Commit(w)
  PROVE  IInv'
<1>1. PICK how \in {"stored", "failed"} : EndTransaction(w, how)
  BY DEF Commit
<1>2. rows' \in [Events -> Writers \cup {None}]
  BY DEF Commit, IInv, TypeOK
<1>3. Stored' = Stored \cup newRows[w]
  BY CommitStored DEF IInv
<1>. QED BY <1>1, <1>2, <1>3, EndInv DEF Commit

LEMMA RollbackInv ==
  ASSUME IInv, NEW w \in Writers, Rollback(w)
  PROVE  IInv'
<1>1. EndTransaction(w, "failed") /\ rows' = rows /\ embedded' = embedded
  BY DEF Rollback
<1>2. Stored' = Stored /\ rows' \in [Events -> Writers \cup {None}]
  BY <1>1 DEF Stored, IInv, TypeOK
<1>. QED BY <1>1, <1>2, EndInv

LEMMA InitInv == Init => IInv
<1>. SUFFICES ASSUME Init PROVE IInv
  OBVIOUS
<1>1. TypeOK
  <2>1. <<>> \in Seq(Events) /\ Len(<<>>) = 0
    OBVIOUS
  <2>. QED BY <2>1 DEF Init, TypeOK, Phases
<1>2. Paired /\ Exclusive /\ Passed
  BY DEF Init, Paired, Exclusive, Passed, Stored
<1>. QED BY <1>1, <1>2 DEF IInv

LEMMA NextInv == IInv /\ [Next]_vars => IInv'
<1>. SUFFICES ASSUME IInv, [Next]_vars PROVE IInv'
  OBVIOUS
<1>1. CASE UNCHANGED vars
  BY <1>1 DEF vars, IInv, TypeOK, Paired, Exclusive, Passed, Stored, Contents
<1>2. ASSUME NEW w \in Writers, RowRefused(w) \/ DeadlockDetected(w) \/ Broken(w)
      PROVE  IInv'
  BY <1>2, RollbackInv DEF RowRefused, DeadlockDetected, Broken
<1>3. ASSUME NEW w \in Writers, Progress(w) PROVE IInv'
  BY <1>3, <1>2, InsertTransactionInv, EmbedInv, InsertEmbeddingInv, PassSuccessInv,
     EmbeddingsDoneInv, CommitInv DEF Progress
<1>. QED BY <1>1, <1>2, <1>3, BeginInv DEF Next

(* Rows inserted by open transactions exclude each other, and what a writer *)
(* has passed is in the tables or in its transaction.                       *)
THEOREM Invariance == Spec => []IInv
<1>. QED BY InitInv, NextInv, PTL DEF Spec

(* Every stored failure has its embedding, and no embedding lacks its row.  *)
THEOREM NoOrphanNoMissing == Spec => []Paired
<1>1. IInv => Paired
  BY DEF IInv
<1>. QED BY <1>1, Invariance, PTL

(* Inserting embeddings never waits and never breaks the foreign key.       *)
THEOREM EmbeddingsFree == Spec => []EmbeddingsUncontended
<1>1. IInv => EmbeddingsUncontended
  BY Uncontended DEF EmbeddingsUncontended
<1>. QED BY <1>1, Invariance, PTL

LEMMA RowKept ==
  ASSUME IInv, [Next]_vars, NEW e \in Events, rows[e] # None
  PROVE  rows'[e] = rows[e]
<1>1. ASSUME NEW w \in Writers, Commit(w) PROVE rows'[e] = rows[e]
  <2>1. e \notin newRows[w]
    BY DEF IInv, Exclusive, Stored
  <2>. QED BY <1>1, <2>1 DEF Commit
<1>2. ASSUME \A w \in Writers : ~ Commit(w) PROVE rows' = rows
  BY <1>2 DEF Next, vars, Begin, Progress, InsertTransaction, Embed, InsertEmbedding,
              PassSuccess, EmbeddingsDone, RowRefused, DeadlockDetected, Broken, Rollback
<1>. QED BY <1>1, <1>2

(* A row keeps what the first write put into it.                            *)
THEOREM FirstWriteStays == Spec => FirstWriteKept
<1>1. IInv /\ [Next]_vars => [\A e \in Events : rows[e] # None => rows'[e] = rows[e]]_vars
  BY RowKept
<1>. QED BY <1>1, Invariance, PTL DEF Spec, FirstWriteKept

-----------------------------------------------------------------------------
(* Waiting.                                                                 *)

(* Only a call under way holds rows, and only one waits.                    *)
LEMMA HoldersRun ==
  ASSUME IInv, NEW w \in Writers, NEW v \in Holders(w)
  PROVE  v \in Writers /\ phase[v] # "idle" /\ phase[w] # "idle"
<1>1. v \in Writers /\ newRows[v] \cup newEmbeddings[v] # {} /\ phase[w] # "idle"
  BY DEF Holders, Inserting
<1>2. newRows[v] # {}
  BY <1>1 DEF IInv, Passed
<1>. QED BY <1>1, <1>2 DEF IInv, Passed

(* A call that waits for nobody has a next step that is not an accident.    *)
LEMMA FreeMoves ==
  ASSUME IInv, NEW w \in Writers, phase[w] # "idle", Holders(w) = {}
  PROVE  CanMove(w)
<1>1. /\ phase[w] \in {"transactions", "embeddings", "commit"}
      /\ next[w] \in Nat /\ Len(batch[w]) \in Nat
  BY DEF IInv, TypeOK, Phases
<1>2. next[w] \leq Len(batch[w]) \/ next[w] > Len(batch[w])
  BY <1>1
<1>3. ASSUME Inserting(w, "embeddings"), Current(w) \in Failures
      PROVE  Current(w) \in Stored \cup newRows[w]
  BY <1>3, Uncontended
<1>. QED BY <1>1, <1>2, <1>3 DEF CanMove, Inserting

(* In a finite set that waits only for itself, with nobody in it free, the  *)
(* smallest such part is made of cycles.                                    *)
LEMMA Knot ==
  ASSUME NEW S \in SUBSET Writers, S # {},
         \A w \in S : Holders(w) # {} /\ Holders(w) \subseteq S
  PROVE  \E C \in SUBSET S : C # {} /\ Cyclic(C)
<1>. DEFINE closed == {T \in SUBSET S : T # {} /\ \A w \in T : Holders(w) \subseteq T}
            sizes == {Cardinality(T) : T \in closed}
<1>1. \A T \in closed : IsFiniteSet(T) /\ Cardinality(T) \in Nat
  BY WriterAssumption, FS_Subset, FS_CardinalityType
<1>2. sizes \subseteq Nat /\ sizes # {}
  <2>1. S \in closed
    OBVIOUS
  <2>. QED BY <1>1, <2>1
<1>. HIDE DEF sizes
<1>3. PICK n \in sizes : \A m \in sizes : n \leq m
  BY <1>2, LeastNatural
<1>4. PICK C \in closed : Cardinality(C) = n
  BY DEF sizes
<1>. DEFINE waitedFor == UNION {Holders(w) : w \in C}
<1>5. waitedFor \in closed /\ waitedFor \subseteq C
  <2>1. waitedFor \subseteq C
    BY <1>4
  <2>2. waitedFor # {}
    BY <1>4
  <2>3. \A w \in waitedFor : Holders(w) \subseteq waitedFor
    BY <2>1
  <2>. QED BY <1>4, <2>1, <2>2, <2>3
<1>. HIDE DEF waitedFor, closed
<1>6. n \leq Cardinality(waitedFor)
  BY <1>3, <1>5 DEF sizes
<1>7. Cardinality(waitedFor) \leq n
  BY <1>1, <1>4, <1>5, FS_Subset
<1>8. waitedFor = C
  BY <1>1, <1>2, <1>4, <1>5, <1>6, <1>7, FS_Subset
<1>. QED BY <1>4, <1>8 DEF closed, Cyclic, waitedFor

LEMMA WaitsResolve ==
  ASSUME IInv PROVE SomeoneCanMove
<1>. SUFFICES ASSUME NEW S \in SUBSET Writers, \E w \in S : phase[w] # "idle",
                     \A w \in S : Holders(w) \subseteq S
              PROVE  \E w \in S : CanMove(w)
  BY DEF SomeoneCanMove
<1>. DEFINE B == {w \in S : phase[w] # "idle"}
<1>1. B \in SUBSET Writers /\ B # {} /\ \A w \in B : Holders(w) \subseteq B
  BY HoldersRun
<1>2. CASE \E w \in B : Holders(w) = {}
  BY <1>2, FreeMoves
<1>3. CASE \A w \in B : Holders(w) # {}
  <2>. HIDE DEF B
  <2>1. PICK C \in SUBSET B : C # {} /\ Cyclic(C)
    BY <1>1, <1>3, Knot
  <2>2. PICK w \in C : w \in B
    BY <2>1
  <2>3. CanMove(w)
    BY <1>1, <2>1 DEF CanMove
  <2>. QED BY <2>2, <2>3 DEF B
<1>. QED BY <1>2, <1>3

(* However many calls wait for each other, one of those a call waits for    *)
(* can go on or is in a cycle that Postgres breaks.                         *)
THEOREM NoSilentDeadlock == Spec => []SomeoneCanMove
<1>. QED BY WaitsResolve, Invariance, PTL

(* A batch whose rows are all there inserts nothing.                        *)
LEMMA ReplayStep ==
  ASSUME IInv, NEW w \in Writers, Commit(w), Contents(batch[w]) \subseteq Stored
  PROVE  UNCHANGED <<rows, embedded>>
<1>1. newRows[w] = {}
  BY DEF IInv, Passed, Exclusive
<1>2. newEmbeddings[w] = {}
  BY <1>1 DEF IInv, Passed
<1>3. rows' = rows
  BY <1>1 DEF Commit, IInv, TypeOK
<1>. QED BY <1>2, <1>3 DEF Commit

(* A batch delivered again, because the offset commit after it failed or a  *)
(* kill came between, changes nothing when it commits, embeddings included  *)
(* (db.py:11-13).                                                           *)
THEOREM ReplayIsHarmless ==
  Spec => [][\A w \in Writers : Commit(w) /\ Contents(batch[w]) \subseteq Stored
               => UNCHANGED <<rows, embedded>>]_vars
<1>1. IInv => [\A w \in Writers : Commit(w) /\ Contents(batch[w]) \subseteq Stored
                 => UNCHANGED <<rows, embedded>>]_vars
  BY ReplayStep
<1>. QED BY <1>1, Invariance, PTL DEF Spec

-----------------------------------------------------------------------------
(* Every step is a step of AtomicStore or changes nothing it can see.       *)

LEMMA StoreInit == Init => Store!Init
<1>. SUFFICES ASSUME Init PROVE Store!Init
  OBVIOUS
<1>. QED BY DEF Init, Store!Init, Stored

LEMMA CommitWrites ==
  ASSUME IInv, NEW w \in Writers, Commit(w)
  PROVE  Store!Write(w)
<1>1. phase[w] = "commit" /\ phase' = [phase EXCEPT ![w] = "idle"]
  BY DEF Commit, EndTransaction
<1>2. Stored' = Stored \cup Contents(batch[w])
  <2>1. Stored' = Stored \cup newRows[w]
    BY CommitStored DEF IInv
  <2>. QED BY <1>1, <2>1 DEF IInv, Passed
<1>3. embedded' = embedded \cup (Contents(batch[w]) \cap Failures)
  <2>1. newEmbeddings[w] \subseteq Contents(batch[w]) \cap Failures
    BY DEF IInv, Passed
  <2>2. Contents(batch[w]) \cap Failures \subseteq embedded \cup newEmbeddings[w]
    BY <1>1 DEF IInv, Passed
  <2>. QED BY <2>1, <2>2 DEF Commit
<1>4. PICK how \in {"stored", "failed"} : outcome' = [outcome EXCEPT ![w] = how] /\ batch' = batch
  BY DEF Commit, EndTransaction
<1>5. /\ w \in {v \in Writers : phase[v] # "idle"}
      /\ {v \in Writers : phase'[v] # "idle"} = {v \in Writers : phase[v] # "idle"} \ {w}
  BY <1>1 DEF IInv, TypeOK
<1>. QED BY <1>2, <1>3, <1>4, <1>5 DEF Store!Write, Store!Return, Contents

LEMMA RollbackFails ==
  ASSUME IInv, NEW w \in Writers, Rollback(w), phase[w] # "idle"
  PROVE  Store!Fail(w)
<1>1. /\ phase' = [phase EXCEPT ![w] = "idle"] /\ outcome' = [outcome EXCEPT ![w] = "failed"]
      /\ batch' = batch /\ embedded' = embedded /\ Stored' = Stored
  BY DEF Rollback, EndTransaction, Stored
<1>2. /\ w \in {v \in Writers : phase[v] # "idle"}
      /\ {v \in Writers : phase'[v] # "idle"} = {v \in Writers : phase[v] # "idle"} \ {w}
  BY <1>1 DEF IInv, TypeOK
<1>. QED BY <1>1, <1>2 DEF Store!Fail, Store!Return

LEMMA BeginCalls ==
  ASSUME IInv, NEW w \in Writers, NEW b \in Batches, Begin(w, b)
  PROVE  Store!Call(w)
<1>1. /\ phase[w] = "idle" /\ phase' = [phase EXCEPT ![w] = "transactions"]
      /\ batch' = [batch EXCEPT ![w] = b] /\ outcome' = [outcome EXCEPT ![w] = "none"]
      /\ embedded' = embedded /\ Stored' = Stored
  BY DEF Begin, Stored
<1>2. /\ w \notin {v \in Writers : phase[v] # "idle"}
      /\ {v \in Writers : phase'[v] # "idle"} = {v \in Writers : phase[v] # "idle"} \cup {w}
  BY <1>1 DEF IInv, TypeOK
<1>3. \E n \in 1 .. BatchSize : \E c \in [1 .. n -> Events] :
        batch' = [batch EXCEPT ![w] = c]
  BY <1>1 DEF Batches
<1>. QED BY <1>1, <1>2, <1>3 DEF Store!Call

(* Between its statements a transaction shows nothing.                      *)
LEMMA Unseen ==
  ASSUME IInv, NEW w \in Writers,
         InsertTransaction(w) \/ Embed(w) \/ InsertEmbedding(w) \/ PassSuccess(w)
           \/ EmbeddingsDone(w)
  PROVE  UNCHANGED Store!vars
<1>1. UNCHANGED <<rows, embedded, batch, outcome>>
  BY DEF InsertTransaction, Embed, InsertEmbedding, PassSuccess, EmbeddingsDone
<1>2. \A v \in Writers : phase'[v] = "idle" <=> phase[v] = "idle"
  BY DEF IInv, TypeOK, InsertTransaction, Embed, InsertEmbedding, PassSuccess, EmbeddingsDone
<1>3. {v \in Writers : phase'[v] # "idle"} = {v \in Writers : phase[v] # "idle"}
  BY <1>2
<1>. QED BY <1>1, <1>3 DEF Store!vars, Stored

LEMMA StoreStep ==
  ASSUME IInv, [Next]_vars PROVE [Store!Next]_(Store!vars)
<1>1. CASE UNCHANGED vars
  BY <1>1 DEF vars, Store!vars, Stored
<1>2. ASSUME NEW w \in Writers, RowRefused(w) \/ DeadlockDetected(w) \/ Broken(w)
      PROVE  Store!Next
  <2>1. Rollback(w)
    BY <1>2 DEF RowRefused, DeadlockDetected, Broken
  <2>2. phase[w] # "idle"
    <3>1. CASE RowRefused(w)
      BY <3>1 DEF RowRefused, Inserting
    <3>2. CASE DeadlockDetected(w)
      <4>1. Holders(w) # {}
        BY <3>2 DEF DeadlockDetected, Cyclic
      <4>. QED BY <4>1 DEF Holders, Inserting
    <3>3. CASE Broken(w)
      BY <3>3 DEF Broken
    <3>. QED BY <1>2, <3>1, <3>2, <3>3
  <2>. QED BY <2>1, <2>2, RollbackFails DEF Store!Next
<1>3. ASSUME NEW w \in Writers, Progress(w) PROVE [Store!Next]_(Store!vars)
  BY <1>3, <1>2, Unseen, CommitWrites DEF Progress, Store!Next
<1>4. ASSUME NEW w \in Writers, NEW b \in Batches, Begin(w, b) PROVE Store!Next
  BY <1>4, BeginCalls DEF Store!Next
<1>. QED BY <1>1, <1>2, <1>3, <1>4 DEF Next

(* A batch is written in one step or not at all, whatever the others do.    *)
THEOREM WritesAreAtomic == Spec => RefinesAtomicStore
<1>1. IInv /\ [Next]_vars => [Store!Next]_(Store!vars)
  BY StoreStep
<1>. QED BY <1>1, StoreInit, Invariance, PTL DEF Spec, RefinesAtomicStore, Store!Spec

(* The promise of AtomicStore is enough for db.py:8-9, whatever keeps it:   *)
(* no embedding without its row, none missing.                              *)
THEOREM AtomicWritesArePaired == RefinesAtomicStore => []Paired
<1>1. Store!Init => Paired
  BY DEF Store!Init, Paired
<1>2. Paired /\ [Store!Next]_(Store!vars) => Paired'
  <2>. SUFFICES ASSUME Paired, [Store!Next]_(Store!vars) PROVE Paired'
    OBVIOUS
  <2>1. ASSUME NEW w \in Writers, Store!Call(w) \/ Store!Fail(w) PROVE Paired'
    BY <2>1 DEF Paired, Store!Call, Store!Fail
  <2>2. ASSUME NEW w \in Writers, Store!Write(w) PROVE Paired'
    BY <2>2 DEF Paired, Store!Write
  <2>3. CASE UNCHANGED Store!vars
    BY <2>3 DEF Paired, Store!vars
  <2>. QED BY <2>1, <2>2, <2>3 DEF Store!Next
<1>. QED BY <1>1, <1>2, PTL DEF RefinesAtomicStore, Store!Spec
=============================================================================
