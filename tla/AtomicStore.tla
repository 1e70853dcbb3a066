----------------------------- MODULE AtomicStore -----------------------------
(***************************************************************************)
(* What write_batch() promises its callers (consumer/db.py:3-13): a call   *)
(* stores its whole batch, with an embedding for every failure, in one     *)
(* step, or stores nothing.  A call that is not answered may have stored.  *)
(***************************************************************************)
EXTENDS Naturals, Sequences

CONSTANTS Writers, Events, Failures, BatchSize

VARIABLES stored,    \* transactions
          embedded,  \* embeddings
          busy,      \* writers with a call under way
          batch,     \* the argument of each writer's last call
          outcome    \* how it ended

vars == <<stored, embedded, busy, batch, outcome>>

Init ==
  /\ stored = {}
  /\ embedded = {}
  /\ busy = {}
  /\ batch = [w \in Writers |-> <<>>]
  /\ outcome = [w \in Writers |-> "none"]

Call(w) ==
  /\ w \notin busy
  /\ busy' = busy \cup {w}
  /\ \E n \in 1 .. BatchSize : \E b \in [1 .. n -> Events] :
       batch' = [batch EXCEPT ![w] = b]
  /\ outcome' = [outcome EXCEPT ![w] = "none"]
  /\ UNCHANGED <<stored, embedded>>

Return(w, how) ==
  /\ w \in busy
  /\ busy' = busy \ {w}
  /\ outcome' = [outcome EXCEPT ![w] = how]
  /\ UNCHANGED batch

Write(w) ==
  LET events == {batch[w][i] : i \in 1 .. Len(batch[w])}
  IN  /\ stored' = stored \cup events
      /\ embedded' = embedded \cup (events \cap Failures)
      /\ \E how \in {"stored", "failed"} : Return(w, how)

Fail(w) == Return(w, "failed") /\ UNCHANGED <<stored, embedded>>

Next == \E w \in Writers : Call(w) \/ Write(w) \/ Fail(w)

Spec == Init /\ [][Next]_vars
=============================================================================
