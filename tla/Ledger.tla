-------------------------------- MODULE Ledger --------------------------------
(***************************************************************************)
(* What the ingestion path promises, without processes, groups, batches or *)
(* connections: an append-only topic, a table that only grows by events of *)
(* the topic, a set of locations given up after an aborted write, and a    *)
(* mark per partition that moves forward over settled messages only.       *)
(***************************************************************************)
EXTENDS Naturals, Sequences

CONSTANTS Partitions, Payloads, Eventless

VARIABLES log, transactions, aborted, committed

vars == <<log, transactions, aborted, committed>>

Indices(p) == 1 .. Len(log[p])

Settled(p, i) ==
  log[p][i] \in Eventless \/ log[p][i] \in transactions \/ <<p, i>> \in aborted

Init ==
  /\ log = [p \in Partitions |-> <<>>]
  /\ transactions = {}
  /\ aborted = {}
  /\ committed = [p \in Partitions |-> 0]

Publish ==
  /\ \E p \in Partitions, e \in Payloads :
       log' = [log EXCEPT ![p] = Append(@, e)]
  /\ UNCHANGED <<transactions, aborted, committed>>

(* Only events of the topic land, and the skipped ones never do.           *)
Land ==
  /\ transactions \subseteq transactions'
  /\ \A e \in transactions' \ transactions :
       /\ e \notin Eventless
       /\ \E p \in Partitions : \E i \in Indices(p) : log[p][i] = e
  /\ UNCHANGED <<log, aborted, committed>>

(* Only events that are on the topic are given up.                         *)
GiveUp ==
  /\ aborted \subseteq aborted'
  /\ \A loc \in aborted' \ aborted :
       \E p \in Partitions : \E i \in Indices(p) : loc = <<p, i>>
  /\ UNCHANGED <<log, transactions, committed>>

(* Every message passed is settled when it is passed.                      *)
Acknowledge ==
  /\ committed' \in [Partitions -> Nat]
  /\ \A p \in Partitions :
       /\ committed'[p] >= committed[p]
       /\ \A i \in 1 .. committed'[p] : i \in Indices(p) /\ Settled(p, i)
  /\ UNCHANGED <<log, transactions, aborted>>

Next == Publish \/ Land \/ GiveUp \/ Acknowledge

Spec == Init /\ [][Next]_vars
===============================================================================
