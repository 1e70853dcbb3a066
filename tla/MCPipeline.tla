------------------------------ MODULE MCPipeline ------------------------------
(* Small instances of Pipeline for TLC.                                    *)
EXTENDS Pipeline

CONSTANTS p1, p2, c1, c2, g1, g2, bad, junk, tomb

MCOnePartition == [e \in Payloads |-> {p1}]

(* The key of the second event may belong to either partition.             *)
MCSkewed == [e \in Payloads |-> IF e = g1 THEN {p1} ELSE Partitions]

MCFaults(duplicate, rebalance, stop, abort, disconnect, commit) ==
  [k \in FaultKinds |-> CASE k = "duplicate"  -> duplicate
                          [] k = "rebalance"  -> rebalance
                          [] k = "stop"       -> stop
                          [] k = "abort"      -> abort
                          [] k = "disconnect" -> disconnect
                          [] k = "commit"     -> commit]

MCNoFaults       == MCFaults(0, 0, 0, 0, 0, 0)
MCGroupFaults    == MCFaults(0, 1, 1, 0, 0, 1)
MCDeliveryFaults == MCFaults(1, 0, 0, 1, 1, 0)
MCPoisonOnly     == MCFaults(0, 0, 1, 0, 0, 0)
===============================================================================
