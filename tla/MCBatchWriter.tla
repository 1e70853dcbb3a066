----------------------------- MODULE MCBatchWriter -----------------------------
(* An instance of BatchWriter for TLC: a success, a failure, and an event the *)
(* database refuses.                                                         *)
EXTENDS BatchWriter

CONSTANTS w1, w2, ok, f1, bad

MCWriters == {w1, w2}
MCEvents == {ok, f1, bad}
MCFailures == {f1}
MCRefused == {bad}
=============================================================================
