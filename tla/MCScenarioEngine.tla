--------------------------- MODULE MCScenarioEngine ---------------------------
(* Instances of ScenarioEngine for TLC.                                      *)
EXTENDS ScenarioEngine

CONSTANTS i1, i2, c1, c2

MCInjections == {i1, i2}
MCOneInjection == {i1}
MCOneClear == {c1}
=============================================================================
