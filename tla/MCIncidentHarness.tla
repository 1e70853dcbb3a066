-------------------------- MODULE MCIncidentHarness --------------------------
(* Instances of IncidentHarness for TLC.                                     *)
EXTENDS IncidentHarness

CONSTANTS gateway, fraud

MCRepeats == <<gateway, gateway>>
MCFraudTwice == <<fraud, fraud>>
MCKinds == {gateway, fraud}
MCBuffered == {gateway}
=============================================================================
