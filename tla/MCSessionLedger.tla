--------------------------- MODULE MCSessionLedger ---------------------------
(* Instances of SessionLedger for TLC: process names and small input sets.   *)
EXTENDS SessionLedger

BothWays == {1, -1}
Forward  == {1}
NoOverride == {}
Override == {3}
=============================================================================
