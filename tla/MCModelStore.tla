---------------------------- MODULE MCModelStore ----------------------------
(* Instance of ModelStore for TLC.                                         *)
EXTENDS ModelStore
=============================================================================
