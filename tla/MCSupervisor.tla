---------------------------- MODULE MCSupervisor ----------------------------
(* Instance of Supervisor for TLC: two cameras, so that one comes first.   *)
EXTENDS Supervisor

MCCameraIds == 1..2
=============================================================================
