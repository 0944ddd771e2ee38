-------------------------- MODULE MCFrameTransport --------------------------
(* Instance of FrameTransport for TLC: the cameras are interchangeable.      *)
EXTENDS FrameTransport, TLC

CameraSymmetry == Permutations(Cameras)
=============================================================================
