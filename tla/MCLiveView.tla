----------------------------- MODULE MCLiveView -----------------------------
(* Instance of LiveView for TLC.  What shares nothing is looked at in      *)
(* behaviours of its own: feeds and renderers under changes of the source, *)
(* the conveyor under its viewers, the peers under their offers.           *)
EXTENDS LiveView, TLC

MCMixes == { {"source", "feed"}, {"source", "line"}, {"quick", "feed"}, {"socket", "track", "line"},
             {"stream", "simulate", "session"}, {"offer"} }

Interchangeable == Permutations(Slots) \cup Permutations(Sources)

ConveyorMix == { {"stream", "simulate", "session"} }
=============================================================================
