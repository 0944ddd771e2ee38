----------------------------- MODULE MCJobQueue -----------------------------
(* Instances of JobQueue for TLC.                                            *)
EXTENDS JobQueue

FirstOnly  == {1}
SecondOnly == {2}
=============================================================================
