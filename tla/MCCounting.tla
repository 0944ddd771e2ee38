----------------------------- MODULE MCCounting -----------------------------
(* Instance of Counting for TLC: two positions, which the two lines put    *)
(* into three of the zones; with a third line all four occur.              *)
EXTENDS Counting

MCPositions == {0, 1}
MCLines     == {0, 2}
ThreeLines  == {-1, 0, 2}
=============================================================================
