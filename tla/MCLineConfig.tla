---------------------------- MODULE MCLineConfig ----------------------------
(* Instances of LineConfig for TLC.                                          *)
EXTENDS LineConfig

Good == [conf |-> 1, roi |-> Default, bad |-> FALSE]
Bad  == [conf |-> 2, roi |-> Default, bad |-> TRUE]

GoodAndBad == {Good, Bad}
TwoGood    == {Good, [conf |-> 3, roi |-> Default, bad |-> FALSE]}
=============================================================================
