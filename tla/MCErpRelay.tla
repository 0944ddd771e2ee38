----------------------------- MODULE MCErpRelay -----------------------------
(* Instances of ErpRelay for TLC: adapters, and sessions with a reference.   *)
EXTENDS ErpRelay

EveryAdapter == KnownAdapters
EccOnly      == {"ecc_gateway"}
CsvOnly      == {"csv"}
FirstOnly    == {1}
FirstTwo     == {1, 2}
=============================================================================
