------------------------------ MODULE MCOffload ------------------------------
(* Small instances of Offload for TLC.                                      *)
EXTENDS Offload

CONSTANTS f1, f2, n1

NoOps    == {}
OneFile  == {f1}
TwoFiles == {f1, f2}
OneNet   == {n1}
=============================================================================
