------------------------------ MODULE MCRuntime ------------------------------
(* Small instances of Runtime for TLC.                                      *)
EXTENDS Runtime, TLC

CONSTANTS t1, t2, e1, e2

TwoTasks     == {t1, t2}
OneExecutor  == {e1}
TwoExecutors == {e1, e2}
OneThread    == {Main}
=============================================================================
