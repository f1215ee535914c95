---------------------------- MODULE MCScheduler ----------------------------
(* Small instances of Scheduler for TLC.                                    *)
EXTENDS Scheduler, TLC

CONSTANTS t1, t2, e1, e2, m1, m2

TwoTasks     == {t1, t2}
OneExecutor  == {e1}
TwoExecutors == {e1, e2}
TwoThreads   == {m1, m2}

(* The specification treats the members of each set alike. *)
Symmetry ==
  Permutations(Tasks) \cup Permutations(Executors) \cup Permutations(Threads)
=============================================================================
