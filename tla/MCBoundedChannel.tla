-------------------------- MODULE MCBoundedChannel --------------------------
(* Small instances of BoundedChannel for TLC.                               *)
EXTENDS BoundedChannel

CONSTANTS s1, s2

OneSender  == {s1}
TwoSenders == {s1, s2}
=============================================================================
