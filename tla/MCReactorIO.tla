----------------------------- MODULE MCReactorIO -----------------------------
(* Small instances of ReactorIO for TLC.                                    *)
EXTENDS ReactorIO

CONSTANTS l1, s1, o1, o2

Listener == {l1}
Both     == {l1, s1}
OneOp    == {o1}
TwoOps   == {o1, o2}
=============================================================================
