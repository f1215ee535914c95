---------------------------- MODULE MCRingBuffer ----------------------------
(* Small instances of RingBuffer for TLC.                                   *)
EXTENDS RingBuffer, TLC

CONSTANTS p1, c1, v1, v2, v3

TwoThreads  == {p1, c1}
OneProducer == {p1}
OneConsumer == {c1}
ThreeValues == {v1, v2, v3}

=============================================================================
