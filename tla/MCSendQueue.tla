----------------------------- MODULE MCSendQueue -----------------------------
(* Two producer threads, one frame length that fits. *)
EXTENDS SendQueue

CONSTANTS p1, p2

MCProducers == {p1, p2}
=============================================================================
