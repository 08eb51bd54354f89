---------------------------- MODULE MCAllotment ----------------------------
(* Allotment for TLC: two terminals, two addresses. *)
EXTENDS Allotment

CONSTANTS t1, t2

MCTerminals == {t1, t2}
=============================================================================
