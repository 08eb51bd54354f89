---------------------------- MODULE MCEnumeration ----------------------------
(* Enumeration for TLC: two units of two inputs, one of which is unlucky. *)
EXTENDS Enumeration

CONSTANTS u1, u2, a

MCUnits == {u1, u2}
MCTalkers == {a}
MCFaults == (u1 :> 2) @@ (u2 :> 0)
=============================================================================
