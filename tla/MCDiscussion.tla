---------------------------- MODULE MCDiscussion ----------------------------
(* Instances of Discussion for TLC. *)
EXTENDS Discussion, TLC

CONSTANTS a, b, c, v, ch

TypeOf == [t \in Terminals |->
              IF t = ch THEN 0 ELSE IF t = v THEN 1 ELSE 2]
SizeOf == <<15, 30>> @@ (0 :> 6)
Symmetry == Permutations(Common)
=============================================================================
