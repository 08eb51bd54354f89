----------------------------- MODULE MCSession -----------------------------
(* Session for TLC: two terminals and one key. *)
EXTENDS Session

CONSTANTS t1, t2, k

MCTerminals == {t1, t2}
MCOrder == <<t1, t2>>
MCKeys == {k}
MCOwed == (t1 :> 2) @@ (t2 :> 1)
=============================================================================
