----------------------------- MODULE MCArcsQuery -----------------------------
(* A query of up to three reports over a ring that holds two. *)
EXTENDS ArcsQuery
=============================================================================
