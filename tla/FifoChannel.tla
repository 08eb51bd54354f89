----------------------------- MODULE FifoChannel -----------------------------
(***************************************************************************)
(* What the send queue promises the threads that use it: a first-in        *)
(* first-out channel.  A message put is delivered once, in order; only a   *)
(* channel that is closing may lose some of what is still pending.         *)
(***************************************************************************)
EXTENDS Naturals, Sequences

CONSTANT Messages

VARIABLES
    pending,  \* put and not yet delivered, oldest first
    put,      \* history of what was put
    got,      \* history of what was delivered
    closing   \* the owner is shutting down

vars == <<pending, put, got, closing>>

Init == pending = <<>> /\ put = <<>> /\ got = <<>> /\ closing = FALSE

Put(m) ==
    /\ put' = Append(put, m)
    /\ pending' = Append(pending, m)
    /\ UNCHANGED <<got, closing>>

Deliver ==
    /\ pending # <<>>
    /\ got' = Append(got, Head(pending))
    /\ pending' = Tail(pending)
    /\ UNCHANGED <<put, closing>>

StartClosing ==
    /\ ~closing /\ closing' = TRUE
    /\ UNCHANGED <<pending, put, got>>

(* A closing channel drops messages that follow one another. *)
Lose ==
    /\ closing
    /\ \E i \in 0 .. Len(pending) : \E j \in i + 1 .. Len(pending) + 1 :
           pending' = SubSeq(pending, 1, i) \o SubSeq(pending, j, Len(pending))
    /\ UNCHANGED <<put, got, closing>>

Next == (\E m \in Messages : Put(m)) \/ Deliver \/ StartClosing \/ Lose

Spec == Init /\ [][Next]_vars
=============================================================================
