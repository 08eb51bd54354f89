-------------------------- MODULE CommandLifecycle --------------------------
(***************************************************************************)
(* What the in-flight list promises the callers of the controller: a       *)
(* command is sent, sent once more if it stays unanswered, and ends once,  *)
(* answered or expired; after that it is never sent again.                 *)
(***************************************************************************)
EXTENDS Naturals

CONSTANT Commands

VARIABLES
    st,    \* where each command is in its life
    sends  \* how often it went to the network

vars == <<st, sends>>

Ended == {"answered", "expired", "dropped", "untracked"}

Init ==
    /\ st = [c \in Commands |-> "unsent"]
    /\ sends = [c \in Commands |-> 0]

Send(c) ==
    /\ st[c] = "unsent"
    /\ \/ st' = [st EXCEPT ![c] = "pending"] /\ sends' = [sends EXCEPT ![c] = 1]
       \/ st' = [st EXCEPT ![c] = "untracked"] /\ sends' = [sends EXCEPT ![c] = 1]
       \/ st' = [st EXCEPT ![c] = "dropped"] /\ UNCHANGED sends

Resend(c) ==
    /\ st[c] = "pending" /\ sends[c] = 1
    /\ sends' = [sends EXCEPT ![c] = 2]
    /\ UNCHANGED st

Answer(c) ==
    /\ st[c] = "pending"
    /\ st' = [st EXCEPT ![c] = "answered"]
    /\ UNCHANGED sends

Expire(c) ==
    /\ st[c] = "pending" /\ sends[c] = 2
    /\ st' = [st EXCEPT ![c] = "expired"]
    /\ UNCHANGED sends

Next == \E c \in Commands : Send(c) \/ Resend(c) \/ Answer(c) \/ Expire(c)

Spec == Init /\ [][Next]_vars
=============================================================================
