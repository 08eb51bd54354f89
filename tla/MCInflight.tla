----------------------------- MODULE MCInflight -----------------------------
(* Small sets of commands; a key is a number. *)
EXTENDS Inflight, TLC

CONSTANTS c1, c2, c3, c4, c5, c6

(* A command of every kind, each with a key of its own but the last: the   *)
(* conference command of the first, for the same terminal once more.       *)
AllCommands == {c1, c2, c3, c4, c5, c6}
AllKinds == c1 :> "conference" @@ c2 :> "conferenceReply" @@ c3 :> "acmp"
            @@ c4 :> "upper" @@ c5 :> "arcs" @@ c6 :> "conference"
AllKeys == c1 :> 1 @@ c2 :> 2 @@ c3 :> 3 @@ c4 :> 4 @@ c5 :> 5 @@ c6 :> 1

(* The same conference command for two terminals, one after the other. *)
RepeatedCommands == {c1, c2}
RepeatedKind == c1 :> "conference" @@ c2 :> "conference"
DistinctKey == c1 :> 1 @@ c2 :> 2
=============================================================================
