--------------------------- MODULE MCFuncWorkQueue ---------------------------
(* One calling thread beside the work thread, which calls too; a command   *)
(* of the menu for the camera, and one of the upper computer.              *)
EXTENDS FuncWorkQueue, TLC

CONSTANTS p, w, o, menu, computer, none

MCProducers == {p}
MCUsers == {menu, computer}
MCCommands == {[user |-> menu, preset |-> TRUE],
               [user |-> computer, preset |-> FALSE]}
MCMaxCalls == p :> 2 @@ w :> 1
=============================================================================
