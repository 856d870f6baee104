------------------------ MODULE MCControllerEngine ------------------------
(***************************************************************************)
(* Instances of ControllerEngine for TLC: the GUI thread and one worker    *)
(* use the engine beside its poller; a command, reads that overlap.        *)
(***************************************************************************)
EXTENDS ControllerEngine

CONSTANTS gui, worker
MCCallers == {gui, worker}
GuiOnly == {gui}
=============================================================================
