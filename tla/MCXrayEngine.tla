---------------------------- MODULE MCXrayEngine ----------------------------
(***************************************************************************)
(* The diffractometer engine with the GUI thread and the thread of a       *)
(* sequence.                                                               *)
(***************************************************************************)
EXTENDS XrayEngine

CONSTANTS gui, worker

MCCallers == {gui, worker}
=============================================================================
