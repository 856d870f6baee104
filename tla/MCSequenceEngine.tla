-------------------------- MODULE MCSequenceEngine --------------------------
(***************************************************************************)
(* Instances of SequenceEngine for TLC: two scripts, one of them a one-off *)
(* selection, and one console command.                                     *)
(***************************************************************************)
EXTENDS SequenceEngine

CONSTANTS s1, s2, c1
MCScripts    == {s1, s2}
MCSelections == {s2}
MCCommands   == {c1}
=============================================================================
