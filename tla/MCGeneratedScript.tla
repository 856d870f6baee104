--------------------------- MODULE MCGeneratedScript ---------------------------
(***************************************************************************)
(* GeneratedScript for TLC: two plugins, so that one of them may be        *)
(* connected, delayed or released while the other fails.                   *)
(***************************************************************************)
EXTENDS GeneratedScript
=============================================================================
