--------------------------- MODULE MCMagnetEngine ---------------------------
(***************************************************************************)
(* The magnet with two fields, one of them zero, and every fault.          *)
(***************************************************************************)
EXTENDS MagnetEngine

CONSTANT field

MCFields == {Zero, field}
MCFaults == FaultKinds
=============================================================================
