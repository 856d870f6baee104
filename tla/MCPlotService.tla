--------------------------- MODULE MCPlotService ---------------------------
(***************************************************************************)
(* Instances of PlotService for TLC: a group of two and two single         *)
(* requests, room for three outstanding ones, one display replacement.     *)
(***************************************************************************)
EXTENDS PlotService, TLC

CONSTANTS r1, r2, r3, r4
MCRequests == {r1, r2, r3, r4}
MCBatches  == {<<r1, r2>>}
=============================================================================
