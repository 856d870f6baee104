-------------------------- MODULE MCPressureEngine --------------------------
(***************************************************************************)
(* Two flows, interchangeable; the panel and the timer read; the worker    *)
(* has at most one notification on its way to the timer when it connects.  *)
(***************************************************************************)
EXTENDS PressureEngine, TLC

CONSTANTS low, high

MCFlows == {low, high}
MCReaders == {Panel, Poller}
FlowSymmetry == Permutations(MCFlows)
=============================================================================
