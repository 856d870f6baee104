----------------------- MODULE MCTemperatureService -----------------------
(***************************************************************************)
(* Instances of TemperatureService for TLC: the poller beside the GUI      *)
(* thread alone, or beside the GUI thread and a worker.                    *)
(***************************************************************************)
EXTENDS TemperatureService

CONSTANTS gui, worker, bus
MCCallers == {gui, worker}
GuiOnly == {gui}
MCPorts == {bus}
=============================================================================
