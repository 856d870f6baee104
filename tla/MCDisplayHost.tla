---------------------------- MODULE MCDisplayHost ----------------------------
(***************************************************************************)
(* One display with the style and two without it, two scripts, one series. *)
(***************************************************************************)
EXTENDS DisplayHost

CONSTANTS cartesian, polar, plain, trace

MCDisplays == {cartesian, polar, plain}
MCStyled == {cartesian}
MCSeries == {trace}
=============================================================================
