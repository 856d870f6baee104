---------------------------- MODULE MCStateSteps ----------------------------
(***************************************************************************)
(* Two set points, one of them outside the limits of a scan, one sweep.    *)
(***************************************************************************)
EXTENDS StateSteps

CONSTANTS near, far

MCValues  == {near, far}
MCLimited == {far}
MCRates   == {0, 1}
=============================================================================
