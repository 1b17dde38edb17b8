------------------------------ MODULE MCCalls -------------------------------
(***************************************************************************)
(* Values for Calls: a called party that is busy, and a network without    *)
(* resources, whose first cause hides the second.                          *)
(***************************************************************************)
EXTENDS Calls

BusyAndCongestion == {<< 0, 6 >>, << 3, 6 >>}
=============================================================================
