-------------------------------- MODULE MCRFS --------------------------------
(***************************************************************************)
(* Values for RFS: names on two levels, so that a request can fail between *)
(* making a directory and using it.                                        *)
(***************************************************************************)
EXTENDS RFS

TwoLevels  == {<< "a" >>, << "a", "b" >>}

\* Two places for a DIR, one of which is negative as an int.
LowAndHigh == {-5, 5}
=============================================================================
