------------------------------ MODULE MCMemory ------------------------------
(***************************************************************************)
(* Two processes, tables of two pages, regions of two pages each, and so   *)
(* few frames that the second process hardly fits.                         *)
(***************************************************************************)
EXTENDS Memory
MCProcs == {1, 2}
MCImage == {0, 1}
=============================================================================
