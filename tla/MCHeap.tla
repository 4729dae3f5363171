------------------------------- MODULE MCHeap -------------------------------
(***************************************************************************)
(* The heap with pages of 64 bytes: a page splits once, and a request can  *)
(* need two new pages.                                                     *)
(***************************************************************************)
EXTENDS Heap
=============================================================================
