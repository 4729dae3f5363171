------------------------------- MODULE MCPipe -------------------------------
EXTENDS Pipe

CONSTANTS p1, p2, p3

(* The shape of a shell pipeline: p1 reads what p3 writes. *)
MCHeld == [e \in Ends |-> IF e = "r" THEN {p1} ELSE {p3}]
=============================================================================
