------------------------------ MODULE MCSocket ------------------------------
(***************************************************************************)
(* A server that listens and two clients, four sockets, buffers of two     *)
(* bytes and writes of three, so that a writer blocks.                     *)
(***************************************************************************)
EXTENDS Socket
MCProcs == {1, 2, 3}
=============================================================================
