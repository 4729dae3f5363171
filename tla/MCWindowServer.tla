--------------------------- MODULE MCWindowServer ---------------------------
(***************************************************************************)
(* A screen of three pixels, places beside and across its edges, one       *)
(* client slot less than applications.                                     *)
(***************************************************************************)
EXTENDS WindowServer
MCPlaces == {-1, 1}
MCSpots == {0}
MCWidths == {2}
MCResizes == {0, 1, 3}
=============================================================================
