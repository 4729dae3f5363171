-------------------------------- MODULE Lists -------------------------------
(***************************************************************************)
(* Singly linked lists as the kernel keeps them: a head pointer and one     *)
(* `next` field in every node, nil at the end.                             *)
(***************************************************************************)

(* What a walk from h along the pointers nx comes through: the least set of *)
(* nodes that contains h and with each node the next one.                   *)
Reach(Node, nil, h, nx) ==
    {n \in Node : \A S \in SUBSET Node :
        /\ h # nil => h \in S
        /\ \A m \in S : nx[m] # nil => nx[m] \in S
        => n \in S}

(* A walk that leaves n never comes back to it. *)
NoReturn(Node, nil, n, nx) == n \notin Reach(Node, nil, nx[n], nx)

(* The list that starts at h does not run in a circle. *)
Straight(Node, nil, h, nx) == \A n \in Reach(Node, nil, h, nx) : NoReturn(Node, nil, n, nx)

(* No list runs in a circle. *)
Acyclic(Node, nil, nx) == \A n \in Node : n \notin Reach(Node, nil, nx[n], nx)
=============================================================================
