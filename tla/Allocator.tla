----------------------------- MODULE Allocator ------------------------------
(***************************************************************************)
(* What kmalloc and kfree promise their callers: a region handed out does  *)
(* not touch any other region that is still held, and it is held until its *)
(* holder frees it.  Heap.tla implements this specification.               *)
(***************************************************************************)
EXTENDS Integers

VARIABLE regions    \* the regions held: <<first address, number of bytes>>

Disjoint(r, s) == r[1] + r[2] <= s[1] \/ s[1] + s[2] <= r[1]

Init == regions = {}

kmalloc(r) == /\ \A s \in regions : r # s /\ Disjoint(r, s)
              /\ regions' = regions \cup {r}

kfree(r) == /\ r \in regions
            /\ regions' = regions \ {r}

Next == \/ \E r \in regions' : kmalloc(r)
        \/ \E r \in regions : kfree(r)

Spec == Init /\ [][Next]_regions
=============================================================================
