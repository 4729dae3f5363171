----------------------------- MODULE HeapProof ------------------------------
(***************************************************************************)
(* Proofs about Heap.tla, for every header and page size, every limit and  *)
(* every set of requests: the blocks stay apart and in order, free blocks  *)
(* are always merged, and the heap implements Allocator.                   *)
(***************************************************************************)
EXTENDS Heap, TLAPS

(* While a call is under way: the new pages of an expansion lie behind      *)
(* every block, and the only free neighbours are the block kfree is merging *)
(* and the ones it has still to look at.                                    *)
Underway ==
    /\ pc = "expand" => /\ old_end <= heap_end
                        /\ \A b \in blocks : b + HEADER + size[b] <= old_end
    /\ pc \in {"next", "prev"} => block \in blocks /\ free[block]

Unmerged ==
    \A b \in blocks :
      free[b] /\ FreeBlock(next[b]) =>
        \/ pc = "next" /\ (block = b \/ block = next[b])
        \/ pc = "prev" /\ block = next[b]

(* The inductive invariant. *)
Inv == TypeOK /\ BlocksApart /\ ListInOrder /\ Underway /\ Unmerged

-----------------------------------------------------------------------------
(* Rounding up to eight (kmalloc's alignment) never loses bytes. *)
LEMMA AlignedHolds ==
  ASSUME NEW n \in Nat
  PROVE  Aligned(n) \in Nat /\ n <= Aligned(n)
BY DEF Aligned

(* The heap heap_init leaves satisfies the invariant. *)
LEMMA InitInv == Init => Inv
BY HeapAssumption
   DEF Init, Inv, TypeOK, BlocksApart, ListInOrder, Underway, Unmerged, Link, NULL, FreeBlock

(* What the order of the list says about neighbours. *)
LEMMA Neighbours ==
  ASSUME TypeOK, ListInOrder
  PROVE  /\ \A a \in blocks : next[a] = NULL \/ (next[a] \in blocks /\ a < next[a])
         /\ \A a \in blocks : prev[a] = NULL \/ (prev[a] \in blocks /\ prev[a] < a)
         /\ \A a, c \in blocks : a < c => /\ next[a] # NULL /\ next[a] <= c
                                         /\ prev[c] # NULL /\ a <= prev[c]
         /\ \A a, c \in blocks : next[a] = c <=> prev[c] = a
<1>1. /\ blocks \in SUBSET Nat /\ next \in [blocks -> Link] /\ prev \in [blocks -> Link]
      /\ NULL \notin blocks
  BY DEF TypeOK, NULL
<1>2. /\ \A a \in blocks : next[a] = NULL \/ (next[a] \in blocks /\ a < next[a])
      /\ \A a \in blocks : prev[a] = NULL \/ (prev[a] \in blocks /\ prev[a] < a)
  BY <1>1 DEF ListInOrder, Link
<1>3. \A a, c \in blocks : a < c => /\ next[a] # NULL /\ next[a] <= c
                                   /\ prev[c] # NULL /\ a <= prev[c]
  BY <1>1 DEF ListInOrder
<1>4. ASSUME NEW a \in blocks, NEW c \in blocks, next[a] = c  PROVE prev[c] = a
  <2>1. a < c BY <1>1, <1>2, <1>4
  <2>2. prev[c] \in blocks /\ a <= prev[c] /\ prev[c] < c BY <2>1, <1>1, <1>2, <1>3
  <2>3. a < prev[c] => next[a] <= prev[c] BY <2>2, <1>3
  <2>4. a \in Nat /\ c \in Nat /\ prev[c] \in Nat BY <2>2, <1>1
  <2>. QED BY <2>2, <2>3, <2>4, <1>4
<1>5. ASSUME NEW a \in blocks, NEW c \in blocks, prev[c] = a  PROVE next[a] = c
  <2>1. a < c BY <1>1, <1>2, <1>5
  <2>2. next[a] \in blocks /\ next[a] <= c /\ a < next[a] BY <2>1, <1>1, <1>2, <1>3
  <2>3. next[a] < c => next[a] <= prev[c] BY <2>2, <1>3
  <2>4. a \in Nat /\ c \in Nat /\ next[a] \in Nat BY <2>2, <1>1
  <2>. QED BY <2>2, <2>3, <2>4, <1>5
<1>. QED BY <1>2, <1>3, <1>4, <1>5

(* A split keeps the list a list of disjoint blocks. *)
LEMMA SplitInv ==
  ASSUME Inv, pc = "idle", NEW n \in Nat, NEW s \in Nat, n <= s,
         NEW b \in blocks, free[b], size[b] >= s, WorthSplitting(b, s),
         Split(b, s),
         asked' = [a \in blocks' |-> IF a = b THEN n ELSE IF a \in blocks THEN asked[a] ELSE 0],
         UNCHANGED <<heap_end, pc, locals>>
  PROVE  Inv'
<1> DEFINE m == b + HEADER + s
<1> USE HeapAssumption
<1>0. /\ \A a \in blocks : next[a] = NULL \/ (next[a] \in blocks /\ a < next[a])
      /\ \A a \in blocks : prev[a] = NULL \/ (prev[a] \in blocks /\ prev[a] < a)
      /\ \A a, c \in blocks : a < c => /\ next[a] # NULL /\ next[a] <= c
                                      /\ prev[c] # NULL /\ a <= prev[c]
      /\ \A a, c \in blocks : next[a] = c <=> prev[c] = a
  BY Neighbours DEF Inv
<1>1. /\ blocks \in SUBSET Nat /\ 0 \in blocks /\ size \in [blocks -> Nat]
      /\ \A a \in blocks : a \in Nat /\ size[a] \in Nat
      /\ next \in [blocks -> Link] /\ prev \in [blocks -> Link] /\ free \in [blocks -> BOOLEAN]
      /\ asked \in [blocks -> Nat] /\ heap_end \in Nat /\ total_allocated \in Int
  BY DEF Inv, TypeOK
<1>2. m \in Nat /\ m \notin blocks /\ b < m
  BY <1>1 DEF Inv, BlocksApart, WorthSplitting
<1>3. /\ blocks' = blocks \cup {m}
      /\ \A a \in blocks : a # b => size'[a] = size[a] /\ free'[a] = free[a] /\ next'[a] = next[a]
      /\ \A a \in blocks : prev'[a] = IF a = next[b] THEN m ELSE prev[a]
      /\ size'[b] = s /\ free'[b] = FALSE /\ next'[b] = m
      /\ size'[m] = size[b] - s - HEADER /\ free'[m] = TRUE /\ next'[m] = next[b] /\ prev'[m] = b
      /\ \A a \in blocks : asked'[a] = IF a = b THEN n ELSE asked[a]
      /\ asked'[m] = 0
  BY <1>2, <1>1 DEF Split
<1>4. TypeOK'
  <2>0. size[b] - s - HEADER \in Nat BY <1>1 DEF WorthSplitting
  <2>1. /\ size' \in [blocks' -> Nat]
        /\ free' \in [blocks' -> BOOLEAN]
        /\ asked' \in [blocks' -> Nat]
    BY <1>1, <1>2, <2>0 DEF Split
  <2>2. next' \in [blocks' -> Link'] /\ prev' \in [blocks' -> Link']
    BY <1>1, <1>2, <1>3 DEF Split, Link
  <2>3. total_allocated' \in Int BY <1>1 DEF Split
  <2>. QED BY <1>1, <1>2, <1>3, <2>1, <2>2, <2>3 DEF Inv, TypeOK, locals
<1>5. BlocksApart'
  BY <1>1, <1>2, <1>3 DEF Inv, BlocksApart, WorthSplitting
<1>6. ListInOrder'
  <2>1. \A a \in blocks : a < m <=> a <= b
    BY <1>1, <1>2 DEF Inv, BlocksApart, WorthSplitting
  <2>2. NULL \notin blocks' /\ m # NULL BY <1>1, <1>2, <1>3 DEF NULL
  <2>3. ASSUME NEW x \in blocks'
        PROVE  /\ next'[x] # NULL => x < next'[x]
               /\ prev'[x] # NULL => prev'[x] < x
    <3>1. CASE x = m
      <4>1. next[b] \in blocks => ~(next[b] < m)
        <5>1. next[b] \in blocks => b < next[b] /\ next[b] \in Nat /\ b \in Nat
          <6>1. b \in Nat BY <1>1
          <6>2. next[b] \in blocks => next[b] \in Nat BY <1>1
          <6>3. next[b] \in blocks => next[b] # NULL BY <1>3, <2>2
          <6>4. next[b] # NULL => b < next[b] BY <1>0
          <6>. QED BY <6>1, <6>2, <6>3, <6>4
        <5>. QED BY <5>1, <2>1
      <4>2. next[b] \in blocks => next[b] \in Nat /\ next[b] # m BY <1>1, <1>2
      <4>. QED BY <3>1, <4>1, <4>2, <1>0, <1>2, <1>3
    <3>2. CASE x = b
      <4>1. b # next[b] BY <2>2, <1>0, <1>1, <1>3
      <4>2. next'[b] = m /\ prev'[b] = prev[b] BY <4>1, <1>3
      <4>. QED BY <3>2, <4>2, <1>0, <1>2
    <3>3. CASE x \in blocks /\ x # b
      <4>1. x = next[b] => m < x BY <3>3, <2>1, <1>0, <1>1, <1>2
      <4>. QED BY <3>3, <4>1, <1>0, <1>3
    <3>. QED BY <3>1, <3>2, <3>3, <1>3
  <2>4. ASSUME NEW x \in blocks', NEW y \in blocks', y > x
        PROVE  next'[x] # NULL /\ next'[x] <= y
    <3>0. x \in Nat /\ y \in Nat BY <1>1, <1>2, <1>3
    <3>1. CASE x = m
      <4>1. y \in blocks /\ b < y BY <3>0, <3>1, <2>1, <2>4, <1>1, <1>2, <1>3
      <4>. QED BY <3>1, <4>1, <1>0, <1>3
    <3>2. CASE x = b
      <4>1. y = m \/ (y \in blocks /\ ~(y < m)) BY <3>2, <3>0, <2>1, <2>4, <1>1, <1>3
      <4>. QED BY <3>0, <3>2, <4>1, <2>2, <1>2, <1>3
    <3>3. CASE x \in blocks /\ x # b /\ y = m
      <4>1. x < b BY <3>0, <3>3, <2>1, <2>4, <1>1
      <4>2. next[x] # NULL /\ next[x] <= b /\ next[x] \in Nat BY <4>1, <3>3, <1>0, <1>1
      <4>. QED BY <3>3, <4>2, <1>1, <1>2, <1>3
    <3>4. CASE x \in blocks /\ x # b /\ y \in blocks
      BY <3>4, <2>4, <1>0, <1>3
    <3>. QED BY <3>1, <3>2, <3>3, <3>4, <1>3
  <2>5. ASSUME NEW x \in blocks', NEW y \in blocks', y < x
        PROVE  prev'[x] # NULL /\ y <= prev'[x]
    <3>0. x \in Nat /\ y \in Nat /\ b \in Nat BY <1>1, <1>2, <1>3
    <3>1. CASE x = m
      BY <3>0, <3>1, <2>1, <2>2, <2>5, <1>1, <1>2, <1>3
    <3>2. CASE x \in blocks /\ x = next[b]
      <4>1. ASSUME y \in blocks PROVE y <= b
        <5>1. prev[x] = b BY <3>2, <1>0
        <5>. QED BY <5>1, <4>1, <3>2, <2>5, <1>0
      <4>. QED BY <3>0, <3>2, <4>1, <2>2, <1>2, <1>3
    <3>3. CASE x \in blocks /\ x # next[b] /\ y \in blocks
      BY <3>3, <2>5, <1>0, <1>3
    <3>4. CASE x \in blocks /\ x # next[b] /\ y = m
      <4>1. b < x BY <3>0, <3>4, <2>1, <2>5, <1>2
      <4>2. next[b] \in blocks /\ next[b] <= x /\ next[b] \in Nat BY <4>1, <3>4, <1>0, <1>1
      <4>3. next[b] < x BY <3>0, <3>4, <4>2
      <4>4. prev[x] # NULL /\ next[b] <= prev[x] BY <4>2, <4>3, <3>4, <1>0
      <4>5. prev[x] \in Nat
        <5>1. prev[x] \in blocks BY <4>4, <3>4, <1>0
        <5>. QED BY <5>1, <1>1
      <4>6. b < next[b] BY <4>2, <2>2, <1>0, <1>3
      <4>7. ~(next[b] < m) BY <4>2, <4>6, <3>0, <2>1
      <4>. QED BY <3>4, <4>2, <4>4, <4>5, <4>7, <1>2, <1>3
    <3>. QED BY <3>1, <3>2, <3>3, <3>4, <1>3
  <2>. QED BY <2>3, <2>4, <2>5 DEF ListInOrder, NULL
<1>7. Underway' /\ Unmerged'
  <2>1. Underway' BY DEF Underway, locals
  <2>2. \A a \in blocks : free[a] => ~(next[a] \in blocks /\ free[next[a]])
    BY <1>1 DEF Inv, Unmerged, FreeBlock, NULL
  <2>3. ASSUME NEW x \in blocks', free'[x], next'[x] # NULL, free'[next'[x]]
        PROVE  FALSE
    <3>1. x # b BY <2>3, <1>3
    <3>2. CASE x = m BY <3>2, <2>2, <2>3, <1>0, <1>2, <1>3
    <3>3. CASE x \in blocks /\ x # b
      <4>1. next[x] \in blocks /\ free[x] BY <3>3, <2>3, <1>0, <1>3
      <4>2. free'[next[x]] BY <3>3, <2>3, <1>3
      <4>3. next[x] # b BY <4>2, <1>3
      <4>. QED BY <4>1, <4>2, <4>3, <3>3, <2>2, <1>3
    <3>. QED BY <3>1, <3>2, <3>3, <1>3
  <2>. QED BY <2>1, <2>3 DEF Unmerged, FreeBlock, NULL
<1>. QED BY <1>4, <1>5, <1>6, <1>7 DEF Inv

(* A block that is not worth splitting is handed out as it is. *)
LEMMA TakeWholeInv ==
  ASSUME Inv, pc = "idle", NEW n \in Nat, NEW b \in blocks, n <= size[b],
         TakeWhole(b),
         asked' = [a \in blocks' |-> IF a = b THEN n ELSE IF a \in blocks THEN asked[a] ELSE 0],
         UNCHANGED <<heap_end, pc, locals>>
  PROVE  Inv'
<1>1. TypeOK'
  BY DEF Inv, TypeOK, TakeWhole, locals, Link
<1>2. BlocksApart' /\ ListInOrder'
  BY DEF Inv, TypeOK, TakeWhole, BlocksApart, ListInOrder
<1>3. Underway' /\ Unmerged'
  BY DEF Inv, TypeOK, TakeWhole, Underway, Unmerged, FreeBlock, Link, locals
<1>. QED BY <1>1, <1>2, <1>3 DEF Inv

(* kmalloc that finds a block keeps the invariant, with and without a       *)
(* split.                                                                   *)
LEMMA KmallocInv ==
  ASSUME Inv, NEW n \in Requests, kmalloc(n)
  PROVE  Inv'
<1>1. n \in Nat /\ Aligned(n) \in Nat /\ n <= Aligned(n)
  BY AlignedHolds, HeapAssumption
<1>2. PICK b \in Fits(Aligned(n)) :
         /\ IF WorthSplitting(b, Aligned(n)) THEN Split(b, Aligned(n)) ELSE TakeWhole(b)
         /\ asked' = [a \in blocks' |-> IF a = b THEN n ELSE IF a \in blocks THEN asked[a] ELSE 0]
  BY DEF kmalloc
<1>3. b \in blocks /\ free[b] /\ size[b] >= Aligned(n) /\ size[b] \in Nat
  BY <1>2 DEF Fits, Inv, TypeOK
<1>4. pc = "idle" /\ UNCHANGED <<heap_end, pc, locals>>
  BY DEF kmalloc
<1>5. CASE WorthSplitting(b, Aligned(n))
  BY <1>1, <1>2, <1>3, <1>4, <1>5, SplitInv
<1>6. CASE ~WorthSplitting(b, Aligned(n))
  <2>1. n <= size[b] BY <1>1, <1>3
  <2>. QED BY <1>1, <1>2, <1>3, <1>4, <1>6, <2>1, TakeWholeInv
<1>. QED BY <1>5, <1>6

(* The new block lies in pages no other block reaches into. *)
LEMMA AppendInv ==
  ASSUME Inv, KmallocAppend
  PROVE  Inv'
<1> USE HeapAssumption
<1>0. /\ \A a \in blocks : next[a] = NULL \/ (next[a] \in blocks /\ a < next[a])
      /\ \A a \in blocks : prev[a] = NULL \/ (prev[a] \in blocks /\ prev[a] < a)
      /\ \A a, c \in blocks : a < c => /\ next[a] # NULL /\ next[a] <= c
                                      /\ prev[c] # NULL /\ a <= prev[c]
      /\ \A a, c \in blocks : next[a] = c <=> prev[c] = a
  BY Neighbours DEF Inv
<1>1. /\ blocks \in SUBSET Nat /\ 0 \in blocks /\ size \in [blocks -> Nat]
      /\ \A a \in blocks : a \in Nat /\ size[a] \in Nat
      /\ next \in [blocks -> Link] /\ prev \in [blocks -> Link] /\ free \in [blocks -> BOOLEAN]
      /\ asked \in [blocks -> Nat] /\ heap_end \in Nat /\ total_allocated \in Int
      /\ old_end \in Nat /\ request \in Nat
  BY DEF Inv, TypeOK
<1>2. Aligned(request) \in Nat /\ request <= Aligned(request)
  BY <1>1, AlignedHolds
<1>3. \A b \in blocks : b < old_end /\ b + HEADER + size[b] <= old_end
  BY <1>1 DEF Inv, Underway, KmallocAppend
<1>4. PICK last \in blocks :
         /\ next[last] = NULL
         /\ next' = [b \in blocks' |-> IF b = old_end THEN NULL
                                       ELSE IF b = last THEN old_end ELSE next[b]]
         /\ prev' = [b \in blocks' |-> IF b = old_end THEN last ELSE prev[b]]
  BY DEF KmallocAppend
<1>5. /\ blocks' = blocks \cup {old_end}
      /\ \A a \in blocks : size'[a] = size[a] /\ free'[a] = free[a] /\ prev'[a] = prev[a] /\ asked'[a] = asked[a]
      /\ \A a \in blocks : next'[a] = IF a = last THEN old_end ELSE next[a]
      /\ size'[old_end] = Aligned(request) /\ free'[old_end] = FALSE
      /\ next'[old_end] = NULL /\ prev'[old_end] = last
      /\ asked'[old_end] = request
      /\ old_end + HEADER + Aligned(request) <= heap_end /\ heap_end' = heap_end
      /\ pc' = "idle"
  <2>0. blocks' = blocks \cup {old_end} /\ old_end \notin blocks
    BY <1>1, <1>3 DEF KmallocAppend
  <2>1. /\ \A a \in blocks : prev'[a] = prev[a]
        /\ \A a \in blocks : next'[a] = IF a = last THEN old_end ELSE next[a]
        /\ next'[old_end] = NULL /\ prev'[old_end] = last
    BY <1>4, <2>0
  <2>2. /\ \A a \in blocks : size'[a] = size[a] /\ free'[a] = free[a] /\ asked'[a] = asked[a]
        /\ size'[old_end] = Aligned(request) /\ free'[old_end] = FALSE
        /\ asked'[old_end] = request
    BY <2>0 DEF KmallocAppend
  <2>3. old_end + HEADER + Aligned(request) <= heap_end /\ heap_end' = heap_end /\ pc' = "idle"
    BY <1>1, <1>2 DEF KmallocAppend, Needed, Return
  <2>. QED BY <2>0, <2>1, <2>2, <2>3
<1>6. TypeOK'
  <2>1. size' \in [blocks' -> Nat] /\ free' \in [blocks' -> BOOLEAN] /\ asked' \in [blocks' -> Nat]
    BY <1>1, <1>2, <1>5 DEF KmallocAppend
  <2>2. next' \in [blocks' -> Link'] /\ prev' \in [blocks' -> Link']
    BY <1>1, <1>4, <1>5 DEF Link
  <2>3. total_allocated' \in Int /\ heap_end' = heap_end BY <1>1, <1>2 DEF KmallocAppend
  <2>4. pc' = "idle" /\ request' = 0 /\ old_end' = 0 /\ block' = 0 BY DEF KmallocAppend, Return
  <2>5. blocks' \in SUBSET Nat /\ 0 \in blocks' BY <1>1, <1>5
  <2>. QED BY <1>1, <2>1, <2>2, <2>3, <2>4, <2>5 DEF TypeOK
<1>7. BlocksApart'
  BY <1>1, <1>2, <1>3, <1>5 DEF Inv, BlocksApart
<1>8. ListInOrder'
  <2>1. \A a \in blocks : a <= last BY <1>0, <1>1, <1>4
  <2>2. NULL \notin blocks' /\ old_end # NULL BY <1>1, <1>5 DEF NULL
  <2>3. ASSUME NEW x \in blocks'
        PROVE  /\ next'[x] # NULL => x < next'[x]
               /\ prev'[x] # NULL => prev'[x] < x
    BY <1>0, <1>1, <1>3, <1>5, <2>1, <2>2
  <2>4. ASSUME NEW x \in blocks', NEW y \in blocks', y > x
        PROVE  next'[x] # NULL /\ next'[x] <= y
    <3>0. x \in blocks BY <2>4, <1>1, <1>3, <1>5
    <3>1. CASE x = last BY <3>1, <3>0, <2>1, <2>2, <2>4, <1>1, <1>5
    <3>2. CASE x # last
      <4>1. x < last BY <3>0, <3>2, <2>1, <1>1
      <4>2. next[x] # NULL /\ next[x] <= last /\ next[x] \in Nat BY <4>1, <3>0, <1>0, <1>1
      <4>3. CASE y \in blocks BY <4>3, <3>0, <3>2, <2>4, <1>0, <1>5
      <4>4. CASE y = old_end BY <4>2, <4>4, <3>0, <3>2, <1>1, <1>3, <1>5
      <4>. QED BY <4>3, <4>4, <1>5
    <3>. QED BY <3>1, <3>2
  <2>5. ASSUME NEW x \in blocks', NEW y \in blocks', y < x
        PROVE  prev'[x] # NULL /\ y <= prev'[x]
    BY <1>0, <1>1, <1>3, <1>5, <2>1, <2>2, <2>5
  <2>. QED BY <2>3, <2>4, <2>5 DEF ListInOrder, NULL
<1>9. Underway' /\ Unmerged'
  <2>1. Underway' BY <1>5 DEF Underway
  <2>2. \A a \in blocks : free[a] => ~(next[a] \in blocks /\ free[next[a]])
    BY <1>1 DEF Inv, Unmerged, FreeBlock, NULL, KmallocAppend
  <2>3. ASSUME NEW x \in blocks', free'[x], next'[x] # NULL, free'[next'[x]]
        PROVE  FALSE
    <3>1. x \in blocks /\ free[x] BY <2>3, <1>5
    <3>2. x # last BY <3>1, <2>3, <1>5
    <3>3. next[x] \in blocks /\ free'[next[x]] BY <3>1, <3>2, <2>3, <1>0, <1>5
    <3>. QED BY <3>1, <3>3, <2>2, <1>5
  <2>. QED BY <2>1, <2>3 DEF Unmerged, FreeBlock, NULL
<1>. QED BY <1>6, <1>7, <1>8, <1>9 DEF Inv

(* Growing the heap, page by page or in vain, keeps the invariant. *)
LEMMA ExpandInv ==
  ASSUME Inv, (\E n \in Requests : KmallocExpand(n)) \/ ExpandPage \/ ExpandFails
  PROVE  Inv'
<1>1. ASSUME NEW n \in Requests, KmallocExpand(n)  PROVE Inv'
  BY <1>1, HeapAssumption DEF Inv, TypeOK, BlocksApart, ListInOrder, Underway, Unmerged, FreeBlock, Link, KmallocExpand, fields
<1>2. CASE ExpandPage
  BY <1>2, HeapAssumption DEF Inv, TypeOK, BlocksApart, ListInOrder, Underway, Unmerged, FreeBlock, Link, ExpandPage, fields, locals
<1>3. CASE ExpandFails
  BY <1>3, HeapAssumption DEF Inv, TypeOK, BlocksApart, ListInOrder, Underway, Unmerged, FreeBlock, Link, ExpandFails, Return, fields
<1>. QED BY <1>1, <1>2, <1>3

(* Marking a block as free keeps it. *)
LEMMA KfreeInv ==
  ASSUME Inv, NEW b \in blocks, kfree(b)
  PROVE  Inv'
<1>1. TypeOK'
  BY DEF Inv, TypeOK, kfree, Link
<1>2. BlocksApart' /\ ListInOrder'
  BY DEF Inv, TypeOK, kfree, BlocksApart, ListInOrder
<1>3. Underway' /\ Unmerged'
  BY DEF Inv, TypeOK, kfree, Underway, Unmerged, FreeBlock, Link
<1>. QED BY <1>1, <1>2, <1>3 DEF Inv

(* Dropping the header behind b keeps the list in order and the blocks apart. *)
LEMMA AbsorbInv ==
  ASSUME Inv, NEW b \in blocks, NEW c \in blocks, next[b] = c, Absorb(b, c), heap_end' = heap_end,
         free[b], free[c]
  PROVE  /\ blocks' \in SUBSET Nat /\ 0 \in blocks'
         /\ size' \in [blocks' -> Nat] /\ free' \in [blocks' -> BOOLEAN]
         /\ next' \in [blocks' -> Link'] /\ prev' \in [blocks' -> Link']
         /\ asked' \in [blocks' -> Nat]
         /\ BlocksApart' /\ ListInOrder'
<1> USE HeapAssumption
<1>0. /\ \A a \in blocks : next[a] = NULL \/ (next[a] \in blocks /\ a < next[a])
      /\ \A a \in blocks : prev[a] = NULL \/ (prev[a] \in blocks /\ prev[a] < a)
      /\ \A a, d \in blocks : a < d => /\ next[a] # NULL /\ next[a] <= d
                                      /\ prev[d] # NULL /\ a <= prev[d]
      /\ \A a, d \in blocks : next[a] = d <=> prev[d] = a
  BY Neighbours DEF Inv
<1>1. /\ blocks \in SUBSET Nat /\ 0 \in blocks /\ size \in [blocks -> Nat]
      /\ \A a \in blocks : a \in Nat /\ size[a] \in Nat
      /\ next \in [blocks -> Link] /\ prev \in [blocks -> Link] /\ free \in [blocks -> BOOLEAN]
      /\ asked \in [blocks -> Nat] /\ heap_end \in Nat
  BY DEF Inv, TypeOK
<1>2. b < c /\ \A a \in blocks : a <= b \/ c <= a
  BY <1>1 DEF Inv, ListInOrder, NULL
<1>3. /\ blocks' = blocks \ {c} /\ b \in blocks'
      /\ \A a \in blocks' : size'[a] = IF a = b THEN size[b] + HEADER + size[c] ELSE size[a]
      /\ \A a \in blocks' : free'[a] = free[a] /\ asked'[a] = asked[a]
      /\ \A a \in blocks' : next'[a] = IF a = b THEN next[c] ELSE next[a]
      /\ \A a \in blocks' : prev'[a] = IF a = next[c] THEN b ELSE prev[a]
  BY <1>1, <1>2 DEF Absorb
<1>4. /\ \A a \in blocks : next[a] = c => a = b
      /\ \A a \in blocks : prev[a] = c => a = next[c]
      /\ next[c] # c
  BY <1>0, <1>1, <1>2 DEF NULL
<1>5. /\ blocks' \in SUBSET Nat /\ 0 \in blocks'
      /\ size' \in [blocks' -> Nat] /\ free' \in [blocks' -> BOOLEAN]
      /\ next' \in [blocks' -> Link'] /\ prev' \in [blocks' -> Link']
      /\ asked' \in [blocks' -> Nat]
  BY <1>1, <1>2, <1>3, <1>4 DEF Link, Absorb, NULL
<1>6. BlocksApart'
  BY <1>1, <1>2, <1>3 DEF Inv, BlocksApart
<1>7. ListInOrder'
  <2>1. NULL \notin blocks /\ NULL \notin blocks' BY <1>1, <1>3 DEF NULL
  <2>2. ASSUME NEW x \in blocks'
        PROVE  /\ next'[x] # NULL => x < next'[x]
               /\ prev'[x] # NULL => prev'[x] < x
    <3>1. CASE x = b
      <4>1. next[c] # NULL => c < next[c] /\ next[c] \in Nat BY <1>0, <1>1
      <4>2. b # next[c] /\ b \in Nat /\ c \in Nat BY <4>1, <2>1, <1>1, <1>2
      <4>3. next'[b] = next[c] /\ prev'[b] = prev[b] BY <4>2, <1>3
      <4>. QED BY <3>1, <4>1, <4>2, <4>3, <1>0, <1>2
    <3>2. CASE x = next[c]
      <4>1. c < x BY <3>2, <2>1, <1>0, <1>3
      <4>2. x \in Nat /\ b \in Nat /\ c \in Nat /\ x # b BY <4>1, <1>1, <1>2, <1>3
      <4>. QED BY <4>1, <4>2, <3>2, <1>0, <1>2, <1>3
    <3>3. CASE x # b /\ x # next[c] BY <3>3, <1>0, <1>3
    <3>. QED BY <3>1, <3>2, <3>3
  <2>3. ASSUME NEW x \in blocks', NEW y \in blocks', y > x
        PROVE  next'[x] # NULL /\ next'[x] <= y
    BY <1>0, <1>1, <1>2, <1>3, <1>4, <2>1, <2>3
  <2>4. ASSUME NEW x \in blocks', NEW y \in blocks', y < x
        PROVE  prev'[x] # NULL /\ y <= prev'[x]
    BY <1>0, <1>1, <1>2, <1>3, <1>4, <2>1, <2>4
  <2>. QED BY <2>2, <2>3, <2>4 DEF ListInOrder, NULL
<1>. QED BY <1>5, <1>6, <1>7

(* Merging with the block behind keeps it. *)
LEMMA MergeNextInv ==
  ASSUME Inv, MergeNext
  PROVE  Inv'
<1>1. block \in blocks /\ free[block] /\ pc = "next" /\ pc' = "prev"
  BY DEF MergeNext, Inv, Underway
<1>2. /\ next \in [blocks -> Link] /\ blocks \in SUBSET Nat /\ free \in [blocks -> BOOLEAN]
      /\ \A a \in blocks : a \in Nat
      /\ UNCHANGED <<heap_end, total_allocated, request, old_end, block>>
  BY DEF MergeNext, Inv, TypeOK, locals
<1>3. CASE FreeBlock(next[block])
  <2> DEFINE c == next[block]
  <2>1. c \in blocks /\ free[c] /\ block < c
    BY <1>1, <1>2, <1>3, Neighbours DEF FreeBlock, Inv
  <2>2. Absorb(block, c) BY <1>3 DEF MergeNext
  <2>3. /\ blocks' \in SUBSET Nat /\ 0 \in blocks'
        /\ size' \in [blocks' -> Nat] /\ free' \in [blocks' -> BOOLEAN]
        /\ next' \in [blocks' -> Link'] /\ prev' \in [blocks' -> Link']
        /\ asked' \in [blocks' -> Nat]
        /\ BlocksApart' /\ ListInOrder'
    BY <1>1, <1>2, <2>1, <2>2, AbsorbInv
  <2>4. TypeOK' BY <1>1, <1>2, <2>3 DEF Inv, TypeOK
  <2>5. block # c /\ c \in Nat /\ block \in Nat
    <3>1. c \in Nat BY <1>2, <2>1
    <3>2. block \in Nat BY <1>2, <1>1
    <3> HIDE DEF c
    <3>. QED BY <3>1, <3>2, <2>1
  <2>6. /\ blocks' = blocks \ {c} /\ block \in blocks'
        /\ \A a \in blocks' : free'[a] = free[a]
        /\ \A a \in blocks' : next'[a] = IF a = block THEN next[c] ELSE next[a]
    BY <1>1, <2>2, <2>5 DEF Absorb
  <2>7. Underway' BY <1>1, <1>2, <2>6 DEF Underway
  <2>8. ASSUME NEW x \in blocks', free'[x], next'[x] # NULL, free'[next'[x]]
        PROVE  next'[x] = block
    <3>1. next'[x] \in blocks' BY <2>3, <2>8 DEF Link
    <3>2. free[x] /\ free[next'[x]] BY <3>1, <2>6, <2>8
    <3>3. x # block
      <4>1. SUFFICES ASSUME x = block PROVE FALSE OBVIOUS
      <4>2. next[c] \in blocks /\ next[c] # NULL /\ free[next[c]] BY <4>1, <3>1, <3>2, <2>6, <2>8
      <4>3. block # next[c]
        BY <4>2, <2>1, <1>2, <2>5, Neighbours DEF Inv
      <4>. QED BY <4>2, <4>3, <2>1, <2>5, <1>1 DEF Inv, Unmerged, FreeBlock
    <3>4. next'[x] = next[x] /\ x \in blocks BY <3>3, <2>6
    <3>. QED BY <3>2, <3>3, <3>4, <2>8, <1>1 DEF Inv, Unmerged, FreeBlock
  <2>9. Unmerged' BY <1>1, <1>2, <2>8 DEF Unmerged, FreeBlock, NULL
  <2>. QED BY <2>3, <2>4, <2>7, <2>9 DEF Inv
<1>4. CASE ~FreeBlock(next[block])
  <2>1. UNCHANGED <<blocks, size, free, next, prev, asked>>
    BY <1>4 DEF MergeNext, fields
  <2>2. TypeOK' /\ BlocksApart' /\ ListInOrder'
    BY <1>1, <1>2, <2>1 DEF Inv, TypeOK, BlocksApart, ListInOrder, Link
  <2>3. Underway' BY <1>1, <1>2, <2>1 DEF Underway
  <2>4. Unmerged' BY <1>1, <1>2, <1>4, <2>1 DEF Inv, Unmerged, FreeBlock
  <2>. QED BY <2>2, <2>3, <2>4 DEF Inv
<1>. QED BY <1>3, <1>4

(* Merging with the block in front keeps it. *)
LEMMA MergePrevInv ==
  ASSUME Inv, MergePrev
  PROVE  Inv'
<1>1. block \in blocks /\ free[block] /\ pc = "prev" /\ pc' = "idle"
  BY DEF MergePrev, Return, Inv, Underway
<1>2. /\ next \in [blocks -> Link] /\ blocks \in SUBSET Nat /\ free \in [blocks -> BOOLEAN]
      /\ \A a \in blocks : a \in Nat
      /\ UNCHANGED <<heap_end, total_allocated>>
      /\ request' = 0 /\ old_end' = 0 /\ block' = 0
  BY DEF MergePrev, Return, Inv, TypeOK
<1>3. Underway' BY <1>1 DEF Underway
<1>4. CASE FreeBlock(prev[block])
  <2> DEFINE p == prev[block]
  <2>1. p \in blocks /\ free[p] /\ p < block /\ next[p] = block
    BY <1>1, <1>2, <1>4, Neighbours DEF FreeBlock, Inv
  <2>2. Absorb(p, block) BY <1>4 DEF MergePrev
  <2>3. /\ blocks' \in SUBSET Nat /\ 0 \in blocks'
        /\ size' \in [blocks' -> Nat] /\ free' \in [blocks' -> BOOLEAN]
        /\ next' \in [blocks' -> Link'] /\ prev' \in [blocks' -> Link']
        /\ asked' \in [blocks' -> Nat]
        /\ BlocksApart' /\ ListInOrder'
    BY <1>1, <1>2, <2>1, <2>2, AbsorbInv
  <2>4. TypeOK' BY <1>1, <1>2, <2>3 DEF Inv, TypeOK
  <2>5. p # block /\ p \in Nat /\ block \in Nat
    <3>1. p \in Nat BY <1>2, <2>1
    <3>2. block \in Nat BY <1>2, <1>1
    <3> HIDE DEF p
    <3>. QED BY <3>1, <3>2, <2>1
  <2>6. /\ blocks' = blocks \ {block} /\ p \in blocks'
        /\ \A a \in blocks' : free'[a] = free[a]
        /\ \A a \in blocks' : next'[a] = IF a = p THEN next[block] ELSE next[a]
    BY <2>1, <2>2, <2>5 DEF Absorb
  <2>7. ASSUME NEW x \in blocks', free'[x], next'[x] # NULL, free'[next'[x]]
        PROVE  FALSE
    <3>1. next'[x] \in blocks' BY <2>3, <2>7 DEF Link
    <3>2. free[x] /\ free[next'[x]] /\ next'[x] # block /\ x \in blocks BY <3>1, <2>6, <2>7
    <3>3. CASE x = p
      BY <3>2, <3>3, <2>6, <2>7, <1>1 DEF Inv, Unmerged, FreeBlock
    <3>4. CASE x # p
      BY <3>2, <3>4, <2>6, <2>7, <1>1 DEF Inv, Unmerged, FreeBlock
    <3>. QED BY <3>3, <3>4
  <2>8. Unmerged' BY <2>7 DEF Unmerged, FreeBlock, NULL
  <2>. QED BY <1>3, <2>3, <2>4, <2>8 DEF Inv
<1>5. CASE ~FreeBlock(prev[block])
  <2>1. UNCHANGED <<blocks, size, free, next, prev, asked>>
    BY <1>5 DEF MergePrev, fields
  <2>2. TypeOK' /\ BlocksApart' /\ ListInOrder'
    BY <1>1, <1>2, <2>1 DEF Inv, TypeOK, BlocksApart, ListInOrder, Link
  <2>3. ASSUME NEW x \in blocks, free[x], next[x] # NULL, free[next[x]] PROVE FALSE
    <3>1. next[x] = block BY <2>3, <1>1 DEF Inv, Unmerged, FreeBlock
    <3>2. prev[block] = x BY <3>1, <1>1, Neighbours DEF Inv
    <3>. QED BY <3>2, <2>3, <1>2, <1>5 DEF FreeBlock, NULL
  <2>4. Unmerged' BY <2>1, <2>3 DEF Unmerged, FreeBlock, NULL
  <2>. QED BY <1>3, <2>2, <2>4 DEF Inv
<1>. QED BY <1>4, <1>5

(* So does every step. *)
LEMMA NextInv == Inv /\ [Next]_vars => Inv'
<1> SUFFICES ASSUME Inv, [Next]_vars PROVE Inv'
  OBVIOUS
<1>1. ASSUME NEW n \in Requests, kmalloc(n) PROVE Inv'
  BY <1>1, KmallocInv
<1>2. CASE (\E n \in Requests : KmallocExpand(n)) \/ ExpandPage \/ ExpandFails
  BY <1>2, ExpandInv
<1>3. CASE KmallocAppend
  BY <1>3, AppendInv
<1>4. ASSUME NEW b \in blocks, kfree(b) PROVE Inv'
  BY <1>4, KfreeInv
<1>5. CASE MergeNext
  BY <1>5, MergeNextInv
<1>6. CASE MergePrev
  BY <1>6, MergePrevInv
<1>7. CASE UNCHANGED vars
  BY <1>7 DEF vars, fields, locals, Inv, TypeOK, BlocksApart, ListInOrder, Underway, Unmerged, FreeBlock, Link
<1>. QED BY <1>1, <1>2, <1>3, <1>4, <1>5, <1>6, <1>7 DEF Next

(* The invariant always holds. *)
LEMMA InvHolds == Spec => []Inv
BY InitInv, NextInv, PTL DEF Spec

(* The fields of the heap keep their types, and every link leads to a block *)
(* that is still in the list.                                               *)
THEOREM HeapTypes == Spec => []TypeOK
BY InvHolds, PTL DEF Inv

(* No two blocks of the heap overlap, none reaches past the mapped pages,   *)
(* and each holds its request: kmalloc's "shouldn't happen" tests are dead. *)
THEOREM HeapApart == Spec => []BlocksApart
BY InvHolds, PTL DEF Inv

(* The list of the heap stays in address order with matching back links. *)
THEOREM HeapOrdered == Spec => []ListInOrder
BY InvHolds, PTL DEF Inv

(* Between calls no two neighbouring blocks are both free. *)
THEOREM HeapMerged == Spec => []FullyMerged
<1>1. Inv => FullyMerged
  BY DEF Inv, Unmerged, FullyMerged
<1>. QED BY <1>1, InvHolds, PTL

(* The block list is linked, ordered and merged, for every page size, limit *)
(* and set of requests.                                                     *)
THEOREM HeapListSound == Spec => []BlockListIsSound
<1>1. BlockListIsSound <=> TypeOK /\ ListInOrder /\ FullyMerged
  BY DEF BlockListIsSound
<1>. QED BY <1>1, HeapTypes, HeapOrdered, HeapMerged, PTL

-----------------------------------------------------------------------------
(* The refinement.  A step that leaves the blocks in use and their requests  *)
(* alone is a stutter of the allocator.                                      *)
Used == {b \in blocks : ~free[b]}

(* A step that changes no block in use changes no region held. *)
LEMMA SameHeld ==
  ASSUME Used' = Used, \A b \in Used : asked'[b] = asked[b]
  PROVE  UNCHANGED held
BY DEF held, Used

(* Putting block b, which was not in use, in use for n bytes. *)
LEMMA HandsOut ==
  ASSUME Inv, Inv', NEW b, NEW n \in Nat, b \notin Used,
         Used' = Used \cup {b}, asked'[b] = n,
         \A a \in Used : asked'[a] = asked[a]
  PROVE  Promise!Next
<1> USE HeapAssumption
<1> DEFINE r == <<b + HEADER, n>>
<1>1. held' = held \cup {r}
  BY DEF held, Used
<1>2. ASSUME NEW a \in Used
      PROVE  r # <<a + HEADER, asked[a]>> /\ Promise!Disjoint(r, <<a + HEADER, asked[a]>>)
  <2>1. a \in blocks' /\ b \in blocks' /\ a # b /\ asked'[a] = asked[a]
    BY DEF Used
  <2>2. a \in Nat /\ b \in Nat /\ size'[a] \in Nat /\ size'[b] \in Nat /\ asked[a] \in Nat
    BY <2>1 DEF Inv, TypeOK
  <2>3. n <= size'[b] /\ asked[a] <= size'[a]
    BY <2>1 DEF Inv, BlocksApart
  <2>4. a + HEADER + size'[a] <= b \/ b + HEADER + size'[b] <= a
    BY <2>1, <2>2 DEF Inv, BlocksApart
  <2>. QED BY <2>1, <2>2, <2>3, <2>4 DEF Promise!Disjoint
<1>3. \A s \in held : r # s /\ Promise!Disjoint(r, s)
  BY <1>2 DEF held, Used
<1>4. Promise!kmalloc(r) /\ r \in held'
  BY <1>1, <1>3 DEF Promise!kmalloc
<1>. QED BY <1>4 DEF Promise!Next

(* kmalloc that finds a block hands out a region nobody holds. *)
LEMMA KmallocRefines ==
  ASSUME Inv, Inv', NEW n \in Requests, kmalloc(n)
  PROVE  Promise!Next
<1>1. n \in Nat BY HeapAssumption
<1>2. PICK b \in Fits(Aligned(n)) :
         /\ IF WorthSplitting(b, Aligned(n)) THEN Split(b, Aligned(n)) ELSE TakeWhole(b)
         /\ asked' = [a \in blocks' |-> IF a = b THEN n ELSE IF a \in blocks THEN asked[a] ELSE 0]
  BY DEF kmalloc
<1>3. b \in blocks /\ free[b] BY <1>2 DEF Fits
<1>4. free \in [blocks -> BOOLEAN] BY DEF Inv, TypeOK
<1>5. /\ b \in blocks' /\ blocks \subseteq blocks' /\ ~free'[b]
      /\ \A a \in blocks : a # b => free'[a] = free[a]
      /\ \A a \in blocks' : a \notin blocks => free'[a]
  <2>1. CASE WorthSplitting(b, Aligned(n))
    <3> DEFINE m == b + HEADER + Aligned(n)
    <3>1. /\ blocks' = blocks \cup {m}
          /\ free' = [a \in blocks' |-> IF a = b THEN FALSE ELSE IF a = m THEN TRUE ELSE free[a]]
      BY <1>2, <2>1 DEF Split
    <3>2. m \notin blocks
      <4>1. b \in Nat /\ size[b] \in Nat /\ Aligned(n) \in Nat
        BY <1>1, <1>3, AlignedHolds DEF Inv, TypeOK
      <4>. QED BY <4>1, <1>3, <2>1, HeapAssumption DEF WorthSplitting, Inv, TypeOK, BlocksApart
    <3> HIDE DEF m
    <3>. QED BY <1>3, <3>1, <3>2
  <2>2. CASE ~WorthSplitting(b, Aligned(n))
    BY <1>2, <1>3, <1>4, <2>2 DEF TakeWhole
  <2>. QED BY <2>1, <2>2
<1>6. Used' = Used \cup {b} /\ b \notin Used
  BY <1>3, <1>5 DEF Used
<1>7. asked'[b] = n /\ \A a \in Used : asked'[a] = asked[a]
  BY <1>2, <1>3, <1>5 DEF Used
<1>. QED BY <1>1, <1>6, <1>7, HandsOut

(* So does kmalloc that had to grow the heap. *)
LEMMA AppendRefines ==
  ASSUME Inv, Inv', KmallocAppend
  PROVE  Promise!Next
<1>1. old_end \notin blocks /\ request \in Nat
  BY HeapAssumption DEF Inv, TypeOK, Underway, KmallocAppend
<1>2. Used' = Used \cup {old_end} /\ old_end \notin Used
  BY <1>1 DEF Used, KmallocAppend
<1>3. asked'[old_end] = request /\ \A a \in Used : asked'[a] = asked[a]
  BY <1>1 DEF Used, KmallocAppend
<1>. QED BY <1>1, <1>2, <1>3, HandsOut

(* kfree gives back one region. *)
LEMMA KfreeRefines ==
  ASSUME Inv, NEW b \in blocks, kfree(b)
  PROVE  Promise!Next
<1> DEFINE r == <<b + HEADER, asked[b]>>
<1>1. /\ \A a \in blocks : a \in Nat
      /\ free \in [blocks -> BOOLEAN] /\ asked \in [blocks -> Nat]
      /\ HEADER \in Nat
  BY HeapAssumption DEF Inv, TypeOK
<1>2. b \in Used /\ Used' = Used \ {b} /\ \A a \in Used' : asked'[a] = asked[a]
  BY <1>1 DEF kfree, Used
<1>3. \A a \in Used : a # b => <<a + HEADER, asked[a]>> # r
  BY <1>1 DEF Used
<1>4. r \in held /\ held' = held \ {r}
  BY <1>2, <1>3 DEF held, Used
<1>. QED BY <1>4 DEF Promise!Next, Promise!kfree

(* Merging free blocks changes no region held. *)
LEMMA MergeRefines ==
  ASSUME Inv, MergeNext \/ MergePrev
  PROVE  UNCHANGED held
<1>1. ASSUME NEW b \in blocks, NEW c \in blocks, free[c], Absorb(b, c)
      PROVE  UNCHANGED held
  BY <1>1, SameHeld DEF Absorb, Used
<1>2. block \in blocks /\ free[block]
  BY DEF Inv, Underway, MergeNext, MergePrev
<1>3. CASE MergeNext
  <2>1. FreeBlock(next[block]) => next[block] \in blocks /\ free[next[block]]
    BY <1>2 DEF Inv, TypeOK, Link, FreeBlock
  <2>. QED BY <1>1, <1>2, <1>3, <2>1 DEF MergeNext, held, fields
<1>4. CASE MergePrev
  <2>1. FreeBlock(prev[block]) => prev[block] \in blocks
    BY <1>2 DEF Inv, TypeOK, Link, FreeBlock
  <2>. QED BY <1>1, <1>2, <1>4, <2>1 DEF MergePrev, held, fields
<1>. QED BY <1>3, <1>4

(* At first nothing is held. *)
LEMMA InitRefines == Init => Promise!Init
BY DEF Init, Promise!Init, held

(* Every step is a step of the abstract allocator or leaves it alone. *)
LEMMA NextRefines == Inv /\ Inv' /\ [Next]_vars => [Promise!Next]_held
<1> SUFFICES ASSUME Inv, Inv', [Next]_vars PROVE [Promise!Next]_held
  OBVIOUS
<1>1. ASSUME NEW n \in Requests, kmalloc(n) PROVE Promise!Next
  BY <1>1, KmallocRefines
<1>2. CASE (\E n \in Requests : KmallocExpand(n)) \/ ExpandPage \/ ExpandFails
  BY <1>2 DEF KmallocExpand, ExpandPage, ExpandFails, held, fields
<1>3. CASE KmallocAppend
  BY <1>3, AppendRefines
<1>4. ASSUME NEW b \in blocks, kfree(b) PROVE Promise!Next
  BY <1>4, KfreeRefines
<1>5. CASE MergeNext \/ MergePrev
  BY <1>5, MergeRefines
<1>6. CASE UNCHANGED vars
  BY <1>6 DEF vars, fields, held
<1>. QED BY <1>1, <1>2, <1>3, <1>4, <1>5, <1>6 DEF Next

(* The heap keeps the promise of Allocator for every sequence of calls: a   *)
(* region kmalloc returns touches no region still held, and splits, merges  *)
(* and failed expansions change nothing for the holders.                    *)
THEOREM HeapImplementsAllocator == Spec => ImplementsAllocator
<1>1. Spec => []Inv BY InvHolds
<1>. QED BY <1>1, InitRefines, NextRefines, PTL DEF Spec, ImplementsAllocator, Promise!Spec
=============================================================================
