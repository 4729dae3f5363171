-------------------------------- MODULE Heap --------------------------------
(***************************************************************************)
(* The kernel heap (mm/heap.c): a doubly linked list of blocks in address  *)
(* order, first fit, split on allocation, merged on release, grown a page  *)
(* at a time at its end.                                                   *)
(*                                                                         *)
(* Addresses are relative to KERNEL_HEAP_START.  The list has no lock: the *)
(* module says what the heap does for callers that do not preempt each     *)
(* other inside it and that free each pointer once.  A request of 0 and a  *)
(* kfree of null return at once and have no action.                        *)
(***************************************************************************)
EXTENDS Integers

CONSTANTS
    HEADER,      \* sizeof(heap_block_t); 16 on x86
    PAGE_SIZE,   \* 4096
    HeapLimit,   \* bound: where frames or address space for the heap run out
    Requests     \* bound: the sizes callers ask for

ASSUME HeapAssumption ==
    /\ HEADER \in Nat \ {0}
    /\ PAGE_SIZE \in Nat /\ PAGE_SIZE > HEADER
    /\ HeapLimit \in Nat /\ HeapLimit >= PAGE_SIZE
    /\ Requests \subseteq Nat \ {0}

NULL == -1

VARIABLES
    blocks,                    \* the headers in the list; heap_start is 0
    size, free, next, prev,    \* their fields
    heap_end,                  \* the first address that is not mapped
    total_allocated,
    pc,         \* "idle", "expand" in kmalloc, "next" and "prev" in kfree
    request, old_end,   \* locals of the kmalloc that expands
    block,      \* local of kfree
    asked       \* what the holder of each block asked for; 0 if it is free

fields == <<size, free, next, prev>>
locals == <<request, old_end, block>>
vars == <<blocks, fields, heap_end, total_allocated, pc, locals, asked>>

(* kmalloc's (size + 7) & ~7. *)
AlignedDown(n) == (n \div 8) * 8
Aligned(n) == ((n + 7) \div 8) * 8

(* heap_init: the first page is one free block. *)
Init ==
    /\ blocks = {0}
    /\ size = [b \in blocks |-> PAGE_SIZE - HEADER]
    /\ free = [b \in blocks |-> TRUE]
    /\ next = [b \in blocks |-> NULL]
    /\ prev = [b \in blocks |-> NULL]
    /\ heap_end = PAGE_SIZE
    /\ total_allocated = 0
    /\ pc = "idle"
    /\ request = 0 /\ old_end = 0 /\ block = 0
    /\ asked = [b \in blocks |-> 0]

-----------------------------------------------------------------------------
(* The free blocks the loop of kmalloc would accept; it takes the first one *)
(* of the list, which is in address order (ListInOrder).                    *)
FitsAny(s) == {b \in blocks : size[b] >= s}
Fits(s) == {b \in blocks : free[b] /\ size[b] >= s}

(* A block is split if what is left holds a header and more than 8 bytes. *)
WorthSplitting(b, s) == size[b] > s + HEADER + 8

(* Cutting s bytes off b: the rest becomes a free block n behind it. *)
Split(b, s) ==
    LET n == b + HEADER + s
    IN  /\ blocks' = blocks \cup {n}
        /\ size' = [a \in blocks' |-> IF a = b THEN s
                                      ELSE IF a = n THEN size[b] - s - HEADER ELSE size[a]]
        /\ free' = [a \in blocks' |-> IF a = b THEN FALSE ELSE IF a = n THEN TRUE ELSE free[a]]
        /\ next' = [a \in blocks' |-> IF a = b THEN n ELSE IF a = n THEN next[b] ELSE next[a]]
        /\ prev' = [a \in blocks' |-> IF a = n THEN b ELSE IF a = next[b] THEN n ELSE prev[a]]
        /\ total_allocated' = total_allocated + s

(* The whole of b is handed out. *)
TakeWhole(b) ==
    /\ free' = [free EXCEPT ![b] = FALSE]
    /\ total_allocated' = total_allocated + size[b]
    /\ UNCHANGED <<blocks, size, next, prev>>

(* kmalloc(n) that finds a block.  The test of block_end behind it cannot *)
(* fail: BlocksApart.                                                      *)
kmalloc(n) ==
    /\ pc = "idle"
    /\ \E b \in Fits(Aligned(n)) :
         /\ \A c \in Fits(Aligned(n)) : b <= c
         /\ IF WorthSplitting(b, Aligned(n)) THEN Split(b, Aligned(n)) ELSE TakeWhole(b)
         /\ asked' = [a \in blocks' |-> IF a = b THEN n ELSE IF a \in blocks THEN asked[a] ELSE 0]
    /\ UNCHANGED <<heap_end, pc, locals>>

(* kmalloc(n) that finds none calls expand_heap, ... *)
KmallocExpand(n) ==
    /\ pc = "idle"
    /\ Fits(Aligned(n)) = {}
    /\ pc' = "expand"
    /\ request' = n
    /\ old_end' = heap_end
    /\ UNCHANGED <<blocks, fields, heap_end, total_allocated, block, asked>>

Return == pc' = "idle" /\ request' = 0 /\ old_end' = 0 /\ block' = 0

NeededNoHeader == Aligned(request)
Needed == Aligned(request) + HEADER

(* ... which maps the pages one by one, ... *)
ExpandPage ==
    /\ pc = "expand"
    /\ heap_end - old_end < Needed
    /\ heap_end + PAGE_SIZE <= HeapLimit
    /\ heap_end' = heap_end + PAGE_SIZE
    /\ UNCHANGED <<blocks, fields, total_allocated, pc, locals, asked>>

(* ... gives up when there is no frame or no page table, and leaves the    *)
(* pages it has mapped behind, ...                                         *)
ExpandFails ==
    /\ pc = "expand"
    /\ heap_end - old_end < Needed
    /\ Return
    /\ UNCHANGED <<blocks, fields, heap_end, total_allocated, asked>>

(* ... or returns to kmalloc, which puts a block of just the request at the *)
(* start of the new pages, behind the last one.                             *)
KmallocAppend ==
    /\ pc = "expand"
    /\ heap_end - old_end >= Needed
    /\ blocks' = blocks \cup {old_end}
    /\ size' = [b \in blocks' |-> IF b = old_end THEN Aligned(request) ELSE size[b]]
    /\ free' = [b \in blocks' |-> IF b = old_end THEN FALSE ELSE free[b]]
    /\ \E last \in blocks :
         /\ next[last] = NULL
         /\ next' = [b \in blocks' |-> IF b = old_end THEN NULL
                                       ELSE IF b = last THEN old_end ELSE next[b]]
         /\ prev' = [b \in blocks' |-> IF b = old_end THEN last ELSE prev[b]]
    /\ total_allocated' = total_allocated + Aligned(request)
    /\ asked' = [b \in blocks' |-> IF b = old_end THEN request ELSE asked[b]]
    /\ Return
    /\ UNCHANGED heap_end

-----------------------------------------------------------------------------
(* kfree of a pointer kmalloc returned and nobody freed since: the block is *)
(* marked free, ...                                                         *)
kfree(b) ==
    /\ pc = "idle" /\ b \in blocks /\ ~free[b]
    /\ free' = [free EXCEPT ![b] = TRUE]
    /\ asked' = [asked EXCEPT ![b] = 0]
    /\ total_allocated' = total_allocated - size[b]
    /\ block' = b
    /\ pc' = "next"
    /\ UNCHANGED <<blocks, size, next, prev, heap_end, request, old_end>>

(* b swallows its successor c, whose header leaves the list. *)
Absorb(b, c) ==
    /\ blocks' = blocks \ {c}
    /\ size' = [a \in blocks' |-> IF a = b THEN size[b] + HEADER + size[c] ELSE size[a]]
    /\ free' = [a \in blocks' |-> free[a]]
    /\ next' = [a \in blocks' |-> IF a = b THEN next[c] ELSE next[a]]
    /\ prev' = [a \in blocks' |-> IF a = next[c] THEN b ELSE prev[a]]
    /\ asked' = [a \in blocks' |-> asked[a]]

FreeBlock(b) == b # NULL /\ free[b]

(* ... merged with the next block if that is free ... *)
MergeNextOnly ==
    /\ pc = "next"
    /\ IF FreeBlock(next[block]) THEN Absorb(block, next[block])
                                 ELSE UNCHANGED <<blocks, fields, asked>>
    /\ Return
    /\ UNCHANGED <<heap_end, total_allocated>>
MergeNext ==
    /\ pc = "next"
    /\ IF FreeBlock(next[block]) THEN Absorb(block, next[block])
                                 ELSE UNCHANGED <<blocks, fields, asked>>
    /\ pc' = "prev"
    /\ UNCHANGED <<heap_end, total_allocated, locals>>

(* ... and then with the previous one. *)
MergePrev ==
    /\ pc = "prev"
    /\ IF FreeBlock(prev[block]) THEN Absorb(prev[block], block)
                                 ELSE UNCHANGED <<blocks, fields, asked>>
    /\ Return
    /\ UNCHANGED <<heap_end, total_allocated>>

Next ==
    \/ \E n \in Requests : kmalloc(n) \/ KmallocExpand(n)
    \/ ExpandPage \/ ExpandFails \/ KmallocAppend
    \/ \E b \in blocks : kfree(b)
    \/ MergeNext \/ MergePrev

Spec == Init /\ [][Next]_vars

-----------------------------------------------------------------------------
Link == blocks \cup {NULL}

(* The fields have their types; a link leads to a block of the list or is  *)
(* null, also after a merge has dropped a header.                          *)
TypeOK ==
    /\ blocks \in SUBSET Nat /\ 0 \in blocks
    /\ size \in [blocks -> Nat]
    /\ free \in [blocks -> BOOLEAN]
    /\ next \in [blocks -> Link]
    /\ prev \in [blocks -> Link]
    /\ heap_end \in Nat
    /\ total_allocated \in Int
    /\ pc \in {"idle", "expand", "next", "prev"}
    /\ request \in Nat /\ old_end \in Nat
    /\ block \in Nat
    /\ asked \in [blocks -> Nat]

(* No two blocks overlap, none reaches past the mapped pages, and a block  *)
(* in use has room for what its holder asked for: the tests of kmalloc     *)
(* "this shouldn't happen" (heap.c:99, 138) never find anything.           *)
BlocksApart ==
    /\ \A a, b \in blocks : a < b => a + HEADER + size[a] <= b
    /\ \A b \in blocks : /\ b + HEADER + size[b] <= heap_end
                         /\ asked[b] <= size[b]

(* The list is in address order and its back links match: from a block,    *)
(* next is the nearest block above it and prev the nearest one below.      *)
ListInOrder ==
    \A b \in blocks :
      /\ next[b] # NULL => b < next[b]
      /\ prev[b] # NULL => prev[b] < b
      /\ \A c \in blocks : /\ c > b => next[b] # NULL /\ next[b] <= c
                           /\ c < b => prev[b] # NULL /\ c <= prev[b]

(* Between two calls no free block follows a free block: kfree's one look   *)
(* in each direction is enough, and kmalloc's split cannot create a pair.   *)
FullyMerged ==
    pc = "idle" => \A b \in blocks : free[b] => ~FreeBlock(next[b])

(* The block list is sound after any mix of splits, merges and expansions:  *)
(* every link leads to a block, in address order both ways, and nothing     *)
(* free is left unmerged.                                                   *)
BlockListIsSound == TypeOK /\ ListInOrder /\ FullyMerged

-----------------------------------------------------------------------------
(* What the callers of kmalloc hold. *)
held == {<<b + HEADER, asked[b]>> : b \in {a \in blocks : ~free[a]}}

Promise == INSTANCE Allocator WITH regions <- held

(* kmalloc hands out regions that touch no region still held, whatever was  *)
(* split, merged or half expanded before, and only kfree ends a holding.    *)
ImplementsAllocator == Promise!Spec
=============================================================================
