------------------------------- MODULE Memory -------------------------------
(***************************************************************************)
(* Physical frames, address spaces and the system calls that move frames   *)
(* between them: the frame bitmap (mm/pmm.c), page directories and tables  *)
(* (mm/vmm.c), fork's copy, exec's new space (kernel/elf.c), brk, mmap,    *)
(* munmap (syscall.c) and shared memory segments (ipc/shm.c).              *)
(*                                                                         *)
(* A frame is in use when its bit is set.  Nothing records who owns it:    *)
(* every caller must free exactly what it took, on every path.  Two ghost  *)
(* variables keep the known exceptions apart from the rest: `lost`, the    *)
(* frames some path of the code forgets, and `hole`, the first time a      *)
(* frame was freed or taken while it had an owner.                         *)
(*                                                                         *)
(* System calls run with interrupts on, so mmap's test of a bit and its    *)
(* setting, and the two frees of a shrinking heap, are separate steps;     *)
(* the other calls are one step each (fork really is: it masks interrupts).*)
(* That two processes are in the middle of such calls on one object is the *)
(* action Race, which names the object as the hole: nothing in the code    *)
(* protects it, and what follows is not modelled.                          *)
(***************************************************************************)
EXTENDS Integers, FiniteSetsExt

CONSTANTS
    Procs,      \* processes
    FrameCount, \* frames the bitmap describes that the kernel does not use
    TableSize,  \* pages a page table covers
    Image,      \* pages of a program: its segment and the stack of exec
    HeapBase, MmapBase, ShmBase, StackTop,  \* first page of each region; end
    Slots,      \* shared memory segments (MAX_SHM_SEGMENTS)
    MaxCalls    \* bound: system calls of a behaviour

ASSUME FrameAssumption == FrameCount \in Nat \ {0} /\ Slots \in Nat
ASSUME RegionAssumption ==
    /\ {HeapBase, MmapBase, ShmBase, StackTop, TableSize} \subseteq Nat \ {0}
    /\ Image \subseteq 0 .. HeapBase - 1
    /\ HeapBase < MmapBase /\ MmapBase + 2 <= ShmBase /\ ShmBase < StackTop

VARIABLES
    used,   \* the frames whose bit is set
    space,  \* of each process: directory frame, tables, pages; dir = 0: none
    brk,    \* heap_end of each process, in pages
    shm,    \* of each slot: valid, first frame, pages, attach count
    next,   \* next_shm_virt
    pend,   \* the call a process is in the middle of
    gaps,   \* history: processes whose heap exec or munmap has left with gaps
    calls, lost, hole

vars == <<used, space, brk, shm, next, pend, gaps, calls, lost, hole>>

Frames == 1 .. FrameCount
Pages == 0 .. StackTop - 1
Table(v) == v \div TableSize
Tables == {Table(v) : v \in Pages}
NoSpace == [dir |-> 0, pt |-> [i \in Tables |-> 0], pte |-> [v \in Pages |-> 0]]
NoCall == [op |-> "none"]

(* The lowest frame whose bit is clear; 0 when memory is full. *)
FirstFree(u) == IF Frames \subseteq u THEN 0 ELSE Min(Frames \ u)

(* The frames a space holds: its directory, its tables and its pages. *)
Held(d) == ({d.dir} \cup Range(d.pt) \cup Range(d.pte)) \ {0}
SegmentFrames(s) == IF shm[s].valid THEN shm[s].base .. shm[s].base + shm[s].n - 1 ELSE {}
Segments == UNION {SegmentFrames(s) : s \in DOMAIN shm}

(***************************************************************************)
(* Mapping.  A memory m is the bitmap and one space; x adds whether every  *)
(* page so far was mapped and the frame left over when one was not.        *)
(***************************************************************************)

(* vmm_map_page_in_directory: adds the table the page needs, then the      *)
(* entry, whatever the entry was.                                          *)
MapPage(u, d, v, f) ==
    LET t == IF d.pt[Table(v)] # 0 THEN d.pt[Table(v)] ELSE FirstFree(u) IN
    IF t = 0 THEN [ok |-> FALSE, u |-> u, d |-> d]
    ELSE [ok |-> TRUE, u |-> u \cup {t},
          d |-> [d EXCEPT !.pt[Table(v)] = t, !.pte[v] = f]]

(* One more page of a loop that allocates a frame and maps it, as every    *)
(* such loop of the code does until the first failure.                     *)
AddPage(x, v) ==
    LET f == FirstFree(x.u)
        r == MapPage(x.u \cup {f}, x.d, v, f) IN
    IF ~ x.ok THEN x
    ELSE IF f = 0 THEN [x EXCEPT !.ok = FALSE]
    ELSE [ok |-> r.ok, u |-> r.u, d |-> r.d, done |-> IF r.ok THEN x.done \cup {v} ELSE x.done,
          rest |-> IF r.ok THEN {} ELSE {f},
          over |-> x.over \cup (IF r.ok THEN {x.d.pte[v]} \ {0} ELSE {})]
(* The loop over the pages vs, from the lowest up. *)
AddPages(u, d, vs) ==
    LET x[i \in 0 .. StackTop] ==
          IF i = 0 THEN [ok |-> TRUE, u |-> u, d |-> d, done |-> {}, rest |-> {}, over |-> {}]
          ELSE IF i - 1 \in vs THEN AddPage(x[i - 1], i - 1)
          ELSE x[i - 1]
    IN  x[StackTop]

(* vmm_unmap_page_in_directory, for each of the pages vs: the entry goes.  *)
Cleared(d, vs) == [d EXCEPT !.pte = [v \in Pages |-> IF v \in vs THEN 0 ELSE @[v]]]
(* Mutant: the entries stay. *)
UnmapPagesStale(u, d, vs) == [u |-> u \ {d.pte[v] : v \in vs}, d |-> d]
(* vmm_unmap_page, for each of the pages vs: the frame is freed too. *)
UnmapPages(u, d, vs) == [u |-> u \ {d.pte[v] : v \in vs}, d |-> Cleared(d, vs)]

(* Mutant: the tables are forgotten. *)
DestroyedKeepingTables(u, d) == u \ (Held(d) \ Range(d.pt))
(* vmm_destroy_directory: frees the pages, the tables and the directory. *)
Destroyed(u, d) == u \ Held(d)

(* vmm_create_directory: one frame; the kernel's tables are shared. *)
CreateDirectory(u) ==
    LET f == FirstFree(u) IN
    [ok |-> f # 0, u |-> u \cup ({f} \ {0}), d |-> [NoSpace EXCEPT !.dir = f]]

(***************************************************************************)
(* Whole address spaces.                                                   *)
(***************************************************************************)

(* process_create, user mode: a directory and two stack pages at the top   *)
(* of user memory.  Without a frame for one of them everything is given    *)
(* back; a frame that could not be mapped goes unnoticed and is forgotten. *)
StackPage(x, v) ==
    LET f == FirstFree(x.u)
        r == MapPage(x.u \cup {f}, x.d, v, f) IN
    IF ~ x.ok \/ f = 0 THEN [x EXCEPT !.ok = FALSE]
    ELSE [ok |-> TRUE, u |-> r.u, d |-> r.d, got |-> x.got \cup {f},
          rest |-> x.rest \cup (IF r.ok THEN {} ELSE {f})]
CreateSpace(u) ==
    LET c == CreateDirectory(u)
        none == [ok |-> c.ok, u |-> c.u, d |-> c.d, got |-> {}, rest |-> {}]
        x == StackPage(StackPage(none, StackTop - 1), StackTop - 2) IN
    IF x.ok THEN [ok |-> TRUE, u |-> x.u, d |-> x.d, rest |-> x.rest]
    ELSE [ok |-> FALSE, u |-> Destroyed(x.u, x.d) \ x.got, d |-> NoSpace, rest |-> {}]

(* elf_load_into_process: the first program's pages, put into its space. *)
LoadInto(u, d) == AddPages(u, d, Image)

(* clone_user_space: a copy of every page, over what the child has there. *)
CloneUserSpace(u, src, dst) ==
    AddPages(u, dst, {v \in Pages : src.pte[v] # 0})

(* mmap_find_free_region: first fit from the hint to the end of the area. *)
FindFreeRegion(d, n, hint) ==
    LET fits == {a \in hint .. ShmBase - n : \A v \in a .. a + n - 1 : d.pte[v] = 0} IN
    IF fits = {} THEN 0 ELSE Min(fits)

(***************************************************************************)
(* The state after the kernel has started the first program.               *)
(***************************************************************************)
First == CHOOSE p \in Procs : TRUE
Booted == LET c == CreateSpace({}) IN LoadInto(c.u, c.d)
(* There is such a process and memory for it: otherwise the kernel stops. *)
ASSUME BootAssumption ==
    LET c == CreateSpace({}) IN Procs # {} /\ c.ok /\ c.rest = {} /\ LoadInto(c.u, c.d).ok

Init ==
    /\ used = Booted.u
    /\ space = [p \in Procs |-> IF p = First THEN Booted.d ELSE NoSpace]
    /\ brk = [p \in Procs |-> HeapBase]
    /\ shm = [s \in 1 .. Slots |-> [valid |-> FALSE, base |-> 0, n |-> 0, nattch |-> 0]]
    /\ next = ShmBase
    /\ pend = [p \in Procs |-> NoCall]
    /\ calls = 0 /\ lost = {} /\ hole = "none" /\ gaps = {}

Alive(p) == space[p].dir # 0
Enter(p) == Alive(p) /\ pend[p] = NoCall /\ calls < MaxCalls
Counted == calls' = calls + 1

(* The hole that freeing the frames fs makes: a segment still has them. *)
Freeing(fs, why) == IF hole = "none" /\ fs \cap Segments # {} THEN why ELSE hole

(***************************************************************************)
(* Processes.                                                              *)
(***************************************************************************)

(* sys_fork: create, clone, and on failure destroy.  The pages the child   *)
(* already had are mapped over and forgotten, and its heap end is not the  *)
(* parent's.                                                               *)
Fork(p, c) ==
    LET new == CreateSpace(used)
        x == CloneUserSpace(new.u, space[p], new.d) IN
    /\ Enter(p) /\ ~ Alive(c) /\ pend[c] = NoCall
    /\ IF new.ok /\ x.ok
       THEN /\ used' = x.u
            /\ space' = [space EXCEPT ![c] = x.d]
            /\ brk' = [brk EXCEPT ![c] = HeapBase]
            /\ lost' = lost \cup x.over \cup new.rest
            /\ gaps' = gaps \ {c}
       ELSE /\ used' = IF new.ok THEN Destroyed(x.u, x.d) \ x.rest ELSE new.u
            /\ lost' = lost \cup new.rest \cup (IF new.ok THEN x.over ELSE {})
            /\ UNCHANGED <<space, brk, gaps>>
    /\ Counted /\ UNCHANGED <<shm, next, pend, hole>>

(* process_destroy, for a process that is in no system call. *)
Destroy(p) ==
    /\ Enter(p) /\ p # First
    /\ used' = Destroyed(used, space[p])
    /\ space' = [space EXCEPT ![p] = NoSpace]
    /\ hole' = Freeing(Range(space[p].pte), "exit")
    /\ Counted /\ UNCHANGED <<brk, shm, next, pend, lost, gaps>>

(* elf_execve: builds a new space, then drops the old one.  A failure      *)
(* after the directory was made returns and forgets what was built: for    *)
(* lack of memory, because the file is short ("short") or, with all pages  *)
(* and the stack there, because an argument cannot be copied or a library  *)
(* not be linked ("late").  The heap end stays.                            *)
Execve(p, fails) ==
    LET c == CreateDirectory(used)
        x == AddPages(c.u, c.d, Image)
        built == IF fails = "short" THEN c.u \ used ELSE x.u \ used IN
    /\ Enter(p)
    /\ IF c.ok /\ x.ok /\ fails = "none"
       THEN /\ used' = Destroyed(x.u, space[p])
            /\ space' = [space EXCEPT ![p] = x.d]
            /\ hole' = Freeing(Range(space[p].pte), "exec")
            /\ gaps' = gaps \cup {p}
            /\ UNCHANGED lost
       ELSE /\ used' = used \cup built
            /\ lost' = lost \cup built
            /\ UNCHANGED <<space, hole, gaps>>
    /\ Counted /\ UNCHANGED <<brk, shm, next, pend>>

(***************************************************************************)
(* The heap: sys_brk and sys_sbrk.                                         *)
(***************************************************************************)

(* Mutant: the break moves before the pages are there. *)
BrkGrowFirst(p, top) ==
    LET x == AddPages(used, space[p], brk[p] .. top - 1) IN
    /\ Enter(p) /\ top > brk[p]
    /\ used' = x.u
    /\ space' = [space EXCEPT ![p] = x.d]
    /\ brk' = [brk EXCEPT ![p] = top]
    /\ lost' = lost \cup x.over \cup x.rest
    /\ Counted /\ UNCHANGED <<shm, next, pend, hole, gaps>>
(* Growing.  A failure returns at once: the pages mapped so far stay above *)
(* the break, to be mapped over later, and the last frame is forgotten.    *)
BrkGrow(p, top) ==
    LET x == AddPages(used, space[p], brk[p] .. top - 1) IN
    /\ Enter(p) /\ top > brk[p]
    /\ used' = x.u
    /\ space' = [space EXCEPT ![p] = x.d]
    /\ brk' = [brk EXCEPT ![p] = IF x.ok THEN top ELSE @]
    /\ lost' = lost \cup x.over \cup x.rest
    /\ Counted /\ UNCHANGED <<shm, next, pend, hole, gaps>>

(* Shrinking frees a page twice: vmm_unmap_page frees the frame, and then  *)
(* the loop does.  In between another process may have taken it.           *)
BrkShrink(p, top) ==
    /\ Enter(p) /\ top < brk[p]
    /\ pend' = [pend EXCEPT ![p] = [op |-> "shrink", va |-> top, top |-> top, f |-> 0]]
    /\ Counted /\ UNCHANGED <<used, space, brk, shm, next, lost, hole, gaps>>

BrkUnmap(p) ==
    LET c == pend[p]
        x == UnmapPages(used, space[p], {c.va}) IN
    /\ c.op = "shrink" /\ c.f = 0 /\ c.va < brk[p]
    /\ used' = x.u
    /\ space' = [space EXCEPT ![p] = x.d]
    /\ pend' = [pend EXCEPT ![p] = IF space[p].pte[c.va] = 0 THEN [c EXCEPT !.va = c.va + 1]
                                   ELSE [c EXCEPT !.f = space[p].pte[c.va]]]
    /\ UNCHANGED <<brk, shm, next, calls, lost, hole, gaps>>

BrkFree(p) ==
    LET c == pend[p] IN
    /\ c.op = "shrink" /\ c.f # 0
    /\ used' = used \ {c.f}
    /\ hole' = IF c.f \in used /\ hole = "none" THEN "shrink" ELSE hole
    /\ pend' = [pend EXCEPT ![p] = [c EXCEPT !.f = 0, !.va = c.va + 1]]
    /\ UNCHANGED <<space, brk, shm, next, calls, lost, gaps>>

BrkDone(p) ==
    LET c == pend[p] IN
    /\ c.op = "shrink" /\ c.f = 0 /\ c.va >= brk[p]
    /\ brk' = [brk EXCEPT ![p] = c.top]
    /\ pend' = [pend EXCEPT ![p] = NoCall]
    /\ UNCHANGED <<used, space, shm, next, calls, lost, hole, gaps>>

(***************************************************************************)
(* sys_mmap and sys_munmap.                                                *)
(***************************************************************************)

(* The region is chosen first: at a fixed address every page must be free. *)
MmapEnter(p, n, at, fixed) ==
    LET start == IF fixed
                 THEN IF \A v \in at .. at + n - 1 : space[p].pte[v] = 0 THEN at ELSE 0
                 ELSE FindFreeRegion(space[p], n, at) IN
    /\ Enter(p)
    /\ pend' = [pend EXCEPT ![p] =
          IF start = 0 THEN NoCall
          ELSE [op |-> "mmap", start |-> start, n |-> n, off |-> 0, f |-> 0]]
    /\ Counted /\ UNCHANGED <<used, space, brk, shm, next, lost, hole, gaps>>

(* pmm_alloc_page finds a clear bit; with none the pages mapped so far are *)
(* unmapped and freed.                                                     *)
MmapLook(p) ==
    LET c == pend[p]
        f == FirstFree(used)
        back == UnmapPages(used, space[p], c.start .. c.start + c.off - 1) IN
    /\ c.op = "mmap" /\ c.f = 0
    /\ IF f # 0
       THEN pend' = [pend EXCEPT ![p] = [c EXCEPT !.f = f]] /\ UNCHANGED <<used, space>>
       ELSE /\ used' = back.u /\ space' = [space EXCEPT ![p] = back.d]
            /\ pend' = [pend EXCEPT ![p] = NoCall]
    /\ UNCHANGED <<brk, shm, next, calls, lost, hole, gaps>>

(* ... and sets it, whoever has set it meanwhile; then the page is mapped. *)
MmapTake(p) ==
    LET c == pend[p]
        r == MapPage(used \cup {c.f}, space[p], c.start + c.off, c.f)
        back == UnmapPages(used, space[p], c.start .. c.start + c.off - 1) IN
    /\ c.op = "mmap" /\ c.f # 0
    /\ hole' = IF c.f \in used /\ hole = "none" THEN "race" ELSE hole
    /\ used' = IF r.ok THEN r.u ELSE back.u \ {c.f}
    /\ space' = [space EXCEPT ![p] = IF r.ok THEN r.d ELSE back.d]
    /\ pend' = [pend EXCEPT ![p] =
          IF r.ok /\ c.off + 1 < c.n THEN [c EXCEPT !.off = c.off + 1, !.f = 0] ELSE NoCall]
    /\ UNCHANGED <<brk, shm, next, calls, lost, gaps>>

(* sys_munmap takes any user pages, those of the heap too. *)
Munmap(p, a, n) ==
    LET x == UnmapPages(used, space[p], a .. a + n - 1) IN
    /\ Enter(p)
    /\ used' = x.u
    /\ space' = [space EXCEPT ![p] = x.d]
    /\ hole' = Freeing({space[p].pte[v] : v \in a .. a + n - 1}, "munmap")
    /\ gaps' = IF \E v \in a .. a + n - 1 : HeapBase <= v /\ v < brk[p] THEN gaps \cup {p} ELSE gaps
    /\ Counted /\ UNCHANGED <<brk, shm, next, pend, lost>>

(* sys_mmap_ex: at a fixed address what is mapped there is not looked at.  *)
(* A failure takes the new pages out again; what they replaced is gone.    *)
MmapEx(p, n, at) ==
    LET start == IF at # 0 THEN at ELSE FindFreeRegion(space[p], n, MmapBase)
        x == AddPages(used, space[p], start .. start + n - 1)
        back == UnmapPages(x.u \ x.rest, x.d, x.done) IN
    /\ Enter(p) /\ start # 0
    /\ used' = IF x.ok THEN x.u ELSE back.u
    /\ space' = [space EXCEPT ![p] = IF x.ok THEN x.d ELSE back.d]
    /\ lost' = lost \cup x.over
    /\ Counted /\ UNCHANGED <<brk, shm, next, pend, hole, gaps>>

(***************************************************************************)
(* Shared memory.                                                          *)
(***************************************************************************)

(* sys_shmget with IPC_PRIVATE: a free slot and n frames that must follow  *)
(* one another; the first that does not gives them all back.               *)
Shmget(p, n) ==
    LET free == {s \in DOMAIN shm : ~ shm[s].valid}
        f == FirstFree(used)
        take == f .. f + n - 1 IN
    /\ Enter(p)
    /\ IF free # {} /\ f # 0 /\ take \subseteq Frames \ used
       THEN /\ used' = used \cup take
            /\ shm' = [shm EXCEPT ![Min(free)] =
                  [valid |-> TRUE, base |-> f, n |-> n, nattch |-> 0]]
       ELSE UNCHANGED <<used, shm>>
    /\ Counted /\ UNCHANGED <<space, brk, next, pend, lost, hole, gaps>>

(* The pages of a segment mapped one after the other; the first failure    *)
(* unmaps the others without freeing them.                                 *)
AttachPage(x, i) ==
    LET r == MapPage(x.u, x.d, x.a + i - 1, x.base + i - 1) IN
    IF ~ x.ok THEN x ELSE [x EXCEPT !.ok = r.ok, !.u = r.u, !.d = r.d]
Attached(p, s, a) ==
    LET x[i \in 0 .. shm[s].n] ==
          IF i = 0 THEN [ok |-> TRUE, u |-> used, d |-> space[p], a |-> a, base |-> shm[s].base]
          ELSE AttachPage(x[i - 1], i)
    IN  x[shm[s].n]

Attach(p, s, a) ==
    LET x == Attached(p, s, a) IN
    /\ used' = x.u
    /\ space' = [space EXCEPT ![p] = IF x.ok THEN x.d ELSE Cleared(x.d, a .. a + shm[s].n - 1)]
    /\ shm' = IF x.ok THEN [shm EXCEPT ![s].nattch = @ + 1] ELSE shm
    /\ Counted /\ UNCHANGED <<brk, pend, lost, gaps>>

(* sys_shmat without an address: the next pages of the area, which every   *)
(* attachment uses up.  Bound: the area is not used up to the stack.       *)
Shmat(p, s) ==
    /\ Enter(p) /\ shm[s].valid /\ next + shm[s].n <= StackTop - 2
    /\ Attach(p, s, next)
    /\ next' = next + shm[s].n
    /\ UNCHANGED hole

(* sys_shmat with an address, which it does not look at.  Where something  *)
(* is mapped, outside the area or in the part of it that is still to be    *)
(* handed out, the frames end up under pages that other calls take for     *)
(* their own: the hole "attach", not followed further.                     *)
Chosen(p, a, n) ==
    /\ ShmBase <= a /\ a + n <= next /\ a + n <= StackTop - 2
    /\ \A v \in a .. a + n - 1 : space[p].pte[v] = 0
ShmatAt(p, s, a) ==
    /\ Enter(p) /\ shm[s].valid
    /\ IF Chosen(p, a, shm[s].n) THEN Attach(p, s, a) /\ UNCHANGED <<next, hole>>
       ELSE /\ hole' = IF hole = "none" THEN "attach" ELSE hole
            /\ Counted /\ UNCHANGED <<used, space, brk, shm, next, pend, lost, gaps>>

(* sys_shmdt: takes the first valid segment, whatever the address, and     *)
(* frees the frames of the pages it unmaps.                                *)
Shmdt(p, a) ==
    LET valid == {s \in DOMAIN shm : shm[s].valid}
        s == Min(valid)
        area == a .. a + shm[s].n - 1
        x == UnmapPages(used, space[p], area) IN
    /\ Enter(p) /\ valid # {} /\ area \subseteq Pages
    /\ used' = x.u
    /\ space' = [space EXCEPT ![p] = x.d]
    /\ shm' = [shm EXCEPT ![s].nattch = @ - 1]
    /\ hole' = Freeing({space[p].pte[v] : v \in area}, "detach")
    /\ Counted /\ UNCHANGED <<brk, next, pend, lost, gaps>>

(* sys_shmctl IPC_RMID: frees the segment when its count is 0, otherwise   *)
(* does nothing.                                                           *)
Rmid(p, s) ==
    /\ Enter(p) /\ shm[s].valid
    /\ IF shm[s].nattch = 0
       THEN /\ used' = used \ SegmentFrames(s)
            /\ shm' = [shm EXCEPT ![s].valid = FALSE]
            /\ hole' = IF hole = "none" /\ \E q \in Procs : Range(space[q].pte) \cap SegmentFrames(s) # {}
                       THEN "rmid" ELSE hole
       ELSE UNCHANGED <<used, shm, hole>>
    /\ Counted /\ UNCHANGED <<space, brk, next, pend, lost, gaps>>

(* Two processes are inside calls on the same thing, with interrupts on:   *)
(* both shmget have chosen a slot that is still free ("slot"), IPC_RMID    *)
(* has freed the frames of a segment that is still valid ("removed"), two  *)
(* attachments or detachments count or take the next pages ("count"), or   *)
(* two calls other than mmap, or one that needs a table, are in            *)
(* pmm_alloc_page ("frame").                                               *)
Contested ==
    {what \in {"slot", "removed", "count", "frame"} :
        \/ what = "slot" /\ \E s \in DOMAIN shm : ~ shm[s].valid
        \/ what = "removed" /\ \E s \in DOMAIN shm : shm[s].valid /\ shm[s].nattch = 0
        \/ what = "count" /\ \E s \in DOMAIN shm : shm[s].valid
        \/ what = "frame" /\ FirstFree(used) # 0}
Race(p, q) ==
    /\ p # q /\ Enter(p) /\ Enter(q) /\ hole = "none"
    /\ hole' \in Contested
    /\ UNCHANGED <<used, space, brk, shm, next, pend, calls, lost, gaps>>

(* The bound is reached: nothing more happens. *)
Idle == calls = MaxCalls /\ (\A p \in Procs : pend[p] = NoCall) /\ UNCHANGED vars

Next ==
    \/ \E p, c \in Procs : Fork(p, c)
    \/ \E p \in Procs : Destroy(p)
    \/ \E p \in Procs, fails \in {"none", "short", "late"} : Execve(p, fails)
    \/ \E p \in Procs, top \in HeapBase .. MmapBase : BrkGrow(p, top) \/ BrkShrink(p, top)
    \/ \E p \in Procs : BrkUnmap(p) \/ BrkFree(p) \/ BrkDone(p)
    \/ \E p \in Procs, n \in 1 .. 2, fixed \in BOOLEAN : MmapEnter(p, n, MmapBase, fixed)
    \/ \E p \in Procs : MmapLook(p) \/ MmapTake(p)
    \/ \E p \in Procs, a \in {HeapBase, MmapBase, ShmBase} : Munmap(p, a, 1)
    \/ \E p \in Procs, at \in {0, MmapBase} : MmapEx(p, 1, at)
    \/ \E p \in Procs, n \in 1 .. 2 : Shmget(p, n)
    \/ \E p \in Procs, s \in 1 .. Slots : Shmat(p, s) \/ Rmid(p, s)
    \/ \E p \in Procs, s \in 1 .. Slots, a \in {MmapBase, ShmBase} : ShmatAt(p, s, a)
    \/ \E p \in Procs, a \in ShmBase .. ShmBase + 1 : Shmdt(p, a)
    \/ \E p, q \in Procs : Race(p, q)
    \/ Idle

Spec == Init /\ [][Next]_vars

(***************************************************************************)
(* Properties.                                                             *)
(***************************************************************************)
Owners(f) ==
    {<<"dir", p>> : p \in {q \in Procs : space[q].dir = f}}
    \cup {o \in {"pt"} \X Procs \X Tables : space[o[2]].pt[o[3]] = f}
    \cup {o \in {"pte"} \X Procs \X Pages : space[o[2]].pte[o[3]] = f}

(* A frame that something uses has its bit set and one user, except that   *)
(* the pages of a segment may be mapped any number of times; until the     *)
(* code has freed or taken a frame under an owner (pmm.c, vmm.c, shm.c).   *)
FramesHaveOneOwner ==
    hole = "none" =>
        \A f \in Frames :
            /\ Owners(f) # {} \/ f \in Segments => f \in used
            /\ IF f \in Segments THEN \A o \in Owners(f) : o[1] = "pte"
               ELSE Cardinality(Owners(f)) <= 1

(* Every frame whose bit is set is used by something, on every path of     *)
(* every call and after every failure, except where the code is known to   *)
(* forget one.                                                             *)
NoFrameIsLost ==
    hole = "none" =>
        used \ lost \subseteq (UNION {Held(space[p]) : p \in Procs}) \cup Segments

(* The heap below the break is mapped, whatever fails, except in a process *)
(* that ran exec, which keeps the break of the program before, or unmapped *)
(* its own heap (elf.c, syscall.c sys_brk, sys_munmap).                    *)
HeapIsWhole ==
    \A p \in Procs \ gaps :
        Alive(p) /\ pend[p].op # "shrink" =>
            \A v \in HeapBase .. brk[p] - 1 : space[p].pte[v] # 0

(* Nothing is said of a state after the first hole: not explored. *)
UpToFirstHole == hole = "none"
=============================================================================
