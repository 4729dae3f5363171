------------------------------- MODULE Files -------------------------------
(***************************************************************************)
(* Open files and descriptors (fd.c) and the system calls on paths and     *)
(* descriptors (syscall.c), on top of Vfs.  A system call is one step, but *)
(* for sys_open, where of_alloc looks for a free slot and then fills it in *)
(* with interrupts on, and for sys_rename, which reads, copies and unlinks *)
(* one after the other.  Between the parts of these two other processes    *)
(* run.  That two of them are inside finer code on the same object is a    *)
(* step of its own, Overlap, which only names the object: none of that     *)
(* code is safe there, and what follows is not modelled.                   *)
(***************************************************************************)
EXTENDS Vfs

CONSTANTS
    Procs,      \* processes; Init is alive at boot
    InitProc,
    FdCount,    \* sizeof fd_table
    MaxOpen,    \* MAX_OPEN_FILES
    Paths,      \* paths the system calls are given, none of them "/"
    Targets,    \* targets of symbolic links
    MaxCalls    \* bound: the calls that change something

Fds == 0 .. FdCount - 1
Slots == 1 .. MaxOpen
CLOSED == 0                     \* -1 in fd_table: slots are numbered from 1 here

ASSUME FilesAssumption ==
    FdCount \in Nat /\ FdCount > 3 /\ MaxOpen \in Nat \ {0} /\ InitProc \in Procs /\ <<>> \notin Paths

VARIABLES
    k,          \* the kernel's memory: that of Vfs, of: open files, fdt: descriptors
    alive,      \* processes that exist
    pend,       \* pend[p]: the sys_open or sys_rename under way, or NONE
    told,       \* history: <<instance, path, type, data>> the callers were told of
    lost,       \* history: slots that only the fork of a child ever pointed at
    hole,       \* history: the steps the properties below do not survive
    calls       \* history: calls that changed something

vars == <<k, alive, pend, told, lost, hole, calls>>

-----------------------------------------------------------------------------
(* Open files. *)

\* of_alloc, once the slot is chosen
Fill(kk, s, n, refs) == [kk EXCEPT !.of[s] = [type |-> "of", node |-> n, refs |-> refs]]
FreeSlots(kk) == FreeOf(kk.of)

\* of_drop
OfDrop(kk, s) ==
    IF s = CLOSED \/ kk.of[s] = NONE THEN kk
    ELSE IF kk.of[s].refs = 1 THEN [VfsClose(kk, kk.of[s].node) EXCEPT !.of[s] = NONE]
    ELSE [kk EXCEPT !.of[s].refs = @ - 1]
OfShare(kk, s) == IF s = CLOSED \/ kk.of[s] = NONE THEN kk ELSE [kk EXCEPT !.of[s].refs = @ + 1]

\* find_free_fd_slot
FreeFds(kk, p) == {f \in Fds : f >= 3 /\ kk.fdt[p][f] = CLOSED}

\* fd_alloc: on failure the node is closed with the open file, or at once.
FdAlloc(kk, p, n) ==
    IF FreeSlots(kk) = {} THEN Result(VfsClose(kk, n), FALSE)
    ELSE LET s == Lowest(FreeSlots(kk)) IN
         IF FreeFds(kk, p) = {} THEN Result(OfDrop(Fill(kk, s, n, 1), s), FALSE)
         ELSE Result([Fill(kk, s, n, 1) EXCEPT !.fdt[p][Lowest(FreeFds(kk, p))] = s], TRUE)

\* fd_close
FdClose(kk, p, f) == OfDrop([kk EXCEPT !.fdt[p][f] = CLOSED], kk.fdt[p][f])

\* fd_init_process_stdio: one open file of /dev/tty0 for 0, 1 and 2.
Stdio(kk, p) ==
    LET n == NewNode(kk, Node("tty", 0, "dev", <<>>))
        s == Lowest(FreeSlots(kk))
    IN  IF n.r = 0 THEN kk
        ELSE IF FreeSlots(kk) = {} THEN VfsClose(n.k, n.r)
        ELSE [Fill(n.k, s, n.r, 3) EXCEPT !.fdt[p] = [f \in Fds |-> IF f < 3 THEN s ELSE @[f]]]

\* fd_copy_on_fork
CopyOnFork(kk, p, c) ==
    FoldFunction(LAMBDA s, x : OfShare(x, s), [kk EXCEPT !.fdt[c] = kk.fdt[p]], kk.fdt[p])

\* fd_close_all_for
CloseAll(kk, p) ==
    FoldFunction(LAMBDA s, x : OfDrop(x, s), [kk EXCEPT !.fdt[p] = [f \in Fds |-> CLOSED]], kk.fdt[p])

-----------------------------------------------------------------------------
(* The history. *)

NoFdt == [f \in Fds |-> CLOSED]
Booted ==
    Stdio([vn |-> [i \in 1 .. MaxNodes |->
                      IF i = VfsRoot THEN Node("ram", RAM, "dir", <<0, <<>>>>) ELSE NONE],
           roots |-> <<>>, arr |-> [i \in 1 .. MaxArrays |-> NONE], mounts |-> <<>>,
           ram |-> [i \in 1 .. MaxRam |-> IF i = 1 THEN RamNode(RamFile, "file", 1, <<>>) ELSE NONE],
           blob |-> <<1>>, of |-> [s \in Slots |-> NONE], fdt |-> [p \in Procs |-> NoFdt]], InitProc)
\* The state once init has mounted the points of its configuration.
Init ==
    /\ \E point \in MountPoints : k = VfsMount(Booted, point).k
    /\ alive = {InitProc} /\ pend = [p \in Procs |-> NONE]
    /\ told = {<<0, <<RamFile>>, "file", 1>>} /\ lost = {} /\ hole = {} /\ calls = 0

\* A call with result res.  said: what is told once it has succeeded.
Call(res, said, holes) ==
    /\ calls < MaxCalls /\ calls' = IF res.k = k THEN calls ELSE calls + 1
    /\ k' = res.k
    /\ told' = IF res.r THEN said ELSE told
    /\ hole' = hole \cup holes
    /\ UNCHANGED <<alive, pend, lost>>

When(c, tag) == IF c THEN {tag} ELSE {}

\* Where the caller expects the entry of path: under its parent.
Place(kk, path) ==
    Then(VfsOpen(kk, Front(path)), LAMBDA k1, p :
        IF p = 0 THEN <<-1, <<>>>> ELSE <<k1.vn[p].g[1], Append(k1.vn[p].g[2], Last(path))>>)
TargetOf(kk, path) ==
    Then(Resolve(kk, path, 0, FALSE), LAMBDA k1, n : IF n = 0 THEN NONE ELSE k1.vn[n])
Without(x) == {t \in told : <<t[1], t[2]>> # x}

\* The nodes that are held: by an open file, a mount or a call under way.
Held(kk) ==
    {kk.of[s].node : s \in Slots \ FreeSlots(kk)} \cup {kk.mounts[i].root : i \in DOMAIN kk.mounts}
    \cup {pend[p].node : p \in {q \in Procs : pend[q].type = "open"}}

\* Removing the entry of node v takes it, or its place in the array, from a node
\* that is held; or moves a directory whose entries point back at it.
Disturbs(kk, v) ==
    \/ \E n \in Held(kk) : LET h == kk.vn[n] IN
           h.fs = v.fs /\ IF v.fs = "tmp" THEN h.at[1] = v.at[1] /\ h.at[2] >= v.at[2] ELSE h.at = v.at
    \/ v.fs = "tmp" /\ v.at[1] # 0 /\ \E i \in v.at[2] + 1 .. Len(kk.arr[v.at[1]].e) : kk.arr[v.at[1]].e[i].kids # 0
RemovalHoles(kk, path, ok, v, p) ==
    IF v = NONE \/ p = NONE THEN {}
    ELSE When(p.fs # v.fs /\ v.type # "dir", "mixed")
         \cup When(ok /\ v.g # Place(kk, path), "followed") \cup When(ok /\ Disturbs(kk, v), "disturbed")
UnlinkHoles(kk, path, ok) ==
    RemovalHoles(kk, path, ok, TargetOf(kk, path), TargetOf(kk, Front(path)))

-----------------------------------------------------------------------------
(* System calls on paths. *)

Mkdir(path) == Call(VfsCreate(k, path, "dir"), told \cup {Place(k, path) \o <<"dir", 0>>}, {})

Unlink(path) ==
    LET u == VfsUnlink(k, path)
    IN  Call(u, Without(Place(k, path)), UnlinkHoles(k, path, u.r))

Rmdir(path) ==
    LET u == VfsRmdir(k, path)
    IN  Call(u, Without(Place(k, path)), UnlinkHoles(k, path, u.r))

\* sys_symlink; a name that exists is turned into the link.
Symlink(target, path, null) ==
    LET s == VfsSymlink(k, target, path, null)
        x == Place(k, path)
        old == {t \in told : <<t[1], t[2]>> = x}
    IN  Call(s, Without(x) \cup {x \o <<"link", target>>},
             When(s.r /\ \E t \in old : t[3] # "link", "replaced")
             \cup When(~s.r /\ s.k # k, "targetless"))

\* sys_link; irfs_link takes a node of another file system for one of its own.
Link(old, new) ==
    LET l == VfsLink(k, old, new)
        s == TargetOf(k, old)
        p == TargetOf(k, Front(new))
    IN  Call(l, told \cup {Place(k, new) \o <<"file", 1>>},
             When(s # NONE /\ p # NONE /\ p.fs = "ram" /\ s.fs # "ram" /\ s.type = "file", "mixed"))

Mount(point) == Call(VfsMount(k, point), told, {})
Umount(point) == Call(VfsUnmount(k, point), told, {})

\* sys_rename reads the old file; an allocation may fail.  Of anything else it
\* reads nothing and returns -1.
Waiting(type, node, slot) == [type |-> type, node |-> node, slot |-> slot, old |-> <<>>, new |-> <<>>, data |-> 0]
Renaming(type, old, new, data) ==
    [Waiting(type, 0, 0) EXCEPT !.old = old, !.new = new, !.data = data]
DataOf(kk, v) == IF v.fs = "tmp" THEN EntryAt(kk, v.at).data ELSE kk.ram[v.at].blob
RenameRead(p, old, new) ==
    \E o \in {VfsOpen(k, old)} :
        /\ calls < MaxCalls /\ calls' = calls + 1
        /\ o.r # 0 /\ o.k.vn[o.r].type = "file"
        /\ k' = VfsClose(o.k, o.r)
        /\ \E null \in BOOLEAN :
              pend' = IF null THEN pend
                      ELSE [pend EXCEPT ![p] = Renaming("copy", old, new, DataOf(o.k, o.k.vn[o.r]))]
        /\ UNCHANGED <<alive, told, lost, hole>>

\* It creates the new file and writes it, or takes it away again.  made: the new
\* file is there; half: it is there although the call has failed.
WriteNew(kk, n, data, fails) ==
    IF fails \/ kk.vn[n].fs # "tmp" THEN Result(kk, FALSE) ELSE TmpfsWrite(kk, kk.vn[n].at, data)
Copied(kk, made, half) == [k |-> kk, made |-> made, half |-> half]
CopyTo(new, data, fails) ==
    Then(VfsCreate(k, new, "file"), LAMBDA k1, made :
        IF ~made THEN Copied(k1, FALSE, FALSE)
        ELSE Then(VfsOpen(k1, new), LAMBDA k2, n :
            IF n = 0 THEN Copied(k2, FALSE, TRUE)
            ELSE Then(Closing(WriteNew(k2, n, data, fails), n), LAMBDA k3, written :
                IF ~written THEN Copied(VfsUnlink(k3, new).k, FALSE, FALSE) ELSE Copied(k3, TRUE, FALSE))))
RenameCopy(p) ==
    LET r == pend[p] IN
    /\ r.type = "copy"
    /\ \E fails \in BOOLEAN : \E c \in {CopyTo(r.new, r.data, fails)} :
       /\ k' = c.k
       /\ told' = IF c.made THEN told \cup {Place(k, r.new) \o <<"file", r.data>>} ELSE told
       /\ pend' = [pend EXCEPT ![p] = IF c.made THEN Renaming("drop", r.old, r.new, r.data) ELSE NONE]
       /\ hole' = hole \cup When(c.half, "halfway")
    /\ UNCHANGED <<alive, lost, calls>>

\* It unlinks the old file, whatever that has become: what was written to it in
\* the meantime is gone with it.
RenameDrop(p) ==
    LET r == pend[p]
        u == VfsUnlink(k, r.old)
        v == TargetOf(k, r.old)
    IN  /\ r.type = "drop"
        /\ k' = u.k
        /\ told' = IF u.r THEN Without(Place(k, r.old)) ELSE told
        /\ pend' = [pend EXCEPT ![p] = NONE]
        /\ hole' = hole \cup UnlinkHoles(k, r.old, u.r) \cup When(~u.r, "halfway")
                        \cup When(u.r /\ DataOf(k, v) # r.data, "outdated")
        /\ UNCHANGED <<alive, lost, calls>>

-----------------------------------------------------------------------------
(* System calls on descriptors. *)

\* sys_open, up to the choice of the slot.
Opened(path, creat) ==
    Then(VfsOpen(k, path), LAMBDA k1, o :
        IF o # 0 \/ ~creat THEN [k |-> k1, r |-> o, made |-> FALSE]
        ELSE Then(VfsCreate(k1, path, "file"), LAMBDA k2, made :
            Then(IF made THEN VfsOpen(k2, path) ELSE Result(k1, 0), LAMBDA k3, n :
                [k |-> k3, r |-> n, made |-> made])))
OpenLook(p, path, creat) ==
    \E a \in {Opened(path, creat)} :
        /\ calls < MaxCalls /\ (a.r # 0 \/ a.made)
        /\ IF a.r = 0 THEN k' = a.k /\ UNCHANGED pend        \* made, and then not opened
           ELSE IF FreeSlots(a.k) = {} THEN k' = VfsClose(a.k, a.r) /\ UNCHANGED pend
           ELSE k' = a.k /\ pend' = [pend EXCEPT ![p] = Waiting("open", a.r, Lowest(FreeSlots(a.k)))]
        /\ told' = IF a.made THEN told \cup {Place(k, path) \o <<"file", 0>>} ELSE told
        /\ calls' = calls + 1
        /\ UNCHANGED <<alive, lost, hole>>

\* The slot is filled in; another process may have filled it in meanwhile.
OpenTake(p) ==
    LET s == pend[p].slot
        kk == Fill(k, s, pend[p].node, 1)
    IN  /\ pend[p].type = "open"
        /\ k' = IF FreeFds(kk, p) = {} THEN OfDrop(kk, s)
                ELSE [kk EXCEPT !.fdt[p][Lowest(FreeFds(kk, p))] = s]
        /\ pend' = [pend EXCEPT ![p] = NONE]
        /\ hole' = hole \cup When(k.of[s] # NONE, "slot")
        /\ UNCHANGED <<alive, told, lost, calls>>

\* sys_creat: when fd_alloc fails, the node it has closed is closed again.
Creat(p, path) ==
    \E c \in {VfsCreate(k, path, "file")} : \E n \in {VfsOpen(c.k, path)} :
        LET f == FdAlloc(n.k, p, n.r)
        IN  /\ c.r
            /\ Call(Result(IF n.r = 0 THEN n.k ELSE f.k, TRUE), told \cup {Place(k, path) \o <<"file", 0>>},
                    When(n.r # 0 /\ ~f.r, "closedtwice"))

\* fd_pipe: when there is no room for both ends, a node is destroyed twice.
Pipe(p) ==
    LET r == NewNode(k, Node("pipe", 0, "dev", <<>>))
        w == NewNode(r.k, Node("pipe", 0, "dev", <<>>))
        f == FdAlloc(w.k, p, r.r)
        g == FdAlloc(f.k, p, w.r)
    IN  IF r.r = 0 \/ w.r = 0 THEN Call(Result(k, FALSE), told, {})
        ELSE IF ~f.r THEN Call(f, told, {"closedtwice"})
        ELSE Call(g, told, When(~g.r, "closedtwice"))

Close(p, f) == Call(Result(FdClose(k, p, f), TRUE), told, {})

\* fd_dup
\* Mutant: the open file is not counted again.
DupUncounted(p, f) ==
    /\ k.fdt[p][f] # CLOSED /\ FreeFds(k, p) # {}
    /\ Call(Result([k EXCEPT !.fdt[p][Lowest(FreeFds(k, p))] = k.fdt[p][f]], TRUE), told, {})
Dup(p, f) ==
    /\ k.fdt[p][f] # CLOSED /\ FreeFds(k, p) # {}
    /\ Call(Result(OfShare([k EXCEPT !.fdt[p][Lowest(FreeFds(k, p))] = k.fdt[p][f]], k.fdt[p][f]), TRUE), told, {})

\* fd_dup2
Dup2(p, old, new) ==
    LET s == k.fdt[p][old]
        kk == IF k.fdt[p][new] = CLOSED THEN k ELSE FdClose(k, p, new)
    IN  /\ s # CLOSED /\ old # new
        /\ Call(Result(OfShare([kk EXCEPT !.fdt[p][new] = s], s), TRUE), told, {})

\* sys_write: to a file of the tmpfs here; the initramfs refuses.
Write(p, f, data) ==
    LET v == k.vn[k.of[k.fdt[p][f]].node]
        w == TmpfsWrite(k, v.at, data)
    IN  /\ k.fdt[p][f] # CLOSED /\ k.of[k.fdt[p][f]] # NONE /\ v.fs = "tmp" /\ v.type = "file"
        /\ Call(w, Without(v.g) \cup {v.g \o <<"file", data>>}, {})

\* sys_fork: the child's own stdio is made and then written over.
Fork(p, c) ==
    LET kk == Stdio(k, c)
        res == CopyOnFork(kk, p, c)
    IN  /\ c \notin alive
        /\ calls < MaxCalls /\ calls' = calls + 1
        /\ k' = res /\ alive' = alive \cup {c}
        /\ lost' = lost \cup ({kk.fdt[c][0]} \ {CLOSED})
        /\ UNCHANGED <<pend, told, hole>>

\* process_destroy
Destroy(p) ==
    /\ p # InitProc /\ p \in alive /\ pend[p] = NONE
    /\ k' = CloseAll(k, p) /\ alive' = alive \ {p}
    /\ UNCHANGED <<pend, told, lost, hole, calls>>

\* Two processes are in the middle of code that is not made for it, on one object:
\* they count the same root node (vfs_close), change the same directory
\* (tmpfs_create_entry, tmpfs_unlink), one walks the list of mounts the other
\* changes, or they count the same open file (of_drop, fd_dup).
Overlaps ==
    When(\E x, y \in Paths : FindMount(k, x) = FindMount(k, y), "root")
    \cup When(\E x, y \in Paths : Front(x) = Front(y) /\ (VfsCreate(k, x, "file").r \/ VfsUnlink(k, x).r), "array")
    \cup When(\E m \in MountPoints : VfsMount(k, m).r \/ VfsUnmount(k, m).r, "mounts")
    \cup When(\E p, q \in alive : p # q /\ \E f, g \in Fds : k.fdt[p][f] = k.fdt[q][g] /\ k.fdt[p][f] # CLOSED, "count")
Overlap ==
    /\ Cardinality(alive) > 1 /\ hole = {}
    /\ \E tag \in Overlaps : hole' = {tag}
    /\ UNCHANGED <<k, alive, pend, told, lost, calls>>

\* The bound is reached.
Idle == calls = MaxCalls /\ UNCHANGED vars

Next ==
    \/ Idle
    \/ /\ calls < MaxCalls
       /\ \/ \E path \in Paths : Mkdir(path) \/ Unlink(path) \/ Rmdir(path)
          \/ \E path \in Paths, t \in Targets, null \in BOOLEAN : Symlink(t, path, null)
          \/ \E old, new \in Paths : Link(old, new)
          \/ \E point \in MountPoints : Mount(point) \/ Umount(point)
    \/ Overlap
    \/ \E p \in alive :
          \/ OpenTake(p)
          \/ RenameCopy(p) \/ RenameDrop(p)
          \/ Destroy(p)
          \/ /\ pend[p] = NONE /\ calls < MaxCalls
             /\ \/ \E path \in Paths : Creat(p, path) \/ \E c \in BOOLEAN : OpenLook(p, path, c)
                \/ \E f \in Fds : Close(p, f) \/ Dup(p, f) \/ Write(p, f, 1) \/ \E g \in Fds : Dup2(p, f, g)
                \/ \E old, new \in Paths : RenameRead(p, old, new)
                \/ Pipe(p)
                \/ \E c \in Procs : Fork(p, c)
Spec == Init /\ [][Next]_vars

UpToFirstHole == hole = {}

-----------------------------------------------------------------------------
Calm == hole = {}

\* A node's count is the number of those who hold it (open files, mounts, vfs_root
\* and the call under way), on every path of every call: none is freed under its
\* user and none is left behind.
ReferencesBalance ==
    Calm => \A n \in 1 .. MaxNodes :
        (IF k.vn[n] = NONE THEN 0 ELSE k.vn[n].ref) =
            Cardinality({s \in Slots \ FreeSlots(k) : k.of[s].node = n})
            + Cardinality({i \in DOMAIN k.mounts : k.mounts[i].root = n})
            + Cardinality({p \in Procs : pend[p].type = "open" /\ pend[p].node = n})
            + (IF n = VfsRoot THEN 1 ELSE 0)

\* An open file counts the descriptors that point at it, over all processes; a
\* descriptor never points at a free slot.  The one made for a child by fork is
\* the exception: its three references are never dropped.
OpenFilesAreCounted ==
    Calm => \A s \in Slots :
        LET users == Cardinality({x \in Procs \X Fds : k.fdt[x[1]][x[2]] = s})
        IN  IF k.of[s] = NONE THEN users = 0
            ELSE k.of[s].refs = users + (IF s \in lost THEN 3 ELSE 0)

\* A node that is held stands for the entry it was opened on, however the tree
\* has changed since.
NodesReachTheirEntry ==
    Calm => \A n \in Held(k) : LET v == k.vn[n] IN
        /\ v.fs = "tmp" => \/ v.at = <<0, v.g[1]>> /\ v.g[2] = <<>>
                           \/ <<v.at, v.g[2]>> \in TmpfsTree(k, v.g[1])
        /\ v.fs = "ram" => v.at = RAM \/ (k.ram[v.at] # NONE /\ <<k.ram[v.at].name>> = v.g[2])

\* The directories hold what the callers were told, with the data last written,
\* and a blob counts its links: a map from paths to contents.
TreeIsWhatWasTold ==
    Calm => /\ Listed(k) = told
            /\ ~TreeIsTorn(k)
            /\ k.blob[1] = Cardinality({i \in DOMAIN k.ram \ FreeOf(k.ram) : k.ram[i].type = "file"})

\* The trees are what processes were told, and every node held still stands for
\* its entry, while others create, remove and rename.
TreesAreSound == NodesReachTheirEntry /\ TreeIsWhatWasTold
=============================================================================
