-------------------------------- MODULE Vfs --------------------------------
(***************************************************************************)
(* Path resolution, mounts and the reference counts of nodes (fs/vfs.c),   *)
(* over the two file systems that live in memory: tmpfs (fs/tmpfs.c) and   *)
(* the initramfs (fs/initramfs.c), which is the root.                      *)
(*                                                                         *)
(* A call of the VFS is an operator from the kernel's memory k to          *)
(* [k, r]: the memory after it and what it returns (a node number or 0, or *)
(* TRUE and FALSE for 0 and -1).  A path is a sequence of names.  Every    *)
(* pool below is finite: when one is empty, kmalloc returns NULL.          *)
(*                                                                         *)
(* The address of a tmpfs entry is <<array, index>>, because a directory   *)
(* keeps its entries in one array and closes the gap an unlink leaves; the *)
(* entry of the root of instance m is <<0, m>>.  An initramfs node keeps   *)
(* its number for life.  Permissions are left out: VFS_ENFORCE_PERMS is 0. *)
(***************************************************************************)
EXTENDS Integers, FiniteSets, SequencesExt

CONSTANTS
    MaxNodes,    \* vfs_node_t in memory
    MaxArrays,   \* tmpfs entry arrays in memory
    MaxEntries,  \* TMPFS_MAX_ENTRIES
    MaxRam,      \* initramfs nodes in memory, the root aside
    MaxMounts,   \* bound: the tmpfs instances
    MountPoints, \* paths where a tmpfs may be mounted
    RamFile      \* the file the initramfs holds at boot

ASSUME VfsAssumption ==
    /\ {MaxNodes, MaxArrays, MaxEntries, MaxRam, MaxMounts} \subseteq Nat \ {0}

NONE == [type |-> "none"]
RAM == 0                       \* number of the initramfs root
SymlinkDepth == 8
VfsRoot == 1                   \* the node vfs_root

\* at: the entry the node stands for; g: history, the <<instance, path>> it was found under.
Node(fs, at, type, g) == [fs |-> fs, at |-> at, type |-> type, ref |-> 1, g |-> g]

FreeOf(pool) == {i \in DOMAIN pool : pool[i] = NONE}
Lowest(S) == CHOOSE i \in S : \A j \in S : i <= j
Result(k, r) == [k |-> k, r |-> r]
\* What comes after a call with that result.
Then(res, Rest(_, _)) == Rest(res.k, res.r)

-----------------------------------------------------------------------------
(* Nodes. *)

\* vfs_create_node
NewNode(k, n) ==
    IF FreeOf(k.vn) = {} THEN Result(k, 0)
    ELSE LET i == Lowest(FreeOf(k.vn)) IN Result([k EXCEPT !.vn[i] = n], i)
Get(k, i) == [k EXCEPT !.vn[i].ref = @ + 1]
\* vfs_close, vfs_destroy_node
VfsClose(k, i) ==
    IF k.vn[i].ref = 1 THEN [k EXCEPT !.vn[i] = NONE] ELSE [k EXCEPT !.vn[i].ref = @ - 1]

\* A call that ends with closing node n.
Closing(res, n) == Result(VfsClose(res.k, n), res.r)

-----------------------------------------------------------------------------
(* tmpfs. *)

ZERO == [name |-> "", type |-> "zero", data |-> 0, kids |-> 0, parent |-> <<>>]
EntryAt(k, a) ==
    IF a[1] = 0 THEN k.roots[a[2]]
    ELSE IF k.arr[a[1]] = NONE \/ a[2] > Len(k.arr[a[1]].e) THEN ZERO
    ELSE k.arr[a[1]].e[a[2]]
SetEntry(k, a, e) ==
    IF a[1] = 0 THEN [k EXCEPT !.roots[a[2]] = e] ELSE [k EXCEPT !.arr[a[1]].e[a[2]] = e]
Entries(k, a) == LET d == EntryAt(k, a).kids IN IF d = 0 THEN <<>> ELSE k.arr[d].e

\* tmpfs_find_entry: the index of the entry, or 0
TmpfsFind(k, a, name) ==
    IF EntryAt(k, a).type # "dir" THEN 0
    ELSE SelectInSeq(Entries(k, a), LAMBDA e : e.name = name)

\* tmpfs_create_entry: the array comes with the first entry.
\* Mutant: a new entry is put in front of the others.
TmpfsCreateFirst(k, a, name, type) ==
    LET d == EntryAt(k, a)
        arr == IF d.kids # 0 THEN d.kids ELSE Lowest(FreeOf(k.arr))
        k1 == IF d.kids # 0 THEN k
              ELSE [SetEntry(k, a, [d EXCEPT !.kids = arr]) EXCEPT !.arr[arr] = [type |-> "arr", e |-> <<>>]]
    IN  IF \/ d.type # "dir" \/ Len(Entries(k, a)) >= MaxEntries
           \/ TmpfsFind(k, a, name) # 0
           \/ d.kids = 0 /\ FreeOf(k.arr) = {}
        THEN Result(k, FALSE)
        ELSE Result([k1 EXCEPT !.arr[arr].e =
                        <<[name |-> name, type |-> type, data |-> 0, kids |-> 0, parent |-> a]>> \o @], TRUE)
TmpfsCreate(k, a, name, type) ==
    LET d == EntryAt(k, a)
        arr == IF d.kids # 0 THEN d.kids ELSE Lowest(FreeOf(k.arr))
        k1 == IF d.kids # 0 THEN k
              ELSE [SetEntry(k, a, [d EXCEPT !.kids = arr]) EXCEPT !.arr[arr] = [type |-> "arr", e |-> <<>>]]
    IN  IF \/ d.type # "dir" \/ Len(Entries(k, a)) >= MaxEntries
           \/ TmpfsFind(k, a, name) # 0
           \/ d.kids = 0 /\ FreeOf(k.arr) = {}
        THEN Result(k, FALSE)
        ELSE Result([k1 EXCEPT !.arr[arr].e = Append(@,
                        [name |-> name, type |-> type, data |-> 0, kids |-> 0, parent |-> a])], TRUE)

\* tmpfs_unlink: the entries behind the removed one move down by one place.
TmpfsUnlink(k, a) ==
    LET e == EntryAt(k, a)
        k1 == IF e.kids = 0 THEN k
              ELSE [SetEntry(k, a, [e EXCEPT !.kids = 0]) EXCEPT !.arr[e.kids] = NONE]
        up == IF e.parent = <<>> THEN 0 ELSE EntryAt(k1, e.parent).kids
    IN  IF e.type = "dir" /\ Entries(k, a) # <<>> THEN Result(k, FALSE)
        ELSE Result(IF up # a[1] \/ up = 0 \/ a[2] > Len(k1.arr[up].e) THEN k1
                    ELSE [k1 EXCEPT !.arr[up].e = RemoveAt(@, a[2])], TRUE)

\* tmpfs_write; a write of no bytes fails.
TmpfsWrite(k, a, data) ==
    IF data = 0 \/ EntryAt(k, a).type # "file" THEN Result(k, FALSE)
    ELSE Result(SetEntry(k, a, [EntryAt(k, a) EXCEPT !.data = data]), TRUE)

\* tmpfs_get_root: each mount has an instance of its own.
TmpfsRoot == [name |-> "tmpfs_root", type |-> "dir", data |-> 0, kids |-> 0, parent |-> <<>>]

-----------------------------------------------------------------------------
(* The initramfs: one directory here, and blobs shared by its hard links.  *)

RamNode(name, type, blob, target) ==
    [name |-> name, type |-> type, blob |-> blob, target |-> target]
\* irfs_find_child
RamFind(k, name) == {i \in DOMAIN k.ram : k.ram[i] # NONE /\ k.ram[i].name = name}
RamType(k, i) == IF i = RAM THEN "dir" ELSE k.ram[i].type

\* irfs_unlink
RamUnlink(k, i) ==
    IF RamType(k, i) = "dir" THEN Result(k, FALSE)
    ELSE LET n == k.ram[i]
         IN  Result([k EXCEPT !.ram[i] = NONE,
                              !.blob = IF n.type = "file" THEN [@ EXCEPT ![n.blob] = @ - 1] ELSE @], TRUE)

\* irfs_symlink: a node of that name is turned into the link, whatever it was;
\* the target is allocated last, and without it (null) the node stays as it is.
RamSymlink(k, i, name, target, null) ==
    LET to == IF null THEN <<>> ELSE target
        j == Lowest(RamFind(k, name))
    IN  IF i # RAM THEN Result(k, FALSE)
        ELSE IF RamFind(k, name) # {}
        THEN Result([k EXCEPT !.ram[j] = [@ EXCEPT !.type = "link", !.target = to]], ~null)
        ELSE IF FreeOf(k.ram) = {} THEN Result(k, FALSE)
        ELSE Result([k EXCEPT !.ram[Lowest(FreeOf(k.ram))] = RamNode(name, "link", 0, to)], ~null)

\* irfs_link
RamLink(k, i, name, src) ==
    IF i # RAM \/ RamType(k, src) # "file" \/ RamFind(k, name) # {} \/ FreeOf(k.ram) = {}
    THEN Result(k, FALSE)
    ELSE LET b == k.ram[src].blob
         IN  Result([k EXCEPT !.ram[Lowest(FreeOf(k.ram))] = RamNode(name, "file", b, <<>>),
                              !.blob[b] = @ + 1], TRUE)

-----------------------------------------------------------------------------
(* Resolution. *)

\* tmpfs_finddir, irfs_finddir: a new node for the child; devices have no finddir.
FindDir(k, n, name) ==
    LET v == k.vn[n]
        g == <<v.g[1], Append(v.g[2], name)>>
        i == TmpfsFind(k, v.at, name)
        a == <<EntryAt(k, v.at).kids, i>>
        c == Lowest(RamFind(k, name))
    IN  IF v.fs = "tmp" /\ i # 0 THEN NewNode(k, Node("tmp", a, EntryAt(k, a).type, g))
        ELSE IF v.fs = "ram" /\ v.at = RAM /\ RamFind(k, name) # {}
        THEN NewNode(k, Node("ram", c, RamType(k, c), g))
        ELSE Result(k, 0)

\* vfs_find_mount: the newest mount with the longest point that is a prefix; the
\* point "/" is a prefix of "/" alone.
Covers(point, path) == IF point = <<>> THEN path = <<>> ELSE IsPrefix(point, path)
FindMount(k, path) ==
    SelectInSeq(k.mounts, LAMBDA m : Covers(m.point, path) /\
        \A j \in 1 .. Len(k.mounts) :
            Covers(k.mounts[j].point, path) => Len(k.mounts[j].point) <= Len(m.point))

\* vfs_resolve_path_internal2: a node is released once its child is found, and a
\* symbolic link starts over with the new path.
RECURSIVE Resolve(_, _, _, _), Descend(_, _, _, _, _), Follow(_, _, _, _, _)
Resolve(k, path, depth, nofollow) ==
    LET m == FindMount(k, path)
        root == IF m = 0 THEN VfsRoot ELSE k.mounts[m].root
        skip == IF m = 0 THEN 0 ELSE Len(k.mounts[m].point)
    IN  Descend(Get(k, root), root, SubSeq(path, skip + 1, Len(path)), depth, nofollow)
Descend(k, n, rest, depth, nofollow) ==
    IF rest = <<>> THEN Result(k, n)
    ELSE Then(FindDir(k, n, Head(rest)),
              LAMBDA k1, c : Follow(VfsClose(k1, n), c, rest, depth, nofollow))
Follow(k, c, rest, depth, nofollow) ==
    LET isLink == k.vn[c].type = "link" /\ ~(nofollow /\ Len(rest) = 1)
    IN  IF c = 0 THEN Result(k, 0)
        ELSE IF ~isLink THEN Descend(k, c, Tail(rest), depth, nofollow)
        ELSE IF depth > SymlinkDepth THEN Result(VfsClose(k, c), 0)
        ELSE Resolve(VfsClose(k, c), k.ram[k.vn[c].at].target \o Tail(rest), depth + 1, FALSE)

\* vfs_open; the open operations of both file systems return 0.
VfsOpen(k, path) == Resolve(k, path, 0, FALSE)

-----------------------------------------------------------------------------
(* The calls that change a directory: the parent is opened, its file       *)
(* system's operation is called, and what was opened is closed again.      *)

\* vfs_create, vfs_mkdir; the initramfs refuses both.
VfsCreate(k, path, type) ==
    Then(VfsOpen(k, Front(path)), LAMBDA k1, p :
        IF p = 0 THEN Result(k1, FALSE)
        ELSE IF k1.vn[p].type # "dir" \/ k1.vn[p].fs # "tmp" THEN Closing(Result(k1, FALSE), p)
        ELSE Closing(TmpfsCreate(k1, k1.vn[p].at, Last(path), type), p))

\* vfs_unlink: the node of the path, which a link at its end leads away from,
\* and the operation of the parent's file system.
UnlinkNode(k, fs, n) ==
    IF fs # k.vn[n].fs THEN Result(k, FALSE)
    ELSE IF fs = "tmp" THEN TmpfsUnlink(k, k.vn[n].at) ELSE RamUnlink(k, k.vn[n].at)
VfsUnlink(k, path) ==
    Then(Resolve(k, path, 0, FALSE), LAMBDA k1, n :
        IF n = 0 THEN Result(k1, FALSE)
        ELSE Then(VfsOpen(k1, Front(path)), LAMBDA k2, p :
            IF p = 0 THEN Closing(Result(k2, FALSE), n)
            ELSE Closing(Closing(UnlinkNode(k2, k2.vn[p].fs, n), p), n)))

\* vfs_rmdir of a directory: irfs_rmdir refuses, tmpfs_rmdir is tmpfs_unlink.
RmdirNode(k, path, n) ==
    Then(VfsOpen(k, Front(path)), LAMBDA k1, p :
        IF p = 0 THEN Closing(Result(k1, FALSE), n)
        ELSE Closing(Closing(IF k1.vn[p].fs = "tmp" THEN UnlinkNode(k1, "tmp", n) ELSE Result(k1, FALSE), p), n))
\* Mutant: what is no directory is not closed.
VfsRmdirKeeping(k, path) ==
    Then(Resolve(k, path, 0, FALSE), LAMBDA k1, n :
        IF n = 0 \/ k1.vn[n].type # "dir" THEN Result(k1, FALSE) ELSE RmdirNode(k1, path, n))
VfsRmdir(k, path) ==
    Then(Resolve(k, path, 0, FALSE), LAMBDA k1, n :
        IF n = 0 THEN Result(k1, FALSE)
        ELSE IF k1.vn[n].type # "dir" THEN Closing(Result(k1, FALSE), n)
        ELSE RmdirNode(k1, path, n))

\* vfs_symlink; tmpfs has no symlink operation.
VfsSymlink(k, target, path, null) ==
    Then(VfsOpen(k, Front(path)), LAMBDA k1, p :
        IF p = 0 THEN Result(k1, FALSE)
        ELSE IF k1.vn[p].fs # "ram" THEN Closing(Result(k1, FALSE), p)
        ELSE Closing(RamSymlink(k1, k1.vn[p].at, Last(path), target, null), p))

\* vfs_link: the source may be of another file system, whose node irfs_link
\* takes for one of its own; the model stops short of what it reads there.
VfsLink(k, old, new) ==
    Then(Resolve(k, old, 0, FALSE), LAMBDA k1, s :
        IF s = 0 THEN Result(k1, FALSE)
        ELSE Then(VfsOpen(k1, Front(new)), LAMBDA k2, p :
            IF p = 0 THEN Closing(Result(k2, FALSE), s)
            ELSE IF k2.vn[p].fs # "ram" \/ k2.vn[s].fs # "ram" THEN Closing(Closing(Result(k2, FALSE), p), s)
            ELSE Closing(Closing(RamLink(k2, k2.vn[p].at, Last(new), k2.vn[s].at), p), s)))

\* vfs_mount of a tmpfs, at the head of the list.
VfsMount(k, point) ==
    LET m == Len(k.roots) + 1
        n == NewNode([k EXCEPT !.roots = Append(@, TmpfsRoot)], Node("tmp", <<0, m>>, "dir", <<m, <<>>>>))
    IN  IF m > MaxMounts \/ n.r = 0 THEN Result(k, FALSE)
        ELSE Result([n.k EXCEPT !.mounts = <<[point |-> point, root |-> n.r]>> \o @], TRUE)

\* vfs_unmount: the first of that point; nobody asks who still uses it.
VfsUnmount(k, point) ==
    LET i == SelectInSeq(k.mounts, LAMBDA m : m.point = point)
    IN  IF i = 0 THEN Result(k, FALSE)
        ELSE Result([VfsClose(k, k.mounts[i].root) EXCEPT !.mounts = RemoveAt(@, i)], TRUE)

-----------------------------------------------------------------------------
(* What the calls mean: history and its comparison with the memory. *)

\* Every entry of instance m, as <<instance, path, type, data>>.
TmpfsTree(k, m) ==
    LET Kids(a, path) == {<<<<EntryAt(k, a).kids, i>>, Append(path, Entries(k, a)[i].name)>> :
                              i \in DOMAIN Entries(k, a)}
        level[n \in 0 .. MaxArrays] ==
            IF n = 0 THEN Kids(<<0, m>>, <<>>)
            ELSE UNION {Kids(x[1], x[2]) : x \in level[n-1]}
    IN  UNION {level[n] : n \in 0 .. MaxArrays}
Listed(k) ==
    UNION {{<<m, x[2], EntryAt(k, x[1]).type, EntryAt(k, x[1]).data>> : x \in TmpfsTree(k, m)} :
           m \in DOMAIN k.roots}
    \cup {<<0, <<k.ram[i].name>>, k.ram[i].type,
            IF k.ram[i].type = "link" THEN k.ram[i].target ELSE k.ram[i].blob>> : i \in DOMAIN k.ram \ FreeOf(k.ram)}

\* Two entries of one name in a directory, or an entry that does not know its directory.
TreeIsTorn(k) ==
    \E m \in DOMAIN k.roots : \E x, y \in TmpfsTree(k, m) :
        \/ x # y /\ x[2] = y[2]
        \/ <<0, m>> # EntryAt(k, x[1]).parent /\ EntryAt(k, EntryAt(k, x[1]).parent).kids # x[1][1]
=============================================================================
