------------------------------- MODULE Fat32 -------------------------------
(***************************************************************************)
(* The FAT32 driver (fs/fat32.c) and its VFS operations (fs/fat32_vfs.c).  *)
(* A long name is stored as parts of 13 characters, each an LFN entry, in  *)
(* front of the short entry and in the same cluster; the entry keeps in    *)
(* "long" the name a scan will put together from the parts.                *)
(***************************************************************************)
EXTENDS FatVolume

\* fat32_allocate_cluster: from the FSInfo hint on, around the volume, N probes.
Probe(start, i) == IF start + i <= N + 1 THEN start + i ELSE 2 + (start + i - N - 2)
ProbeFrom(start, i) == IF start > N + 1 THEN IF i = 0 THEN start ELSE i + 1 ELSE Probe(start, i)
\* fat32_free_cluster_chain: the count grows once the whole chain is free.
FreeClusterChain(b, c) ==
    LET ch == Chain(b.v.fat, c)
        freed == FoldLeft(LAMBDA x, k : Put(x, "fat", k, FREE), b, ch)
    IN  Put(freed, "info", "free", b.v.info.free + Len(ch))
\* own: the cluster of a new directory, given back on every failure.
Back(b, own) == IF own = 0 THEN <<>> ELSE FreeClusterChain([b EXCEPT !.log = <<>>], own).log

Take(b, c, own) ==
    Put(Put(Do([b EXCEPT !.c = c], "fat", c, EOC, "", "", FALSE, Back(b, own)),
            "info", "free", IF b.v.info.free > 0 THEN b.v.info.free - 1 ELSE 0),
        "info", "next", c + 1)
AllocateCluster(b, own) ==
    LET start == IF b.v.info.next >= 2 THEN b.v.info.next ELSE 2
        i == SelectInSeq([n \in 1 .. N |-> ProbeFrom(start, n - 1)], LAMBDA c : c \in Free(b.v))
        c == ProbeFrom(start, i - 1)
    IN  IF ~b.ok \/ i = 0 THEN [GiveUp(b) EXCEPT !.c = 0] ELSE Take(b, c, own)

\* The next cluster of the chain; past its end a new one, linked after it is
\* marked.  The result of fat32_set_fat_entry is not looked at.
LinkedFrom(a, c) == IF a.ok THEN Do(a, "fat", c, a.c, "unlinked", "", TRUE, <<>>) ELSE a
NextOrNew(b, own) ==
    IF ~b.ok THEN b
    ELSE IF b.v.fat[b.c] \in Cl THEN [b EXCEPT !.c = b.v.fat[b.c]]
    ELSE LinkedFrom(AllocateCluster(b, own), b.c)

\* fat32_write_file_data, with the first cluster kept in the node at once.
KeepStart(a, h) == IF a.ok THEN Put(a, "node", h, [a.v.node[h] EXCEPT !.start = a.c]) ELSE a
FirstCluster(v, h) ==
    IF v.node[h].start # 0 THEN [Begin(v) EXCEPT !.c = v.node[h].start]
    ELSE KeepStart(AllocateCluster(Begin(v), 0), h)
DataOf(b) == IF b.ok THEN PutData(b) ELSE b
WriteFileData(v, h, off, len) ==
    FoldLeft(LAMBDA b, i : DataOf(IF i > off \div CS THEN NextOrNew(b, 0) ELSE b),
             FoldLeft(LAMBDA b, i : NextOrNew(b, 0), FirstCluster(v, h), [i \in 1 .. off \div CS |-> i]),
             Touched(off, len))

\* fat32_update_dir_entry: the first entry with this short name; fat32_vfs_write
\* goes on when it fails.
UpdateAt(b, n, p) ==
    IF p = <<>> THEN b
    ELSE Do(b, "dir", p[1], [b.v.dir[p[1]] EXCEPT
                ![p[2]] = [@ EXCEPT !.k = "file", !.first = n.first, !.size = n.size]],
            "", "", TRUE, <<>>)
UpdateDirEntry(b, n) == UpdateAt(b, n, FirstEntry(b.v, n.d, LAMBDA e : e.short = n.short))

\* fat32_vfs_write: the entry follows when size or first cluster changed.
EntryFollows(b, h, end) ==
    LET n == [b.v.node[h] EXCEPT !.size = IF end > @ THEN end ELSE @, !.first = b.v.node[h].start]
    IN  IF ~b.ok \/ n = b.v.node[h] THEN b ELSE UpdateDirEntry(Put(b, "node", h, n), n)
Written(v, h, off, len) == EntryFollows(WriteFileData(v, h, off, len), h, off + len)

\* The entry that update and delete find is not the one meant: another file of
\* the directory has the same short name.
IsAliased(v, d, s) ==
    Cardinality({p \in Range(Visible(v, d)) : At(v, p).short = s}) > 1

Write32(h, off, len) ==
    /\ vol.node[h] # NONE
    /\ LET b == Written(vol, h, off, len)
       IN  Start(b, names, FALSE,
                 (IF IsStale(vol, h) THEN {"stale"} ELSE {})
                 \cup IF IsAliased(vol, vol.node[h].d, vol.node[h].short) THEN {"alias"} ELSE {})

-----------------------------------------------------------------------------
(* Directories. *)

\* fat32_needs_lfn, fat32_generate_lfn_entries: the parts go to the disk last
\* part first, and fat32_dir_iter_next joins them in the order it meets them.
NumLfn(n) == IF Short[n] = n THEN 0 ELSE Len(n)
NameReadBack(n) == IF NumLfn(n) = 0 THEN n ELSE Reverse(n)
NewEntries(kind, n, first) ==
    [i \in 1 .. NumLfn(n) |-> LFN] \o <<Entry(kind, Short[n], NameReadBack(n), first, 0)>>

\* The first index of cluster c with room for m entries, or 0.
Room(v, c, m) ==
    SelectInSeq([i \in 1 .. Slots - m + 1 |-> i],
                LAMBDA i : \A j \in i .. i + m - 1 : v.dir[c][j] \in {END, DEL})
Overlay(old, i, new) ==
    [j \in DOMAIN old |-> IF j \in i .. i + Len(new) - 1 THEN new[j - i + 1] ELSE old[j]]

\* The search of fat32_create_file and fat32_create_directory: the first cluster
\* with room; behind the last one a new cluster is linked and then zeroed.
PlaceAt(b, c, i, new, own) ==
    LET back == Back(b, own)
    IN  Do(b, "dir", c, Overlay(b.v.dir[c], i, new), "", Undoing(back), FALSE, back)
Zeroed(x, own) == Do(x, "dir", x.c, EmptyCluster, "unzeroed", "", FALSE, Back(x, own))
PlaceBehind(x, new, own) ==
    IF x.ok THEN PlaceAt(Zeroed(x, own), x.c, 1, new, own)
    ELSE IF own = 0 THEN x ELSE FreeClusterChain(x, own)
PlaceIn(b, ch, new, own) ==
    LET k == SelectInSeq(ch, LAMBDA c : Room(b.v, c, Len(new)) # 0)
    IN  IF k # 0 THEN PlaceAt(b, ch[k], Room(b.v, ch[k], Len(new)), new, own)
        ELSE PlaceBehind(NextOrNew([b EXCEPT !.c = Last(ch)], own), new, own)
PlaceEntries(b, d, new, own) == PlaceIn(b, Chain(b.v.fat, d), new, own)

\* fat32_create_file
CreateFile(v, d, n) == PlaceEntries(Begin(v), d, NewEntries("file", n, 0), 0)

\* fat32_create_directory
DirectoryIn(a, d, n) ==
    IF ~a.ok THEN a
    ELSE PlaceEntries(Do(a, "dir", a.c, NewDirectory, "", "", FALSE, Back(a, a.c)),
                      d, NewEntries("dir", n, a.c), a.c)
CreateDirectory(v, d, n) == DirectoryIn(AllocateCluster(Begin(v), 0), d, n)

\* The entry at p and the LFN entries in front of it get 0xE5.
Erase(v, p) ==
    LET old == v.dir[p[1]]
        from == CHOOSE i \in 1 .. p[2] :
                    /\ \A j \in i .. p[2] - 1 : old[j] = LFN
                    /\ i = 1 \/ old[i - 1] # LFN
    IN  Overlay(old, from, [i \in 1 .. p[2] - from + 1 |-> DEL])

\* fat32_delete_file, fat32_delete_directory: found by long name, erased by
\* short name, and then the chain of the one that was found is freed.
\* Mutant: the chain is freed before the entry is erased.
FreeAndErase(v, d, p) ==
    LET q == FirstEntry(v, d, LAMBDA e : e.short = At(v, p).short)
        b == IF At(v, p).first \in Cl THEN FreeClusterChain(Begin(v), At(v, p).first) ELSE Begin(v)
    IN  Put(b, "dir", q[1], Erase(v, q))
EraseAndFree(v, d, p) ==
    LET q == FirstEntry(v, d, LAMBDA e : e.short = At(v, p).short)
        b == Put(Begin(v), "dir", q[1], Erase(v, q))
    IN  IF At(v, p).first \in Cl THEN FreeClusterChain(b, At(v, p).first) ELSE b
FindInDir(v, d, n) == FirstEntry(v, d, LAMBDA e : e.long = n)
DeleteFile(v, d, n) ==
    LET p == FindInDir(v, d, n)
    IN  IF p = <<>> \/ At(v, p).k # "file" THEN GiveUp(Begin(v)) ELSE EraseAndFree(v, d, p)

\* Every cluster of the directory is looked at, each up to its END.
\* Mutant: the entry after the two dots is skipped.
DirectoryIsEmptyLate(v, d) ==
    \A c \in Range(Chain(v.fat, d)) : \A j \in 4 .. Slots :
        v.dir[c][j].k \in {"file", "dir", "junk"} => \E i \in 1 .. j : v.dir[c][i] = END
DirectoryIsEmpty(v, d) ==
    \A c \in Range(Chain(v.fat, d)) : \A j \in 1 .. Slots :
        v.dir[c][j].k \in {"file", "dir", "junk"} => \E i \in 1 .. j : v.dir[c][i] = END
DeleteDirectory(v, d, n) ==
    LET p == FindInDir(v, d, n)
    IN  IF p = <<>> \/ At(v, p).k # "dir" \/ ~DirectoryIsEmpty(v, At(v, p).first)
        THEN GiveUp(Begin(v)) ELSE EraseAndFree(v, d, p)

-----------------------------------------------------------------------------
(* The calls. *)

\* A create that succeeds where the name exists makes a second entry of that
\* name: fat32_create_file and fat32_create_directory do not look for it.
MadeTwice(b, d, n) == IF b.ok /\ <<d, NameReadBack(n)>> \in names THEN {"twice"} ELSE {}
\* A name of two parts is read back with its parts in the wrong order.
Swapped(b, n) == IF b.ok /\ NameReadBack(n) # n THEN {"swapped"} ELSE {}
\* The entries went behind an END, where no scan comes.
Hidden(b, d, n) == IF b.ok /\ FindInDir(b.v, d, NameReadBack(n)) = <<>> THEN {"hidden"} ELSE {}
Create32(d, n) ==
    LET b == CreateFile(vol, d, n)
    IN  Start(b, names \cup {<<d, n>>}, FALSE, MadeTwice(b, d, n) \cup Hidden(b, d, n) \cup Swapped(b, n))
Mkdir32(d, n) ==
    LET b == CreateDirectory(vol, d, n)
    IN  Start(b, names \cup {<<d, n>>}, FALSE, MadeTwice(b, d, n) \cup Hidden(b, d, n) \cup Swapped(b, n))
Unlink32(d, n) ==
    LET b == DeleteFile(vol, d, n)
        p == FindInDir(vol, d, n)
    IN  Start(b, names \ {<<d, n>>}, FALSE,
              IF b.ok /\ IsAliased(vol, d, At(vol, p).short) THEN {"alias"} ELSE {})

\* vfs_rmdir leaves node->parent NULL, and fat32_vfs_rmdir then returns -1; the
\* function below is reached by calling the driver itself.
Rmdir32(d, n) ==
    LET b == DeleteDirectory(vol, d, n)
        p == FindInDir(vol, d, n)
    IN  Start(b, names \ {<<d, n>>}, FALSE,
              IF b.ok /\ IsAliased(vol, d, At(vol, p).short) THEN {"alias"} ELSE {})

Open32(h, d, n) ==
    FindInDir(vol, d, n) # <<>> /\ Open(h, d, FindInDir(vol, d, n))

Next32 ==
    /\ which = 32 /\ todo = <<>> /\ calls < MaxCalls
    /\ \/ \E h \in Handles, off \in 0 .. MaxOffset - 1, len \in 1 .. MaxWrite : Write32(h, off, len)
       \/ \E d \in LiveDirs(vol), n \in Names :
             \/ Create32(d, n) \/ Mkdir32(d, n) \/ Unlink32(d, n) \/ Rmdir32(d, n)
             \/ \E h \in Handles : Open32(h, d, n)

-----------------------------------------------------------------------------

\* fat32_allocate_cluster gives up only on a full volume, or on one whose last
\* cluster alone is free when the hint points behind it: the first probe is then
\* wasted on the hint and the last cluster is never tried.
AllocationFindsFree ==
    which = 32 => LET a == AllocateCluster(Begin(vol), 0)
                  IN  a.ok \/ Free(vol) = {} \/ (Free(vol) = {N + 1} /\ vol.info.next = N + 2)

\* Without a fault the count of free clusters kept in memory is that of the table.
FreeCountIsExact == (which = 32 /\ Calm /\ ~faulty) => vol.info.free = Cardinality(Free(vol))
=============================================================================
