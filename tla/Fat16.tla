------------------------------- MODULE Fat16 -------------------------------
(***************************************************************************)
(* The FAT16 driver (fs/fat16.c) and its VFS operations (fs/fat16_vfs.c).  *)
(* The root directory is an area of its own; the others are chains.  Names *)
(* are stored as 8.3 names: a longer one is cut, and a file is found again *)
(* only under the name the entry shows.                                    *)
(***************************************************************************)
EXTENDS FatVolume

\* fat16_find_free_cluster: the first free entry of the table; nothing is marked
\* yet.  The table may go on behind the entry of the last cluster, and so does
\* the search: on a full volume it returns a cluster that does not exist.
Outside == N + 2
FindFreeCluster(v) ==
    LET i == SelectInSeq([n \in 1 .. N |-> n + 1], LAMBDA c : c \in Free(v))
    IN  IF i # 0 THEN i + 1 ELSE IF v.spare THEN Outside ELSE 0
\* A call that was given such a cluster is not followed.
NoCluster(b, c) == [GiveUp(b) EXCEPT !.hole = IF c = Outside THEN {"outside"} ELSE {}]
NewCluster(b) ==
    LET c == FindFreeCluster(b.v)
    IN  IF ~b.ok THEN b ELSE IF c \notin Cl THEN NoCluster(b, c)
        ELSE Put([b EXCEPT !.c = c], "fat", c, EOC)

\* The next cluster of the chain; past its end a free one is linked first and
\* marked as the end afterwards.
NextOrLinked(b) ==
    LET c == FindFreeCluster(b.v)
    IN  IF ~b.ok THEN b
        ELSE IF b.v.fat[b.c] \in Cl THEN [b EXCEPT !.c = b.v.fat[b.c]]
        ELSE IF c \notin Cl THEN NoCluster(b, c)
        ELSE Do([Do(b, "fat", b.c, c, "", "unmarked", FALSE, <<>>) EXCEPT !.c = c],
                "fat", c, EOC, "unmarked", "", FALSE, <<>>)

\* fat16_free_chain
\* Mutant: the walk ends after the first cluster.
FreeFirst(b, c) == IF c \in Cl THEN Put(b, "fat", c, FREE) ELSE b
FreeChain(b, c) == FoldLeft(LAMBDA x, k : Put(x, "fat", k, FREE), b, Chain(b.v.fat, c))

\* The entry of d with short name s, as fat16_find_file and the scans of the
\* sub-directories find it.
FindShort(v, d, s) == FirstEntry(v, d, LAMBDA e : e.short = s)

\* fat16_update_dir_entry_on_disk, fat16_update_dir_entry_in_dir: best effort.
UpdateEntry(b, d, n) ==
    LET p == FindShort(b.v, d, n.short)
    IN  IF p = <<>> THEN b
        ELSE Do(b, "dir", p[1], [b.v.dir[p[1]] EXCEPT
                    ![p[2]] = [@ EXCEPT !.first = n.first, !.size = n.size]], "", "", TRUE, <<>>)

\* fat16_write_file: a write that fills a cluster moves on to the next one,
\* and allocates it, even when no byte is left.
WriteFile(v, h, off, len) ==
    LET n == v.node[h]
        Grow(b, i) == LET to == IF (i + 1) * CS < off + len THEN (i + 1) * CS ELSE off + len
                      IN  IF to > b.v.node[h].size
                          THEN Put(b, "node", h, [b.v.node[h] EXCEPT !.size = to]) ELSE b
        b0 == [Begin(v) EXCEPT !.c = n.first]
        b1 == FoldLeft(LAMBDA b, i : NextOrLinked(b), b0, [i \in 1 .. off \div CS |-> i])
    IN  FoldLeft(LAMBDA b, i : LET w == Grow(PutData(b), i)
                               IN  IF ~b.ok THEN b
                                   ELSE IF (i + 1) * CS <= off + len THEN NextOrLinked(w) ELSE w,
                 b1, Touched(off, len))

\* fat16_vfs_write: the entry is written to the root directory, by its short
\* name, and then to the directory of the file.
Written(v, h, off, len) ==
    LET b == WriteFile(v, h, off, len)
        n == b.v.node[h]
    IN  IF b.ok THEN UpdateEntry(UpdateEntry(b, ROOT16, n), n.d, n) ELSE b

\* A write that fails leaves a size in the node that the disk does not have.
Write16(h, off, len) ==
    /\ vol.node[h] # NONE
    /\ LET n == vol.node[h]
       IN  Start(Written(vol, h, off, len), names, FALSE,
                 (IF IsStale(vol, h) THEN {"stale"} ELSE {})
                 \cup IF n.d # ROOT16 /\ FindShort(vol, ROOT16, n.short) # <<>>
                      THEN {"rootentry"} ELSE {})

\* fat16_read_file: where the read starts is found from the cached position
\* when that is not behind it; every piece read moves the cached position on.
ReadFrom(v, n, off) ==
    IF n.cache # <<>> /\ n.cache[1] = off THEN n.cache[2]
    ELSE IF n.cache # <<>> /\ n.cache[1] \div CS <= off \div CS
    THEN Walk(v.fat, n.cache[2], off \div CS - n.cache[1] \div CS)
    ELSE Walk(v.fat, n.first, off \div CS)
Piece(v, s, i) ==                  \* s: the position, its cluster, the end, the cache
    LET to == IF (i + 1) * CS < s.end THEN (i + 1) * CS ELSE s.end
        c == IF to % CS = 0 THEN v.fat[s.c] ELSE s.c
    IN  IF s.c \notin Cl THEN s
        ELSE [s EXCEPT !.c = c, !.cache = IF c \in Cl THEN <<to, c>> ELSE @]
CacheAfterRead(v, n, off, len) ==
    LET end == IF off + len < n.size THEN off + len ELSE n.size
        c == ReadFrom(v, n, off)
        cache == IF n.cache # <<>> /\ n.cache[1] = off THEN n.cache
                 ELSE IF c \in Cl THEN <<off, c>> ELSE <<>>
    IN  IF off >= n.size THEN n.cache
        ELSE FoldLeft(LAMBDA s, i : Piece(v, s, i), [c |-> c, end |-> end, cache |-> cache],
                      Touched(off, end - off)).cache
Read16(h, off, len) ==
    /\ vol.node[h] # NONE
    /\ vol' = [vol EXCEPT !.node[h].cache = CacheAfterRead(vol, vol.node[h], off, len)]
    /\ UNCHANGED <<which, todo, names, after, faulty, leaky, hole, calls>>

-----------------------------------------------------------------------------
(* Directories. *)

\* fat16_dir_find_slot_in_dir: the first unused entry; a directory that is not
\* the root grows by a cluster that is linked, marked and then zeroed.
WithSlot(b, d, e, undo) ==
    LET i == SelectInSeq(Places(b.v, d), LAMBDA p : At(b.v, p) \in {END, DEL})
        p == Places(b.v, d)[i]
        x == NextOrLinked([b EXCEPT !.c = Last(Chain(b.v.fat, d))])
        z == Do(x, "dir", x.c, EmptyCluster, "unzeroed", "", FALSE, undo)
    IN  IF ~b.ok THEN b
        ELSE IF i # 0
        THEN Do(b, "dir", p[1], [b.v.dir[p[1]] EXCEPT ![p[2]] = e], "", Undoing(undo), FALSE, undo)
        ELSE IF d = ROOT16 THEN GiveUp(b)
        ELSE IF x.ok THEN Do(z, "dir", z.c, [z.v.dir[z.c] EXCEPT ![1] = e], "", Undoing(undo), FALSE, undo)
        ELSE x

HasRoom(v, d) == \E p \in Range(Places(v, d)) : At(v, p) \in {END, DEL}
NewEntry(kind, n, c) == Entry(kind, Short[n], Short[n], c, 0)

\* fat16_create_file, fat16_create_dir_root: a slot, then a cluster, then the
\* entry; the cluster is freed when the entry cannot be written.
CreateInRoot(v, n, kind) ==
    LET a == NewCluster(Begin(v))
        i == IF a.ok /\ kind = "dir" THEN Put(a, "dir", a.c, NewDirectory) ELSE a
    IN  IF FindShort(v, ROOT16, Short[n]) # <<>> \/ ~HasRoom(v, ROOT16) THEN GiveUp(Begin(v))
        ELSE WithSlot(i, ROOT16, NewEntry(kind, n, a.c),
                      FreeChain([a EXCEPT !.log = <<>>], a.c).log)

\* fat16_create_file_in_dir, fat16_create_dir_in_dir: the cluster comes first
\* and is lost when there is no slot.
CreateInDir(v, d, n, kind) ==
    LET a == NewCluster(Begin(v))
        i == IF a.ok /\ kind = "dir" THEN Put(a, "dir", a.c, NewDirectory) ELSE a
    IN  IF FindShort(v, d, Short[n]) # <<>> THEN GiveUp(Begin(v))
        ELSE WithSlot(i, d, NewEntry(kind, n, a.c), <<>>)

\* fat16_vfs_create, fat16_vfs_mkdir.  A name that does not fit 8.3 is cut, and
\* the file is not found under the name its caller was told exists.
Created(v, d, n, kind) == IF d = ROOT16 THEN CreateInRoot(v, n, kind) ELSE CreateInDir(v, d, n, kind)
Create16(d, n, kind) ==
    LET b == Created(vol, d, n, kind)
    IN  Start(b, names \cup {<<d, n>>}, d # ROOT16 /\ ~b.ok /\ b.log # <<>>,
              IF b.ok /\ Short[n] # n THEN {"cut"} ELSE {})

EraseThenFree(v, p) ==
    FreeChain(Put(Begin(v), "dir", p[1], [v.dir[p[1]] EXCEPT ![p[2]] = DEL]), At(v, p).first)

\* fat16_delete_file_root, fat16_delete_file_in_dir, by fat16_vfs_unlink
Deleted(v, d, s) ==
    LET p == FindShort(v, d, s)
    IN  IF p = <<>> \/ At(v, p).k # "file" THEN GiveUp(Begin(v)) ELSE EraseThenFree(v, p)
Unlink16(d, s) ==
    Start(Deleted(vol, d, s), names \ {<<d, s>>}, FALSE, {})

\* fat16_dir_is_empty looks at the first cluster only.
DirIsEmpty(v, d) ==
    \A j \in 1 .. Slots : v.dir[d][j].k \in {"file", "dir", "junk"} =>
        \E i \in 1 .. j : v.dir[d][i] = END
\* fat16_vfs_rmdir removes the directory of that name from the root, whatever
\* directory the path named (fat16_remove_dir_root).
RemovedFromRoot(v, s) ==
    LET p == FindShort(v, ROOT16, s)
    IN  IF p = <<>> \/ At(v, p).k # "dir" \/ ~DirIsEmpty(v, At(v, p).first)
        THEN GiveUp(Begin(v)) ELSE EraseThenFree(v, p)
Rmdir16(d, s) ==
    /\ FindShort(vol, d, s) # <<>> /\ At(vol, FindShort(vol, d, s)).k = "dir"
    /\ LET b == RemovedFromRoot(vol, s)
           p == FindShort(vol, ROOT16, s)
       IN  Start(b, names \ {<<d, s>>}, FALSE,
                 IF ~b.ok THEN {}
                 ELSE (IF d # ROOT16 THEN {"otherdir"} ELSE {})
                      \cup IF Visible(vol, At(vol, p).first) # <<>> THEN {"notempty"} ELSE {})

Open16(h, d, s) ==
    FindShort(vol, d, s) # <<>> /\ Open(h, d, FindShort(vol, d, s))

Next16 ==
    /\ which = 16 /\ todo = <<>> /\ calls < MaxCalls
    /\ \/ \E h \in Handles, off \in 0 .. MaxOffset - 1, len \in 1 .. MaxWrite :
             Write16(h, off, len) \/ Read16(h, off, len)
       \/ \E d \in LiveDirs(vol) :
             \/ \E n \in Names \cup ShortNames : Create16(d, n, "file") \/ Create16(d, n, "dir")
             \/ \E s \in ShortNames :
                   Unlink16(d, s) \/ Rmdir16(d, s) \/ \E h \in Handles : Open16(h, d, s)

-----------------------------------------------------------------------------

\* The position a node has cached is the cluster that holds that byte of the file,
\* however reads, writes and deletes were mixed, as long as the node's copy of the
\* entry is the one on the disk.
CacheIsRight ==
    (which = 16 /\ Calm) => \A h \in Handles :
        LET n == vol.node[h]
        IN  (n # NONE /\ ~IsStale(vol, h) /\ n.cache # <<>>) =>
                n.cache[2] = Walk(vol.fat, n.first, n.cache[1] \div CS)
=============================================================================
