----------------------------- MODULE FatVolume -----------------------------
(***************************************************************************)
(* What the two FAT drivers share: the volume on the disk, the nodes open  *)
(* on it, and the way an operation reaches the disk.                       *)
(*                                                                         *)
(* A driver call reads the disk, decides, and issues device writes one     *)
(* after the other.  One call runs at a time here, so what it decides is a *)
(* function of the volume it finds: an operator of Fat16 or Fat32 builds   *)
(* the list of its writes, and the actions below carry the list out.       *)
(* Between two writes the machine may stop (Remount), and the device may   *)
(* refuse a write (Fail); what the code then does is part of the list.     *)
(* Either leaves a part of the write on the disk, none of it or all of it: *)
(* a cluster goes out sector by sector, and an error is reported for a     *)
(* table entry that was written when the second copy of the table fails    *)
(* (fat32_set_fat_entry).  That copy is left out otherwise: no code reads  *)
(* it.  Assignments to memory (the node, FSInfo) are entries of the same   *)
(* list that cannot fail.  File data is not kept: a cluster that holds     *)
(* data reads as JUNK when it is taken for a directory.                    *)
(***************************************************************************)
EXTENDS Integers, FiniteSets, SequencesExt

CONSTANTS
    N,          \* data clusters, numbered 2 .. N+1
    CS,         \* bytes of a cluster
    Slots,      \* directory entries of a cluster
    RootSlots,  \* directory entries of the FAT16 root area
    Names,      \* file names: sequences of parts of up to 13 characters
    Short,      \* Short[n]: the 8.3 name given to n; a name of its own
    Handles,    \* bound: the nodes open at a time
    MaxOffset,  \* bound: writes and reads start below it
    MaxWrite,   \* bound: the bytes of a write or a read
    MaxCalls    \* bound: the calls that may write

FREE == 0
EOC == 1                        \* 0xFFFF, FAT32_EOC; 0 and 1 number no cluster
Cl == 2 .. N + 1
ROOT16 == 0                     \* the root area of FAT16
ShortNames == {Short[n] : n \in Names}

ASSUME FatAssumption ==
    /\ N \in Nat \ {0} /\ CS \in Nat \ {0} /\ MaxWrite \in Nat /\ MaxOffset \in Nat
    /\ RootSlots \in Nat \ {0} /\ Slots \in Nat /\ Slots > 2
    /\ DOMAIN Short = Names \cup ShortNames
    /\ \A n \in Names : Len(n) < Slots /\ Short[Short[n]] = Short[n]

END == [k |-> "end"]            \* first byte 0x00
DEL == [k |-> "del"]            \* first byte 0xE5
LFN == [k |-> "lfn"]            \* one part of a long name
DOT == [k |-> "dot"]            \* "." or ".."
JUNK == [k |-> "junk"]          \* file data
Entry(kind, s, l, c, z) == [k |-> kind, short |-> s, long |-> l, first |-> c, size |-> z]
NONE == [k |-> "none"]

VARIABLES
    which,      \* 16 or 32: the driver fs_init chose
    vol,        \* fat: the table; spare: it has entries behind the last cluster;
                \* dir: the directory entries of each cluster;
                \* info: FSInfo in memory; node: the nodes open
    todo,       \* the writes the running call still has to make
    names,      \* history: <<directory, name>> the callers were told exist
    after,      \* history: what names may be once the running call has returned
    faulty,     \* history: there was a crash or a device error
    leaky,      \* history: a step that loses clusters without any fault
    hole,       \* history: the steps that left a volume no longer sound
    calls       \* history: the calls made

vars == <<which, vol, todo, names, after, faulty, leaky, hole, calls>>

-----------------------------------------------------------------------------
(* Reading the volume. *)

\* The clusters from c on, in order; the walk stops at an entry that is no cluster.
Chain(fat, c) ==
    LET walk[n \in 0 .. N] ==
            IF n = 0 THEN IF c \in Cl THEN <<c>> ELSE <<>>
            ELSE LET p == walk[n - 1] IN
                 IF p # <<>> /\ fat[Last(p)] \in Cl \ Range(p) THEN Append(p, fat[Last(p)]) ELSE p
    IN  walk[N]

\* The entry k steps after c.
Walk(fat, c, k) ==
    LET w[n \in 0 .. k] == IF n = 0 THEN c ELSE IF w[n-1] \in Cl THEN fat[w[n-1]] ELSE w[n-1]
    IN  w[k]

Root == IF which = 16 THEN ROOT16 ELSE 2

\* The places of directory d, <<cluster, index>>, in the order a scan meets them.
Places(v, d) ==
    IF d = ROOT16 THEN [j \in 1 .. RootSlots |-> <<d, j>>]
    ELSE LET ch == Chain(v.fat, d)
         IN  [i \in 1 .. Len(ch) * Slots |-> <<ch[(i - 1) \div Slots + 1], ((i - 1) % Slots) + 1>>]
At(v, p) == v.dir[p[1]][p[2]]

\* The entries a scan sees: it ends at the first END.
BeforeEnd(v, all) ==
    LET e == SelectInSeq(all, LAMBDA p : At(v, p) = END) IN IF e = 0 THEN all ELSE SubSeq(all, 1, e - 1)
Visible(v, d) == SelectSeq(BeforeEnd(v, Places(v, d)), LAMBDA p : At(v, p).k \in {"file", "dir"})

\* The first entry of d that passes the test, or <<>>.
FirstOf(ps, Test(_)) == LET i == SelectInSeq(ps, Test) IN IF i = 0 THEN <<>> ELSE ps[i]
FirstEntry(v, d, Test(_)) == FirstOf(Visible(v, d), LAMBDA p : Test(At(v, p)))

\* The name a scan shows for an entry.
Shown(e) == IF which = 16 THEN e.short ELSE e.long

\* The entries reached from the root, <<directory, place>>, and the directories.
Tree(v) ==
    LET In(d) == {<<d, p>> : p \in Range(Visible(v, d))}
        down[n \in 0 .. N] ==        \* level n: the entries n directories deep
            IF n = 0 THEN In(Root)
            ELSE UNION {In(At(v, x[2]).first) : x \in {y \in down[n-1] : At(v, y[2]).k = "dir"}}
    IN  UNION {down[n] : n \in 0 .. N}
LiveDirs(v) == {Root} \cup {At(v, x[2]).first : x \in {y \in Tree(v) : At(v, y[2]).k = "dir"}}
Listing(v) == {<<x[1], Shown(At(v, x[2]))>> : x \in Tree(v)}
Free(v) == {c \in Cl : v.fat[c] = FREE}

-----------------------------------------------------------------------------
(* Building the list of a call: b is the volume as the call sees it, its   *)
(* writes so far, the cluster it stands on and whether it still succeeds.  *)

Begin(v) == [v |-> v, log |-> <<>>, c |-> 0, ok |-> TRUE, hole |-> {}]

\* One write.  tag: what is broken when the write never happens, late: when it
\* happens and the call goes on as if it had not; skip: the code ignores its
\* failure; undo: the writes it makes after its failure.
Do(b, f, k, x, tag, late, skip, undo) ==
    [b EXCEPT !.v[f][k] = x,
              !.log = Append(@, [f |-> f, k |-> k, x |-> x, tag |-> tag, late |-> late,
                                 skip |-> skip, undo |-> undo])]
Put(b, f, k, x) == Do(b, f, k, x, "", "", FALSE, <<>>)
Undoing(undo) == IF undo = <<>> THEN "" ELSE "undone"   \* late, of an entry taken back
ToDevice(w) == w.f \in {"fat", "dir"}
GiveUp(b) == [b EXCEPT !.ok = FALSE]

\* Data written to the cluster the call stands on.
PutData(b) == Put(b, "dir", b.c, [j \in 1 .. Slots |-> JUNK])
EmptyCluster == [j \in 1 .. Slots |-> END]
NewDirectory == [j \in 1 .. Slots |-> IF j <= 2 THEN DOT ELSE END]

\* The indexes of the clusters that len bytes at off touch.
Touched(off, len) ==
    [i \in 1 .. ((off + len - 1) \div CS) - (off \div CS) + 1 |-> (off \div CS) + i - 1]

-----------------------------------------------------------------------------
(* Carrying a call out.  Bound: one refused write or one crash in a call.  *)

Init ==
    /\ which \in {16, 32}
    /\ \E spare \in BOOLEAN :
       /\ which = 32 => ~spare          \* the FAT32 search stays inside the volume
       /\ vol = [spare |-> spare,
              fat |-> [c \in Cl |-> IF which = 32 /\ c = 2 THEN EOC ELSE FREE],
              dir |-> [c \in {ROOT16} \cup Cl |->
                          IF c = ROOT16 THEN [j \in 1 .. RootSlots |-> END] ELSE EmptyCluster],
              info |-> [next |-> 3, free |-> N - 1],
              node |-> [h \in Handles |-> NONE]]
    /\ todo = <<>> /\ names = {} /\ after = {{}}
    /\ faulty = FALSE /\ leaky = FALSE /\ hole = {} /\ calls = 0

\* A call built as b starts.  said: the names that exist once it has succeeded.
Start(b, said, leaks, holes) ==
    /\ todo = <<>> /\ calls < MaxCalls
    /\ calls' = IF b.log = <<>> THEN calls ELSE calls + 1
    /\ todo' = b.log
    /\ after' = {IF b.ok THEN said ELSE names}
    /\ names' = IF b.log = <<>> /\ b.ok THEN said ELSE names
    /\ leaky' = (leaky \/ leaks)
    /\ hole' = hole \cup holes \cup b.hole
    /\ UNCHANGED <<which, vol, faulty>>

\* Once the call is over the callers know the names: those it reported or, when
\* it reported a failure or the machine stopped, either those or the ones before.
Told(v, rest, allowed) ==
    IF rest = <<>> /\ Listing(v) \in allowed THEN Listing(v) ELSE names

\* The next write of the running call takes place.
Step ==
    /\ todo # <<>>
    /\ LET w == Head(todo) IN vol' = [vol EXCEPT ![w.f][w.k] = w.x]
    /\ todo' = Tail(todo)
    /\ names' = IF Len(todo) = 1 /\ Cardinality(after) = 1 THEN CHOOSE s \in after : TRUE
                ELSE Told(vol', todo', after)
    /\ UNCHANGED <<which, after, faulty, leaky, hole, calls>>

\* What a write that was cut short or refused may have left: a table entry is in
\* one sector, the entries of a cluster reach the disk from the first one on.
Partly(w) ==
    LET old == vol[w.f][w.k]
    IN  IF w.f = "fat" THEN {old, w.x}
        ELSE {[j \in DOMAIN old |-> IF j <= n THEN w.x[j] ELSE old[j]] : n \in 0 .. Len(old)}
\* A directory was left with some of the entries of the write.
Torn(w, x) ==
    IF /\ w.f = "dir" /\ x \notin {vol.dir[w.k], w.x}
       /\ \E d \in LiveDirs(vol) : w.k \in {p[1] : p \in Range(Places(vol, d))}
    THEN {"torn"} ELSE {}

\* The device refuses the write: the call ignores it, or undoes and returns -1.
Fail ==
    /\ ~faulty /\ todo # <<>> /\ ToDevice(Head(todo))
    /\ LET w == Head(todo) IN \E x \in Partly(w) :
       /\ vol' = [vol EXCEPT ![w.f][w.k] = x]
       /\ todo' = IF w.skip THEN Tail(todo) ELSE w.undo
       /\ hole' = hole \cup ((IF x = w.x THEN {} ELSE {w.tag}) \ {""})
                       \cup ((IF x = vol[w.f][w.k] THEN {} ELSE {w.late}) \ {""})
                       \cup Torn(w, x)
       /\ after' = IF w.skip THEN after ELSE after \cup {names}
    /\ names' = Told(vol', todo', after')
    /\ faulty' = TRUE
    /\ UNCHANGED <<which, leaky, calls>>

\* The machine stops, or the volume is unmounted; then it is mounted again.
\* vfs_unmount does not call fat32_unmount: FSInfo is what mkfs left.
Mounted(v) ==
    [v EXCEPT !.node = [h \in Handles |-> NONE], !.info = [next |-> 3, free |-> N - 1]]
Remount ==
    /\ faulty => todo = <<>>
    /\ IF todo = <<>> THEN vol' = Mounted(vol) /\ UNCHANGED <<names, after, hole>>
       ELSE LET w == Head(todo) IN \E x \in IF ToDevice(w) THEN Partly(w) \ {w.x} ELSE {w.x} :
            /\ vol' = Mounted([vol EXCEPT ![w.f][w.k] = x])
            /\ hole' = hole \cup ({w.tag} \ {""}) \cup Torn(w, x)
            /\ after' = after \cup {names}
            /\ names' = Told(vol', <<>>, after')
    /\ todo' = <<>>
    /\ faulty' = TRUE
    /\ UNCHANGED <<which, leaky, calls>>

\* A path is resolved and its node kept: a copy of the directory entry.
Opened(d, e) ==
    [k |-> "node", d |-> d, short |-> e.short, start |-> e.first,
     first |-> e.first, size |-> e.size, cache |-> <<>>]
Open(h, d, p) ==
    /\ todo = <<>> /\ vol.node[h] = NONE
    /\ At(vol, p).k = "file"
    /\ vol' = [vol EXCEPT !.node[h] = Opened(d, At(vol, p))]
    /\ UNCHANGED <<which, todo, names, after, faulty, leaky, hole, calls>>

\* A node whose first cluster never reached its directory entry loses it.
Close(h) ==
    /\ todo = <<>> /\ vol.node[h] # NONE
    /\ vol' = [vol EXCEPT !.node[h] = NONE]
    /\ leaky' = (leaky \/ vol.node[h].start # vol.node[h].first)
    /\ UNCHANGED <<which, todo, names, after, faulty, hole, calls>>

\* The node's copy is no longer the entry on the disk: the file was deleted,
\* or another node has written to it.
IsStale(v, h) ==
    LET n == v.node[h] IN
    ~ \E x \in Tree(v) : LET e == At(v, x[2]) IN
        x[1] = n.d /\ e.k = "file" /\ e.short = n.short /\ e.first = n.first /\ e.size = n.size

-----------------------------------------------------------------------------
(* What the drivers owe their callers. *)

Calm == todo = <<>> /\ hole = {}

\* The chains of the entries in t, and that of the FAT32 root.
Chains(v, t) ==
    {<<x[2], Chain(v.fat, At(v, x[2]).first)>> : x \in {y \in t : At(v, y[2]).first # 0}}
    \cup (IF which = 32 THEN {<<<<>>, Chain(v.fat, Root)>>} ELSE {})

\* Between calls, and wherever a crash or a device error cut a call short, every
\* chain that is reached ends in an end-of-chain mark, no cluster is in two
\* chains, a file's chain holds its size, and no directory is made of file data:
\* unless one of the steps named in hole came before.
VolumeIsSound ==
    Calm => LET t == Tree(vol)
                chains == Chains(vol, t)
            IN
        /\ \A x \in chains : x[2] # <<>> /\ vol.fat[Last(x[2])] = EOC
        /\ \A x, y \in chains : x # y => Range(x[2]) \cap Range(y[2]) = {}
        /\ \A x \in t : LET e == At(vol, x[2]) IN
               IF e.k = "file" THEN e.size <= CS * Len(Chain(vol.fat, e.first))
               ELSE \A p \in Range(Places(vol, e.first)) : At(vol, p) # JUNK
        /\ \A p \in Range(Places(vol, Root)) : At(vol, p) # JUNK

\* Between calls the directories show the names their callers were told of, each
\* once: what a successful create or mkdir added and no successful delete removed.
\* A call that failed or was cut short by a crash left all of its change or none.
\* Up to the steps in hole: a name that was cut, swapped, hidden or given twice.
NamesAreKept ==
    Calm => LET t == Tree(vol)
                shown == {<<x[1], Shown(At(vol, x[2]))>> : x \in t}
            IN  shown = names /\ Cardinality(shown) = Cardinality(t)

\* Without a fault no cluster is lost: an allocated one is in a chain that starts
\* at a directory entry, at the root or at an open node.
NoClusterIsLost ==
    (Calm /\ ~faulty /\ ~leaky) =>
        Cl \ Free(vol) \subseteq UNION {Range(x[2]) : x \in Chains(vol, Tree(vol))}
            \cup UNION {IF vol.node[h] = NONE THEN {} ELSE Range(Chain(vol.fat, vol.node[h].start)) :
                        h \in Handles}
=============================================================================
