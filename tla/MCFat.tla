------------------------------- MODULE MCFat -------------------------------
(* The two FAT drivers on a small volume; one run chooses either. *)
EXTENDS Fat16
F32 == INSTANCE Fat32

MCNames == {<<"A">>, <<"b1">>, <<"c1", "c2">>}
MCShort == (<<"A">> :> <<"A">>) @@ (<<"b1">> :> <<"B">>) @@ (<<"c1", "c2">> :> <<"B">>) @@ (<<"B">> :> <<"B">>)

Next ==
    \/ Step \/ Fail \/ Remount
    \/ \E h \in Handles : Close(h)
    \/ Next16 \/ F32!Next32
Spec == Init /\ [][Next]_vars

\* Behaviours are followed up to the first step that leaves the volume unsound.
UpToFirstHole == hole = {}

\* The chains of the volume are sound, and so are the positions in them that
\* nodes of FAT16 have cached.
ChainsAreSound == VolumeIsSound /\ CacheIsRight
\* The space of the volume is accounted for: no cluster is lost, the FAT32 search
\* gives up only on a full volume (or with the hint behind the last cluster and
\* that one free), and the count FAT32 keeps in memory is exact.
SpaceIsAccountedFor == NoClusterIsLost /\ F32!AllocationFindsFree /\ F32!FreeCountIsExact
=============================================================================
