---------------------------- MODULE MemoryProof -----------------------------
(***************************************************************************)
(* Proofs about Memory: the frames of the address spaces, the bitmap and   *)
(* the shared segments, for every number of processes, frames and pages.   *)
(***************************************************************************)
EXTENDS Memory, Foundations, FiniteSetTheorems

Values == 0 .. FrameCount
Space == [dir : Values, pt : [Tables -> Values], pte : [Pages -> Values]]

(* Where a space can hold a frame, and the frame it holds there (0: none). *)
Places == ({"dir"} \X {0}) \cup ({"pt"} \X Tables) \cup ({"pte"} \X Pages)
At(d, o) == IF o[1] = "dir" THEN d.dir ELSE IF o[1] = "pt" THEN d.pt[o[2]] ELSE d.pte[o[2]]
(* The pages where segments are attached. *)
Shared == {"pte"} \X (ShmBase .. StackTop - 1)

(* Frame 0 stands for none. *)
LEMMA FrameFacts == Frames \subseteq Values /\ 0 \notin Frames /\ 0 \in Values
                    /\ \A f \in Values : f = 0 \/ f \in Frames
  BY FrameAssumption DEF Frames, Values

(* The regions lie one behind the other. *)
LEMMA RegionFacts ==
    /\ HeapBase \in Nat /\ MmapBase \in Nat /\ ShmBase \in Nat /\ StackTop \in Nat /\ TableSize \in Nat
    /\ 0 < HeapBase /\ HeapBase < MmapBase /\ MmapBase + 2 <= ShmBase /\ ShmBase < StackTop
    /\ 0 < TableSize
    /\ \A v \in Image : v \in Int /\ 0 <= v /\ v < HeapBase
  BY RegionAssumption

(* Every page has its table. *)
LEMMA TableOfPage == ASSUME NEW v \in Pages PROVE Table(v) \in Tables
  BY DEF Tables

(* The three kinds of places. *)
LEMMA PlaceKinds ==
    /\ <<"dir", 0>> \in Places
    /\ \A k \in Tables : <<"pt", k>> \in Places
    /\ \A v \in Pages : <<"pte", v>> \in Places
    /\ \A o \in Places : \/ o = <<"dir", 0>>
                         \/ \E k \in Tables : o = <<"pt", k>>
                         \/ \E v \in Pages : o = <<"pte", v>>
  BY DEF Places

(* What is where. *)
LEMMA AtKinds ==
    ASSUME NEW d
    PROVE  /\ At(d, <<"dir", 0>>) = d.dir
           /\ \A k : At(d, <<"pt", k>>) = d.pt[k]
           /\ \A v : At(d, <<"pte", v>>) = d.pte[v]
  BY DEF At

(* A shared place is a page at or above ShmBase. *)
LEMMA SharedPlaces ==
    /\ Shared \subseteq Places
    /\ \A o \in Places : o \in Shared <=> \E v \in Pages : ShmBase <= v /\ o = <<"pte", v>>
    /\ \A v \in Pages : <<"pte", v>> \in Shared <=> ShmBase <= v
  BY RegionFacts DEF Shared, Places, Pages

(* A space holds values. *)
LEMMA AtIsValue == ASSUME NEW d \in Space, NEW o \in Places PROVE At(d, o) \in Values
  <1>1. d.dir \in Values /\ (\A k \in Tables : d.pt[k] \in Values) /\ (\A v \in Pages : d.pte[v] \in Values)
    BY DEF Space
  <1> QED
    BY <1>1, AtKinds, PlaceKinds

(* Two spaces that agree on every entry outside X agree on every place outside X. *)
LEMMA AgreeOutside ==
    ASSUME NEW d, NEW e, NEW X,
           <<"dir", 0>> \in X \/ e.dir = d.dir,
           \A k \in Tables : <<"pt", k>> \in X \/ e.pt[k] = d.pt[k],
           \A v \in Pages : <<"pte", v>> \in X \/ e.pte[v] = d.pte[v]
    PROVE  \A o \in Places : o \in X \/ At(e, o) = At(d, o)
  <1> SUFFICES ASSUME NEW o \in Places, o \notin X PROVE At(e, o) = At(d, o)
    OBVIOUS
  <1>1. CASE o = <<"dir", 0>>
    BY <1>1, AtKinds
  <1>2. ASSUME NEW k \in Tables, o = <<"pt", k>> PROVE At(e, o) = At(d, o)
    <2>1. At(e, o) = e.pt[k] /\ At(d, o) = d.pt[k]
      BY <1>2, AtKinds
    <2> QED
      BY <1>2, <2>1
  <1>3. ASSUME NEW v \in Pages, o = <<"pte", v>> PROVE At(e, o) = At(d, o)
    <2>1. At(e, o) = e.pte[v] /\ At(d, o) = d.pte[v]
      BY <1>3, AtKinds
    <2> QED
      BY <1>3, <2>1
  <1> QED
    BY <1>1, <1>2, <1>3, PlaceKinds

(* e is d with f at o. *)
Put(d, e, o, f) == At(e, o) = f /\ \A r \in Places : r = o \/ At(e, r) = At(d, r)

(* Setting a table. *)
LEMMA PutTable ==
    ASSUME NEW d \in Space, NEW k \in Tables, NEW f \in Values,
           NEW e, e = [d EXCEPT !.pt[k] = f]
    PROVE  /\ e \in Space /\ Put(d, e, <<"pt", k>>, f)
           /\ e.dir = d.dir /\ e.pte = d.pte /\ e.pt[k] = f
  <1>1. e \in Space /\ e.dir = d.dir /\ e.pte = d.pte
    BY DEF Space
  <1>2. e.pt[k] = f /\ \A j \in Tables : j = k \/ e.pt[j] = d.pt[j]
    BY DEF Space
  <1>3. At(e, <<"pt", k>>) = f
    BY <1>2, AtKinds
  <1>4. \A r \in Places : r \in {<<"pt", k>>} \/ At(e, r) = At(d, r)
    <2>1. \A j \in Tables : <<"pt", j>> \in {<<"pt", k>>} \/ e.pt[j] = d.pt[j]
      BY <1>2
    <2> QED
      BY <1>1, <2>1, AgreeOutside
  <1> QED
    BY <1>1, <1>2, <1>3, <1>4 DEF Put

(* Setting an entry. *)
WithEntry(d, v, f) == [d EXCEPT !.pte[v] = f]
EntrySet(d, e, v, f) ==
    /\ e \in Space /\ Put(d, e, <<"pte", v>>, f)
    /\ e.dir = d.dir /\ e.pt = d.pt
    /\ e.pte[v] = f /\ \A j \in Pages : j = v \/ e.pte[j] = d.pte[j]
(* What it does. *)
LEMMA PutEntry ==
    ASSUME NEW d \in Space, NEW v \in Pages, NEW f \in Values
    PROVE  EntrySet(d, WithEntry(d, v, f), v, f)
  <1>0. PICK e : e = WithEntry(d, v, f)
    OBVIOUS
  <1>1. e \in Space /\ e.dir = d.dir /\ e.pt = d.pt
    BY <1>0 DEF Space, WithEntry
  <1>2. e.pte[v] = f /\ \A j \in Pages : j = v \/ e.pte[j] = d.pte[j]
    BY <1>0 DEF Space, WithEntry
  <1>3. At(e, <<"pte", v>>) = f
    BY <1>2, AtKinds
  <1>4. \A r \in Places : r \in {<<"pte", v>>} \/ At(e, r) = At(d, r)
    <2>1. \A j \in Pages : <<"pte", j>> \in {<<"pte", v>>} \/ e.pte[j] = d.pte[j]
      BY <1>2
    <2> QED
      BY <1>1, <2>1, AgreeOutside
  <1> QED
    BY <1>0, <1>1, <1>2, <1>3, <1>4 DEF Put, EntrySet

(* The empty space. *)
LEMMA NoSpaceFacts ==
    /\ NoSpace \in Space /\ NoSpace.dir = 0
    /\ \A o \in Places : At(NoSpace, o) = 0
    /\ \A v \in Pages : NoSpace.pte[v] = 0
  <1>1. NoSpace.dir = 0 /\ (\A k \in Tables : NoSpace.pt[k] = 0) /\ (\A v \in Pages : NoSpace.pte[v] = 0)
    BY DEF NoSpace
  <1>2. NoSpace \in Space
    BY FrameFacts DEF NoSpace, Space
  <1> QED
    BY <1>1, <1>2, AtKinds, PlaceKinds

(* Setting the directory of a new space. *)
LEMMA PutDirectory ==
    ASSUME NEW f \in Values, NEW e, e = [NoSpace EXCEPT !.dir = f]
    PROVE  /\ e \in Space /\ Put(NoSpace, e, <<"dir", 0>>, f)
           /\ e.dir = f /\ \A v \in Pages : e.pte[v] = 0
  <1>1. /\ e.dir = f /\ (\A k \in Tables : e.pt[k] = 0) /\ (\A v \in Pages : e.pte[v] = 0)
        /\ e \in Space
    BY FrameFacts DEF NoSpace, Space
  <1>2. At(e, <<"dir", 0>>) = f
    BY <1>1, AtKinds
  <1>3. \A r \in Places : r \in {<<"dir", 0>>} \/ At(e, r) = At(NoSpace, r)
    <2>1. /\ \A k \in Tables : e.pt[k] = NoSpace.pt[k]
          /\ \A v \in Pages : e.pte[v] = NoSpace.pte[v]
      BY <1>1 DEF NoSpace
    <2> QED
      BY <2>1, AgreeOutside
  <1> QED
    BY <1>1, <1>2, <1>3, NoSpaceFacts DEF Put

(* Clearing entries. *)
LEMMA ClearedFacts ==
    ASSUME NEW d \in Space, NEW vs, NEW e, e = Cleared(d, vs)
    PROVE  /\ e \in Space /\ e.dir = d.dir /\ e.pt = d.pt
           /\ \A v \in Pages : e.pte[v] = IF v \in vs THEN 0 ELSE d.pte[v]
           /\ \A v \in Pages : v \in vs => At(e, <<"pte", v>>) = 0
           /\ \A o \in Places : At(e, o) = At(d, o) \/ \E v \in Pages : v \in vs /\ o = <<"pte", v>>
  <1>1. PICK q : q = [v \in Pages |-> IF v \in vs THEN 0 ELSE d.pte[v]]
    OBVIOUS
  <1>2. q \in [Pages -> Values]
    <2>1. \A v \in Pages : d.pte[v] \in Values
      BY DEF Space
    <2> QED
      BY <1>1, <2>1, FrameFacts
  <1>3. e = [d EXCEPT !.pte = q]
    BY <1>1 DEF Cleared
  <1>4. e \in Space /\ e.dir = d.dir /\ e.pt = d.pt /\ e.pte = q
    BY <1>2, <1>3 DEF Space
  <1>5. \A v \in Pages : e.pte[v] = IF v \in vs THEN 0 ELSE d.pte[v]
    BY <1>1, <1>4
  <1>6. \A v \in Pages : v \in vs => At(e, <<"pte", v>>) = 0
    BY <1>5, AtKinds
  <1>7. ASSUME NEW o \in Places PROVE At(e, o) = At(d, o) \/ \E v \in Pages : v \in vs /\ o = <<"pte", v>>
    <2>1. CASE o = <<"dir", 0>>
      BY <1>4, <2>1, AtKinds
    <2>2. CASE \E j \in Tables : o = <<"pt", j>>
      BY <1>4, <2>2, AtKinds
    <2>3. CASE \E j \in Pages : o = <<"pte", j>>
      <3>1. PICK j \in Pages : o = <<"pte", j>>
        BY <2>3
      <3>2. At(e, o) = e.pte[j] /\ At(d, o) = d.pte[j]
        BY <3>1, AtKinds
      <3> QED
        BY <1>5, <3>1, <3>2
    <2> QED
      BY <2>1, <2>2, <2>3, PlaceKinds
  <1> QED
    BY <1>4, <1>5, <1>6, <1>7

(***************************************************************************)
(* A space that grows.  It was d0 when the bitmap was u0, now it is d and   *)
(* the bitmap u.  R has the new frames that have no place yet, V the ones   *)
(* that were mapped over, S the frames of the segments.                    *)
(***************************************************************************)
Grown(u0, d0, u, d, R, V, S) ==
    /\ u0 \subseteq u /\ u \subseteq Frames /\ S \subseteq u0
    /\ \A o \in Places : At(d0, o) = 0 \/ At(d0, o) \in u0
    /\ \A o \in Places : \/ At(d, o) = At(d0, o)
                         \/ At(d, o) \in u \ u0
                         \/ At(d, o) \in S /\ o \in Shared /\ At(d0, o) = 0
    /\ \A o, r \in Places : At(d, o) = At(d, r) /\ At(d, o) \in u \ u0 => o = r
    /\ \A f \in u \ u0 : f \in R \/ f \in V \/ \E o \in Places : At(d, o) = f
    /\ \A o \in Places : At(d0, o) = 0 \/ At(d, o) = At(d0, o) \/ At(d0, o) \in V
    /\ R \subseteq u \ u0 /\ \A o \in Places : At(d, o) \notin R

(* Nothing has happened yet. *)
LEMMA GrownStart ==
    ASSUME NEW u \in SUBSET Frames, NEW d, NEW S \in SUBSET u,
           \A o \in Places : At(d, o) = 0 \/ At(d, o) \in u
    PROVE  Grown(u, d, u, d, {}, {}, S)
  BY DEF Grown

(* A frame is taken. *)
LEMMA GrownTake ==
    ASSUME NEW u0, NEW d0, NEW u, NEW d, NEW R, NEW V, NEW S,
           Grown(u0, d0, u, d, R, V, S), NEW f \in Frames, f \notin u
    PROVE  Grown(u0, d0, u \cup {f}, d, R \cup {f}, V, S)
  <1>1. /\ u0 \subseteq u /\ u \subseteq Frames /\ S \subseteq u0
        /\ \A o \in Places : At(d0, o) = 0 \/ At(d0, o) \in u0
    BY DEF Grown
  <1>2. \A o \in Places : \/ At(d, o) = At(d0, o)
                          \/ At(d, o) \in u \ u0
                          \/ At(d, o) \in S /\ o \in Shared /\ At(d0, o) = 0
    BY DEF Grown
  <1>3. \A o \in Places : At(d, o) = 0 \/ At(d, o) \in u
    BY <1>1, <1>2
  <1>4. 0 \notin Frames
    BY FrameFacts
  <1>5. \A o \in Places : At(d, o) # f
    BY <1>3, <1>4
  <1>6. \A o, r \in Places : At(d, o) = At(d, r) /\ At(d, o) \in (u \cup {f}) \ u0 => o = r
    BY <1>5 DEF Grown
  <1>7. \A g \in (u \cup {f}) \ u0 : g \in R \cup {f} \/ g \in V \/ \E o \in Places : At(d, o) = g
    BY DEF Grown
  <1>8. R \cup {f} \subseteq (u \cup {f}) \ u0 /\ \A o \in Places : At(d, o) \notin R \cup {f}
    BY <1>1, <1>5 DEF Grown
  <1>9. \A o \in Places : At(d0, o) = 0 \/ At(d, o) = At(d0, o) \/ At(d0, o) \in V
    BY DEF Grown
  <1>10. \A o \in Places : \/ At(d, o) = At(d0, o)
                           \/ At(d, o) \in (u \cup {f}) \ u0
                           \/ At(d, o) \in S /\ o \in Shared /\ At(d0, o) = 0
    BY <1>2
  <1>11. u0 \subseteq u \cup {f} /\ u \cup {f} \subseteq Frames
    BY <1>1
  <1> QED
    BY <1>1, <1>6, <1>7, <1>8, <1>9, <1>10, <1>11 DEF Grown

(* A taken frame gets a place; what was there is mapped over. *)
LEMMA GrownPut ==
    ASSUME NEW u0, NEW d0, NEW u, NEW d, NEW R, NEW V, NEW S,
           Grown(u0, d0, u, d, R, V, S),
           NEW f \in R, NEW o \in Places, NEW e, Put(d, e, o, f)
    PROVE  Grown(u0, d0, u, e, R \ {f}, V \cup ({At(d, o)} \ {0}), S)
  <1>1. At(e, o) = f /\ \A r \in Places : r = o \/ At(e, r) = At(d, r)
    BY DEF Put
  <1>2. /\ u0 \subseteq u /\ u \subseteq Frames /\ S \subseteq u0
        /\ \A r \in Places : At(d0, r) = 0 \/ At(d0, r) \in u0
        /\ R \subseteq u \ u0 /\ \A r \in Places : At(d, r) \notin R
    BY DEF Grown
  <1>3. f \in u \ u0
    BY <1>2
  <1>4. \A r \in Places : \/ At(e, r) = At(d0, r)
                          \/ At(e, r) \in u \ u0
                          \/ At(e, r) \in S /\ r \in Shared /\ At(d0, r) = 0
    BY <1>1, <1>3 DEF Grown
  <1>5. \A r \in Places : r = o \/ At(e, r) # f
    BY <1>1, <1>2
  <1>6. \A r, t \in Places : At(e, r) = At(e, t) /\ At(e, r) \in u \ u0 => r = t
    <2>1. \A r, t \in Places : At(d, r) = At(d, t) /\ At(d, r) \in u \ u0 => r = t
      BY DEF Grown
    <2> QED
      BY <1>1, <1>5, <2>1
  <1>7. ASSUME NEW g \in u \ u0
        PROVE  g \in R \ {f} \/ g \in V \cup ({At(d, o)} \ {0}) \/ \E r \in Places : At(e, r) = g
    <2>1. g \in R \/ g \in V \/ \E r \in Places : At(d, r) = g
      BY DEF Grown
    <2>2. g # 0
      BY <1>2, FrameFacts
    <2>3. ASSUME NEW r \in Places, At(d, r) = g
          PROVE  g \in V \cup ({At(d, o)} \ {0}) \/ \E t \in Places : At(e, t) = g
      BY <1>1, <2>2, <2>3
    <2> QED
      BY <1>1, <2>1, <2>3
  <1>8. \A r \in Places : At(d0, r) = 0 \/ At(e, r) = At(d0, r) \/ At(d0, r) \in V \cup ({At(d, o)} \ {0})
    <2>1. \A r \in Places : At(d0, r) = 0 \/ At(d, r) = At(d0, r) \/ At(d0, r) \in V
      BY DEF Grown
    <2> QED
      BY <1>1, <2>1
  <1>9. R \ {f} \subseteq u \ u0 /\ \A r \in Places : At(e, r) \notin R \ {f}
    BY <1>1, <1>2
  <1> QED
    BY <1>2, <1>4, <1>6, <1>7, <1>8, <1>9 DEF Grown

(* A frame of a segment is mapped where nothing was. *)
LEMMA GrownShare ==
    ASSUME NEW u0, NEW d0, NEW u, NEW d, NEW R, NEW V, NEW S,
           Grown(u0, d0, u, d, R, V, S),
           NEW f \in S, NEW o \in Shared, NEW e, Put(d, e, o, f),
           At(d, o) = 0, At(d0, o) = 0
    PROVE  Grown(u0, d0, u, e, R, V, S)
  <1> o \in Places
    BY SharedPlaces
  <1>1. At(e, o) = f /\ \A r \in Places : r = o \/ At(e, r) = At(d, r)
    BY DEF Put
  <1>2. /\ u0 \subseteq u /\ u \subseteq Frames /\ S \subseteq u0
        /\ \A r \in Places : At(d0, r) = 0 \/ At(d0, r) \in u0
        /\ R \subseteq u \ u0 /\ \A r \in Places : At(d, r) \notin R
    BY DEF Grown
  <1>3. f \in u0
    BY <1>2
  <1>4. \A r \in Places : \/ At(e, r) = At(d0, r)
                          \/ At(e, r) \in u \ u0
                          \/ At(e, r) \in S /\ r \in Shared /\ At(d0, r) = 0
    BY <1>1 DEF Grown
  <1>5. \A r, t \in Places : At(e, r) = At(e, t) /\ At(e, r) \in u \ u0 => r = t
    <2>1. \A r, t \in Places : At(d, r) = At(d, t) /\ At(d, r) \in u \ u0 => r = t
      BY DEF Grown
    <2> QED
      BY <1>1, <1>3, <2>1
  <1>6. ASSUME NEW g \in u \ u0
        PROVE  g \in R \/ g \in V \/ \E r \in Places : At(e, r) = g
    <2>1. g \in R \/ g \in V \/ \E r \in Places : At(d, r) = g
      BY DEF Grown
    <2>2. g # 0
      BY <1>2, FrameFacts
    <2> QED
      BY <1>1, <2>1, <2>2
  <1>7. \A r \in Places : At(d0, r) = 0 \/ At(e, r) = At(d0, r) \/ At(d0, r) \in V
    <2>1. \A r \in Places : At(d0, r) = 0 \/ At(d, r) = At(d0, r) \/ At(d0, r) \in V
      BY DEF Grown
    <2> QED
      BY <1>1, <2>1
  <1>8. \A r \in Places : At(e, r) \notin R
    BY <1>1, <1>2, <1>3
  <1> QED
    BY <1>2, <1>4, <1>5, <1>6, <1>7, <1>8 DEF Grown

(* Only the new frames count. *)
LEMMA GrownRebase ==
    ASSUME NEW u, NEW e, NEW v, NEW d, NEW R, NEW V, NEW S, Grown(u, e, v, d, R, V, S),
           NEW x, NEW w, w \ x = v \ u, x \subseteq w, w \subseteq Frames, S \subseteq x,
           \A o \in Places : At(e, o) = 0 \/ At(e, o) \in x
    PROVE  Grown(x, e, w, d, R, V, S)
  <1>1. PICK N : N = v \ u
    OBVIOUS
  <1>2. w \ x = N
    BY <1>1
  <1>3. /\ \A o \in Places : \/ At(d, o) = At(e, o)
                             \/ At(d, o) \in N
                             \/ At(d, o) \in S /\ o \in Shared /\ At(e, o) = 0
        /\ \A o, r \in Places : At(d, o) = At(d, r) /\ At(d, o) \in N => o = r
    BY <1>1 DEF Grown
  <1>4. /\ \A f \in N : f \in R \/ f \in V \/ \E o \in Places : At(d, o) = f
        /\ \A o \in Places : At(e, o) = 0 \/ At(d, o) = At(e, o) \/ At(e, o) \in V
    BY <1>1 DEF Grown
  <1>5. R \subseteq N /\ \A o \in Places : At(d, o) \notin R
    BY <1>1 DEF Grown
  <1>6. /\ \A o \in Places : \/ At(d, o) = At(e, o)
                             \/ At(d, o) \in w \ x
                             \/ At(d, o) \in S /\ o \in Shared /\ At(e, o) = 0
        /\ \A o, r \in Places : At(d, o) = At(d, r) /\ At(d, o) \in w \ x => o = r
    BY <1>2, <1>3, Zenon
  <1>7. \A f \in w \ x : f \in R \/ f \in V \/ \E o \in Places : At(d, o) = f
    BY <1>2, <1>4, Zenon
  <1>8. R \subseteq w \ x
    BY <1>2, <1>5, Zenon
  <1> QED
    BY <1>4, <1>5, <1>6, <1>7, <1>8, Zenon DEF Grown

(* Shared entries are cleared again. *)
LEMMA GrownUnshare ==
    ASSUME NEW u0, NEW d0, NEW u, NEW d, NEW R, NEW V, NEW S,
           Grown(u0, d0, u, d, R, V, S), NEW e,
           \A o \in Places : \/ At(e, o) = At(d, o)
                             \/ At(e, o) = 0 /\ At(d0, o) = 0 /\ At(d, o) \in S \cup {0}
    PROVE  Grown(u0, d0, u, e, R, V, S)
  <1>1. /\ u0 \subseteq u /\ u \subseteq Frames /\ S \subseteq u0
        /\ \A r \in Places : At(d0, r) = 0 \/ At(d0, r) \in u0
        /\ R \subseteq u \ u0 /\ \A r \in Places : At(d, r) \notin R
    BY DEF Grown
  <1>2. 0 \notin u
    BY <1>1, FrameFacts
  <1>3. \A r \in Places : \/ At(e, r) = At(d0, r)
                          \/ At(e, r) \in u \ u0
                          \/ At(e, r) \in S /\ r \in Shared /\ At(d0, r) = 0
    BY DEF Grown
  <1>4. \A r, t \in Places : At(e, r) = At(e, t) /\ At(e, r) \in u \ u0 => r = t
    <2>1. \A r, t \in Places : At(d, r) = At(d, t) /\ At(d, r) \in u \ u0 => r = t
      BY DEF Grown
    <2>2. \A r \in Places : At(e, r) \in u \ u0 => At(e, r) = At(d, r)
      BY <1>2
    <2> QED
      BY <2>1, <2>2
  <1>5. ASSUME NEW g \in u \ u0
        PROVE  g \in R \/ g \in V \/ \E r \in Places : At(e, r) = g
    <2>1. g \in R \/ g \in V \/ \E r \in Places : At(d, r) = g
      BY DEF Grown
    <2>2. g # 0 /\ g \notin S
      BY <1>1, <1>2
    <2> QED
      BY <2>1, <2>2
  <1>6. \A r \in Places : At(d0, r) = 0 \/ At(e, r) = At(d0, r) \/ At(d0, r) \in V
    <2>1. \A r \in Places : At(d0, r) = 0 \/ At(d, r) = At(d0, r) \/ At(d0, r) \in V
      BY DEF Grown
    <2> QED
      BY <2>1
  <1>7. \A r \in Places : At(e, r) \notin R
    BY <1>1, <1>2
  <1> QED
    BY <1>1, <1>3, <1>4, <1>5, <1>6, <1>7 DEF Grown

(***************************************************************************)
(* All spaces.  Every frame in use has its bit set, one place or, in a      *)
(* segment, shared places only; every set bit has a use unless it is in L.  *)
(***************************************************************************)
Sound(u, sp, L, S) ==
    /\ S \subseteq u /\ u \subseteq Frames
    /\ \A p \in Procs, o \in Places : At(sp[p], o) = 0 \/ At(sp[p], o) \in u
    /\ \A p \in Procs, o \in Places : At(sp[p], o) \in S => o \in Shared
    /\ \A p, q \in Procs, o, r \in Places :
          At(sp[p], o) = At(sp[q], r) =>
              At(sp[p], o) = 0 \/ At(sp[p], o) \in S \/ (p = q /\ o = r)
    /\ \A f \in u : f \in L \/ f \in S \/ \E p \in Procs, o \in Places : At(sp[p], o) = f

(* t is sp with the space d for process p. *)
Swapped(sp, t, p, d) == t[p] = d /\ \A q \in Procs : q = p \/ t[q] = sp[q]

(* More is lost than was: more frames are, for a start. *)
LEMMA SoundKeep ==
    ASSUME NEW u, NEW sp, NEW L, NEW S, Sound(u, sp, L, S),
           NEW v \in SUBSET Frames, u \subseteq v, NEW K, L \subseteq K, v \ u \subseteq K
    PROVE  Sound(v, sp, K, S)
  <1>1. S \subseteq v
    BY DEF Sound
  <1>2. \A p \in Procs, o \in Places : At(sp[p], o) = 0 \/ At(sp[p], o) \in v
    BY DEF Sound
  <1>3. \A f \in v : f \in K \/ f \in S \/ \E p \in Procs, o \in Places : At(sp[p], o) = f
    BY DEF Sound
  <1> QED
    BY <1>1, <1>2, <1>3 DEF Sound

(* Frames without a place are freed. *)
DropStep(u, sp, K, S, R, L) ==
    /\ Sound(u, sp, K, S) /\ R \cap S = {} /\ K \subseteq L \cup R
    /\ \A p \in Procs, o \in Places : At(sp[p], o) \notin R
(* Then all are sound again. *)
LEMMA SoundDrop ==
    ASSUME NEW u, NEW sp, NEW K, NEW S, NEW R, NEW L, DropStep(u, sp, K, S, R, L)
    PROVE  Sound(u \ R, sp, L, S)
  <1> Sound(u, sp, K, S)
    BY DEF DropStep
  <1> R \cap S = {} /\ K \subseteq L \cup R /\ \A p \in Procs, o \in Places : At(sp[p], o) \notin R
    BY DEF DropStep
  <1>1. S \subseteq u \ R /\ u \ R \subseteq Frames
    BY DEF Sound
  <1>2. \A p \in Procs, o \in Places : At(sp[p], o) = 0 \/ At(sp[p], o) \in u \ R
    BY DEF Sound
  <1>3. \A f \in u \ R : f \in L \/ f \in S \/ \E p \in Procs, o \in Places : At(sp[p], o) = f
    BY DEF Sound
  <1> QED
    BY <1>1, <1>2, <1>3 DEF Sound

(* One space grows. *)
GrowStep(u, sp, L, S, p, v, d, R, V, t, K) ==
    /\ Sound(u, sp, L, S) /\ Grown(u, sp[p], v, d, R, V, S)
    /\ Swapped(sp, t, p, d) /\ L \cup R \cup V \subseteq K
(* Then all are sound again. *)
LEMMA SoundGrow ==
    ASSUME NEW u, NEW sp, NEW L, NEW S, NEW p \in Procs, NEW v, NEW d, NEW R, NEW V, NEW t, NEW K,
           GrowStep(u, sp, L, S, p, v, d, R, V, t, K)
    PROVE  Sound(v, t, K, S)
  <1> Sound(u, sp, L, S) /\ Grown(u, sp[p], v, d, R, V, S)
    BY DEF GrowStep
  <1> Swapped(sp, t, p, d) /\ L \cup R \cup V \subseteq K
    BY DEF GrowStep
  <1>1. t[p] = d /\ \A q \in Procs : q = p \/ t[q] = sp[q]
    BY DEF Swapped
  <1>2. u \subseteq v /\ v \subseteq Frames /\ S \subseteq u
    BY DEF Grown
  <1>3. \A o \in Places : \/ At(d, o) = At(sp[p], o)
                          \/ At(d, o) \in v \ u
                          \/ At(d, o) \in S /\ o \in Shared /\ At(sp[p], o) = 0
    BY DEF Grown
  <1>4. \A q \in Procs, o \in Places : At(sp[q], o) = 0 \/ At(sp[q], o) \in u
    BY DEF Sound
  <1>5. \A q \in Procs, o \in Places : At(t[q], o) = 0 \/ At(t[q], o) \in v
    BY <1>1, <1>2, <1>3, <1>4
  <1>6. \A q \in Procs, o \in Places : At(t[q], o) \in S => o \in Shared
    <2>1. \A q \in Procs, o \in Places : At(sp[q], o) \in S => o \in Shared
      BY DEF Sound
    <2> QED
      BY <1>1, <1>2, <1>3, <2>1
  <1>7. ASSUME NEW q \in Procs, NEW s \in Procs, NEW o \in Places, NEW r \in Places,
               At(t[q], o) = At(t[s], r), At(t[q], o) # 0, At(t[q], o) \notin S
        PROVE  q = s /\ o = r
    <2>1. At(sp[q], o) = At(sp[s], r) /\ At(sp[q], o) # 0 /\ At(sp[q], o) \notin S => q = s /\ o = r
      BY DEF Sound
    <2>2. \A w \in Procs, x \in Places : At(t[w], x) \in u /\ At(t[w], x) \notin S => At(t[w], x) = At(sp[w], x)
      BY <1>1, <1>3
    <2>3. CASE At(t[q], o) \in u
      BY <1>7, <2>1, <2>2, <2>3
    <2>4. CASE At(t[q], o) \notin u
      <3>1. q = p /\ s = p
        BY <1>1, <1>4, <1>7, <2>4
      <3>2. At(d, o) = At(d, r) /\ At(d, o) \in v \ u
        BY <1>1, <1>5, <1>7, <2>4, <3>1
      <3> QED
        BY <3>1, <3>2 DEF Grown
    <2> QED
      BY <2>3, <2>4
  <1>8. ASSUME NEW f \in v PROVE f \in K \/ f \in S \/ \E q \in Procs, o \in Places : At(t[q], o) = f
    <2>1. CASE f \notin u
      <3>1. f \in R \/ f \in V \/ \E o \in Places : At(d, o) = f
        BY <2>1 DEF Grown
      <3> QED
        BY <1>1, <3>1
    <2>2. CASE f \in u
      <3>1. f \in L \/ f \in S \/ \E q \in Procs, o \in Places : At(sp[q], o) = f
        BY <2>2 DEF Sound
      <3>2. \A o \in Places : At(sp[p], o) = 0 \/ At(d, o) = At(sp[p], o) \/ At(sp[p], o) \in V
        BY DEF Grown
      <3>3. f # 0
        BY <1>2, FrameFacts
      <3>4. ASSUME NEW q \in Procs, NEW o \in Places, At(sp[q], o) = f
            PROVE  f \in K \/ \E w \in Procs, x \in Places : At(t[w], x) = f
        <4>1. CASE q # p
          <5>1. At(t[q], o) = f
            BY <1>1, <3>4, <4>1
          <5> QED
            BY <5>1
        <4>2. CASE q = p
          <5>1. At(t[p], o) = f \/ f \in V
            BY <1>1, <3>2, <3>3, <3>4, <4>2
          <5> QED
            BY <5>1
        <4> QED
          BY <4>1, <4>2
      <3> QED
        BY <3>1, <3>4
    <2> QED
      BY <2>1, <2>2
  <1>9. S \subseteq v
    BY <1>2
  <1> QED
    BY <1>2, <1>5, <1>6, <1>7, <1>8, <1>9 DEF Sound

(* The places D of one space are emptied and their frames freed. *)
LEMMA SoundUnmap ==
    ASSUME NEW u, NEW sp, NEW L, NEW S, Sound(u, sp, L, S),
           NEW p \in Procs, NEW d, NEW t, Swapped(sp, t, p, d), NEW D \in SUBSET Places,
           \A o \in D : At(d, o) = 0 /\ At(sp[p], o) \notin S,
           \A o \in Places : o \in D \/ At(d, o) = At(sp[p], o),
           NEW v, v = u \ {At(sp[p], o) : o \in D}
    PROVE  Sound(v, t, L, S)
  <1>1. t[p] = d /\ \A q \in Procs : q = p \/ t[q] = sp[q]
    BY DEF Swapped
  <1>2. S \subseteq u /\ u \subseteq Frames
    BY DEF Sound
  <1>3. v \subseteq Frames /\ \A f : f \in v <=> (f \in u /\ \A o \in D : At(sp[p], o) # f)
    BY <1>2
  <1>4. S \subseteq v
    BY <1>2, <1>3
  <1>5. \A q \in Procs, o \in Places : At(t[q], o) = 0 \/ (At(t[q], o) = At(sp[q], o) /\ (q = p => o \notin D))
    BY <1>1
  <1>6. \A q \in Procs, o \in Places : At(sp[q], o) = 0 \/ At(sp[q], o) \in u
    BY DEF Sound
  <1>7. \A q, s \in Procs, o, r \in Places :
          At(sp[q], o) = At(sp[s], r) => At(sp[q], o) = 0 \/ At(sp[q], o) \in S \/ (q = s /\ o = r)
    BY DEF Sound
  <1>8. ASSUME NEW q \in Procs, NEW o \in Places, At(t[q], o) # 0 PROVE At(t[q], o) \in v
    <2>1. At(t[q], o) = At(sp[q], o) /\ (q = p => o \notin D)
      BY <1>5, <1>8
    <2>2. At(sp[q], o) \in u
      BY <1>6, <1>8, <2>1
    <2>3. ASSUME NEW r \in D, At(sp[p], r) = At(sp[q], o) PROVE FALSE
      <3>1. r \in Places /\ At(sp[p], r) \notin S
        OBVIOUS
      <3> QED
        BY <1>7, <1>8, <2>1, <2>3, <3>1
    <2> QED
      BY <1>3, <2>1, <2>2, <2>3
  <1>9. \A q \in Procs, o \in Places : At(t[q], o) \in S => o \in Shared
    <2>1. \A q \in Procs, o \in Places : At(sp[q], o) \in S => o \in Shared
      BY DEF Sound
    <2>2. 0 \notin S
      BY <1>2, FrameFacts
    <2> QED
      BY <1>5, <2>1, <2>2
  <1>10. \A q, s \in Procs, o, r \in Places :
          At(t[q], o) = At(t[s], r) => At(t[q], o) = 0 \/ At(t[q], o) \in S \/ (q = s /\ o = r)
    BY <1>5, <1>7
  <1>11. ASSUME NEW f \in v PROVE f \in L \/ f \in S \/ \E q \in Procs, o \in Places : At(t[q], o) = f
    <2>1. f \in u /\ \A o \in D : At(sp[p], o) # f
      BY <1>3
    <2>2. f \in L \/ f \in S \/ \E q \in Procs, o \in Places : At(sp[q], o) = f
      BY <2>1 DEF Sound
    <2>3. ASSUME NEW q \in Procs, NEW o \in Places, At(sp[q], o) = f
          PROVE  At(t[q], o) = f
      BY <1>1, <2>1, <2>3
    <2> QED
      BY <2>2, <2>3
  <1> QED
    BY <1>3, <1>4, <1>8, <1>9, <1>10, <1>11 DEF Sound

(* A new space, built beside the old one, replaces it, and the frames of   *)
(* the old one are freed.                                                  *)
ReplaceStep(u, sp, L, S, p, v, d, R, V, t, K, w) ==
    /\ Sound(u, sp, L, S) /\ Grown(u, NoSpace, v, d, R, V, S)
    /\ Swapped(sp, t, p, d) /\ L \cup R \cup V \subseteq K
    /\ \A o \in Places : At(sp[p], o) \notin S
    /\ w = v \ {At(sp[p], o) : o \in Places}
(* Then all are sound again. *)
LEMMA SoundReplace ==
    ASSUME NEW u, NEW sp, NEW L, NEW S, NEW p \in Procs, NEW v, NEW d, NEW R, NEW V, NEW t, NEW K, NEW w,
           ReplaceStep(u, sp, L, S, p, v, d, R, V, t, K, w)
    PROVE  Sound(w, t, K, S)
  <1> Sound(u, sp, L, S) /\ Grown(u, NoSpace, v, d, R, V, S)
    BY DEF ReplaceStep
  <1> Swapped(sp, t, p, d) /\ L \cup R \cup V \subseteq K
    BY DEF ReplaceStep
  <1> w = v \ {At(sp[p], o) : o \in Places} /\ \A o \in Places : At(sp[p], o) \notin S
    BY DEF ReplaceStep
  <1>1. PICK e : e = NoSpace
    OBVIOUS
  <1>2. PICK m : m = [q \in Procs |-> IF q = p THEN e ELSE sp[q]]
    OBVIOUS
  <1>3. PICK x : x = u \ {At(sp[p], o) : o \in Places}
    OBVIOUS
  <1>4. Swapped(sp, m, p, e)
    BY <1>2 DEF Swapped
  <1>5. \A o \in Places : At(e, o) = 0
    BY <1>1, NoSpaceFacts
  <1>6. Sound(x, m, L, S)
    BY <1>3, <1>4, <1>5, SoundUnmap
  <1>7. Swapped(m, t, p, d)
    BY <1>2 DEF Swapped
  <1>8. m[p] = e
    BY <1>4 DEF Swapped
  <1>9. Grown(x, e, w, d, R, V, S)
    <2>1. Grown(u, e, v, d, R, V, S)
      BY <1>1
    <2>2. u \subseteq v /\ v \subseteq Frames /\ S \subseteq u
      BY <2>1 DEF Grown
    <2>3. \A o \in Places : At(sp[p], o) = 0 \/ At(sp[p], o) \in u
      BY DEF Sound
    <2>4. 0 \notin v
      BY <2>2, FrameFacts
    <2>5. w \ x = v \ u /\ x \subseteq w /\ w \subseteq Frames
      BY <1>3, <2>2, <2>3, <2>4
    <2>6. S \subseteq x
      BY <1>6 DEF Sound
    <2>7. \A o \in Places : At(e, o) = 0 \/ At(e, o) \in x
      BY <1>5
    <2> QED
      BY <2>1, <2>5, <2>6, <2>7, GrownRebase
  <1>10. Grown(x, m[p], w, d, R, V, S)
    BY <1>8, <1>9, Zenon
  <1>11. GrowStep(x, m, L, S, p, w, d, R, V, t, K)
    BY <1>6, <1>7, <1>10 DEF GrowStep
  <1> QED
    BY <1>11, SoundGrow

(* A new segment takes free frames. *)
LEMMA SoundSegment ==
    ASSUME NEW u, NEW sp, NEW L, NEW S, Sound(u, sp, L, S),
           NEW T, T \subseteq Frames, T \cap u = {}
    PROVE  Sound(u \cup T, sp, L, S \cup T)
  <1>1. S \cup T \subseteq u \cup T /\ u \cup T \subseteq Frames
    BY DEF Sound
  <1>2. \A p \in Procs, o \in Places : At(sp[p], o) \notin T
    BY FrameFacts DEF Sound
  <1>3. \A p \in Procs, o \in Places : At(sp[p], o) = 0 \/ At(sp[p], o) \in u \cup T
    BY DEF Sound
  <1>4. \A p \in Procs, o \in Places : At(sp[p], o) \in S \cup T => o \in Shared
    BY <1>2 DEF Sound
  <1>5. \A f \in u \cup T : f \in L \/ f \in S \cup T \/ \E p \in Procs, o \in Places : At(sp[p], o) = f
    BY DEF Sound
  <1>6. \A p, q \in Procs, o, r \in Places :
          At(sp[p], o) = At(sp[q], r) =>
              At(sp[p], o) = 0 \/ At(sp[p], o) \in S \cup T \/ (p = q /\ o = r)
    BY DEF Sound
  <1> QED
    BY <1>1, <1>3, <1>4, <1>5, <1>6 DEF Sound

(* A segment that nobody has attached is removed. *)
LEMMA SoundRemove ==
    ASSUME NEW u, NEW sp, NEW L, NEW S, Sound(u, sp, L, S),
           NEW T, T \subseteq S, \A p \in Procs, o \in Places : At(sp[p], o) \notin T
    PROVE  Sound(u \ T, sp, L, S \ T)
  <1>1. S \ T \subseteq u \ T /\ u \ T \subseteq Frames
    BY DEF Sound
  <1>2. \A p \in Procs, o \in Places : At(sp[p], o) = 0 \/ At(sp[p], o) \in u \ T
    BY DEF Sound
  <1>3. \A p \in Procs, o \in Places : At(sp[p], o) \in S \ T => o \in Shared
    BY DEF Sound
  <1>4. \A p, q \in Procs, o, r \in Places :
          At(sp[p], o) = At(sp[q], r) =>
              At(sp[p], o) = 0 \/ At(sp[p], o) \in S \ T \/ (p = q /\ o = r)
    BY DEF Sound
  <1>5. \A f \in u \ T : f \in L \/ f \in S \ T \/ \E p \in Procs, o \in Places : At(sp[p], o) = f
    BY DEF Sound
  <1> QED
    BY <1>1, <1>2, <1>3, <1>4, <1>5 DEF Sound

(***************************************************************************)
(* The operators of the model.                                             *)
(***************************************************************************)

(* Min finds a least element. *)
LEMMA MinIn ==
    ASSUME NEW S, S \subseteq Nat, S # {}
    PROVE  Min(S) \in S
  <1>1. PICK x \in S : \A y \in S : x =< y
    BY LeastExists
  <1> QED
    BY <1>1 DEF Min

(* pmm_alloc_page gives a frame whose bit is clear, or none. *)
LEMMA FirstFreeFacts ==
    ASSUME NEW u
    PROVE  /\ FirstFree(u) \in Values
           /\ FirstFree(u) # 0 => FirstFree(u) \in Frames /\ FirstFree(u) \notin u
  <1>1. CASE Frames \subseteq u
    BY <1>1, FrameFacts DEF FirstFree
  <1>2. CASE ~ (Frames \subseteq u)
    <2>1. PICK m : m = Min(Frames \ u)
      OBVIOUS
    <2>2. m \in Frames \ u
      <3>1. Frames \ u \subseteq Nat
        BY FrameAssumption DEF Frames
      <3> QED
        BY <1>2, <2>1, <3>1, MinIn
    <2>3. FirstFree(u) = m
      BY <1>2, <2>1 DEF FirstFree
    <2> QED
      BY <2>2, <2>3, FrameFacts
  <1> QED
    BY <1>1, <1>2

(* vmm_map_page_in_directory in steps: the table that is there, or a new   *)
(* one, then the entry.                                                    *)
TableStep(u, d, v, t, e) ==
    /\ e.dir = d.dir /\ e.pte = d.pte
    /\ \/ d.pt[Table(v)] = t /\ e = d
       \/ d.pt[Table(v)] = 0 /\ t \notin u /\ Put(d, e, <<"pt", Table(v)>>, t)
MapSteps(u, d, v, f, r, t, e) ==
    /\ r.ok = TRUE /\ r.u = u \cup {t} /\ r.d = WithEntry(e, v, f)
    /\ TableStep(u, d, v, t, e)
(* A page is mapped in these steps or not at all. *)
LEMMA MapPageSteps ==
    ASSUME NEW u, NEW d \in Space, NEW v \in Pages, NEW f \in Values,
           NEW r, r = MapPage(u, d, v, f)
    PROVE  \/ /\ r.ok = FALSE /\ r.u = u /\ r.d = d
           \/ \E t \in Frames, e \in Space : MapSteps(u, d, v, f, r, t, e)
  <1>1. PICK k \in Tables : k = Table(v)
    BY TableOfPage
  <1>2. PICK t : t = IF d.pt[k] # 0 THEN d.pt[k] ELSE FirstFree(u)
    OBVIOUS
  <1>3. d.pt[k] \in Values
    BY DEF Space
  <1>4. t \in Values /\ (t # 0 => t \in Frames)
    BY <1>2, <1>3, FirstFreeFacts, FrameFacts
  <1>5. CASE t = 0
    <2>1. r = [ok |-> FALSE, u |-> u, d |-> d]
      BY <1>1, <1>2, <1>5 DEF MapPage
    <2> QED
      BY <2>1
  <1>6. CASE t # 0
    <2>1. PICK e : e = [d EXCEPT !.pt[k] = t]
      OBVIOUS
    <2>2. r = [ok |-> TRUE, u |-> u \cup {t}, d |-> [d EXCEPT !.pt[k] = t, !.pte[v] = f]]
      BY <1>1, <1>2, <1>6 DEF MapPage
    <2>3. [d EXCEPT !.pt[k] = t, !.pte[v] = f] = WithEntry(e, v, f)
      BY <2>1 DEF WithEntry
    <2>4. r.ok = TRUE /\ r.u = u \cup {t} /\ r.d = WithEntry(e, v, f)
      <3>1. PICK g : g = WithEntry(e, v, f)
        OBVIOUS
      <3>2. r = [ok |-> TRUE, u |-> u \cup {t}, d |-> g]
        BY <2>2, <2>3, <3>1
      <3> QED
        BY <3>1, <3>2
    <2>5. e \in Space /\ Put(d, e, <<"pt", k>>, t) /\ e.dir = d.dir /\ e.pte = d.pte
      BY <1>4, <2>1, PutTable
    <2>6. CASE d.pt[k] # 0
      <3>1. t = d.pt[k]
        BY <1>2, <2>6
      <3>2. e = d
        BY <2>1, <3>1 DEF Space
      <3>3. TableStep(u, d, v, t, e)
        BY <1>1, <2>5, <3>1, <3>2 DEF TableStep
      <3> QED
        BY <1>4, <1>6, <2>4, <2>5, <3>3 DEF MapSteps
    <2>7. CASE d.pt[k] = 0
      <3>1. t \notin u
        BY <1>2, <1>6, <2>7, FirstFreeFacts
      <3>2. TableStep(u, d, v, t, e)
        BY <1>1, <2>5, <2>7, <3>1 DEF TableStep
      <3> QED
        BY <1>4, <1>6, <2>4, <2>5, <3>2 DEF MapSteps
    <2> QED
      BY <2>6, <2>7
  <1> QED
    BY <1>5, <1>6

(* What mapping a page leaves alone. *)
MapOutcome(u, d, v, f, r) ==
    /\ r.ok \in BOOLEAN /\ r.u \subseteq Frames /\ r.d \in Space /\ r.d.dir = d.dir
    /\ u \subseteq r.u
    /\ \A w \in Pages : w = v \/ r.d.pte[w] = d.pte[w]
    /\ r.ok => r.d.pte[v] = f
    /\ ~ r.ok => r.u = u /\ r.d = d
(* Other pages, the directory, and everything after a failure. *)
LEMMA MapPageFacts ==
    ASSUME NEW u \in SUBSET Frames, NEW d \in Space, NEW v \in Pages, NEW f \in Values
    PROVE  MapOutcome(u, d, v, f, MapPage(u, d, v, f))
  <1>0. PICK r : r = MapPage(u, d, v, f)
    OBVIOUS
  <1>1. CASE r.ok = FALSE /\ r.u = u /\ r.d = d
    BY <1>0, <1>1 DEF MapOutcome
  <1>2. ASSUME NEW t \in Frames, NEW e \in Space, MapSteps(u, d, v, f, r, t, e)
        PROVE  MapOutcome(u, d, v, f, r)
    <2>1. PICK g : g = WithEntry(e, v, f)
      OBVIOUS
    <2>2. r.ok = TRUE /\ r.u = u \cup {t} /\ r.d = g /\ e.dir = d.dir /\ e.pte = d.pte
      BY <1>2, <2>1, Zenon DEF MapSteps, TableStep
    <2>3. EntrySet(e, g, v, f)
      BY <2>1, PutEntry
    <2>4. /\ g \in Space /\ g.dir = e.dir
          /\ g.pte[v] = f /\ \A w \in Pages : w = v \/ g.pte[w] = e.pte[w]
      BY <2>3 DEF EntrySet
    <2>5. r.u \subseteq Frames /\ u \subseteq r.u
      BY <2>2
    <2> QED
      BY <2>2, <2>4, <2>5, Zenon DEF MapOutcome
  <1> QED
    BY <1>0, <1>1, <1>2, MapPageSteps

(* A space grows by the page. *)
LEMMA MapPageGrown ==
    ASSUME NEW u0, NEW d0, NEW u, NEW d \in Space, NEW R, NEW V, NEW S,
           Grown(u0, d0, u, d, R, V, S), NEW v \in Pages, NEW f \in Frames,
           NEW r, r = MapPage(u, d, v, f), r.ok
    PROVE  /\ f \in R => Grown(u0, d0, r.u, r.d, R \ {f}, V \cup ({d.pte[v]} \ {0}), S)
           /\ (f \in S /\ <<"pte", v>> \in Shared /\ d.pte[v] = 0 /\ At(d0, <<"pte", v>>) = 0) =>
                  Grown(u0, d0, r.u, r.d, R, V, S)
  <1>0. f \in Values /\ Table(v) \in Tables
    BY FrameFacts, TableOfPage
  <1>1. PICK t \in Frames, e \in Space : MapSteps(u, d, v, f, r, t, e)
    BY <1>0, MapPageSteps
  <1>2. PICK g : g = WithEntry(e, v, f)
    OBVIOUS
  <1>12. /\ r.u = u \cup {t} /\ r.d = g /\ e.pte = d.pte
         /\ \/ d.pt[Table(v)] = t /\ e = d
            \/ d.pt[Table(v)] = 0 /\ t \notin u /\ Put(d, e, <<"pt", Table(v)>>, t)
    BY <1>1, <1>2, Zenon DEF MapSteps, TableStep
  <1>3. Put(e, g, <<"pte", v>>, f)
    <2>1. EntrySet(e, g, v, f)
      BY <1>0, <1>2, PutEntry
    <2> QED
      BY <2>1 DEF EntrySet
  <1>4. PICK o \in Places : o = <<"pt", Table(v)>> /\ At(d, o) = d.pt[Table(v)]
    BY <1>0, PlaceKinds, AtKinds
  <1>5. PICK y \in Places : y = <<"pte", v>> /\ At(e, y) = d.pte[v]
    <2>1. PICK y \in Places : y = <<"pte", v>> /\ At(e, y) = e.pte[v]
      BY PlaceKinds, AtKinds
    <2> QED
      BY <1>12, <2>1, Zenon
  <1>6. PICK w : w = u \cup {t}
    OBVIOUS
  <1>7. Grown(u0, d0, w, e, R, V, S)
    <2>1. CASE d.pt[Table(v)] = t /\ e = d
      <3>1. \A q \in Places : At(d, q) = 0 \/ At(d, q) \in u
        BY DEF Grown
      <3>2. t \in u
        BY <1>4, <2>1, <3>1, FrameFacts
      <3>3. w = u
        BY <1>6, <3>2
      <3> QED
        BY <2>1, <3>3
    <2>2. CASE d.pt[Table(v)] = 0 /\ t \notin u /\ Put(d, e, <<"pt", Table(v)>>, t)
      <3>1. Grown(u0, d0, w, d, R \cup {t}, V, S)
        BY <1>6, <2>2, GrownTake
      <3>2. Put(d, e, o, t) /\ At(d, o) = 0
        BY <1>4, <2>2
      <3>3. Grown(u0, d0, w, e, (R \cup {t}) \ {t}, V \cup ({At(d, o)} \ {0}), S)
        <4>1. PICK Q : Q = R \cup {t}
          OBVIOUS
        <4>2. t \in Q /\ Grown(u0, d0, w, d, Q, V, S)
          BY <3>1, <4>1
        <4>3. Grown(u0, d0, w, e, Q \ {t}, V \cup ({At(d, o)} \ {0}), S)
          BY <3>2, <4>2, GrownPut
        <4> QED
          BY <4>1, <4>3
      <3>4. t \notin R
        BY <2>2 DEF Grown
      <3>5. (R \cup {t}) \ {t} = R /\ V \cup ({At(d, o)} \ {0}) = V
        BY <3>2, <3>4
      <3> QED
        BY <3>3, <3>5
    <2> QED
      BY <1>12, <2>1, <2>2
  <1>8. r.u = w /\ r.d = g
    BY <1>6, <1>12
  <1>9. Put(e, g, y, f)
    BY <1>3, <1>5
  <1>10. ASSUME f \in R PROVE Grown(u0, d0, r.u, r.d, R \ {f}, V \cup ({d.pte[v]} \ {0}), S)
    <2>1. Grown(u0, d0, w, g, R \ {f}, V \cup ({At(e, y)} \ {0}), S)
      BY <1>7, <1>9, <1>10, GrownPut
    <2> QED
      BY <1>5, <1>8, <2>1, Zenon
  <1>11. ASSUME f \in S, <<"pte", v>> \in Shared, d.pte[v] = 0, At(d0, <<"pte", v>>) = 0
         PROVE  Grown(u0, d0, r.u, r.d, R, V, S)
    <2>1. y \in Shared /\ At(e, y) = 0 /\ At(d0, y) = 0
      BY <1>5, <1>11, Zenon
    <2>2. Grown(u0, d0, w, g, R, V, S)
      BY <1>7, <1>9, <1>11, <2>1, GrownShare
    <2> QED
      BY <1>8, <2>2, Zenon
  <1> QED
    BY <1>10, <1>11

(***************************************************************************)
(* The loop of AddPages.                                                   *)
(***************************************************************************)
Adding == [ok : BOOLEAN, u : SUBSET Frames, d : Space, done : SUBSET Pages,
           rest : SUBSET Frames, over : SUBSET Frames]

(* The rounds that change something: there is no frame, no table, or both. *)
NoFrame(x, y) ==
    y.ok = FALSE /\ y.u = x.u /\ y.d = x.d /\ y.done = x.done /\ y.rest = x.rest /\ y.over = x.over
NoTable(x, y, f) ==
    /\ y.ok = FALSE /\ y.u = x.u \cup {f} /\ y.d = x.d /\ y.done = x.done
    /\ y.rest = {f} /\ y.over = x.over
PageAdded(x, v, y, r) ==
    /\ y.ok = TRUE /\ y.u = r.u /\ y.d = r.d /\ y.done = x.done \cup {v}
    /\ y.rest = {} /\ y.over = x.over \cup ({x.d.pte[v]} \ {0})
Mapping(x, v, f, r) == f \notin x.u /\ r = MapPage(x.u \cup {f}, x.d, v, f)

(* What a round does. *)
LEMMA AddPageSteps ==
    ASSUME NEW x \in Adding, NEW v \in Pages, NEW y, y = AddPage(x, v), x.ok
    PROVE  \/ NoFrame(x, y)
           \/ \E f \in Frames : \E r : Mapping(x, v, f, r) /\ ~ r.ok /\ NoTable(x, y, f)
           \/ \E f \in Frames : \E r : Mapping(x, v, f, r) /\ r.ok /\ PageAdded(x, v, y, r)
  <1>1. PICK f : f = FirstFree(x.u)
    OBVIOUS
  <1>2. PICK w : w = x.u \cup {f}
    OBVIOUS
  <1>3. PICK r : r = MapPage(w, x.d, v, f)
    OBVIOUS
  <1>4. y = IF f = 0 THEN [x EXCEPT !.ok = FALSE]
            ELSE [ok |-> r.ok, u |-> r.u, d |-> r.d, done |-> IF r.ok THEN x.done \cup {v} ELSE x.done,
                  rest |-> IF r.ok THEN {} ELSE {f},
                  over |-> x.over \cup (IF r.ok THEN {x.d.pte[v]} \ {0} ELSE {})]
    BY <1>1, <1>2, <1>3, Zenon DEF AddPage
  <1>5. CASE f = 0
    <2>1. y = [x EXCEPT !.ok = FALSE]
      BY <1>4, <1>5
    <2>2. NoFrame(x, y)
      BY <2>1 DEF NoFrame, Adding
    <2> QED
      BY <2>2
  <1>6. CASE f # 0
    <2>1. f \in Frames /\ f \notin x.u
      BY <1>1, <1>6, FirstFreeFacts
    <2>2. Mapping(x, v, f, r)
      BY <1>2, <1>3, <2>1 DEF Mapping
    <2>3. w \in SUBSET Frames /\ f \in Values /\ x.d \in Space
      BY <1>2, <2>1, FrameFacts DEF Adding
    <2>4. r.ok \in BOOLEAN /\ (~ r.ok => r.u = w /\ r.d = x.d)
      <3>1. PICK e \in Space : e = x.d
        BY <2>3
      <3>2. MapOutcome(w, e, v, f, MapPage(w, e, v, f))
        BY <2>3, MapPageFacts
      <3> QED
        BY <1>3, <3>1, <3>2 DEF MapOutcome
    <2>5. CASE r.ok
      <3>1. PICK o : o = x.over \cup ({x.d.pte[v]} \ {0})
        OBVIOUS
      <3>2. PICK e : e = x.done \cup {v}
        OBVIOUS
      <3>3. r.ok = TRUE
        BY <2>4, <2>5
      <3>4. y = [ok |-> TRUE, u |-> r.u, d |-> r.d, done |-> e, rest |-> {}, over |-> o]
        BY <1>4, <1>6, <3>1, <3>2, <3>3
      <3>5. PageAdded(x, v, y, r)
        BY <3>1, <3>2, <3>4 DEF PageAdded
      <3> QED
        BY <2>1, <2>2, <2>5, <3>5
    <2>6. CASE ~ r.ok
      <3>1. x.over \cup {} = x.over
        OBVIOUS
      <3>2. y = [ok |-> FALSE, u |-> w, d |-> x.d, done |-> x.done, rest |-> {f}, over |-> x.over]
        BY <1>4, <1>6, <2>4, <2>6, <3>1
      <3>3. NoTable(x, y, f)
        BY <1>2, <3>2 DEF NoTable
      <3> QED
        BY <2>1, <2>2, <2>6, <3>3
    <2> QED
      BY <2>5, <2>6
  <1> QED
    BY <1>5, <1>6

(* A round gives a state of the loop. *)
LEMMA AddPageType ==
    ASSUME NEW x \in Adding, NEW v \in Pages
    PROVE  AddPage(x, v) \in Adding
  <1>1. PICK f : f = FirstFree(x.u)
    OBVIOUS
  <1>2. PICK e \in Space : e = x.d
    BY DEF Adding
  <1>3. /\ x.ok \in BOOLEAN /\ x.u \in SUBSET Frames /\ x.done \in SUBSET Pages
        /\ x.rest \in SUBSET Frames /\ x.over \in SUBSET Frames
    BY DEF Adding
  <1>4. PICK w : w = x.u \cup {f}
    OBVIOUS
  <1>5. PICK r : r = MapPage(w, e, v, f)
    OBVIOUS
  <1>6. PICK dn : dn = IF r.ok THEN x.done \cup {v} ELSE x.done
    OBVIOUS
  <1>7. PICK rs : rs = IF r.ok THEN {} ELSE {f}
    OBVIOUS
  <1>8. PICK ov : ov = x.over \cup (IF r.ok THEN {x.d.pte[v]} \ {0} ELSE {})
    OBVIOUS
  <1>9. AddPage(x, v) = IF ~ x.ok THEN x ELSE IF f = 0 THEN [x EXCEPT !.ok = FALSE]
          ELSE [ok |-> r.ok, u |-> r.u, d |-> r.d, done |-> dn, rest |-> rs, over |-> ov]
    BY <1>1, <1>2, <1>4, <1>5, <1>6, <1>7, <1>8, Zenon DEF AddPage
  <1>10. [x EXCEPT !.ok = FALSE] \in Adding
    BY DEF Adding
  <1>11. ASSUME f # 0 PROVE [ok |-> r.ok, u |-> r.u, d |-> r.d, done |-> dn, rest |-> rs, over |-> ov] \in Adding
    <2>1. f \in Frames
      BY <1>1, <1>11, FirstFreeFacts
    <2>2. w \in SUBSET Frames /\ f \in Values
      BY <1>3, <1>4, <2>1, FrameFacts
    <2>3. MapOutcome(w, e, v, f, r)
      BY <1>5, <2>2, MapPageFacts
    <2>4. r.ok \in BOOLEAN /\ r.u \in SUBSET Frames /\ r.d \in Space
      BY <2>3 DEF MapOutcome
    <2>5. dn \in SUBSET Pages
      BY <1>3, <1>6
    <2>6. rs \in SUBSET Frames
      BY <1>7, <2>1
    <2>7. ov \in SUBSET Frames
      <3>1. x.d.pte[v] \in Values
        BY <1>2 DEF Space
      <3>2. {x.d.pte[v]} \ {0} \subseteq Frames
        BY <3>1, FrameFacts
      <3> QED
        BY <1>3, <1>8, <3>2
    <2> QED
      BY <2>4, <2>5, <2>6, <2>7 DEF Adding
  <1> QED
    BY <1>9, <1>10, <1>11

(* What the loop has done to the space d when it comes to page i of vs. *)
AddShape(d, vs, x, i) ==
    /\ x \in Adding
    /\ x.d.dir = d.dir
    /\ x.done \subseteq vs
    /\ \A w \in Pages : (w \notin vs \/ i <= w) => x.d.pte[w] = d.pte[w]
    /\ \A g \in x.over : \E w \in Pages : w \in vs /\ d.pte[w] = g /\ g # 0
    /\ x.ok => x.rest = {} /\ \A w \in Pages : w \in vs /\ w < i => x.d.pte[w] # 0

(* A round keeps that. *)
LEMMA AddPageShape ==
    ASSUME NEW d, NEW vs, NEW x, NEW v \in Pages, AddShape(d, vs, x, v), v \in vs
    PROVE  AddShape(d, vs, AddPage(x, v), v + 1)
  <1>1. PICK y : y = AddPage(x, v)
    OBVIOUS
  <1>2. x \in Adding /\ x.d.dir = d.dir /\ x.done \subseteq vs
    BY DEF AddShape
  <1>3. \A w \in Pages : (w \notin vs \/ v <= w) => x.d.pte[w] = d.pte[w]
    BY DEF AddShape
  <1>4. \A g \in x.over : \E w \in Pages : w \in vs /\ d.pte[w] = g /\ g # 0
    BY DEF AddShape
  <1>5. y \in Adding
    BY <1>1, <1>2, AddPageType
  <1>6. Pages \subseteq Int
    BY DEF Pages
  <1>7. \A w \in Pages : v + 1 <= w => v <= w
    BY <1>6
  <1>8. ASSUME ~ y.ok, y.d = x.d, y.done = x.done, y.over = x.over PROVE AddShape(d, vs, y, v + 1)
    BY <1>2, <1>3, <1>4, <1>5, <1>7, <1>8 DEF AddShape
  <1>9. CASE ~ x.ok
    <2>1. y = x
      BY <1>1, <1>9 DEF AddPage
    <2> QED
      BY <1>1, <1>8, <1>9, <2>1
  <1>10. CASE x.ok
    <2>1. CASE NoFrame(x, y)
      BY <1>1, <1>8, <2>1 DEF NoFrame
    <2>2. CASE \E f \in Frames : \E r : Mapping(x, v, f, r) /\ ~ r.ok /\ NoTable(x, y, f)
      BY <1>1, <1>8, <2>2 DEF NoTable
    <2>3. ASSUME NEW f \in Frames, NEW r, Mapping(x, v, f, r), r.ok, PageAdded(x, v, y, r)
          PROVE  AddShape(d, vs, y, v + 1)
      <3>1. PICK e \in Space : e = x.d
        BY <1>2 DEF Adding
      <3>2. PICK w : w = x.u \cup {f}
        OBVIOUS
      <3>3. w \in SUBSET Frames /\ f \in Values /\ r = MapPage(w, e, v, f)
        BY <1>2, <2>3, <3>1, <3>2, FrameFacts DEF Adding, Mapping
      <3>4. MapOutcome(w, e, v, f, r)
        BY <3>3, MapPageFacts
      <3>5. r.d.dir = e.dir /\ r.d.pte[v] = f /\ \A z \in Pages : z = v \/ r.d.pte[z] = e.pte[z]
        BY <2>3, <3>4 DEF MapOutcome
      <3>6. y.d = r.d /\ y.done = x.done \cup {v} /\ y.rest = {} /\ y.over = x.over \cup ({e.pte[v]} \ {0})
        BY <2>3, <3>1 DEF PageAdded
      <3>7. y.d.dir = d.dir /\ y.done \subseteq vs
        BY <1>2, <3>1, <3>5, <3>6
      <3>8. \A z \in Pages : z = v \/ y.d.pte[z] = x.d.pte[z]
        BY <3>1, <3>5, <3>6, Zenon
      <3>9. \A z \in Pages : (z \notin vs \/ v + 1 <= z) => y.d.pte[z] = d.pte[z]
        <4>1. \A z \in Pages : v + 1 <= z => v <= z /\ z # v
          BY <1>6
        <4> QED
          BY <1>3, <3>8, <4>1
      <3>10. \A g \in y.over : \E z \in Pages : z \in vs /\ d.pte[z] = g /\ g # 0
        <4>1. v <= v
          BY <1>6
        <4>2. e.pte[v] = d.pte[v]
          BY <1>3, <3>1, <4>1
        <4> QED
          BY <1>4, <3>6, <4>2
      <3>11. f # 0
        BY FrameFacts
      <3>12. \A z \in Pages : z \in vs /\ z < v + 1 => y.d.pte[z] # 0
        <4>1. \A z \in Pages : z < v + 1 => z = v \/ z < v
          BY <1>6
        <4>2. \A z \in Pages : z \in vs /\ z < v => x.d.pte[z] # 0
          BY <1>10 DEF AddShape
        <4>3. y.d.pte[v] # 0
          BY <3>5, <3>6, <3>11
        <4> QED
          BY <3>8, <4>1, <4>2, <4>3, Zenon
      <3> QED
        BY <1>5, <3>6, <3>7, <3>9, <3>10, <3>12, Zenon DEF AddShape
    <2> QED
      BY <1>1, <1>2, <1>10, <2>1, <2>2, <2>3, AddPageSteps
  <1> QED
    BY <1>1, <1>9, <1>10

(* A round lets the space grow. *)
LEMMA AddPageGrown ==
    ASSUME NEW x \in Adding, NEW v \in Pages, x.ok => x.rest = {},
           NEW u0, NEW d0, NEW R, NEW V, NEW S,
           Grown(u0, d0, x.u, x.d, R \cup x.rest, V \cup x.over, S),
           NEW y, y = AddPage(x, v)
    PROVE  Grown(u0, d0, y.u, y.d, R \cup y.rest, V \cup y.over, S)
  <1>1. CASE ~ x.ok
    BY <1>1 DEF AddPage
  <1>2. CASE x.ok
    <2>0. PICK Q : Q = V \cup x.over
      OBVIOUS
    <2>1. R \cup x.rest = R
      BY <1>2
    <2>2. Grown(u0, d0, x.u, x.d, R, Q, S)
      BY <2>0, <2>1
    <2>3. CASE NoFrame(x, y)
      BY <2>3 DEF NoFrame
    <2>4. ASSUME NEW f \in Frames, NEW r, Mapping(x, v, f, r), ~ r.ok, NoTable(x, y, f)
          PROVE  Grown(u0, d0, y.u, y.d, R \cup y.rest, V \cup y.over, S)
      <3>1. Grown(u0, d0, x.u \cup {f}, x.d, R \cup {f}, Q, S)
        BY <2>2, <2>4, GrownTake DEF Mapping
      <3> QED
        BY <2>0, <2>4, <3>1 DEF NoTable
    <2>5. ASSUME NEW f \in Frames, NEW r, Mapping(x, v, f, r), r.ok, PageAdded(x, v, y, r)
          PROVE  Grown(u0, d0, y.u, y.d, R \cup y.rest, V \cup y.over, S)
      <3>1. PICK e \in Space : e = x.d
        BY DEF Adding
      <3>2. PICK w : w = x.u \cup {f}
        OBVIOUS
      <3>3. PICK P : P = R \cup {f}
        OBVIOUS
      <3>4. r = MapPage(w, e, v, f)
        BY <2>5, <3>1, <3>2 DEF Mapping
      <3>5. Grown(u0, d0, w, e, P, Q, S)
        BY <2>2, <2>5, <3>1, <3>2, <3>3, GrownTake DEF Mapping
      <3>6. f \in P
        BY <3>3
      <3>7. Grown(u0, d0, r.u, r.d, P \ {f}, Q \cup ({e.pte[v]} \ {0}), S)
        BY <2>5, <3>4, <3>5, <3>6, MapPageGrown
      <3>8. f \notin R
        BY <2>2, <2>5 DEF Grown, Mapping
      <3>9. P \ {f} = R
        BY <3>3, <3>8
      <3>10. y.u = r.u /\ y.d = r.d /\ y.rest = {} /\ y.over = x.over \cup ({e.pte[v]} \ {0})
        BY <2>5, <3>1 DEF PageAdded
      <3>11. R \cup y.rest = R /\ V \cup y.over = Q \cup ({e.pte[v]} \ {0})
        BY <2>0, <3>10
      <3> QED
        BY <3>7, <3>9, <3>10, <3>11, Zenon
    <2> QED
      BY <1>2, <2>3, <2>4, <2>5, AddPageSteps
  <1> QED
    BY <1>1, <1>2

AddStart(u, d) == [ok |-> TRUE, u |-> u, d |-> d, done |-> {}, rest |-> {}, over |-> {}]
AddRound(x, vs, i) == IF i - 1 \in vs THEN AddPage(x, i - 1) ELSE x
(* f has the state after each round: the recursion of AddPages. *)
IsAdding(f, u, d, vs) ==
    f = [i \in 0 .. StackTop |-> IF i = 0 THEN AddStart(u, d) ELSE AddRound(f[i - 1], vs, i)]

(* AddPages is the last value of a function that satisfies it. *)
LEMMA AddPagesIsLoop ==
    ASSUME NEW u, NEW d, NEW vs
    PROVE  AddPages(u, d, vs) = (CHOOSE f : IsAdding(f, u, d, vs))[StackTop]
  BY DEF AddPages, IsAdding, AddStart, AddRound

(* The loop starts in a state of the loop. *)
LEMMA AddStartType ==
    ASSUME NEW u \in SUBSET Frames, NEW d \in Space
    PROVE  AddStart(u, d) \in Adding
  BY DEF AddStart, Adding

(* There is such a function, so the CHOOSE of the recursion has one. *)
LEMMA AddingExists ==
    ASSUME NEW u \in SUBSET Frames, NEW d \in Space, NEW vs
    PROVE  \E f : IsAdding(f, u, d, vs)
  <1> DEFINE n == StackTop
             D == [x \in Adding \X (1 .. n) |-> AddRound(x[1], vs, x[2])]
  <1>1. n \in Nat
    BY RegionFacts
  <1>2. \A i \in 1 .. n : i - 1 \in Pages
    BY <1>1 DEF Pages
  <1>3. \A x \in Adding, i \in 1 .. n : AddRound(x, vs, i) \in Adding
    <2> HIDE DEF n
    <2> QED
      BY <1>2, AddPageType DEF AddRound
  <1>4. D \in [Adding \X (1 .. n) -> Adding]
    <2> HIDE DEF n
    <2> QED
      BY <1>3
  <1>5. PICK c \in Adding : c = AddStart(u, d)
    BY AddStartType
  <1>6. PICK f : Loop(f, Adding, n, c, D)
    <2> HIDE DEF D, n
    <2> QED
      BY <1>1, <1>4, LoopExists
  <1>7. f \in [0 .. n -> Adding] /\ f[0] = c /\ \A i \in 1 .. n : f[i] = D[<<f[i - 1], i>>]
    <2> HIDE DEF D, n
    <2> QED
      BY <1>6 DEF Loop
  <1>8. ASSUME NEW i \in 1 .. n PROVE f[i] = AddRound(f[i - 1], vs, i)
    <2>1. i - 1 \in 0 .. n
      BY <1>1
    <2>2. f[i - 1] \in Adding
      <3> HIDE DEF D, n
      <3> QED
        BY <1>7, <2>1
    <2>3. <<f[i - 1], i>> \in Adding \X (1 .. n)
      <3> HIDE DEF n
      <3> QED
        BY <2>2
    <2>4. f[i] = D[<<f[i - 1], i>>]
      <3> HIDE DEF D, n
      <3> QED
        BY <1>7
    <2> HIDE DEF n
    <2> QED
      BY <2>3, <2>4
  <1>9. IsAdding(f, u, d, vs)
    <2> HIDE DEF D
    <2>1. DOMAIN f = 0 .. n /\ f = [i \in 0 .. n |-> f[i]]
      BY <1>7
    <2>2. \A i \in 0 .. n : i # 0 => i \in 1 .. n
      BY <1>1
    <2>3. f = [i \in 0 .. n |-> IF i = 0 THEN c ELSE AddRound(f[i - 1], vs, i)]
      <3> HIDE DEF n
      <3> QED
        BY <1>7, <1>8, <2>1, <2>2
    <2> QED
      BY <1>5, <2>3 DEF IsAdding
  <1> QED
    BY <1>9

(* What the loop computes. *)
LEMMA AddPagesShape ==
    ASSUME NEW u \in SUBSET Frames, NEW d \in Space, NEW vs
    PROVE  /\ AddShape(d, vs, AddPages(u, d, vs), StackTop)
           /\ \A u0, d0, R, V, S : Grown(u0, d0, u, d, R, V, S) =>
                 Grown(u0, d0, AddPages(u, d, vs).u, AddPages(u, d, vs).d,
                       R \cup AddPages(u, d, vs).rest, V \cup AddPages(u, d, vs).over, S)
  <1>1. PICK f : IsAdding(f, u, d, vs) /\ AddPages(u, d, vs) = f[StackTop]
    BY AddPagesIsLoop, AddingExists
  <1>2. PICK n \in Nat : n = StackTop
    BY RegionFacts
  <1>3. f[0] = AddStart(u, d) /\ \A i \in 1 .. n : f[i] = AddRound(f[i - 1], vs, i)
    BY <1>1, <1>2 DEF IsAdding
  <1>4. Pages = 0 .. n - 1
    BY <1>2 DEF Pages
  <1> DEFINE G(x) == \A u0, d0, R, V, S : Grown(u0, d0, u, d, R, V, S) =>
                        Grown(u0, d0, x.u, x.d, R \cup x.rest, V \cup x.over, S)
             T == {i \in Nat : i <= n => AddShape(d, vs, f[i], i) /\ G(f[i])}
  <1>5. 0 \in T
    <2>1. PICK x : x = AddStart(u, d)
      OBVIOUS
    <2>2. x \in Adding
      BY <2>1, AddStartType
    <2>3. x.ok = TRUE /\ x.u = u /\ x.d = d /\ x.done = {} /\ x.rest = {} /\ x.over = {}
      BY <2>1 DEF AddStart
    <2>4. \A w \in Pages : ~ (w < 0)
      BY <1>4
    <2>5. AddShape(d, vs, x, 0)
      BY <2>2, <2>3, <2>4 DEF AddShape
    <2>6. \A R : R \cup x.rest = R
      BY <2>3
    <2>7. \A V : V \cup x.over = V
      BY <2>3
    <2>8. G(x)
      BY <2>3, <2>6, <2>7, Zenon
    <2>9. f[0] = x
      BY <1>3, <2>1
    <2> HIDE DEF G
    <2> QED
      BY <2>5, <2>8, <2>9
  <1>6. ASSUME NEW i \in T PROVE i + 1 \in T
    <2>1. SUFFICES ASSUME i + 1 <= n PROVE AddShape(d, vs, f[i + 1], i + 1) /\ G(f[i + 1])
      OBVIOUS
    <2>2. i \in Nat /\ i + 1 \in 1 .. n /\ i + 1 - 1 = i /\ i \in Pages
      BY <1>4, <2>1
    <2>3. AddShape(d, vs, f[i], i) /\ G(f[i])
      <3> HIDE DEF G
      <3> QED
        BY <2>1, <2>2
    <2>4. PICK x : x = f[i]
      OBVIOUS
    <2>5. AddShape(d, vs, x, i) /\ G(x)
      BY <2>3, <2>4
    <2>6. f[i + 1] = AddRound(x, vs, i + 1)
      BY <1>3, <2>2, <2>4
    <2> HIDE DEF T
    <2>7. CASE i \in vs
      <3>1. PICK y : y = AddPage(x, i)
        OBVIOUS
      <3>2. f[i + 1] = y
        BY <2>2, <2>6, <2>7, <3>1 DEF AddRound
      <3>3. AddShape(d, vs, y, i + 1)
        BY <2>2, <2>5, <2>7, <3>1, AddPageShape
      <3>4. x \in Adding /\ (x.ok => x.rest = {})
        BY <2>5 DEF AddShape
      <3>5. ASSUME NEW u0, NEW d0, NEW R, NEW V, NEW S, Grown(u0, d0, u, d, R, V, S)
            PROVE  Grown(u0, d0, y.u, y.d, R \cup y.rest, V \cup y.over, S)
        <4>1. Grown(u0, d0, x.u, x.d, R \cup x.rest, V \cup x.over, S)
          BY <2>5, <3>5
        <4> QED
          BY <2>2, <3>1, <3>4, <4>1, AddPageGrown
      <3>6. G(y)
        BY <3>5
      <3> HIDE DEF G
      <3> QED
        BY <3>2, <3>3, <3>6
    <2>8. CASE i \notin vs
      <3>1. f[i + 1] = x
        BY <2>2, <2>6, <2>8 DEF AddRound
      <3>2. \A w \in Pages : (i + 1 <= w => i <= w) /\ (w < i + 1 => w = i \/ w < i)
        BY <1>4, <2>2
      <3>3. AddShape(d, vs, x, i + 1)
        BY <2>5, <2>8, <3>2 DEF AddShape
      <3> HIDE DEF G
      <3> QED
        BY <2>5, <3>1, <3>3
    <2> QED
      BY <2>7, <2>8
  <1>7. T \in SUBSET Nat
    OBVIOUS
  <1>8. T = Nat
    <2> HIDE DEF T
    <2> QED
      BY <1>5, <1>6, <1>7, CountUp
  <1>9. n <= n
    OBVIOUS
  <1>10. AddShape(d, vs, f[n], n) /\ G(f[n])
    <2> HIDE DEF G
    <2> QED
      BY <1>8, <1>9
  <1>11. f[n] = AddPages(u, d, vs)
    BY <1>1, <1>2
  <1>12. G(AddPages(u, d, vs)) /\ AddShape(d, vs, AddPages(u, d, vs), StackTop)
    <2> HIDE DEF G
    <2> QED
      BY <1>2, <1>10, <1>11
  <1> QED
    BY <1>12

(***************************************************************************)
(* New spaces.                                                             *)
(***************************************************************************)

(* Segments do not matter to a space that attaches none. *)
LEMMA GrownAnyS ==
    ASSUME NEW u0, NEW d0, NEW u, NEW d, NEW R, NEW V, Grown(u0, d0, u, d, R, V, {}),
           NEW S, S \subseteq u0
    PROVE  Grown(u0, d0, u, d, R, V, S)
  BY DEF Grown

(* Held has the frames of all places. *)
LEMMA HeldIsAt ==
    ASSUME NEW d \in Space
    PROVE  \A f : f \in Held(d) <=> (f # 0 /\ \E o \in Places : At(d, o) = f)
  <1>1. d.pt \in [Tables -> Values] /\ d.pte \in [Pages -> Values]
    BY DEF Space
  <1>2. \A f : f \in Range(d.pt) <=> \E k \in Tables : d.pt[k] = f
    BY <1>1 DEF Range
  <1>3. \A f : f \in Range(d.pte) <=> \E v \in Pages : d.pte[v] = f
    BY <1>1 DEF Range
  <1>4. SUFFICES ASSUME NEW f, f # 0 PROVE f \in Held(d) <=> \E o \in Places : At(d, o) = f
    BY DEF Held
  <1>5. f \in Held(d) <=> f = d.dir \/ f \in Range(d.pt) \/ f \in Range(d.pte)
    BY <1>4 DEF Held
  <1>6. ASSUME f \in Held(d) PROVE \E o \in Places : At(d, o) = f
    <2>1. CASE f = d.dir
      BY <2>1, PlaceKinds, AtKinds
    <2>2. CASE f \in Range(d.pt)
      <3>1. PICK k \in Tables : d.pt[k] = f
        BY <1>2, <2>2
      <3>2. <<"pt", k>> \in Places /\ At(d, <<"pt", k>>) = f
        BY <3>1, PlaceKinds, AtKinds
      <3> QED
        BY <3>2
    <2>3. CASE f \in Range(d.pte)
      <3>1. PICK k \in Pages : d.pte[k] = f
        BY <1>3, <2>3
      <3>2. <<"pte", k>> \in Places /\ At(d, <<"pte", k>>) = f
        BY <3>1, PlaceKinds, AtKinds
      <3> QED
        BY <3>2
    <2> QED
      BY <1>5, <1>6, <2>1, <2>2, <2>3
  <1>7. ASSUME NEW o \in Places, At(d, o) = f PROVE f \in Held(d)
    <2>1. CASE o = <<"dir", 0>>
      BY <1>5, <1>7, <2>1, AtKinds
    <2>2. ASSUME NEW k \in Tables, o = <<"pt", k>> PROVE f \in Held(d)
      <3>1. d.pt[k] = f
        BY <1>7, <2>2, AtKinds
      <3> QED
        BY <1>2, <1>5, <3>1
    <2>3. ASSUME NEW k \in Pages, o = <<"pte", k>> PROVE f \in Held(d)
      <3>1. d.pte[k] = f
        BY <1>7, <2>3, AtKinds
      <3> QED
        BY <1>3, <1>5, <3>1
    <2> QED
      BY <2>1, <2>2, <2>3, PlaceKinds
  <1> QED
    BY <1>6, <1>7

(* vmm_destroy_directory frees the frames of all places. *)
LEMMA DestroyedIsAt ==
    ASSUME NEW u, u \subseteq Frames, NEW d \in Space
    PROVE  Destroyed(u, d) = u \ {At(d, o) : o \in Places}
  <1>1. 0 \notin u
    BY FrameFacts
  <1>2. \A f : f \in Destroyed(u, d) <=> f \in u /\ f \notin Held(d)
    BY DEF Destroyed
  <1>3. \A f : f \in u \ {At(d, o) : o \in Places} <=> f \in u /\ ~ (\E o \in Places : At(d, o) = f)
    OBVIOUS
  <1>4. \A f : f \in Destroyed(u, d) <=> f \in u \ {At(d, o) : o \in Places}
    BY <1>1, <1>2, <1>3, HeldIsAt
  <1>5. PICK X : X = Destroyed(u, d)
    OBVIOUS
  <1>6. PICK Y : Y = u \ {At(d, o) : o \in Places}
    OBVIOUS
  <1>7. \A f : f \in X <=> f \in Y
    BY <1>4, <1>5, <1>6
  <1> QED
    BY <1>5, <1>6, <1>7

(* Destroying a space that was being built gives back what it took, but    *)
(* for what was mapped over and the frames without a place not in G.       *)
LEMMA GrownDestroyed ==
    ASSUME NEW u0, NEW u, NEW d \in Space, NEW R, NEW V, Grown(u0, NoSpace, u, d, R, V, {}),
           NEW G, G \subseteq u \ u0, NEW w, w = Destroyed(u, d) \ G
    PROVE  u0 \subseteq w /\ w \subseteq Frames /\ w \ u0 \subseteq V \cup (R \ G)
  <1>1. u0 \subseteq u /\ u \subseteq Frames
    BY DEF Grown
  <1>2. \A o \in Places : At(d, o) = 0 \/ At(d, o) \in u \ u0
    BY NoSpaceFacts DEF Grown
  <1>3. \A f \in u \ u0 : f \in R \/ f \in V \/ \E o \in Places : At(d, o) = f
    BY DEF Grown
  <1>4. \A f : f \in w <=> (f \in u /\ f \notin G /\ ~ \E o \in Places : At(d, o) = f)
    BY <1>1, DestroyedIsAt
  <1>5. \A f \in u0 : f # 0
    BY <1>1, FrameFacts
  <1> QED
    BY <1>1, <1>2, <1>3, <1>4, <1>5

(* vmm_create_directory. *)
DirectoryMade(u, c) ==
    /\ c.ok \in BOOLEAN /\ c.u \subseteq Frames /\ c.d \in Space
    /\ c.ok <=> c.d.dir # 0
    /\ \A v \in Pages : c.d.pte[v] = 0
    /\ Grown(u, NoSpace, c.u, c.d, {}, {}, {})
(* It takes a frame for the directory or nothing. *)
LEMMA CreateDirectoryFacts ==
    ASSUME NEW u \in SUBSET Frames
    PROVE  DirectoryMade(u, CreateDirectory(u))
  <1>1. PICK f : f = FirstFree(u)
    OBVIOUS
  <1>2. PICK w : w = u \cup ({f} \ {0})
    OBVIOUS
  <1>3. PICK e : e = [NoSpace EXCEPT !.dir = f]
    OBVIOUS
  <1>4. CreateDirectory(u) = [ok |-> f # 0, u |-> w, d |-> e]
    BY <1>1, <1>2, <1>3 DEF CreateDirectory
  <1>5. f \in Values /\ (f # 0 => f \in Frames /\ f \notin u)
    BY <1>1, FirstFreeFacts
  <1>6. PICK z : z = NoSpace
    OBVIOUS
  <1>7. e \in Space /\ Put(z, e, <<"dir", 0>>, f) /\ e.dir = f /\ \A v \in Pages : e.pte[v] = 0
    <2>1. e \in Space /\ Put(NoSpace, e, <<"dir", 0>>, f)
      BY <1>3, <1>5, PutDirectory
    <2>2. e.dir = f /\ \A v \in Pages : e.pte[v] = 0
      BY <1>3, <1>5, PutDirectory, ZenonT(60)
    <2> QED
      BY <1>6, <2>1, <2>2
  <1>8. PICK o \in Places : o = <<"dir", 0>> /\ At(z, o) = 0
    BY <1>6, NoSpaceFacts, PlaceKinds
  <1>9. Grown(u, z, u, z, {}, {}, {})
    BY <1>6, NoSpaceFacts, GrownStart
  <1>10. Grown(u, z, w, e, {}, {}, {})
    <2>1. CASE f = 0
      <3>1. w = u
        BY <1>2, <2>1
      <3>2. e = z
        BY <1>3, <1>6, <2>1 DEF NoSpace
      <3> QED
        BY <1>9, <3>1, <3>2
    <2>2. CASE f # 0
      <3>1. w = u \cup {f}
        BY <1>2, <2>2
      <3>2. Grown(u, z, w, z, {} \cup {f}, {}, {})
        BY <1>5, <1>9, <2>2, <3>1, GrownTake
      <3>3. PICK Q : Q = {} \cup {f}
        OBVIOUS
      <3>4. Grown(u, z, w, z, Q, {}, {}) /\ f \in Q
        BY <3>2, <3>3
      <3>5. Put(z, e, o, f)
        BY <1>7, <1>8
      <3>6. Grown(u, z, w, e, Q \ {f}, {} \cup ({At(z, o)} \ {0}), {})
        BY <3>4, <3>5, GrownPut
      <3>7. Q \ {f} = {} /\ {} \cup ({At(z, o)} \ {0}) = {}
        BY <1>8, <3>3
      <3> QED
        BY <3>6, <3>7
    <2> QED
      BY <2>1, <2>2
  <1>11. w \subseteq Frames
    BY <1>2, <1>5
  <1>12. PICK c : c = CreateDirectory(u)
    OBVIOUS
  <1>13. c.u = w /\ c.d = e
    BY <1>4, <1>12
  <1>14. c.ok = (f # 0)
    BY <1>4, <1>12
  <1>15. c.ok \in BOOLEAN /\ (c.ok <=> c.d.dir # 0)
    BY <1>7, <1>13, <1>14
  <1>16. DirectoryMade(u, c)
    BY <1>6, <1>7, <1>10, <1>11, <1>13, <1>15, Zenon DEF DirectoryMade
  <1> QED
    BY <1>12, <1>16

(* The states of process_create while it makes the stack. *)
StackState == [ok : BOOLEAN, u : SUBSET Frames, d : Space, got : SUBSET Frames, rest : SUBSET Frames]
Stacking(u, x) ==
    /\ x \in StackState
    /\ Grown(u, NoSpace, x.u, x.d, x.rest, {}, {})
    /\ x.rest \subseteq x.got /\ x.got \subseteq x.u \ u
(* A page more, where there was none. *)
StackGrows(x, v, y) ==
    y.d.dir = x.d.dir /\ (y.ok => x.ok) /\ \A w \in Pages : w = v \/ y.d.pte[w] = x.d.pte[w]

(* A stack page is there, or its frame is forgotten, or there is none. *)
LEMMA StackPageFacts ==
    ASSUME NEW u, NEW x, Stacking(u, x), NEW v \in Pages, x.d.pte[v] = 0
    PROVE  Stacking(u, StackPage(x, v)) /\ StackGrows(x, v, StackPage(x, v))
  <1>1. PICK f : f = FirstFree(x.u)
    OBVIOUS
  <1>2. x \in StackState
    BY DEF Stacking
  <1>3. PICK e \in Space : e = x.d
    BY <1>2 DEF StackState
  <1>4. PICK w : w = x.u \cup {f}
    OBVIOUS
  <1>5. PICK r : r = MapPage(w, e, v, f)
    OBVIOUS
  <1>6. PICK gt : gt = x.got \cup {f}
    OBVIOUS
  <1>7. PICK rs : rs = x.rest \cup (IF r.ok THEN {} ELSE {f})
    OBVIOUS
  <1>8. PICK y : y = StackPage(x, v)
    OBVIOUS
  <1>9. y = IF ~ x.ok \/ f = 0 THEN [x EXCEPT !.ok = FALSE]
            ELSE [ok |-> TRUE, u |-> r.u, d |-> r.d, got |-> gt, rest |-> rs]
    BY <1>1, <1>3, <1>4, <1>5, <1>6, <1>7, <1>8, Zenon DEF StackPage
  <1>10. CASE ~ x.ok \/ f = 0
    <2>1. y = [x EXCEPT !.ok = FALSE]
      BY <1>9, <1>10
    <2>2. y \in StackState
      BY <1>2, <2>1 DEF StackState
    <2>3. y.ok = FALSE /\ y.u = x.u /\ y.d = x.d /\ y.got = x.got /\ y.rest = x.rest
      BY <1>2, <2>1 DEF StackState
    <2>4. Stacking(u, y)
      BY <2>2, <2>3, Zenon DEF Stacking
    <2>5. StackGrows(x, v, y)
      BY <2>3, Zenon DEF StackGrows
    <2> QED
      BY <1>8, <2>4, <2>5
  <1>11. CASE x.ok /\ f # 0
    <2>1. y = [ok |-> TRUE, u |-> r.u, d |-> r.d, got |-> gt, rest |-> rs]
      BY <1>9, <1>11
    <2>2. y.ok = TRUE /\ y.u = r.u /\ y.d = r.d /\ y.got = gt /\ y.rest = rs
      BY <2>1
    <2>3. f \in Frames /\ f \notin x.u
      BY <1>1, <1>11, FirstFreeFacts
    <2>4. w \in SUBSET Frames /\ f \in Values
      BY <1>2, <1>4, <2>3, FrameFacts DEF StackState
    <2>5. MapOutcome(w, e, v, f, r)
      BY <1>5, <2>4, MapPageFacts
    <2>6. r.ok \in BOOLEAN /\ r.u \subseteq Frames /\ r.d \in Space /\ w \subseteq r.u
      BY <2>5 DEF MapOutcome
    <2>7. gt \subseteq Frames /\ rs \subseteq Frames
      BY <1>2, <1>6, <1>7, <2>3 DEF StackState
    <2>8. y \in StackState
      BY <2>1, <2>6, <2>7 DEF StackState
    <2>9. u \subseteq x.u /\ x.rest \subseteq x.u /\ x.rest \subseteq x.got /\ x.got \subseteq x.u \ u
      BY DEF Stacking, Grown
    <2>10. rs \subseteq gt
      BY <1>6, <1>7, <2>9
    <2>11. gt \subseteq r.u \ u
      BY <1>4, <1>6, <2>3, <2>6, <2>9
    <2>12. PICK P : P = x.rest \cup {f}
      OBVIOUS
    <2>13. Grown(u, NoSpace, w, e, P, {}, {})
      <3>1. PICK Q : Q = x.rest
        OBVIOUS
      <3>2. PICK a : a = x.u
        OBVIOUS
      <3>3. Grown(u, NoSpace, a, e, Q, {}, {})
        BY <1>3, <3>1, <3>2 DEF Stacking
      <3>4. Grown(u, NoSpace, a \cup {f}, e, Q \cup {f}, {}, {})
        BY <2>3, <3>2, <3>3, GrownTake
      <3> QED
        BY <1>4, <2>12, <3>1, <3>2, <3>4
    <2>14. Grown(u, NoSpace, r.u, r.d, rs, {}, {})
      <3>1. CASE r.ok
        <4>1. f \in P
          BY <2>12
        <4>2. Grown(u, NoSpace, r.u, r.d, P \ {f}, {} \cup ({e.pte[v]} \ {0}), {})
          BY <1>5, <2>3, <2>13, <3>1, <4>1, MapPageGrown
        <4>3. {} \cup ({e.pte[v]} \ {0}) = {}
          BY <1>3
        <4>4. P \ {f} = rs
          BY <1>7, <2>3, <2>9, <2>12, <3>1
        <4> QED
          BY <4>2, <4>3, <4>4
      <3>2. CASE ~ r.ok
        <4>1. r.u = w /\ r.d = e
          BY <2>5, <3>2 DEF MapOutcome
        <4>2. rs = P
          BY <1>7, <2>12, <3>2
        <4> QED
          BY <2>13, <4>1, <4>2
      <3> QED
        BY <3>1, <3>2
    <2>15. Stacking(u, y)
      BY <2>2, <2>8, <2>10, <2>11, <2>14, Zenon DEF Stacking
    <2>16. r.d.dir = e.dir /\ \A z \in Pages : z = v \/ r.d.pte[z] = e.pte[z]
      BY <2>5 DEF MapOutcome
    <2>17. StackGrows(x, v, y)
      BY <1>3, <1>11, <2>2, <2>16, Zenon DEF StackGrows
    <2> QED
      BY <1>8, <2>15, <2>17
  <1> QED
    BY <1>10, <1>11

(* process_create: a space with a stack, or everything is given back. *)
SpaceMade(u, c) ==
    /\ c.ok \in BOOLEAN /\ c.u \subseteq Frames /\ c.d \in Space
    /\ c.ok => /\ c.d.dir # 0 /\ Grown(u, NoSpace, c.u, c.d, c.rest, {}, {})
               /\ \A v \in Pages : v = StackTop - 1 \/ v = StackTop - 2 \/ c.d.pte[v] = 0
    /\ ~ c.ok => c.u = u /\ c.rest = {}
(* So it does. *)
LEMMA CreateSpaceFacts ==
    ASSUME NEW u \in SUBSET Frames
    PROVE  SpaceMade(u, CreateSpace(u))
  <1>1. PICK c : c = CreateDirectory(u)
    OBVIOUS
  <1>2. DirectoryMade(u, c)
    BY <1>1, CreateDirectoryFacts
  <1>3. PICK a : a = [ok |-> c.ok, u |-> c.u, d |-> c.d, got |-> {}, rest |-> {}]
    OBVIOUS
  <1>4. PICK x : x = StackPage(a, StackTop - 1)
    OBVIOUS
  <1>5. PICK y : y = StackPage(x, StackTop - 2)
    OBVIOUS
  <1>6. PICK w : w = Destroyed(y.u, y.d) \ y.got
    OBVIOUS
  <1>7. CreateSpace(u) = IF y.ok THEN [ok |-> TRUE, u |-> y.u, d |-> y.d, rest |-> y.rest]
                         ELSE [ok |-> FALSE, u |-> w, d |-> NoSpace, rest |-> {}]
    BY <1>1, <1>3, <1>4, <1>5, <1>6, Zenon DEF CreateSpace
  <1>8. StackTop - 1 \in Pages /\ StackTop - 2 \in Pages /\ StackTop - 1 # StackTop - 2
    BY RegionFacts DEF Pages
  <1>9. a.ok = c.ok /\ a.u = c.u /\ a.d = c.d /\ a.got = {} /\ a.rest = {}
    BY <1>3
  <1>10. Stacking(u, a)
    <2>1. a \in StackState
      BY <1>2, <1>3 DEF StackState, DirectoryMade
    <2>2. Grown(u, NoSpace, a.u, a.d, a.rest, {}, {})
      BY <1>2, <1>9, Zenon DEF DirectoryMade
    <2> QED
      BY <1>9, <2>1, <2>2 DEF Stacking
  <1>11. \A v \in Pages : a.d.pte[v] = 0
    BY <1>2, <1>9, Zenon DEF DirectoryMade
  <1>12. Stacking(u, x) /\ StackGrows(a, StackTop - 1, x)
    BY <1>4, <1>8, <1>10, <1>11, StackPageFacts
  <1>13. x.d.pte[StackTop - 2] = 0
    BY <1>8, <1>11, <1>12 DEF StackGrows
  <1>14. Stacking(u, y) /\ StackGrows(x, StackTop - 2, y)
    BY <1>5, <1>8, <1>12, <1>13, StackPageFacts
  <1>15. \A v \in Pages : v = StackTop - 1 \/ v = StackTop - 2 \/ y.d.pte[v] = 0
    BY <1>11, <1>12, <1>14, Zenon DEF StackGrows
  <1>16. y.d.dir = c.d.dir /\ (y.ok => c.ok)
    BY <1>9, <1>12, <1>14, Zenon DEF StackGrows
  <1>17. y.ok \in BOOLEAN /\ y.u \subseteq Frames /\ y.d \in Space
    BY <1>14 DEF Stacking, StackState
  <1>18. CASE y.ok
    <2>1. PICK m : m = [ok |-> TRUE, u |-> y.u, d |-> y.d, rest |-> y.rest]
      OBVIOUS
    <2>2. m.ok = TRUE /\ m.u = y.u /\ m.d = y.d /\ m.rest = y.rest
      BY <2>1
    <2>3. y.d.dir # 0
      BY <1>2, <1>16, <1>18 DEF DirectoryMade
    <2>4. Grown(u, NoSpace, y.u, y.d, y.rest, {}, {})
      BY <1>14 DEF Stacking
    <2>5. SpaceMade(u, m)
      BY <1>15, <1>17, <2>2, <2>3, <2>4, Zenon DEF SpaceMade
    <2> QED
      BY <1>7, <1>18, <2>1, <2>5
  <1>19. CASE ~ y.ok
    <2>1. PICK m : m = [ok |-> FALSE, u |-> w, d |-> NoSpace, rest |-> {}]
      OBVIOUS
    <2>2. m.ok = FALSE /\ m.u = w /\ m.d = NoSpace /\ m.rest = {}
      BY <2>1
    <2>3. Grown(u, NoSpace, y.u, y.d, y.rest, {}, {}) /\ y.got \subseteq y.u \ u /\ y.rest \subseteq y.got
      BY <1>14 DEF Stacking
    <2>4. u \subseteq w /\ w \subseteq Frames /\ w \ u \subseteq {} \cup (y.rest \ y.got)
      BY <1>6, <1>17, <2>3, GrownDestroyed
    <2>5. w = u
      BY <2>3, <2>4
    <2>6. SpaceMade(u, m)
      BY <2>2, <2>4, <2>5, NoSpaceFacts, Zenon DEF SpaceMade
    <2> QED
      BY <1>7, <1>19, <2>1, <2>6
  <1> QED
    BY <1>18, <1>19

(***************************************************************************)
(* The loop of Attached: the n pages from a get the n frames from b.       *)
(***************************************************************************)
AttachState == [ok : BOOLEAN, u : SUBSET Frames, d : Space, a : Nat, base : Nat]
Attachable(d, a, b, n) ==
    /\ n \in Nat /\ a \in Nat /\ b \in Nat
    /\ ShmBase <= a /\ a + n <= StackTop /\ 1 <= b /\ b + n <= FrameCount + 1
    /\ \A w \in Pages : a <= w /\ w < a + n => d.pte[w] = 0

(* What the loop has done to the space d after i rounds. *)
AttachShape(d, a, b, n, x, i) ==
    /\ x \in AttachState /\ x.a = a /\ x.base = b
    /\ x.d.dir = d.dir
    /\ \A w \in Pages : (w < a \/ a + i <= w) => x.d.pte[w] = d.pte[w]
    /\ \A w \in Pages : a <= w /\ w < a + n => x.d.pte[w] = 0 \/ x.d.pte[w] \in b .. b + n - 1

(* A round gives a state of the loop. *)
LEMMA AttachPageSteps ==
    ASSUME NEW x \in AttachState, NEW i, x.a + i - 1 \in Pages, x.base + i - 1 \in Frames
    PROVE  /\ AttachPage(x, i) \in AttachState
           /\ AttachPage(x, i).a = x.a /\ AttachPage(x, i).base = x.base
           /\ \/ AttachPage(x, i).u = x.u /\ AttachPage(x, i).d = x.d
              \/ \E r : /\ r = MapPage(x.u, x.d, x.a + i - 1, x.base + i - 1) /\ r.ok
                        /\ AttachPage(x, i).u = r.u /\ AttachPage(x, i).d = r.d
                        /\ MapOutcome(x.u, x.d, x.a + i - 1, x.base + i - 1, r)
  <1>1. PICK v \in Pages : v = x.a + i - 1
    OBVIOUS
  <1>2. PICK f \in Frames : f = x.base + i - 1
    OBVIOUS
  <1>3. PICK e \in Space : e = x.d
    BY DEF AttachState
  <1>4. PICK w \in SUBSET Frames : w = x.u
    BY DEF AttachState
  <1>5. PICK r : r = MapPage(w, e, v, f)
    OBVIOUS
  <1>6. f \in Values
    BY FrameFacts
  <1>7. MapOutcome(w, e, v, f, r)
    BY <1>5, <1>6, MapPageFacts
  <1>8. PICK y : y = AttachPage(x, i)
    OBVIOUS
  <1>9. y = IF ~ x.ok THEN x ELSE [x EXCEPT !.ok = r.ok, !.u = r.u, !.d = r.d]
    BY <1>1, <1>2, <1>3, <1>4, <1>5, <1>8, Zenon DEF AttachPage
  <1>10. r.ok \in BOOLEAN /\ r.u \subseteq Frames /\ r.d \in Space /\ (~ r.ok => r.u = w /\ r.d = e)
    BY <1>7 DEF MapOutcome
  <1>11. PICK bb \in BOOLEAN : bb = r.ok
    BY <1>10
  <1>12. PICK ru \in SUBSET Frames : ru = r.u
    BY <1>10
  <1>13. PICK rd \in Space : rd = r.d
    BY <1>10
  <1>14. CASE ~ x.ok
    <2>1. y = x
      BY <1>9, <1>14
    <2> QED
      BY <1>8, <2>1
  <1>15. CASE x.ok
    <2>1. PICK y1 : y1 = [x EXCEPT !.ok = bb]
      OBVIOUS
    <2>2. PICK y2 : y2 = [y1 EXCEPT !.u = ru]
      OBVIOUS
    <2>3. y = [y2 EXCEPT !.d = rd]
      BY <1>9, <1>11, <1>12, <1>13, <1>15, <2>1, <2>2
    <2>4. y1 \in AttachState /\ y1.a = x.a /\ y1.base = x.base
      BY <2>1 DEF AttachState
    <2>5. y2 \in AttachState /\ y2.a = x.a /\ y2.base = x.base /\ y2.u = ru
      BY <2>2, <2>4 DEF AttachState
    <2>6. y \in AttachState /\ y.a = x.a /\ y.base = x.base /\ y.u = ru /\ y.d = rd
      BY <2>3, <2>5 DEF AttachState
    <2>7. CASE r.ok
      <3>1. y.u = r.u /\ y.d = r.d
        BY <1>12, <1>13, <2>6
      <3> QED
        BY <1>1, <1>2, <1>3, <1>4, <1>5, <1>7, <1>8, <2>6, <2>7, <3>1, Zenon
    <2>8. CASE ~ r.ok
      <3>1. y.u = x.u /\ y.d = x.d
        BY <1>3, <1>4, <1>10, <1>12, <1>13, <2>6, <2>8
      <3> QED
        BY <1>8, <2>6, <3>1, Zenon
    <2> QED
      BY <2>7, <2>8
  <1> QED
    BY <1>14, <1>15

(* The round i goes to page a + i - 1. *)
LEMMA AttachPageShape ==
    ASSUME NEW d \in Space, NEW a, NEW b, NEW n, Attachable(d, a, b, n),
           NEW i \in 1 .. n, NEW x, AttachShape(d, a, b, n, x, i - 1)
    PROVE  /\ AttachShape(d, a, b, n, AttachPage(x, i), i)
           /\ \A u0, R, V, S : (Grown(u0, d, x.u, x.d, R, V, S) /\ b .. b + n - 1 \subseteq S) =>
                 Grown(u0, d, AttachPage(x, i).u, AttachPage(x, i).d, R, V, S)
  <1>1. PICK y : y = AttachPage(x, i)
    OBVIOUS
  <1>2. x \in AttachState /\ x.a = a /\ x.base = b /\ x.d.dir = d.dir
    BY DEF AttachShape
  <1>3. PICK e \in Space : e = x.d
    BY <1>2 DEF AttachState
  <1>4. PICK w \in SUBSET Frames : w = x.u
    BY <1>2 DEF AttachState
  <1>5. n \in Nat /\ a \in Nat /\ b \in Nat /\ ShmBase <= a /\ a + n <= StackTop
        /\ 1 <= b /\ b + n <= FrameCount + 1
    BY DEF Attachable
  <1>6. PICK v : v = a + i - 1
    OBVIOUS
  <1>7. PICK f : f = b + i - 1
    OBVIOUS
  <1>8. v \in Pages /\ ShmBase <= v /\ f \in Frames /\ f \in b .. b + n - 1
    BY <1>5, <1>6, <1>7, FrameAssumption, RegionFacts DEF Pages, Frames
  <1>9. \A z \in Pages : z \in Int
    BY DEF Pages
  <1>10. \A z \in Pages : /\ (z < a \/ a + i <= z) => (z < a \/ a + (i - 1) <= z) /\ z # v
                          /\ z = v => a + (i - 1) <= z /\ a <= z /\ z < a + n
    BY <1>5, <1>6, <1>9
  <1>11. \A z \in Pages : (z < a \/ a + (i - 1) <= z) => e.pte[z] = d.pte[z]
    BY <1>3 DEF AttachShape
  <1>12. \A z \in Pages : a <= z /\ z < a + n => e.pte[z] = 0 \/ e.pte[z] \in b .. b + n - 1
    BY <1>3 DEF AttachShape
  <1>13. d.pte[v] = 0 /\ e.pte[v] = 0
    BY <1>8, <1>10, <1>11 DEF Attachable
  <1>14. /\ y \in AttachState /\ y.a = a /\ y.base = b
         /\ \/ y.u = w /\ y.d = e
            \/ \E r : /\ r = MapPage(w, e, v, f) /\ r.ok /\ y.u = r.u /\ y.d = r.d
                      /\ MapOutcome(w, e, v, f, r)
    <2>1. x.a + i - 1 = v /\ x.base + i - 1 = f
      BY <1>2, <1>6, <1>7
    <2>2. x.a + i - 1 \in Pages /\ x.base + i - 1 \in Frames
      BY <1>8, <2>1
    <2> QED
      BY <1>1, <1>2, <1>3, <1>4, <2>1, <2>2, AttachPageSteps
  <1>15. CASE y.u = w /\ y.d = e
    <2>1. AttachShape(d, a, b, n, y, i)
      BY <1>2, <1>3, <1>10, <1>11, <1>12, <1>14, <1>15 DEF AttachShape
    <2> QED
      BY <1>1, <1>3, <1>4, <1>15, <2>1
  <1>16. ASSUME NEW r, r = MapPage(w, e, v, f), r.ok, y.u = r.u, y.d = r.d, MapOutcome(w, e, v, f, r)
         PROVE  /\ AttachShape(d, a, b, n, y, i)
                /\ \A u0, R, V, S : (Grown(u0, d, w, e, R, V, S) /\ b .. b + n - 1 \subseteq S) =>
                      Grown(u0, d, y.u, y.d, R, V, S)
    <2>1. r.d.dir = e.dir /\ r.d.pte[v] = f /\ \A z \in Pages : z = v \/ r.d.pte[z] = e.pte[z]
      BY <1>16 DEF MapOutcome
    <2>2. y.d.dir = d.dir
      BY <1>2, <1>3, <1>16, <2>1
    <2>3. \A z \in Pages : z = v \/ y.d.pte[z] = e.pte[z]
      BY <1>16, <2>1
    <2>4. \A z \in Pages : (z < a \/ a + i <= z) => y.d.pte[z] = d.pte[z]
      BY <1>10, <1>11, <2>3
    <2>5. y.d.pte[v] = f
      BY <1>16, <2>1
    <2>6. \A z \in Pages : a <= z /\ z < a + n => y.d.pte[z] = 0 \/ y.d.pte[z] \in b .. b + n - 1
      BY <1>8, <1>12, <2>3, <2>5
    <2>7. AttachShape(d, a, b, n, y, i)
      BY <1>14, <2>2, <2>4, <2>6 DEF AttachShape
    <2>8. ASSUME NEW u0, NEW R, NEW V, NEW S, Grown(u0, d, w, e, R, V, S), b .. b + n - 1 \subseteq S
          PROVE  Grown(u0, d, r.u, r.d, R, V, S)
      <3>1. f \in S
        BY <1>8, <2>8
      <3>2. <<"pte", v>> \in Shared
        BY <1>8, SharedPlaces
      <3>3. At(d, <<"pte", v>>) = 0
        BY <1>13, AtKinds
      <3> QED
        BY <1>8, <1>13, <1>16, <2>8, <3>1, <3>2, <3>3, MapPageGrown
    <2> QED
      BY <1>16, <2>7, <2>8
  <1> QED
    BY <1>1, <1>3, <1>4, <1>14, <1>15, <1>16

AttachStart(u, d, a, b) == [ok |-> TRUE, u |-> u, d |-> d, a |-> a, base |-> b]
(* f has the state after each round: the recursion of Attached. *)
IsAttaching(f, u, d, a, b, n) ==
    f = [i \in 0 .. n |-> IF i = 0 THEN AttachStart(u, d, a, b) ELSE AttachPage(f[i - 1], i)]

(* Attached is the last value of a function that satisfies it. *)
LEMMA AttachedIsLoop ==
    ASSUME NEW p, NEW s, NEW a
    PROVE  Attached(p, s, a) =
              (CHOOSE f : IsAttaching(f, used, space[p], a, shm[s].base, shm[s].n))[shm[s].n]
  BY DEF Attached, IsAttaching, AttachStart

(* There is such a function. *)
LEMMA AttachingExists ==
    ASSUME NEW u \in SUBSET Frames, NEW d \in Space, NEW a, NEW b, NEW n, Attachable(d, a, b, n)
    PROVE  \E f : IsAttaching(f, u, d, a, b, n)
  <1> DEFINE X == {x \in AttachState : x.a = a /\ x.base = b}
             D == [x \in X \X (1 .. n) |-> AttachPage(x[1], x[2])]
  <1>1. n \in Nat /\ a \in Nat /\ b \in Nat /\ ShmBase <= a /\ a + n <= StackTop
        /\ 1 <= b /\ b + n <= FrameCount + 1
    BY DEF Attachable
  <1>2. \A i \in 1 .. n : a + i - 1 \in Pages /\ b + i - 1 \in Frames
    BY <1>1, FrameAssumption, RegionFacts DEF Pages, Frames
  <1>3. ASSUME NEW x \in X, NEW i \in 1 .. n PROVE AttachPage(x, i) \in X
    <2>1. x \in AttachState /\ x.a = a /\ x.base = b
      OBVIOUS
    <2>2. x.a + i - 1 \in Pages /\ x.base + i - 1 \in Frames
      BY <1>2, <2>1
    <2>3. /\ AttachPage(x, i) \in AttachState
          /\ AttachPage(x, i).a = x.a /\ AttachPage(x, i).base = x.base
      BY <2>1, <2>2, AttachPageSteps
    <2> QED
      BY <2>1, <2>3
  <1>4. D \in [X \X (1 .. n) -> X]
    <2> HIDE DEF X
    <2> QED
      BY <1>3
  <1>5. PICK c \in X : c = AttachStart(u, d, a, b)
    BY <1>1 DEF AttachStart, AttachState
  <1>6. PICK f : Loop(f, X, n, c, D)
    <2> HIDE DEF D, X
    <2> QED
      BY <1>1, <1>4, LoopExists
  <1>7. f \in [0 .. n -> X] /\ f[0] = c /\ \A i \in 1 .. n : f[i] = D[<<f[i - 1], i>>]
    <2> HIDE DEF D, X
    <2> QED
      BY <1>6 DEF Loop
  <1> HIDE DEF X
  <1>8. ASSUME NEW i \in 1 .. n PROVE f[i] = AttachPage(f[i - 1], i)
    <2>1. i - 1 \in 0 .. n
      BY <1>1
    <2>2. f[i - 1] \in X
      <3> HIDE DEF D
      <3> QED
        BY <1>7, <2>1
    <2>3. <<f[i - 1], i>> \in X \X (1 .. n)
      BY <2>2
    <2>4. f[i] = D[<<f[i - 1], i>>]
      <3> HIDE DEF D
      <3> QED
        BY <1>7
    <2> QED
      BY <2>3, <2>4
  <1>9. IsAttaching(f, u, d, a, b, n)
    <2> HIDE DEF D
    <2>1. DOMAIN f = 0 .. n /\ f = [i \in 0 .. n |-> f[i]]
      BY <1>7
    <2>2. \A i \in 0 .. n : i # 0 => i \in 1 .. n
      BY <1>1
    <2>3. f = [i \in 0 .. n |-> IF i = 0 THEN c ELSE AttachPage(f[i - 1], i)]
      BY <1>7, <1>8, <2>1, <2>2
    <2> QED
      BY <1>5, <2>3 DEF IsAttaching
  <1> QED
    BY <1>9

(* What the loop computes. *)
LEMMA AttachedShape ==
    ASSUME NEW p, NEW s, NEW a, used \subseteq Frames, space[p] \in Space,
           Attachable(space[p], a, shm[s].base, shm[s].n)
    PROVE  /\ AttachShape(space[p], a, shm[s].base, shm[s].n, Attached(p, s, a), shm[s].n)
           /\ \A u0, R, V, S :
                (Grown(u0, space[p], used, space[p], R, V, S)
                    /\ shm[s].base .. shm[s].base + shm[s].n - 1 \subseteq S) =>
                 Grown(u0, space[p], Attached(p, s, a).u, Attached(p, s, a).d, R, V, S)
  <1>1. PICK d \in Space : d = space[p]
    OBVIOUS
  <1>2. PICK b : b = shm[s].base
    OBVIOUS
  <1>3. PICK n : n = shm[s].n
    OBVIOUS
  <1>4. Attachable(d, a, b, n)
    BY <1>1, <1>2, <1>3, Zenon
  <1>5. PICK f : IsAttaching(f, used, d, a, b, n) /\ Attached(p, s, a) = f[n]
    <2>1. \E f : IsAttaching(f, used, d, a, b, n)
      BY <1>4, AttachingExists
    <2>2. Attached(p, s, a) = (CHOOSE f : IsAttaching(f, used, d, a, b, n))[n]
      BY <1>1, <1>2, <1>3, AttachedIsLoop
    <2> QED
      BY <2>1, <2>2
  <1>6. n \in Nat /\ a \in Nat /\ b \in Nat
    BY <1>4 DEF Attachable
  <1>7. f[0] = AttachStart(used, d, a, b) /\ \A i \in 1 .. n : f[i] = AttachPage(f[i - 1], i)
    BY <1>5, <1>6 DEF IsAttaching
  <1> DEFINE G(x) == \A u0, R, V, S :
                       (Grown(u0, d, used, d, R, V, S) /\ b .. b + n - 1 \subseteq S) =>
                        Grown(u0, d, x.u, x.d, R, V, S)
             T == {i \in Nat : i <= n => AttachShape(d, a, b, n, f[i], i) /\ G(f[i])}
  <1>8. 0 \in T
    <2>1. PICK x : x = AttachStart(used, d, a, b)
      OBVIOUS
    <2>2. x \in AttachState
      BY <1>6, <2>1 DEF AttachStart, AttachState
    <2>3. x.u = used /\ x.d = d /\ x.a = a /\ x.base = b
      BY <2>1 DEF AttachStart
    <2>4. AttachShape(d, a, b, n, x, 0)
      <3>1. \A w \in Pages : a <= w /\ w < a + n => d.pte[w] = 0
        BY <1>4 DEF Attachable
      <3> QED
        BY <2>2, <2>3, <3>1, Zenon DEF AttachShape
    <2>5. G(x)
      BY <2>3, Zenon
    <2>6. f[0] = x
      BY <1>7, <2>1
    <2> HIDE DEF G
    <2> QED
      BY <2>4, <2>5, <2>6
  <1>9. ASSUME NEW i \in T PROVE i + 1 \in T
    <2>1. SUFFICES ASSUME i + 1 <= n PROVE AttachShape(d, a, b, n, f[i + 1], i + 1) /\ G(f[i + 1])
      OBVIOUS
    <2>2. PICK j : j = i + 1
      OBVIOUS
    <2>3. i \in Nat /\ j \in 1 .. n /\ j - 1 = i /\ i <= n
      BY <1>6, <2>1, <2>2
    <2>4. AttachShape(d, a, b, n, f[i], i) /\ G(f[i])
      <3> HIDE DEF G
      <3> QED
        BY <2>3
    <2> HIDE DEF T
    <2>5. PICK x : x = f[i]
      OBVIOUS
    <2>6. AttachShape(d, a, b, n, x, j - 1) /\ G(x)
      BY <2>3, <2>4, <2>5
    <2>7. PICK y : y = AttachPage(x, j)
      OBVIOUS
    <2>8. f[j] = y
      BY <1>7, <2>3, <2>5, <2>7
    <2>9. /\ AttachShape(d, a, b, n, y, j)
          /\ \A u0, R, V, S : (Grown(u0, d, x.u, x.d, R, V, S) /\ b .. b + n - 1 \subseteq S) =>
                 Grown(u0, d, y.u, y.d, R, V, S)
      BY <1>4, <2>3, <2>6, <2>7, AttachPageShape
    <2>10. G(y)
      BY <2>6, <2>9, Zenon
    <2> HIDE DEF G
    <2> QED
      BY <2>2, <2>8, <2>9, <2>10
  <1>10. T \in SUBSET Nat
    OBVIOUS
  <1>11. T = Nat
    <2> HIDE DEF T
    <2> QED
      BY <1>8, <1>9, <1>10, CountUp
  <1>12. n <= n
    BY <1>6
  <1>13. AttachShape(d, a, b, n, f[n], n) /\ G(f[n])
    <2> HIDE DEF G
    <2> QED
      BY <1>6, <1>11, <1>12
  <1>14. PICK x : x = Attached(p, s, a)
    OBVIOUS
  <1>15. AttachShape(d, a, b, n, x, n) /\ G(x)
    <2> HIDE DEF G
    <2> QED
      BY <1>5, <1>13, <1>14
  <1> QED
    BY <1>1, <1>2, <1>3, <1>14, <1>15, Zenon

(***************************************************************************)
(* The inductive invariant.                                                *)
(***************************************************************************)
Segment == [valid : BOOLEAN, base : Nat, n : Nat, nattch : Int]
ShrinkCall == [op : {"shrink"}, va : Nat, top : HeapBase .. MmapBase, f : Values]
MmapCall == [op : {"mmap"}, start : Nat, n : Nat, off : Nat, f : Values]
Calls == {NoCall} \cup ShrinkCall \cup MmapCall

(* The pages from HeapBase to b are mapped. *)
Mapped(d, b) == \A v \in Pages : HeapBase <= v /\ v < b => d.pte[v] # 0
(* The break, or what it is about to become. *)
Floor(b, c) == IF c.op = "shrink" THEN c.top ELSE b

(* A process with space d, break b, in call c, when n is the next page of   *)
(* the shared area; e: its heap may have gaps.                             *)
Fit(d, b, c, e, n) ==
    /\ c # NoCall => d.dir # 0
    /\ d.dir = 0 => d = NoSpace
    /\ \A v \in Pages : n <= v /\ v < StackTop - 2 => d.pte[v] = 0
    /\ c.op = "mmap" =>
          /\ MmapBase <= c.start /\ c.start + c.n <= ShmBase /\ c.off < c.n
          /\ \A v \in Pages : c.start + c.off <= v /\ v < c.start + c.n => d.pte[v] = 0
    /\ c.op = "shrink" => c.top <= c.va
    /\ d.dir # 0 => e \/ Mapped(d, Floor(b, c))

Typed ==
    /\ used \subseteq Frames
    /\ space \in [Procs -> Space]
    /\ brk \in [Procs -> HeapBase .. MmapBase]
    /\ pend \in [Procs -> Calls]
    /\ next \in Nat /\ ShmBase <= next
Fits == \A p \in Procs : Fit(space[p], brk[p], pend[p], p \in gaps, next)

(* Segments have frames, and different ones. *)
ShmTyped ==
    /\ shm \in [1 .. Slots -> Segment]
    /\ \A s \in 1 .. Slots : shm[s].valid => 1 <= shm[s].base /\ shm[s].base + shm[s].n <= FrameCount + 1
Disjoint == \A s, t \in 1 .. Slots : s = t \/ SegmentFrames(s) \cap SegmentFrames(t) = {}

Owned == hole = "none" => Disjoint /\ Sound(used, space, lost, Segments)

MemoryInv == Typed /\ Fits /\ ShmTyped /\ Owned

(* g is f with v at p. *)
Sets(f, g, p, v) == g = [f EXCEPT ![p] = v]

(* Writing what is there already. *)
LEMMA SetsSame ==
    ASSUME NEW D, NEW T, NEW f \in [D -> T], NEW p \in D
    PROVE  Sets(f, f, p, f[p])
  BY DEF Sets

(* The three kinds of calls. *)
LEMMA CallKinds ==
    ASSUME NEW c \in Calls
    PROVE  \/ c = NoCall /\ c.op = "none"
           \/ c \in ShrinkCall /\ c.op = "shrink" /\ c # NoCall
           \/ c \in MmapCall /\ c.op = "mmap" /\ c # NoCall
  BY DEF Calls, ShrinkCall, MmapCall, NoCall

(* The shared area only gets smaller. *)
LEMMA FitLater ==
    ASSUME NEW d, NEW b, NEW c, NEW e, NEW n \in Int, NEW m \in Int, n <= m, Fit(d, b, c, e, n)
    PROVE  Fit(d, b, c, e, m)
  <1>1. \A v \in Pages : m <= v => n <= v
    BY DEF Pages
  <1> QED
    BY <1>1 DEF Fit

(* A step that changes the state of one process. *)
LEMMA OneProcess ==
    ASSUME MemoryInv, NEW p \in Procs, NEW d \in Space, NEW b \in HeapBase .. MmapBase, NEW c \in Calls,
           used' \subseteq Frames,
           Sets(space, space', p, d), Sets(brk, brk', p, b), Sets(pend, pend', p, c),
           next' \in Nat, next <= next', ShmTyped',
           \A q \in Procs : q = p \/ (q \in gaps' <=> q \in gaps),
           Fit(d, b, c, p \in gaps', next'),
           Owned'
    PROVE  MemoryInv'
  <1>1. /\ space \in [Procs -> Space] /\ brk \in [Procs -> HeapBase .. MmapBase]
        /\ pend \in [Procs -> Calls] /\ next \in Nat /\ ShmBase <= next
    BY DEF MemoryInv, Typed
  <1>2. space' \in [Procs -> Space] /\ space'[p] = d /\ \A q \in Procs : q = p \/ space'[q] = space[q]
    BY <1>1 DEF Sets
  <1>3. brk' \in [Procs -> HeapBase .. MmapBase] /\ brk'[p] = b /\ \A q \in Procs : q = p \/ brk'[q] = brk[q]
    BY <1>1 DEF Sets
  <1>4. pend' \in [Procs -> Calls] /\ pend'[p] = c /\ \A q \in Procs : q = p \/ pend'[q] = pend[q]
    BY <1>1 DEF Sets
  <1>5. ShmBase <= next'
    BY <1>1, RegionFacts
  <1>6. Typed'
    BY <1>2, <1>3, <1>4, <1>5 DEF Typed
  <1>7. ASSUME NEW q \in Procs PROVE Fit(space'[q], brk'[q], pend'[q], q \in gaps', next')
    <2>1. CASE q = p
      BY <1>2, <1>3, <1>4, <2>1, Zenon
    <2>2. CASE q # p
      <3>1. Fit(space[q], brk[q], pend[q], q \in gaps, next)
        BY DEF MemoryInv, Fits
      <3>2. Fit(space[q], brk[q], pend[q], q \in gaps, next')
        BY <1>1, <3>1, FitLater
      <3>3. (q \in gaps') = (q \in gaps)
        BY <2>2
      <3> QED
        BY <1>2, <1>3, <1>4, <2>2, <3>2, <3>3, Zenon
    <2> QED
      BY <2>1, <2>2
  <1>8. Fits'
    BY <1>7 DEF Fits
  <1> QED
    BY <1>6, <1>8 DEF MemoryInv

(* Steps that leave the frames of the segments alone. *)
LEMMA SameSegments ==
    ASSUME \A s \in 1 .. Slots :
              shm'[s].valid = shm[s].valid /\ shm'[s].base = shm[s].base /\ shm'[s].n = shm[s].n,
           DOMAIN shm = 1 .. Slots, DOMAIN shm' = 1 .. Slots
    PROVE  /\ Segments' = Segments /\ (Disjoint => Disjoint')
           /\ \A s \in 1 .. Slots : SegmentFrames(s)' = SegmentFrames(s)
  <1>1. \A s \in 1 .. Slots : SegmentFrames(s)' = SegmentFrames(s)
    BY DEF SegmentFrames
  <1>2. Segments' = Segments
    BY <1>1 DEF Segments
  <1>3. Disjoint => Disjoint'
    BY <1>1, Zenon DEF Disjoint
  <1> QED
    BY <1>1, <1>2, <1>3
(* In particular the ones that do not touch the table. *)
LEMMA SameShm ==
    ASSUME shm' = shm, ShmTyped
    PROVE  ShmTyped' /\ Segments' = Segments /\ (Disjoint => Disjoint')
  <1>1. ShmTyped'
    BY DEF ShmTyped
  <1>2. DOMAIN shm = 1 .. Slots /\ DOMAIN shm' = 1 .. Slots
    BY DEF ShmTyped
  <1> QED
    BY <1>1, <1>2, SameSegments

(* The frames of a segment. *)
LEMMA SegmentsHave ==
    ASSUME ShmTyped
    PROVE  /\ \A f : f \in Segments <=> \E s \in 1 .. Slots : f \in SegmentFrames(s)
           /\ \A s \in 1 .. Slots : SegmentFrames(s) \subseteq Frames /\ SegmentFrames(s) \subseteq Segments
           /\ Segments \subseteq Frames
  <1>1. DOMAIN shm = 1 .. Slots
    BY DEF ShmTyped
  <1>2. \A f : f \in Segments <=> \E s \in 1 .. Slots : f \in SegmentFrames(s)
    BY <1>1 DEF Segments
  <1>3. ASSUME NEW s \in 1 .. Slots PROVE SegmentFrames(s) \subseteq Frames
    <2>1. shm[s] \in Segment /\ (shm[s].valid => 1 <= shm[s].base /\ shm[s].base + shm[s].n <= FrameCount + 1)
      BY DEF ShmTyped
    <2> QED
      BY <2>1, FrameAssumption DEF SegmentFrames, Segment, Frames
  <1> QED
    BY <1>2, <1>3

(* What the invariant says of one process. *)
LEMMA ProcessFacts ==
    ASSUME MemoryInv, NEW p \in Procs
    PROVE  /\ space[p] \in Space /\ brk[p] \in HeapBase .. MmapBase /\ pend[p] \in Calls
           /\ next \in Nat /\ ShmBase <= next /\ used \subseteq Frames
           /\ Fit(space[p], brk[p], pend[p], p \in gaps, next)
           /\ Sets(space, space, p, space[p]) /\ Sets(brk, brk, p, brk[p]) /\ Sets(pend, pend, p, pend[p])
  BY SetsSame DEF MemoryInv, Typed, Fits

(* Steps that change neither a frame nor a space. *)
LEMMA OwnedSame ==
    ASSUME MemoryInv, used' = used, space' = space, lost' = lost, shm' = shm,
           hole' = "none" => hole = "none"
    PROVE  Owned' /\ ShmTyped'
  <1>1. ShmTyped' /\ Segments' = Segments /\ (Disjoint => Disjoint')
    BY SameShm DEF MemoryInv
  <1>2. hole' = "none" => Disjoint /\ Sound(used, space, lost, Segments)
    BY DEF MemoryInv, Owned
  <1>3. hole' = "none" => Disjoint' /\ Sound(used', space', lost', Segments')
    BY <1>1, <1>2, Zenon
  <1>4. Owned'
    BY <1>3 DEF Owned
  <1> QED
    BY <1>1, <1>4

(* A step of which only the call of p, and maybe its break, comes out new. *)
LEMMA OnlyTheCall ==
    ASSUME MemoryInv, NEW p \in Procs, NEW b \in HeapBase .. MmapBase, NEW c \in Calls,
           Sets(brk, brk', p, b), Sets(pend, pend', p, c),
           used' = used, space' = space, shm' = shm, next' = next, lost' = lost, gaps' = gaps,
           hole' = "none" => hole = "none",
           Fit(space[p], b, c, p \in gaps, next)
    PROVE  MemoryInv'
  <1>1. /\ space[p] \in Space /\ next \in Nat /\ used' \subseteq Frames
        /\ Sets(space, space', p, space[p])
    BY ProcessFacts
  <1>2. Owned' /\ ShmTyped'
    BY OwnedSame
  <1>3. next' \in Nat /\ next <= next'
    BY <1>1
  <1>4. Fit(space[p], b, c, p \in gaps', next')
    BY Zenon
  <1>5. \A q \in Procs : q = p \/ (q \in gaps' <=> q \in gaps)
    OBVIOUS
  <1> QED
    BY <1>1, <1>2, <1>3, <1>4, <1>5, OneProcess

(* brk starts to shrink. *)
LEMMA BrkShrinkKeeps ==
    ASSUME MemoryInv, NEW p \in Procs, NEW top \in HeapBase .. MmapBase, BrkShrink(p, top)
    PROVE  MemoryInv'
  <1>1. PICK c : c = [op |-> "shrink", va |-> top, top |-> top, f |-> 0]
    OBVIOUS
  <1>2. /\ space[p].dir # 0 /\ top < brk[p] /\ Sets(pend, pend', p, c)
        /\ used' = used /\ space' = space /\ brk' = brk /\ shm' = shm /\ next' = next
        /\ lost' = lost /\ hole' = hole /\ gaps' = gaps /\ pend[p] = NoCall
    BY <1>1 DEF BrkShrink, Enter, Alive, Sets
  <1>3. c \in Calls /\ c.op = "shrink" /\ c.top = top /\ c.va = top
    BY <1>1, RegionFacts, FrameFacts DEF Calls, ShrinkCall
  <1>4. /\ brk[p] \in HeapBase .. MmapBase
        /\ Fit(space[p], brk[p], pend[p], p \in gaps, next) /\ Sets(brk, brk', p, brk[p])
    BY <1>2, ProcessFacts
  <1>5. p \in gaps \/ Mapped(space[p], brk[p])
    <2>1. NoCall.op # "shrink"
      BY DEF NoCall
    <2> QED
      BY <1>2, <1>4, <2>1 DEF Fit, Floor
  <1>6. Mapped(space[p], brk[p]) => Mapped(space[p], top)
    <2>1. \A v \in Pages : v < top => v < brk[p]
      BY <1>2, <1>4 DEF Pages
    <2> QED
      BY <2>1 DEF Mapped
  <1>7. top <= top
    OBVIOUS
  <1>8. Fit(space[p], brk[p], c, p \in gaps, next)
    BY <1>2, <1>3, <1>4, <1>5, <1>6, <1>7 DEF Fit, Floor
  <1> QED
    BY <1>2, <1>3, <1>4, <1>8, OnlyTheCall

(* The second free of a page. *)
LEMMA BrkFreeKeeps ==
    ASSUME MemoryInv, NEW p \in Procs, BrkFree(p)
    PROVE  MemoryInv'
  <1>1. PICK c \in Calls : c = pend[p]
    BY ProcessFacts
  <1>2. c \in ShrinkCall /\ c # NoCall
    BY <1>1, CallKinds DEF BrkFree
  <1>3. PICK k : k = c.va + 1
    OBVIOUS
  <1>4. PICK e : e = [c EXCEPT !.f = 0]
    OBVIOUS
  <1>5. PICK g : g = [e EXCEPT !.va = k]
    OBVIOUS
  <1>6. Sets(pend, pend', p, g)
    <2>1. pend' = [pend EXCEPT ![p] = [c EXCEPT !.f = 0, !.va = c.va + 1]]
      BY <1>1 DEF BrkFree
    <2>2. [c EXCEPT !.f = 0, !.va = c.va + 1] = g
      BY <1>2, <1>3, <1>4, <1>5 DEF ShrinkCall
    <2> QED
      BY <2>1, <2>2 DEF Sets
  <1>7. e \in ShrinkCall /\ e.va = c.va /\ e.top = c.top
    BY <1>2, <1>4, FrameFacts DEF ShrinkCall
  <1>8. g \in ShrinkCall /\ g.op = "shrink" /\ g.va = c.va + 1 /\ g.top = c.top
    BY <1>2, <1>3, <1>5, <1>7 DEF ShrinkCall
  <1>9. c.op = "shrink" /\ c.va \in Nat /\ c.top \in Int
    BY <1>2, RegionFacts DEF ShrinkCall
  <1>10. /\ brk[p] \in HeapBase .. MmapBase /\ used \subseteq Frames
         /\ Fit(space[p], brk[p], c, p \in gaps, next)
    BY <1>1, ProcessFacts
  <1>11. Fit(space[p], brk[p], g, p \in gaps, next)
    <2>1. c.top <= c.va
      BY <1>9, <1>10 DEF Fit
    <2>2. g.top <= g.va
      BY <1>8, <1>9, <2>1
    <2> QED
      BY <1>2, <1>8, <1>9, <1>10, <2>2 DEF Fit, Floor
  <1>12. /\ space' = space /\ brk' = brk /\ shm' = shm /\ next' = next
         /\ lost' = lost /\ gaps' = gaps
    BY DEF BrkFree
  <1>13. used' = used \ {c.f} /\ (hole' = "none" => hole = "none" /\ c.f \notin used)
    BY <1>1 DEF BrkFree
  <1>14. g \in Calls
    BY <1>8 DEF Calls
  <1>15. Sets(brk, brk', p, brk[p]) /\ Sets(space, space', p, space[p]) /\ space[p] \in Space /\ next \in Nat
    BY <1>12, ProcessFacts
  <1>16. Owned' /\ ShmTyped'
    <2>1. ShmTyped' /\ Segments' = Segments /\ (Disjoint => Disjoint')
      BY <1>12, SameShm DEF MemoryInv
    <2>2. hole' = "none" => Disjoint /\ Sound(used, space, lost, Segments) /\ used' = used
      BY <1>13 DEF MemoryInv, Owned
    <2>3. hole' = "none" => Disjoint' /\ Sound(used', space', lost', Segments')
      BY <1>12, <2>1, <2>2, Zenon
    <2> QED
      BY <2>1, <2>3 DEF Owned
  <1>17. used' \subseteq Frames /\ next' \in Nat /\ next <= next'
    BY <1>10, <1>12, <1>13, <1>15
  <1>18. Fit(space[p], brk[p], g, p \in gaps', next')
    BY <1>11, <1>12, Zenon
  <1>19. \A q \in Procs : q = p \/ (q \in gaps' <=> q \in gaps)
    BY <1>12
  <1> QED
    BY <1>6, <1>10, <1>14, <1>15, <1>16, <1>17, <1>18, <1>19, OneProcess

(* The break comes down. *)
LEMMA BrkDoneKeeps ==
    ASSUME MemoryInv, NEW p \in Procs, BrkDone(p)
    PROVE  MemoryInv'
  <1>1. PICK c \in Calls : c = pend[p]
    BY ProcessFacts
  <1>2. c \in ShrinkCall /\ c # NoCall /\ c.op = "shrink"
    BY <1>1, CallKinds DEF BrkDone
  <1>3. c.top \in HeapBase .. MmapBase
    BY <1>2 DEF ShrinkCall
  <1>4. /\ Sets(brk, brk', p, c.top) /\ Sets(pend, pend', p, NoCall)
        /\ used' = used /\ space' = space /\ shm' = shm /\ next' = next
        /\ lost' = lost /\ hole' = hole /\ gaps' = gaps
    BY <1>1 DEF BrkDone, Sets
  <1>5. Fit(space[p], brk[p], c, p \in gaps, next)
    BY <1>1, ProcessFacts
  <1>6. NoCall.op = "none" /\ NoCall \in Calls
    BY DEF NoCall, Calls
  <1>7. Fit(space[p], c.top, NoCall, p \in gaps, next)
    BY <1>2, <1>5, <1>6 DEF Fit, Floor
  <1> QED
    BY <1>3, <1>4, <1>6, <1>7, OnlyTheCall

(* mmap_find_free_region. *)
LEMMA FindFreeRegionFacts ==
    ASSUME NEW d, NEW n \in Nat, NEW hint \in Nat, NEW a, a = FindFreeRegion(d, n, hint), a # 0
    PROVE  a \in Nat /\ hint <= a /\ a + n <= ShmBase /\ \A v \in a .. a + n - 1 : d.pte[v] = 0
  <1> DEFINE F == {k \in hint .. ShmBase - n : \A v \in k .. k + n - 1 : d.pte[v] = 0}
  <1>1. F # {} /\ a = Min(F)
    BY DEF FindFreeRegion
  <1>2. F \subseteq Nat
    BY RegionFacts
  <1>3. a \in F
    <2> HIDE DEF F
    <2> QED
      BY <1>1, <1>2, MinIn
  <1> QED
    BY <1>3, RegionFacts

(* mmap chooses a region. *)
LEMMA MmapEnterKeeps ==
    ASSUME MemoryInv, NEW p \in Procs, NEW n \in 1 .. 2, NEW fixed \in BOOLEAN,
           MmapEnter(p, n, MmapBase, fixed)
    PROVE  MemoryInv'
  <1>1. PICK d \in Space : d = space[p]
    BY ProcessFacts
  <1>2. PICK a : a = IF fixed
                     THEN IF \A v \in MmapBase .. MmapBase + n - 1 : d.pte[v] = 0 THEN MmapBase ELSE 0
                     ELSE FindFreeRegion(d, n, MmapBase)
    OBVIOUS
  <1>3. PICK c : c = IF a = 0 THEN NoCall
                     ELSE [op |-> "mmap", start |-> a, n |-> n, off |-> 0, f |-> 0]
    OBVIOUS
  <1>4. /\ Sets(pend, pend', p, c) /\ d.dir # 0 /\ pend[p] = NoCall
        /\ used' = used /\ space' = space /\ shm' = shm /\ next' = next /\ brk' = brk
        /\ lost' = lost /\ hole' = hole /\ gaps' = gaps
    BY <1>1, <1>2, <1>3 DEF MmapEnter, Enter, Alive, Sets
  <1>5. /\ brk[p] \in HeapBase .. MmapBase /\ Sets(brk, brk', p, brk[p])
        /\ Fit(d, brk[p], NoCall, p \in gaps, next)
    BY <1>1, <1>4, ProcessFacts
  <1>6. NoCall.op = "none"
    BY DEF NoCall
  <1>7. CASE a = 0
    <2>1. c = NoCall
      BY <1>3, <1>7
    <2>2. c \in Calls /\ Fit(space[p], brk[p], c, p \in gaps, next)
      BY <1>1, <1>5, <2>1 DEF Calls
    <2> QED
      BY <1>4, <1>5, <2>2, OnlyTheCall
  <1>8. CASE a # 0
    <2>1. a \in Nat /\ MmapBase <= a /\ a + n <= ShmBase /\ \A v \in a .. a + n - 1 : d.pte[v] = 0
      <3>0. n \in Nat /\ MmapBase \in Nat
        BY RegionFacts
      <3>1. CASE fixed
        BY <1>2, <1>8, <3>1, RegionFacts
      <3>2. CASE ~ fixed
        <4>1. a = FindFreeRegion(d, n, MmapBase)
          BY <1>2, <3>2
        <4> QED
          BY <1>8, <3>0, <4>1, FindFreeRegionFacts
      <3> QED
        BY <3>1, <3>2
    <2>2. c = [op |-> "mmap", start |-> a, n |-> n, off |-> 0, f |-> 0]
      BY <1>3, <1>8
    <2>3. c \in Calls /\ c.op = "mmap" /\ c.start = a /\ c.n = n /\ c.off = 0
      BY <2>1, <2>2, FrameFacts DEF Calls, MmapCall
    <2>4. \A v \in Pages : a + 0 <= v /\ v < a + n => v \in a .. a + n - 1
      BY <2>1 DEF Pages
    <2>5. 0 < n
      OBVIOUS
    <2>6. Fit(d, brk[p], c, p \in gaps, next)
      BY <1>4, <1>5, <1>6, <2>1, <2>3, <2>4, <2>5 DEF Fit, Floor
    <2> QED
      BY <1>1, <1>4, <1>5, <2>3, <2>6, OnlyTheCall
  <1> QED
    BY <1>7, <1>8

(***************************************************************************)
(* Pages that are unmapped.                                                *)
(***************************************************************************)

(* Unmapping frees the frames of pages that are nobody else's. *)
LEMMA SoundCleared ==
    ASSUME NEW u, NEW sp, NEW L, NEW S, Sound(u, sp, L, S),
           NEW p \in Procs, sp[p] \in Space, NEW vs \in SUBSET Pages,
           \A v \in vs : sp[p].pte[v] \notin S,
           NEW t, Swapped(sp, t, p, Cleared(sp[p], vs)),
           NEW w, w = u \ {sp[p].pte[v] : v \in vs}
    PROVE  Sound(w, t, L, S)
  <1>1. PICK D : D = {<<"pte", v>> : v \in vs}
    OBVIOUS
  <1>2. PICK d : d = Cleared(sp[p], vs)
    OBVIOUS
  <1>3. D \in SUBSET Places
    BY <1>1, PlaceKinds
  <1>4. \A v \in vs : At(sp[p], <<"pte", v>>) = sp[p].pte[v]
    BY AtKinds
  <1>5. \A v \in Pages : v \in vs => At(d, <<"pte", v>>) = 0
    BY <1>2, ClearedFacts
  <1>6. \A o \in Places : At(d, o) = At(sp[p], o) \/ \E v \in Pages : v \in vs /\ o = <<"pte", v>>
    BY <1>2, ClearedFacts
  <1>7. \A o \in D : At(d, o) = 0 /\ At(sp[p], o) \notin S
    BY <1>1, <1>4, <1>5
  <1>8. \A o \in Places : o \in D \/ At(d, o) = At(sp[p], o)
    BY <1>1, <1>6
  <1>9. w = u \ {At(sp[p], o) : o \in D}
    <2>1. {At(sp[p], o) : o \in D} = {sp[p].pte[v] : v \in vs}
      BY <1>1, <1>4
    <2> QED
      BY <2>1
  <1>10. Swapped(sp, t, p, d)
    BY <1>2
  <1> QED
    BY <1>3, <1>7, <1>8, <1>9, <1>10, SoundUnmap

(* A written space is swapped. *)
LEMMA SetsSwapped ==
    ASSUME MemoryInv, NEW p \in Procs, NEW d, Sets(space, space', p, d)
    PROVE  Swapped(space, space', p, d)
  <1>1. space \in [Procs -> Space]
    BY DEF MemoryInv, Typed
  <1> QED
    BY <1>1 DEF Sets, Swapped

(* Below the shared area no page is a segment's. *)
LEMMA PrivatePages ==
    ASSUME MemoryInv, hole = "none", NEW p \in Procs, NEW v \in Pages, v < ShmBase
    PROVE  space[p].pte[v] \notin Segments
  <1>1. Sound(used, space, lost, Segments)
    BY DEF MemoryInv, Owned
  <1>2. <<"pte", v>> \in Places /\ <<"pte", v>> \notin Shared
    BY RegionFacts, PlaceKinds, SharedPlaces DEF Pages
  <1>3. At(space[p], <<"pte", v>>) \notin Segments
    BY <1>1, <1>2 DEF Sound
  <1> QED
    BY <1>3, AtKinds

(* A step that unmaps pages. *)
Unmaps(p, vs) ==
    /\ used' = used \ {space[p].pte[v] : v \in vs}
    /\ Sets(space, space', p, Cleared(space[p], vs))
(* It keeps the ownership of frames unless a segment has one of them. *)
LEMMA UnmapsOwned ==
    ASSUME MemoryInv, NEW p \in Procs, NEW vs \in SUBSET Pages, Unmaps(p, vs),
           Segments' = Segments, Disjoint => Disjoint', lost' = lost,
           hole' = "none" => hole = "none" /\ \A v \in vs : space[p].pte[v] \notin Segments
    PROVE  Owned' /\ used' \subseteq Frames
  <1>1. used \subseteq Frames /\ space[p] \in Space
    BY ProcessFacts
  <1>2. used' = used \ {space[p].pte[v] : v \in vs} /\ Swapped(space, space', p, Cleared(space[p], vs))
    BY SetsSwapped DEF Unmaps
  <1>3. ASSUME hole' = "none" PROVE Disjoint' /\ Sound(used', space', lost', Segments')
    <2>1. Disjoint /\ Sound(used, space, lost, Segments)
      BY <1>3 DEF MemoryInv, Owned
    <2>2. \A v \in vs : space[p].pte[v] \notin Segments
      BY <1>3
    <2>3. Sound(used', space', lost, Segments)
      BY <1>1, <1>2, <2>1, <2>2, SoundCleared
    <2> QED
      BY <2>1, <2>3, Zenon
  <1>4. used' \subseteq Frames
    BY <1>1, <1>2
  <1> QED
    BY <1>3, <1>4 DEF Owned

(* Pages above the heap of a process go. *)
LEMMA FitCleared ==
    ASSUME NEW d \in Space, NEW b, NEW c, NEW e, NEW n, Fit(d, b, c, e, n), d.dir # 0,
           NEW vs, \A v \in Pages : v \in vs => ~ v < Floor(b, c)
    PROVE  Fit(Cleared(d, vs), b, c, e, n) /\ Cleared(d, vs) \in Space /\ Cleared(d, vs).dir # 0
  <1>1. PICK g : g = Cleared(d, vs)
    OBVIOUS
  <1>2. g \in Space /\ g.dir = d.dir /\ \A v \in Pages : g.pte[v] = IF v \in vs THEN 0 ELSE d.pte[v]
    BY <1>1, ClearedFacts
  <1>3. \A v \in Pages : d.pte[v] = 0 => g.pte[v] = 0
    BY <1>2
  <1>4. Mapped(d, Floor(b, c)) => Mapped(g, Floor(b, c))
    BY <1>2 DEF Mapped
  <1>5. Fit(g, b, c, e, n)
    BY <1>2, <1>3, <1>4 DEF Fit
  <1> QED
    BY <1>1, <1>2, <1>5

(* A shrinking heap goes on. *)
LEMMA FitShrink ==
    ASSUME NEW d, NEW b, NEW c \in ShrinkCall, NEW e, NEW n, Fit(d, b, c, e, n),
           NEW g \in ShrinkCall, g.top = c.top, g.va = c.va \/ g.va = c.va + 1
    PROVE  Fit(d, b, g, e, n)
  <1>1. c.op = "shrink" /\ g.op = "shrink" /\ c.va \in Nat /\ c.top \in Int /\ c # NoCall /\ g # NoCall
    BY RegionFacts DEF ShrinkCall, NoCall
  <1>2. c.top <= c.va
    BY <1>1 DEF Fit
  <1>3. g.top <= g.va
    BY <1>1, <1>2
  <1> QED
    BY <1>1, <1>3 DEF Fit, Floor

(* mmap gives up. *)
LEMMA FitNoCall ==
    ASSUME NEW d, NEW b, NEW c \in Calls, NEW e, NEW n, Fit(d, b, c, e, n), c.op # "shrink"
    PROVE  Fit(d, b, NoCall, e, n)
  BY DEF Fit, Floor, NoCall

(* The rest of a step that unmaps pages. *)
LEMMA UnmapsKeeps ==
    ASSUME MemoryInv, NEW p \in Procs, NEW vs \in SUBSET Pages, Unmaps(p, vs),
           Segments' = Segments, Disjoint => Disjoint', ShmTyped', lost' = lost,
           hole' = "none" => hole = "none" /\ \A v \in vs : space[p].pte[v] \notin Segments,
           brk' = brk, next' = next, gaps' = gaps,
           NEW c \in Calls, Sets(pend, pend', p, c), Cleared(space[p], vs) \in Space,
           Fit(Cleared(space[p], vs), brk[p], c, p \in gaps, next)
    PROVE  MemoryInv'
  <1>1. Owned' /\ used' \subseteq Frames
    BY UnmapsOwned
  <1>2. brk[p] \in HeapBase .. MmapBase /\ next \in Nat /\ Sets(brk, brk', p, brk[p])
    BY ProcessFacts
  <1>3. Sets(space, space', p, Cleared(space[p], vs))
    BY DEF Unmaps
  <1>4. next' \in Nat /\ next <= next'
    BY <1>2
  <1>5. Fit(Cleared(space[p], vs), brk[p], c, p \in gaps', next')
    BY Zenon
  <1>6. \A q \in Procs : q = p \/ (q \in gaps' <=> q \in gaps)
    OBVIOUS
  <1> QED
    BY <1>1, <1>2, <1>3, <1>4, <1>5, <1>6, OneProcess

(* ... of the heap too. *)
LEMMA UnmapsGaps ==
    ASSUME MemoryInv, NEW p \in Procs, NEW vs \in SUBSET Pages, Unmaps(p, vs),
           Segments' = Segments, Disjoint => Disjoint', ShmTyped', lost' = lost,
           hole' = "none" => hole = "none" /\ \A v \in vs : space[p].pte[v] \notin Segments,
           brk' = brk, next' = next, \A q \in Procs : q = p \/ (q \in gaps' <=> q \in gaps),
           NEW c \in Calls, Sets(pend, pend', p, c), Cleared(space[p], vs) \in Space,
           Fit(Cleared(space[p], vs), brk[p], c, p \in gaps', next')
    PROVE  MemoryInv'
  <1>1. Owned' /\ used' \subseteq Frames
    BY UnmapsOwned
  <1>2. brk[p] \in HeapBase .. MmapBase /\ next \in Nat /\ Sets(brk, brk', p, brk[p])
    BY ProcessFacts
  <1>3. Sets(space, space', p, Cleared(space[p], vs))
    BY DEF Unmaps
  <1>4. next' \in Nat /\ next <= next'
    BY <1>2
  <1> QED
    BY <1>1, <1>2, <1>3, <1>4, OneProcess

(* The first free of a page of a shrinking heap. *)
LEMMA BrkUnmapKeeps ==
    ASSUME MemoryInv, NEW p \in Procs, BrkUnmap(p)
    PROVE  MemoryInv'
  <1>1. PICK c \in Calls : c = pend[p]
    BY ProcessFacts
  <1>2. c \in ShrinkCall /\ c # NoCall /\ c.op = "shrink"
    BY <1>1, CallKinds DEF BrkUnmap
  <1>3. PICK d \in Space : d = space[p]
    BY ProcessFacts
  <1>4. PICK h : h = d.pte[c.va]
    OBVIOUS
  <1>5. PICK g : g = IF h = 0 THEN [c EXCEPT !.va = c.va + 1] ELSE [c EXCEPT !.f = h]
    OBVIOUS
  <1>6. /\ c.va < brk[p] /\ Sets(pend, pend', p, g) /\ brk' = brk /\ shm' = shm /\ next' = next
        /\ lost' = lost /\ hole' = hole /\ gaps' = gaps
    BY <1>1, <1>3, <1>4, <1>5 DEF BrkUnmap, Sets
  <1>7. /\ brk[p] \in HeapBase .. MmapBase /\ Fit(d, brk[p], c, p \in gaps, next)
    BY <1>1, <1>3, ProcessFacts
  <1>8. c.va \in Nat /\ c.top \in Int /\ c.top <= c.va /\ d.dir # 0
    BY <1>2, <1>7, RegionFacts DEF ShrinkCall, Fit
  <1>9. c.va \in Pages /\ c.va < ShmBase
    BY <1>6, <1>7, <1>8, RegionFacts DEF Pages
  <1>10. Unmaps(p, {c.va})
    <2>1. UnmapPages(used, space[p], {c.va}).u = used \ {space[p].pte[v] : v \in {c.va}}
      BY DEF UnmapPages
    <2>2. UnmapPages(used, space[p], {c.va}).d = Cleared(space[p], {c.va})
      BY DEF UnmapPages
    <2> QED
      BY <1>1, <2>1, <2>2 DEF BrkUnmap, Unmaps, Sets
  <1>11. h \in Values
    BY <1>4, <1>9 DEF Space
  <1>12. g \in ShrinkCall /\ g.top = c.top /\ (g.va = c.va \/ g.va = c.va + 1)
    <2>1. CASE h = 0
      <3>1. g = [c EXCEPT !.va = c.va + 1]
        BY <1>5, <2>1
      <3> QED
        BY <1>2, <1>8, <3>1 DEF ShrinkCall
    <2>2. CASE h # 0
      <3>1. g = [c EXCEPT !.f = h]
        BY <1>5, <2>2
      <3> QED
        BY <1>2, <1>11, <3>1 DEF ShrinkCall
    <2> QED
      BY <2>1, <2>2
  <1>13. Fit(Cleared(d, {c.va}), brk[p], c, p \in gaps, next) /\ Cleared(d, {c.va}) \in Space
    <2>1. \A v \in Pages : v \in {c.va} => ~ v < Floor(brk[p], c)
      BY <1>2, <1>8 DEF Floor
    <2> QED
      BY <1>7, <1>8, <2>1, FitCleared
  <1>14. Fit(Cleared(d, {c.va}), brk[p], g, p \in gaps, next)
    BY <1>2, <1>12, <1>13, FitShrink
  <1>15. g \in Calls
    BY <1>12 DEF Calls
  <1>16. hole' = "none" => hole = "none" /\ \A v \in {c.va} : space[p].pte[v] \notin Segments
    BY <1>6, <1>9, PrivatePages
  <1>17. ShmTyped' /\ Segments' = Segments /\ (Disjoint => Disjoint')
    BY <1>6, SameShm DEF MemoryInv
  <1>18. {c.va} \in SUBSET Pages
    BY <1>9
  <1>19. Cleared(space[p], {c.va}) \in Space /\ Fit(Cleared(space[p], {c.va}), brk[p], g, p \in gaps, next)
    BY <1>3, <1>13, <1>14
  <1> QED
    BY <1>6, <1>10, <1>15, <1>16, <1>17, <1>18, <1>19, UnmapsKeeps

(* The model's munmap takes one page. *)
LEMMA MunmapKeeps ==
    ASSUME MemoryInv, NEW p \in Procs, NEW a \in {HeapBase, MmapBase, ShmBase}, Munmap(p, a, 1)
    PROVE  MemoryInv'
  <1>1. PICK d \in Space : d = space[p]
    BY ProcessFacts
  <1>2. PICK vs : vs = a .. a + 1 - 1
    OBVIOUS
  <1>3. a \in Nat /\ HeapBase <= a /\ a < StackTop
    BY RegionFacts
  <1>4. vs \in SUBSET Pages /\ \A v \in vs : HeapBase <= v
    BY <1>2, <1>3, RegionFacts DEF Pages
  <1>5. /\ d.dir # 0 /\ pend[p] = NoCall /\ brk' = brk /\ shm' = shm /\ next' = next /\ pend' = pend
        /\ lost' = lost /\ hole' = Freeing({space[p].pte[v] : v \in vs}, "munmap")
    BY <1>1, <1>2 DEF Munmap, Enter, Alive
  <1>6. Unmaps(p, vs)
    <2>1. UnmapPages(used, space[p], vs).u = used \ {space[p].pte[v] : v \in vs}
      BY DEF UnmapPages
    <2>2. UnmapPages(used, space[p], vs).d = Cleared(space[p], vs)
      BY DEF UnmapPages
    <2> QED
      BY <1>2, <2>1, <2>2 DEF Munmap, Unmaps, Sets
  <1>7. brk[p] \in HeapBase .. MmapBase /\ Fit(d, brk[p], NoCall, p \in gaps, next) /\ Sets(pend, pend', p, NoCall)
    BY <1>1, <1>5, ProcessFacts
  <1>8. NoCall \in Calls /\ NoCall.op = "none"
    BY DEF NoCall, Calls
  <1>9. gaps' = IF \E v \in vs : HeapBase <= v /\ v < brk[p] THEN gaps \cup {p} ELSE gaps
    BY <1>2 DEF Munmap
  <1>10. Fit(Cleared(d, vs), brk[p], NoCall, p \in gaps', next') /\ Cleared(d, vs) \in Space
    <2>1. CASE \E v \in vs : HeapBase <= v /\ v < brk[p]
      <3>1. PICK g : g = Cleared(d, vs)
        OBVIOUS
      <3>2. g \in Space /\ g.dir = d.dir /\ \A v \in Pages : g.pte[v] = IF v \in vs THEN 0 ELSE d.pte[v]
        BY <3>1, ClearedFacts
      <3>3. \A v \in Pages : d.pte[v] = 0 => g.pte[v] = 0
        BY <3>2
      <3>4. p \in gaps' /\ next' = next
        BY <1>5, <1>9, <2>1
      <3>5. Fit(g, brk[p], NoCall, p \in gaps', next')
        BY <1>5, <1>7, <1>8, <3>2, <3>3, <3>4 DEF Fit
      <3> QED
        BY <3>1, <3>2, <3>5
    <2>2. CASE ~ \E v \in vs : HeapBase <= v /\ v < brk[p]
      <3>1. \A v \in Pages : v \in vs => ~ v < Floor(brk[p], NoCall)
        BY <1>4, <1>8, <2>2 DEF Floor
      <3>2. Fit(Cleared(d, vs), brk[p], NoCall, p \in gaps, next) /\ Cleared(d, vs) \in Space
        BY <1>5, <1>7, <3>1, FitCleared
      <3>3. gaps' = gaps /\ next' = next
        BY <1>5, <1>9, <2>2
      <3> QED
        BY <3>2, <3>3, Zenon
    <2> QED
      BY <2>1, <2>2
  <1>11. hole' = "none" => hole = "none" /\ \A v \in vs : space[p].pte[v] \notin Segments
    BY <1>5 DEF Freeing
  <1>12. ShmTyped' /\ Segments' = Segments /\ (Disjoint => Disjoint')
    BY <1>5, SameShm DEF MemoryInv
  <1>13. Cleared(space[p], vs) \in Space /\ Fit(Cleared(space[p], vs), brk[p], NoCall, p \in gaps', next')
    BY <1>1, <1>10
  <1>14. \A q \in Procs : q = p \/ (q \in gaps' <=> q \in gaps)
    BY <1>9
  <1> QED
    BY <1>4, <1>5, <1>6, <1>7, <1>8, <1>11, <1>12, <1>13, <1>14, UnmapsGaps

(* mmap gives back the pages it has mapped so far. *)
MmapDone(c) == c.start .. c.start + c.off - 1
CanGoBack(p, vs) ==
    /\ vs \in SUBSET Pages
    /\ hole = "none" => \A v \in vs : space[p].pte[v] \notin Segments
    /\ Cleared(space[p], vs) \in Space
    /\ Fit(Cleared(space[p], vs), brk[p], NoCall, p \in gaps, next)
(* They are its own. *)
LEMMA MmapBack ==
    ASSUME MemoryInv, NEW p \in Procs, pend[p] \in MmapCall
    PROVE  CanGoBack(p, MmapDone(pend[p]))
  <1>0. PICK c \in MmapCall : c = pend[p]
    OBVIOUS
  <1>0a. PICK vs : vs = MmapDone(c)
    OBVIOUS
  <1>1. PICK d \in Space : d = space[p]
    BY ProcessFacts
  <1>2. c \in Calls /\ c.op = "mmap" /\ c # NoCall /\ c.start \in Nat /\ c.n \in Nat /\ c.off \in Nat
    BY DEF Calls, MmapCall, NoCall
  <1>3. brk[p] \in HeapBase .. MmapBase /\ Fit(d, brk[p], c, p \in gaps, next)
    BY <1>0, <1>1, ProcessFacts
  <1>4. d.dir # 0 /\ MmapBase <= c.start /\ c.start + c.n <= ShmBase /\ c.off < c.n
    BY <1>2, <1>3 DEF Fit
  <1>5. \A v \in vs : v \in Pages /\ MmapBase <= v /\ v < ShmBase
    BY <1>0a, <1>2, <1>4, RegionFacts DEF Pages, MmapDone
  <1>6. \A v \in Pages : v \in vs => ~ v < Floor(brk[p], c)
    BY <1>2, <1>3, <1>5, RegionFacts DEF Floor, Pages
  <1>7. Fit(Cleared(d, vs), brk[p], c, p \in gaps, next) /\ Cleared(d, vs) \in Space
    BY <1>3, <1>4, <1>6, FitCleared
  <1>8. Fit(Cleared(d, vs), brk[p], NoCall, p \in gaps, next)
    BY <1>2, <1>7, FitNoCall
  <1>9. hole = "none" => \A v \in vs : space[p].pte[v] \notin Segments
    BY <1>5, PrivatePages
  <1>10. vs \in SUBSET Pages
    BY <1>5
  <1> QED
    BY <1>0, <1>0a, <1>1, <1>7, <1>8, <1>9, <1>10 DEF CanGoBack

(* mmap looks for a frame. *)
LEMMA MmapLookKeeps ==
    ASSUME MemoryInv, NEW p \in Procs, MmapLook(p)
    PROVE  MemoryInv'
  <1>1. PICK c \in Calls : c = pend[p]
    BY ProcessFacts
  <1>2. c \in MmapCall /\ c # NoCall /\ c.op = "mmap"
    BY <1>1, CallKinds DEF MmapLook
  <1>3. PICK f : f = FirstFree(used)
    OBVIOUS
  <1>4. /\ brk' = brk /\ shm' = shm /\ next' = next /\ lost' = lost /\ hole' = hole /\ gaps' = gaps
    BY DEF MmapLook
  <1>5. CASE f # 0
    <2>1. PICK g : g = [c EXCEPT !.f = f]
      OBVIOUS
    <2>2. Sets(pend, pend', p, g) /\ used' = used /\ space' = space
      BY <1>1, <1>3, <1>5, <2>1 DEF MmapLook, Sets
    <2>3. f \in Values
      BY <1>3, FirstFreeFacts
    <2>4. g \in MmapCall /\ g.op = "mmap" /\ g.start = c.start /\ g.n = c.n /\ g.off = c.off
      BY <1>2, <2>1, <2>3 DEF MmapCall
    <2>5. g \in Calls /\ g # NoCall
      BY <2>4 DEF Calls, NoCall
    <2>6. brk[p] \in HeapBase .. MmapBase /\ Fit(space[p], brk[p], c, p \in gaps, next) /\ Sets(brk, brk', p, brk[p])
      BY <1>1, <1>4, ProcessFacts
    <2>7. Fit(space[p], brk[p], g, p \in gaps, next)
      BY <1>2, <2>4, <2>6 DEF Fit, Floor
    <2> QED
      BY <1>4, <2>2, <2>5, <2>6, <2>7, OnlyTheCall
  <1>6. CASE f = 0
    <2>1. PICK vs : vs = c.start .. c.start + c.off - 1
      OBVIOUS
    <2>2. Unmaps(p, vs)
      <3>1. UnmapPages(used, space[p], vs).u = used \ {space[p].pte[v] : v \in vs}
        BY DEF UnmapPages
      <3>2. UnmapPages(used, space[p], vs).d = Cleared(space[p], vs)
        BY DEF UnmapPages
      <3> QED
        BY <1>1, <1>3, <1>6, <2>1, <3>1, <3>2 DEF MmapLook, Unmaps, Sets
    <2>3. Sets(pend, pend', p, NoCall)
      BY <1>1, <1>3, <1>6 DEF MmapLook, Sets
    <2>4. /\ vs \in SUBSET Pages
          /\ hole = "none" => \A v \in vs : space[p].pte[v] \notin Segments
          /\ Cleared(space[p], vs) \in Space
          /\ Fit(Cleared(space[p], vs), brk[p], NoCall, p \in gaps, next)
      <3>1. pend[p] \in MmapCall /\ vs = MmapDone(pend[p])
        BY <1>1, <1>2, <2>1 DEF MmapDone
      <3>2. CanGoBack(p, vs)
        BY <3>1, MmapBack, Zenon
      <3> QED
        BY <3>2 DEF CanGoBack
    <2>5. ShmTyped' /\ Segments' = Segments /\ (Disjoint => Disjoint')
      BY <1>4, SameShm DEF MemoryInv
    <2>6. NoCall \in Calls
      BY DEF Calls
    <2>7. hole' = "none" => hole = "none" /\ \A v \in vs : space[p].pte[v] \notin Segments
      BY <1>4, <2>4
    <2> QED
      BY <1>4, <2>2, <2>3, <2>4, <2>5, <2>6, <2>7, UnmapsKeeps
  <1> QED
    BY <1>5, <1>6

(***************************************************************************)
(* Pages that are mapped.                                                  *)
(***************************************************************************)

(* Before a space grows it is what it is. *)
LEMMA GrownOwn ==
    ASSUME MemoryInv, hole = "none", NEW p \in Procs
    PROVE  Grown(used, space[p], used, space[p], {}, {}, Segments)
  <1>1. Sound(used, space, lost, Segments)
    BY DEF MemoryInv, Owned
  <1>2. /\ used \in SUBSET Frames /\ Segments \in SUBSET used
        /\ \A o \in Places : At(space[p], o) = 0 \/ At(space[p], o) \in used
    BY <1>1 DEF Sound
  <1> QED
    BY <1>2, GrownStart

(* A step that lets a space grow. *)
LEMMA GrowsOwned ==
    ASSUME MemoryInv, NEW p \in Procs, NEW v, NEW d, NEW R, NEW V,
           hole = "none" => Grown(used, space[p], v, d, R, V, Segments),
           used' = v, Sets(space, space', p, d), lost \cup R \cup V \subseteq lost',
           Segments' = Segments, Disjoint => Disjoint', hole' = "none" => hole = "none"
    PROVE  Owned'
  <1>1. Swapped(space, space', p, d)
    BY SetsSwapped
  <1>2. ASSUME hole' = "none" PROVE Disjoint' /\ Sound(used', space', lost', Segments')
    <2>1. Disjoint /\ Sound(used, space, lost, Segments) /\ Grown(used, space[p], v, d, R, V, Segments)
      BY <1>2 DEF MemoryInv, Owned
    <2>2. PICK K, S, L : K = lost' /\ S = Segments /\ L = lost
      OBVIOUS
    <2>3. GrowStep(used, space, L, S, p, v, d, R, V, space', K)
      BY <1>1, <2>1, <2>2 DEF GrowStep
    <2>4. Sound(v, space', K, S)
      BY <2>3, SoundGrow
    <2> QED
      BY <2>1, <2>2, <2>4, Zenon
  <1> QED
    BY <1>2 DEF Owned

(* The loop of AddPages in the space of a process. *)
LEMMA AddsFacts ==
    ASSUME MemoryInv, NEW p \in Procs, NEW vs, NEW x, x = AddPages(used, space[p], vs)
    PROVE  /\ AddShape(space[p], vs, x, StackTop)
           /\ hole = "none" => Grown(used, space[p], x.u, x.d, x.rest, x.over, Segments)
  <1>1. used \in SUBSET Frames /\ space[p] \in Space
    BY ProcessFacts
  <1>2. AddShape(space[p], vs, x, StackTop)
    BY <1>1, AddPagesShape
  <1>3. ASSUME hole = "none" PROVE Grown(used, space[p], x.u, x.d, x.rest, x.over, Segments)
    <2>1. Grown(used, space[p], used, space[p], {}, {}, Segments)
      BY <1>3, GrownOwn
    <2>2. Grown(used, space[p], x.u, x.d, {} \cup x.rest, {} \cup x.over, Segments)
      BY <1>1, <2>1, AddPagesShape
    <2>3. {} \cup x.rest = x.rest /\ {} \cup x.over = x.over
      OBVIOUS
    <2> QED
      BY <2>2, <2>3, Zenon
  <1> QED
    BY <1>2, <1>3

(* Pages between the break and the shared area are added. *)
LEMMA FitAdded ==
    ASSUME NEW d \in Space, NEW b \in Int, NEW e, NEW n \in Nat, ShmBase <= n, d.dir # 0,
           Fit(d, b, NoCall, e, n),
           NEW vs, \A v \in vs : v \in Int /\ b <= v /\ v < ShmBase,
           NEW x, AddShape(d, vs, x, StackTop)
    PROVE  Fit(x.d, b, NoCall, e, n) /\ x.d.dir # 0 /\ x.d \in Space
  <1>1. x.d \in Space /\ x.d.dir = d.dir /\ \A w \in Pages : w \notin vs => x.d.pte[w] = d.pte[w]
    BY DEF AddShape, Adding
  <1>2. PICK g : g = x.d
    OBVIOUS
  <1>3. NoCall.op = "none" /\ Floor(b, NoCall) = b
    BY DEF NoCall, Floor
  <1>4. \A v \in Pages : n <= v /\ v < StackTop - 2 => g.pte[v] = 0
    <2>1. \A v \in Pages : n <= v => v \notin vs
      BY RegionFacts DEF Pages
    <2> QED
      BY <1>1, <1>2, <2>1 DEF Fit
  <1>5. Mapped(d, b) => Mapped(g, b)
    <2>1. \A v \in Pages : v < b => v \notin vs
      BY DEF Pages
    <2> QED
      BY <1>1, <1>2, <2>1 DEF Mapped
  <1>6. e \/ Mapped(d, b)
    BY <1>3 DEF Fit
  <1>7. Fit(g, b, NoCall, e, n)
    BY <1>1, <1>2, <1>3, <1>4, <1>5, <1>6 DEF Fit
  <1> QED
    BY <1>1, <1>2, <1>7

(* The break goes up. *)
LEMMA BrkGrowKeeps ==
    ASSUME MemoryInv, NEW p \in Procs, NEW top \in HeapBase .. MmapBase, BrkGrow(p, top)
    PROVE  MemoryInv'
  <1>1. PICK vs : vs = brk[p] .. top - 1
    OBVIOUS
  <1>2. PICK x : x = AddPages(used, space[p], vs)
    OBVIOUS
  <1>3. PICK b : b = IF x.ok THEN top ELSE brk[p]
    OBVIOUS
  <1>4. /\ space[p].dir # 0 /\ pend[p] = NoCall /\ top > brk[p]
        /\ used' = x.u /\ Sets(space, space', p, x.d) /\ Sets(brk, brk', p, b)
        /\ lost' = lost \cup x.over \cup x.rest
        /\ shm' = shm /\ next' = next /\ pend' = pend /\ hole' = hole /\ gaps' = gaps
    BY <1>1, <1>2, <1>3 DEF BrkGrow, Enter, Alive, Sets
  <1>5. /\ space[p] \in Space /\ brk[p] \in HeapBase .. MmapBase /\ next \in Nat /\ ShmBase <= next
        /\ Fit(space[p], brk[p], NoCall, p \in gaps, next) /\ Sets(pend, pend', p, NoCall)
    BY <1>4, ProcessFacts
  <1>6. /\ AddShape(space[p], vs, x, StackTop)
        /\ hole = "none" => Grown(used, space[p], x.u, x.d, x.rest, x.over, Segments)
    BY <1>2, AddsFacts
  <1>7. \A v \in vs : v \in Int /\ brk[p] <= v /\ v < ShmBase
    BY <1>1, <1>5, RegionFacts
  <1>8. brk[p] \in Int /\ top \in Int /\ top <= StackTop
    BY <1>5, RegionFacts
  <1>9. Fit(x.d, brk[p], NoCall, p \in gaps, next) /\ x.d.dir # 0 /\ x.d \in Space
    BY <1>4, <1>5, <1>6, <1>7, <1>8, FitAdded
  <1>10. b \in HeapBase .. MmapBase
    BY <1>3, <1>5
  <1>11. NoCall.op = "none" /\ Floor(b, NoCall) = b /\ Floor(brk[p], NoCall) = brk[p] /\ NoCall \in Calls
    BY DEF NoCall, Floor, Calls
  <1>12. Mapped(x.d, brk[p]) => Mapped(x.d, b)
    <2>1. CASE x.ok
      <3>1. \A w \in Pages : w \in vs /\ w < StackTop => x.d.pte[w] # 0
        BY <1>6, <2>1 DEF AddShape
      <3>2. \A w \in Pages : w < StackTop /\ (w < top => w < brk[p] \/ w \in vs)
        BY <1>1, <1>5, <1>8, RegionFacts DEF Pages
      <3>3. b = top
        BY <1>3, <2>1
      <3> QED
        BY <3>1, <3>2, <3>3 DEF Mapped
    <2>2. CASE ~ x.ok
      BY <1>3, <2>2
    <2> QED
      BY <2>1, <2>2
  <1>13. Fit(x.d, b, NoCall, p \in gaps', next')
    <2>1. Fit(x.d, b, NoCall, p \in gaps, next)
      BY <1>9, <1>11, <1>12 DEF Fit
    <2> QED
      BY <1>4, <2>1, Zenon
  <1>14. ShmTyped' /\ Segments' = Segments /\ (Disjoint => Disjoint')
    BY <1>4, SameShm DEF MemoryInv
  <1>15. lost \cup x.rest \cup x.over \subseteq lost'
    BY <1>4
  <1>16. Owned'
    BY <1>4, <1>6, <1>14, <1>15, GrowsOwned
  <1>17. used' \subseteq Frames /\ next' \in Nat /\ next <= next'
    BY <1>4, <1>5, <1>6 DEF AddShape, Adding
  <1>18. \A q \in Procs : q = p \/ (q \in gaps' <=> q \in gaps)
    BY <1>4
  <1> QED
    BY <1>4, <1>5, <1>9, <1>10, <1>11, <1>13, <1>14, <1>16, <1>17, <1>18, OneProcess

(* A page of mmap's region is mapped: the region that is left is free. *)
LEMMA FitTaken ==
    ASSUME NEW d \in Space, NEW b \in HeapBase .. MmapBase, NEW c \in MmapCall, NEW e, NEW n \in Nat, ShmBase <= n,
           Fit(d, b, c, e, n), NEW u, NEW f \in Frames, NEW r, MapOutcome(u, d, c.start + c.off, f, r), r.ok,
           NEW g, g = IF c.off + 1 < c.n THEN [c EXCEPT !.off = c.off + 1, !.f = 0] ELSE NoCall
    PROVE  g \in Calls /\ r.d \in Space /\ Fit(r.d, b, g, e, n)
  <1>1. /\ c.op = "mmap" /\ c.start \in Nat /\ c.n \in Nat /\ c.off \in Nat /\ c # NoCall /\ b \in Int
        /\ NoCall.op = "none"
    BY RegionFacts DEF MmapCall, NoCall
  <1>2. PICK v : v = c.start + c.off
    OBVIOUS
  <1>3. /\ d.dir # 0 /\ MmapBase <= c.start /\ c.start + c.n <= ShmBase /\ c.off < c.n
        /\ \A w \in Pages : v <= w /\ w < c.start + c.n => d.pte[w] = 0
    BY <1>1, <1>2 DEF Fit
  <1>4. v \in Int /\ b <= v /\ v < n
    BY <1>1, <1>2, <1>3, RegionFacts
  <1>5. PICK h : h = r.d
    OBVIOUS
  <1>6. h \in Space /\ h.dir = d.dir /\ \A w \in Pages : w = v \/ h.pte[w] = d.pte[w]
    BY <1>2, <1>5 DEF MapOutcome
  <1>7. \A w \in Pages : n <= w /\ w < StackTop - 2 => h.pte[w] = 0
    <2>1. \A w \in Pages : n <= w => w # v
      BY <1>4 DEF Pages
    <2> QED
      BY <1>6, <2>1 DEF Fit
  <1>8. e \/ Mapped(h, b)
    <2>1. e \/ Mapped(d, b)
      BY <1>1, <1>3 DEF Fit, Floor
    <2>2. \A w \in Pages : w < b => w # v
      BY <1>4 DEF Pages
    <2> QED
      BY <1>6, <2>1, <2>2 DEF Mapped
  <1>9. CASE c.off + 1 < c.n
    <2>1. PICK k : k = c.off + 1
      OBVIOUS
    <2>2. PICK m : m = [c EXCEPT !.off = k]
      OBVIOUS
    <2>3. g = [m EXCEPT !.f = 0]
      BY <1>9, <2>1, <2>2 DEF MmapCall
    <2>4. m \in MmapCall /\ m.off = k /\ m.start = c.start /\ m.n = c.n
      BY <1>1, <2>1, <2>2 DEF MmapCall
    <2>5. g \in MmapCall /\ g.op = "mmap" /\ g.off = c.off + 1 /\ g.start = c.start /\ g.n = c.n
      BY <2>1, <2>3, <2>4, FrameFacts DEF MmapCall
    <2>6. g # NoCall /\ g \in Calls
      BY <2>5 DEF NoCall, Calls
    <2>7. \A w \in Pages : g.start + g.off <= w /\ w < g.start + g.n => h.pte[w] = 0
      <3>1. \A w \in Pages : g.start + g.off <= w => v <= w /\ w # v
        BY <1>1, <1>2, <2>5 DEF Pages
      <3> QED
        BY <1>3, <1>6, <2>5, <3>1
    <2>8. Fit(h, b, g, e, n)
      BY <1>3, <1>6, <1>7, <1>8, <1>9, <2>5, <2>6, <2>7 DEF Fit, Floor
    <2> QED
      BY <1>5, <1>6, <2>6, <2>8
  <1>10. CASE ~ c.off + 1 < c.n
    <2>1. g = NoCall
      BY <1>10
    <2>2. NoCall \in Calls
      BY DEF Calls
    <2>3. Fit(h, b, NoCall, e, n)
      BY <1>1, <1>3, <1>6, <1>7, <1>8 DEF Fit, Floor
    <2> QED
      BY <1>5, <1>6, <2>1, <2>2, <2>3
  <1> QED
    BY <1>9, <1>10

(* mmap takes the frame it has found, which must still be free. *)
LEMMA MmapTakeKeeps ==
    ASSUME MemoryInv, NEW p \in Procs, MmapTake(p)
    PROVE  MemoryInv'
  <1>1. PICK c \in Calls : c = pend[p]
    BY ProcessFacts
  <1>2. c \in MmapCall /\ c # NoCall /\ c.op = "mmap"
    BY <1>1, CallKinds DEF MmapTake
  <1>3. PICK f : f = c.f
    OBVIOUS
  <1>4. f \in Frames
    <2>1. f # 0 /\ f \in Values
      BY <1>1, <1>2, <1>3 DEF MmapTake, MmapCall
    <2> QED
      BY <2>1, FrameFacts
  <1>5. PICK d \in Space : d = space[p]
    BY ProcessFacts
  <1>6. PICK v : v = c.start + c.off
    OBVIOUS
  <1>7. PICK r : r = MapPage(used \cup {f}, d, v, f)
    OBVIOUS
  <1>8. PICK vs : vs = MmapDone(c)
    OBVIOUS
  <1>9. /\ brk[p] \in HeapBase .. MmapBase /\ Fit(d, brk[p], c, p \in gaps, next)
        /\ next \in Nat /\ ShmBase <= next /\ used \subseteq Frames
    BY <1>1, <1>5, ProcessFacts
  <1>10. /\ d.dir # 0 /\ c.start \in Nat /\ c.off \in Nat /\ c.n \in Nat
         /\ MmapBase <= c.start /\ c.start + c.n <= ShmBase /\ c.off < c.n
    BY <1>2, <1>9 DEF Fit, MmapCall
  <1>11. v \in Pages /\ d.pte[v] = 0
    <2>1. v \in Pages /\ c.start + c.off <= v /\ v < c.start + c.n
      BY <1>6, <1>10, RegionFacts DEF Pages
    <2> QED
      BY <1>2, <1>9, <2>1 DEF Fit
  <1>12. MapOutcome(used \cup {f}, d, v, f, r)
    <2>1. used \cup {f} \in SUBSET Frames /\ f \in Values
      BY <1>4, <1>9, FrameFacts
    <2> QED
      BY <1>7, <1>11, <2>1, MapPageFacts
  <1>13. /\ brk' = brk /\ shm' = shm /\ next' = next /\ lost' = lost /\ gaps' = gaps
         /\ hole' = "none" => hole = "none" /\ f \notin used
    BY <1>1, <1>3 DEF MmapTake
  <1>14. ShmTyped' /\ Segments' = Segments /\ (Disjoint => Disjoint')
    BY <1>13, SameShm DEF MemoryInv
  <1>15. Sets(brk, brk', p, brk[p])
    BY <1>13, ProcessFacts
  <1>16. next' \in Nat /\ next <= next' /\ \A q \in Procs : q = p \/ (q \in gaps' <=> q \in gaps)
    BY <1>9, <1>13
  <1>17. CASE r.ok
    <2>1. PICK g : g = IF c.off + 1 < c.n THEN [c EXCEPT !.off = c.off + 1, !.f = 0] ELSE NoCall
      OBVIOUS
    <2>2. used' = r.u /\ Sets(space, space', p, r.d) /\ Sets(pend, pend', p, g)
      BY <1>1, <1>3, <1>5, <1>6, <1>7, <1>17, <2>1 DEF MmapTake, Sets
    <2>3. g \in Calls /\ r.d \in Space /\ Fit(r.d, brk[p], g, p \in gaps, next)
      BY <1>2, <1>4, <1>6, <1>9, <1>12, <1>17, <2>1, FitTaken
    <2>4. Fit(r.d, brk[p], g, p \in gaps', next')
      BY <1>13, <2>3, Zenon
    <2>5. used' \subseteq Frames
      BY <1>12, <2>2 DEF MapOutcome
    <2>6. Owned'
      <3>1. CASE f \in used
        <4>1. hole' # "none"
          BY <1>13, <3>1
        <4> QED
          BY <4>1 DEF Owned
      <3>2. CASE f \notin used
        <4>1. ASSUME hole = "none" PROVE Grown(used, d, r.u, r.d, {}, {}, Segments)
          <5>1. Grown(used, d, used, d, {}, {}, Segments)
            BY <1>5, <4>1, GrownOwn
          <5>2. Grown(used, d, used \cup {f}, d, {} \cup {f}, {}, Segments)
            BY <1>4, <3>2, <5>1, GrownTake
          <5>3. PICK R : R = {} \cup {f}
            OBVIOUS
          <5>4. Grown(used, d, used \cup {f}, d, R, {}, Segments) /\ f \in R
            BY <5>2, <5>3
          <5>5. Grown(used, d, r.u, r.d, R \ {f}, {} \cup ({d.pte[v]} \ {0}), Segments)
            BY <1>4, <1>7, <1>11, <1>17, <5>4, MapPageGrown
          <5>6. R \ {f} = {} /\ {} \cup ({d.pte[v]} \ {0}) = {}
            BY <1>11, <5>3
          <5> QED
            BY <5>5, <5>6, Zenon
        <4>2. hole = "none" => Grown(used, space[p], r.u, r.d, {}, {}, Segments)
          BY <1>5, <4>1
        <4>3. lost \cup {} \cup {} \subseteq lost'
          BY <1>13
        <4> QED
          BY <1>13, <1>14, <2>2, <4>2, <4>3, GrowsOwned
      <3> QED
        BY <3>1, <3>2
    <2> QED
      BY <1>9, <1>14, <1>15, <1>16, <2>2, <2>3, <2>4, <2>5, <2>6, OneProcess
  <1>18. CASE ~ r.ok
    <2>1. /\ used' = (used \ {space[p].pte[w] : w \in vs}) \ {f}
          /\ Sets(space, space', p, Cleared(space[p], vs))
      <3>1. UnmapPages(used, space[p], vs).u = used \ {space[p].pte[w] : w \in vs}
        BY DEF UnmapPages
      <3>2. UnmapPages(used, space[p], vs).d = Cleared(space[p], vs)
        BY DEF UnmapPages
      <3>3. vs = c.start .. c.start + c.off - 1
        BY <1>8 DEF MmapDone
      <3> QED
        BY <1>1, <1>3, <1>5, <1>6, <1>7, <1>18, <3>1, <3>2, <3>3 DEF MmapTake, Sets
    <2>2. Sets(pend, pend', p, NoCall) /\ NoCall \in Calls
      BY <1>1, <1>3, <1>5, <1>6, <1>7, <1>18 DEF MmapTake, Sets, Calls
    <2>3. CanGoBack(p, vs)
      <3>1. pend[p] \in MmapCall /\ vs = MmapDone(pend[p])
        BY <1>1, <1>2, <1>8
      <3> QED
        BY <3>1, MmapBack, Zenon
    <2>4. /\ vs \in SUBSET Pages
          /\ hole = "none" => \A w \in vs : space[p].pte[w] \notin Segments
          /\ Cleared(space[p], vs) \in Space
          /\ Fit(Cleared(space[p], vs), brk[p], NoCall, p \in gaps, next)
      BY <2>3 DEF CanGoBack
    <2>5. CASE f \notin used
      <3>1. Unmaps(p, vs)
        BY <2>1, <2>5 DEF Unmaps
      <3>2. hole' = "none" => hole = "none" /\ \A w \in vs : space[p].pte[w] \notin Segments
        BY <1>13, <2>4
      <3> QED
        BY <1>13, <1>14, <2>2, <2>4, <3>1, <3>2, UnmapsKeeps
    <2>6. CASE f \in used
      <3>1. Owned'
        <4>1. hole' # "none"
          BY <1>13, <2>6
        <4> QED
          BY <4>1 DEF Owned
      <3>2. used' \subseteq Frames
        BY <1>9, <2>1
      <3>3. Fit(Cleared(space[p], vs), brk[p], NoCall, p \in gaps', next')
        BY <1>13, <2>4, Zenon
      <3> QED
        BY <1>9, <1>14, <1>15, <1>16, <2>1, <2>2, <2>4, <3>1, <3>2, <3>3, OneProcess
    <2> QED
      BY <2>5, <2>6
  <1> QED
    BY <1>17, <1>18

(* mmap_ex takes its pages out again: the frame without a page first, then *)
(* the pages, which were mapped below the shared area.                     *)
TakeBackStep(u, sp, L, S, p, v, d, R, V, vs, t, K, w) ==
    /\ Sound(u, sp, L, S) /\ Grown(u, sp[p], v, d, R, V, S)
    /\ Sets(sp, t, p, Cleared(d, vs)) /\ K = L \cup V
    /\ vs \in SUBSET Pages /\ \A i \in vs : i < ShmBase
    /\ w = (v \ R) \ {d.pte[i] : i \in vs}
(* Then all are sound again. *)
LEMMA SoundTakenBack ==
    ASSUME NEW u, NEW sp \in [Procs -> Space], NEW L, NEW S, NEW p \in Procs, NEW v, NEW d \in Space,
           NEW R, NEW V, NEW vs, NEW t, NEW K, NEW w,
           TakeBackStep(u, sp, L, S, p, v, d, R, V, vs, t, K, w)
    PROVE  Sound(w, t, K, S)
  <1> Sound(u, sp, L, S) /\ Grown(u, sp[p], v, d, R, V, S)
    BY DEF TakeBackStep
  <1> Sets(sp, t, p, Cleared(d, vs)) /\ K = L \cup V
    BY DEF TakeBackStep
  <1> vs \in SUBSET Pages /\ (\A i \in vs : i < ShmBase) /\ w = (v \ R) \ {d.pte[i] : i \in vs}
    BY DEF TakeBackStep
  <1>1. PICK m : m = [sp EXCEPT ![p] = d]
    OBVIOUS
  <1>2. m[p] = d /\ Swapped(sp, m, p, d) /\ m \in [Procs -> Space]
    BY <1>1 DEF Swapped
  <1>3. PICK J : J = L \cup R \cup V
    OBVIOUS
  <1>4. Sound(v, m, J, S)
    <2>1. GrowStep(u, sp, L, S, p, v, d, R, V, m, J)
      BY <1>2, <1>3 DEF GrowStep
    <2> QED
      BY <2>1, SoundGrow
  <1>5. R \subseteq v \ u /\ S \subseteq u /\ \A o \in Places : At(d, o) \notin R
    BY DEF Grown
  <1>6. R \cap S = {} /\ u \cap R = {} /\ 0 \notin R
    <2>1. v \subseteq Frames
      BY DEF Grown
    <2> QED
      BY <1>5, <2>1, FrameFacts
  <1>7. \A q \in Procs, o \in Places : At(m[q], o) \notin R
    <2>1. \A q \in Procs, o \in Places : At(sp[q], o) = 0 \/ At(sp[q], o) \in u
      BY DEF Sound
    <2>2. \A q \in Procs, o \in Places : At(sp[q], o) \notin R
      BY <1>6, <2>1
    <2>3. \A q \in Procs : q = p \/ m[q] = sp[q]
      BY <1>2 DEF Swapped
    <2> QED
      BY <1>2, <1>5, <2>2, <2>3
  <1>8. J \subseteq K \cup R
    BY <1>3
  <1>9. PICK x : x = v \ R
    OBVIOUS
  <1>10. Sound(x, m, K, S)
    <2>1. DropStep(v, m, J, S, R, K)
      BY <1>4, <1>6, <1>7, <1>8 DEF DropStep
    <2> QED
      BY <1>9, <2>1, SoundDrop
  <1>11. \A i \in vs : m[p].pte[i] \notin S
    <2>1. \A o \in Places : At(m[p], o) \in S => o \in Shared
      BY <1>10 DEF Sound
    <2>0. \A i \in vs : i \in Pages /\ ~ ShmBase <= i
      BY RegionFacts DEF Pages
    <2>2. \A i \in vs : <<"pte", i>> \in Places /\ <<"pte", i>> \notin Shared
      BY <2>0, PlaceKinds, SharedPlaces
    <2>3. \A i \in vs : At(m[p], <<"pte", i>>) = m[p].pte[i]
      BY AtKinds
    <2> QED
      BY <2>1, <2>2, <2>3
  <1>12. Swapped(m, t, p, Cleared(m[p], vs))
    <2>1. PICK e : e = Cleared(d, vs)
      OBVIOUS
    <2>2. t = [sp EXCEPT ![p] = e]
      BY <2>1 DEF Sets
    <2>3. t[p] = e /\ \A q \in Procs : q = p \/ t[q] = sp[q]
      BY <2>2
    <2>4. \A q \in Procs : q = p \/ m[q] = sp[q]
      BY <1>2 DEF Swapped
    <2> QED
      BY <1>2, <2>1, <2>3, <2>4 DEF Swapped
  <1>13. w = x \ {m[p].pte[i] : i \in vs} /\ m[p] \in Space
    BY <1>2, <1>9
  <1> QED
    BY <1>10, <1>11, <1>12, <1>13, SoundCleared

(* mmap_ex. *)
LEMMA MmapExKeeps ==
    ASSUME MemoryInv, NEW p \in Procs, NEW at \in {0, MmapBase}, MmapEx(p, 1, at)
    PROVE  MemoryInv'
  <1>1. PICK a : a = IF at # 0 THEN at ELSE FindFreeRegion(space[p], 1, MmapBase)
    OBVIOUS
  <1>2. PICK vs : vs = a .. a + 1 - 1
    OBVIOUS
  <1>3. PICK x : x = AddPages(used, space[p], vs)
    OBVIOUS
  <1>4. PICK y : y = UnmapPages(x.u \ x.rest, x.d, x.done)
    OBVIOUS
  <1>5. /\ space[p].dir # 0 /\ pend[p] = NoCall /\ a # 0
        /\ used' = IF x.ok THEN x.u ELSE y.u
        /\ Sets(space, space', p, IF x.ok THEN x.d ELSE y.d)
        /\ lost' = lost \cup x.over
        /\ brk' = brk /\ shm' = shm /\ next' = next /\ pend' = pend /\ hole' = hole /\ gaps' = gaps
    BY <1>1, <1>2, <1>3, <1>4 DEF MmapEx, Enter, Alive, Sets
  <1>6. a \in Nat /\ MmapBase <= a /\ a + 1 <= ShmBase
    <2>1. CASE at # 0
      BY <1>1, <2>1, RegionFacts
    <2>2. CASE at = 0
      <3>1. a = FindFreeRegion(space[p], 1, MmapBase) /\ 1 \in Nat /\ MmapBase \in Nat
        BY <1>1, <2>2, RegionFacts
      <3> QED
        BY <1>5, <3>1, FindFreeRegionFacts
    <2> QED
      BY <2>1, <2>2
  <1>7. /\ space[p] \in Space /\ brk[p] \in HeapBase .. MmapBase /\ next \in Nat /\ ShmBase <= next
        /\ Fit(space[p], brk[p], NoCall, p \in gaps, next) /\ Sets(pend, pend', p, NoCall)
        /\ Sets(brk, brk', p, brk[p])
    BY <1>5, ProcessFacts
  <1>8. /\ AddShape(space[p], vs, x, StackTop)
        /\ hole = "none" => Grown(used, space[p], x.u, x.d, x.rest, x.over, Segments)
    BY <1>3, AddsFacts
  <1>9. \A v \in vs : v \in Int /\ brk[p] <= v /\ v < ShmBase
    BY <1>2, <1>6, <1>7, RegionFacts
  <1>10. brk[p] \in Int
    BY <1>7, RegionFacts
  <1>11. Fit(x.d, brk[p], NoCall, p \in gaps, next) /\ x.d.dir # 0 /\ x.d \in Space
    BY <1>5, <1>7, <1>8, <1>9, <1>10, FitAdded
  <1>12. NoCall.op = "none" /\ Floor(brk[p], NoCall) = brk[p] /\ NoCall \in Calls
    BY DEF NoCall, Floor, Calls
  <1>13. ShmTyped' /\ Segments' = Segments /\ (Disjoint => Disjoint')
    BY <1>5, SameShm DEF MemoryInv
  <1>14. next' \in Nat /\ next <= next' /\ \A q \in Procs : q = p \/ (q \in gaps' <=> q \in gaps)
    BY <1>5, <1>7
  <1>15. x.u \subseteq Frames /\ x.ok \in BOOLEAN /\ x.done \in SUBSET Pages /\ (x.ok => x.rest = {}) /\ x.done \subseteq vs
    BY <1>8 DEF AddShape, Adding
  <1>16. CASE x.ok
    <2>1. used' = x.u /\ Sets(space, space', p, x.d)
      BY <1>5, <1>16
    <2>2. lost \cup x.rest \cup x.over \subseteq lost'
      BY <1>5, <1>15, <1>16
    <2>3. Owned'
      BY <1>5, <1>8, <1>13, <2>1, <2>2, GrowsOwned
    <2>4. Fit(x.d, brk[p], NoCall, p \in gaps', next')
      BY <1>5, <1>11, Zenon
    <2>5. used' \subseteq Frames
      BY <1>15, <2>1
    <2> QED
      BY <1>7, <1>11, <1>12, <1>13, <1>14, <2>1, <2>3, <2>4, <2>5, OneProcess
  <1>17. CASE ~ x.ok
    <2>1. PICK g : g = Cleared(x.d, x.done)
      OBVIOUS
    <2>2. used' = (x.u \ x.rest) \ {x.d.pte[v] : v \in x.done} /\ Sets(space, space', p, g)
      BY <1>4, <1>5, <1>17, <2>1 DEF UnmapPages
    <2>3. Fit(g, brk[p], NoCall, p \in gaps, next) /\ g \in Space
      <3>1. \A v \in Pages : v \in x.done => ~ v < Floor(brk[p], NoCall)
        BY <1>9, <1>10, <1>12, <1>15
      <3> QED
        BY <1>11, <2>1, <3>1, FitCleared
    <2>4. Fit(g, brk[p], NoCall, p \in gaps', next')
      BY <1>5, <2>3, Zenon
    <2>5. used' \subseteq Frames
      BY <1>15, <2>2
    <2>6. ASSUME hole = "none" PROVE Disjoint' /\ Sound(used', space', lost', Segments')
      <3>1. Disjoint /\ Sound(used, space, lost, Segments)
        BY <2>6 DEF MemoryInv, Owned
      <3>2. PICK K, S, L, vd : K = lost' /\ S = Segments /\ L = lost /\ vd = x.done
        OBVIOUS
      <3>3. PICK u1, d1, R1, V1 : u1 = x.u /\ d1 = x.d /\ R1 = x.rest /\ V1 = x.over
        OBVIOUS
      <3>4. Sound(used, space, L, S) /\ Grown(used, space[p], u1, d1, R1, V1, S) /\ d1 \in Space
        BY <1>8, <1>11, <2>6, <3>1, <3>2, <3>3
      <3>5. vd \in SUBSET Pages /\ \A i \in vd : i < ShmBase
        BY <1>9, <1>15, <3>2
      <3>6. Sets(space, space', p, Cleared(d1, vd)) /\ K = L \cup V1
        BY <1>5, <2>1, <2>2, <3>2, <3>3
      <3>7. used' = (u1 \ R1) \ {d1.pte[i] : i \in vd} /\ space \in [Procs -> Space]
        BY <2>2, <3>2, <3>3 DEF MemoryInv, Typed
      <3>8. Sound(used', space', K, S)
        <4>1. TakeBackStep(used, space, L, S, p, u1, d1, R1, V1, vd, space', K, used')
          BY <3>4, <3>5, <3>6, <3>7 DEF TakeBackStep
        <4> QED
          BY <3>4, <3>7, <4>1, SoundTakenBack
      <3> QED
        BY <1>13, <3>1, <3>2, <3>8, Zenon
    <2>7. Owned'
      BY <1>5, <2>6 DEF Owned
    <2> QED
      BY <1>7, <1>12, <1>13, <1>14, <2>2, <2>3, <2>4, <2>5, <2>7, OneProcess
  <1> QED
    BY <1>15, <1>16, <1>17

(***************************************************************************)
(* Whole spaces.                                                           *)
(***************************************************************************)

(* A step that takes frames and forgets them. *)
LEMMA OnlyFrames ==
    ASSUME MemoryInv, space' = space, brk' = brk, pend' = pend, shm' = shm, next' = next,
           gaps' = gaps, hole' = hole,
           used \subseteq used', used' \subseteq Frames, lost \subseteq lost', used' \ used \subseteq lost'
    PROVE  MemoryInv'
  <1>1. Typed'
    BY DEF MemoryInv, Typed
  <1>2. Fits'
    <2>1. ASSUME NEW p \in Procs PROVE Fit(space'[p], brk'[p], pend'[p], p \in gaps', next')
      <3>1. Fit(space[p], brk[p], pend[p], p \in gaps, next)
        BY ProcessFacts
      <3> QED
        BY <3>1, Zenon
    <2> QED
      BY <2>1 DEF Fits
  <1>3. ShmTyped' /\ Segments' = Segments /\ (Disjoint => Disjoint')
    BY SameShm DEF MemoryInv
  <1>4. ASSUME hole' = "none" PROVE Disjoint' /\ Sound(used', space', lost', Segments')
    <2>1. Disjoint /\ Sound(used, space, lost, Segments)
      BY <1>4 DEF MemoryInv, Owned
    <2>2. PICK v, K, S : v = used' /\ K = lost' /\ S = Segments
      OBVIOUS
    <2>3. v \in SUBSET Frames /\ used \subseteq v /\ lost \subseteq K /\ v \ used \subseteq K /\ Sound(used, space, lost, S)
      BY <2>1, <2>2
    <2>4. Sound(v, space, K, S)
      BY <2>3, SoundKeep
    <2> QED
      BY <1>3, <2>1, <2>2, <2>4, Zenon
  <1> QED
    BY <1>1, <1>2, <1>3, <1>4 DEF MemoryInv, Owned

(* A space that is built for another process or for the next program, and  *)
(* the segments of the whole system.                                       *)
LEMMA GrownBuilt ==
    ASSUME MemoryInv, hole = "none", NEW v, NEW d, NEW R, NEW V, Grown(used, NoSpace, v, d, R, V, {})
    PROVE  Grown(used, NoSpace, v, d, R, V, Segments)
  <1>1. Segments \subseteq used
    BY DEF MemoryInv, Owned, Sound
  <1> QED
    BY <1>1, GrownAnyS

(* The copy that fork makes. *)
Cloned(p, n, x) ==
    /\ n.ok \in BOOLEAN /\ (~ n.ok => n.u = used /\ n.rest = {})
    /\ x.ok \in BOOLEAN
    /\ n.ok => /\ x.u \subseteq Frames /\ x.d \in Space /\ x.d.dir # 0 /\ (x.ok => x.rest = {})
               /\ x.rest \subseteq x.u \ used
               /\ Grown(used, NoSpace, x.u, x.d, n.rest \cup x.rest, x.over, {})
               /\ \A v \in Pages : v < StackTop - 2 /\ space[p].pte[v] = 0 => x.d.pte[v] = 0
(* process_create and clone_user_space. *)
LEMMA ForkBuilds ==
    ASSUME MemoryInv, NEW p \in Procs, NEW n, n = CreateSpace(used),
           NEW x, x = CloneUserSpace(n.u, space[p], n.d)
    PROVE  Cloned(p, n, x)
  <1>1. used \in SUBSET Frames
    BY ProcessFacts
  <1>2. SpaceMade(used, n)
    BY <1>1, CreateSpaceFacts
  <1>3. PICK vs : vs = {v \in Pages : space[p].pte[v] # 0}
    OBVIOUS
  <1>4. PICK u, d : u = n.u /\ d = n.d
    OBVIOUS
  <1>5. u \in SUBSET Frames /\ d \in Space
    BY <1>2, <1>4 DEF SpaceMade
  <1>6. x = AddPages(u, d, vs)
    BY <1>3, <1>4 DEF CloneUserSpace
  <1>7. AddShape(d, vs, x, StackTop)
    BY <1>5, <1>6, AddPagesShape
  <1>8. /\ x.ok \in BOOLEAN /\ x.u \subseteq Frames /\ x.d \in Space /\ x.d.dir = d.dir /\ (x.ok => x.rest = {})
        /\ \A w \in Pages : w \notin vs => x.d.pte[w] = d.pte[w]
    BY <1>7 DEF AddShape, Adding
  <1>9. n.ok \in BOOLEAN /\ (~ n.ok => n.u = used /\ n.rest = {})
    BY <1>2 DEF SpaceMade
  <1>10. ASSUME n.ok
         PROVE  /\ x.u \subseteq Frames /\ x.d \in Space /\ x.d.dir # 0 /\ (x.ok => x.rest = {})
                /\ x.rest \subseteq x.u \ used
                /\ Grown(used, NoSpace, x.u, x.d, n.rest \cup x.rest, x.over, {})
                /\ \A v \in Pages : v < StackTop - 2 /\ space[p].pte[v] = 0 => x.d.pte[v] = 0
    <2>1. /\ d.dir # 0 /\ Grown(used, NoSpace, u, d, n.rest, {}, {})
          /\ \A v \in Pages : v = StackTop - 1 \/ v = StackTop - 2 \/ d.pte[v] = 0
      BY <1>2, <1>4, <1>10 DEF SpaceMade
    <2>2. Grown(used, NoSpace, x.u, x.d, n.rest \cup x.rest, {} \cup x.over, {})
      BY <1>5, <1>6, <2>1, AddPagesShape
    <2>3. {} \cup x.over = x.over
      OBVIOUS
    <2>4. Grown(used, NoSpace, x.u, x.d, n.rest \cup x.rest, x.over, {})
      BY <2>2, <2>3, Zenon
    <2>5. x.rest \subseteq x.u \ used
      BY <2>4 DEF Grown
    <2>6. \A v \in Pages : v < StackTop - 2 => d.pte[v] = 0
      BY <2>1, RegionFacts DEF Pages
    <2>7. \A v \in Pages : v < StackTop - 2 /\ space[p].pte[v] = 0 => x.d.pte[v] = 0
      BY <1>3, <1>8, <2>6
    <2> QED
      BY <1>8, <2>1, <2>4, <2>5, <2>7
  <1> QED
    BY <1>8, <1>9, <1>10 DEF Cloned

(* fork. *)
LEMMA ForkKeeps ==
    ASSUME MemoryInv, NEW p \in Procs, NEW c \in Procs, Fork(p, c)
    PROVE  MemoryInv'
  <1>1. PICK n : n = CreateSpace(used)
    OBVIOUS
  <1>2. PICK x : x = CloneUserSpace(n.u, space[p], n.d)
    OBVIOUS
  <1>3. Cloned(p, n, x)
    BY <1>1, <1>2, ForkBuilds
  <1>4. space[c].dir = 0 /\ pend[c] = NoCall /\ shm' = shm /\ next' = next /\ pend' = pend /\ hole' = hole
    BY DEF Fork, Alive
  <1>5. CASE n.ok /\ x.ok
    <2>1. /\ used' = x.u /\ Sets(space, space', c, x.d) /\ Sets(brk, brk', c, HeapBase)
          /\ lost' = lost \cup x.over \cup n.rest /\ gaps' = gaps \ {c}
      BY <1>1, <1>2, <1>5 DEF Fork, Sets
    <2>2. /\ x.u \subseteq Frames /\ x.d \in Space /\ x.d.dir # 0 /\ x.rest = {}
          /\ Grown(used, NoSpace, x.u, x.d, n.rest \cup x.rest, x.over, {})
          /\ \A v \in Pages : v < StackTop - 2 /\ space[p].pte[v] = 0 => x.d.pte[v] = 0
      BY <1>3, <1>5 DEF Cloned
    <2>3. /\ next \in Nat /\ Fit(space[p], brk[p], pend[p], p \in gaps, next)
          /\ Fit(space[c], brk[c], pend[c], c \in gaps, next) /\ Sets(pend, pend', c, NoCall)
      BY <1>4, ProcessFacts
    <2>4. space[c] = NoSpace
      BY <1>4, <2>3 DEF Fit
    <2>5. hole = "none" => Grown(used, space[c], x.u, x.d, n.rest \cup x.rest, x.over, Segments)
      BY <2>2, <2>4, GrownBuilt
    <2>6. ShmTyped' /\ Segments' = Segments /\ (Disjoint => Disjoint')
      BY <1>4, SameShm DEF MemoryInv
    <2>7. PICK R, V : R = n.rest \cup x.rest /\ V = x.over
      OBVIOUS
    <2>8. lost \cup R \cup V \subseteq lost' /\ (hole = "none" => Grown(used, space[c], x.u, x.d, R, V, Segments))
      BY <2>1, <2>2, <2>5, <2>7
    <2>9. Owned'
      BY <1>4, <2>1, <2>6, <2>8, GrowsOwned
    <2>10. PICK d \in Space : d = x.d
      BY <2>2
    <2>11. Fit(d, HeapBase, NoCall, c \in gaps', next')
      <3>1. NoCall.op = "none" /\ Floor(HeapBase, NoCall) = HeapBase
        BY DEF NoCall, Floor
      <3>2. Mapped(d, HeapBase)
        BY RegionFacts DEF Mapped, Pages
      <3>3. \A v \in Pages : next <= v /\ v < StackTop - 2 => d.pte[v] = 0
        BY <2>2, <2>3, <2>10 DEF Fit
      <3> QED
        BY <1>4, <2>2, <2>10, <3>1, <3>2, <3>3 DEF Fit
    <2>12. \A q \in Procs : q = c \/ (q \in gaps' <=> q \in gaps)
      BY <2>1
    <2>13. HeapBase \in HeapBase .. MmapBase /\ NoCall \in Calls
      BY RegionFacts DEF Calls
    <2>14. used' \subseteq Frames /\ next' \in Nat /\ next <= next'
      BY <1>4, <2>1, <2>2, <2>3
    <2>15. Sets(space, space', c, d)
      BY <2>1, <2>10
    <2> QED
      BY <2>1, <2>3, <2>6, <2>9, <2>11, <2>12, <2>13, <2>14, <2>15, OneProcess
  <1>6. CASE ~ (n.ok /\ x.ok)
    <2>1. space' = space /\ brk' = brk /\ gaps' = gaps
      BY <1>1, <1>2, <1>6 DEF Fork
    <2>2. CASE n.ok
      <3>1. used' = Destroyed(x.u, x.d) \ x.rest /\ lost' = lost \cup n.rest \cup x.over
        BY <1>1, <1>2, <1>6, <2>2 DEF Fork
      <3>2. /\ x.d \in Space /\ x.rest \subseteq x.u \ used
            /\ Grown(used, NoSpace, x.u, x.d, n.rest \cup x.rest, x.over, {})
        BY <1>3, <2>2 DEF Cloned
      <3>3. PICK w, R, V, G : w = used' /\ R = n.rest \cup x.rest /\ V = x.over /\ G = x.rest
        OBVIOUS
      <3>4. PICK u, d : u = x.u /\ d = x.d
        OBVIOUS
      <3>5. d \in Space /\ Grown(used, NoSpace, u, d, R, V, {}) /\ G \subseteq u \ used /\ w = Destroyed(u, d) \ G
        BY <3>1, <3>2, <3>3, <3>4
      <3>6. used \subseteq w /\ w \subseteq Frames /\ w \ used \subseteq V \cup (R \ G)
        BY <3>5, GrownDestroyed
      <3>7. used \subseteq used' /\ used' \subseteq Frames /\ lost \subseteq lost' /\ used' \ used \subseteq lost'
        BY <3>1, <3>3, <3>6
      <3> QED
        BY <1>4, <2>1, <3>7, OnlyFrames
    <2>3. CASE ~ n.ok
      <3>1. used' = used /\ lost' = lost
        BY <1>1, <1>2, <1>3, <1>6, <2>3 DEF Fork, Cloned
      <3>2. used \subseteq used' /\ used' \subseteq Frames /\ lost \subseteq lost' /\ used' \ used \subseteq lost'
        BY <3>1, ProcessFacts
      <3> QED
        BY <1>4, <2>1, <3>2, OnlyFrames
    <2> QED
      BY <2>2, <2>3
  <1> QED
    BY <1>5, <1>6

(* No segment loses a frame when a space goes of which no page is shared. *)
LEMMA NothingShared ==
    ASSUME MemoryInv, hole = "none", NEW p \in Procs, Range(space[p].pte) \cap Segments = {}
    PROVE  \A o \in Places : At(space[p], o) \notin Segments
  <1>1. PICK d \in Space : d = space[p]
    BY ProcessFacts
  <1>2. \A v \in Pages : d.pte[v] \in Range(d.pte)
    BY DEF Space, Range
  <1>3. \A v \in Pages : At(d, <<"pte", v>>) \notin Segments
    <2>1. \A v \in Pages : d.pte[v] \notin Segments
      BY <1>1, <1>2
    <2>2. \A v \in Pages : At(d, <<"pte", v>>) = d.pte[v]
      BY AtKinds
    <2> QED
      BY <2>1, <2>2
  <1>4. \A o \in Places : At(d, o) \in Segments => o \in Shared
    BY <1>1 DEF MemoryInv, Owned, Sound
  <1>5. \A o \in Places : o \in Shared => \E v \in Pages : o = <<"pte", v>>
    BY SharedPlaces
  <1> QED
    BY <1>1, <1>3, <1>4, <1>5

(* A step that replaces the space of a process by one built beside it, or  *)
(* by none.                                                                *)
LEMMA ReplacesOwned ==
    ASSUME MemoryInv, NEW p \in Procs, NEW v, v \subseteq Frames, NEW d,
           hole = "none" => Grown(used, NoSpace, v, d, {}, {}, Segments),
           used' = Destroyed(v, space[p]), Sets(space, space', p, d), lost' = lost, shm' = shm,
           hole' = "none" => hole = "none" /\ Range(space[p].pte) \cap Segments = {}
    PROVE  Owned' /\ ShmTyped' /\ used' \subseteq Frames
  <1>1. ShmTyped' /\ Segments' = Segments /\ (Disjoint => Disjoint')
    BY SameShm DEF MemoryInv
  <1>2. Swapped(space, space', p, d)
    BY SetsSwapped
  <1>3. PICK w : w = used'
    OBVIOUS
  <1>4. w = v \ {At(space[p], o) : o \in Places}
    <2>1. space[p] \in Space
      BY ProcessFacts
    <2> QED
      BY <1>3, <2>1, DestroyedIsAt
  <1>5. ASSUME hole' = "none" PROVE Disjoint' /\ Sound(used', space', lost', Segments')
    <2>1. Disjoint /\ Sound(used, space, lost, Segments)
      BY <1>5 DEF MemoryInv, Owned
    <2>2. \A o \in Places : At(space[p], o) \notin Segments
      BY <1>5, NothingShared
    <2>3. PICK S, L, R : S = Segments /\ L = lost /\ R = {}
      OBVIOUS
    <2>4. Grown(used, NoSpace, v, d, R, R, S)
      BY <1>5, <2>3, Zenon
    <2>5. ReplaceStep(used, space, L, S, p, v, d, R, R, space', L, w)
      BY <1>2, <1>4, <2>1, <2>2, <2>3, <2>4 DEF ReplaceStep
    <2>6. Sound(w, space', L, S)
      BY <2>5, SoundReplace
    <2> QED
      BY <1>1, <1>3, <2>1, <2>3, <2>6, Zenon
  <1>6. used' \subseteq Frames
    BY <1>3, <1>4
  <1>7. Owned'
    BY <1>5 DEF Owned
  <1> QED
    BY <1>1, <1>6, <1>7

(* A process goes. *)
LEMMA DestroyKeeps ==
    ASSUME MemoryInv, NEW p \in Procs, Destroy(p)
    PROVE  MemoryInv'
  <1>1. /\ pend[p] = NoCall /\ used' = Destroyed(used, space[p]) /\ Sets(space, space', p, NoSpace)
        /\ hole' = Freeing(Range(space[p].pte), "exit")
        /\ brk' = brk /\ shm' = shm /\ next' = next /\ pend' = pend /\ lost' = lost /\ gaps' = gaps
    BY DEF Destroy, Enter, Sets
  <1>2. /\ used \subseteq Frames /\ brk[p] \in HeapBase .. MmapBase /\ next \in Nat
        /\ Sets(brk, brk', p, brk[p]) /\ Sets(pend, pend', p, NoCall)
    BY <1>1, ProcessFacts
  <1>3. hole' = "none" => hole = "none" /\ Range(space[p].pte) \cap Segments = {}
    BY <1>1 DEF Freeing
  <1>4. hole = "none" => Grown(used, NoSpace, used, NoSpace, {}, {}, Segments)
    <2>1. hole = "none" => Segments \in SUBSET used
      BY DEF MemoryInv, Owned, Sound
    <2>2. \A o \in Places : At(NoSpace, o) = 0 \/ At(NoSpace, o) \in used
      BY NoSpaceFacts
    <2> QED
      BY <1>2, <2>1, <2>2, GrownStart
  <1>5. Owned' /\ ShmTyped' /\ used' \subseteq Frames
    BY <1>1, <1>2, <1>3, <1>4, ReplacesOwned
  <1>6. NoCall \in Calls /\ NoSpace \in Space
    BY NoSpaceFacts DEF Calls
  <1>7. Fit(NoSpace, brk[p], NoCall, p \in gaps', next')
    BY NoSpaceFacts DEF Fit, NoCall
  <1>8. next' \in Nat /\ next <= next' /\ \A q \in Procs : q = p \/ (q \in gaps' <=> q \in gaps)
    BY <1>1, <1>2
  <1> QED
    BY <1>1, <1>2, <1>5, <1>6, <1>7, <1>8, OneProcess

(* The space that exec builds. *)
Loaded(c, x) ==
    /\ c.ok \in BOOLEAN /\ x.ok \in BOOLEAN
    /\ c.u \subseteq Frames /\ x.u \subseteq Frames /\ x.d \in Space
    /\ c.ok => x.d.dir # 0
    /\ x.ok => Grown(used, NoSpace, x.u, x.d, {}, {}, {})
    /\ \A v \in Pages : ShmBase <= v => x.d.pte[v] = 0
(* A directory, the pages of the program and of its stack. *)
LEMMA ExecBuilds ==
    ASSUME MemoryInv, NEW c, c = CreateDirectory(used), NEW x, x = AddPages(c.u, c.d, Image),
           used \subseteq Frames
    PROVE  Loaded(c, x)
  <1>1. DirectoryMade(used, c)
    BY CreateDirectoryFacts
  <1>2. PICK u, d : u = c.u /\ d = c.d
    OBVIOUS
  <1>3. /\ c.ok \in BOOLEAN /\ u \in SUBSET Frames /\ d \in Space /\ (c.ok <=> d.dir # 0)
        /\ (\A v \in Pages : d.pte[v] = 0) /\ Grown(used, NoSpace, u, d, {}, {}, {})
    BY <1>1, <1>2 DEF DirectoryMade
  <1>4. x = AddPages(u, d, Image)
    BY <1>2
  <1>5. AddShape(d, Image, x, StackTop)
    BY <1>3, <1>4, AddPagesShape
  <1>6. /\ x.ok \in BOOLEAN /\ x.u \subseteq Frames /\ x.d \in Space /\ x.d.dir = d.dir /\ (x.ok => x.rest = {})
        /\ (\A w \in Pages : w \notin Image => x.d.pte[w] = d.pte[w])
    BY <1>5 DEF AddShape, Adding
  <1>7. x.over = {}
    <2>1. \A g \in x.over : \E w \in Pages : w \in Image /\ d.pte[w] = g /\ g # 0
      BY <1>5 DEF AddShape
    <2> QED
      BY <1>3, <2>1
  <1>8. ASSUME x.ok PROVE Grown(used, NoSpace, x.u, x.d, {}, {}, {})
    <2>1. Grown(used, NoSpace, x.u, x.d, {} \cup x.rest, {} \cup x.over, {})
      BY <1>3, <1>4, AddPagesShape
    <2>2. {} \cup x.rest = {} /\ {} \cup x.over = {}
      BY <1>6, <1>7, <1>8
    <2> QED
      BY <2>1, <2>2, Zenon
  <1>9. \A v \in Pages : ShmBase <= v => x.d.pte[v] = 0
    <2>1. \A v \in Pages : ShmBase <= v => v \notin Image
      BY RegionFacts DEF Pages
    <2> QED
      BY <1>3, <1>6, <2>1
  <1>10. c.u \subseteq Frames /\ (c.ok => x.d.dir # 0)
    BY <1>2, <1>3, <1>6
  <1> QED
    BY <1>3, <1>6, <1>8, <1>9, <1>10 DEF Loaded

(* exec. *)
LEMMA ExecveKeeps ==
    ASSUME MemoryInv, NEW p \in Procs, NEW fails \in {"none", "short", "late"}, Execve(p, fails)
    PROVE  MemoryInv'
  <1>1. PICK c : c = CreateDirectory(used)
    OBVIOUS
  <1>2. PICK x : x = AddPages(c.u, c.d, Image)
    OBVIOUS
  <1>3. used \subseteq Frames
    BY ProcessFacts
  <1>4. Loaded(c, x)
    BY <1>1, <1>2, <1>3, ExecBuilds
  <1>5. pend[p] = NoCall /\ brk' = brk /\ shm' = shm /\ next' = next /\ pend' = pend
    BY DEF Execve, Enter
  <1>6. CASE c.ok /\ x.ok /\ fails = "none"
    <2>1. /\ used' = Destroyed(x.u, space[p]) /\ Sets(space, space', p, x.d)
          /\ hole' = Freeing(Range(space[p].pte), "exec")
          /\ gaps' = gaps \cup {p} /\ lost' = lost
      BY <1>1, <1>2, <1>6 DEF Execve, Sets
    <2>2. PICK d, v : d = x.d /\ v = x.u
      OBVIOUS
    <2>3. /\ d.dir # 0 /\ d \in Space /\ v \subseteq Frames /\ Grown(used, NoSpace, v, d, {}, {}, {})
          /\ \A w \in Pages : ShmBase <= w => d.pte[w] = 0
      BY <1>4, <1>6, <2>2 DEF Loaded
    <2>4. hole = "none" => Grown(used, NoSpace, v, d, {}, {}, Segments)
      BY <2>3, GrownBuilt
    <2>5. hole' = "none" => hole = "none" /\ Range(space[p].pte) \cap Segments = {}
      BY <2>1 DEF Freeing
    <2>6. used' = Destroyed(v, space[p]) /\ Sets(space, space', p, d)
      BY <2>1, <2>2
    <2>7. Owned' /\ ShmTyped' /\ used' \subseteq Frames
      BY <1>5, <2>1, <2>3, <2>4, <2>5, <2>6, ReplacesOwned
    <2>8. /\ brk[p] \in HeapBase .. MmapBase /\ next \in Nat /\ ShmBase <= next
          /\ Sets(brk, brk', p, brk[p]) /\ Sets(pend, pend', p, NoCall)
      BY <1>5, ProcessFacts
    <2>9. Fit(d, brk[p], NoCall, p \in gaps', next')
      <3>1. NoCall.op = "none" /\ p \in gaps'
        BY <2>1 DEF NoCall
      <3>2. \A w \in Pages : next <= w => ShmBase <= w
        BY <2>8, RegionFacts DEF Pages
      <3> QED
        BY <1>5, <2>3, <3>1, <3>2 DEF Fit
    <2>10. next' \in Nat /\ next <= next' /\ \A q \in Procs : q = p \/ (q \in gaps' <=> q \in gaps)
      BY <1>5, <2>1, <2>8
    <2>11. NoCall \in Calls
      BY DEF Calls
    <2> QED
      BY <2>3, <2>6, <2>7, <2>8, <2>9, <2>10, <2>11, OneProcess
  <1>7. CASE ~ (c.ok /\ x.ok /\ fails = "none")
    <2>1. PICK b : b = IF fails = "short" THEN c.u \ used ELSE x.u \ used
      OBVIOUS
    <2>2. used' = used \cup b /\ lost' = lost \cup b /\ space' = space /\ hole' = hole /\ gaps' = gaps
      BY <1>1, <1>2, <1>7, <2>1 DEF Execve
    <2>3. b \subseteq Frames
      BY <1>4, <2>1 DEF Loaded
    <2>4. used \subseteq used' /\ used' \subseteq Frames /\ lost \subseteq lost' /\ used' \ used \subseteq lost'
      BY <1>3, <2>2, <2>3
    <2> QED
      BY <1>5, <2>2, <2>4, OnlyFrames
  <1> QED
    BY <1>6, <1>7

(***************************************************************************)
(* Shared memory.                                                          *)
(***************************************************************************)

(* A step that changes no process. *)
LEMMA OnlyShm ==
    ASSUME MemoryInv, space' = space, brk' = brk, pend' = pend, next' = next, gaps' = gaps,
           used' \subseteq Frames, ShmTyped', Owned'
    PROVE  MemoryInv'
  <1>1. Typed'
    BY DEF MemoryInv, Typed
  <1>2. Fits'
    <2>1. ASSUME NEW p \in Procs PROVE Fit(space'[p], brk'[p], pend'[p], p \in gaps', next')
      <3>1. Fit(space[p], brk[p], pend[p], p \in gaps, next)
        BY ProcessFacts
      <3> QED
        BY <3>1, Zenon
    <2> QED
      BY <2>1 DEF Fits
  <1> QED
    BY <1>1, <1>2 DEF MemoryInv

(* One slot of the table is written. *)
LEMMA OneSlot ==
    ASSUME ShmTyped, NEW s \in 1 .. Slots, NEW g \in Segment, Sets(shm, shm', s, g),
           g.valid => 1 <= g.base /\ g.base + g.n <= FrameCount + 1
    PROVE  /\ ShmTyped' /\ shm'[s] = g
           /\ \A t \in 1 .. Slots : t = s \/ (shm'[t] = shm[t] /\ SegmentFrames(t)' = SegmentFrames(t))
  <1>1. shm \in [1 .. Slots -> Segment]
    BY DEF ShmTyped
  <1>2. shm' \in [1 .. Slots -> Segment] /\ shm'[s] = g /\ \A t \in 1 .. Slots : t = s \/ shm'[t] = shm[t]
    BY <1>1 DEF Sets
  <1>3. \A t \in 1 .. Slots : shm'[t].valid => 1 <= shm'[t].base /\ shm'[t].base + shm'[t].n <= FrameCount + 1
    BY <1>2 DEF ShmTyped
  <1>4. \A t \in 1 .. Slots : t = s \/ SegmentFrames(t)' = SegmentFrames(t)
    BY <1>2 DEF SegmentFrames
  <1> QED
    BY <1>2, <1>3, <1>4 DEF ShmTyped

(* The frames of the segments after that. *)
LEMMA OneSlotFrames ==
    ASSUME ShmTyped, ShmTyped', NEW s \in 1 .. Slots,
           \A t \in 1 .. Slots : t = s \/ SegmentFrames(t)' = SegmentFrames(t)
    PROVE  \A f : f \in Segments' <=> \/ f \in SegmentFrames(s)'
                                      \/ \E t \in 1 .. Slots : t # s /\ f \in SegmentFrames(t)
  <1>1. DOMAIN shm' = 1 .. Slots
    BY DEF ShmTyped
  <1>2. \A f : f \in Segments' <=> \E t \in 1 .. Slots : f \in SegmentFrames(t)'
    BY <1>1 DEF Segments
  <1> QED
    BY <1>2

(* A segment is made. *)
LEMMA ShmgetKeeps ==
    ASSUME MemoryInv, NEW p \in Procs, NEW n \in 1 .. 2, Shmget(p, n)
    PROVE  MemoryInv'
  <1>1. PICK free : free = {s \in DOMAIN shm : ~ shm[s].valid}
    OBVIOUS
  <1>2. PICK f : f = FirstFree(used)
    OBVIOUS
  <1>3. PICK T : T = f .. f + n - 1
    OBVIOUS
  <1>4. /\ space' = space /\ brk' = brk /\ next' = next /\ pend' = pend /\ lost' = lost
        /\ hole' = hole /\ gaps' = gaps
    BY DEF Shmget
  <1>5. used \subseteq Frames /\ ShmTyped
    BY ProcessFacts DEF MemoryInv
  <1>6. CASE free # {} /\ f # 0 /\ T \subseteq Frames \ used
    <2>1. PICK s : s = Min(free)
      OBVIOUS
    <2>2. PICK g : g = [valid |-> TRUE, base |-> f, n |-> n, nattch |-> 0]
      OBVIOUS
    <2>3. used' = used \cup T /\ Sets(shm, shm', s, g)
      BY <1>1, <1>2, <1>3, <1>6, <2>1, <2>2 DEF Shmget, Sets
    <2>4. s \in 1 .. Slots /\ ~ shm[s].valid
      <3>1. DOMAIN shm = 1 .. Slots
        BY <1>5 DEF ShmTyped
      <3>2. free \subseteq Nat
        BY <1>1, <3>1
      <3>3. s \in free
        BY <1>6, <2>1, <3>2, MinIn
      <3> QED
        BY <1>1, <3>1, <3>3
    <2>5. f \in Nat /\ 1 <= f /\ f + n <= FrameCount + 1
      <3>1. f \in Frames
        BY <1>2, <1>6, FirstFreeFacts
      <3>2. f \in Nat /\ 1 <= f
        BY <3>1, FrameAssumption DEF Frames
      <3>3. f + n - 1 \in T
        BY <1>3, <3>2
      <3> QED
        BY <1>6, <3>2, <3>3, FrameAssumption DEF Frames
    <2>6. g \in Segment /\ g.base = f /\ g.n = n
      BY <2>2, <2>5 DEF Segment
    <2>7. g.valid
      BY <2>2
    <2>8. /\ ShmTyped' /\ shm'[s] = g
          /\ \A t \in 1 .. Slots : t = s \/ (shm'[t] = shm[t] /\ SegmentFrames(t)' = SegmentFrames(t))
      BY <1>5, <2>3, <2>4, <2>5, <2>6, OneSlot
    <2>9. SegmentFrames(s)' = T /\ SegmentFrames(s) = {}
      BY <1>3, <2>4, <2>6, <2>7, <2>8 DEF SegmentFrames
    <2>10. Segments' = Segments \cup T
      <3>1. \A h : h \in Segments' <=> h \in T \/ \E t \in 1 .. Slots : t # s /\ h \in SegmentFrames(t)
        BY <1>5, <2>4, <2>8, <2>9, OneSlotFrames
      <3>2. \A h : h \in Segments <=> \E t \in 1 .. Slots : t # s /\ h \in SegmentFrames(t)
        BY <1>5, <2>9, SegmentsHave
      <3> QED
        BY <3>1, <3>2
    <2>11. used' \subseteq Frames
      BY <1>5, <1>6, <2>3
    <2>12. ASSUME hole = "none" PROVE Disjoint' /\ Sound(used', space', lost', Segments')
      <3>1. Disjoint /\ Sound(used, space, lost, Segments)
        BY <2>12 DEF MemoryInv, Owned
      <3>2. T \cap used = {} /\ T \subseteq Frames
        BY <1>6
      <3>3. Sound(used \cup T, space, lost, Segments \cup T)
        BY <3>1, <3>2, SoundSegment
      <3>4. \A t \in 1 .. Slots : SegmentFrames(t) \cap T = {}
        <4>1. Segments \subseteq used
          BY <3>1 DEF Sound
        <4> QED
          BY <1>5, <3>2, <4>1, SegmentsHave
      <3>5. Disjoint'
        <4>1. \A t \in 1 .. Slots : SegmentFrames(t)' = IF t = s THEN T ELSE SegmentFrames(t)
          BY <2>8, <2>9
        <4>2. \A t, r \in 1 .. Slots : t = r \/ SegmentFrames(t) \cap SegmentFrames(r) = {}
          BY <3>1 DEF Disjoint
        <4>3. \A t, r \in 1 .. Slots : t = r \/ SegmentFrames(t)' \cap SegmentFrames(r)' = {}
          BY <3>4, <4>1, <4>2
        <4> QED
          BY <4>3 DEF Disjoint
      <3> QED
        BY <1>4, <2>3, <2>10, <3>3, <3>5, Zenon
    <2>13. Owned'
      BY <1>4, <2>12 DEF Owned
    <2> QED
      BY <1>4, <2>8, <2>11, <2>13, OnlyShm
  <1>7. CASE ~ (free # {} /\ f # 0 /\ T \subseteq Frames \ used)
    <2>1. used' = used /\ shm' = shm
      BY <1>1, <1>2, <1>3, <1>7 DEF Shmget
    <2>2. Owned' /\ ShmTyped'
      BY <1>4, <2>1, OwnedSame
    <2> QED
      BY <1>4, <1>5, <2>1, <2>2, OnlyShm
  <1> QED
    BY <1>6, <1>7

(* A segment is removed. *)
LEMMA RmidKeeps ==
    ASSUME MemoryInv, NEW p \in Procs, NEW s \in 1 .. Slots, Rmid(p, s)
    PROVE  MemoryInv'
  <1>1. /\ space' = space /\ brk' = brk /\ next' = next /\ pend' = pend /\ lost' = lost
        /\ gaps' = gaps
    BY DEF Rmid
  <1>2. used \subseteq Frames /\ ShmTyped
    BY ProcessFacts DEF MemoryInv
  <1>3. CASE shm[s].nattch = 0
    <2>1. PICK T : T = SegmentFrames(s)
      OBVIOUS
    <2>2. PICK g : g = [shm[s] EXCEPT !.valid = FALSE]
      OBVIOUS
    <2>3. used' = used \ T /\ Sets(shm, shm', s, g)
      BY <1>3, <2>1, <2>2 DEF Rmid, Sets
    <2>4. hole' = "none" => hole = "none" /\ \A q \in Procs : Range(space[q].pte) \cap T = {}
      BY <1>3, <2>1 DEF Rmid
    <2>5. shm[s] \in Segment
      BY <1>2 DEF ShmTyped
    <2>6. g \in Segment
      BY <2>2, <2>5 DEF Segment
    <2>7. ~ g.valid
      BY <2>2, <2>5 DEF Segment
    <2>8. /\ ShmTyped' /\ shm'[s] = g
          /\ \A t \in 1 .. Slots : t = s \/ (shm'[t] = shm[t] /\ SegmentFrames(t)' = SegmentFrames(t))
      BY <1>2, <2>3, <2>6, <2>7, OneSlot
    <2>9. SegmentFrames(s)' = {}
      BY <2>7, <2>8 DEF SegmentFrames
    <2>10. used' \subseteq Frames
      BY <1>2, <2>3
    <2>11. ASSUME hole' = "none" PROVE Disjoint' /\ Sound(used', space', lost', Segments')
      <3>1. Disjoint /\ Sound(used, space, lost, Segments)
        BY <2>4, <2>11 DEF MemoryInv, Owned
      <3>2. \A t, r \in 1 .. Slots : t = r \/ SegmentFrames(t) \cap SegmentFrames(r) = {}
        BY <3>1 DEF Disjoint
      <3>3. Segments' = Segments \ T
        <4>1. \A h : h \in Segments' <=> \E t \in 1 .. Slots : t # s /\ h \in SegmentFrames(t)
          BY <1>2, <2>8, <2>9, OneSlotFrames
        <4>2. \A h : h \in Segments <=> \E t \in 1 .. Slots : h \in SegmentFrames(t)
          BY <1>2, SegmentsHave
        <4>3. \A t \in 1 .. Slots : t = s \/ SegmentFrames(t) \cap T = {}
          BY <2>1, <3>2
        <4> QED
          BY <2>1, <4>1, <4>2, <4>3
      <3>4. T \subseteq Segments
        BY <1>2, <2>1, SegmentsHave
      <3>5. ASSUME NEW q \in Procs, NEW o \in Places PROVE At(space[q], o) \notin T
        <4>1. At(space[q], o) \in Segments => o \in Shared
          BY <3>1 DEF Sound
        <4>2. ASSUME o \in Shared PROVE At(space[q], o) \notin T
          <5>1. PICK v \in Pages : o = <<"pte", v>>
            BY <4>2, SharedPlaces
          <5>2. At(space[q], o) = space[q].pte[v]
            BY <5>1, AtKinds
          <5>3. space[q] \in Space
            BY ProcessFacts
          <5>4. space[q].pte[v] \in Range(space[q].pte)
            BY <5>3 DEF Space, Range
          <5>5. Range(space[q].pte) \cap T = {}
            BY <2>4, <2>11
          <5> QED
            BY <5>2, <5>4, <5>5
        <4> QED
          BY <3>4, <4>1, <4>2
      <3>6. Sound(used \ T, space, lost, Segments \ T)
        BY <3>1, <3>4, <3>5, SoundRemove
      <3>7. Disjoint'
        <4>1. \A t \in 1 .. Slots : SegmentFrames(t)' = IF t = s THEN {} ELSE SegmentFrames(t)
          BY <2>8, <2>9
        <4>2. \A t, r \in 1 .. Slots : t = r \/ SegmentFrames(t)' \cap SegmentFrames(r)' = {}
          BY <3>2, <4>1
        <4> QED
          BY <4>2 DEF Disjoint
      <3> QED
        BY <1>1, <2>3, <3>3, <3>6, <3>7, Zenon
    <2>12. Owned'
      BY <2>11 DEF Owned
    <2> QED
      BY <1>1, <2>8, <2>10, <2>12, OnlyShm
  <1>4. CASE shm[s].nattch # 0
    <2>1. used' = used /\ shm' = shm /\ hole' = hole
      BY <1>4 DEF Rmid
    <2>2. Owned' /\ ShmTyped'
      BY <1>1, <2>1, OwnedSame
    <2> QED
      BY <1>1, <1>2, <2>1, <2>2, OnlyShm
  <1> QED
    BY <1>3, <1>4

(* The count of a segment changes. *)
LEMMA OnlyCount ==
    ASSUME ShmTyped, NEW s \in 1 .. Slots, NEW k \in Int, shm' = [shm EXCEPT ![s].nattch = k]
    PROVE  ShmTyped' /\ Segments' = Segments /\ (Disjoint => Disjoint')
  <1>1. shm \in [1 .. Slots -> Segment] /\ DOMAIN shm = 1 .. Slots
    BY DEF ShmTyped
  <1>2. PICK g : g = [shm[s] EXCEPT !.nattch = k]
    OBVIOUS
  <1>3. shm[s] \in Segment
    BY <1>1
  <1>4. g \in Segment /\ g.base = shm[s].base /\ g.n = shm[s].n
    BY <1>2, <1>3 DEF Segment
  <1>5. g.valid = shm[s].valid
    BY <1>2, <1>3 DEF Segment
  <1>6. Sets(shm, shm', s, g)
    BY <1>2 DEF Sets
  <1>7. g.valid => 1 <= g.base /\ g.base + g.n <= FrameCount + 1
    BY <1>4, <1>5 DEF ShmTyped
  <1>8. ShmTyped' /\ shm'[s] = g /\ \A t \in 1 .. Slots : t = s \/ shm'[t] = shm[t]
    BY <1>4, <1>6, <1>7, OneSlot
  <1>9. DOMAIN shm' = 1 .. Slots
    BY <1>8 DEF ShmTyped
  <1>10. \A t \in 1 .. Slots :
              shm'[t].valid = shm[t].valid /\ shm'[t].base = shm[t].base /\ shm'[t].n = shm[t].n
    BY <1>4, <1>5, <1>8, Zenon
  <1> QED
    BY <1>1, <1>8, <1>9, <1>10, SameSegments

(* A segment is detached. *)
LEMMA ShmdtKeeps ==
    ASSUME MemoryInv, NEW p \in Procs, NEW a \in ShmBase .. ShmBase + 1, Shmdt(p, a)
    PROVE  MemoryInv'
  <1>1. PICK valid : valid = {s \in DOMAIN shm : shm[s].valid}
    OBVIOUS
  <1>2. PICK s : s = Min(valid)
    OBVIOUS
  <1>3. PICK vs : vs = a .. a + shm[s].n - 1
    OBVIOUS
  <1>4. /\ space[p].dir # 0 /\ pend[p] = NoCall /\ valid # {} /\ vs \in SUBSET Pages
        /\ shm' = [shm EXCEPT ![s].nattch = @ - 1]
        /\ hole' = Freeing({space[p].pte[v] : v \in vs}, "detach")
        /\ brk' = brk /\ next' = next /\ pend' = pend /\ lost' = lost /\ gaps' = gaps
    BY <1>1, <1>2, <1>3 DEF Shmdt, Enter, Alive
  <1>5. ShmTyped
    BY DEF MemoryInv
  <1>6. s \in 1 .. Slots
    <2>1. DOMAIN shm = 1 .. Slots
      BY <1>5 DEF ShmTyped
    <2>2. valid \subseteq Nat
      BY <1>1, <2>1
    <2>3. s \in valid
      BY <1>2, <1>4, <2>2, MinIn
    <2> QED
      BY <1>1, <2>1, <2>3
  <1>7. ShmTyped' /\ Segments' = Segments /\ (Disjoint => Disjoint')
    <2>1. PICK k : k = shm[s].nattch - 1
      OBVIOUS
    <2>2. k \in Int
      BY <1>5, <1>6, <2>1 DEF ShmTyped, Segment
    <2>3. shm' = [shm EXCEPT ![s].nattch = k]
      BY <1>4, <2>1
    <2> QED
      BY <1>5, <1>6, <2>2, <2>3, OnlyCount
  <1>8. Unmaps(p, vs)
    <2>1. UnmapPages(used, space[p], vs).u = used \ {space[p].pte[v] : v \in vs}
      BY DEF UnmapPages
    <2>2. UnmapPages(used, space[p], vs).d = Cleared(space[p], vs)
      BY DEF UnmapPages
    <2> QED
      BY <1>1, <1>2, <1>3, <2>1, <2>2 DEF Shmdt, Unmaps, Sets
  <1>9. /\ space[p] \in Space /\ brk[p] \in HeapBase .. MmapBase
        /\ Fit(space[p], brk[p], NoCall, p \in gaps, next) /\ Sets(pend, pend', p, NoCall)
    BY <1>4, ProcessFacts
  <1>10. NoCall \in Calls /\ Floor(brk[p], NoCall) = brk[p]
    BY DEF NoCall, Calls, Floor
  <1>11. \A v \in Pages : v \in vs => ~ v < Floor(brk[p], NoCall)
    <2>1. \A v \in vs : a <= v
      BY <1>3
    <2> QED
      BY <1>9, <1>10, <2>1, RegionFacts DEF Pages
  <1>12. Fit(Cleared(space[p], vs), brk[p], NoCall, p \in gaps, next) /\ Cleared(space[p], vs) \in Space
    BY <1>4, <1>9, <1>11, FitCleared
  <1>13. hole' = "none" => hole = "none" /\ \A v \in vs : space[p].pte[v] \notin Segments
    BY <1>4 DEF Freeing
  <1> QED
    BY <1>4, <1>7, <1>8, <1>9, <1>10, <1>12, <1>13, UnmapsKeeps

(* The space after its pages from a on were given to a segment. *)
LEMMA FitAttached ==
    ASSUME NEW d \in Space, NEW b \in HeapBase .. MmapBase, NEW e, NEW a \in Nat, ShmBase <= a, d.dir # 0,
           Fit(d, b, NoCall, e, a), NEW f, NEW n \in Nat, NEW x, AttachShape(d, a, f, n, x, n)
    PROVE  Fit(x.d, b, NoCall, e, a + n) /\ x.d.dir # 0 /\ x.d \in Space
  <1>1. PICK h : h = x.d
    OBVIOUS
  <1>2. h \in Space /\ h.dir = d.dir /\ \A w \in Pages : (w < a \/ a + n <= w) => h.pte[w] = d.pte[w]
    BY <1>1 DEF AttachShape, AttachState
  <1>3. NoCall.op = "none" /\ Floor(b, NoCall) = b
    BY DEF NoCall, Floor
  <1>4. \A w \in Pages : a + n <= w /\ w < StackTop - 2 => h.pte[w] = 0
    <2>1. \A w \in Pages : a + n <= w => a <= w
      BY DEF Pages
    <2> QED
      BY <1>2, <2>1 DEF Fit
  <1>5. e \/ Mapped(h, b)
    <2>1. e \/ Mapped(d, b)
      BY <1>3 DEF Fit
    <2>2. \A w \in Pages : w < b => w < a
      BY RegionFacts DEF Pages
    <2> QED
      BY <1>2, <2>1, <2>2 DEF Mapped
  <1>6. Fit(h, b, NoCall, e, a + n)
    BY <1>2, <1>3, <1>4, <1>5 DEF Fit
  <1> QED
    BY <1>1, <1>2, <1>6

(* Taking the pages of a segment out again. *)
LEMMA GrownDetached ==
    ASSUME NEW u0, NEW d \in Space, NEW S, NEW a, NEW f, NEW n, NEW x, AttachShape(d, a, f, n, x, n),
           Attachable(d, a, f, n), f .. f + n - 1 \subseteq S,
           Grown(u0, d, x.u, x.d, {}, {}, S), NEW vs, \A w \in Pages : w \in vs => a <= w /\ w < a + n
    PROVE  Grown(u0, d, x.u, Cleared(x.d, vs), {}, {}, S)
  <1>1. PICK h, e : h = x.d /\ e = Cleared(h, vs)
    OBVIOUS
  <1>2. h \in Space /\ \A w \in Pages : a <= w /\ w < a + n => h.pte[w] \in S \cup {0}
    BY <1>1 DEF AttachShape, AttachState
  <1>3. \A w \in Pages : a <= w /\ w < a + n => d.pte[w] = 0
    BY DEF Attachable
  <1>4. \A w \in Pages : w \in vs => a <= w /\ w < a + n
    OBVIOUS
  <1>5. ASSUME NEW o \in Places
        PROVE  \/ At(e, o) = At(h, o)
               \/ At(e, o) = 0 /\ At(d, o) = 0 /\ At(h, o) \in S \cup {0}
    <2>0. /\ \A v \in Pages : v \in vs => At(e, <<"pte", v>>) = 0
          /\ \A r \in Places : At(e, r) = At(h, r) \/ \E v \in Pages : v \in vs /\ r = <<"pte", v>>
      <3>1. e = Cleared(h, vs) /\ h \in Space
        BY <1>1, <1>2
      <3>2. \A v \in Pages : v \in vs => At(e, <<"pte", v>>) = 0
        BY <3>1, ClearedFacts
      <3>3. \A r \in Places : At(e, r) = At(h, r) \/ \E v \in Pages : v \in vs /\ r = <<"pte", v>>
        BY <3>1, ClearedFacts
      <3> QED
        BY <3>2, <3>3
    <2>1. At(e, o) = At(h, o) \/ \E w \in Pages : w \in vs /\ o = <<"pte", w>>
      BY <2>0
    <2>2. ASSUME NEW w \in Pages, w \in vs, o = <<"pte", w>>
          PROVE  At(e, o) = 0 /\ At(d, o) = 0 /\ At(h, o) \in S \cup {0}
      <3>1. At(e, o) = 0
        BY <2>0, <2>2
      <3>2. At(d, o) = d.pte[w] /\ At(h, o) = h.pte[w]
        BY <2>2, AtKinds
      <3> QED
        BY <1>2, <1>3, <1>4, <2>2, <3>1, <3>2
    <2> QED
      BY <2>1, <2>2
  <1>6. Grown(u0, d, x.u, h, {}, {}, S)
    BY <1>1
  <1>7. Grown(u0, d, x.u, e, {}, {}, S)
    BY <1>5, <1>6, GrownUnshare
  <1> QED
    BY <1>1, <1>7

(* A segment is attached. *)
LEMMA ShmatKeeps ==
    ASSUME MemoryInv, NEW p \in Procs, NEW s \in 1 .. Slots, Shmat(p, s)
    PROVE  MemoryInv'
  <1>1. PICK n, f, d : n = shm[s].n /\ f = shm[s].base /\ d = space[p]
    OBVIOUS
  <1>2. PICK x : x = Attached(p, s, next)
    OBVIOUS
  <1>3. PICK vs : vs = next .. next + n - 1
    OBVIOUS
  <1>4. /\ d.dir # 0 /\ pend[p] = NoCall /\ shm[s].valid /\ next + n <= StackTop - 2
        /\ used' = x.u /\ Sets(space, space', p, IF x.ok THEN x.d ELSE Cleared(x.d, vs))
        /\ next' = next + n
        /\ brk' = brk /\ pend' = pend /\ lost' = lost /\ hole' = hole /\ gaps' = gaps
    BY <1>1, <1>2, <1>3 DEF Shmat, Attach, Enter, Alive, Sets
  <1>5. shm' = IF x.ok THEN [shm EXCEPT ![s].nattch = @ + 1] ELSE shm
    BY <1>1, <1>2, <1>3 DEF Shmat, Attach
  <1>6. /\ d \in Space /\ brk[p] \in HeapBase .. MmapBase /\ next \in Nat /\ ShmBase <= next
        /\ Fit(d, brk[p], NoCall, p \in gaps, next) /\ Sets(pend, pend', p, NoCall)
        /\ Sets(brk, brk', p, brk[p]) /\ used \subseteq Frames
    BY <1>1, <1>4, ProcessFacts
  <1>7. ShmTyped
    BY DEF MemoryInv
  <1>8. n \in Nat /\ f \in Nat /\ 1 <= f /\ f + n <= FrameCount + 1
    BY <1>1, <1>4, <1>7 DEF ShmTyped, Segment
  <1>9. Attachable(d, next, f, n)
    <2>1. \A w \in Pages : next <= w /\ w < next + n => next <= w /\ w < StackTop - 2
      BY <1>4, <1>6, <1>8, RegionFacts DEF Pages
    <2>2. \A w \in Pages : next <= w /\ w < next + n => d.pte[w] = 0
      BY <1>6, <2>1 DEF Fit
    <2>3. next + n <= StackTop
      BY <1>4, <1>6, <1>8, RegionFacts
    <2> QED
      BY <1>6, <1>8, <2>2, <2>3 DEF Attachable
  <1>10. f .. f + n - 1 \subseteq Segments
    <2>1. SegmentFrames(s) = f .. f + n - 1
      BY <1>1, <1>4 DEF SegmentFrames
    <2> QED
      BY <1>7, <2>1, SegmentsHave
  <1>11. Attachable(space[p], next, shm[s].base, shm[s].n) /\ space[p] \in Space
    BY <1>1, <1>6, <1>9
  <1>12. AttachShape(d, next, f, n, x, n)
    <2>1. AttachShape(space[p], next, shm[s].base, shm[s].n, Attached(p, s, next), shm[s].n)
      BY <1>6, <1>11, AttachedShape
    <2> QED
      BY <1>1, <1>2, <2>1
  <1>13. ASSUME hole = "none" PROVE Grown(used, d, x.u, x.d, {}, {}, Segments)
    <2>1. Grown(used, space[p], used, space[p], {}, {}, Segments)
      BY <1>13, GrownOwn
    <2>2. shm[s].base .. shm[s].base + shm[s].n - 1 \subseteq Segments
      BY <1>1, <1>10
    <2>3. Grown(used, space[p], Attached(p, s, next).u, Attached(p, s, next).d, {}, {}, Segments)
      BY <1>6, <1>11, <2>1, <2>2, AttachedShape
    <2> QED
      BY <1>1, <1>2, <2>3
  <1>14. Fit(x.d, brk[p], NoCall, p \in gaps, next + n) /\ x.d.dir # 0 /\ x.d \in Space
    BY <1>4, <1>6, <1>8, <1>12, FitAttached
  <1>15. next' \in Nat /\ next <= next' /\ \A q \in Procs : q = p \/ (q \in gaps' <=> q \in gaps)
    BY <1>4, <1>6, <1>8
  <1>16. NoCall \in Calls /\ Floor(brk[p], NoCall) = brk[p]
    BY DEF NoCall, Calls, Floor
  <1>17. used' \subseteq Frames
    BY <1>4, <1>12 DEF AttachShape, AttachState
  <1>18. ShmTyped' /\ Segments' = Segments /\ (Disjoint => Disjoint')
    <2>1. CASE x.ok
      <3>1. PICK k : k = shm[s].nattch + 1
        OBVIOUS
      <3>2. k \in Int
        BY <1>7, <3>1 DEF ShmTyped, Segment
      <3>3. shm' = [shm EXCEPT ![s].nattch = k]
        BY <1>5, <2>1, <3>1
      <3> QED
        BY <1>7, <3>2, <3>3, OnlyCount
    <2>2. CASE ~ x.ok
      BY <1>5, <1>7, <2>2, SameShm
    <2> QED
      BY <2>1, <2>2
  <1>19. PICK e : e = IF x.ok THEN x.d ELSE Cleared(x.d, vs)
    OBVIOUS
  <1>20. e \in Space /\ Fit(e, brk[p], NoCall, p \in gaps, next + n)
    <2>1. CASE x.ok
      BY <1>14, <1>19, <2>1
    <2>2. CASE ~ x.ok
      <3>1. \A v \in Pages : v \in vs => ~ v < Floor(brk[p], NoCall)
        BY <1>3, <1>6, <1>8, <1>16, RegionFacts DEF Pages
      <3>2. Fit(Cleared(x.d, vs), brk[p], NoCall, p \in gaps, next + n) /\ Cleared(x.d, vs) \in Space
        BY <1>14, <3>1, FitCleared
      <3> QED
        BY <1>19, <2>2, <3>2
    <2> QED
      BY <2>1, <2>2
  <1>21. hole = "none" => Grown(used, space[p], x.u, e, {}, {}, Segments)
    <2>1. CASE x.ok
      BY <1>1, <1>13, <1>19, <2>1
    <2>2. CASE ~ x.ok
      <3>0. \A w \in Pages : w \in vs => next <= w /\ w < next + n
        BY <1>3, <1>6, <1>8 DEF Pages
      <3>1. hole = "none" => Grown(used, d, x.u, Cleared(x.d, vs), {}, {}, Segments)
        BY <1>6, <1>9, <1>10, <1>12, <1>13, <3>0, GrownDetached
      <3> QED
        BY <1>1, <1>19, <2>2, <3>1
    <2> QED
      BY <2>1, <2>2
  <1>22. Sets(space, space', p, e) /\ lost \cup {} \cup {} \subseteq lost'
    BY <1>4, <1>19
  <1>23. Owned'
    BY <1>4, <1>18, <1>21, <1>22, GrowsOwned
  <1>24. Fit(e, brk[p], NoCall, p \in gaps', next')
    BY <1>4, <1>20, Zenon
  <1> QED
    BY <1>6, <1>15, <1>16, <1>17, <1>18, <1>20, <1>22, <1>23, <1>24, OneProcess

(* ... below the next page of the area. *)
LEMMA FitAttachedAt ==
    ASSUME NEW d \in Space, NEW b \in HeapBase .. MmapBase, NEW e, NEW a \in Nat, ShmBase <= a, d.dir # 0,
           NEW m \in Nat, Fit(d, b, NoCall, e, m), NEW f, NEW n \in Nat, a + n <= m,
           NEW x, AttachShape(d, a, f, n, x, n)
    PROVE  Fit(x.d, b, NoCall, e, m) /\ x.d.dir # 0 /\ x.d \in Space
  <1>1. PICK h : h = x.d
    OBVIOUS
  <1>2. h \in Space /\ h.dir = d.dir /\ \A w \in Pages : (w < a \/ a + n <= w) => h.pte[w] = d.pte[w]
    BY <1>1 DEF AttachShape, AttachState
  <1>3. NoCall.op = "none" /\ Floor(b, NoCall) = b
    BY DEF NoCall, Floor
  <1>4. \A w \in Pages : m <= w /\ w < StackTop - 2 => h.pte[w] = 0
    <2>1. \A w \in Pages : m <= w => a + n <= w
      BY DEF Pages
    <2> QED
      BY <1>2, <2>1 DEF Fit
  <1>5. e \/ Mapped(h, b)
    <2>1. e \/ Mapped(d, b)
      BY <1>3 DEF Fit
    <2>2. \A w \in Pages : w < b => w < a
      BY RegionFacts DEF Pages
    <2> QED
      BY <1>2, <2>1, <2>2 DEF Mapped
  <1>6. Fit(h, b, NoCall, e, m)
    BY <1>2, <1>3, <1>4, <1>5 DEF Fit
  <1> QED
    BY <1>1, <1>2, <1>6

(* A segment is attached at an address of the area that is free. *)
LEMMA ShmatChosen ==
    ASSUME MemoryInv, NEW p \in Procs, NEW s \in 1 .. Slots, NEW a \in Nat, ShmatAt(p, s, a), Chosen(p, a, shm[s].n)
    PROVE  MemoryInv'
  <1>1. PICK n, f, d : n = shm[s].n /\ f = shm[s].base /\ d = space[p]
    OBVIOUS
  <1>2. PICK x : x = Attached(p, s, a)
    OBVIOUS
  <1>3. PICK vs : vs = a .. a + n - 1
    OBVIOUS
  <1>4. /\ d.dir # 0 /\ pend[p] = NoCall /\ shm[s].valid /\ ShmBase <= a /\ a + n <= next /\ a + n <= StackTop - 2
        /\ (\A v \in vs : d.pte[v] = 0)
        /\ used' = x.u /\ Sets(space, space', p, IF x.ok THEN x.d ELSE Cleared(x.d, vs))
        /\ next' = next
        /\ brk' = brk /\ pend' = pend /\ lost' = lost /\ hole' = hole /\ gaps' = gaps
    BY <1>1, <1>2, <1>3 DEF ShmatAt, Chosen, Attach, Enter, Alive, Sets
  <1>5. shm' = IF x.ok THEN [shm EXCEPT ![s].nattch = @ + 1] ELSE shm
    BY <1>1, <1>2, <1>3 DEF ShmatAt, Attach
  <1>6. /\ d \in Space /\ brk[p] \in HeapBase .. MmapBase /\ next \in Nat /\ ShmBase <= next
        /\ Fit(d, brk[p], NoCall, p \in gaps, next) /\ Sets(pend, pend', p, NoCall)
        /\ Sets(brk, brk', p, brk[p]) /\ used \subseteq Frames
    BY <1>1, <1>4, ProcessFacts
  <1>7. ShmTyped
    BY DEF MemoryInv
  <1>8. n \in Nat /\ f \in Nat /\ 1 <= f /\ f + n <= FrameCount + 1
    BY <1>1, <1>4, <1>7 DEF ShmTyped, Segment
  <1>9. Attachable(d, a, f, n)
    <2>1. \A w \in Pages : a <= w /\ w < a + n => w \in vs
      BY <1>3, <1>8 DEF Pages
    <2>2. \A w \in Pages : a <= w /\ w < a + n => d.pte[w] = 0
      BY <1>4, <2>1
    <2>3. a + n <= StackTop
      BY <1>4, <1>8, RegionFacts
    <2> QED
      BY <1>4, <1>6, <1>8, <2>2, <2>3 DEF Attachable
  <1>10. f .. f + n - 1 \subseteq Segments
    <2>1. SegmentFrames(s) = f .. f + n - 1
      BY <1>1, <1>4 DEF SegmentFrames
    <2> QED
      BY <1>7, <2>1, SegmentsHave
  <1>11. Attachable(space[p], a, shm[s].base, shm[s].n) /\ space[p] \in Space
    BY <1>1, <1>6, <1>9
  <1>12. AttachShape(d, a, f, n, x, n)
    <2>1. AttachShape(space[p], a, shm[s].base, shm[s].n, Attached(p, s, a), shm[s].n)
      BY <1>6, <1>11, AttachedShape
    <2> QED
      BY <1>1, <1>2, <2>1
  <1>13. ASSUME hole = "none" PROVE Grown(used, d, x.u, x.d, {}, {}, Segments)
    <2>1. Grown(used, space[p], used, space[p], {}, {}, Segments)
      BY <1>13, GrownOwn
    <2>2. shm[s].base .. shm[s].base + shm[s].n - 1 \subseteq Segments
      BY <1>1, <1>10
    <2>3. Grown(used, space[p], Attached(p, s, a).u, Attached(p, s, a).d, {}, {}, Segments)
      BY <1>6, <1>11, <2>1, <2>2, AttachedShape
    <2> QED
      BY <1>1, <1>2, <2>3
  <1>14. Fit(x.d, brk[p], NoCall, p \in gaps, next) /\ x.d.dir # 0 /\ x.d \in Space
    BY <1>4, <1>6, <1>8, <1>12, FitAttachedAt
  <1>15. next' \in Nat /\ next <= next' /\ \A q \in Procs : q = p \/ (q \in gaps' <=> q \in gaps)
    BY <1>4, <1>6, <1>8
  <1>16. NoCall \in Calls /\ Floor(brk[p], NoCall) = brk[p]
    BY DEF NoCall, Calls, Floor
  <1>17. used' \subseteq Frames
    BY <1>4, <1>12 DEF AttachShape, AttachState
  <1>18. ShmTyped' /\ Segments' = Segments /\ (Disjoint => Disjoint')
    <2>1. CASE x.ok
      <3>1. PICK k : k = shm[s].nattch + 1
        OBVIOUS
      <3>2. k \in Int
        BY <1>7, <3>1 DEF ShmTyped, Segment
      <3>3. shm' = [shm EXCEPT ![s].nattch = k]
        BY <1>5, <2>1, <3>1
      <3> QED
        BY <1>7, <3>2, <3>3, OnlyCount
    <2>2. CASE ~ x.ok
      BY <1>5, <1>7, <2>2, SameShm
    <2> QED
      BY <2>1, <2>2
  <1>19. PICK e : e = IF x.ok THEN x.d ELSE Cleared(x.d, vs)
    OBVIOUS
  <1>20. e \in Space /\ Fit(e, brk[p], NoCall, p \in gaps, next)
    <2>1. CASE x.ok
      BY <1>14, <1>19, <2>1
    <2>2. CASE ~ x.ok
      <3>1. \A v \in Pages : v \in vs => ~ v < Floor(brk[p], NoCall)
        <4>1. ShmBase <= a /\ Floor(brk[p], NoCall) = brk[p] /\ brk[p] \in Nat /\ brk[p] <= MmapBase
          BY <1>4, <1>6, <1>16, RegionFacts
        <4>2. ASSUME NEW v \in Pages, v \in vs PROVE a <= v /\ v \in Nat
          BY <1>3, <1>8, <4>2 DEF Pages
        <4> QED
          BY <4>1, <4>2, RegionFacts
      <3>2. Fit(Cleared(x.d, vs), brk[p], NoCall, p \in gaps, next) /\ Cleared(x.d, vs) \in Space
        BY <1>14, <3>1, FitCleared
      <3> QED
        BY <1>19, <2>2, <3>2
    <2> QED
      BY <2>1, <2>2
  <1>21. hole = "none" => Grown(used, space[p], x.u, e, {}, {}, Segments)
    <2>1. CASE x.ok
      BY <1>1, <1>13, <1>19, <2>1
    <2>2. CASE ~ x.ok
      <3>0. \A w \in Pages : w \in vs => a <= w /\ w < a + n
        BY <1>3, <1>6, <1>8 DEF Pages
      <3>1. hole = "none" => Grown(used, d, x.u, Cleared(x.d, vs), {}, {}, Segments)
        BY <1>6, <1>9, <1>10, <1>12, <1>13, <3>0, GrownDetached
      <3> QED
        BY <1>1, <1>19, <2>2, <3>1
    <2> QED
      BY <2>1, <2>2
  <1>22. Sets(space, space', p, e) /\ lost \cup {} \cup {} \subseteq lost'
    BY <1>4, <1>19
  <1>23. Owned'
    BY <1>4, <1>18, <1>21, <1>22, GrowsOwned
  <1>24. Fit(e, brk[p], NoCall, p \in gaps', next')
    BY <1>4, <1>20, Zenon
  <1> QED
    BY <1>6, <1>15, <1>16, <1>17, <1>18, <1>20, <1>22, <1>23, <1>24, OneProcess

(* Anywhere else only the hole is named. *)
LEMMA OnlyHole ==
    ASSUME MemoryInv, used' = used, space' = space, brk' = brk, shm' = shm, next' = next, pend' = pend,
           lost' = lost, gaps' = gaps, hole' # "none"
    PROVE  MemoryInv'
  <1>1. ShmTyped'
    BY SameShm DEF MemoryInv
  <1>2. Owned'
    BY DEF Owned
  <1>3. used' \subseteq Frames
    BY DEF MemoryInv, Typed
  <1> QED
    BY <1>1, <1>2, <1>3, OnlyShm
LEMMA ShmatAtKeeps ==
    ASSUME MemoryInv, NEW p \in Procs, NEW s \in 1 .. Slots, NEW a \in Nat, ShmatAt(p, s, a)
    PROVE  MemoryInv'
  <1>1. CASE Chosen(p, a, shm[s].n)
    BY <1>1, ShmatChosen
  <1>2. CASE ~ Chosen(p, a, shm[s].n)
    BY <1>2, OnlyHole DEF ShmatAt
  <1> QED
    BY <1>1, <1>2

(* Two calls in each other's way. *)
LEMMA RaceKeeps ==
    ASSUME MemoryInv, NEW p \in Procs, NEW q \in Procs, Race(p, q)
    PROVE  MemoryInv'
  BY OnlyHole DEF Race, Contested

(***************************************************************************)
(* The invariant holds.                                                    *)
(***************************************************************************)

(* The first program has its directory, its stack and its image, and no    *)
(* other frame is in use.                                                  *)
LEMMA BootedFacts ==
    /\ Booted.u \subseteq Frames /\ Booted.d \in Space /\ Booted.d.dir # 0
    /\ Grown({}, NoSpace, Booted.u, Booted.d, {}, {}, {})
    /\ \A v \in Pages : ShmBase <= v /\ v < StackTop - 2 => Booted.d.pte[v] = 0
  <1>1. PICK c : c = CreateSpace({})
    OBVIOUS
  <1>2. PICK u, d : u = c.u /\ d = c.d
    OBVIOUS
  <1>3. PICK x : x = AddPages(u, d, Image)
    OBVIOUS
  <1>4. Booted = x
    BY <1>1, <1>2, <1>3 DEF Booted, LoadInto
  <1>5. c.ok /\ c.rest = {} /\ x.ok
    BY <1>1, <1>2, <1>3, BootAssumption DEF LoadInto
  <1>6. SpaceMade({}, c)
    BY <1>1, CreateSpaceFacts
  <1>7. /\ u \in SUBSET Frames /\ d \in Space /\ d.dir # 0 /\ Grown({}, NoSpace, u, d, c.rest, {}, {})
        /\ \A v \in Pages : v = StackTop - 1 \/ v = StackTop - 2 \/ d.pte[v] = 0
    BY <1>2, <1>5, <1>6 DEF SpaceMade
  <1>8. Grown({}, NoSpace, u, d, {}, {}, {})
    BY <1>5, <1>7, Zenon
  <1>9. AddShape(d, Image, x, StackTop)
    BY <1>3, <1>7, AddPagesShape
  <1>10. /\ x.u \subseteq Frames /\ x.d \in Space /\ x.d.dir = d.dir /\ x.rest = {}
         /\ (\A w \in Pages : w \notin Image => x.d.pte[w] = d.pte[w])
    BY <1>5, <1>9 DEF AddShape, Adding
  <1>11. x.over = {}
    <2>1. \A g \in x.over : \E w \in Pages : w \in Image /\ d.pte[w] = g /\ g # 0
      BY <1>9 DEF AddShape
    <2>2. \A w \in Pages : w \in Image => w # StackTop - 1 /\ w # StackTop - 2
      BY RegionFacts DEF Pages
    <2> QED
      BY <1>7, <2>1, <2>2
  <1>12. Grown({}, NoSpace, x.u, x.d, {}, {}, {})
    <2>1. Grown({}, NoSpace, x.u, x.d, {} \cup x.rest, {} \cup x.over, {})
      BY <1>3, <1>7, <1>8, AddPagesShape
    <2>2. {} \cup x.rest = {} /\ {} \cup x.over = {}
      BY <1>10, <1>11
    <2> QED
      BY <2>1, <2>2, Zenon
  <1>13. \A v \in Pages : ShmBase <= v /\ v < StackTop - 2 => x.d.pte[v] = 0
    <2>1. \A v \in Pages : ShmBase <= v /\ v < StackTop - 2 =>
              v \notin Image /\ v # StackTop - 1 /\ v # StackTop - 2
      BY RegionFacts DEF Pages
    <2> QED
      BY <1>7, <1>10, <2>1
  <1> QED
    BY <1>4, <1>7, <1>10, <1>12, <1>13

(* The invariant holds when the first program starts. *)
LEMMA MemoryStarts == Init => MemoryInv
  <1> SUFFICES ASSUME Init PROVE MemoryInv
    OBVIOUS
  <1>1. First \in Procs
    BY BootAssumption DEF First
  <1>2. PICK u, d : u = Booted.u /\ d = Booted.d
    OBVIOUS
  <1>3. /\ u \subseteq Frames /\ d \in Space /\ d.dir # 0 /\ Grown({}, NoSpace, u, d, {}, {}, {})
        /\ \A v \in Pages : ShmBase <= v /\ v < StackTop - 2 => d.pte[v] = 0
    BY <1>2, BootedFacts
  <1>4. used = u /\ space = [p \in Procs |-> IF p = First THEN d ELSE NoSpace]
    BY <1>2 DEF Init
  <1>5. /\ brk = [p \in Procs |-> HeapBase] /\ pend = [p \in Procs |-> NoCall] /\ next = ShmBase
        /\ lost = {} /\ hole = "none" /\ gaps = {}
    BY DEF Init
  <1>6. Typed
    <2>1. space \in [Procs -> Space]
      BY <1>3, <1>4, NoSpaceFacts
    <2>2. brk \in [Procs -> HeapBase .. MmapBase] /\ next \in Nat /\ ShmBase <= next
      BY <1>5, RegionFacts
    <2>3. pend \in [Procs -> Calls]
      BY <1>5 DEF Calls
    <2> QED
      BY <1>3, <1>4, <2>1, <2>2, <2>3 DEF Typed
  <1>7. Fits
    <2>1. NoCall.op = "none" /\ Floor(HeapBase, NoCall) = HeapBase
      BY DEF NoCall, Floor
    <2>2. Mapped(d, HeapBase)
      BY RegionFacts DEF Mapped, Pages
    <2>3. Fit(d, HeapBase, NoCall, First \in gaps, ShmBase)
      BY <1>3, <2>1, <2>2 DEF Fit
    <2>4. \A p \in Procs : Fit(NoSpace, HeapBase, NoCall, p \in gaps, ShmBase)
      BY <2>1, NoSpaceFacts DEF Fit
    <2>5. ASSUME NEW p \in Procs PROVE Fit(space[p], brk[p], pend[p], p \in gaps, next)
      <3>1. brk[p] = HeapBase /\ pend[p] = NoCall /\ next = ShmBase
        BY <1>5
      <3>2. CASE p = First
        <4>1. space[p] = d
          BY <1>4, <3>2
        <4> QED
          BY <2>3, <3>1, <3>2, <4>1, Zenon
      <3>3. CASE p # First
        <4>1. space[p] = NoSpace
          BY <1>4, <3>3
        <4> QED
          BY <2>4, <3>1, <4>1, Zenon
      <3> QED
        BY <3>2, <3>3
    <2> QED
      BY <2>5 DEF Fits
  <1>8. shm = [s \in 1 .. Slots |-> [valid |-> FALSE, base |-> 0, n |-> 0, nattch |-> 0]]
    BY DEF Init
  <1>9. \A s \in 1 .. Slots : ~ shm[s].valid /\ SegmentFrames(s) = {}
    BY <1>8 DEF SegmentFrames
  <1>10. ShmTyped
    <2>1. shm \in [1 .. Slots -> Segment]
      BY <1>8 DEF Segment
    <2> QED
      BY <1>9, <2>1 DEF ShmTyped
  <1>11. Segments = {} /\ Disjoint
    BY <1>9, <1>10, SegmentsHave DEF Disjoint
  <1>12. PICK sp : sp = [p \in Procs |-> NoSpace]
    OBVIOUS
  <1>13. PICK E : E = {}
    OBVIOUS
  <1>14. Sound(E, sp, E, E)
    <2>1. \A p \in Procs, o \in Places : At(sp[p], o) = 0
      BY <1>12, NoSpaceFacts
    <2> QED
      BY <1>13, <2>1 DEF Sound
  <1>15. Swapped(sp, space, First, d)
    BY <1>1, <1>4, <1>12 DEF Swapped
  <1>16. sp[First] = NoSpace
    BY <1>1, <1>12
  <1>17. Grown(E, sp[First], u, d, E, E, E)
    BY <1>3, <1>13, <1>16, Zenon
  <1>18. GrowStep(E, sp, E, E, First, u, d, E, E, space, E)
    BY <1>14, <1>15, <1>17 DEF GrowStep
  <1>19. Sound(u, space, E, E)
    BY <1>1, <1>18, SoundGrow
  <1>20. Sound(used, space, lost, Segments)
    BY <1>4, <1>5, <1>11, <1>13, <1>19, Zenon
  <1> QED
    BY <1>6, <1>7, <1>10, <1>11, <1>20 DEF MemoryInv, Owned

(* Nothing happens. *)
LEMMA MemoryStutters ==
    ASSUME MemoryInv, UNCHANGED vars
    PROVE  MemoryInv'
  <1>1. /\ used' = used /\ space' = space /\ brk' = brk /\ shm' = shm /\ next' = next /\ pend' = pend
        /\ lost' = lost /\ hole' = hole /\ gaps' = gaps
    BY DEF vars
  <1>2. Owned' /\ ShmTyped'
    BY <1>1, OwnedSame
  <1>3. used' \subseteq Frames
    BY <1>1 DEF MemoryInv, Typed
  <1> QED
    BY <1>1, <1>2, <1>3, OnlyShm

(* Every step keeps the invariant. *)
LEMMA MemoryKeeps == MemoryInv /\ [Next]_vars => MemoryInv'
  <1> SUFFICES ASSUME MemoryInv, [Next]_vars PROVE MemoryInv'
    OBVIOUS
  <1>1. ASSUME NEW p \in Procs, NEW c \in Procs, Fork(p, c) PROVE MemoryInv'
    BY <1>1, ForkKeeps
  <1>2. ASSUME NEW p \in Procs, Destroy(p) PROVE MemoryInv'
    BY <1>2, DestroyKeeps
  <1>3. ASSUME NEW p \in Procs, NEW fails \in {"none", "short", "late"}, Execve(p, fails) PROVE MemoryInv'
    BY <1>3, ExecveKeeps
  <1>4. ASSUME NEW p \in Procs, NEW top \in HeapBase .. MmapBase, BrkGrow(p, top) \/ BrkShrink(p, top)
        PROVE  MemoryInv'
    BY <1>4, BrkGrowKeeps, BrkShrinkKeeps
  <1>5. ASSUME NEW p \in Procs, BrkUnmap(p) \/ BrkFree(p) \/ BrkDone(p) PROVE MemoryInv'
    BY <1>5, BrkUnmapKeeps, BrkFreeKeeps, BrkDoneKeeps
  <1>6. ASSUME NEW p \in Procs, NEW n \in 1 .. 2, NEW fixed \in BOOLEAN, MmapEnter(p, n, MmapBase, fixed)
        PROVE  MemoryInv'
    BY <1>6, MmapEnterKeeps
  <1>7. ASSUME NEW p \in Procs, MmapLook(p) \/ MmapTake(p) PROVE MemoryInv'
    BY <1>7, MmapLookKeeps, MmapTakeKeeps
  <1>8. ASSUME NEW p \in Procs, NEW a \in {HeapBase, MmapBase, ShmBase}, Munmap(p, a, 1) PROVE MemoryInv'
    BY <1>8, MunmapKeeps
  <1>9. ASSUME NEW p \in Procs, NEW at \in {0, MmapBase}, MmapEx(p, 1, at) PROVE MemoryInv'
    BY <1>9, MmapExKeeps
  <1>10. ASSUME NEW p \in Procs, NEW n \in 1 .. 2, Shmget(p, n) PROVE MemoryInv'
    BY <1>10, ShmgetKeeps
  <1>11. ASSUME NEW p \in Procs, NEW s \in 1 .. Slots, Shmat(p, s) \/ Rmid(p, s) PROVE MemoryInv'
    BY <1>11, ShmatKeeps, RmidKeeps
  <1>12. ASSUME NEW p \in Procs, NEW a \in ShmBase .. ShmBase + 1, Shmdt(p, a) PROVE MemoryInv'
    BY <1>12, ShmdtKeeps
  <1>13. ASSUME Idle \/ UNCHANGED vars PROVE MemoryInv'
    BY <1>13, MemoryStutters DEF Idle
  <1>14. ASSUME NEW p \in Procs, NEW s \in 1 .. Slots, NEW a \in {MmapBase, ShmBase}, ShmatAt(p, s, a)
         PROVE  MemoryInv'
    <2>1. a \in Nat
      BY RegionFacts
    <2> QED
      BY <1>14, <2>1, ShmatAtKeeps
  <1>15. ASSUME NEW p \in Procs, NEW q \in Procs, Race(p, q) PROVE MemoryInv'
    BY <1>15, RaceKeeps
  <1> QED
    BY <1>1, <1>2, <1>3, <1>4, <1>5, <1>6, <1>7, <1>8, <1>9, <1>10, <1>11, <1>12, <1>13, <1>14, <1>15 DEF Next

(* For every number of processes, frames and pages: the spaces, breaks,    *)
(* segments and calls under way have their types and fit together, and     *)
(* until the first frame is freed or taken under an owner every frame is   *)
(* owned as Sound says (pmm.c, vmm.c, shm.c, the memory calls of syscall.c). *)
THEOREM MemoryInvariant == Spec => []MemoryInv
  <1>1. Init => MemoryInv
    BY MemoryStarts
  <1>2. MemoryInv /\ [Next]_vars => MemoryInv'
    BY MemoryKeeps
  <1> QED
    BY <1>1, <1>2, PTL DEF Spec

(* How Owners names what a process p has at place o. *)
Owner(p, o) == IF o[1] = "dir" THEN <<"dir", p>> ELSE <<o[1], p, o[2]>>

(* An owner is a place of a process that has the frame. *)
LEMMA OwnersArePlaces ==
    ASSUME NEW f, NEW w \in Owners(f)
    PROVE  \E p \in Procs, o \in Places :
              At(space[p], o) = f /\ w = Owner(p, o) /\ w[1] = o[1]
  <1>1. CASE w \in {<<"dir", p>> : p \in {q \in Procs : space[q].dir = f}}
    <2>1. PICK p \in Procs : w = <<"dir", p>> /\ space[p].dir = f
      BY <1>1
    <2>2. PICK o \in Places : o = <<"dir", 0>>
      BY PlaceKinds
    <2>3. At(space[p], o) = f
      BY <2>1, <2>2, AtKinds
    <2>4. w = Owner(p, o) /\ w[1] = o[1]
      BY <2>1, <2>2 DEF Owner
    <2> QED
      BY <2>3, <2>4
  <1>2. CASE w \in {o \in {"pt"} \X Procs \X Tables : space[o[2]].pt[o[3]] = f}
    <2>1. PICK p \in Procs, k \in Tables : w = <<"pt", p, k>> /\ space[p].pt[k] = f
      BY <1>2
    <2>2. PICK o \in Places : o = <<"pt", k>>
      BY PlaceKinds
    <2>3. At(space[p], o) = f
      BY <2>1, <2>2, AtKinds
    <2>4. w = Owner(p, o) /\ w[1] = o[1]
      BY <2>1, <2>2 DEF Owner
    <2> QED
      BY <2>3, <2>4
  <1>3. CASE w \in {o \in {"pte"} \X Procs \X Pages : space[o[2]].pte[o[3]] = f}
    <2>1. PICK p \in Procs, v \in Pages : w = <<"pte", p, v>> /\ space[p].pte[v] = f
      BY <1>3
    <2>2. PICK o \in Places : o = <<"pte", v>>
      BY PlaceKinds
    <2>3. At(space[p], o) = f
      BY <2>1, <2>2, AtKinds
    <2>4. w = Owner(p, o) /\ w[1] = o[1]
      BY <2>1, <2>2 DEF Owner
    <2> QED
      BY <2>3, <2>4
  <1> QED
    BY <1>1, <1>2, <1>3 DEF Owners

(* A set of which any two elements are the same has at most one. *)
LEMMA AtMostOne ==
    ASSUME NEW S, \A x, y \in S : x = y
    PROVE  Cardinality(S) <= 1
  <1>1. CASE S = {}
    BY <1>1, FS_EmptySet
  <1>2. CASE S # {}
    <2>1. PICK x \in S : TRUE
      BY <1>2
    <2>2. S = {x}
      BY <2>1
    <2>3. Cardinality({x}) = 1
      BY FS_Singleton
    <2> QED
      BY <2>2, <2>3
  <1> QED
    BY <1>1, <1>2

(* The invariant gives the one owner. *)
LEMMA InvOneOwner == MemoryInv => FramesHaveOneOwner
  <1> SUFFICES ASSUME MemoryInv, hole = "none", NEW f \in Frames
               PROVE  /\ Owners(f) # {} \/ f \in Segments => f \in used
                      /\ IF f \in Segments THEN \A o \in Owners(f) : o[1] = "pte"
                         ELSE Cardinality(Owners(f)) <= 1
    BY DEF FramesHaveOneOwner
  <1>1. PICK S : S = Segments
    OBVIOUS
  <1>2. Sound(used, space, lost, S)
    BY <1>1 DEF MemoryInv, Owned
  <1>3. /\ S \subseteq used
        /\ \A p \in Procs, o \in Places : At(space[p], o) = 0 \/ At(space[p], o) \in used
        /\ \A p \in Procs, o \in Places : At(space[p], o) \in S => o \in Shared
    BY <1>2 DEF Sound
  <1>4. \A p, q \in Procs, o, r \in Places :
          At(space[p], o) = At(space[q], r) =>
              At(space[p], o) = 0 \/ At(space[p], o) \in S \/ (p = q /\ o = r)
    BY <1>2 DEF Sound
  <1>5. f # 0
    BY FrameFacts
  <1>6. \A w \in Owners(f) : \E p \in Procs, o \in Places :
              At(space[p], o) = f /\ w = Owner(p, o) /\ w[1] = o[1]
    BY OwnersArePlaces
  <1>7. Owners(f) # {} \/ f \in Segments => f \in used
    BY <1>1, <1>3, <1>5, <1>6
  <1>8. ASSUME f \in S, NEW w \in Owners(f) PROVE w[1] = "pte"
    <2>1. PICK p \in Procs, o \in Places : At(space[p], o) = f /\ w[1] = o[1]
      BY <1>6
    <2>2. o \in Shared
      BY <1>3, <1>8, <2>1
    <2>3. o[1] = "pte"
      BY <2>2 DEF Shared
    <2> QED
      BY <2>1, <2>3
  <1>9. ASSUME f \notin S PROVE Cardinality(Owners(f)) <= 1
    <2>1. ASSUME NEW w \in Owners(f), NEW z \in Owners(f) PROVE w = z
      <3>1. PICK p \in Procs, o \in Places : At(space[p], o) = f /\ w = Owner(p, o)
        BY <1>6
      <3>2. PICK q \in Procs, r \in Places : At(space[q], r) = f /\ z = Owner(q, r)
        BY <1>6
      <3>3. p = q /\ o = r
        BY <1>4, <1>5, <1>9, <3>1, <3>2
      <3> QED
        BY <3>1, <3>2, <3>3
    <2> QED
      BY <2>1, AtMostOne
  <1> QED
    BY <1>1, <1>7, <1>8, <1>9

(* Nothing but the known leaks. *)
LEMMA InvNoneLost == MemoryInv => NoFrameIsLost
  <1> SUFFICES ASSUME MemoryInv, hole = "none", NEW f \in used \ lost, f \notin Segments
               PROVE  \E p \in Procs : f \in Held(space[p])
    BY DEF NoFrameIsLost
  <1>1. Sound(used, space, lost, Segments) /\ used \subseteq Frames
    BY DEF MemoryInv, Owned, Typed
  <1>2. PICK p \in Procs, o \in Places : At(space[p], o) = f
    BY <1>1 DEF Sound
  <1>3. f # 0
    BY <1>1, FrameFacts
  <1>4. space[p] \in Space
    BY ProcessFacts
  <1>5. f \in Held(space[p])
    BY <1>2, <1>3, <1>4, HeldIsAt
  <1> QED
    BY <1>5

(* The heap below the break. *)
LEMMA InvHeap == MemoryInv => HeapIsWhole
  <1> SUFFICES ASSUME MemoryInv, NEW p \in Procs \ gaps, space[p].dir # 0, pend[p].op # "shrink",
                      NEW v \in HeapBase .. brk[p] - 1
               PROVE  space[p].pte[v] # 0
    BY DEF HeapIsWhole, Alive
  <1>1. Fit(space[p], brk[p], pend[p], p \in gaps, next) /\ brk[p] \in HeapBase .. MmapBase
    BY ProcessFacts
  <1>2. Mapped(space[p], brk[p])
    BY <1>1 DEF Fit, Floor
  <1>3. v \in Pages /\ HeapBase <= v /\ v < brk[p]
    BY <1>1, RegionFacts DEF Pages
  <1> QED
    BY <1>2, <1>3 DEF Mapped

(* FramesHaveOneOwner for every number of processes, frames and pages:     *)
(* until the first hole a frame in use has its bit set and one owner, or   *)
(* is a segment's and mapped as a page only (pmm.c, vmm.c, shm.c).         *)
THEOREM MemoryFramesHaveOneOwner == Spec => []FramesHaveOneOwner
  BY MemoryInvariant, InvOneOwner, PTL

(* NoFrameIsLost for every number of processes, frames and pages: until    *)
(* the first hole every set bit has an owner, on the failure paths of      *)
(* fork, brk, mmap and shmat too, but for the frames that the code forgets *)
(* (vmm.c, elf.c, syscall.c).                                              *)
THEOREM MemoryNoFrameIsLost == Spec => []NoFrameIsLost
  BY MemoryInvariant, InvNoneLost, PTL

(* HeapIsWhole for every number of processes, frames and pages: whatever   *)
(* fails, the heap of a process that has not run exec or unmapped a part   *)
(* of it is mapped up to its break (syscall.c sys_brk, sys_sbrk).          *)
THEOREM MemoryHeapIsWhole == Spec => []HeapIsWhole
  BY MemoryInvariant, InvHeap, PTL
=============================================================================
