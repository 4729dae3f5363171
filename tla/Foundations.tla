---------------------------- MODULE Foundations -----------------------------
(***************************************************************************)
(* What the proofs share: induction over the natural numbers, with the set *)
(* of the numbers that have a property in place of the property; the       *)
(* existence of what a loop computes; and what the list operations of the  *)
(* kernel do to the nodes a walk meets.                                    *)
(***************************************************************************)
EXTENDS Lists, Integers, WellFoundedInduction, TLAPS

(* A set of numbers that has 0 and with each number the next has them all. *)
LEMMA CountUp ==
    ASSUME NEW T \in SUBSET Nat, 0 \in T, \A n \in T : n + 1 \in T
    PROVE  T = Nat
  <1> DEFINE R == {xy \in Nat \X Nat : xy[1] < xy[2]}
             U == Nat \ T
  <1>1. IsWellFoundedOn(R, Nat)
    BY NatLessThanWellFounded DEF OpToRel
  <1>2. SUFFICES ASSUME U # {} PROVE FALSE
    OBVIOUS
  <1>3. PICK x \in U : \A y \in U : <<y, x>> \notin R
    <2> HIDE DEF R, U
    <2>1. U \subseteq Nat
      BY DEF U
    <2> QED
      BY <1>1, <1>2, <2>1, WFMin
  <1>4. x # 0 /\ x \in Nat /\ x \notin T
    OBVIOUS
  <1>5. x - 1 \in Nat /\ x - 1 \notin T
    BY <1>4
  <1>6. <<x - 1, x>> \in R
    BY <1>4, <1>5
  <1> QED
    BY <1>3, <1>5, <1>6

(* f holds what a loop of n rounds has after each round: c before the       *)
(* first, D[v, i] after round i that found v.                               *)
Loop(f, S, n, c, D) ==
    /\ f \in [0 .. n -> S]
    /\ f[0] = c
    /\ \A i \in 1 .. n : f[i] = D[<<f[i - 1], i>>]

(* Every loop has such a history. *)
LEMMA LoopExists ==
    ASSUME NEW S, NEW n \in Nat, NEW c \in S, NEW D \in [S \X (1 .. n) -> S]
    PROVE  \E f : Loop(f, S, n, c, D)
  <1> DEFINE T == {m \in Nat : m <= n => \E f : Loop(f, S, m, c, D)}
  <1>1. 0 \in T
    <2> DEFINE g == [i \in 0 .. 0 |-> c]
    <2>1. Loop(g, S, 0, c, D)
      BY DEF Loop
    <2> QED
      BY <2>1
  <1>2. ASSUME NEW m \in T PROVE m + 1 \in T
    <2>1. SUFFICES ASSUME m + 1 <= n PROVE \E f : Loop(f, S, m + 1, c, D)
      OBVIOUS
    <2>2. m \in Nat /\ m <= n
      BY <2>1
    <2>3. PICK f : Loop(f, S, m, c, D)
      BY <2>2
    <2>4. f \in [0 .. m -> S] /\ f[0] = c /\ \A i \in 1 .. m : f[i] = D[<<f[i - 1], i>>]
      BY <2>3 DEF Loop
    <2>5. PICK v : v = D[<<f[m], m + 1>>]
      OBVIOUS
    <2>6. v \in S
      <3>1. f[m] \in S /\ m + 1 \in 1 .. n
        BY <2>1, <2>2, <2>4
      <3> QED
        BY <2>5, <3>1
    <2>7. PICK g : g = [i \in 0 .. m + 1 |-> IF i <= m THEN f[i] ELSE v]
      OBVIOUS
    <2>8. g \in [0 .. m + 1 -> S] /\ g[0] = c /\ g[m + 1] = v /\ \A i \in 0 .. m : g[i] = f[i]
      BY <2>2, <2>4, <2>6, <2>7
    <2>9. \A i \in 1 .. m + 1 : g[i] = D[<<g[i - 1], i>>]
      <3>1. ASSUME NEW i \in 1 .. m PROVE g[i] = D[<<g[i - 1], i>>]
        <4>1. i \in 0 .. m /\ i - 1 \in 0 .. m
          BY <2>2
        <4>2. g[i] = f[i] /\ g[i - 1] = f[i - 1]
          BY <2>8, <4>1
        <4> QED
          BY <2>4, <4>2
      <3>2. g[m + 1] = D[<<g[m + 1 - 1], m + 1>>]
        <4>1. m + 1 - 1 = m /\ m \in 0 .. m
          BY <2>2
        <4> QED
          BY <2>5, <2>8, <4>1
      <3>3. \A i \in 1 .. m + 1 : i \in 1 .. m \/ i = m + 1
        BY <2>2
      <3> QED
        BY <3>1, <3>2, <3>3
    <2>10. Loop(g, S, m + 1, c, D)
      BY <2>8, <2>9 DEF Loop
    <2> QED
      BY <2>10
  <1>3. T = Nat
    <2>1. T \in SUBSET Nat
      OBVIOUS
    <2> HIDE DEF T
    <2> QED
      BY <1>1, <1>2, <2>1, CountUp
  <1>4. n \in T
    BY <1>3
  <1> QED
    BY <1>4

(* A set of numbers that is not empty has a least one. *)
LEMMA LeastExists ==
    ASSUME NEW S, S \subseteq Nat, S # {}
    PROVE  \E x \in S : \A y \in S : x <= y
  <1> DEFINE R == {xy \in Nat \X Nat : xy[1] < xy[2]}
  <1>1. PICK x \in S : \A y \in S : <<y, x>> \notin R
    <2>1. IsWellFoundedOn(R, Nat)
      BY NatLessThanWellFounded DEF OpToRel
    <2> HIDE DEF R
    <2> QED
      BY <2>1, WFMin
  <1>2. ASSUME NEW y \in S PROVE x <= y
    <2>1. x \in Nat /\ y \in Nat
      OBVIOUS
    <2>2. ASSUME y < x PROVE FALSE
      <3>1. <<y, x>> \in R
        BY <2>1, <2>2
      <3> QED
        BY <1>1, <3>1, Zenon
    <2> QED
      BY <2>1, <2>2
  <1> QED
    BY <1>2

-----------------------------------------------------------------------------
(* Lists. *)

(* A list over Node with head h. *)
IsList(Node, nil, h, nx) ==
    nil \notin Node /\ h \in Node \cup {nil} /\ nx \in [Node -> Node \cup {nil}]

(* A walk meets its head and with a node the next one. *)
LEMMA ReachClosed ==
    ASSUME NEW Node, NEW nil, NEW h, NEW nx, IsList(Node, nil, h, nx)
    PROVE  /\ Reach(Node, nil, h, nx) \subseteq Node
           /\ h # nil => h \in Reach(Node, nil, h, nx)
           /\ \A m \in Reach(Node, nil, h, nx) :
                nx[m] # nil => nx[m] \in Reach(Node, nil, h, nx)
  BY DEF Reach, IsList

(* ... and nothing that a set closed under the pointers leaves out. *)
LEMMA ReachLeast ==
    ASSUME NEW Node, NEW nil, NEW h, NEW nx, NEW S \in SUBSET Node,
           h # nil => h \in S,
           \A m \in S : nx[m] # nil => nx[m] \in S
    PROVE  Reach(Node, nil, h, nx) \subseteq S
  BY DEF Reach

(* A walk from nil comes through nothing. *)
LEMMA ReachEmpty ==
    ASSUME NEW Node, NEW nil, NEW nx
    PROVE  Reach(Node, nil, nil, nx) = {}
  <1> DEFINE S == {}
  <1>1. S \in SUBSET Node /\ \A m \in S : nx[m] # nil => nx[m] \in S
    OBVIOUS
  <1> HIDE DEF S
  <1>2. Reach(Node, nil, nil, nx) \subseteq S
    BY <1>1, ReachLeast
  <1> QED
    BY <1>2 DEF S

(* A walk from a node that is met meets no more. *)
LEMMA ReachSuffix ==
    ASSUME NEW Node, NEW nil, NEW h, NEW nx, IsList(Node, nil, h, nx),
           NEW m \in Reach(Node, nil, h, nx)
    PROVE  /\ Reach(Node, nil, m, nx) \subseteq Reach(Node, nil, h, nx)
           /\ Reach(Node, nil, nx[m], nx) \subseteq Reach(Node, nil, h, nx)
  BY ReachClosed, ReachLeast

(* The list is its head and the list behind it. *)
LEMMA ReachUnfold ==
    ASSUME NEW Node, NEW nil, NEW h \in Node, NEW nx, IsList(Node, nil, h, nx)
    PROVE  Reach(Node, nil, h, nx) = {h} \cup Reach(Node, nil, nx[h], nx)
  <1> DEFINE R == Reach(Node, nil, nx[h], nx)
  <1>1. IsList(Node, nil, nx[h], nx)
    BY DEF IsList
  <1>2. R \subseteq Node /\ (nx[h] # nil => nx[h] \in R)
        /\ \A m \in R : nx[m] # nil => nx[m] \in R
    BY <1>1, ReachClosed
  <1>3. Reach(Node, nil, h, nx) \subseteq {h} \cup R
    <2> HIDE DEF R
    <2>1. {h} \cup R \in SUBSET Node
      BY <1>2
    <2> QED
      BY <1>2, <2>1, ReachLeast
  <1>4. h \in Reach(Node, nil, h, nx)
    BY ReachClosed DEF IsList
  <1>5. R \subseteq Reach(Node, nil, h, nx)
    BY <1>4, ReachSuffix
  <1> QED
    BY <1>3, <1>4, <1>5

(* Pointers that a walk does not come through make no difference to it. *)
LEMMA ReachFrame ==
    ASSUME NEW Node, NEW nil, NEW h, NEW nx, NEW ny,
           IsList(Node, nil, h, nx), IsList(Node, nil, h, ny),
           \A m \in Reach(Node, nil, h, nx) : ny[m] = nx[m]
    PROVE  Reach(Node, nil, h, ny) = Reach(Node, nil, h, nx)
  <1> DEFINE X == Reach(Node, nil, h, nx)
             Y == Reach(Node, nil, h, ny)
  <1>1. X \subseteq Node /\ (h # nil => h \in X) /\ \A m \in X : nx[m] # nil => nx[m] \in X
    BY ReachClosed
  <1>2. Y \subseteq Node /\ (h # nil => h \in Y) /\ \A m \in Y : ny[m] # nil => ny[m] \in Y
    BY ReachClosed
  <1>3. \A m \in X : ny[m] = nx[m]
    OBVIOUS
  <1>4. Y \subseteq X
    <2> HIDE DEF X
    <2> QED  BY <1>1, <1>3, ReachLeast
  <1>5. X \subseteq X \cap Y
    <2> DEFINE Z == X \cap Y
    <2>1. /\ Z \in SUBSET Node /\ (h # nil => h \in Z)
          /\ \A m \in Z : nx[m] # nil => nx[m] \in Z
      <3> HIDE DEF X, Y
      <3> QED  BY <1>1, <1>2, <1>3
    <2> HIDE DEF Z
    <2>2. Reach(Node, nil, h, nx) \subseteq Z
      BY <2>1, ReachLeast
    <2> QED  BY <2>2 DEF Z
  <1> QED
    BY <1>4, <1>5

(* Cutting pointers shortens walks. *)
LEMMA ReachCut ==
    ASSUME NEW Node, NEW nil, NEW h, NEW nx, NEW ny, IsList(Node, nil, h, nx),
           \A m \in Node : ny[m] \in {nx[m], nil}
    PROVE  Reach(Node, nil, h, ny) \subseteq Reach(Node, nil, h, nx)
  <1> DEFINE X == Reach(Node, nil, h, nx)
  <1>1. X \subseteq Node /\ (h # nil => h \in X) /\ \A m \in X : nx[m] # nil => nx[m] \in X
    BY ReachClosed
  <1>2. \A m \in X : ny[m] # nil => ny[m] \in X
    BY <1>1
  <1> HIDE DEF X
  <1>3. Reach(Node, nil, h, ny) \subseteq X
    BY <1>1, <1>2, ReachLeast
  <1> QED  BY <1>3 DEF X

(* A node put in front of a list it is not on. *)
LEMMA ReachPush ==
    ASSUME NEW Node, NEW nil, NEW h, NEW nx, NEW p \in Node, IsList(Node, nil, h, nx),
           p \notin Reach(Node, nil, h, nx)
    PROVE  Reach(Node, nil, p, [nx EXCEPT ![p] = h]) = Reach(Node, nil, h, nx) \cup {p}
  <1> DEFINE ny == [nx EXCEPT ![p] = h]
  <1>1. IsList(Node, nil, h, ny) /\ IsList(Node, nil, p, ny) /\ ny[p] = h
    BY DEF IsList
  <1>2. \A m \in Reach(Node, nil, h, nx) : ny[m] = nx[m]
    BY ReachClosed DEF IsList
  <1> HIDE DEF ny
  <1>3. Reach(Node, nil, h, ny) = Reach(Node, nil, h, nx)
    BY <1>1, <1>2, ReachFrame
  <1>4. Reach(Node, nil, p, ny) = {p} \cup Reach(Node, nil, ny[p], ny)
    BY <1>1, ReachUnfold
  <1> QED
    BY <1>1, <1>3, <1>4 DEF ny

(* The pointers once p is taken out: every pointer to p goes to the node    *)
(* behind it.                                                               *)
Bypass(Node, nil, p, nx) ==
    [m \in Node |-> IF m = p THEN nil ELSE IF nx[m] = p THEN nx[p] ELSE nx[m]]

(* A node taken out of a list: every other node of it is still reached. *)
LEMMA BypassFacts ==
    ASSUME NEW Node, NEW nil, NEW h, NEW nx, NEW p \in Node, IsList(Node, nil, h, nx)
    PROVE  /\ IsList(Node, nil, IF h = p THEN nx[p] ELSE h, Bypass(Node, nil, p, nx))
           /\ Bypass(Node, nil, p, nx) \in [Node -> Node \cup {nil}]
           /\ Bypass(Node, nil, p, nx)[p] = nil
           /\ \A m \in Node \ {p} : Bypass(Node, nil, p, nx)[m] = IF nx[m] = p THEN nx[p] ELSE nx[m]
  BY DEF IsList, Bypass

(* p taken out of a list that does not run in a circle: the other nodes     *)
(* stay.                                                                    *)
LEMMA ReachBypass ==
    ASSUME NEW Node, NEW nil, NEW h, NEW nx, NEW p \in Node, IsList(Node, nil, h, nx),
           Acyclic(Node, nil, nx)
    PROVE  Reach(Node, nil, IF h = p THEN nx[p] ELSE h, Bypass(Node, nil, p, nx))
             = Reach(Node, nil, h, nx) \ {p}
  <1> DEFINE g == IF h = p THEN nx[p] ELSE h
             ny == Bypass(Node, nil, p, nx)
             X == Reach(Node, nil, h, nx)
             Y == Reach(Node, nil, g, ny)
  <1>0. nil \notin Node /\ h \in Node \cup {nil} /\ nx \in [Node -> Node \cup {nil}]
    BY DEF IsList
  <1>1. IsList(Node, nil, g, ny) /\ ny[p] = nil
        /\ \A m \in Node \ {p} : ny[m] = IF nx[m] = p THEN nx[p] ELSE nx[m]
    BY BypassFacts
  <1>2. X \subseteq Node /\ (h # nil => h \in X) /\ \A m \in X : nx[m] # nil => nx[m] \in X
    BY ReachClosed
  <1>3. Y \subseteq Node /\ (g # nil => g \in Y) /\ \A m \in Y : ny[m] # nil => ny[m] \in Y
    <2> HIDE DEF g, ny
    <2> QED  BY <1>1, ReachClosed
  <1>4. nx[p] # p
    <2>1. IsList(Node, nil, nx[p], nx)
      BY <1>0 DEF IsList
    <2>2. nx[p] # nil => nx[p] \in Reach(Node, nil, nx[p], nx)
      BY <2>1, ReachClosed
    <2> QED
      BY <2>2, <1>0 DEF Acyclic
  <1>5. Y \subseteq X \ {p}
    <2> DEFINE Z == X \ {p}
    <2>1. /\ Z \in SUBSET Node /\ (g # nil => g \in Z)
          /\ \A m \in Z : ny[m] # nil => ny[m] \in Z
      <3> HIDE DEF X, ny
      <3> QED  BY <1>0, <1>1, <1>2, <1>4
    <2> HIDE DEF Z, g, ny
    <2>2. Reach(Node, nil, g, ny) \subseteq Z
      BY <2>1, ReachLeast
    <2> QED  BY <2>2 DEF Z
  <1>6. X \subseteq IF nx[p] \in Y \cup {nil} THEN Y \cup {p} ELSE Y
    <2> DEFINE Z == IF nx[p] \in Y \cup {nil} THEN Y \cup {p} ELSE Y
    <2>1. p \notin Y
      BY <1>5
    <2>2. Z \in SUBSET Node
      BY <1>3
    <2>3. h # nil => h \in Z
      <3> HIDE DEF Y
      <3> QED  BY <1>3
    <2>4. \A m \in Z : nx[m] # nil => nx[m] \in Z
      <3> HIDE DEF Y, ny
      <3> QED  BY <1>0, <1>1, <1>3, <2>1
    <2> HIDE DEF Z
    <2>5. Reach(Node, nil, h, nx) \subseteq Z
      BY <2>2, <2>3, <2>4, ReachLeast
    <2> QED  BY <2>5 DEF Z
  <1> QED
    BY <1>5, <1>6

(* None of these makes a circle. *)
LEMMA AcyclicCut ==
    ASSUME NEW Node, NEW nil, NEW nx, NEW ny, nil \notin Node,
           nx \in [Node -> Node \cup {nil}], Acyclic(Node, nil, nx),
           \A m \in Node : ny[m] \in {nx[m], nil}
    PROVE  Acyclic(Node, nil, ny)
  <1> SUFFICES ASSUME NEW n \in Node PROVE n \notin Reach(Node, nil, ny[n], ny)
    BY DEF Acyclic
  <1>1. CASE ny[n] = nil
    BY <1>1, ReachEmpty
  <1>2. CASE ny[n] = nx[n]
    <2>1. IsList(Node, nil, nx[n], nx)
      BY DEF IsList
    <2>2. Reach(Node, nil, nx[n], ny) \subseteq Reach(Node, nil, nx[n], nx)
      BY <2>1, ReachCut
    <2> QED
      BY <1>2, <2>2 DEF Acyclic
  <1> QED
    BY <1>1, <1>2

(* Putting a node that is in no list in front of one makes no circle. *)
LEMMA AcyclicPush ==
    ASSUME NEW Node, NEW nil, NEW h, NEW nx, NEW p \in Node, IsList(Node, nil, h, nx),
           Acyclic(Node, nil, nx), p \notin Reach(Node, nil, h, nx),
           \A m \in Node : nx[m] # p
    PROVE  Acyclic(Node, nil, [nx EXCEPT ![p] = h])
  <1> DEFINE ny == [nx EXCEPT ![p] = h]
  <1>0. nil \notin Node /\ h \in Node \cup {nil} /\ nx \in [Node -> Node \cup {nil}]
    BY DEF IsList
  <1> SUFFICES ASSUME NEW n \in Node PROVE n \notin Reach(Node, nil, ny[n], ny)
    BY DEF Acyclic
  <1>1. ny \in [Node -> Node \cup {nil}] /\ ny[p] = h /\ \A m \in Node \ {p} : ny[m] = nx[m]
    BY <1>0
  <1> HIDE DEF ny
  <1>2. CASE n = p
    <2>1. \A m \in Reach(Node, nil, h, nx) : ny[m] = nx[m]
      BY <1>1, ReachClosed
    <2>2. Reach(Node, nil, h, ny) = Reach(Node, nil, h, nx)
      BY <1>0, <1>1, <2>1, ReachFrame DEF IsList
    <2> QED
      BY <1>1, <1>2, <2>2
  <1>3. CASE n # p
    <2> DEFINE X == Reach(Node, nil, nx[n], nx)
    <2>1. IsList(Node, nil, nx[n], nx) /\ IsList(Node, nil, nx[n], ny)
      BY <1>0, <1>1 DEF IsList
    <2>2. X \subseteq Node /\ (nx[n] # nil => nx[n] \in X)
          /\ \A m \in X : nx[m] # nil => nx[m] \in X
      BY <2>1, ReachClosed
    <2>3. X \subseteq X \ {p}
      <3> DEFINE Z == X \ {p}
      <3>1. /\ Z \in SUBSET Node /\ (nx[n] # nil => nx[n] \in Z)
            /\ \A m \in Z : nx[m] # nil => nx[m] \in Z
        <4> HIDE DEF X
        <4> QED  BY <2>2
      <3> HIDE DEF Z
      <3>2. Reach(Node, nil, nx[n], nx) \subseteq Z
        BY <3>1, ReachLeast
      <3> QED  BY <3>2 DEF Z
    <2>4. \A m \in X : ny[m] = nx[m]
      BY <1>1, <2>2, <2>3
    <2>5. Reach(Node, nil, nx[n], ny) = Reach(Node, nil, nx[n], nx)
      BY <2>1, <2>4, ReachFrame
    <2> QED
      BY <1>1, <1>3, <2>5 DEF Acyclic
  <1> QED
    BY <1>2, <1>3

(* Taking a node out makes no circle. *)
LEMMA AcyclicBypass ==
    ASSUME NEW Node, NEW nil, NEW nx, NEW p \in Node, nil \notin Node,
           nx \in [Node -> Node \cup {nil}], Acyclic(Node, nil, nx)
    PROVE  Acyclic(Node, nil, Bypass(Node, nil, p, nx))
  <1> DEFINE ny == Bypass(Node, nil, p, nx)
  <1> SUFFICES ASSUME NEW n \in Node PROVE n \notin Reach(Node, nil, ny[n], ny)
    BY DEF Acyclic
  <1>1. IsList(Node, nil, nx[n], nx) /\ IsList(Node, nil, nil, nx)
    BY DEF IsList
  <1>2. ny[p] = nil /\ \A m \in Node \ {p} : ny[m] = IF nx[m] = p THEN nx[p] ELSE nx[m]
    BY <1>1, BypassFacts
  <1>3. CASE n = p
    <2> HIDE DEF ny
    <2> QED
      BY <1>2, <1>3, ReachEmpty
  <1>4. CASE n # p
    <2>1. Reach(Node, nil, IF nx[n] = p THEN nx[p] ELSE nx[n], ny)
            = Reach(Node, nil, nx[n], nx) \ {p}
      BY <1>1, ReachBypass
    <2> HIDE DEF ny
    <2>2. Reach(Node, nil, ny[n], ny) = Reach(Node, nil, nx[n], nx) \ {p}
      BY <1>2, <1>4, <2>1
    <2> QED
      BY <2>2 DEF Acyclic
  <1> QED
    BY <1>3, <1>4

-----------------------------------------------------------------------------
(* A node behind the head has a node of the list before it. *)
LEMMA ReachPred ==
    ASSUME NEW Node, NEW nil, NEW h, NEW nx, IsList(Node, nil, h, nx),
           NEW n \in Reach(Node, nil, h, nx), n # h
    PROVE  \E m \in Reach(Node, nil, h, nx) : nx[m] = n
  <1> DEFINE X == Reach(Node, nil, h, nx)
             S == {k \in X : k = h \/ \E m \in X : nx[m] = k}
  <1>1. X \subseteq Node /\ (h # nil => h \in X) /\ \A m \in X : nx[m] # nil => nx[m] \in X
    BY ReachClosed
  <1>2. S \in SUBSET Node /\ (h # nil => h \in S) /\ \A m \in S : nx[m] # nil => nx[m] \in S
    <2> HIDE DEF X
    <2> QED  BY <1>1
  <1>3. X \subseteq S
    <2> HIDE DEF S
    <2> QED  BY <1>2, ReachLeast
  <1> QED
    BY <1>3

(* Of two nodes of a list one comes behind the other. *)
LEMMA ReachOrder ==
    ASSUME NEW Node, NEW nil, NEW h, NEW nx, IsList(Node, nil, h, nx),
           NEW m \in Reach(Node, nil, h, nx), NEW n \in Reach(Node, nil, h, nx)
    PROVE  m \in Reach(Node, nil, n, nx) \/ n \in Reach(Node, nil, nx[m], nx)
  <1> DEFINE X == Reach(Node, nil, h, nx)
             S == {k \in X : m \in Reach(Node, nil, k, nx) \/ k \in Reach(Node, nil, nx[m], nx)}
  <1>0. nil \notin Node /\ nx \in [Node -> Node \cup {nil}]
    BY DEF IsList
  <1>1. X \subseteq Node /\ (h # nil => h \in X) /\ \A k \in X : nx[k] # nil => nx[k] \in X
    BY ReachClosed
  <1>2. h # nil => h \in S
    BY <1>1
  <1>3. ASSUME NEW k \in S, nx[k] # nil PROVE nx[k] \in S
    <2>1. k \in Node /\ nx[k] \in Node /\ nx[k] \in X /\ m \in Node
      BY <1>0, <1>1, <1>3
    <2>2. IsList(Node, nil, k, nx) /\ IsList(Node, nil, nx[m], nx)
      BY <1>0, <2>1 DEF IsList
    <2>3. CASE k \in Reach(Node, nil, nx[m], nx)
      <3>1. nx[k] \in Reach(Node, nil, nx[m], nx)
        BY <1>3, <2>2, <2>3, ReachClosed
      <3> QED  BY <2>1, <3>1
    <2>4. CASE m \in Reach(Node, nil, k, nx)
      <3>1. m = k \/ m \in Reach(Node, nil, nx[k], nx)
        BY <2>1, <2>2, <2>4, ReachUnfold
      <3>2. m = k => nx[k] \in Reach(Node, nil, nx[m], nx)
        BY <1>3, <2>2, ReachClosed
      <3> QED  BY <2>1, <3>1, <3>2
    <2> QED  BY <1>3, <2>3, <2>4
  <1>4. S \in SUBSET Node
    BY <1>1
  <1>5. X \subseteq S
    <2> HIDE DEF S
    <2> QED  BY <1>2, <1>3, <1>4, ReachLeast
  <1> QED
    BY <1>5

(* In a straight list no two nodes point to the same one. *)
LEMMA StraightOnePred ==
    ASSUME NEW Node, NEW nil, NEW h, NEW nx, IsList(Node, nil, h, nx), Straight(Node, nil, h, nx),
           NEW m \in Reach(Node, nil, h, nx), NEW n \in Reach(Node, nil, h, nx), nx[m] = nx[n], nx[m] # nil
    PROVE  m = n
  <1>0. m \in Node /\ n \in Node /\ nil \notin Node /\ nx \in [Node -> Node \cup {nil}]
    BY ReachClosed DEF IsList
  <1>1. m \notin Reach(Node, nil, nx[m], nx) /\ n \notin Reach(Node, nil, nx[n], nx)
    BY DEF Straight, NoReturn
  <1>2. m \in Reach(Node, nil, n, nx)
    BY <1>1, ReachOrder
  <1>3. Reach(Node, nil, n, nx) = {n} \cup Reach(Node, nil, nx[n], nx)
    BY <1>0, ReachUnfold DEF IsList
  <1> QED
    BY <1>1, <1>2, <1>3

(* A list is straight as long as its own pointers are left alone. *)
LEMMA StraightFrame ==
    ASSUME NEW Node, NEW nil, NEW h, NEW nx, NEW ny,
           IsList(Node, nil, h, nx), IsList(Node, nil, h, ny), Straight(Node, nil, h, nx),
           \A m \in Reach(Node, nil, h, nx) : ny[m] = nx[m]
    PROVE  Straight(Node, nil, h, ny)
  <1> DEFINE X == Reach(Node, nil, h, nx)
  <1>1. Reach(Node, nil, h, ny) = X
    BY ReachFrame
  <1>2. ASSUME NEW q \in X PROVE NoReturn(Node, nil, q, ny)
    <2> DEFINE x == nx[q]
               T == Reach(Node, nil, x, nx)
    <2>1. T \subseteq X
      BY ReachSuffix
    <2>2. nil \notin Node /\ nx \in [Node -> Node \cup {nil}] /\ ny \in [Node -> Node \cup {nil}]
      BY DEF IsList
    <2>3. x \in Node \cup {nil}
      BY <2>2, ReachClosed
    <2>4. IsList(Node, nil, x, nx) /\ IsList(Node, nil, x, ny)
      BY <2>2, <2>3 DEF IsList
    <2>5. \A m \in T : ny[m] = nx[m]
      <3>1. \A m \in X : ny[m] = nx[m]
        OBVIOUS
      <3> HIDE DEF T, X
      <3> QED
        BY <2>1, <3>1
    <2>6. ny[q] = x /\ NoReturn(Node, nil, q, nx)
      BY DEF Straight
    <2> HIDE DEF x
    <2>7. Reach(Node, nil, x, ny) = Reach(Node, nil, x, nx)
      BY <2>4, <2>5, ReachFrame
    <2> QED
      BY <2>6, <2>7 DEF NoReturn, x
  <1> DEFINE P(q) == NoReturn(Node, nil, q, ny)
             Y == Reach(Node, nil, h, ny)
  <1>3. \A q \in Y : P(q)
    <2>1. Y = X /\ \A q \in X : P(q)
      BY <1>1, <1>2
    <2> HIDE DEF P, X, Y
    <2> QED  BY <2>1
  <1> QED
    BY <1>3 DEF Straight

(* The rest of a straight list is straight. *)
LEMMA StraightTail ==
    ASSUME NEW Node, NEW nil, NEW h, NEW nx, IsList(Node, nil, h, nx), Straight(Node, nil, h, nx),
           NEW m \in Reach(Node, nil, h, nx)
    PROVE  Straight(Node, nil, nx[m], nx)
  <1> DEFINE X == Reach(Node, nil, h, nx)
             Y == Reach(Node, nil, nx[m], nx)
             P(q) == NoReturn(Node, nil, q, nx)
  <1>1. Y \subseteq X /\ \A q \in X : P(q)
    BY ReachSuffix DEF Straight
  <1>2. \A q \in Y : P(q)
    <2> HIDE DEF P, X, Y
    <2> QED  BY <1>1
  <1> QED
    BY <1>2 DEF Straight

(* p in front of a list it is not on. *)
LEMMA StraightPush ==
    ASSUME NEW Node, NEW nil, NEW h, NEW nx, NEW ny, NEW p \in Node,
           IsList(Node, nil, h, nx), IsList(Node, nil, h, ny), Straight(Node, nil, h, nx),
           p \notin Reach(Node, nil, h, nx), ny[p] = h,
           \A m \in Reach(Node, nil, h, nx) : ny[m] = nx[m]
    PROVE  /\ Reach(Node, nil, p, ny) = Reach(Node, nil, h, nx) \cup {p}
           /\ Straight(Node, nil, p, ny)
  <1> DEFINE X == Reach(Node, nil, h, ny)
             Y == Reach(Node, nil, p, ny)
             P(q) == NoReturn(Node, nil, q, ny)
  <1>1. X = Reach(Node, nil, h, nx)
    BY ReachFrame
  <1>2. IsList(Node, nil, p, ny)
    BY DEF IsList
  <1>3. Y = {p} \cup X
    BY <1>2, ReachUnfold
  <1>4. Straight(Node, nil, h, ny)
    BY StraightFrame
  <1>5. (\A q \in X : P(q)) /\ P(p)
    BY <1>1, <1>4 DEF Straight, NoReturn
  <1>6. \A q \in Y : P(q)
    <2> HIDE DEF P, X, Y
    <2> QED  BY <1>3, <1>5
  <1> QED
    BY <1>1, <1>3, <1>6 DEF Straight

(* z, which m points to, is taken out by redirecting m. *)
LEMMA StraightSplice ==
    ASSUME NEW Node, NEW nil, NEW h, NEW nx, NEW ny,
           IsList(Node, nil, h, nx), IsList(Node, nil, h, ny), Straight(Node, nil, h, nx),
           NEW m \in Reach(Node, nil, h, nx), NEW z \in Reach(Node, nil, h, nx), nx[m] = z, h # z,
           ny[m] = nx[z], ny[z] = nil,
           \A k \in Reach(Node, nil, h, nx) \ {m, z} : ny[k] = nx[k]
    PROVE  /\ Reach(Node, nil, h, ny) = Reach(Node, nil, h, nx) \ {z}
           /\ Straight(Node, nil, h, ny)
  <1> DEFINE X == Reach(Node, nil, h, nx)
             Y == X \ {z}
             W == Reach(Node, nil, h, ny)
             V == {n \in X : n \in W \/ (n = z /\ m \in W)}
  <1>0. nil \notin Node /\ nx \in [Node -> Node \cup {nil}] /\ ny \in [Node -> Node \cup {nil}]
    BY DEF IsList
  <1>1. X \subseteq Node /\ (h # nil => h \in X) /\ \A k \in X : nx[k] # nil => nx[k] \in X
    BY ReachClosed
  <1>2. W \subseteq Node /\ (h # nil => h \in W) /\ \A k \in W : ny[k] # nil => ny[k] \in W
    BY ReachClosed
  <1>3. m \in Node /\ z \in Node /\ m # z /\ nx[z] # z
    <2>1. z \notin Reach(Node, nil, nx[z], nx) /\ m \notin Reach(Node, nil, nx[m], nx)
      BY DEF Straight, NoReturn
    <2>2. IsList(Node, nil, z, nx)
      BY <1>0, <1>1 DEF IsList
    <2>3. z \in Reach(Node, nil, z, nx)
      BY <1>0, <1>1, <2>2, ReachClosed
    <2> QED
      BY <1>1, <2>1, <2>3
  <1>4. \A k \in X : nx[k] = z => k = m
    <2> SUFFICES ASSUME NEW k \in X, nx[k] = z PROVE k = m
      OBVIOUS
    <2>1. k \in Reach(Node, nil, h, nx) /\ nx[k] = nx[m] /\ nx[k] # nil
      BY <1>0, <1>3
    <2> QED
      BY <2>1, StraightOnePred
  <1> HIDE DEF X, W
  <1>5. W \subseteq Y
    <2>1. Y \in SUBSET Node /\ (h # nil => h \in Y) /\ \A k \in Y : ny[k] # nil => ny[k] \in Y
      BY <1>0, <1>1, <1>3, <1>4 DEF X
    <2> HIDE DEF Y
    <2> QED
      BY <2>1, ReachLeast DEF W
  <1>6. X \subseteq V
    <2>1. m \in X /\ z \in X /\ \A k \in X \ {m, z} : ny[k] = nx[k]
      BY DEF X
    <2>2. V \in SUBSET Node /\ (h # nil => h \in V)
      BY <1>1, <1>2
    <2>3. \A k \in V : nx[k] # nil => nx[k] \in V
      BY <1>0, <1>1, <1>2, <1>3, <1>5, <2>1
    <2> HIDE DEF V
    <2> QED
      BY <2>2, <2>3, ReachLeast DEF X
  <1>7. W = Y
    BY <1>5, <1>6
  <1>8. ASSUME NEW q \in Y PROVE NoReturn(Node, nil, q, ny)
    <2> DEFINE T == Reach(Node, nil, nx[q], nx)
    <2>1. q \in X /\ q # z /\ q \in Node /\ nx[q] \in Node \cup {nil} /\ q \notin T
      BY <1>0, <1>1, <1>8 DEF Straight, NoReturn, X
    <2>2. IsList(Node, nil, nx[q], nx)
      BY <1>0, <2>1 DEF IsList
    <2>3. T \subseteq Node /\ (nx[q] # nil => nx[q] \in T) /\ \A k \in T : nx[k] # nil => nx[k] \in T
      BY <2>2, ReachClosed
    <2>4. T \subseteq X
      BY <2>1, ReachSuffix DEF X
    <2> HIDE DEF T
    <2>5. \A k \in X : k # m /\ k # z => ny[k] = nx[k]
      BY DEF X
    <2>6. \A k \in T : ny[k] # nil => ny[k] \in T
      BY <1>0, <1>3, <2>3, <2>4, <2>5
    <2>7. ny[q] # nil => ny[q] \in T
      BY <1>0, <1>3, <2>1, <2>3, <2>5
    <2>8. T \in SUBSET Node
      BY <2>3
    <2>9. Reach(Node, nil, ny[q], ny) \subseteq T
      BY <2>6, <2>7, <2>8, ReachLeast
    <2> QED
      BY <2>1, <2>9 DEF NoReturn
  <1>9. \A q \in Reach(Node, nil, h, ny) : NoReturn(Node, nil, q, ny)
    BY <1>7, <1>8 DEF W
  <1> QED
    BY <1>7, <1>9 DEF Straight, X, W
=============================================================================
