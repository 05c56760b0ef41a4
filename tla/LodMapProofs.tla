---------------------------- MODULE LodMapProofs ----------------------------
(***************************************************************************)
(* Proofs about the level-of-detail map, for every tree, every position    *)
(* and range of its nodes: the threads and the main thread agree on who    *)
(* loads which tile, every place is drawn once, and the map implements     *)
(* TileLoading.                                                            *)
(***************************************************************************)
EXTENDS LodMap, FiniteSetTheorems, WellFoundedInduction, TLAPS

-----------------------------------------------------------------------------
(* The tree.                                                               *)

\* A set of numbers has a least element.
LEMMA LeastNatural ==
  ASSUME NEW S, S \subseteq Nat, S # {}
  PROVE  \E n \in S : \A k \in S : n <= k
<1> DEFINE Less == {ss \in Nat \X Nat : ss[1] < ss[2]}
<1>1. IsWellFoundedOn(Less, Nat)
  BY NatLessThanWellFounded DEF OpToRel
<1>2. PICK n \in S : \A k \in S : ~(<<k, n>> \in Less)
  <2> HIDE DEF Less
  <2> QED BY <1>1, WFMin
<1>3. \A k \in S : ~(k < n)
  BY <1>2
<1> QED BY <1>3

\* What is below a node below n is below n.
LEMMA BelowTransitive ==
  ASSUME NEW n \in Nodes, NEW m \in Below[n], NEW k \in Below[m]
  PROVE  m \in Nodes /\ k \in Nodes /\ k \in Below[n]
BY LodMapAssumption

\* Two nodes are not below each other.
LEMMA BelowAntisymmetric ==
  ASSUME NEW n \in Nodes, NEW m \in Nodes, n \in Below[m], m \in Below[n]
  PROVE  n = m
<1>1. Below[n] \subseteq Below[m] /\ Below[m] \subseteq Below[n]
  BY LodMapAssumption
<1>2. Below[n] = Below[m]
  BY <1>1
<1> QED BY <1>2, LodMapAssumption

\* Of two nodes above the same node one is above the other.
LEMMA AncestorsComparable ==
  ASSUME NEW n \in Nodes, NEW a \in Nodes, NEW b \in Nodes, n \in Below[a], n \in Below[b]
  PROVE  a \in Below[b] \/ b \in Below[a]
BY LodMapAssumption

\* A set of nodes above each other has a lowest node.
LEMMA Lowest ==
  ASSUME NEW S \in SUBSET Nodes, S # {},
         \A a, b \in S : a \in Below[b] \/ b \in Below[a]
  PROVE  \E m \in S : \A a \in S : m \in Below[a]
<1> DEFINE size(n) == Cardinality(Below[n])
           sizes == {size(n) : n \in S}
<1>1. \A n \in Nodes : IsFiniteSet(Below[n]) /\ size(n) \in Nat
  BY LodMapAssumption, FS_Subset, FS_CardinalityType
<1>2. sizes \subseteq Nat /\ sizes # {}
  BY <1>1
<1>3. PICK m \in S : \A a \in S : size(m) <= size(a)
  <2>1. PICK x \in sizes : \A y \in sizes : x <= y
    <3> HIDE DEF sizes
    <3> QED BY <1>2, LeastNatural
  <2> QED BY <2>1
<1>4. ASSUME NEW a \in S PROVE m \in Below[a]
  <2>1. CASE a \in Below[m]
    <3>1. Below[a] \subseteq Below[m]
      BY <2>1, LodMapAssumption
    <3>2. size(a) = size(m) => Below[a] = Below[m]
      BY <3>1, <1>1, FS_Subset
    <3>3. size(a) <= size(m)
      BY <3>1, <1>1, FS_Subset
    <3>4. size(a) = size(m)
      <4>1. size(a) \in Nat /\ size(m) \in Nat
        BY <1>1
      <4>2. size(m) <= size(a)
        BY <1>3
      <4> HIDE DEF size
      <4> QED BY <3>3, <4>1, <4>2
    <3> QED BY <3>2, <3>4, LodMapAssumption
  <2> QED BY <2>1
<1> QED BY <1>4

\* A set of nodes above each other has a highest node.
LEMMA Highest ==
  ASSUME NEW S \in SUBSET Nodes, S # {},
         \A a, b \in S : a \in Below[b] \/ b \in Below[a]
  PROVE  \E m \in S : \A a \in S : a \in Below[m]
<1> DEFINE rest(n) == Cardinality(Nodes \ Below[n])
           rests == {rest(n) : n \in S}
<1>1. \A n \in Nodes : IsFiniteSet(Nodes \ Below[n]) /\ rest(n) \in Nat
  BY LodMapAssumption, FS_Difference, FS_CardinalityType
<1>2. rests \subseteq Nat /\ rests # {}
  BY <1>1
<1>3. PICK m \in S : \A a \in S : rest(m) <= rest(a)
  <2>1. PICK x \in rests : \A y \in rests : x <= y
    <3> HIDE DEF rests
    <3> QED BY <1>2, LeastNatural
  <2> QED BY <2>1
<1>4. ASSUME NEW a \in S PROVE a \in Below[m]
  <2>1. CASE m \in Below[a]
    <3>1. Nodes \ Below[a] \subseteq Nodes \ Below[m]
      BY <2>1, LodMapAssumption
    <3>2. rest(a) = rest(m) => Nodes \ Below[a] = Nodes \ Below[m]
      BY <3>1, <1>1, FS_Subset
    <3>3. rest(a) <= rest(m)
      BY <3>1, <1>1, FS_Subset
    <3>4. rest(a) = rest(m)
      <4>1. rest(a) \in Nat /\ rest(m) \in Nat
        BY <1>1
      <4>2. rest(m) <= rest(a)
        BY <1>3
      <4> HIDE DEF rest
      <4> QED BY <3>3, <4>1, <4>2
    <3>5. Below[a] = Below[m]
      <4>1. Below[a] \subseteq Nodes /\ Below[m] \subseteq Nodes
        BY LodMapAssumption
      <4>2. Nodes \ Below[a] = Nodes \ Below[m]
        BY <3>2, <3>4
      <4> QED BY <4>1, <4>2
    <3> QED BY <3>5, LodMapAssumption
  <2> QED BY <2>1
<1> QED BY <1>4

\* A node below r other than r has a parent below r.
LEMMA HasParent ==
  ASSUME NEW r \in Nodes, NEW n \in Below[r], n # r
  PROVE  \E p \in Over[n] \cap Below[r] : n \in Kids[p]
<1> DEFINE S == Over[n] \cap Below[r]
<1>1. n \in Nodes /\ S \in SUBSET Nodes /\ r \in S
  BY LodMapAssumption DEF Over
<1>2. \A a, b \in S : a \in Below[b] \/ b \in Below[a]
  BY <1>1, AncestorsComparable DEF Over
<1>3. PICK p \in S : \A a \in S : p \in Below[a]
  BY <1>1, <1>2, Lowest
<1>4. p \in Nodes /\ n \in Below[p] /\ n # p
  BY <1>1 DEF Over
<1>5. ASSUME NEW k \in Below[p] \ {p}, n \in Below[k] PROVE k = n
  <2>1. k \in Nodes /\ k \in Below[r]
    BY <1>4, BelowTransitive, <1>1
  <2>2. k # n => k \in S
    BY <2>1, <1>5, <1>1 DEF Over
  <2>3. k # n => p \in Below[k]
    BY <2>2, <1>3
  <2> QED BY <2>3, <2>1, <1>4, BelowAntisymmetric
<1>6. n \in Kids[p]
  BY <1>4, <1>5, <1>1 DEF Kids
<1> QED BY <1>6

\* A node has one parent at most.
LEMMA OneParent ==
  ASSUME NEW p \in Nodes, NEW q \in Nodes, NEW n \in Kids[p], n \in Kids[q]
  PROVE  p = q
<1>1. n \in Nodes /\ n \in Below[p] \ {p} /\ n \in Below[q] \ {q}
  BY LodMapAssumption DEF Kids
<1>2. p \in Below[q] \/ q \in Below[p]
  BY <1>1, AncestorsComparable
<1> QED BY <1>1, <1>2 DEF Kids

\* Between a node and one below it is a child of the former.
LEMMA ChildTowards ==
  ASSUME NEW a \in Nodes, NEW n \in Below[a], n # a
  PROVE  \E k \in Kids[a] : n \in Below[k]
<1> DEFINE S == {k \in Below[a] \ {a} : n \in Below[k]}
<1>1. n \in Nodes /\ S \in SUBSET Nodes /\ n \in S
  BY LodMapAssumption
<1>2. \A x, y \in S : x \in Below[y] \/ y \in Below[x]
  BY <1>1, AncestorsComparable
<1>3. PICK k \in S : \A x \in S : x \in Below[k]
  BY <1>1, <1>2, Highest
<1>4. ASSUME NEW m \in Below[a] \ {a}, k \in Below[m] PROVE m = k
  <2>1. m \in Nodes /\ k \in Nodes /\ n \in Below[m]
    BY <1>1, <1>4, BelowTransitive, LodMapAssumption
  <2>2. m \in Below[k]
    BY <2>1, <1>3
  <2> QED BY <2>1, <2>2, <1>4, BelowAntisymmetric
<1>5. k \in Kids[a]
  BY <1>4 DEF Kids
<1> QED BY <1>5

-----------------------------------------------------------------------------
(* The inductive invariant.                                                *)

Path(n) == {n} \cup Above(n)
Loaded == {"LOADING", "READY", "ACTIVE"}

\* The nodes of the tree are the ones that have a status.
TreeExists == pc # "freed" => \A n \in Nodes : status[n] = "none" <=> n \notin Below[root]

\* freeOpenGLLodMap leaves nothing behind.
FreedEmpty == pc = "freed" => selection = {} /\ \A n \in Nodes : status[n] = "none"

\* The root is never unloaded, so no thread ever loads it.
RootLoaded == status[root] \notin {"META", "LOADING"}

\* The tiles that are still to be made visible, and the ones above them, are loaded
\* or with a thread.
Prepared ==
  pc = "update" => \A n \in todo : n \in Below[root] /\ \A a \in Path(n) : status[a] \in Loaded

MapInv == TypeOK /\ LoadingOwned /\ TreeExists /\ FreedEmpty /\ RootLoaded /\ Prepared

-----------------------------------------------------------------------------
(* The selection, given the nodes that are read as in their range.         *)

EnteredBy(r, seen, cut) ==
  {n \in Below[r] : n \in seen /\ Over[n] \cap Below[r] \subseteq seen \ cut}
ReachedBy(r, seen, cut) ==
  {r} \cup UNION {Kids[n] : n \in EnteredBy(r, seen, cut) \ cut}
PassedBy(r, seen, cut) == ReachedBy(r, seen, cut) \ (EnteredBy(r, seen, cut) \cup {r})

SelectedStatus(r, seen, cut) ==
  [n \in Nodes |->
     IF status[n] = "none" /\ n \in Below[r] \ ReachedBy(r, seen, cut) THEN "INACTIVE"
     ELSE Selected(n, ReachedBy(r, seen, cut), EnteredBy(r, seen, cut) \ {r},
                   PassedBy(r, seen, cut))]

\* SelectNodes in terms of these sets.
LEMMA SelectNodesUnfolded ==
  ASSUME NEW seen, NEW cut, SelectNodes(seen, cut)
  PROVE  /\ status' = SelectedStatus(root', seen, cut)
         /\ selection' = {n \in EnteredBy(root', seen, cut) \ cut : IsDrawn(n, seen)}
         /\ pool' = pool \cup {n \in Nodes : status[n] # "LOADING" /\ status'[n] = "LOADING"}
                         \cup {NotANode : n \in {m \in selection' : status'[m] = "META"}}
         /\ link' = [n \in Nodes |-> Relink(n)]
         /\ todo' = selection'
         /\ parts' = [n \in Nodes |-> IF n \in selection' THEN Kids[n] \cap seen ELSE parts[n]]
         /\ pc' = IF selection' = {} THEN "idle" ELSE "update"
<1>1. status' = SelectedStatus(root', seen, cut)
  BY Zenon DEF SelectNodes, SelectedStatus, PassedBy, ReachedBy, EnteredBy
<1>2. selection' = {n \in EnteredBy(root', seen, cut) \ cut : IsDrawn(n, seen)}
  BY Zenon DEF SelectNodes, EnteredBy
<1>3. pool' = pool \cup {n \in Nodes : status[n] # "LOADING" /\ status'[n] = "LOADING"}
                   \cup {NotANode : n \in {m \in selection' : status'[m] = "META"}}
  <2>1. {n \in Nodes \ {m \in Nodes : status[m] = "LOADING"} : status'[n] = "LOADING"}
          = {n \in Nodes : status[n] # "LOADING" /\ status'[n] = "LOADING"}
    OBVIOUS
  <2> QED BY <2>1, Zenon DEF SelectNodes
<1> QED BY <1>1, <1>2, <1>3, Zenon DEF SelectNodes

\* expandQuadtree finds a tree that contains the old one.
LEMMA ExpandedRootAbove ==
  ASSUME root \in Nodes, NEW p, \E n \in Nodes : root \in Below[n] /\ p \in Area[n]
  PROVE  ExpandedRoot(p) \in Nodes /\ root \in Below[ExpandedRoot(p)]
<1> DEFINE wider == {r \in Nodes : root \in Below[r] /\ p \in Area[r]}
<1>1. wider \in SUBSET Nodes /\ wider # {}
  OBVIOUS
<1>2. \A a, b \in wider : a \in Below[b] \/ b \in Below[a]
  BY AncestorsComparable
<1>3. \E r \in wider : \A w \in wider : r \in Below[w]
  BY <1>1, <1>2, Lowest
<1>4. ExpandedRoot(p) \in wider
  BY <1>3 DEF ExpandedRoot
<1> QED BY <1>4

\* An update is a selection in a tree that contains the old one, and the root is not
\* cut.
LEMMA UpdateIsSelection ==
  ASSUME MapInv, NEW p \in Positions, NEW expand \in BOOLEAN, UpdateLodMap(p, expand)
  PROVE  /\ pc = "idle" /\ pos' = p
         /\ root' \in Nodes /\ root \in Below[root']
         /\ \E seen \in SUBSET Nodes, cut \in SUBSET Distant :
              /\ SelectNodes(seen, cut)
              /\ root' \notin cut
              /\ \A n \in Below[root'] : status[n] # "LOADING" => (n \in seen <=> IntersectsSphere(n, p))
<1>1. pc = "idle" /\ pos' = p /\ root' = IF expand THEN ExpandedRoot(p) ELSE root
  BY DEF UpdateLodMap
<1>2. root \in Nodes
  BY DEF MapInv, TypeOK
<1>3. root' \in Nodes /\ root \in Below[root']
  <2>1. CASE expand
    BY <1>1, <1>2, <2>1, ExpandedRootAbove DEF UpdateLodMap
  <2>2. CASE ~expand
    BY <1>1, <1>2, <2>2, LodMapAssumption
  <2> QED BY <2>1, <2>2
<1>4. status[root'] \notin {"META", "LOADING"}
  <2>1. CASE root' = root
    BY <2>1 DEF MapInv, RootLoaded
  <2>2. CASE root' # root
    <3>1. root' \notin Below[root]
      BY <1>2, <1>3, <2>2, BelowAntisymmetric
    <3> QED BY <3>1, <1>1, <1>3 DEF MapInv, TreeExists
  <2> QED BY <2>1, <2>2
<1> DEFINE loading == {n \in Nodes : status[n] = "LOADING"}
           near == {n \in Below[root'] : IntersectsSphere(n, p)}
<1>5. PICK misread \in SUBSET loading,
           cut \in SUBSET {n \in Distant : status[n] \in {"LOADING", "META"}} :
             SelectNodes((near \ loading) \cup misread, cut)
  BY DEF UpdateLodMap
<1> DEFINE seen == (near \ loading) \cup misread
<1>6. near \subseteq Nodes
  BY <1>3, LodMapAssumption
<1>7. seen \in SUBSET Nodes /\ cut \in SUBSET Distant /\ root' \notin cut
  BY <1>4, <1>6
<1>8. \A n \in Below[root'] : status[n] # "LOADING" => (n \in seen <=> IntersectsSphere(n, p))
  <2> HIDE DEF SelectNodes
  <2> QED BY <1>3, LodMapAssumption
<1> HIDE DEF seen
<1> QED BY <1>1, <1>3, <1>5, <1>7, <1>8 DEF seen

\* What is above a node that is entered is entered and not cut.
LEMMA EnteredUpwards ==
  ASSUME NEW r \in Nodes, NEW seen \in SUBSET Nodes, NEW cut \in SUBSET Nodes,
         NEW n \in EnteredBy(r, seen, cut), NEW a \in Over[n] \cap Below[r]
  PROVE  a \in EnteredBy(r, seen, cut) \ cut
<1>1. n \in Nodes /\ a \in Nodes /\ n \in Below[a] /\ a \in seen \ cut
  BY LodMapAssumption DEF EnteredBy, Over
<1>2. ASSUME NEW b \in Over[a] \cap Below[r] PROVE b \in seen \ cut
  <2>1. b \in Nodes /\ a \in Below[b] /\ b # a
    BY <1>1 DEF Over
  <2>2. n \in Below[b]
    BY <1>1, <2>1, BelowTransitive
  <2>3. b # n
    BY <1>1, <2>1, <2>2, BelowAntisymmetric
  <2>4. b \in Over[n]
    BY <1>1, <2>1, <2>2, <2>3 DEF Over
  <2> QED BY <2>4, <1>2 DEF EnteredBy
<1> QED BY <1>1, <1>2 DEF EnteredBy

\* What is entered is reached, and is no child of a node that is passed by.
LEMMA EnteredReached ==
  ASSUME NEW r \in Nodes, NEW seen \in SUBSET Nodes, NEW cut \in SUBSET Nodes,
         NEW n \in EnteredBy(r, seen, cut)
  PROVE  /\ n \in ReachedBy(r, seen, cut)
         /\ \A p \in PassedBy(r, seen, cut) : n \notin Kids[p]
<1>1. n \in Nodes /\ n \in Below[r]
  BY LodMapAssumption DEF EnteredBy
<1>2. n \in ReachedBy(r, seen, cut)
  <2>1. CASE n = r
    BY <2>1 DEF ReachedBy
  <2>2. CASE n # r
    <3>1. PICK p \in Over[n] \cap Below[r] : n \in Kids[p]
      BY <1>1, <2>2, HasParent
    <3>2. p \in EnteredBy(r, seen, cut) \ cut
      BY EnteredUpwards
    <3> QED BY <3>1, <3>2 DEF ReachedBy
  <2> QED BY <2>1, <2>2
<1>3. ASSUME NEW p \in PassedBy(r, seen, cut), n \in Kids[p] PROVE FALSE
  <2>1. p \in Below[r] /\ p \in Nodes
    BY <1>3, BelowTransitive, LodMapAssumption DEF PassedBy, ReachedBy, EnteredBy, Kids
  <2>2. p \in Over[n]
    BY <1>1, <1>3, <2>1 DEF Over, Kids
  <2>3. p \in EnteredBy(r, seen, cut)
    BY <2>1, <2>2, EnteredUpwards
  <2> QED BY <2>3 DEF PassedBy
<1> QED BY <1>2, <1>3

\* Nodes that are reached are in the tree, and the root is nobody's child.
LEMMA ReachedInTree ==
  ASSUME NEW r \in Nodes, NEW seen \in SUBSET Nodes, NEW cut \in SUBSET Nodes
  PROVE  /\ ReachedBy(r, seen, cut) \subseteq Below[r]
         /\ \A p \in ReachedBy(r, seen, cut) : p \in Nodes /\ Kids[p] \subseteq Below[r] \ {r}
<1>1. \A p \in Below[r] : p \in Nodes /\ Kids[p] \subseteq Below[r] \ {r}
  <2> SUFFICES ASSUME NEW p \in Below[r], NEW k \in Kids[p]
               PROVE  k \in Below[r] /\ k # r
    BY LodMapAssumption
  <2>1. p \in Nodes /\ k \in Below[p] /\ k # p
    BY LodMapAssumption DEF Kids
  <2>2. k \in Below[r]
    BY <2>1, BelowTransitive
  <2>3. k # r
    BY <2>1, BelowAntisymmetric
  <2> QED BY <2>2, <2>3
<1>2. ReachedBy(r, seen, cut) \subseteq Below[r]
  BY <1>1, LodMapAssumption DEF ReachedBy, EnteredBy
<1> QED BY <1>1, <1>2

\* What the selection makes of the tiles.
LEMMA SelectionFacts ==
  ASSUME MapInv, pc = "idle", NEW r \in Nodes, root \in Below[r],
         NEW seen \in SUBSET Nodes, NEW cut \in SUBSET Nodes,
         NEW st, st = SelectedStatus(r, seen, cut)
  PROVE  /\ st \in [Nodes -> Statuses]
         /\ \A n \in Nodes : status[n] = "LOADING" => st[n] = "LOADING"
         /\ \A n \in Nodes : st[n] = "none" <=> n \notin Below[r]
         /\ st[r] \notin {"META", "LOADING"}
         /\ \A n \in EnteredBy(r, seen, cut) : st[n] \in Loaded
         /\ \A n \in Nodes : st[n] = "ACTIVE" => status[n] = "ACTIVE"
<1> DEFINE reached == ReachedBy(r, seen, cut)
           entered == EnteredBy(r, seen, cut)
           passed == PassedBy(r, seen, cut)
           asked(n) == IF status[n] \in {"none", "INACTIVE"} /\ n \in reached THEN "READY" ELSE status[n]
<1>1. status \in [Nodes -> Statuses] /\ root \in Nodes
  BY DEF MapInv, TypeOK
<1>2. \A n \in Nodes : status[n] = "none" <=> n \notin Below[root]
  BY DEF MapInv, TreeExists
<1>3. reached \subseteq Below[r] /\ r \in reached
      /\ \A p \in reached : p \in Nodes /\ Kids[p] \subseteq Below[r] \ {r}
  BY ReachedInTree DEF ReachedBy
<1>4. \A n \in entered : n \in reached /\ n \in Nodes /\ \A p \in passed : n \notin Kids[p]
  BY EnteredReached, <1>3, LodMapAssumption
<1>5. passed \subseteq reached \ (entered \cup {r})
  BY DEF PassedBy
<1>6. \A n \in Nodes : n \in Below[root] => n \in Below[r]
  BY <1>1, LodMapAssumption
<1>7. ASSUME NEW n \in Nodes
      PROVE  st[n] = IF status[n] = "none" /\ n \in Below[r] \ reached THEN "INACTIVE"
                     ELSE CASE n \in entered \ {r} /\ asked(n) = "META" -> "LOADING"
                            [] n \in passed /\ asked(n) = "ACTIVE" -> "READY"
                            [] n \in passed /\ asked(n) = "META" -> "LOADING"
                            [] (\E p \in passed : n \in Kids[p]) /\ asked(n) \in {"ACTIVE", "READY"} -> "META"
                            [] OTHER -> asked(n)
  BY DEF SelectedStatus, Selected
<1>8. status[r] \notin {"META", "LOADING"}
  <2>1. CASE r = root
    BY <2>1 DEF MapInv, RootLoaded
  <2>2. CASE r # root
    <3>1. r \notin Below[root]
      BY <1>1, <2>2, BelowAntisymmetric
    <3> QED BY <3>1, <1>2
  <2> QED BY <2>1, <2>2
<1> HIDE DEF reached, entered, passed
<1>9. ASSUME NEW n \in Nodes
      PROVE  /\ st[n] \in Statuses
             /\ status[n] = "LOADING" => st[n] = "LOADING"
             /\ st[n] = "none" <=> n \notin Below[r]
             /\ st[n] = "ACTIVE" => status[n] = "ACTIVE"
  <2>1. status[n] \in Statuses
    BY <1>1
  <2>2. n \in reached => n \in Below[r]
    BY <1>3
  <2>3. n \in passed => n \in reached
    BY <1>5
  <2> QED BY <1>7, <2>1, <2>2, <2>3, <1>2, <1>6 DEF Statuses
<1>10. st[r] \notin {"META", "LOADING"}
  <2>1. r \notin passed /\ ~ \E p \in passed : r \in Kids[p]
    BY <1>3, <1>5
  <2> QED BY <1>7, <1>8, <2>1, <1>1 DEF Statuses
<1>11. ASSUME NEW n \in entered PROVE st[n] \in Loaded
  <2>1. n \in Nodes /\ n \in reached /\ n \notin passed /\ ~ \E p \in passed : n \in Kids[p]
    BY <1>4, <1>5
  <2>2. status[n] \in Statuses
    BY <1>1, <2>1
  <2>3. CASE n = r
    BY <1>7, <1>8, <2>1, <2>2, <2>3 DEF Statuses, Loaded
  <2>4. CASE n # r
    BY <1>7, <2>1, <2>2, <2>4 DEF Statuses, Loaded
  <2> QED BY <2>3, <2>4
<1>12. st \in [Nodes -> Statuses]
  <2>1. \E f : st = [n \in Nodes |-> f[n]]
    <3> DEFINE f == [n \in Nodes |->
          IF status[n] = "none" /\ n \in Below[r] \ ReachedBy(r, seen, cut) THEN "INACTIVE"
          ELSE Selected(n, ReachedBy(r, seen, cut), EnteredBy(r, seen, cut) \ {r},
                        PassedBy(r, seen, cut))]
    <3>1. st = [n \in Nodes |-> f[n]]
      BY DEF SelectedStatus
    <3> QED BY <3>1
  <2> QED BY <2>1, <1>9
<1> QED BY <1>9, <1>10, <1>11, <1>12 DEF entered

-----------------------------------------------------------------------------
(* The invariant holds.                                                    *)

\* The map starts with nothing but unloaded tiles.
LEMMA InitInv == Init => MapInv
<1> SUFFICES ASSUME Init PROVE MapInv
  OBVIOUS
<1> USE LodMapAssumption DEF Init, CreateLodMap
<1>1. TypeOK
  BY DEF TypeOK, Statuses, Area
<1>2. LoadingOwned /\ TreeExists /\ FreedEmpty /\ RootLoaded /\ Prepared
  BY DEF LoadingOwned, TreeExists, FreedEmpty, RootLoaded, Prepared
<1> QED BY <1>1, <1>2 DEF MapInv

\* An update leaves every tile with its thread and prepares what it will show.
LEMMA UpdateInv ==
  ASSUME MapInv, NEW p \in Positions, NEW expand \in BOOLEAN, UpdateLodMap(p, expand)
  PROVE  MapInv'
<1>1. pc = "idle" /\ pos' = p /\ root' \in Nodes /\ root \in Below[root']
  BY UpdateIsSelection
<1>2. PICK seen \in SUBSET Nodes, cut \in SUBSET Distant : SelectNodes(seen, cut)
  BY UpdateIsSelection
<1>3. cut \in SUBSET Nodes
  BY LodMapAssumption
<1>4. /\ status' = SelectedStatus(root', seen, cut)
      /\ selection' = {n \in EnteredBy(root', seen, cut) \ cut : IsDrawn(n, seen)}
      /\ pool' = pool \cup {n \in Nodes : status[n] # "LOADING" /\ status'[n] = "LOADING"}
                      \cup {NotANode : n \in {m \in selection' : status'[m] = "META"}}
      /\ link' = [n \in Nodes |-> Relink(n)]
      /\ todo' = selection'
      /\ parts' = [n \in Nodes |-> IF n \in selection' THEN Kids[n] \cap seen ELSE parts[n]]
      /\ pc' = IF selection' = {} THEN "idle" ELSE "update"
  BY <1>2, SelectNodesUnfolded
<1>5. /\ status' \in [Nodes -> Statuses]
      /\ \A n \in Nodes : status[n] = "LOADING" => status'[n] = "LOADING"
      /\ \A n \in Nodes : status'[n] = "none" <=> n \notin Below[root']
      /\ status'[root'] \notin {"META", "LOADING"}
      /\ \A n \in EnteredBy(root', seen, cut) : status'[n] \in Loaded
  BY <1>1, <1>3, <1>4, SelectionFacts
<1>6. selection' \subseteq EnteredBy(root', seen, cut) /\ selection' \subseteq Below[root']
      /\ selection' \subseteq Nodes
  BY <1>4, <1>1, LodMapAssumption DEF EnteredBy
<1>7. pool' = {n \in Nodes : status'[n] = "LOADING"}
  <2>1. {m \in selection' : status'[m] = "META"} = {}
    BY <1>5, <1>6 DEF Loaded
  <2>2. pool = {n \in Nodes : status[n] = "LOADING"}
    BY DEF MapInv, LoadingOwned
  <2> QED BY <2>1, <2>2, <1>4, <1>5
<1>8. link' \in [Nodes -> Nodes \cup {NoLink, Freed}]
  <2>1. link \in [Nodes -> Nodes \cup {NoLink, Freed}]
    BY DEF MapInv, TypeOK
  <2>2. \A n \in Nodes : Relink(n) \in Nodes \cup {NoLink, Freed}
    BY <2>1 DEF Relink
  <2> QED BY <1>4, <2>2
<1>9. TypeOK'
  <2>1. parts' \in [Nodes -> SUBSET Nodes]
    BY <1>4, <1>6 DEF MapInv, TypeOK
  <2>2. pc' \in {"idle", "update", "freed", "abort"}
    BY <1>4
  <2> QED BY <1>1, <1>4, <1>5, <1>6, <1>7, <1>8, <2>1, <2>2 DEF TypeOK
<1>10. Prepared'
  <2> SUFFICES ASSUME NEW n \in selection', NEW a \in Path(n)'
               PROVE  status'[a] \in Loaded
    BY <1>4, <1>6 DEF Prepared
  <2>1. CASE a = n
    BY <2>1, <1>5, <1>6
  <2>2. CASE a # n
    <3>1. a \in Over[n] \cap Below[root']
      BY <2>2 DEF Path, Above
    <3>2. a \in EnteredBy(root', seen, cut)
      BY <3>1, <1>1, <1>3, <1>6, EnteredUpwards
    <3> QED BY <3>2, <1>5
  <2> QED BY <2>1, <2>2
<1>11. pc' # "abort" /\ pc' # "freed"
  BY <1>4
<1> QED BY <1>5, <1>7, <1>9, <1>10, <1>11
        DEF MapInv, LoadingOwned, TreeExists, FreedEmpty, RootLoaded

\* The tiles that are made visible together are all READY once no thread has them.
LEMMA ChainReady ==
  ASSUME MapInv, pc = "update", NEW n \in todo
  PROVE  /\ Chain(n) \subseteq Path(n) /\ Path(n) \subseteq Below[root] /\ Below[root] \subseteq Nodes
         /\ \A a \in Chain(n) : status[a] # "LOADING" => status[a] = "READY"
<1>1. root \in Nodes /\ n \in Below[root] /\ \A a \in Path(n) : status[a] \in Loaded
  BY DEF MapInv, TypeOK, Prepared
<1>2. Path(n) \subseteq Below[root] /\ Below[root] \subseteq Nodes
  BY <1>1, LodMapAssumption DEF Path, Above
<1>3. Chain(n) \subseteq Path(n)
  BY DEF Chain, Path
<1>4. \A a \in Chain(n) : a \in Below[a] \cap Path(n) /\ status[a] # "ACTIVE"
  BY <1>2, <1>3, LodMapAssumption DEF Chain, Path
<1> QED BY <1>1, <1>2, <1>3, <1>4 DEF Loaded

\* Making a tile visible does not trip the assertion of activateLodMapTile.
LEMMA MakeVisibleInv ==
  ASSUME MapInv, MakeVisible
  PROVE  MapInv'
<1>1. PICK n \in todo : Below[n] \cap todo = {n} /\ todo' = todo \ {n} /\ Activate(n)
  BY DEF MakeVisible
<1>2. pc = "update" /\ UNCHANGED <<root, pool, selection, parts, pos>>
  BY DEF MakeVisible, drawn
<1>3. /\ Chain(n) \subseteq Path(n) /\ Path(n) \subseteq Below[root] /\ Below[root] \subseteq Nodes
      /\ \A a \in Chain(n) : status[a] = "READY"
  BY <1>1, <1>2, ChainReady DEF Activate
<1>4. /\ status' = [a \in Nodes |-> IF a \in Chain(n) THEN "ACTIVE" ELSE status[a]]
      /\ pc' = IF todo = {n} THEN "idle" ELSE pc
      /\ link' = [a \in Nodes |-> IF a \notin Chain(n) THEN link[a]
                                  ELSE IF a = root THEN a ELSE ParentOf(a)]
  BY <1>1, <1>3 DEF Activate
<1>5. root \in Nodes /\ status \in [Nodes -> Statuses]
  BY DEF MapInv, TypeOK
<1>6. \A a \in Chain(n) : a # root => ParentOf(a) \in Nodes
  <2> SUFFICES ASSUME NEW a \in Chain(n), a # root PROVE ParentOf(a) \in Nodes
    OBVIOUS
  <2>1. a \in Below[root] /\ a \in Nodes
    BY <1>3
  <2>2. \E q \in Above(a) : a \in Kids[q]
    BY <2>1, <1>5, HasParent DEF Above
  <2>3. ParentOf(a) \in Above(a)
    BY <2>2 DEF ParentOf
  <2> QED BY <2>3, <1>3 DEF Above
<1>7. TypeOK'
  <2>1. status' \in [Nodes -> Statuses]
    BY <1>4, <1>5 DEF Statuses
  <2>2. link' \in [Nodes -> Nodes \cup {NoLink, Freed}]
    <3>1. link \in [Nodes -> Nodes \cup {NoLink, Freed}]
      BY DEF MapInv, TypeOK
    <3> QED BY <3>1, <1>4, <1>6
  <2>3. pc' \in {"idle", "update", "freed", "abort"}
    BY <1>2, <1>4
  <2> QED BY <1>1, <1>2, <2>1, <2>2, <2>3 DEF MapInv, TypeOK
<1>8. \A a \in Nodes : (status'[a] = "LOADING" <=> status[a] = "LOADING")
                       /\ (status'[a] = "none" <=> status[a] = "none")
                       /\ (status[a] \in Loaded => status'[a] \in Loaded)
                       /\ (status'[a] = "META" <=> status[a] = "META")
  BY <1>3, <1>4 DEF Loaded
<1>9. LoadingOwned'
  BY <1>2, <1>4, <1>8 DEF MapInv, LoadingOwned
<1>10. Prepared'
  <2>1. \A m \in todo : m \in Below[root] /\ \A a \in Path(m) : status[a] \in Loaded
    BY <1>2 DEF MapInv, Prepared
  <2>2. \A m \in todo : Path(m) \subseteq Nodes /\ Path(m)' = Path(m)
    BY <1>2, <1>3, <2>1 DEF Path, Above
  <2> QED BY <1>1, <1>2, <1>8, <2>1, <2>2 DEF Prepared
<1>11. pc' # "freed" /\ TreeExists' /\ FreedEmpty' /\ RootLoaded'
  BY <1>2, <1>4, <1>5, <1>8 DEF MapInv, TreeExists, FreedEmpty, RootLoaded
<1> QED BY <1>7, <1>9, <1>10, <1>11 DEF MapInv

\* A thread that has a tile finds it LOADING.
LEMMA LoadTileInv ==
  ASSUME MapInv, NEW t \in Nodes \cup {NotANode}, LoadTile(t)
  PROVE  MapInv'
<1>1. t \in Nodes /\ status[t] = "LOADING" /\ root \in Nodes /\ status \in [Nodes -> Statuses]
  BY DEF LoadTile, MapInv, LoadingOwned, TypeOK
<1>2. /\ status' = [status EXCEPT ![t] = "READY"] /\ pool' = pool \ {t} /\ pc' = pc /\ pc # "abort"
      /\ UNCHANGED <<root, link, selection, parts, todo, pos>>
  BY <1>1 DEF LoadTile, drawn
<1>3. TypeOK'
  BY <1>1, <1>2 DEF MapInv, TypeOK, Statuses
<1>4. LoadingOwned'
  BY <1>1, <1>2 DEF MapInv, LoadingOwned
<1>5. Prepared'
  <2> SUFFICES ASSUME pc = "update", NEW m \in todo
               PROVE  m \in Below[root] /\ \A a \in Path(m) : status'[a] \in Loaded
    BY <1>2 DEF Prepared, Path, Above
  <2>1. m \in Below[root] /\ \A a \in Path(m) : status[a] \in Loaded
    BY DEF MapInv, Prepared
  <2>2. Path(m) \subseteq Nodes
    BY <1>1, <2>1, LodMapAssumption DEF Path, Above
  <2> QED BY <1>1, <1>2, <2>1, <2>2 DEF Loaded
<1>6. TreeExists' /\ FreedEmpty' /\ RootLoaded'
  BY <1>1, <1>2 DEF MapInv, TreeExists, FreedEmpty, RootLoaded
<1> QED BY <1>3, <1>4, <1>5, <1>6 DEF MapInv

\* The export waits for the tiles that are loading.
LEMMA ExportInv ==
  ASSUME MapInv, ExportLodMap
  PROVE  MapInv'
<1>1. /\ pc = "idle" /\ \A n \in Below[root] : status[n] # "LOADING"
      /\ status' = [n \in Nodes |-> IF status[n] \in {"INACTIVE", "META"} THEN "READY" ELSE status[n]]
      /\ UNCHANGED <<root, pool, link, selection, parts, todo, pos, pc>>
  BY DEF ExportLodMap, drawn
<1>2. TypeOK'
  BY <1>1 DEF MapInv, TypeOK, Statuses
<1>3. LoadingOwned'
  BY <1>1 DEF MapInv, LoadingOwned
<1>4. TreeExists' /\ FreedEmpty' /\ RootLoaded' /\ Prepared'
  BY <1>1, LodMapAssumption DEF MapInv, TreeExists, FreedEmpty, RootLoaded, Prepared, TypeOK
<1> QED BY <1>2, <1>3, <1>4 DEF MapInv

\* The map is freed when no thread has a tile, and created again.
LEMMA FreeInv ==
  ASSUME MapInv, FreeLodMap \/ Recreate
  PROVE  MapInv'
<1>1. CASE FreeLodMap
  <2>1. TypeOK'
    BY <1>1 DEF MapInv, TypeOK, Statuses, FreeLodMap
  <2> QED BY <1>1, <2>1 DEF MapInv, LoadingOwned, TreeExists, FreedEmpty, RootLoaded, Prepared,
                            FreeLodMap, TypeOK
<1>2. CASE Recreate
  <2>1. TypeOK'
    BY <1>2, LodMapAssumption DEF MapInv, TypeOK, Statuses, Recreate, CreateLodMap, Area, drawn
  <2>2. LoadingOwned'
    BY <1>2 DEF MapInv, LoadingOwned, FreedEmpty, Recreate, CreateLodMap
  <2> QED BY <1>2, <2>1, <2>2, LodMapAssumption
          DEF MapInv, TreeExists, FreedEmpty, RootLoaded, Prepared, Recreate, CreateLodMap
<1> QED BY <1>1, <1>2

\* Every step keeps the invariant.
LEMMA NextInv == MapInv /\ [Next]_vars => MapInv'
<1> SUFFICES ASSUME MapInv, [Next]_vars PROVE MapInv'
  OBVIOUS
<1>1. CASE ListenerUpdate
  BY <1>1, UpdateInv DEF ListenerUpdate
<1>2. CASE MakeVisible
  BY <1>2, MakeVisibleInv
<1>3. CASE \E t \in Nodes \cup {NotANode} : LoadTile(t)
  BY <1>3, LoadTileInv
<1>4. CASE ExportLodMap
  BY <1>4, ExportInv
<1>5. CASE FreeLodMap \/ Recreate
  BY <1>5, FreeInv
<1>6. CASE UNCHANGED vars
  BY <1>6 DEF vars, tiles, drawn, MapInv, TypeOK, LoadingOwned, TreeExists, FreedEmpty, RootLoaded,
              Prepared, Path, Above
<1> QED BY <1>1, <1>2, <1>3, <1>4, <1>5, <1>6 DEF Next

\* The invariant holds in every reachable state.
LEMMA InvHolds == Spec => []MapInv
BY InitInv, NextInv, PTL DEF Spec

\* Every tile that is LOADING is with exactly one thread, whatever the selection, the
\* export and the disposal of the map do meanwhile, and no assertion of
\* loadLodMapTile and activateLodMapTile fails.
THEOREM TilesAreOwned == Spec => []LoadingOwned
<1>1. MapInv => LoadingOwned
  BY DEF MapInv
<1> QED BY <1>1, InvHolds, PTL

-----------------------------------------------------------------------------
(* The map implements TileLoading.                                         *)

ImagesOf(st) == [n \in Nodes |-> Image(st[n])]
ShownOf(st) == {n \in Nodes : st[n] = "ACTIVE"}

\* The initial map shows nothing.
LEMMA InitRefines == Init => TL!TileInit
BY LodMapAssumption DEF Init, CreateLodMap, TL!TileInit, Image

\* A change of the tiles that leaves the ones that are loading alone and makes none
\* visible is a step of TileLoading.
LEMMA ChangeRefines ==
  ASSUME status' \in [Nodes -> Statuses],
         \A n \in Nodes : status[n] = "LOADING" => status'[n] = "LOADING",
         \A n \in Nodes : status'[n] = "ACTIVE" => status[n] = "ACTIVE"
  PROVE  TL!TileNext
<1>1. ImagesOf(status)' \in [Nodes -> {"none", "requested", "read"}]
  BY DEF ImagesOf, Image
<1>2. \A n \in Nodes : ImagesOf(status)[n] = "requested" => ImagesOf(status)'[n] = "requested"
  BY DEF ImagesOf, Image
<1>3. ShownOf(status)' \subseteq ShownOf(status)
      /\ \A n \in ShownOf(status)' : ImagesOf(status)'[n] = "read"
  BY DEF ShownOf, ImagesOf, Image
<1>4. TL!Change
  BY <1>1, <1>2, <1>3 DEF TL!Change, ImagesOf, ShownOf
<1> QED BY <1>4 DEF TL!TileNext

\* An update leaves tiles that are loading alone and makes none visible.
LEMMA UpdateStatus ==
  ASSUME MapInv, NEW p \in Positions, NEW expand \in BOOLEAN, UpdateLodMap(p, expand)
  PROVE  /\ status' \in [Nodes -> Statuses]
         /\ \A n \in Nodes : status[n] = "LOADING" => status'[n] = "LOADING"
         /\ \A n \in Nodes : status'[n] = "ACTIVE" => status[n] = "ACTIVE"
<1>1. pc = "idle" /\ root' \in Nodes /\ root \in Below[root']
  BY UpdateIsSelection
<1>2. PICK seen \in SUBSET Nodes, cut \in SUBSET Distant : SelectNodes(seen, cut)
  BY UpdateIsSelection
<1>3. cut \in SUBSET Nodes
  BY LodMapAssumption
<1>4. status' = SelectedStatus(root', seen, cut)
  BY <1>2, SelectNodesUnfolded
<1> QED BY <1>1, <1>3, <1>4, SelectionFacts

\* Every step of the map is one of TileLoading or changes nothing of it.
LEMMA NextRefines ==
  ASSUME MapInv, [Next]_vars
  PROVE  [TL!TileNext]_<<ImagesOf(status), ShownOf(status)>>
<1>1. CASE ListenerUpdate
  <2>1. PICK p \in Positions, expand \in BOOLEAN : UpdateLodMap(p, expand)
    BY <1>1 DEF ListenerUpdate
  <2>2. /\ status' \in [Nodes -> Statuses]
        /\ \A n \in Nodes : status[n] = "LOADING" => status'[n] = "LOADING"
        /\ \A n \in Nodes : status'[n] = "ACTIVE" => status[n] = "ACTIVE"
    BY <2>1, UpdateStatus
  <2> QED BY <2>2, ChangeRefines
<1>2. CASE MakeVisible
  <2>1. PICK n \in todo : Activate(n)
    BY <1>2 DEF MakeVisible
  <2>2. pc = "update"
    BY <1>2 DEF MakeVisible
  <2>3. Chain(n) \subseteq Nodes /\ \A a \in Chain(n) : status[a] = "READY"
    BY <2>1, <2>2, ChainReady DEF Activate
  <2>4. status' = [a \in Nodes |-> IF a \in Chain(n) THEN "ACTIVE" ELSE status[a]]
    BY <2>1 DEF Activate
  <2>5. ImagesOf(status)' = ImagesOf(status) /\ ShownOf(status)' = ShownOf(status) \cup Chain(n)
        /\ \A a \in Chain(n) : ImagesOf(status)[a] = "read"
    BY <2>3, <2>4 DEF ImagesOf, ShownOf, Image
  <2>6. Chain(n) \in SUBSET Nodes
    BY <2>3
  <2>7. \E S \in SUBSET Nodes : TL!Show(S)
    BY <2>5, <2>6 DEF TL!Show, ImagesOf, ShownOf
  <2> QED BY <2>7 DEF TL!TileNext
<1>3. CASE \E t \in Nodes \cup {NotANode} : LoadTile(t)
  <2>1. PICK t \in Nodes \cup {NotANode} : LoadTile(t)
    BY <1>3
  <2>2. t \in Nodes /\ status[t] = "LOADING" /\ status \in [Nodes -> Statuses]
    BY <2>1 DEF LoadTile, MapInv, LoadingOwned, TypeOK
  <2>3. status' = [status EXCEPT ![t] = "READY"]
    BY <2>1, <2>2 DEF LoadTile
  <2>4. /\ ImagesOf(status)[t] = "requested"
        /\ ImagesOf(status)' = [ImagesOf(status) EXCEPT ![t] = "read"]
        /\ ShownOf(status)' = ShownOf(status)
    BY <2>2, <2>3 DEF ImagesOf, ShownOf, Image
  <2>5. TL!Finish(t)
    BY <2>4 DEF TL!Finish, ImagesOf, ShownOf
  <2> QED BY <2>2, <2>5 DEF TL!TileNext
<1>4. CASE ExportLodMap
  <2>1. /\ status' \in [Nodes -> Statuses]
        /\ \A n \in Nodes : status[n] = "LOADING" => status'[n] = "LOADING"
        /\ \A n \in Nodes : status'[n] = "ACTIVE" => status[n] = "ACTIVE"
    BY <1>4 DEF ExportLodMap, MapInv, TypeOK, Statuses
  <2> QED BY <2>1, ChangeRefines
<1>5. CASE FreeLodMap
  <2>1. /\ status' \in [Nodes -> Statuses]
        /\ \A n \in Nodes : status[n] = "LOADING" => status'[n] = "LOADING"
        /\ \A n \in Nodes : status'[n] = "ACTIVE" => status[n] = "ACTIVE"
    BY <1>5 DEF FreeLodMap, MapInv, LoadingOwned, Statuses
  <2> QED BY <2>1, ChangeRefines
<1>6. CASE Recreate
  <2>1. /\ status' \in [Nodes -> Statuses]
        /\ \A n \in Nodes : status[n] = "LOADING" => status'[n] = "LOADING"
        /\ \A n \in Nodes : status'[n] = "ACTIVE" => status[n] = "ACTIVE"
    BY <1>6 DEF Recreate, CreateLodMap, MapInv, FreedEmpty, Statuses
  <2> QED BY <2>1, ChangeRefines
<1>7. CASE UNCHANGED vars
  BY <1>7 DEF vars, tiles, ImagesOf, ShownOf
<1> QED BY <1>1, <1>2, <1>3, <1>4, <1>5, <1>6, <1>7 DEF Next

\* The map implements TileLoading: images are read once per request, not dropped while
\* a thread reads them, and nothing is shown without them (lodmap.c as a whole).
THEOREM MapImplementsTileLoading == Spec => LoadsTiles
<1>1. MapInv /\ [Next]_vars => [TL!TileNext]_<<ImagesOf(status), ShownOf(status)>>
  BY NextRefines
<1>2. MapInv /\ [Next]_vars =>
        [TL!TileNext]_<<[n \in Nodes |-> Image(status[n])], {n \in Nodes : status[n] = "ACTIVE"}>>
  BY <1>1 DEF ImagesOf, ShownOf
<1> QED BY <1>2, InitRefines, InvHolds, PTL DEF Spec, LoadsTiles, TL!TileSpec

-----------------------------------------------------------------------------
(* Every place is drawn once.                                              *)

\* The tiles that are drawn are those of the last selection.
Shape(seen, cut) ==
  /\ root \notin cut
  /\ selection = {n \in EnteredBy(root, seen, cut) \ cut : IsDrawn(n, seen)}
  /\ \A n \in selection : parts[n] = Kids[n] \cap seen

SelectionShape ==
  pc \in {"idle", "update"} => \E seen \in SUBSET Nodes, cut \in SUBSET Distant : Shape(seen, cut)

\* Two selected nodes do not draw the same place.
LEMMA DrawnAtMostOnce ==
  ASSUME root \in Nodes, NEW seen \in SUBSET Nodes, NEW cut \in SUBSET Distant, Shape(seen, cut),
         NEW leaf \in Nodes, NEW a \in DrawnOver(leaf), NEW b \in DrawnOver(leaf)
  PROVE  a = b
<1> DEFINE entered == EnteredBy(root, seen, cut)
<1>1. /\ \A n \in selection : n \in Nodes /\ n \in Below[root] /\ n \in entered /\ n \in seen
      /\ cut \in SUBSET Nodes
  BY LodMapAssumption DEF Shape, EnteredBy
<1>2. ASSUME NEW x \in DrawnOver(leaf), NEW y \in DrawnOver(leaf), y \in Below[x], y # x
      PROVE  FALSE
  <2>1. x \in Nodes /\ y \in Nodes /\ x \in Below[root] /\ y \in entered /\ y \in seen /\ leaf \in Below[y]
        /\ x \in selection
    BY <1>1 DEF DrawnOver
  <2>2. PICK k \in Kids[x] : y \in Below[k]
    BY <1>2, <2>1, ChildTowards
  <2>3. k \in Nodes /\ k \in Below[root]
    BY <2>1, BelowTransitive, LodMapAssumption DEF Kids
  <2>4. k \in seen
    <3>1. CASE k = y
      BY <2>1, <3>1
    <3>2. CASE k # y
      <4>1. k \in Over[y] \cap Below[root]
        BY <2>1, <2>2, <2>3, <3>2 DEF Over
      <4>2. k \in entered
        BY <4>1, <2>1, <1>1, EnteredUpwards
      <4> QED BY <4>2 DEF EnteredBy
    <3> QED BY <3>1, <3>2
  <2>5. k \in parts[x]
    BY <2>1, <2>2, <2>4 DEF Shape
  <2>6. leaf \in Below[k]
    BY <2>1, <2>2, <2>3, BelowTransitive
  <2> QED BY <2>5, <2>6, <1>2 DEF DrawnOver
<1>3. a \in Nodes /\ b \in Nodes /\ leaf \in Below[a] /\ leaf \in Below[b]
  BY <1>1 DEF DrawnOver
<1>4. a \in Below[b] \/ b \in Below[a]
  BY <1>3, AncestorsComparable
<1> QED BY <1>2, <1>4

\* A place is drawn by the lowest node above it that was entered.
LEMMA DrawnAtLeastOnce ==
  ASSUME root \in Nodes, NEW seen \in SUBSET Nodes, NEW cut \in SUBSET Distant, Shape(seen, cut),
         NEW leaf \in Below[root], IsLeaf(leaf),
         selection # {}, Distant \cap Above(leaf) \subseteq {root}
  PROVE  DrawnOver(leaf) # {}
<1> DEFINE entered == EnteredBy(root, seen, cut)
           kept == entered \ cut
           S == {n \in kept : leaf \in Below[n]}
<1>1. cut \in SUBSET Nodes /\ leaf \in Nodes /\ kept \subseteq Below[root] /\ Below[root] \subseteq Nodes
  BY LodMapAssumption DEF EnteredBy
<1>2. root \in kept
  <2>1. PICK s \in selection : TRUE
    OBVIOUS
  <2>2. s \in entered /\ s \in kept
    BY DEF Shape
  <2>3. CASE s = root
    BY <2>2, <2>3
  <2>4. CASE s # root
    <3>1. root \in Over[s] \cap Below[root]
      BY <1>1, <2>2, <2>4, LodMapAssumption DEF Over, EnteredBy
    <3> QED BY <3>1, <2>2, <1>1, EnteredUpwards
  <2> QED BY <2>3, <2>4
<1>3. S \in SUBSET Nodes /\ root \in S
  BY <1>1, <1>2
<1>4. \A a, b \in S : a \in Below[b] \/ b \in Below[a]
  BY <1>1, <1>3, AncestorsComparable
<1>5. PICK m \in S : \A a \in S : m \in Below[a]
  BY <1>3, <1>4, Lowest
<1>6. m \in Nodes /\ m \in kept /\ m \in Below[root] /\ leaf \in Below[m]
  BY <1>1, <1>5
<1>7. CASE m = leaf
  <2>1. m \in selection
    BY <1>6, <1>7 DEF Shape, IsDrawn
  <2>2. Kids[m] = {}
    BY <1>6, <1>7 DEF Kids, IsLeaf
  <2>3. parts[m] = {}
    BY <2>1, <2>2 DEF Shape
  <2> QED BY <2>1, <2>3, <1>6 DEF DrawnOver
<1>8. CASE m # leaf
  <2>1. PICK k \in Kids[m] : leaf \in Below[k]
    BY <1>6, <1>8, ChildTowards
  <2>2. k \in Nodes /\ k \in Below[m] /\ k # m /\ k \in Below[root]
    BY <1>6, BelowTransitive, LodMapAssumption DEF Kids
  <2>3. k # root
    BY <1>6, <2>2, BelowAntisymmetric
  <2>4. k \notin seen
    <3> SUFFICES ASSUME k \in seen PROVE FALSE
      OBVIOUS
    <3>1. ASSUME NEW o \in Over[k] \cap Below[root] PROVE o \in seen \ cut
      <4>1. o \in Nodes /\ k \in Below[o] /\ o # k
        BY <3>1 DEF Over
      <4>2. CASE o = m
        BY <1>6, <4>2 DEF EnteredBy
      <4>3. CASE o # m
        <5>1. o \notin Below[m]
          BY <4>1, <4>3, <1>6, <2>2 DEF Kids
        <5>2. m \in Below[o]
          BY <5>1, <4>1, <1>6, <2>2, AncestorsComparable
        <5>3. o \in Over[m]
          BY <5>2, <4>1, <4>3, <1>6 DEF Over
        <5>4. o \in Below[root]
          BY <3>1
        <5> QED BY <5>3, <5>4, <1>6 DEF EnteredBy
      <4> QED BY <4>2, <4>3
    <3>2. k \in entered
      BY <3>1, <2>2 DEF EnteredBy
    <3>3. k \notin cut
      <4> SUFFICES ASSUME k \in cut PROVE FALSE
        OBVIOUS
      <4>1. k # leaf
        BY LodMapAssumption DEF IsLeaf
      <4>2. k \in Above(leaf)
        BY <4>1, <2>1, <2>2, <1>1 DEF Above, Over
      <4> QED BY <4>2, <2>3
    <3>4. m \in Below[k]
      BY <3>2, <3>3, <2>1, <1>5
    <3> QED BY <3>4, <1>6, <2>2, BelowAntisymmetric
  <2>5. m \in selection
    BY <1>6, <2>1, <2>4 DEF Shape, IsDrawn
  <2>6. ASSUME NEW c \in parts[m] PROVE leaf \notin Below[c]
    <3> SUFFICES ASSUME leaf \in Below[c] PROVE FALSE
      OBVIOUS
    <3>1. c \in Kids[m] /\ c \in seen
      BY <2>5, <2>6 DEF Shape
    <3>2. c \in Nodes /\ c \in Below[m] \ {m}
      BY <1>6, <3>1, LodMapAssumption DEF Kids
    <3>3. c \in Below[k] \/ k \in Below[c]
      BY <2>1, <2>2, <3>2, <1>1, AncestorsComparable
    <3>4. c = k
      BY <3>1, <3>2, <3>3, <2>2, <1>6 DEF Kids
    <3> QED BY <3>1, <3>4, <2>4
  <2> QED BY <2>5, <2>6, <1>6 DEF DrawnOver
<1> QED BY <1>7, <1>8

\* The selection keeps its shape until the next one.
LEMMA ShapeInv ==
  ASSUME MapInv, SelectionShape, [Next]_vars
  PROVE  SelectionShape'
<1>1. CASE ListenerUpdate
  <2>1. PICK p \in Positions, expand \in BOOLEAN : UpdateLodMap(p, expand)
    BY <1>1 DEF ListenerUpdate
  <2>2. PICK seen \in SUBSET Nodes, cut \in SUBSET Distant : SelectNodes(seen, cut) /\ root' \notin cut
    BY <2>1, UpdateIsSelection
  <2>3. /\ selection' = {n \in EnteredBy(root', seen, cut) \ cut : IsDrawn(n, seen)}
        /\ parts' = [n \in Nodes |-> IF n \in selection' THEN Kids[n] \cap seen ELSE parts[n]]
    BY <2>2, SelectNodesUnfolded
  <2>4. root' \in Nodes
    BY <2>1, UpdateIsSelection
  <2>5. \A n \in selection' : n \in Nodes
    BY <2>3, <2>4, LodMapAssumption DEF EnteredBy
  <2>6. \A n \in selection' : parts'[n] = Kids[n] \cap seen
    BY <2>3, <2>5
  <2> QED BY <2>2, <2>3, <2>6 DEF SelectionShape, Shape, EnteredBy
<1>2. ASSUME UNCHANGED <<root, selection, parts>>, pc' \in {"idle", "update"} => pc \in {"idle", "update"}
      PROVE  SelectionShape'
  <2> SUFFICES ASSUME pc' \in {"idle", "update"}
               PROVE  \E seen \in SUBSET Nodes, cut \in SUBSET Distant : Shape(seen, cut)'
    BY DEF SelectionShape
  <2>1. PICK seen \in SUBSET Nodes, cut \in SUBSET Distant : Shape(seen, cut)
    BY <1>2 DEF SelectionShape
  <2>2. Shape(seen, cut)'
    BY <2>1, <1>2 DEF Shape, EnteredBy
  <2> QED BY <2>2
<1>3. CASE MakeVisible
  <2>1. UNCHANGED <<root, selection, parts>> /\ pc = "update"
    BY <1>3 DEF MakeVisible, drawn
  <2> QED BY <2>1, <1>2
<1>4. CASE \E t \in Nodes \cup {NotANode} : LoadTile(t)
  <2>1. UNCHANGED <<root, selection, parts>> /\ (pc' = pc \/ pc' = "abort")
    BY <1>4 DEF LoadTile, drawn
  <2> QED BY <2>1, <1>2
<1>5. CASE ExportLodMap \/ UNCHANGED vars
  <2>1. UNCHANGED <<root, selection, parts>> /\ pc' = pc
    BY <1>5 DEF ExportLodMap, drawn, vars
  <2> QED BY <2>1, <1>2
<1>6. CASE FreeLodMap
  BY <1>6 DEF FreeLodMap, SelectionShape
<1>7. CASE Recreate
  <2>1. selection' = {}
    BY <1>7 DEF Recreate, drawn, MapInv, FreedEmpty
  <2>2. EnteredBy(root', {}, {}) = {}
    BY DEF EnteredBy
  <2>3. Shape({}, {})'
    BY <2>1, <2>2 DEF Shape
  <2> QED BY <2>3 DEF SelectionShape
<1> QED BY <1>1, <1>3, <1>4, <1>5, <1>6, <1>7 DEF Next

\* No place of the map is drawn by two tiles and none is left out, whatever is read
\* while it is written (selectLodMapNodes, drawOpenGLLodMap).
THEOREM PlacesDrawnOnce == Spec => []DrawnOnce
<1>1. Init => SelectionShape
  <2> SUFFICES ASSUME Init PROVE Shape({}, {})
    BY DEF SelectionShape
  <2> QED BY DEF Init, Shape, EnteredBy
<1>2. MapInv /\ SelectionShape /\ [Next]_vars => SelectionShape'
  BY ShapeInv
<1>3. MapInv /\ SelectionShape => DrawnOnce
  <2> SUFFICES ASSUME MapInv, SelectionShape, pc \in {"idle", "update"},
                      NEW leaf \in Below[root], IsLeaf(leaf)
               PROVE  /\ Cardinality(DrawnOver(leaf)) <= 1
                      /\ selection # {} /\ Distant \cap Above(leaf) \subseteq {root}
                           => Cardinality(DrawnOver(leaf)) = 1
    BY DEF DrawnOnce
  <2>1. root \in Nodes /\ leaf \in Nodes
    BY LodMapAssumption DEF MapInv, TypeOK
  <2>2. PICK seen \in SUBSET Nodes, cut \in SUBSET Distant : Shape(seen, cut)
    BY DEF SelectionShape
  <2>3. \A a, b \in DrawnOver(leaf) : a = b
    BY <2>1, <2>2, DrawnAtMostOnce
  <2>4. CASE DrawnOver(leaf) = {}
    <3>1. Cardinality(DrawnOver(leaf)) = 0
      BY <2>4, FS_EmptySet
    <3>2. ~ (selection # {} /\ Distant \cap Above(leaf) \subseteq {root})
      BY <2>1, <2>2, <2>4, DrawnAtLeastOnce
    <3> QED BY <3>1, <3>2
  <2>5. CASE DrawnOver(leaf) # {}
    <3>1. PICK a : DrawnOver(leaf) = {a}
      BY <2>3, <2>5
    <3>2. Cardinality(DrawnOver(leaf)) = 1
      BY <3>1, FS_Singleton
    <3> QED BY <3>2
  <2> QED BY <2>4, <2>5
<1> QED BY <1>1, <1>2, <1>3, InvHolds, PTL DEF Spec

-----------------------------------------------------------------------------
(* What is drawn has its textures, in a tree of three levels.              *)

\* No node has a great-grandchild.
ThreeLevels == \A a \in Nodes : \A b \in Kids[a] : \A c \in Kids[b] : Kids[c] = {}

\* The model of a tile uses its own textures or those of its parent, which has a model.
ParentKept ==
  \A n \in Nodes : status[n] = "ACTIVE" =>
    link[n] \in Nodes /\ status[link[n]] = "ACTIVE" /\ (link[n] = n \/ n \in Kids[link[n]])

\* What is selected and was made visible has a model.
ShownActive ==
  /\ pc \in {"idle", "update"} => \A n \in selection \ todo : status[n] = "ACTIVE"
  /\ pc \in {"idle", "freed"} => todo = {}

VisibleInv == ParentKept /\ ShownActive

\* The tiles that keep their models: those that had one and neither are passed by nor
\* are the children of one that is.
LEMMA ActiveAfter ==
  ASSUME NEW r, NEW seen, NEW cut, NEW st, st = SelectedStatus(r, seen, cut), NEW n \in Nodes,
         status[n] = "ACTIVE"
  PROVE  st[n] = "ACTIVE" <=>
           n \notin PassedBy(r, seen, cut) /\ ~ \E p \in PassedBy(r, seen, cut) : n \in Kids[p]
<1> DEFINE reached == ReachedBy(r, seen, cut)
           entered == EnteredBy(r, seen, cut)
           passed == PassedBy(r, seen, cut)
<1>1. st[n] = Selected(n, reached, entered \ {r}, passed)
  BY DEF SelectedStatus
<1> HIDE DEF reached, entered, passed
<1>2. CASE n \in passed \/ \E p \in passed : n \in Kids[p]
  <2>1. Selected(n, reached, entered \ {r}, passed) \in {"READY", "META"}
    BY <1>2 DEF Selected
  <2> QED BY <1>1, <1>2, <2>1 DEF passed
<1>3. CASE ~ (n \in passed \/ \E p \in passed : n \in Kids[p])
  BY <1>1, <1>3 DEF Selected, passed
<1> QED BY <1>2, <1>3

\* An update takes the model of no tile whose child keeps its own.
LEMMA UpdateVisible ==
  ASSUME ThreeLevels, MapInv, VisibleInv,
         NEW p \in Positions, NEW expand \in BOOLEAN, UpdateLodMap(p, expand)
  PROVE  VisibleInv'
<1>1. pc = "idle" /\ root' \in Nodes /\ root \in Below[root']
  BY UpdateIsSelection
<1>2. PICK seen \in SUBSET Nodes, cut \in SUBSET Distant : SelectNodes(seen, cut)
  BY UpdateIsSelection
<1>3. cut \in SUBSET Nodes
  BY LodMapAssumption
<1>4. /\ status' = SelectedStatus(root', seen, cut)
      /\ link' = [n \in Nodes |-> Relink(n)]
      /\ todo' = selection'
      /\ pc' = IF selection' = {} THEN "idle" ELSE "update"
  BY <1>2, SelectNodesUnfolded
<1>5. \A n \in Nodes : status'[n] = "ACTIVE" => status[n] = "ACTIVE"
  BY UpdateStatus
<1> DEFINE passed == PassedBy(root', seen, cut)
<1>6. ASSUME NEW n \in Nodes, status'[n] = "ACTIVE"
      PROVE  /\ link[n] \in Nodes /\ status'[link[n]] = "ACTIVE"
             /\ link[n] = n \/ n \in Kids[link[n]]
  <2>1. /\ link[n] \in Nodes /\ status[link[n]] = "ACTIVE" /\ status[n] = "ACTIVE"
        /\ link[n] = n \/ n \in Kids[link[n]]
    BY <1>5, <1>6 DEF VisibleInv, ParentKept
  <2>2. CASE link[n] = n
    BY <1>6, <2>1, <2>2
  <2>3. CASE n \in Kids[link[n]]
    <3>1. link[n] \notin passed
      BY <1>4, <1>6, <2>1, <2>3, ActiveAfter
    <3>2. ASSUME NEW g \in passed, link[n] \in Kids[g] PROVE FALSE
      <4>1. g \in Nodes /\ g \in Below[root'] /\ g # root'
        BY <1>1, <1>3, ReachedInTree DEF PassedBy
      <4>2. PICK a \in Over[g] \cap Below[root'] : g \in Kids[a]
        BY <1>1, <4>1, HasParent
      <4>3. a \in Nodes
        BY <4>1, <4>2 DEF Over
      <4> QED BY <4>2, <4>3, <3>2, <2>3 DEF ThreeLevels
    <3> QED BY <1>4, <2>1, <2>3, <3>1, <3>2, ActiveAfter
  <2> QED BY <2>1, <2>2, <2>3
<1>7. ParentKept'
  BY <1>4, <1>6 DEF ParentKept, Relink
<1>8. ShownActive'
  BY <1>4 DEF ShownActive
<1> QED BY <1>7, <1>8 DEF VisibleInv

\* A tile is made visible together with the ones above it that have no models.
LEMMA MakeVisibleVisible ==
  ASSUME MapInv, VisibleInv, MakeVisible
  PROVE  VisibleInv'
<1>1. PICK n \in todo : Below[n] \cap todo = {n} /\ todo' = todo \ {n} /\ Activate(n)
  BY DEF MakeVisible
<1>2. pc = "update" /\ UNCHANGED <<root, pool, selection, parts, pos>>
  BY DEF MakeVisible, drawn
<1>3. /\ Chain(n) \subseteq Path(n) /\ Path(n) \subseteq Below[root] /\ Below[root] \subseteq Nodes
      /\ \A a \in Chain(n) : status[a] = "READY"
  BY <1>1, <1>2, ChainReady DEF Activate
<1>4. /\ status' = [a \in Nodes |-> IF a \in Chain(n) THEN "ACTIVE" ELSE status[a]]
      /\ pc' = IF todo = {n} THEN "idle" ELSE pc
      /\ link' = [a \in Nodes |-> IF a \notin Chain(n) THEN link[a]
                                  ELSE IF a = root THEN a ELSE ParentOf(a)]
  BY <1>1, <1>3 DEF Activate
<1>5. root \in Nodes /\ n \in Below[root] /\ n \in Nodes /\ todo \subseteq Nodes /\ selection \subseteq Nodes
  BY <1>1, <1>2, LodMapAssumption DEF MapInv, TypeOK, Prepared
<1>6. ASSUME NEW a \in Chain(n), a # root
      PROVE  ParentOf(a) \in Nodes /\ a \in Kids[ParentOf(a)] /\ status'[ParentOf(a)] = "ACTIVE"
  <2> DEFINE q == ParentOf(a)
  <2>1. a \in Below[root] /\ a \in Nodes
    BY <1>3
  <2>2. \E x \in Above(a) : a \in Kids[x]
    BY <2>1, <1>5, <1>6, HasParent DEF Above
  <2>3. q \in Above(a) /\ a \in Kids[q]
    BY <2>2 DEF ParentOf
  <2>4. q \in Nodes /\ q \in Below[root] /\ a \in Below[q] /\ a # q
    BY <2>1, <2>3 DEF Above, Over
  <2> HIDE DEF q
  <2>5. n \in Below[a]
    BY <1>3, <1>5, LodMapAssumption DEF Path, Above, Over
  <2>6. n \in Below[q]
    BY <2>1, <2>4, <2>5, BelowTransitive
  <2>7. q # n
    BY <1>5, <2>1, <2>4, <2>5, BelowAntisymmetric
  <2>8. q \in Path(n)
    BY <1>5, <2>4, <2>6, <2>7 DEF Path, Above, Over
  <2>9. ASSUME q \notin Chain(n) PROVE status[q] = "ACTIVE"
    <3>1. PICK b \in Below[q] \cap Path(n) : status[b] = "ACTIVE"
      BY <2>8, <2>9 DEF Chain, Path
    <3>2. b \notin Below[a]
      BY <3>1, <1>6 DEF Chain, Path
    <3>3. b \in Nodes /\ n \in Below[b]
      BY <3>1, <1>3, <1>5, LodMapAssumption DEF Path, Above, Over
    <3>4. a \in Below[b]
      BY <3>2, <3>3, <1>5, <2>1, <2>5, AncestorsComparable
    <3>5. b = q
      BY <3>1, <3>2, <3>3, <3>4, <2>1, <2>3, <2>4, LodMapAssumption DEF Kids
    <3> QED BY <3>1, <3>5
  <2>10. status'[q] = "ACTIVE"
    BY <1>4, <2>4, <2>9
  <2> QED BY <2>3, <2>4, <2>10 DEF q
<1>7. ParentKept'
  <2> SUFFICES ASSUME NEW a \in Nodes, status'[a] = "ACTIVE"
               PROVE  link'[a] \in Nodes /\ status'[link'[a]] = "ACTIVE"
                      /\ (link'[a] = a \/ a \in Kids[link'[a]])
    BY DEF ParentKept
  <2>1. CASE a \in Chain(n)
    BY <1>4, <1>6, <2>1
  <2>2. CASE a \notin Chain(n)
    BY <1>4, <2>2 DEF VisibleInv, ParentKept
  <2> QED BY <2>1, <2>2
<1>8. ShownActive'
  <2>1. n \in {n} \cup Above(n) /\ (status[n] # "ACTIVE" => n \in Chain(n))
    <3>1. \A b \in Below[n] \cap Path(n) : b = n
      BY <1>3, <1>5, BelowAntisymmetric DEF Path, Above, Over
    <3> QED BY <3>1 DEF Chain, Path
  <2>2. status'[n] = "ACTIVE"
    BY <1>4, <1>5, <2>1
  <2>3. \A m \in selection \ todo : status'[m] = "ACTIVE"
    BY <1>2, <1>4, <1>5 DEF VisibleInv, ShownActive
  <2> QED BY <1>1, <1>2, <1>4, <2>2, <2>3 DEF ShownActive
<1> QED BY <1>7, <1>8 DEF VisibleInv

\* Every step keeps what is drawn.
LEMMA VisibleNext ==
  ASSUME ThreeLevels, MapInv, VisibleInv, [Next]_vars
  PROVE  VisibleInv'
<1>1. CASE ListenerUpdate
  BY <1>1, UpdateVisible DEF ListenerUpdate
<1>2. CASE MakeVisible
  BY <1>2, MakeVisibleVisible
<1>3. CASE \E t \in Nodes \cup {NotANode} : LoadTile(t)
  <2>1. PICK t \in Nodes \cup {NotANode} : LoadTile(t)
    BY <1>3
  <2>2. t \in Nodes /\ status[t] = "LOADING" /\ status \in [Nodes -> Statuses]
    BY <2>1 DEF LoadTile, MapInv, LoadingOwned, TypeOK
  <2>3. /\ status' = [status EXCEPT ![t] = "READY"]
        /\ UNCHANGED <<link, selection, todo, pc>>
    BY <2>1, <2>2 DEF LoadTile, drawn
  <2> QED BY <2>2, <2>3 DEF VisibleInv, ParentKept, ShownActive, MapInv, TypeOK
<1>4. CASE ExportLodMap
  BY <1>4 DEF ExportLodMap, drawn, VisibleInv, ParentKept, ShownActive, MapInv, TypeOK
<1>5. CASE FreeLodMap
  BY <1>5 DEF FreeLodMap, VisibleInv, ParentKept, ShownActive
<1>6. CASE Recreate
  BY <1>6 DEF Recreate, drawn, CreateLodMap, VisibleInv, ParentKept, ShownActive, MapInv, FreedEmpty
<1>7. CASE UNCHANGED vars
  BY <1>7 DEF vars, tiles, drawn, VisibleInv, ParentKept, ShownActive
<1> QED BY <1>1, <1>2, <1>3, <1>4, <1>5, <1>6, <1>7 DEF Next

\* In a tree of three levels a tile that is drawn has its model, and the model the
\* textures that it takes from its parent (activateLodMapTile, deactivateLodMapTile);
\* in a deeper one a grandchild of a node that is passed by may be left with the
\* textures of a parent that is gone.
THEOREM TilesAreSound == ThreeLevels /\ Spec => []TilesSound
<1>1. Init => VisibleInv
  BY DEF Init, CreateLodMap, VisibleInv, ParentKept, ShownActive
<1>2. ThreeLevels /\ MapInv /\ VisibleInv /\ [Next]_vars => VisibleInv'
  BY VisibleNext
<1>3. MapInv /\ VisibleInv => TilesSound
  BY DEF MapInv, VisibleInv, ParentKept, ShownActive, TilesSound, DrawnAlive, TypeOK
<1>4. ASSUME ThreeLevels PROVE Spec => []TilesSound
  <2>1. MapInv /\ VisibleInv /\ [Next]_vars => VisibleInv'
    BY <1>2, <1>4
  <2> QED BY <2>1, <1>1, <1>3, InvHolds, PTL DEF Spec
<1> QED BY <1>4

=============================================================================
