------------------------------- MODULE LodMap -------------------------------
(***************************************************************************)
(* Level-of-detail maps (src/src/modules/lodmap): the tiles of a quadtree, *)
(* which threads load, and which the main thread selects for the viewer's  *)
(* position, waits for and turns into models.  The viewer is the one of    *)
(* lodmapviewer.                                                           *)
(*                                                                         *)
(* Of the tree only who is below whom matters here, of the geometry only   *)
(* whether a node is in its range.  The recursion that selects nodes       *)
(* visits a node once; it is one step, since the only step a thread can    *)
(* take meanwhile, on a node that is loading, commutes with what the       *)
(* recursion does to the other nodes.  The heights of a node that is       *)
(* loading are read while they are written: the outcome is arbitrary.      *)
(***************************************************************************)
EXTENDS Integers, FiniteSets

CONSTANTS
  Nodes,       \* nodes of the largest tree
  Below,       \* node -> the nodes of its subtree, itself included
  FirstRoot,   \* root of the smallest tree
  Positions,   \* positions of the viewer: integers
  From, To,    \* node -> the first and the last position inside
  NodeRange,   \* node -> its viewing range, baseRange times its size
  Distant,     \* nodes above the level of the viewing distance
  Stride       \* how far the viewer can get from one update to the next

ASSUME LodMapAssumption ==
  /\ IsFiniteSet(Nodes) /\ FirstRoot \in Nodes /\ Positions \subseteq Int
  /\ Below \in [Nodes -> SUBSET Nodes] /\ \A n \in Nodes : n \in Below[n]
  /\ \A n, m \in Nodes :
       \/ Below[n] \subseteq Below[m] \/ Below[m] \subseteq Below[n]
       \/ Below[n] \cap Below[m] = {}
  /\ \A n, m \in Nodes : Below[n] = Below[m] => n = m
  /\ \A n \in Nodes : \A m \in Below[n] : Below[m] \subseteq Below[n]
  /\ From \in [Nodes -> Positions] /\ To \in [Nodes -> Positions] /\ NodeRange \in [Nodes -> Nat]
  /\ Distant \subseteq Nodes /\ \A n \in Distant : Below[n] # {n}
  /\ Stride \in Nat

VARIABLES
  root,        \* root of the quadtree
  status,      \* status of the tiles; "none": the node does not exist
  pool,        \* what the threads have been given to load
  selection,   \* nodes to be drawn
  parts,       \* node -> its children whose part it does not draw
  todo,        \* selected nodes that are still to be made visible
  link,        \* tile -> the tile whose textures its model uses as its parent's
  pos,         \* position of the viewer
  pc           \* what the main thread does: "idle", "update", "freed", "abort"

tiles == <<status, pool, link>>
drawn == <<selection, parts>>
vars == <<root, tiles, drawn, todo, pos, pc>>

NoLink == "no link"
Freed == "freed textures"
NotANode == "not a node"     \* a tile that is pushed as if it were a node

IsLeaf(n) == Below[n] = {n}
Kids == [n \in Nodes |->
  {k \in Below[n] \ {n} : \A m \in Below[n] \ {n} : k \in Below[m] => m = k}]
Over == [n \in Nodes |-> {a \in Nodes \ {n} : n \in Below[a]}]

Area == [n \in Nodes |-> {p \in Positions : From[n] <= p /\ p <= To[n]}]

\* intersectAABBSphere: the closest point of the box, and whether it is near enough.
Closest(n, p) == IF p < From[n] THEN From[n] ELSE IF p > To[n] THEN To[n] ELSE p
IntersectsSphere(n, p) == Closest(n, p) - p \in (1 - NodeRange[n]) .. (NodeRange[n] - 1)

Above(n) == Over[n] \cap Below[root]
ParentOf(n) == CHOOSE p \in Above(n) : n \in Kids[p]

-----------------------------------------------------------------------------
(* Creation and disposal *)

\* createQuadtree and the first expandQuadtree; createLodMapTile.
CreateLodMap(r) ==
  [n \in Nodes |-> IF n \in Below[r] THEN "INACTIVE" ELSE "none"]

Init ==
  /\ root = FirstRoot /\ status = CreateLodMap(FirstRoot) /\ pool = {}
  /\ selection = {} /\ parts = [n \in Nodes |-> {}] /\ todo = {}
  /\ link = [n \in Nodes |-> NoLink]
  /\ pos \in Area[FirstRoot] /\ pc = "idle"

\* freeOpenGLLodMap waits for the threads, then frees the tree and its tiles.
FreeLodMap ==
  /\ pc = "idle" /\ pool = {} /\ pc' = "freed"
  /\ status' = [n \in Nodes |-> "none"] /\ link' = [n \in Nodes |-> NoLink]
  /\ selection' = {}
  /\ UNCHANGED <<root, pool, parts, todo, pos>>

\* The module is loaded again.
Recreate ==
  /\ pc = "freed" /\ pc' = "idle" /\ root' = FirstRoot /\ pos' \in Area[FirstRoot]
  /\ status' = CreateLodMap(FirstRoot)
  /\ UNCHANGED <<pool, link, drawn, todo>>

-----------------------------------------------------------------------------
(* updateOpenGLLodMap *)

\* expandQuadtree: the smallest tree that grows out of this one and contains p.
ExpandedRoot(p) ==
  LET wider == {r \in Nodes : root \in Below[r] /\ p \in Area[r]}
  IN  CHOOSE r \in wider : \A w \in wider : r \in Below[w]

\* selectLodMapNodes and preloadLodMapNode: what becomes of a node.  One whose heights
\* are asked for (lodmapQuadtreeNodeIntersectsSphere) and which never was loaded is
\* loaded at once; one that is entered is loaded by a thread, one that is passed by is
\* deactivated or loaded by a thread, and the children of the latter are unloaded.
Selected(n, reached, entered, passed) ==
  LET st == IF status[n] \in {"none", "INACTIVE"} /\ n \in reached THEN "READY" ELSE status[n]
  IN  CASE n \in entered /\ st = "META" -> "LOADING"
        [] n \in passed /\ st = "ACTIVE" -> "READY"
        [] n \in passed /\ st = "META" -> "LOADING"
        [] (\E p \in passed : n \in Kids[p]) /\ st \in {"ACTIVE", "READY"} -> "META"
        [] OTHER -> st

\* deactivateLodMapTile frees the textures of a tile; its children's models keep them.
\* It refers to the status after the step.
Relink(n) ==
  CASE status'[n] # "ACTIVE" -> NoLink
    [] link[n] \in Nodes /\ status'[link[n]] # "ACTIVE" -> Freed
    [] OTHER -> link[n]

\* mutant: a node that is covered by its children in part is not drawn
FullyDrawn(n, seen) == IsLeaf(n) \/ Kids[n] \cap seen = {}

\* A node is drawn unless all its children are in their range.
IsDrawn(n, seen) == IsLeaf(n) \/ ~ (Kids[n] \subseteq seen)

\* selectLodMapNodes from the root, when the nodes of `seen` are read as in their range.
\* A distant node that is loading may be read as out of its range on the second look and
\* is `cut`.
SelectNodes(seen, cut) ==
  LET loading == {n \in Nodes : status[n] = "LOADING"}
      entered == {n \in Below[root'] : n \in seen /\ Over[n] \cap Below[root'] \subseteq seen \ cut}
      kept == entered \ cut
      reached == {root'} \cup UNION {Kids[n] : n \in kept}
      passed == reached \ (entered \cup {root'})
  IN
  /\ cut \subseteq entered /\ seen \cap loading \subseteq reached
  /\ status' = [n \in Nodes |->
       IF status[n] = "none" /\ n \in Below[root'] \ reached THEN "INACTIVE"
       ELSE Selected(n, reached, entered \ {root'}, passed)]
  /\ selection' = {n \in kept : IsDrawn(n, seen)}
  /\ pool' = pool \cup {n \in Nodes \ loading : status'[n] = "LOADING"}
                  \cup {NotANode : n \in {m \in selection' : status'[m] = "META"}}
  /\ link' = [n \in Nodes |-> Relink(n)]
  /\ todo' = selection'
  /\ parts' = [n \in Nodes |-> IF n \in selection' THEN Kids[n] \cap seen ELSE parts[n]]
  /\ pc' = IF selection' = {} THEN "idle" ELSE "update"

\* The nodes that are read as in their range are those that are, but for the ones that
\* are loading.
UpdateLodMap(p, expand) ==
  /\ pc = "idle"
  /\ expand => \E n \in Nodes : root \in Below[n] /\ p \in Area[n]
  /\ pos' = p /\ root' = IF expand THEN ExpandedRoot(p) ELSE root
  /\ LET loading == {n \in Nodes : status[n] = "LOADING"}
         near == {n \in Below[root'] : IntersectsSphere(n, p)}
     IN
     \E misread \in SUBSET loading,
        cut \in SUBSET {n \in Distant : status[n] \in {"LOADING", "META"}} :
       SelectNodes((near \ loading) \cup misread, cut)

\* The tiles that activateLodMapTile makes models for: the tile and its ancestors up to
\* the first that has one.
Chain(n) ==
  {a \in {n} \cup Above(n) : \A b \in Below[a] \cap ({n} \cup Above(n)) : status[b] # "ACTIVE"}

\* mutant: the tile is activated without its parent
ActivateAlone(n) ==
  /\ status[n] # "LOADING"
  /\ status' = [status EXCEPT ![n] = "ACTIVE"]
  /\ link' = [link EXCEPT ![n] = IF n = root THEN n ELSE ParentOf(n)]
  /\ pc' = IF status[n] \notin {"READY", "ACTIVE"} THEN "abort" ELSE IF todo = {n} THEN "idle" ELSE pc

\* The main thread waits for each tile of the chain in turn, which is to wait for all
\* of them; it asserts that each is READY then.
Activate(n) ==
  /\ \A a \in Chain(n) : status[a] # "LOADING"
  /\ status' = [a \in Nodes |-> IF a \in Chain(n) THEN "ACTIVE" ELSE status[a]]
  /\ link' = [a \in Nodes |-> IF a \notin Chain(n) THEN link[a] ELSE IF a = root THEN a ELSE ParentOf(a)]
  /\ pc' = IF \E a \in Chain(n) : status[a] # "READY" THEN "abort"
           ELSE IF todo = {n} THEN "idle" ELSE pc

\* mutant: the loop stays at one node
MakeVisibleAgain ==
  /\ pc = "update"
  /\ \E n \in todo : Below[n] \cap todo = {n} /\ todo' = todo /\ Activate(n)
  /\ UNCHANGED <<root, pool, drawn, pos>>

\* Children come before their parents in the selection.
MakeVisible ==
  /\ pc = "update"
  /\ \E n \in todo : Below[n] \cap todo = {n} /\ todo' = todo \ {n} /\ Activate(n)
  /\ UNCHANGED <<root, pool, drawn, pos>>

\* The viewer's listener_update moves the camera and updates the map; key p updates it
\* for the same place, and key x decides whether the tree grows.
ListenerUpdate ==
  \E p \in Positions, autoExpand \in BOOLEAN :
    p - pos \in -Stride .. Stride /\ UpdateLodMap(p, autoExpand)

-----------------------------------------------------------------------------
(* Loading, export *)

\* loadLodMapTile in a thread of the pool.
LoadTile(t) ==
  /\ t \in pool /\ pc # "abort" /\ pool' = pool \ {t}
  /\ pc' = IF t \in Nodes /\ status[t] = "LOADING" THEN pc ELSE "abort"
  /\ status' = IF t \in Nodes THEN [status EXCEPT ![t] = "READY"] ELSE status
  /\ UNCHANGED <<root, link, drawn, todo, pos>>

\* mutant: the export reads what a thread is about to read
ExportUnwaited ==
  /\ pc = "idle" /\ pool' = pool \ Below[root]
  /\ status' = [n \in Nodes |-> IF status[n] \in {"INACTIVE", "META", "LOADING"} THEN "READY" ELSE status[n]]
  /\ UNCHANGED <<root, link, drawn, todo, pos, pc>>

\* exportOpenGLLodMap loads what is not loaded, waits for what is loading, and leaves
\* everything loaded.
ExportLodMap ==
  /\ pc = "idle" /\ \A n \in Below[root] : status[n] # "LOADING"
  /\ status' = [n \in Nodes |-> IF status[n] \in {"INACTIVE", "META"} THEN "READY" ELSE status[n]]
  /\ UNCHANGED <<root, pool, link, drawn, todo, pos, pc>>

Next ==
  \/ ListenerUpdate
  \/ MakeVisible
  \/ \E t \in Nodes \cup {NotANode} : LoadTile(t)
  \/ ExportLodMap
  \/ FreeLodMap
  \/ Recreate

Fairness ==
  /\ \A t \in Nodes : WF_vars(LoadTile(t))
  /\ WF_vars(MakeVisible)

Spec == Init /\ [][Next]_vars /\ Fairness

-----------------------------------------------------------------------------
(* Properties *)

Statuses == {"none", "INACTIVE", "META", "LOADING", "READY", "ACTIVE"}

\* The type invariant.
TypeOK ==
  /\ root \in Nodes /\ status \in [Nodes -> Statuses] /\ pool \subseteq Nodes \cup {NotANode}
  /\ selection \subseteq Nodes /\ parts \in [Nodes -> SUBSET Nodes]
  /\ todo \subseteq Nodes /\ link \in [Nodes -> Nodes \cup {NoLink, Freed}]
  /\ pos \in Positions /\ pc \in {"idle", "update", "freed", "abort"}

\* loadLodMapTile and activateLodMapTile: a tile is LOADING exactly as long as one
\* thread has it to load, whatever the selection does to it meanwhile; so no assertion
\* fails, and what is pushed is a node (selectLodMapNodes pushes a tile in the second
\* of its two places, which is never reached).
LoadingOwned == pc # "abort" /\ pool = {n \in Nodes : status[n] = "LOADING"}

\* drawOpenGLLodMap: between two updates every tile that is drawn has a model, and the
\* textures that its model takes from its parent are there.
DrawnAlive ==
  pc = "idle" => \A n \in selection :
                   status[n] = "ACTIVE" /\ link[n] \in Nodes /\ status[link[n]] = "ACTIVE"

\* The loading threads and the selection, which looks at the same tiles without a
\* lock, neither lose a tile nor draw one that is gone.
TilesSound == LoadingOwned /\ DrawnAlive

DrawnOver(leaf) ==
  {n \in selection : leaf \in Below[n] /\ \A k \in parts[n] : leaf \notin Below[k]}

\* selectLodMapNodes, options.drawMode: no place of the map is drawn by two tiles, and
\* when one is drawn at all every place is drawn, but below a distant node that was read
\* while it was loading (the root never is).
DrawnOnce ==
  pc \in {"idle", "update"} => \A leaf \in {n \in Below[root] : IsLeaf(n)} :
    /\ Cardinality(DrawnOver(leaf)) <= 1
    /\ selection # {} /\ Distant \cap Above(leaf) \subseteq {root} => Cardinality(DrawnOver(leaf)) = 1

\* updateOpenGLLodMap: the main thread does not wait for a tile forever.
UpdateEnds == pc = "update" ~> pc = "idle"

Image(s) == CASE s = "LOADING" -> "requested" [] s \in {"READY", "ACTIVE"} -> "read"
              [] OTHER -> "none"

TL == INSTANCE TileLoading WITH
        Tiles <- Nodes,
        images <- [n \in Nodes |-> Image(status[n])],
        shown <- {n \in Nodes : status[n] = "ACTIVE"}

\* The map implements TileLoading: images are not dropped while a thread reads them, and
\* only what has images is shown.
LoadsTiles == TL!TileSpec
=============================================================================
