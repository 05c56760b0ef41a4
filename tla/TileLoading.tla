---------------------------- MODULE TileLoading ----------------------------
(***************************************************************************)
(* What the level-of-detail map promises about the images of its tiles,    *)
(* whatever its threads do: images are read once per request, they are not *)
(* dropped while a thread is at work on them, and nobody shows a tile that *)
(* has none.                                                               *)
(***************************************************************************)
CONSTANT Tiles

VARIABLES images, shown   \* state of a tile's images, tiles that are on screen

TileInit == images = [t \in Tiles |-> "none"] /\ shown = {}

\* Images are requested, or read at once by whoever needs them now, or dropped.
Change ==
  /\ images' \in [Tiles -> {"none", "requested", "read"}]
  /\ \A t \in Tiles : images[t] = "requested" => images'[t] = "requested"
  /\ shown' \subseteq shown
  /\ \A t \in shown' : images'[t] = "read"

\* A thread has read the images of one tile.
Finish(t) ==
  /\ images[t] = "requested" /\ images' = [images EXCEPT ![t] = "read"]
  /\ UNCHANGED shown

\* The tiles of S, whose images are there, go on screen.
Show(S) ==
  /\ \A t \in S : images[t] = "read"
  /\ shown' = shown \cup S /\ UNCHANGED images

TileNext ==
  \/ Change
  \/ \E t \in Tiles : Finish(t)
  \/ \E S \in SUBSET Tiles : Show(S)

TileSpec == TileInit /\ [][TileNext]_<<images, shown>>
=============================================================================
