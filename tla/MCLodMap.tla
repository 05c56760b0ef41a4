----------------------------- MODULE MCLodMap -----------------------------
(* A tree of three levels seen from the side: a node has two children.       *)
EXTENDS LodMap

MCNodes == {"0", "1", "2", "3", "0-1", "2-3", "0-3"}
MCBelow == [n \in MCNodes |->
  CASE n = "0-3" -> MCNodes
    [] n = "0-1" -> {"0", "1", "0-1"}
    [] n = "2-3" -> {"2", "3", "2-3"}
    [] OTHER -> {n}]
MCFrom == [n \in MCNodes |-> CASE n \in {"0", "0-1", "0-3"} -> 0 [] n = "1" -> 1 [] n \in {"2", "2-3"} -> 2 [] OTHER -> 3]
MCTo == [n \in MCNodes |-> CASE n = "0" -> 0 [] n \in {"1", "0-1"} -> 1 [] n = "2" -> 2 [] OTHER -> 3]
MCPositions == -4 .. 8
MCRange == [n \in MCNodes |-> MCTo[n] - MCFrom[n] + 2]
MCDistant == {"0-1", "2-3", "0-3"}
===========================================================================
