CONSTANTS
  Nodes <- MCNodes
  Below <- MCBelow
  FirstRoot = "0-1"
  Positions <- MCPositions
  From <- MCFrom
  To <- MCTo
  NodeRange <- MCRange
  Distant <- MCDistant
  Stride = 1
SPECIFICATION Spec
INVARIANTS  DrawnOnce
PROPERTIES UpdateEnds LoadsTiles
