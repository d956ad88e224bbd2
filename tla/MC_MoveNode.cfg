CONSTANTS
  n1 = n1
  n2 = n2
  n3 = n3
  m0 = m0
  m1 = m1
  m2 = m2
  p1 = p1
  p2 = p2
  NULL = NULL
  Nodes <- MC_Nodes
  Moves <- MC_Moves
  ProgramMoves <- MC_ProgramMoves
  POs <- MC_POs
  Cycles <- MC_Cycles
SPECIFICATION Spec
SYMMETRY MC_Symmetry
INVARIANTS
  TypeOK
  LinksConsistent
  MoveOwnedOnce
  SameOperationAgrees
\* The node slots run out: the graph is discarded after its nodes are gone.
CHECK_DEADLOCK FALSE
