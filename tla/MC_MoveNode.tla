----------------------------- MODULE MC_MoveNode -----------------------------
(* Three node slots, one move of the original program and two slots for    *)
(* moves allocated by copy(), two ProgramOperations and two cycles: enough  *)
(* for a copy of a copy, a copy destroyed before or after its original, a  *)
(* bypass between two operations, and a copied move handed to an          *)
(* instruction and back.                                                   *)
EXTENDS MoveNode, TLC

CONSTANTS n1, n2, n3, m0, m1, m2, p1, p2

MC_Nodes == {n1, n2, n3}
MC_Moves == {m0, m1, m2}
MC_ProgramMoves == {m0}
MC_POs == {p1, p2}
MC_Cycles == {0, 1}

\* Node slots are interchangeable, and so are the two operations.
MC_Symmetry == Permutations(MC_Nodes) \cup Permutations(MC_POs)
====
