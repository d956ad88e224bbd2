------------------------- MODULE MC_AssignmentPlan -------------------------
(***************************************************************************)
(* Three applicable brokers with two resources each and one broker that   *)
(* does not apply to the move.  Relations and other moves' use are chosen *)
(* so that cycle 0 is solved only after backtracking from the third broker *)
(* to the first, cycle 1 after one backtrack from the second, and cycle 2  *)
(* has no complete assignment.                                             *)
(***************************************************************************)
EXTENDS AssignmentPlan, TLC

CONSTANTS b1, b2, b3, b4, x1, x2, y1, y2, z1, z2, w1, xo, e1, fu1, fu2

\* b1 is the input socket broker of a machine with input sockets x1, x2
\* and output socket xo, buses' segments y1, y2 (b2's resources), and
\* FUs fu1, fu2 whose input FU resources are z1, z2 (b3's; fu1's resource
\* list starts with e1, a resource of another kind).  x1 connects to y1
\* and to a port of fu2 and of the register file; x2 connects to y1, y2
\* and to ports of fu1 and fu2.
MCDirection == (x1 :> "input") @@ (x2 :> "input") @@ (xo :> "output")
MCPorts == (x1 :> {"p4", "pr"}) @@ (x2 :> {"p1", "p3"})
MCFuOf == ("p1" :> fu1) @@ ("p3" :> fu2) @@ ("p4" :> fu2) @@ ("pr" :> NONE)
MCFuRes == (fu1 :> << e1, z1 >>) @@ (fu2 :> << z2 >>)
MCInputFURes == {z1, z2}
MCSegs == (x1 :> {y1}) @@ (x2 :> {y1, y2})

MCBrokerSeq == << b1, b2, b3, b4 >>
MCApplicable == [b \in {b1, b2, b3, b4} |-> b # b4]
MCOwns == (b1 :> BuildResources(MCDirection)) @@ (b2 :> {y1, y2}) @@ (b3 :> {z1, z2}) @@ (b4 :> {w1})
MCResources == {x1, x2, y1, y2, z1, z2, w1}
\* The segment-FU relations come from brokers outside the tree.
MCRelated ==
  ResourceLinks(BuildResources(MCDirection), MCPorts, MCFuOf, MCFuRes, MCInputFURes, MCSegs)
    \cup { {y1, z1}, {y2, z1}, {y2, z2} }
ASSUME MCRelated = { {x1, y1}, {x2, y1}, {x2, y2}, {x1, z2}, {x2, z1}, {x2, z2},
                     {y1, z1}, {y2, z1}, {y2, z2} }
MCCycles == {0, 1, 2}
MCPreBusy == (0 :> {z1}) @@ (1 :> {y1, z2}) @@ (2 :> {x2, y1})
MCRank == (x1 :> 1) @@ (x2 :> 2) @@ (y1 :> 1) @@ (y2 :> 2) @@
          (z1 :> 1) @@ (z2 :> 2) @@ (w1 :> 1)
=============================================================================
