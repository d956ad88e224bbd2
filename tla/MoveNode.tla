------------------------------ MODULE MoveNode ------------------------------
(***************************************************************************)
(* MoveNode (src/tce/src/applibs/Scheduler/ProgramRepresentations/         *)
(* ProgramDependenceGraph/MoveNode.cc): the lifetime of the scheduler's    *)
(* move nodes, their back-references to the ProgramOperations they read    *)
(* from and write into, and the ownership of the Move each node wraps.    *)
(*                                                                         *)
(* A Move is owned by exactly one party: an Instruction (of the original   *)
(* program, or one the resource manager put it into), or the MoveNode      *)
(* itself when moveOwned_ is set, in which case ~MoveNode deletes it.      *)
(* Node and Move objects are slots drawn from constant sets; a slot in     *)
(* state "none" has not been allocated yet.                                *)
(*                                                                         *)
(* The ProgramOperation side (its input and output node lists) and the     *)
(* dependence graph builder and resource manager that call MoveNode are    *)
(* not in the tree; their steps follow spec.md and the comments of the     *)
(* MoveNode methods they call.                                             *)
(***************************************************************************)
EXTENDS Integers, FiniteSets

CONSTANTS
  Nodes,         \* MoveNode objects
  Moves,         \* TTAProgram::Move objects
  ProgramMoves,  \* the moves of the original program, held by its instructions
  POs,           \* ProgramOperations
  Cycles,        \* cycles a node may be placed in
  NULL

ASSUME ProgramMoves \subseteq Moves

VARIABLES
  node,       \* [Nodes -> {"none", "live", "gone"}]: allocation of the MoveNode
  move,       \* [Nodes -> Moves \cup {NULL}]: move_
  moveOwned,  \* [Nodes -> BOOLEAN]: moveOwned_
  srcOp,      \* [Nodes -> POs \cup {NULL}]: srcOp_
  dstOp,      \* [Nodes -> POs \cup {NULL}]: dstOp_
  placed,     \* [Nodes -> BOOLEAN]: placed_
  cycle,      \* [Nodes -> Cycles]: cycle_
  outputs,    \* [POs -> SUBSET Nodes]: ProgramOperation's output (result) nodes
  inputs,     \* [POs -> SUBSET Nodes]: ProgramOperation's input (operand) nodes
  moveSt,     \* [Moves -> {"none", "live", "deleted"}]
  holder,     \* [Moves -> {"program", "rm", "none"}]: the Instruction holding it
  err         \* "DoubleDelete" once a deleted Move is deleted again, else NULL

vars == << node, move, moveOwned, srcOp, dstOp, placed, cycle, outputs,
           inputs, moveSt, holder, err >>

Live == { n \in Nodes : node[n] = "live" }

(***************************************************************************)
(* Queries.                                                                *)
(***************************************************************************)
\* isSourceOperation(): a node without a move never reads an operation.
IsSourceOperation(n) == move[n] # NULL /\ srcOp[n] # NULL

\* isDestinationOperation()
IsDestinationOperation(n) == move[n] # NULL /\ dstOp[n] # NULL

\* isRegisterMove(): neither end belongs to an operation.
IsRegisterMove(n) == ~IsSourceOperation(n) /\ ~IsDestinationOperation(n)

\* The operations a node reads from or writes into, as inSameOperation()
\* collects them (operationsA, operationsB).
OperationsOf(n) ==
  (IF IsSourceOperation(n) THEN {srcOp[n]} ELSE {})
    \cup (IF IsDestinationOperation(n) THEN {dstOp[n]} ELSE {})

\* Fault variant: only the source ends are compared.
InSameOperationSourceOnly(n, k) ==
  /\ ~IsRegisterMove(n) /\ ~IsRegisterMove(k)
  /\ IsSourceOperation(n) /\ IsSourceOperation(k) /\ srcOp[n] = srcOp[k]

\* inSameOperation(other): false for register moves, else whether the two
\* nodes share an operation at either end (a bypass has two).
InSameOperation(n, k) ==
  /\ ~IsRegisterMove(n) /\ ~IsRegisterMove(k)
  /\ OperationsOf(n) \cap OperationsOf(k) # {}

Init ==
  /\ node = [n \in Nodes |-> "none"]
  /\ move = [n \in Nodes |-> NULL]
  /\ moveOwned = [n \in Nodes |-> FALSE]
  /\ srcOp = [n \in Nodes |-> NULL]
  /\ dstOp = [n \in Nodes |-> NULL]
  /\ placed = [n \in Nodes |-> FALSE]
  /\ cycle = [n \in Nodes |-> 0]
  /\ outputs = [p \in POs |-> {}]
  /\ inputs = [p \in POs |-> {}]
  /\ moveSt = [m \in Moves |-> IF m \in ProgramMoves THEN "live" ELSE "none"]
  /\ holder = [m \in Moves |-> IF m \in ProgramMoves THEN "program" ELSE "none"]
  /\ err = NULL

(***************************************************************************)
(* Constructors.  All three leave the node unplaced, at cycle 0, with no   *)
(* operation links.                                                        *)
(***************************************************************************)
Construct(n, m, owned) ==
  /\ node' = [node EXCEPT ![n] = "live"]
  /\ move' = [move EXCEPT ![n] = m]
  /\ moveOwned' = [moveOwned EXCEPT ![n] = owned]
  /\ srcOp' = [srcOp EXCEPT ![n] = NULL]
  /\ dstOp' = [dstOp EXCEPT ![n] = NULL]
  /\ placed' = [placed EXCEPT ![n] = FALSE]
  /\ cycle' = [cycle EXCEPT ![n] = 0]

\* MoveNode(Move&): the dependence graph builder wraps a move of the
\* program, one node per move; the instruction keeps owning it.
NewRefNode(n, m) ==
  /\ node[n] = "none"
  /\ holder[m] = "program"
  /\ \A k \in Live : move[k] # m
  /\ Construct(n, m, FALSE)
  /\ UNCHANGED << outputs, inputs, moveSt, holder, err >>

\* MoveNode(): the entry node, without a move.
NewEntryNode(n) ==
  /\ node[n] = "none"
  /\ Construct(n, NULL, FALSE)
  /\ UNCHANGED << outputs, inputs, moveSt, holder, err >>

\* setSourceOperation(po) / setDestinationOperation(po): only the pointer.
SetSourceOperation(n, p) == srcOp' = [srcOp EXCEPT ![n] = p]
SetDestinationOperation(n, p) == dstOp' = [dstOp EXCEPT ![n] = p]

\* The builder puts a node with a move into a ProgramOperation: the
\* operation lists the node (addOutputNode / addInputNode) and the node
\* points at the operation.
LinkSource(n, p) ==
  /\ n \in Live /\ move[n] # NULL /\ srcOp[n] = NULL
  /\ outputs' = [outputs EXCEPT ![p] = @ \cup {n}]
  /\ SetSourceOperation(n, p)
  /\ UNCHANGED << node, move, moveOwned, dstOp, placed, cycle, inputs,
                  moveSt, holder, err >>

LinkDestination(n, p) ==
  /\ n \in Live /\ move[n] # NULL /\ dstOp[n] = NULL
  /\ inputs' = [inputs EXCEPT ![p] = @ \cup {n}]
  /\ SetDestinationOperation(n, p)
  /\ UNCHANGED << node, move, moveOwned, srcOp, placed, cycle, outputs,
                  moveSt, holder, err >>

\* unsetSourceOperation() / unsetDestinationOperation(): only the pointer;
\* the node is not removed from the operation's lists.
UnsetSourceOperation(n) == srcOp' = [srcOp EXCEPT ![n] = NULL]
UnsetDestinationOperation(n) == dstOp' = [dstOp EXCEPT ![n] = NULL]

\* The builder takes a node out of its operation: the operation drops it
\* from its list (removeOutputNode / removeInputNode), then the node's
\* pointer is cleared.
UnlinkSource(n) ==
  /\ IsSourceOperation(n) /\ n \in Live
  /\ outputs' = [outputs EXCEPT ![srcOp[n]] = @ \ {n}]
  /\ UnsetSourceOperation(n)
  /\ UNCHANGED << node, move, moveOwned, dstOp, placed, cycle, inputs,
                  moveSt, holder, err >>

UnlinkDestination(n) ==
  /\ IsDestinationOperation(n) /\ n \in Live
  /\ inputs' = [inputs EXCEPT ![dstOp[n]] = @ \ {n}]
  /\ UnsetDestinationOperation(n)
  /\ UNCHANGED << node, move, moveOwned, srcOp, placed, cycle, outputs,
                  moveSt, holder, err >>

(***************************************************************************)
(* copy(): a new node with a copy of the move (the owning constructor,    *)
(* so the copy owns it), or a new entry node when there is no move; the    *)
(* copy is added to the same operations as the original and is not placed. *)
(***************************************************************************)
CopyLinks(n, c) ==
  /\ srcOp' = [srcOp EXCEPT ![c] = IF IsSourceOperation(n) THEN srcOp[n] ELSE NULL]
  /\ dstOp' = [dstOp EXCEPT ![c] = IF IsDestinationOperation(n) THEN dstOp[n] ELSE NULL]
  /\ outputs' = IF IsSourceOperation(n)
                  THEN [outputs EXCEPT ![srcOp[n]] = @ \cup {c}] ELSE outputs
  /\ inputs' = IF IsDestinationOperation(n)
                 THEN [inputs EXCEPT ![dstOp[n]] = @ \cup {c}] ELSE inputs

\* Fault variant: the new node wraps the original's Move itself, not a copy.
CopyShareMove(n, c, m) ==
  /\ n \in Live /\ node[c] = "none" /\ moveSt[m] = "none"
  /\ node' = [node EXCEPT ![c] = "live"]
  /\ move' = [move EXCEPT ![c] = move[n]]
  /\ moveOwned' = [moveOwned EXCEPT ![c] = move[n] # NULL]
  /\ placed' = [placed EXCEPT ![c] = FALSE]
  /\ cycle' = [cycle EXCEPT ![c] = 0]
  /\ CopyLinks(n, c)
  /\ UNCHANGED << moveSt, holder, err >>

\* Fault variant: the copy's Move is never allocated.
CopyNoAlloc(n, c, m) ==
  /\ n \in Live /\ node[c] = "none" /\ moveSt[m] = "none"
  /\ node' = [node EXCEPT ![c] = "live"]
  /\ move' = [move EXCEPT ![c] = IF move[n] # NULL THEN m ELSE NULL]
  /\ moveOwned' = [moveOwned EXCEPT ![c] = move[n] # NULL]
  /\ placed' = [placed EXCEPT ![c] = FALSE]
  /\ cycle' = [cycle EXCEPT ![c] = 0]
  /\ CopyLinks(n, c)
  /\ UNCHANGED << moveSt, holder, err >>

\* m is the slot of the new Move (unused when the original has no move).
Copy(n, c, m) ==
  /\ n \in Live /\ node[c] = "none" /\ moveSt[m] = "none"
  /\ node' = [node EXCEPT ![c] = "live"]
  /\ move' = [move EXCEPT ![c] = IF move[n] # NULL THEN m ELSE NULL]
  /\ moveOwned' = [moveOwned EXCEPT ![c] = move[n] # NULL]
  /\ placed' = [placed EXCEPT ![c] = FALSE]
  /\ cycle' = [cycle EXCEPT ![c] = 0]
  /\ CopyLinks(n, c)
  /\ moveSt' = IF move[n] # NULL THEN [moveSt EXCEPT ![m] = "live"] ELSE moveSt
  /\ UNCHANGED << holder, err >>

(***************************************************************************)
(* ~MoveNode(): leave the operations it is linked to (as far as            *)
(* isSourceOperation() / isDestinationOperation() tell), delete the move   *)
(* if owned.                                                               *)
(***************************************************************************)
DeleteOwnedMove(n) ==
  IF ~moveOwned[n] THEN UNCHANGED << moveSt, err >>
  ELSE IF moveSt[move[n]] = "deleted"
    THEN err' = "DoubleDelete" /\ UNCHANGED moveSt
    ELSE moveSt' = [moveSt EXCEPT ![move[n]] = "deleted"] /\ UNCHANGED err

\* Fault variant: the destructor does not leave its operations.
DestroyKeepLinks(n) ==
  /\ n \in Live
  /\ DeleteOwnedMove(n)
  /\ node' = [node EXCEPT ![n] = "gone"]
  /\ move' = [move EXCEPT ![n] = NULL]
  /\ UNCHANGED << moveOwned, srcOp, dstOp, placed, cycle, outputs, inputs, holder >>

Destroy(n) ==
  /\ n \in Live
  /\ outputs' = IF IsSourceOperation(n)
                  THEN [outputs EXCEPT ![srcOp[n]] = @ \ {n}] ELSE outputs
  /\ inputs' = IF IsDestinationOperation(n)
                 THEN [inputs EXCEPT ![dstOp[n]] = @ \ {n}] ELSE inputs
  /\ DeleteOwnedMove(n)
  /\ node' = [node EXCEPT ![n] = "gone"]
  /\ move' = [move EXCEPT ![n] = NULL]
  /\ UNCHANGED << moveOwned, srcOp, dstOp, placed, cycle, holder >>

(***************************************************************************)
(* Ownership hand-over by the resource manager: assigning puts the move    *)
(* into an Instruction, which takes it over (unsetMoveOwned()); unassigning *)
(* removes it, and the node owns it again (setMoveOwned()).                *)
(***************************************************************************)
UnsetMoveOwned(n) == moveOwned' = [moveOwned EXCEPT ![n] = FALSE]
SetMoveOwned(n) == moveOwned' = [moveOwned EXCEPT ![n] = TRUE]

AssignMove(n) ==
  /\ n \in Live /\ move[n] # NULL /\ moveOwned[n] /\ holder[move[n]] = "none"
  /\ holder' = [holder EXCEPT ![move[n]] = "rm"]
  /\ UnsetMoveOwned(n)
  /\ UNCHANGED << node, move, srcOp, dstOp, placed, cycle, outputs, inputs, moveSt, err >>

UnassignMove(n) ==
  /\ n \in Live /\ move[n] # NULL /\ holder[move[n]] = "rm"
  /\ holder' = [holder EXCEPT ![move[n]] = "none"]
  /\ SetMoveOwned(n)
  /\ UNCHANGED << node, move, srcOp, dstOp, placed, cycle, outputs, inputs, moveSt, err >>

(***************************************************************************)
(* Placement.  A thrown InvalidData leaves the node as it was.             *)
(***************************************************************************)
\* setCycle(c): throws when placed in a different cycle.
SetCycle(n, c) ==
  /\ n \in Live
  /\ IF placed[n] /\ cycle[n] # c
       THEN UNCHANGED << placed, cycle >>
       ELSE /\ placed' = [placed EXCEPT ![n] = TRUE]
            /\ cycle' = [cycle EXCEPT ![n] = c]
  /\ UNCHANGED << node, move, moveOwned, srcOp, dstOp, outputs, inputs, moveSt, holder, err >>

\* unsetCycle(): throws when not placed.
UnsetCycle(n) ==
  /\ n \in Live
  /\ IF ~placed[n]
       THEN UNCHANGED << placed, cycle >>
       ELSE /\ placed' = [placed EXCEPT ![n] = FALSE]
            /\ cycle' = [cycle EXCEPT ![n] = 0]
  /\ UNCHANGED << node, move, moveOwned, srcOp, dstOp, outputs, inputs, moveSt, holder, err >>

Next ==
  \/ \E n \in Nodes, m \in Moves : NewRefNode(n, m)
  \/ \E n \in Nodes : NewEntryNode(n)
  \/ \E n \in Nodes, p \in POs : LinkSource(n, p) \/ LinkDestination(n, p)
  \/ \E n \in Nodes : UnlinkSource(n) \/ UnlinkDestination(n)
  \/ \E n, c \in Nodes, m \in Moves : Copy(n, c, m)
  \/ \E n \in Nodes : Destroy(n) \/ AssignMove(n) \/ UnassignMove(n)
  \/ \E n \in Nodes, c \in Cycles : SetCycle(n, c)
  \/ \E n \in Nodes : UnsetCycle(n)

Spec == Init /\ [][Next]_vars

-----------------------------------------------------------------------------
\* A live node's move is an allocated Move.
TypeOK ==
  /\ node \in [Nodes -> {"none", "live", "gone"}]
  /\ move \in [Nodes -> Moves \cup {NULL}]
  /\ \A n \in Live : move[n] # NULL => moveSt[move[n]] # "none"
  /\ moveOwned \in [Nodes -> BOOLEAN]
  /\ srcOp \in [Nodes -> POs \cup {NULL}] /\ dstOp \in [Nodes -> POs \cup {NULL}]
  /\ placed \in [Nodes -> BOOLEAN] /\ cycle \in [Nodes -> Cycles]
  /\ outputs \in [POs -> SUBSET Nodes] /\ inputs \in [POs -> SUBSET Nodes]
  /\ moveSt \in [Moves -> {"none", "live", "deleted"}]
  /\ holder \in [Moves -> {"program", "rm", "none"}]
  /\ err \in {NULL, "DoubleDelete"}

(***************************************************************************)
(* The back-references agree through copies and destruction: an          *)
(* operation lists exactly the live nodes that point at it, so it never    *)
(* holds a destroyed node, and a copy made by MoveNode::copy() is a member *)
(* of its original's operations.                                           *)
(***************************************************************************)
LinksConsistent ==
  \A p \in POs :
    /\ outputs[p] = { n \in Live : IsSourceOperation(n) /\ srcOp[n] = p }
    /\ inputs[p] = { n \in Live : IsDestinationOperation(n) /\ dstOp[n] = p }

(***************************************************************************)
(* inSameOperation() agrees with the operations' own lists: two live      *)
(* nodes are in the same operation exactly when one ProgramOperation lists *)
(* both, among its inputs or its outputs, also for bypass moves and for    *)
(* copies made by copy().                                                  *)
(***************************************************************************)
SameOperationAgrees ==
  \A n, k \in Live :
    InSameOperation(n, k) <=> \E p \in POs : {n, k} \subseteq outputs[p] \cup inputs[p]

\* The owners of a Move: the Instruction holding it, and nodes that own it.
OwnerCount(m) ==
  (IF holder[m] # "none" THEN 1 ELSE 0)
    + Cardinality({ n \in Live : move[n] = m /\ moveOwned[n] })

(***************************************************************************)
(* Every Move is deleted exactly when its last owner lets it go: a live    *)
(* Move has exactly one owner (neither leaked nor owned twice), no Move is *)
(* deleted twice, and no live node wraps a deleted Move, across copy(),   *)
(* ~MoveNode() and the resource manager's setMoveOwned / unsetMoveOwned.   *)
(***************************************************************************)
MoveOwnedOnce ==
  /\ err = NULL
  /\ \A m \in Moves : moveSt[m] = "live" => OwnerCount(m) = 1
  /\ \A n \in Live : move[n] # NULL => moveSt[move[n]] = "live"

====
