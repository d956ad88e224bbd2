---------------------------- MODULE ProcedurePass ----------------------------
(***************************************************************************)
(* ProcedurePass::copyCfgToProcedure (src/tce/src/applibs/Scheduler/      *)
(* Algorithms/ProcedurePass.cc): the scheduled basic blocks of a control   *)
(* flow graph are copied back into the procedure they were cut from, and  *)
(* the instruction references (jump targets) are moved to the copies.     *)
(*                                                                         *)
(* The CFG nodes are BasicBlockNodes (ControlFlowGraph/BasicBlockNode.cc): *)
(* a normal block built from an original address range, the artificial   *)
(* entry and exit nodes, or a node wrapping a new BasicBlock, whose       *)
(* entry_ and exit_ members that constructor leaves uninitialized.        *)
(*                                                                         *)
(* The original instructions (Original, at addresses 0, 1, ...) and a    *)
(* scheduled block's instructions are model values; the copy of x is     *)
(* Copy(x).  The instruction reference manager is the map ref from        *)
(* reference to the instruction it points at.  The node order of the CFG  *)
(* (cfg.node(i)) is chosen in Init.                                        *)
(***************************************************************************)
EXTENDS Integers, Sequences
LOCAL INSTANCE SequencesExt
LOCAL INSTANCE Functions

CONSTANTS
  Original,   \* the procedure's instructions before the pass, by address
  Blocks,     \* CFG nodes
  Kind,       \* [Blocks -> {"normal", "entry", "exit", "wrapped"}]: constructor used
  Start,      \* [Blocks -> Nat]: originalStartAddress_ of a normal block
  End,        \* [Blocks -> Nat]: originalEndAddress_ of a normal block
  Code,       \* [Blocks -> Seq(instructions)]: the scheduled BasicBlock
  Skipped,    \* [Blocks -> Nat]: skippedFirstInstructions()
  Refs,       \* instruction references
  RefTarget,  \* [Refs -> instructions]: what each reference points at before the pass
  NULL

Copy(x) == << "copy", x >>

Normal == { n \in Blocks : Kind[n] = "normal" }

VARIABLES
  order,       \* the CFG's node order, cfg.node(0 .. nodeCount()-1)
  entry,       \* [Blocks -> BOOLEAN]: BasicBlockNode entry_
  exit,        \* [Blocks -> BOOLEAN]: BasicBlockNode exit_
  proc,        \* the procedure's instructions
  ref,         \* [Refs -> instruction or NULL]: InstructionReferenceManager
  placeHolder, \* [Blocks -> instruction or NULL]: placeHolders
  pc,          \* "collect", "copy" or "done"
  bbIndex,     \* the second loop's bbIndex, from 1
  err          \* the exception thrown, or NULL

vars == << order, entry, exit, proc, ref, placeHolder, pc, bbIndex, err >>

(***************************************************************************)
(* BasicBlockNode.                                                         *)
(***************************************************************************)
\* hasOriginalAddress(): only the address-range constructor of a normal
\* block sets it.
HasOriginalAddress(n) == Kind[n] = "normal"

\* isNormalBB(): neither the entry nor the exit node.
IsNormalBB(n) == ~entry[n] /\ ~exit[n]

\* Fault variant: the block's own instructions are inserted, not copies.
NewCodeNoCopy(n) == SubSeq(Code[n], Skipped[n] + 1, Len(Code[n]))

\* The instructions copied from a block: basicBlock() from index
\* skippedFirstInstructions() on.
NewCode(n) == [ i \in 1 .. Len(Code[n]) - Skipped[n] |-> Copy(Code[n][Skipped[n] + i]) ]

\* The constructors: BasicBlockNode(start, end, entry, exit) for the normal,
\* entry and exit nodes; BasicBlockNode(bb) leaves entry_ and exit_
\* uninitialized, so isNormalBB() reads whatever the memory holds.
Init ==
  /\ order \in { s \in [1 .. Cardinality(Blocks) -> Blocks] : IsInjective(s) }
  /\ \E e, x \in [Blocks -> BOOLEAN] :
       /\ \A n \in Blocks : Kind[n] # "wrapped" =>
            /\ e[n] = (Kind[n] = "entry")
            /\ x[n] = (Kind[n] = "exit")
       /\ entry = e
       /\ exit = x
  /\ proc = Original
  /\ ref = RefTarget
  /\ placeHolder = [n \in Blocks |-> NULL]
  /\ pc = "collect"
  /\ bbIndex = 1
  /\ err = NULL

(***************************************************************************)
(* copyCfgToProcedure.                                                     *)
(***************************************************************************)
\* The first loop: the instruction at each normal block's original start
\* address becomes its place holder; a normal block without an original
\* address throws before the procedure is touched.
CollectPlaceHolders ==
  /\ pc = "collect"
  /\ IF \E n \in Blocks : IsNormalBB(n) /\ ~HasOriginalAddress(n)
       THEN /\ err' = "NoOriginalAddress"
            /\ UNCHANGED << placeHolder, pc >>
       ELSE /\ placeHolder' = [n \in Blocks |-> IF IsNormalBB(n)
                                                 THEN proc[Start[n] + 1] ELSE NULL]
            /\ pc' = "copy"
            /\ UNCHANGED err
  /\ UNCHANGED << order, entry, exit, proc, ref, bbIndex >>

\* irm.replace(a, b): every reference to a now points at b.
Replace(rf, a, b) == [r \in DOMAIN rf |-> IF rf[r] = a THEN b ELSE rf[r]]

\* Fault variant: the references of the copied instructions are not moved.
CopyBlockKeepRefs ==
  /\ pc = "copy"
  /\ LET n   == order[bbIndex]
         pos == CHOOSE i \in DOMAIN proc : proc[i] = placeHolder[n]
         sz  == End[n] - Start[n] + 1
         new == NewCode(n)
         kept == SubSeq(proc, 1, pos) \o new \o SubSeq(proc, pos + sz, Len(proc))
         first == IF new = << >> THEN NULL ELSE new[1]
     IN IF IsNormalBB(n)
          THEN /\ proc' = RemoveAt(kept, pos)
               /\ ref' = Replace(ref, placeHolder[n], first)
          ELSE UNCHANGED << proc, ref >>
  /\ bbIndex' = bbIndex + 1
  /\ pc' = IF bbIndex = Len(order) THEN "done" ELSE "copy"
  /\ UNCHANGED << order, entry, exit, placeHolder, err >>

\* Fault variant: the delete loop starts at i = 2 and leaves the block's
\* last original instruction behind.
CopyBlockDeleteOneLess ==
  /\ pc = "copy"
  /\ LET n   == order[bbIndex]
         pos == CHOOSE i \in DOMAIN proc : proc[i] = placeHolder[n]
         sz  == End[n] - Start[n]
         new == NewCode(n)
         kept == SubSeq(proc, 1, pos) \o new \o SubSeq(proc, pos + sz, Len(proc))
         moved == FoldLeft(LAMBDA rf, x : Replace(rf, x, Copy(x)), ref,
                           SubSeq(Code[n], Skipped[n] + 1, Len(Code[n])))
         first == IF new = << >> THEN NULL ELSE new[1]
     IN IF IsNormalBB(n)
          THEN /\ proc' = RemoveAt(kept, pos)
               /\ ref' = Replace(moved, placeHolder[n], first)
          ELSE UNCHANGED << proc, ref >>
  /\ bbIndex' = bbIndex + 1
  /\ pc' = IF bbIndex = Len(order) THEN "done" ELSE "copy"
  /\ UNCHANGED << order, entry, exit, placeHolder, err >>

\* The second loop, one node: delete the block's original instructions after
\* the place holder, insert the copies after it (moving the references of
\* each copied instruction), move the place holder's references to the
\* first copy (NULL when nothing was copied), and delete the place holder.
CopyBlock ==
  /\ pc = "copy"
  /\ LET n   == order[bbIndex]
         pos == CHOOSE i \in DOMAIN proc : proc[i] = placeHolder[n]
         sz  == End[n] - Start[n] + 1
         new == NewCode(n)
         kept == SubSeq(proc, 1, pos) \o new \o SubSeq(proc, pos + sz, Len(proc))
         moved == FoldLeft(LAMBDA rf, x : Replace(rf, x, Copy(x)), ref,
                           SubSeq(Code[n], Skipped[n] + 1, Len(Code[n])))
         first == IF new = << >> THEN NULL ELSE new[1]
     IN IF IsNormalBB(n)
          THEN /\ proc' = RemoveAt(kept, pos)
               /\ ref' = Replace(moved, placeHolder[n], first)
          ELSE UNCHANGED << proc, ref >>
  /\ bbIndex' = bbIndex + 1
  /\ pc' = IF bbIndex = Len(order) THEN "done" ELSE "copy"
  /\ UNCHANGED << order, entry, exit, placeHolder, err >>

Next ==
  /\ err = NULL
  /\ \/ CollectPlaceHolders
     \/ CopyBlock

Spec == Init /\ [][Next]_vars

-----------------------------------------------------------------------------
Copies == UNION { { Copy(x) : x \in Range(Code[n]) } : n \in Blocks }
Instrs == Range(Original) \cup Copies \cup UNION { Range(Code[n]) : n \in Blocks }

\* The procedure holds its own instructions and copies, never an
\* instruction object owned by a basic block.
TypeOK ==
  /\ proc \in Seq(Range(Original) \cup Copies)
  /\ ref \in [Refs -> Instrs \cup {NULL}]
  /\ placeHolder \in [Blocks -> Instrs \cup {NULL}]
  /\ pc \in {"collect", "copy", "done"}
  /\ bbIndex \in 1 .. Cardinality(Blocks) + 1
  /\ err \in {NULL, "NoOriginalAddress"}

\* The procedure the pass should produce, by original address: each normal
\* block's range replaced by its copied instructions, other instructions kept.
RECURSIVE Rebuilt(_)
Rebuilt(a) ==
  IF a >= Len(Original) THEN << >>
  ELSE IF \E n \in Normal : Start[n] = a
         THEN LET n == CHOOSE n \in Normal : Start[n] = a
              IN NewCode(n) \o Rebuilt(End[n] + 1)
         ELSE << Original[a + 1] >> \o Rebuilt(a + 1)

\* Where a reference should point after the pass: a block's start moves to
\* the block's first copied instruction, a scheduled instruction to its copy.
Moved(x) ==
  IF \E n \in Normal : x = Original[Start[n] + 1]
    THEN LET n == CHOOSE n \in Normal : x = Original[Start[n] + 1]
         IN IF NewCode(n) = << >> THEN NULL ELSE NewCode(n)[1]
    ELSE IF \E n \in Blocks : x \in Range(Code[n]) THEN Copy(x) ELSE x

(***************************************************************************)
(* The rebuilt procedure does not depend on the CFG's node order: when     *)
(* copyCfgToProcedure returns, the procedure is the original one with each *)
(* block's address range replaced by the block's scheduled instructions    *)
(* (after the skipped ones), in address order.                             *)
(***************************************************************************)
ProcedureRebuilt == pc = "done" => proc = Rebuilt(0)

(***************************************************************************)
(* No jump target is lost: when the pass returns, every reference points   *)
(* at an instruction of the procedure, a reference to a block's first      *)
(* instruction now points at the block's first scheduled instruction, and *)
(* a reference to a scheduled instruction points at its copy.             *)
(***************************************************************************)
RefsFollowCode ==
  pc = "done" => \A r \in Refs : ref[r] = Moved(RefTarget[r]) /\ ref[r] \in Range(proc)

=============================================================================
