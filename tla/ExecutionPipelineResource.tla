--------------------- MODULE ExecutionPipelineResource ---------------------
(***************************************************************************)
(* The scheduling resource of one function unit: ExecutionPipelineResource *)
(* (src/tce/src/applibs/Scheduler/ResourceModel/ExecutionPipelineResource  *)
(* .cc).  Three kinds of move are assigned to it:                          *)
(*   - operand moves (inputs of a ProgramOperation that do not trigger),   *)
(*   - triggering moves, which start the operation's pipeline template,    *)
(*   - result reads (outputs of a ProgramOperation).                       *)
(* The state is the code's bookkeeping vectors; MoveNode placement is the  *)
(* variable `scheduled`.  Each assign action is guarded by the canAssign   *)
(* the caller checks first, as the resource broker does.  An exception     *)
(* the code would raise sets `err` and stops the run.                      *)
(***************************************************************************)
EXTENDS Integers, FiniteSets, Sequences
LOCAL INSTANCE FiniteSetsExt
LOCAL INSTANCE SequencesExt

CONSTANTS
  POs,           \* ProgramOperations executed on this unit
  Ops,           \* operation names with a pipeline template (setResourceUse)
  Res,           \* the unit's internal resource lines (numberOfResources_)
  MaxLat,        \* maximalLatency_
  Template,      \* operationPipelines_: [Ops -> [0..MaxLat-1 -> SUBSET Res]]
  OpOrder,       \* Seq(Ops): order of operationPipelines_ (setResourceUse)
  OpOf,          \* [POs -> Ops]: the operation a ProgramOperation invokes
  InputsOf,      \* [POs -> Seq(InNodes)]: inputMove(0..inputMoveCount-1)
  InNodes,       \* moves writing an operand or trigger port of the unit
  OutNodes,      \* moves reading a result of the unit
  IsTrigger,     \* [InNodes -> BOOLEAN]: destination().isTriggering()
  OpcodeSetting, \* [InNodes -> BOOLEAN]: destination().isOpcodeSetting()
  SourceOf,      \* [OutNodes -> POs]: sourceOperation()
  Latency,       \* [OutNodes -> 1..MaxLat]: hwop.latency(outputIndex)
  MaxCycle,      \* nodes are placed in cycles 0..MaxCycle
  TopDown,       \* the driver places a trigger before, and removes it
                 \* after, the result reads of its operation
  NULL,          \* an empty slot of a bookkeeping vector
  NONE           \* an unplaced node / a cycle without opcode record

Nodes == InNodes \cup OutNodes
Cycles == 0 .. MaxCycle
PipeCycles == 0 .. (MaxCycle + MaxLat - 1)
ResCycles == 0 .. (MaxCycle + MaxLat)
IntMax == 2147483647                  \* INT_MAX: result time not yet known

ASSUME InNodes \cap OutNodes = {}
ASSUME \A p \in POs : \E i \in DOMAIN InputsOf[p] :
         IsTrigger[InputsOf[p][i]] /\
         \A j \in DOMAIN InputsOf[p] : IsTrigger[InputsOf[p][j]] => i = j
ASSUME \A r \in OutNodes : Latency[r] \in 1 .. MaxLat

\* destinationOperation() of an input move.
DstOp(n) == CHOOSE p \in POs : \E i \in DOMAIN InputsOf[p] : InputsOf[p][i] = n
InputSet(p) == { InputsOf[p][i] : i \in DOMAIN InputsOf[p] }
\* ProgramOperation::triggeringMove().
TriggerOf(p) == CHOOSE n \in InputSet(p) : IsTrigger[n]

VARIABLES
  scheduled,           \* MoveNode cycle_ when placed and assigned, else NONE
  operandsWriten,      \* operandsWriten_: cycle -> ProgramOperation
  resultRead,          \* resultRead_: cycle -> [op, cnt]
  resultWriten,        \* resultWriten_: cycle -> [op, cnt]
  storedResultCycles,  \* storedResultCycles_: result node -> cycle
  opcodeSettingCycle,  \* opcodeSettingCycle_: cycle -> operation name
  fuExecutionPipeline, \* fuExecutionPipeline_: cycle -> busy resource lines
  pipeLen,             \* fuExecutionPipeline_.size(): it only grows
  err                  \* the exception raised, or NONE

vars == << scheduled, operandsWriten, resultRead, resultWriten,
           storedResultCycles, opcodeSettingCycle, fuExecutionPipeline,
           pipeLen, err >>

Slot == [op : POs \cup {NULL}, cnt : 0 .. Cardinality(OutNodes)]
EmptySlot == [op |-> NULL, cnt |-> 0]

Scheduled(n) == scheduled[n] # NONE

(***************************************************************************)
(* The templates are built before scheduling by calls                      *)
(* setResourceUse(opName, cycle, resIndex), one per busy resource line of  *)
(* an operation's pipeline.  A call is << opName, cycle, resIndex >>; the  *)
(* MC modules give Template and OpOrder as the result of their calls.     *)
(***************************************************************************)
\* setResourceUse(): the first call for an operation appends an empty
\* table of MaxLat rows; the line is then marked busy in `cycle`.  The
\* range test lets cycle = maximalLatency_ through.
SetResourceUse(st, call) ==
  LET op == call[1]
      c == call[2]
      known == op \in DOMAIN st.supported
      idx == IF known THEN st.supported[op] ELSE Len(st.pipelines) + 1
      pipes == IF known THEN st.pipelines
               ELSE Append(st.pipelines, [i \in 0 .. MaxLat - 1 |-> {}])
  IN IF c > MaxLat \/ c < 0 \/ call[3] \notin Res
       THEN [st EXCEPT !.err = "InvalidData"]
       ELSE [st EXCEPT !.supported = IF known THEN @ ELSE @ @@ (op :> idx),
                       !.pipelines = [pipes EXCEPT ![idx][c] = @ \cup {call[3]}]]

\* The state after a sequence of setResourceUse calls.
ResourceUse(calls) ==
  FoldLeft(SetResourceUse, [supported |-> << >>, pipelines |-> << >>, err |-> NONE], calls)

\* operationPipelines_ by operation name, and the operations in the order of
\* operationPipelines_ (the order isAvailable scans them).
TemplateOf(calls) ==
  LET st == ResourceUse(calls)
  IN [op \in DOMAIN st.supported |-> st.pipelines[st.supported[op]]]
OpOrderOf(calls) ==
  LET st == ResourceUse(calls)
  IN [i \in 1 .. Len(st.pipelines) |-> CHOOSE op \in DOMAIN st.supported : st.supported[op] = i]

(***************************************************************************)
(* Derived sizes.  The vectors are kept trimmed to their last non-empty    *)
(* entry, so size() is one past the highest used cycle.                    *)
(***************************************************************************)
HighPlusOne(S) == IF S = {} THEN 0 ELSE Max(S) + 1
\* operandsWriten_.size()
OpCount == HighPlusOne({ i \in Cycles : operandsWriten[i] # NULL })
\* ExecutionPipelineResource::size()
size == HighPlusOne({ i \in PipeCycles : fuExecutionPipeline[i] # {} })

(***************************************************************************)
(* isAvailable(cycle): some supported operation could start in `cycle`.   *)
(* The scan over an operation's template rows returns true at the first   *)
(* row beyond size() while no conflict was found; after a conflict it     *)
(* keeps indexing fuExecutionPipeline_[cycle+i], also past the vector's    *)
(* end (pipeLen), whenever the template row is not empty.  The result      *)
(* records the answer and whether such a read happened.                    *)
(***************************************************************************)
Line(k) == IF k < pipeLen THEN fuExecutionPipeline[k] ELSE {}

IsAvailableScan(c) ==
  LET row(op, acc, i) ==
        IF acc.done THEN acc
        ELSE IF c + i >= size /\ ~acc.fc THEN [acc EXCEPT !.done = TRUE, !.res = TRUE]
        ELSE [acc EXCEPT !.fc  = @ \/ Template[op][i] \cap Line(c + i) # {},
                         !.oob = @ \/ (Template[op][i] # {} /\ c + i >= pipeLen)]
      rows == [k \in 1 .. MaxLat |-> k - 1]
      opStep(acc, op) ==
        IF acc.done THEN acc
        ELSE LET a == FoldLeft(LAMBDA x, i : row(op, x, i), [acc EXCEPT !.fc = FALSE], rows)
             IN IF ~a.done /\ ~a.fc THEN [a EXCEPT !.done = TRUE, !.res = TRUE] ELSE a
      start == [done |-> FALSE, res |-> FALSE, fc |-> FALSE, oob |-> FALSE]
  IN IF c >= size /\ c >= OpCount THEN [start EXCEPT !.res = TRUE]
     ELSE IF c < OpCount /\ operandsWriten[c] # NULL THEN start
     ELSE FoldLeft(opStep, start, OpOrder)

\* isInUse(cycle): an operand is recorded in the cycle, a result is read in
\* it, or some pipeline line is busy in it.  Every row of
\* fuExecutionPipeline_ has numberOfResources_ entries, so the "missing
\* resources" error is not raised.
IsInUse(c) ==
  \/ c < OpCount /\ operandsWriten[c] # NULL
  \/ resultRead[c].op # NULL
  \/ c < size /\ fuExecutionPipeline[c] # {}

\* Fault variant: resultWriten_ is scanned where resultRead_ should be.
HighestKnownCycleNoReads ==
  LET top(S) == IF S = {} THEN -1 ELSE Max(S)
  IN Max({ top({ i \in Cycles : operandsWriten[i] # NULL }),
           top({ i \in ResCycles : resultWriten[i].op # NULL }),
           size - 1 })

\* highestKnownCycle(): the last non-empty index of operandsWriten_,
\* resultWriten_ and resultRead_, and size() - 1, whichever is highest.
HighestKnownCycle ==
  LET top(S) == IF S = {} THEN -1 ELSE Max(S)
  IN Max({ top({ i \in Cycles : operandsWriten[i] # NULL }),
           top({ i \in ResCycles : resultWriten[i].op # NULL }),
           top({ i \in ResCycles : resultRead[i].op # NULL }),
           size - 1 })

\* findRange(): closest cycles of other scheduled inputs of the same
\* operation before and after `c`, defaulting to `c`.
FindRange(c, n) ==
  LET others == { scheduled[m] : m \in { m \in InputSet(DstOp(n)) : Scheduled(m) } }
      before == { x \in others : x < c }
      after  == { x \in others : x > c }
  IN << IF before = {} THEN c ELSE Max(before),
        IF after = {} THEN c ELSE Min(after) >>

\* The opcode recorded at the latest cycle at or before `c`.
RecordedOpcode(c) ==
  LET rec == { i \in 0 .. c : opcodeSettingCycle[i] # NONE }
  IN IF rec = {} THEN NONE ELSE opcodeSettingCycle[Max(rec)]

\* The operation canAssign() tests a trigger with: the opcode it sets,
\* else the hint operation overridden by an earlier recorded opcode.
CanAssignOpName(c, n) ==
  IF OpcodeSetting[n] THEN OpOf[DstOp(n)]
  ELSE IF RecordedOpcode(c) # NONE THEN RecordedOpcode(c)
  ELSE OpOf[DstOp(n)]

\* The operation assign() starts: the opcode it sets, else the recorded one.
AssignOpName(c, n) ==
  IF OpcodeSetting[n] THEN OpOf[DstOp(n)] ELSE RecordedOpcode(c)

\* Fault variant: the collision test starts at the second template row.
TriggerFitsFromOne(c, n) ==
  LET op == CanAssignOpName(c, n)
  IN \A i \in 1 .. (MaxLat - 1) :
       c + i < size => Template[op][i] \cap fuExecutionPipeline[c + i] = {}

\* canAssign() for a triggering move: the template does not collide with
\* any line already busy within size().
TriggerFits(c, n) ==
  LET op == CanAssignOpName(c, n)
  IN \A i \in 0 .. (MaxLat - 1) :
       c + i < size => Template[op][i] \cap fuExecutionPipeline[c + i] = {}

\* Fault variant: only the move's own cycle is tested, not the whole range.
CanAssignOperandAtCycleOnly(c, n) ==
  /\ c < OpCount => operandsWriten[c] \in {DstOp(n), NULL}
  /\ IsTrigger[n] => TriggerFits(c, n)

\* canAssign() for an input move: every cycle of the operation's operand
\* range is free or already its own; a trigger must also fit the pipeline.
CanAssignOperand(c, n) ==
  LET rg == FindRange(c, n)
  IN /\ \A i \in rg[1] .. rg[2] :
          i < OpCount => operandsWriten[i] \in {DstOp(n), NULL}
     /\ IsTrigger[n] => TriggerFits(c, n)

\* MoveNode::earliestResultReadCycle()
EarliestResultReadCycle(r) ==
  LET t == TriggerOf(SourceOf[r])
  IN IF Scheduled(t) THEN scheduled[t] + Latency[r] ELSE IntMax

\* nextResultCycle(): first cycle from `from` where another operation's
\* result is written.
NextResultCycle(from, r) ==
  LET hits == { i \in ResCycles : /\ i >= from
                                  /\ resultWriten[i].cnt > 0
                                  /\ resultWriten[i].op # SourceOf[r] }
  IN IF hits = {} THEN IntMax ELSE Min(hits)

\* Fault variant: the test that this result's write would overwrite another
\* operation's unread result is missing.
CanAssignResultNoOverwriteCheck(c, r) ==
  LET ready == EarliestResultReadCycle(r)
  IN /\ ready # IntMax => c >= ready
     /\ c < NextResultCycle(ready, r)

\* canAssign() for a result read: not before the result is ready, not at
\* or after another result overwrites it, and its own write must not
\* overwrite another operation's result that is read later.
CanAssignResult(c, r) ==
  LET ready == EarliestResultReadCycle(r)
      other == NextResultCycle(ready, r)
      reads == { i \in ResCycles : i >= ready /\ resultRead[i].cnt > 0 }
  IN /\ ready # IntMax => c >= ready
     /\ c < other
     /\ reads # {} =>
          LET i == Min(reads)
          IN ~(i < other /\ resultRead[i].op # SourceOf[r])

\* Record one more user of a slot; the first user becomes its owner.
AddUse(v, i, p) ==
  [v EXCEPT ![i] = IF @.op = NULL THEN [op |-> p, cnt |-> 1]
                   ELSE [@ EXCEPT !.cnt = @ + 1]]
\* Drop one user of a slot; the owner is cleared when none is left.
DropUse(v, i) ==
  [v EXCEPT ![i] = IF @.cnt = 1 THEN EmptySlot ELSE [@ EXCEPT !.cnt = @ - 1]]

-----------------------------------------------------------------------------
Init ==
  /\ scheduled = [n \in Nodes |-> NONE]
  /\ operandsWriten = [i \in Cycles |-> NULL]
  /\ resultRead = [i \in ResCycles |-> EmptySlot]
  /\ resultWriten = [i \in ResCycles |-> EmptySlot]
  /\ storedResultCycles = [r \in OutNodes |-> NONE]
  /\ opcodeSettingCycle = [i \in Cycles |-> NONE]
  /\ fuExecutionPipeline = [i \in PipeCycles |-> {}]
  /\ pipeLen = 0
  /\ err = NONE

\* assign(cycle, node, source=true) for a result read.
AssignResult(r, c) ==
  LET ready == EarliestResultReadCycle(r)
      at    == IF ready = IntMax THEN c ELSE ready
  IN /\ ~Scheduled(r)
     /\ TopDown => Scheduled(TriggerOf(SourceOf[r]))
     /\ CanAssignResult(c, r)
     /\ resultRead' = AddUse(resultRead, c, SourceOf[r])
     /\ resultWriten' = AddUse(resultWriten, at, SourceOf[r])
     /\ storedResultCycles' = [storedResultCycles EXCEPT ![r] = at]
     /\ scheduled' = [scheduled EXCEPT ![r] = c]
     /\ UNCHANGED << operandsWriten, opcodeSettingCycle,
                     fuExecutionPipeline, pipeLen, err >>

\* assign(cycle, node, source=false) for an input move.  The operand range
\* is claimed; a trigger then ORs its template into the pipeline and records
\* the opcode (std::map::insert keeps an existing record).
AssignInput(n, c) ==
  LET rg == FindRange(c, n)
      ow == [i \in Cycles |-> IF i \in rg[1] .. rg[2] THEN DstOp(n)
                              ELSE operandsWriten[i]]
      op == AssignOpName(c, n)
  IN /\ ~Scheduled(n)
     /\ CanAssignOperand(c, n)
     /\ operandsWriten' = ow
     /\ scheduled' = [scheduled EXCEPT ![n] = c]
     /\ IF IsTrigger[n] /\ op = NONE
          THEN /\ err' = "NoOpcodeBeforeTrigger"
               /\ UNCHANGED << opcodeSettingCycle, fuExecutionPipeline, pipeLen >>
        ELSE IF IsTrigger[n]
          THEN /\ fuExecutionPipeline' =
                    [i \in PipeCycles |->
                       IF i - c \in 0 .. (MaxLat - 1)
                         THEN fuExecutionPipeline[i] \cup Template[op][i - c]
                         ELSE fuExecutionPipeline[i]]
               /\ pipeLen' = IF c + MaxLat > pipeLen THEN c + MaxLat ELSE pipeLen
               /\ opcodeSettingCycle' =
                    IF opcodeSettingCycle[c] = NONE
                      THEN [opcodeSettingCycle EXCEPT ![c] = op]
                      ELSE opcodeSettingCycle
               /\ UNCHANGED err
        ELSE UNCHANGED << opcodeSettingCycle, fuExecutionPipeline, pipeLen, err >>
     /\ UNCHANGED << resultRead, resultWriten, storedResultCycles >>

\* Fault variant: the read counter is decremented at the write cycle.
UnassignResultSwapped(r) ==
  /\ Scheduled(r)
  /\ resultWriten' = DropUse(resultWriten, storedResultCycles[r])
  /\ resultRead' = DropUse(resultRead, storedResultCycles[r])
  /\ storedResultCycles' = [storedResultCycles EXCEPT ![r] = NONE]
  /\ scheduled' = [scheduled EXCEPT ![r] = NONE]
  /\ UNCHANGED << operandsWriten, opcodeSettingCycle,
                  fuExecutionPipeline, pipeLen, err >>

\* unassign(cycle, node, source=true) for a result read.
UnassignResult(r) ==
  LET c == scheduled[r]
      at == storedResultCycles[r]
  IN /\ Scheduled(r)
     /\ resultWriten' = DropUse(resultWriten, at)
     /\ resultRead' = DropUse(resultRead, c)
     /\ storedResultCycles' = [storedResultCycles EXCEPT ![r] = NONE]
     /\ scheduled' = [scheduled EXCEPT ![r] = NONE]
     /\ UNCHANGED << operandsWriten, opcodeSettingCycle,
                     fuExecutionPipeline, pipeLen, err >>

\* The operand cycles unassign() releases: findRange() narrowed by one at
\* each end for every other scheduled input found at that end, in input
\* order.
ReleasedRange(c, n) ==
  LET step(acc, m) ==
        IF Scheduled(m) /\ m # n
          THEN << IF scheduled[m] = acc[1] THEN acc[1] + 1 ELSE acc[1],
                  IF scheduled[m] = acc[2] THEN acc[2] - 1 ELSE acc[2] >>
          ELSE acc
  IN FoldLeft(step, FindRange(c, n), InputsOf[DstOp(n)])

\* unassign(cycle, node, source=false) for an input move.  The range is
\* released only if the node was first or last of the inputs; a trigger
\* then clears its template (AND-NOT) and erases the opcode record.
UnassignInput(n) ==
  LET c   == scheduled[n]
      rel == ReleasedRange(c, n)
      release == rel[1] < OpCount /\ (rel[1] = c \/ rel[2] = c)
      ow  == IF release
               THEN [i \in Cycles |-> IF i \in rel[1] .. rel[2] THEN NULL
                                      ELSE operandsWriten[i]]
               ELSE operandsWriten
      rec == opcodeSettingCycle[c]
      op  == IF OpcodeSetting[n] THEN OpOf[DstOp(n)] ELSE rec
  IN /\ Scheduled(n)
     /\ TopDown /\ IsTrigger[n] =>
          \A r \in OutNodes : SourceOf[r] = DstOp(n) => ~Scheduled(r)
     /\ scheduled' = [scheduled EXCEPT ![n] = NONE]
     /\ UNCHANGED << resultRead, resultWriten, storedResultCycles >>
     /\ CASE c >= pipeLen /\ c >= OpCount ->
               /\ err' = "UnassignOutOfScope"
               /\ UNCHANGED << operandsWriten, opcodeSettingCycle,
                               fuExecutionPipeline, pipeLen >>
          [] release /\ rel[2] >= OpCount ->
               \* operandsWriten_.at(lastCycle) beyond the vector
               /\ err' = "OutOfRange"
               /\ UNCHANGED << operandsWriten, opcodeSettingCycle,
                               fuExecutionPipeline, pipeLen >>
          [] ~IsTrigger[n] ->
               /\ operandsWriten' = ow
               /\ UNCHANGED << opcodeSettingCycle, fuExecutionPipeline,
                               pipeLen, err >>
          [] rec = NONE \/ op # rec ->
               /\ operandsWriten' = ow
               /\ err' = "OpcodeNotRecorded"
               /\ UNCHANGED << opcodeSettingCycle, fuExecutionPipeline, pipeLen >>
          [] OTHER ->
               /\ operandsWriten' = ow
               /\ fuExecutionPipeline' =
                    [i \in PipeCycles |->
                       IF i - c \in 0 .. (MaxLat - 1)
                         THEN fuExecutionPipeline[i] \ Template[op][i - c]
                         ELSE fuExecutionPipeline[i]]
               /\ opcodeSettingCycle' = [opcodeSettingCycle EXCEPT ![c] = NONE]
               /\ UNCHANGED << pipeLen, err >>

Next ==
  /\ err = NONE
  /\ \/ \E n \in InNodes, c \in Cycles : AssignInput(n, c)
     \/ \E r \in OutNodes, c \in Cycles : AssignResult(r, c)
     \/ \E n \in InNodes : UnassignInput(n)
     \/ \E r \in OutNodes : UnassignResult(r)

Spec == Init /\ [][Next]_vars

-----------------------------------------------------------------------------
TypeOK ==
  /\ scheduled \in [Nodes -> Cycles \cup {NONE}]
  /\ operandsWriten \in [Cycles -> POs \cup {NULL}]
  /\ resultRead \in [ResCycles -> Slot]
  /\ resultWriten \in [ResCycles -> Slot]
  /\ storedResultCycles \in [OutNodes -> ResCycles \cup {NONE}]
  /\ opcodeSettingCycle \in [Cycles -> Ops \cup {NONE}]
  /\ fuExecutionPipeline \in [PipeCycles -> SUBSET Res]
  /\ pipeLen \in 0 .. (MaxCycle + MaxLat)

\* The cycles from the first to the last scheduled input of `p`: the span in
\* which the unit's operand registers hold p's operands.
OperandWindow(p) ==
  LET cs == { scheduled[m] : m \in { m \in InputSet(p) : Scheduled(m) } }
  IN IF cs = {} THEN {} ELSE Min(cs) .. Max(cs)

\* The cycles of `t`'s pipeline template in which resource line `l` is busy.
TriggerOp(t) == opcodeSettingCycle[scheduled[t]]
Claims(t, i, l) ==
  /\ i - scheduled[t] \in 0 .. (MaxLat - 1)
  /\ l \in Template[TriggerOp(t)][i - scheduled[t]]

ScheduledTriggers == { t \in InNodes : IsTrigger[t] /\ Scheduled(t) }

(***************************************************************************)
(* Operand isolation (assign/canAssign/unassign of input moves): no input  *)
(* of one operation is scheduled inside another operation's operand window *)
(* on this unit, so no operand is overwritten before its trigger.          *)
(***************************************************************************)
OperandWindowsDisjoint ==
  \A p, q \in POs :
    p # q => \A m \in InputSet(q) :
               Scheduled(m) => scheduled[m] \notin OperandWindow(p)

(***************************************************************************)
(* Pipeline bookkeeping (trigger assign ORs, unassign AND-NOTs, canAssign  *)
(* tests collisions): every scheduled trigger has its opcode recorded, no  *)
(* resource line is claimed by two triggers in one cycle, and the line is  *)
(* busy in fuExecutionPipeline_ exactly when some scheduled trigger claims *)
(* it.                                                                     *)
(***************************************************************************)
PipelineExact ==
  /\ \A t \in ScheduledTriggers : TriggerOp(t) \in Ops
  /\ \A i \in PipeCycles, l \in Res :
       LET claimants == { t \in ScheduledTriggers : Claims(t, i, l) }
       IN /\ Cardinality(claimants) <= 1
          /\ (l \in fuExecutionPipeline[i] <=> claimants # {})

\* The cycle the result read by `r` is really written: trigger + latency.
ReadyAt(r) == scheduled[TriggerOf(SourceOf[r])] + Latency[r]
ReadsWithTrigger ==
  { r \in OutNodes : Scheduled(r) /\ Scheduled(TriggerOf(SourceOf[r])) }

(***************************************************************************)
(* Single-buffered result (canAssign/assign of result reads): a result is  *)
(* read no earlier than it is written, and no other operation's result is  *)
(* written between the write and the read.                                 *)
(***************************************************************************)
ResultRegisterSafe ==
  \A r \in ReadsWithTrigger :
    /\ scheduled[r] >= ReadyAt(r)
    /\ \A s \in ReadsWithTrigger :
         SourceOf[s] # SourceOf[r] =>
           ReadyAt(s) \notin ReadyAt(r) .. scheduled[r]

(***************************************************************************)
(* Opcode persistence (opcode lookup of assign): the operation recorded    *)
(* for every scheduled trigger is the one the opcode register holds in its *)
(* cycle, set by the latest scheduled opcode-setting trigger at or before  *)
(* it.                                                                     *)
(***************************************************************************)
OpcodeRegister(c) ==
  LET setters == { t \in ScheduledTriggers : OpcodeSetting[t] /\ scheduled[t] <= c }
  IN IF setters = {} THEN NONE
     ELSE OpOf[DstOp(CHOOSE t \in setters :
                       \A u \in setters : scheduled[u] <= scheduled[t])]
OpcodeInForce ==
  \A t \in ScheduledTriggers : TriggerOp(t) = OpcodeRegister(scheduled[t])

(***************************************************************************)
(* The queries a broker asks of the unit agree with the moves placed on   *)
(* it: isInUse(cycle) is true in the cycle of every scheduled move of the  *)
(* unit, and false in every cycle after highestKnownCycle(), also after    *)
(* moves sharing a cycle or an operand window were unassigned.             *)
(***************************************************************************)
InUseWithinKnownCycles ==
  /\ \A n \in Nodes : Scheduled(n) => IsInUse(scheduled[n])
  /\ \A c \in Cycles : c > HighestKnownCycle => ~IsInUse(c)

(***************************************************************************)
(* isAvailable(cycle), which a broker may ask of the unit for any cycle it *)
(* considers, only reads fuExecutionPipeline_ within the vector.           *)
(***************************************************************************)
IsAvailableInBounds == \A c \in Cycles : ~IsAvailableScan(c).oob

=============================================================================
