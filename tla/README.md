# TLA+ models of the TCE scheduler's resource model

These modules model the parts of TCE (the TTA-based Co-design Environment) that
have real state and protocol in this source tree:

- the instruction scheduler's function-unit pipeline resource, which records
  operand writes, triggers, pipeline occupancy and result registers;
- the backtracking search that assigns resources to a move, one resource broker
  at a time, and an abstract specification of what it promises;
- the transaction bookkeeping of `SQLiteConnection` (the HDB/IDF database layer);
- the compiler-plugin cache of `LLVMBackend`, shared by concurrent `tcecc`
  processes;
- `ProcedurePass::copyCfgToProcedure`, which copies the scheduled basic blocks
  of a control flow graph back into their procedure and moves the jump targets;
- the scheduler's `MoveNode` objects: their lifetime, their links to the
  ProgramOperations they belong to, and the ownership of the Move each wraps;
- `ProcessorGenerator::generateProcessor`, which validates a machine and
  writes a processor's VHDL, with `BlockSourceCopier::copy`, which copies the
  VHDL sources of its blocks into the output directory, as a component;
- `PlatformIntegrator` and `SOPCBuilderFileGenerator`, which build an FPGA
  project from that output directory.

The rest of the tree is GUI, code generation, data classes and I/O (see
"Not modelled" below).

## 1. Inventory

### Components and their interaction

| Part | Source | State | Operations |
|---|---|---|---|
| ExecutionPipelineResource (EPR) | `src/tce/src/applibs/Scheduler/ResourceModel/ExecutionPipelineResource.cc` | `operandsWriten_` (cycle → ProgramOperation), `resultRead_` / `resultWriten_` (cycle → ⟨operation, count⟩), `storedResultCycles_` (result move → write cycle), `opcodeSettingCycle_` (cycle → opcode name, a `std::map`), `fuExecutionPipeline_` (cycle → busy resource lines) | `canAssign`, `assign`, `unassign` for operand, trigger and result moves; `findRange`, `nextResultCycle`, `size`, `isInUse`, `isAvailable`, `setResourceUse` |
| MoveNode | `.../ProgramDependenceGraph/MoveNode.cc` | `move_`, `moveOwned_`, `srcOp_`, `dstOp_`, `placed_`, `cycle_` | the constructors, `copy`, the destructor, `setSourceOperation`/`setDestinationOperation` and their unsets, `setMoveOwned`/`unsetMoveOwned`, `setCycle`, `unsetCycle`, `inSameOperation` and the move-kind queries |
| AssignmentPlan | `.../ResourceManager/AssignmentPlan.cc` | `applicableAssignments_`, `currentBroker_`, `cycle_`, `node_`, `resourceFound_` | `setRequest`, `isTestedAssignmentPossible`, `tryNextAssignment`, `advance`, `backtrack`, `resetAssignments()`, `resetAssignments(node)`, `clear` |
| PendingAssignment | `.../ResourceManager/PendingAssignment.cc` | `lastTriedAssignment_`, `availableResources_` (a lazily fetched, sorted candidate list) | `setRequest`, `isAssignmentPossible`, `tryNext`, `undoAssignment`, `forget` |
| InputPSocketBroker | `.../ResourceManager/InputPSocketBroker.cc` | `assignedResources_` (move → resource) | `allAvailableResources`, `isAlreadyAssigned`, `assign`, `unassign` |
| SegmentResource | `.../ResourceModel/SegmentResource.cc` | a per-cycle in-use record | `isInUse`, `canAssign` (with related-resource check), `assign` (throws if not assignable), `unassign` (throws if not in use) |
| Scheduler driver (ResourceManager) | not in this tree | — | asks the plan for an assignment of a move in a cycle, and unassigns it later |
| SQLiteConnection | `src/tce/src/tools/SQLiteConnection.cc` | `transactionActive_`, the sqlite3 handle (and, in the environment, SQLite's own transaction and statements) | `updateQuery`/`DDLQuery`, `beginTransaction`, `commit`, `rollback`, destructor |
| ProcedurePass / BasicBlockNode | `.../Algorithms/ProcedurePass.cc`, `.../ControlFlowGraph/BasicBlockNode.cc` | the procedure's instruction list, the instruction reference manager, the CFG nodes (`entry_`, `exit_`, original address range, scheduled `BasicBlock`) | `copyCfgToProcedure`; `isNormalBB`, `hasOriginalAddress`, the two constructors |
| BlockSourceCopier | `src/tce/src/applibs/ProGe/BlockSourceCopier.cc` | `copiedFiles_`, the destination directory | `copy` (the FU, RF and IU file loops through `copyFiles`, the `gcu_ic` directory and its three files) |
| ProcessorGenerator | `src/tce/src/applibs/ProGe/ProcessorGenerator.cc` | the step of `generateProcessor`, the output directory, the copier's state | `generateProcessor` (`validateMachine`, plugin `verifyCompatibility`, `checkIULatencies`, netlist generation, `gcu_ic` creation, plugin and netlist output, `copier.copy`, `generateGlobalsPackage`); `iMemAddressWidth`, `iMemWidth` |
| PlatformIntegrator, SOPCBuilderFileGenerator | `src/tce/src/applibs/PlatformIntegrator/*.cc` | the output directory, the project's HDL file list, the component file | constructor (`createOutputDir`), `createMemories`/`generateMemory`, `writeNewToplevel`, `addProGeFiles`/`progeOutputHdlFiles`, `writeProjectFiles` (`countAvalonMMMasters`, `createInterfaces`, `handleAvalonSignal`) |
| LLVMBackend plugin cache | `src/tce/src/applibs/LLVMBackend/LLVMBackend.cc` | `cachePath_` files shared by processes, a temporary directory per call | `compile` → `createPlugin`: `pluginFilename`, cache test and load, generation, C++ compile, load |

The scheduler parts interact as follows (SQLiteConnection and the plugin cache
stand alone; each is used by its own tools):

1. The scheduler's resource manager builds one AssignmentPlan with a PendingAssignment per broker.
2. For each move and cycle, the manager drives a depth-first search. It tries the current broker's next candidate and advances. When a broker runs out of candidates, it backtracks, and it gives up at the first broker.
3. Each broker assigns its resource through SegmentResource (socket, bus, …) or through ExecutionPipelineResource (function units).
4. A broker's candidates depend on what the earlier brokers chose, through the resources' related groups.

### Hard behaviours (hazards)

PROJECT.json "hazards" lists each hazard at its source line. In short:

- **EPR, sequences of assign/unassign.** Unassigning an operand in the middle of its operation's window frees a cycle inside the window. A result assigned before its trigger is recorded provisionally at the read cycle. A trigger that does not set the opcode resolves its opcode once, at assign time. `std::map::insert` does not replace an opcode record.
- **EPR canAssign versus assign.** canAssign falls back to a "hint" opcode that assign does not use, and assign throws only after writing `operandsWriten_`. The model reaches this throw only with a trigger that neither sets the opcode nor follows one that does; the epr_core bounds never produce that trigger, so no run checks it.
- **EPR numeric edges.** `isAvailable` indexes `fuExecutionPipeline_[cycle+i]` beyond `size()`.
- **SQLite.** `transactionActive_` is a copy of SQLite's state that goes stale when SQLite rolls a transaction back by itself; a step that throws skips `finalizeQuery`, and the destructor ignores `sqlite3_close`'s result.
- **Plugin cache.** Two processes share the cache file name; the compiler writes it in place, so another process can see and load an incomplete file; a killed process leaves that file behind.
- **ProcedurePass.** Blocks are copied in node order while each deletes by its place holder's current address; references must follow the copies; a block that copies nothing dereferences NULL if it is a jump target; a wrapped node's `entry_`/`exit_` are uninitialized.
- **MoveNode.** `copy()` must register the copy with the original's operations and give it its own Move; the destructor must unlink the node from its operations and delete an owned Move exactly once; ownership passes between the node and the resource manager's instructions.
- **BlockSourceCopier and the ProGe flow.** Files are de-duplicated by absolute path but written under their file name only, so two blocks' files with the same name overwrite each other; a copy that fails midway leaves a partial directory; the integrator lists whatever ProGe's output directory holds, stale files of an earlier run included.
- **Plan.** Candidate lists are cached while earlier choices change. Termination depends on `backtrack` keeping the earlier broker's cursor. Undo must release every segment record.

### Properties per component

- **EPR:**
  - operand windows of different operations never overlap;
  - the pipeline is exactly the union of the scheduled triggers' templates;
  - no result register is overwritten before its read;
  - the opcode a trigger runs is the one in force at its cycle;
  - `isInUse` never reports a cycle beyond `highestKnownCycle`.
- **MoveNode:** the operations list exactly the live nodes pointing at them; every live Move has exactly one owner and none is deleted twice; `inSameOperation` agrees with the operations' lists.
- **ProGe to FPGA project:** once the SOPC Builder component file is written, its file list names every file ProGe produced (block sources, `gcu_ic`, netlist, globals package), each with the contents it was written with.
- **Plan:**
  - the search answers exactly: it returns the first complete assignment in candidate order, or "none" only when none exists;
  - nothing leaks after an answer or an unschedule;
  - every request is answered;
  - the plan implements `AbstractAssignment` (refinement).
- **SQLiteConnection:** the flag matches SQLite's transaction state; an update inside a transaction is not durable before its commit.
- **ProcedurePass:** the rebuilt procedure is the original one with each block's range replaced by its scheduled code, whatever the node order; every reference follows its instruction.
- **LLVMBackend:** a returned plugin was built for the caller's machine; loading a plugin never aborts.

## 2. Plan

Built in this order, most important behaviour first:

1. `ExecutionPipelineResource` (done): the FU resource alone, under all interleavings of assign/unassign of a few moves, with `isAvailable` and `setResourceUse`'s operation order.
2. `AssignmentPlan` (done): the search over abstract brokers whose resources behave as SegmentResource records, with the driver loop from the design, `clear`, and a refinement of `AbstractAssignment` (done).
3. `SQLiteConnection` and `LLVMBackend` (done): the two pieces of tool code with a protocol (transactions; a shared file cache).
4. `MoveNode` and `BlockSourceCopier` (done): object lifetime and ownership in the scheduler's program representation; the generator's file copy.
5. `ProcessorGenerator` and `PlatformIntegrator` (done): the ProGe flow around the copier, composed by INSTANCE, through to the FPGA project's file list.
6. Next: an FU broker module that composes `AssignmentPlan` with `ExecutionPipelineResource`. Its resources are an EPR instance per unit, so the search's undo must restore the EPR vectors.
7. Next: an abstract "resource table" specification (cycle → set of holders) that both the SegmentResource records and EPR refine.
8. Later: `ReservationTableFUResourceConflictDetector` from the simulator, a second FU conflict model to compare with EPR, once its inline implementation (`.icc`, not in this snapshot) is available; `SQLiteConnection::query()` and its result sets.

## 3. Modules

### ExecutionPipelineResource.tla

The state is the code's vectors, as functions over a bounded cycle range:

| Variable | Code |
|---|---|
| `operandsWriten`, `resultRead`, `resultWriten`, `storedResultCycles`, `opcodeSettingCycle`, `fuExecutionPipeline` | the vector or map of the same name |
| `pipeLen` | the vector's length, which only grows |
| `scheduled` | the move's cycle |
| `err` | an exception |

The actions are:

| Action | Code |
|---|---|
| `AssignResult` | `assign(..., source=true)` |
| `AssignInput` | `assign(..., source=false)` |
| `UnassignResult` | `unassign` for a result |
| `UnassignInput` | `unassign` for an input |

Each assign is guarded by the `canAssign` that the broker checks first (`CanAssignResult`, `CanAssignOperand`, `TriggerFits`). Code that throws sets `err`, and `Next` stops there.

Data is abstracted as follows:

- an operation is a model value;
- a pipeline template is a function from the latency row to a set of resource lines;
- an opcode name is a string constant.

The constant `TopDown` encodes the driver's order: a trigger is placed before, and removed after, the result reads of its operation. All runs keep it TRUE; without that order a result read may precede its write (the ordering hazard at line 193).

The MC modules do not write the templates by hand: `SetResourceUse` folds the machine's `setResourceUse(opName, cycle, resource)` calls into a template, as the code's constructor does. `IsInUse(c)` is `isInUse(cycle)` and `HighestKnownCycle` is `highestKnownCycle()`, which scans every vector.

`IsAvailableScan(c)` is `isAvailable(cycle)`: it folds over the operations in `setResourceUse` order (`OpOrder`) and over each template's rows, and records whether it read `fuExecutionPipeline_[c+i]` at an index at or beyond the vector's length (`oob`), the read at line 129 that is guarded only by `size()`, not by the vector's length.

### AssignmentPlan.tla

The variables correspond to the code as follows:

| Variable | Code |
|---|---|
| `appl` | `applicableAssignments_` |
| `cur` | `currentBroker_` |
| `found` | `resourceFound_` |
| `lastTried` | `lastTriedAssignment_` |
| `avail` | `availableResources_` |
| `assigned` | the broker's `assignedResources_` |
| `inUse` | the SegmentResource records |
| `placed`, `cycle` | the MoveNode |

There is one action per public call, and each error path sets `err`. The PendingAssignment calls are operators of the broker they apply to (`IsAssignmentPossible(b, possible)`, `TryNext(b, u)`), and `AssignmentPlan`'s calls apply them to `CurrentBroker`; `FirstBroker` and `LastBroker` are `firstBroker()` and `lastBroker()`. The broker and segment helpers (`IsInUse`, `SegmentAssign`, `SegmentUnassign`, `BrokerAssign`, `BrokerUnassign`, `IsAlreadyAssigned`) and MoveNode's `UnsetCycle` are operators used by the actions. `Clear` is `AssignmentPlan::clear()`: it resets the search cursor and cached candidates and leaves the brokers' records alone; the driver calls it (`DClear`) between requests.

`BuildResources` and `ResourceLinks` are InputPSocketBroker's `buildResources()` and `setupResourceLinks()`: MC_AssignmentPlan computes the first broker's resources and its links from a small machine (a socket direction map, socket ports, FU resources and segments) and ASSUMEs they agree with the literal relation the other brokers use. Brokers, resources, the related groups and the other moves' use (`PreBusy`) are constants. The candidate order (`availableResources_.sort()`, by use count and name) is abstracted to a fixed rank. The segment–FU pairs of `Related` stand for the checks the bus and FU brokers (not in the tree) make between their own choices; a SegmentResource's related groups hold only sockets (`validateRelatedGroups`), and the socket–segment pairs `ResourceLinks` builds respect that.

The caller, `DriverSpec`, is the search loop of the resource manager. It is not in this tree, so it is modelled from the design and marked spec_modelled. `advance()`'s check reads `resourceFound_`, which only `clear()` resets. The search loop is the only caller of `advance()`, and it advances only after a successful try, so that check never decides anything. No property is spent on it.

### AbstractAssignment.tla

What the search promises: a request for a cycle is answered in one step, with the first complete assignment in candidate order (`Grant`) or with "exhausted" when none exists (`Refuse`); the move holds the assignment until it is unscheduled (`Release`). `AssignmentPlan` ends with `Abstract == INSTANCE AbstractAssignment WITH ...`, mapping the driver's `pc` to `status`, the requested cycle (or, while idle, the cycle of the last answer) to `req`, the chosen resources to `holds` and `outcome` to `answer`; `plan_search` checks `AbstractSpec` as a property.

### SQLiteConnection.tla

| Variable | Code / environment |
|---|---|
| `transactionActive` | `transactionActive_` |
| `engineTx`, `txWork` | SQLite is inside a transaction; the updates done in it |
| `db` | updates durable in the file |
| `leaked` | statements prepared and never finalized |
| `open`, `destroyed` | the sqlite3 handle is open; the destructor has run |
| `issued`, `pending` | history: updates issued; updates issued inside the client's transaction and not yet ended |

A call is a set-valued operator over the record `Cur` (`UpdateQuery`, `Commit`, `Rollback`, `BeginTransaction`), built from `Step`, SQLite's result of stepping a statement, and the failure paths `PrepareFails` (no statement) and `StepFails` (throws before `finalizeQuery`). The actions `DoUpdate`, `DoBegin`, `DoEnd` and `Destroy` apply a result. SQLite's own failures are bounded by `MaxFailures`; `AbortErrors` lets an update fail with an error after which SQLite rolls the transaction back itself (SQLITE_FULL, IOERR, NOMEM).

### MoveNode.tla

| Variable | Code |
|---|---|
| `node` | the MoveNode object: not yet allocated, live, destroyed |
| `move`, `moveOwned` | `move_`, `moveOwned_` |
| `srcOp`, `dstOp` | `srcOp_`, `dstOp_` |
| `placed`, `cycle` | `placed_`, `cycle_` |
| `outputs`, `inputs` | the ProgramOperations' result and operand node lists |
| `moveSt`, `holder` | the Move object's allocation, and the Instruction holding it (original program, resource manager, none) |
| `err` | a Move deleted twice |

The actions are the constructors (`NewRefNode`, `NewEntryNode`), `Copy` (a new node and a new Move, owned by the copy, added to the original's operations), `Destroy` (unlink from both operations, delete the Move if owned), `LinkSource`/`LinkDestination` and `UnlinkSource`/`UnlinkDestination` (the operation adds or removes the node and sets the back-reference), `AssignMove`/`UnassignMove` (the resource manager puts the Move into an Instruction and clears `moveOwned_`, or takes it out and sets it), `SetCycle` and `UnsetCycle` (which throw, leaving the state unchanged, when already placed or not placed). The ProgramOperation side and the callers are not in the tree; their steps are modelled from spec.md and the method comments and marked spec_modelled.

`Destroy` follows the destructor's code (MoveNode.cc 81-86), which removes the node from its operations. The destructor's comment (line 77) says the opposite: "Does not unregister this movenode from ProgramOperations". `LinksConsistent` holds because of what the code does. Its mutant `DestroyKeepLinks` is the behaviour the comment describes, and it breaks the property. PROJECT.json records this as a spec_code_divergence finding on the movenode run: the comment is stale.

### BlockSourceCopier.tla

`pc`, `blk` and `idx` are the position in `copy()`: a file of a block (FU, RF and IU implementations, in that order), the `gcu_ic` directory, then the decompressor, ifetch and opcodes files. `copied` is `copiedFiles_`, and `dst` maps ⟨subdirectory, file name⟩ to the source whose contents it holds. `Abs` is the search-path lookup and `Base` is `FileSystem::fileOfPath`. `CopyFile` skips a file whose absolute path was copied before, otherwise copies it or throws `UnreachableStream`; `MakeGcuDir` and `CopyGcuFile` may throw `IOException`.

### ProcessorGenerator.tla

`step` is the position in `generateProcessor()`: validate, compat, iulat, netlist, gcudir, plugin, write, copy, globals, done. The copier is `BSC == INSTANCE BlockSourceCopier` over the same variables; while `step = "copy"` the generator's step `CopySources` is one step of `BSC!Next`, and `CopyDone` fires when the copier's `pc` is done. `ValidateMachine`, `IULatenciesOK`, `IMemAddressWidth` and `IMemWidth` translate the helpers of the same names; `RequiredBits` is `MathTools::requiredBits` (not in the tree, spec_modelled). Each step that can throw (`IllegalMachine`, `InvalidData`, `OutOfRange`, `IOException`) has that outcome as a disjunct, after which `Next` is disabled. The plugin, the netlist writer and `FileSystem` are not in the tree: their output is the named files `PluginFiles` and `NetlistFiles` with content `Generated(name)`. `Expected` is what the generated directory should hold: every file of the copier, the plugin, the netlist writer and the globals package, with the contents it was written with.

### PlatformIntegrator.tla

Composes `PG == INSTANCE ProcessorGenerator` with the integrator that reads its output. `Generate` is one step of `PG!Next`; when `generateProcessor` has returned (`step = "done"`), `istep` runs through the integrator: `CreateOutputDir` (the constructor's `createOutputDir()`), `CreateMemories` (`createMemories` and `generateMemory` for the instruction and, unless its type is NONE, the data memory; a failing memory stops the integrator after the files so far were added), `WriteNewToplevel` (the toplevel and, with netlist parameters, the params package; a missing toplevel throws), `AddProGeFiles` (`progeOutputHdlFiles`: the `gcu_ic` listing, skipped when the directory is missing, the `vhdl` listing, which throws when missing, and `vhdl/imem_mau_pkg.vhdl` when no listed file is that package), and `WriteProjectFiles` (`SOPCBuilderFileGenerator::writeProjectFiles`: InvalidData without an outgoing Avalon address port or for an Avalon port without FU name, IOException when the file cannot be opened, else the file list and `CreateInterfaces`). `hdlFiles` is the project file generator's file list, `out` the integrator's output directory, `sopc` the component file. The board integrator that calls these steps is not in the tree; they are taken in the order the constructor and the methods' dependencies give (spec_modelled `Generate` and `Next`). Memory generators, the netlist writer and `AvalonMMMasterInterface` are not in the tree: their answers are constants (`Imem`, `Dmem`, `HasParams`, `AvalonSignals`). `ProjectComplete` says that once the component file is written, its file list names every file in `PG!Expected` and each holds the contents it was written with.

### LLVMBackend.tla

Each process in `Procs` runs `compile()` up to `MaxCompiles` times. `pc` is its step in `createPlugin()`; `cache` maps each plugin file name to "absent", "partial" (the compiler is writing it) or the machine it was built for; `priv` is the file in the process's temporary directory (used when `UseCache` is FALSE); `got` is the machine of the plugin returned. `PluginFilename` is the pair (ADF length, ADF hash) the code formats as hex. The actions are `Start`, `CheckCache`, `Generate` (the eight generator commands, which fail or succeed as one), `CxxStart`/`CxxEnd` (the compiler writes the file in place), `LoadBuilt`, `Crash` (under `Crashes`) and `Finish`. A failed load is the code's `assert(false)`, the `aborted` step.

### ProcedurePass.tla

| Variable | Code |
|---|---|
| `order` | `cfg.node(0 .. nodeCount()-1)`, any injective order |
| `entry`, `exit` | `BasicBlockNode::entry_`, `exit_` |
| `proc` | the procedure's instructions |
| `ref` | the InstructionReferenceManager: reference → instruction |
| `placeHolder` | `placeHolders` |
| `pc`, `bbIndex`, `err` | the function's loop position and the exception thrown |

`CollectPlaceHolders` is the first loop (it throws for a normal-looking node with no original address); `CopyBlock` is one iteration of the second loop: delete the block's range after the place holder, insert `Copy(x)` for each scheduled instruction after the skipped ones (moving its references with `Replace`, irm.replace), move the place holder's references to the first copy and delete the place holder. Instructions are model values; `Init` fixes `entry`/`exit` by the constructor and chooses them freely for a node built by `BasicBlockNode(BasicBlock&)`, which leaves them uninitialized. `Rebuilt` (RECURSIVE, by original address) and `Moved` are the reference results.

## 4. Runs

| Run | Module / cfg | Expect | What it shows |
|---|---|---|---|
| epr_core | MC_EPR / MC_EPR.cfg | pass | TypeOK, OperandWindowsDisjoint, PipelineExact, ResultRegisterSafe, and InUseWithinKnownCycles hold for two operations (mul with a 2-cycle, 2-line template; add) each with an operand, an opcode-setting trigger and a result, over cycles 0..4 (4,804 states). |
| epr_operand_hole | MC_EPRThreeInputs | violation | a1@0, b1@1, t1@2, then unassigning b1 clears cycle 1, and a2 of the other operation is accepted there. |
| epr_stale_opcode | MC_EPROpcode / ..._OpcodeInForce.cfg | violation | t1 sets mul at 0; t2 (non-setting) at 2 runs mul; t1 is unassigned, and t2's pipeline still holds mul with no opcode in force. |
| epr_isavailable_oob | MC_EPR / MC_EPRIsAvailable.cfg | violation | After t1 at cycle 0 the pipeline vector has length 2, `size()` is larger, and `isAvailable(1)` reads `fuExecutionPipeline_[2]`. |
| plan_search | MC_AssignmentPlan / MC_AssignmentPlan.cfg | pass | TypeOK, SearchCorrect, NothingLeaked, SearchTerminates and the refinement AbstractSpec hold for three applicable brokers and one inapplicable broker, with two resources each, over cycles 0..2 (293 states). |
| sqlite_txn | MC_SQLiteConnection / MC_SQLiteConnection.cfg | pass | TypeOK, FlagMatchesEngine and NoDurableUncommitted hold for two updates and up to two SQLite failures (prepare, step, COMMIT busy) in any call order (509 states). |
| sqlite_auto_rollback | MC_SQLiteConnection / ..._Abort.cfg | violation | begin, an update fails with an error that makes SQLite roll back; transactionActive_ stays set, the next update autocommits, and it is durable before the client's commit. |
| procpass | MC_ProcedurePass / MC_ProcedurePass.cfg | pass | TypeOK, ProcedureRebuilt and RefsFollowCode hold for a five-instruction procedure with three blocks (one grown, one emptied by skipping, one shrunk), entry, exit and a wrapped node, in every node order (18,720 states). |
| llvm_plugin_cache | MC_LLVMBackend / MC_LLVMBackend.cfg | pass | TypeOK and PluginMatchesMachine hold for two processes, two machines with the same ADF length and different hashes, two compiles each, with crashes (11,601 states). |
| movenode | MC_MoveNode / MC_MoveNode.cfg | pass | TypeOK, LinksConsistent, MoveOwnedOnce and SameOperationAgrees hold for three node slots, three Moves (one of the original program) and two operations, in any order of construction, copy, linking, unlinking, hand-over to the resource manager, placement and destruction (400,516 states). |
| bsc_name_clash | MC_PlatformIntegrator / MC_PlatformIntegrator.cfg | violation | `ProjectComplete`: generateProcessor (with the copier as an instanced component), then the platform integrator and the SOPC Builder file. Two FU implementations in different HDB directories each have a file `add.vhdl`; both are copied to `vhdl/add.vhdl`, the second overwrites the first, and `copy()` returns with the first FU's source missing. |
| llvm_concurrent_load | MC_LLVMBackend / ..._Concurrent.cfg | violation | p1 starts compiling the plugin into the cache; p2 finds the file, loads the incomplete plugin, and hits assert(false). |

Each property of a passing run has a mutant in PROJECT.json: a plausible bug in a mapped definition that TLC catches with that property. Examples are the operand range test that looks at one cycle only, the pipeline collision test that starts at row 1, the last candidate never reported, and unassign that leaves the segment record in use.

### Bounds

- **EPR.** Two operations on one unit, cycles 0..4, templates of two rows, latencies 1 and 2. This is enough for:
  - operand windows to interleave (window length ≥ 2, so another operation's operand can fall strictly inside);
  - pipelines to collide in either row;
  - one result to be written between another's write and read.

  Three inputs are needed only for the middle-operand question, so that run uses its own module.
- **Plan.** The MC relations are chosen so that:
  - cycle 0 needs backtracking from the third broker to the first;
  - cycle 1 needs one backtrack;
  - cycle 2 has no solution.

  This exercises every branch of the search: found, backtrack at depth 1 and 2, and exhausted.
- **SQLite.** Two updates (each issued once) are enough for one to be inside a transaction while another is autocommitted; two failures let a transaction fail once and then be ended; three leaked statements bound the calls that fail at the step.
- **ProcedurePass.** Three normal blocks give every relative order of a block that grows, one that shrinks and one that copies nothing, so later blocks' deletions run at shifted addresses; references target a block start, a scheduled instruction and a start of another block. The wrapped node takes each of the four `entry_`/`exit_` values.
- **MoveNode.** Three node slots allow an original, its copy and a third node of another operation; two operations let a bypass node be linked to both; three Moves give the program's Move plus one Move per copy. The resource manager's hand-over can run on any node.
- **BlockSourceCopier / ProGe / integrator.** Two FU files with one file name and a register file listed by two blocks cover both the clash and the de-duplication; the IDF has its own decompressor. The integrator's board has an instruction memory with a component file, a data memory without one, netlist parameters, and an FU whose Avalon master accepts two of its three ports, so every branch of `createMemories`, `writeNewToplevel` and `createInterfaces` is taken.
- **LLVM.** Two processes and two machines give both a shared file name (same machine) and distinct names; equal ADF lengths make the mutant that drops the hash collide; two compiles per process let a second call find a file the first left behind.

### Fairness

`DriverSpec` has weak fairness on the whole loop. The search loop is sequential code with no blocking call, so once it is enabled it keeps taking steps. `AbstractAssignment` has weak fairness on `Grant` and `Refuse` only: a pending request is answered, but nothing obliges the scheduler to request or unschedule. The EPR, SQLite and LLVM specs have no liveness property: their operations are calls with no obligation to happen. The SQLite and LLVM runs use CHECK_DEADLOCK FALSE because the object is destroyed (SQLite) or every process has made its bounded number of calls (LLVM), or `copyCfgToProcedure` or the ProGe and integrator flow has returned, stopped or thrown, after which the program really stops. MoveNode uses it because the node slots run out, after which the graph is discarded.

## 5. Not modelled

Why the map covers about a fifth of the tree. By line count, the GUI applications (2624 lines), the machine, program, TPEF and encoding data classes and null objects (2102), the bundled third-party code and tests (917), the simulator console (820), the text tools (593) and the header-only FSA (118) make up 7174 of the 12119 lines. spec.md puts the GUI, the simulator console, the HDL generators and the HDB layer out of scope, and these parts have no protocol a model checker adds to: they lay out windows, format text, or hold data behind getters. Of the remaining code (the scheduler's resource model and program representation, ProGe and the platform integrator, the LLVM plugin cache, SQLiteConnection), every state-changing operation is an action of a module. The lines not mapped there are includes, getters, text formatting (`toString`, `dotString`, the SOPC file's text) and the netlist construction by port-name matching.

- **GUI:** ProDe, Proxim, OSEd, HDBEditor and wxToolkit (windows and dialogs).
- **Generation and I/O:** the HDL and script text ProGe and PlatformIntegrator write (the plugin, the netlist writers, the SOPC file's module properties and interface text), and `createPorts`/`connectToplevelPort`, which build the toplevel netlist by matching substrings of port names; LLVMBackend's bytecode handling and code generation (only its plugin cache is modelled); `SQLiteConnection::query()` and result sets; the tools (Conversion, CmdLineOptionParser, DataObject) handle text. `Conversion::toBinString(double)` prints the two 32-bit words of a double through a union in host word order, so on a little-endian host the low word comes first; this is a pure formatting function with no state, recorded here rather than modelled.
- **Simulator front end:** the console commands and the simulator toolbox. `SimulatorFrontend`, which holds the simulation state, is not in the tree, and spec.md leaves the console out of scope.
- **Data classes:** machine, program, TPEF and encoding; the scheduler's graph classes (ControlFlowGraph, DataDependenceGraph, ProgramDependenceGraph) and their builders, which only ProcedurePass's use of the CFG nodes is modelled from.
- **Third-party and tests:** the bundled LLVM frontend, `ext/` and the tests.
- **Not yet modelled parts of the resource model:**
  - the group validation run at construction;
  - InputPSocketBroker's rewrite of a register-file destination, which changes the move, not the resource state.
