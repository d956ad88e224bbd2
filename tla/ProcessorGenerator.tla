------------------------- MODULE ProcessorGenerator -------------------------
(***************************************************************************)
(* ProcessorGenerator::generateProcessor (src/tce/src/applibs/ProGe/       *)
(* ProcessorGenerator.cc): validate the machine, check the IC/decoder     *)
(* plugin and the immediate units' latencies, build the netlist, create    *)
(* dst/gcu_ic and let the plugin generate into it, write the netlist into  *)
(* dst/vhdl, copy the blocks' sources with a BlockSourceCopier, and write *)
(* dst/vhdl/globals_pkg.vhdl.  The copier is the BlockSourceCopier module, *)
(* instanced over the same variables; its steps are taken while the       *)
(* generator is in its "copy" step.                                        *)
(*                                                                         *)
(* The plugin, the netlist generator and writer and FileSystem are not in  *)
(* the tree: the plugin's compatibility check and file system calls may    *)
(* fail, and the files the plugin and the writer produce are the constant  *)
(* name sets PluginFiles and NetlistFiles, their contents Generated(name). *)
(***************************************************************************)
EXTENDS Integers, Sequences, TLC

CONSTANTS
  Blocks, Abs, Base, HasDecompressor, DecompressorFile, DataFiles, NONE,
  MachineErrors,   \* MachineValidator error codes reported for the machine
  IUs,             \* immediate units of the machine
  IUImpl,          \* [IUs -> [entry: BOOLEAN, arch: BOOLEAN, latency: Nat]]: HDB RF entry
  RequiredLatency, \* [IUs -> Nat]: plugin.requiredRFLatency(iu)
  ImemWidthInMAUs, \* imemWidthInMAUs given by the caller
  Gcu,             \* [ra: BOOLEAN, raWidth: Nat, ops: SUBSET {"call", "jump"}, pcPort: BOOLEAN,
                   \*  pcWidth: Nat, end: Nat, mauWidth: Nat]: the GCU and its address space
  BemWidth,        \* bem.width()
  PluginFiles,     \* names of the files plugin.generate() writes into gcu_ic
  NetlistFiles     \* names of the files the netlist writer writes into vhdl

VARIABLES
  step,            \* generateProcessor's position
  pc, blk, idx, copied, dst, gcuExists, err   \* BlockSourceCopier's, and the exception

BSC == INSTANCE BlockSourceCopier

vars == << step, pc, blk, idx, copied, dst, gcuExists, err >>
bscVars == << pc, blk, idx, copied >>

Generated(n) == << "generated", n >>

(***************************************************************************)
(* Helpers translated from the code.                                       *)
(***************************************************************************)
\* validateMachine(): every reported error but the instruction memory
\* address width warning throws IllegalMachine.
ValidateMachine(errors) == errors \subseteq {"IMEM_ADDR_WIDTH_DIFFERS_FROM_RA_AND_PC"}

\* checkIULatencies(): each IU needs an HDB entry with an architecture whose
\* latency is the one the plugin requires; otherwise InvalidData.
IULatenciesOK ==
  \A iu \in IUs : IUImpl[iu].entry /\ IUImpl[iu].arch
                  /\ IUImpl[iu].latency = RequiredLatency[iu]

\* MathTools::requiredBits(n) (outside the tree): the bits needed to
\* represent n, at least one.
RECURSIVE RequiredBits(_)
RequiredBits(n) == IF n < 2 THEN 1 ELSE 1 + RequiredBits(n \div 2)

MaxOf(a, b) == IF a >= b THEN a ELSE b

\* iMemAddressWidth(): the wider of the address space's end address and the
\* return address port, else of the CALL (or, without CALL, JUMP) operand
\* port that carries the PC when the operation has one (pcPort).
IMemAddressWidth ==
  IF Gcu.ra THEN MaxOf(RequiredBits(Gcu.end), Gcu.raWidth)
  ELSE IF Gcu.ops # {} /\ Gcu.pcPort THEN MaxOf(RequiredBits(Gcu.end), Gcu.pcWidth)
  ELSE RequiredBits(Gcu.end)

\* iMemWidth(): the MAU width times the memory width in MAUs.
IMemWidth == Gcu.mauWidth * ImemWidthInMAUs

\* The constants generateGlobalsPackage() writes.
Globals == [instructionWidth |-> BemWidth, imemAddrWidth |-> IMemAddressWidth,
            imemMauWidth |-> Gcu.mauWidth, imemWidthInMaus |-> ImemWidthInMAUs]

Write(dir, files, content) ==
  dst' = [f \in { << dir, n >> : n \in files } |-> content[f[2]]] @@ dst

(***************************************************************************)
(* generateProcessor, step by step.                                        *)
(***************************************************************************)
Init == BSC!Init /\ step = "validate"

Throw(e) == err' = e /\ UNCHANGED << step, bscVars, dst, gcuExists >>

Go(s) == step' = s /\ UNCHANGED << bscVars, dst, gcuExists, err >>

Validate ==
  /\ step = "validate"
  /\ IF ValidateMachine(MachineErrors) THEN Go("compat") ELSE Throw("IllegalMachine")

\* plugin.verifyCompatibility(): the plugin's own check.
VerifyCompatibility ==
  /\ step = "compat"
  /\ Go("iulat") \/ Throw("InvalidData")

CheckIULatencies ==
  /\ step = "iulat"
  /\ IF IULatenciesOK THEN Go("netlist") ELSE Throw("InvalidData")

\* NetlistGenerator::generate(imemWidthInMAUs): OutOfRange unless the
\* width is positive.
GenerateNetlist ==
  /\ step = "netlist"
  /\ IF ImemWidthInMAUs > 0 THEN Go("gcudir") ELSE Throw("OutOfRange")

\* FileSystem::createDirectory(dst/gcu_ic); false throws IOException.
CreateGcuDir ==
  /\ step = "gcudir"
  /\ \/ /\ gcuExists' = TRUE
        /\ step' = "plugin"
        /\ UNCHANGED << bscVars, dst, err >>
     \/ Throw("IOException")

PluginGenerate ==
  /\ step = "plugin"
  /\ Write("gcu_ic", PluginFiles, [n \in PluginFiles |-> Generated(n)])
  /\ step' = "write"
  /\ UNCHANGED << bscVars, gcuExists, err >>

WriteNetlist ==
  /\ step = "write"
  /\ Write("vhdl", NetlistFiles, [n \in NetlistFiles |-> Generated(n)])
  /\ step' = "copy"
  /\ UNCHANGED << bscVars, gcuExists, err >>

\* copier.copy(dstDirectory): one step of the copier.
CopySources ==
  /\ step = "copy"
  /\ BSC!Next
  /\ UNCHANGED step

CopyDone ==
  /\ step = "copy"
  /\ pc = "done"
  /\ Go("globals")

\* generateGlobalsPackage(): FileSystem::createFile, then the constants.
GenerateGlobalsPackage ==
  /\ step = "globals"
  /\ \/ /\ Write("vhdl", {"globals_pkg.vhdl"}, [n \in {"globals_pkg.vhdl"} |-> Globals])
        /\ step' = "done"
        /\ UNCHANGED << bscVars, gcuExists, err >>
     \/ Throw("IOException")

Next ==
  /\ err = NONE
  /\ \/ Validate \/ VerifyCompatibility \/ CheckIULatencies \/ GenerateNetlist
     \/ CreateGcuDir \/ PluginGenerate \/ WriteNetlist \/ CopySources \/ CopyDone
     \/ GenerateGlobalsPackage

Spec == Init /\ [][Next]_vars

-----------------------------------------------------------------------------
\* What the generated directory should hold: every block source and gcu_ic
\* file under the name the copier gives it, the plugin's and the netlist
\* writer's files, and the globals package.
Expected ==
  BSC!Required
    \cup { << << "gcu_ic", n >>, Generated(n) >> : n \in PluginFiles }
    \cup { << << "vhdl", n >>, Generated(n) >> : n \in NetlistFiles }
    \cup { << << "vhdl", "globals_pkg.vhdl" >>, Globals >> }

====
