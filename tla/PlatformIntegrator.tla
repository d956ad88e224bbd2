------------------------- MODULE PlatformIntegrator -------------------------
(***************************************************************************)
(* PlatformIntegrator (src/tce/src/applibs/PlatformIntegrator/            *)
(* PlatformIntegrator.cc) and its project file generator                  *)
(* SOPCBuilderFileGenerator (SOPCBuilderFileGenerator.cc), run on the      *)
(* output of ProcessorGenerator::generateProcessor: the integrator creates  *)
(* its output directory, generates the instruction and data memories,      *)
(* writes the new toplevel, adds the ProGe output files (the contents of    *)
(* gcu_ic and vhdl) to the project, and the SOPC Builder generator writes   *)
(* the component file with that file list and its interfaces.              *)
(*                                                                         *)
(* The board integrators that call these steps are not in the tree; the    *)
(* steps are taken in the order above, each once.  MemoryGenerator,        *)
(* NetlistWriter, FileSystem and AvalonMMMasterInterface are not in the    *)
(* tree: a memory generator's compatibility and files are constants, a     *)
(* file system call may fail.  A path is << directory, file name >>.       *)
(***************************************************************************)
EXTENDS Integers, Sequences, FiniteSets, TLC
LOCAL INSTANCE SequencesExt

CONSTANTS
  Blocks, Abs, Base, HasDecompressor, DecompressorFile, DataFiles, NONE,
  MachineErrors, IUs, IUImpl, RequiredLatency, ImemWidthInMAUs, Gcu, BemWidth,
  PluginFiles, NetlistFiles,
  Imem,        \* [compatible: BOOLEAN, generates: BOOLEAN, files: SUBSET names]
  Dmem,        \* the same, and type: {"none", "other"} (dmem_.type = NONE or not)
  HasParams,   \* the netlist has parameters: the writer writes the params package
  TopPorts,    \* ports of the toplevel block: [kind: {"clk", "rstx", "avalon",
               \*  "other"}, fu: FU names \cup {""}, sig: signal names, dir: {"in", "out"}]
  AvalonSignals, \* the signals AvalonMMMasterInterface::isValidPort accepts
  CoreEntity   \* coreEntityName()

VARIABLES
  step, pc, blk, idx, copied, dst, gcuExists, err,   \* ProcessorGenerator's
  istep,     \* the integrator's step
  out,       \* file names written into outputDir_
  hdlFiles,  \* the project file generator's hdlFileList()
  sopc       \* the component file written by writeProjectFiles(), or NONE

PG == INSTANCE ProcessorGenerator

vars == << step, pc, blk, idx, copied, dst, gcuExists, err, istep, out, hdlFiles, sopc >>
pgVars == << step, pc, blk, idx, copied, dst, gcuExists >>

ImemMau == "imem_mau_pkg.vhdl"
\* outputFilePath(coreEntityName() + "_toplevel.vhdl") and
\* outputFilePath(platformEntityName() + "_params_pkg.vhdl").
Toplevel == << "out", CoreEntity \o "_toplevel.vhdl" >>
Params == << "out", CoreEntity \o "_toplevel_params_pkg.vhdl" >>

\* FileSystem::directoryContents(dir), in the order the file system lists it.
Contents(dir) == SetToSeq({ k \in DOMAIN dst : k[1] = dir })

(***************************************************************************)
(* progeOutputHdlFiles(): the files of gcu_ic (a missing directory is      *)
(* reported and skipped), then those of vhdl (a missing one throws), and    *)
(* vhdl/imem_mau_pkg.vhdl when no listed file's name contains it.          *)
(***************************************************************************)
ProgeOutputHdlFiles ==
  LET gcu  == IF gcuExists THEN Contents("gcu_ic") ELSE << >>
      vhdl == Contents("vhdl")
      mau  == IF \E i \in DOMAIN vhdl : vhdl[i][2] = ImemMau
                THEN << >> ELSE << << "vhdl", ImemMau >> >>
  IN gcu \o vhdl \o mau

\* generateMemory(): compatible with the core, and a generator that writes
\* a component file writes at least one.
MemoryOK(m) == m.compatible /\ (m.generates => m.files # {})
MemFiles(m) == IF m.compatible /\ m.generates THEN m.files ELSE {}
AsPaths(names) == SetToSeq({ << "out", n >> : n \in names })

(***************************************************************************)
(* SOPCBuilderFileGenerator.                                               *)
(***************************************************************************)
\* countAvalonMMMasters(): outgoing Avalon address ports of the toplevel.
CountAvalonMMMasters ==
  Cardinality({ p \in TopPorts : p.kind = "avalon" /\ p.sig = "address" /\ p.dir = "out" })

\* createInterfaces() with handleAvalonSignal(): an Avalon port goes to the
\* master of its FU (created on first sight, even for a port it rejects) when
\* the master accepts it; every other port but clock and reset is exported.
AvalonFUs == { p.fu : p \in { q \in TopPorts : q.kind = "avalon" } }
IsMasterPort(p) == p.kind = "avalon" /\ p.sig \in AvalonSignals
CreateInterfaces ==
  [ masters |-> [fu \in AvalonFUs |-> { p \in TopPorts : IsMasterPort(p) /\ p.fu = fu }],
    export  |-> { p \in TopPorts : p.kind \notin {"clk", "rstx"} /\ ~IsMasterPort(p) } ]

(***************************************************************************)
(* The integrator's steps.  A thrown exception ends the run; a step that   *)
(* returns false stops the integrator.                                     *)
(***************************************************************************)
Init == PG!Init /\ istep = "outdir" /\ out = {} /\ hdlFiles = << >> /\ sopc = NONE

\* ProcessorGenerator runs first and must have returned.
Generate == istep = "outdir" /\ PG!Next /\ UNCHANGED << istep, out, hdlFiles, sopc >>

IThrow(e) == err' = e /\ UNCHANGED << pgVars, istep, out, hdlFiles, sopc >>

\* The constructor ends with createOutputDir(): createDirectory(outputDir_)
\* false throws IOException.
CreateOutputDir ==
  /\ istep = "outdir" /\ step = "done"
  /\ \/ istep' = "memories" /\ UNCHANGED << pgVars, err, out, hdlFiles, sopc >>
     \/ IThrow("IOException")

\* createMemories(): the instruction memory, then (unless dmem_.type is
\* NONE) the data memory; their component files go to the project.
CreateMemories ==
  /\ istep = "memories"
  /\ LET ok == MemoryOK(Imem) /\ (Dmem.type = "none" \/ MemoryOK(Dmem))
         dmemFiles == IF MemoryOK(Imem) /\ Dmem.type # "none" THEN MemFiles(Dmem) ELSE {}
     IN /\ out' = out \cup MemFiles(Imem) \cup dmemFiles
        /\ hdlFiles' = hdlFiles \o AsPaths(MemFiles(Imem)) \o AsPaths(dmemFiles)
        /\ istep' = IF ok THEN "toplevel" ELSE "stopped"
  /\ UNCHANGED << pgVars, err, sopc >>

\* writeNewToplevel(): the writer writes the toplevel (and the params
\* package when the netlist has parameters) into outputDir_; a missing
\* toplevel file throws FileNotFound.
WriteNewToplevel ==
  /\ istep = "toplevel"
  /\ \/ /\ hdlFiles' = hdlFiles \o << Toplevel >> \o (IF HasParams THEN << Params >> ELSE << >>)
        /\ out' = out \cup { Toplevel[2] } \cup (IF HasParams THEN { Params[2] } ELSE {})
        /\ istep' = "progefiles"
        /\ UNCHANGED << pgVars, err, sopc >>
     \/ IThrow("FileNotFound")

\* addProGeFiles(): every file progeOutputHdlFiles() lists goes to the project.
AddProGeFiles ==
  /\ istep = "progefiles"
  /\ IF \E k \in DOMAIN dst : k[1] = "vhdl"
       THEN /\ hdlFiles' = hdlFiles \o ProgeOutputHdlFiles
            /\ istep' = "project"
            /\ UNCHANGED << pgVars, err, out, sopc >>
       ELSE IThrow("FileNotFound")

\* writeProjectFiles(): InvalidData without an Avalon MM master or for an
\* Avalon port without an FU name, IOException when the file cannot be
\* opened; otherwise the component file with the file list and interfaces.
WriteProjectFiles ==
  /\ istep = "project"
  /\ IF CountAvalonMMMasters = 0 \/ \E p \in TopPorts : p.kind = "avalon" /\ p.fu = ""
       THEN IThrow("InvalidData")
       ELSE \/ /\ sopc' = [files |-> hdlFiles, interfaces |-> CreateInterfaces]
               /\ istep' = "done"
               /\ UNCHANGED << pgVars, err, out, hdlFiles >>
            \/ IThrow("IOException")

Next ==
  /\ err = NONE
  /\ \/ Generate \/ CreateOutputDir \/ CreateMemories \/ WriteNewToplevel
     \/ AddProGeFiles \/ WriteProjectFiles

Spec == Init /\ [][Next]_vars

-----------------------------------------------------------------------------
(***************************************************************************)
(* What the ProGe flow promises the FPGA project: once the component file  *)
(* is written, its file list names every file the plugin, the netlist      *)
(* writer, the block source copier and generateGlobalsPackage produced, and *)
(* each holds the contents it was written with.  The copier names targets *)
(* by file name only; progeOutputHdlFiles() lists what the directory holds. *)
(***************************************************************************)
ProjectComplete ==
  sopc # NONE =>
    \A r \in PG!Expected :
      /\ \E i \in DOMAIN sopc.files : sopc.files[i] = r[1]
      /\ r[1] \in DOMAIN dst /\ dst[r[1]] = r[2]

====
