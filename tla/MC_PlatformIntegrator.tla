------------------------ MODULE MC_PlatformIntegrator ------------------------
(* A machine that validates with only the address-width warning, one      *)
(* immediate unit whose implementation has the latency the plugin needs,  *)
(* and an IDF with two FU implementations from two HDBs whose VHDL files  *)
(* have the same file name, and an RF and an IU sharing one implementation *)
(* file (the case copiedFiles_ is there for); the IDF names its own       *)
(* decompressor.  The integrator's board has an instruction memory that   *)
(* writes a component file and a data memory that does not, a netlist     *)
(* with parameters, and one FU with an Avalon MM master (address, data and *)
(* a signal the master rejects) beside an exported port.                   *)
EXTENDS PlatformIntegrator

CONSTANTS fuA, fuB, rf, pathA, pathB, pathRF, dec, defDec, ifetch, opcodes, iu1

MC_Blocks == << << fuA >>, << fuB >>, << rf >>, << rf >> >>
MC_Abs == (fuA :> pathA) @@ (fuB :> pathB) @@ (rf :> pathRF)
MC_Base == (pathA :> "add.vhdl") @@ (pathB :> "add.vhdl") @@ (pathRF :> "rf_1wr_1rd.vhdl")
           @@ (dec :> "my_decompressor.vhdl") @@ (defDec :> "decompressor.vhdl")
           @@ (ifetch :> "ifetch.vhdl") @@ (opcodes :> "opcodes_pkg.vhdl")
MC_DataFiles == [s \in {"decompressor", "ifetch", "opcodes"} |->
                   CASE s = "decompressor" -> defDec
                     [] s = "ifetch" -> ifetch
                     [] s = "opcodes" -> opcodes]
MC_MachineErrors == {"IMEM_ADDR_WIDTH_DIFFERS_FROM_RA_AND_PC"}
MC_IUs == {iu1}
MC_IUImpl == [u \in MC_IUs |-> [entry |-> TRUE, arch |-> TRUE, latency |-> 1]]
MC_RequiredLatency == [u \in MC_IUs |-> 1]
MC_Gcu == [ra |-> TRUE, raWidth |-> 8, ops |-> {"call", "jump"}, pcPort |-> TRUE,
           pcWidth |-> 8, end |-> 1023, mauWidth |-> 32]
MC_PluginFiles == {"ic.vhdl", "decoder.vhdl"}
MC_NetlistFiles == {"toplevel.vhdl"}
MC_Imem == [compatible |-> TRUE, generates |-> TRUE, files |-> {"imem.vhdl"}]
MC_Dmem == [compatible |-> TRUE, generates |-> FALSE, files |-> {}, type |-> "other"]
MC_TopPorts ==
  { [kind |-> "clk", fu |-> "", sig |-> "clk", dir |-> "in"],
    [kind |-> "rstx", fu |-> "", sig |-> "rstx", dir |-> "in"],
    [kind |-> "avalon", fu |-> "lsu", sig |-> "address", dir |-> "out"],
    [kind |-> "avalon", fu |-> "lsu", sig |-> "writedata", dir |-> "out"],
    [kind |-> "avalon", fu |-> "lsu", sig |-> "irq", dir |-> "in"],
    [kind |-> "other", fu |-> "", sig |-> "leds", dir |-> "out"] }
MC_AvalonSignals == {"address", "writedata", "readdata"}
====
