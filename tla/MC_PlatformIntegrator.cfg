CONSTANTS
  fuA = fuA
  fuB = fuB
  rf = rf
  pathA = pathA
  pathB = pathB
  pathRF = pathRF
  dec = dec
  defDec = defDec
  ifetch = ifetch
  opcodes = opcodes
  iu1 = iu1
  NONE = NONE
  HasDecompressor = TRUE
  DecompressorFile = dec
  ImemWidthInMAUs = 1
  BemWidth = 42
  Blocks <- MC_Blocks
  Abs <- MC_Abs
  Base <- MC_Base
  DataFiles <- MC_DataFiles
  MachineErrors <- MC_MachineErrors
  IUs <- MC_IUs
  IUImpl <- MC_IUImpl
  RequiredLatency <- MC_RequiredLatency
  Gcu <- MC_Gcu
  PluginFiles <- MC_PluginFiles
  NetlistFiles <- MC_NetlistFiles
  Imem <- MC_Imem
  Dmem <- MC_Dmem
  TopPorts <- MC_TopPorts
  AvalonSignals <- MC_AvalonSignals
  HasParams = TRUE
  CoreEntity = "tta0"
SPECIFICATION Spec
INVARIANT ProjectComplete
\* the integrator writes the project, stops or throws: each ends the behaviour.
CHECK_DEADLOCK FALSE
