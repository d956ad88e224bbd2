CONSTANTS
  p1 = p1
  p2 = p2
  a1 = a1
  t1 = t1
  a2 = a2
  t2 = t2
  r1 = r1
  r2 = r2
  NULL = NULL
  NONE = NONE
  POs = {p1, p2}
  InNodes = {a1, t1, a2, t2}
  OutNodes = {r1, r2}
  Ops <- MC_Ops
  Res <- MC_Res
  Template <- MC_Template
  OpOrder <- MC_OpOrder
  OpOf <- MC_OpOf
  InputsOf <- MC_InputsOf
  IsTrigger <- MC_IsTrigger
  OpcodeSetting <- MC_OpcodeSetting
  SourceOf <- MC_SourceOf
  Latency <- MC_Latency
  MaxLat = 2
  MaxCycle = 4
  TopDown = TRUE
SPECIFICATION Spec
INVARIANTS
  TypeOK
  OperandWindowsDisjoint
  PipelineExact
  ResultRegisterSafe
  InUseWithinKnownCycles
