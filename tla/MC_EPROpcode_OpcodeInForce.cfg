CONSTANTS
  p1 = p1
  p2 = p2
  p3 = p3
  t1 = t1
  t2 = t2
  t3 = t3
  NULL = NULL
  NONE = NONE
  POs = {p1, p2, p3}
  InNodes = {t1, t2, t3}
  OutNodes = {}
  Ops <- MC_Ops
  Res <- MC_Res
  Template <- MC_Template
  OpOrder <- MC_OpOrder
  OpOf <- MC_OpOf
  InputsOf <- MC_InputsOf
  IsTrigger <- MC_IsTrigger
  OpcodeSetting <- MC_OpcodeSetting
  SourceOf <- MC_SourceOf
  Latency <- MC_Latency
  MaxLat = 2
  MaxCycle = 4
  TopDown = TRUE
SPECIFICATION Spec
INVARIANT OpcodeInForce
CHECK_DEADLOCK FALSE
