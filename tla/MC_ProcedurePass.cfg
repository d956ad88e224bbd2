CONSTANTS
  o0 = o0  o1 = o1  o2 = o2  o3 = o3  o4 = o4
  A = A  B = B  C = C  W = W  En = En  Ex = Ex
  a1 = a1  a2 = a2  a3 = a3  b1 = b1  c1 = c1  c2 = c2  w1 = w1
  r1 = r1  r2 = r2  r3 = r3  NULL = NULL
  Blocks = {En, Ex, A, B, C, W}
  Refs = {r1, r2, r3}
  Original <- MC_Original
  Kind <- MC_Kind
  Start <- MC_Start
  End <- MC_End
  Code <- MC_Code
  Skipped <- MC_Skipped
  RefTarget <- MC_RefTarget
SPECIFICATION Spec
INVARIANTS TypeOK ProcedureRebuilt RefsFollowCode
CHECK_DEADLOCK FALSE
