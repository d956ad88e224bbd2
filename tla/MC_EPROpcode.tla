--------------------------- MODULE MC_EPROpcode ---------------------------
(***************************************************************************)
(* The unit of MC_EPR where t2 triggers the unit through a port that does  *)
(* not set the opcode, so the operation it starts is the one last set      *)
(* before its cycle.  t1 (mul) and t3 (add) are opcode-setting triggers.   *)
(* Each ProgramOperation is its trigger alone; operands and results play   *)
(* no part in these questions.                                             *)
(***************************************************************************)
EXTENDS ExecutionPipelineResource

CONSTANTS p1, p2, p3, t1, t2, t3

MC_Res == {1, 2}
\* The setResourceUse calls that build the templates: mul keeps line 1 busy
\* for two cycles and line 2 in its second; add uses line 1 at issue.
MC_Calls == << << "mul", 0, 1 >>, << "mul", 1, 1 >>, << "mul", 1, 2 >>, << "add", 0, 1 >> >>
ASSUME ResourceUse(MC_Calls).err = NONE
MC_Ops == DOMAIN TemplateOf(MC_Calls)
MC_OpOrder == OpOrderOf(MC_Calls)
MC_Template == TemplateOf(MC_Calls)
MC_OpOf == [p \in {p1, p2, p3} |-> IF p = p3 THEN "add" ELSE "mul"]
MC_InputsOf == [p \in {p1, p2, p3} |->
                  IF p = p1 THEN << t1 >> ELSE IF p = p2 THEN << t2 >> ELSE << t3 >>]
MC_IsTrigger == [n \in {t1, t2, t3} |-> TRUE]
MC_OpcodeSetting == [n \in {t1, t2, t3} |-> n # t2]
MC_SourceOf == [r \in {} |-> p1]
MC_Latency == [r \in {} |-> 1]
=============================================================================
