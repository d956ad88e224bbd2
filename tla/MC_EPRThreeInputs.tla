------------------------- MODULE MC_EPRThreeInputs -------------------------
(***************************************************************************)
(* The unit of MC_EPR, where p1 has two operand moves (a1, b1) before its  *)
(* opcode-setting trigger t1, so that one of its inputs can lie strictly   *)
(* between two others.  p2 has one operand move and a trigger.  Results    *)
(* play no part in this question and are left out.                         *)
(***************************************************************************)
EXTENDS ExecutionPipelineResource

CONSTANTS p1, p2, a1, b1, t1, a2, t2

MC_Res == {1, 2}
\* The setResourceUse calls that build the templates: mul keeps line 1 busy
\* for two cycles and line 2 in its second; add uses line 1 at issue.
MC_Calls == << << "mul", 0, 1 >>, << "mul", 1, 1 >>, << "mul", 1, 2 >>, << "add", 0, 1 >> >>
ASSUME ResourceUse(MC_Calls).err = NONE
MC_Ops == DOMAIN TemplateOf(MC_Calls)
MC_OpOrder == OpOrderOf(MC_Calls)
MC_Template == TemplateOf(MC_Calls)
MC_OpOf == [p \in {p1, p2} |-> IF p = p1 THEN "mul" ELSE "add"]
MC_InputsOf == [p \in {p1, p2} |-> IF p = p1 THEN << a1, b1, t1 >> ELSE << a2, t2 >>]
MC_IsTrigger == [n \in {a1, b1, t1, a2, t2} |-> n \in {t1, t2}]
MC_OpcodeSetting == MC_IsTrigger
MC_SourceOf == [r \in {} |-> p1]
MC_Latency == [r \in {} |-> 1]
=============================================================================
