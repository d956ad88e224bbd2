------------------------------ MODULE MC_EPR ------------------------------
(***************************************************************************)
(* A function unit with two operations: a multiplier that keeps resource   *)
(* line 1 busy for two cycles and line 2 in its second cycle, and an adder *)
(* that uses line 1 in its issue cycle.  Two ProgramOperations, each an    *)
(* operand move, an opcode-setting trigger and one result read.            *)
(***************************************************************************)
EXTENDS ExecutionPipelineResource

CONSTANTS p1, p2, a1, t1, a2, t2, r1, r2

MC_Res == {1, 2}
\* The setResourceUse calls that build the templates: mul keeps line 1 busy
\* for two cycles and line 2 in its second; add uses line 1 at issue.
MC_Calls == << << "mul", 0, 1 >>, << "mul", 1, 1 >>, << "mul", 1, 2 >>, << "add", 0, 1 >> >>
ASSUME ResourceUse(MC_Calls).err = NONE
MC_Ops == DOMAIN TemplateOf(MC_Calls)
MC_OpOrder == OpOrderOf(MC_Calls)
MC_Template == TemplateOf(MC_Calls)
MC_OpOf == [p \in {p1, p2} |-> IF p = p1 THEN "mul" ELSE "add"]
MC_InputsOf == [p \in {p1, p2} |-> IF p = p1 THEN << a1, t1 >> ELSE << a2, t2 >>]
MC_IsTrigger == [n \in {a1, t1, a2, t2} |-> n \in {t1, t2}]
MC_OpcodeSetting == MC_IsTrigger
MC_SourceOf == [r \in {r1, r2} |-> IF r = r1 THEN p1 ELSE p2]
MC_Latency == [r \in {r1, r2} |-> IF r = r1 THEN 2 ELSE 1]
=============================================================================
