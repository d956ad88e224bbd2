--------------------------- MODULE MC_LLVMBackend ---------------------------
(***************************************************************************)
(* Two target machines whose ADFs have the same length and different      *)
(* hashes, compiled up to MaxCompiles times by each process.               *)
(***************************************************************************)
EXTENDS LLVMBackend, TLC

CONSTANTS m1, m2

MCMachines == {m1, m2}
MCAdfLength == (m1 :> 4096) @@ (m2 :> 4096)
MCAdfHash == (m1 :> 17) @@ (m2 :> 42)
=============================================================================
