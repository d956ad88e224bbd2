-------------------------- MODULE MC_ProcedurePass --------------------------
(***************************************************************************)
(* A procedure of five instructions cut into three blocks: A = [0..1]      *)
(* grew to three scheduled instructions, B = [2..2] had its only          *)
(* instruction skipped, C = [3..4] keeps one of two.  The starts of A and *)
(* C are jump targets, and one scheduled instruction of A is referenced.  *)
(* W wraps a new basic block (BasicBlockNode(bb)), whose entry_ and exit_ *)
(* are whatever the memory holds.                                         *)
(***************************************************************************)
EXTENDS ProcedurePass, TLC

CONSTANTS o0, o1, o2, o3, o4, A, B, C, W, En, Ex, a1, a2, a3, b1, c1, c2, w1, r1, r2, r3

MC_Original == << o0, o1, o2, o3, o4 >>
MC_Kind == (En :> "entry") @@ (Ex :> "exit") @@ (A :> "normal") @@ (B :> "normal")
           @@ (C :> "normal") @@ (W :> "wrapped")
MC_Start == (En :> 0) @@ (Ex :> 0) @@ (A :> 0) @@ (B :> 2) @@ (C :> 3) @@ (W :> 0)
MC_End   == (En :> 0) @@ (Ex :> 0) @@ (A :> 1) @@ (B :> 2) @@ (C :> 4) @@ (W :> 0)
MC_Code  == (En :> << >>) @@ (Ex :> << >>) @@ (A :> << a1, a2, a3 >>) @@ (B :> << b1 >>)
            @@ (C :> << c1, c2 >>) @@ (W :> << w1 >>)
MC_Skipped == (En :> 0) @@ (Ex :> 0) @@ (A :> 0) @@ (B :> 1) @@ (C :> 1) @@ (W :> 0)
MC_RefTarget == (r1 :> o0) @@ (r2 :> o3) @@ (r3 :> a2)
=============================================================================
