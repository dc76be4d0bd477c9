---------------------------- MODULE MCRefinement ----------------------------
(* Programs for checking the cycle model against the interpreter. *)
EXTENDS CycleRefinement, Assembler

(* x5 holds the entry point, so that JALR has a target in the image. *)
AgreeCode ==
  {addi(1, 1, 4095), add(3, 1, 3), lw(1, 2, 1), lw(3, 2, 1), sw(1, 2, 1),
   beq(1, 3, 8), bne(1, 0, 8), jal(3, 8), jalr(1, 5, 20), auipc(3, 0),
   lui(1, 1), fence}
(* A trap at the end of the second set is right behind an instruction that    *)
(* may depend on the one before it.                                           *)
AgreePrograms ==
  {p \in {Image(<<auipc(5, 0)>> \o code) : code \in [1 .. 4 -> AgreeCode]}
           \cup {Image(<<auipc(5, 0)>> \o code \o <<ecall>>) :
                    code \in [1 .. 2 -> AgreeCode]} :
     WellScheduled(p)}

(* Every instruction of the base set that the two models share, on operands   *)
(* around zero, around the largest and the smallest number, and beyond the    *)
(* five bits of a shift amount.                                               *)
Values == {0, 1, 33, 2047, 2048, 4095}
Setup == {<<addi(1, 0, v), addi(3, 0, w)>> : v \in Values, w \in Values}
           \cup {<<U("LUI", 1, 2 ^ 8), addi(3, 0, w)>> : w \in Values}
Each ==
  {R(f, 0, 4, 1, 3) : f \in 0 .. 7} \cup {R(f, 32, 4, 1, 3) : f \in {0, 5}}
    \cup {I("OP_IMM", f, 4, 1, imm) : f \in {0, 2, 3, 4, 6, 7}, imm \in {5, 4095}}
    \cup {I("OP_IMM", f, 4, 1, 3) : f \in {1, 5}} \cup {I("OP_IMM", 5, 4, 1, 1027)}
    \cup {B(f, 1, 3, 8) : f \in {0, 1, 4, 5, 6, 7}}
    \cup {I("LOAD", f, 4, 2, 1) : f \in {2, 4, 5}} \cup {S(f, 2, 1, 1) : f \in {0, 2}}
    \cup {U("LUI", 4, 5), U("AUIPC", 4, 5), jal(4, 8), fence}
EachInstruction == {Image(setup \o <<i, nop>>) : setup \in Setup, i \in Each}

SharedPrograms == AgreePrograms \cup EachInstruction

(* What the theorems about refinement and about exceptions assume of their    *)
(* programs.                                                                  *)
ASSUME WellScheduledInRun ==
  \A p \in SharedPrograms : WellScheduled(p) /\ BranchesAligned(p)
=============================================================================
