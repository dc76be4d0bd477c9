----------------------------- MODULE MCPipeline -----------------------------
(* Programs for model checking the cycle model. *)
EXTENDS PipelineProperties, Assembler

HazardPrograms == ImagesOf(4, HazardCode) \cup ImagesOf(2, HazardCode \cup FaultCode)

(* A trap behind a branch, a trap behind an instruction that waits for a     *)
(* load, and a jump to an address loaded from a misaligned stack slot.       *)
ExceptionPrograms ==
  {Image(<<beq(0, 0, 8), ecall>>), Image(<<lw(1, 2, 1), addi(1, 1, 1), ecall>>),
   Image(<<lw(1, 2, 0), jalr(3, 1, 0)>>)}
=============================================================================
