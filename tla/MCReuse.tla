------------------------------ MODULE MCReuse ------------------------------
(* Programs for running the cycle model again. *)
EXTENDS PipelineReuse, Assembler

(* Programs of nine words and one of three, whose end the program counter of *)
(* a halted pipeline may have passed.                                        *)
Short == [a \in {MCEntry + 4 * k : k \in 0 .. 2} |-> IF a = MCEntry + 4 THEN ecall ELSE nop]
ReusePrograms ==
  ImagesOf(3, {lw(1, 2, 1), sw(1, 2, 1), add(3, 1, 1), beq(1, 3, 8), ecall})
    \cup ImagesOf(2, {lw(1, 2, 1), lui(1, 2), jal(3, 8), jalr(3, 1, 0), jalr(0, 0, 2)})
    \cup {Short}

ReuseMemories == {MCDataMem}

(* The first program has a page of data at 8192, the next one has not. *)
FirstData == [a \in 8192 .. 8195 |-> 0] @@ MCDataMem
ReadsData == {Image(<<lui(1, 2), lw(3, 1, 0), ecall>>)}
=============================================================================
