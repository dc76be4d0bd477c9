--------------------------- MODULE MCCoSimulator ---------------------------
(* Traces for model checking the co-simulator. *)
EXTENDS CoSimulator, Assembler

Trace(mmu, reg, exec) ==
  [l \in Levels |-> CASE l = "MMU" -> mmu [] l = "REG_FILE" -> reg [] l = "DECODER" -> exec]

(* They differ from the first in the value of a record behind a zero byte,   *)
(* in where the digits of a record are divided (1 23 and 12 3), in the       *)
(* number of records, and in the path.                                       *)
MCTraces ==
  LET store == <<2, 4096, 5>>
      path  == <<<<4096, nop>>>>
  IN  {Trace(<<store>>, <<<<1, 35>>>>, path),
       Trace(<<<<2, 4096, 6>>>>, <<<<1, 35>>>>, path),
       Trace(<<store>>, <<<<18, 3>>>>, path),
       Trace(<<store, store>>, <<>>, path),
       Trace(<<store>>, <<<<1, 35>>>>, <<<<4100, fence>>>>)}
=============================================================================
