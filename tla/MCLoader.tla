------------------------------ MODULE MCLoader ------------------------------
(* Programs for model checking the loader: pages of 4 bytes, 64 bytes of     *)
(* memory, and a stack of three pages from 48 to 59.                         *)
EXTENDS Loader

Seg(load, vaddr, memsz, filesz, data) ==
  [load |-> load, vaddr |-> vaddr, memsz |-> memsz, filesz |-> filesz, data |-> data]
Program(segments) == [valid |-> TRUE, segments |-> segments]

(* Segments that start and end inside a page, that are all zero, empty, cut  *)
(* short or not loadable, and one behind the stack.                          *)
Text   == Seg(TRUE, 4, 6, 6, <<11, 12, 13, 14, 15, 16>>)
Data   == Seg(TRUE, 13, 4, 1, <<21>>)
Bss    == Seg(TRUE, 10, 3, 0, <<>>)
Empty  == Seg(TRUE, 20, 0, 0, <<>>)
Cut    == Seg(TRUE, 24, 3, 3, <<31>>)
Note   == Seg(FALSE, 28, 2, 2, <<41, 42>>)
Flags  == Seg(FALSE, 0, 0, 0, <<>>)
Behind == Seg(TRUE, 60, 2, 0, <<>>)

Sequences == {NoElf, Program(<<Text, Data>>), Program(<<Data, Cut>>), Program(<<Bss, Empty>>),
              Program(<<Flags, Note, Bss>>), Program(<<Text, Behind>>)}

(* Segments at the ends of the memory and of the stack, whose sizes end      *)
(* before, at and behind the end of a page and of the address space.         *)
Boundaries ==
  {Program(<<Seg(TRUE, vaddr, memsz, filesz, [k \in 1 .. filesz |-> 1])>>) :
     vaddr \in {0, 3, 47, 48, 59, 60, 62, 63}, memsz \in {1, 4, 5, 16, 60, 61, 63},
     filesz \in {0, 1}}

MCElfs == Sequences \cup Boundaries

(* What the theorem that images are faithful assumes of its programs. *)
ASSUME NotesApartInRun == \A e \in MCElfs : NotesApart(e.segments)

(* The chunks of programs that did not return and of the current one.  The   *)
(* second set of programs has the memory for itself.                         *)
MaxChunks == 5
FewChunks ==
  IF elf \in Boundaries THEN Len(chunks) <= 2 /\ (status = "idle" => chunks = <<>>)
                        ELSE Len(chunks) <= MaxChunks

(* A note in a page of the text. *)
NotedElfs == {Program(<<Text, Seg(FALSE, 10, 2, 2, <<41, 42>>)>>)}
=============================================================================
