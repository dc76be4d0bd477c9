------------------------------- MODULE Loader -------------------------------
(***************************************************************************)
(* The memory of one model over a sequence of RunProgram calls: mapping    *)
(* and freeing of MMUFixedOffset, Elf32Loader, and how RunProgram of       *)
(* either model uses them, failures between any two of their steps         *)
(* included.                                                               *)
(*                                                                         *)
(* The address space has Space bytes (2^32 in the code) and is scaled down *)
(* with the page size; uint32_t arithmetic is modulo Space, size_t         *)
(* arithmetic does not wrap.  The protection of a page makes no difference:*)
(* PROT_WRITE is always added, and writable pages are readable.            *)
(***************************************************************************)
EXTENDS Integers, Sequences, SequencesExt

CONSTANTS
  Space,       \* bytes of the address space
  PageSize,
  StackPages,  \* pages of the stack
  Elfs         \* programs: their segments, and whether the header is that of
               \* an executable for RISC-V

Size      == Space - 1
StackSize == StackPages * PageSize

\* A segment: p_type = PT_LOAD or another, where it goes, and the bytes that
\* the file has for it, fewer than p_filesz if the file is cut short.
Segment == [load : BOOLEAN, vaddr : 0 .. Size, memsz : 0 .. Size,
            filesz : 0 .. Size, data : Seq(1 .. 255)]

ASSUME SpaceAssumption ==
  /\ Space \in Nat /\ PageSize \in Nat \ {0} /\ StackPages \in Nat \ {0}
  /\ Space % PageSize = 0 /\ StackSize + 2 * PageSize <= Space

Elf == [valid : BOOLEAN, segments : Seq(Segment)]

\* The files are well formed, or cut short.
ASSUME ElfsAssumption ==
  /\ Elfs \subseteq Elf
  /\ \A e \in Elfs : \A s \in Range(e.segments) :
       s.filesz <= s.memsz /\ Len(s.data) <= s.filesz

VARIABLES
  mem,       \* the mapped addresses and their bytes
  chunks,    \* allocated_chunks_
  elf, next, \* the program being loaded and the segment the loop is at
  status,    \* what RunProgram is doing: "idle" between two calls, "ready"
             \* when Run is entered, "dead" when the process has ended
  result     \* how the last RunProgram ended

vars == <<mem, chunks, elf, next, status, result>>

NoElf == [valid |-> FALSE, segments |-> <<>>]

Init == /\ mem = <<>> /\ chunks = <<>>
        /\ elf = NoElf /\ next = 1
        /\ status = "idle" /\ result = "none"

-----------------------------------------------------------------------------
(* MMUFixedOffset *)

AlignDown(vaddr) == vaddr - (vaddr % PageSize)

\* The parameter is a uint32_t, and the sum wraps.
AlignUp(length) ==
  ((((length % Space) + PageSize - 1) % Space) \div PageSize) * PageSize

Bytes(first, n)     == first .. first + n - 1
ChunkBytes(chunk)   == Bytes(chunk[1], chunk[2])

\* mmap with MAP_FIXED: zero pages take the place of what was mapped there.
MappedAt(first, n)  == [a \in Bytes(first, n) \cup DOMAIN mem |->
                          IF a \in Bytes(first, n) THEN 0 ELSE mem[a]]
Memset(M, first, n) == [a \in DOMAIN M |-> IF a \in Bytes(first, n) THEN 0 ELSE M[a]]

StackBegin == AlignDown(Size - StackSize)

\* Mutant: the chunk is not recorded.
AllocateStackUnrecorded == /\ mem' = MappedAt(StackBegin, StackSize)
                           /\ UNCHANGED chunks

AllocateStack == /\ mem' = MappedAt(StackBegin, StackSize)
                 /\ chunks' = Append(chunks, <<StackBegin, StackSize>>)

\* Mutant: only the last chunk is unmapped.
FreeLastChunk ==
  /\ mem' = [a \in DOMAIN mem \ ChunkBytes(Last(chunks)) |-> mem[a]]
  /\ chunks' = <<>>

FreeMemory ==
  /\ mem' = [a \in DOMAIN mem \ UNION {ChunkBytes(c) : c \in Range(chunks)} |-> mem[a]]
  /\ chunks' = <<>>

-----------------------------------------------------------------------------
(* LoadElf32IntoMemory *)

Fails(code)   == status' = "idle" /\ result' = code
NextSegment   == next' = next + 1 /\ UNCHANGED <<elf, status, result>>
Segments      == elf.segments
Loading       == status = "loading" /\ next <= Len(Segments)
seg           == Segments[next]

\* Mutant: segments that are empty in the file are skipped.
SkippedIfEmpty(s) == ~s.load \/ s.filesz = 0

\* The condition under which the loop goes on to the next segment.
Skipped(s) == ~s.load /\ s.memsz = 0

Length == AlignUp(seg.memsz + seg.vaddr - AlignDown(seg.vaddr))

OutOfMemory == Size - Length < seg.vaddr

\* AllocateMemory, when mmap succeeds; it does not map 0 bytes.
CanMap    == Loading /\ ~Skipped(seg) /\ ~OutOfMemory /\ Length > 0
Allocated == MappedAt(AlignDown(seg.vaddr), Length)
Recorded  == chunks' = Append(chunks, <<AlignDown(seg.vaddr), Length>>)

\* pread copies the segment; Copied(n) is memory after n bytes of it.
ReadAll   == /\ Len(seg.data) = seg.filesz
             /\ Bytes(seg.vaddr, seg.filesz) \subseteq DOMAIN Allocated
Copied(n) == [a \in DOMAIN Allocated |->
                IF a \in Bytes(seg.vaddr, n) THEN seg.data[a - seg.vaddr + 1]
                                             ELSE Allocated[a]]

\* Mutant: Memset is not called, since new pages are zero.
NoRest == 0

\* The rest of the segment, which Memset clears; its start is a uint32_t.
RestStart == (seg.vaddr + seg.filesz) % Space
Rest      == seg.memsz - seg.filesz

\* The constructor of Elf32Loader, ReadElfHeader and ReadProgramHeaderTable.
Open ==
  /\ status = "idle"
  /\ elf' \in Elfs
  /\ IF elf'.valid THEN status' = "loading" /\ result' = "none"
                   ELSE Fails("ELF_LOAD_ERROR")
  /\ next' = 1
  /\ UNCHANGED <<mem, chunks>>

OpenFails ==
  /\ status = "idle"
  /\ Fails("FILE_OPEN_ERROR")
  /\ UNCHANGED <<mem, chunks, elf, next>>

SkipSegment == Loading /\ Skipped(seg) /\ NextSegment /\ UNCHANGED <<mem, chunks>>

\* AllocateMemory throws OutOfMemoryException, which RunProgram does not catch.
SegmentOutOfMemory ==
  /\ Loading /\ ~Skipped(seg) /\ OutOfMemory
  /\ Fails("exception")
  /\ UNCHANGED <<mem, chunks, elf, next>>

\* mmap fails, for want of memory or because the length is 0.
SegmentNotMapped ==
  /\ Loading /\ ~Skipped(seg) /\ ~OutOfMemory
  /\ Fails("MMU_ALLOC_ERROR")
  /\ UNCHANGED <<mem, chunks, elf, next>>

\* The file is cut short, or the pages do not hold the segment: pread stops
\* at the end of the file or at the first address that is not mapped.
SegmentNotRead ==
  /\ CanMap /\ ~ReadAll
  /\ \E n \in 0 .. Len(seg.data) :
       /\ Bytes(seg.vaddr, n) \subseteq DOMAIN Allocated
       /\ n < Len(seg.data) => seg.vaddr + n \notin DOMAIN Allocated
       /\ mem' = Copied(n)
  /\ Recorded
  /\ Fails("ELF_LOAD_ERROR")
  /\ UNCHANGED <<elf, next>>

\* Memset leaves the mapped pages: the process ends with SIGSEGV.
SegmentNotCleared ==
  /\ CanMap /\ ReadAll
  /\ ~(Bytes(RestStart, Rest) \subseteq DOMAIN Allocated)
  /\ status' = "dead"
  /\ UNCHANGED <<mem, chunks, elf, next, result>>

LoadSegment ==
  /\ CanMap /\ ReadAll
  /\ Bytes(RestStart, Rest) \subseteq DOMAIN Allocated
  /\ mem' = Memset(Copied(seg.filesz), RestStart, Rest) /\ Recorded
  /\ NextSegment

-----------------------------------------------------------------------------
(* RunProgram, from InitSP on *)

Loaded == status = "loading" /\ next > Len(Segments)

InitSP ==
  /\ Loaded
  /\ AllocateStack
  /\ status' = "ready"
  /\ UNCHANGED <<elf, next, result>>

\* AllocateStack throws AllocationException outside of the try block.
InitSPFails ==
  /\ Loaded
  /\ Fails("exception")
  /\ UNCHANGED <<mem, chunks, elf, next>>

\* The program writes to its memory; one write in a run is enough to tell
\* memory that is zero from memory that has been used.
Store ==
  /\ status = "ready"
  /\ \E a \in DOMAIN mem : mem' = [mem EXCEPT ![a] = 255]
  /\ status' = "running"
  /\ UNCHANGED <<chunks, elf, next, result>>

Return ==
  /\ status \in {"ready", "running"}
  /\ FreeMemory
  /\ Fails("returned")
  /\ UNCHANGED <<elf, next>>

\* An exception of Run leaves RunProgram before FreeMemory.
Throw ==
  /\ status \in {"ready", "running"}
  /\ Fails("exception")
  /\ UNCHANGED <<mem, chunks, elf, next>>

\* The model is destroyed and another one is made, or the process ends.
NewModel ==
  /\ status \in {"idle", "dead"}
  /\ mem' = <<>> /\ chunks' = <<>> /\ elf' = NoElf /\ next' = 1
  /\ status' = "idle" /\ result' = "none"

Next == \/ Open \/ OpenFails
        \/ SkipSegment \/ SegmentOutOfMemory \/ SegmentNotMapped
        \/ SegmentNotRead \/ SegmentNotCleared \/ LoadSegment
        \/ InitSP \/ InitSPFails \/ Store \/ Return \/ Throw \/ NewModel

Spec == Init /\ [][Next]_vars

-----------------------------------------------------------------------------
(* Properties *)

SegmentBytes(s) == Bytes(s.vaddr, s.memsz)
LoadSegments    == {k \in DOMAIN Segments : Segments[k].load}
Stack           == Bytes(StackBegin, StackSize)

\* The pages a segment covers, in numbers that do not wrap.
Pages(s) == {AlignDown(a) : a \in SegmentBytes(s) \cup {s.vaddr}}

\* A program whose loadable segments share no page with one another or the
\* stack, as linkers make them.
PageDisjoint ==
  /\ \A j, k \in LoadSegments : j # k => Pages(Segments[j]) \cap Pages(Segments[k]) = {}
  /\ \A k \in LoadSegments : SegmentBytes(Segments[k]) \cap Stack = {}

\* The memory that allocated_chunks_ accounts for is the memory that is mapped,
\* whatever load has failed half-way and whatever overlaps: FreeMemory finds
\* every page, and unmaps none that it did not map.
Accounted == DOMAIN mem = UNION {ChunkBytes(c) : c \in Range(chunks)}

\* When RunProgram returns a code of Run, nothing is mapped: not the program,
\* not its stack, and not what earlier calls left that failed to load or threw.
FreedOnReturn == status = "idle" /\ result = "returned" => mem = <<>>

\* When Run is entered, every byte of every loadable segment is mapped, also
\* where AlignUp wraps or the segment ends in the last page: a segment for
\* which AllocateMemory maps too little never gets that far.
SegmentsMapped ==
  status = "ready" => \A k \in LoadSegments : SegmentBytes(Segments[k]) \subseteq DOMAIN mem

\* The non-loadable segments, which the loop maps and copies unless they are
\* empty, share no page with the loadable ones.
NotesApart(segments) ==
  \A j, k \in DOMAIN segments :
    ~segments[j].load /\ ~Skipped(segments[j]) /\ segments[k].load =>
      Pages(segments[j]) \cap Pages(segments[k]) = {}

\* Memory M holds the bytes the file has for a segment, then zeros.
HoldsImage(M, s) ==
  \A n \in 0 .. s.memsz - 1 :
    /\ s.vaddr + n \in DOMAIN M
    /\ M[s.vaddr + n] = IF n < s.filesz THEN s.data[n + 1] ELSE 0

\* When Run is entered, memory holds the image of the file: the bytes of each
\* loadable segment, then zeros, whatever earlier programs left in the pages.
ImageFaithful ==
  status = "ready" /\ PageDisjoint => \A k \in LoadSegments : HoldsImage(mem, Segments[k])
=============================================================================
