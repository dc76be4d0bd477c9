---------------------------- MODULE LoaderProofs ----------------------------
(***************************************************************************)
(* Theorems about Loader, for every address space, page size, stack and    *)
(* set of programs.                                                        *)
(***************************************************************************)
EXTENDS Loader, TLAPS

-----------------------------------------------------------------------------
(* Arithmetic, for any modulus *)

\* The remainder is below the modulus.
LEMMA ModRange == \A m \in Nat \ {0} : \A x \in Int : x % m \in 0 .. m - 1
  OBVIOUS

\* Numbers below the modulus are their own remainder.
LEMMA ModSmall == \A m \in Nat \ {0} : \A x \in 0 .. m - 1 : x % m = x
  OBVIOUS

\* A remainder is not more than the number.
LEMMA ModLower == \A m \in Nat \ {0} : \A x \in Nat : x % m \in Nat /\ x % m <= x
  OBVIOUS

\* Quotient and remainder make up the number.
LEMMA DivMod ==
  \A m \in Nat \ {0} : \A x \in Int : x \div m \in Int /\ x - (x % m) = m * (x \div m)
<1> SUFFICES ASSUME NEW m \in Nat \ {0}, NEW x \in Int
             PROVE  x \div m \in Int /\ x - (x % m) = m * (x \div m)
  OBVIOUS
<1>1. x \div m \in Int
  OBVIOUS
<1>2. x - (x % m) = m * (x \div m)
  OBVIOUS
<1>3. QED
  BY <1>1, <1>2

\* A multiple of the modulus below another one is a whole modulus below it.
LEMMA MultiplesApart ==
  \A m \in Nat \ {0} : \A p, q \in Int : m * p < m * q => m * p + m <= m * q
<1> SUFFICES ASSUME NEW m \in Nat \ {0}, NEW p \in Int, NEW q \in Int, m * p < m * q
             PROVE  m * p + m <= m * q
  OBVIOUS
<1>1. p < q
  OBVIOUS
<1>2. m * (p + 1) <= m * q
  BY <1>1
<1>3. QED
  BY <1>2

\* Rounding an address down to its page keeps it in the address space.
LEMMA AlignDownBounds ==
  \A v \in Nat : AlignDown(v) \in Nat /\ AlignDown(v) <= v
<1> SUFFICES ASSUME NEW v \in Nat
             PROVE  AlignDown(v) \in Nat /\ AlignDown(v) <= v
  OBVIOUS
<1>1. PageSize \in Nat \ {0}
  BY SpaceAssumption
<1>2. v % PageSize \in Nat /\ v % PageSize <= v
  BY <1>1, ModLower
<1>3. QED
  BY <1>2 DEF AlignDown

\* The page of an address: the multiple of the page size that is not above
\* it and less than a page below it.
LEMMA AlignDownPage ==
  \A v \in Nat : /\ v < AlignDown(v) + PageSize
                 /\ \E q \in Int : AlignDown(v) = PageSize * q
<1> SUFFICES ASSUME NEW v \in Nat
             PROVE  v < AlignDown(v) + PageSize /\ \E q \in Int : AlignDown(v) = PageSize * q
  OBVIOUS
<1>1. PageSize \in Nat \ {0}
  BY SpaceAssumption
<1>2. v % PageSize \in 0 .. PageSize - 1
  BY <1>1, ModRange
<1>3. v \div PageSize \in Int /\ AlignDown(v) = PageSize * (v \div PageSize)
  BY <1>1, DivMod DEF AlignDown
<1>4. v < AlignDown(v) + PageSize
  BY <1>1, <1>2 DEF AlignDown
<1>5. QED
  BY <1>3, <1>4

\* AlignUp gives a whole number of pages, and less than a page too much; it
\* gives too little where it wraps.
LEMMA AlignUpBounds ==
  \A y \in Nat : /\ AlignUp(y) \in Int /\ AlignUp(y) <= y + PageSize - 1
                 /\ \E q \in Int : AlignUp(y) = PageSize * q
<1> SUFFICES ASSUME NEW y \in Nat
             PROVE  /\ AlignUp(y) \in Int /\ AlignUp(y) <= y + PageSize - 1
                    /\ \E q \in Int : AlignUp(y) = PageSize * q
  OBVIOUS
<1>1. PageSize \in Nat \ {0} /\ Space \in Nat \ {0}
  BY SpaceAssumption DEF StackSize
<1> DEFINE a == y % Space
           b == (a + PageSize - 1) % Space
           q == b \div PageSize
<1>2. a \in Nat /\ a <= y
  BY <1>1, ModLower
<1>3. a + PageSize - 1 \in Nat
  BY <1>1, <1>2
<1>4. b \in Nat /\ b <= a + PageSize - 1
  BY <1>1, <1>3, ModLower
<1>5. AlignUp(y) = q * PageSize
  BY DEF AlignUp
<1> HIDE DEF a, b
<1>6. q \in Int /\ b - (b % PageSize) = PageSize * q
  BY <1>1, <1>4, DivMod
<1>7. b % PageSize \in Nat
  BY <1>1, <1>4, ModLower
<1> HIDE DEF q
<1>8. AlignUp(y) = PageSize * q /\ PageSize * q \in Int
  BY <1>1, <1>5, <1>6
<1>9. QED
  BY <1>1, <1>2, <1>4, <1>6, <1>7, <1>8

\* The stack ends below the last byte of the address space.
LEMMA StackBounds ==
  /\ StackBegin \in Nat /\ StackSize \in Nat
  /\ StackBegin + StackSize <= Size
<1>1. StackSize \in Nat /\ StackSize + 2 * PageSize <= Space /\ Space \in Nat
  BY SpaceAssumption DEF StackSize
<1>2. Size - StackSize \in Nat
  BY <1>1, SpaceAssumption DEF Size
<1>3. QED
  BY <1>1, <1>2, AlignDownBounds DEF StackBegin, Size

\* Appending a chunk to allocated_chunks_ adds it to the range.
LEMMA RangeAppend ==
  \A s \in Seq(Int \X Int), e \in Int \X Int : Range(Append(s, e)) = Range(s) \cup {e}
<1> SUFFICES ASSUME NEW s \in Seq(Int \X Int), NEW e \in Int \X Int
             PROVE  Range(Append(s, e)) = Range(s) \cup {e}
  OBVIOUS
<1>1. DOMAIN s = 1 .. Len(s) /\ Len(s) \in Nat
  OBVIOUS
<1>2. DOMAIN Append(s, e) = 1 .. Len(s) + 1
  BY <1>1
<1>3. \A k \in 1 .. Len(s) : Append(s, e)[k] = s[k]
  BY <1>1
<1>4. Append(s, e)[Len(s) + 1] = e
  BY <1>1
<1>5. 1 .. Len(s) + 1 = (1 .. Len(s)) \cup {Len(s) + 1}
  BY <1>1
<1>6. QED
  BY <1>1, <1>2, <1>3, <1>4, <1>5 DEF Range

-----------------------------------------------------------------------------
(* The inductive invariant *)

\* Types, and that the last byte of the address space is never mapped: the
\* bound of AllocateMemory is one byte short of the space, and the stack ends
\* a page before it.
MemoryInv ==
  /\ chunks \in Seq(Int \X Int)
  /\ elf \in Elfs \cup {NoElf}
  /\ next \in Nat \ {0}
  /\ DOMAIN mem \subseteq 0 .. Size - 1
  /\ Accounted

\* The segments that the loop has passed are mapped.
LoadedMapped ==
  status \in {"loading", "ready"} =>
    \A k \in LoadSegments : k < next => SegmentBytes(Segments[k]) \subseteq DOMAIN mem

LoaderInv ==
  /\ MemoryInv
  /\ FreedOnReturn
  /\ LoadedMapped
  /\ status = "ready" => next > Len(Segments)

\* A chunk that is mapped and recorded keeps the account.
LEMMA MapAndRecord ==
  ASSUME MemoryInv, NEW b \in Nat, NEW n \in Int, b + n <= Size,
         DOMAIN mem' = Bytes(b, n) \cup DOMAIN mem,
         chunks' = Append(chunks, <<b, n>>)
  PROVE  /\ chunks' \in Seq(Int \X Int)
         /\ DOMAIN mem' \subseteq 0 .. Size - 1
         /\ DOMAIN mem \subseteq DOMAIN mem'
         /\ Accounted'
<1>1. <<b, n>> \in Int \X Int /\ chunks \in Seq(Int \X Int)
  BY DEF MemoryInv
<1>2. chunks' \in Seq(Int \X Int)
  BY <1>1
<1>3. Range(chunks') = Range(chunks) \cup {<<b, n>>}
  BY <1>1, RangeAppend
<1>4. ChunkBytes(<<b, n>>) = Bytes(b, n)
  BY DEF ChunkBytes
<1>5. Accounted'
  <2> DEFINE S == Range(chunks)
             T == Range(chunks')
             before == UNION {ChunkBytes(c) : c \in S}
             after  == UNION {ChunkBytes(c) : c \in T}
  <2>1. T = S \cup {<<b, n>>}
    BY <1>3
  <2>2. DOMAIN mem = before
    BY DEF Accounted, MemoryInv
  <2>3. Accounted' <=> DOMAIN mem' = after
    BY DEF Accounted
  <2> HIDE DEF S, T
  <2>4. after = before \cup ChunkBytes(<<b, n>>)
    <3>1. ASSUME NEW x PROVE x \in after <=> x \in before \/ x \in ChunkBytes(<<b, n>>)
      BY <2>1
    <3> HIDE DEF before, after
    <3> QED  BY <3>1
  <2> HIDE DEF before, after
  <2> QED  BY <1>4, <2>2, <2>3, <2>4
<1>6. Bytes(b, n) \subseteq 0 .. Size - 1
  BY SpaceAssumption DEF Bytes, Size
<1>7. QED
  BY <1>2, <1>5, <1>6 DEF MemoryInv

\* The program header table is a sequence of segments.
LEMMA SegmentsType ==
  ASSUME MemoryInv
  PROVE  Segments \in Seq(Segment)
<1>1. CASE elf \in Elfs
  BY <1>1, ElfsAssumption DEF Elf, Segments
<1>2. CASE elf = NoElf
  <2>1. Segments = <<>>
    BY <1>2 DEF NoElf, Segments
  <2>2. QED
    BY <2>1
<1>3. QED
  BY <1>1, <1>2 DEF MemoryInv

\* What is known of the segment the loop is at.
LEMMA SegmentType ==
  ASSUME MemoryInv, Loading
  PROVE  /\ seg \in Segment
         /\ next \in DOMAIN Segments
         /\ seg.filesz <= seg.memsz
<1>1. elf \in Elfs
  <2>1. CASE elf = NoElf
    BY <2>1 DEF Loading, Segments, NoElf, MemoryInv
  <2>2. QED
    BY <2>1 DEF MemoryInv
<1>2. Segments \in Seq(Segment)
  BY <1>1, ElfsAssumption DEF Elf, Segments
<1>3. next \in 1 .. Len(Segments)
  BY <1>2 DEF Loading, MemoryInv
<1>4. next \in DOMAIN Segments /\ seg \in Segment
  BY <1>2, <1>3 DEF seg
<1>5. seg \in Range(elf.segments)
  BY <1>4 DEF Range, seg, Segments
<1>6. QED
  BY <1>1, <1>4, <1>5, ElfsAssumption

\* AllocateMemory maps a chunk inside the address space.
LEMMA AllocatedBounds ==
  ASSUME MemoryInv, CanMap
  PROVE  /\ AlignDown(seg.vaddr) \in Nat /\ Length \in Int
         /\ AlignDown(seg.vaddr) + Length <= Size
         /\ DOMAIN Allocated = Bytes(AlignDown(seg.vaddr), Length) \cup DOMAIN mem
<1>1. seg \in Segment
  BY SegmentType DEF CanMap
<1>2. seg.vaddr \in Nat /\ seg.memsz \in Nat /\ Size \in Int
  BY <1>1, SpaceAssumption DEF Segment, Size
<1>3. AlignDown(seg.vaddr) \in Nat /\ AlignDown(seg.vaddr) <= seg.vaddr
  BY <1>2, AlignDownBounds
<1>4. Length \in Int
  <2>1. seg.memsz + seg.vaddr - AlignDown(seg.vaddr) \in Nat
    BY <1>2, <1>3
  <2>2. QED
    BY <2>1, AlignUpBounds DEF Length
<1>5. AlignDown(seg.vaddr) + Length <= Size
  BY <1>2, <1>3, <1>4 DEF CanMap, OutOfMemory
<1>6. QED
  BY <1>3, <1>4, <1>5 DEF Allocated, MappedAt

\* The start of the cleared rest does not wrap: the copied part would have to
\* hold the last byte of the address space, which is never mapped.
LEMMA RestStartExact ==
  ASSUME MemoryInv, CanMap, ReadAll
  PROVE  RestStart = seg.vaddr + seg.filesz
<1>1. seg.vaddr \in 0 .. Space - 1 /\ seg.filesz \in Nat /\ Space \in Nat
  BY SegmentType, SpaceAssumption DEF CanMap, Segment, Size
<1>2. DOMAIN Allocated \subseteq 0 .. Space - 2
  BY AllocatedBounds, SpaceAssumption DEF Bytes, Size, MemoryInv
<1>3. Bytes(seg.vaddr, seg.filesz) \subseteq DOMAIN Allocated
  BY DEF ReadAll
<1>4. seg.vaddr + seg.filesz < Space
  <2>1. CASE seg.filesz = 0
    BY <2>1, <1>1
  <2>2. CASE seg.filesz > 0
    <3>1. seg.vaddr + seg.filesz - 1 \in Bytes(seg.vaddr, seg.filesz)
      BY <2>2, <1>1 DEF Bytes
    <3>2. QED
      BY <3>1, <1>1, <1>2, <1>3
  <2>3. QED
    BY <1>1, <2>1, <2>2
<1>5. Space \in Nat \ {0} /\ seg.vaddr + seg.filesz \in 0 .. Space - 1
  BY <1>1, <1>4
<1>6. QED
  BY <1>5, ModSmall, Zenon DEF RestStart

\* What LoadSegment copies and clears are the bytes of the segment.
LEMMA CopiedAndCleared ==
  ASSUME MemoryInv, CanMap, ReadAll
  PROVE  SegmentBytes(seg) = Bytes(seg.vaddr, seg.filesz) \cup Bytes(RestStart, Rest)
<1>1. /\ seg.vaddr \in Nat /\ seg.filesz \in Nat /\ seg.memsz \in Nat
      /\ seg.filesz <= seg.memsz
  BY SegmentType, SpaceAssumption DEF CanMap, Segment, Size
<1>2. RestStart = seg.vaddr + seg.filesz
  BY RestStartExact
<1>3. QED
  BY <1>1, <1>2 DEF SegmentBytes, Bytes, Rest

\* A segment that LoadSegment has copied and cleared is mapped.
LEMMA LoadedSegmentMapped ==
  ASSUME MemoryInv, CanMap, ReadAll,
         Bytes(RestStart, Rest) \subseteq DOMAIN Allocated
  PROVE  SegmentBytes(seg) \subseteq DOMAIN Allocated
  BY CopiedAndCleared DEF ReadAll

-----------------------------------------------------------------------------
(* The invariant holds *)

\* A model that has run nothing satisfies the invariant.
LEMMA LoaderInvInit == Init => LoaderInv
<1> SUFFICES ASSUME Init PROVE LoaderInv
  OBVIOUS
<1>1. DOMAIN mem = {} /\ chunks \in Seq(Int \X Int) /\ Range(chunks) = {}
  BY DEF Init, Range
<1>2. MemoryInv
  BY <1>1, SpaceAssumption DEF Init, MemoryInv, Accounted, Size
<1>3. QED
  BY <1>2 DEF Init, LoaderInv, FreedOnReturn, LoadedMapped

\* A step that leaves memory alone and ends the call.
LEMMA CallFails ==
  ASSUME LoaderInv, UNCHANGED <<mem, chunks, elf, next>>,
         NEW code, code # "returned", Fails(code)
  PROVE  LoaderInv'
<1>1. MemoryInv'
  BY DEF LoaderInv, MemoryInv, Accounted
<1>2. QED
  BY <1>1 DEF Fails, LoaderInv, FreedOnReturn, LoadedMapped

\* The loop goes on to the next segment.
LEMMA SegmentPassed ==
  ASSUME LoaderInv, Loading, NextSegment, MemoryInv',
         DOMAIN mem \subseteq DOMAIN mem',
         seg.load => SegmentBytes(seg) \subseteq DOMAIN mem'
  PROVE  LoaderInv'
<1>1. next \in Nat /\ next' = next + 1 /\ elf' = elf /\ status = "loading" /\ status' = "loading"
  BY DEF LoaderInv, MemoryInv, NextSegment, Loading
<1>2. Segments' = Segments /\ LoadSegments' = LoadSegments
  BY <1>1 DEF Segments, LoadSegments
<1>3. next \in DOMAIN Segments /\ Segments[next] = seg
  BY SegmentType DEF LoaderInv, seg
<1>4. DOMAIN Segments \subseteq Nat
  <2>1. Segments \in Seq(Segment)
    BY SegmentsType DEF LoaderInv
  <2>2. QED
    BY <2>1
<1>5. LoadedMapped'
  <2>1. SUFFICES ASSUME NEW k \in LoadSegments, k < next + 1
                 PROVE  SegmentBytes(Segments[k]) \subseteq DOMAIN mem'
    BY <1>1, <1>2 DEF LoadedMapped, SegmentBytes, Bytes
  <2>2. CASE k = next
    BY <2>1, <2>2, <1>3 DEF LoadSegments
  <2>3. CASE k < next
    BY <2>1, <2>3, <1>1 DEF LoaderInv, LoadedMapped
  <2>4. QED
    BY <1>1, <1>4, <2>1, <2>2, <2>3 DEF LoadSegments
<1>6. QED
  BY <1>1, <1>5 DEF LoaderInv, FreedOnReturn

\* Every step of RunProgram, failing ones included, keeps the invariant.
LEMMA LoaderInvNext == LoaderInv /\ [Next]_vars => LoaderInv'
<1> SUFFICES ASSUME LoaderInv, [Next]_vars PROVE LoaderInv'
  OBVIOUS
<1> USE DEF Fails
<1>0. MemoryInv
  BY DEF LoaderInv
<1>1. CASE Open
  <2>1. elf' \in Elfs /\ next' = 1 /\ UNCHANGED <<mem, chunks>>
    BY <1>1 DEF Open
  <2>2. MemoryInv'
    BY <1>0, <2>1 DEF MemoryInv, Accounted
  <2>3. status' # "ready" /\ result' # "returned"
    BY <1>1 DEF Open
  <2>4. DOMAIN Segments' \subseteq Nat \ {0}
    <3>1. Segments' \in Seq(Segment)
      BY <2>1, ElfsAssumption DEF Elf, Segments
    <3>2. QED
      BY <3>1
  <2>5. LoadedMapped'
    BY <2>1, <2>4 DEF LoadedMapped, LoadSegments
  <2>6. QED
    BY <2>2, <2>3, <2>5 DEF LoaderInv, FreedOnReturn
<1>2. CASE OpenFails
  BY <1>2, CallFails DEF OpenFails
<1>3. CASE SkipSegment
  <2>1. MemoryInv'
    BY <1>0, <1>3 DEF SkipSegment, NextSegment, MemoryInv, Accounted
  <2>2. ~seg.load
    BY <1>3 DEF SkipSegment, Skipped
  <2>3. QED
    BY <1>3, <2>1, <2>2, SegmentPassed DEF SkipSegment
<1>4. CASE SegmentOutOfMemory
  BY <1>4, CallFails DEF SegmentOutOfMemory
<1>5. CASE SegmentNotMapped
  BY <1>5, CallFails DEF SegmentNotMapped
<1>6. CASE SegmentNotRead
  <2>1. CanMap /\ Recorded /\ DOMAIN mem' = DOMAIN Allocated /\ UNCHANGED <<elf, next>>
    BY <1>6 DEF SegmentNotRead, Copied
  <2>2. MemoryInv'
    BY <1>0, <2>1, AllocatedBounds, MapAndRecord DEF MemoryInv, Recorded
  <2>3. QED
    BY <1>6, <2>2 DEF SegmentNotRead, LoaderInv, FreedOnReturn, LoadedMapped
<1>7. CASE SegmentNotCleared
  <2>1. MemoryInv'
    BY <1>0, <1>7 DEF SegmentNotCleared, MemoryInv, Accounted
  <2>2. QED
    BY <1>7, <2>1 DEF SegmentNotCleared, LoaderInv, FreedOnReturn, LoadedMapped
<1>8. CASE LoadSegment
  <2>1. /\ CanMap /\ ReadAll /\ Recorded /\ NextSegment
        /\ Bytes(RestStart, Rest) \subseteq DOMAIN Allocated
        /\ DOMAIN mem' = DOMAIN Allocated
    BY <1>8 DEF LoadSegment, Memset, Copied
  <2>2. MemoryInv' /\ DOMAIN mem \subseteq DOMAIN mem'
    <3>1. /\ AlignDown(seg.vaddr) \in Nat /\ Length \in Int
          /\ AlignDown(seg.vaddr) + Length <= Size
          /\ DOMAIN mem' = Bytes(AlignDown(seg.vaddr), Length) \cup DOMAIN mem
          /\ chunks' = Append(chunks, <<AlignDown(seg.vaddr), Length>>)
      BY <1>0, <2>1, AllocatedBounds DEF Recorded
    <3>2. elf' \in Elfs \cup {NoElf} /\ next' \in Nat \ {0}
      BY <1>0, <2>1 DEF MemoryInv, NextSegment
    <3>3. /\ chunks' \in Seq(Int \X Int) /\ DOMAIN mem' \subseteq 0 .. Size - 1
          /\ DOMAIN mem \subseteq DOMAIN mem' /\ Accounted'
      BY <1>0, <3>1, MapAndRecord
    <3>4. QED
      BY <3>2, <3>3 DEF MemoryInv
  <2>3. SegmentBytes(seg) \subseteq DOMAIN mem'
    BY <1>0, <2>1, LoadedSegmentMapped
  <2>4. QED
    BY <2>1, <2>2, <2>3, SegmentPassed DEF CanMap
<1>9. CASE InitSP
  <2>1. /\ DOMAIN mem' = Bytes(StackBegin, StackSize) \cup DOMAIN mem
        /\ chunks' = Append(chunks, <<StackBegin, StackSize>>)
        /\ UNCHANGED <<elf, next>>
    BY <1>9 DEF InitSP, AllocateStack, MappedAt
  <2>2. MemoryInv' /\ DOMAIN mem \subseteq DOMAIN mem'
    <3>1. StackBegin \in Nat /\ StackSize \in Int /\ StackBegin + StackSize <= Size
      BY StackBounds
    <3>2. QED
      BY <1>0, <2>1, <3>1, MapAndRecord DEF MemoryInv
  <2>3. Segments' = Segments /\ LoadSegments' = LoadSegments
    BY <2>1 DEF Segments, LoadSegments
  <2>4. LoadedMapped'
    BY <1>9, <2>1, <2>2, <2>3 DEF InitSP, Loaded, LoaderInv, LoadedMapped, SegmentBytes, Bytes
  <2>5. QED
    BY <1>9, <2>1, <2>2, <2>3, <2>4 DEF InitSP, Loaded, LoaderInv, FreedOnReturn
<1>10. CASE InitSPFails
  BY <1>10, CallFails DEF InitSPFails
<1>11. CASE Store
  <2>1. DOMAIN mem' = DOMAIN mem /\ UNCHANGED <<chunks, elf, next>> /\ status' = "running"
    BY <1>11 DEF Store
  <2>2. MemoryInv'
    BY <1>0, <2>1 DEF MemoryInv, Accounted
  <2>3. QED
    BY <2>1, <2>2 DEF LoaderInv, FreedOnReturn, LoadedMapped
<1>12. CASE Return
  <2>1. chunks' = <<>> /\ DOMAIN mem' = {} /\ mem' = <<>> /\ UNCHANGED <<elf, next>>
    BY <1>0, <1>12 DEF Return, FreeMemory, MemoryInv, Accounted
  <2>2. Range(chunks') = {} /\ chunks' \in Seq(Int \X Int)
    BY <2>1 DEF Range
  <2>3. MemoryInv'
    BY <1>0, <2>1, <2>2 DEF MemoryInv, Accounted
  <2>4. QED
    BY <1>12, <2>1, <2>3 DEF Return, LoaderInv, FreedOnReturn, LoadedMapped
<1>13. CASE Throw
  BY <1>13, CallFails DEF Throw
<1>14. CASE NewModel
  <2>1. Init'
    BY <1>14 DEF NewModel, Init
  <2>2. QED
    BY <2>1, LoaderInvInit, PTL
<1>15. CASE UNCHANGED vars
  BY <1>15 DEF vars, LoaderInv, MemoryInv, Accounted, FreedOnReturn, LoadedMapped, LoadSegments, Segments, SegmentBytes
<1>16. QED
  BY <1>1, <1>2, <1>3, <1>4, <1>5, <1>6, <1>7, <1>8, <1>9, <1>10, <1>11, <1>12, <1>13, <1>14, <1>15 DEF Next

\* The invariant holds in every state.
LEMMA LoaderInvariant == Spec => []LoaderInv
  BY LoaderInvInit, LoaderInvNext, PTL DEF Spec

-----------------------------------------------------------------------------
(* The image in memory *)

\* The segments that the loop has passed are in memory as the file has them.
LoadedFaithful ==
  status \in {"loading", "ready"} /\ PageDisjoint =>
    \A k \in LoadSegments : k < next => HoldsImage(mem, Segments[k])

\* Every page that AllocateMemory maps for a segment is a page of the segment.
LEMMA ChunkPages ==
  ASSUME MemoryInv, CanMap, NEW a \in Bytes(AlignDown(seg.vaddr), Length)
  PROVE  AlignDown(a) \in Pages(seg)
<1> DEFINE v == seg.vaddr
           d == AlignDown(v)
           p == AlignDown(a)
<1>1. v \in Nat /\ seg.memsz \in Nat /\ PageSize \in Nat \ {0}
  BY SegmentType, SpaceAssumption DEF CanMap, Segment, Size
<1>2. d \in Nat /\ d <= v /\ v < d + PageSize /\ Length \in Int
  BY <1>1, AlignDownBounds, AlignDownPage, AllocatedBounds
<1>3. a \in Nat /\ d <= a /\ a < d + Length
  BY <1>2 DEF Bytes
<1>4. p \in Nat /\ p <= a /\ a < p + PageSize
  BY <1>3, AlignDownBounds, AlignDownPage
<1>5. PICK i \in Int : d = PageSize * i
  BY <1>1, AlignDownPage
<1>6. PICK j \in Int : p = PageSize * j
  BY <1>3, AlignDownPage
<1>7. seg.memsz + v - d \in Nat
  BY <1>1, <1>2
<1>8. Length <= seg.memsz + v - d + PageSize - 1 /\ \E l \in Int : Length = PageSize * l
  BY <1>7, AlignUpBounds DEF Length
<1>9. PICK l \in Int : Length = PageSize * l
  BY <1>8
<1>10. p = AlignDown(p)
  <2>1. p % PageSize = 0
    BY <1>1, <1>6
  <2>2. QED
    BY <2>1, <1>4 DEF AlignDown
<1> HIDE DEF d, p
<1>11. d <= p
  <2>1. SUFFICES ASSUME p < d PROVE FALSE
    BY <1>2, <1>4
  <2>2. p + PageSize <= d
    BY <2>1, <1>1, <1>5, <1>6, MultiplesApart
  <2>3. QED
    BY <2>2, <1>1, <1>2, <1>3, <1>4
<1>12. CASE p = d
  BY <1>12 DEF Pages, d, p
<1>13. CASE d < p
  <2>1. d + PageSize <= p
    BY <1>13, <1>1, <1>5, <1>6, MultiplesApart
  <2>2. p + PageSize <= d + Length
    <3>1. d + Length = PageSize * (i + l)
      BY <1>1, <1>5, <1>9
    <3>2. p < d + Length
      BY <1>2, <1>3, <1>4
    <3>3. QED
      BY <3>1, <3>2, <1>1, <1>5, <1>6, <1>9, MultiplesApart
  <2>3. p \in SegmentBytes(seg)
    BY <2>1, <2>2, <1>1, <1>2, <1>4, <1>8 DEF SegmentBytes, Bytes
  <2>4. QED
    BY <2>3, <1>10 DEF Pages, p
<1>14. QED
  BY <1>2, <1>4, <1>11, <1>12, <1>13

\* LoadSegment leaves a byte alone whose page is not one of the segment's.
LEMMA OtherPagesKept ==
  ASSUME MemoryInv, LoadSegment, NEW a \in DOMAIN mem, AlignDown(a) \notin Pages(seg)
  PROVE  a \in DOMAIN mem' /\ mem'[a] = mem[a]
<1>1. CanMap /\ ReadAll /\ mem' = Memset(Copied(seg.filesz), RestStart, Rest)
  BY DEF LoadSegment
<1>2. a \notin Bytes(AlignDown(seg.vaddr), Length)
  BY <1>1, ChunkPages
<1>3. a \notin Bytes(seg.vaddr, seg.filesz) /\ a \notin Bytes(RestStart, Rest)
  BY <1>1, CopiedAndCleared DEF Pages
<1>4. a \in DOMAIN Allocated /\ Allocated[a] = mem[a]
  BY <1>2 DEF Allocated, MappedAt
<1>5. QED
  BY <1>1, <1>3, <1>4 DEF Memset, Copied

\* LoadSegment leaves the image of the segment in memory.
LEMMA SegmentCopied ==
  ASSUME MemoryInv, LoadSegment
  PROVE  HoldsImage(mem', seg)
<1>1. /\ CanMap /\ ReadAll /\ mem' = Memset(Copied(seg.filesz), RestStart, Rest)
      /\ Bytes(RestStart, Rest) \subseteq DOMAIN Allocated
  BY DEF LoadSegment
<1>2. seg.vaddr \in Nat /\ seg.filesz \in Nat /\ seg.memsz \in Nat /\ seg.filesz <= seg.memsz
  BY <1>1, SegmentType, SpaceAssumption DEF CanMap, Segment, Size
<1>3. RestStart = seg.vaddr + seg.filesz
  BY <1>1, RestStartExact
<1>4. SUFFICES ASSUME NEW n \in 0 .. seg.memsz - 1
               PROVE  /\ seg.vaddr + n \in DOMAIN mem'
                      /\ mem'[seg.vaddr + n] = IF n < seg.filesz THEN seg.data[n + 1] ELSE 0
  BY DEF HoldsImage
<1> DEFINE a == seg.vaddr + n
<1>5. n \in Nat /\ a \in SegmentBytes(seg) /\ a - seg.vaddr + 1 = n + 1
  BY <1>2 DEF SegmentBytes, Bytes
<1>6. a \in DOMAIN Allocated
  BY <1>1, <1>5, LoadedSegmentMapped
<1>7. CASE n < seg.filesz
  <2>1. a \in Bytes(seg.vaddr, seg.filesz) /\ a \notin Bytes(RestStart, Rest)
    BY <1>2, <1>3, <1>5, <1>7 DEF Bytes
  <2>2. QED
    BY <2>1, <1>1, <1>5, <1>6, <1>7 DEF Memset, Copied
<1>8. CASE ~(n < seg.filesz)
  <2>1. a \in Bytes(RestStart, Rest)
    BY <1>2, <1>3, <1>5, <1>8 DEF Bytes, Rest
  <2>2. QED
    BY <2>1, <1>1, <1>6, <1>8 DEF Memset, Copied
<1>9. QED
  BY <1>7, <1>8

\* A segment that is in memory stays there if its bytes do not change.
LEMMA ImageKept ==
  ASSUME NEW s, HoldsImage(mem, s),
         \A a \in SegmentBytes(s) : a \in DOMAIN mem => a \in DOMAIN mem' /\ mem'[a] = mem[a],
         s \in Segment
  PROVE  HoldsImage(mem', s)
<1>1. s.vaddr \in Nat /\ s.memsz \in Nat
  BY SpaceAssumption DEF Segment, Size
<1>2. \A n \in 0 .. s.memsz - 1 : s.vaddr + n \in SegmentBytes(s)
  BY <1>1 DEF SegmentBytes, Bytes
<1>3. QED
  BY <1>2 DEF HoldsImage

\* What a step does that keeps the program and enters no new part of the loop.
LEMMA FaithfulUnchanged ==
  ASSUME LoadedFaithful, UNCHANGED <<mem, elf>>, next' = next,
         status' \in {"loading", "ready"} => status \in {"loading", "ready"}
  PROVE  LoadedFaithful'
  BY DEF LoadedFaithful, PageDisjoint, LoadSegments, Segments, HoldsImage

\* The images of the segments stay in memory over every step, if the
\* non-loadable segments share no page with them.
LEMMA LoadedFaithfulNext ==
  ASSUME \A e \in Elfs : NotesApart(e.segments),
         LoaderInv, LoadedFaithful, [Next]_vars
  PROVE  LoadedFaithful'
<1> USE DEF Fails
<1>0. MemoryInv /\ Segments \in Seq(Segment)
  BY SegmentsType DEF LoaderInv
<1>1. CASE Open
  <2>1. next' = 1 /\ elf' \in Elfs
    BY <1>1 DEF Open
  <2>2. DOMAIN Segments' \subseteq Nat \ {0}
    <3>1. Segments' \in Seq(Segment)
      BY <2>1, ElfsAssumption DEF Elf, Segments
    <3>2. QED
      BY <3>1
  <2>3. QED
    BY <2>1, <2>2 DEF LoadedFaithful, LoadSegments
<1>2. CASE SkipSegment
  <2>1. /\ UNCHANGED <<mem, elf, status>> /\ next' = next + 1 /\ next \in Nat
        /\ ~Segments[next].load
    BY <1>0, <1>2 DEF SkipSegment, NextSegment, Skipped, seg, MemoryInv
  <2>2. \A k \in LoadSegments : k \in Nat /\ k # next
    BY <1>0, <2>1 DEF LoadSegments
  <2>3. \A k \in LoadSegments : k < next + 1 => k < next
    BY <2>1, <2>2
  <2>4. QED
    BY <2>1, <2>3 DEF LoadedFaithful, PageDisjoint, LoadSegments, Segments, HoldsImage
<1>3. CASE LoadSegment
  <2>1. /\ UNCHANGED <<elf, status>> /\ next' = next + 1 /\ next \in Nat
        /\ seg = Segments[next] /\ next \in DOMAIN Segments /\ ~Skipped(seg) /\ elf \in Elfs
    <3>1. /\ UNCHANGED <<elf, status>> /\ next' = next + 1 /\ next \in Nat /\ CanMap
      BY <1>0, <1>3 DEF LoadSegment, NextSegment, MemoryInv
    <3>2. next \in DOMAIN Segments
      BY <1>0, <3>1, SegmentType DEF CanMap
    <3>3. elf # NoElf
      BY <3>2 DEF Segments, NoElf
    <3>4. QED
      BY <1>0, <3>1, <3>2, <3>3 DEF CanMap, MemoryInv, seg
  <2>2. Segments' = Segments /\ LoadSegments' = LoadSegments /\ PageDisjoint' = PageDisjoint
    BY <2>1 DEF Segments, LoadSegments, PageDisjoint
  <2>3. SUFFICES ASSUME status \in {"loading", "ready"}, PageDisjoint,
                        NEW k \in LoadSegments, k < next + 1
                 PROVE  HoldsImage(mem', Segments[k])
    BY <2>1, <2>2 DEF LoadedFaithful
  <2>4. k \in Nat /\ k \in DOMAIN Segments /\ Segments[k].load /\ Segments[k] \in Segment
    BY <1>0 DEF LoadSegments
  <2>5. CASE k = next
    BY <1>0, <1>3, <2>1, <2>5, SegmentCopied
  <2>6. CASE k # next
    <3>1. HoldsImage(mem, Segments[k])
      BY <2>1, <2>3, <2>4, <2>6 DEF LoadedFaithful
    <3>2. Pages(seg) \cap Pages(Segments[k]) = {}
      <4>1. CASE seg.load
        BY <4>1, <2>1, <2>3, <2>4, <2>6 DEF PageDisjoint, LoadSegments
      <4>2. CASE ~seg.load
        BY <4>2, <2>1, <2>4 DEF NotesApart, Segments
      <4>3. QED
        BY <4>1, <4>2
    <3>3. \A a \in SegmentBytes(Segments[k]) :
            a \in DOMAIN mem => a \in DOMAIN mem' /\ mem'[a] = mem[a]
      BY <1>0, <1>3, <3>2, OtherPagesKept DEF Pages
    <3>4. QED
      BY <2>4, <3>1, <3>3, ImageKept
  <2>7. QED
    BY <2>5, <2>6
<1>4. CASE InitSP
  <2>1. /\ UNCHANGED <<elf, next>> /\ status = "loading"
        /\ mem' = MappedAt(StackBegin, StackSize)
    BY <1>4 DEF InitSP, Loaded, AllocateStack
  <2>2. Segments' = Segments /\ LoadSegments' = LoadSegments /\ PageDisjoint' = PageDisjoint
    BY <2>1 DEF Segments, LoadSegments, PageDisjoint
  <2>3. SUFFICES ASSUME PageDisjoint, NEW k \in LoadSegments, k < next
                 PROVE  HoldsImage(mem', Segments[k])
    BY <2>1, <2>2 DEF LoadedFaithful
  <2>4. HoldsImage(mem, Segments[k]) /\ Segments[k] \in Segment
    BY <1>0, <2>1, <2>3 DEF LoadedFaithful, LoadSegments
  <2>5. \A a \in SegmentBytes(Segments[k]) :
          a \in DOMAIN mem => a \in DOMAIN mem' /\ mem'[a] = mem[a]
    BY <2>1, <2>3 DEF PageDisjoint, Stack, MappedAt
  <2>6. QED
    BY <2>4, <2>5, ImageKept
<1>5. CASE \/ OpenFails \/ SegmentOutOfMemory \/ SegmentNotMapped \/ SegmentNotRead
           \/ SegmentNotCleared \/ InitSPFails \/ Store \/ Return \/ Throw \/ NewModel
  <2>1. status' \notin {"loading", "ready"}
    BY <1>5 DEF OpenFails, SegmentOutOfMemory, SegmentNotMapped, SegmentNotRead,
                SegmentNotCleared, InitSPFails, Store, Return, Throw, NewModel
  <2>2. QED
    BY <2>1 DEF LoadedFaithful
<1>6. CASE UNCHANGED vars
  BY <1>6, FaithfulUnchanged DEF vars
<1>7. QED
  BY <1>1, <1>2, <1>3, <1>4, <1>5, <1>6 DEF Next

-----------------------------------------------------------------------------
(* The theorems *)

\* When Run is entered the loop has passed every segment.
LEMMA PassedAll ==
  ASSUME LoaderInv, status = "ready"
  PROVE  \A k \in LoadSegments : k < next
<1>1. next \in Nat /\ next > Len(Segments)
  BY DEF LoaderInv, MemoryInv
<1>2. Segments \in Seq(Segment)
  BY SegmentsType DEF LoaderInv
<1>3. \A k \in LoadSegments : k \in 1 .. Len(Segments)
  BY <1>2 DEF LoadSegments
<1>4. QED
  BY <1>1, <1>2, <1>3

\* FreeMemory and the destructor of MMUFixedOffset unmap exactly what was
\* mapped: allocated_chunks_ covers the mapped memory after every sequence of
\* loads, failed loads, exceptions and runs.
THEOREM MemoryAccounted == Spec => []Accounted
<1>1. LoaderInv => Accounted
  BY DEF LoaderInv, MemoryInv
<1>2. QED
  BY <1>1, LoaderInvariant, PTL

\* A RunProgram that returns a code of Run leaves nothing mapped, whatever
\* earlier calls on the same model left behind.
THEOREM ReturnFrees == Spec => []FreedOnReturn
<1>1. LoaderInv => FreedOnReturn
  BY DEF LoaderInv
<1>2. QED
  BY <1>1, LoaderInvariant, PTL

\* Run is entered only with every byte of every loadable segment mapped: no
\* address, size or wrapped AlignUp makes LoadElf32IntoMemory succeed with a
\* segment that is only partly there.
THEOREM SegmentsAreMapped == Spec => []SegmentsMapped
<1>1. LoaderInv => SegmentsMapped
  BY PassedAll DEF LoaderInv, LoadedMapped, SegmentsMapped
<1>2. QED
  BY <1>1, LoaderInvariant, PTL

\* Run is entered with the program in memory as the file has it, byte by byte
\* and zeros where the file has none, whatever failed loads, exceptions and
\* earlier programs left in the pages: for programs whose segments, the
\* non-loadable ones included, share no page.
THEOREM ImageIsFaithful ==
  (\A e \in Elfs : NotesApart(e.segments)) => (Spec => []ImageFaithful)
<1> SUFFICES ASSUME \A e \in Elfs : NotesApart(e.segments)
             PROVE  Spec => []ImageFaithful
  OBVIOUS
<1>1. Init => LoadedFaithful
  BY DEF Init, LoadedFaithful
<1>2. LoaderInv /\ LoadedFaithful /\ [Next]_vars => LoadedFaithful'
  BY LoadedFaithfulNext
<1>3. Spec => []LoadedFaithful
  BY <1>1, <1>2, LoaderInvariant, PTL DEF Spec
<1>4. LoaderInv /\ LoadedFaithful => ImageFaithful
  BY PassedAll DEF LoadedFaithful, ImageFaithful
<1>5. QED
  BY <1>3, <1>4, LoaderInvariant, PTL
=============================================================================
