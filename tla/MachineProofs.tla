---------------------------- MODULE MachineProofs ----------------------------
(***************************************************************************)
(* Lemmas about the machine that the two models share: its powers of two,  *)
(* sums of bits and of bytes, the values its operators return, and what    *)
(* the traces of its registers and its memory tell of it.                  *)
(***************************************************************************)
EXTENDS TraceReplay, FiniteSetTheorems, WellFoundedInduction, TLAPS

-----------------------------------------------------------------------------
(* Least elements, for proofs by induction *)

\* A set of numbers has a least element.
LEMMA LeastElement ==
  ASSUME NEW T \in SUBSET Nat, T # {}
  PROVE  \E m \in T : \A n \in T : m <= n
<1>1. \E m \in T : \A n \in T : ~(<<n, m>> \in OpToRel(<, Nat))
  BY NatLessThanWellFounded, WFMin
<1>2. PICK m \in T : \A n \in T : ~(<<n, m>> \in OpToRel(<, Nat))
  BY <1>1
<1>3. ASSUME NEW n \in T
      PROVE  m <= n
  <2>1. ~(<<n, m>> \in {s \in Nat \X Nat : s[1] < s[2]})
    BY <1>2 DEF OpToRel
  <2> QED  BY <2>1
<1> QED  BY <1>3

\* A set of numbers that holds 0 and with n also n + 1 holds them all.
LEMMA Induction ==
  ASSUME NEW S, 0 \in S, \A n \in Nat : n \in S => n + 1 \in S
  PROVE  Nat \subseteq S
<1> SUFFICES ASSUME Nat \ S # {} PROVE FALSE
  OBVIOUS
<1>1. PICK m \in Nat \ S : \A n \in Nat \ S : m <= n
  BY LeastElement
<1>2. m # 0
  OBVIOUS
<1>3. m - 1 \in Nat /\ ~(m <= m - 1) /\ m = (m - 1) + 1
  BY <1>2
<1> QED  BY <1>1, <1>3

-----------------------------------------------------------------------------
(* Powers *)

\* The powers of two up to the size of a word are numbers.
LEMMA PowersOfTwo == \A n \in 0 .. XLEN : 2 ^ n \in Nat \ {0}
<1> DEFINE S == {n \in Nat : n <= XLEN => 2 ^ n \in Nat \ {0}}
<1>1. XLEN \in Nat
  BY ByteBitsAssumption DEF XLEN
<1>2. 0 \in S
  BY PowersAssumption
<1>3. ASSUME NEW n \in Nat, n \in S PROVE n + 1 \in S
  <2>1. CASE n + 1 <= XLEN
    <3>1. 2 ^ (n + 1) = 2 * 2 ^ n
      BY <1>1, <2>1, PowersAssumption
    <3>2. 2 ^ n \in Nat \ {0}
      BY <1>1, <1>3, <2>1
    <3> DEFINE p == 2 ^ n
               q == 2 ^ (n + 1)
    <3>3. p \in Nat \ {0} /\ q = 2 * p
      BY <3>1, <3>2
    <3> HIDE DEF p, q
    <3>4. q \in Nat \ {0}
      BY <3>3
    <3> QED  BY <3>4 DEF q
  <2> QED  BY <2>1
<1>4. Nat \subseteq S
  <2> HIDE DEF S
  <2> QED  BY <1>2, <1>3, Induction
<1> QED  BY <1>1, <1>4

\* A byte has ByteSize values, and so on for what bytes make.
LEMMA BytePowers ==
  /\ ByteSize \in Nat \ {0}
  /\ \A n \in 0 .. 4 : ByteSize ^ n \in Nat \ {0}
<1>1. ByteSize \in Nat \ {0}
  <2>1. ByteBits \in 0 .. XLEN
    BY ByteBitsAssumption DEF XLEN
  <2> QED  BY <2>1, PowersOfTwo DEF ByteSize
<1>2. ASSUME NEW n \in 0 .. 3, ByteSize ^ n \in Nat \ {0}
      PROVE  ByteSize ^ (n + 1) \in Nat \ {0}
  <2> DEFINE p == ByteSize ^ n
             q == ByteSize ^ (n + 1)
  <2>1. q = ByteSize * p /\ p \in Nat \ {0}
    BY <1>2, PowersAssumption
  <2> HIDE DEF p, q
  <2>2. q \in Nat \ {0}
    BY <1>1, <2>1
  <2> QED  BY <2>2 DEF q
<1> DEFINE S == {n \in Nat : n <= 4 => ByteSize ^ n \in Nat \ {0}}
<1>3. 0 \in S
  BY PowersAssumption
<1>4. \A n \in Nat : n \in S => n + 1 \in S
  BY <1>2
<1>5. Nat \subseteq S
  <2> HIDE DEF S
  <2> QED  BY <1>3, <1>4, Induction
<1> QED  BY <1>1, <1>5

\* The two parts that a shift cuts a word into.
LEMMA PowerProduct == \A s \in 0 .. XLEN : 2 ^ (XLEN - s) * 2 ^ s = WordSize
<1> DEFINE S == {s \in Nat : s <= XLEN => 2 ^ (XLEN - s) * 2 ^ s = WordSize}
<1>1. XLEN \in Nat
  BY ByteBitsAssumption DEF XLEN
<1>2. 0 \in S
  <2>1. 2 ^ (XLEN - 0) = WordSize
    BY <1>1 DEF WordSize
  <2> QED  BY <2>1, PowersAssumption, WordSizeAssumption
<1>3. ASSUME NEW s \in Nat, s \in S PROVE s + 1 \in S
  <2>1. CASE s + 1 <= XLEN
    <3> DEFINE a == 2 ^ (XLEN - (s + 1))
               b == 2 ^ s
               c == 2 ^ (XLEN - s)
               d == 2 ^ (s + 1)
    <3>1. d = 2 * b /\ b \in Nat /\ a \in Nat /\ c \in Nat
      BY <1>1, <2>1, PowersAssumption, PowersOfTwo
    <3>2. c = 2 * a
      <4> DEFINE n == XLEN - (s + 1)
      <4>1. n \in 0 .. XLEN - 1 /\ n + 1 = XLEN - s
        BY <1>1, <2>1
      <4>2. 2 ^ (n + 1) = 2 * 2 ^ n
        BY <4>1, PowersAssumption
      <4> QED  BY <4>1, <4>2
    <3>3. c * b = WordSize
      BY <1>1, <1>3, <2>1
    <3> HIDE DEF a, b, c, d
    <3>4. a * d = c * b
      BY <3>1, <3>2
    <3>5. a * d = WordSize
      BY <3>3, <3>4
    <3> QED  BY <3>5 DEF a, d
  <2> QED  BY <2>1
<1>4. Nat \subseteq S
  <2> HIDE DEF S
  <2> QED  BY <1>2, <1>3, Induction
<1> QED  BY <1>1, <1>4

LEMMA PowerBounds == \A s \in 0 .. XLEN : 2 ^ s \in 1 .. WordSize
<1> SUFFICES ASSUME NEW s \in 0 .. XLEN PROVE 2 ^ s \in 1 .. WordSize
  OBVIOUS
<1> DEFINE a == 2 ^ (XLEN - s)
           b == 2 ^ s
<1>1. XLEN - s \in 0 .. XLEN
  BY ByteBitsAssumption DEF XLEN
<1>2. a \in Nat \ {0} /\ b \in Nat \ {0} /\ a * b = WordSize
  BY <1>1, PowersOfTwo, PowerProduct
<1> HIDE DEF a, b
<1>3. b \in 1 .. WordSize
  BY <1>2
<1> QED  BY <1>3 DEF b

\* The powers that the immediates need.
LEMMA SmallPowers ==
  /\ 2 ^ 1 = 2 /\ 2 ^ 2 = 4 /\ 2 ^ 12 = 4096 /\ 2 ^ 20 = 1048576
  /\ WordSize >= 1048576 /\ WordSize - 8193 \in Word
<1>1. XLEN \in Nat /\ XLEN >= 24
  BY ByteBitsAssumption DEF XLEN
<1>2. \A n \in 0 .. 19 : 2 ^ (n + 1) = 2 * 2 ^ n
  BY <1>1, PowersAssumption
<1>3. 2 ^ 1 = 2 /\ 2 ^ 2 = 4 /\ 2 ^ 3 = 8 /\ 2 ^ 4 = 16
  <2>1. 2 ^ 1 = 2 * 2 ^ 0 /\ 2 ^ 0 = 1
    BY <1>2, PowersAssumption
  <2>2. 2 ^ 2 = 2 * 2 ^ 1
    BY <1>2, 1 + 1 = 2
  <2>3. 2 ^ 3 = 2 * 2 ^ 2
    BY <1>2, 2 + 1 = 3
  <2>4. 2 ^ 4 = 2 * 2 ^ 3
    BY <1>2, 3 + 1 = 4
  <2> QED  BY <2>1, <2>2, <2>3, <2>4
<1>4. 2 ^ 5 = 32 /\ 2 ^ 6 = 64 /\ 2 ^ 7 = 128 /\ 2 ^ 8 = 256
  <2>1. 2 ^ 5 = 2 * 2 ^ 4
    BY <1>2, 4 + 1 = 5
  <2>2. 2 ^ 6 = 2 * 2 ^ 5
    BY <1>2, 5 + 1 = 6
  <2>3. 2 ^ 7 = 2 * 2 ^ 6
    BY <1>2, 6 + 1 = 7
  <2>4. 2 ^ 8 = 2 * 2 ^ 7
    BY <1>2, 7 + 1 = 8
  <2> QED  BY <1>3, <2>1, <2>2, <2>3, <2>4
<1>5. 2 ^ 9 = 512 /\ 2 ^ 10 = 1024 /\ 2 ^ 11 = 2048 /\ 2 ^ 12 = 4096
  <2>1. 2 ^ 9 = 2 * 2 ^ 8
    BY <1>2, 8 + 1 = 9
  <2>2. 2 ^ 10 = 2 * 2 ^ 9
    BY <1>2, 9 + 1 = 10
  <2>3. 2 ^ 11 = 2 * 2 ^ 10
    BY <1>2, 10 + 1 = 11
  <2>4. 2 ^ 12 = 2 * 2 ^ 11
    BY <1>2, 11 + 1 = 12
  <2> QED  BY <1>4, <2>1, <2>2, <2>3, <2>4
<1>6. 2 ^ 13 = 8192 /\ 2 ^ 14 = 16384 /\ 2 ^ 15 = 32768 /\ 2 ^ 16 = 65536
  <2>1. 2 ^ 13 = 2 * 2 ^ 12
    BY <1>2, SMT, 12 + 1 = 13
  <2>2. 2 ^ 14 = 2 * 2 ^ 13
    BY <1>2, SMT, 13 + 1 = 14
  <2>3. 2 ^ 15 = 2 * 2 ^ 14
    BY <1>2, SMT, 14 + 1 = 15
  <2>4. 2 ^ 16 = 2 * 2 ^ 15
    BY <1>2, SMT, 15 + 1 = 16
  <2> QED  BY <1>5, <2>1, <2>2, <2>3, <2>4, SMT
<1>7. 2 ^ 17 = 131072 /\ 2 ^ 18 = 262144 /\ 2 ^ 19 = 524288 /\ 2 ^ 20 = 1048576
  <2>1. 2 ^ 17 = 2 * 2 ^ 16
    BY <1>2, SMT, 16 + 1 = 17
  <2>2. 2 ^ 18 = 2 * 2 ^ 17
    BY <1>2, SMT, 17 + 1 = 18
  <2>3. 2 ^ 19 = 2 * 2 ^ 18
    BY <1>2, SMT, 18 + 1 = 19
  <2>4. 2 ^ 20 = 2 * 2 ^ 19
    BY <1>2, SMT, 19 + 1 = 20
  <2> QED  BY <1>6, <2>1, <2>2, <2>3, <2>4, SMT
<1>8. 2 ^ 20 \in 1 .. WordSize
  <2>1. 20 \in 0 .. XLEN
    BY <1>1, SMT
  <2> QED  BY <2>1, PowerBounds
<1> QED  BY <1>3, <1>5, <1>7, <1>8, WordSizeAssumption, SMT DEF Word

-----------------------------------------------------------------------------
(* Sums over finite sets *)

Picked(s) == CHOOSE x \in s : TRUE

\* f gives the sum of the values of g over each subset of S.
Total(f, g, S) ==
  f = [s \in SUBSET S |-> IF s = {} THEN 0 ELSE g[Picked(s)] + f[s \ {Picked(s)}]]

LEMMA PickedIn == \A s : s # {} => Picked(s) \in s
  BY Zenon DEF Picked

LEMMA Smaller ==
  ASSUME NEW S, IsFiniteSet(S), NEW s \in SUBSET S, NEW x \in s
  PROVE  /\ Cardinality(s) \in Nat /\ s \ {x} \in SUBSET S
         /\ Cardinality(s \ {x}) = Cardinality(s) - 1
<1>1. IsFiniteSet(s)
  BY FS_Subset
<1> QED  BY <1>1, FS_CardinalityType, FS_RemoveElement

LEMMA TotalDefined ==
  ASSUME NEW S, IsFiniteSet(S), NEW g
  PROVE  \E f : Total(f, g, S)
<1> DEFINE D(n) == {s \in SUBSET S : Cardinality(s) <= n}
           Sum(f, s) == IF s = {} THEN 0 ELSE g[Picked(s)] + f[s \ {Picked(s)}]
           N == {n \in Nat : \E f : f = [s \in D(n) |-> Sum(f, s)]}
<1>1. ASSUME NEW n \in Nat, NEW s \in D(n + 1), s # {}
      PROVE  s \ {Picked(s)} \in D(n)
  <2>1. Picked(s) \in s
    BY <1>1, PickedIn
  <2> QED  BY <1>1, <2>1, Smaller
<1>2. 0 \in N
  <2> DEFINE f == [s \in D(0) |-> 0]
  <2>1. \A s \in D(0) : s = {}
    <3> SUFFICES ASSUME NEW s \in D(0), s # {} PROVE FALSE
      OBVIOUS
    <3>1. IsFiniteSet(s)
      BY FS_Subset
    <3> QED  BY <3>1, FS_CardinalityType, FS_EmptySet
  <2>2. f = [s \in D(0) |-> Sum(f, s)]
    BY <2>1
  <2> QED  BY <2>2
<1>3. ASSUME NEW n \in Nat, n \in N PROVE n + 1 \in N
  <2>1. PICK f : f = [s \in D(n) |-> Sum(f, s)]
    BY <1>3
  <2> DEFINE h == [s \in D(n + 1) |-> Sum(f, s)]
  <2>2. \A s \in D(n) : s \in D(n + 1)
    <3> SUFFICES ASSUME NEW s \in D(n) PROVE Cardinality(s) <= n + 1
      OBVIOUS
    <3>1. IsFiniteSet(s)
      BY FS_Subset
    <3> QED  BY <3>1, FS_CardinalityType
  <2>3. \A s \in D(n) : h[s] = f[s]
    <3> HIDE DEF D, Sum
    <3>1. \A s \in D(n) : f[s] = Sum(f, s)
      BY <2>1, Zenon
    <3> QED  BY <2>2, <3>1, Zenon
  <2>4. \A s \in D(n + 1) : Sum(f, s) = Sum(h, s)
    <3> HIDE DEF D, h
    <3> QED  BY <1>1, <2>3
  <2>5. h = [s \in D(n + 1) |-> Sum(h, s)]
    <3> HIDE DEF D, Sum
    <3> QED  BY <2>4
  <2> HIDE DEF h, D, Sum
  <2> QED  BY <2>5
<1>4. Nat \subseteq N
  <2> HIDE DEF N
  <2> QED  BY <1>2, <1>3, Induction
<1>5. Cardinality(S) \in Nat /\ D(Cardinality(S)) = SUBSET S
  BY FS_CardinalityType, FS_Subset
<1>6. \E f : f = [s \in D(Cardinality(S)) |-> Sum(f, s)]
  <2> HIDE DEF D, Sum
  <2> QED  BY <1>4, <1>5
<1> HIDE DEF D
<1> QED  BY <1>5, <1>6 DEF Total

\* The order in which the elements are taken does not matter.
LEMMA TotalTakes ==
  ASSUME NEW S, IsFiniteSet(S), NEW g, \A x \in S : g[x] \in Nat,
         NEW f, Total(f, g, S)
  PROVE  /\ f[{}] = 0 /\ \A s \in SUBSET S : f[s] \in Nat
         /\ \A s \in SUBSET S : \A x \in s : f[s] = g[x] + f[s \ {x}]
<1>1. /\ f[{}] = 0
      /\ \A s \in SUBSET S : s # {} => f[s] = g[Picked(s)] + f[s \ {Picked(s)}]
  BY Zenon DEF Total
<1> DEFINE Fine(s) == f[s] \in Nat /\ \A x \in s : f[s] = g[x] + f[s \ {x}]
           N == {n \in Nat : \A s \in SUBSET S : Cardinality(s) <= n => Fine(s)}
<1>2. \A s \in SUBSET S : Cardinality(s) \in Nat /\ (Cardinality(s) = 0 => s = {})
  BY FS_Subset, FS_CardinalityType, FS_EmptySet
<1>3. 0 \in N
  <2> SUFFICES ASSUME NEW s \in SUBSET S, Cardinality(s) <= 0 PROVE Fine(s)
    OBVIOUS
  <2>1. s = {}
    BY <1>2
  <2> QED  BY <1>1, <2>1
<1>4. ASSUME NEW n \in Nat, n \in N PROVE n + 1 \in N
  <2>0. Fine({})
    BY <1>1
  <2> HIDE DEF Fine
  <2> SUFFICES ASSUME NEW s \in SUBSET S, Cardinality(s) <= n + 1, s # {} PROVE Fine(s)
    BY <2>0
  <2> USE DEF Fine
  <2>1. \A t \in SUBSET S : Cardinality(t) <= n => Fine(t)
    BY <1>4
  <2> DEFINE p == Picked(s)
             t == s \ {p}
  <2>2. p \in s /\ p \in S
    BY PickedIn
  <2>3. t \in SUBSET S /\ Cardinality(t) <= n
    BY <1>2, <2>2, Smaller
  <2>4. Fine(t)
    BY <2>1, <2>3
  <2>5. f[s] = g[p] + f[t]
    BY <1>1
  <2>6. f[s] \in Nat
    BY <2>2, <2>4, <2>5
  <2>7. ASSUME NEW x \in s PROVE f[s] = g[x] + f[s \ {x}]
    <3>1. CASE x = p
      BY <2>5, <3>1
    <3>2. CASE x # p
      <4> DEFINE u == s \ {x}
                 both == t \ {x}
      <4>1. u \in SUBSET S /\ Cardinality(u) <= n /\ p \in u /\ x \in t /\ u \ {p} = both
        BY <1>2, <2>2, <3>2, Smaller
      <4>2. both \in SUBSET S /\ Cardinality(both) <= n
        BY <1>2, <2>3, <4>1, Smaller
      <4>3. Fine(u) /\ Fine(both)
        BY <2>1, <4>1, <4>2
      <4>4. f[t] = g[x] + f[both]
        BY <2>4, <4>1
      <4>5. f[u] = g[p] + f[both]
        BY <4>1, <4>3
      <4>6. f[both] \in Nat /\ g[x] \in Nat /\ g[p] \in Nat
        BY <2>2, <4>3
      <4> HIDE DEF u, t, both, p
      <4>7. f[s] = g[x] + f[u]
        BY <2>5, <4>4, <4>5, <4>6
      <4> QED  BY <4>7 DEF u
    <3> QED  BY <3>1, <3>2
  <2> QED  BY <2>6, <2>7
<1>5. Nat \subseteq N
  <2> HIDE DEF N
  <2> QED  BY <1>3, <1>4, Induction
<1>6. \A s \in SUBSET S : Fine(s)
  <2> SUFFICES ASSUME NEW s \in SUBSET S PROVE Fine(s)
    OBVIOUS
  <2>1. Cardinality(s) \in Nat /\ Cardinality(s) <= Cardinality(s)
    BY <1>2
  <2> QED  BY <1>5, <2>1
<1> QED  BY <1>1, <1>6

\* The sums that the model writes down.
LEMMA SumSetTotal ==
  ASSUME NEW T, IsFiniteSet(T)
  PROVE  \E f : Total(f, [x \in T |-> x], T) /\ SumSet(T) = f[T]
<1> DEFINE g == [x \in T |-> x]
           Solves(f) == f = [s \in SUBSET T |->
                               IF s = {} THEN 0
                               ELSE LET x == CHOOSE x \in s : TRUE IN x + f[s \ {x}]]
<1>1. \A f : Solves(f) <=> Total(f, g, T)
  <2> SUFFICES ASSUME NEW f PROVE Solves(f) <=> Total(f, g, T)
    OBVIOUS
  <2>1. \A s \in SUBSET T : s # {} => g[Picked(s)] = Picked(s)
    BY PickedIn
  <2>2. [s \in SUBSET T |-> IF s = {} THEN 0 ELSE g[Picked(s)] + f[s \ {Picked(s)}]]
          = [s \in SUBSET T |-> IF s = {} THEN 0 ELSE Picked(s) + f[s \ {Picked(s)}]]
    <3> HIDE DEF g
    <3> QED  BY <2>1
  <2> QED  BY <2>2 DEF Total, Picked
<1>2. SumSet(T) = (CHOOSE f : Solves(f))[T]
  BY Zenon DEF SumSet, FoldSet, MapThenFoldSet
<1> HIDE DEF Solves, g
<1>3. \E f : Solves(f)
  BY <1>1, TotalDefined
<1>4. Solves(CHOOSE f : Solves(f))
  BY <1>3, Zenon
<1> QED  BY <1>1, <1>2, <1>4 DEF g

LEMMA GetBytesTotal ==
  ASSUME NEW M, NEW a \in Nat, NEW n \in Nat
  PROVE  \E f : /\ Total(f, [k \in 0 .. n - 1 |-> M[a + k] * ByteSize ^ k], 0 .. n - 1)
                /\ GetBytes(M, a, n) = f[0 .. n - 1]
<1> DEFINE T == 0 .. n - 1
           b(k) == M[a + k] * ByteSize ^ k
           g == [k \in T |-> b(k)]
           Solves(f) == f = [s \in SUBSET T |->
                               IF s = {} THEN 0
                               ELSE LET x == CHOOSE x \in s : TRUE IN b(x) + f[s \ {x}]]
<1>1. \A f : Solves(f) <=> Total(f, g, T)
  <2> SUFFICES ASSUME NEW f PROVE Solves(f) <=> Total(f, g, T)
    OBVIOUS
  <2> HIDE DEF b, T
  <2>1. \A s \in SUBSET T : s # {} => g[Picked(s)] = b(Picked(s))
    BY PickedIn
  <2>2. [s \in SUBSET T |-> IF s = {} THEN 0 ELSE g[Picked(s)] + f[s \ {Picked(s)}]]
          = [s \in SUBSET T |-> IF s = {} THEN 0 ELSE b(Picked(s)) + f[s \ {Picked(s)}]]
    <3> HIDE DEF g
    <3> QED  BY <2>1
  <2> QED  BY <2>2 DEF Total, Picked
<1>2. GetBytes(M, a, n) = (CHOOSE f : Solves(f))[T]
  BY Zenon DEF GetBytes, MapThenSumSet, MapThenFoldSet
<1>3. IsFiniteSet(T)
  BY FS_Interval
<1> HIDE DEF Solves, g, T
<1>4. \E f : Solves(f)
  BY <1>1, <1>3, TotalDefined
<1>5. Solves(CHOOSE f : Solves(f))
  BY <1>4, Zenon
<1> QED  BY <1>1, <1>2, <1>5 DEF g, T

\* Bits make a word.
LEMMA FromBitsType ==
  ASSUME NEW S \in SUBSET (0 .. XLEN - 1)
  PROVE  FromBits(S) \in Word
<1> DEFINE T == {2 ^ i : i \in S}
           g == [x \in T |-> x]
           Low(n) == {2 ^ i : i \in 0 .. n - 1}
<1>1. XLEN \in Nat
  BY ByteBitsAssumption DEF XLEN
<1>2. IsFiniteSet(T) /\ \A x \in T : g[x] \in Nat /\ g[x] = x /\ x \in Nat
  <2>1. \A i \in 0 .. XLEN - 1 : 2 ^ i \in 1 .. WordSize
    BY <1>1, PowerBounds
  <2>2. T \in SUBSET (1 .. WordSize)
    BY <2>1
  <2>3. IsFiniteSet(1 .. WordSize)
    BY FS_Interval, WordSizeAssumption
  <2> HIDE DEF T
  <2>4. IsFiniteSet(T)
    BY <2>2, <2>3, FS_Subset
  <2>5. \A x \in T : x \in Nat
    BY <2>2
  <2> QED  BY <2>4, <2>5
<1>3. T \subseteq Low(XLEN)
  OBVIOUS
<1> HIDE DEF T
<1>4. PICK f : Total(f, g, T) /\ SumSet(T) = f[T]
  BY <1>2, SumSetTotal
<1>5. /\ f[{}] = 0 /\ \A s \in SUBSET T : f[s] \in Nat
      /\ \A s \in SUBSET T : \A x \in s : f[s] = x + f[s \ {x}]
  <2> HIDE DEF g
  <2>1. /\ f[{}] = 0 /\ \A s \in SUBSET T : f[s] \in Nat
        /\ \A s \in SUBSET T : \A x \in s : f[s] = g[x] + f[s \ {x}]
    <3>1. \A x \in T : g[x] \in Nat
      BY <1>2
    <3> QED  BY <1>2, <1>4, <3>1, TotalTakes
  <2> QED  BY <1>2, <2>1
<1> DEFINE Fits(n) == n <= XLEN => \A s \in SUBSET T : s \subseteq Low(n) => f[s] < 2 ^ n
           N == {n \in Nat : Fits(n)}
<1>6. 0 \in N
  <2>1. Low(0) = {}
    OBVIOUS
  <2>2. 2 ^ 0 = 1
    BY PowersAssumption
  <2>3. Fits(0)
    <3> HIDE DEF Low
    <3>1. \A s : s \subseteq {} => s = {}
      OBVIOUS
    <3>2. f[{}] < 2 ^ 0
      BY <1>5, <2>2
    <3> QED  BY <2>1, <3>1, <3>2
  <2> HIDE DEF Fits
  <2> QED  BY <2>3
<1>7. ASSUME NEW n \in Nat, n \in N PROVE n + 1 \in N
  <2>0. Fits(n)
    BY <1>7
  <2> HIDE DEF Fits
  <2> SUFFICES Fits(n + 1)
    OBVIOUS
  <2> USE DEF Fits
  <2> HIDE DEF Low
  <2> SUFFICES ASSUME n + 1 <= XLEN, NEW s \in SUBSET T, s \subseteq Low(n + 1)
               PROVE  f[s] < 2 ^ (n + 1)
    OBVIOUS
  <2> DEFINE p == 2 ^ n
             q == 2 ^ (n + 1)
  <2>1. p \in Nat /\ q = 2 * p
    BY <1>1, PowersOfTwo, PowersAssumption
  <2>2. \A t \in SUBSET T : t \subseteq Low(n) => f[t] < p
    BY <1>1, <2>0
  <2>3. Low(n + 1) \subseteq Low(n) \cup {p}
    <3> SUFFICES ASSUME NEW x \in Low(n + 1), x # p PROVE x \in Low(n)
      OBVIOUS
    <3>1. PICK i \in 0 .. (n + 1) - 1 : x = 2 ^ i
      BY DEF Low
    <3>2. i \in 0 .. n - 1
      BY <3>1
    <3> QED  BY <3>1, <3>2 DEF Low
  <2> HIDE DEF p, q
  <2>4. CASE p \in s
    <3>1. f[s] = p + f[s \ {p}] /\ f[s \ {p}] < p /\ f[s \ {p}] \in Nat
      BY <1>5, <2>2, <2>3, <2>4
    <3>2. f[s] < q
      BY <2>1, <3>1
    <3> QED  BY <3>2 DEF q
  <2>5. CASE p \notin s
    <3>1. f[s] < p /\ f[s] \in Nat
      BY <1>5, <2>2, <2>3, <2>5
    <3>2. f[s] < q
      BY <2>1, <3>1
    <3> QED  BY <3>2 DEF q
  <2> QED  BY <2>4, <2>5
<1>8. Nat \subseteq N
  <2> HIDE DEF N
  <2> QED  BY <1>6, <1>7, Induction
<1>9. f[T] < WordSize
  <2> HIDE DEF Low
  <2> QED  BY <1>1, <1>3, <1>8 DEF WordSize
<1> QED  BY <1>4, <1>5, <1>9, WordSizeAssumption DEF FromBits, Word, T

-----------------------------------------------------------------------------
(* Values that the operators return *)

ByteValues == 0 .. ByteSize - 1

LEMMA WordType == WordSize \in Nat /\ WordSize >= 4096 /\ \A v \in Word : v \in 0 .. WordSize - 1
  BY WordSizeAssumption, SMT DEF Word

LEMMA Remainder == \A v \in Int : v % WordSize \in Word
  BY WordType DEF Word

LEMMA SumType == \A a, b \in Int : Add(a, b) \in Word /\ Sub(a, b) \in Word
  BY Remainder DEF Add, Sub

LEMMA BitwiseType ==
  \A a, b : BitAnd(a, b) \in Word /\ BitOr(a, b) \in Word /\ BitXor(a, b) \in Word
<1> SUFFICES ASSUME NEW a, NEW b
             PROVE  BitAnd(a, b) \in Word /\ BitOr(a, b) \in Word /\ BitXor(a, b) \in Word
  OBVIOUS
<1>1. Bits(a) \in SUBSET (0 .. XLEN - 1) /\ Bits(b) \in SUBSET (0 .. XLEN - 1)
  BY DEF Bits
<1>2. /\ Bits(a) \cap Bits(b) \in SUBSET (0 .. XLEN - 1)
      /\ Bits(a) \cup Bits(b) \in SUBSET (0 .. XLEN - 1)
      /\ SymDiff(Bits(a), Bits(b)) \in SUBSET (0 .. XLEN - 1)
  BY <1>1 DEF SymDiff
<1> QED  BY <1>2, FromBitsType DEF BitAnd, BitOr, BitXor

LEMMA ShiftType ==
  ASSUME NEW a \in Word, NEW b \in Word
  PROVE  Sll(a, b) \in Word /\ Srl(a, b) \in Word /\ Sra(a, b) \in Word
<1> DEFINE s == b % 32
           p == 2 ^ s
           c == 2 ^ (XLEN - s)
<1>1. s \in Nat /\ XLEN \in Nat /\ a \in 0 .. WordSize - 1
  BY WordType, ByteBitsAssumption DEF XLEN
<1>2. CASE s >= XLEN
  BY <1>2, WordType DEF Sll, Srl, Sra, Word
<1>3. CASE ~(s >= XLEN)
  <2>1. p \in Nat \ {0} /\ c \in Nat \ {0} /\ c * p = WordSize
    <3>1. s \in 0 .. XLEN /\ XLEN - s \in 0 .. XLEN
      BY <1>1, <1>3
    <3> QED  BY <3>1, PowersOfTwo, PowerProduct
  <2>2. /\ Sll(a, b) = (a % c) * p /\ Srl(a, b) = a \div p
        /\ Sra(a, b) = (Signed(a) \div p) % WordSize
    BY <1>3 DEF Sll, Srl, Sra
  <2> HIDE DEF p, c, s
  <2>3. (a % c) * p \in 0 .. WordSize - 1
    <3> DEFINE r == a % c
    <3>1. r \in Nat /\ r + 1 <= c
      BY <1>1, <2>1
    <3> HIDE DEF r
    <3>2. (r + 1) * p <= c * p
      BY <2>1, <3>1
    <3>3. r * p \in Nat /\ r * p + p <= WordSize
      BY <2>1, <3>1, <3>2
    <3>4. r * p \in 0 .. WordSize - 1
      BY <2>1, <3>3, WordType
    <3> QED  BY <3>4 DEF r
  <2>4. a \div p \in 0 .. WordSize - 1
    <3> DEFINE q == a \div p
    <3>1. q \in Nat /\ p * q <= a
      BY <1>1, <2>1
    <3> HIDE DEF q
    <3>2. q <= p * q
      BY <2>1, <3>1
    <3>3. q \in 0 .. WordSize - 1
      BY <1>1, <2>1, <3>1, <3>2, WordType
    <3> QED  BY <3>3 DEF q
  <2>5. Signed(a) \div p \in Int
    <3>1. Signed(a) \in Int
      BY <1>1, WordType DEF Signed
    <3> QED  BY <2>1, <3>1
  <2> QED  BY <2>2, <2>3, <2>4, <2>5, Remainder DEF Word
<1> QED  BY <1>2, <1>3

\* The immediates of an instruction.
LEMMA InstrType ==
  ASSUME NEW i \in Instr
  PROVE  /\ i.opcode \in Opcodes /\ i.rd \in 0 .. 31 /\ i.funct3 \in 0 .. 7
         /\ i.rs1 \in 0 .. 31 /\ i.rs2 \in 0 .. 31 /\ i.funct7 \in 0 .. 127
  BY DEF Instr

LEMMA ExtendType ==
  ASSUME NEW i, NEW n \in 0 .. XLEN, NEW v \in Nat, v < 2 ^ n
  PROVE  Extend(v, n, i) \in Word
<1> DEFINE p == 2 ^ n
<1>1. p \in 1 .. WordSize
  BY PowerBounds
<1>2. Extend(v, n, i) \in {v, v + WordSize - p} /\ v < p
  BY DEF Extend
<1> HIDE DEF p
<1> QED  BY <1>1, <1>2, WordType DEF Word

LEMMA ImmediateType ==
  ASSUME NEW i \in Instr
  PROVE  /\ ImmI(i) \in Word /\ ImmS(i) \in Word /\ ImmB(i) \in Word
         /\ ImmU(i) \in Word /\ ImmJ(i) \in Word
<1> DEFINE a == i.rd
           b == i.funct3
           c == i.rs1
           d == i.rs2
           e == i.funct7
           u == ((e * 32 + d) * 32 + c) * 8 + b
           x == e * 32 + d
           y == e * 32 + a
           z == (a % 2) * 2048 + (e % 64) * 32 + 2 * (a \div 2)
<1>1. a \in 0 .. 31 /\ b \in 0 .. 7 /\ c \in 0 .. 31 /\ d \in 0 .. 31 /\ e \in 0 .. 127
  BY InstrType
<1>2. /\ ImmI(i) = Extend(x, 12, i) /\ ImmS(i) = Extend(y, 12, i)
      /\ ImmB(i) = Extend(z, 12, i)
      /\ ImmU(i) = (u % (WordSize \div 4096)) * 4096
      /\ ImmJ(i) = Extend((c * 8 + b) * 4096 + (d % 2) * 2048
                            + 2 * ((e % 64) * 16 + d \div 2), 20, i)
  BY DEF ImmI, ImmS, ImmB, ImmU, ImmJ
<1> HIDE DEF a, b, c, d, e
<1>3. x \in Nat /\ x < 4096 /\ y \in Nat /\ y < 4096
  <2>1. x \in Nat /\ x < 4096
    BY <1>1, SMT
  <2>2. y \in Nat /\ y < 4096
    BY <1>1, SMT
  <2> HIDE DEF x, y
  <2> QED  BY <2>1, <2>2
<1>4. z \in Nat /\ z < 4096
  <2> DEFINE f == a % 2
             g == e % 64
             h == a \div 2
             s == f * 2048 + g * 32 + 2 * h
  <2>1. f \in 0 .. 1 /\ g \in 0 .. 63
    BY <1>1, SMT
  <2>2. h \in 0 .. 15
    BY <1>1, SMT
  <2>3. z = s
    OBVIOUS
  <2> HIDE DEF f, g, h, z
  <2>4. s \in Nat /\ s < 4096
    BY <2>1, <2>2, SMT
  <2> HIDE DEF s
  <2> QED  BY <2>3, <2>4
<1> HIDE DEF x, y, z
<1>5. /\ (c * 8 + b) * 4096 + (d % 2) * 2048 + 2 * ((e % 64) * 16 + d \div 2) \in Nat
      /\ (c * 8 + b) * 4096 + (d % 2) * 2048 + 2 * ((e % 64) * 16 + d \div 2) < 2 ^ 20
  <2>1. d % 2 \in 0 .. 1 /\ e % 64 \in 0 .. 63 /\ d \div 2 \in 0 .. 15
    BY <1>1, SMT
  <2>2. c * 8 + b \in 0 .. 255
    BY <1>1, SMT
  <2> DEFINE f == d % 2
             g == e % 64
             h == d \div 2
             k == c * 8 + b
  <2>3. f \in 0 .. 1 /\ g \in 0 .. 63 /\ h \in 0 .. 15 /\ k \in 0 .. 255
    BY <2>1, <2>2, SMT
  <2> HIDE DEF f, g, h, k
  <2>4. /\ k * 4096 + f * 2048 + 2 * (g * 16 + h) \in Nat
        /\ k * 4096 + f * 2048 + 2 * (g * 16 + h) < 1048576
    BY <2>3, SMT
  <2> QED  BY <2>4, SmallPowers, SMT DEF f, g, h, k
<1>6. (u % (WordSize \div 4096)) * 4096 \in Word
  <2> DEFINE q == WordSize \div 4096
             r == u % q
  <2>1. q \in Nat \ {0} /\ q * 4096 <= WordSize
    BY WordType, SMT
  <2>2. u \in Nat
    BY <1>1, SMT
  <2> HIDE DEF q, u
  <2>3. r \in Nat /\ r + 1 <= q
    BY <2>1, <2>2
  <2> HIDE DEF r
  <2>4. r * 4096 \in Word
    BY <2>1, <2>3, WordType, SMT DEF Word
  <2> QED  BY <2>4 DEF r, q
<1>7. 12 \in 0 .. XLEN /\ 20 \in 0 .. XLEN /\ 2 ^ 12 = 4096
  BY SmallPowers, ByteBitsAssumption, SMT DEF XLEN
<1>8. ImmI(i) \in Word /\ ImmS(i) \in Word /\ ImmB(i) \in Word
  <2>1. ASSUME NEW v \in Nat, v < 4096
        PROVE  Extend(v, 12, i) \in Word
    <3> DEFINE n == 12
    <3>1. v < 2 ^ n /\ n \in 0 .. XLEN
      BY <1>7, <2>1, SMT
    <3> HIDE DEF n
    <3>2. Extend(v, n, i) \in Word
      BY <3>1, ExtendType
    <3> QED  BY <3>2 DEF n
  <2> QED  BY <1>2, <1>3, <1>4, <2>1
<1>9. ImmJ(i) \in Word
  <2> DEFINE v == (c * 8 + b) * 4096 + (d % 2) * 2048 + 2 * ((e % 64) * 16 + d \div 2)
             n == 20
  <2>1. v \in Nat /\ v < 2 ^ n /\ ImmJ(i) = Extend(v, n, i) /\ n \in 0 .. XLEN
    BY <1>2, <1>5, <1>7, SMT
  <2> HIDE DEF v, n
  <2> QED  BY <2>1, ExtendType
<1> QED  BY <1>2, <1>6, <1>8, <1>9, SMT

\* A memory: its cells hold bytes.
Memory(M) == \A a \in DOMAIN M : M[a] \in ByteValues

LEMMA ByteType == ByteSize \in Nat \ {0} /\ \A k \in 0 .. 4 : ByteSize ^ k \in 1 .. WordSize
<1> DEFINE p(k) == ByteSize ^ k
<1>1. ByteSize \in Nat \ {0} /\ p(4) = WordSize /\ \A k \in 0 .. 4 : p(k) \in Nat \ {0}
  BY BytePowers, PowersAssumption
<1>2. \A k \in 0 .. 3 : p(k + 1) = ByteSize * p(k)
  BY PowersAssumption
<1> HIDE DEF p
<1>3. \A k \in 0 .. 3 : p(k) <= p(k + 1)
  <2> SUFFICES ASSUME NEW k \in 0 .. 3 PROVE p(k) <= p(k + 1)
    OBVIOUS
  <2> DEFINE x == p(k)
             y == p(k + 1)
  <2>1. x \in Nat /\ y = ByteSize * x /\ y \in Nat
    BY <1>1, <1>2
  <2> HIDE DEF x, y
  <2>2. x <= y
    BY <1>1, <2>1
  <2> QED  BY <2>2 DEF x, y
<1>4. p(0) <= p(1) /\ p(1) <= p(2) /\ p(2) <= p(3) /\ p(3) <= p(4)
  <2>1. p(0) <= p(0 + 1) /\ p(1) <= p(1 + 1) /\ p(2) <= p(2 + 1) /\ p(3) <= p(3 + 1)
    BY <1>3
  <2> QED  BY <2>1
<1>5. \A k \in 0 .. 4 : p(k) <= WordSize
  <2> SUFFICES ASSUME NEW k \in 0 .. 4 PROVE p(k) <= WordSize
    OBVIOUS
  <2>1. p(0) \in Nat /\ p(1) \in Nat /\ p(2) \in Nat /\ p(3) \in Nat /\ p(4) \in Nat
    BY <1>1
  <2>2. k = 0 \/ k = 1 \/ k = 2 \/ k = 3 \/ k = 4
    OBVIOUS
  <2> QED  BY <1>1, <1>4, <2>1, <2>2
<1> QED  BY <1>1, <1>5 DEF p

\* The bytes of a mapped place make a number of their size.
LEMMA GetBytesType ==
  ASSUME NEW M, Memory(M), NEW a \in Nat, NEW n \in 0 .. 4, Mapped(M, a, n)
  PROVE  GetBytes(M, a, n) \in Nat /\ GetBytes(M, a, n) < ByteSize ^ n
<1> DEFINE T == 0 .. n - 1
           g == [k \in T |-> M[a + k] * ByteSize ^ k]
           p(k) == ByteSize ^ k
<1>1. \A k \in 0 .. 4 : p(k) \in Nat \ {0}
  BY BytePowers
<1>2. p(0) = 1 /\ ByteSize \in Nat \ {0} /\ \A k \in 0 .. 3 : p(k + 1) = ByteSize * p(k)
  BY PowersAssumption, BytePowers
<1>3. \A k \in T : \E b \in ByteValues : g[k] = b * p(k)
  <2> SUFFICES ASSUME NEW k \in T PROVE \E b \in ByteValues : g[k] = b * p(k)
    OBVIOUS
  <2>1. a + k \in DOMAIN M
    BY DEF Mapped
  <2>2. g[k] = M[a + k] * p(k)
    OBVIOUS
  <2> QED  BY <2>1, <2>2 DEF Memory
<1>4. PICK f : Total(f, g, T) /\ GetBytes(M, a, n) = f[0 .. n - 1]
  <2>1. n \in Nat
    OBVIOUS
  <2> QED  BY <2>1, GetBytesTotal
<1>5. IsFiniteSet(T)
  BY FS_Interval
<1> HIDE DEF g, p
<1>6. \A k \in T : g[k] \in Nat /\ g[k] <= ByteSize * p(k) - p(k)
  <2> SUFFICES ASSUME NEW k \in T PROVE g[k] \in Nat /\ g[k] <= ByteSize * p(k) - p(k)
    OBVIOUS
  <2> DEFINE q == p(k)
  <2>1. PICK b \in ByteValues : g[k] = b * q
    BY <1>3
  <2>2. q \in Nat
    BY <1>1
  <2> HIDE DEF q
  <2>3. b \in Nat /\ b <= ByteSize - 1
    BY <1>2 DEF ByteValues
  <2>4. b * q <= (ByteSize - 1) * q
    BY <1>2, <2>2, <2>3
  <2>5. (ByteSize - 1) * q = ByteSize * q - q
    BY <1>2, <2>2
  <2>6. b * q \in Nat /\ b * q <= ByteSize * q - q
    BY <2>2, <2>3, <2>4, <2>5
  <2> QED  BY <2>1, <2>6 DEF q
<1>7. /\ f[{}] = 0 /\ \A s \in SUBSET T : f[s] \in Nat
      /\ \A s \in SUBSET T : \A x \in s : f[s] = g[x] + f[s \ {x}]
  <2> HIDE DEF T
  <2>1. \A k \in T : g[k] \in Nat
    BY <1>6
  <2>2. Total(f, g, T)
    BY <1>4
  <2> QED  BY <1>5, <2>1, <2>2, TotalTakes
<1> DEFINE S == {m \in Nat : m <= n => f[0 .. m - 1] < p(m)}
<1>8. 0 \in S
  <2>1. 0 .. 0 - 1 = {}
    OBVIOUS
  <2> QED  BY <1>2, <1>7, <2>1
<1>9. ASSUME NEW m \in Nat, m \in S PROVE m + 1 \in S
  <2> SUFFICES ASSUME m + 1 <= n PROVE f[0 .. (m + 1) - 1] < p(m + 1)
    OBVIOUS
  <2> DEFINE u == 0 .. m
             v == 0 .. m - 1
  <2>1. 0 .. (m + 1) - 1 = u /\ u \in SUBSET T /\ v \in SUBSET T /\ m \in u /\ u \ {m} = v
    OBVIOUS
  <2>2. f[u] = g[m] + f[v]
    <3> HIDE DEF T, u, v
    <3> QED  BY <1>7, <2>1
  <2>3. f[v] \in Nat /\ f[v] < p(m) /\ m \in T /\ m \in 0 .. 3
    BY <1>7, <1>9, <2>1
  <2>4. g[m] \in Nat /\ g[m] <= ByteSize * p(m) - p(m) /\ p(m + 1) = ByteSize * p(m)
    BY <1>2, <1>6, <2>3
  <2> DEFINE q == p(m)
             r == ByteSize * q
  <2>5. q \in Nat /\ r \in Nat
    <3>1. q \in Nat
      BY <1>1, <2>3
    <3> HIDE DEF q
    <3> QED  BY <1>2, <3>1 DEF r
  <2>6. f[v] < q /\ g[m] <= r - q /\ p(m + 1) = r
    BY <2>3, <2>4
  <2> HIDE DEF q, r, u, v
  <2>7. f[u] < r
    BY <2>2, <2>3, <2>4, <2>5, <2>6
  <2> QED  BY <2>1, <2>6, <2>7
<1>10. Nat \subseteq S
  <2> HIDE DEF S
  <2> QED  BY <1>8, <1>9, Induction
<1>11. n \in S
  BY <1>10
<1>12. f[0 .. n - 1] < p(n)
  BY <1>11
<1> QED  BY <1>4, <1>7, <1>12 DEF p

\* Accesses have the width of a byte, a half or a word.
LEMMA Widths ==
  /\ 2 ^ 0 = 1 /\ 2 ^ 1 = 2 /\ 2 ^ 2 = 4
  /\ \A code \in 0 .. 2 : 2 ^ code \in {1, 2, 4}
<1>1. 2 ^ 0 = 1 /\ 2 ^ 1 = 2 /\ 2 ^ 2 = 4
  BY PowersAssumption, SmallPowers, SMT
<1> QED  BY <1>1

LEMMA LoadedType ==
  ASSUME NEW M, Memory(M), NEW a \in Nat, NEW n \in {1, 2, 4}, Mapped(M, a, n)
  PROVE  /\ GetBytes(M, a, n) \in Word
         /\ signExtend(GetBytes(M, a, n), n) \in Word
<1> DEFINE v == GetBytes(M, a, n)
           p == ByteSize ^ n
<1>1. n \in 0 .. 4
  OBVIOUS
<1>2. v \in Nat /\ v < p /\ p \in 1 .. WordSize
  BY <1>1, GetBytesType, ByteType
<1>3. signExtend(v, n) \in {v, v + WordSize - p}
  BY DEF signExtend
<1> HIDE DEF v, p
<1>4. v \in Word /\ signExtend(v, n) \in Word
  BY <1>2, <1>3, WordType DEF Word
<1> QED  BY <1>4 DEF v

\* Narrow keeps a value that fits in the width of the operation.
LEMMA NarrowType ==
  ASSUME NEW code \in 0 .. 2, NEW v \in Word
  PROVE  Narrow(code, v) \in Word
<1> DEFINE n == 2 ^ code
           p == ByteSize ^ n
<1>1. n \in 0 .. 4
  <2>1. n \in {1, 2, 4}
    BY Widths
  <2> HIDE DEF n
  <2> QED  BY <2>1
<1>2. p \in 1 .. WordSize
  BY <1>1, ByteType
<1>3. Narrow(code, v) = v % p /\ v \in Nat
  BY WordType DEF Narrow
<1> HIDE DEF p
<1> QED  BY <1>2, <1>3, WordType DEF Word

LEMMA SetBytesType ==
  ASSUME NEW M, Memory(M), NEW a \in Nat, NEW n \in {1, 2, 4}, NEW v \in Word
  PROVE  Memory(SetBytes(M, a, n, v))
<1> SUFFICES ASSUME NEW x \in DOMAIN SetBytes(M, a, n, v)
             PROVE  SetBytes(M, a, n, v)[x] \in ByteValues
  BY DEF Memory
<1>1. x \in DOMAIN M
  BY DEF SetBytes
<1>2. CASE x \notin a .. a + n - 1
  BY <1>1, <1>2 DEF SetBytes, Memory
<1>3. CASE x \in a .. a + n - 1
  <2> DEFINE k == x - a
             p == ByteSize ^ k
  <2>1. k \in 0 .. 4
    BY <1>3
  <2>2. SetBytes(M, a, n, v)[x] = (v \div p) % ByteSize
    BY <1>1, <1>3 DEF SetBytes, ByteAt
  <2>3. p \in Nat \ {0} /\ v \in Nat /\ ByteSize \in Nat \ {0}
    BY <2>1, ByteType, WordType
  <2> HIDE DEF p
  <2>4. v \div p \in Nat
    BY <2>3
  <2>5. (v \div p) % ByteSize \in ByteValues
    BY <2>3, <2>4 DEF ByteValues
  <2> QED  BY <2>2, <2>5
<1> QED  BY <1>2, <1>3

LEMMA StoreRecordType ==
  ASSUME NEW code \in 0 .. 2, NEW a \in Word, NEW v \in Word
  PROVE  StoreRecord(code, a, v) \in (0 .. 2) \X Word \X Word
  BY NarrowType DEF StoreRecord

-----------------------------------------------------------------------------
(* Traces: a record that is added, and the newest record of a place *)

IsTrace(t) == \E S : t \in Seq(S)

LEMMA AppendRecord ==
  ASSUME NEW t, IsTrace(t), NEW x
  PROVE  /\ IsTrace(t \o <<x>>)
         /\ DOMAIN (t \o <<x>>) = 1 .. Len(t) + 1
         /\ DOMAIN t = 1 .. Len(t) /\ Len(t) \in Nat
         /\ (t \o <<x>>)[Len(t) + 1] = x
         /\ \A k \in 1 .. Len(t) : (t \o <<x>>)[k] = t[k]
<1>1. PICK S : t \in Seq(S)
  BY DEF IsTrace
<1>2. t \o <<x>> \in Seq(S \cup {x})
  BY <1>1
<1> QED  BY <1>1, <1>2 DEF IsTrace

LEMMA AppendNothing ==
  ASSUME NEW t, IsTrace(t)
  PROVE  t \o <<>> = t
  BY DEF IsTrace

\* The newest record of a place is its last one, and hides no other place's.
LEMMA NewestAfterAppend ==
  ASSUME NEW n \in Nat, NEW K \in SUBSET (1 .. n)
  PROVE  Newest(K \cup {n + 1}) = {n + 1}
<1>1. \A k \in K : k \in Nat /\ k <= n /\ ~(n + 1 <= k)
  OBVIOUS
<1>2. \A k \in Newest(K \cup {n + 1}) : k = n + 1
  BY <1>1 DEF Newest
<1>3. n + 1 \in Newest(K \cup {n + 1})
  BY <1>1 DEF Newest
<1> QED  BY <1>2, <1>3

LEMMA RegReplayAppend ==
  ASSUME NEW R, NEW t, IsTrace(t), RegReplayed(R, t), NEW a, a # 0, NEW v
  PROVE  RegReplayed([R EXCEPT ![a] = v], t \o <<<<a, v>>>>)
<1> DEFINE x == <<a, v>>
           u == t \o <<x>>
           n == Len(t)
           S == [R EXCEPT ![a] = v]
           Old(r) == {k \in DOMAIN t : t[k][1] = r}
           New(r) == {k \in DOMAIN u : u[k][1] = r}
<1>1. /\ DOMAIN u = 1 .. n + 1 /\ DOMAIN t = 1 .. n /\ n \in Nat
      /\ u[n + 1] = x /\ \A k \in 1 .. n : u[k] = t[k]
  BY AppendRecord
<1>2. S = [r \in Regs |-> S[r]] /\ \A r \in Regs : S[r] = IF r = a THEN v ELSE R[r]
  BY DEF RegReplayed
<1>3. ASSUME NEW r \in Regs
      PROVE  IF New(r) = {} THEN S[r] = 0 ELSE \E k \in Newest(New(r)) : S[r] = u[k][2]
  <2>0. Old(r) \in SUBSET (1 .. n)
    BY <1>1
  <2>1. CASE r = a
    <3>1. New(r) = Old(r) \cup {n + 1}
      <4> HIDE DEF u
      <4> QED  BY <1>1, <2>1
    <3>2. Newest(New(r)) = {n + 1}
      BY <1>1, <2>0, <3>1, NewestAfterAppend
    <3> HIDE DEF New, u, S
    <3> QED  BY <1>1, <1>2, <2>1, <3>1, <3>2
  <2>2. CASE r # a
    <3>1. New(r) = Old(r)
      <4> HIDE DEF u
      <4> QED  BY <1>1, <2>2
    <3>2. IF Old(r) = {} THEN R[r] = 0 ELSE \E k \in Newest(Old(r)) : R[r] = t[k][2]
      BY DEF RegReplayed
    <3>3. \A k \in Newest(Old(r)) : k \in 1 .. n
      BY <2>0 DEF Newest
    <3> HIDE DEF New, Old, u, S
    <3> QED  BY <1>1, <1>2, <2>2, <3>1, <3>2, <3>3
  <2> QED  BY <2>1, <2>2
<1> HIDE DEF S, u
<1>4. RegReplayed(S, u)
  BY <1>2, <1>3 DEF RegReplayed
<1> QED  BY <1>4 DEF S, u

\* WriteReg and the record of it, x0 included.
LEMMA RegReplayWrite ==
  ASSUME NEW R, NEW t, IsTrace(t), RegReplayed(R, t), R[0] = 0, NEW a, NEW v
  PROVE  /\ RegReplayed(WriteReg(R, a, v), t \o RegRecord(a, v))
         /\ WriteReg(R, a, v)[0] = 0
         /\ IsTrace(t \o RegRecord(a, v))
<1>1. CASE a = 0
  <2>1. WriteReg(R, a, v) = R
    BY <1>1 DEF WriteReg, RegReplayed
  <2> QED  BY <1>1, <2>1, AppendNothing DEF RegRecord
<1>2. CASE a # 0
  <2>1. WriteReg(R, a, v) = [R EXCEPT ![a] = v]
    BY <1>2 DEF WriteReg
  <2>2. RegReplayed([R EXCEPT ![a] = v], t \o <<<<a, v>>>>)
    BY <1>2, RegReplayAppend
  <2>3. [R EXCEPT ![a] = v][0] = 0
    BY <1>2 DEF RegReplayed, Regs
  <2>4. IsTrace(t \o <<<<a, v>>>>)
    BY AppendRecord
  <2> QED  BY <1>2, <2>1, <2>2, <2>3, <2>4 DEF RegRecord
<1> QED  BY <1>1, <1>2

\* The set functions of the MMU and the record of the store.
LEMMA MemReplayStore ==
  ASSUME NEW M, NEW M0, NEW t, IsTrace(t), MemReplayed(M, M0, t),
         NEW code, NEW addr, NEW v
  PROVE  MemReplayed(SetBytes(M, addr, 2 ^ code, Narrow(code, v)), M0,
                     t \o <<StoreRecord(code, addr, v)>>)
<1> DEFINE x == StoreRecord(code, addr, v)
           w == Narrow(code, v)
           u == t \o <<x>>
           n == Len(t)
           N == SetBytes(M, addr, 2 ^ code, w)
           Old(a) == {k \in DOMAIN t : Covers(t[k], a)}
           New(a) == {k \in DOMAIN u : Covers(u[k], a)}
<1>1. /\ DOMAIN u = 1 .. n + 1 /\ DOMAIN t = 1 .. n /\ n \in Nat
      /\ u[n + 1] = x /\ \A k \in 1 .. n : u[k] = t[k]
  BY AppendRecord
<1>2. /\ N = [a \in DOMAIN M0 |-> N[a]]
      /\ \A a \in DOMAIN M0 : N[a] = IF Covers(x, a) THEN ByteAt(w, a - addr) ELSE M[a]
  <2>1. M = [a \in DOMAIN M0 |-> M[a]]
    BY DEF MemReplayed
  <2>2. x[1] = code /\ x[2] = addr
    BY DEF StoreRecord
  <2> HIDE DEF x, w
  <2> QED  BY <2>1, <2>2 DEF SetBytes, Covers
<1>3. x[2] = addr /\ x[3] = w
  BY DEF StoreRecord
<1>4. ASSUME NEW a \in DOMAIN M0
      PROVE  IF New(a) = {} THEN N[a] = M0[a]
             ELSE \E k \in Newest(New(a)) : N[a] = ByteAt(u[k][3], a - u[k][2])
  <2>0. Old(a) \in SUBSET (1 .. n)
    BY <1>1
  <2>1. CASE Covers(x, a)
    <3>1. New(a) = Old(a) \cup {n + 1}
      <4> HIDE DEF u, x
      <4> QED  BY <1>1, <2>1
    <3>2. Newest(New(a)) = {n + 1}
      BY <1>1, <2>0, <3>1, NewestAfterAppend
    <3> HIDE DEF New, u, N, x, w
    <3> QED  BY <1>1, <1>2, <1>3, <2>1, <3>1, <3>2
  <2>2. CASE ~Covers(x, a)
    <3>1. New(a) = Old(a)
      <4> HIDE DEF u, x
      <4> QED  BY <1>1, <2>2
    <3>2. IF Old(a) = {} THEN M[a] = M0[a]
          ELSE \E k \in Newest(Old(a)) : M[a] = ByteAt(t[k][3], a - t[k][2])
      BY DEF MemReplayed
    <3>3. \A k \in Newest(Old(a)) : k \in 1 .. n
      BY <2>0 DEF Newest
    <3> HIDE DEF New, Old, u, N, x, w
    <3> QED  BY <1>1, <1>2, <2>2, <3>1, <3>2, <3>3
  <2> QED  BY <2>1, <2>2
<1> HIDE DEF N, u
<1>5. MemReplayed(N, M0, u)
  BY <1>2, <1>4 DEF MemReplayed
<1> QED  BY <1>5 DEF N, u, x, w

LEMMA NewestUnique ==
  ASSUME NEW t, IsTrace(t), NEW K \in SUBSET DOMAIN t, NEW j \in Newest(K), NEW k \in Newest(K)
  PROVE  j = k
<1>1. DOMAIN t = 1 .. Len(t) /\ Len(t) \in Nat
  BY DEF IsTrace
<1>2. j \in K /\ k \in K /\ j <= k /\ k <= j
  BY DEF Newest
<1> QED  BY <1>1, <1>2

\* A trace gives one register file and one memory.
LEMMA RegReplayUnique ==
  ASSUME NEW R, NEW S, NEW t, IsTrace(t), RegReplayed(R, t), RegReplayed(S, t)
  PROVE  R = S
<1>1. ASSUME NEW r \in Regs PROVE R[r] = S[r]
  <2> DEFINE K == {k \in DOMAIN t : t[k][1] = r}
  <2>1. CASE K = {}
    BY <2>1 DEF RegReplayed
  <2>2. CASE K # {}
    <3>1. PICK j \in Newest(K) : R[r] = t[j][2]
      BY <2>2 DEF RegReplayed
    <3>2. PICK k \in Newest(K) : S[r] = t[k][2]
      BY <2>2 DEF RegReplayed
    <3> QED  BY <3>1, <3>2, NewestUnique
  <2> QED  BY <2>1, <2>2
<1> QED  BY <1>1 DEF RegReplayed

LEMMA MemReplayUnique ==
  ASSUME NEW M, NEW N, NEW M0, NEW t, IsTrace(t),
         MemReplayed(M, M0, t), MemReplayed(N, M0, t)
  PROVE  M = N
<1>1. ASSUME NEW a \in DOMAIN M0 PROVE M[a] = N[a]
  <2> DEFINE K == {k \in DOMAIN t : Covers(t[k], a)}
  <2>1. CASE K = {}
    BY <2>1 DEF MemReplayed
  <2>2. CASE K # {}
    <3>1. PICK j \in Newest(K) : M[a] = ByteAt(t[j][3], a - t[j][2])
      BY <2>2 DEF MemReplayed
    <3>2. PICK k \in Newest(K) : N[a] = ByteAt(t[k][3], a - t[k][2])
      BY <2>2 DEF MemReplayed
    <3> QED  BY <3>1, <3>2, NewestUnique
  <2> QED  BY <2>1, <2>2
<1> QED  BY <1>1 DEF MemReplayed

\* Before anything is traced.
LEMMA ReplayInitially ==
  /\ RegReplayed([r \in Regs |-> 0], <<>>) /\ IsTrace(<<>>)
  /\ \A M : M = [a \in DOMAIN M |-> M[a]] => MemReplayed(M, M, <<>>)
<1>1. <<>> \in Seq({}) /\ DOMAIN <<>> = {}
  OBVIOUS
<1> QED  BY <1>1 DEF RegReplayed, MemReplayed, IsTrace
=============================================================================
