-------------------------- MODULE TraceFilesProofs --------------------------
(***************************************************************************)
(* A readable trace file determines the records that were written to it,   *)
(* and the size of a binary one determines their number.                   *)
(***************************************************************************)
EXTENDS TraceFiles, MachineProofs

-----------------------------------------------------------------------------
(* Sequences *)

\* A part that can be told from its neighbours: it begins with a byte of S
\* and holds no other byte of S.
Headed(x, S) == x # <<>> /\ x[1] \in S /\ \A k \in 2 .. Len(x) : x[k] \notin S

\* Sequence u is s followed by t.
Parts(u, s, t) ==
  /\ Len(u) = Len(s) + Len(t)
  /\ \A k \in 1 .. Len(s) : u[k] = s[k]
  /\ \A k \in 1 .. Len(t) : u[Len(s) + k] = t[k]

LEMMA ConcatParts ==
  ASSUME NEW Byte, NEW s \in Seq(Byte), NEW t \in Seq(Byte)
  PROVE  Parts(s \o t, s, t)
  BY DEF Parts

\* Two texts that are put together from two parts, of which the second is such
\* a part, have the same parts.
LEMMA UniqueSplit ==
  ASSUME NEW Byte, NEW S,
         NEW a \in Seq(Byte), NEW b \in Seq(Byte), NEW c \in Seq(Byte), NEW d \in Seq(Byte),
         a \o b = c \o d, Headed(b, S), Headed(d, S)
  PROVE  a = c /\ b = d
<1> DEFINE t == a \o b
<1>1. Parts(t, a, b) /\ Parts(t, c, d)
  <2>1. Parts(a \o b, a, b) /\ Parts(c \o d, c, d)
    BY ConcatParts
  <2> QED  BY <2>1
<1> HIDE DEF t
<1>2. /\ Len(a) \in Nat /\ Len(b) \in Nat \ {0} /\ Len(c) \in Nat /\ Len(d) \in Nat \ {0}
      /\ Len(a) + Len(b) = Len(c) + Len(d)
  <2>1. b # <<>> /\ d # <<>>
    BY DEF Headed
  <2> QED  BY <1>1, <2>1 DEF Parts
<1>3. /\ \A k \in 1 .. Len(a) : t[k] = a[k]
      /\ \A k \in 1 .. Len(b) : t[Len(a) + k] = b[k]
      /\ \A k \in 1 .. Len(c) : t[k] = c[k]
      /\ \A k \in 1 .. Len(d) : t[Len(c) + k] = d[k]
  BY <1>1 DEF Parts
<1> USE DEF Headed
<1>4. Len(a) = Len(c)
  <2>1. ASSUME Len(a) < Len(c) PROVE FALSE
    <3> DEFINE k == Len(c) + 1 - Len(a)
    <3>1. k \in 2 .. Len(b) /\ 1 \in 1 .. Len(d) /\ Len(a) + k = Len(c) + 1
      BY <1>2, <2>1
    <3> HIDE DEF k
    <3>2. t[Len(a) + k] = b[k] /\ t[Len(c) + 1] = d[1]
      BY <1>2, <1>3, <3>1
    <3> QED  BY <3>1, <3>2
  <2>2. ASSUME Len(c) < Len(a) PROVE FALSE
    <3> DEFINE k == Len(a) + 1 - Len(c)
    <3>1. k \in 2 .. Len(d) /\ 1 \in 1 .. Len(b) /\ Len(c) + k = Len(a) + 1
      BY <1>2, <2>2
    <3> HIDE DEF k
    <3>2. t[Len(c) + k] = d[k] /\ t[Len(a) + 1] = b[1]
      BY <1>2, <1>3, <3>1
    <3> QED  BY <3>1, <3>2
  <2> QED  BY <1>2, <2>1, <2>2
<1>5. \A k \in 1 .. Len(a) : a[k] = c[k]
  BY <1>3, <1>4
<1>6. Len(b) = Len(d) /\ \A k \in 1 .. Len(b) : b[k] = d[k]
  <2>1. Len(b) = Len(d)
    BY <1>2, <1>4
  <2> QED  BY <1>3, <1>4, <2>1
<1>7. a = [k \in 1 .. Len(a) |-> a[k]] /\ c = [k \in 1 .. Len(c) |-> c[k]]
  OBVIOUS
<1>8. b = [k \in 1 .. Len(b) |-> b[k]] /\ d = [k \in 1 .. Len(d) |-> d[k]]
  OBVIOUS
<1>9. a = c
  BY <1>4, <1>5, <1>7
<1>10. b = d
  BY <1>6, <1>8
<1> QED  BY <1>9, <1>10

\* The recursion of FlattenSeq has a solution.
LEMMA FlattenDefined ==
  ASSUME NEW w, NEW n \in Nat, Len(w) = n
  PROVE  \E f : f = [i \in 1 .. n |-> IF i = 1 THEN w[i] ELSE f[i - 1] \o w[i]]
<1> DEFINE Solves(f, m) == f = [i \in 1 .. m |-> IF i = 1 THEN w[i] ELSE f[i - 1] \o w[i]]
           S == {m \in Nat : \E f : Solves(f, m)}
<1>1. 0 \in S
  <2>1. Solves(<<>>, 0)
    OBVIOUS
  <2> QED  BY <2>1
<1>2. ASSUME NEW m \in Nat, m \in S PROVE m + 1 \in S
  <2>1. PICK f : Solves(f, m)
    BY <1>2
  <2> DEFINE x == IF m = 0 THEN w[1] ELSE f[m] \o w[m + 1]
             g == [i \in 1 .. m + 1 |-> IF i = m + 1 THEN x ELSE f[i]]
  <2>2. \A i \in 1 .. m + 1 : g[i] = IF i = 1 THEN w[i] ELSE g[i - 1] \o w[i]
    <3>1. ASSUME NEW i \in 1 .. m
          PROVE  g[i] = IF i = 1 THEN w[i] ELSE g[i - 1] \o w[i]
      <4>1. f[i] = IF i = 1 THEN w[i] ELSE f[i - 1] \o w[i]
        BY <2>1
      <4>2. g[i] = f[i] /\ (i # 1 => g[i - 1] = f[i - 1])
        OBVIOUS
      <4> QED  BY <4>1, <4>2
    <3>2. m + 1 \in 1 .. m + 1 /\ g[m + 1] = x
      OBVIOUS
    <3>3. m # 0 => g[m] = f[m]
      OBVIOUS
    <3>4. g[m + 1] = IF m + 1 = 1 THEN w[m + 1] ELSE g[(m + 1) - 1] \o w[m + 1]
      <4> HIDE DEF g
      <4> QED  BY <3>2, <3>3
    <3> HIDE DEF g
    <3>5. \A i \in 1 .. m + 1 : i \in 1 .. m \/ i = m + 1
      OBVIOUS
    <3> QED  BY <3>1, <3>4, <3>5
  <2>3. Solves(g, m + 1)
    BY <2>2
  <2> HIDE DEF Solves
  <2> QED  BY <2>3
<1>3. n \in S
  <2> HIDE DEF S
  <2> QED  BY <1>1, <1>2, Induction
<1> QED  BY <1>3

\* What FlattenSeq computes, one sequence after the other.
Flat(w, f) ==
  f = [i \in 1 .. Len(w) |-> IF i = 1 THEN w[i] ELSE f[i - 1] \o w[i]]

LEMMA FlattenRecursion ==
  ASSUME NEW w, Len(w) \in Nat \ {0}
  PROVE  \E f : FlattenSeq(w) = f[Len(w)] /\ Flat(w, f)
<1> DEFINE f == CHOOSE g : g = [i \in 1 .. Len(w) |-> IF i = 1 THEN w[i] ELSE g[i - 1] \o w[i]]
<1>1. f = [i \in 1 .. Len(w) |-> IF i = 1 THEN w[i] ELSE f[i - 1] \o w[i]]
  <2>1. \E g : g = [i \in 1 .. Len(w) |-> IF i = 1 THEN w[i] ELSE g[i - 1] \o w[i]]
    BY FlattenDefined
  <2> QED  BY <2>1, Zenon
<1>2. FlattenSeq(w) = f[Len(w)]
  BY Zenon DEF FlattenSeq
<1> HIDE DEF f
<1> QED  BY <1>1, <1>2, Zenon DEF Flat

\* The first i sequences put together.
UpTo(f, i) == IF i = 0 THEN <<>> ELSE f[i]

LEMMA FlatStep ==
  ASSUME NEW Byte, NEW w \in Seq(Seq(Byte)), NEW f, Flat(w, f)
  PROVE  /\ \A i \in 0 .. Len(w) : UpTo(f, i) \in Seq(Byte)
         /\ \A i \in 0 .. Len(w) - 1 : UpTo(f, i + 1) = UpTo(f, i) \o w[i + 1]
<1>1. Len(w) \in Nat /\ \A i \in 1 .. Len(w) : w[i] \in Seq(Byte)
  OBVIOUS
<1>2. \A i \in 1 .. Len(w) : f[i] = IF i = 1 THEN w[i] ELSE f[i - 1] \o w[i]
  BY Zenon DEF Flat
<1>3. \A x \in Seq(Byte) : <<>> \o x = x
  OBVIOUS
<1>4. ASSUME NEW i \in 0 .. Len(w) - 1
      PROVE  UpTo(f, i + 1) = UpTo(f, i) \o w[i + 1]
  <2>1. i + 1 \in 1 .. Len(w) /\ i + 1 # 0 /\ (i + 1) - 1 = i /\ (i = 0 <=> i + 1 = 1)
    BY <1>1
  <2>2. f[i + 1] = IF i = 0 THEN w[i + 1] ELSE f[i] \o w[i + 1]
    BY <1>2, <2>1
  <2>3. <<>> \o w[i + 1] = w[i + 1]
    BY <1>1, <1>3, <2>1
  <2> QED  BY <2>1, <2>2, <2>3 DEF UpTo
<1> DEFINE S == {i \in Nat : i <= Len(w) => UpTo(f, i) \in Seq(Byte)}
<1>5. 0 \in S
  BY DEF UpTo
<1>6. ASSUME NEW i \in Nat, i \in S PROVE i + 1 \in S
  <2>1. CASE i + 1 <= Len(w)
    <3>1. UpTo(f, i) \in Seq(Byte) /\ w[i + 1] \in Seq(Byte)
      BY <1>1, <1>6, <2>1
    <3>2. UpTo(f, i + 1) = UpTo(f, i) \o w[i + 1]
      BY <1>1, <1>4, <2>1
    <3>3. UpTo(f, i) \o w[i + 1] \in Seq(Byte)
      BY <3>1
    <3>4. UpTo(f, i + 1) \in Seq(Byte)
      BY <3>2, <3>3
    <3> QED  BY <3>4
  <2> QED  BY <2>1
<1>7. Nat \subseteq S
  <2> HIDE DEF S
  <2> QED  BY <1>5, <1>6, Induction
<1> QED  BY <1>1, <1>4, <1>7

\* Sequences of one length make a text of a multiple of it.
LEMMA FlattenLength ==
  ASSUME NEW Byte, NEW w \in Seq(Seq(Byte)), NEW c \in Nat,
         \A k \in 1 .. Len(w) : Len(w[k]) = c
  PROVE  FlattenSeq(w) \in Seq(Byte) /\ Len(FlattenSeq(w)) = c * Len(w)
<1>1. Len(w) \in Nat
  OBVIOUS
<1>2. CASE Len(w) = 0
  <2>1. w = <<>> /\ FlattenSeq(w) = w
    BY <1>2 DEF FlattenSeq
  <2>2. <<>> \in Seq(Byte) /\ Len(<<>>) = 0 /\ c * 0 = 0
    OBVIOUS
  <2> QED  BY <1>2, <2>1, <2>2
<1>3. CASE Len(w) # 0
  <2>1. PICK f : FlattenSeq(w) = f[Len(w)] /\ Flat(w, f)
    BY <1>1, <1>3, FlattenRecursion
  <2> DEFINE S == {i \in Nat : i <= Len(w) => Len(UpTo(f, i)) = c * i}
  <2>2. 0 \in S
    BY DEF UpTo
  <2>3. ASSUME NEW i \in Nat, i \in S PROVE i + 1 \in S
    <3>1. CASE i + 1 <= Len(w)
      <4>1. i \in 0 .. Len(w) - 1 /\ i \in 0 .. Len(w) /\ i + 1 \in 1 .. Len(w)
        BY <1>1, <3>1
      <4>2. UpTo(f, i) \in Seq(Byte) /\ UpTo(f, i + 1) = UpTo(f, i) \o w[i + 1]
        BY <2>1, <4>1, FlatStep
      <4>3. w[i + 1] \in Seq(Byte) /\ Len(w[i + 1]) = c /\ Len(UpTo(f, i)) = c * i
        BY <2>3, <4>1
      <4>4. Len(UpTo(f, i + 1)) = c * i + c
        <5> DEFINE s == UpTo(f, i)
                   t == w[i + 1]
        <5>1. Parts(s \o t, s, t)
          BY <4>2, <4>3, ConcatParts, Zenon
        <5>2. Len(s \o t) = Len(s) + Len(t)
          BY <5>1, Zenon DEF Parts
        <5>3. UpTo(f, i + 1) = s \o t /\ Len(s) = c * i /\ Len(t) = c
          BY <4>2, <4>3
        <5> HIDE DEF s, t
        <5> QED  BY <5>2, <5>3
      <4>5. c * i + c = c * (i + 1)
        OBVIOUS
      <4> QED  BY <4>4, <4>5
    <3> QED  BY <3>1
  <2>4. Nat \subseteq S
    <3> HIDE DEF S
    <3> QED  BY <2>2, <2>3, Induction
  <2>5. Len(UpTo(f, Len(w))) = c * Len(w) /\ UpTo(f, Len(w)) \in Seq(Byte)
    BY <1>1, <2>1, <2>4, FlatStep
  <2> QED  BY <1>3, <2>1, <2>5 DEF UpTo
<1> QED  BY <1>2, <1>3

\* A text that is put together from such parts can be taken apart again.
LEMMA FlattenInjective ==
  ASSUME NEW Byte, NEW S, NEW w \in Seq(Seq(Byte)), NEW v \in Seq(Seq(Byte)),
         \A k \in 1 .. Len(w) : Headed(w[k], S),
         \A k \in 1 .. Len(v) : Headed(v[k], S),
         FlattenSeq(w) = FlattenSeq(v)
  PROVE  w = v
<1>1. /\ Len(w) \in Nat /\ w = [k \in 1 .. Len(w) |-> w[k]]
      /\ Len(v) \in Nat /\ v = [k \in 1 .. Len(v) |-> v[k]]
      /\ \A k \in 1 .. Len(w) : w[k] \in Seq(Byte)
      /\ \A k \in 1 .. Len(v) : v[k] \in Seq(Byte)
  OBVIOUS
<1>2. ASSUME NEW u \in Seq(Seq(Byte))
      PROVE  \E f : Flat(u, f) /\ FlattenSeq(u) = UpTo(f, Len(u))
  <2>1. CASE Len(u) = 0
    <3>1. u = <<>> /\ FlattenSeq(u) = <<>>
      <4>1. u = <<>>
        BY <2>1
      <4>2. FlattenSeq(<<>>) = <<>>
        BY DEF FlattenSeq
      <4> QED  BY <4>1, <4>2
    <3>2. Flat(u, <<>>)
      BY <3>1 DEF Flat
    <3> QED  BY <2>1, <3>1, <3>2 DEF UpTo
  <2>2. CASE Len(u) # 0
    <3>1. Len(u) \in Nat \ {0}
      BY <2>2
    <3> QED  BY <2>2, <3>1, FlattenRecursion DEF UpTo
  <2> QED  BY <2>1, <2>2
<1>3. PICK f : Flat(w, f) /\ FlattenSeq(w) = UpTo(f, Len(w))
  BY <1>2
<1>4. PICK g : Flat(v, g) /\ FlattenSeq(v) = UpTo(g, Len(v))
  BY <1>2
<1>5. \A n \in 1 .. Len(v) :
         /\ n - 1 \in 0 .. Len(v) /\ UpTo(g, n - 1) \in Seq(Byte)
         /\ UpTo(g, n) = UpTo(g, n - 1) \o v[n]
  <2>1. \A i \in 0 .. Len(v) - 1 : UpTo(g, i + 1) = UpTo(g, i) \o v[i + 1]
    BY <1>4, FlatStep
  <2>2. \A i \in 0 .. Len(v) : UpTo(g, i) \in Seq(Byte)
    BY <1>4, FlatStep
  <2>3. \A n \in 1 .. Len(v) : n - 1 \in 0 .. Len(v) - 1 /\ n - 1 \in 0 .. Len(v)
                                /\ (n - 1) + 1 = n
    BY <1>1
  <2> QED  BY <2>1, <2>2, <2>3
<1> DEFINE Same(m, n) == m = n /\ \A k \in 1 .. m : w[k] = v[k]
           T == {m \in Nat : m <= Len(w) =>
                   \A n \in 0 .. Len(v) : UpTo(f, m) = UpTo(g, n) => Same(m, n)}
<1>6. \A x \in Seq(Byte), y \in Seq(Byte) : y # <<>> => x \o y # <<>>
  OBVIOUS
<1>7. 0 \in T
  <2>1. ASSUME NEW n \in 1 .. Len(v) PROVE UpTo(g, n) # <<>>
    BY <1>1, <1>5, <1>6 DEF Headed
  <2>2. \A n \in 0 .. Len(v) : n = 0 \/ n \in 1 .. Len(v)
    BY <1>1
  <2> QED  BY <2>1, <2>2 DEF UpTo
<1>8. ASSUME NEW m \in Nat, m \in T PROVE m + 1 \in T
  <2> SUFFICES ASSUME m + 1 <= Len(w), NEW n \in 0 .. Len(v), UpTo(f, m + 1) = UpTo(g, n)
               PROVE  Same(m + 1, n)
    <3> HIDE DEF Same
    <3> QED  OBVIOUS
  <2>1. m \in 0 .. Len(w) - 1 /\ m \in 0 .. Len(w) /\ m + 1 \in 1 .. Len(w)
    BY <1>1
  <2>2. /\ UpTo(f, m) \in Seq(Byte) /\ w[m + 1] \in Seq(Byte)
        /\ UpTo(f, m + 1) = UpTo(f, m) \o w[m + 1] /\ Headed(w[m + 1], S)
    BY <1>1, <1>3, <2>1, FlatStep
  <2>3. UpTo(f, m + 1) # <<>>
    BY <1>6, <2>2 DEF Headed
  <2>4. n \in 1 .. Len(v)
    BY <1>1, <2>3 DEF UpTo
  <2>5. /\ UpTo(g, n - 1) \in Seq(Byte) /\ v[n] \in Seq(Byte) /\ Headed(v[n], S)
        /\ UpTo(g, n) = UpTo(g, n - 1) \o v[n]
    BY <1>1, <1>5, <2>4
  <2>6. UpTo(f, m) = UpTo(g, n - 1) /\ w[m + 1] = v[n]
    <3> DEFINE a == UpTo(f, m)
               b == w[m + 1]
               c == UpTo(g, n - 1)
               d == v[n]
    <3>1. a \in Seq(Byte) /\ b \in Seq(Byte) /\ c \in Seq(Byte) /\ d \in Seq(Byte)
      BY <2>2, <2>5
    <3>2. a \o b = c \o d /\ Headed(b, S) /\ Headed(d, S)
      BY <2>2, <2>5
    <3> HIDE DEF a, b, c, d
    <3>3. a = c /\ b = d
      BY <3>1, <3>2, UniqueSplit
    <3> QED  BY <3>3 DEF a, b, c, d
  <2>7. Same(m, n - 1)
    BY <1>5, <1>8, <2>1, <2>4, <2>6
  <2> QED  BY <2>1, <2>4, <2>6, <2>7
<1>9. Nat \subseteq T
  <2> HIDE DEF T
  <2> QED  BY <1>7, <1>8, Induction
<1>10. Same(Len(w), Len(v))
  <2>1. Len(v) \in 0 .. Len(v) /\ Len(w) <= Len(w) /\ Len(w) \in T
    <3> HIDE DEF T
    <3> QED  BY <1>1, <1>9
  <2>2. UpTo(f, Len(w)) = UpTo(g, Len(v))
    BY <1>3, <1>4
  <2> HIDE DEF Same
  <2> QED  BY <2>1, <2>2
<1> QED  BY <1>1, <1>10

-----------------------------------------------------------------------------
(* Digits *)

Digits == [1 .. 8 -> 0 .. 15]
Text   == Seq(1 .. 16)

\* Where the leading zeros of a number end.
First(d) == Min({k \in 1 .. 8 : d[k] # 0} \cup {8})

LEMMA FirstDigit ==
  ASSUME NEW d \in Digits
  PROVE  /\ First(d) \in 1 .. 8
         /\ \A k \in 1 .. 8 : k < First(d) => d[k] = 0
<1> DEFINE T == {k \in 1 .. 8 : d[k] # 0} \cup {8}
<1>1. T \in SUBSET (1 .. 8) /\ T # {}
  OBVIOUS
<1>2. \E m \in T : \A n \in T : m <= n
  BY <1>1, LeastElement
<1>3. Min(T) \in T /\ \A n \in T : Min(T) <= n
  BY <1>2, Zenon DEF Min
<1>4. First(d) = Min(T)
  BY DEF First
<1> DEFINE m == Min(T)
<1>5. m \in T /\ \A n \in T : m <= n
  BY <1>3
<1> HIDE DEF m
<1>6. m \in 1 .. 8 /\ \A k \in 1 .. 8 : k < m => d[k] = 0
  BY <1>5
<1> QED  BY <1>4, <1>6 DEF m

\* The text of a number has no byte 0, and no other number has it.
LEMMA HexText ==
  ASSUME NEW d \in Digits
  PROVE  Hex(d) \in Text
<1> DEFINE m == First(d)
<1>1. m \in 1 .. 8
  BY FirstDigit
<1>2. Hex(d) = [k \in 1 .. 9 - m |-> d[m + k - 1] + 1]
  BY DEF Hex, First
<1> HIDE DEF m
<1>3. 9 - m \in Nat /\ \A k \in 1 .. 9 - m : m + k - 1 \in 1 .. 8
  BY <1>1
<1>4. \A k \in 1 .. 8 : d[k] + 1 \in 1 .. 16
  BY DEF Digits
<1>5. \A k \in 1 .. 9 - m : d[m + k - 1] + 1 \in 1 .. 16
  BY <1>3, <1>4
<1> DEFINE digit(k) == d[m + k - 1] + 1
<1>6. Hex(d) = [k \in 1 .. 9 - m |-> digit(k)] /\ \A k \in 1 .. 9 - m : digit(k) \in 1 .. 16
  BY <1>2, <1>5
<1> HIDE DEF digit
<1>7. Hex(d) \in Seq(1 .. 16)
  <2> DEFINE n == 9 - m
  <2>1. n \in Nat /\ Hex(d) = [k \in 1 .. n |-> digit(k)] /\ \A k \in 1 .. n : digit(k) \in 1 .. 16
    BY <1>3, <1>6
  <2> HIDE DEF n
  <2> QED  BY <2>1
<1> QED  BY <1>7 DEF Text

LEMMA HexInjective ==
  ASSUME NEW d \in Digits, NEW e \in Digits, Hex(d) = Hex(e)
  PROVE  d = e
<1> DEFINE m == First(d)
           n == First(e)
<1>1. m \in 1 .. 8 /\ n \in 1 .. 8
  BY FirstDigit
<1>2. /\ \A k \in 1 .. 8 : k < m => d[k] = 0
      /\ \A k \in 1 .. 8 : k < n => e[k] = 0
  BY FirstDigit
<1>3. /\ Hex(d) = [k \in 1 .. 9 - m |-> d[m + k - 1] + 1]
      /\ Hex(e) = [k \in 1 .. 9 - n |-> e[n + k - 1] + 1]
  BY DEF Hex, First
<1> HIDE DEF m, n
<1>4. m = n
  <2>1. DOMAIN Hex(d) = 1 .. 9 - m /\ DOMAIN Hex(e) = 1 .. 9 - n
    BY <1>3
  <2>2. 1 .. 9 - m = 1 .. 9 - n
    BY <2>1
  <2>3. 9 - m \in 1 .. 9 - m /\ 9 - n \in 1 .. 9 - n
    BY <1>1
  <2>4. 9 - m \in 1 .. 9 - n /\ 9 - n \in 1 .. 9 - m
    BY <2>2, <2>3
  <2> QED  BY <1>1, <2>4
<1>5. \A k \in 1 .. 8 : d[k] \in 0 .. 15 /\ e[k] \in 0 .. 15
  BY DEF Digits
<1>6. ASSUME NEW k \in 1 .. 8, ~(k < m)
      PROVE  d[k] = e[k]
  <2>1. k - m + 1 \in 1 .. 9 - m /\ m + (k - m + 1) - 1 = k
    BY <1>1, <1>6
  <2>2. d[k] + 1 = Hex(d)[k - m + 1] /\ e[k] + 1 = Hex(e)[k - m + 1]
    BY <1>3, <1>4, <2>1
  <2> QED  BY <1>5, <2>2
<1>7. \A k \in 1 .. 8 : d[k] = e[k]
  BY <1>2, <1>4, <1>6
<1> QED  BY <1>7 DEF Digits

WordDigits(v) == [k \in 1 .. 8 |-> (v \div DigitValue[k]) % 16]

LEMMA WordDigitsType ==
  ASSUME NEW v \in Nat
  PROVE  WordDigits(v) \in Digits
<1>1. \A k \in 1 .. 8 : DigitValue[k] \in Nat \ {0}
  BY SMT DEF DigitValue
<1>2. \A y \in Nat \ {0} : (v \div y) % 16 \in 0 .. 15
  OBVIOUS
<1> QED  BY <1>1, <1>2 DEF WordDigits, Digits

\* Eight hexadecimal digits are enough for a word.
LEMMA WordDigitsInjective ==
  ASSUME NEW v \in Word, NEW w \in Word, WordDigits(v) = WordDigits(w)
  PROVE  v = w
<1>1. v \in Nat /\ w \in Nat /\ v \div 268435456 < 16 /\ w \div 268435456 < 16
  BY SMT, WordSizeAssumption DEF Word
<1>2. \A k \in 1 .. 8 : (v \div DigitValue[k]) % 16 = (w \div DigitValue[k]) % 16
  <2>1. \A k \in 1 .. 8 : WordDigits(v)[k] = WordDigits(w)[k]
    OBVIOUS
  <2> HIDE DEF DigitValue
  <2> QED  BY <2>1 DEF WordDigits
<1>3. /\ (v \div 268435456) % 16 = (w \div 268435456) % 16
      /\ (v \div 16777216) % 16 = (w \div 16777216) % 16
      /\ (v \div 1048576) % 16 = (w \div 1048576) % 16
      /\ (v \div 65536) % 16 = (w \div 65536) % 16
      /\ (v \div 4096) % 16 = (w \div 4096) % 16
      /\ (v \div 256) % 16 = (w \div 256) % 16
      /\ (v \div 16) % 16 = (w \div 16) % 16
      /\ (v \div 1) % 16 = (w \div 1) % 16
  BY SMT, <1>2 DEF DigitValue
<1>4. v \div 268435456 = w \div 268435456
  BY SMT, <1>1, <1>3
<1>5. v \div 16777216 = w \div 16777216
  BY SMT, <1>1, <1>3, <1>4
<1>6. v \div 1048576 = w \div 1048576
  BY SMT, <1>1, <1>3, <1>5
<1>7. v \div 65536 = w \div 65536
  BY SMT, <1>1, <1>3, <1>6
<1>8. v \div 4096 = w \div 4096
  BY SMT, <1>1, <1>3, <1>7
<1>9. v \div 256 = w \div 256
  BY SMT, <1>1, <1>3, <1>8
<1>10. v \div 16 = w \div 16
  BY SMT, <1>1, <1>3, <1>9
<1> QED  BY SMT, <1>1, <1>3, <1>10

\* The opcodes have different bits.
LEMMA OpcodeBitsInjective ==
  ASSUME NEW o \in Opcodes, NEW p \in Opcodes, OpcodeBits[o] = OpcodeBits[p]
  PROVE  o = p
  BY DEF OpcodeBits, Opcodes

LEMMA OpcodeBitsType == \A o \in Opcodes : OpcodeBits[o] \in 0 .. 127
  BY DEF OpcodeBits, Opcodes

\* The bytes of an instruction.
LEMMA InstrBytesType ==
  ASSUME NEW i \in Instr
  PROVE  \A k \in 1 .. 4 : InstrBytes(i)[k] \in 0 .. 255
<1>1. /\ i.opcode \in Opcodes /\ i.rd \in 0 .. 31 /\ i.funct3 \in 0 .. 7
      /\ i.rs1 \in 0 .. 31 /\ i.rs2 \in 0 .. 31 /\ i.funct7 \in 0 .. 127
  BY DEF Instr
<1>2. OpcodeBits[i.opcode] \in 0 .. 127
  BY <1>1, OpcodeBitsType
<1>3. /\ OpcodeBits[i.opcode] + (i.rd % 2) * 128 \in 0 .. 255
      /\ i.rd \div 2 + i.funct3 * 16 + (i.rs1 % 2) * 128 \in 0 .. 255
      /\ i.rs1 \div 2 + (i.rs2 % 16) * 16 \in 0 .. 255
      /\ i.rs2 \div 16 + i.funct7 * 2 \in 0 .. 255
  <2>1. OpcodeBits[i.opcode] + (i.rd % 2) * 128 \in 0 .. 255
    BY SMT, <1>1, <1>2
  <2>2. i.rd \div 2 + i.funct3 * 16 + (i.rs1 % 2) * 128 \in 0 .. 255
    BY SMT, <1>1
  <2>3. i.rs1 \div 2 + (i.rs2 % 16) * 16 \in 0 .. 255
    BY SMT, <1>1
  <2>4. i.rs2 \div 16 + i.funct7 * 2 \in 0 .. 255
    BY SMT, <1>1
  <2> QED  BY <2>1, <2>2, <2>3, <2>4
<1>4. /\ InstrBytes(i)[1] \in 0 .. 255 /\ InstrBytes(i)[2] \in 0 .. 255
      /\ InstrBytes(i)[3] \in 0 .. 255 /\ InstrBytes(i)[4] \in 0 .. 255
  BY <1>3 DEF InstrBytes
<1>5. \A k \in 1 .. 4 : k = 1 \/ k = 2 \/ k = 3 \/ k = 4
  BY SMT
<1> QED  BY <1>4, <1>5

LEMMA InstrBytesInjective ==
  ASSUME NEW i \in Instr, NEW j \in Instr,
         \A k \in 1 .. 4 : InstrBytes(i)[k] = InstrBytes(j)[k]
  PROVE  i = j
<1> DEFINE Fields(x) == /\ x.opcode \in Opcodes /\ x.rd \in 0 .. 31 /\ x.funct3 \in 0 .. 7
                        /\ x.rs1 \in 0 .. 31 /\ x.rs2 \in 0 .. 31 /\ x.funct7 \in 0 .. 127
                        /\ OpcodeBits[x.opcode] \in 0 .. 127
<1>1. Fields(i) /\ Fields(j)
  BY OpcodeBitsType DEF Instr
<1>2. /\ OpcodeBits[i.opcode] + (i.rd % 2) * 128 = OpcodeBits[j.opcode] + (j.rd % 2) * 128
      /\ i.rd \div 2 + i.funct3 * 16 + (i.rs1 % 2) * 128
           = j.rd \div 2 + j.funct3 * 16 + (j.rs1 % 2) * 128
      /\ i.rs1 \div 2 + (i.rs2 % 16) * 16 = j.rs1 \div 2 + (j.rs2 % 16) * 16
      /\ i.rs2 \div 16 + i.funct7 * 2 = j.rs2 \div 16 + j.funct7 * 2
  BY SMT DEF InstrBytes
<1>3. /\ \A r \in 0 .. 31 : r % 2 \in 0 .. 1 /\ r \div 2 \in 0 .. 15
                            /\ r % 16 \in 0 .. 15 /\ r \div 16 \in 0 .. 1
      /\ \A r, s \in 0 .. 31 : r % 2 = s % 2 /\ r \div 2 = s \div 2 => r = s
      /\ \A r, s \in 0 .. 31 : r % 16 = s % 16 /\ r \div 16 = s \div 16 => r = s
  BY SMT
<1>4. OpcodeBits[i.opcode] = OpcodeBits[j.opcode] /\ i.rd % 2 = j.rd % 2
  <2> DEFINE o == OpcodeBits[i.opcode]
             p == OpcodeBits[j.opcode]
             x == i.rd % 2
             y == j.rd % 2
  <2>1. o + x * 128 = p + y * 128
    BY <1>2
  <2>2. o \in 0 .. 127 /\ p \in 0 .. 127 /\ x \in 0 .. 1 /\ y \in 0 .. 1
    BY <1>1, <1>3
  <2> HIDE DEF o, p, x, y
  <2>3. o = p /\ x = y
    BY SMT, <2>1, <2>2
  <2> QED  BY <2>3 DEF o, p, x, y
<1>5. i.rd \div 2 = j.rd \div 2 /\ i.funct3 = j.funct3 /\ i.rs1 % 2 = j.rs1 % 2
  <2> DEFINE o == i.rd \div 2
             p == j.rd \div 2
             f == i.funct3
             g == j.funct3
             x == i.rs1 % 2
             y == j.rs1 % 2
  <2>1. o + f * 16 + x * 128 = p + g * 16 + y * 128
    BY <1>2
  <2>2. /\ o \in 0 .. 15 /\ p \in 0 .. 15 /\ f \in 0 .. 7 /\ g \in 0 .. 7
        /\ x \in 0 .. 1 /\ y \in 0 .. 1
    BY <1>1, <1>3
  <2> HIDE DEF o, p, f, g, x, y
  <2>3. o = p /\ f = g /\ x = y
    BY SMT, <2>1, <2>2
  <2> QED  BY <2>3 DEF o, p, f, g, x, y
<1>6. i.rs1 \div 2 = j.rs1 \div 2 /\ i.rs2 % 16 = j.rs2 % 16
  <2> DEFINE o == i.rs1 \div 2
             p == j.rs1 \div 2
             x == i.rs2 % 16
             y == j.rs2 % 16
  <2>1. o + x * 16 = p + y * 16
    BY <1>2
  <2>2. o \in 0 .. 15 /\ p \in 0 .. 15 /\ x \in 0 .. 15 /\ y \in 0 .. 15
    BY <1>1, <1>3
  <2> HIDE DEF o, p, x, y
  <2>3. o = p /\ x = y
    BY SMT, <2>1, <2>2
  <2> QED  BY <2>3 DEF o, p, x, y
<1>7. i.rs2 \div 16 = j.rs2 \div 16 /\ i.funct7 = j.funct7
  <2> DEFINE o == i.rs2 \div 16
             p == j.rs2 \div 16
             x == i.funct7
             y == j.funct7
  <2>1. o + x * 2 = p + y * 2
    BY <1>2
  <2>2. o \in 0 .. 1 /\ p \in 0 .. 1 /\ x \in 0 .. 127 /\ y \in 0 .. 127
    BY <1>1, <1>3
  <2> HIDE DEF o, p, x, y
  <2>3. o = p /\ x = y
    BY SMT, <2>1, <2>2
  <2> QED  BY <2>3 DEF o, p, x, y
<1>8. i.rd = j.rd /\ i.rs1 = j.rs1 /\ i.rs2 = j.rs2
  BY <1>1, <1>3, <1>4, <1>5, <1>6, <1>7
<1>9. i.opcode = j.opcode
  BY <1>1, <1>4, OpcodeBitsInjective
<1> QED  BY <1>5, <1>7, <1>8, <1>9 DEF Instr

InstrDigits(i) ==
  [k \in 1 .. 8 |-> LET byte == InstrBytes(i)[4 - (k - 1) \div 2]
                     IN  IF k % 2 = 1 THEN byte \div 16 ELSE byte % 16]

LEMMA InstrDigitsType ==
  ASSUME NEW i \in Instr
  PROVE  InstrDigits(i) \in Digits
<1>1. \A k \in 1 .. 8 : 4 - (k - 1) \div 2 \in 1 .. 4
  BY SMT
<1>2. \A b \in 0 .. 255 : b \div 16 \in 0 .. 15 /\ b % 16 \in 0 .. 15
  BY SMT
<1> DEFINE byte(k)  == InstrBytes(i)[4 - (k - 1) \div 2]
           digit(k) == IF k % 2 = 1 THEN byte(k) \div 16 ELSE byte(k) % 16
<1>3. ASSUME NEW k \in 1 .. 8
      PROVE  digit(k) \in 0 .. 15
  <2>1. byte(k) \in 0 .. 255
    BY <1>1, InstrBytesType
  <2> HIDE DEF byte
  <2> QED  BY <1>2, <2>1
<1>4. InstrDigits(i) = [k \in 1 .. 8 |-> digit(k)]
  BY DEF InstrDigits
<1> HIDE DEF digit
<1> QED  BY <1>3, <1>4 DEF Digits

\* The two digits of a byte determine it.
LEMMA TwoDigits ==
  ASSUME NEW p \in 0 .. 255, NEW q \in 0 .. 255, p \div 16 = q \div 16, p % 16 = q % 16
  PROVE  p = q
<1>1. p % 16 = p - 16 * (p \div 16)
  OBVIOUS
<1>2. q % 16 = q - 16 * (q \div 16)
  OBVIOUS
<1> DEFINE h == p \div 16
           l == p % 16
<1>3. l = p - 16 * h /\ l = q - 16 * h /\ h \in Int
  BY <1>1, <1>2
<1> HIDE DEF h, l
<1> QED  BY <1>3

LEMMA InstrDigitsInjective ==
  ASSUME NEW i \in Instr, NEW j \in Instr, InstrDigits(i) = InstrDigits(j)
  PROVE  i = j
<1>1. \A k \in 1 .. 8 : InstrDigits(i)[k] = InstrDigits(j)[k]
  OBVIOUS
<1>2. ASSUME NEW k \in 1 .. 4
      PROVE  InstrBytes(i)[k] = InstrBytes(j)[k]
  <2> DEFINE high == 9 - 2 * k
             low  == 10 - 2 * k
  <2>1. /\ high \in 1 .. 8 /\ high % 2 = 1 /\ 4 - (high - 1) \div 2 = k
        /\ low \in 1 .. 8 /\ low % 2 = 0 /\ 4 - (low - 1) \div 2 = k
    BY SMT
  <2> HIDE DEF high, low
  <2>2. ASSUME NEW x
        PROVE  /\ InstrDigits(x)[high] = InstrBytes(x)[k] \div 16
               /\ InstrDigits(x)[low] = InstrBytes(x)[k] % 16
    BY <2>1 DEF InstrDigits
  <2>3. /\ InstrBytes(i)[k] \div 16 = InstrBytes(j)[k] \div 16
        /\ InstrBytes(i)[k] % 16 = InstrBytes(j)[k] % 16
    BY <1>1, <2>1, <2>2
  <2>4. InstrBytes(i)[k] \in 0 .. 255 /\ InstrBytes(j)[k] \in 0 .. 255
    BY InstrBytesType
  <2> QED  BY <2>3, <2>4, TwoDigits
<1> QED  BY <1>2, InstrBytesInjective

-----------------------------------------------------------------------------
(* Readable records *)

\* A record in the readable format: two numbers and three literals.
Framed(a, x, m, y, e) == <<a>> \o x \o <<m>> \o y \o <<e>>

Begins == {19, 20, 23, 24, 25}
Bytes  == Nat \ {0}

\* The same for texts.
Joins(u, s, t) == u \in Seq(Bytes) /\ Parts(u, s, t)

LEMMA Concatenation ==
  ASSUME NEW s \in Seq(Bytes), NEW t \in Seq(Bytes)
  PROVE  Joins(s \o t, s, t)
  BY ConcatParts DEF Joins

LEMMA TextParts ==
  ASSUME NEW x \in Text
  PROVE  /\ Len(x) \in Nat /\ x = [k \in 1 .. Len(x) |-> x[k]]
         /\ \A k \in 1 .. Len(x) : x[k] \in 1 .. 16
  BY DEF Text

LEMMA NotBegin == \A n \in 1 .. 16 : n \notin Begins /\ n \notin {17, 21}
  BY DEF Begins, Bytes

\* Where the parts of a record are.
FramedAs(f, a, x, m, y, e) ==
  /\ f \in Seq(Bytes) /\ Len(f) = Len(x) + Len(y) + 3
  /\ f[1] = a /\ f[Len(x) + 2] = m /\ f[Len(x) + Len(y) + 3] = e
  /\ \A k \in 1 .. Len(x) : f[1 + k] = x[k]
  /\ \A k \in 1 .. Len(y) : f[Len(x) + 2 + k] = y[k]

LEMMA FramedParts ==
  ASSUME NEW x \in Text, NEW y \in Text,
         NEW a \in Bytes, NEW m \in Bytes, NEW e \in Bytes
  PROVE  FramedAs(Framed(a, x, m, y, e), a, x, m, y, e)
<1> DEFINE f == Framed(a, x, m, y, e)
<1> DEFINE sa == <<a>>
           sm == <<m>>
           se == <<e>>
           p == sa \o x
           q == p \o sm
           r == q \o y
<1>1. /\ x \in Seq(Bytes) /\ y \in Seq(Bytes) /\ Len(x) \in Nat /\ Len(y) \in Nat
      /\ sa \in Seq(Bytes) /\ sm \in Seq(Bytes) /\ se \in Seq(Bytes)
      /\ Len(sa) = 1 /\ Len(sm) = 1 /\ Len(se) = 1
      /\ sa[1] = a /\ sm[1] = m /\ se[1] = e
  <2>1. ASSUME NEW t \in Text
        PROVE  t \in Seq(Bytes) /\ Len(t) \in Nat
    <3>1. 1 .. 16 \subseteq Bytes
      BY DEF Bytes
    <3> HIDE DEF Bytes
    <3>2. \A k \in 1 .. Len(t) : t[k] \in Bytes
      BY <3>1, TextParts
    <3> QED  BY <3>2, TextParts
  <2>2. sa \in Seq(Bytes) /\ sm \in Seq(Bytes) /\ se \in Seq(Bytes)
    BY DEF Bytes
  <2>3. Len(sa) = 1 /\ Len(sm) = 1 /\ Len(se) = 1 /\ sa[1] = a /\ sm[1] = m /\ se[1] = e
    OBVIOUS
  <2> QED  BY <2>1, <2>2, <2>3
<1>2. f = r \o se
  BY DEF Framed
<1> HIDE DEF f
<1> HIDE DEF sa, sm, se
<1>3. Joins(p, sa, x)
  BY <1>1, Concatenation
<1>4. Joins(q, p, sm)
  <2>1. p \in Seq(Bytes)
    BY <1>3 DEF Joins
  <2> HIDE DEF p
  <2> QED  BY <1>1, <2>1, Concatenation
<1>5. Joins(r, q, y)
  <2>1. q \in Seq(Bytes)
    BY <1>4 DEF Joins
  <2> HIDE DEF q
  <2> QED  BY <1>1, <2>1, Concatenation
<1>6. Joins(f, r, se)
  <2>1. r \in Seq(Bytes)
    BY <1>5 DEF Joins
  <2> HIDE DEF r
  <2> QED  BY <1>1, <1>2, <2>1, Concatenation
<1> HIDE DEF p, q, r
<1> USE DEF Joins, Parts
<1>7. /\ Len(p) = Len(x) + 1 /\ Len(q) = Len(x) + 2 /\ Len(r) = Len(x) + Len(y) + 2
      /\ Len(f) = Len(x) + Len(y) + 3
  BY <1>1, <1>3, <1>4, <1>5, <1>6
<1>8. \A k \in 1 .. Len(x) + 1 : f[k] = p[k]
  <2>1. \A k \in 1 .. Len(x) + 1 : k \in 1 .. Len(p) /\ k \in 1 .. Len(q) /\ k \in 1 .. Len(r)
    BY <1>1, <1>7
  <2> QED  BY <1>4, <1>5, <1>6, <2>1
<1>9. f[1] = a
  <2>1. 1 \in 1 .. Len(x) + 1 /\ 1 \in 1 .. Len(sa)
    BY <1>1
  <2> QED  BY <1>1, <1>3, <1>8, <2>1
<1>10. f[Len(x) + 2] = m
  <2>1. /\ 1 \in 1 .. Len(sm) /\ Len(p) + 1 = Len(x) + 2
        /\ Len(x) + 2 \in 1 .. Len(q) /\ Len(x) + 2 \in 1 .. Len(r)
    BY <1>1, <1>7
  <2>2. q[Len(x) + 2] = m
    BY <1>1, <1>4, <2>1
  <2> QED  BY <1>5, <1>6, <2>1, <2>2
<1>11. f[Len(x) + Len(y) + 3] = e
  <2>1. 1 \in 1 .. Len(se) /\ Len(r) + 1 = Len(x) + Len(y) + 3
    BY <1>1, <1>7
  <2> QED  BY <1>1, <1>6, <2>1
<1>12. ASSUME NEW k \in 1 .. Len(x)
       PROVE  f[1 + k] = x[k]
  <2>1. 1 + k \in 1 .. Len(x) + 1 /\ Len(sa) + k = 1 + k
    BY <1>1
  <2> QED  BY <1>3, <1>8, <2>1
<1>13. ASSUME NEW k \in 1 .. Len(y)
       PROVE  f[Len(x) + 2 + k] = y[k]
  <2>1. Len(q) + k = Len(x) + 2 + k /\ Len(x) + 2 + k \in 1 .. Len(r)
    BY <1>1, <1>7
  <2> QED  BY <1>5, <1>6, <2>1
<1> QED  BY <1>6, <1>7, <1>9, <1>10, <1>11, <1>12, <1>13 DEF FramedAs, f

\* A record begins where a byte of Begins is.
LEMMA FramedHeaded ==
  ASSUME NEW x \in Text, NEW y \in Text,
         NEW a \in Begins, NEW m \in {17, 21}, NEW e \in {18, 22}
  PROVE  Headed(Framed(a, x, m, y, e), Begins)
<1> DEFINE f == Framed(a, x, m, y, e)
<1>1. a \in Bytes /\ m \in Bytes /\ e \in Bytes
  BY DEF Begins, Bytes
<1>2. /\ f \in Seq(Bytes) /\ Len(f) = Len(x) + Len(y) + 3
      /\ f[1] = a /\ f[Len(x) + 2] = m /\ f[Len(x) + Len(y) + 3] = e
      /\ \A k \in 1 .. Len(x) : f[1 + k] = x[k]
      /\ \A k \in 1 .. Len(y) : f[Len(x) + 2 + k] = y[k]
  <2>1. FramedAs(f, a, x, m, y, e)
    BY <1>1, FramedParts
  <2> HIDE DEF f
  <2> QED  BY <2>1 DEF FramedAs
<1> HIDE DEF f
<1>3. /\ Len(x) \in Nat /\ \A k \in 1 .. Len(x) : x[k] \in 1 .. 16
      /\ Len(y) \in Nat /\ \A k \in 1 .. Len(y) : y[k] \in 1 .. 16
  BY TextParts
<1>4. ASSUME NEW k \in 2 .. Len(f)
      PROVE  f[k] \notin Begins
  <2>1. CASE k \in 2 .. Len(x) + 1
    <3>1. k - 1 \in 1 .. Len(x) /\ 1 + (k - 1) = k
      BY <1>3, <2>1
    <3>2. f[k] \in 1 .. 16
      <4> DEFINE j == k - 1
      <4>1. j \in 1 .. Len(x) /\ 1 + j = k
        BY <3>1
      <4> HIDE DEF j
      <4>2. f[k] = x[j] /\ x[j] \in 1 .. 16
        BY <1>2, <1>3, <4>1
      <4> QED  BY <4>2
    <3> QED  BY <3>2, NotBegin
  <2>2. CASE k = Len(x) + 2 \/ k = Len(f)
    BY <1>2, <2>2 DEF Begins
  <2>3. CASE k \in Len(x) + 3 .. Len(x) + Len(y) + 2
    <3>1. k - Len(x) - 2 \in 1 .. Len(y) /\ Len(x) + 2 + (k - Len(x) - 2) = k
      BY <1>3, <2>3
    <3>2. f[k] \in 1 .. 16
      <4> DEFINE j == k - Len(x) - 2
      <4>1. j \in 1 .. Len(y) /\ Len(x) + 2 + j = k
        BY <3>1
      <4> HIDE DEF j
      <4>2. f[k] = y[j] /\ y[j] \in 1 .. 16
        BY <1>2, <1>3, <4>1
      <4> QED  BY <4>2
    <3> QED  BY <3>2, NotBegin
  <2> QED  BY <1>2, <1>3, <2>1, <2>2, <2>3
<1>5. f # <<>> /\ f[1] \in Begins
  BY <1>2, <1>3
<1> QED  BY <1>4, <1>5 DEF Headed, f

\* It gives the literal it begins with and the two numbers.
LEMMA FramedInjective ==
  ASSUME NEW x \in Text, NEW y \in Text,
         NEW u \in Text, NEW v \in Text,
         NEW a \in Begins, NEW b \in Begins, NEW m \in {17, 21}, NEW e \in {18, 22},
         Framed(a, x, m, y, e) = Framed(b, u, m, v, e)
  PROVE  a = b /\ x = u /\ y = v
<1> DEFINE f == Framed(a, x, m, y, e)
<1>0. f = Framed(b, u, m, v, e)
  OBVIOUS
<1>1. /\ a \in Bytes /\ b \in Bytes /\ m \in Bytes /\ e \in Bytes
      /\ Len(x) \in Nat /\ Len(y) \in Nat /\ Len(u) \in Nat /\ Len(v) \in Nat
      /\ \A k \in 1 .. Len(x) : x[k] \in 1 .. 16
      /\ \A k \in 1 .. Len(u) : u[k] \in 1 .. 16
  <2>1. a \in Bytes /\ b \in Bytes /\ m \in Bytes /\ e \in Bytes
    BY DEF Begins, Bytes
  <2>2. Len(x) \in Nat /\ Len(y) \in Nat /\ Len(u) \in Nat /\ Len(v) \in Nat
    BY TextParts
  <2>3. /\ \A k \in 1 .. Len(x) : x[k] \in 1 .. 16
        /\ \A k \in 1 .. Len(u) : u[k] \in 1 .. 16
    BY TextParts
  <2> QED  BY <2>1, <2>2, <2>3
<1>2. /\ Len(f) = Len(x) + Len(y) + 3
      /\ f[1] = a /\ f[Len(x) + 2] = m
      /\ \A k \in 1 .. Len(x) : f[1 + k] = x[k]
      /\ \A k \in 1 .. Len(y) : f[Len(x) + 2 + k] = y[k]
  <2>1. FramedAs(f, a, x, m, y, e)
    BY <1>1, FramedParts
  <2> HIDE DEF f
  <2> QED  BY <2>1 DEF FramedAs
<1>3. /\ Len(f) = Len(u) + Len(v) + 3
      /\ f[1] = b /\ f[Len(u) + 2] = m
      /\ \A k \in 1 .. Len(u) : f[1 + k] = u[k]
      /\ \A k \in 1 .. Len(v) : f[Len(u) + 2 + k] = v[k]
  <2>1. FramedAs(Framed(b, u, m, v, e), b, u, m, v, e)
    BY <1>1, FramedParts
  <2>2. FramedAs(f, b, u, m, v, e)
    BY <1>0, <2>1, Zenon
  <2> HIDE DEF f
  <2> QED  BY <2>2 DEF FramedAs
<1> HIDE DEF f
<1>4. Len(x) = Len(u)
  <2>1. ASSUME Len(x) < Len(u) PROVE FALSE
    <3> DEFINE j == Len(x) + 1
    <3>1. j \in 1 .. Len(u) /\ 1 + j = Len(x) + 2
      BY <1>1, <2>1
    <3> HIDE DEF j
    <3>2. f[Len(x) + 2] = u[j] /\ u[j] \in 1 .. 16
      BY <1>1, <1>3, <3>1
    <3> QED  BY <1>2, <3>2, NotBegin
  <2>2. ASSUME Len(u) < Len(x) PROVE FALSE
    <3> DEFINE j == Len(u) + 1
    <3>1. j \in 1 .. Len(x) /\ 1 + j = Len(u) + 2
      BY <1>1, <2>2
    <3> HIDE DEF j
    <3>2. f[Len(u) + 2] = x[j] /\ x[j] \in 1 .. 16
      BY <1>1, <1>2, <3>1
    <3> QED  BY <1>3, <3>2, NotBegin
  <2> QED  BY <1>1, <2>1, <2>2
<1>5. /\ x = [k \in 1 .. Len(x) |-> x[k]] /\ u = [k \in 1 .. Len(u) |-> u[k]]
      /\ y = [k \in 1 .. Len(y) |-> y[k]] /\ v = [k \in 1 .. Len(v) |-> v[k]]
  BY TextParts
<1>6. x = u
  <2>1. \A k \in 1 .. Len(x) : x[k] = u[k]
    BY <1>2, <1>3, <1>4
  <2> QED  BY <1>4, <1>5, <2>1
<1>7. y = v
  <2>1. Len(y) = Len(v)
    BY <1>1, <1>2, <1>3, <1>4
  <2>2. \A k \in 1 .. Len(y) : y[k] = v[k]
    BY <1>2, <1>3, <1>4, <2>1
  <2> QED  BY <1>5, <2>1, <2>2
<1> QED  BY <1>2, <1>3, <1>6, <1>7

LEMMA HexWordText ==
  ASSUME NEW v \in Word
  PROVE  HexWord(v) \in Text
<1>1. v \in Nat
  BY DEF Word
<1>2. HexWord(v) = Hex(WordDigits(v))
  BY DEF HexWord, WordDigits
<1> QED  BY <1>1, <1>2, WordDigitsType, HexText

LEMMA HexWordInjective ==
  ASSUME NEW v \in Word, NEW w \in Word, HexWord(v) = HexWord(w)
  PROVE  v = w
<1>1. v \in Nat /\ w \in Nat
  BY DEF Word
<1>2. HexWord(v) = Hex(WordDigits(v)) /\ HexWord(w) = Hex(WordDigits(w))
  BY DEF HexWord, WordDigits
<1>3. WordDigits(v) = WordDigits(w)
  BY <1>1, <1>2, WordDigitsType, HexInjective
<1> QED  BY <1>3, WordDigitsInjective

LEMMA HexInstrText ==
  ASSUME NEW i \in Instr
  PROVE  HexInstr(i) \in Text
<1>1. HexInstr(i) = Hex(InstrDigits(i))
  BY DEF HexInstr, InstrDigits
<1> QED  BY <1>1, InstrDigitsType, HexText

LEMMA HexInstrInjective ==
  ASSUME NEW i \in Instr, NEW j \in Instr, HexInstr(i) = HexInstr(j)
  PROVE  i = j
<1>1. HexInstr(i) = Hex(InstrDigits(i)) /\ HexInstr(j) = Hex(InstrDigits(j))
  BY DEF HexInstr, InstrDigits
<1>2. InstrDigits(i) = InstrDigits(j)
  BY <1>1, InstrDigitsType, HexInjective
<1> QED  BY <1>2, InstrDigitsInjective

\* The literals and the numbers of a record.
LEMMA StoreRecordFramed ==
  ASSUME NEW rec \in Records["MMU"]
  PROVE  /\ rec = <<rec[1], rec[2], rec[3]>>
         /\ rec[1] \in 0 .. 2 /\ rec[2] \in Word /\ rec[3] \in Word
         /\ ReadableRecord("MMU", rec)
              = Framed(23 + rec[1], HexWord(rec[2]), 17, HexWord(rec[3]), 18)
<1>1. Records["MMU"] = (0 .. 2) \X Word \X Word
  BY DEF Records, Levels
<1>2. ReadableRecord("MMU", rec)
        = SetMem(rec[1]) \o HexWord(rec[2]) \o Blank \o HexWord(rec[3]) \o EndOfLine
  BY DEF ReadableRecord
<1>3. rec = <<rec[1], rec[2], rec[3]>> /\ rec[1] \in 0 .. 2 /\ rec[2] \in Word /\ rec[3] \in Word
  BY <1>1
<1>4. SetMem(rec[1]) = <<23 + rec[1]>> /\ Blank = <<17>> /\ EndOfLine = <<18>>
  BY DEF SetMem, Blank, EndOfLine
<1> QED  BY <1>2, <1>3, <1>4 DEF Framed

LEMMA RegRecordFramed ==
  ASSUME NEW rec \in Records["REG_FILE"]
  PROVE  /\ rec = <<rec[1], rec[2]>> /\ rec[1] \in Word /\ rec[2] \in Word
         /\ ReadableRecord("REG_FILE", rec)
              = Framed(19, HexWord(rec[1]), 17, HexWord(rec[2]), 18)
<1>1. Records["REG_FILE"] = Regs \X Word
  BY DEF Records, Levels
<1>2. ReadableRecord("REG_FILE", rec)
        = SetReg \o HexWord(rec[1]) \o Blank \o HexWord(rec[2]) \o EndOfLine
  BY DEF ReadableRecord
<1>3. Regs \subseteq Word
  BY WordSizeAssumption DEF Regs, Word
<1>4. rec = <<rec[1], rec[2]>> /\ rec[1] \in Word /\ rec[2] \in Word
  BY <1>1, <1>3
<1>5. SetReg = <<19>> /\ Blank = <<17>> /\ EndOfLine = <<18>>
  BY DEF SetReg, Blank, EndOfLine
<1> QED  BY <1>2, <1>4, <1>5 DEF Framed

LEMMA ExecRecordFramed ==
  ASSUME NEW rec \in Records["DECODER"]
  PROVE  /\ rec = <<rec[1], rec[2]>> /\ rec[1] \in Word /\ rec[2] \in Instr
         /\ ReadableRecord("DECODER", rec)
              = Framed(20, HexInstr(rec[2]), 21, HexWord(rec[1]), 22)
<1>1. Records["DECODER"] = Word \X Instr
  BY DEF Records, Levels
<1>2. ReadableRecord("DECODER", rec)
        = Instruction \o HexInstr(rec[2]) \o AtPC \o HexWord(rec[1]) \o ClosePC
  BY DEF ReadableRecord
<1>3. rec = <<rec[1], rec[2]>> /\ rec[1] \in Word /\ rec[2] \in Instr
  BY <1>1
<1>4. Instruction = <<20>> /\ AtPC = <<21>> /\ ClosePC = <<22>>
  BY DEF Instruction, AtPC, ClosePC
<1> QED  BY <1>2, <1>3, <1>4 DEF Framed

LEMMA ReadableRecordText ==
  ASSUME NEW l \in Levels, NEW rec \in Records[l]
  PROVE  /\ ReadableRecord(l, rec) \in Seq(Bytes)
         /\ Headed(ReadableRecord(l, rec), Begins)
<1>1. ASSUME NEW x \in Text, NEW y \in Text,
             NEW a \in Begins, NEW m \in {17, 21}, NEW e \in {18, 22},
             ReadableRecord(l, rec) = Framed(a, x, m, y, e)
      PROVE  /\ ReadableRecord(l, rec) \in Seq(Bytes)
             /\ Headed(ReadableRecord(l, rec), Begins)
  <2>1. a \in Bytes /\ m \in Bytes /\ e \in Bytes
    BY DEF Begins, Bytes
  <2>2. FramedAs(Framed(a, x, m, y, e), a, x, m, y, e)
    BY <2>1, FramedParts
  <2>3. Framed(a, x, m, y, e) \in Seq(Bytes)
    BY <2>2 DEF FramedAs
  <2>4. Headed(Framed(a, x, m, y, e), Begins)
    BY FramedHeaded
  <2> QED  BY <1>1, <2>3, <2>4
<1>2. CASE l = "MMU"
  <2>1. 23 + rec[1] \in Begins /\ HexWord(rec[2]) \in Text /\ HexWord(rec[3]) \in Text
    BY <1>2, StoreRecordFramed, HexWordText DEF Begins
  <2> QED  BY <1>1, <1>2, <2>1, StoreRecordFramed
<1>3. CASE l = "REG_FILE"
  <2>1. 19 \in Begins /\ HexWord(rec[1]) \in Text /\ HexWord(rec[2]) \in Text
    BY <1>3, RegRecordFramed, HexWordText DEF Begins
  <2> QED  BY <1>1, <1>3, <2>1, RegRecordFramed
<1>4. CASE l = "DECODER"
  <2>1. 20 \in Begins /\ HexWord(rec[1]) \in Text /\ HexInstr(rec[2]) \in Text
    BY <1>4, ExecRecordFramed, HexWordText, HexInstrText DEF Begins
  <2> QED  BY <1>1, <1>4, <2>1, ExecRecordFramed
<1> QED  BY <1>2, <1>3, <1>4 DEF Levels

LEMMA ReadableRecordInjective ==
  ASSUME NEW l \in Levels, NEW r \in Records[l], NEW s \in Records[l],
         ReadableRecord(l, r) = ReadableRecord(l, s)
  PROVE  r = s
<1>1. CASE l = "MMU"
  <2>1. /\ 23 + r[1] \in Begins /\ HexWord(r[2]) \in Text /\ HexWord(r[3]) \in Text
        /\ 23 + s[1] \in Begins /\ HexWord(s[2]) \in Text /\ HexWord(s[3]) \in Text
    BY <1>1, StoreRecordFramed, HexWordText DEF Begins
  <2>2. Framed(23 + r[1], HexWord(r[2]), 17, HexWord(r[3]), 18)
          = Framed(23 + s[1], HexWord(s[2]), 17, HexWord(s[3]), 18)
    BY <1>1, StoreRecordFramed
  <2>3. 23 + r[1] = 23 + s[1] /\ HexWord(r[2]) = HexWord(s[2]) /\ HexWord(r[3]) = HexWord(s[3])
    BY <2>1, <2>2, FramedInjective
  <2>4. /\ r = <<r[1], r[2], r[3]>> /\ s = <<s[1], s[2], s[3]>>
        /\ r[1] \in 0 .. 2 /\ r[2] \in Word /\ r[3] \in Word
        /\ s[1] \in 0 .. 2 /\ s[2] \in Word /\ s[3] \in Word
    BY <1>1, StoreRecordFramed
  <2>5. r[1] = s[1]
    BY <2>3, <2>4
  <2>6. r[2] = s[2] /\ r[3] = s[3]
    BY <2>3, <2>4, HexWordInjective
  <2> QED  BY <2>4, <2>5, <2>6
<1>2. CASE l = "REG_FILE"
  <2>1. /\ 19 \in Begins /\ HexWord(r[1]) \in Text /\ HexWord(r[2]) \in Text
        /\ HexWord(s[1]) \in Text /\ HexWord(s[2]) \in Text
    BY <1>2, RegRecordFramed, HexWordText DEF Begins
  <2>2. Framed(19, HexWord(r[1]), 17, HexWord(r[2]), 18)
          = Framed(19, HexWord(s[1]), 17, HexWord(s[2]), 18)
    BY <1>2, RegRecordFramed
  <2>3. HexWord(r[1]) = HexWord(s[1]) /\ HexWord(r[2]) = HexWord(s[2])
    BY <2>1, <2>2, FramedInjective
  <2>4. /\ r = <<r[1], r[2]>> /\ s = <<s[1], s[2]>>
        /\ r[1] \in Word /\ r[2] \in Word /\ s[1] \in Word /\ s[2] \in Word
    BY <1>2, RegRecordFramed
  <2> QED  BY <2>3, <2>4, HexWordInjective
<1>3. CASE l = "DECODER"
  <2>1. /\ 20 \in Begins /\ HexWord(r[1]) \in Text /\ HexInstr(r[2]) \in Text
        /\ HexWord(s[1]) \in Text /\ HexInstr(s[2]) \in Text
    BY <1>3, ExecRecordFramed, HexWordText, HexInstrText DEF Begins
  <2>2. Framed(20, HexInstr(r[2]), 21, HexWord(r[1]), 22)
          = Framed(20, HexInstr(s[2]), 21, HexWord(s[1]), 22)
    BY <1>3, ExecRecordFramed
  <2>3. HexInstr(r[2]) = HexInstr(s[2]) /\ HexWord(r[1]) = HexWord(s[1])
    BY <2>1, <2>2, FramedInjective
  <2>4. /\ r = <<r[1], r[2]>> /\ s = <<s[1], s[2]>>
        /\ r[1] \in Word /\ r[2] \in Instr /\ s[1] \in Word /\ s[2] \in Instr
    BY <1>3, ExecRecordFramed
  <2> QED  BY <2>3, <2>4, HexWordInjective, HexInstrInjective
<1> QED  BY <1>1, <1>2, <1>3 DEF Levels

-----------------------------------------------------------------------------
(* Files *)

LEMMA FlattenType ==
  ASSUME NEW Byte, NEW w \in Seq(Seq(Byte))
  PROVE  FlattenSeq(w) \in Seq(Byte)
<1>1. Len(w) \in Nat
  OBVIOUS
<1>2. CASE Len(w) = 0
  BY <1>2 DEF FlattenSeq
<1>3. CASE Len(w) # 0
  <2>1. PICK f : FlattenSeq(w) = f[Len(w)] /\ Flat(w, f)
    BY <1>1, <1>3, FlattenRecursion
  <2>2. UpTo(f, Len(w)) \in Seq(Byte)
    BY <1>1, <2>1, FlatStep
  <2> QED  BY <1>3, <2>1, <2>2 DEF UpTo
<1> QED  BY <1>2, <1>3

\* What the writer makes of the records of a trace.
Texts(r, l, t) == [k \in 1 .. Len(t) |-> IF r THEN ReadableRecord(l, t[k])
                                              ELSE BinaryRecord(l, t[k])]

\* A sequence of n numbers.
Numbers(s, n) == s \in Seq(Nat) /\ Len(s) = n

LEMMA NumbersConcat ==
  ASSUME NEW m \in Nat, NEW n \in Nat, NEW s, NEW t, Numbers(s, m), Numbers(t, n)
  PROVE  Numbers(s \o t, m + n)
<1>1. s \in Seq(Nat) /\ t \in Seq(Nat) /\ Len(s) = m /\ Len(t) = n
  BY DEF Numbers
<1>2. s \o t \in Seq(Nat)
  BY <1>1
<1>3. Len(s \o t) = m + n
  BY <1>1, ConcatParts DEF Parts
<1> QED  BY <1>2, <1>3 DEF Numbers

LEMMA BinaryRecordLength ==
  ASSUME NEW l \in Levels, NEW rec \in Records[l]
  PROVE  /\ BinaryRecord(l, rec) \in Seq(Nat)
         /\ Len(BinaryRecord(l, rec)) = IF l = "DECODER" THEN 8 ELSE 9
<1>1. ASSUME NEW v \in Word
      PROVE  WordBytes(v) \in Seq(Nat) /\ Len(WordBytes(v)) = 4
  <2>1. v \in Nat
    BY DEF Word
  <2>2. ASSUME NEW k \in 1 .. 4
        PROVE  (v \div ByteSize ^ (k - 1)) % ByteSize \in Nat
    <3> DEFINE p == ByteSize ^ (k - 1)
    <3>1. p \in Nat \ {0}
      BY BytePowers
    <3> HIDE DEF p
    <3>2. (v \div p) % ByteSize \in Nat
      BY <2>1, <3>1, BytePowers
    <3> QED  BY <3>2 DEF p
  <2> DEFINE b(k) == (v \div ByteSize ^ (k - 1)) % ByteSize
  <2>3. WordBytes(v) = [k \in 1 .. 4 |-> b(k)]
    BY DEF WordBytes
  <2>4. \A k \in 1 .. 4 : b(k) \in Nat
    BY <2>2
  <2> HIDE DEF b
  <2> QED  BY <2>3, <2>4
<1>2. ASSUME NEW i \in Instr
      PROVE  InstrBytes(i) \in Seq(Nat) /\ Len(InstrBytes(i)) = 4
  <2> DEFINE b == InstrBytes(i)[1]
             c == InstrBytes(i)[2]
             d == InstrBytes(i)[3]
             e == InstrBytes(i)[4]
  <2>1. InstrBytes(i) = <<b, c, d, e>>
    BY DEF InstrBytes
  <2>2. b \in Nat /\ c \in Nat /\ d \in Nat /\ e \in Nat
    <3>1. \A k \in 1 .. 4 : InstrBytes(i)[k] \in Nat
      <4>1. \A x \in 0 .. 255 : x \in Nat
        OBVIOUS
      <4> QED  BY <4>1, InstrBytesType
    <3> QED  BY <3>1
  <2> HIDE DEF b, c, d, e
  <2> QED  BY <2>1, <2>2
<1>3. CASE l = "MMU"
  <2> DEFINE x == WordBytes(rec[2])
             y == WordBytes(rec[3])
             h == <<rec[1]>>
  <2>1. Numbers(h, 1) /\ Numbers(x, 4) /\ Numbers(y, 4)
    <3>1. rec[1] \in Nat /\ rec[2] \in Word /\ rec[3] \in Word
      <4>1. rec[1] \in 0 .. 2 /\ rec[2] \in Word /\ rec[3] \in Word
        BY <1>3, StoreRecordFramed
      <4> QED  BY <4>1
    <3>2. Numbers(h, 1)
      BY <3>1 DEF Numbers
    <3> QED  BY <1>1, <3>1, <3>2 DEF Numbers
  <2>2. BinaryRecord(l, rec) = (h \o x) \o y
    BY <1>3 DEF BinaryRecord
  <2> HIDE DEF x, y, h
  <2>3. Numbers(h \o x, 1 + 4)
    BY <2>1, NumbersConcat
  <2>4. Numbers((h \o x) \o y, (1 + 4) + 4)
    BY <2>1, <2>3, NumbersConcat
  <2>5. Numbers(BinaryRecord(l, rec), 9)
    BY <2>2, <2>4
  <2> QED  BY <1>3, <2>5 DEF Numbers
<1>4. CASE l = "REG_FILE"
  <2> DEFINE x == WordBytes(rec[1])
             y == WordBytes(rec[2])
             h == <<1>>
  <2>1. Numbers(h, 1) /\ Numbers(x, 4) /\ Numbers(y, 4)
    BY <1>1, <1>4, RegRecordFramed DEF Numbers
  <2>2. BinaryRecord(l, rec) = (h \o x) \o y
    BY <1>4 DEF BinaryRecord
  <2> HIDE DEF x, y, h
  <2>3. Numbers(h \o x, 1 + 4)
    BY <2>1, NumbersConcat
  <2>4. Numbers((h \o x) \o y, (1 + 4) + 4)
    BY <2>1, <2>3, NumbersConcat
  <2>5. Numbers(BinaryRecord(l, rec), 9)
    BY <2>2, <2>4
  <2> QED  BY <1>4, <2>5 DEF Numbers
<1>5. CASE l = "DECODER"
  <2> DEFINE x == InstrBytes(rec[2])
             y == WordBytes(rec[1])
  <2>1. Numbers(x, 4) /\ Numbers(y, 4)
    BY <1>1, <1>2, <1>5, ExecRecordFramed DEF Numbers
  <2>2. BinaryRecord(l, rec) = x \o y
    BY <1>5 DEF BinaryRecord
  <2> HIDE DEF x, y
  <2>3. Numbers(x \o y, 4 + 4)
    BY <2>1, NumbersConcat
  <2>4. Numbers(BinaryRecord(l, rec), 8)
    BY <2>2, <2>3
  <2> QED  BY <1>5, <2>4 DEF Numbers
<1> QED  BY <1>3, <1>4, <1>5 DEF Levels

LEMMA TextsType ==
  ASSUME NEW l \in Levels, NEW t \in Seq(Records[l]), NEW r \in BOOLEAN
  PROVE  /\ Texts(r, l, t) \in Seq(Seq(Nat)) /\ Len(Texts(r, l, t)) = Len(t)
         /\ \A k \in 1 .. Len(t) : t[k] \in Records[l]
         /\ r => Texts(r, l, t) \in Seq(Seq(Bytes))
         /\ Encoded(r, l, t) = FlattenSeq(Texts(r, l, t))
<1> DEFINE w(k) == IF r THEN ReadableRecord(l, t[k]) ELSE BinaryRecord(l, t[k])
<1>1. Len(t) \in Nat /\ \A k \in 1 .. Len(t) : t[k] \in Records[l]
  OBVIOUS
<1>2. Texts(r, l, t) = [k \in 1 .. Len(t) |-> w(k)]
  BY DEF Texts
<1>3. \A k \in 1 .. Len(t) : w(k) \in Seq(Nat) /\ (r => w(k) \in Seq(Bytes))
  <2>1. \A x \in Seq(Bytes) : x \in Seq(Nat)
    BY DEF Bytes
  <2> QED  BY <1>1, <2>1, ReadableRecordText, BinaryRecordLength
<1>4. Encoded(r, l, t) = FlattenSeq(Texts(r, l, t))
  BY DEF Encoded, Texts
<1> HIDE DEF w
<1>5. Texts(r, l, t) \in Seq(Seq(Nat)) /\ Len(Texts(r, l, t)) = Len(t)
  BY <1>1, <1>2, <1>3
<1>6. r => Texts(r, l, t) \in Seq(Seq(Bytes))
  BY <1>1, <1>2, <1>3
<1> QED  BY <1>1, <1>4, <1>5, <1>6

\* Files are sequences of numbers.
LEMMA EncodedType ==
  ASSUME NEW l \in Levels, NEW t \in Seq(Records[l]), NEW r \in BOOLEAN
  PROVE  Encoded(r, l, t) \in Seq(Nat)
BY TextsType, FlattenType

-----------------------------------------------------------------------------
(* CompareTwoFiles *)

\* strcmp sees all of a text without zero bytes.
LEMMA CStringOfText ==
  ASSUME NEW b \in Seq(Bytes)
  PROVE  CString(b) = b
<1> DEFINE I == {i \in 1 .. Len(b) : b[i] = 0}
<1>1. SelectInSeq(b, LAMBDA x : x = 0) = IF I = {} THEN 0 ELSE Min(I)
  BY DEF SelectInSeq
<1>2. I = {}
  BY DEF Bytes
<1> HIDE DEF I
<1> QED  BY <1>1, <1>2 DEF CString

\* CompareTwoFiles finds every difference of two readable traces: it says of
\* two files that they are equal only if the records are.
LEMMA ReadableFilesExact ==
  ASSUME NEW l \in Levels, NEW s \in Seq(Records[l]), NEW t \in Seq(Records[l]),
         ~CompareTwoFiles(Encoded(TRUE, l, s), Encoded(TRUE, l, t))
  PROVE  s = t
<1> DEFINE w == Texts(TRUE, l, s)
           v == Texts(TRUE, l, t)
<1>1. /\ w \in Seq(Seq(Bytes)) /\ Encoded(TRUE, l, s) = FlattenSeq(w) /\ Len(w) = Len(s)
      /\ v \in Seq(Seq(Bytes)) /\ Encoded(TRUE, l, t) = FlattenSeq(v) /\ Len(v) = Len(t)
      /\ \A k \in 1 .. Len(s) : s[k] \in Records[l]
      /\ \A k \in 1 .. Len(t) : t[k] \in Records[l]
  BY TextsType
<1>2. /\ Len(s) \in Nat /\ s = [k \in 1 .. Len(s) |-> s[k]]
      /\ Len(t) \in Nat /\ t = [k \in 1 .. Len(t) |-> t[k]]
  OBVIOUS
<1>3. /\ \A k \in 1 .. Len(s) : w[k] = ReadableRecord(l, s[k])
      /\ \A k \in 1 .. Len(t) : v[k] = ReadableRecord(l, t[k])
  BY DEF Texts
<1> HIDE DEF w, v
<1>4. FlattenSeq(w) \in Seq(Bytes) /\ FlattenSeq(v) \in Seq(Bytes)
  BY <1>1, FlattenType
<1>5. FlattenSeq(w) = FlattenSeq(v)
  BY <1>1, <1>4, CStringOfText DEF CompareTwoFiles
<1>6. /\ \A k \in 1 .. Len(w) : Headed(w[k], Begins)
      /\ \A k \in 1 .. Len(v) : Headed(v[k], Begins)
  BY <1>1, <1>3, ReadableRecordText
<1>7. w = v
  BY <1>1, <1>5, <1>6, FlattenInjective
<1>8. Len(s) = Len(t)
  BY <1>1, <1>7
<1>9. \A k \in 1 .. Len(s) : s[k] = t[k]
  BY <1>1, <1>3, <1>7, <1>8, ReadableRecordInjective
<1> QED  BY <1>2, <1>8, <1>9

\* In the binary format it finds that the numbers of records differ: all the
\* records of a level have one size.
LEMMA BinaryFilesCount ==
  ASSUME NEW l \in Levels, NEW s \in Seq(Records[l]), NEW t \in Seq(Records[l]),
         Len(s) # Len(t)
  PROVE  CompareTwoFiles(Encoded(FALSE, l, s), Encoded(FALSE, l, t))
<1> DEFINE c == IF l = "DECODER" THEN 8 ELSE 9
<1>1. ASSUME NEW r \in Seq(Records[l])
      PROVE  Len(Encoded(FALSE, l, r)) = c * Len(r)
  <2> DEFINE w == Texts(FALSE, l, r)
  <2>1. /\ w \in Seq(Seq(Nat)) /\ Encoded(FALSE, l, r) = FlattenSeq(w) /\ Len(w) = Len(r)
        /\ \A k \in 1 .. Len(r) : r[k] \in Records[l]
    BY TextsType
  <2>2. \A k \in 1 .. Len(r) : w[k] = BinaryRecord(l, r[k])
    BY DEF Texts
  <2> HIDE DEF w
  <2>3. \A k \in 1 .. Len(w) : Len(w[k]) = c
    <3> SUFFICES ASSUME NEW k \in 1 .. Len(w) PROVE Len(w[k]) = c
      OBVIOUS
    <3>1. r[k] \in Records[l] /\ w[k] = BinaryRecord(l, r[k])
      BY <2>1, <2>2
    <3>2. Len(BinaryRecord(l, r[k])) = c
      BY <3>1, BinaryRecordLength
    <3> QED  BY <3>1, <3>2
  <2>4. c \in Nat
    OBVIOUS
  <2> HIDE DEF c
  <2> QED  BY <2>1, <2>3, <2>4, FlattenLength
<1>2. Len(s) \in Nat /\ Len(t) \in Nat /\ c \in {8, 9}
  OBVIOUS
<1> HIDE DEF c
<1>3. c * Len(s) # c * Len(t)
  BY <1>2
<1> QED  BY <1>1, <1>3 DEF CompareTwoFiles
=============================================================================
