----------------------------- MODULE DataLemmas -----------------------------
(* Induction over the naturals for the sets and sequences the modules keep,   *)
(* from the well-founded order of the naturals: the other proof modules cite  *)
(* these facts by name.                                                       *)
EXTENDS Integers, SequencesExt, TLAPS, SequenceTheorems, WellFoundedInduction

\* A nonempty set of naturals has a least element.
LEMMA LeastNat ==
    ASSUME NEW T, T \subseteq Nat, T # {}
    PROVE  \E x \in T : \A y \in T : x <= y
<1>1. PICK x \in T : \A y \in T : ~(<<y, x>> \in OpToRel(<, Nat))
  BY WFMin, NatLessThanWellFounded, Zenon
<1>2. ASSUME NEW y \in T PROVE x <= y
  <2>1. <<y, x>> \in Nat \X Nat
    OBVIOUS
  <2>2. ~(y < x)
    BY <1>1, <2>1 DEF OpToRel
  <2>. QED
    BY <2>2
<1>. QED
  BY <1>2

\* A set that takes each number of 1..n with the one before holds them all.
LEMMA InductUpTo ==
    ASSUME NEW n \in Nat, NEW T,
           \A i \in 1..n : (i = 1 \/ i - 1 \in T) => i \in T
    PROVE  \A i \in 1..n : i \in T
<1>. DEFINE B == (1..n) \ T
<1>. SUFFICES ASSUME B # {} PROVE FALSE
  OBVIOUS
<1>1. B \subseteq Nat
  OBVIOUS
<1>2. PICK i \in B : \A j \in B : i <= j
  BY <1>1, LeastNat
<1>3. i # 1 => i - 1 \in 1..n /\ i - 1 \notin B
  BY <1>2
<1>. QED
  BY <1>3

\* A bounded nonempty set of integers has a greatest element.
LEMMA GreatestUpTo ==
    ASSUME NEW n \in Nat, NEW T, T \subseteq 0..n, T # {}
    PROVE  \E x \in T : \A y \in T : y <= x
<1>. DEFINE D == {d \in Nat : n - d \in T}
<1>1. PICK t \in T : TRUE
  OBVIOUS
<1>2. n - t \in D
  OBVIOUS
<1>3. PICK d \in D : \A e \in D : d <= e
  BY <1>2, LeastNat
<1>4. ASSUME NEW y \in T PROVE y <= n - d
  <2>1. n - y \in D /\ y \in Nat
    OBVIOUS
  <2>. QED
    BY <1>3, <2>1
<1>. QED
  BY <1>4

-----------------------------------------------------------------------------
(* Greatest and least elements *)

LEMMA MaxIs ==
    ASSUME NEW T, NEW x, T \subseteq Int, x \in T, \A y \in T : y <= x
    PROVE  Max(T) = x
<1>1. /\ Max(T) \in T
      /\ \A y \in T : Max(T) >= y
  BY DEF Max
<1>2. /\ Max(T) \in Int /\ x \in Int
      /\ Max(T) <= x /\ x <= Max(T)
  BY <1>1
<1>. QED
  BY <1>2

LEMMA MinIs ==
    ASSUME NEW T, NEW x, T \subseteq Int, x \in T, \A y \in T : x <= y
    PROVE  Min(T) = x
<1>1. /\ Min(T) \in T
      /\ \A y \in T : Min(T) <= y
  BY DEF Min
<1>2. /\ Min(T) \in Int /\ x \in Int
      /\ Min(T) <= x /\ x <= Min(T)
  BY <1>1
<1>. QED
  BY <1>2

LEMMA MaxExists ==
    ASSUME NEW n, NEW T, n \in Nat, T \subseteq 1..n, T # {}
    PROVE  Max(T) \in T /\ \A y \in T : y <= Max(T)
<1>1. PICK x \in T : \A y \in T : y <= x
  <2>1. T \subseteq 0..n
    OBVIOUS
  <2>. QED
    BY <2>1, GreatestUpTo
<1>2. T \subseteq Int
  OBVIOUS
<1>3. Max(T) = x
  BY <1>1, <1>2, MaxIs
<1>. QED
  BY <1>1, <1>3

LEMMA MinExists ==
    ASSUME NEW T, T \subseteq Nat, T # {}
    PROVE  Min(T) \in T /\ \A y \in T : Min(T) <= y
<1>1. PICK x \in T : \A y \in T : x <= y
  BY LeastNat
<1>2. T \subseteq Int
  OBVIOUS
<1>3. Min(T) = x
  BY <1>1, <1>2, MinIs
<1>. QED
  BY <1>1, <1>3

\* What is added above a set of numbers becomes its greatest, and not its least.
LEMMA MaxAdded ==
    ASSUME NEW n, NEW T, n \in Nat, T \subseteq 1..n
    PROVE  Max(T \cup {n + 1}) = n + 1
<1>1. T \cup {n + 1} \subseteq Int /\ \A y \in T \cup {n + 1} : y <= n + 1
  OBVIOUS
<1>. QED
  BY <1>1, MaxIs

LEMMA MinAdded ==
    ASSUME NEW n, NEW T, n \in Nat, T \subseteq 1..n
    PROVE  Min(T \cup {n + 1}) = IF T = {} THEN n + 1 ELSE Min(T)
<1>1. CASE T = {}
  <2>1. T \cup {n + 1} \subseteq Int /\ \A y \in T \cup {n + 1} : n + 1 <= y
    BY <1>1
  <2>. QED
    BY <1>1, <2>1, MinIs
<1>2. CASE T # {}
  <2>1. Min(T) \in T /\ \A y \in T : Min(T) <= y
    <3>1. T \subseteq Nat
      OBVIOUS
    <3>. QED
      BY <1>2, <3>1, MinExists
  <2>. DEFINE least == Min(T)
  <2>. HIDE DEF least
  <2>2. least \in T /\ \A y \in T : least <= y
    BY <2>1 DEF least
  <2>3. T \cup {n + 1} \subseteq Int /\ \A y \in T \cup {n + 1} : least <= y
    BY <2>2
  <2>4. Min(T \cup {n + 1}) = Min(T)
    BY <2>2, <2>3, MinIs DEF least
  <2>. QED
    BY <1>2, <2>4
<1>. QED
  BY <1>1, <1>2

-----------------------------------------------------------------------------
(* FlattenSeq *)

\* Concatenation is associative.
Associates(a, b, c) == (a \o b) \o c = a \o (b \o c)

LEMMA Assoc ==
    ASSUME NEW S, NEW a, NEW b, NEW c, a \in Seq(S), b \in Seq(S), c \in Seq(S)
    PROVE  Associates(a, b, c)
BY ConcatAssociative DEF Associates

\* The recursive function FlattenSeq is defined with, up to n.
Flattens(f, seqs, n) == f = [i \in 1..n |-> IF i = 1 THEN seqs[i] ELSE f[i - 1] \o seqs[i]]

\* There is one for every n.
LEMMA FlattensExists ==
    ASSUME NEW seqs, NEW n \in Nat
    PROVE  \E f : Flattens(f, seqs, n)
<1>. DEFINE T == {m \in 1..n : \E f : Flattens(f, seqs, m)}
<1>1. ASSUME NEW m \in 1..n, m = 1 \/ m - 1 \in T
      PROVE  m \in T
  <2>1. CASE m = 1
    <3>1. Flattens([i \in 1..1 |-> seqs[1]], seqs, 1)
      BY DEF Flattens
    <3>. QED
      BY <2>1, <3>1
  <2>2. CASE m # 1
    <3>1. PICK f : Flattens(f, seqs, m - 1)
      BY <1>1, <2>2
    <3>. DEFINE g == [i \in 1..m |-> IF i = m THEN f[m - 1] \o seqs[m] ELSE f[i]]
    <3>2. ASSUME NEW i \in 1..m
          PROVE  g[i] = IF i = 1 THEN seqs[i] ELSE g[i - 1] \o seqs[i]
      <4>1. CASE i = m
        <5>1. m - 1 \in 1..m /\ m - 1 # m
          BY <2>2
        <5>. QED
          BY <2>2, <4>1, <5>1
      <4>2. CASE i # m
        <5>1. i \in 1..m - 1 /\ (i # 1 => i - 1 \in 1..m /\ i - 1 # m)
          BY <4>2
        <5>2. f[i] = IF i = 1 THEN seqs[i] ELSE f[i - 1] \o seqs[i]
          BY <3>1, <5>1 DEF Flattens
        <5>. QED
          BY <4>2, <5>1, <5>2
      <4>. QED
        BY <4>1, <4>2
    <3>3. g = [i \in 1..m |-> g[i]]
      OBVIOUS
    <3>. HIDE DEF g
    <3>4. Flattens(g, seqs, m)
      BY <3>2, <3>3 DEF Flattens
    <3>. QED
      BY <3>4
  <2>. QED
    BY <2>1, <2>2
<1>. HIDE DEF T
<1>2. \A m \in 1..n : m \in T
  BY <1>1, InductUpTo, Zenon
<1>3. Flattens([i \in 1..0 |-> i], seqs, 0)
  BY DEF Flattens
<1>. QED
  BY <1>2, <1>3 DEF T

\* What it is at a place depends on the sequences up to that place only.
LEMMA FlattensUnique ==
    ASSUME NEW s, NEW t, NEW f, NEW g, NEW m \in Nat, NEW n \in Nat,
           Flattens(f, s, m), Flattens(g, t, n),
           m <= n, \A i \in 1..m : s[i] = t[i]
    PROVE  \A i \in 1..m : f[i] = g[i]
<1>. DEFINE T == {i \in 1..m : f[i] = g[i]}
<1>1. ASSUME NEW i \in 1..m, i = 1 \/ i - 1 \in T
      PROVE  i \in T
  <2>1. i \in 1..m /\ i \in 1..n /\ s[i] = t[i]
    OBVIOUS
  <2>2. /\ f[i] = IF i = 1 THEN s[i] ELSE f[i - 1] \o s[i]
        /\ g[i] = IF i = 1 THEN t[i] ELSE g[i - 1] \o t[i]
    BY <2>1 DEF Flattens
  <2>. QED
    BY <1>1, <2>1, <2>2
<1>. HIDE DEF T
<1>2. \A i \in 1..m : i \in T
  BY <1>1, InductUpTo, Zenon
<1>. QED
  BY <1>2 DEF T

LEMMA FlattensType ==
    ASSUME NEW S, NEW seqs, NEW n \in Nat, \A i \in 1..n : seqs[i] \in Seq(S),
           NEW f, Flattens(f, seqs, n)
    PROVE  \A i \in 1..n : f[i] \in Seq(S)
<1>. DEFINE T == {i \in 1..n : f[i] \in Seq(S)}
<1>1. ASSUME NEW i \in 1..n, i = 1 \/ i - 1 \in T
      PROVE  i \in T
  <2>1. f[i] = IF i = 1 THEN seqs[i] ELSE f[i - 1] \o seqs[i]
    BY DEF Flattens
  <2>2. CASE i = 1
    BY <2>1, <2>2
  <2>3. CASE i # 1
    <3>1. f[i - 1] \in Seq(S) /\ seqs[i] \in Seq(S)
      BY <1>1, <2>3
    <3>2. f[i - 1] \o seqs[i] \in Seq(S)
      BY <3>1, ConcatProperties
    <3>. QED
      BY <2>1, <2>3, <3>2
  <2>. QED
    BY <2>2, <2>3
<1>. HIDE DEF T
<1>2. \A i \in 1..n : i \in T
  BY <1>1, InductUpTo, Zenon
<1>. QED
  BY <1>2 DEF T

\* FlattenSeq by that function.
LEMMA FlattenIs ==
    ASSUME NEW seqs, Len(seqs) \in Nat
    PROVE  \E f : /\ Flattens(f, seqs, Len(seqs))
                  /\ FlattenSeq(seqs) = IF Len(seqs) = 0 THEN seqs ELSE f[Len(seqs)]
<1>. DEFINE f == CHOOSE h : Flattens(h, seqs, Len(seqs))
<1>1. Flattens(f, seqs, Len(seqs))
  BY FlattensExists
<1>2. FlattenSeq(seqs) = IF Len(seqs) = 0 THEN seqs ELSE f[Len(seqs)]
  BY DEF FlattenSeq, Flattens
<1>. QED
  BY <1>1, <1>2

\* chan_send: appending a sequence to the channel appends its elements.
LEMMA FlattenAppend ==
    ASSUME NEW S, NEW seqs \in Seq(Seq(S)), NEW s \in Seq(S)
    PROVE  /\ FlattenSeq(seqs) \in Seq(S)
           /\ FlattenSeq(Append(seqs, s)) = FlattenSeq(seqs) \o s
<1>. DEFINE n == Len(seqs)
            more == Append(seqs, s)
<1>1. n \in Nat /\ Len(more) = n + 1 /\ more[n + 1] = s /\ (n = 0 => seqs = <<>>)
  BY AppendProperties, EmptySeq
<1>2. \A i \in 1..n : more[i] = seqs[i] /\ seqs[i] \in Seq(S)
  BY <1>1, AppendProperties
<1>3. PICK f : Flattens(f, seqs, n) /\ FlattenSeq(seqs) = IF n = 0 THEN seqs ELSE f[n]
  BY <1>1, FlattenIs
<1>4. PICK g : Flattens(g, more, n + 1) /\ FlattenSeq(more) = g[n + 1]
  <2>1. n + 1 \in Nat /\ n + 1 # 0
    BY <1>1
  <2>. HIDE DEF n, more
  <2>. QED
    BY <1>1, <2>1, FlattenIs, Zenon
<1>. HIDE DEF n, more
<1>5. FlattenSeq(seqs) \in Seq(S)
  <2>1. CASE n = 0
    BY <1>1, <1>3, <2>1
  <2>2. CASE n # 0
    <3>1. \A i \in 1..n : f[i] \in Seq(S)
      BY <1>1, <1>2, <1>3, FlattensType
    <3>. QED
      BY <1>1, <1>3, <2>2, <3>1
  <2>. QED
    BY <2>1, <2>2
<1>6. g[n + 1] = IF n = 0 THEN s ELSE g[n] \o s
  <2>1. n + 1 \in 1..n + 1 /\ (n + 1) - 1 = n /\ (n + 1 = 1 <=> n = 0)
    BY <1>1
  <2>2. g[n + 1] = IF n + 1 = 1 THEN more[n + 1] ELSE g[(n + 1) - 1] \o more[n + 1]
    BY <1>4, <2>1, Zenon DEF Flattens
  <2>. QED
    BY <1>1, <2>1, <2>2
<1>7. n # 0 => f[n] = g[n]
  <2>1. n + 1 \in Nat /\ n <= n + 1
    BY <1>1
  <2>2. \A i \in 1..n : seqs[i] = more[i]
    BY <1>2
  <2>3. Flattens(f, seqs, n) /\ Flattens(g, more, n + 1) /\ n \in Nat
    BY <1>1, <1>3, <1>4
  <2>4. \A i \in 1..n : f[i] = g[i]
    BY <2>1, <2>2, <2>3, FlattensUnique
  <2>. QED
    BY <1>1, <2>4
<1>8. CASE n = 0
  <2>1. FlattenSeq(seqs) = <<>> /\ FlattenSeq(more) = s
    BY <1>1, <1>3, <1>4, <1>6, <1>8
  <2>2. FlattenSeq(more) = FlattenSeq(seqs) \o s
    BY <2>1, ConcatEmptySeq
  <2>. QED
    BY <1>5, <2>2 DEF more
<1>9. CASE n # 0
  <2>1. FlattenSeq(more) = FlattenSeq(seqs) \o s
    BY <1>3, <1>4, <1>6, <1>7, <1>9
  <2>. QED
    BY <1>5, <2>1 DEF more
<1>. QED
  BY <1>8, <1>9

\* chan_recv: what is left without the head is what comes behind it.
LEMMA FlattenTail ==
    ASSUME NEW S, NEW seqs \in Seq(Seq(S)), seqs # <<>>
    PROVE  /\ FlattenSeq(Tail(seqs)) \in Seq(S)
           /\ FlattenSeq(seqs) = Head(seqs) \o FlattenSeq(Tail(seqs))
<1>. DEFINE n == Len(seqs)
            rest == Tail(seqs)
<1>1. n \in Nat \ {0} /\ seqs[1] \in Seq(S) /\ Head(seqs) = seqs[1]
  BY EmptySeq
<1>2. rest \in Seq(Seq(S)) /\ Len(rest) = n - 1
  BY HeadTailProperties
<1>3. \A i \in 1..n - 1 : rest[i] = seqs[i + 1] /\ rest[i] \in Seq(S)
  BY <1>1, <1>2, HeadTailProperties
<1>4. PICK f : Flattens(f, seqs, n) /\ FlattenSeq(seqs) = f[n]
  BY <1>1, FlattenIs
<1>5. PICK g : /\ Flattens(g, rest, n - 1)
               /\ FlattenSeq(rest) = IF n - 1 = 0 THEN rest ELSE g[n - 1]
  <2>1. n - 1 \in Nat
    BY <1>1
  <2>. HIDE DEF n, rest
  <2>. QED
    BY <1>2, <2>1, FlattenIs, Zenon
<1>6. n - 1 = 0 => rest = <<>>
  BY <1>1, <1>2, EmptySeq
<1>. DEFINE first == seqs[1]
<1>7. f[1] = first
  BY <1>1, <1>4 DEF Flattens
<1>. HIDE DEF n, rest, first
<1>8. n - 1 \in Nat /\ first \in Seq(S) /\ Head(seqs) = first
  BY <1>1 DEF first
<1>9. \A i \in 1..n - 1 : g[i] \in Seq(S)
  BY <1>3, <1>5, <1>8, FlattensType
<1>10. ASSUME NEW i \in 1..n - 1, i = 1 \/ f[i] = first \o g[i - 1]
       PROVE  f[i + 1] = first \o g[i]
  <2>1. i + 1 \in 1..n /\ i + 1 # 1 /\ (i + 1) - 1 = i
    BY <1>1
  <2>2. f[i + 1] = IF i + 1 = 1 THEN seqs[i + 1] ELSE f[(i + 1) - 1] \o seqs[i + 1]
    BY <1>4, <2>1 DEF Flattens
  <2>3. g[i] = IF i = 1 THEN rest[i] ELSE g[i - 1] \o rest[i]
    BY <1>5 DEF Flattens
  <2>4. CASE i = 1
    BY <1>3, <1>7, <2>1, <2>2, <2>3, <2>4
  <2>5. CASE i # 1
    <3>1. i - 1 \in 1..n - 1
      BY <1>8, <2>5
    <3>2. first \in Seq(S) /\ g[i - 1] \in Seq(S) /\ rest[i] \in Seq(S)
      BY <1>3, <1>8, <1>9, <3>1
    <3>3. /\ f[i] = first \o g[i - 1]
          /\ g[i] = g[i - 1] \o rest[i]
          /\ f[i + 1] = f[i] \o rest[i]
      BY <1>3, <1>10, <2>1, <2>2, <2>3, <2>5
    <3>4. Associates(first, g[i - 1], rest[i])
      BY <3>2, Assoc, Zenon
    <3>. QED
      BY <3>3, <3>4, Zenon DEF Associates
  <2>. QED
    BY <2>4, <2>5
<1>11. \A i \in 1..n - 1 : f[i + 1] = first \o g[i]
  <2>. DEFINE Splits(i) == f[i + 1] = first \o g[i]
              T == {i \in 1..n - 1 : Splits(i)}
  <2>. HIDE DEF Splits
  <2>1. ASSUME NEW i \in 1..n - 1, i = 1 \/ i - 1 \in T
        PROVE  i \in T
    <3>1. i = 1 \/ f[(i - 1) + 1] = first \o g[i - 1]
      BY <2>1 DEF Splits
    <3>2. (i - 1) + 1 = i
      OBVIOUS
    <3>3. Splits(i)
      BY <1>10, <3>1, <3>2 DEF Splits
    <3>. QED
      BY <3>3
  <2>. HIDE DEF T
  <2>2. \A i \in 1..n - 1 : i \in T
    BY <1>8, <2>1, InductUpTo, Zenon
  <2>. QED
    BY <2>2 DEF T, Splits
<1>12. CASE n - 1 = 0
  <2>1. FlattenSeq(rest) = <<>> /\ FlattenSeq(seqs) = first
    BY <1>1, <1>4, <1>5, <1>6, <1>7, <1>12
  <2>2. <<>> \in Seq(S) /\ first \o <<>> = first
    BY <1>8, ConcatEmptySeq
  <2>. QED
    BY <1>8, <2>1, <2>2 DEF rest
<1>13. CASE n - 1 # 0
  <2>1. n - 1 \in 1..n - 1 /\ (n - 1) + 1 = n
    BY <1>1, <1>13
  <2>2. f[n] = first \o g[n - 1] /\ g[n - 1] \in Seq(S)
    BY <1>9, <1>11, <2>1
  <2>3. FlattenSeq(rest) = g[n - 1]
    BY <1>5, <1>13
  <2>. QED
    BY <1>4, <1>8, <2>2, <2>3 DEF rest
<1>. QED
  BY <1>12, <1>13

-----------------------------------------------------------------------------
(* Concatenations *)

\* Five sequences one behind the other, as Outstanding lines them up.
Five(a, b, c, d, e) == a \o b \o c \o d \o e

LEMMA ConcatType ==
    ASSUME NEW S, NEW a, NEW b, a \in Seq(S), b \in Seq(S)
    PROVE  a \o b \in Seq(S)
BY ConcatProperties

LEMMA ConcatEmpty ==
    ASSUME NEW S, NEW a, a \in Seq(S)
    PROVE  a \o <<>> = a /\ <<>> \o a = a
BY ConcatEmptySeq

\* u is s with t behind it.
Concats(s, t, u) == u = s \o t

\* What moves from the front of a part to the end of the one before it stays in place.
LEMMA FirstShifts ==
    ASSUME NEW S, NEW b, NEW c, NEW d, NEW e, NEW x, x \in Seq(S), b \in Seq(S)
    PROVE  Five(<<>>, x \o b, c, d, e) = Five(x, b, c, d, e)
<1>1. x \o b \in Seq(S)
  BY ConcatType, Zenon
<1>2. <<>> \o (x \o b) = x \o b
  BY <1>1, ConcatEmpty, Zenon
<1>. QED
  BY <1>2, Zenon DEF Five

LEMMA SecondShifts ==
    ASSUME NEW S, NEW a, NEW b, NEW c, NEW d, NEW e, NEW x,
           a \in Seq(S), b \in Seq(S), c \in Seq(S), x \in Seq(S)
    PROVE  Five(a, b, x \o c, d, e) = Five(a, b \o x, c, d, e)
<1>1. Associates(a \o b, x, c) /\ Associates(a, b, x)
  BY ConcatType, Assoc, Zenon
<1>2. (a \o b) \o (x \o c) = (a \o (b \o x)) \o c
  BY <1>1, Zenon DEF Associates
<1>. QED
  BY <1>2, Zenon DEF Five

LEMMA ThirdShifts ==
    ASSUME NEW S, NEW a, NEW b, NEW d, NEW e, NEW x,
           a \in Seq(S), b \in Seq(S), d \in Seq(S), x \in Seq(S)
    PROVE  Five(a, b, <<>>, x \o d, e) = Five(a, b, x, d, e)
<1>1. a \o b \in Seq(S)
  BY ConcatType, Zenon
<1>2. (a \o b) \o <<>> = a \o b
  BY <1>1, ConcatEmpty, Zenon
<1>3. Associates(a \o b, x, d)
  BY <1>1, Assoc, Zenon
<1>. QED
  BY <1>2, <1>3, Zenon DEF Five, Associates

LEMMA FifthShifts ==
    ASSUME NEW S, NEW a, NEW b, NEW c, NEW d, NEW e,
           a \in Seq(S), b \in Seq(S), c \in Seq(S), d \in Seq(S), e \in Seq(S)
    PROVE  Five(a, b, c, d, e) = Five(a, b, c, d \o e, <<>>)
<1>1. Associates((a \o b) \o c, d, e)
  BY ConcatType, Assoc, Zenon
<1>2. ((a \o b) \o c) \o (d \o e) \in Seq(S)
  BY ConcatType, Zenon
<1>3. (((a \o b) \o c) \o (d \o e)) \o <<>> = ((a \o b) \o c) \o (d \o e)
  BY <1>2, ConcatEmpty, Zenon
<1>. QED
  BY <1>1, <1>3, Zenon DEF Five, Associates

\* The five by their first part, their last part and a run in the fourth.
LEMMA FiveType ==
    ASSUME NEW S, NEW a, NEW b, NEW c, NEW d, NEW e,
           a \in Seq(S), b \in Seq(S), c \in Seq(S), d \in Seq(S), e \in Seq(S)
    PROVE  Five(a, b, c, d, e) \in Seq(S)
BY ConcatType, Zenon DEF Five

LEMMA FiveByFirst ==
    ASSUME NEW S, NEW a, NEW b, NEW c, NEW d, NEW e,
           a \in Seq(S), b \in Seq(S), c \in Seq(S), d \in Seq(S), e \in Seq(S)
    PROVE  Concats(a, Five(<<>>, b, c, d, e), Five(a, b, c, d, e))
<1>1. Associates(a, b, c) /\ Associates(a, b \o c, d) /\ Associates(a, (b \o c) \o d, e)
  BY ConcatType, Assoc, Zenon
<1>2. (((a \o b) \o c) \o d) \o e = a \o (((b \o c) \o d) \o e)
  BY <1>1, Zenon DEF Associates
<1>3. <<>> \o b = b
  BY ConcatEmpty, Zenon
<1>. QED
  BY <1>2, <1>3, Zenon DEF Five, Concats

LEMMA FiveBySecond ==
    ASSUME NEW S, NEW b, NEW c, NEW d, NEW e, NEW x,
           x \in Seq(S), b \in Seq(S), c \in Seq(S), d \in Seq(S), e \in Seq(S)
    PROVE  Concats(x, Five(<<>>, b, c, d, e), Five(<<>>, x \o b, c, d, e))
<1>1. Five(<<>>, x \o b, c, d, e) = Five(x, b, c, d, e)
  BY FirstShifts
<1>2. Concats(x, Five(<<>>, b, c, d, e), Five(x, b, c, d, e))
  BY FiveByFirst, Zenon
<1>. QED
  BY <1>1, <1>2, Zenon

LEMMA FiveByLast ==
    ASSUME NEW S, NEW a, NEW b, NEW c, NEW d, NEW e,
           a \in Seq(S), b \in Seq(S), c \in Seq(S), d \in Seq(S), e \in Seq(S)
    PROVE  Concats(Five(a, b, c, d, <<>>), e, Five(a, b, c, d, e))
<1>1. ((a \o b) \o c) \o d \in Seq(S)
  BY ConcatType, Zenon
<1>2. (((a \o b) \o c) \o d) \o <<>> = ((a \o b) \o c) \o d
  BY <1>1, ConcatEmpty, Zenon
<1>. QED
  BY <1>2, Zenon DEF Five, Concats

LEMMA FiveInThree ==
    ASSUME NEW S, NEW a, NEW b, NEW c, NEW d, NEW e,
           a \in Seq(S), b \in Seq(S), c \in Seq(S), d \in Seq(S), e \in Seq(S)
    PROVE  Concats(a \o b \o c, d \o e, Five(a, b, c, d, e))
<1>1. Associates((a \o b) \o c, d, e)
  BY ConcatType, Assoc, Zenon
<1>. QED
  BY <1>1, Zenon DEF Five, Associates, Concats

\* Taking a run of elements out of s leaves t.
LeavesOut(s, t) ==
    \E i, j \in 1..Len(s) :
      /\ i <= j
      /\ t = SubSeq(s, 1, i - 1) \o SubSeq(s, j + 1, Len(s))

LEMMA RunLeftOut ==
    ASSUME NEW S, NEW p, NEW m, NEW r,
           p \in Seq(S), m \in Seq(S), r \in Seq(S), m # <<>>
    PROVE  LeavesOut(p \o (m \o r), p \o r)
<1>. DEFINE s == p \o (m \o r)
<1>. DEFINE i == Len(p) + 1
            j == Len(p) + Len(m)
<1>1. /\ Len(p) \in Nat /\ Len(m) \in Nat \ {0} /\ Len(r) \in Nat
      /\ Len(s) = Len(p) + (Len(m) + Len(r))
  <2>1. Len(p) \in Nat /\ Len(m) \in Nat \ {0} /\ Len(r) \in Nat
    BY EmptySeq, LenProperties
  <2>2. m \o r \in Seq(S) /\ Len(m \o r) = Len(m) + Len(r)
    BY ConcatProperties
  <2>3. Len(p \o (m \o r)) = Len(p) + Len(m \o r)
    BY <2>2, ConcatProperties
  <2>. QED
    BY <2>1, <2>2, <2>3
<1>2. \A k \in 1..Len(p) : s[k] = p[k]
  BY ConcatProperties
<1>3. \A k \in 1..Len(r) : s[Len(p) + Len(m) + k] = r[k]
  BY <1>1, ConcatProperties
<1>4. SubSeq(s, 1, i - 1) = p
  <2>1. \A k \in 1..Len(p) : s[k] \in S
    BY <1>2
  <2>2. /\ SubSeq(s, 1, Len(p)) \in Seq(S)
        /\ Len(SubSeq(s, 1, Len(p))) = Len(p)
        /\ \A k \in 1..Len(p) : SubSeq(s, 1, Len(p))[k] = p[k]
    BY <1>1, <1>2, <2>1
  <2>3. i - 1 = Len(p)
    BY <1>1
  <2>. QED
    BY <2>2, <2>3, SeqEqual
<1>5. SubSeq(s, j + 1, Len(s)) = r
  <2>. DEFINE t == SubSeq(s, j + 1, Len(s))
  <2>1. t \in Seq(S) /\ Len(t) = Len(r)
    BY <1>1
  <2>2. \A k \in 1..Len(r) : t[k] = s[j + k]
    BY <1>1
  <2>3. \A k \in 1..Len(r) : t[k] = r[k]
    BY <1>3, <2>2
  <2>. HIDE DEF t
  <2>4. t = r
    BY <2>1, <2>3, SeqEqual
  <2>. QED
    BY <2>4 DEF t
<1>6. i \in 1..Len(s) /\ j \in 1..Len(s) /\ i <= j
  BY <1>1
<1>. HIDE DEF i, j, s
<1>7. LeavesOut(s, p \o r)
  BY <1>4, <1>5, <1>6 DEF LeavesOut
<1>. QED
  BY <1>7 DEF s
=============================================================================
