----------------------------- MODULE DataFacts ------------------------------
(***************************************************************************)
(* Facts that the proofs share: finite sets, sets of numbers, sequences,   *)
(* loops, circular tables, walks up a hierarchy, sequences backwards and   *)
(* sequences of sequences flattened.                                       *)
(***************************************************************************)
EXTENDS Integers, FiniteSets, SequencesExt, FiniteSetTheorems,
        SequenceTheorems, WellFoundedInduction, TLAPS

\* A set with at most one more member, or at least one less, than another, within a
\* finite set.
LEMMA SizeStep ==
  ASSUME NEW U, IsFiniteSet(U), NEW S \in SUBSET U, NEW T \in SUBSET U, NEW x \in U
  PROVE  /\ Cardinality(S) \in Nat /\ Cardinality(T) \in Nat
         /\ T \subseteq S => Cardinality(T) <= Cardinality(S)
         /\ T \subseteq S \cup {x} => Cardinality(T) <= Cardinality(S) + 1
         /\ x \in S /\ T \subseteq S \ {x} => Cardinality(T) + 1 <= Cardinality(S)
<1>1. IsFiniteSet(S) /\ IsFiniteSet(T)
  BY FS_Subset
<1>2. Cardinality(S) \in Nat /\ Cardinality(T) \in Nat
  BY <1>1, FS_CardinalityType
<1>3. T \subseteq S => Cardinality(T) <= Cardinality(S)
  BY <1>1, FS_Subset
<1>4. ASSUME T \subseteq S \cup {x}
      PROVE  Cardinality(T) <= Cardinality(S) + 1
  <2>1. /\ IsFiniteSet(S \cup {x})
        /\ Cardinality(S \cup {x}) = IF x \in S THEN Cardinality(S) ELSE Cardinality(S) + 1
    BY <1>1, FS_AddElement
  <2>2. Cardinality(T) <= Cardinality(S \cup {x})
    BY <1>4, <2>1, FS_Subset
  <2> QED
    BY <1>2, <2>1, <2>2
<1>5. ASSUME x \in S, T \subseteq S \ {x}
      PROVE  Cardinality(T) + 1 <= Cardinality(S)
  <2>1. IsFiniteSet(S \ {x}) /\ Cardinality(S \ {x}) = Cardinality(S) - 1
    BY <1>1, <1>5, FS_RemoveElement
  <2>2. Cardinality(T) <= Cardinality(S \ {x})
    BY <1>5, <2>1, FS_Subset
  <2> QED
    BY <1>2, <2>1, <2>2
<1> QED
  BY <1>2, <1>3, <1>4, <1>5

\* A set of numbers that is not empty has a least member.
LEMMA LeastOf ==
  ASSUME NEW S \in SUBSET Nat, S # {}
  PROVE  \E n \in S : \A m \in S : n <= m
<1> DEFINE R == OpToRel(<, Nat)
<1>1. IsWellFoundedOn(R, Nat)
  BY NatLessThanWellFounded
<1>2. \A m, n \in Nat : m < n => <<m, n>> \in R
  BY DEF OpToRel
<1> HIDE DEF R
<1>3. PICK n \in S : \A m \in S : ~(<<m, n>> \in R)
  BY <1>1, WFMin
<1>4. ASSUME NEW m \in S
      PROVE  n <= m
  <2>1. m \in Nat /\ n \in Nat
    OBVIOUS
  <2>2. ~(m < n)
    BY <1>2, <1>3, <2>1, Zenon
  <2> QED
    BY <2>1, <2>2, SMT
<1> QED
  BY <1>4

\* What holds of 0, and of the successor of each number it holds of, holds of all.
LEMMA Induction ==
  ASSUME NEW S \in SUBSET Nat, 0 \in S, \A n \in S : n + 1 \in S
  PROVE  \A n \in Nat : n \in S
<1> SUFFICES ASSUME Nat \ S # {}
             PROVE  FALSE
  OBVIOUS
<1>1. PICK n \in Nat \ S : \A m \in Nat \ S : n <= m
  BY LeastOf
<1>2. n # 0 /\ n - 1 \in Nat
  BY <1>1
<1>3. n - 1 \notin Nat \ S
  BY <1>1, <1>2
<1>4. (n - 1) + 1 \in S
  BY <1>2, <1>3
<1> QED
  BY <1>1, <1>2, <1>4

\* A set of numbers with a bound that is not empty has a greatest member, and Max is it.
LEMMA MaxOfBounded ==
  ASSUME NEW b \in Nat, NEW S \in SUBSET (0 .. b), S # {}
  PROVE  Max(S) \in S /\ \A n \in S : n <= Max(S)
<1> DEFINE Below == {b - n : n \in S}
<1>1. \A n \in S : n \in Nat /\ n <= b
  OBVIOUS
<1>2. Below \in SUBSET Nat /\ Below # {}
  BY <1>1
<1> HIDE DEF Below
<1>3. PICK k \in Below : \A j \in Below : k <= j
  BY <1>2, LeastOf
<1>4. PICK m \in S : k = b - m
  BY <1>3 DEF Below
<1>5. ASSUME NEW n \in S
      PROVE  m >= n
  <2>1. b - n \in Below
    BY DEF Below
  <2>2. b - m <= b - n
    BY <1>3, <1>4, <2>1
  <2> QED
    BY <1>1, <2>2
<1>6. \E x \in S : \A y \in S : x >= y
  BY <1>5
<1>7. Max(S) \in S /\ \A n \in S : Max(S) >= n
  BY <1>6 DEF Max
<1>8. Max(S) \in Nat
  BY <1>1, <1>7
<1> QED
  BY <1>1, <1>7, <1>8

\* The head and the tail of a sequence that is not empty.
LEMMA HeadTailFacts ==
  ASSUME NEW S, NEW q \in Seq(S), q # <<>>
  PROVE  /\ Head(q) \in S /\ Head(q) = q[1] /\ Len(q) \in Nat /\ Len(q) >= 1
         /\ Tail(q) \in Seq(S) /\ Len(Tail(q)) = Len(q) - 1
         /\ \A i \in 1 .. Len(q) - 1 : Tail(q)[i] = q[i + 1]
<1>1. Len(q) \in Nat /\ Len(q) # 0
  BY EmptySeq, LenProperties
<1>2. Head(q) = q[1]
  OBVIOUS
<1> QED
  BY <1>1, <1>2, HeadTailProperties

\* A sequence with one more element in front.
LEMMA ConsFacts ==
  ASSUME NEW S, NEW q \in Seq(S), NEW x \in S
  PROVE  /\ <<x>> \o q \in Seq(S) /\ <<x>> \o q # <<>> /\ Len(<<x>> \o q) = Len(q) + 1
         /\ (<<x>> \o q)[1] = x /\ Head(<<x>> \o q) = x /\ Len(q) \in Nat
         /\ \A i \in 2 .. Len(q) + 1 : (<<x>> \o q)[i] = q[i - 1]
<1>1. <<x>> \in Seq(S) /\ Len(<<x>>) = 1 /\ <<x>>[1] = x
  OBVIOUS
<1>2. Len(q) \in Nat
  BY LenProperties
<1>3. /\ <<x>> \o q \in Seq(S) /\ Len(<<x>> \o q) = Len(q) + 1
      /\ (<<x>> \o q)[1] = x
      /\ \A i \in 2 .. Len(q) + 1 : (<<x>> \o q)[i] = q[i - 1]
  BY <1>1, <1>2, ConcatProperties
<1>4. <<x>> \o q # <<>>
  BY <1>2, <1>3, EmptySeq
<1>5. Head(<<x>> \o q) = x
  BY <1>3, <1>4, HeadTailFacts
<1> QED
  BY <1>2, <1>3, <1>4, <1>5

\* What is in a sequence, by its places.
LEMMA RangeFacts ==
  ASSUME NEW S, NEW q \in Seq(S)
  PROVE  /\ Range(q) \in SUBSET S
         /\ \A x : x \in Range(q) <=> \E i \in 1 .. Len(q) : q[i] = x
         /\ IsInjective(q) <=> \A i, j \in 1 .. Len(q) : q[i] = q[j] => i = j
         /\ q = <<>> <=> Range(q) = {}
<1>1. Len(q) \in Nat /\ q \in [1 .. Len(q) -> S] /\ DOMAIN q = 1 .. Len(q)
  BY LenProperties
<1>2. \A x : x \in Range(q) <=> \E i \in 1 .. Len(q) : q[i] = x
  BY <1>1 DEF Range
<1>3. q = <<>> <=> Range(q) = {}
  <2>1. q = <<>> <=> Len(q) = 0
    BY EmptySeq
  <2>2. Len(q) # 0 => q[1] \in Range(q)
    BY <1>1, <1>2
  <2> QED
    BY <1>1, <1>2, <2>1, <2>2
<1> QED
  BY <1>1, <1>2, <1>3 DEF IsInjective

\* The members of a sequence are its head and those of its tail, once each if it repeats
\* none.
LEMMA TailRange ==
  ASSUME NEW S, NEW q \in Seq(S), q # <<>>
  PROVE  /\ Tail(q) \in Seq(S) /\ Head(q) \in S
         /\ Range(q) = {Head(q)} \cup Range(Tail(q))
         /\ IsInjective(q) => IsInjective(Tail(q)) /\ Head(q) \notin Range(Tail(q))
<1>1. /\ Head(q) \in S /\ Head(q) = q[1] /\ Len(q) \in Nat /\ Len(q) >= 1
      /\ Tail(q) \in Seq(S) /\ Len(Tail(q)) = Len(q) - 1
      /\ \A i \in 1 .. Len(q) - 1 : Tail(q)[i] = q[i + 1]
  BY HeadTailFacts
<1>2. \A x : x \in Range(Tail(q)) <=> \E i \in 1 .. Len(q) - 1 : q[i + 1] = x
  <2>1. \A x : x \in Range(Tail(q)) <=> \E i \in 1 .. Len(Tail(q)) : Tail(q)[i] = x
    BY <1>1, RangeFacts
  <2> QED
    BY <1>1, <2>1
<1>3. \A x : x \in Range(q) <=> \E i \in 1 .. Len(q) : q[i] = x
  BY RangeFacts
<1>4. ASSUME NEW x
      PROVE  x \in Range(q) <=> x = Head(q) \/ x \in Range(Tail(q))
  <2>1. ASSUME NEW i \in 1 .. Len(q), q[i] = x
        PROVE  x = Head(q) \/ x \in Range(Tail(q))
    <3>1. CASE i = 1
      BY <1>1, <2>1, <3>1
    <3>2. CASE i # 1
      <4>1. i - 1 \in 1 .. Len(q) - 1 /\ (i - 1) + 1 = i
        BY <1>1, <3>2
      <4> QED
        BY <1>2, <2>1, <4>1
    <3> QED
      BY <3>1, <3>2
  <2>2. x = Head(q) => x \in Range(q)
    BY <1>1, <1>3
  <2>3. ASSUME NEW i \in 1 .. Len(q) - 1, q[i + 1] = x
        PROVE  x \in Range(q)
    <3>1. i + 1 \in 1 .. Len(q)
      BY <1>1
    <3> QED
      BY <1>3, <2>3, <3>1
  <2> QED
    BY <1>2, <1>3, <2>1, <2>2, <2>3
<1>5. ASSUME IsInjective(q)
      PROVE  IsInjective(Tail(q)) /\ Head(q) \notin Range(Tail(q))
  <2>1. \A i, j \in 1 .. Len(q) : q[i] = q[j] => i = j
    BY <1>5, RangeFacts
  <2>2. \A i, j \in 1 .. Len(Tail(q)) : Tail(q)[i] = Tail(q)[j] => i = j
    BY <1>1, <2>1
  <2>3. IsInjective(Tail(q))
    BY <1>1, <2>2, RangeFacts
  <2>4. Head(q) \notin Range(Tail(q))
    BY <1>1, <1>2, <2>1
  <2> QED
    BY <2>3, <2>4
<1> QED
  BY <1>1, <1>4, <1>5

\* The members of two sequences, one after the other.
LEMMA ConcatRange ==
  ASSUME NEW S, NEW q \in Seq(S), NEW r \in Seq(S)
  PROVE  /\ q \o r \in Seq(S) /\ Range(q \o r) = Range(q) \cup Range(r)
         /\ IsInjective(q) /\ IsInjective(r) /\ Range(q) \cap Range(r) = {} => IsInjective(q \o r)
<1>1. /\ q \o r \in Seq(S) /\ Len(q \o r) = Len(q) + Len(r)
      /\ \A i \in 1 .. Len(q) + Len(r) :
           (q \o r)[i] = IF i <= Len(q) THEN q[i] ELSE r[i - Len(q)]
  BY ConcatProperties
<1>2. Len(q) \in Nat /\ Len(r) \in Nat
  BY LenProperties
<1>3. Range(q \o r) = Range(q) \cup Range(r)
  BY RangeConcatenation
<1>4. ASSUME IsInjective(q), IsInjective(r), Range(q) \cap Range(r) = {}
      PROVE  IsInjective(q \o r)
  <2> SUFFICES ASSUME NEW i \in 1 .. Len(q) + Len(r), NEW j \in 1 .. Len(q) + Len(r),
                      (q \o r)[i] = (q \o r)[j]
               PROVE  i = j
    BY <1>1, RangeFacts
  <2>1. /\ \A k, l \in 1 .. Len(q) : q[k] = q[l] => k = l
        /\ \A k, l \in 1 .. Len(r) : r[k] = r[l] => k = l
        /\ \A k \in 1 .. Len(q), l \in 1 .. Len(r) : q[k] # r[l]
    BY <1>4, RangeFacts
  <2>2. CASE i <= Len(q) /\ j <= Len(q)
    BY <1>1, <1>2, <2>1, <2>2
  <2>3. CASE i > Len(q) /\ j > Len(q)
    <3>1. i - Len(q) \in 1 .. Len(r) /\ j - Len(q) \in 1 .. Len(r)
      BY <1>2, <2>3
    <3>2. r[i - Len(q)] = r[j - Len(q)]
      BY <1>1, <1>2, <2>3
    <3>3. i - Len(q) = j - Len(q)
      BY <2>1, <3>1, <3>2
    <3> QED
      BY <1>2, <3>3
  <2>4. CASE i <= Len(q) /\ j > Len(q)
    <3>1. i \in 1 .. Len(q) /\ j - Len(q) \in 1 .. Len(r)
      BY <1>2, <2>4
    <3>2. q[i] = r[j - Len(q)]
      BY <1>1, <1>2, <2>4
    <3> QED
      BY <2>1, <3>1, <3>2
  <2>5. CASE i > Len(q) /\ j <= Len(q)
    <3>1. j \in 1 .. Len(q) /\ i - Len(q) \in 1 .. Len(r)
      BY <1>2, <2>5
    <3>2. q[j] = r[i - Len(q)]
      BY <1>1, <1>2, <2>5
    <3> QED
      BY <2>1, <3>1, <3>2
  <2> QED
    BY <1>2, <2>2, <2>3, <2>4, <2>5
<1> QED
  BY <1>1, <1>3, <1>4

\* A sequence of one element.
LEMMA OneElement ==
  ASSUME NEW S, NEW x \in S
  PROVE  /\ <<x>> \in Seq(S) /\ <<x>> # <<>> /\ Len(<<x>>) = 1 /\ <<x>>[1] = x
         /\ Head(<<x>>) = x /\ Tail(<<x>>) = <<>>
         /\ Range(<<x>>) = {x} /\ IsInjective(<<x>>)
<1> DEFINE q == <<x>>
<1>1. /\ q \in Seq(S) /\ q # <<>> /\ Len(q) = 1 /\ q[1] = x /\ Head(q) = x /\ Tail(q) = <<>>
      /\ 1 .. Len(q) = {1}
  OBVIOUS
<1> HIDE DEF q
<1>2. (\A y : y \in Range(q) <=> \E i \in {1} : q[i] = y)
      /\ (IsInjective(q) <=> \A i, j \in {1} : q[i] = q[j] => i = j)
  BY <1>1, RangeFacts
<1>3. Range(q) = {x}
  BY <1>1, <1>2
<1>4. IsInjective(q)
  BY <1>2
<1> QED
  BY <1>1, <1>3, <1>4 DEF q

\* The first n elements of a sequence.
LEMMA PrefixFacts ==
  ASSUME NEW S, NEW q \in Seq(S), NEW n \in 0 .. Len(q)
  PROVE  /\ SubSeq(q, 1, n) \in Seq(S) /\ Len(SubSeq(q, 1, n)) = n
         /\ \A i \in 1 .. n : SubSeq(q, 1, n)[i] = q[i]
<1>1. Len(q) \in Nat
  BY LenProperties
<1>2. \A i \in 1 .. n : q[i] \in S
  BY <1>1, ElementOfSeq
<1>3. /\ SubSeq(q, 1, n) \in Seq(S)
      /\ Len(SubSeq(q, 1, n)) = IF 1 <= n THEN n - 1 + 1 ELSE 0
      /\ \A i \in 1 .. n - 1 + 1 : SubSeq(q, 1, n)[i] = q[1 + i - 1]
  BY <1>1, <1>2, SubSeqProperties
<1> QED
  BY <1>1, <1>3

-----------------------------------------------------------------------------
(* Loops and circular tables                                               *)

\* What a loop of n turns computes from base, turn i taking x to g[<<x, i>>].
Loops(f, n, base, g) == f = [i \in 0 .. n |-> IF i = 0 THEN base ELSE g[<<f[i - 1], i>>]]

\* Turn i leads from R[i - 1] to R[i].
TurnsKeep(g, n, R) == \A i \in 1 .. n : \A x \in R[i - 1] : g[<<x, i>>] \in R[i]

\* It exists, and is in R[i] after i turns if they keep R.
LEMMA LoopExists ==
  ASSUME NEW n \in Nat, NEW R, NEW base \in R[0], NEW g, TurnsKeep(g, n, R)
  PROVE  \E f : Loops(f, n, base, g) /\ \A i \in 0 .. n : f[i] \in R[i]
<1>0. \A i \in 1 .. n : \A x \in R[i - 1] : g[<<x, i>>] \in R[i]
  BY DEF TurnsKeep
<1> DEFINE Runs(f, m) == /\ DOMAIN f = 0 .. m
                         /\ f[0] = base
                         /\ \A i \in 1 .. m : f[i] = g[<<f[i - 1], i>>]
                         /\ \A i \in 0 .. m : f[i] \in R[i]
           K == {m \in Nat : m <= n => \E f : Runs(f, m)}
<1>1. 0 \in K
  <2> DEFINE f == [i \in 0 .. 0 |-> base]
  <2>1. Runs(f, 0)
    OBVIOUS
  <2> QED
    BY <2>1
<1>2. ASSUME NEW m \in K
      PROVE  m + 1 \in K
  <2> SUFFICES ASSUME m + 1 <= n
               PROVE  \E f : Runs(f, m + 1)
    OBVIOUS
  <2>1. m \in Nat /\ m <= n
    OBVIOUS
  <2>2. PICK f : Runs(f, m)
    BY <2>1
  <2> DEFINE h == [i \in 0 .. m + 1 |-> IF i <= m THEN f[i] ELSE g[<<f[m], m + 1>>]]
  <2>3. DOMAIN h = 0 .. m + 1 /\ h[m + 1] = g[<<f[m], m + 1>>] /\ \A i \in 0 .. m : h[i] = f[i]
    BY <2>1
  <2> HIDE DEF h
  <2>4. f[m] \in R[m] /\ (m + 1) - 1 = m /\ m + 1 \in 1 .. n
    BY <2>1, <2>2
  <2>5. h[m + 1] \in R[m + 1]
    BY <1>0, <2>3, <2>4
  <2>6. ASSUME NEW i \in 1 .. m + 1
        PROVE  h[i] = g[<<h[i - 1], i>>]
    <3>1. CASE i = m + 1
      <4>1. h[m] = f[m]
        BY <2>1, <2>3
      <4> QED
        BY <2>3, <2>4, <3>1, <4>1
    <3>2. CASE i # m + 1
      <4>1. i \in 1 .. m /\ i \in 0 .. m /\ i - 1 \in 0 .. m
        BY <2>1, <3>2
      <4> QED
        BY <2>2, <2>3, <4>1
    <3> QED
      BY <3>1, <3>2
  <2>7. ASSUME NEW i \in 0 .. m + 1
        PROVE  h[i] \in R[i]
    <3>1. i = m + 1 \/ i \in 0 .. m
      BY <2>1
    <3> QED
      BY <2>2, <2>3, <2>5, <3>1
  <2>8. h[0] = base
    BY <2>1, <2>2, <2>3
  <2>9. Runs(h, m + 1)
    BY <2>3, <2>6, <2>7, <2>8
  <2> QED
    BY <2>9
<1>3. \A m \in Nat : m \in K
  <2> HIDE DEF K
  <2>1. K \in SUBSET Nat
    BY DEF K
  <2> QED
    BY <1>1, <1>2, <2>1, Induction
<1>4. PICK f : Runs(f, n)
  BY <1>3
<1> DEFINE h == [i \in 0 .. n |-> f[i]]
<1>5. h = [i \in 0 .. n |-> IF i = 0 THEN base ELSE g[<<h[i - 1], i>>]]
  <2>1. \A i \in 0 .. n : f[i] = IF i = 0 THEN base ELSE g[<<h[i - 1], i>>]
    <3> SUFFICES ASSUME NEW i \in 0 .. n
                 PROVE  f[i] = IF i = 0 THEN base ELSE g[<<h[i - 1], i>>]
      OBVIOUS
    <3>1. i # 0 => i \in 1 .. n /\ i - 1 \in 0 .. n
      OBVIOUS
    <3> QED
      BY <1>4, <3>1
  <2> QED
    BY <2>1
<1>6. \A i \in 0 .. n : h[i] \in R[i]
  BY <1>4
<1> HIDE DEF h
<1> QED
  BY <1>5, <1>6 DEF Loops

\* What each turn of a loop keeps is kept by all of them.
LEMMA LoopKeeps ==
  ASSUME NEW n \in Nat, NEW f, NEW R, f[0] \in R[0],
         \A i \in 1 .. n : f[i - 1] \in R[i - 1] => f[i] \in R[i]
  PROVE  \A i \in 0 .. n : f[i] \in R[i]
<1> DEFINE K == {m \in Nat : m <= n => f[m] \in R[m]}
<1>1. 0 \in K
  OBVIOUS
<1>2. ASSUME NEW m \in K
      PROVE  m + 1 \in K
  <2>1. m \in Nat /\ (m + 1 <= n => m + 1 \in 1 .. n /\ (m + 1) - 1 = m)
    OBVIOUS
  <2> QED
    BY <2>1
<1>3. \A m \in Nat : m \in K
  <2> HIDE DEF K
  <2>1. K \in SUBSET Nat
    BY DEF K
  <2> QED
    BY <1>1, <1>2, <2>1, Induction
<1> QED
  BY <1>3

\* Division with remainder.
LEMMA Division ==
  ASSUME NEW a \in Int, NEW n \in Nat \ {0}
  PROVE  /\ a % n \in 0 .. n - 1 /\ a \div n \in Int /\ a = n * (a \div n) + (a % n)
         /\ \A q \in Int : \A r \in 0 .. n - 1 : a = n * q + r => r = a % n
<1>1. a % n \in 0 .. n - 1 /\ a \div n \in Int /\ a = n * (a \div n) + (a % n)
  OBVIOUS
<1>2. ASSUME NEW q \in Int, NEW r \in 0 .. n - 1, a = n * q + r
      PROVE  r = a % n
  BY <1>2
<1> QED
  BY <1>1, <1>2

\* The slot that is d slots further than a hash h points to, and how much further slot i is.
SlotAt(h, d, n) == (h + d) % n
Further(h, i, n) == (i - h) % n

\* The two are each other's inverse.
LEMMA Distance ==
  ASSUME NEW h \in Nat, NEW n \in Nat \ {0}
  PROVE  /\ \A d \in Nat : SlotAt(h, d, n) \in 0 .. n - 1
         /\ \A d \in 0 .. n - 1 : Further(h, SlotAt(h, d, n), n) = d
         /\ \A i \in 0 .. n - 1 : Further(h, i, n) \in 0 .. n - 1
                                  /\ SlotAt(h, Further(h, i, n), n) = i
<1>1. ASSUME NEW d \in 0 .. n - 1
      PROVE  (((h + d) % n) - h) % n = d
  <2>0. h + d \in Int
    OBVIOUS
  <2>1. PICK q, r : q = (h + d) \div n /\ r = (h + d) % n
    OBVIOUS
  <2>2. q \in Int /\ r \in 0 .. n - 1 /\ h + d = n * q + r
    BY <2>0, <2>1, Division
  <2>3. PICK p \in Int : p = 0 - q
    BY <2>2
  <2>4. n * p = 0 - (n * q)
    BY <2>2, <2>3
  <2>5. r - h = n * p + d
    BY <2>2, <2>4
  <2>6. r - h \in Int
    BY <2>2
  <2>7. d = (r - h) % n
    BY <2>3, <2>5, <2>6, Division
  <2> QED
    BY <2>1, <2>7
<1>2. ASSUME NEW i \in 0 .. n - 1
      PROVE  (i - h) % n \in 0 .. n - 1 /\ (h + ((i - h) % n)) % n = i
  OBVIOUS
<1>3. ASSUME NEW d \in Nat
      PROVE  (h + d) % n \in 0 .. n - 1
  OBVIOUS
<1> QED
  BY <1>1, <1>2, <1>3 DEF SlotAt, Further

\* Among n slots some is not in a set of fewer.
LEMMA FreeSlot ==
  ASSUME NEW n \in Nat, NEW S \in SUBSET (0 .. n - 1), Cardinality(S) # n
  PROVE  \E i \in 0 .. n - 1 : i \notin S
<1>1. Cardinality(0 .. n - 1) = n
  <2>1. Cardinality(0 .. n - 1) = IF 0 > n - 1 THEN 0 ELSE n - 1 - 0 + 1
    BY FS_Interval
  <2> QED
    BY <2>1
<1> QED
  BY <1>1

-----------------------------------------------------------------------------
(* Walks up a hierarchy                                                     *)

\* What is computed for d from what is computed for up[d], and base where the walk stops.
Climbs(f, D, up, stop, base, g) ==
    f = [d \in D |-> IF d \in stop THEN base ELSE g[<<f[up[d]], d>>]]

\* The rank of all that is above d is less than that of d.
Ranks(rank, b, D, up, stop) ==
    /\ b \in Nat /\ rank \in [D -> 0 .. b]
    /\ \A d \in D \ stop : up[d] \in D /\ rank[up[d]] < rank[d]

\* What each step of such a walk keeps is true of its result.
LEMMA ClimbKeeps ==
  ASSUME NEW D, NEW up, NEW stop, NEW rank, NEW b, Ranks(rank, b, D, up, stop),
         NEW f, NEW R, \A d \in D \cap stop : f[d] \in R[d],
         \A d \in D \ stop : f[up[d]] \in R[up[d]] => f[d] \in R[d]
  PROVE  \A d \in D : f[d] \in R[d]
<1> DEFINE K == {n \in Nat : \A d \in D : rank[d] < n => f[d] \in R[d]}
<1>0. /\ b \in Nat /\ \A d \in D : rank[d] \in Nat /\ rank[d] <= b
      /\ \A d \in D \ stop : up[d] \in D /\ rank[up[d]] < rank[d]
  BY DEF Ranks
<1>1. 0 \in K
  BY <1>0
<1>2. ASSUME NEW n \in K
      PROVE  n + 1 \in K
  <2> SUFFICES ASSUME NEW d \in D, rank[d] < n + 1
               PROVE  f[d] \in R[d]
    OBVIOUS
  <2>1. CASE d \in stop
    BY <2>1
  <2>2. CASE d \notin stop
    <3>1. up[d] \in D /\ rank[up[d]] < n
      BY <1>0, <2>2
    <3> QED
      BY <2>2, <3>1
  <2> QED
    BY <2>1, <2>2
<1>3. \A n \in Nat : n \in K
  <2> HIDE DEF K
  <2>1. K \in SUBSET Nat
    BY DEF K
  <2> QED
    BY <1>1, <1>2, <2>1, Induction
<1>4. b + 1 \in K
  BY <1>0, <1>3
<1> QED
  BY <1>0, <1>4

\* The walk ends, so that it computes something.
LEMMA ClimbExists ==
  ASSUME NEW D, NEW up, NEW stop, NEW rank, NEW b, Ranks(rank, b, D, up, stop),
         NEW base, NEW g
  PROVE  \E f : Climbs(f, D, up, stop, base, g)
<1>0. /\ b \in Nat /\ \A d \in D : rank[d] \in Nat /\ rank[d] <= b
      /\ \A d \in D \ stop : up[d] \in D /\ rank[up[d]] < rank[d]
  BY DEF Ranks
<1> DEFINE Upto(f, n) ==
             /\ DOMAIN f = D
             /\ \A d \in D : rank[d] < n => f[d] = IF d \in stop THEN base ELSE g[<<f[up[d]], d>>]
           K == {n \in Nat : \E f : Upto(f, n)}
<1>1. 0 \in K
  <2> DEFINE f == [d \in D |-> base]
  <2>1. Upto(f, 0)
    BY <1>0
  <2> QED
    BY <2>1
<1>2. ASSUME NEW n \in K
      PROVE  n + 1 \in K
  <2>1. PICK f : Upto(f, n)
    OBVIOUS
  <2>2. n \in Nat
    OBVIOUS
  <2> DEFINE h == [d \in D |-> IF rank[d] < n THEN f[d]
                               ELSE IF d \in stop THEN base ELSE g[<<f[up[d]], d>>]]
  <2>3. /\ DOMAIN h = D
        /\ \A d \in D : h[d] = IF rank[d] < n THEN f[d]
                               ELSE IF d \in stop THEN base ELSE g[<<f[up[d]], d>>]
    OBVIOUS
  <2> HIDE DEF h
  <2>4. ASSUME NEW d \in D, rank[d] < n + 1
        PROVE  h[d] = IF d \in stop THEN base ELSE g[<<h[up[d]], d>>]
    <3>1. d \notin stop => h[up[d]] = f[up[d]]
      <4> SUFFICES ASSUME d \notin stop
                   PROVE  h[up[d]] = f[up[d]]
        OBVIOUS
      <4>1. up[d] \in D /\ rank[up[d]] < n
        BY <1>0, <2>2, <2>4
      <4> QED
        BY <2>3, <4>1
    <3>2. rank[d] < n => f[d] = IF d \in stop THEN base ELSE g[<<f[up[d]], d>>]
      BY <2>1
    <3>3. h[d] = IF d \in stop THEN base ELSE g[<<f[up[d]], d>>]
      BY <2>3, <3>2
    <3> QED
      BY <3>1, <3>3
  <2>5. Upto(h, n + 1)
    BY <2>3, <2>4
  <2> QED
    BY <2>2, <2>5
<1>3. \A n \in Nat : n \in K
  <2> HIDE DEF K
  <2>1. K \in SUBSET Nat
    BY DEF K
  <2> QED
    BY <1>1, <1>2, <2>1, Induction
<1>4. b + 1 \in K
  BY <1>0, <1>3
<1>5. PICK f : Upto(f, b + 1)
  BY <1>4
<1> DEFINE h == [d \in D |-> f[d]]
<1>6. \A d \in D : h[d] = IF d \in stop THEN base ELSE g[<<h[up[d]], d>>]
  <2> SUFFICES ASSUME NEW d \in D
               PROVE  h[d] = IF d \in stop THEN base ELSE g[<<h[up[d]], d>>]
    OBVIOUS
  <2>1. f[d] = IF d \in stop THEN base ELSE g[<<f[up[d]], d>>]
    BY <1>0, <1>5
  <2>2. d \notin stop => h[up[d]] = f[up[d]]
    BY <1>0
  <2> QED
    BY <2>1, <2>2
<1>7. h = [d \in D |-> h[d]]
  OBVIOUS
<1> HIDE DEF h
<1>8. Climbs(h, D, up, stop, base, g)
  BY <1>6, <1>7 DEF Climbs
<1> QED
  BY <1>8

\* A loop, and a walk, that stay within a set.
LoopIn(f, n, V, base, g) ==
    f \in [0 .. n -> V] /\ f[0] = base /\ \A i \in 1 .. n : f[i] = g[<<f[i - 1], i>>]

\* The loop is there.
LEMMA TypedLoop ==
  ASSUME NEW n \in Nat, NEW V, NEW base \in V, NEW g \in [V \X (1 .. n) -> V]
  PROVE  \E f : LoopIn(f, n, V, base, g)
<1> DEFINE R == [i \in 0 .. n |-> V]
<1>1. TurnsKeep(g, n, R)
  <2>1. \A i \in 1 .. n : i \in 0 .. n /\ i - 1 \in 0 .. n
    OBVIOUS
  <2> QED
    BY <2>1 DEF TurnsKeep
<1>2. base \in R[0]
  OBVIOUS
<1>3. PICK f : Loops(f, n, base, g) /\ \A i \in 0 .. n : f[i] \in R[i]
  <2> HIDE DEF R
  <2> QED
    BY <1>1, <1>2, LoopExists
<1>4. f = [i \in 0 .. n |-> IF i = 0 THEN base ELSE g[<<f[i - 1], i>>]]
  BY <1>3, Zenon DEF Loops
<1>5. \A i \in 0 .. n : f[i] = IF i = 0 THEN base ELSE g[<<f[i - 1], i>>]
  BY <1>4, Zenon
<1>6. \A i \in 0 .. n : f[i] \in V
  BY <1>3
<1>7. f \in [0 .. n -> V]
  BY <1>4, <1>6
<1>8. 0 \in 0 .. n /\ \A i \in 1 .. n : i \in 0 .. n /\ i # 0
  OBVIOUS
<1> QED
  BY <1>5, <1>7, <1>8 DEF LoopIn

\* The same of a walk
ClimbIn(f, D, up, stop, V, base, g) ==
    f \in [D -> V] /\ \A d \in D : f[d] = IF d \in stop THEN base ELSE g[<<f[up[d]], d>>]

\* So is the walk.
LEMMA TypedClimb ==
  ASSUME NEW D, NEW up, NEW stop, NEW rank, NEW b, Ranks(rank, b, D, up, stop),
         NEW V, NEW base \in V, NEW g \in [V \X D -> V]
  PROVE  \E f : ClimbIn(f, D, up, stop, V, base, g)
<1>1. PICK f : Climbs(f, D, up, stop, base, g)
  BY ClimbExists
<1>2. f = [d \in D |-> IF d \in stop THEN base ELSE g[<<f[up[d]], d>>]]
  BY <1>1, Zenon DEF Climbs
<1>3. \A d \in D : f[d] = IF d \in stop THEN base ELSE g[<<f[up[d]], d>>]
  BY <1>2, Zenon
<1> DEFINE R == [d \in D |-> V]
<1>4. \A d \in D \ stop : up[d] \in D
  BY DEF Ranks
<1>5. \A d \in D \cap stop : f[d] \in R[d]
  BY <1>3
<1>6. \A d \in D \ stop : f[up[d]] \in R[up[d]] => f[d] \in R[d]
  BY <1>3, <1>4
<1>7. \A d \in D : f[d] \in R[d]
  <2> HIDE DEF R
  <2> QED
    BY <1>5, <1>6, ClimbKeeps
<1>8. f \in [D -> V]
  BY <1>2, <1>7
<1> QED
  BY <1>3, <1>8 DEF ClimbIn

-----------------------------------------------------------------------------
(* Members and order of sequences                                           *)

\* What Front and Last of a sequence are.
LEMMA FrontFacts ==
  ASSUME NEW S, NEW q \in Seq(S), q # <<>>
  PROVE  /\ Len(q) \in Nat /\ Len(q) >= 1 /\ Last(q) = q[Len(q)] /\ Last(q) \in S
         /\ Front(q) \in Seq(S) /\ Len(Front(q)) = Len(q) - 1
         /\ \A i \in 1 .. Len(q) - 1 : Front(q)[i] = q[i]
<1>1. Len(q) \in Nat /\ Len(q) >= 1
  BY EmptySeq, LenProperties
<1>2. Last(q) = q[Len(q)] /\ q[Len(q)] \in S
  BY <1>1, ElementOfSeq DEF Last
<1>3. Len(q) - 1 \in 0 .. Len(q) /\ Front(q) = SubSeq(q, 1, Len(q) - 1)
  BY <1>1 DEF Front
<1> QED
  BY <1>1, <1>2, <1>3, PrefixFacts

\* What holds of the empty sequence, and of a longer one if of a shorter, holds of all.
LEMMA SeqInduction ==
  ASSUME NEW E, NEW T, <<>> \in T, \A q \in Seq(E) : q \in T => \A x \in E : Append(q, x) \in T
  PROVE  Seq(E) \subseteq T
<1> DEFINE K == {n \in Nat : \A q \in Seq(E) : Len(q) = n => q \in T}
<1>1. 0 \in K
  <2>1. \A q \in Seq(E) : Len(q) = 0 => q = <<>>
    BY EmptySeq
  <2> QED
    BY <2>1
<1>2. ASSUME NEW n \in K
      PROVE  n + 1 \in K
  <2> SUFFICES ASSUME NEW q \in Seq(E), Len(q) = n + 1
               PROVE  q \in T
    OBVIOUS
  <2>1. n \in Nat
    OBVIOUS
  <2>2. PICK r : r = [i \in 1 .. n |-> q[i]]
    OBVIOUS
  <2>3. \A i \in 1 .. n + 1 : q[i] \in E
    BY ElementOfSeq
  <2>4. r \in Seq(E) /\ Len(r) = n /\ q[n + 1] \in E
    BY <2>1, <2>2, <2>3
  <2>5. Append(r, q[n + 1]) = q
    BY <2>1, <2>2, <2>4
  <2> QED
    BY <2>4, <2>5
<1>3. \A n \in Nat : n \in K
  <2> HIDE DEF K
  <2>1. K \in SUBSET Nat
    BY DEF K
  <2> QED
    BY <1>1, <1>2, <2>1, Induction
<1> QED
  BY <1>3, LenProperties

\* The members of a sequence are those at its places.
LEMMA SeqMembers ==
  ASSUME NEW E, NEW q \in Seq(E)
  PROVE  /\ ToSet(q) = Range(q) /\ ToSet(q) \in SUBSET E /\ Len(q) \in Nat /\ DOMAIN q = 1 .. Len(q)
         /\ \A x : x \in ToSet(q) <=> \E i \in 1 .. Len(q) : q[i] = x
         /\ IsInjective(q) <=> \A i, j \in 1 .. Len(q) : q[i] = q[j] => i = j
<1>1. ToSet(q) = Range(q)
  BY DEF ToSet, Range
<1>2. Len(q) \in Nat /\ DOMAIN q = 1 .. Len(q)
  BY LenProperties
<1> QED
  BY <1>1, <1>2, RangeFacts

\* One sequence after the other.
LEMMA ConcatMembers ==
  ASSUME NEW E, NEW q \in Seq(E), NEW r \in Seq(E)
  PROVE  /\ q \o r \in Seq(E) /\ ToSet(q \o r) = ToSet(q) \cup ToSet(r)
         /\ Len(q \o r) = Len(q) + Len(r)
         /\ IsInjective(q) /\ IsInjective(r) /\ ToSet(q) \cap ToSet(r) = {} => IsInjective(q \o r)
<1>1. q \o r \in Seq(E) /\ Len(q \o r) = Len(q) + Len(r)
  BY ConcatProperties
<1>2. ToSet(q) = Range(q) /\ ToSet(r) = Range(r) /\ ToSet(q \o r) = Range(q \o r)
  BY <1>1, SeqMembers
<1> QED
  BY <1>1, <1>2, ConcatRange

\* A sequence that one element is added to.
LEMMA AppendMembers ==
  ASSUME NEW E, NEW q \in Seq(E), NEW x \in E
  PROVE  /\ Append(q, x) \in Seq(E) /\ ToSet(Append(q, x)) = ToSet(q) \cup {x}
         /\ Len(Append(q, x)) = Len(q) + 1 /\ Append(q, x)[Len(q) + 1] = x
         /\ \A i \in 1 .. Len(q) : Append(q, x)[i] = q[i]
<1>1. /\ Append(q, x) \in Seq(E) /\ Len(Append(q, x)) = Len(q) + 1
      /\ Append(q, x)[Len(q) + 1] = x /\ \A i \in 1 .. Len(q) : Append(q, x)[i] = q[i]
  BY AppendProperties
<1>2. Len(q) \in Nat
  BY LenProperties
<1>3. /\ \A y : y \in ToSet(q) <=> \E i \in 1 .. Len(q) : q[i] = y
      /\ \A y : y \in ToSet(Append(q, x)) <=> \E i \in 1 .. Len(q) + 1 : Append(q, x)[i] = y
  <2>1. PICK r \in Seq(E) : r = Append(q, x)
    BY <1>1
  <2>2. Len(r) = Len(q) + 1
    BY <1>1, <2>1
  <2>3. \A y : y \in ToSet(r) <=> \E i \in 1 .. Len(r) : r[i] = y
    BY SeqMembers
  <2> QED
    BY <2>1, <2>2, <2>3, SeqMembers
<1>4. ASSUME NEW y
      PROVE  y \in ToSet(Append(q, x)) <=> y \in ToSet(q) \/ y = x
  <2>1. \A i \in 1 .. Len(q) + 1 : i \in 1 .. Len(q) \/ i = Len(q) + 1
    BY <1>2
  <2>2. Len(q) + 1 \in 1 .. Len(q) + 1 /\ \A i \in 1 .. Len(q) : i \in 1 .. Len(q) + 1
    BY <1>2
  <2> QED
    BY <1>1, <1>3, <2>1, <2>2
<1> QED
  BY <1>1, <1>4

\* A sequence without members is empty.
LEMMA NoMember ==
  ASSUME NEW E, NEW q \in Seq(E), ToSet(q) = {}
  PROVE  q = <<>>
<1>1. \A x : x \in ToSet(q) <=> \E i \in 1 .. Len(q) : q[i] = x
  BY SeqMembers
<1>2. Len(q) \in Nat
  BY LenProperties
<1>3. Len(q) # 0 => 1 \in 1 .. Len(q)
  BY <1>2
<1> QED
  BY <1>1, <1>2, <1>3, EmptySeq

\* The first n of a sequence
LEMMA FirstMore ==
  ASSUME NEW E, NEW q \in Seq(E), NEW n \in 1 .. Len(q)
  PROVE  /\ SubSeq(q, 1, n - 1) \in Seq(E) /\ Len(SubSeq(q, 1, n - 1)) = n - 1 /\ q[n] \in E
         /\ \A i \in 1 .. n - 1 : SubSeq(q, 1, n - 1)[i] = q[i]
         /\ SubSeq(q, 1, n) = Append(SubSeq(q, 1, n - 1), q[n])
<1>1. PICK N \in Nat : N = Len(q) /\ \A i \in 1 .. N : q[i] \in E
  OBVIOUS
<1>2. n \in 1 .. N
  BY <1>1
<1>3. PICK p : p = SubSeq(q, 1, n - 1)
  OBVIOUS
<1>4. p \in Seq(E) /\ Len(p) = n - 1 /\ \A i \in 1 .. n - 1 : p[i] = q[i]
  BY <1>1, <1>2, <1>3
<1>5. PICK r : r = SubSeq(q, 1, n)
  OBVIOUS
<1>6. r \in Seq(E) /\ Len(r) = n /\ \A i \in 1 .. n : r[i] = q[i]
  BY <1>1, <1>2, <1>5
<1>7. PICK a : a = Append(p, q[n])
  OBVIOUS
<1>8. a \in Seq(E) /\ Len(a) = n /\ a[n] = q[n] /\ \A i \in 1 .. n - 1 : a[i] = p[i]
  BY <1>1, <1>2, <1>4, <1>7, AppendProperties
<1>9. \A i \in 1 .. n : r[i] = a[i]
  BY <1>2, <1>4, <1>6, <1>8
<1>10. r = a
  BY <1>6, <1>8, <1>9, SeqEqual
<1> QED
  BY <1>1, <1>2, <1>3, <1>4, <1>5, <1>7, <1>10

\* How sequences grow and shrink at their ends.
LEMMA ConcatAppend ==
  ASSUME NEW E, NEW a \in Seq(E), NEW b \in Seq(E), NEW e \in E
  PROVE  a \o Append(b, e) = Append(a \o b, e) /\ a \o <<e>> = Append(a, e)
<1>1. Len(a) \in Nat /\ Len(b) \in Nat
  BY LenProperties
<1> QED
  BY <1>1

\* What is put in front leaves the last as it is.
LEMMA LastConcat ==
  ASSUME NEW E, NEW p \in Seq(E), NEW q \in Seq(E), q # <<>>
  PROVE  p \o q # <<>> /\ Last(p \o q) = Last(q)
<1>1. PICK N, M \in Nat : N = Len(p) /\ M = Len(q)
  BY LenProperties
<1>2. M # 0
  BY <1>1, EmptySeq
<1>3. PICK k \in Seq(E) : k = p \o q
  BY ConcatProperties
<1>4. Len(k) = N + M /\ \A i \in 1 .. N + M : k[i] = IF i <= N THEN p[i] ELSE q[i - N]
  BY <1>1, <1>3, ConcatProperties
<1>5. N + M \in 1 .. N + M /\ ~(N + M <= N) /\ (N + M) - N = M /\ N + M # 0
  BY <1>1, <1>2
<1>6. k[N + M] = q[M]
  BY <1>4, <1>5
<1>7. k # <<>>
  BY <1>4, <1>5, EmptySeq
<1> QED
  BY <1>1, <1>3, <1>4, <1>6, <1>7 DEF Last

\* Backwards
LEMMA Backwards ==
  ASSUME NEW E, NEW q \in Seq(E)
  PROVE  /\ Reverse(q) \in Seq(E) /\ Reverse(Reverse(q)) = q /\ ToSet(Reverse(q)) = ToSet(q)
         /\ \A r \in Seq(E) : Reverse(q \o r) = Reverse(r) \o Reverse(q)
<1>1. PICK N \in Nat : N = Len(q) /\ \A i \in 1 .. N : q[i] \in E
  BY SeqMembers, ElementOfSeq
<1>2. PICK b : b = Reverse(q)
  OBVIOUS
<1>3. b = [i \in 1 .. N |-> q[(N - i) + 1]]
  BY <1>1, <1>2 DEF Reverse
<1>4. b \in Seq(E) /\ Len(b) = N
  BY <1>1, <1>3
<1>5. Reverse(b) = q
  <2>1. Reverse(b) = [i \in 1 .. N |-> b[(N - i) + 1]]
    BY <1>4 DEF Reverse
  <2>2. \A i \in 1 .. N : b[(N - i) + 1] = q[i]
    BY <1>1, <1>3
  <2>3. q = [i \in 1 .. N |-> q[i]]
    BY <1>1
  <2> QED
    BY <2>1, <2>2, <2>3
<1>6. ToSet(b) = ToSet(q)
  <2>1. /\ \A x : x \in ToSet(q) <=> \E i \in 1 .. N : q[i] = x
        /\ \A x : x \in ToSet(b) <=> \E i \in 1 .. N : b[i] = x
    BY <1>1, <1>4, SeqMembers
  <2>2. \A i \in 1 .. N : (N - i) + 1 \in 1 .. N /\ b[i] = q[(N - i) + 1] /\ b[(N - i) + 1] = q[i]
    BY <1>1, <1>3
  <2> QED
    BY <2>1, <2>2
<1>7. ASSUME NEW r \in Seq(E)
      PROVE  Reverse(q \o r) = Reverse(r) \o Reverse(q)
  <2>1. PICK M \in Nat : M = Len(r) /\ \A i \in 1 .. M : r[i] \in E
    BY SeqMembers, ElementOfSeq
  <2>2. PICK k : k = q \o r
    OBVIOUS
  <2>3. /\ Len(k) = N + M /\ \A i \in 1 .. N : k[i] = q[i]
        /\ \A i \in N + 1 .. N + M : k[i] = r[i - N]
    BY <1>1, <2>1, <2>2
  <2>4. PICK d : d = Reverse(r) /\ d = [i \in 1 .. M |-> r[(M - i) + 1]]
    BY <2>1 DEF Reverse
  <2>5. d \in Seq(E) /\ Len(d) = M
    BY <2>1, <2>4
  <2>6. Reverse(k) = [i \in 1 .. N + M |-> k[((N + M) - i) + 1]]
    BY <2>3 DEF Reverse
  <2>7. PICK e : e = d \o b
    OBVIOUS
  <2>8. e = [i \in 1 .. N + M |-> IF i <= M THEN d[i] ELSE b[i - M]]
    <3>1. /\ e \in Seq(E) /\ Len(e) = M + N
          /\ \A i \in 1 .. M + N : e[i] = IF i <= M THEN d[i] ELSE b[i - M]
      BY <1>4, <2>5, <2>7, ConcatProperties
    <3>2. PICK K \in Nat : K = M + N /\ K = N + M
      OBVIOUS
    <3>3. e \in Seq(E) /\ Len(e) = K /\ \A i \in 1 .. K : e[i] = IF i <= M THEN d[i] ELSE b[i - M]
      BY <3>1, <3>2, Zenon
    <3>4. e = [i \in 1 .. K |-> e[i]]
      BY <3>3
    <3>5. e = [i \in 1 .. K |-> IF i <= M THEN d[i] ELSE b[i - M]]
      BY <3>3, <3>4
    <3> QED
      BY <3>2, <3>5
  <2>9. ASSUME NEW i \in 1 .. N + M
        PROVE  k[((N + M) - i) + 1] = IF i <= M THEN d[i] ELSE b[i - M]
    <3>1. CASE i <= M
      <4>1. PICK j \in Nat : j = ((N + M) - i) + 1 /\ j \in N + 1 .. N + M /\ j - N = (M - i) + 1 /\ i \in 1 .. M
        BY <3>1
      <4> QED
        BY <2>3, <2>4, <3>1, <4>1
    <3>2. CASE ~(i <= M)
      <4>1. PICK j \in Nat : j = ((N + M) - i) + 1 /\ j \in 1 .. N /\ j = (N - (i - M)) + 1 /\ i - M \in 1 .. N
        BY <3>2
      <4> QED
        BY <1>3, <2>3, <3>2, <4>1
    <3> QED
      BY <3>1, <3>2
  <2> QED
    BY <1>2, <2>2, <2>4, <2>6, <2>7, <2>8, <2>9
<1> QED
  BY <1>2, <1>4, <1>5, <1>6, <1>7

-----------------------------------------------------------------------------
(* Sequences of sequences, flattened                                        *)

\* The recursion of FlattenSeq up to the k-th sequence.
Flattens(f, s, k) == f = [i \in 1 .. k |-> IF i = 1 THEN s[i] ELSE f[i - 1] \o s[i]]

\* It defines a function.
LEMMA FlattenExists ==
  ASSUME NEW s, NEW k \in Nat
  PROVE  \E f : Flattens(f, s, k)
<1> DEFINE K == {n \in Nat : \E f : Flattens(f, s, n)}
<1>1. 0 \in K
  <2>1. Flattens([i \in 1 .. 0 |-> s], s, 0)
    BY DEF Flattens
  <2> QED
    BY <2>1
<1>2. ASSUME NEW n \in K
      PROVE  n + 1 \in K
  <2>1. PICK f : Flattens(f, s, n)
    OBVIOUS
  <2>2. n \in Nat
    OBVIOUS
  <2> DEFINE g == [i \in 1 .. n + 1 |-> IF i <= n THEN f[i]
                                         ELSE IF i = 1 THEN s[i] ELSE f[i - 1] \o s[i]]
  <2>3. ASSUME NEW i \in 1 .. n + 1
        PROVE  g[i] = IF i = 1 THEN s[i] ELSE g[i - 1] \o s[i]
    <3>1. CASE i <= n
      <4>1. f[i] = IF i = 1 THEN s[i] ELSE f[i - 1] \o s[i]
        <5>1. i \in 1 .. n
          BY <2>2, <3>1
        <5> QED
          BY <2>1, <5>1 DEF Flattens
      <4>2. g[i] = f[i] /\ (i # 1 => g[i - 1] = f[i - 1])
        BY <2>2, <3>1
      <4> QED
        BY <4>1, <4>2
    <3>2. CASE i > n
      <4>1. i = n + 1 /\ (i # 1 => g[i - 1] = f[i - 1])
        BY <2>2, <3>2
      <4> QED
        BY <2>2, <3>2, <4>1
    <3> QED
      BY <2>2, <3>1, <3>2
  <2>4. Flattens(g, s, n + 1)
    <3>1. g = [i \in 1 .. n + 1 |-> g[i]]
      OBVIOUS
    <3> HIDE DEF g
    <3> QED
      BY <2>3, <3>1 DEF Flattens
  <2> QED
    BY <2>2, <2>4
<1>3. k \in K
  <2> HIDE DEF K
  <2>1. K \in SUBSET Nat
    BY DEF K
  <2> QED
    BY <1>1, <1>2, <2>1, Induction
<1> QED
  BY <1>3

\* FlattenSeq follows the recursion.
LEMMA FlattenIs ==
  ASSUME NEW S, NEW s \in Seq(S), s # <<>>
  PROVE  \E f : Flattens(f, s, Len(s)) /\ FlattenSeq(s) = f[Len(s)]
<1>1. Len(s) \in Nat /\ Len(s) # 0
  BY EmptySeq
<1>2. \E f : Flattens(f, s, Len(s))
  BY <1>1, FlattenExists
<1>3. Flattens(CHOOSE f : Flattens(f, s, Len(s)), s, Len(s))
  BY <1>2, Zenon
<1>4. FlattenSeq(s) = (CHOOSE f : Flattens(f, s, Len(s)))[Len(s)]
  BY <1>1 DEF FlattenSeq, Flattens
<1> QED
  BY <1>3, <1>4, Zenon

\* Two functions agree on the first k numbers.
Agree(f, g, k) == \A i \in 1 .. k : f[i] = g[i]

\* Two recursions that begin with the same sequences begin the same.
LEMMA FlattenSame ==
  ASSUME NEW s, NEW t, NEW f, NEW g, NEW k \in Nat, NEW n \in Nat, k <= n,
         Flattens(f, s, k), Flattens(g, t, n), Agree(s, t, k)
  PROVE  Agree(f, g, k)
<1> DEFINE K == {i \in Nat : i \in 1 .. k => f[i] = g[i]}
<1>1. 0 \in K
  OBVIOUS
<1>2. ASSUME NEW i \in K
      PROVE  i + 1 \in K
  <2> SUFFICES ASSUME i + 1 \in 1 .. k
               PROVE  f[i + 1] = g[i + 1]
    OBVIOUS
  <2>1. /\ i \in Nat /\ s[i + 1] = t[i + 1] /\ i + 1 \in 1 .. n
        /\ (i + 1) - 1 = i
    BY DEF Agree
  <2>2. i = 0 \/ f[i] = g[i]
    BY <2>1
  <2>3. /\ f[i + 1] = IF i + 1 = 1 THEN s[i + 1] ELSE f[(i + 1) - 1] \o s[i + 1]
        /\ g[i + 1] = IF i + 1 = 1 THEN t[i + 1] ELSE g[(i + 1) - 1] \o t[i + 1]
    BY <2>1 DEF Flattens
  <2> HIDE DEF K
  <2> QED
    BY <2>1, <2>2, <2>3
<1>3. \A i \in Nat : i \in K
  <2> HIDE DEF K
  <2>1. K \in SUBSET Nat
    BY DEF K
  <2> QED
    BY <1>1, <1>2, <2>1, Induction
<1> QED
  BY <1>3 DEF Agree

\* What lies in the first p sequences of s.
Upto(s, p) == FlattenSeq(SubSeq(s, 1, p))

\* It grows by one sequence at a time.
LEMMA UptoNext ==
  ASSUME NEW E, NEW s \in Seq(Seq(E)), NEW p \in 1 .. Len(s)
  PROVE  Upto(s, 0) = <<>> /\ Upto(s, p) = Upto(s, p - 1) \o s[p]
<1>1. Len(s) \in Nat /\ p \in Nat /\ p >= 1 /\ p - 1 \in Nat /\ s[p] \in Seq(E)
  BY LenProperties, ElementOfSeq
<1>2. SubSeq(s, 1, 0) = <<>> /\ Upto(s, 0) = <<>>
  BY SubSeqEmpty, EmptySeq DEF Upto, FlattenSeq
<1>3. ASSUME NEW q \in 1 .. Len(s)
      PROVE  \E g, t : /\ Flattens(g, t, q) /\ Upto(s, q) = g[q]
                       /\ \A i \in 1 .. q : t[i] = s[i]
  <2>1. /\ SubSeq(s, 1, q) \in Seq(Seq(E)) /\ Len(SubSeq(s, 1, q)) = q
        /\ \A i \in 1 .. q : SubSeq(s, 1, q)[i] = s[i]
    BY <1>1, PrefixFacts
  <2>2. PICK t : t = SubSeq(s, 1, q)
    OBVIOUS
  <2>3. t \in Seq(Seq(E)) /\ Len(t) = q /\ (\A i \in 1 .. q : t[i] = s[i]) /\ q # 0
    BY <1>1, <2>1, <2>2
  <2>4. t # <<>>
    BY <2>3, EmptySeq
  <2>5. PICK g : Flattens(g, t, Len(t)) /\ FlattenSeq(t) = g[Len(t)]
    BY <2>3, <2>4, FlattenIs
  <2> QED
    BY <2>2, <2>3, <2>5 DEF Upto
<1>4. PICK g, t : /\ Flattens(g, t, p) /\ Upto(s, p) = g[p]
                  /\ \A i \in 1 .. p : t[i] = s[i]
  BY <1>3
<1>5. g[p] = IF p = 1 THEN s[p] ELSE g[p - 1] \o s[p]
  <2>1. p \in 1 .. p
    BY <1>1
  <2>2. g[p] = IF p = 1 THEN t[p] ELSE g[p - 1] \o t[p]
    BY <1>4, <2>1 DEF Flattens
  <2>3. t[p] = s[p]
    BY <1>4, <2>1
  <2> QED
    BY <2>2, <2>3
<1>6. CASE p = 1
  BY <1>1, <1>2, <1>4, <1>5, <1>6, ConcatEmptySeq
<1>7. CASE p # 1
  <2>1. PICK m \in Nat : m = p - 1
    BY <1>1
  <2>2. m \in 1 .. Len(s) /\ m \in 1 .. m /\ m <= p /\ m <= m
        /\ \A i \in 1 .. m : i \in 1 .. p
    BY <1>1, <1>7, <2>1
  <2>3. PICK h, u : /\ Flattens(h, u, m) /\ Upto(s, m) = h[m]
                    /\ \A i \in 1 .. m : u[i] = s[i]
    BY <1>3, <2>2
  <2>4. \A i \in 1 .. m : u[i] = t[i]
    BY <1>4, <2>2, <2>3
  <2>5. \A i \in 1 .. m : h[i] = g[i]
    <3>1. /\ Flattens(h, u, m) /\ Flattens(g, t, p) /\ m \in Nat /\ p \in Nat
          /\ m <= p /\ Agree(u, t, m)
      BY <1>1, <1>4, <2>2, <2>3, <2>4 DEF Agree
    <3>2. Agree(h, g, m)
      BY <3>1, FlattenSame
    <3> QED
      BY <3>2 DEF Agree
  <2>6. h[m] = g[m]
    BY <2>2, <2>5
  <2> QED
    BY <1>2, <1>4, <1>5, <1>7, <2>1, <2>3, <2>6
<1> QED
  BY <1>6, <1>7

\* A property of what lies in the first sequences, type and length.
LEMMA UptoType ==
  ASSUME NEW E, NEW s \in Seq(Seq(E)), NEW p \in 0 .. Len(s)
  PROVE  Upto(s, p) \in Seq(E) /\ Len(Upto(s, p)) \in Nat
<1> DEFINE K == {i \in Nat : i <= Len(s) => Upto(s, i) \in Seq(E)}
<1>1. Len(s) \in Nat
  BY LenProperties
<1>2. 0 \in K
  <2>1. Upto(s, 0) = <<>>
    BY SubSeqEmpty, EmptySeq DEF Upto, FlattenSeq
  <2> QED
    BY <2>1, EmptySeq
<1>3. ASSUME NEW i \in K
      PROVE  i + 1 \in K
  <2> SUFFICES ASSUME i + 1 <= Len(s)
               PROVE  Upto(s, i + 1) \in Seq(E)
    OBVIOUS
  <2>1. i \in Nat /\ i + 1 \in 1 .. Len(s) /\ (i + 1) - 1 = i /\ Upto(s, i) \in Seq(E)
    BY <1>1
  <2>2. PICK q, u : q = i + 1 /\ u = Upto(s, i)
    OBVIOUS
  <2>3. q \in 1 .. Len(s) /\ q - 1 = i /\ u \in Seq(E)
    BY <2>1, <2>2
  <2>4. Upto(s, q) = u \o s[q] /\ s[q] \in Seq(E)
    BY <2>2, <2>3, UptoNext, ElementOfSeq
  <2>5. u \o s[q] \in Seq(E)
    BY <2>3, <2>4, ConcatProperties
  <2> QED
    BY <2>2, <2>4, <2>5
<1>4. \A i \in Nat : i \in K
  <2> HIDE DEF K
  <2>1. K \in SUBSET Nat
    BY DEF K
  <2> QED
    BY <1>2, <1>3, <2>1, Induction
<1>5. Upto(s, p) \in Seq(E)
  BY <1>1, <1>4
<1> QED
  BY <1>5, LenProperties

\* What lies in the first p sequences lies at the same places among the first q.
LEMMA UptoGrows ==
  ASSUME NEW E, NEW s \in Seq(Seq(E)), NEW q \in 0 .. Len(s), NEW p \in 0 .. q
  PROVE  /\ Len(Upto(s, p)) \in Nat /\ Len(Upto(s, q)) \in Nat
         /\ Len(Upto(s, p)) <= Len(Upto(s, q))
         /\ \A i \in 1 .. Len(Upto(s, p)) : Upto(s, q)[i] = Upto(s, p)[i]
<1> DEFINE Like(n) == /\ Len(Upto(s, p)) <= Len(Upto(s, n))
                      /\ \A i \in 1 .. Len(Upto(s, p)) : Upto(s, n)[i] = Upto(s, p)[i]
           K == {n \in Nat : n \in p .. Len(s) => Like(n)}
<1>1. Len(s) \in Nat /\ p \in Nat /\ \A n \in 0 .. Len(s) : Len(Upto(s, n)) \in Nat
  BY LenProperties, UptoType
<1>2. ASSUME NEW n \in Nat, n + 1 \in p .. Len(s), n \in p .. Len(s) => Like(n)
      PROVE  Like(n + 1)
  <2>1. CASE n + 1 = p
    BY <1>1, <2>1
  <2>2. CASE n + 1 # p
    <3>1. n \in p .. Len(s) /\ n + 1 \in 1 .. Len(s) /\ (n + 1) - 1 = n /\ n \in 0 .. Len(s)
      BY <1>1, <1>2, <2>2
    <3>2. Upto(s, n + 1) = Upto(s, n) \o s[n + 1] /\ s[n + 1] \in Seq(E) /\ Upto(s, n) \in Seq(E)
      BY <3>1, UptoNext, UptoType, ElementOfSeq
    <3>3. Len(s[n + 1]) \in Nat /\ Len(Upto(s, n)) \in Nat
      BY <3>2, LenProperties
    <3>4. /\ Len(Upto(s, n + 1)) = Len(Upto(s, n)) + Len(s[n + 1])
          /\ \A i \in 1 .. Len(Upto(s, n)) : Upto(s, n + 1)[i] = Upto(s, n)[i]
      BY <3>2, <3>3, ConcatProperties
    <3>5. Like(n) /\ Len(Upto(s, p)) \in Nat
      BY <1>1, <1>2, <3>1
    <3>6. PICK a, b, c, d : /\ a = Upto(s, p) /\ b = Upto(s, n) /\ c = Upto(s, n + 1)
                            /\ d = Len(s[n + 1])
      OBVIOUS
    <3>7. /\ Len(a) \in Nat /\ Len(b) \in Nat /\ d \in Nat /\ Len(c) = Len(b) + d
          /\ Len(a) <= Len(b) /\ \A i \in 1 .. Len(b) : c[i] = b[i]
          /\ \A i \in 1 .. Len(a) : b[i] = a[i]
      BY <3>3, <3>4, <3>5, <3>6
    <3>8. Len(a) <= Len(c) /\ \A i \in 1 .. Len(a) : c[i] = a[i]
      <4>1. Len(a) <= Len(c) /\ \A i \in 1 .. Len(a) : i \in 1 .. Len(b)
        BY <3>7
      <4> QED
        BY <3>7, <4>1
    <3> QED
      BY <3>6, <3>8
  <2> QED
    BY <2>1, <2>2
<1>3. 0 \in K
  BY <1>1
<1>4. \A n \in K : n + 1 \in K
  BY <1>2
<1>5. \A n \in Nat : n \in K
  <2> HIDE DEF K
  <2>1. K \in SUBSET Nat
    BY DEF K
  <2> QED
    BY <1>3, <1>4, <2>1, Induction
<1>6. Like(q)
  BY <1>1, <1>5
<1> QED
  BY <1>1, <1>6

\* Empty sequences add nothing.
LEMMA UptoEmpty ==
  ASSUME NEW E, NEW s \in Seq(Seq(E)), NEW q \in 0 .. Len(s), NEW p \in 0 .. q,
         \A i \in p + 1 .. q : s[i] = <<>>
  PROVE  Upto(s, q) = Upto(s, p)
<1> DEFINE K == {n \in Nat : n \in p .. q => Upto(s, n) = Upto(s, p)}
<1>1. Len(s) \in Nat /\ p \in Nat /\ q \in Nat
  BY LenProperties
<1>2. 0 \in K
  BY <1>1
<1>3. ASSUME NEW n \in Nat, n + 1 \in p .. q, n \in p .. q => Upto(s, n) = Upto(s, p)
      PROVE  Upto(s, n + 1) = Upto(s, p)
  <2>1. CASE n + 1 = p
    BY <2>1
  <2>2. CASE n + 1 # p
    <3>1. /\ n \in p .. q /\ n + 1 \in 1 .. Len(s) /\ (n + 1) - 1 = n /\ n \in 0 .. Len(s)
          /\ n + 1 \in p + 1 .. q
      BY <1>1, <1>3, <2>2
    <3>2. Upto(s, n + 1) = Upto(s, n) \o <<>> /\ Upto(s, n) \in Seq(E)
      BY <3>1, UptoNext, UptoType
    <3> QED
      BY <1>3, <3>1, <3>2, ConcatEmptySeq
  <2> QED
    BY <2>1, <2>2
<1>4. \A n \in K : n + 1 \in K
  BY <1>3
<1>5. \A n \in Nat : n \in K
  <2> HIDE DEF K
  <2>1. K \in SUBSET Nat
    BY DEF K
  <2> QED
    BY <1>2, <1>4, <2>1, Induction
<1> QED
  BY <1>1, <1>5

\* What lies in the first sequences depends on those alone.
LEMMA UptoSame ==
  ASSUME NEW E, NEW s \in Seq(Seq(E)), NEW t \in Seq(Seq(E)),
         NEW p \in 0 .. Len(s), p <= Len(t), \A i \in 1 .. p : s[i] = t[i]
  PROVE  Upto(s, p) = Upto(t, p)
<1>1. Len(s) \in Nat /\ Len(t) \in Nat /\ p \in Nat /\ p \in 0 .. Len(t)
  BY LenProperties
<1>2. /\ SubSeq(s, 1, p) \in Seq(Seq(E)) /\ Len(SubSeq(s, 1, p)) = p
      /\ \A i \in 1 .. p : SubSeq(s, 1, p)[i] = s[i]
  BY PrefixFacts
<1>3. /\ SubSeq(t, 1, p) \in Seq(Seq(E)) /\ Len(SubSeq(t, 1, p)) = p
      /\ \A i \in 1 .. p : SubSeq(t, 1, p)[i] = t[i]
  BY <1>1, PrefixFacts
<1>4. SubSeq(s, 1, p) = SubSeq(t, 1, p)
  BY <1>2, <1>3, SeqEqual
<1> QED
  BY <1>4 DEF Upto

\* Sequences flattened, to the last that is not empty.
LEMMA Flat ==
  ASSUME NEW E, NEW s \in Seq(Seq(E))
  PROVE  /\ Len(s) \in Nat /\ FlattenSeq(s) = Upto(s, Len(s))
         /\ \A q \in 0 .. Len(s) : Upto(s, q) \in Seq(E) /\ Len(Upto(s, q)) \in Nat
         /\ \A q \in 1 .. Len(s) : s[q] \in Seq(E) /\ Upto(s, q) = Upto(s, q - 1) \o s[q]
         /\ \A q \in 0 .. Len(s) :
              (\A i \in q + 1 .. Len(s) : s[i] = <<>>) => FlattenSeq(s) = Upto(s, q)
<1>1. Len(s) \in Nat /\ SubSeq(s, 1, Len(s)) = s
  BY LenProperties, SubSeqFull
<1>2. \A q \in 0 .. Len(s) : Upto(s, q) \in Seq(E) /\ Len(Upto(s, q)) \in Nat
  BY UptoType
<1>3. FlattenSeq(s) = Upto(s, Len(s))
  BY <1>1, Zenon DEF Upto
<1>4. \A q \in 1 .. Len(s) : s[q] \in Seq(E) /\ Upto(s, q) = Upto(s, q - 1) \o s[q]
  BY UptoNext, ElementOfSeq
<1>5. ASSUME NEW q \in 0 .. Len(s), \A i \in q + 1 .. Len(s) : s[i] = <<>>
      PROVE  FlattenSeq(s) = Upto(s, q)
  <2>1. PICK n : n = Len(s)
    OBVIOUS
  <2>2. n \in 0 .. Len(s) /\ q \in 0 .. n
    BY <1>1, <2>1
  <2>3. Upto(s, n) = Upto(s, q)
    BY <1>5, <2>1, <2>2, UptoEmpty
  <2> QED
    BY <1>3, <2>1, <2>3
<1> QED
  BY <1>1, <1>2, <1>3, <1>4, <1>5

\* The members of sequences put one after the other.
LEMMA FlattenMembers ==
  ASSUME NEW E, NEW s \in Seq(Seq(E))
  PROVE  /\ FlattenSeq(s) \in Seq(E)
         /\ ToSet(FlattenSeq(s)) = UNION {ToSet(s[i]) : i \in 1 .. Len(s)}
<1>1. CASE s = <<>>
  <2>1. Len(s) = 0 /\ FlattenSeq(s) = <<>> /\ <<>> \in Seq(E)
    BY <1>1 DEF FlattenSeq
  <2>2. ToSet(<<>>) = {}
    BY DEF ToSet
  <2> QED
    BY <2>1, <2>2
<1>2. CASE s # <<>>
  <2>1. Len(s) \in Nat /\ Len(s) # 0 /\ \A i \in 1 .. Len(s) : s[i] \in Seq(E)
    BY <1>2, EmptySeq
  <2>2. PICK f : Flattens(f, s, Len(s)) /\ FlattenSeq(s) = f[Len(s)]
    BY <1>2, FlattenIs
  <2>3. \A i \in 1 .. Len(s) : f[i] = IF i = 1 THEN s[i] ELSE f[i - 1] \o s[i]
    BY <2>2, Zenon DEF Flattens
  <2> DEFINE K == {n \in Nat : n + 1 <= Len(s) =>
                     /\ f[n + 1] \in Seq(E)
                     /\ ToSet(f[n + 1]) = UNION {ToSet(s[i]) : i \in 1 .. n + 1}}
  <2>4. 0 \in K
    <3>1. 1 \in 1 .. Len(s) /\ f[1] = s[1]
      BY <2>1, <2>3
    <3>2. 1 .. 0 + 1 = {1}
      OBVIOUS
    <3> QED
      BY <2>1, <3>1, <3>2
  <2>5. ASSUME NEW n \in K
        PROVE  n + 1 \in K
    <3> SUFFICES ASSUME (n + 1) + 1 <= Len(s)
                 PROVE  /\ f[(n + 1) + 1] \in Seq(E)
                        /\ ToSet(f[(n + 1) + 1]) = UNION {ToSet(s[i]) : i \in 1 .. (n + 1) + 1}
      OBVIOUS
    <3>1. n \in Nat /\ n + 1 <= Len(s) /\ n + 2 \in 1 .. Len(s) /\ (n + 1) + 1 = n + 2
          /\ (n + 2) - 1 = n + 1 /\ n + 2 # 1
      BY <2>1
    <3>2. f[n + 1] \in Seq(E) /\ ToSet(f[n + 1]) = UNION {ToSet(s[i]) : i \in 1 .. n + 1}
      BY <3>1
    <3>3. f[n + 2] = f[n + 1] \o s[n + 2]
      BY <2>3, <3>1
    <3>4. f[n + 2] \in Seq(E) /\ ToSet(f[n + 2]) = ToSet(f[n + 1]) \cup ToSet(s[n + 2])
      BY <2>1, <3>1, <3>2, <3>3, ConcatMembers
    <3>5. 1 .. n + 2 = (1 .. n + 1) \cup {n + 2}
      BY <3>1
    <3> QED
      BY <3>1, <3>2, <3>4, <3>5
  <2>6. \A n \in Nat : n \in K
    <3> HIDE DEF K
    <3>1. K \in SUBSET Nat
      BY DEF K
    <3> QED
      BY <2>4, <2>5, <3>1, Induction
  <2>7. Len(s) - 1 \in K /\ (Len(s) - 1) + 1 = Len(s)
    <3> HIDE DEF K
    <3> QED
      BY <2>1, <2>6
  <2> QED
    BY <2>1, <2>2, <2>7
<1> QED
  BY <1>1, <1>2

\* One-element sequences, one after the other
LEMMA FlattenOnes ==
  ASSUME NEW E, NEW r \in Seq(E), NEW q, q = [n \in 1 .. Len(r) |-> <<r[n]>>]
  PROVE  FlattenSeq(q) = r
<1>1. PICK N \in Nat : N = Len(r) /\ DOMAIN r = 1 .. N /\ \A i \in 1 .. N : r[i] \in E
  BY SeqMembers, ElementOfSeq
<1>2. q \in Seq(Seq(E)) /\ Len(q) = N /\ \A i \in 1 .. N : q[i] = <<r[i]>>
  <2>1. \A i \in 1 .. N : <<r[i]>> \in Seq(E)
    BY <1>1
  <2> QED
    BY <1>1, <2>1
<1>3. CASE N = 0
  <2>1. r = <<>> /\ q = <<>>
    BY <1>1, <1>2, <1>3, EmptySeq
  <2>2. FlattenSeq(<<>>) = <<>>
    BY DEF FlattenSeq
  <2> QED
    BY <2>1, <2>2
<1>4. CASE N # 0
  <2>1. q # <<>>
    BY <1>2, <1>4
  <2>2. PICK f : Flattens(f, q, N) /\ FlattenSeq(q) = f[N]
    BY <1>2, <2>1, FlattenIs
  <2>3. \A i \in 1 .. N : f[i] = IF i = 1 THEN q[i] ELSE f[i - 1] \o q[i]
    BY <1>2, <2>2, Zenon DEF Flattens
  <2> DEFINE K == {n \in Nat : n + 1 <= N => f[n + 1] = [i \in 1 .. n + 1 |-> r[i]]}
  <2>4. 0 \in K
    <3>1. 1 \in 1 .. N
      BY <1>4
    <3>2. f[1] = <<r[1]>>
      BY <1>2, <2>3, <3>1
    <3> QED
      BY <3>2
  <2>5. ASSUME NEW n \in K
        PROVE  n + 1 \in K
    <3> SUFFICES ASSUME (n + 1) + 1 <= N
                 PROVE  f[(n + 1) + 1] = [i \in 1 .. (n + 1) + 1 |-> r[i]]
      OBVIOUS
    <3>1. n \in Nat /\ n + 2 \in 1 .. N /\ n + 2 # 1 /\ (n + 2) - 1 = n + 1 /\ (n + 1) + 1 = n + 2
      OBVIOUS
    <3>2. PICK k : k = [i \in 1 .. n + 1 |-> r[i]]
      OBVIOUS
    <3>3. f[n + 2] = k \o <<r[n + 2]>>
      <4>1. f[n + 1] = k /\ q[n + 2] = <<r[n + 2]>>
        BY <1>2, <3>1, <3>2
      <4>2. f[n + 2] = f[n + 1] \o q[n + 2]
        BY <2>3, <3>1
      <4> QED
        BY <4>1, <4>2
    <3>4. k \in Seq(E) /\ Len(k) = n + 1
      <4>1. \A i \in 1 .. n + 1 : r[i] \in E
        BY <1>1, <3>1
      <4> QED
        BY <3>1, <3>2, <4>1
    <3>5. k \o <<r[n + 2]>> = [i \in 1 .. n + 2 |-> r[i]]
      <4>1. PICK x \in E : x = r[n + 2]
        BY <1>1, <3>1
      <4>2. k \o <<x>> = [i \in 1 .. n + 2 |-> IF i <= n + 1 THEN k[i] ELSE x]
        BY <3>1, <3>4
      <4>3. \A i \in 1 .. n + 2 : (IF i <= n + 1 THEN k[i] ELSE x) = r[i]
        BY <3>1, <3>2, <4>1
      <4> QED
        BY <4>1, <4>2, <4>3
    <3> QED
      BY <3>1, <3>3, <3>5
  <2>6. \A n \in Nat : n \in K
    <3> HIDE DEF K
    <3>1. K \in SUBSET Nat
      BY DEF K
    <3> QED
      BY <2>4, <2>5, <3>1, Induction
  <2>7. N - 1 \in K /\ (N - 1) + 1 = N
    <3> HIDE DEF K
    <3> QED
      BY <1>4, <2>6
  <2>8. r = [i \in 1 .. N |-> r[i]]
    BY <1>1
  <2>9. f[N] = [i \in 1 .. N |-> r[i]]
    BY <2>7
  <2> QED
    BY <2>2, <2>8, <2>9
<1> QED
  BY <1>3, <1>4

\* Sequences that share nothing, one after the other
LEMMA FlattenDistinct ==
  ASSUME NEW E, NEW s \in Seq(Seq(E)), \A i \in 1 .. Len(s) : IsInjective(s[i]),
         \A i, j \in 1 .. Len(s) : i # j => ToSet(s[i]) \cap ToSet(s[j]) = {}
  PROVE  IsInjective(FlattenSeq(s))
<1>1. CASE s = <<>>
  <2>1. FlattenSeq(s) = <<>> /\ IsInjective(<<>>)
    BY <1>1 DEF FlattenSeq, IsInjective
  <2> QED
    BY <2>1
<1>2. CASE s # <<>>
  <2>1. Len(s) \in Nat /\ Len(s) # 0 /\ \A i \in 1 .. Len(s) : s[i] \in Seq(E)
    BY <1>2, EmptySeq
  <2>2. PICK f : Flattens(f, s, Len(s)) /\ FlattenSeq(s) = f[Len(s)]
    BY <1>2, FlattenIs
  <2>3. \A i \in 1 .. Len(s) : f[i] = IF i = 1 THEN s[i] ELSE f[i - 1] \o s[i]
    BY <2>2, Zenon DEF Flattens
  <2> DEFINE K == {n \in Nat : n + 1 <= Len(s) =>
                     /\ f[n + 1] \in Seq(E) /\ IsInjective(f[n + 1])
                     /\ \A x \in ToSet(f[n + 1]) : \E i \in 1 .. n + 1 : x \in ToSet(s[i])}
  <2>4. 0 \in K
    <3>1. 1 \in 1 .. Len(s) /\ f[1] = s[1]
      BY <2>1, <2>3
    <3>2. 1 .. 0 + 1 = {1}
      OBVIOUS
    <3> QED
      BY <2>1, <3>1, <3>2
  <2>5. ASSUME NEW n \in K
        PROVE  n + 1 \in K
    <3> SUFFICES ASSUME (n + 1) + 1 <= Len(s)
                 PROVE  /\ f[(n + 1) + 1] \in Seq(E) /\ IsInjective(f[(n + 1) + 1])
                        /\ \A x \in ToSet(f[(n + 1) + 1]) : \E i \in 1 .. (n + 1) + 1 : x \in ToSet(s[i])
      OBVIOUS
    <3>1. n \in Nat /\ n + 1 <= Len(s) /\ n + 2 \in 1 .. Len(s) /\ (n + 1) + 1 = n + 2
          /\ (n + 2) - 1 = n + 1 /\ n + 2 # 1
      BY <2>1
    <3>2. f[n + 1] \in Seq(E) /\ IsInjective(f[n + 1]) /\ \A x \in ToSet(f[n + 1]) : \E i \in 1 .. n + 1 : x \in ToSet(s[i])
      BY <3>1
    <3>3. f[n + 2] = f[n + 1] \o s[n + 2]
      BY <2>3, <3>1
    <3>4. ToSet(f[n + 1]) \cap ToSet(s[n + 2]) = {}
      <4>1. \A i \in 1 .. n + 1 : i \in 1 .. Len(s) /\ i # n + 2
        BY <2>1, <3>1
      <4> QED
        BY <3>1, <3>2, <4>1
    <3>5. f[n + 2] \in Seq(E) /\ IsInjective(f[n + 2]) /\ ToSet(f[n + 2]) = ToSet(f[n + 1]) \cup ToSet(s[n + 2])
      <4>1. s[n + 2] \in Seq(E) /\ IsInjective(s[n + 2])
        BY <2>1, <3>1
      <4>2. PICK a, b \in Seq(E) : a = f[n + 1] /\ b = s[n + 2]
        BY <3>2, <4>1
      <4>3. f[n + 2] = a \o b /\ IsInjective(a) /\ IsInjective(b) /\ ToSet(a) \cap ToSet(b) = {}
        BY <3>2, <3>3, <3>4, <4>1, <4>2
      <4>4. a \o b \in Seq(E) /\ IsInjective(a \o b) /\ ToSet(a \o b) = ToSet(a) \cup ToSet(b)
        BY <4>3, ConcatMembers
      <4> QED
        BY <4>2, <4>3, <4>4
    <3>6. \A i \in 1 .. n + 1 : i \in 1 .. n + 2
      BY <3>1
    <3>7. \A x \in ToSet(f[n + 2]) : \E i \in 1 .. n + 2 : x \in ToSet(s[i])
      <4>1. n + 2 \in 1 .. n + 2
        BY <3>1
      <4> QED
        BY <3>2, <3>5, <3>6, <4>1
    <3> QED
      BY <3>1, <3>5, <3>7
  <2>6. \A n \in Nat : n \in K
    <3> HIDE DEF K
    <3>1. K \in SUBSET Nat
      BY DEF K
    <3> QED
      BY <2>4, <2>5, <3>1, Induction
  <2>7. Len(s) - 1 \in K /\ (Len(s) - 1) + 1 = Len(s)
    <3> HIDE DEF K
    <3> QED
      BY <2>1, <2>6
  <2> QED
    BY <2>1, <2>2, <2>7
<1> QED
  BY <1>1, <1>2

\* Concatenation is associative.
LEMMA Regrouped ==
  ASSUME NEW E, NEW q \in Seq(E), NEW p \in Seq(E), NEW r \in Seq(E)
  PROVE  (q \o p) \o r = q \o (p \o r)
  OBVIOUS
=============================================================================
