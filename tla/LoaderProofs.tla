---------------------------- MODULE LoaderProofs ----------------------------
(***************************************************************************)
(* Proofs about Loader, for any classes, categories and images.            *)
(*                                                                         *)
(* LoaderInv is the first inductive invariant. TablesSound is what holds   *)
(* of the class tables alone, after every change, whoever makes it.        *)
(* Ordered is what call_load_methods has called and will call of the list  *)
(* it detached, Pending what was marked and listed, and what that has to   *)
(* do with the images that are mapped, scheduled and gone.                 *)
(*                                                                         *)
(* MethodsInv goes on top of it. Methodical is what holds of the tables    *)
(* after every category read: the categories a class has, newest first,    *)
(* and those that wait for it are what was found for it, in the order in   *)
(* which it was found (Arranged, NoneMissing), and a default flag is set   *)
(* only where nothing in the lists above is against it (Agreed).           *)
(***************************************************************************)
EXTENDS Loader, DataFacts

-----------------------------------------------------------------------------
(* What Only keeps of a sequence                                            *)

\* The first n members of a sequence that are in a set.
OnlyTo(f, q, set) ==
    \A i \in 1 .. Len(q) : f[i] = IF i = 1 THEN (IF q[i] \in set THEN <<q[i]>> ELSE <<>>)
                                  ELSE f[i - 1] \o (IF q[i] \in set THEN <<q[i]>> ELSE <<>>)

\* Only is the last of them.
LEMMA OnlyIs ==
  ASSUME NEW E, NEW q \in Seq(E), NEW set
  PROVE  /\ q = <<>> => Only(q, set) = <<>>
         /\ q # <<>> => \E f : OnlyTo(f, q, set) /\ Only(q, set) = f[Len(q)]
<1>1. Len(q) \in Nat /\ DOMAIN q = 1 .. Len(q) /\ (q = <<>> <=> Len(q) = 0)
      /\ \A i \in 1 .. Len(q) : q[i] \in E
  BY EmptySeq, LenProperties, ElementOfSeq
<1>2. PICK s : s = [n \in 1 .. Len(q) |-> IF q[n] \in set THEN <<q[n]>> ELSE <<>>]
  OBVIOUS
<1>3. \A n \in 1 .. Len(q) : s[n] \in Seq(E)
  BY <1>1, <1>2
<1>4. s \in Seq(Seq(E)) /\ Len(s) = Len(q)
  BY <1>1, <1>2, <1>3
<1>5. Only(q, set) = FlattenSeq(s)
  BY <1>1, <1>2 DEF Only
<1>6. q = <<>> => Only(q, set) = <<>>
  <2> SUFFICES ASSUME q = <<>>
               PROVE  FlattenSeq(s) = <<>>
    BY <1>5
  <2>1. Len(s) = 0 /\ s = <<>>
    BY <1>1, <1>4
  <2> QED
    BY <2>1 DEF FlattenSeq
<1>7. ASSUME q # <<>>
      PROVE  \E f : OnlyTo(f, q, set) /\ Only(q, set) = f[Len(q)]
  <2>1. s # <<>>
    BY <1>1, <1>4, <1>7
  <2>2. PICK f : Flattens(f, s, Len(s)) /\ FlattenSeq(s) = f[Len(s)]
    BY <1>4, <2>1, FlattenIs
  <2>3. \A i \in 1 .. Len(q) : f[i] = IF i = 1 THEN s[i] ELSE f[i - 1] \o s[i]
    BY <1>4, <2>2, Zenon DEF Flattens
  <2>4. \A i \in 1 .. Len(q) : s[i] = IF q[i] \in set THEN <<q[i]>> ELSE <<>>
    BY <1>2
  <2>5. OnlyTo(f, q, set)
    BY <2>3, <2>4, Zenon DEF OnlyTo
  <2> QED
    BY <1>4, <1>5, <2>2, <2>5
<1> QED
  BY <1>6, <1>7

\* Only keeps the members that are in the set, and repeats none.
LEMMA OnlyMembers ==
  ASSUME NEW E, NEW q \in Seq(E), NEW set
  PROVE  /\ Only(q, set) \in Seq(E) /\ ToSet(Only(q, set)) = ToSet(q) \cap set
         /\ IsInjective(q) => IsInjective(Only(q, set))
<1>1. Len(q) \in Nat /\ DOMAIN q = 1 .. Len(q) /\ (q = <<>> <=> Len(q) = 0)
      /\ \A i \in 1 .. Len(q) : q[i] \in E
  BY EmptySeq, LenProperties, ElementOfSeq
<1>2. CASE q = <<>>
  <2>1. ToSet(<<>>) = {} /\ IsInjective(<<>>) /\ <<>> \in Seq(E)
    BY DEF ToSet, IsInjective
  <2> QED
    BY <1>2, <2>1, OnlyIs
<1>3. CASE q # <<>>
  <2>1. PICK f : OnlyTo(f, q, set) /\ Only(q, set) = f[Len(q)]
    BY <1>3, OnlyIs
  <2> DEFINE One(i) == IF q[i] \in set THEN <<q[i]>> ELSE <<>>
  <2>2. ASSUME NEW i \in 1 .. Len(q)
        PROVE  /\ One(i) \in Seq(E) /\ IsInjective(One(i))
               /\ ToSet(One(i)) = {q[i]} \cap set
    <3>1. <<q[i]>> \in Seq(E) /\ IsInjective(<<q[i]>>) /\ Range(<<q[i]>>) = {q[i]}
      BY <1>1, OneElement
    <3>2. ToSet(<<q[i]>>) = {q[i]}
      BY <3>1, SeqMembers
    <3>3. <<>> \in Seq(E) /\ IsInjective(<<>>) /\ ToSet(<<>>) = {}
      BY DEF ToSet, IsInjective
    <3> QED
      BY <3>1, <3>2, <3>3
  <2>3. \A i \in 1 .. Len(q) : f[i] = IF i = 1 THEN One(i) ELSE f[i - 1] \o One(i)
    BY <2>1, Zenon DEF OnlyTo
  <2> HIDE DEF One
  <2> DEFINE Part(n) == {q[i] : i \in 1 .. n}
             K == {n \in Nat : n + 1 <= Len(q) =>
                     /\ f[n + 1] \in Seq(E) /\ ToSet(f[n + 1]) = Part(n + 1) \cap set
                     /\ IsInjective(q) => IsInjective(f[n + 1])}
  <2>4. 0 \in K
    <3>1. 1 .. Len(q) # {} /\ f[1] = One(1) /\ 1 \in 1 .. Len(q)
      BY <1>1, <1>3, <2>3
    <3>2. Part(0 + 1) = {q[1]}
      OBVIOUS
    <3> HIDE DEF Part
    <3> QED
      BY <2>2, <3>1, <3>2
  <2>5. ASSUME NEW n \in K
        PROVE  n + 1 \in K
    <3> SUFFICES ASSUME (n + 1) + 1 <= Len(q)
                 PROVE  /\ f[(n + 1) + 1] \in Seq(E)
                        /\ ToSet(f[(n + 1) + 1]) = Part((n + 1) + 1) \cap set
                        /\ IsInjective(q) => IsInjective(f[(n + 1) + 1])
      OBVIOUS
    <3>1. n \in Nat /\ n + 1 <= Len(q) /\ n + 2 \in 1 .. Len(q) /\ (n + 1) + 1 = n + 2
          /\ (n + 2) - 1 = n + 1 /\ n + 2 # 1
      BY <1>1
    <3>2. /\ f[n + 1] \in Seq(E) /\ ToSet(f[n + 1]) = Part(n + 1) \cap set
          /\ IsInjective(q) => IsInjective(f[n + 1])
      BY <3>1
    <3>3. f[n + 2] = f[n + 1] \o One(n + 2)
      BY <2>3, <3>1
    <3>4. Part(n + 2) = Part(n + 1) \cup {q[n + 2]}
      <4>1. 1 .. n + 2 = (1 .. n + 1) \cup {n + 2}
        BY <3>1
      <4> QED
        BY <4>1
    <3>5. /\ f[n + 2] \in Seq(E) /\ ToSet(f[n + 2]) = ToSet(f[n + 1]) \cup ToSet(One(n + 2))
          /\ IsInjective(f[n + 1]) /\ ToSet(f[n + 1]) \cap ToSet(One(n + 2)) = {} => IsInjective(f[n + 2])
      BY <2>2, <3>1, <3>2, <3>3, ConcatMembers
    <3>6. IsInjective(q) => q[n + 2] \notin Part(n + 1)
      <4> SUFFICES ASSUME IsInjective(q), NEW i \in 1 .. n + 1, q[i] = q[n + 2]
                   PROVE  FALSE
        OBVIOUS
      <4>1. i \in 1 .. Len(q) /\ i # n + 2
        BY <1>1, <3>1
      <4> QED
        BY <3>1, <4>1, SeqMembers
    <3> HIDE DEF Part
    <3> QED
      BY <2>2, <3>1, <3>2, <3>4, <3>5, <3>6
  <2>6. \A n \in Nat : n \in K
    <3> HIDE DEF K
    <3>1. K \in SUBSET Nat
      BY DEF K
    <3> QED
      BY <2>4, <2>5, <3>1, Induction
  <2>7. Len(q) - 1 \in K /\ (Len(q) - 1) + 1 = Len(q)
    <3> HIDE DEF K
    <3> QED
      BY <1>1, <1>3, <2>6
  <2>8. Part(Len(q)) = ToSet(q)
    BY <1>1 DEF ToSet
  <2> QED
    BY <1>1, <1>3, <2>1, <2>7, <2>8
<1> QED
  BY <1>2, <1>3

-----------------------------------------------------------------------------
(* The types of the tables                                                  *)

Owners      == ImageClasses \cup Categories \cup {"runtime"}
Sels        == {"retain", "alloc", "initialize"}
                 \cup UNION {Defines[x][s] : x \in ImageClasses \cup Categories, s \in Sides}
MethodLists == [owner : Owners, sels : SUBSET Sels]

\* A layout that the compiler has made, slid or not
CompiledLayout(l) == \A n \in DOMAIN l.ivars : l.ivars[n].align \in Alignments

TableTypes ==
    [ super        : [Classes -> Classes \cup {NoClass}],
      named        : SUBSET Classes,  future      : SUBSET Classes,
      ignored      : SUBSET Classes,  realized    : SUBSET Classes,
      constructing : SUBSET Classes,  loaded      : SUBSET Classes,
      rawIsa       : SUBSET Classes,  initialized : SUBSET Classes,
      subclasses   : [Classes -> SUBSET Classes],
      lists        : [Classes -> [Sides -> Seq(MethodLists)]],
      unattached   : [Classes -> [Sides -> Seq(Categories)]],
      default      : [Sides -> SUBSET Classes],
      swizzled     : [Sides -> BOOLEAN],
      replaced     : [Sides -> BOOLEAN],
      debugIvars   : BOOLEAN,
      layout       : [Classes -> Layouts] ]

\* Every class is laid out soundly, realized or not.
RT == {t \in TableTypes : \A c \in Classes :
         Sound(t.layout[c]) /\ (c \in ImageClasses => CompiledLayout(t.layout[c]))}

\* The two tables differ in nothing but methods and the flags that follow from methods.
SameCore(t, u) ==
    /\ u.super = t.super        /\ u.named = t.named       /\ u.future = t.future
    /\ u.ignored = t.ignored    /\ u.realized = t.realized /\ u.constructing = t.constructing
    /\ u.loaded = t.loaded      /\ u.subclasses = t.subclasses
    /\ u.debugIvars = t.debugIvars /\ u.layout = t.layout

\* The tables after one change of these.
LEMMA PutMethods ==
  ASSUME NEW t \in RT, NEW u
  PROVE  /\ \A D \in [Sides -> SUBSET Classes] :
              u = [t EXCEPT !.default = D] => u \in RT /\ SameCore(t, u)
         /\ \A L \in [Classes -> [Sides -> Seq(MethodLists)]] :
              u = [t EXCEPT !.lists = L] => u \in RT /\ SameCore(t, u)
         /\ \A L \in [Classes -> [Sides -> Seq(Categories)]] :
              u = [t EXCEPT !.unattached = L] => u \in RT /\ SameCore(t, u)
         /\ \A S \in SUBSET Classes :
              u = [t EXCEPT !.rawIsa = S] => u \in RT /\ SameCore(t, u)
         /\ \A B \in [Sides -> BOOLEAN] :
              \/ u = [t EXCEPT !.swizzled = B]
              \/ u = [t EXCEPT !.replaced = B]
              => u \in RT /\ SameCore(t, u)
         /\ \A S \in SUBSET Classes : \A D \in [Sides -> SUBSET Classes] :
              u = [t EXCEPT !.initialized = S, !.default = D] => u \in RT /\ SameCore(t, u)
<1>1. ASSUME NEW D \in [Sides -> SUBSET Classes], u = [t EXCEPT !.default = D]
      PROVE  u \in RT /\ SameCore(t, u)
  BY <1>1 DEF RT, TableTypes, SameCore
<1>2. ASSUME NEW L \in [Classes -> [Sides -> Seq(MethodLists)]], u = [t EXCEPT !.lists = L]
      PROVE  u \in RT /\ SameCore(t, u)
  BY <1>2 DEF RT, TableTypes, SameCore
<1>3. ASSUME NEW L \in [Classes -> [Sides -> Seq(Categories)]], u = [t EXCEPT !.unattached = L]
      PROVE  u \in RT /\ SameCore(t, u)
  BY <1>3 DEF RT, TableTypes, SameCore
<1>4. ASSUME NEW S \in SUBSET Classes, u = [t EXCEPT !.rawIsa = S]
      PROVE  u \in RT /\ SameCore(t, u)
  BY <1>4 DEF RT, TableTypes, SameCore
<1>5. ASSUME NEW B \in [Sides -> BOOLEAN],
             u = [t EXCEPT !.swizzled = B] \/ u = [t EXCEPT !.replaced = B]
      PROVE  u \in RT /\ SameCore(t, u)
  BY <1>5 DEF RT, TableTypes, SameCore
<1>6. ASSUME NEW S \in SUBSET Classes, NEW D \in [Sides -> SUBSET Classes],
             u = [t EXCEPT !.initialized = S, !.default = D]
      PROVE  u \in RT /\ SameCore(t, u)
  BY <1>6 DEF RT, TableTypes, SameCore
<1> QED
  BY <1>1, <1>2, <1>3, <1>4, <1>5, <1>6

-----------------------------------------------------------------------------
(* Layouts                                                                  *)

\* What divides what.
LEMMA Divides ==
  ASSUME NEW a \in Nat \ {0}
  PROVE  /\ \A x \in Int : x % a = 0 <=> \E q \in Int : x = a * q
         /\ \A x, y \in Int : x % a = 0 /\ y % a = 0 => (x + y) % a = 0
         /\ \A x, q \in Int : x % a = 0 => (x * q) % a = 0
         /\ \A b \in Nat \ {0}, x \in Int : b % a = 0 /\ x % b = 0 => x % a = 0
<1>1. \A x \in Int : x % a = 0 <=> \E q \in Int : x = a * q
  <2> SUFFICES ASSUME NEW x \in Int
               PROVE  x % a = 0 <=> \E q \in Int : x = a * q
    OBVIOUS
  <2>1. x % a = 0 => x = a * (x \div a) /\ x \div a \in Int
    BY Division
  <2>2. ASSUME NEW q \in Int, x = a * q
        PROVE  x % a = 0
    <3>1. 0 \in 0 .. a - 1 /\ x = a * q + 0
      BY <2>2
    <3> QED
      BY <3>1, Division
  <2> QED
    BY <2>1, <2>2
<1>2. ASSUME NEW x \in Int, NEW y \in Int, x % a = 0, y % a = 0
      PROVE  (x + y) % a = 0
  <2>1. PICK p, q \in Int : x = a * p /\ y = a * q
    BY <1>1, <1>2
  <2>2. PICK r \in Int : r = p + q
    OBVIOUS
  <2>3. x + y = a * r /\ x + y \in Int
    BY <2>1, <2>2
  <2> QED
    BY <1>1, <2>3
<1>3. ASSUME NEW x \in Int, NEW q \in Int, x % a = 0
      PROVE  (x * q) % a = 0
  <2>1. PICK p \in Int : x = a * p
    BY <1>1, <1>3
  <2>2. PICK r \in Int : r = p * q
    OBVIOUS
  <2>3. x * q = a * r /\ x * q \in Int
    BY <2>1, <2>2
  <2> QED
    BY <1>1, <2>3
<1>4. ASSUME NEW b \in Nat \ {0}, NEW x \in Int, b % a = 0, x % b = 0
      PROVE  x % a = 0
  <2>1. x = b * (x \div b) /\ x \div b \in Int
    BY <1>4, Division
  <2>2. PICK q \in Int : q = x \div b
    BY <2>1
  <2>3. b \in Int /\ b % a = 0
    BY <1>4
  <2>4. (b * q) % a = 0
    BY <1>3, <2>3
  <2> QED
    BY <2>1, <2>2, <2>4
<1> QED
  BY <1>1, <1>2, <1>3, <1>4

\* Rounded up to a multiple of a.
LEMMA RoundedUp ==
  ASSUME NEW n \in Nat, NEW a \in Nat \ {0}
  PROVE  RoundUp(n, a) \in Nat /\ RoundUp(n, a) >= n /\ RoundUp(n, a) % a = 0
<1>1. PICK x \in Int : x = n + a - 1
  OBVIOUS
<1>2. PICK q, r \in Int : q = x \div a /\ r = x % a /\ r \in 0 .. a - 1 /\ x = a * q + r
  BY Division
<1>3. PICK m \in Int : m = a * q
  OBVIOUS
<1>4. m >= n
  BY <1>1, <1>2, <1>3
<1>5. RoundUp(n, a) = m
  <2>1. RoundUp(n, a) = q * a
    BY <1>1, <1>2 DEF RoundUp
  <2>2. q * a = a * q
    OBVIOUS
  <2> QED
    BY <1>3, <2>1, <2>2
<1>6. m % a = 0
  BY <1>3, Divides
<1> QED
  BY <1>4, <1>5, <1>6

\* Finitely many numbers have a bound.
LEMMA BoundOf ==
  ASSUME NEW n \in Nat, NEW f, \A i \in 1 .. n : f[i] \in Nat
  PROVE  \E b \in Nat : \A i \in 1 .. n : f[i] <= b
<1> DEFINE K == {m \in Nat : m <= n => \E b \in Nat : \A i \in 1 .. m : f[i] <= b}
<1>1. 0 \in K
  OBVIOUS
<1>2. ASSUME NEW m \in K
      PROVE  m + 1 \in K
  <2> SUFFICES ASSUME m + 1 <= n
               PROVE  \E b \in Nat : \A i \in 1 .. m + 1 : f[i] <= b
    OBVIOUS
  <2>1. PICK b \in Nat : \A i \in 1 .. m : f[i] <= b
    OBVIOUS
  <2>2. m \in Nat /\ f[m + 1] \in Nat
    OBVIOUS
  <2>3. PICK v \in Nat : v = f[m + 1]
    BY <2>2
  <2>4. PICK c \in Nat : b <= c /\ v <= c
    <3>1. b \in Nat /\ v \in Nat /\ (b <= v \/ v <= b)
      OBVIOUS
    <3> QED
      BY <3>1
  <2>5. ASSUME NEW i \in 1 .. m + 1
        PROVE  f[i] <= c
    <3>1. i \in 1 .. m \/ i = m + 1
      BY <2>2
    <3>2. CASE i \in 1 .. m
      <4>1. f[i] <= b /\ f[i] \in Nat
        BY <2>1, <2>2, <3>2
      <4> QED
        BY <2>4, <4>1
    <3> QED
      BY <2>3, <2>4, <3>1, <3>2
  <2> QED
    BY <2>5
<1>3. \A m \in Nat : m \in K
  <2> HIDE DEF K
  <2>1. K \in SUBSET Nat
    BY DEF K
  <2> QED
    BY <1>1, <1>2, <2>1, Induction
<1>4. n \in K
  BY <1>3
<1> QED
  BY <1>4

\* The alignments that occur.
LEMMA AlignmentTypes == Alignments \in SUBSET (Nat \ {0}) /\ 8 \in Alignments
<1>1. ASSUME NEW c \in ImageClasses, NEW v \in ToSet(Compiled[c].ivars)
      PROVE  v.align \in Nat \ {0}
  <2>1. Compiled[c].ivars \in Seq(Ivar)
    BY ClassesAssumption DEF Layouts
  <2>2. v \in Ivar
    BY <2>1, SeqMembers
  <2> QED
    BY <2>2 DEF Ivar
<1> QED
  BY <1>1 DEF Alignments

\* A layout of the compiler's is aligned to a multiple of each alignment in it.
LEMMA AlignmentIs ==
  ASSUME NEW l \in Layouts, CompiledLayout(l)
  PROVE  /\ Alignment(l.ivars) \in {1} \cup Alignments
         /\ \A n \in DOMAIN l.ivars : /\ l.ivars[n].align \in Alignments
                                      /\ l.ivars[n].align <= Alignment(l.ivars)
                                      /\ Alignment(l.ivars) % l.ivars[n].align = 0
<1>1. l.ivars \in Seq(Ivar) /\ Len(l.ivars) \in Nat /\ DOMAIN l.ivars = 1 .. Len(l.ivars)
  BY LenProperties DEF Layouts
<1>2. \A n \in 1 .. Len(l.ivars) : l.ivars[n].align \in Alignments /\ l.ivars[n].align \in Nat \ {0}
  BY <1>1, AlignmentTypes DEF CompiledLayout
<1> DEFINE f == [n \in 1 .. Len(l.ivars) |-> l.ivars[n].align]
           S == {1} \cup {l.ivars[n].align : n \in DOMAIN l.ivars}
<1>3. PICK b \in Nat : \A n \in 1 .. Len(l.ivars) : f[n] <= b
  <2>1. \A n \in 1 .. Len(l.ivars) : f[n] \in Nat
    BY <1>2
  <2> HIDE DEF f
  <2> QED
    BY <1>1, <2>1, BoundOf
<1>4. S \in SUBSET (0 .. b + 1) /\ S # {}
  <2>1. \A n \in 1 .. Len(l.ivars) : l.ivars[n].align \in 0 .. b + 1
    <3> SUFFICES ASSUME NEW n \in 1 .. Len(l.ivars)
                 PROVE  l.ivars[n].align \in 0 .. b + 1
      OBVIOUS
    <3>1. PICK v \in Nat : v = l.ivars[n].align
      BY <1>2
    <3>2. v <= b
      BY <1>3, <3>1
    <3> QED
      BY <3>1, <3>2
  <2> QED
    BY <1>1, <2>1
<1>5. Max(S) \in S /\ \A n \in S : n <= Max(S)
  <2> HIDE DEF S
  <2>1. b + 1 \in Nat
    OBVIOUS
  <2> QED
    BY <1>4, <2>1, MaxOfBounded
<1>6. Alignment(l.ivars) = Max(S)
  BY DEF Alignment
<1>7. PICK A : A = Max(S)
  OBVIOUS
<1>8. A \in {1} \cup Alignments /\ \A n \in 1 .. Len(l.ivars) : l.ivars[n].align <= A
  BY <1>1, <1>2, <1>5, <1>7
<1>9. ASSUME NEW n \in 1 .. Len(l.ivars)
      PROVE  A % l.ivars[n].align = 0
  <2>1. l.ivars[n].align <= A /\ l.ivars[n].align \in Alignments /\ l.ivars[n].align \in Nat \ {0}
    BY <1>2, <1>8
  <2>2. CASE A = 1
    BY <2>1, <2>2
  <2>3. CASE A \in Alignments
    BY <2>1, <2>3, ClassesAssumption
  <2> QED
    BY <1>8, <2>2, <2>3
<1> QED
  BY <1>1, <1>2, <1>6, <1>7, <1>8, <1>9

\* Ivars that slide by a multiple of their alignments stay aligned, and one behind the other.
LEMMA SlideKeeps ==
  ASSUME NEW l \in Layouts, Sound(l), CompiledLayout(l), NEW d \in Int, l.start + d >= 0,
         \A n \in DOMAIN l.ivars : d % l.ivars[n].align = 0
  PROVE  /\ Slide(l, d) \in Layouts /\ Sound(Slide(l, d)) /\ CompiledLayout(Slide(l, d))
         /\ Slide(l, d).start = l.start + d
<1>1. /\ l.ivars \in Seq(Ivar) /\ Len(l.ivars) \in Nat /\ DOMAIN l.ivars = 1 .. Len(l.ivars)
      /\ l.start \in Nat /\ l.size \in Nat /\ l.start <= l.size
  BY LenProperties DEF Layouts, Sound
<1>2. PICK s : s = l.ivars
  OBVIOUS
<1>3. PICK k \in Nat : k = Len(l.ivars)
  BY <1>1
<1>4. \A n \in 1 .. k :
        /\ s[n] \in Ivar /\ s[n].offset \in Nat /\ s[n].size \in Nat /\ s[n].align \in Nat \ {0}
        /\ l.start <= s[n].offset /\ s[n].offset % s[n].align = 0
        /\ s[n].offset + s[n].size <= l.size /\ s[n].align \in Alignments /\ d % s[n].align = 0
        /\ \A m \in 1 .. n - 1 : s[m].offset + s[m].size <= s[n].offset
  <2>1. \A n \in 1 .. k : s[n] \in Ivar
    BY <1>1, <1>2, <1>3
  <2>2. \A n \in 1 .. k : s[n].offset \in Nat /\ s[n].size \in Nat /\ s[n].align \in Nat \ {0}
    BY <2>1 DEF Ivar
  <2>3. \A n \in DOMAIN l.ivars :
          /\ l.start <= l.ivars[n].offset /\ l.ivars[n].offset % l.ivars[n].align = 0
          /\ l.ivars[n].offset + l.ivars[n].size <= l.size
          /\ \A m \in 1 .. n - 1 : l.ivars[m].offset + l.ivars[m].size <= l.ivars[n].offset
    BY Zenon DEF Sound
  <2>4. \A n \in DOMAIN l.ivars : l.ivars[n].align \in Alignments
    BY Zenon DEF CompiledLayout
  <2> QED
    BY <1>1, <1>2, <1>3, <2>1, <2>2, <2>3, <2>4, Zenon
<1>5. PICK r : r = [i \in 1 .. k |-> [s[i] EXCEPT !.offset = @ + d]]
  OBVIOUS
<1>6. ASSUME NEW n \in 1 .. k
      PROVE  /\ r[n] \in Ivar /\ r[n].offset = s[n].offset + d
             /\ r[n].size = s[n].size /\ r[n].align = s[n].align
  <2>1. r[n] = [s[n] EXCEPT !.offset = s[n].offset + d]
    BY <1>5
  <2>2. s[n] \in Ivar /\ s[n].offset + d \in Nat
    BY <1>1, <1>4
  <2> QED
    BY <2>1, <2>2 DEF Ivar
<1>7. r \in Seq(Ivar) /\ Len(r) = k /\ DOMAIN r = 1 .. k
  BY <1>5, <1>6
<1>8. Slide(l, d) = [start |-> l.start + d, size |-> l.size + d, ivars |-> r]
  BY <1>1, <1>2, <1>3, <1>5 DEF Slide
<1>9. l.start + d \in Nat /\ l.size + d \in Nat /\ l.start + d <= l.size + d
  BY <1>1
<1>10. ASSUME NEW n \in 1 .. k
       PROVE  /\ l.start + d <= r[n].offset /\ r[n].offset % r[n].align = 0
              /\ r[n].offset + r[n].size <= l.size + d /\ r[n].align \in Alignments
              /\ \A m \in 1 .. n - 1 : r[m].offset + r[m].size <= r[n].offset
  <2>1. r[n].offset % r[n].align = 0
    <3>1. r[n].offset = s[n].offset + d /\ r[n].align = s[n].align
      BY <1>6
    <3>2. PICK a \in Nat \ {0}, x \in Int : a = s[n].align /\ x = s[n].offset
      BY <1>4
    <3>3. x % a = 0 /\ d % a = 0
      BY <1>4, <3>2
    <3>4. (x + d) % a = 0
      BY <3>3, Divides
    <3> QED
      BY <3>1, <3>2, <3>4
  <2>2. ASSUME NEW m \in 1 .. n - 1
        PROVE  r[m].offset + r[m].size <= r[n].offset
    <3>1. m \in 1 .. k
      OBVIOUS
    <3> QED
      BY <1>4, <1>6, <3>1
  <2>3. l.start + d <= r[n].offset /\ r[n].offset + r[n].size <= l.size + d
    <3>1. PICK x, y, a, b \in Nat : x = s[n].offset /\ y = s[n].size /\ a = l.start /\ b = l.size
      BY <1>1, <1>4
    <3>2. a <= x /\ x + y <= b
      BY <1>4, <3>1
    <3>3. r[n].offset = x + d /\ r[n].size = y
      BY <1>6, <3>1
    <3>4. a + d <= x + d /\ (x + d) + y <= b + d
      BY <3>2
    <3> QED
      BY <3>1, <3>3, <3>4
  <2> QED
    BY <1>4, <1>6, <2>1, <2>2, <2>3
<1>11. PICK w : w = [start |-> l.start + d, size |-> l.size + d, ivars |-> r]
  OBVIOUS
<1>12. w.start = l.start + d /\ w.size = l.size + d /\ w.ivars = r
  BY <1>11
<1>13. w \in Layouts
  BY <1>7, <1>9, <1>11 DEF Layouts
<1>14. Sound(w) /\ CompiledLayout(w)
  BY <1>7, <1>9, <1>10, <1>12 DEF Sound, CompiledLayout
<1> QED
  BY <1>8, <1>11, <1>12, <1>13, <1>14

\* Pushed down on purpose, the ivars keep their alignments.
LEMMA ForceDownKeeps ==
  ASSUME NEW l \in Layouts, Sound(l), CompiledLayout(l)
  PROVE  ForceDown(l) \in Layouts /\ Sound(ForceDown(l)) /\ CompiledLayout(ForceDown(l))
<1>1. l.start \in Nat
  BY DEF Layouts
<1>2. PICK A \in Nat \ {0} : A = Alignment(l.ivars)
  <2>1. Alignment(l.ivars) \in {1} \cup Alignments
    BY AlignmentIs
  <2> QED
    BY <2>1, AlignmentTypes
<1>3. /\ A \in {1} \cup Alignments
      /\ \A n \in DOMAIN l.ivars : l.ivars[n].align \in Alignments /\ l.ivars[n].align <= A
  BY <1>2, AlignmentIs
<1>4. PICK m : m = Max({8, A})
  OBVIOUS
<1>5. m \in {8, A} /\ 8 <= m /\ A <= m
  <2>1. {8, A} \in SUBSET (0 .. A + 8) /\ A + 8 \in Nat
    OBVIOUS
  <2> QED
    BY <1>4, <2>1, MaxOfBounded
<1>6. m \in Alignments /\ m \in Nat \ {0}
  BY <1>3, <1>5, AlignmentTypes
<1>7. PICK q, r \in Int : q = l.start \div m /\ r = l.start % m /\ r \in 0 .. m - 1 /\ l.start = m * q + r
  <2>1. PICK x \in Int : x = l.start
    BY <1>1
  <2>2. x % m \in 0 .. m - 1 /\ x \div m \in Int /\ x = m * (x \div m) + (x % m)
    BY <1>6, Division
  <2> QED
    BY <2>1, <2>2
<1>8. PICK x \in Nat, d \in Int : x = l.start /\ d = r - x
  <2>1. PICK x \in Nat : x = l.start
    BY <1>1
  <2>2. r - x \in Int
    OBVIOUS
  <2> QED
    BY <2>1, <2>2
<1>9. d % m = 0
  <2>1. PICK p \in Int : p = 0 - q
    OBVIOUS
  <2>2. d = m * p
    <3>1. m * p = 0 - (m * q)
      BY <1>6, <2>1
    <3>2. PICK y \in Int : y = m * q
      BY <1>6
    <3>3. x = y + r
      BY <1>7, <1>8, <3>2
    <3>4. d = 0 - y
      BY <1>8, <3>3
    <3> QED
      BY <3>1, <3>2, <3>4
  <2> QED
    BY <1>6, <2>2, Divides
<1>10. ASSUME NEW n \in DOMAIN l.ivars
       PROVE  d % l.ivars[n].align = 0
  <2>1. PICK a : a = l.ivars[n].align
    OBVIOUS
  <2>2. a \in Alignments /\ a <= A
    BY <1>3, <2>1
  <2>3. a \in Nat \ {0} /\ a <= m
    <3>1. a \in Nat \ {0}
      BY <2>2, AlignmentTypes
    <3> QED
      BY <1>5, <1>6, <2>2, <3>1
  <2>4. m % a = 0
    BY <1>6, <2>2, <2>3, ClassesAssumption
  <2>5. d % a = 0
    BY <1>6, <1>9, <2>3, <2>4, Divides
  <2> QED
    BY <2>1, <2>5
<1>11. ForceDown(l) = Slide(l, d)
  BY <1>2, <1>4, <1>7, <1>8 DEF ForceDown
<1>12. l.start + d >= 0
  <2>0. r \in Nat
    BY <1>6, <1>7
  <2>1. x + d >= 0
    BY <1>8, <2>0
  <2> QED
    BY <1>8, <2>1
<1> QED
  BY <1>10, <1>11, <1>12, SlideKeeps

\* The instance starts behind the superclass's.
LEMMA Reconciled ==
  ASSUME NEW t, NEW l \in Layouts, Sound(l), CompiledLayout(l), NEW n \in Nat
  PROVE  /\ Reconcile(t, l, n) \in Layouts /\ Sound(Reconcile(t, l, n))
         /\ CompiledLayout(Reconcile(t, l, n)) /\ Reconcile(t, l, n).start >= n
<1>1. PICK c : c = IF t.debugIvars THEN ForceDown(l) ELSE l
  OBVIOUS
<1>2. c \in Layouts /\ Sound(c) /\ CompiledLayout(c)
  BY <1>1, ForceDownKeeps
<1>3. c.start \in Nat
  BY <1>2 DEF Layouts
<1>4. CASE c.start >= n
  <2>1. Reconcile(t, l, n) = c
    BY <1>1, <1>4 DEF Reconcile
  <2> QED
    BY <1>2, <1>4, <2>1
<1>5. CASE ~(c.start >= n)
  <2>1. Reconcile(t, l, n) = MoveIvars(c, n)
    BY <1>1, <1>5 DEF Reconcile
  <2>2. PICK A \in Nat \ {0} : A = Alignment(c.ivars)
    <3>1. Alignment(c.ivars) \in {1} \cup Alignments
      BY <1>2, AlignmentIs
    <3> QED
      BY <3>1, AlignmentTypes
  <2>3. n - c.start \in Nat
    BY <1>3, <1>5
  <2>4. PICK d \in Nat : d = RoundUp(n - c.start, A) /\ d >= n - c.start /\ d % A = 0
    BY <2>3, RoundedUp
  <2>5. ASSUME NEW i \in DOMAIN c.ivars
        PROVE  d % c.ivars[i].align = 0
    <3>1. PICK a : a = c.ivars[i].align
      OBVIOUS
    <3>2. a \in Alignments /\ A % a = 0
      BY <1>2, <2>2, <3>1, AlignmentIs
    <3>3. a \in Nat \ {0} /\ d \in Int /\ d % A = 0
      BY <2>4, <3>2, AlignmentTypes
    <3>4. d % a = 0
      BY <3>2, <3>3, Divides
    <3> QED
      BY <3>1, <3>4
  <2>6. MoveIvars(c, n) = Slide(c, d)
    BY <2>2, <2>4 DEF MoveIvars
  <2>7. c.start + d >= 0 /\ c.start + d >= n /\ d \in Int
    BY <1>3, <2>4
  <2>8. /\ Slide(c, d) \in Layouts /\ Sound(Slide(c, d)) /\ CompiledLayout(Slide(c, d))
        /\ Slide(c, d).start = c.start + d
    BY <1>2, <2>5, <2>7, SlideKeeps
  <2> QED
    BY <2>1, <2>6, <2>7, <2>8
<1> QED
  BY <1>4, <1>5

-----------------------------------------------------------------------------
(* What changes of methods leave alone                                      *)

\* Two such changes are one.
LEMMA SameTwice ==
  ASSUME NEW t, NEW u, NEW v, SameCore(t, u), SameCore(u, v)
  PROVE  SameCore(t, v)
  BY Zenon DEF SameCore

\* The fields have their types.
LEMMA Fields ==
  ASSUME NEW t \in RT
  PROVE  /\ t.super \in [Classes -> Classes \cup {NoClass}] /\ t.subclasses \in [Classes -> SUBSET Classes]
         /\ {t.named, t.future, t.ignored, t.realized, t.constructing, t.loaded, t.rawIsa, t.initialized}
              \in SUBSET SUBSET Classes
         /\ t.lists \in [Classes -> [Sides -> Seq(MethodLists)]]
         /\ t.unattached \in [Classes -> [Sides -> Seq(Categories)]]
         /\ t.default \in [Sides -> SUBSET Classes]
         /\ t.swizzled \in [Sides -> BOOLEAN] /\ t.replaced \in [Sides -> BOOLEAN]
         /\ t.debugIvars \in BOOLEAN /\ t.layout \in [Classes -> Layouts]
         /\ \A c \in Classes : Sound(t.layout[c]) /\ (c \in ImageClasses => CompiledLayout(t.layout[c]))
         /\ SameCore(t, t)
  BY DEF RT, TableTypes, SameCore

\* Subtree's loop
WithinTo(f, t, c) ==
    f = [n \in 0 .. Cardinality(Classes) |->
           IF n = 0 THEN {c} ELSE f[n - 1] \cup UNION {t.subclasses[d] : d \in f[n - 1]}]

\* Subtree's loop ends with all that is below the class.
LEMMA SubtreeFacts ==
  ASSUME NEW t \in RT, NEW c \in Classes
  PROVE  Subtree(t, c) \in SUBSET Classes /\ c \in Subtree(t, c)
         /\ \A d \in Subtree(t, c) : t.subclasses[d] \subseteq Subtree(t, c)
<1>1. PICK N \in Nat : N = Cardinality(Classes)
  BY ClassesAssumption, FS_CardinalityType
<1> DEFINE V == {S \in SUBSET Classes : c \in S}
           Turn(x) == x \cup UNION {t.subclasses[d] : d \in x}
           g == [p \in V \X (1 .. N) |-> Turn(p[1])]
<1>2. \A x \in V : Turn(x) \in V
  BY Fields
<1>3. g \in [V \X (1 .. N) -> V]
  <2> HIDE DEF V, Turn
  <2> QED
    BY <1>2
<1>4. {c} \in V
  OBVIOUS
<1>5. PICK f \in [0 .. N -> V] : f[0] = {c} /\ \A i \in 1 .. N : f[i] = g[<<f[i - 1], i>>]
  <2> HIDE DEF V, Turn, g
  <2>1. \E f : LoopIn(f, N, V, {c}, g)
    BY <1>3, <1>4, TypedLoop
  <2> QED
    BY <2>1 DEF LoopIn
<1>6. \A i \in 1 .. N : f[i] = Turn(f[i - 1])
  <2> SUFFICES ASSUME NEW i \in 1 .. N
               PROVE  f[i] = Turn(f[i - 1])
    OBVIOUS
  <2>1. i - 1 \in 0 .. N
    OBVIOUS
  <2>2. f[i - 1] \in V
    BY <2>1
  <2> HIDE DEF V, Turn
  <2> QED
    BY <1>5, <2>2
<1>7. \A i \in 0 .. N : f[i] = IF i = 0 THEN {c} ELSE Turn(f[i - 1])
  <2> HIDE DEF V, Turn, g
  <2> QED
    BY <1>5, <1>6
<1>8. WithinTo(f, t, c)
  <2>1. f = [i \in 0 .. N |-> f[i]]
    OBVIOUS
  <2>2. f = [i \in 0 .. N |-> IF i = 0 THEN {c} ELSE Turn(f[i - 1])]
    <3> HIDE DEF V, Turn, g
    <3> QED
      BY <1>7, <2>1, Zenon
  <2> QED
    BY <1>1, <2>2 DEF WithinTo
<1>9. PICK h : h = (CHOOSE w : WithinTo(w, t, c)) /\ WithinTo(h, t, c)
  BY <1>8, Zenon
<1>10. Subtree(t, c) = h[N]
  BY <1>1, <1>9, Zenon DEF Subtree, WithinTo
<1>11. \A i \in 0 .. N : h[i] = IF i = 0 THEN {c} ELSE Turn(h[i - 1])
  BY <1>1, <1>9, Zenon DEF WithinTo
<1> DEFINE Closed(S) == \A d \in S : t.subclasses[d] \subseteq S
           R == [i \in 0 .. N |-> {S \in V : Closed(S) \/ i + 1 <= Cardinality(S)}]
<1>12. IsFiniteSet(Classes)
  BY ClassesAssumption
<1>13. \A i \in 0 .. N : h[i] \in R[i]
  <2>1. h[0] \in R[0]
    <3>1. 0 \in 0 .. N
      OBVIOUS
    <3>2. h[0] = {c}
      <4> HIDE DEF V, Turn
      <4> QED
        BY <1>11, <3>1
    <3>3. Cardinality({c}) = 1
      BY FS_Singleton
    <3> QED
      BY <1>4, <3>1, <3>2, <3>3
  <2>2. ASSUME NEW i \in 1 .. N, h[i - 1] \in R[i - 1]
        PROVE  h[i] \in R[i]
    <3>1. PICK S : S = h[i - 1]
      OBVIOUS
    <3>2. S \in V /\ (Closed(S) \/ i <= Cardinality(S)) /\ i \in 0 .. N /\ i # 0
      BY <2>2, <3>1
    <3>3. h[i] = Turn(S)
      <4> HIDE DEF V, Turn
      <4> QED
        BY <1>11, <3>1, <3>2
    <3>4. Turn(S) \in V
      <4> HIDE DEF V, Turn
      <4> QED
        BY <1>2, <3>2
    <3>5. CASE Closed(S)
      <4>1. Turn(S) = S
        BY <3>5
      <4> QED
        BY <3>2, <3>3, <3>5, <4>1
    <3>6. CASE ~Closed(S)
      <4>1. PICK d \in S : \E x : x \in t.subclasses[d] /\ x \notin S
        BY <3>6
      <4>2. PICK x : x \in t.subclasses[d] /\ x \notin S
        BY <4>1
      <4>3. x \in Turn(S) /\ S \subseteq Turn(S) \ {x} /\ x \in Classes
        BY <3>4, <4>2
      <4>4. /\ Cardinality(S) \in Nat /\ Cardinality(Turn(S)) \in Nat
            /\ Cardinality(S) + 1 <= Cardinality(Turn(S))
        <5>1. S \in SUBSET Classes /\ Turn(S) \in SUBSET Classes
          BY <3>2, <3>4
        <5> HIDE DEF Turn, V
        <5> QED
          BY <1>12, <4>3, <5>1, SizeStep
      <4>5. i + 1 <= Cardinality(Turn(S))
        <5> HIDE DEF Turn, V, Closed
        <5> QED
          BY <3>2, <3>6, <4>4
      <4> HIDE DEF Turn, V, Closed
      <4> QED
        BY <3>2, <3>3, <3>4, <4>5
    <3> QED
      BY <3>5, <3>6
  <2> HIDE DEF R
  <2> QED
    BY <2>1, <2>2, LoopKeeps
<1>14. PICK S : S = h[N]
  OBVIOUS
<1>15. S \in V /\ (Closed(S) \/ N + 1 <= Cardinality(S))
  BY <1>1, <1>13, <1>14
<1>16. Cardinality(S) \in Nat /\ Cardinality(S) <= N
  BY <1>1, <1>12, <1>15, SizeStep
<1>17. Closed(S)
  <2> HIDE DEF Closed
  <2> QED
    BY <1>1, <1>15, <1>16
<1> QED
  BY <1>10, <1>14, <1>15, <1>17

\* Flags that are taken away, or set, from a class down.
LEMMA SetHasCustomSame ==
  ASSUME NEW t \in RT, NEW c \in Classes, NEW s \in Sides
  PROVE  SetHasCustom(t, c, s) \in RT /\ SameCore(t, SetHasCustom(t, c, s))
<1>1. PICK D : D = [t.default EXCEPT ![s] = @ \ {d \in Subtree(t, c) : d = c \/ d \in t.initialized}]
  OBVIOUS
<1>2. D \in [Sides -> SUBSET Classes]
  BY <1>1, Fields
<1>3. SetHasCustom(t, c, s) = t \/ SetHasCustom(t, c, s) = [t EXCEPT !.default = D]
  BY <1>1 DEF SetHasCustom
<1> QED
  BY <1>2, <1>3, PutMethods, Fields

\* setRequiresRawIsa
LEMMA SetRequiresRawIsaSame ==
  ASSUME NEW t \in RT, NEW cs \in SUBSET Classes
  PROVE  SetRequiresRawIsa(t, cs) \in RT /\ SameCore(t, SetRequiresRawIsa(t, cs))
<1>1. PICK S : S = t.rawIsa \cup UNION {Subtree(t, c) : c \in cs \ t.rawIsa}
  OBVIOUS
<1>2. S \in SUBSET Classes
  BY <1>1, Fields, SubtreeFacts
<1>3. SetRequiresRawIsa(t, cs) = [t EXCEPT !.rawIsa = S]
  BY <1>1 DEF SetRequiresRawIsa
<1> QED
  BY <1>2, <1>3, PutMethods

\* addSubclass, on to the flags of the class above
LEMMA InheritCustomSame ==
  ASSUME NEW t \in RT, NEW p, NEW c \in Classes, NEW s \in Sides
  PROVE  InheritCustom(t, p, c, s) \in RT /\ SameCore(t, InheritCustom(t, p, c, s))
  BY SetHasCustomSame, Fields DEF InheritCustom

\* Lists that are attached.
LEMMA AttachListsSame ==
  ASSUME NEW t \in RT, NEW c \in Classes, NEW s \in Sides, NEW lists \in Seq(MethodLists)
  PROVE  AttachLists(t, c, s, lists) \in RT /\ SameCore(t, AttachLists(t, c, s, lists))
<1>1. PICK L : L = [t.lists EXCEPT ![c][s] = lists \o @]
  OBVIOUS
<1>2. L \in [Classes -> [Sides -> Seq(MethodLists)]]
  <2>1. t.lists[c][s] \in Seq(MethodLists) /\ t.lists \in [Classes -> [Sides -> Seq(MethodLists)]]
    BY Fields
  <2>2. lists \o t.lists[c][s] \in Seq(MethodLists)
    BY <2>1, ConcatProperties
  <2> QED
    BY <1>1, <2>1, <2>2
<1>3. PICK u : u = [t EXCEPT !.lists = L]
  OBVIOUS
<1>4. u \in RT /\ SameCore(t, u)
  BY <1>2, <1>3, PutMethods
<1>5. AttachLists(t, c, s, lists) = u \/ AttachLists(t, c, s, lists) = SetHasCustom(u, c, s)
  BY <1>1, <1>3 DEF AttachLists
<1>6. SetHasCustom(u, c, s) \in RT /\ SameCore(u, SetHasCustom(u, c, s))
  BY <1>4, SetHasCustomSame
<1> QED
  BY <1>4, <1>5, <1>6, SameTwice

\* What a class or category brings.
LEMMA ListOfType ==
  ASSUME NEW x \in ImageClasses \cup Categories, NEW s \in Sides
  PROVE  ListOf(x, s) \in Seq(MethodLists)
<1>1. [owner |-> x, sels |-> Defines[x][s]] \in MethodLists
  BY DEF MethodLists, Owners, Sels
<1> QED
  BY <1>1 DEF ListOf

\* attachCategories
LEMMA AttachCategoriesSame ==
  ASSUME NEW t \in RT, NEW c \in Classes, NEW s \in Sides, NEW cats \in Seq(Categories)
  PROVE  AttachCategories(t, c, s, cats) \in RT /\ SameCore(t, AttachCategories(t, c, s, cats))
<1>1. PICK q : q = [n \in DOMAIN cats |-> ListOf(Reverse(cats)[n], s)]
  OBVIOUS
<1>2. Len(cats) \in Nat /\ DOMAIN cats = 1 .. Len(cats)
  BY LenProperties
<1>3. \A n \in 1 .. Len(cats) : Reverse(cats)[n] \in Categories
  BY <1>2 DEF Reverse
<1>4. \A n \in 1 .. Len(cats) : q[n] \in Seq(MethodLists)
  BY <1>1, <1>2, <1>3, ListOfType
<1>5. q \in Seq(Seq(MethodLists))
  BY <1>1, <1>2, <1>4
<1>6. FlattenSeq(q) \in Seq(MethodLists)
  BY <1>5, FlattenMembers
<1>7. AttachCategories(t, c, s, cats) = AttachLists(t, c, s, FlattenSeq(q))
  BY <1>1 DEF AttachCategories
<1> QED
  BY <1>6, <1>7, AttachListsSame

\* remethodizeClass
LEMMA RemethodizeSame ==
  ASSUME NEW t \in RT, NEW c \in Classes, NEW s \in Sides
  PROVE  Remethodize(t, c, s) \in RT /\ SameCore(t, Remethodize(t, c, s))
<1>1. PICK L : L = [t.unattached EXCEPT ![c][s] = <<>>]
  OBVIOUS
<1>2. t.unattached \in [Classes -> [Sides -> Seq(Categories)]] /\ t.unattached[c][s] \in Seq(Categories)
  BY Fields
<1>3. L \in [Classes -> [Sides -> Seq(Categories)]]
  <2>1. <<>> \in Seq(Categories)
    OBVIOUS
  <2> QED
    BY <1>1, <1>2, <2>1
<1>4. PICK u : u = [t EXCEPT !.unattached = L]
  OBVIOUS
<1>5. u \in RT /\ SameCore(t, u)
  BY <1>3, <1>4, PutMethods
<1>6. Remethodize(t, c, s) = AttachCategories(u, c, s, t.unattached[c][s])
  BY <1>1, <1>4 DEF Remethodize
<1>7. /\ AttachCategories(u, c, s, t.unattached[c][s]) \in RT
      /\ SameCore(u, AttachCategories(u, c, s, t.unattached[c][s]))
  BY <1>2, <1>5, AttachCategoriesSame
<1> QED
  BY <1>5, <1>6, <1>7, SameTwice

\* Methods that the program adds.
LEMMA AddMethodSame ==
  ASSUME NEW t \in RT, NEW c \in Classes, NEW s \in Sides, NEW sel \in Sels
  PROVE  AddMethod(t, c, s, sel) \in RT /\ SameCore(t, AddMethod(t, c, s, sel))
<1>1. << [owner |-> "runtime", sels |-> {sel}] >> \in Seq(MethodLists)
  BY DEF MethodLists, Owners
<1> QED
  BY <1>1, AttachListsSame, Fields DEF AddMethod

\* methodizeClass
LEMMA MethodizeSame ==
  ASSUME NEW t \in RT, NEW c \in ImageClasses, NEW s \in Sides
  PROVE  Methodize(t, c, s) \in RT /\ SameCore(t, Methodize(t, c, s))
<1>1. PICK a : a = AttachLists(t, c, s, ListOf(c, s))
  OBVIOUS
<1>2. c \in Classes /\ ListOf(c, s) \in Seq(MethodLists) /\ "initialize" \in Sels
  BY ListOfType DEF Classes, Sels
<1>3. a \in RT /\ SameCore(t, a)
  BY <1>1, <1>2, AttachListsSame
<1>4. PICK b : b = IF c \in Roots /\ s = "meta" THEN AddMethod(a, c, s, "initialize") ELSE a
  OBVIOUS
<1>5. b \in RT /\ SameCore(a, b)
  BY <1>2, <1>3, <1>4, AddMethodSame, Fields
<1>6. Remethodize(b, c, s) \in RT /\ SameCore(b, Remethodize(b, c, s))
  BY <1>2, <1>5, RemethodizeSame
<1>7. Methodize(t, c, s) = Remethodize(b, c, s)
  BY <1>1, <1>4 DEF Methodize
<1> QED
  BY <1>3, <1>5, <1>6, <1>7, SameTwice

\* A category that is read.
LEMMA ReadCategorySame ==
  ASSUME NEW t \in RT, NEW k \in Categories, NEW s \in Sides
  PROVE  ReadCategory(t, k, s) \in RT /\ SameCore(t, ReadCategory(t, k, s))
<1>1. Target[k] \in Classes
  BY ClassesAssumption DEF Classes
<1>2. PICK L : L = [t.unattached EXCEPT ![Target[k]][s] = Append(@, k)]
  OBVIOUS
<1>3. L \in [Classes -> [Sides -> Seq(Categories)]]
  <2>1. /\ t.unattached \in [Classes -> [Sides -> Seq(Categories)]]
        /\ t.unattached[Target[k]][s] \in Seq(Categories)
    BY <1>1, Fields
  <2>2. Append(t.unattached[Target[k]][s], k) \in Seq(Categories)
    BY <2>1, AppendProperties
  <2> QED
    BY <1>1, <1>2, <2>1, <2>2
<1>4. PICK u : u = [t EXCEPT !.unattached = L]
  OBVIOUS
<1>5. u \in RT /\ SameCore(t, u)
  BY <1>3, <1>4, PutMethods
<1>6. ReadCategory(t, k, s) \in {t, u, Remethodize(u, Target[k], s)}
  BY <1>2, <1>4 DEF ReadCategory
<1>7. Remethodize(u, Target[k], s) \in RT /\ SameCore(u, Remethodize(u, Target[k], s))
  BY <1>1, <1>5, RemethodizeSame
<1> QED
  BY <1>5, <1>6, <1>7, SameTwice, Fields

\* ReadCategories' loop
ReadingTo(f, t, cats) ==
    f = [n \in 0 .. Len(cats) |->
           IF n = 0 THEN t
           ELSE IF Target[cats[n]] \in t.ignored THEN f[n - 1]
           ELSE ReadCategory(ReadCategory(f[n - 1], cats[n], "inst"), cats[n], "meta")]

\* What one category after the other keeps: the tables are in W[n] after n of them.
ReadingKeeps(t, cats, W) ==
    /\ t \in W[0]
    /\ \A n \in 1 .. Len(cats) : \A u \in RT : SameCore(t, u) /\ u \in W[n - 1] =>
         (IF Target[cats[n]] \in t.ignored THEN u
          ELSE ReadCategory(ReadCategory(u, cats[n], "inst"), cats[n], "meta")) \in W[n]

\* The loop keeps the tables and all that its turns keep.
LEMMA ReadCategoriesKeep ==
  ASSUME NEW t \in RT, NEW cats \in Seq(Categories), NEW W, ReadingKeeps(t, cats, W),
         NEW v, v = ReadCategories(t, cats)
  PROVE  v \in RT /\ SameCore(t, v) /\ v \in W[Len(cats)]
<1>1. PICK N \in Nat : N = Len(cats) /\ \A i \in 1 .. N : cats[i] \in Categories
  BY LenProperties
<1> DEFINE V == {u \in RT : SameCore(t, u)}
           Turn(u, n) == IF Target[cats[n]] \in t.ignored THEN u
                         ELSE ReadCategory(ReadCategory(u, cats[n], "inst"), cats[n], "meta")
           g == [p \in V \X (1 .. N) |-> Turn(p[1], p[2])]
<1>2. ASSUME NEW u \in V, NEW n \in 1 .. N
      PROVE  Turn(u, n) \in V
  <2>1. "inst" \in Sides /\ "meta" \in Sides /\ cats[n] \in Categories
    BY <1>1 DEF Sides
  <2>2. PICK w : w = ReadCategory(u, cats[n], "inst")
    OBVIOUS
  <2>3. w \in RT /\ SameCore(u, w)
    BY <2>1, <2>2, ReadCategorySame
  <2>4. ReadCategory(w, cats[n], "meta") \in RT /\ SameCore(w, ReadCategory(w, cats[n], "meta"))
    BY <2>1, <2>3, ReadCategorySame
  <2>5. Turn(u, n) = u \/ Turn(u, n) = ReadCategory(w, cats[n], "meta")
    BY <2>2
  <2> HIDE DEF Turn
  <2> QED
    BY <2>3, <2>4, <2>5, SameTwice
<1>3. g \in [V \X (1 .. N) -> V]
  <2> HIDE DEF V, Turn
  <2> QED
    BY <1>2
<1>4. t \in V
  BY Fields
<1>5. PICK f \in [0 .. N -> V] : f[0] = t /\ \A i \in 1 .. N : f[i] = g[<<f[i - 1], i>>]
  <2> HIDE DEF V, Turn, g
  <2>1. \E f : LoopIn(f, N, V, t, g)
    BY <1>3, <1>4, TypedLoop
  <2> QED
    BY <2>1 DEF LoopIn
<1>6. \A i \in 1 .. N : f[i] = Turn(f[i - 1], i)
  <2> SUFFICES ASSUME NEW i \in 1 .. N
               PROVE  f[i] = Turn(f[i - 1], i)
    OBVIOUS
  <2>1. i - 1 \in 0 .. N
    OBVIOUS
  <2>2. f[i - 1] \in V
    BY <2>1
  <2> HIDE DEF V, Turn
  <2> QED
    BY <1>5, <2>2
<1>7. \A i \in 0 .. N : f[i] = IF i = 0 THEN t ELSE Turn(f[i - 1], i)
  <2> HIDE DEF V, Turn, g
  <2> QED
    BY <1>5, <1>6
<1>8. ReadingTo(f, t, cats)
  <2>1. f = [i \in 0 .. N |-> f[i]]
    OBVIOUS
  <2>2. f = [i \in 0 .. N |-> IF i = 0 THEN t ELSE Turn(f[i - 1], i)]
    <3> HIDE DEF V, Turn, g
    <3> QED
      BY <1>7, <2>1, Zenon
  <2> QED
    BY <1>1, <2>2 DEF ReadingTo
<1>9. PICK h : h = (CHOOSE w : ReadingTo(w, t, cats)) /\ ReadingTo(h, t, cats)
  BY <1>8, Zenon
<1>10. ReadCategories(t, cats) = h[N]
  BY <1>1, <1>9, Zenon DEF ReadCategories, ReadingTo
<1>11. \A i \in 0 .. N : h[i] = IF i = 0 THEN t ELSE Turn(h[i - 1], i)
  BY <1>1, <1>9, Zenon DEF ReadingTo
<1> DEFINE R == [i \in 0 .. N |-> {u \in V : u \in W[i]}]
<1>12. \A n \in 1 .. N : \A u \in V : u \in W[n - 1] => Turn(u, n) \in W[n]
  BY <1>1 DEF ReadingKeeps
<1>13. t \in W[0]
  BY DEF ReadingKeeps
<1>14. \A i \in 0 .. N : h[i] \in R[i]
  <2>1. h[0] \in R[0]
    <3>1. 0 \in 0 .. N
      OBVIOUS
    <3>2. h[0] = t
      <4> HIDE DEF V, Turn
      <4> QED
        BY <1>11, <3>1
    <3> HIDE DEF V
    <3> QED
      BY <1>4, <1>13, <3>1, <3>2
  <2>2. ASSUME NEW i \in 1 .. N, h[i - 1] \in R[i - 1]
        PROVE  h[i] \in R[i]
    <3> HIDE DEF V, Turn
    <3>1. h[i - 1] \in V /\ h[i - 1] \in W[i - 1] /\ i \in 0 .. N /\ i # 0
      BY <2>2
    <3>2. h[i] = Turn(h[i - 1], i)
      BY <1>11, <3>1
    <3> QED
      BY <1>2, <1>12, <3>1, <3>2
  <2> HIDE DEF R
  <2> QED
    BY <2>1, <2>2, LoopKeeps
<1> QED
  BY <1>1, <1>10, <1>14

\* Reading categories changes methods and flags only.
LEMMA ReadCategoriesSame ==
  ASSUME NEW t \in RT, NEW cats \in Seq(Categories)
  PROVE  ReadCategories(t, cats) \in RT /\ SameCore(t, ReadCategories(t, cats))
<1>1. PICK W : W = [n \in 0 .. Len(cats) |-> RT]
  OBVIOUS
<1>2. ASSUME NEW n \in 1 .. Len(cats), NEW u \in RT
      PROVE  (IF Target[cats[n]] \in t.ignored THEN u
              ELSE ReadCategory(ReadCategory(u, cats[n], "inst"), cats[n], "meta")) \in W[n]
  <2>1. cats[n] \in Categories /\ n \in 0 .. Len(cats)
    BY ElementOfSeq, LenProperties
  <2>2. ReadCategory(u, cats[n], "inst") \in RT
    BY <2>1, ReadCategorySame DEF Sides
  <2>3. ReadCategory(ReadCategory(u, cats[n], "inst"), cats[n], "meta") \in RT
    BY <2>1, <2>2, ReadCategorySame DEF Sides
  <2> QED
    BY <1>1, <2>1, <2>3
<1>3. t \in W[0]
  BY <1>1, LenProperties
<1>4. ReadingKeeps(t, cats, W)
  BY <1>2, <1>3 DEF ReadingKeeps
<1> QED
  BY <1>4, ReadCategoriesKeep

-----------------------------------------------------------------------------
(* Realizing classes                                                        *)

\* A realized class is laid out behind its superclass, which is realized and knows it.
Laid(t) ==
    \A c \in t.realized : t.super[c] # NoClass =>
        /\ t.super[c] \in t.realized /\ c \in t.subclasses[t.super[c]]
        /\ t.layout[c].start >= t.layout[t.super[c]].size

\* In u there are more realized classes than in t, all of them compiled; nothing
\* else changes that matters here, and nothing of the classes that were realized.
Grown(t, u) ==
    /\ u.super = t.super /\ u.named = t.named /\ u.future = t.future
    /\ u.ignored = t.ignored /\ u.constructing = t.constructing
    /\ u.loaded = t.loaded /\ u.debugIvars = t.debugIvars
    /\ t.realized \subseteq u.realized /\ u.realized \subseteq t.realized \cup ImageClasses
    /\ \A c \in Classes : t.subclasses[c] \subseteq u.subclasses[c]
    /\ \A c \in Classes : c \in t.realized \/ c \notin u.realized => u.layout[c] = t.layout[c]

\* Grown is transitive,
LEMMA GrownTwice ==
  ASSUME NEW t, NEW u, NEW v, Grown(t, u), Grown(u, v)
  PROVE  Grown(t, v)
<1>1. /\ v.super = t.super /\ v.named = t.named /\ v.future = t.future
      /\ v.ignored = t.ignored /\ v.constructing = t.constructing
      /\ v.loaded = t.loaded /\ v.debugIvars = t.debugIvars
      /\ t.realized \subseteq v.realized /\ v.realized \subseteq t.realized \cup ImageClasses
      /\ u.realized \subseteq v.realized /\ t.realized \subseteq u.realized
  BY DEF Grown
<1>2. \A c \in Classes : t.subclasses[c] \subseteq v.subclasses[c]
  BY DEF Grown
<1>3. \A c \in Classes : c \in t.realized \/ c \notin v.realized => v.layout[c] = t.layout[c]
  BY <1>1 DEF Grown
<1> QED
  BY <1>1, <1>2, <1>3 DEF Grown

\* and methods may change meanwhile.
LEMMA SameIsGrown ==
  ASSUME NEW t, NEW u, SameCore(t, u)
  PROVE  Grown(t, u) /\ (Laid(t) => Laid(u))
  BY DEF Grown, SameCore, Laid

\* A class is one of its superclass's.
LEMMA AddSubclassLinks ==
  ASSUME NEW t \in RT, NEW c \in Classes, NEW p \in Classes
  PROVE  /\ AddSubclass(t, p, c) \in RT
         /\ SameCore([t EXCEPT !.subclasses[p] = @ \cup {c}], AddSubclass(t, p, c))
<1>1. PICK a : a = [t EXCEPT !.subclasses[p] = @ \cup {c}]
  OBVIOUS
<1>2. a \in RT
  BY <1>1 DEF RT, TableTypes
<1>3. PICK b : b = InheritCustom(a, p, c, "inst")
  OBVIOUS
<1>4. b \in RT /\ SameCore(a, b)
  BY <1>2, <1>3, InheritCustomSame DEF Sides
<1>5. PICK d : d = InheritCustom(b, p, c, "meta")
  OBVIOUS
<1>6. d \in RT /\ SameCore(b, d)
  BY <1>4, <1>5, InheritCustomSame DEF Sides
<1>7. SetRequiresRawIsa(d, {c}) \in RT /\ SameCore(d, SetRequiresRawIsa(d, {c}))
  BY <1>6, SetRequiresRawIsaSame
<1>8. AddSubclass(t, p, c) \in {d, SetRequiresRawIsa(d, {c})}
  BY <1>1, <1>3, <1>5, ClassesAssumption DEF AddSubclass
<1>9. SameCore(a, d) /\ SameCore(a, SetRequiresRawIsa(d, {c}))
  BY <1>4, <1>6, <1>7, SameTwice
<1> QED
  BY <1>1, <1>6, <1>7, <1>8, <1>9

\* What realizeClass does to the tables; l is the layout.
Realizes(t, c, p, l, u) ==
    /\ p = t.super[c] /\ u = RealizeOne(t, c) /\ u \in RT
    /\ p # NoClass => l.start >= t.layout[p].size
    /\ u.super = t.super /\ u.named = t.named /\ u.future = t.future
    /\ u.ignored = t.ignored /\ u.constructing = t.constructing
    /\ u.loaded = t.loaded /\ u.debugIvars = t.debugIvars
    /\ u.realized = t.realized \cup {c} /\ u.layout = [t.layout EXCEPT ![c] = l]
    /\ u.subclasses = IF p = NoClass THEN t.subclasses ELSE [t.subclasses EXCEPT ![p] = @ \cup {c}]

\* realizeClass, for one class whose superclass is realized
LEMMA RealizeOneIs ==
  ASSUME NEW t \in RT, NEW c \in ImageClasses
  PROVE  \E p, l, u : Realizes(t, c, p, l, u)
<1>0. PICK p : p = t.super[c]
  OBVIOUS
<1>1. c \in Classes /\ p \in Classes \cup {NoClass} /\ NoClass \notin Classes
  BY <1>0, ClassesAssumption, Fields DEF Classes
<1>2. PICK l : l = IF p = NoClass THEN t.layout[c] ELSE Reconcile(t, t.layout[c], t.layout[p].size)
  OBVIOUS
<1>3. /\ l \in Layouts /\ Sound(l) /\ CompiledLayout(l)
      /\ p # NoClass => l.start >= t.layout[p].size
  <2>1. t.layout[c] \in Layouts /\ Sound(t.layout[c]) /\ CompiledLayout(t.layout[c])
    BY <1>1, Fields
  <2>2. p # NoClass => t.layout[p].size \in Nat
    <3>1. p # NoClass => t.layout[p] \in Layouts
      BY <1>1, Fields
    <3> QED
      BY <3>1 DEF Layouts
  <2>3. CASE p = NoClass
    BY <1>2, <2>1, <2>3
  <2>4. CASE p # NoClass
    <3>1. PICK m \in Nat : m = t.layout[p].size
      BY <2>2, <2>4
    <3>2. PICK o \in Layouts : o = t.layout[c] /\ Sound(o) /\ CompiledLayout(o)
      BY <2>1
    <3>3. l = Reconcile(t, o, m)
      BY <1>2, <2>4, <3>1, <3>2
    <3> QED
      BY <3>1, <3>2, <3>3, Reconciled
  <2> QED
    BY <2>3, <2>4
<1>4. PICK a : a = [t EXCEPT !.realized = @ \cup {c}, !.layout[c] = l]
  OBVIOUS
<1>5. a \in RT
  BY <1>1, <1>3, <1>4 DEF RT, TableTypes
<1>6. PICK r : r = IF c \in OSObject THEN SetRequiresRawIsa(a, {c}) ELSE a
  OBVIOUS
<1>7. r \in RT /\ SameCore(a, r)
  BY <1>1, <1>5, <1>6, SetRequiresRawIsaSame, Fields
<1>8. PICK s : s = AddSubclass(r, p, c)
  OBVIOUS
<1>9. s \in RT /\ (p = NoClass => SameCore(r, s))
      /\ (p # NoClass => SameCore([r EXCEPT !.subclasses[p] = @ \cup {c}], s))
  <2>1. CASE p = NoClass
    <3>1. s = r
      <4>1. AddSubclass(r, NoClass, c) = r
        BY DEF AddSubclass
      <4> QED
        BY <1>8, <2>1, <4>1
    <3> QED
      BY <1>7, <2>1, <3>1, Fields
  <2>2. CASE p # NoClass
    BY <1>1, <1>7, <1>8, <2>2, AddSubclassLinks
  <2> QED
    BY <2>1, <2>2
<1>10. PICK m : m = Methodize(s, c, "meta")
  OBVIOUS
<1>11. m \in RT /\ SameCore(s, m)
  BY <1>9, <1>10, MethodizeSame DEF Sides
<1>12. PICK u : u = Methodize(m, c, "inst")
  OBVIOUS
<1>13. u \in RT /\ SameCore(m, u)
  BY <1>11, <1>12, MethodizeSame DEF Sides
<1>14. RealizeOne(t, c) = u
  <2>1. [t EXCEPT !.realized = @ \cup {c},
                  !.layout[c] = IF p = NoClass THEN @ ELSE Reconcile(t, @, t.layout[p].size)] = a
    BY <1>2, <1>4
  <2> QED
    BY <1>0, <1>6, <1>8, <1>10, <1>12, <2>1 DEF RealizeOne
<1>15. SameCore(s, u)
  BY <1>11, <1>13, SameTwice
<1>16. PICK L : L = IF p = NoClass THEN t.subclasses ELSE [t.subclasses EXCEPT ![p] = @ \cup {c}]
  OBVIOUS
<1>17. /\ u.super = t.super /\ u.named = t.named /\ u.future = t.future
       /\ u.ignored = t.ignored /\ u.constructing = t.constructing
       /\ u.loaded = t.loaded /\ u.debugIvars = t.debugIvars
       /\ u.realized = t.realized \cup {c} /\ u.layout = [t.layout EXCEPT ![c] = l]
       /\ u.subclasses = L
  <2>1. /\ a.super = t.super /\ a.named = t.named /\ a.future = t.future
        /\ a.ignored = t.ignored /\ a.constructing = t.constructing
        /\ a.loaded = t.loaded /\ a.debugIvars = t.debugIvars
        /\ a.realized = t.realized \cup {c} /\ a.layout = [t.layout EXCEPT ![c] = l]
        /\ a.subclasses = t.subclasses
    BY <1>4 DEF RT, TableTypes
  <2>2. PICK k : k = IF p = NoClass THEN r ELSE [r EXCEPT !.subclasses[p] = @ \cup {c}]
    OBVIOUS
  <2>3. SameCore(k, s)
    BY <1>9, <2>2
  <2>4. SameCore(k, u)
    BY <1>15, <2>3, SameTwice
  <2>5. /\ k.super = r.super /\ k.named = r.named /\ k.future = r.future
        /\ k.ignored = r.ignored /\ k.constructing = r.constructing
        /\ k.loaded = r.loaded /\ k.debugIvars = r.debugIvars
        /\ k.realized = r.realized /\ k.layout = r.layout
        /\ k.subclasses = IF p = NoClass THEN r.subclasses ELSE [r.subclasses EXCEPT ![p] = @ \cup {c}]
    BY <1>7, <2>2 DEF RT, TableTypes
  <2>6. /\ u.super = r.super /\ u.named = r.named /\ u.future = r.future
        /\ u.ignored = r.ignored /\ u.constructing = r.constructing
        /\ u.loaded = r.loaded /\ u.debugIvars = r.debugIvars
        /\ u.realized = r.realized /\ u.layout = r.layout /\ u.subclasses = k.subclasses
    BY <2>4, <2>5, Zenon DEF SameCore
  <2>7. /\ r.super = a.super /\ r.named = a.named /\ r.future = a.future
        /\ r.ignored = a.ignored /\ r.constructing = a.constructing
        /\ r.loaded = a.loaded /\ r.debugIvars = a.debugIvars
        /\ r.realized = a.realized /\ r.layout = a.layout /\ r.subclasses = a.subclasses
    BY <1>7, Zenon DEF SameCore
  <2> QED
    BY <1>16, <2>1, <2>5, <2>6, <2>7
<1>18. p = t.super[c] /\ u = RealizeOne(t, c) /\ u \in RT /\ (p # NoClass => l.start >= t.layout[p].size)
  BY <1>0, <1>3, <1>13, <1>14
<1>19. Realizes(t, c, p, l, u)
  BY <1>16, <1>17, <1>18 DEF Realizes
<1> QED
  BY <1>19

\* realizeClass, when the superclass is realized
LEMMA RealizeOneLays ==
  ASSUME NEW t \in RT, Laid(t), NEW c \in ImageClasses, c \notin t.realized,
         t.super[c] \in t.realized \cup {NoClass}
  PROVE  /\ RealizeOne(t, c) \in RT /\ Grown(t, RealizeOne(t, c)) /\ Laid(RealizeOne(t, c))
         /\ RealizeOne(t, c).realized = t.realized \cup {c}
<1>0. PICK p, l, u :
        /\ p = t.super[c] /\ u = RealizeOne(t, c) /\ u \in RT
        /\ p # NoClass => l.start >= t.layout[p].size
        /\ u.super = t.super /\ u.named = t.named /\ u.future = t.future
        /\ u.ignored = t.ignored /\ u.constructing = t.constructing
        /\ u.loaded = t.loaded /\ u.debugIvars = t.debugIvars
        /\ u.realized = t.realized \cup {c} /\ u.layout = [t.layout EXCEPT ![c] = l]
        /\ u.subclasses = IF p = NoClass THEN t.subclasses ELSE [t.subclasses EXCEPT ![p] = @ \cup {c}]
  BY RealizeOneIs, Zenon DEF Realizes
<1>1. c \in Classes /\ (p # NoClass => p \in t.realized)
  BY <1>0 DEF Classes
<1>2. /\ t.subclasses \in [Classes -> SUBSET Classes] /\ t.layout \in [Classes -> Layouts]
       /\ t.realized \in SUBSET Classes /\ t.super \in [Classes -> Classes \cup {NoClass}]
  BY Fields
<1>3. Grown(t, u)
  <2>1. \A d \in Classes : t.subclasses[d] \subseteq u.subclasses[d]
    BY <1>0, <1>1, <1>2
  <2>2. \A d \in Classes : d \in t.realized \/ d \notin u.realized => u.layout[d] = t.layout[d]
    BY <1>0, <1>2
  <2> QED
    BY <1>0, <2>1, <2>2 DEF Grown
<1>4. Laid(u)
  <2> SUFFICES ASSUME NEW d \in u.realized, u.super[d] # NoClass
               PROVE  /\ u.super[d] \in u.realized /\ d \in u.subclasses[u.super[d]]
                      /\ u.layout[d].start >= u.layout[u.super[d]].size
    BY DEF Laid
  <2>1. CASE d = c
    <3>1. p # NoClass /\ p \in t.realized /\ p # c /\ u.super[d] = p
      BY <1>0, <1>1, <2>1
    <3>2. u.layout[d] = l /\ u.layout[p] = t.layout[p] /\ d \in u.subclasses[p]
      BY <1>0, <1>1, <1>2, <2>1, <3>1
    <3> QED
      BY <1>0, <3>1, <3>2
  <2>2. CASE d # c
    <3>1. d \in t.realized /\ t.super[d] # NoClass /\ u.super[d] = t.super[d]
      BY <1>0, <2>2
    <3>2. /\ t.super[d] \in t.realized /\ d \in t.subclasses[t.super[d]]
          /\ t.layout[d].start >= t.layout[t.super[d]].size
      BY <3>1 DEF Laid
    <3>3. d \in Classes /\ t.super[d] \in Classes
      BY <1>2, <3>1, <3>2
    <3>4. /\ d \in u.subclasses[t.super[d]] /\ u.layout[d] = t.layout[d]
          /\ u.layout[t.super[d]] = t.layout[t.super[d]]
      BY <1>3, <3>1, <3>2, <3>3 DEF Grown
    <3> QED
      BY <1>0, <3>1, <3>2, <3>4
  <2> QED
    BY <2>1, <2>2
<1> QED
  BY <1>0, <1>3, <1>4

\* The superclass of a compiled class is the one that was bound, or it has none.
Bound(t) == \A c \in ImageClasses : t.super[c] \in {NoClass, Superclass[c]}

\* Superclasses end: a walk up from a compiled class gets somewhere.
LEMMA BoundRanks ==
  ASSUME NEW t, Bound(t), NEW X \in SUBSET Classes
  PROVE  \E b, rank : /\ Ranks(rank, b, ImageClasses \cup X \cup {NoClass}, t.super, X \cup {NoClass})
                      /\ \A c \in ImageClasses \cup X \cup {NoClass} : c \notin ImageClasses => rank[c] = 0
<1>1. PICK depth \in [ImageClasses -> 0 .. Cardinality(Classes)] :
        \A c \in ImageClasses : Superclass[c] # NoClass => depth[Superclass[c]] < depth[c]
  BY ClassesAssumption
<1>2. PICK N \in Nat : N = Cardinality(Classes)
  BY ClassesAssumption, FS_CardinalityType
<1> DEFINE D == ImageClasses \cup X \cup {NoClass}
           rank == [d \in D |-> IF d \in ImageClasses THEN depth[d] + 1 ELSE 0]
<1>3. \A d \in ImageClasses : depth[d] \in Nat /\ depth[d] <= N
  BY <1>1, <1>2
<1>4. rank \in [D -> 0 .. N + 1]
  BY <1>2, <1>3
<1>5. NoClass \notin ImageClasses /\ Superclass \in [ImageClasses -> ImageClasses \cup {NoClass}]
  BY ClassesAssumption DEF Classes
<1>6. ASSUME NEW d \in D \ (X \cup {NoClass})
      PROVE  t.super[d] \in D /\ rank[t.super[d]] < rank[d]
  <2>1. d \in ImageClasses
    OBVIOUS
  <2>2. CASE t.super[d] = NoClass
    BY <1>3, <1>5, <2>1, <2>2
  <2>3. CASE t.super[d] # NoClass
    <3>1. t.super[d] = Superclass[d] /\ Superclass[d] \in ImageClasses
      BY <1>5, <2>1, <2>3 DEF Bound
    <3> QED
      BY <1>1, <1>3, <2>1, <2>3, <3>1
  <2> QED
    BY <2>2, <2>3
<1>7. \A c \in D : c \notin ImageClasses => rank[c] = 0
  OBVIOUS
<1> HIDE DEF rank
<1>8. Ranks(rank, N + 1, D, t.super, X \cup {NoClass})
  BY <1>2, <1>4, <1>6 DEF Ranks
<1> QED
  BY <1>7, <1>8

\* Realize's recursion
RealizingTo(f, t) ==
    f = [d \in ImageClasses \cup t.realized \cup {NoClass} |->
           IF d \in t.realized \cup {NoClass} THEN t ELSE RealizeOne(f[t.super[d]], d)]

\* Realizing a class of G, the superclass of each of which is one of them, stays in W.
RealizingKeeps(t, G, W) ==
    /\ t \in W /\ G \subseteq ImageClasses /\ \A c \in G : t.super[c] \in G \cup {NoClass}
    /\ \A u \in RT : \A c \in G :
         /\ u \in W /\ Grown(t, u) /\ Laid(u) /\ c \notin u.realized
         /\ u.super[c] \in u.realized \cup {NoClass}
         => RealizeOne(u, c) \in W

\* realizeClass realizes the class and what is above it.
LEMMA RealizeKeeps ==
  ASSUME NEW t \in RT, Laid(t), Bound(t), NEW G, NEW W, RealizingKeeps(t, G, W), NEW c \in G \cup t.realized,
         NEW y, y = Realize(t, c)
  PROVE  y \in RT /\ Grown(t, y) /\ Laid(y) /\ c \in y.realized /\ y \in W
<1> DEFINE X == t.realized
           D == ImageClasses \cup X \cup {NoClass}
           stop == X \cup {NoClass}
           g == [p \in RT \X D |-> IF p[2] \in ImageClasses THEN RealizeOne(p[1], p[2]) ELSE p[1]]
<1>1. X \in SUBSET Classes
  BY Fields
<1>2. PICK b, rank : Ranks(rank, b, D, t.super, stop)
  BY <1>1, BoundRanks
<1>3. g \in [RT \X D -> RT]
  <2>1. ASSUME NEW u \in RT, NEW d \in ImageClasses
        PROVE  RealizeOne(u, d) \in RT
    <3>1. \E p, l, v : v = RealizeOne(u, d) /\ v \in RT
      BY RealizeOneIs DEF Realizes
    <3> QED
      BY <3>1
  <2> HIDE DEF D
  <2> QED
    BY <2>1
<1>4. PICK f \in [D -> RT] : \A d \in D : f[d] = IF d \in stop THEN t ELSE g[<<f[t.super[d]], d>>]
  <2> HIDE DEF D, g, stop
  <2>1. \E f : ClimbIn(f, D, t.super, stop, RT, t, g)
    BY <1>2, <1>3, TypedClimb
  <2> QED
    BY <2>1 DEF ClimbIn
<1>5. \A d \in D \ stop : d \in ImageClasses /\ t.super[d] \in D
  BY <1>2 DEF Ranks
<1>6. ASSUME NEW d \in D
      PROVE  f[d] = IF d \in stop THEN t ELSE RealizeOne(f[t.super[d]], d)
  <2>1. CASE d \in stop
    BY <1>4, <2>1
  <2>2. CASE d \notin stop
    <3>1. f[t.super[d]] \in RT /\ d \in ImageClasses
      BY <1>5, <2>2
    <3> HIDE DEF D, stop
    <3>2. f[d] = g[<<f[t.super[d]], d>>]
      BY <1>4, <2>2
    <3> QED
      BY <2>2, <3>1, <3>2
  <2> QED
    BY <2>1, <2>2
<1>7. RealizingTo(f, t)
  <2>1. f = [d \in D |-> f[d]]
    OBVIOUS
  <2>2. f = [d \in D |-> IF d \in stop THEN t ELSE RealizeOne(f[t.super[d]], d)]
    <3> HIDE DEF D, stop, g
    <3> QED
      BY <1>6, <2>1, Zenon
  <2> QED
    BY <2>2 DEF RealizingTo
<1>8. PICK h : h = (CHOOSE w : RealizingTo(w, t)) /\ RealizingTo(h, t)
  BY <1>7, Zenon
<1>9. Realize(t, c) = h[c]
  BY <1>8, Zenon DEF Realize, RealizingTo
<1>10. \A d \in D : h[d] = IF d \in stop THEN t ELSE RealizeOne(h[t.super[d]], d)
  BY <1>8, Zenon DEF RealizingTo
<1> DEFINE R == [d \in D |-> {u \in RT : /\ Grown(t, u) /\ Laid(u) /\ d \in u.realized \cup {NoClass}
                                         /\ \A e \in u.realized \ t.realized : rank[e] <= rank[d]
                                         /\ (d \in G \cup stop => u \in W)}]
<1>11. \A d \in D \cap stop : h[d] \in R[d]
  <2> SUFFICES ASSUME NEW d \in D \cap stop
               PROVE  h[d] \in R[d]
    OBVIOUS
  <2>1. h[d] = t
    <3> HIDE DEF D, stop
    <3> QED
      BY <1>10
  <2>2. Grown(t, t) /\ d \in t.realized \cup {NoClass} /\ t \in W
    BY Fields, SameIsGrown DEF RealizingKeeps
  <2> QED
    BY <2>1, <2>2
<1>12. ASSUME NEW d \in D \ stop, h[t.super[d]] \in R[t.super[d]]
       PROVE  h[d] \in R[d]
  <2>1. PICK p : p = t.super[d]
    OBVIOUS
  <2>2. d \in ImageClasses /\ d \notin t.realized /\ p \in D
    BY <1>5, <2>1
  <2>3. b \in Nat /\ rank \in [D -> 0 .. b] /\ rank[p] < rank[d]
    BY <1>2, <2>1 DEF Ranks
  <2>4. PICK u : u = h[p]
    OBVIOUS
  <2>5. /\ u \in RT /\ Grown(t, u) /\ Laid(u) /\ p \in u.realized \cup {NoClass}
        /\ \A e \in u.realized \ t.realized : rank[e] <= rank[p]
        /\ p \in G \cup stop => u \in W
    BY <1>12, <2>1, <2>2, <2>4
  <2>6. d \notin u.realized
    BY <2>2, <2>3, <2>5
  <2>7. u.super[d] = p
    BY <2>1, <2>5 DEF Grown
  <2>8. PICK v : v = RealizeOne(u, d)
    OBVIOUS
  <2>9. v \in RT /\ Grown(u, v) /\ Laid(v) /\ v.realized = u.realized \cup {d}
    BY <2>2, <2>5, <2>6, <2>7, <2>8, RealizeOneLays
  <2>10. Grown(t, v)
    BY <2>5, <2>9, GrownTwice
  <2>11. h[d] = v
    <3> HIDE DEF D, stop
    <3> QED
      BY <1>10, <2>1, <2>4, <2>8
  <2>12. \A e \in v.realized \ t.realized : rank[e] <= rank[d]
    <3> SUFFICES ASSUME NEW e \in v.realized \ t.realized
                 PROVE  rank[e] <= rank[d]
      OBVIOUS
    <3>1. e \in D /\ d \in D
      BY <2>10 DEF Grown
    <3>2. rank[e] \in Nat /\ rank[d] \in Nat /\ rank[p] \in Nat
      BY <2>2, <2>3, <3>1
    <3>3. e = d \/ rank[e] <= rank[p]
      BY <2>5, <2>9
    <3> QED
      BY <2>3, <3>2, <3>3
  <2>13. d \in G \cup stop => v \in W
    <3> SUFFICES ASSUME d \in G \cup stop
                 PROVE  v \in W
      OBVIOUS
    <3>1. d \in G /\ p \in G \cup stop
      BY <1>12, <2>1 DEF RealizingKeeps
    <3>2. u \in W /\ u.super[d] \in u.realized \cup {NoClass}
      BY <2>5, <2>7, <3>1
    <3> QED
      BY <2>5, <2>6, <2>8, <3>1, <3>2 DEF RealizingKeeps
  <2> QED
    BY <2>9, <2>10, <2>11, <2>12, <2>13
<1>13. \A d \in D : h[d] \in R[d]
  <2> HIDE DEF D, stop, R
  <2> QED
    BY <1>2, <1>11, <1>12, ClimbKeeps
<1>14. c \in D /\ c # NoClass /\ c \in G \cup stop
  BY <1>1, ClassesAssumption DEF Classes, RealizingKeeps
<1> QED
  BY <1>9, <1>13, <1>14

\* The tables stay tables.
LEMMA RealizingAnyKeeps ==
  ASSUME NEW t \in RT, Bound(t)
  PROVE  RealizingKeeps(t, ImageClasses, RT)
<1>1. \A d \in ImageClasses : t.super[d] \in ImageClasses \cup {NoClass}
  BY ClassesAssumption DEF Bound
<1>2. \A u \in RT : \A d \in ImageClasses :
        Laid(u) /\ d \notin u.realized /\ u.super[d] \in u.realized \cup {NoClass} => RealizeOne(u, d) \in RT
  BY RealizeOneLays
<1> QED
  BY <1>1, <1>2 DEF RealizingKeeps

\* realizeClass realizes the class and what is above it.
LEMMA RealizeLays ==
  ASSUME NEW t \in RT, Laid(t), Bound(t), NEW c \in ImageClasses \cup t.realized
  PROVE  /\ Realize(t, c) \in RT /\ Grown(t, Realize(t, c)) /\ Laid(Realize(t, c))
         /\ c \in Realize(t, c).realized
<1>1. RealizingKeeps(t, ImageClasses, RT)
  BY RealizingAnyKeeps
<1> QED
  BY <1>1, RealizeKeeps

\* RealizeAll's loop
RealizingAllTo(f, t, classes, set) ==
    f = [n \in 0 .. Len(classes) |->
           IF n = 0 THEN t
           ELSE IF classes[n] \in set THEN Realize(f[n - 1], classes[n]) ELSE f[n - 1]]

\* A loop realizes some of the classes of a list; see RealizeKeeps.
LEMMA RealizeAllKeep ==
  ASSUME NEW t \in RT, Laid(t), Bound(t), NEW G, NEW W, RealizingKeeps(t, G, W),
         NEW E, NEW classes \in Seq(E), NEW set, E \cap set \subseteq G \cup t.realized,
         NEW y, y = RealizeAll(t, classes, set)
  PROVE  y \in RT /\ Grown(t, y) /\ Laid(y) /\ y \in W
<1>1. PICK N \in Nat : N = Len(classes) /\ \A i \in 1 .. N : classes[i] \in E
  BY LenProperties
<1> DEFINE V == {u \in RT : Grown(t, u) /\ Laid(u) /\ u \in W}
           Turn(u, n) == IF classes[n] \in set THEN Realize(u, classes[n]) ELSE u
           g == [p \in V \X (1 .. N) |-> Turn(p[1], p[2])]
<1>2. ASSUME NEW u \in V, NEW n \in 1 .. N
      PROVE  Turn(u, n) \in V
  <2>1. CASE classes[n] \in set
    <3>1. PICK c : c = classes[n]
      OBVIOUS
    <3>2. Bound(u) /\ c \in G \cup u.realized
      BY <1>1, <2>1, <3>1 DEF Bound, Grown
    <3>3. PICK v : v = Realize(u, c)
      OBVIOUS
    <3>4. v \in RT /\ Grown(u, v) /\ Laid(v) /\ v \in W
      <4>1. RealizingKeeps(u, G, W)
        <5>1. u \in W /\ G \subseteq ImageClasses /\ \A d \in G : u.super[d] \in G \cup {NoClass}
          BY DEF RealizingKeeps, Grown
        <5>2. ASSUME NEW x \in RT, NEW d \in G, x \in W, Grown(u, x), Laid(x), d \notin x.realized,
                     x.super[d] \in x.realized \cup {NoClass}
              PROVE  RealizeOne(x, d) \in W
          <6>1. Grown(t, x)
            BY <5>2, GrownTwice
          <6> QED
            BY <5>2, <6>1 DEF RealizingKeeps
        <5> QED
          BY <5>1, <5>2 DEF RealizingKeeps
      <4> QED
        BY <3>2, <3>3, <4>1, RealizeKeeps
    <3>5. Grown(t, v)
      BY <3>4, GrownTwice
    <3> QED
      BY <2>1, <3>1, <3>3, <3>4, <3>5
  <2>2. CASE classes[n] \notin set
    BY <2>2
  <2> QED
    BY <2>1, <2>2
<1>3. g \in [V \X (1 .. N) -> V]
  <2> HIDE DEF V, Turn
  <2> QED
    BY <1>2
<1>4. t \in V
  BY Fields, SameIsGrown DEF RealizingKeeps
<1>5. PICK f \in [0 .. N -> V] : f[0] = t /\ \A i \in 1 .. N : f[i] = g[<<f[i - 1], i>>]
  <2> HIDE DEF V, Turn, g
  <2>1. \E f : LoopIn(f, N, V, t, g)
    BY <1>3, <1>4, TypedLoop
  <2> QED
    BY <2>1 DEF LoopIn
<1>6. \A i \in 1 .. N : f[i] = Turn(f[i - 1], i)
  <2> SUFFICES ASSUME NEW i \in 1 .. N
               PROVE  f[i] = Turn(f[i - 1], i)
    OBVIOUS
  <2>1. i - 1 \in 0 .. N
    OBVIOUS
  <2>2. f[i - 1] \in V
    BY <2>1
  <2> HIDE DEF V, Turn
  <2> QED
    BY <1>5, <2>2
<1>7. \A i \in 0 .. N : f[i] = IF i = 0 THEN t ELSE Turn(f[i - 1], i)
  <2> HIDE DEF V, Turn, g
  <2> QED
    BY <1>5, <1>6
<1>8. RealizingAllTo(f, t, classes, set)
  <2>1. f = [i \in 0 .. N |-> f[i]]
    OBVIOUS
  <2>2. f = [i \in 0 .. N |-> IF i = 0 THEN t ELSE Turn(f[i - 1], i)]
    <3> HIDE DEF V, Turn, g
    <3> QED
      BY <1>7, <2>1, Zenon
  <2> QED
    BY <1>1, <2>2 DEF RealizingAllTo
<1>9. PICK h : h = (CHOOSE w : RealizingAllTo(w, t, classes, set)) /\ RealizingAllTo(h, t, classes, set)
  BY <1>8, Zenon
<1>10. RealizeAll(t, classes, set) = h[N]
  BY <1>1, <1>9, Zenon DEF RealizeAll, RealizingAllTo
<1>11. \A i \in 0 .. N : h[i] = IF i = 0 THEN t ELSE Turn(h[i - 1], i)
  BY <1>1, <1>9, Zenon DEF RealizingAllTo
<1> DEFINE R == [i \in 0 .. N |-> V]
<1>12. \A i \in 0 .. N : h[i] \in R[i]
  <2>1. h[0] \in R[0]
    <3>1. 0 \in 0 .. N
      OBVIOUS
    <3>2. h[0] = t
      <4> HIDE DEF V, Turn
      <4> QED
        BY <1>11, <3>1
    <3> HIDE DEF V
    <3> QED
      BY <1>4, <3>1, <3>2
  <2>2. ASSUME NEW i \in 1 .. N, h[i - 1] \in R[i - 1]
        PROVE  h[i] \in R[i]
    <3> HIDE DEF V, Turn
    <3>1. h[i - 1] \in V /\ i \in 0 .. N /\ i # 0
      BY <2>2
    <3>2. h[i] = Turn(h[i - 1], i)
      BY <1>11, <3>1
    <3> QED
      BY <1>2, <3>1, <3>2
  <2> HIDE DEF R
  <2> QED
    BY <2>1, <2>2, LoopKeeps
<1> QED
  BY <1>1, <1>10, <1>12

\* See RealizeAllKeep.
LEMMA RealizeAllLays ==
  ASSUME NEW t \in RT, Laid(t), Bound(t), NEW E, NEW classes \in Seq(E), NEW set,
         E \cap set \subseteq ImageClasses \cup t.realized
  PROVE  /\ RealizeAll(t, classes, set) \in RT /\ Grown(t, RealizeAll(t, classes, set))
         /\ Laid(RealizeAll(t, classes, set))
<1>1. RealizingKeeps(t, ImageClasses, RT)
  BY RealizingAnyKeeps
<1> QED
  BY <1>1, RealizeAllKeep

\* A finite set's elements, in some order
LEMMA InSomeOrder ==
  ASSUME NEW S, IsFiniteSet(S)
  PROVE  SetToSeq(S) \in Seq(S)
<1>1. Cardinality(S) \in Nat
  BY FS_CardinalityType
<1>2. PICK f : f \in Bijection(1 .. Cardinality(S), S)
  BY FS_CardinalityType DEF ExistsBijection
<1>3. f \in [1 .. Cardinality(S) -> S] /\ IsInjective(f)
  BY <1>2 DEF Bijection, Injection, IsInjective
<1>4. SetToSeq(S) \in [1 .. Cardinality(S) -> S]
  BY <1>3 DEF SetToSeq
<1> QED
  BY <1>1, <1>4

-----------------------------------------------------------------------------
(* The tables, whatever is done to them                                     *)

\* Every class has a root, or a superclass that is missing.
Ends(t) == \E b, rank : Ranks(rank, b, Classes \cup {NoClass}, t.super, {NoClass})

\* An ignored class has lost its superclass. A class that the program makes is realized
\* until it is disposed of; nothing inherits from it while it is under construction.
Tidy(t) ==
    /\ t.ignored \subseteq ImageClasses /\ t.future \subseteq ImageClasses
    /\ \A c \in t.ignored : t.super[c] = NoClass
    /\ \A c \in RuntimeClasses \ t.realized : t.super[c] = NoClass /\ c \notin t.named
    /\ t.constructing \subseteq t.realized \cap RuntimeClasses
    /\ \A c \in t.realized : t.super[c] \notin t.constructing

TablesSound(t) == t \in RT /\ Laid(t) /\ Bound(t) /\ Ends(t) /\ Tidy(t)

\* Classes lose superclasses only.
LEMMA EndsStill ==
  ASSUME NEW t, Ends(t), NEW u, \A c \in Classes : u.super[c] \in {t.super[c], NoClass}
  PROVE  Ends(u)
<1>1. PICK b, rank : Ranks(rank, b, Classes \cup {NoClass}, t.super, {NoClass})
  BY DEF Ends
<1> DEFINE D == Classes \cup {NoClass}
<1>2. b \in Nat /\ rank \in [D -> 0 .. b]
  BY <1>1 DEF Ranks
<1> DEFINE r == [d \in D |-> IF d = NoClass THEN 0 ELSE rank[d] + 1]
<1>3. \A d \in D : rank[d] \in Nat /\ rank[d] <= b
  BY <1>2
<1>4. r \in [D -> 0 .. b + 1]
  BY <1>2, <1>3
<1>5. ASSUME NEW d \in D \ {NoClass}
      PROVE  u.super[d] \in D /\ r[u.super[d]] < r[d]
  <2>1. t.super[d] \in D /\ rank[t.super[d]] < rank[d]
    BY <1>1 DEF Ranks
  <2>2. u.super[d] = t.super[d] \/ u.super[d] = NoClass
    OBVIOUS
  <2>3. rank[d] \in Nat /\ rank[t.super[d]] \in Nat
    BY <1>3, <2>1
  <2> QED
    BY <2>1, <2>2, <2>3
<1> HIDE DEF r
<1>6. Ranks(r, b + 1, D, u.super, {NoClass})
  BY <1>2, <1>4, <1>5 DEF Ranks
<1> QED
  BY <1>6 DEF Ends

\* Superclasses of compiled classes are compiled.
LEMMA BoundIs ==
  ASSUME NEW t, Bound(t), NEW c \in ImageClasses
  PROVE  /\ t.super[c] \in ImageClasses \cup {NoClass} /\ NoClass \notin Classes
         /\ c \in Classes /\ c \notin RuntimeClasses
         /\ t.super[c] # NoClass => t.super[c] = Superclass[c] /\ t.super[c] \notin RuntimeClasses
  BY ClassesAssumption DEF Bound, Classes

\* Sound tables that grow stay sound,
LEMMA GrownSound ==
  ASSUME NEW t, TablesSound(t), NEW u \in RT, Grown(t, u), Laid(u)
  PROVE  TablesSound(u)
<1>1. /\ u.super = t.super /\ u.named = t.named /\ u.future = t.future
      /\ u.ignored = t.ignored /\ u.constructing = t.constructing
      /\ t.realized \subseteq u.realized /\ u.realized \subseteq t.realized \cup ImageClasses
  BY DEF Grown
<1>2. Bound(u) /\ Ends(u)
  BY <1>1 DEF TablesSound, Bound, Ends
<1>3. Tidy(u)
  <2>1. Tidy(t) /\ Bound(t)
    BY DEF TablesSound
  <2>2. \A c \in u.realized : u.super[c] \notin u.constructing
    <3> SUFFICES ASSUME NEW c \in u.realized
                 PROVE  u.super[c] \notin u.constructing
      OBVIOUS
    <3>1. CASE c \in t.realized
      BY <1>1, <2>1, <3>1 DEF Tidy
    <3>2. CASE c \in ImageClasses
      <4>1. t.super[c] \in ImageClasses \cup {NoClass} /\ NoClass \notin Classes
            /\ (t.super[c] # NoClass => t.super[c] \notin RuntimeClasses)
        BY <2>1, <3>2, BoundIs
      <4>2. t.constructing \subseteq RuntimeClasses /\ NoClass \notin RuntimeClasses
        BY <2>1, <4>1 DEF Tidy, Classes
      <4> QED
        BY <1>1, <4>1, <4>2
    <3> QED
      BY <1>1, <3>1, <3>2
  <2> QED
    BY <1>1, <2>1, <2>2 DEF Tidy
<1> QED
  BY <1>2, <1>3 DEF TablesSound

\* and so do those whose methods change.
LEMMA SameSound ==
  ASSUME NEW t, TablesSound(t), NEW u \in RT, SameCore(t, u)
  PROVE  TablesSound(u)
  BY GrownSound, SameIsGrown DEF TablesSound

\* readClass, for a list of classes
LEMMA ReadClassesSound ==
  ASSUME NEW t, TablesSound(t), NEW cs \in SUBSET ImageClasses, NEW u, u = ReadClasses(t, cs)
  PROVE  /\ TablesSound(u)
         /\ u.loaded = t.loaded /\ u.future = t.future /\ u.debugIvars = t.debugIvars
         /\ u.ignored = t.ignored \cup {c \in cs : MissingWeakSuperclass(t, c)}
         /\ \A c \in Classes : u.super[c] = IF c \in cs /\ MissingWeakSuperclass(t, c) THEN NoClass ELSE t.super[c]
<1>1. PICK missing : missing = {c \in cs : MissingWeakSuperclass(t, c)}
  OBVIOUS
<1>2. t \in RT /\ missing \in SUBSET ImageClasses /\ ImageClasses \subseteq Classes
  BY <1>1 DEF TablesSound, Classes
<1>3. PICK p : p = [c \in Classes |-> IF c \in missing THEN NoClass ELSE t.super[c]]
  OBVIOUS
<1>4. u = [t EXCEPT !.ignored = @ \cup missing, !.super = p, !.named = @ \cup (cs \ missing)]
  BY <1>1, <1>3 DEF ReadClasses
<1>5. p \in [Classes -> Classes \cup {NoClass}]
  BY <1>2, <1>3, Fields
<1>6. u \in RT
  <2>1. PICK I, N : I = t.ignored \cup missing /\ N = t.named \cup (cs \ missing)
    OBVIOUS
  <2>2. I \in SUBSET Classes /\ N \in SUBSET Classes
    BY <1>2, <2>1, Fields
  <2>3. u = [t EXCEPT !.ignored = I, !.super = p, !.named = N]
    BY <1>4, <2>1
  <2> QED
    BY <1>2, <1>5, <2>2, <2>3 DEF RT, TableTypes
<1>7. /\ u.super = p /\ u.named = t.named \cup (cs \ missing) /\ u.ignored = t.ignored \cup missing
      /\ u.future = t.future /\ u.realized = t.realized /\ u.constructing = t.constructing
      /\ u.loaded = t.loaded /\ u.subclasses = t.subclasses
      /\ u.debugIvars = t.debugIvars /\ u.layout = t.layout
  BY <1>2, <1>4 DEF RT, TableTypes
<1>8. \A c \in Classes : u.super[c] = IF c \in missing THEN NoClass ELSE t.super[c]
  BY <1>3, <1>7
<1>9. t.realized \subseteq Classes
  BY <1>2, Fields
<1>10. Laid(u)
  BY <1>7, <1>8, <1>9 DEF Laid, TablesSound
<1>11. Bound(u)
  BY <1>2, <1>8 DEF Bound, TablesSound
<1>12. Ends(u)
  <2>1. Ends(t) /\ \A c \in Classes : u.super[c] \in {t.super[c], NoClass}
    BY <1>8 DEF TablesSound
  <2> QED
    BY <2>1, EndsStill
<1>13. Tidy(u)
  <2>1. Tidy(t)
    BY DEF TablesSound
  <2>2. u.ignored \subseteq ImageClasses /\ u.future \subseteq ImageClasses
        /\ u.constructing \subseteq u.realized \cap RuntimeClasses
    BY <1>2, <1>7, <2>1 DEF Tidy
  <2>3. \A c \in u.ignored : u.super[c] = NoClass
    BY <1>2, <1>7, <1>8, <2>1 DEF Tidy
  <2>4. \A c \in RuntimeClasses \ u.realized : u.super[c] = NoClass /\ c \notin u.named
    <3>1. \A c \in RuntimeClasses : c \in Classes /\ c \notin ImageClasses
      BY ClassesAssumption DEF Classes
    <3> QED
      BY <1>2, <1>7, <1>8, <2>1, <3>1 DEF Tidy
  <2>5. \A c \in u.realized : u.super[c] \notin u.constructing
    <3>1. NoClass \notin u.constructing
      BY <2>2, ClassesAssumption DEF Classes
    <3> QED
      BY <1>7, <1>8, <1>9, <2>1, <3>1 DEF Tidy
  <2> QED
    BY <2>2, <2>3, <2>4, <2>5 DEF Tidy
<1> QED
  BY <1>1, <1>6, <1>7, <1>8, <1>10, <1>11, <1>12, <1>13 DEF TablesSound

\* _read_images
LEMMA ReadImagesSound ==
  ASSUME NEW t, TablesSound(t), NEW classes \in Seq(ImageClasses), NEW cats \in Seq(Categories),
         NEW u, u = ReadImages(t, classes, cats)
  PROVE  /\ TablesSound(u) /\ u.loaded = t.loaded
         /\ u.ignored = t.ignored \cup {c \in ToSet(classes) : MissingWeakSuperclass(t, c)}
         /\ \A c \in Classes : u.super[c] = IF c \in ToSet(classes) /\ MissingWeakSuperclass(t, c)
                                            THEN NoClass ELSE t.super[c]
<1>1. PICK read : read = ReadClasses(t, ToSet(classes))
  OBVIOUS
<1>2. ToSet(classes) \in SUBSET ImageClasses
  BY SeqMembers
<1>3. /\ TablesSound(read) /\ read.loaded = t.loaded
      /\ read.ignored = t.ignored \cup {c \in ToSet(classes) : MissingWeakSuperclass(t, c)}
      /\ \A c \in Classes : read.super[c] = IF c \in ToSet(classes) /\ MissingWeakSuperclass(t, c)
                                            THEN NoClass ELSE t.super[c]
  BY <1>1, <1>2, ReadClassesSound
<1> DEFINE Fine(v) == TablesSound(v) /\ v.loaded = read.loaded /\ v.ignored = read.ignored /\ v.super = read.super
<1>4. ASSUME NEW v, Fine(v), NEW E \in SUBSET Classes, NEW list \in Seq(E), NEW set,
             E \cap set \subseteq ImageClasses \cup v.realized
      PROVE  Fine(RealizeAll(v, list, set))
  <2>1. PICK w : w = RealizeAll(v, list, set)
    OBVIOUS
  <2>2. v \in RT /\ Laid(v) /\ Bound(v)
    BY <1>4 DEF TablesSound
  <2>3. w \in RT /\ Grown(v, w) /\ Laid(w)
    BY <1>4, <2>1, <2>2, RealizeAllLays
  <2>4. TablesSound(w)
    BY <1>4, <2>3, GrownSound
  <2>5. w.loaded = v.loaded /\ w.ignored = v.ignored /\ w.super = v.super
    BY <2>3 DEF Grown
  <2> QED
    BY <1>4, <2>1, <2>4, <2>5
<1>5. ASSUME NEW v, Fine(v), NEW w, w \in RT /\ SameCore(v, w)
      PROVE  Fine(w)
  <2>1. TablesSound(w)
    BY <1>5, SameSound
  <2>2. w.loaded = v.loaded /\ w.ignored = v.ignored /\ w.super = v.super
    BY <1>5, Zenon DEF SameCore
  <2> QED
    BY <1>5, <2>1, <2>2
<1>6. ImageClasses \in SUBSET Classes
  BY DEF Classes
<1>7. PICK futures : futures = (t.future \cap ToSet(classes)) \ read.ignored
  OBVIOUS
<1>8. PICK eager : eager = RealizeAll(read, classes, HasLoad \ read.ignored)
  OBVIOUS
<1>9. Fine(eager)
  <2>1. Fine(read)
    BY <1>3
  <2>2. ImageClasses \cap (HasLoad \ read.ignored) \subseteq ImageClasses \cup read.realized
    OBVIOUS
  <2> HIDE DEF Fine
  <2> QED
    BY <1>4, <1>6, <1>8, <2>1, <2>2
<1>10. PICK made : made = RealizeAll(eager, classes, futures)
  OBVIOUS
<1>11. Fine(made)
  <2>1. ImageClasses \cap futures \subseteq ImageClasses \cup eager.realized
    OBVIOUS
  <2> HIDE DEF Fine
  <2> QED
    BY <1>4, <1>6, <1>9, <1>10, <2>1
<1>12. PICK resolved : resolved = SetRequiresRawIsa(made, futures)
  OBVIOUS
<1>13. Fine(resolved)
  <2>1. futures \in SUBSET Classes /\ made \in RT
    BY <1>2, <1>6, <1>7, <1>11 DEF TablesSound
  <2>2. resolved \in RT /\ SameCore(made, resolved)
    BY <1>12, <2>1, SetRequiresRawIsaSame
  <2> HIDE DEF Fine
  <2> QED
    BY <1>5, <1>11, <2>2
<1>14. PICK past : past = [resolved EXCEPT !.future = @ \ futures]
  OBVIOUS
<1>15. Fine(past)
  <2>1. resolved \in RT /\ Laid(resolved) /\ Bound(resolved) /\ Ends(resolved) /\ Tidy(resolved)
    BY <1>13 DEF TablesSound
  <2>2. past \in RT
    BY <1>14, <2>1 DEF RT, TableTypes
  <2>3. /\ past.super = resolved.super /\ past.named = resolved.named
        /\ past.future = resolved.future \ futures
        /\ past.ignored = resolved.ignored /\ past.realized = resolved.realized
        /\ past.constructing = resolved.constructing /\ past.loaded = resolved.loaded
        /\ past.subclasses = resolved.subclasses /\ past.layout = resolved.layout
    BY <1>14, <2>1 DEF RT, TableTypes
  <2>4. Laid(past) /\ Bound(past) /\ Ends(past) /\ Tidy(past)
    <3>1. Laid(past)
      BY <2>1, <2>3 DEF Laid
    <3>2. Bound(past) /\ Ends(past)
      BY <2>1, <2>3 DEF Bound, Ends
    <3>3. Tidy(past)
      BY <2>1, <2>3 DEF Tidy
    <3> QED
      BY <3>1, <3>2, <3>3
  <2> QED
    BY <1>13, <2>2, <2>3, <2>4 DEF TablesSound
<1>16. PICK attached : attached = ReadCategories(past, cats)
  OBVIOUS
<1>17. Fine(attached)
  <2>1. past \in RT
    BY <1>15 DEF TablesSound
  <2>2. attached \in RT /\ SameCore(past, attached)
    BY <1>16, <2>1, ReadCategoriesSame
  <2> HIDE DEF Fine
  <2> QED
    BY <1>5, <1>15, <2>2
<1>18. Fine(RealizeAll(attached, SetToSeq(attached.named), attached.named))
  <2>1. attached \in RT /\ Tidy(attached)
    BY <1>17 DEF TablesSound
  <2>2. attached.named \in SUBSET Classes
    BY <2>1, Fields
  <2>3. IsFiniteSet(attached.named)
    BY <2>2, ClassesAssumption, FS_Subset
  <2>4. SetToSeq(attached.named) \in Seq(attached.named)
    BY <2>3, InSomeOrder
  <2>5. attached.named \cap attached.named \subseteq ImageClasses \cup attached.realized
    BY <2>1, <2>2 DEF Tidy, Classes
  <2> HIDE DEF Fine
  <2> QED
    BY <1>4, <1>17, <2>2, <2>4, <2>5
<1>19. u \in {attached, RealizeAll(attached, SetToSeq(attached.named), attached.named)}
  BY <1>1, <1>7, <1>8, <1>10, <1>12, <1>14, <1>16 DEF ReadImages
<1>20. Fine(u)
  <2> HIDE DEF Fine
  <2> QED
    BY <1>17, <1>18, <1>19
<1> QED
  BY <1>3, <1>20

\* Waiting categories that are taken off
LEMMA RemoveUnattachedSame ==
  ASSUME NEW t \in RT, NEW cats
  PROVE  RemoveUnattached(t, cats) \in RT /\ SameCore(t, RemoveUnattached(t, cats))
<1>1. PICK L : L = [c \in Classes |-> IF c \in t.ignored THEN t.unattached[c]
                                      ELSE [s \in Sides |-> IF s = "meta" THEN t.unattached[c][s]
                                               ELSE Only(t.unattached[c][s], Categories \ cats)]]
  OBVIOUS
<1>2. ASSUME NEW c \in Classes, NEW s \in Sides
      PROVE  Only(t.unattached[c][s], Categories \ cats) \in Seq(Categories)
  <2>1. t.unattached[c][s] \in Seq(Categories)
    BY Fields
  <2> QED
    BY <2>1, OnlyMembers
<1>3. t.unattached \in [Classes -> [Sides -> Seq(Categories)]]
  BY Fields
<1>4. \A c \in Classes : L[c] \in [Sides -> Seq(Categories)]
  <2> SUFFICES ASSUME NEW c \in Classes
               PROVE  L[c] \in [Sides -> Seq(Categories)]
    OBVIOUS
  <2>1. CASE c \in t.ignored
    BY <1>1, <1>3, <2>1
  <2>2. CASE c \notin t.ignored
    <3>1. L[c] = [s \in Sides |-> IF s = "meta" THEN t.unattached[c][s]
                                  ELSE Only(t.unattached[c][s], Categories \ cats)]
      BY <1>1, <2>2
    <3>2. \A s \in Sides : t.unattached[c][s] \in Seq(Categories)
      BY <1>3
    <3> QED
      BY <1>2, <3>1, <3>2
  <2> QED
    BY <2>1, <2>2
<1>5. L \in [Classes -> [Sides -> Seq(Categories)]]
  BY <1>1, <1>4
<1>6. RemoveUnattached(t, cats) = [t EXCEPT !.unattached = L]
  BY <1>1 DEF RemoveUnattached
<1> QED
  BY <1>5, <1>6, PutMethods

\* detach_class and free_class
LEMMA FreeIs ==
  ASSUME NEW t \in RT, NEW cs \in SUBSET Classes, NEW u, u = Free(t, cs)
  PROVE  /\ u \in RT /\ u.super = t.super /\ u.layout = t.layout /\ u.ignored = t.ignored
         /\ u.future = t.future /\ u.debugIvars = t.debugIvars
         /\ u.named = t.named \ cs /\ u.realized = t.realized \ cs
         /\ u.constructing = t.constructing \ cs /\ u.loaded = t.loaded \ cs
         /\ \A c \in Classes : u.subclasses[c] = t.subclasses[c] \ cs
<1>1. PICK S : S = [c \in Classes |-> t.subclasses[c] \ cs]
  OBVIOUS
<1>2. PICK L : L = [c \in Classes |-> IF c \in cs THEN NoLists[c] ELSE t.lists[c]]
  OBVIOUS
<1>3. PICK W : W = [c \in Classes |-> IF c \in cs THEN NoLists[c] ELSE t.unattached[c]]
  OBVIOUS
<1>4. PICK D : D = [s \in Sides |-> t.default[s] \ cs]
  OBVIOUS
<1>5. /\ t.subclasses \in [Classes -> SUBSET Classes]
      /\ t.lists \in [Classes -> [Sides -> Seq(MethodLists)]]
      /\ t.unattached \in [Classes -> [Sides -> Seq(Categories)]]
      /\ t.default \in [Sides -> SUBSET Classes]
  BY Fields
<1>6. S \in [Classes -> SUBSET Classes] /\ D \in [Sides -> SUBSET Classes]
  BY <1>1, <1>4, <1>5
<1>7. /\ NoLists \in [Classes -> [Sides -> Seq(MethodLists)]]
      /\ NoLists \in [Classes -> [Sides -> Seq(Categories)]]
  <2>1. <<>> \in Seq(MethodLists) /\ <<>> \in Seq(Categories)
    OBVIOUS
  <2> QED
    BY <2>1 DEF NoLists
<1>8. L \in [Classes -> [Sides -> Seq(MethodLists)]] /\ W \in [Classes -> [Sides -> Seq(Categories)]]
  BY <1>2, <1>3, <1>5, <1>7
<1>9. u = [t EXCEPT !.subclasses = S, !.named = @ \ cs, !.realized = @ \ cs,
                    !.constructing = @ \ cs, !.loaded = @ \ cs, !.rawIsa = @ \ cs,
                    !.initialized = @ \ cs, !.lists = L, !.unattached = W, !.default = D]
  BY <1>1, <1>2, <1>3, <1>4 DEF Free
<1>10. u \in RT
  <2>1. PICK N, R, C, O, A, I : /\ N = t.named \ cs /\ R = t.realized \ cs /\ C = t.constructing \ cs
                               /\ O = t.loaded \ cs /\ A = t.rawIsa \ cs /\ I = t.initialized \ cs
    OBVIOUS
  <2>2. {N, R, C, O, A, I} \in SUBSET SUBSET Classes
    BY <2>1, Fields
  <2>3. u = [t EXCEPT !.subclasses = S, !.named = N, !.realized = R,
                      !.constructing = C, !.loaded = O, !.rawIsa = A,
                      !.initialized = I, !.lists = L, !.unattached = W, !.default = D]
    BY <1>9, <2>1
  <2>4. /\ N \in SUBSET Classes /\ R \in SUBSET Classes /\ C \in SUBSET Classes
        /\ O \in SUBSET Classes /\ A \in SUBSET Classes /\ I \in SUBSET Classes
    BY <2>2
  <2>5. PICK v : v = [t EXCEPT !.subclasses = S, !.named = N, !.realized = R, !.constructing = C, !.loaded = O]
    OBVIOUS
  <2>6. v \in RT
    BY <1>6, <2>4, <2>5 DEF RT, TableTypes
  <2>7. u = [v EXCEPT !.rawIsa = A, !.initialized = I, !.lists = L, !.unattached = W, !.default = D]
    BY <2>3, <2>5, <2>6 DEF RT, TableTypes
  <2>8. PICK w : w = [v EXCEPT !.rawIsa = A]
    OBVIOUS
  <2>9. PICK x : x = [w EXCEPT !.lists = L]
    OBVIOUS
  <2>10. PICK y : y = [x EXCEPT !.unattached = W]
    OBVIOUS
  <2>11. w \in RT
    BY <2>4, <2>6, <2>8, PutMethods
  <2>12. x \in RT
    BY <1>8, <2>9, <2>11, PutMethods
  <2>13. y \in RT
    BY <1>8, <2>10, <2>12, PutMethods
  <2>14. u = [y EXCEPT !.initialized = I, !.default = D]
    BY <2>6, <2>7, <2>8, <2>9, <2>10 DEF RT, TableTypes
  <2> QED
    BY <1>6, <2>4, <2>13, <2>14, PutMethods
<1>11. /\ u.super = t.super /\ u.layout = t.layout /\ u.ignored = t.ignored
       /\ u.future = t.future /\ u.debugIvars = t.debugIvars
       /\ u.named = t.named \ cs /\ u.realized = t.realized \ cs
       /\ u.constructing = t.constructing \ cs /\ u.loaded = t.loaded \ cs
       /\ u.subclasses = S
  BY <1>9 DEF RT, TableTypes
<1> QED
  BY <1>1, <1>10, <1>11

\* An instance without variables of its own
LEMMA EmptyLayout ==
  ASSUME NEW n \in Nat, NEW m \in Nat, n <= m
  PROVE  \E l \in Layouts : l = [start |-> n, size |-> m, ivars |-> <<>>] /\ Sound(l)
<1>1. PICK l : l = [start |-> n, size |-> m, ivars |-> <<>>]
  OBVIOUS
<1>2. l \in Layouts
  <2>1. <<>> \in Seq(Ivar)
    OBVIOUS
  <2> QED
    BY <1>1, <2>1 DEF Layouts
<1>3. l.start = n /\ l.size = m /\ DOMAIN l.ivars = {}
  BY <1>1
<1>4. Sound(l)
  BY <1>3 DEF Sound
<1> QED
  BY <1>1, <1>2, <1>4

\* The tables with a class that the program makes are tables.
LEMMA MadeType ==
  ASSUME NEW t \in RT, NEW c \in RuntimeClasses, NEW p \in t.realized \cup {NoClass},
         NEW l \in Layouts, Sound(l),
         NEW made, made = [t EXCEPT !.realized = @ \cup {c}, !.constructing = @ \cup {c},
                                    !.super[c] = p, !.layout[c] = l]
  PROVE  made \in RT
<1>1. t.realized \in SUBSET Classes
  BY Fields
<1>2. c \in Classes /\ p \in Classes \cup {NoClass} /\ c \notin ImageClasses
  BY <1>1, ClassesAssumption DEF Classes
<1>3. PICK R, C, S, L : /\ R = t.realized \cup {c} /\ C = t.constructing \cup {c}
                        /\ S = [t.super EXCEPT ![c] = p] /\ L = [t.layout EXCEPT ![c] = l]
  OBVIOUS
<1>4. /\ R \in SUBSET Classes /\ C \in SUBSET Classes
      /\ S \in [Classes -> Classes \cup {NoClass}] /\ L \in [Classes -> Layouts]
  BY <1>2, <1>3, Fields
<1>5. \A d \in Classes : Sound(L[d]) /\ (d \in ImageClasses => CompiledLayout(L[d]))
  BY <1>2, <1>3, Fields
<1>6. made = [t EXCEPT !.realized = R, !.constructing = C, !.super = S, !.layout = L]
  BY <1>3
<1>7. made \in TableTypes
  <2>1. t \in TableTypes
    BY DEF RT
  <2>2. PICK a : a = [t EXCEPT !.realized = R]
    OBVIOUS
  <2>3. a \in TableTypes
    BY <1>4, <2>1, <2>2 DEF TableTypes
  <2>4. PICK b : b = [a EXCEPT !.constructing = C]
    OBVIOUS
  <2>5. b \in TableTypes
    BY <1>4, <2>3, <2>4 DEF TableTypes
  <2>6. PICK d : d = [b EXCEPT !.super = S]
    OBVIOUS
  <2>7. d \in TableTypes
    BY <1>4, <2>5, <2>6 DEF TableTypes
  <2>8. PICK e : e = [d EXCEPT !.layout = L]
    OBVIOUS
  <2>9. e \in TableTypes
    BY <1>4, <2>7, <2>8 DEF TableTypes
  <2>10. made = e
    BY <1>6, <2>2, <2>4, <2>6, <2>8
  <2> QED
    BY <2>9, <2>10
<1>8. made.layout = L
  <2>1. t \in TableTypes
    BY DEF RT
  <2> QED
    BY <1>6, <2>1 DEF TableTypes
<1> QED
  BY <1>5, <1>7, <1>8 DEF RT

\* objc_allocateClassPair, of a class with a superclass
LEMMA AllocateClassPairSound ==
  ASSUME NEW t, TablesSound(t), NEW c \in RuntimeClasses, c \notin t.realized,
         NEW p \in t.realized, p \notin t.constructing, NEW u, u = AllocateClassPair(t, c, p)
  PROVE  TablesSound(u) /\ u.ignored = t.ignored /\ u.loaded = t.loaded
         /\ \A d \in ImageClasses : u.super[d] = t.super[d]
<1>1. t \in RT /\ Laid(t) /\ Bound(t) /\ Ends(t) /\ Tidy(t)
  BY DEF TablesSound
<1>2. /\ c \in Classes /\ p \in Classes /\ NoClass \notin Classes /\ c # p /\ c \notin ImageClasses
      /\ ImageClasses \subseteq Classes
  <2>1. t.realized \in SUBSET Classes
    BY <1>1, Fields
  <2> QED
    BY <2>1, ClassesAssumption DEF Classes
<1>3. PICK n \in Nat : n = t.layout[p].size
  <2>1. t.layout[p] \in Layouts
    BY <1>1, <1>2, Fields
  <2> QED
    BY <2>1 DEF Layouts
<1>4. PICK l \in Layouts : l = [start |-> n, size |-> n, ivars |-> <<>>] /\ Sound(l)
  BY EmptyLayout
<1>5. PICK made : made = [t EXCEPT !.realized = @ \cup {c}, !.constructing = @ \cup {c},
                                   !.super[c] = p, !.layout[c] = l]
  OBVIOUS
<1>6. made \in RT
  <2>1. p \in t.realized \cup {NoClass}
    OBVIOUS
  <2> QED
    BY <1>1, <1>4, <1>5, <2>1, MadeType, Zenon
<1>7. u = AddSubclass(made, p, c)
  BY <1>2, <1>3, <1>4, <1>5 DEF AllocateClassPair
<1>8. PICK k : k = [made EXCEPT !.subclasses[p] = @ \cup {c}]
  OBVIOUS
<1>9. u \in RT /\ SameCore(k, u)
  BY <1>2, <1>6, <1>7, <1>8, AddSubclassLinks
<1>10. /\ k.named = t.named /\ k.future = t.future /\ k.ignored = t.ignored
       /\ k.realized = t.realized \cup {c} /\ k.constructing = t.constructing \cup {c}
       /\ k.loaded = t.loaded /\ k.debugIvars = t.debugIvars
       /\ k.super = [t.super EXCEPT ![c] = p] /\ k.layout = [t.layout EXCEPT ![c] = l]
       /\ k.subclasses = [t.subclasses EXCEPT ![p] = @ \cup {c}]
  BY <1>1, <1>5, <1>8 DEF RT, TableTypes
<1>11. /\ u.named = t.named /\ u.future = t.future /\ u.ignored = t.ignored
       /\ u.realized = t.realized \cup {c} /\ u.constructing = t.constructing \cup {c}
       /\ u.loaded = t.loaded
       /\ u.super = [t.super EXCEPT ![c] = p] /\ u.layout = [t.layout EXCEPT ![c] = l]
       /\ u.subclasses = [t.subclasses EXCEPT ![p] = @ \cup {c}]
  BY <1>9, <1>10, Zenon DEF SameCore
<1>12. /\ t.subclasses \in [Classes -> SUBSET Classes] /\ t.layout \in [Classes -> Layouts]
       /\ t.realized \in SUBSET Classes /\ t.super \in [Classes -> Classes \cup {NoClass}]
  BY <1>1, Fields
<1>13. u.super[c] = p /\ \A d \in Classes \ {c} : u.super[d] = t.super[d]
  BY <1>2, <1>11, <1>12
<1>14. Laid(u)
  <2> SUFFICES ASSUME NEW d \in u.realized, u.super[d] # NoClass
               PROVE  /\ u.super[d] \in u.realized /\ d \in u.subclasses[u.super[d]]
                      /\ u.layout[d].start >= u.layout[u.super[d]].size
    BY DEF Laid
  <2>1. CASE d = c
    <3>1. u.layout[c] = l /\ u.layout[p] = t.layout[p] /\ d \in u.subclasses[p] /\ p \in u.realized
      BY <1>2, <1>11, <1>12, <2>1
    <3>2. l.start = n
      BY <1>4
    <3> QED
      BY <1>3, <1>13, <2>1, <3>1, <3>2
  <2>2. CASE d # c
    <3>1. d \in t.realized /\ d \in Classes /\ u.super[d] = t.super[d]
      BY <1>11, <1>12, <1>13, <2>2
    <3>2. /\ t.super[d] \in t.realized /\ d \in t.subclasses[t.super[d]]
          /\ t.layout[d].start >= t.layout[t.super[d]].size
      BY <1>1, <3>1 DEF Laid
    <3>3. t.super[d] \in Classes /\ t.super[d] # c
      BY <1>12, <3>2
    <3> QED
      BY <1>11, <1>12, <2>2, <3>1, <3>2, <3>3
  <2> QED
    BY <2>1, <2>2
<1>15. Bound(u)
  BY <1>1, <1>2, <1>13 DEF Bound
<1>16. Ends(u)
  <2>1. PICK b, rank : Ranks(rank, b, Classes \cup {NoClass}, t.super, {NoClass})
    BY <1>1 DEF Ends
  <2> DEFINE D == Classes \cup {NoClass}
             r == [d \in D |-> IF d = c THEN b + 1 ELSE rank[d]]
  <2>2. b \in Nat /\ rank \in [D -> 0 .. b] /\ \A d \in D \ {NoClass} : t.super[d] \in D /\ rank[t.super[d]] < rank[d]
    BY <2>1 DEF Ranks
  <2>3. \A d \in D : rank[d] \in Nat /\ rank[d] <= b
    BY <2>2
  <2>4. r \in [D -> 0 .. b + 1]
    BY <2>2, <2>3
  <2>5. ASSUME NEW d \in D \ {NoClass}
        PROVE  u.super[d] \in D /\ r[u.super[d]] < r[d]
    <3>1. CASE d = c
      BY <1>2, <1>13, <2>2, <2>3, <3>1
    <3>2. CASE d # c
      <4>1. t.super[d] # c
        <5>1. CASE d \in RuntimeClasses \ t.realized
          <6>1. t.super[d] = NoClass
            BY <1>1, <5>1 DEF Tidy
          <6> QED
            BY <1>2, <6>1
        <5>2. CASE d \in t.realized
          <6>1. t.super[d] # NoClass => t.super[d] \in t.realized
            BY <1>1, <5>2 DEF Laid
          <6> QED
            BY <1>2, <6>1
        <5>3. CASE d \in ImageClasses
          <6>1. t.super[d] \in ImageClasses \cup {NoClass}
            BY <1>1, <5>3, BoundIs
          <6> QED
            BY <1>2, <6>1
        <5> QED
          BY <5>1, <5>2, <5>3 DEF Classes
      <4>2. u.super[d] = t.super[d] /\ t.super[d] \in D
        BY <1>13, <2>2, <3>2
      <4> QED
        BY <2>2, <3>2, <4>1, <4>2
    <3> QED
      BY <3>1, <3>2
  <2> HIDE DEF r
  <2>6. Ranks(r, b + 1, D, u.super, {NoClass})
    BY <2>2, <2>4, <2>5 DEF Ranks
  <2> QED
    BY <2>6 DEF Ends
<1>17. Tidy(u)
  <2>1. u.ignored \subseteq ImageClasses /\ u.future \subseteq ImageClasses
        /\ u.constructing \subseteq u.realized \cap RuntimeClasses
    BY <1>1, <1>11 DEF Tidy
  <2>2. \A d \in u.ignored : u.super[d] = NoClass
    BY <1>1, <1>2, <1>11, <1>13 DEF Tidy
  <2>3. \A d \in RuntimeClasses \ u.realized : u.super[d] = NoClass /\ d \notin u.named
    <3>1. \A d \in RuntimeClasses \ u.realized : d \in Classes \ {c} /\ d \in RuntimeClasses \ t.realized
      BY <1>11 DEF Classes
    <3> QED
      BY <1>1, <1>11, <1>13, <3>1 DEF Tidy
  <2>4. \A d \in u.realized : u.super[d] \notin u.constructing
    <3> SUFFICES ASSUME NEW d \in u.realized
                 PROVE  u.super[d] \notin t.constructing /\ u.super[d] # c
      BY <1>11
    <3>1. CASE d = c
      BY <1>2, <1>13, <3>1
    <3>2. CASE d # c
      <4>1. d \in t.realized /\ u.super[d] = t.super[d]
        BY <1>11, <1>12, <1>13, <3>2
      <4>2. t.super[d] # NoClass => t.super[d] \in t.realized
        BY <1>1, <4>1 DEF Laid
      <4> QED
        BY <1>1, <1>2, <4>1, <4>2 DEF Tidy
    <3> QED
      BY <3>1, <3>2
  <2> QED
    BY <2>1, <2>2, <2>3, <2>4 DEF Tidy
<1> QED
  BY <1>2, <1>9, <1>11, <1>13, <1>14, <1>15, <1>16, <1>17 DEF TablesSound

\* and of a root: no class has got another superclass.
LEMMA AllocateRootIs ==
  ASSUME NEW t \in RT, NEW c \in RuntimeClasses, t.super[c] = NoClass,
         NEW u, u = AllocateClassPair(t, c, NoClass)
  PROVE  /\ u \in RT /\ u.super = t.super
         /\ \A d \in Classes \ {c} : u.layout[d] = t.layout[d]
         /\ u.realized = t.realized \cup {c} /\ u.constructing = t.constructing \cup {c}
         /\ u.named = t.named /\ u.future = t.future /\ u.ignored = t.ignored
         /\ u.loaded = t.loaded /\ u.subclasses = t.subclasses /\ u.lists = t.lists
         /\ u.unattached = t.unattached /\ u.default = t.default /\ u.swizzled = t.swizzled
         /\ u.replaced = t.replaced /\ u.initialized = t.initialized /\ u.rawIsa = t.rawIsa
<1>1. PICK l \in Layouts : l = [start |-> 0, size |-> 8, ivars |-> <<>>] /\ Sound(l)
  <2>1. 0 \in Nat /\ 8 \in Nat /\ 0 <= 8
    OBVIOUS
  <2> QED
    BY <2>1, EmptyLayout
<1>2. PICK made : made = [t EXCEPT !.realized = @ \cup {c}, !.constructing = @ \cup {c},
                                   !.super[c] = NoClass, !.layout[c] = l]
  OBVIOUS
<1>3. u = made
  BY <1>1, <1>2 DEF AllocateClassPair, AddSubclass
<1>4. NoClass \in t.realized \cup {NoClass}
  OBVIOUS
<1>5. made \in RT
  BY <1>1, <1>2, <1>4, MadeType
<1>6. t.super \in [Classes -> Classes \cup {NoClass}] /\ t.layout \in [Classes -> Layouts]
  BY Fields
<1>7. made.super = [t.super EXCEPT ![c] = NoClass] /\ made.layout = [t.layout EXCEPT ![c] = l]
  BY <1>2 DEF RT, TableTypes
<1>8. made.super = t.super /\ \A d \in Classes \ {c} : made.layout[d] = t.layout[d]
  BY <1>6, <1>7
<1>9. /\ made.realized = t.realized \cup {c} /\ made.constructing = t.constructing \cup {c}
      /\ made.named = t.named /\ made.future = t.future /\ made.ignored = t.ignored
      /\ made.loaded = t.loaded /\ made.subclasses = t.subclasses /\ made.lists = t.lists
      /\ made.unattached = t.unattached /\ made.default = t.default /\ made.swizzled = t.swizzled
      /\ made.replaced = t.replaced /\ made.initialized = t.initialized /\ made.rawIsa = t.rawIsa
  BY <1>2 DEF RT, TableTypes
<1> QED
  BY <1>3, <1>5, <1>8, <1>9

LEMMA AllocateRootSound ==
  ASSUME NEW t, TablesSound(t), NEW c \in RuntimeClasses, c \notin t.realized,
         NEW u, u = AllocateClassPair(t, c, NoClass)
  PROVE  TablesSound(u) /\ u.ignored = t.ignored /\ u.loaded = t.loaded
         /\ \A d \in ImageClasses : u.super[d] = t.super[d]
<1>1. t \in RT /\ Laid(t) /\ Bound(t) /\ Ends(t) /\ Tidy(t)
  BY DEF TablesSound
<1>2. /\ t.super[c] = NoClass /\ c \in Classes /\ NoClass \notin Classes
      /\ t.realized \in SUBSET Classes
  BY <1>1, Fields, ClassesAssumption DEF Tidy, Classes
<1>3. /\ u \in RT /\ u.super = t.super
      /\ \A d \in Classes \ {c} : u.layout[d] = t.layout[d]
      /\ u.realized = t.realized \cup {c} /\ u.constructing = t.constructing \cup {c}
      /\ u.named = t.named /\ u.future = t.future /\ u.ignored = t.ignored
      /\ u.loaded = t.loaded /\ u.subclasses = t.subclasses
  BY <1>1, <1>2, AllocateRootIs
<1>4. Laid(u)
  <2> SUFFICES ASSUME NEW d \in u.realized, u.super[d] # NoClass
               PROVE  /\ u.super[d] \in u.realized /\ d \in u.subclasses[u.super[d]]
                      /\ u.layout[d].start >= u.layout[u.super[d]].size
    BY DEF Laid
  <2>1. d # c /\ d \in t.realized
    BY <1>2, <1>3
  <2>2. /\ t.super[d] \in t.realized /\ d \in t.subclasses[t.super[d]]
        /\ t.layout[d].start >= t.layout[t.super[d]].size
    BY <1>1, <1>3, <2>1 DEF Laid
  <2>3. t.super[d] # c /\ t.super[d] \in Classes /\ d \in Classes
    BY <1>2, <2>1, <2>2
  <2> QED
    BY <1>3, <2>1, <2>2, <2>3
<1>5. Bound(u) /\ Ends(u)
  BY <1>1, <1>3 DEF Bound, Ends
<1>6. Tidy(u)
  <2>1. \A d \in u.realized : u.super[d] \notin u.constructing
    <3> SUFFICES ASSUME NEW d \in u.realized
                 PROVE  t.super[d] \notin t.constructing /\ t.super[d] # c
      BY <1>3
    <3>1. CASE d = c
      BY <1>1, <1>2, <3>1 DEF Tidy
    <3>2. CASE d # c
      <4>1. d \in t.realized
        BY <1>3, <3>2
      <4>2. t.super[d] # NoClass => t.super[d] \in t.realized
        BY <1>1, <4>1 DEF Laid
      <4> QED
        BY <1>1, <1>2, <4>1, <4>2 DEF Tidy
    <3> QED
      BY <3>1, <3>2
  <2>2. \A d \in RuntimeClasses \ u.realized : u.super[d] = NoClass /\ d \notin u.named
    BY <1>1, <1>3 DEF Tidy
  <2> QED
    BY <1>1, <1>3, <2>1, <2>2 DEF Tidy
<1> QED
  BY <1>3, <1>4, <1>5, <1>6 DEF TablesSound

\* Classes that are freed leave the rest as it was, if nothing inherits from them.
LEMMA FreeSound ==
  ASSUME NEW t, TablesSound(t), NEW cs \in SUBSET Classes,
         \A c \in t.realized \ cs : t.super[c] \notin cs, cs \cap RuntimeClasses = {},
         NEW u, u = Free(t, cs)
  PROVE  TablesSound(u)
<1>1. t \in RT /\ Laid(t) /\ Bound(t) /\ Ends(t) /\ Tidy(t)
  BY DEF TablesSound
<1>2. /\ u \in RT /\ u.super = t.super /\ u.layout = t.layout /\ u.ignored = t.ignored
      /\ u.future = t.future /\ u.named = t.named \ cs /\ u.realized = t.realized \ cs
      /\ u.constructing = t.constructing \ cs
      /\ \A c \in Classes : u.subclasses[c] = t.subclasses[c] \ cs
  BY <1>1, FreeIs
<1>3. t.realized \in SUBSET Classes
  BY <1>1, Fields
<1>4. Laid(u)
  <2> SUFFICES ASSUME NEW c \in u.realized, u.super[c] # NoClass
               PROVE  /\ u.super[c] \in u.realized /\ c \in u.subclasses[u.super[c]]
                      /\ u.layout[c].start >= u.layout[u.super[c]].size
    BY DEF Laid
  <2>1. c \in t.realized /\ c \notin cs
    BY <1>2
  <2>2. /\ t.super[c] \in t.realized /\ c \in t.subclasses[t.super[c]]
        /\ t.layout[c].start >= t.layout[t.super[c]].size
    BY <1>1, <1>2, <2>1 DEF Laid
  <2>3. t.super[c] \notin cs
    BY <2>1
  <2> QED
    BY <1>2, <1>3, <2>1, <2>2, <2>3
<1>5. Bound(u) /\ Ends(u)
  BY <1>1, <1>2 DEF Bound, Ends
<1>6. Tidy(u)
  BY <1>1, <1>2 DEF Tidy
<1> QED
  BY <1>2, <1>4, <1>5, <1>6 DEF TablesSound

\* Tables with other superclasses and layouts
LEMMA PutLayouts ==
  ASSUME NEW t \in RT, NEW S \in [Classes -> Classes \cup {NoClass}], NEW Y \in [Classes -> Layouts],
         \A c \in Classes : Sound(Y[c]) /\ (c \in ImageClasses => CompiledLayout(Y[c])),
         NEW u, u = [t EXCEPT !.super = S, !.layout = Y]
  PROVE  u \in RT
<1>1. u \in TableTypes /\ u.layout = Y
  BY DEF RT, TableTypes
<1> QED
  BY <1>1 DEF RT

\* One class's layout
LayoutPut(Y, t, c, l) == Y = [t.layout EXCEPT ![c] = l]

\* The layouts after that are sound if that one is.
LEMMA LayoutsWith ==
  ASSUME NEW t \in RT, NEW c \in Classes, c \notin ImageClasses, NEW l \in Layouts, Sound(l),
         NEW Y, LayoutPut(Y, t, c, l)
  PROVE  /\ Y \in [Classes -> Layouts] /\ Y[c] = l /\ \A d \in Classes \ {c} : Y[d] = t.layout[d]
         /\ \A d \in Classes : Sound(Y[d]) /\ (d \in ImageClasses => CompiledLayout(Y[d]))
<1>1. t.layout \in [Classes -> Layouts]
  BY Fields
<1>2. Y \in [Classes -> Layouts] /\ Y[c] = l /\ \A d \in Classes \ {c} : Y[d] = t.layout[d]
  BY <1>1 DEF LayoutPut
<1> QED
  BY <1>2, Fields

\* objc_disposeClassPair
Disposed(u, t, c) == u = [Free(t, {c}) EXCEPT !.super[c] = NoClass, !.layout[c] = NoLayout]

\* objc_disposeClassPair, of a class without subclasses
LEMMA DisposeSound ==
  ASSUME NEW t, TablesSound(t), NEW c \in RuntimeClasses, t.subclasses[c] = {},
         NEW u, Disposed(u, t, c)
  PROVE  TablesSound(u) /\ u.ignored = t.ignored /\ u.loaded = t.loaded \ {c}
         /\ \A d \in ImageClasses : u.super[d] = t.super[d]
<1>1. t \in RT /\ Laid(t) /\ Bound(t) /\ Ends(t) /\ Tidy(t)
  BY DEF TablesSound
<1>2. c \in Classes /\ c \notin ImageClasses /\ NoClass \notin Classes
  BY ClassesAssumption DEF Classes
<1>3. PICK f : f = Free(t, {c})
  OBVIOUS
<1>4. /\ f \in RT /\ f.super = t.super /\ f.layout = t.layout /\ f.ignored = t.ignored
      /\ f.future = t.future /\ f.named = t.named \ {c} /\ f.realized = t.realized \ {c}
      /\ f.constructing = t.constructing \ {c} /\ f.loaded = t.loaded \ {c}
      /\ \A d \in Classes : f.subclasses[d] = t.subclasses[d] \ {c}
  BY <1>1, <1>2, <1>3, FreeIs
<1>5. PICK l \in Layouts : l = NoLayout /\ Sound(l)
  BY EmptyLayout DEF NoLayout
<1>6. PICK S, Y : S = [t.super EXCEPT ![c] = NoClass] /\ Y = [t.layout EXCEPT ![c] = l]
  OBVIOUS
<1>7. u = [f EXCEPT !.super = S, !.layout = Y]
  BY <1>3, <1>4, <1>5, <1>6 DEF Disposed
<1>8. /\ u.super = S /\ u.layout = Y
      /\ u.ignored = f.ignored /\ u.future = f.future /\ u.named = f.named
      /\ u.realized = f.realized /\ u.constructing = f.constructing /\ u.loaded = f.loaded
      /\ u.subclasses = f.subclasses
  BY <1>4, <1>7 DEF RT, TableTypes
<1>9. /\ t.super \in [Classes -> Classes \cup {NoClass}] /\ t.realized \in SUBSET Classes
      /\ S \in [Classes -> Classes \cup {NoClass}]
      /\ S[c] = NoClass /\ \A d \in Classes \ {c} : S[d] = t.super[d]
  <2>1. t.super \in [Classes -> Classes \cup {NoClass}] /\ t.realized \in SUBSET Classes
    BY <1>1, Fields
  <2> QED
    BY <1>2, <1>6, <2>1
<1>10. /\ u \in RT
       /\ u.super[c] = NoClass /\ \A d \in Classes \ {c} : u.super[d] = t.super[d]
       /\ \A d \in Classes \ {c} : u.layout[d] = t.layout[d]
  <2>1. /\ Y \in [Classes -> Layouts] /\ Y[c] = l /\ \A d \in Classes \ {c} : Y[d] = t.layout[d]
        /\ \A d \in Classes : Sound(Y[d]) /\ (d \in ImageClasses => CompiledLayout(Y[d]))
    <3>1. t \in RT /\ c \in Classes /\ c \notin ImageClasses /\ LayoutPut(Y, t, c, l)
      BY <1>1, <1>2, <1>5, <1>6 DEF LayoutPut
    <3> QED
      BY <1>5, <3>1, LayoutsWith
  <2>2. u \in RT
    <3>1. /\ f \in RT /\ S \in [Classes -> Classes \cup {NoClass}] /\ Y \in [Classes -> Layouts]
          /\ \A d \in Classes : Sound(Y[d]) /\ (d \in ImageClasses => CompiledLayout(Y[d]))
          /\ u = [f EXCEPT !.super = S, !.layout = Y]
      BY <1>4, <1>7, <1>9, <2>1
    <3> QED
      BY <3>1, PutLayouts, Zenon
  <2> QED
    BY <1>8, <1>9, <2>1, <2>2
<1>11. \A d \in t.realized : t.super[d] # c
  BY <1>1, <1>2 DEF Laid
<1>12. Laid(u)
  <2> SUFFICES ASSUME NEW d \in u.realized, u.super[d] # NoClass
               PROVE  /\ u.super[d] \in u.realized /\ d \in u.subclasses[u.super[d]]
                      /\ u.layout[d].start >= u.layout[u.super[d]].size
    BY DEF Laid
  <2>1. d \in t.realized /\ d # c /\ d \in Classes
    BY <1>4, <1>8, <1>9
  <2>2. /\ t.super[d] \in t.realized /\ d \in t.subclasses[t.super[d]]
        /\ t.layout[d].start >= t.layout[t.super[d]].size
    BY <1>1, <1>10, <2>1 DEF Laid
  <2>3. t.super[d] # c /\ t.super[d] \in Classes
    BY <1>9, <1>11, <2>1, <2>2
  <2>4. u.super[d] = t.super[d] /\ u.layout[d] = t.layout[d] /\ u.layout[t.super[d]] = t.layout[t.super[d]]
    BY <1>10, <2>1, <2>3
  <2>5. t.super[d] \in u.realized /\ d \in u.subclasses[t.super[d]]
    BY <1>4, <1>8, <2>1, <2>2, <2>3
  <2> QED
    BY <2>2, <2>4, <2>5
<1>13. Bound(u)
  BY <1>1, <1>2, <1>10 DEF Bound, Classes
<1>14. Ends(u)
  <2>1. \A d \in Classes : u.super[d] \in {t.super[d], NoClass}
    BY <1>10
  <2> QED
    BY <1>1, <2>1, EndsStill
<1>15. Tidy(u)
  <2>1. u.ignored \subseteq ImageClasses /\ u.future \subseteq ImageClasses
        /\ u.constructing \subseteq u.realized \cap RuntimeClasses
    BY <1>1, <1>4, <1>8 DEF Tidy
  <2>2. \A d \in u.ignored : u.super[d] = NoClass
    BY <1>1, <1>2, <1>4, <1>8, <1>10 DEF Tidy, Classes
  <2>3. \A d \in RuntimeClasses \ u.realized : u.super[d] = NoClass /\ d \notin u.named
    <3>1. \A d \in RuntimeClasses \ u.realized : d \in Classes /\ (d = c \/ d \in RuntimeClasses \ t.realized)
      BY <1>4, <1>8 DEF Classes
    <3> QED
      BY <1>1, <1>4, <1>8, <1>10, <3>1 DEF Tidy
  <2>4. \A d \in u.realized : u.super[d] \notin u.constructing
    BY <1>1, <1>4, <1>8, <1>9, <1>10 DEF Tidy
  <2> QED
    BY <2>1, <2>2, <2>3, <2>4 DEF Tidy
<1> QED
  BY <1>2, <1>4, <1>8, <1>10, <1>12, <1>13, <1>14, <1>15 DEF TablesSound, Classes

\* objc_registerClassPair
LEMMA RegisterSound ==
  ASSUME NEW t, TablesSound(t), NEW c \in t.constructing, NEW u, u = RegisterClassPair(t, c)
  PROVE  TablesSound(u) /\ u.ignored = t.ignored /\ u.loaded = t.loaded /\ u.super = t.super
<1>1. t \in RT /\ Laid(t) /\ Bound(t) /\ Ends(t) /\ Tidy(t)
  BY DEF TablesSound
<1>2. c \in Classes /\ c \in t.realized
  BY <1>1 DEF Tidy, Classes
<1>3. u = [t EXCEPT !.constructing = @ \ {c}, !.named = @ \cup {c}]
  BY DEF RegisterClassPair
<1>4. u \in RT
  <2>1. PICK C, N : C = t.constructing \ {c} /\ N = t.named \cup {c}
    OBVIOUS
  <2>2. C \in SUBSET Classes /\ N \in SUBSET Classes
    BY <1>1, <1>2, <2>1, Fields
  <2>3. u = [t EXCEPT !.constructing = C, !.named = N]
    BY <1>3, <2>1
  <2> QED
    BY <1>1, <2>2, <2>3 DEF RT, TableTypes
<1>5. /\ u.super = t.super /\ u.future = t.future /\ u.ignored = t.ignored
      /\ u.realized = t.realized /\ u.loaded = t.loaded
      /\ u.subclasses = t.subclasses /\ u.layout = t.layout
      /\ u.constructing = t.constructing \ {c} /\ u.named = t.named \cup {c}
  BY <1>1, <1>3 DEF RT, TableTypes
<1>6. Laid(u)
  BY <1>1, <1>5 DEF Laid
<1>7. Bound(u) /\ Ends(u)
  BY <1>1, <1>5 DEF Bound, Ends
<1>8. Tidy(u)
  BY <1>1, <1>2, <1>5 DEF Tidy
<1> QED
  BY <1>4, <1>5, <1>6, <1>7, <1>8 DEF TablesSound

\* _objc_allocateFutureClass
LEMMA FutureSound ==
  ASSUME NEW t, TablesSound(t), NEW c \in ImageClasses, NEW u, u = [t EXCEPT !.future = @ \cup {c}]
  PROVE  TablesSound(u) /\ u.ignored = t.ignored /\ u.loaded = t.loaded /\ u.super = t.super
<1>1. t \in RT /\ Laid(t) /\ Bound(t) /\ Ends(t) /\ Tidy(t)
  BY DEF TablesSound
<1>2. u \in RT
  BY <1>1 DEF RT, TableTypes, Classes
<1>3. /\ u.super = t.super /\ u.future = t.future \cup {c} /\ u.ignored = t.ignored
      /\ u.realized = t.realized /\ u.loaded = t.loaded
      /\ u.subclasses = t.subclasses /\ u.layout = t.layout
      /\ u.constructing = t.constructing /\ u.named = t.named
  BY <1>1 DEF RT, TableTypes
<1>4. Laid(u)
  BY <1>1, <1>3 DEF Laid
<1>5. Bound(u) /\ Ends(u)
  BY <1>1, <1>3 DEF Bound, Ends
<1>6. Tidy(u)
  BY <1>1, <1>3 DEF Tidy
<1> QED
  BY <1>2, <1>3, <1>4, <1>5, <1>6 DEF TablesSound

\* A variable behind the others, aligned, keeps a layout sound.
LEMMA IvarFits ==
  ASSUME NEW l \in Layouts, Sound(l), NEW size \in Nat, NEW align \in Nat \ {0}
  PROVE  /\ WithIvar(l, size, align) \in Layouts /\ Sound(WithIvar(l, size, align))
         /\ WithIvar(l, size, align).start = l.start
<1>0. PICK m : m = WithIvar(l, size, align)
  OBVIOUS
<1>1. l.start \in Nat /\ l.size \in Nat /\ l.ivars \in Seq(Ivar) /\ l.start <= l.size
  BY DEF Layouts, Sound
<1>2. PICK o \in Nat : o = RoundUp(l.size, align) /\ o >= l.size /\ o % align = 0
  BY <1>1, RoundedUp
<1>3. PICK v \in Ivar : v = [offset |-> o, size |-> size, align |-> align]
  BY DEF Ivar
<1>4. v.offset = o /\ v.size = size /\ v.align = align
  BY <1>3
<1>5. PICK q : q = Append(l.ivars, v)
  OBVIOUS
<1>6. PICK k \in Nat : k = Len(l.ivars)
  BY <1>1, LenProperties
<1>7. /\ q \in Seq(Ivar) /\ Len(q) = k + 1 /\ q[k + 1] = v /\ \A i \in 1 .. k : q[i] = l.ivars[i]
  BY <1>1, <1>5, <1>6, AppendProperties
<1>8. DOMAIN q = 1 .. k + 1 /\ DOMAIN l.ivars = 1 .. k
  BY <1>1, <1>6, <1>7, LenProperties
<1>9. m.start = l.start /\ m.size = o + size /\ m.ivars = q
  BY <1>0, <1>2, <1>3, <1>5 DEF Layouts, WithIvar
<1>10. m = [start |-> l.start, size |-> o + size, ivars |-> q]
  BY <1>0, <1>2, <1>3, <1>5 DEF Layouts, WithIvar
<1>11. m \in Layouts
  BY <1>1, <1>7, <1>10 DEF Layouts
<1>12. \A i \in 1 .. k : /\ l.ivars[i].offset \in Nat /\ l.ivars[i].size \in Nat
                         /\ l.start <= l.ivars[i].offset /\ l.ivars[i].offset % l.ivars[i].align = 0
                         /\ l.ivars[i].offset + l.ivars[i].size <= l.size
                         /\ \A j \in 1 .. i - 1 : l.ivars[j].offset + l.ivars[j].size <= l.ivars[i].offset
  <2>1. \A i \in 1 .. k : l.ivars[i] \in Ivar
    BY <1>1, <1>6, ElementOfSeq
  <2>2. \A i \in 1 .. k : l.ivars[i].offset \in Nat /\ l.ivars[i].size \in Nat
    BY <2>1 DEF Ivar
  <2> QED
    BY <1>8, <2>2 DEF Sound
<1>13. ASSUME NEW i \in 1 .. k + 1
       PROVE  /\ l.start <= q[i].offset /\ q[i].offset % q[i].align = 0
              /\ q[i].offset + q[i].size <= o + size
              /\ \A j \in 1 .. i - 1 : q[j].offset + q[j].size <= q[i].offset
  <2>1. CASE i \in 1 .. k
    <3>1. q[i] = l.ivars[i] /\ \A j \in 1 .. i - 1 : j \in 1 .. k /\ q[j] = l.ivars[j]
      BY <1>7, <2>1
    <3>2. PICK a \in Nat, b \in Nat : a = l.ivars[i].offset /\ b = l.ivars[i].size
      BY <1>12, <2>1
    <3>3. a + b <= o + size
      <4>1. PICK z \in Nat : z = l.size
        BY <1>1
      <4>2. a + b <= z /\ z <= o
        BY <1>2, <1>12, <2>1, <3>2, <4>1
      <4> QED
        BY <4>2
    <3> QED
      BY <1>12, <2>1, <3>1, <3>2, <3>3
  <2>2. CASE i = k + 1
    <3>1. q[i] = v
      BY <1>7, <2>2
    <3>2. ASSUME NEW j \in 1 .. i - 1
          PROVE  q[j].offset + q[j].size <= o
      <4>1. j \in 1 .. k /\ q[j] = l.ivars[j]
        BY <1>7, <2>2
      <4>2. PICK a \in Nat, b \in Nat, z \in Nat : a = l.ivars[j].offset /\ b = l.ivars[j].size /\ z = l.size
        BY <1>1, <1>12, <4>1
      <4>3. a + b <= z /\ z <= o
        BY <1>2, <1>12, <4>1, <4>2
      <4>4. a + b <= o
        BY <4>3
      <4> QED
        BY <4>1, <4>2, <4>4
    <3> QED
      BY <1>1, <1>2, <1>4, <3>1, <3>2
  <2> QED
    BY <2>1, <2>2
<1>14. Sound(m)
  <2>1. m.start <= m.size
    <3>1. PICK a \in Nat, z \in Nat : a = l.start /\ z = l.size
      BY <1>1
    <3>2. a <= z /\ z <= o
      BY <1>1, <1>2, <3>1
    <3>3. a <= o + size
      BY <3>2
    <3> QED
      BY <1>9, <3>1, <3>3
  <2>2. \A i \in DOMAIN m.ivars : i \in 1 .. k + 1 /\ m.ivars[i] = q[i]
    BY <1>8, <1>9
  <2>3. \A i \in 1 .. k + 1 : \A j \in 1 .. i - 1 : j \in 1 .. k + 1 /\ m.ivars[j] = q[j]
    BY <1>9
  <2> QED
    BY <1>9, <1>13, <2>1, <2>2, <2>3, Zenon DEF Sound
<1> QED
  BY <1>0, <1>9, <1>11, <1>14

\* class_addIvar
LEMMA AddIvarSound ==
  ASSUME NEW t, TablesSound(t), NEW c \in t.constructing, NEW size \in Nat, NEW align \in Nat \ {0},
         NEW u, u = AddIvar(t, c, size, align)
  PROVE  TablesSound(u) /\ u.ignored = t.ignored /\ u.loaded = t.loaded /\ u.super = t.super
<1>1. t \in RT /\ Laid(t) /\ Bound(t) /\ Ends(t) /\ Tidy(t)
  BY DEF TablesSound
<1>2. c \in Classes /\ c \in t.realized /\ c \notin ImageClasses
  BY <1>1, ClassesAssumption DEF Tidy, Classes
<1>3. PICK l \in Layouts : l = t.layout[c] /\ Sound(l)
  BY <1>1, <1>2, Fields
<1>4. PICK m : m = WithIvar(l, size, align)
  OBVIOUS
<1>5. m \in Layouts /\ Sound(m) /\ m.start = l.start
  BY <1>3, <1>4, IvarFits
<1>6. PICK Y : Y = [t.layout EXCEPT ![c] = m]
  OBVIOUS
<1>7. u = [t EXCEPT !.layout = Y]
  <2>1. u = [t EXCEPT !.layout = [t.layout EXCEPT ![c] = WithIvar(t.layout[c], size, align)]]
    BY DEF AddIvar
  <2> QED
    BY <1>3, <1>4, <1>6, <2>1
<1>8. /\ u.super = t.super /\ u.future = t.future /\ u.ignored = t.ignored
      /\ u.realized = t.realized /\ u.loaded = t.loaded
      /\ u.subclasses = t.subclasses /\ u.layout = Y
      /\ u.constructing = t.constructing /\ u.named = t.named
  BY <1>1, <1>7 DEF RT, TableTypes
<1>13. /\ Y \in [Classes -> Layouts] /\ Y[c] = m /\ \A d \in Classes \ {c} : Y[d] = t.layout[d]
       /\ \A d \in Classes : Sound(Y[d]) /\ (d \in ImageClasses => CompiledLayout(Y[d]))
  <2>1. t \in RT /\ c \in Classes /\ c \notin ImageClasses /\ m \in Layouts /\ Sound(m) /\ LayoutPut(Y, t, c, m)
    BY <1>1, <1>2, <1>5, <1>6 DEF LayoutPut
  <2> QED
    BY <2>1, LayoutsWith
<1>14. u \in RT
  <2>1. t.super \in [Classes -> Classes \cup {NoClass}] /\ u = [t EXCEPT !.super = t.super, !.layout = Y]
    BY <1>1, <1>7 DEF RT, TableTypes
  <2> QED
    BY <1>1, <1>13, <2>1, PutLayouts
<1>9. t.layout \in [Classes -> Layouts] /\ t.realized \in SUBSET Classes
  BY <1>1, Fields
<1>10. Laid(u)
  <2> SUFFICES ASSUME NEW d \in t.realized, t.super[d] # NoClass
               PROVE  u.layout[d].start >= u.layout[t.super[d]].size
    BY <1>1, <1>8 DEF Laid
  <2>1. t.super[d] \in t.realized /\ t.layout[d].start >= t.layout[t.super[d]].size /\ t.super[d] # c
    BY <1>1 DEF Laid, Tidy
  <2>2. u.layout[t.super[d]] = t.layout[t.super[d]] /\ u.layout[d].start = t.layout[d].start
    BY <1>3, <1>5, <1>8, <1>9, <1>13, <2>1
  <2> QED
    BY <2>1, <2>2
<1>11. Bound(u) /\ Ends(u)
  BY <1>1, <1>8 DEF Bound, Ends
<1>12. Tidy(u)
  BY <1>1, <1>8 DEF Tidy
<1> QED
  BY <1>8, <1>10, <1>11, <1>12, <1>14 DEF TablesSound

-----------------------------------------------------------------------------
(* The classes above a class                                                *)

\* Lineage's recursion
LineageTo(f, t) ==
    f = [d \in Classes \cup {NoClass} |-> IF d = NoClass THEN {} ELSE {d} \cup f[t.super[d]]]

\* The lineage is computed: a class, and the lineage of its superclass.
LEMMA LineageIs ==
  ASSUME NEW t, Ends(t)
  PROVE  /\ Lineage(t, NoClass) = {}
         /\ \A c \in Classes : Lineage(t, c) = {c} \cup Lineage(t, t.super[c])
<1>1. PICK b, rank : Ranks(rank, b, Classes \cup {NoClass}, t.super, {NoClass})
  BY DEF Ends
<1>2. NoClass \notin Classes
  BY ClassesAssumption
<1> DEFINE D == Classes \cup {NoClass}
           V == SUBSET D
           stop == {NoClass}
           g == [p \in V \X D |-> {p[2]} \cup p[1]]
<1>3. g \in [V \X D -> V]
  OBVIOUS
<1>4. PICK f \in [D -> V] : \A d \in D : f[d] = IF d \in stop THEN {} ELSE g[<<f[t.super[d]], d>>]
  <2>1. {} \in V
    OBVIOUS
  <2> HIDE DEF D, V, g
  <2>2. \E f : ClimbIn(f, D, t.super, stop, V, {}, g)
    <3>1. Ranks(rank, b, D, t.super, stop)
      BY <1>1 DEF D
    <3> HIDE DEF stop
    <3> QED
      BY <1>3, <2>1, <3>1, TypedClimb
  <2> QED
    BY <2>2 DEF ClimbIn
<1>5. \A d \in D \ stop : t.super[d] \in D
  BY <1>1 DEF Ranks
<1>6. ASSUME NEW d \in D
      PROVE  f[d] = IF d = NoClass THEN {} ELSE {d} \cup f[t.super[d]]
  <2>1. CASE d = NoClass
    BY <1>4, <2>1
  <2>2. CASE d # NoClass
    <3>1. f[t.super[d]] \in V
      BY <1>5, <2>2
    <3>2. f[d] = g[<<f[t.super[d]], d>>]
      <4> HIDE DEF D, V, g
      <4> QED
        BY <1>4, <2>2
    <3> QED
      BY <2>2, <3>1, <3>2
  <2> QED
    BY <2>1, <2>2
<1>7. LineageTo(f, t)
  <2>1. f = [d \in D |-> f[d]]
    OBVIOUS
  <2>2. f = [d \in D |-> IF d = NoClass THEN {} ELSE {d} \cup f[t.super[d]]]
    <3> HIDE DEF D
    <3> QED
      BY <1>6, <2>1, Zenon
  <2> QED
    BY <2>2 DEF LineageTo
<1>8. PICK h : h = (CHOOSE w : LineageTo(w, t)) /\ LineageTo(h, t)
  BY <1>7, Zenon
<1>9. \A c : Lineage(t, c) = h[c]
  BY <1>8, Zenon DEF Lineage, LineageTo
<1>10. \A d \in D : h[d] = IF d = NoClass THEN {} ELSE {d} \cup h[t.super[d]]
  BY <1>8, Zenon DEF LineageTo
<1> QED
  BY <1>2, <1>9, <1>10

\* Where superclasses are lost, there is less above a class.
LEMMA LineageShrinks ==
  ASSUME NEW t, Ends(t), Bound(t), NEW u, Ends(u), Bound(u),
         \A c \in ImageClasses : u.super[c] \in {t.super[c], NoClass}
  PROVE  \A c \in ImageClasses : Lineage(u, c) \subseteq Lineage(t, c)
<1> DEFINE D == ImageClasses \cup {NoClass}
           stop == {NoClass}
           f == [d \in D |-> Lineage(u, d)]
           R == [d \in D |-> SUBSET Lineage(t, d)]
<1>1. PICK b, rank : Ranks(rank, b, D, u.super, stop)
  <2>1. {} \in SUBSET Classes /\ D = ImageClasses \cup {} \cup {NoClass} /\ stop = {} \cup {NoClass}
    OBVIOUS
  <2>2. \E b, rank : Ranks(rank, b, ImageClasses \cup {} \cup {NoClass}, u.super, {} \cup {NoClass})
    BY <2>1, BoundRanks
  <2> QED
    BY <2>1, <2>2
<1>2. \A d \in D \cap stop : f[d] \in R[d]
  BY LineageIs
<1>3. ASSUME NEW d \in D \ stop, f[u.super[d]] \in R[u.super[d]]
      PROVE  f[d] \in R[d]
  <2>1. d \in Classes /\ u.super[d] \in D
    BY <1>1 DEF Ranks, Classes
  <2>2. Lineage(u, d) = {d} \cup Lineage(u, u.super[d]) /\ Lineage(t, d) = {d} \cup Lineage(t, t.super[d])
    BY <2>1, LineageIs
  <2>3. CASE u.super[d] = NoClass
    <3>1. Lineage(u, NoClass) = {}
      BY LineageIs
    <3> QED
      BY <2>2, <2>3, <3>1
  <2>4. CASE u.super[d] = t.super[d]
    BY <1>3, <2>1, <2>2, <2>4
  <2> QED
    BY <2>3, <2>4
<1>4. \A d \in D : f[d] \in R[d]
  <2> HIDE DEF D, stop, f, R
  <2> QED
    BY <1>1, <1>2, <1>3, ClimbKeeps
<1> QED
  BY <1>4

\* Nothing above a class of a set that is closed upwards is outside the set.
LEMMA LineageWithin ==
  ASSUME NEW t, Ends(t), Bound(t), NEW S \in SUBSET ImageClasses,
         \A c \in S : t.super[c] \in S \cup {NoClass}
  PROVE  \A c \in S : Lineage(t, c) \subseteq S
<1> DEFINE D == ImageClasses \cup {NoClass}
           stop == {NoClass}
           f == [d \in D |-> Lineage(t, d)]
           R == [d \in D |-> {L \in {Lineage(t, d)} : d \in S \cup {NoClass} => L \subseteq S}]
<1>1. PICK b, rank : Ranks(rank, b, D, t.super, stop)
  <2>1. {} \in SUBSET Classes /\ D = ImageClasses \cup {} \cup {NoClass} /\ stop = {} \cup {NoClass}
    OBVIOUS
  <2>2. \E b, rank : Ranks(rank, b, ImageClasses \cup {} \cup {NoClass}, t.super, {} \cup {NoClass})
    BY <2>1, BoundRanks
  <2> QED
    BY <2>1, <2>2
<1>2. \A d \in D \cap stop : f[d] \in R[d]
  <2>1. Lineage(t, NoClass) = {}
    BY LineageIs
  <2> QED
    BY <2>1
<1>3. ASSUME NEW d \in D \ stop, f[t.super[d]] \in R[t.super[d]]
      PROVE  f[d] \in R[d]
  <2>1. d \in Classes /\ t.super[d] \in D
    BY <1>1 DEF Ranks, Classes
  <2>2. Lineage(t, d) = {d} \cup Lineage(t, t.super[d])
    BY <2>1, LineageIs
  <2>3. d \in S => Lineage(t, t.super[d]) \subseteq S
    BY <1>3, <2>1
  <2> QED
    BY <2>2, <2>3
<1>4. \A d \in D : f[d] \in R[d]
  <2> HIDE DEF D, stop, f, R
  <2> QED
    BY <1>1, <1>2, <1>3, ClimbKeeps
<1> QED
  BY <1>4

\* A class that is not missing a superclass has one that is not.
LEMMA MissingInherits ==
  ASSUME NEW t, Ends(t), NEW c \in Classes, ~MissingWeakSuperclass(t, c)
  PROVE  /\ c \notin t.ignored
         /\ t.super[c] \in Classes => ~MissingWeakSuperclass(t, t.super[c])
  BY LineageIs DEF MissingWeakSuperclass

-----------------------------------------------------------------------------
(* Scheduling +load                                                         *)

\* What is strictly above a class
Above(t, c) == Lineage(t, c) \ {c}

\* The first n members of a list
FirstOf(q, n) == {q[j] : j \in 1 .. n}

\* No entry but nil is there twice.
Distinct(q) == \A i, j \in 1 .. Len(q) : q[i] = q[j] /\ q[i] # NoClass => i = j

\* The classes marked and listed so far, when the +load methods of done have been
\* called or are about to be: all of open may be scheduled.
Scheduling(t, open, done, s) ==
    /\ s \in [loaded : SUBSET open, queue : Seq(ImageClasses \cup {NoClass})]
    /\ \A c \in s.loaded : t.super[c] \in s.loaded \cup {NoClass}
    /\ s.loaded \cap HasLoad \subseteq done \cup ToSet(s.queue)
    /\ ToSet(s.queue) \subseteq (s.loaded \cap HasLoad) \cup {NoClass}
    /\ ToSet(s.queue) \cap done = {}
    /\ Distinct(s.queue)
    /\ \A i \in 1 .. Len(s.queue) : s.queue[i] # NoClass =>
         Above(t, s.queue[i]) \cap HasLoad \subseteq done \cup FirstOf(s.queue, i - 1)

\* An entry more
LEMMA AppendDistinct ==
  ASSUME NEW E, NEW q \in Seq(E), Distinct(q), NEW c \in E, c \notin ToSet(q)
  PROVE  Distinct(Append(q, c))
<1>1. /\ Append(q, c) \in Seq(E) /\ Len(Append(q, c)) = Len(q) + 1
      /\ Append(q, c)[Len(q) + 1] = c /\ \A i \in 1 .. Len(q) : Append(q, c)[i] = q[i]
  BY AppendMembers
<1>2. Len(q) \in Nat /\ \A x : x \in ToSet(q) <=> \E i \in 1 .. Len(q) : q[i] = x
  BY SeqMembers
<1> SUFFICES ASSUME NEW i \in 1 .. Len(q) + 1, NEW j \in 1 .. Len(q) + 1,
                    Append(q, c)[i] = Append(q, c)[j], Append(q, c)[i] # NoClass
             PROVE  i = j
  BY <1>1 DEF Distinct
<1>3. (i \in 1 .. Len(q) \/ i = Len(q) + 1) /\ (j \in 1 .. Len(q) \/ j = Len(q) + 1)
  BY <1>2
<1> QED
  BY <1>1, <1>2, <1>3 DEF Distinct

\* What is above c is scheduled.
Addable(t, open, done, s, c) ==
    /\ Ends(t) /\ Bound(t) /\ open \in SUBSET ImageClasses /\ NoClass \notin done
    /\ Scheduling(t, open, done, s) /\ open \cap done \subseteq s.loaded
    /\ c \in open \ s.loaded /\ t.super[c] \in s.loaded \cup {NoClass}

\* add_class_to_loadable_list
LEMMA AddClassKeeps ==
  ASSUME NEW t, NEW open, NEW done, NEW s, NEW c, Addable(t, open, done, s, c)
  PROVE  /\ Scheduling(t, open, done, AddClass(s, c))
         /\ AddClass(s, c).loaded = s.loaded \cup {c}
<1>0. /\ Ends(t) /\ Bound(t) /\ open \in SUBSET ImageClasses /\ NoClass \notin done
      /\ Scheduling(t, open, done, s) /\ open \cap done \subseteq s.loaded
      /\ c \in open \ s.loaded /\ t.super[c] \in s.loaded \cup {NoClass}
  BY DEF Addable
<1>1. PICK q \in Seq(ImageClasses \cup {NoClass}), L \in SUBSET open : q = s.queue /\ L = s.loaded
  BY <1>0 DEF Scheduling
<1>2. /\ \A d \in L : t.super[d] \in L \cup {NoClass}
      /\ L \cap HasLoad \subseteq done \cup ToSet(q)
      /\ ToSet(q) \subseteq (L \cap HasLoad) \cup {NoClass}
      /\ ToSet(q) \cap done = {} /\ Distinct(q)
      /\ \A i \in 1 .. Len(q) : q[i] # NoClass =>
           Above(t, q[i]) \cap HasLoad \subseteq done \cup FirstOf(q, i - 1)
  BY <1>0, <1>1 DEF Scheduling
<1>3. c \in ImageClasses /\ c \notin L /\ t.super[c] \in L \cup {NoClass} /\ c # NoClass
      /\ c \in Classes /\ c \notin done
  BY <1>0, <1>1, ClassesAssumption DEF Classes
<1>4. PICK M \in SUBSET open : M = L \cup {c}
  BY <1>0, <1>1
<1>5. PICK r : r = IF c \in HasLoad THEN Append(q, c) ELSE q
  OBVIOUS
<1>6. AddClass(s, c) = [loaded |-> M, queue |-> r]
  BY <1>1, <1>4, <1>5 DEF AddClass
<1>7. PICK a : a = [loaded |-> M, queue |-> r] /\ a.loaded = M /\ a.queue = r
  <2>1. PICK a : a = [loaded |-> M, queue |-> r]
    OBVIOUS
  <2>2. a.loaded = M /\ a.queue = r
    BY <2>1
  <2> QED
    BY <2>1, <2>2
<1>8. \A d \in M : t.super[d] \in M \cup {NoClass}
  BY <1>2, <1>3, <1>4
<1>9. Above(t, c) \subseteq L
  <2>1. Lineage(t, c) = {c} \cup Lineage(t, t.super[c]) /\ Lineage(t, NoClass) = {}
    BY <1>0, <1>3, LineageIs
  <2>2. t.super[c] \in L => Lineage(t, t.super[c]) \subseteq L
    <3>1. L \in SUBSET ImageClasses
      BY <1>0
    <3> QED
      BY <1>0, <1>2, <3>1, LineageWithin
  <2> QED
    BY <1>3, <2>1, <2>2 DEF Above
<1>10. CASE c \notin HasLoad
  <2>1. r = q
    BY <1>5, <1>10
  <2>2. a \in [loaded : SUBSET open, queue : Seq(ImageClasses \cup {NoClass})]
    BY <1>4, <1>7, <2>1
  <2>3. Scheduling(t, open, done, a)
    BY <1>2, <1>4, <1>7, <1>8, <1>10, <2>1, <2>2 DEF Scheduling
  <2> QED
    BY <1>1, <1>4, <1>6, <1>7, <2>3
<1>11. CASE c \in HasLoad
  <2>1. r = Append(q, c)
    BY <1>5, <1>11
  <2>2. PICK n \in Nat : n = Len(q)
    BY LenProperties
  <2>3. /\ r \in Seq(ImageClasses \cup {NoClass}) /\ ToSet(r) = ToSet(q) \cup {c}
        /\ Len(r) = n + 1 /\ r[n + 1] = c /\ \A i \in 1 .. n : r[i] = q[i]
    BY <1>3, <2>1, <2>2, AppendMembers
  <2>4. a \in [loaded : SUBSET open, queue : Seq(ImageClasses \cup {NoClass})]
    BY <1>4, <1>7, <2>3
  <2>5. c \notin ToSet(q)
    BY <1>2, <1>3
  <2>6. Distinct(r)
    BY <1>2, <1>3, <2>1, <2>5, AppendDistinct
  <2>7. ASSUME NEW i \in 1 .. n + 1, r[i] # NoClass
        PROVE  Above(t, r[i]) \cap HasLoad \subseteq done \cup FirstOf(r, i - 1)
    <3>1. FirstOf(r, i - 1) = FirstOf(q, i - 1)
      <4>1. \A j \in 1 .. i - 1 : r[j] = q[j]
        BY <2>3
      <4> QED
        BY <4>1 DEF FirstOf
    <3>2. CASE i \in 1 .. n
      BY <1>2, <2>2, <2>3, <2>7, <3>1, <3>2
    <3>3. CASE i = n + 1
      <4>1. FirstOf(q, n) = ToSet(q)
        <5>1. DOMAIN q = 1 .. n
          BY <2>2, LenProperties
        <5> QED
          BY <5>1 DEF FirstOf, ToSet
      <4> QED
        BY <1>2, <1>9, <2>3, <3>1, <3>3, <4>1
    <3> QED
      BY <3>2, <3>3
  <2>8. Scheduling(t, open, done, a)
    <3>1. /\ a.loaded \cap HasLoad \subseteq done \cup ToSet(a.queue)
          /\ ToSet(a.queue) \subseteq (a.loaded \cap HasLoad) \cup {NoClass}
          /\ ToSet(a.queue) \cap done = {}
      BY <1>2, <1>3, <1>4, <1>7, <1>11, <2>3
    <3> QED
      BY <1>7, <1>8, <2>3, <2>4, <2>6, <2>7, <3>1 DEF Scheduling
  <2> QED
    BY <1>1, <1>4, <1>6, <1>7, <2>8
<1> QED
  BY <1>10, <1>11

\* Nothing that is open has been called but not marked.
Schedulable(t, open, done, s) ==
    /\ Ends(t) /\ Bound(t) /\ open \in SUBSET ImageClasses
    /\ \A d \in open : t.super[d] \in open \cup {NoClass}
    /\ NoClass \notin done /\ Scheduling(t, open, done, s) /\ open \cap done \subseteq s.loaded

\* ScheduleClass's recursion
SchedulingTo(f, t, s) ==
    f = [d \in ImageClasses \cup {NoClass} |->
           IF d \in s.loaded \cup {NoClass} THEN s ELSE AddClass(f[t.super[d]], d)]

\* schedule_class_load: the class and all above it
LEMMA ScheduleClassKeeps ==
  ASSUME NEW open, NEW done, NEW s, Schedulable(rt, open, done, s), NEW c \in open
  PROVE  /\ Schedulable(rt, open, done, ScheduleClass(s, c))
         /\ s.loaded \subseteq ScheduleClass(s, c).loaded /\ c \in ScheduleClass(s, c).loaded
<1>0. PICK t : /\ t = rt /\ Ends(t) /\ Bound(t) /\ open \in SUBSET ImageClasses
               /\ \A d \in open : t.super[d] \in open \cup {NoClass}
               /\ NoClass \notin done /\ Scheduling(t, open, done, s) /\ open \cap done \subseteq s.loaded
  BY DEF Schedulable
<1> DEFINE X == s.loaded
           D == ImageClasses \cup {NoClass}
           stop == X \cup {NoClass}
           V == [loaded : SUBSET D, queue : Seq(D)]
           g == [p \in V \X D |-> AddClass(p[1], p[2])]
<1>1. X \in SUBSET open /\ s \in V
  BY <1>0 DEF Scheduling
<1>2. X \in SUBSET Classes /\ ImageClasses \cup X = ImageClasses /\ NoClass \notin Classes
  BY <1>0, <1>1, ClassesAssumption DEF Classes
<1>3. PICK b, rank : Ranks(rank, b, D, t.super, stop)
  <2>1. \E b, rank : Ranks(rank, b, ImageClasses \cup X \cup {NoClass}, t.super, X \cup {NoClass})
    BY <1>0, <1>2, BoundRanks
  <2> QED
    BY <1>2, <2>1
<1>4. g \in [V \X D -> V]
  <2>1. ASSUME NEW v \in V, NEW d \in D
        PROVE  AddClass(v, d) \in V
    <3>1. v.queue \in Seq(D) /\ v.loaded \in SUBSET D
      OBVIOUS
    <3>2. Append(v.queue, d) \in Seq(D)
      BY <3>1, AppendProperties
    <3>3. PICK q : q = IF d \in HasLoad THEN Append(v.queue, d) ELSE v.queue
      OBVIOUS
    <3>4. AddClass(v, d) = [loaded |-> v.loaded \cup {d}, queue |-> q] /\ q \in Seq(D)
      BY <3>1, <3>2, <3>3 DEF AddClass
    <3> QED
      BY <3>1, <3>4
  <2> HIDE DEF V, D
  <2> QED
    BY <2>1
<1>5. PICK f \in [D -> V] : \A d \in D : f[d] = IF d \in stop THEN s ELSE g[<<f[t.super[d]], d>>]
  <2> HIDE DEF D, g, stop, V
  <2>1. \E f : ClimbIn(f, D, t.super, stop, V, s, g)
    BY <1>1, <1>3, <1>4, TypedClimb
  <2> QED
    BY <2>1 DEF ClimbIn
<1>6. \A d \in D \ stop : d \in ImageClasses /\ t.super[d] \in D
  BY <1>3 DEF Ranks
<1>7. ASSUME NEW d \in D
      PROVE  f[d] = IF d \in stop THEN s ELSE AddClass(f[t.super[d]], d)
  <2>1. CASE d \in stop
    BY <1>5, <2>1
  <2>2. CASE d \notin stop
    <3>1. f[t.super[d]] \in V
      BY <1>6, <2>2
    <3> HIDE DEF D, stop, V
    <3>2. f[d] = g[<<f[t.super[d]], d>>]
      BY <1>5, <2>2
    <3> QED
      BY <2>2, <3>1, <3>2
  <2> QED
    BY <2>1, <2>2
<1>8. SchedulingTo(f, t, s)
  <2>1. f = [d \in D |-> f[d]]
    OBVIOUS
  <2>2. f = [d \in D |-> IF d \in stop THEN s ELSE AddClass(f[t.super[d]], d)]
    <3> HIDE DEF D, stop, g
    <3> QED
      BY <1>7, <2>1, Zenon
  <2> QED
    BY <2>2 DEF SchedulingTo
<1>9. PICK h : h = (CHOOSE w : SchedulingTo(w, rt, s)) /\ SchedulingTo(h, t, s)
  BY <1>0, <1>8, Zenon
<1>10. ScheduleClass(s, c) = h[c]
  BY <1>9, Zenon DEF ScheduleClass, SchedulingTo
<1>11. \A d \in D : h[d] = IF d \in stop THEN s ELSE AddClass(h[t.super[d]], d)
  BY <1>9, Zenon DEF SchedulingTo
<1> DEFINE Good(d, v) == /\ Scheduling(t, open, done, v) /\ s.loaded \subseteq v.loaded
                         /\ d \in v.loaded \cup {NoClass}
                         /\ \A e \in v.loaded \ s.loaded : rank[e] <= rank[d]
           R == [d \in D |-> {v \in {h[d]} : d \in open \cup {NoClass} => Good(d, v)}]
<1>12. \A d \in D \cap stop : h[d] \in R[d]
  <2> SUFFICES ASSUME NEW d \in D \cap stop
               PROVE  h[d] \in R[d]
    OBVIOUS
  <2>1. h[d] = s
    <3> HIDE DEF D, stop
    <3> QED
      BY <1>11
  <2>2. Good(d, s)
    BY <1>0
  <2> QED
    BY <2>1, <2>2
<1>13. ASSUME NEW d \in D \ stop, h[t.super[d]] \in R[t.super[d]]
       PROVE  h[d] \in R[d]
  <2> SUFFICES ASSUME d \in open
               PROVE  Good(d, h[d])
    OBVIOUS
  <2>1. PICK p : p = t.super[d]
    OBVIOUS
  <2>2. d \in ImageClasses /\ d \notin s.loaded /\ p \in D /\ p \in open \cup {NoClass}
    BY <1>0, <1>6, <2>1
  <2>3. b \in Nat /\ rank \in [D -> 0 .. b] /\ rank[p] < rank[d]
    BY <1>3, <2>1 DEF Ranks
  <2>4. PICK u : u = h[p]
    OBVIOUS
  <2>5. Good(p, u)
    BY <1>13, <2>1, <2>2, <2>4
  <2>6. d \notin u.loaded
    BY <2>2, <2>3, <2>5
  <2>7. open \cap done \subseteq u.loaded
    BY <1>0, <2>5
  <2>8. PICK v : v = AddClass(u, d)
    OBVIOUS
  <2>9. Scheduling(t, open, done, v) /\ v.loaded = u.loaded \cup {d}
    <3>1. Addable(t, open, done, u, d)
      BY <1>0, <2>1, <2>5, <2>6, <2>7 DEF Addable
    <3> HIDE DEF Good
    <3>3. Scheduling(t, open, done, AddClass(u, d)) /\ AddClass(u, d).loaded = u.loaded \cup {d}
      BY <3>1, AddClassKeeps
    <3> QED
      BY <2>8, <3>3
  <2>10. h[d] = v
    <3> HIDE DEF D, stop
    <3> QED
      BY <1>11, <2>1, <2>4, <2>8
  <2>11. \A e \in v.loaded \ s.loaded : rank[e] <= rank[d]
    <3> SUFFICES ASSUME NEW e \in v.loaded \ s.loaded
                 PROVE  rank[e] <= rank[d]
      OBVIOUS
    <3>1. e \in D /\ d \in D
      BY <1>0, <2>2, <2>9 DEF Scheduling
    <3>2. rank[e] \in Nat /\ rank[d] \in Nat /\ rank[p] \in Nat
      BY <2>2, <2>3, <3>1
    <3>3. e = d \/ rank[e] <= rank[p]
      BY <2>5, <2>9
    <3> QED
      BY <2>3, <3>2, <3>3
  <2> QED
    BY <2>5, <2>9, <2>10, <2>11
<1>14. \A d \in D : h[d] \in R[d]
  <2> HIDE DEF D, stop, R, Good, V, g, X
  <2>1. \A d \in D \ stop : h[t.super[d]] \in R[t.super[d]] => h[d] \in R[d]
    BY <1>13
  <2>2. PICK up, q : up = t.super /\ q = stop
    OBVIOUS
  <2>3. /\ \A d \in D \cap q : h[d] \in R[d]
        /\ \A d \in D \ q : h[up[d]] \in R[up[d]] => h[d] \in R[d]
    BY <1>12, <2>1, <2>2
  <2>4. Ranks(rank, b, D, up, q)
    BY <1>3, <2>2
  <2> QED
    BY <2>3, <2>4, ClimbKeeps
<1>15. c \in D /\ c # NoClass
  BY <1>0, <1>2 DEF Classes
<1>16. Good(c, h[c])
  BY <1>14, <1>15
<1>17. /\ Scheduling(t, open, done, h[c]) /\ s.loaded \subseteq h[c].loaded /\ c \in h[c].loaded
       /\ open \cap done \subseteq h[c].loaded
  BY <1>0, <1>15, <1>16
<1>18. Schedulable(rt, open, done, h[c])
  BY <1>0, <1>17 DEF Schedulable
<1> QED
  BY <1>10, <1>17, <1>18

\* ScheduleAll's loop
SchedulingAllTo(f, s, classes, set) ==
    f = [n \in 0 .. Len(classes) |->
           IF n = 0 THEN s
           ELSE IF classes[n] \in set THEN ScheduleClass(f[n - 1], classes[n]) ELSE f[n - 1]]

\* prepare_load_methods: the classes of a list
LEMMA ScheduleAllKeeps ==
  ASSUME NEW open, NEW done, NEW s, Schedulable(rt, open, done, s),
         NEW classes \in Seq(ImageClasses), NEW set, ToSet(classes) \cap set \subseteq open
  PROVE  /\ Scheduling(rt, open, done, ScheduleAll(s, classes, set))
         /\ s.loaded \cup (ToSet(classes) \cap set) \subseteq ScheduleAll(s, classes, set).loaded
<1>1. PICK N \in Nat : N = Len(classes) /\ ToSet(classes) = FirstOf(classes, N)
                      /\ \A i \in 1 .. N : classes[i] \in ToSet(classes)
  <2>1. Len(classes) \in Nat /\ DOMAIN classes = 1 .. Len(classes)
    BY SeqMembers
  <2> QED
    BY <2>1 DEF ToSet, FirstOf
<1> DEFINE V == {v \in [loaded : SUBSET open, queue : Seq(ImageClasses \cup {NoClass})] :
                   Schedulable(rt, open, done, v) /\ s.loaded \subseteq v.loaded}
           Turn(v, n) == IF classes[n] \in set THEN ScheduleClass(v, classes[n]) ELSE v
           g == [p \in V \X (1 .. N) |-> Turn(p[1], p[2])]
<1>2. ASSUME NEW v \in V, NEW n \in 1 .. N
      PROVE  /\ Turn(v, n) \in V /\ v.loaded \subseteq Turn(v, n).loaded
             /\ classes[n] \in set => classes[n] \in Turn(v, n).loaded
  <2>1. CASE classes[n] \in set
    <3>1. PICK c \in open : c = classes[n]
      BY <1>1, <2>1
    <3>2. PICK w : w = ScheduleClass(v, c)
      OBVIOUS
    <3>3. Schedulable(rt, open, done, w) /\ v.loaded \subseteq w.loaded /\ c \in w.loaded
      BY <3>2, ScheduleClassKeeps
    <3>4. w \in [loaded : SUBSET open, queue : Seq(ImageClasses \cup {NoClass})]
      BY <3>3 DEF Schedulable, Scheduling
    <3>5. Turn(v, n) = w
      BY <2>1, <3>1, <3>2
    <3> HIDE DEF Turn
    <3> QED
      BY <3>1, <3>3, <3>4, <3>5
  <2>2. CASE classes[n] \notin set
    <3>1. Turn(v, n) = v
      BY <2>2
    <3> HIDE DEF Turn
    <3> QED
      BY <2>2, <3>1
  <2> QED
    BY <2>1, <2>2
<1>3. g \in [V \X (1 .. N) -> V]
  <2> HIDE DEF V, Turn
  <2> QED
    BY <1>2
<1>4. s \in V
  BY DEF Schedulable, Scheduling
<1>5. PICK f \in [0 .. N -> V] : f[0] = s /\ \A i \in 1 .. N : f[i] = g[<<f[i - 1], i>>]
  <2> HIDE DEF V, Turn, g
  <2>1. \E f : LoopIn(f, N, V, s, g)
    BY <1>3, <1>4, TypedLoop
  <2> QED
    BY <2>1 DEF LoopIn
<1>6. \A i \in 1 .. N : f[i] = Turn(f[i - 1], i)
  <2> SUFFICES ASSUME NEW i \in 1 .. N
               PROVE  f[i] = Turn(f[i - 1], i)
    OBVIOUS
  <2>1. i - 1 \in 0 .. N
    OBVIOUS
  <2>2. f[i - 1] \in V
    BY <2>1
  <2> HIDE DEF V, Turn
  <2> QED
    BY <1>5, <2>2
<1>7. \A i \in 0 .. N : f[i] = IF i = 0 THEN s ELSE Turn(f[i - 1], i)
  <2> HIDE DEF V, Turn, g
  <2> QED
    BY <1>5, <1>6
<1>8. SchedulingAllTo(f, s, classes, set)
  <2>1. f = [i \in 0 .. N |-> f[i]]
    OBVIOUS
  <2>2. f = [i \in 0 .. N |-> IF i = 0 THEN s ELSE Turn(f[i - 1], i)]
    <3> HIDE DEF V, Turn, g
    <3> QED
      BY <1>7, <2>1, Zenon
  <2> QED
    BY <1>1, <2>2 DEF SchedulingAllTo
<1>9. PICK h : h = (CHOOSE w : SchedulingAllTo(w, s, classes, set)) /\ SchedulingAllTo(h, s, classes, set)
  BY <1>8, Zenon
<1>10. ScheduleAll(s, classes, set) = h[N]
  BY <1>1, <1>9, Zenon DEF ScheduleAll, SchedulingAllTo
<1>11. \A i \in 0 .. N : h[i] = IF i = 0 THEN s ELSE Turn(h[i - 1], i)
  BY <1>1, <1>9, Zenon DEF SchedulingAllTo
<1> DEFINE R == [i \in 0 .. N |-> {v \in V : FirstOf(classes, i) \cap set \subseteq v.loaded}]
<1>12. \A i \in 0 .. N : h[i] \in R[i]
  <2>1. h[0] \in R[0]
    <3>1. 0 \in 0 .. N /\ FirstOf(classes, 0) = {}
      BY DEF FirstOf
    <3>2. h[0] = s
      <4> HIDE DEF V, Turn
      <4> QED
        BY <1>11, <3>1
    <3> HIDE DEF V
    <3> QED
      BY <1>4, <3>1, <3>2
  <2>2. ASSUME NEW i \in 1 .. N, h[i - 1] \in R[i - 1]
        PROVE  h[i] \in R[i]
    <3> HIDE DEF V, Turn
    <3>1. h[i - 1] \in V /\ i \in 0 .. N /\ i - 1 \in 0 .. N /\ i # 0
          /\ FirstOf(classes, i - 1) \cap set \subseteq h[i - 1].loaded
      BY <2>2
    <3>2. h[i] = Turn(h[i - 1], i)
      BY <1>11, <3>1
    <3>3. FirstOf(classes, i) = FirstOf(classes, i - 1) \cup {classes[i]}
      BY DEF FirstOf
    <3>4. /\ h[i] \in V /\ h[i - 1].loaded \subseteq h[i].loaded
          /\ classes[i] \in set => classes[i] \in h[i].loaded
      BY <1>2, <3>1, <3>2
    <3> QED
      BY <3>1, <3>3, <3>4
  <2> HIDE DEF R
  <2> QED
    BY <2>1, <2>2, LoopKeeps
<1>13. h[N] \in V /\ FirstOf(classes, N) \cap set \subseteq h[N].loaded
  <2>1. N \in 0 .. N
    OBVIOUS
  <2> QED
    BY <1>12, <2>1
<1> QED
  BY <1>1, <1>10, <1>13 DEF Schedulable

-----------------------------------------------------------------------------
(* What the program does to classes, and what images list                   *)

\* objc_class::setInitialized
LEMMA SetInitializedSame ==
  ASSUME NEW t \in RT, NEW c \in Classes
  PROVE  SetInitialized(t, c) \in RT /\ SameCore(t, SetInitialized(t, c))
<1>1. PICK S, D : /\ S = t.initialized \cup {c}
                  /\ D = [s \in Sides |-> IF IsCustom(t, c, s) THEN t.default[s] ELSE t.default[s] \cup {c}]
  OBVIOUS
<1>2. S \in SUBSET Classes /\ D \in [Sides -> SUBSET Classes]
  <2>1. t.initialized \in SUBSET Classes /\ t.default \in [Sides -> SUBSET Classes]
    BY Fields
  <2> QED
    BY <1>1, <2>1
<1>3. SetInitialized(t, c) = [t EXCEPT !.initialized = S, !.default = D]
  BY <1>1 DEF SetInitialized
<1> QED
  BY <1>2, <1>3, PutMethods

\* method_setImplementation
LEMMA SetImplementationSame ==
  ASSUME NEW t \in RT, NEW s \in Sides
  PROVE  SetImplementation(t, s) \in RT /\ SameCore(t, SetImplementation(t, s))
<1>1. PICK B : B = [t.replaced EXCEPT ![s] = TRUE]
  OBVIOUS
<1>2. B \in [Sides -> BOOLEAN]
  BY <1>1, Fields
<1>3. PICK u : u = [t EXCEPT !.replaced = B]
  OBVIOUS
<1>4. u \in RT /\ SameCore(t, u)
  BY <1>2, <1>3, PutMethods
<1>5. PICK W : W = [u.swizzled EXCEPT ![s] = TRUE]
  OBVIOUS
<1>6. W \in [Sides -> BOOLEAN]
  BY <1>4, <1>5, Fields
<1>7. PICK v : v = [u EXCEPT !.swizzled = W]
  OBVIOUS
<1>8. v \in RT /\ SameCore(u, v)
  BY <1>4, <1>6, <1>7, PutMethods
<1>9. PICK w : w = SetHasCustom(u, NSObject, s)
  OBVIOUS
<1>10. w \in RT /\ SameCore(u, w)
  <2>1. NSObject \in Classes
    BY ClassesAssumption DEF Classes
  <2> QED
    BY <1>4, <1>9, <2>1, SetHasCustomSame
<1>11. SetImplementation(t, s) = UpdateCustom(u, s)
  BY <1>1, <1>3 DEF SetImplementation
<1>12. UpdateCustom(u, s) \in {u, v, w}
  BY <1>5, <1>7, <1>9 DEF UpdateCustom
<1> QED
  BY <1>4, <1>8, <1>10, <1>11, <1>12, SameTwice

\* No image has been read.
LEMMA NoTablesSound ==
  ASSUME NEW debug \in DebugIvars, NEW size \in RootSizes, NEW t, t = NoTables(debug, size)
  PROVE  TablesSound(t) /\ t.loaded = {} /\ t.ignored = {}
<1>1. /\ NoClass \notin Classes /\ ImageClasses \subseteq Classes /\ ImageClasses \cap RuntimeClasses = {}
      /\ NSObject \in ImageClasses /\ Compiled \in [ImageClasses -> Layouts]
      /\ Superclass \in [ImageClasses -> ImageClasses \cup {NoClass}]
      /\ \A c \in ImageClasses : Sound(Compiled[c])
      /\ debug \in BOOLEAN /\ size \in Nat /\ Sound([Compiled[NSObject] EXCEPT !.size = size])
  BY ClassesAssumption, ImagesAssumption DEF Classes
<1>2. PICK S : S = [c \in Classes |-> IF c \in ImageClasses THEN Superclass[c] ELSE NoClass]
  OBVIOUS
<1>3. PICK Y : Y = [c \in Classes |-> CASE c = NSObject -> [Compiled[c] EXCEPT !.size = size]
                                        [] c \in RuntimeClasses -> NoLayout
                                        [] OTHER -> Compiled[c]]
  OBVIOUS
<1>4. PICK N, D, F, U : /\ N = NoLists /\ D = [s \in Sides |-> {}] /\ F = [s \in Sides |-> FALSE]
                        /\ U = [c \in Classes |-> {}]
  OBVIOUS
<1>5. t = [ super |-> S, named |-> {}, future |-> {}, ignored |-> {}, realized |-> {},
            constructing |-> {}, loaded |-> {}, rawIsa |-> {}, initialized |-> {},
            subclasses |-> U, lists |-> N, unattached |-> N, default |-> D,
            swizzled |-> F, replaced |-> F, debugIvars |-> debug, layout |-> Y ]
  BY <1>2, <1>3, <1>4 DEF NoTables
<1>6. /\ S \in [Classes -> Classes \cup {NoClass}] /\ U \in [Classes -> SUBSET Classes]
      /\ D \in [Sides -> SUBSET Classes] /\ F \in [Sides -> BOOLEAN]
  BY <1>1, <1>2, <1>4
<1>7. /\ N \in [Classes -> [Sides -> Seq(MethodLists)]]
      /\ N \in [Classes -> [Sides -> Seq(Categories)]]
  <2>1. <<>> \in Seq(MethodLists) /\ <<>> \in Seq(Categories)
    OBVIOUS
  <2> QED
    BY <1>4, <2>1 DEF NoLists
<1>8. ASSUME NEW c \in Classes
      PROVE  /\ Y[c] \in Layouts /\ Sound(Y[c])
             /\ c \in ImageClasses => CompiledLayout(Y[c])
  <2>1. CASE c \in RuntimeClasses
    <3>1. PICK l \in Layouts : l = NoLayout /\ Sound(l)
      BY EmptyLayout DEF NoLayout
    <3>2. Y[c] = NoLayout
      BY <1>1, <1>3, <2>1
    <3> QED
      BY <1>1, <2>1, <3>1, <3>2
  <2>2. CASE c \in ImageClasses
    <3>1. PICK l \in Layouts : l = Compiled[c]
      BY <1>1, <2>2
    <3>2. CompiledLayout(l)
      <4>1. \A n \in DOMAIN l.ivars : l.ivars[n].align \in Alignments
        BY <2>2, <3>1 DEF Alignments, ToSet
      <4> QED
        BY <4>1 DEF CompiledLayout
    <3>3. CASE c = NSObject
      <4>1. PICK m : m = [l EXCEPT !.size = size]
        OBVIOUS
      <4>2. Y[c] = m
        <5>1. c \notin RuntimeClasses
          BY <1>1, <2>2
        <5>2. Y[c] = [Compiled[c] EXCEPT !.size = size]
          BY <1>3, <3>3, <5>1
        <5> QED
          BY <3>1, <4>1, <5>2
      <4>3. m \in Layouts /\ m.ivars = l.ivars
        BY <1>1, <4>1 DEF Layouts
      <4>4. Sound(m)
        BY <1>1, <3>1, <3>3, <4>1
      <4> QED
        BY <3>2, <4>2, <4>3, <4>4 DEF CompiledLayout
    <3>4. CASE c # NSObject
      <4>1. Y[c] = l
        BY <1>1, <1>3, <2>2, <3>1, <3>4
      <4> QED
        BY <1>1, <2>2, <3>1, <3>2, <4>1
    <3> QED
      BY <3>3, <3>4
  <2> QED
    BY <2>1, <2>2 DEF Classes
<1>9. Y \in [Classes -> Layouts]
  BY <1>3, <1>8
<1>10. t \in TableTypes
  BY <1>1, <1>5, <1>6, <1>7, <1>9 DEF TableTypes
<1>11. /\ t.layout = Y /\ t.super = S /\ t.realized = {} /\ t.named = {} /\ t.ignored = {}
       /\ t.future = {} /\ t.constructing = {} /\ t.loaded = {}
  BY <1>5
<1>12. t \in RT
  BY <1>8, <1>10, <1>11 DEF RT
<1>13. Laid(t)
  BY <1>11 DEF Laid
<1>14. Bound(t)
  BY <1>1, <1>2, <1>11 DEF Bound
<1>15. Tidy(t)
  BY <1>1, <1>2, <1>11 DEF Tidy, Classes
<1>16. Ends(t)
  <2>1. PICK depth \in [ImageClasses -> 0 .. Cardinality(Classes)] :
            \A c \in ImageClasses : Superclass[c] # NoClass => depth[Superclass[c]] < depth[c]
    BY ClassesAssumption
  <2>2. PICK b \in Nat : b = Cardinality(Classes)
    BY ClassesAssumption, FS_CardinalityType
  <2> DEFINE E == Classes \cup {NoClass}
             rank == [c \in E |-> IF c \in ImageClasses THEN depth[c] + 1 ELSE IF c = NoClass THEN 0 ELSE 1]
  <2>3. \A c \in ImageClasses : depth[c] \in Nat /\ depth[c] <= b
    BY <2>1, <2>2
  <2>4. rank \in [E -> 0 .. b + 1]
    BY <2>2, <2>3
  <2>5. ASSUME NEW c \in E \ {NoClass}
        PROVE  S[c] \in E /\ rank[S[c]] < rank[c]
    <3>1. CASE c \in ImageClasses
      <4>1. S[c] = Superclass[c] /\ Superclass[c] \in ImageClasses \cup {NoClass} /\ rank[c] = depth[c] + 1
        BY <1>1, <1>2, <3>1
      <4>2. CASE Superclass[c] = NoClass
        <5>1. rank[NoClass] = 0
          BY <1>1
        <5> QED
          BY <2>3, <3>1, <4>1, <4>2, <5>1
      <4>3. CASE Superclass[c] # NoClass
        <5>1. rank[Superclass[c]] = depth[Superclass[c]] + 1
          BY <1>1, <4>1, <4>3
        <5>2. depth[Superclass[c]] < depth[c] /\ depth[c] \in Nat /\ depth[Superclass[c]] \in Nat
          BY <2>1, <2>3, <3>1, <4>1, <4>3
        <5> QED
          BY <1>1, <4>1, <4>3, <5>1, <5>2
      <4> QED
        BY <4>2, <4>3
    <3>2. CASE c \notin ImageClasses
      BY <1>1, <1>2, <3>2
    <3> QED
      BY <3>1, <3>2
  <2> HIDE DEF rank
  <2>6. Ranks(rank, b + 1, E, t.super, {NoClass})
    BY <1>11, <2>2, <2>4, <2>5 DEF Ranks
  <2> QED
    BY <2>6 DEF Ends
<1> QED
  BY <1>11, <1>12, <1>13, <1>14, <1>15, <1>16 DEF TablesSound

\* What some images list, one after the other
LEMMA ListedMembers ==
  ASSUME NEW E, NEW list \in [Images -> Seq(E)], NEW new \in SUBSET Images
  PROVE  /\ Listed(list, new) \in Seq(E)
         /\ ToSet(Listed(list, new)) = UNION {ToSet(list[i]) : i \in new}
<1>1. PICK N \in Nat : N = Len(ImageOrder) /\ DOMAIN ImageOrder = 1 .. N
                       /\ \A i : i \in Images <=> \E n \in 1 .. N : ImageOrder[n] = i
  <2>1. ImageOrder \in Seq(Images) /\ ToSet(ImageOrder) = Images
    BY ImagesAssumption
  <2> QED
    BY <2>1, SeqMembers
<1>2. PICK s : s = [n \in 1 .. N |-> IF ImageOrder[n] \in new THEN list[ImageOrder[n]] ELSE <<>>]
  OBVIOUS
<1>3. \A n \in 1 .. N : s[n] \in Seq(E)
  <2>1. <<>> \in Seq(E)
    OBVIOUS
  <2> QED
    BY <1>2, <2>1
<1>4. s \in Seq(Seq(E)) /\ Len(s) = N
  BY <1>2, <1>3
<1>5. Listed(list, new) = FlattenSeq(s)
  BY <1>1, <1>2 DEF Listed
<1>6. Listed(list, new) \in Seq(E) /\ ToSet(Listed(list, new)) = UNION {ToSet(s[n]) : n \in 1 .. N}
  BY <1>4, <1>5, FlattenMembers
<1>7. UNION {ToSet(s[n]) : n \in 1 .. N} = UNION {ToSet(list[i]) : i \in new}
  <2>1. ToSet(<<>>) = {}
    BY DEF ToSet
  <2>2. ASSUME NEW x, NEW n \in 1 .. N, x \in ToSet(s[n])
        PROVE  \E i \in new : x \in ToSet(list[i])
    BY <1>2, <2>1, <2>2
  <2>3. ASSUME NEW x, NEW i \in new, x \in ToSet(list[i])
        PROVE  \E n \in 1 .. N : x \in ToSet(s[n])
    <3>1. PICK n \in 1 .. N : ImageOrder[n] = i
      BY <1>1
    <3>2. s[n] = list[i]
      BY <1>2, <3>1
    <3> QED
      BY <2>3, <3>2
  <2> QED
    BY <2>2, <2>3
<1> QED
  BY <1>6, <1>7

-----------------------------------------------------------------------------
(* The tables are sound, whatever happens                                   *)

\* What the loading of images needs is as it was.
LoadingSame(t, u) ==
    /\ u.ignored = t.ignored /\ u.loaded \subseteq t.loaded
    /\ t.loaded \cap ImageClasses \subseteq u.loaded
    /\ \A c \in ImageClasses : u.super[c] = t.super[c]

\* Methods have no part in loading.
LEMMA SameLoading ==
  ASSUME NEW t, NEW u, SameCore(t, u) \/ Grown(t, u)
  PROVE  LoadingSame(t, u)
  BY DEF SameCore, Grown, LoadingSame

\* What threads do to classes
LEMMA ThreadsKeepTables ==
  ASSUME TablesSound(rt), Threads
  PROVE  TablesSound(rt') /\ LoadingSame(rt, rt') /\ UNCHANGED <<images, queues, call, called>>
<1>1. PICK t, u : t = rt /\ u = rt'
  OBVIOUS
<1>2. t \in RT /\ Laid(t) /\ Bound(t) /\ Ends(t) /\ Tidy(t) /\ TablesSound(t)
  BY <1>1 DEF TablesSound
<1> DEFINE Goal == TablesSound(u) /\ LoadingSame(t, u) /\ UNCHANGED <<images, queues, call, called>>
<1>3. SUFFICES Goal
  BY <1>1
<1>4. \A c \in ImageClasses : c \notin RuntimeClasses
  BY ClassesAssumption
<1>5. ASSUME NEW v, v \in RT /\ SameCore(t, v)
      PROVE  TablesSound(v) /\ LoadingSame(t, v)
  BY <1>2, <1>5, SameSound, SameLoading
<1>6. ASSUME NEW c \in Classes, LookUp(c)
      PROVE  Goal
  <2>1. c \in t.named \ t.realized /\ u = Realize(t, c) /\ UNCHANGED <<images, queues, call, called>>
    BY <1>1, <1>6 DEF LookUp, Tables
  <2>2. c \in ImageClasses
    BY <1>2, <2>1 DEF Tidy, Classes
  <2>3. u \in RT /\ Grown(t, u) /\ Laid(u)
    BY <1>2, <2>1, <2>2, RealizeLays
  <2> QED
    BY <1>2, <2>1, <2>3, GrownSound, SameLoading
<1>7. ASSUME NEW c \in Classes, Initialize(c)
      PROVE  Goal
  <2>1. u = SetInitialized(t, c) /\ UNCHANGED <<images, queues, call, called>>
    BY <1>1, <1>7 DEF Initialize, Tables
  <2> QED
    BY <1>2, <1>5, <2>1, SetInitializedSame
<1>8. ASSUME NEW c \in Classes, NEW s \in Sides, ClassAddMethod(c, s)
      PROVE  Goal
  <2>1. u = AddMethod(t, c, s, FastMethod[s]) /\ UNCHANGED <<images, queues, call, called>>
    BY <1>1, <1>8 DEF ClassAddMethod, Tables
  <2>2. FastMethod[s] \in Sels
    BY DEF FastMethod, Sides, Sels
  <2> QED
    BY <1>2, <1>5, <2>1, <2>2, AddMethodSame
<1>9. ASSUME NEW c \in Futures, GetFutureClass(c)
      PROVE  Goal
  <2>1. u = [t EXCEPT !.future = @ \cup {c}] /\ UNCHANGED <<images, queues, call, called>>
    BY <1>1, <1>9 DEF GetFutureClass, Tables
  <2>2. c \in ImageClasses
    BY ImagesAssumption
  <2>3. TablesSound(u) /\ u.ignored = t.ignored /\ u.loaded = t.loaded /\ u.super = t.super
    BY <1>2, <2>1, <2>2, FutureSound
  <2> QED
    BY <2>1, <2>3 DEF LoadingSame
<1>10. ASSUME NEW s \in Sides, ReplaceDefault(s)
       PROVE  Goal
  <2>1. u = SetImplementation(t, s) /\ UNCHANGED <<images, queues, call, called>>
    BY <1>1, <1>10 DEF ReplaceDefault, Tables
  <2> QED
    BY <1>2, <1>5, <2>1, SetImplementationSame
<1>11. ASSUME NEW c \in RuntimeClasses, Register(c)
       PROVE  Goal
  <2>1. c \in t.constructing /\ u = RegisterClassPair(t, c) /\ UNCHANGED <<images, queues, call, called>>
    BY <1>1, <1>11 DEF Register, Tables
  <2>2. TablesSound(u) /\ u.ignored = t.ignored /\ u.loaded = t.loaded /\ u.super = t.super
    BY <1>2, <2>1, RegisterSound
  <2> QED
    BY <2>1, <2>2 DEF LoadingSame
<1>12. ASSUME NEW c \in RuntimeClasses, Dispose(c)
       PROVE  Goal
  <2>1. /\ t.subclasses[c] = {} /\ UNCHANGED <<images, queues, call, called>>
        /\ Disposed(u, t, c)
    BY <1>1, <1>12 DEF Dispose, Tables, Disposed
  <2>2. TablesSound(u) /\ u.ignored = t.ignored /\ u.loaded = t.loaded \ {c}
        /\ \A d \in ImageClasses : u.super[d] = t.super[d]
    <3>1. TablesSound(t)
      BY <1>2
    <3> HIDE DEF Goal
    <3> QED
      BY <2>1, <3>1, DisposeSound
  <2>3. u.loaded \subseteq t.loaded /\ t.loaded \cap ImageClasses \subseteq u.loaded
    BY <1>4, <2>2
  <2> QED
    BY <2>1, <2>2, <2>3 DEF LoadingSame
<1>13. ASSUME NEW c \in RuntimeClasses, NEW super \in Classes \cup {NoClass}, NewClass(c, super)
       PROVE  Goal
  <2>1. /\ c \notin t.realized
        /\ super = NoClass \/ (super \in t.realized /\ super \notin t.constructing)
        /\ u = AllocateClassPair(t, c, super) /\ UNCHANGED <<images, queues, call, called>>
    BY <1>1, <1>13 DEF NewClass, Tables
  <2>2. TablesSound(u) /\ u.ignored = t.ignored /\ u.loaded = t.loaded
        /\ \A d \in ImageClasses : u.super[d] = t.super[d]
    BY <1>2, <2>1, AllocateClassPairSound, AllocateRootSound
  <2> QED
    BY <2>1, <2>2 DEF LoadingSame
<1>14. ASSUME NEW c \in RuntimeClasses, NEW ivar \in Ivars, NewIvar(c, ivar)
       PROVE  Goal
  <2>1. /\ c \in t.constructing /\ u = AddIvar(t, c, ivar[1], ivar[2])
        /\ UNCHANGED <<images, queues, call, called>>
    BY <1>1, <1>14 DEF NewIvar, Tables
  <2>2. ivar[1] \in Nat /\ ivar[2] \in Nat \ {0}
    BY ImagesAssumption
  <2>3. TablesSound(u) /\ u.ignored = t.ignored /\ u.loaded = t.loaded /\ u.super = t.super
    BY <1>2, <2>1, <2>2, AddIvarSound
  <2> QED
    BY <2>1, <2>3 DEF LoadingSame
<1> HIDE DEF Goal
<1> QED
  BY <1>6, <1>7, <1>8, <1>9, <1>10, <1>11, <1>12, <1>13, <1>14 DEF Threads

\* map_2_images
LEMMA MapKeepsTables ==
  ASSUME TablesSound(rt), NEW new \in SUBSET Images, MapImages(new)
  PROVE  /\ TablesSound(rt') /\ rt'.loaded = rt.loaded
         /\ rt'.ignored = rt.ignored \cup {c \in UNION {ClassesOf(i) : i \in new} : MissingWeakSuperclass(rt, c)}
         /\ \A c \in Classes : rt'.super[c] = IF c \in UNION {ClassesOf(i) : i \in new} /\ MissingWeakSuperclass(rt, c)
                                              THEN NoClass ELSE rt.super[c]
<1>1. PICK cls, cats : cls = Listed(ClassList, new) /\ cats = Listed(CategoryList, new)
  OBVIOUS
<1>2. ClassList \in [Images -> Seq(ImageClasses)] /\ CategoryList \in [Images -> Seq(Categories)]
  BY ImagesAssumption
<1>3. cls \in Seq(ImageClasses) /\ cats \in Seq(Categories)
      /\ ToSet(cls) = UNION {ClassesOf(i) : i \in new}
  BY <1>1, <1>2, ListedMembers DEF ClassesOf
<1>4. rt' = ReadImages(rt, cls, cats)
  BY <1>1 DEF MapImages
<1>5. PICK t, u : t = rt /\ u = rt'
  OBVIOUS
<1>6. TablesSound(t) /\ u = ReadImages(t, cls, cats)
  BY <1>4, <1>5
<1>7. /\ TablesSound(u) /\ u.loaded = t.loaded
      /\ u.ignored = t.ignored \cup {c \in ToSet(cls) : MissingWeakSuperclass(t, c)}
      /\ \A c \in Classes : u.super[c] = IF c \in ToSet(cls) /\ MissingWeakSuperclass(t, c)
                                        THEN NoClass ELSE t.super[c]
  <2>1. cls \in Seq(ImageClasses) /\ cats \in Seq(Categories)
    BY <1>3
  <2>2. TablesSound(u) /\ u.loaded = t.loaded
    BY <1>6, <2>1, ReadImagesSound
  <2>3. u.ignored = t.ignored \cup {c \in ToSet(cls) : MissingWeakSuperclass(t, c)}
    BY <1>6, <2>1, ReadImagesSound
  <2>4. \A c \in Classes : u.super[c] = IF c \in ToSet(cls) /\ MissingWeakSuperclass(t, c)
                                        THEN NoClass ELSE t.super[c]
    BY <1>6, <2>1, ReadImagesSound
  <2> QED
    BY <2>2, <2>3, <2>4
<1> QED
  BY <1>3, <1>5, <1>7

\* load_images: what is realized is so for the categories that it lists.
LEMMA PrepareKeepsTables ==
  ASSUME TablesSound(rt), NEW loaded \in SUBSET ImageClasses, NEW image \in Images, NEW set,
         NEW targets, targets = [n \in DOMAIN CategoryList[image] |-> Target[CategoryList[image][n]]],
         NEW u, u = RealizeAll([rt EXCEPT !.loaded = loaded], targets, set)
  PROVE  TablesSound(u) /\ u.loaded = loaded /\ u.ignored = rt.ignored /\ u.super = rt.super
<1>1. PICK t : t = rt /\ TablesSound(t) /\ t \in RT /\ Laid(t) /\ Bound(t) /\ Ends(t) /\ Tidy(t)
  BY DEF TablesSound
<1>2. PICK v : v = [t EXCEPT !.loaded = loaded]
  OBVIOUS
<1>3. v \in RT
  BY <1>1, <1>2 DEF RT, TableTypes, Classes
<1>4. /\ v.super = t.super /\ v.future = t.future /\ v.ignored = t.ignored
      /\ v.realized = t.realized /\ v.loaded = loaded
      /\ v.subclasses = t.subclasses /\ v.layout = t.layout
      /\ v.constructing = t.constructing /\ v.named = t.named
  BY <1>1, <1>2 DEF RT, TableTypes
<1>5. Laid(v) /\ Bound(v) /\ Ends(v) /\ Tidy(v)
  <2>1. Laid(v)
    BY <1>1, <1>4 DEF Laid
  <2>2. Bound(v) /\ Ends(v)
    BY <1>1, <1>4 DEF Bound, Ends
  <2>3. Tidy(v)
    BY <1>1, <1>4 DEF Tidy
  <2> QED
    BY <2>1, <2>2, <2>3
<1>6. targets \in Seq(ImageClasses)
  <2>1. CategoryList[image] \in Seq(Categories)
    BY ImagesAssumption
  <2>2. PICK q \in Seq(Categories) : q = CategoryList[image]
    BY <2>1
  <2>3. Len(q) \in Nat /\ DOMAIN q = 1 .. Len(q) /\ \A n \in 1 .. Len(q) : q[n] \in Categories
    BY SeqMembers, ElementOfSeq
  <2>4. \A n \in 1 .. Len(q) : Target[q[n]] \in ImageClasses
    BY <2>3, ClassesAssumption
  <2> QED
    BY <2>2, <2>3, <2>4
<1>7. u = RealizeAll(v, targets, set) /\ ImageClasses \cap set \subseteq ImageClasses \cup v.realized
  BY <1>1, <1>2
<1>8. u \in RT /\ Grown(v, u) /\ Laid(u)
  BY <1>3, <1>5, <1>6, <1>7, RealizeAllLays
<1>9. TablesSound(u)
  BY <1>3, <1>5, <1>8, GrownSound DEF TablesSound
<1> QED
  BY <1>1, <1>4, <1>8, <1>9 DEF Grown

\* unmap_image: what is freed is what is not ignored.
LEMMA UnmapKeepsTables ==
  ASSUME TablesSound(rt), NEW image \in Images, UnmapImage(image)
  PROVE  /\ TablesSound(rt') /\ rt'.loaded = rt.loaded \ (ClassesOf(image) \ rt.ignored)
         /\ rt'.ignored = rt.ignored /\ rt'.super = rt.super
<1>1. PICK t : t = rt /\ TablesSound(t) /\ t \in RT /\ Laid(t) /\ Bound(t) /\ Ends(t) /\ Tidy(t)
  BY DEF TablesSound
<1>2. PICK v : v = RemoveUnattached(t, CategoriesOf(image))
  OBVIOUS
<1>3. v \in RT /\ SameCore(t, v)
  BY <1>1, <1>2, RemoveUnattachedSame
<1>4. TablesSound(v)
  BY <1>1, <1>3, SameSound
<1>5. PICK F : F = ClassesOf(image) \ t.ignored
  OBVIOUS
<1>6. ClassesOf(image) \in SUBSET ImageClasses
  BY ImagesAssumption, SeqMembers DEF ClassesOf
<1>7. F \in SUBSET Classes /\ F \cap RuntimeClasses = {}
  BY <1>5, <1>6, ClassesAssumption DEF Classes
<1>8. \A c \in v.realized \ F : v.super[c] \notin F
  <2> SUFFICES ASSUME NEW c \in t.realized \ F, t.super[c] \in F
               PROVE  FALSE
    BY <1>3 DEF SameCore
  <2>1. t.super[c] # NoClass /\ t.super[c] \in ClassesOf(image)
    BY <1>5, <1>7, ClassesAssumption
  <2>2. c \in t.subclasses[t.super[c]]
    BY <1>1, <2>1 DEF Laid
  <2>3. c \in ClassesOf(image)
    BY <1>1, <2>1, <2>2 DEF UnmapImage, Unused
  <2>4. c \in t.ignored
    BY <1>5, <2>3
  <2> QED
    BY <1>1, <2>1, <2>4 DEF Tidy
<1>9. rt' = Free(v, F)
  BY <1>1, <1>2, <1>5 DEF UnmapImage
<1>10. TablesSound(rt')
  BY <1>4, <1>7, <1>8, <1>9, FreeSound
<1>11. rt'.super = v.super /\ rt'.ignored = v.ignored /\ rt'.loaded = v.loaded \ F
  BY <1>3, <1>7, <1>9, FreeIs
<1> QED
  BY <1>1, <1>3, <1>5, <1>10, <1>11 DEF SameCore

-----------------------------------------------------------------------------
(* What loading keeps: who was scheduled, who waits, who was called         *)

\* The +load methods that have to run before x's
Needs(t, x) == (IF x \in Categories THEN {Target[x]} ELSE Above(t, x)) \cap HasLoad

\* The entries of a detached list from a place on
Coming(b, n) == {b[j] : j \in n .. Len(b)} \ {NoClass}

\* What was called, and what will be from b[n] on, comes after what it needs, and once.
Ordered(t, c, b, n) ==
    /\ \A i \in 1 .. Len(c) : Needs(t, c[i]) \subseteq FirstOf(c, i - 1)
    /\ \A i \in n .. Len(b) : b[i] # NoClass =>
         Needs(t, b[i]) \subseteq ToSet(c) \cup {b[j] : j \in n .. i - 1}
    /\ IsInjective(c)
    /\ \A i, j \in n .. Len(b) : b[i] = b[j] /\ b[i] # NoClass => i = j
    /\ ToSet(c) \cap Coming(b, n) = {}

\* The classes of these images that are not ignored
Open(t, m) == (UNION {ClassesOf(i) : i \in m}) \ t.ignored

\* Images are mapped with what they depend on. A class inherits from no ignored one.
ImagesFine(t, m, s, g) ==
    /\ m \subseteq Images /\ g \subseteq Images /\ m \cap g = {} /\ s \subseteq m \cup g
    /\ \A i \in m : Dependencies(i) \subseteq m
    /\ \A c \in Open(t, m) : t.super[c] \notin t.ignored

\* The categories that wait, given those whose +load was called or comes next.
CategoriesWait(m, s, done, cq, kq) ==
    /\ kq \in Seq(Categories \cup {NoClass}) /\ Distinct(kq) /\ ToSet(kq) \cap done = {}
    /\ \A k \in ToSet(kq) \ {NoClass} :
         /\ ImageOf(k) \in s \cap m
         /\ {Target[k]} \cap HasLoad \subseteq done \cup ToSet(cq)

\* What was called or comes next was scheduled; what was scheduled comes.
Accounted(t, m, s, g, done, kq) ==
    /\ done \subseteq ImageClasses \cup Categories
    /\ \A c \in done \cap ImageClasses : c \in t.loaded \/ ImageOf(c) \in g
    /\ \A k \in done \cap Categories : ImageOf(k) \in s /\ (ImageOf(k) \in g \/ Target[k] \notin t.ignored)
    /\ \A k \in ToSet(kq) \ {NoClass} : Target[k] \notin t.ignored
    /\ \A i \in s \ g : /\ \A c \in (ClassesOf(i) \cap HasLoad) \ t.ignored : c \in t.loaded
                        /\ \A k \in CategoriesOf(i) \cap HasLoad :
                             Target[k] \notin t.ignored => k \in done \cup ToSet(kq)

Pending(t, m, s, g, done, cq, kq) ==
    /\ ImagesFine(t, m, s, g)
    /\ Scheduling(t, Open(t, m), done, [loaded |-> t.loaded, queue |-> cq])
    /\ CategoriesWait(m, s, done, cq, kq)
    /\ Accounted(t, m, s, g, done, kq)

\* Where call_load_methods goes on when the +load that runs returns
Here == IF running THEN at + 1 ELSE at

\* What was called or will be without being looked for again
Done == ToSet(called) \cup Coming(batch, Here)

\* call_load_methods
CallFine ==
    /\ called \in Seq(ImageClasses \cup Categories)
    /\ batch \in Seq(ImageClasses \cup Categories \cup {NoClass})
    /\ at \in Nat \ {0} /\ running \in BOOLEAN
    /\ running => at <= Len(batch)
    /\ phase \in {"idle", "start"} => batch = <<>> /\ at = 1 /\ ~running
    /\ phase = "idle" => classQueue = <<>> /\ catQueue = <<>>

LoaderInv ==
    /\ TablesSound(rt) /\ CallFine
    /\ Ordered(rt, called, batch, Here)
    /\ Pending(rt, mapped, scheduled, gone, Done, classQueue, catQueue)

-----------------------------------------------------------------------------
(* The +load methods are called one by one                                  *)

Loads == ImageClasses \cup Categories

\* nil, classes and categories are told apart.
LEMMA NilLoads == NoClass \notin Loads /\ NoClass \notin Classes /\ ImageClasses \cap Categories = {}
  BY ClassesAssumption DEF Loads, Classes

\* A class that has less above it needs less.
LEMMA NeedsLess ==
  ASSUME NEW t, NEW u, \A x \in ImageClasses : Lineage(u, x) \subseteq Lineage(t, x)
  PROVE  \A x \in Loads : Needs(u, x) \subseteq Needs(t, x)
  BY DEF Needs, Above, Loads

\* Nothing needs nil.
LEMMA NeedsType ==
  ASSUME NEW t, NEW x \in Loads
  PROVE  NoClass \notin Needs(t, x)
  BY NilLoads, ClassesAssumption DEF Needs, Loads

\* Less is needed.
LEMMA OrderedLess ==
  ASSUME NEW t, NEW u, \A x \in Loads : Needs(u, x) \subseteq Needs(t, x),
         NEW c \in Seq(Loads), NEW b \in Seq(Loads \cup {NoClass}), NEW n \in Nat \ {0}, Ordered(t, c, b, n)
  PROVE  Ordered(u, c, b, n)
<1>1. /\ \A i \in 1 .. Len(c) : c[i] \in Loads
      /\ \A i \in n .. Len(b) : b[i] # NoClass => b[i] \in Loads
  <2>1. Len(c) \in Nat /\ Len(b) \in Nat
    BY LenProperties
  <2>2. \A i \in 1 .. Len(b) : b[i] \in Loads \cup {NoClass}
    BY ElementOfSeq
  <2>3. \A i \in n .. Len(b) : i \in 1 .. Len(b)
    BY <2>1
  <2> QED
    BY <2>2, <2>3, ElementOfSeq
<1>2. \A i \in 1 .. Len(c) : Needs(u, c[i]) \subseteq FirstOf(c, i - 1)
  BY <1>1 DEF Ordered
<1>3. \A i \in n .. Len(b) : b[i] # NoClass => Needs(u, b[i]) \subseteq ToSet(c) \cup {b[j] : j \in n .. i - 1}
  <2> SUFFICES ASSUME NEW i \in n .. Len(b), b[i] # NoClass
               PROVE  Needs(u, b[i]) \subseteq ToSet(c) \cup {b[j] : j \in n .. i - 1}
    OBVIOUS
  <2>1. Needs(t, b[i]) \subseteq ToSet(c) \cup {b[j] : j \in n .. i - 1}
    BY DEF Ordered
  <2> QED
    BY <1>1, <2>1
<1> QED
  BY <1>2, <1>3 DEF Ordered

\* The next one is called, and the order is kept.
NextCalled(t, c, b, n) ==
    /\ Append(c, b[n]) \in Seq(Loads) /\ Ordered(t, Append(c, b[n]), b, n + 1)
    /\ ToSet(Append(c, b[n])) \cup Coming(b, n + 1) = ToSet(c) \cup Coming(b, n)

\* So it is.
LEMMA OrderedCall ==
  ASSUME NEW t, NEW c \in Seq(Loads), NEW b \in Seq(Loads \cup {NoClass}), NEW n \in 1 .. Len(b),
         Ordered(t, c, b, n), b[n] # NoClass
  PROVE  NextCalled(t, c, b, n)
<1>1. PICK N \in Nat, m \in Nat : N = Len(b) /\ m = Len(c) /\ n \in Nat /\ n <= N
  BY LenProperties
<1>2. PICK x \in Loads : x = b[n]
  BY <1>1, ElementOfSeq
<1>3. PICK d : d = Append(c, x)
  OBVIOUS
<1>4. /\ d \in Seq(Loads) /\ ToSet(d) = ToSet(c) \cup {x} /\ Len(d) = m + 1 /\ d[m + 1] = x
      /\ \A i \in 1 .. m : d[i] = c[i]
  BY <1>1, <1>3, AppendMembers
<1>5. /\ \A i \in 1 .. m : Needs(t, c[i]) \subseteq FirstOf(c, i - 1)
      /\ \A i \in n .. N : b[i] # NoClass => Needs(t, b[i]) \subseteq ToSet(c) \cup {b[j] : j \in n .. i - 1}
      /\ IsInjective(c) /\ \A i, j \in n .. N : b[i] = b[j] /\ b[i] # NoClass => i = j
      /\ ToSet(c) \cap Coming(b, n) = {}
  BY <1>1 DEF Ordered
<1>6. n .. N = {n} \cup (n + 1 .. N) /\ n \notin n + 1 .. N
  BY <1>1
<1>7. x \in Coming(b, n) /\ Coming(b, n) = Coming(b, n + 1) \cup {x} /\ x \notin Coming(b, n + 1)
  <2>1. Coming(b, n) = {b[j] : j \in n .. N} \ {NoClass} /\ Coming(b, n + 1) = {b[j] : j \in n + 1 .. N} \ {NoClass}
    BY <1>1 DEF Coming
  <2>2. x \notin Coming(b, n + 1)
    BY <1>2, <1>5, <1>6, <2>1
  <2>3. Coming(b, n) = Coming(b, n + 1) \cup {x}
    BY <1>2, <1>6, <2>1, NilLoads
  <2> QED
    BY <2>2, <2>3
<1>8. \A i \in 1 .. m + 1 : FirstOf(d, i - 1) = FirstOf(c, i - 1)
  <2> SUFFICES ASSUME NEW i \in 1 .. m + 1
               PROVE  FirstOf(d, i - 1) = FirstOf(c, i - 1)
    OBVIOUS
  <2>1. \A j \in 1 .. i - 1 : d[j] = c[j]
    BY <1>4
  <2> QED
    BY <2>1 DEF FirstOf
<1>9. FirstOf(c, m) = ToSet(c)
  BY <1>1, SeqMembers DEF FirstOf, ToSet
<1>10. \A i \in 1 .. m + 1 : Needs(t, d[i]) \subseteq FirstOf(d, i - 1)
  <2> SUFFICES ASSUME NEW i \in 1 .. m + 1
               PROVE  Needs(t, d[i]) \subseteq FirstOf(d, i - 1)
    OBVIOUS
  <2>1. CASE i \in 1 .. m
    BY <1>4, <1>5, <1>8, <2>1
  <2>2. CASE i = m + 1
    <3>1. Needs(t, x) \subseteq ToSet(c) \cup {b[j] : j \in n .. n - 1}
      BY <1>2, <1>5, <1>6, NilLoads
    <3>2. n .. n - 1 = {}
      BY <1>1
    <3>3. Needs(t, x) \subseteq ToSet(c)
      BY <3>1, <3>2
    <3>4. i - 1 = m /\ d[i] = x
      BY <1>1, <1>4, <2>2
    <3>5. FirstOf(d, i - 1) = ToSet(c)
      BY <1>8, <1>9, <3>4
    <3> QED
      BY <3>3, <3>4, <3>5
  <2> QED
    BY <2>1, <2>2
<1>11. \A i \in n + 1 .. N : b[i] # NoClass => Needs(t, b[i]) \subseteq ToSet(d) \cup {b[j] : j \in n + 1 .. i - 1}
  <2> SUFFICES ASSUME NEW i \in n + 1 .. N, b[i] # NoClass
               PROVE  Needs(t, b[i]) \subseteq ToSet(d) \cup {b[j] : j \in n + 1 .. i - 1}
    OBVIOUS
  <2>1. Needs(t, b[i]) \subseteq ToSet(c) \cup {b[j] : j \in n .. i - 1}
    BY <1>5, <1>6
  <2>2. \A j \in n .. i - 1 : j = n \/ j \in n + 1 .. i - 1
    BY <1>1
  <2> QED
    BY <1>2, <1>4, <2>1, <2>2
<1>12. IsInjective(d)
  <2>1. IsInjective(c) /\ x \notin ToSet(c)
    BY <1>5, <1>7
  <2>2. \A i, j \in 1 .. m : c[i] = c[j] => i = j
    BY <1>1, <2>1, SeqMembers
  <2>3. \A i \in 1 .. m : c[i] # x
    BY <1>1, <2>1, SeqMembers
  <2>4. ASSUME NEW i \in 1 .. m + 1, NEW j \in 1 .. m + 1, d[i] = d[j]
        PROVE  i = j
    <3>1. (i \in 1 .. m \/ i = m + 1) /\ (j \in 1 .. m \/ j = m + 1)
      OBVIOUS
    <3> QED
      BY <1>4, <2>2, <2>3, <2>4, <3>1
  <2> QED
    BY <1>4, <2>4, SeqMembers
<1>13. ToSet(d) \cap Coming(b, n + 1) = {}
  BY <1>4, <1>5, <1>7
<1>14. Ordered(t, d, b, n + 1)
  BY <1>1, <1>4, <1>5, <1>6, <1>10, <1>11, <1>12, <1>13 DEF Ordered
<1> QED
  BY <1>2, <1>3, <1>4, <1>7, <1>14 DEF NextCalled

\* The next entry is nil.
LEMMA OrderedSkip ==
  ASSUME NEW t, NEW c \in Seq(Loads), NEW b \in Seq(Loads \cup {NoClass}), NEW n \in 1 .. Len(b),
         Ordered(t, c, b, n), b[n] = NoClass
  PROVE  Ordered(t, c, b, n + 1) /\ Coming(b, n + 1) = Coming(b, n)
<1>1. PICK N \in Nat : N = Len(b) /\ n \in Nat /\ n <= N
  BY LenProperties
<1>2. n .. N = {n} \cup (n + 1 .. N)
  BY <1>1
<1>3. Coming(b, n + 1) = Coming(b, n)
  BY <1>1, <1>2 DEF Coming
<1>4. \A i \in n + 1 .. N : b[i] # NoClass => Needs(t, b[i]) \subseteq ToSet(c) \cup {b[j] : j \in n + 1 .. i - 1}
  <2> SUFFICES ASSUME NEW i \in n + 1 .. N, b[i] # NoClass
               PROVE  Needs(t, b[i]) \subseteq ToSet(c) \cup {b[j] : j \in n + 1 .. i - 1}
    OBVIOUS
  <2>1. Needs(t, b[i]) \subseteq ToSet(c) \cup {b[j] : j \in n .. i - 1}
    BY <1>1, <1>2 DEF Ordered
  <2>2. \A j \in n .. i - 1 : j = n \/ j \in n + 1 .. i - 1
    BY <1>1
  <2>3. NoClass \notin Needs(t, b[i])
    <3>1. b[i] \in Loads
      BY <1>1, ElementOfSeq
    <3> QED
      BY <3>1, NilLoads, NeedsType
  <2> QED
    BY <2>1, <2>2, <2>3
<1> QED
  BY <1>1, <1>2, <1>3, <1>4 DEF Ordered

\* The list is at its end.
LEMMA OrderedEnd ==
  ASSUME NEW t, NEW c, NEW b \in Seq(Loads \cup {NoClass}), NEW n \in Nat, n > Len(b), Ordered(t, c, b, n)
  PROVE  Ordered(t, c, <<>>, 1) /\ Coming(b, n) = {} /\ Coming(<<>>, 1) = {}
<1>1. Len(b) \in Nat /\ n .. Len(b) = {} /\ 1 .. Len(<<>>) = {}
  BY LenProperties
<1> QED
  BY <1>1 DEF Ordered, Coming

\* The next list is detached.
LEMMA OrderedStart ==
  ASSUME NEW t, NEW c, Ordered(t, c, <<>>, 1), NEW q, Distinct(q), NoClass \notin ToSet(c),
         ToSet(q) \cap ToSet(c) = {},
         \A i \in 1 .. Len(q) : q[i] # NoClass => Needs(t, q[i]) \subseteq ToSet(c) \cup FirstOf(q, i - 1),
         DOMAIN q = 1 .. Len(q)
  PROVE  Ordered(t, c, q, 1) /\ Coming(q, 1) = ToSet(q) \ {NoClass}
<1>1. Coming(q, 1) = ToSet(q) \ {NoClass}
  BY DEF Coming, ToSet
<1> QED
  BY <1>1 DEF Ordered, Distinct, FirstOf

-----------------------------------------------------------------------------
(* What waits, whatever is done                                             *)

\* Every class and category is in one image.
LEMMA ImageIs ==
  /\ \A x \in Loads : ImageOf(x) \in Images
  /\ \A i \in Images : ClassesOf(i) \subseteq ImageClasses /\ CategoriesOf(i) \subseteq Categories
  /\ \A i \in Images : \A c \in ImageClasses : c \in ClassesOf(i) <=> ImageOf(c) = i
  /\ \A i \in Images : \A k \in Categories : k \in CategoriesOf(i) <=> ImageOf(k) = i
<1>1. ASSUME NEW i \in Images
      PROVE  ClassesOf(i) \subseteq ImageClasses /\ CategoriesOf(i) \subseteq Categories
  <2>1. ClassList[i] \in Seq(ImageClasses) /\ CategoryList[i] \in Seq(Categories)
    BY ImagesAssumption
  <2> QED
    BY <2>1, SeqMembers DEF ClassesOf, CategoriesOf
<1>2. ASSUME NEW x \in Loads
      PROVE  /\ ImageOf(x) \in Images
             /\ \A i \in Images : x \in ClassesOf(i) \cup CategoriesOf(i) <=> ImageOf(x) = i
  <2>1. PICK i \in Images : \A j \in Images : x \in ClassesOf(j) \cup CategoriesOf(j) <=> j = i
    BY ImagesAssumption DEF Loads
  <2>2. ImageOf(x) \in Images /\ x \in ClassesOf(ImageOf(x)) \cup CategoriesOf(ImageOf(x))
    BY <2>1 DEF ImageOf
  <2> QED
    BY <2>1, <2>2
<1>3. \A c \in ImageClasses : c \in Loads /\ c \notin Categories
  BY NilLoads DEF Loads
<1>4. \A k \in Categories : k \in Loads /\ k \notin ImageClasses
  BY NilLoads DEF Loads
<1> QED
  BY <1>1, <1>2, <1>3, <1>4

\* What an image's classes inherit from and its categories extend is mapped with it.
LEMMA DependenciesAre ==
  ASSUME NEW i \in Images
  PROVE  /\ \A c \in ClassesOf(i) : Superclass[c] # NoClass => ImageOf(Superclass[c]) \in Dependencies(i) \cup {i}
         /\ \A k \in CategoriesOf(i) : ImageOf(Target[k]) \in Dependencies(i) \cup {i}
  BY DEF Dependencies

\* Open classes inherit from open ones.
LEMMA OpenUp ==
  ASSUME NEW t, TablesSound(t), NEW m, NEW s, NEW g, ImagesFine(t, m, s, g)
  PROVE  /\ Open(t, m) \in SUBSET ImageClasses
         /\ \A c \in Open(t, m) : t.super[c] \in Open(t, m) \cup {NoClass}
         /\ \A c \in ImageClasses : c \in Open(t, m) <=> ImageOf(c) \in m /\ c \notin t.ignored
<1>1. Bound(t) /\ m \subseteq Images /\ (\A i \in m : Dependencies(i) \subseteq m)
      /\ \A c \in Open(t, m) : t.super[c] \notin t.ignored
  BY DEF TablesSound, ImagesFine
<1>2. Open(t, m) \in SUBSET ImageClasses
  BY <1>1, ImageIs DEF Open
<1>3. \A c \in ImageClasses : c \in Open(t, m) <=> ImageOf(c) \in m /\ c \notin t.ignored
  <2>1. \A c \in ImageClasses : \A i \in m : c \in ClassesOf(i) <=> ImageOf(c) = i
    BY <1>1, ImageIs
  <2>2. ASSUME NEW c
        PROVE  c \in Open(t, m) <=> c \notin t.ignored /\ \E i \in m : c \in ClassesOf(i)
    <3>1. PICK U : U = UNION {ClassesOf(i) : i \in m}
      OBVIOUS
    <3>2. c \in U <=> \E i \in m : c \in ClassesOf(i)
      BY <3>1
    <3>3. Open(t, m) = U \ t.ignored
      BY <3>1 DEF Open
    <3> QED
      BY <3>2, <3>3
  <2> QED
    BY <2>1, <2>2
<1>4. ASSUME NEW c \in Open(t, m), t.super[c] # NoClass
      PROVE  t.super[c] \in Open(t, m)
  <2>1. c \in ImageClasses /\ ImageOf(c) \in m /\ c \in ClassesOf(ImageOf(c))
    BY <1>1, <1>2, <1>3, ImageIs
  <2>2. t.super[c] = Superclass[c] /\ t.super[c] \in ImageClasses
    BY <1>1, <1>4, <2>1, BoundIs
  <2>3. ImageOf(Superclass[c]) \in Dependencies(ImageOf(c)) \cup {ImageOf(c)}
    BY <1>1, <1>4, <2>1, <2>2, DependenciesAre
  <2> QED
    BY <1>1, <1>3, <2>1, <2>2, <2>3
<1> QED
  BY <1>2, <1>3, <1>4

\* Where superclasses are the same, so is what is above a class.
LEMMA LineageSame ==
  ASSUME NEW t, TablesSound(t), NEW u, TablesSound(u), \A c \in ImageClasses : u.super[c] = t.super[c]
  PROVE  \A c \in ImageClasses : Lineage(u, c) = Lineage(t, c)
<1>1. Ends(t) /\ Bound(t) /\ Ends(u) /\ Bound(u)
  BY DEF TablesSound
<1>2. \A c \in ImageClasses : Lineage(u, c) \subseteq Lineage(t, c)
  BY <1>1, LineageShrinks
<1>3. \A c \in ImageClasses : Lineage(t, c) \subseteq Lineage(u, c)
  BY <1>1, LineageShrinks
<1> QED
  BY <1>2, <1>3

\* Scheduling, said of its parts
LEMMA SchedulingIs ==
  ASSUME NEW t, NEW open, NEW done, NEW L, NEW q
  PROVE  Scheduling(t, open, done, [loaded |-> L, queue |-> q]) <=>
           /\ L \in SUBSET open /\ q \in Seq(ImageClasses \cup {NoClass})
           /\ \A c \in L : t.super[c] \in L \cup {NoClass}
           /\ L \cap HasLoad \subseteq done \cup ToSet(q)
           /\ ToSet(q) \subseteq (L \cap HasLoad) \cup {NoClass}
           /\ ToSet(q) \cap done = {}
           /\ Distinct(q)
           /\ \A i \in 1 .. Len(q) : q[i] # NoClass =>
                Above(t, q[i]) \cap HasLoad \subseteq done \cup FirstOf(q, i - 1)
<1>1. PICK s : s = [loaded |-> L, queue |-> q]
  OBVIOUS
<1>2. s.loaded = L /\ s.queue = q
  BY <1>1
<1>3. s \in [loaded : SUBSET open, queue : Seq(ImageClasses \cup {NoClass})]
        <=> L \in SUBSET open /\ q \in Seq(ImageClasses \cup {NoClass})
  BY <1>1
<1> QED
  BY <1>1, <1>2, <1>3 DEF Scheduling

\* No class waits.
LEMMA SchedulingNone ==
  ASSUME NEW t, NEW open, NEW done, NEW L \in SUBSET open, \A c \in L : t.super[c] \in L \cup {NoClass},
         L \cap HasLoad \subseteq done
  PROVE  Scheduling(t, open, done, [loaded |-> L, queue |-> <<>>])
<1>1. ToSet(<<>>) = {} /\ 1 .. Len(<<>>) = {} /\ Distinct(<<>>) /\ <<>> \in Seq(ImageClasses \cup {NoClass})
  BY DEF ToSet, Distinct
<1>2. PICK e : /\ e = <<>> /\ ToSet(e) = {} /\ 1 .. Len(e) = {} /\ Distinct(e)
               /\ e \in Seq(ImageClasses \cup {NoClass})
  BY <1>1
<1>3. \A i \in 1 .. Len(e) : e[i] # NoClass => Above(t, e[i]) \cap HasLoad \subseteq done \cup FirstOf(e, i - 1)
  BY <1>2
<1>4. /\ L \cap HasLoad \subseteq done \cup ToSet(e) /\ ToSet(e) \subseteq (L \cap HasLoad) \cup {NoClass}
      /\ ToSet(e) \cap done = {}
  BY <1>2
<1>5. Scheduling(t, open, done, [loaded |-> L, queue |-> e])
  <2>1. /\ L \in SUBSET open /\ e \in Seq(ImageClasses \cup {NoClass})
        /\ \A c \in L : t.super[c] \in L \cup {NoClass}
        /\ L \cap HasLoad \subseteq done \cup ToSet(e)
        /\ ToSet(e) \subseteq (L \cap HasLoad) \cup {NoClass}
        /\ ToSet(e) \cap done = {}
        /\ Distinct(e)
        /\ \A i \in 1 .. Len(e) : e[i] # NoClass =>
             Above(t, e[i]) \cap HasLoad \subseteq done \cup FirstOf(e, i - 1)
    BY <1>2, <1>3, <1>4
  <2> QED
    BY <2>1, SchedulingIs
<1> QED
  BY <1>2, <1>5

\* The tables change otherwise.
LEMMA PendingSame ==
  ASSUME NEW t, TablesSound(t), NEW u, TablesSound(u), LoadingSame(t, u),
         NEW m, NEW s, NEW g, NEW done, NEW cq, NEW kq, Pending(t, m, s, g, done, cq, kq)
  PROVE  Pending(u, m, s, g, done, cq, kq)
<1>1. /\ ImagesFine(t, m, s, g)
      /\ Scheduling(t, Open(t, m), done, [loaded |-> t.loaded, queue |-> cq])
      /\ CategoriesWait(m, s, done, cq, kq) /\ Accounted(t, m, s, g, done, kq)
  BY DEF Pending
<1>2. PICK L, O : L = t.loaded /\ O = Open(t, m)
  OBVIOUS
<1>3. /\ L \in SUBSET O /\ cq \in Seq(ImageClasses \cup {NoClass})
      /\ \A c \in L : t.super[c] \in L \cup {NoClass}
      /\ L \cap HasLoad \subseteq done \cup ToSet(cq)
      /\ ToSet(cq) \subseteq (L \cap HasLoad) \cup {NoClass}
      /\ ToSet(cq) \cap done = {}
      /\ Distinct(cq)
      /\ \A i \in 1 .. Len(cq) : cq[i] # NoClass =>
           Above(t, cq[i]) \cap HasLoad \subseteq done \cup FirstOf(cq, i - 1)
  <2>1. Scheduling(t, O, done, [loaded |-> L, queue |-> cq])
    BY <1>1, <1>2
  <2> QED
    BY <2>1, SchedulingIs
<1>4. O \in SUBSET ImageClasses /\ O = Open(u, m) /\ L = u.loaded /\ u.ignored = t.ignored
      /\ \A c \in ImageClasses : u.super[c] = t.super[c]
  <2>1. O \in SUBSET ImageClasses
    BY <1>1, <1>2, OpenUp
  <2> QED
    BY <1>2, <1>3, <2>1 DEF LoadingSame, Open
<1>5. \A c \in ImageClasses : Above(u, c) = Above(t, c)
  <2>1. \A c \in ImageClasses : Lineage(u, c) = Lineage(t, c)
    BY <1>4, LineageSame
  <2> QED
    BY <2>1 DEF Above
<1>6. ImagesFine(u, m, s, g)
  BY <1>1, <1>2, <1>4 DEF ImagesFine
<1>7. Scheduling(u, O, done, [loaded |-> L, queue |-> cq])
  <2>1. \A c \in L : u.super[c] \in L \cup {NoClass}
    BY <1>3, <1>4
  <2>2. \A i \in 1 .. Len(cq) : cq[i] \in ImageClasses \cup {NoClass}
    BY <1>3, ElementOfSeq
  <2>3. \A i \in 1 .. Len(cq) : cq[i] # NoClass =>
           Above(u, cq[i]) \cap HasLoad \subseteq done \cup FirstOf(cq, i - 1)
    BY <1>3, <1>5, <2>2
  <2> QED
    BY <1>3, <2>1, <2>3, SchedulingIs
<1>8. Accounted(u, m, s, g, done, kq)
  BY <1>1, <1>2, <1>4 DEF Accounted
<1> QED
  BY <1>1, <1>4, <1>6, <1>7, <1>8 DEF Pending

\* The classes that wait are detached, and come next.
LEMMA PendingClasses ==
  ASSUME NEW t, TablesSound(t), NEW m, NEW s, NEW g, NEW done, NEW q, NEW kq,
         Pending(t, m, s, g, done, q, kq), NEW due, due = done \cup (ToSet(q) \ {NoClass})
  PROVE  Pending(t, m, s, g, due, <<>>, kq)
<1>1. /\ ImagesFine(t, m, s, g)
      /\ Scheduling(t, Open(t, m), done, [loaded |-> t.loaded, queue |-> q])
      /\ CategoriesWait(m, s, done, q, kq) /\ Accounted(t, m, s, g, done, kq)
  BY DEF Pending
<1>2. PICK L, O : L = t.loaded /\ O = Open(t, m)
  OBVIOUS
<1>3. /\ L \in SUBSET O /\ q \in Seq(ImageClasses \cup {NoClass})
      /\ \A c \in L : t.super[c] \in L \cup {NoClass}
      /\ L \cap HasLoad \subseteq done \cup ToSet(q)
      /\ ToSet(q) \subseteq (L \cap HasLoad) \cup {NoClass}
  <2>1. Scheduling(t, O, done, [loaded |-> L, queue |-> q])
    BY <1>1, <1>2
  <2> QED
    BY <2>1, SchedulingIs
<1>4. O \in SUBSET ImageClasses
  BY <1>1, <1>2, OpenUp
<1>5. ToSet(q) \ {NoClass} \subseteq L /\ L \subseteq ImageClasses
  BY <1>3, <1>4
<1>6. NoClass \notin L /\ ImageClasses \cap Categories = {} /\ NoClass \notin Categories
  BY <1>5, NilLoads DEF Loads
<1>7. Scheduling(t, O, due, [loaded |-> L, queue |-> <<>>])
  <2>1. L \cap HasLoad \subseteq due
    BY <1>3, <1>6
  <2> QED
    BY <1>3, <2>1, SchedulingNone
<1>8. CategoriesWait(m, s, due, <<>>, kq)
  <2>1. /\ kq \in Seq(Categories \cup {NoClass}) /\ Distinct(kq) /\ ToSet(kq) \cap done = {}
        /\ \A k \in ToSet(kq) \ {NoClass} :
             ImageOf(k) \in s \cap m /\ {Target[k]} \cap HasLoad \subseteq done \cup ToSet(q)
    BY <1>1 DEF CategoriesWait
  <2>2. ToSet(kq) \subseteq Categories \cup {NoClass}
    BY <2>1, SeqMembers
  <2>3. ToSet(kq) \cap due = {}
    BY <1>5, <1>6, <2>1, <2>2
  <2>4. \A k \in ToSet(kq) \ {NoClass} : Target[k] \in ImageClasses /\ Target[k] # NoClass
    <3>1. NoClass \notin ImageClasses
      BY NilLoads DEF Loads
    <3> QED
      BY <2>2, <3>1, ClassesAssumption
  <2>5. \A k \in ToSet(kq) \ {NoClass} : {Target[k]} \cap HasLoad \subseteq due \cup ToSet(<<>>)
    BY <2>1, <2>4
  <2> QED
    BY <2>1, <2>3, <2>5 DEF CategoriesWait
<1>9. Accounted(t, m, s, g, due, kq)
  <2>1. due \subseteq ImageClasses \cup Categories
    BY <1>1, <1>5 DEF Accounted
  <2>2. \A c \in due \cap ImageClasses : c \in t.loaded \/ ImageOf(c) \in g
    BY <1>1, <1>2, <1>5 DEF Accounted
  <2>3. \A k \in due \cap Categories : k \in done
    BY <1>5, <1>6
  <2> QED
    BY <1>1, <2>1, <2>2, <2>3 DEF Accounted
<1> QED
  BY <1>1, <1>2, <1>7, <1>8, <1>9 DEF Pending

\* So are the categories, when no class waits.
LEMMA PendingCategories ==
  ASSUME NEW t, TablesSound(t), NEW m, NEW s, NEW g, NEW done, NEW q,
         Pending(t, m, s, g, done, <<>>, q), NEW due, due = done \cup (ToSet(q) \ {NoClass})
  PROVE  Pending(t, m, s, g, due, <<>>, <<>>)
<1>1. /\ ImagesFine(t, m, s, g)
      /\ Scheduling(t, Open(t, m), done, [loaded |-> t.loaded, queue |-> <<>>])
      /\ CategoriesWait(m, s, done, <<>>, q) /\ Accounted(t, m, s, g, done, q)
  BY DEF Pending
<1>2. PICK L, O : L = t.loaded /\ O = Open(t, m)
  OBVIOUS
<1>3. ToSet(<<>>) = {} /\ 1 .. Len(<<>>) = {} /\ Distinct(<<>>)
      /\ <<>> \in Seq(ImageClasses \cup {NoClass}) /\ <<>> \in Seq(Categories \cup {NoClass})
  BY DEF ToSet, Distinct
<1>4. L \in SUBSET O /\ (\A c \in L : t.super[c] \in L \cup {NoClass}) /\ L \cap HasLoad \subseteq done
  <2>1. Scheduling(t, O, done, [loaded |-> L, queue |-> <<>>])
    BY <1>1, <1>2
  <2> QED
    BY <1>3, <2>1, SchedulingIs
<1>5. /\ \A k \in ToSet(q) \ {NoClass} : ImageOf(k) \in s \cap m /\ Target[k] \notin t.ignored
      /\ ToSet(q) \subseteq Categories \cup {NoClass}
  BY <1>1, SeqMembers DEF CategoriesWait, Accounted
<1>6. Scheduling(t, O, due, [loaded |-> L, queue |-> <<>>])
  <2>1. L \cap HasLoad \subseteq due
    BY <1>4
  <2> QED
    BY <1>4, <2>1, SchedulingNone
<1>7. CategoriesWait(m, s, due, <<>>, <<>>)
  BY <1>3 DEF CategoriesWait
<1>8. Accounted(t, m, s, g, due, <<>>)
  <2>1. /\ done \subseteq ImageClasses \cup Categories
        /\ \A c \in done \cap ImageClasses : c \in t.loaded \/ ImageOf(c) \in g
        /\ \A k \in done \cap Categories : ImageOf(k) \in s /\ (ImageOf(k) \in g \/ Target[k] \notin t.ignored)
        /\ \A i \in s \ g : /\ \A c \in (ClassesOf(i) \cap HasLoad) \ t.ignored : c \in t.loaded
                            /\ \A k \in CategoriesOf(i) \cap HasLoad :
                                 Target[k] \notin t.ignored => k \in done \cup ToSet(q)
    BY <1>1 DEF Accounted
  <2>2. due \subseteq ImageClasses \cup Categories
    BY <1>5, <2>1
  <2>3. ImageClasses \cap Categories = {} /\ NoClass \notin Categories
    BY NilLoads DEF Loads
  <2>4. \A c \in due \cap ImageClasses : c \in t.loaded \/ ImageOf(c) \in g
    BY <1>5, <2>1, <2>3
  <2>5. \A k \in due \cap Categories : ImageOf(k) \in s /\ (ImageOf(k) \in g \/ Target[k] \notin t.ignored)
    BY <1>5, <2>1
  <2>6. \A i \in s \ g : /\ \A c \in (ClassesOf(i) \cap HasLoad) \ t.ignored : c \in t.loaded
                         /\ \A k \in CategoriesOf(i) \cap HasLoad :
                              Target[k] \notin t.ignored => k \in due \cup ToSet(<<>>)
    <3>1. s \ g \subseteq Images
      BY <1>1 DEF ImagesFine
    <3>2. \A i \in s \ g : NoClass \notin CategoriesOf(i)
      BY <2>3, <3>1, ImageIs
    <3> QED
      BY <2>1, <3>2
  <2> QED
    BY <1>3, <2>2, <2>4, <2>5, <2>6 DEF Accounted
<1> QED
  BY <1>1, <1>2, <1>6, <1>7, <1>8 DEF Pending

\* Removing entries leaves the rest.
LEMMA NilIs ==
  ASSUME NEW E, NEW q \in Seq(E \cup {NoClass}), NEW xs
  PROVE  /\ Nil(q, xs) \in Seq(E \cup {NoClass}) /\ Len(Nil(q, xs)) = Len(q)
         /\ \A i \in 1 .. Len(q) : Nil(q, xs)[i] = IF q[i] \in xs THEN NoClass ELSE q[i]
         /\ ToSet(Nil(q, xs)) \subseteq (ToSet(q) \ xs) \cup {NoClass}
         /\ ToSet(q) \ xs \subseteq ToSet(Nil(q, xs))
         /\ Distinct(q) => Distinct(Nil(q, xs))
<1>1. Len(q) \in Nat /\ DOMAIN q = 1 .. Len(q) /\ \A i \in 1 .. Len(q) : q[i] \in E \cup {NoClass}
  BY LenProperties, ElementOfSeq
<1>2. PICK n \in Nat : n = Len(q)
  BY <1>1, Zenon
<1>3. PICK r : r = [i \in 1 .. n |-> IF q[i] \in xs THEN NoClass ELSE q[i]]
  OBVIOUS
<1>4. Nil(q, xs) = r
  BY <1>1, <1>2, <1>3 DEF Nil
<1>5. r \in Seq(E \cup {NoClass}) /\ Len(r) = n
      /\ \A i \in 1 .. n : r[i] = IF q[i] \in xs THEN NoClass ELSE q[i]
  BY <1>1, <1>2, <1>3
<1>6. /\ \A x : x \in ToSet(q) <=> \E i \in 1 .. n : q[i] = x
      /\ \A x : x \in ToSet(r) <=> \E i \in 1 .. n : r[i] = x
  BY <1>2, <1>5, SeqMembers
<1>7. ToSet(r) \subseteq (ToSet(q) \ xs) \cup {NoClass} /\ ToSet(q) \ xs \subseteq ToSet(r)
  BY <1>5, <1>6
<1>8. Distinct(q) => Distinct(r)
  BY <1>2, <1>5 DEF Distinct
<1> QED
  BY <1>2, <1>4, <1>5, <1>7, <1>8

-----------------------------------------------------------------------------
(* Images go, come, and are scheduled                                       *)

\* What Pending says of the classes
LEMMA PendingIs ==
  ASSUME NEW t, TablesSound(t), NEW m, NEW s, NEW g, NEW done, NEW cq, NEW kq, Pending(t, m, s, g, done, cq, kq)
  PROVE  /\ t.loaded \in SUBSET Open(t, m) /\ cq \in Seq(ImageClasses \cup {NoClass})
         /\ \A c \in t.loaded : t.super[c] \in t.loaded \cup {NoClass}
         /\ t.loaded \cap HasLoad \subseteq done \cup ToSet(cq)
         /\ ToSet(cq) \subseteq (t.loaded \cap HasLoad) \cup {NoClass}
         /\ ToSet(cq) \cap done = {}
         /\ Distinct(cq)
         /\ \A i \in 1 .. Len(cq) : cq[i] # NoClass =>
              Above(t, cq[i]) \cap HasLoad \subseteq done \cup FirstOf(cq, i - 1)
         /\ done \subseteq Loads /\ NoClass \notin done
<1>1. Scheduling(t, Open(t, m), done, [loaded |-> t.loaded, queue |-> cq]) /\ Accounted(t, m, s, g, done, kq)
  BY DEF Pending
<1>2. done \subseteq Loads /\ NoClass \notin done
  BY <1>1, NilLoads DEF Accounted, Loads
<1> QED
  BY <1>1, <1>2, SchedulingIs

\* An image goes; none that stays depends on it.
Unmapped(t, u, m, image) ==
    /\ image \in m
    /\ \A other \in m \ {image} : image \notin Dependencies(other)
    /\ u.ignored = t.ignored /\ u.super = t.super
    /\ u.loaded = t.loaded \ (ClassesOf(image) \ t.ignored)

\* What waits is as Pending says without it.
LEMMA PendingUnmapped ==
  ASSUME NEW t, TablesSound(t), NEW u, TablesSound(u), NEW m, NEW s, NEW g, NEW done, NEW cq, NEW kq,
         Pending(t, m, s, g, done, cq, kq), NEW image, Unmapped(t, u, m, image)
  PROVE  Pending(u, m \ {image}, s, g \cup {image}, done,
                 Nil(cq, ClassesOf(image)), Nil(kq, CategoriesOf(image)))
<1>1. /\ ImagesFine(t, m, s, g) /\ CategoriesWait(m, s, done, cq, kq) /\ Accounted(t, m, s, g, done, kq)
      /\ m \subseteq Images /\ g \subseteq Images /\ image \in Images
  BY DEF Pending, ImagesFine, Unmapped
<1>2. PICK C, K, n, h, q, r : /\ C = ClassesOf(image) /\ K = CategoriesOf(image)
                              /\ n = m \ {image} /\ h = g \cup {image} /\ q = Nil(cq, C) /\ r = Nil(kq, K)
  OBVIOUS
<1>3. PICK L, O : L = t.loaded /\ O = Open(t, m)
  OBVIOUS
<1>4. /\ L \in SUBSET O /\ cq \in Seq(ImageClasses \cup {NoClass})
      /\ \A c \in L : t.super[c] \in L \cup {NoClass}
      /\ L \cap HasLoad \subseteq done \cup ToSet(cq)
      /\ ToSet(cq) \subseteq (L \cap HasLoad) \cup {NoClass}
      /\ ToSet(cq) \cap done = {}
      /\ Distinct(cq)
      /\ \A i \in 1 .. Len(cq) : cq[i] # NoClass =>
           Above(t, cq[i]) \cap HasLoad \subseteq done \cup FirstOf(cq, i - 1)
      /\ done \subseteq Loads /\ NoClass \notin done
  BY <1>3, PendingIs
<1>5. /\ O \in SUBSET ImageClasses
      /\ \A c \in ImageClasses : c \in O <=> ImageOf(c) \in m /\ c \notin t.ignored
      /\ \A c \in ImageClasses : c \in C <=> ImageOf(c) = image
      /\ \A k \in Categories : k \in K <=> ImageOf(k) = image
      /\ C \subseteq ImageClasses
  BY <1>1, <1>2, <1>3, OpenUp, ImageIs
<1>6. u.loaded = L \ C /\ u.ignored = t.ignored /\ u.super = t.super
  BY <1>2, <1>3, <1>4, <1>5 DEF Unmapped
<1>7. \A other \in n : other \in Images /\ image \notin Dependencies(other)
  BY <1>1, <1>2 DEF Unmapped
<1>8. ImagesFine(u, n, s, h)
  <2>1. n \subseteq Images /\ h \subseteq Images /\ n \cap h = {} /\ s \subseteq n \cup h
    BY <1>1, <1>2 DEF ImagesFine
  <2>2. \A i \in n : Dependencies(i) \subseteq n
    BY <1>1, <1>2, <1>7 DEF ImagesFine
  <2>3. Open(u, n) \subseteq O
    BY <1>2, <1>3, <1>6 DEF Open
  <2>4. \A c \in Open(u, n) : u.super[c] \notin u.ignored
    BY <1>1, <1>3, <1>6, <2>3 DEF ImagesFine
  <2> QED
    BY <2>1, <2>2, <2>4 DEF ImagesFine
<1>9. \A c \in L \ C : c \in Open(u, n)
  <2>1. \A c \in ImageClasses : c \in Open(u, n) <=> ImageOf(c) \in n /\ c \notin u.ignored
    BY <1>8, OpenUp
  <2> QED
    BY <1>2, <1>4, <1>5, <1>6, <2>1
<1>10. \A c \in L \ C : t.super[c] \in (L \ C) \cup {NoClass}
  <2> SUFFICES ASSUME NEW c \in L \ C, t.super[c] # NoClass, t.super[c] \in C
               PROVE  FALSE
    BY <1>4
  <2>1. c \in ImageClasses /\ ImageOf(c) \in n /\ c \in ClassesOf(ImageOf(c))
    <3>1. c \in ImageClasses /\ ImageOf(c) \in m /\ ImageOf(c) # image
      BY <1>4, <1>5
    <3> QED
      BY <1>1, <1>2, <3>1, ImageIs
  <2>2. t.super[c] = Superclass[c]
    BY <2>1, BoundIs DEF TablesSound
  <2>3. ImageOf(Superclass[c]) = image
    BY <1>5, <2>2
  <2>4. image \in Dependencies(ImageOf(c)) \cup {ImageOf(c)}
    BY <1>7, <2>1, <2>2, <2>3, DependenciesAre
  <2> QED
    BY <1>2, <1>7, <2>1, <2>4
<1>11. \A c \in L \ C : Above(u, c) = Above(t, c) /\ Above(t, c) \subseteq L \ C
  <2>1. L \ C \in SUBSET ImageClasses
    BY <1>4, <1>5
  <2>2. Ends(t) /\ Bound(t)
    BY DEF TablesSound
  <2>3. \A c \in L \ C : Lineage(t, c) \subseteq L \ C
    BY <1>10, <2>1, <2>2, LineageWithin
  <2>4. \A c \in ImageClasses : Lineage(u, c) = Lineage(t, c)
    BY <1>6, LineageSame
  <2> QED
    BY <2>1, <2>3, <2>4 DEF Above
<1>12. /\ q \in Seq(ImageClasses \cup {NoClass}) /\ Len(q) = Len(cq) /\ Len(cq) \in Nat
       /\ \A i \in 1 .. Len(cq) : q[i] = IF cq[i] \in C THEN NoClass ELSE cq[i]
       /\ ToSet(q) \subseteq (ToSet(cq) \ C) \cup {NoClass} /\ ToSet(cq) \ C \subseteq ToSet(q) /\ Distinct(q)
       /\ \A i \in 1 .. Len(cq) : cq[i] \in ToSet(cq)
  <2>1. Len(cq) \in Nat /\ \A i \in 1 .. Len(cq) : cq[i] \in ToSet(cq)
    BY <1>4, SeqMembers
  <2>2. cq \in Seq(ImageClasses \cup {NoClass}) /\ Distinct(cq) /\ q = Nil(cq, C)
    BY <1>2, <1>4
  <2>3. /\ Nil(cq, C) \in Seq(ImageClasses \cup {NoClass}) /\ Len(Nil(cq, C)) = Len(cq)
        /\ \A i \in 1 .. Len(cq) : Nil(cq, C)[i] = IF cq[i] \in C THEN NoClass ELSE cq[i]
        /\ ToSet(Nil(cq, C)) \subseteq (ToSet(cq) \ C) \cup {NoClass}
        /\ ToSet(cq) \ C \subseteq ToSet(Nil(cq, C)) /\ Distinct(Nil(cq, C))
    BY <2>2, NilIs
  <2> QED
    BY <2>1, <2>2, <2>3
<1>13. Scheduling(u, Open(u, n), done, [loaded |-> L \ C, queue |-> q])
  <2>1. L \ C \in SUBSET Open(u, n)
    BY <1>9
  <2>2. \A c \in L \ C : u.super[c] \in (L \ C) \cup {NoClass}
    BY <1>6, <1>10
  <2>3. (L \ C) \cap HasLoad \subseteq done \cup ToSet(q)
    BY <1>4, <1>12
  <2>4. ToSet(q) \subseteq ((L \ C) \cap HasLoad) \cup {NoClass} /\ ToSet(q) \cap done = {}
    BY <1>4, <1>12
  <2>5. ASSUME NEW i \in 1 .. Len(q), q[i] # NoClass
        PROVE  Above(u, q[i]) \cap HasLoad \subseteq done \cup FirstOf(q, i - 1)
    <3>1. i \in 1 .. Len(cq) /\ q[i] = cq[i] /\ cq[i] \notin C /\ cq[i] \in L \ C
      BY <1>4, <1>12, <2>5
    <3>2. Above(u, q[i]) \cap HasLoad \subseteq (L \ C) \cap (done \cup FirstOf(cq, i - 1))
      BY <1>4, <1>11, <2>5, <3>1
    <3>3. FirstOf(cq, i - 1) \ C \subseteq FirstOf(q, i - 1)
      <4>1. \A j \in 1 .. i - 1 : j \in 1 .. Len(cq)
        BY <1>12, <3>1
      <4> QED
        BY <1>12, <4>1 DEF FirstOf
    <3> QED
      BY <3>2, <3>3
  <2> QED
    BY <1>12, <2>1, <2>2, <2>3, <2>4, <2>5, SchedulingIs
<1>14. /\ kq \in Seq(Categories \cup {NoClass}) /\ Distinct(kq) /\ ToSet(kq) \cap done = {}
       /\ \A k \in ToSet(kq) \ {NoClass} :
            ImageOf(k) \in s \cap m /\ {Target[k]} \cap HasLoad \subseteq done \cup ToSet(cq)
       /\ ToSet(kq) \subseteq Categories \cup {NoClass}
  BY <1>1, SeqMembers DEF CategoriesWait
<1>15. /\ r \in Seq(Categories \cup {NoClass}) /\ Distinct(r)
       /\ ToSet(r) \subseteq (ToSet(kq) \ K) \cup {NoClass} /\ ToSet(kq) \ K \subseteq ToSet(r)
  BY <1>2, <1>14, NilIs
<1>16. CategoriesWait(n, s, done, q, r)
  <2>1. ToSet(r) \cap done = {}
    BY <1>4, <1>14, <1>15
  <2>2. ASSUME NEW k \in ToSet(r) \ {NoClass}
        PROVE  ImageOf(k) \in s \cap n /\ {Target[k]} \cap HasLoad \subseteq done \cup ToSet(q)
    <3>1. k \in ToSet(kq) \ {NoClass} /\ k \in Categories /\ k \notin K
      BY <1>14, <1>15
    <3>2. ImageOf(k) \in s \cap n
      BY <1>2, <1>5, <1>14, <3>1
    <3>3. Target[k] \in ImageClasses /\ Target[k] # NoClass
      BY <3>1, ClassesAssumption, NilLoads DEF Loads
    <3>4. k \in CategoriesOf(ImageOf(k))
      BY <1>7, <3>1, <3>2, ImageIs
    <3>5. ImageOf(Target[k]) \in Dependencies(ImageOf(k)) \cup {ImageOf(k)}
      BY <1>7, <3>2, <3>4, DependenciesAre
    <3>6. Target[k] \notin C
      BY <1>2, <1>5, <1>7, <3>2, <3>3, <3>5
    <3> QED
      BY <1>12, <1>14, <3>1, <3>2, <3>6
  <2> QED
    BY <1>15, <2>1, <2>2 DEF CategoriesWait
<1>17. Accounted(u, n, s, h, done, r)
  <2>1. /\ \A c \in done \cap ImageClasses : c \in L \/ ImageOf(c) \in g
        /\ \A k \in done \cap Categories : ImageOf(k) \in s /\ (ImageOf(k) \in g \/ Target[k] \notin t.ignored)
        /\ \A k \in ToSet(kq) \ {NoClass} : Target[k] \notin t.ignored
        /\ \A i \in s \ g : /\ \A c \in (ClassesOf(i) \cap HasLoad) \ t.ignored : c \in L
                            /\ \A k \in CategoriesOf(i) \cap HasLoad :
                                 Target[k] \notin t.ignored => k \in done \cup ToSet(kq)
    BY <1>1, <1>3 DEF Accounted
  <2>2. \A c \in done \cap ImageClasses : c \in u.loaded \/ ImageOf(c) \in h
    BY <1>2, <1>5, <1>6, <2>1
  <2>3. \A k \in done \cap Categories : ImageOf(k) \in s /\ (ImageOf(k) \in h \/ Target[k] \notin u.ignored)
    BY <1>2, <1>6, <2>1
  <2>4. \A k \in ToSet(r) \ {NoClass} : Target[k] \notin u.ignored
    BY <1>6, <1>15, <2>1
  <2>5. ASSUME NEW i \in s \ h
        PROVE  /\ \A c \in (ClassesOf(i) \cap HasLoad) \ u.ignored : c \in u.loaded
               /\ \A k \in CategoriesOf(i) \cap HasLoad :
                    Target[k] \notin u.ignored => k \in done \cup ToSet(r)
    <3>1. i \in Images /\ i # image /\ i \in s \ g
      BY <1>1, <1>2 DEF ImagesFine
    <3>2. \A c \in ClassesOf(i) : c \notin C
      BY <1>5, <3>1, ImageIs
    <3>3. \A k \in CategoriesOf(i) : k \notin K
      BY <1>5, <3>1, ImageIs
    <3> QED
      BY <1>6, <1>15, <2>1, <3>1, <3>2, <3>3
  <2> QED
    BY <1>4, <2>2, <2>3, <2>4, <2>5 DEF Accounted, Loads
<1> QED
  BY <1>2, <1>6, <1>8, <1>13, <1>16, <1>17 DEF Pending

\* Images come, with all they depend on; their classes that miss a superclass are ignored.
Missing(t, new) == {c \in UNION {ClassesOf(i) : i \in new} : MissingWeakSuperclass(t, c)}

Mapping(t, u, m, g, new) ==
    /\ new \subseteq Images /\ new \cap (m \cup g) = {}
    /\ \A i \in new : Dependencies(i) \subseteq m \cup new
    /\ u.loaded = t.loaded /\ u.ignored = t.ignored \cup Missing(t, new)
    /\ \A c \in Classes : u.super[c] = IF c \in Missing(t, new) THEN NoClass ELSE t.super[c]

\* What waits is as Pending says with them.
LEMMA PendingMapped ==
  ASSUME NEW t, TablesSound(t), NEW u, TablesSound(u), NEW m, NEW s, NEW g, NEW done, NEW cq, NEW kq,
         Pending(t, m, s, g, done, cq, kq), NEW new, Mapping(t, u, m, g, new)
  PROVE  /\ Pending(u, m \cup new, s, g, done, cq, kq)
         /\ \A c \in ImageClasses : Lineage(u, c) \subseteq Lineage(t, c)
<1>1. /\ ImagesFine(t, m, s, g) /\ CategoriesWait(m, s, done, cq, kq) /\ Accounted(t, m, s, g, done, kq)
      /\ m \subseteq Images /\ g \subseteq Images /\ new \subseteq Images /\ new \cap m = {} /\ new \cap g = {}
      /\ m \cap g = {} /\ s \subseteq m \cup g
  BY DEF Pending, ImagesFine, Mapping
<1>2. PICK n, M : n = m \cup new /\ M = Missing(t, new)
  OBVIOUS
<1>3. PICK L, O : L = t.loaded /\ O = Open(t, m)
  OBVIOUS
<1>4. /\ L \in SUBSET O /\ cq \in Seq(ImageClasses \cup {NoClass})
      /\ \A c \in L : t.super[c] \in L \cup {NoClass}
      /\ L \cap HasLoad \subseteq done \cup ToSet(cq)
      /\ ToSet(cq) \subseteq (L \cap HasLoad) \cup {NoClass}
      /\ ToSet(cq) \cap done = {}
      /\ Distinct(cq)
      /\ \A i \in 1 .. Len(cq) : cq[i] # NoClass =>
           Above(t, cq[i]) \cap HasLoad \subseteq done \cup FirstOf(cq, i - 1)
      /\ done \subseteq Loads /\ NoClass \notin done
  BY <1>3, PendingIs
<1>5. /\ O \in SUBSET ImageClasses
      /\ \A c \in O : t.super[c] \in O \cup {NoClass}
      /\ \A c \in ImageClasses : c \in O <=> ImageOf(c) \in m /\ c \notin t.ignored
  BY <1>1, <1>3, OpenUp
<1>6. /\ \A c : c \in M <=> c \in ImageClasses /\ ImageOf(c) \in new /\ MissingWeakSuperclass(t, c)
  <2>1. PICK U : U = UNION {ClassesOf(i) : i \in new}
    OBVIOUS
  <2>2. \A c : c \in U <=> c \in ImageClasses /\ ImageOf(c) \in new
    <3>1. \A i \in new : ClassesOf(i) \subseteq ImageClasses
                         /\ \A c \in ImageClasses : c \in ClassesOf(i) <=> ImageOf(c) = i
      BY <1>1, ImageIs
    <3> QED
      BY <2>1, <3>1
  <2> QED
    BY <1>2, <2>1, <2>2 DEF Missing
<1>7. /\ u.loaded = L /\ u.ignored = t.ignored \cup M
      /\ \A c \in Classes : u.super[c] = IF c \in M THEN NoClass ELSE t.super[c]
  BY <1>2, <1>3 DEF Mapping
<1>8. Ends(t) /\ Bound(t) /\ Ends(u) /\ Bound(u) /\ u.ignored \subseteq ImageClasses
      /\ ImageClasses \subseteq Classes /\ NoClass \notin Classes
  BY NilLoads DEF TablesSound, Tidy, Classes
<1>9. \A c \in ImageClasses : ImageOf(c) \in m => c \notin M
  BY <1>1, <1>6
<1>10. \A c \in O : c \notin M /\ u.super[c] = t.super[c] /\ c \notin u.ignored /\ ImageOf(c) \in n
  BY <1>2, <1>5, <1>7, <1>8, <1>9
<1>11. ImagesFine(u, n, s, g)
  <2>1. n \subseteq Images /\ n \cap g = {} /\ s \subseteq n \cup g
    BY <1>1, <1>2
  <2>2. \A i \in n : Dependencies(i) \subseteq n
    BY <1>1, <1>2 DEF ImagesFine, Mapping
  <2>3. ASSUME NEW c \in Open(u, n)
        PROVE  u.super[c] \notin u.ignored
    <3>1. c \in ImageClasses /\ ImageOf(c) \in n /\ c \notin t.ignored /\ c \notin M
      <4>1. PICK i \in n : c \in ClassesOf(i) /\ c \notin u.ignored
        BY DEF Open
      <4>2. c \in ImageClasses /\ ImageOf(c) = i
        BY <2>1, <4>1, ImageIs
      <4> QED
        BY <1>7, <4>1, <4>2
    <3>2. u.super[c] = t.super[c] /\ t.super[c] \in ImageClasses \cup {NoClass}
      BY <1>7, <1>8, <3>1, BoundIs
    <3>3. CASE ImageOf(c) \in m
      <4>1. c \in O
        BY <1>5, <3>1, <3>3
      <4>2. t.super[c] \in O \/ t.super[c] = NoClass
        BY <1>5, <4>1
      <4> QED
        BY <1>8, <1>10, <3>2, <4>2
    <3>4. CASE ImageOf(c) \in new
      <4>1. ~MissingWeakSuperclass(t, c)
        BY <1>6, <3>1, <3>4
      <4>2. CASE t.super[c] = NoClass
        BY <1>8, <3>2, <4>2
      <4>3. CASE t.super[c] \in ImageClasses
        <5>1. ~MissingWeakSuperclass(t, t.super[c])
          BY <1>8, <3>1, <4>1, <4>3, MissingInherits
        <5>2. t.super[c] \notin M
          BY <1>6, <5>1
        <5>3. t.super[c] \notin t.ignored
          BY <1>8, <4>3, <5>1, MissingInherits
        <5> QED
          BY <1>7, <3>2, <5>2, <5>3
      <4> QED
        BY <3>2, <4>2, <4>3
    <3> QED
      BY <1>2, <3>1, <3>3, <3>4
  <2> QED
    BY <1>1, <2>1, <2>2, <2>3 DEF ImagesFine
<1>12. \A c \in ImageClasses : Lineage(u, c) \subseteq Lineage(t, c)
  <2>1. \A c \in ImageClasses : u.super[c] \in {t.super[c], NoClass}
    BY <1>7, <1>8
  <2> QED
    BY <1>8, <2>1, LineageShrinks
<1>13. Scheduling(u, Open(u, n), done, [loaded |-> L, queue |-> cq])
  <2>1. L \in SUBSET Open(u, n)
    <3>1. \A c \in ImageClasses : c \in Open(u, n) <=> ImageOf(c) \in n /\ c \notin u.ignored
      BY <1>11, OpenUp
    <3> QED
      BY <1>4, <1>5, <1>10, <3>1
  <2>2. \A c \in L : u.super[c] \in L \cup {NoClass}
    BY <1>4, <1>10
  <2>3. ASSUME NEW i \in 1 .. Len(cq), cq[i] # NoClass
        PROVE  Above(u, cq[i]) \cap HasLoad \subseteq done \cup FirstOf(cq, i - 1)
    <3>1. cq[i] \in ImageClasses
      BY <1>4, <2>3, ElementOfSeq
    <3>2. Above(u, cq[i]) \subseteq Above(t, cq[i])
      BY <1>12, <3>1 DEF Above
    <3> QED
      BY <1>4, <2>3, <3>2
  <2> QED
    BY <1>4, <2>1, <2>2, <2>3, SchedulingIs
<1>14. CategoriesWait(n, s, done, cq, kq)
  BY <1>1, <1>2 DEF CategoriesWait
<1>15. \A k \in Categories : ImageOf(k) \in m /\ Target[k] \notin t.ignored => Target[k] \notin u.ignored
  <2> SUFFICES ASSUME NEW k \in Categories, ImageOf(k) \in m
               PROVE  Target[k] \notin M
    BY <1>7
  <2>1. k \in CategoriesOf(ImageOf(k)) /\ ImageOf(k) \in Images
    BY <1>1, ImageIs
  <2>2. ImageOf(Target[k]) \in Dependencies(ImageOf(k)) \cup {ImageOf(k)}
    BY <2>1, DependenciesAre
  <2>3. ImageOf(Target[k]) \in m
    BY <1>1, <2>2 DEF ImagesFine
  <2>4. Target[k] \in ImageClasses
    BY ClassesAssumption
  <2> QED
    BY <1>9, <2>3, <2>4
<1>16. Accounted(u, n, s, g, done, kq)
  <2>1. /\ \A c \in done \cap ImageClasses : c \in L \/ ImageOf(c) \in g
        /\ \A k \in done \cap Categories : ImageOf(k) \in s /\ (ImageOf(k) \in g \/ Target[k] \notin t.ignored)
        /\ \A k \in ToSet(kq) \ {NoClass} : Target[k] \notin t.ignored
        /\ \A i \in s \ g : /\ \A c \in (ClassesOf(i) \cap HasLoad) \ t.ignored : c \in L
                            /\ \A k \in CategoriesOf(i) \cap HasLoad :
                                 Target[k] \notin t.ignored => k \in done \cup ToSet(kq)
    BY <1>1, <1>3 DEF Accounted
  <2>2. \A k \in done \cap Categories : ImageOf(k) \in s /\ (ImageOf(k) \in g \/ Target[k] \notin u.ignored)
    BY <1>1, <1>15, <2>1
  <2>3. \A k \in ToSet(kq) \ {NoClass} : Target[k] \notin u.ignored
    <3>1. \A k \in ToSet(kq) \ {NoClass} : k \in Categories /\ ImageOf(k) \in m
      BY <1>1, SeqMembers DEF CategoriesWait
    <3> QED
      BY <1>15, <2>1, <3>1
  <2>4. \A i \in s \ g : /\ \A c \in (ClassesOf(i) \cap HasLoad) \ u.ignored : c \in L
                         /\ \A k \in CategoriesOf(i) \cap HasLoad :
                              Target[k] \notin u.ignored => k \in done \cup ToSet(kq)
    BY <1>7, <2>1
  <2> QED
    BY <1>4, <1>7, <2>1, <2>2, <2>3, <2>4 DEF Accounted, Loads
<1> QED
  BY <1>2, <1>7, <1>11, <1>12, <1>13, <1>14, <1>16 DEF Pending

\* A list that is put behind another
LEMMA ConcatDistinct ==
  ASSUME NEW E, NEW q \in Seq(E), Distinct(q), NEW r \in Seq(E), IsInjective(r), ToSet(q) \cap ToSet(r) = {}
  PROVE  q \o r \in Seq(E) /\ Distinct(q \o r) /\ ToSet(q \o r) = ToSet(q) \cup ToSet(r)
<1>1. PICK a \in Nat, b \in Nat : a = Len(q) /\ b = Len(r)
  BY LenProperties
<1>2. PICK w : w = q \o r
  OBVIOUS
<1>3. /\ w \in Seq(E) /\ Len(w) = a + b /\ ToSet(w) = ToSet(q) \cup ToSet(r)
  BY <1>1, <1>2, ConcatMembers
<1>4. \A i \in 1 .. a + b : w[i] = IF i <= a THEN q[i] ELSE r[i - a]
  BY <1>1, <1>2, ConcatProperties
<1>5. /\ \A i \in 1 .. a : q[i] \in ToSet(q)
      /\ \A i \in 1 .. b : r[i] \in ToSet(r)
      /\ \A i, j \in 1 .. b : r[i] = r[j] => i = j
      /\ \A i, j \in 1 .. a : q[i] = q[j] /\ q[i] # NoClass => i = j
  BY <1>1, SeqMembers DEF Distinct
<1>6. ASSUME NEW i \in 1 .. a + b, NEW j \in 1 .. a + b, w[i] = w[j], w[i] # NoClass
      PROVE  i = j
  <2>1. CASE i \in 1 .. a /\ j \in 1 .. a
    <3>1. w[i] = q[i] /\ w[j] = q[j]
      BY <1>4, <2>1
    <3> QED
      BY <1>5, <1>6, <2>1, <3>1
  <2>2. CASE i \notin 1 .. a /\ j \notin 1 .. a
    <3>1. i - a \in 1 .. b /\ j - a \in 1 .. b /\ w[i] = r[i - a] /\ w[j] = r[j - a]
      BY <1>4, <2>2
    <3>2. i - a = j - a
      BY <1>5, <1>6, <3>1
    <3> QED
      BY <3>2
  <2>3. CASE i \in 1 .. a /\ j \notin 1 .. a
    <3>1. j - a \in 1 .. b /\ w[i] = q[i] /\ w[j] = r[j - a]
      BY <1>4, <2>3
    <3> QED
      BY <1>5, <1>6, <2>3, <3>1
  <2>4. CASE i \notin 1 .. a /\ j \in 1 .. a
    <3>1. i - a \in 1 .. b /\ w[j] = q[j] /\ w[i] = r[i - a]
      BY <1>4, <2>4
    <3> QED
      BY <1>5, <1>6, <2>4, <3>1
  <2> QED
    BY <2>1, <2>2, <2>3, <2>4
<1>7. Distinct(w)
  BY <1>3, <1>6 DEF Distinct
<1> QED
  BY <1>2, <1>3, <1>7

\* Nothing of an image is to be called.
LEMMA PendingIdle ==
  ASSUME NEW t, TablesSound(t), NEW m, NEW s, NEW g, NEW done, NEW cq, NEW kq,
         Pending(t, m, s, g, done, cq, kq), NEW image \in m, Loaded(image) = {}
  PROVE  Pending(t, m, s \cup {image}, g, done, cq, kq)
<1>1. /\ ImagesFine(t, m, s, g) /\ CategoriesWait(m, s, done, cq, kq) /\ Accounted(t, m, s, g, done, kq)
      /\ Scheduling(t, Open(t, m), done, [loaded |-> t.loaded, queue |-> cq])
  BY DEF Pending
<1>2. ImagesFine(t, m, s \cup {image}, g)
  BY <1>1 DEF ImagesFine
<1>3. CategoriesWait(m, s \cup {image}, done, cq, kq)
  BY <1>1 DEF CategoriesWait
<1>4. ClassesOf(image) \cap HasLoad = {} /\ CategoriesOf(image) \cap HasLoad = {}
  BY DEF Loaded
<1>5. Accounted(t, m, s \cup {image}, g, done, kq)
  BY <1>1, <1>4 DEF Accounted
<1> QED
  BY <1>1, <1>2, <1>3, <1>5 DEF Pending

\* What is scheduled for an image
Planned(t, u, cq, kq, q, r, image) ==
    LET present == {x \in Loaded(image) : (IF x \in Categories THEN Target[x] ELSE x) \notin t.ignored}
        plan    == ScheduleAll([loaded |-> t.loaded, queue |-> cq], ClassList[image], present)
    IN /\ u.loaded = plan.loaded /\ u.ignored = t.ignored /\ u.super = t.super
       /\ q = plan.queue /\ r = kq \o Only(CategoryList[image], present)

\* What the classes of an image that are not ignored make of the list
PlanOf(t, cq, image, P, plan) ==
    /\ P = {x \in Loaded(image) : (IF x \in Categories THEN Target[x] ELSE x) \notin t.ignored}
    /\ plan = ScheduleAll([loaded |-> t.loaded, queue |-> cq], ClassList[image], P)

\* They are marked, and those before them.
LEMMA PlanIs ==
  ASSUME NEW t, t = rt, TablesSound(t), NEW m, NEW s, NEW g, NEW done, NEW cq, NEW kq,
         Pending(t, m, s, g, done, cq, kq), NEW image \in m, NEW P, NEW plan, PlanOf(t, cq, image, P, plan)
  PROVE  /\ Scheduling(t, Open(t, m), done, plan) /\ plan.loaded \in SUBSET ImageClasses
         /\ t.loaded \subseteq plan.loaded /\ ClassesOf(image) \cap P \subseteq plan.loaded
<1>1. /\ ImagesFine(t, m, s, g) /\ Accounted(t, m, s, g, done, kq) /\ image \in Images /\ m \cap g = {}
  BY DEF Pending, ImagesFine
<1>2. PICK L, O : L = t.loaded /\ O = Open(t, m)
  OBVIOUS
<1>3. PICK x : x = [loaded |-> L, queue |-> cq]
  OBVIOUS
<1>4. x.loaded = L
  BY <1>3
<1>5. PICK cl \in Seq(ImageClasses) : cl = ClassList[image] /\ ToSet(cl) = ClassesOf(image)
  BY <1>1, ImagesAssumption DEF ClassesOf
<1>6. /\ O \in SUBSET ImageClasses
      /\ \A c \in O : t.super[c] \in O \cup {NoClass}
      /\ \A c \in ImageClasses : c \in O <=> ImageOf(c) \in m /\ c \notin t.ignored
      /\ \A c \in ImageClasses : c \in ClassesOf(image) <=> ImageOf(c) = image
      /\ ClassesOf(image) \subseteq ImageClasses
      /\ ImageClasses \cap Categories = {}
  BY <1>1, <1>2, OpenUp, ImageIs, NilLoads DEF Loads
<1>7. Schedulable(rt, O, done, x)
  <2>1. Scheduling(t, O, done, [loaded |-> L, queue |-> cq])
    BY <1>2 DEF Pending
  <2>2. O \cap done \subseteq L
    BY <1>1, <1>2, <1>6 DEF Accounted
  <2>3. Ends(t) /\ Bound(t) /\ NoClass \notin done
    BY PendingIs DEF TablesSound
  <2>4. Schedulable(t, O, done, x)
    BY <1>3, <1>4, <1>6, <2>1, <2>2, <2>3 DEF Schedulable
  <2> QED
    BY <2>4
<1>8. ToSet(cl) \cap P \subseteq O
  <2>1. \A c \in ClassesOf(image) : c \in P => c \notin t.ignored
    BY <1>6 DEF PlanOf
  <2> QED
    BY <1>5, <1>6, <2>1
<1>9. PICK w : w = ScheduleAll(x, cl, P)
  OBVIOUS
<1>10. Scheduling(rt, O, done, w) /\ x.loaded \cup (ToSet(cl) \cap P) \subseteq w.loaded
  BY <1>5, <1>7, <1>8, <1>9, ScheduleAllKeeps
<1>11. plan = w
  BY <1>2, <1>3, <1>5, <1>9 DEF PlanOf
<1>12. Scheduling(t, O, done, w) /\ w.loaded \in SUBSET O
  BY <1>10 DEF Scheduling
<1> QED
  BY <1>2, <1>4, <1>5, <1>6, <1>10, <1>11, <1>12

\* They wait, each after what it needs, and so do the categories.
LEMMA PendingLoads ==
  ASSUME NEW t, t = rt, TablesSound(t), NEW u, TablesSound(u), NEW m, NEW s, NEW g, NEW done, NEW cq, NEW kq,
         Pending(t, m, s, g, done, cq, kq), NEW image \in m, image \notin s, Dependencies(image) \subseteq s,
         NEW q, NEW r, Planned(t, u, cq, kq, q, r, image)
  PROVE  Pending(u, m, s \cup {image}, g, done, q, r)
<1>1. /\ ImagesFine(t, m, s, g) /\ CategoriesWait(m, s, done, cq, kq) /\ Accounted(t, m, s, g, done, kq)
      /\ m \subseteq Images /\ g \subseteq Images /\ image \in Images /\ m \cap g = {} /\ s \subseteq m \cup g
      /\ Dependencies(image) \subseteq m /\ image \notin g
  BY DEF Pending, ImagesFine
<1>2. PICK P : P = {x \in Loaded(image) : (IF x \in Categories THEN Target[x] ELSE x) \notin t.ignored}
  OBVIOUS
<1>3. PICK plan : plan = ScheduleAll([loaded |-> t.loaded, queue |-> cq], ClassList[image], P)
  OBVIOUS
<1>10. PlanOf(t, cq, image, P, plan)
  BY <1>2, <1>3 DEF PlanOf
<1>4. PICK a : a = Only(CategoryList[image], P)
  OBVIOUS
<1>5. /\ u.loaded = plan.loaded /\ u.ignored = t.ignored /\ u.super = t.super
      /\ q = plan.queue /\ r = kq \o a
  BY <1>2, <1>3, <1>4 DEF Planned
<1>6. PICK L, O : L = t.loaded /\ O = Open(t, m)
  OBVIOUS
<1>7. /\ L \in SUBSET O /\ cq \in Seq(ImageClasses \cup {NoClass})
      /\ L \cap HasLoad \subseteq done \cup ToSet(cq)
      /\ ToSet(cq) \subseteq (L \cap HasLoad) \cup {NoClass}
      /\ done \subseteq Loads /\ NoClass \notin done
  BY <1>6, PendingIs
<1>8. /\ O \in SUBSET ImageClasses
      /\ \A c \in O : t.super[c] \in O \cup {NoClass}
      /\ \A c \in ImageClasses : c \in O <=> ImageOf(c) \in m /\ c \notin t.ignored
      /\ \A c \in ImageClasses : c \in ClassesOf(image) <=> ImageOf(c) = image
      /\ \A k \in Categories : k \in CategoriesOf(image) <=> ImageOf(k) = image
      /\ ClassesOf(image) \subseteq ImageClasses /\ CategoriesOf(image) \subseteq Categories
      /\ ImageClasses \cap Categories = {} /\ NoClass \notin ImageClasses /\ NoClass \notin Categories
  BY <1>1, <1>6, OpenUp, ImageIs, NilLoads DEF Loads
<1>9. /\ \A c \in ClassesOf(image) : c \in P <=> c \in HasLoad /\ c \notin t.ignored
      /\ \A k \in CategoriesOf(image) : k \in P <=> k \in HasLoad /\ Target[k] \notin t.ignored
  BY <1>2, <1>8 DEF Loaded
<1>11. /\ Scheduling(t, O, done, plan)
       /\ L \subseteq plan.loaded /\ ClassesOf(image) \cap P \subseteq plan.loaded
  BY <1>6, <1>10, PlanIs
<1>12. PICK N : N = plan.loaded
  OBVIOUS
<1>13. plan = [loaded |-> N, queue |-> q]
  BY <1>5, <1>11, <1>12 DEF Scheduling
<1>14. /\ N \in SUBSET O /\ q \in Seq(ImageClasses \cup {NoClass})
       /\ \A c \in N : t.super[c] \in N \cup {NoClass}
       /\ N \cap HasLoad \subseteq done \cup ToSet(q)
       /\ ToSet(q) \subseteq (N \cap HasLoad) \cup {NoClass}
       /\ ToSet(q) \cap done = {}
       /\ Distinct(q)
       /\ \A i \in 1 .. Len(q) : q[i] # NoClass =>
            Above(t, q[i]) \cap HasLoad \subseteq done \cup FirstOf(q, i - 1)
  <2>1. Scheduling(t, O, done, [loaded |-> N, queue |-> q])
    BY <1>11, <1>13
  <2> QED
    BY <2>1, SchedulingIs
<1>15. O = Open(u, m) /\ u.loaded = N
  BY <1>5, <1>6, <1>12 DEF Open
<1>16. Scheduling(u, O, done, [loaded |-> N, queue |-> q])
  <2>1. \A c \in ImageClasses : Lineage(u, c) = Lineage(t, c)
    BY <1>5, LineageSame
  <2>2. \A i \in 1 .. Len(q) : q[i] \in ImageClasses \cup {NoClass}
    BY <1>14, ElementOfSeq
  <2>3. \A i \in 1 .. Len(q) : q[i] # NoClass =>
            Above(u, q[i]) \cap HasLoad \subseteq done \cup FirstOf(q, i - 1)
    BY <1>14, <2>1, <2>2 DEF Above
  <2>4. \A c \in N : u.super[c] \in N \cup {NoClass}
    BY <1>5, <1>14
  <2> QED
    BY <1>14, <2>3, <2>4, SchedulingIs
<1>17. ImagesFine(u, m, s \cup {image}, g)
  BY <1>1, <1>5, <1>6, <1>15 DEF ImagesFine
<1>18. /\ kq \in Seq(Categories \cup {NoClass}) /\ Distinct(kq) /\ ToSet(kq) \cap done = {}
       /\ \A k \in ToSet(kq) \ {NoClass} :
            ImageOf(k) \in s \cap m /\ {Target[k]} \cap HasLoad \subseteq done \cup ToSet(cq)
       /\ ToSet(kq) \subseteq Categories \cup {NoClass}
  BY <1>1, SeqMembers DEF CategoriesWait
<1>19. /\ a \in Seq(Categories \cup {NoClass}) /\ IsInjective(a) /\ ToSet(a) = CategoriesOf(image) \cap P
  <2>1. CategoryList[image] \in Seq(Categories) /\ IsInjective(CategoryList[image])
        /\ ToSet(CategoryList[image]) = CategoriesOf(image)
    BY <1>1, ImagesAssumption DEF CategoriesOf
  <2>2. a \in Seq(Categories) /\ ToSet(a) = CategoriesOf(image) \cap P /\ IsInjective(a)
    BY <1>4, <2>1, OnlyMembers
  <2>3. \A x \in Seq(Categories) : x \in Seq(Categories \cup {NoClass})
    OBVIOUS
  <2> QED
    BY <2>2, <2>3
<1>20. /\ \A k \in done \cap Categories : ImageOf(k) \in s /\ (ImageOf(k) \in g \/ Target[k] \notin t.ignored)
       /\ \A c \in done \cap ImageClasses : c \in L \/ ImageOf(c) \in g
       /\ \A k \in ToSet(kq) \ {NoClass} : Target[k] \notin t.ignored
       /\ \A i \in s \ g : /\ \A c \in (ClassesOf(i) \cap HasLoad) \ t.ignored : c \in L
                           /\ \A k \in CategoriesOf(i) \cap HasLoad :
                                Target[k] \notin t.ignored => k \in done \cup ToSet(kq)
  BY <1>1, <1>6 DEF Accounted
<1>21. /\ \A k \in ToSet(a) : k \in Categories /\ ImageOf(k) = image /\ k \notin done /\ k \notin ToSet(kq)
                              /\ Target[k] \notin t.ignored /\ k # NoClass
  BY <1>8, <1>9, <1>18, <1>19, <1>20
<1>22. r \in Seq(Categories \cup {NoClass}) /\ Distinct(r) /\ ToSet(r) = ToSet(kq) \cup ToSet(a)
  <2>1. ToSet(kq) \cap ToSet(a) = {}
    BY <1>21
  <2> QED
    BY <1>5, <1>18, <1>19, <2>1, ConcatDistinct
<1>23. CategoriesWait(m, s \cup {image}, done, q, r)
  <2>1. ToSet(r) \cap done = {}
    BY <1>18, <1>21, <1>22
  <2>2. ASSUME NEW k \in ToSet(r) \ {NoClass}
        PROVE  /\ ImageOf(k) \in (s \cup {image}) \cap m
               /\ {Target[k]} \cap HasLoad \subseteq done \cup ToSet(q)
    <3>1. k \in Categories /\ Target[k] \in ImageClasses /\ Target[k] # NoClass
      BY <1>8, <1>18, <1>21, <1>22, ClassesAssumption
    <3>2. CASE k \in ToSet(kq)
      <4>1. ToSet(cq) \ {NoClass} \subseteq done \cup ToSet(q)
        BY <1>7, <1>11, <1>12, <1>14
      <4> QED
        BY <1>18, <3>1, <3>2, <4>1
    <3>3. CASE k \in ToSet(a)
      <4>1. ImageOf(k) = image /\ Target[k] \notin t.ignored /\ k \in CategoriesOf(image)
        BY <1>19, <1>21, <3>3
      <4>2. ImageOf(Target[k]) \in Dependencies(image) \cup {image}
        BY <1>1, <4>1, DependenciesAre
      <4>3. Target[k] \in HasLoad => Target[k] \in N
        <5>1. CASE ImageOf(Target[k]) = image
          BY <1>8, <1>9, <1>11, <1>12, <3>1, <4>1, <5>1
        <5>2. CASE ImageOf(Target[k]) \in Dependencies(image)
          <6>1. ImageOf(Target[k]) \in s \ g /\ ImageOf(Target[k]) \in Images
            BY <1>1, <5>2
          <6>2. Target[k] \in ClassesOf(ImageOf(Target[k]))
            BY <3>1, <6>1, ImageIs
          <6> QED
            BY <1>11, <1>12, <1>20, <4>1, <6>1, <6>2
        <5> QED
          BY <4>2, <5>1, <5>2
      <4> QED
        BY <1>14, <4>1, <4>3
    <3> QED
      BY <1>22, <3>2, <3>3
  <2> QED
    BY <1>22, <2>1, <2>2 DEF CategoriesWait
<1>24. Accounted(u, m, s \cup {image}, g, done, r)
  <2>1. /\ done \subseteq ImageClasses \cup Categories
        /\ \A c \in done \cap ImageClasses : c \in u.loaded \/ ImageOf(c) \in g
    BY <1>7, <1>11, <1>12, <1>15, <1>20 DEF Loads
  <2>2. \A k \in ToSet(r) \ {NoClass} : Target[k] \notin u.ignored
    BY <1>5, <1>20, <1>21, <1>22
  <2>3. ASSUME NEW i \in (s \cup {image}) \ g
        PROVE  /\ \A c \in (ClassesOf(i) \cap HasLoad) \ u.ignored : c \in u.loaded
               /\ \A k \in CategoriesOf(i) \cap HasLoad :
                    Target[k] \notin u.ignored => k \in done \cup ToSet(r)
    <3>1. CASE i \in s
      BY <1>5, <1>11, <1>12, <1>15, <1>20, <1>22, <2>3, <3>1
    <3>2. CASE i = image
      BY <1>5, <1>9, <1>11, <1>12, <1>15, <1>19, <1>22, <3>2
    <3> QED
      BY <3>1, <3>2
  <2> QED
    BY <1>5, <1>20, <2>1, <2>2, <2>3 DEF Accounted
<1> QED
  BY <1>15, <1>16, <1>17, <1>23, <1>24 DEF Pending

-----------------------------------------------------------------------------
(* The loader's invariant                                                   *)

\* Before the first image there is nothing.
LEMMA LoaderStart ==
  ASSUME InitLoader
  PROVE  LoaderInv
<1>1. PICK debug \in DebugIvars, size \in RootSizes : rt = NoTables(debug, size)
  BY DEF InitLoader
<1>2. TablesSound(rt) /\ rt.loaded = {} /\ rt.ignored = {}
  BY <1>1, NoTablesSound
<1>3. /\ mapped = {} /\ scheduled = {} /\ gone = {} /\ classQueue = <<>> /\ catQueue = <<>>
      /\ phase = "idle" /\ batch = <<>> /\ at = 1 /\ running = FALSE /\ called = <<>>
  BY DEF InitLoader
<1>4. /\ ToSet(<<>>) = {} /\ 1 .. Len(<<>>) = {} /\ Distinct(<<>>) /\ <<>> \in Seq(Categories \cup {NoClass})
      /\ <<>> \in Seq(Loads) /\ <<>> \in Seq(Loads \cup {NoClass}) /\ Coming(<<>>, 1) = {} /\ IsInjective(<<>>)
  BY DEF ToSet, Distinct, Coming, IsInjective
<1>5. Here = 1 /\ Done = {}
  BY <1>3, <1>4 DEF Here, Done
<1>6. CallFine
  <2>1. called \in Seq(ImageClasses \cup Categories) /\ batch \in Seq(ImageClasses \cup Categories \cup {NoClass})
    BY <1>3, <1>4 DEF Loads
  <2>2. at \in Nat \ {0}
    BY <1>3
  <2>3. running \in BOOLEAN /\ ~running
    BY <1>3, Zenon
  <2> QED
    BY <1>3, <2>1, <2>2, <2>3 DEF CallFine
<1>7. Ordered(rt, called, batch, Here)
  BY <1>3, <1>4, <1>5 DEF Ordered
<1>8. Scheduling(rt, Open(rt, {}), {}, [loaded |-> rt.loaded, queue |-> <<>>])
  <2>1. PICK t : t = rt
    OBVIOUS
  <2>2. PICK L : L = {} /\ t.loaded = L
    BY <1>2, <2>1
  <2>3. Scheduling(t, Open(t, {}), {}, [loaded |-> L, queue |-> <<>>])
    BY <2>2, SchedulingNone
  <2> QED
    BY <2>1, <2>2, <2>3
<1>9. ImagesFine(rt, {}, {}, {}) /\ CategoriesWait({}, {}, {}, <<>>, <<>>) /\ Accounted(rt, {}, {}, {}, {}, <<>>)
  BY <1>4 DEF ImagesFine, CategoriesWait, Accounted, Open
<1>10. Pending(rt, {}, {}, {}, {}, <<>>, <<>>)
  BY <1>8, <1>9 DEF Pending
<1> QED
  BY <1>2, <1>3, <1>5, <1>6, <1>7, <1>10 DEF LoaderInv

\* Where the list goes on is a place or past its end.
LEMMA HereIs ==
  ASSUME CallFine
  PROVE  Here \in Nat \ {0} /\ called \in Seq(Loads) /\ batch \in Seq(Loads \cup {NoClass}) /\ Len(batch) \in Nat
  BY LenProperties DEF CallFine, Here, Loads

\* Threads change the tables as they like.
LEMMA ThreadsKeepLoader ==
  ASSUME LoaderInv, Threads
  PROVE  LoaderInv'
<1>1. TablesSound(rt) /\ CallFine /\ Ordered(rt, called, batch, Here)
      /\ Pending(rt, mapped, scheduled, gone, Done, classQueue, catQueue)
  BY DEF LoaderInv
<1>2. TablesSound(rt') /\ LoadingSame(rt, rt') /\ UNCHANGED <<images, queues, call, called>>
  BY <1>1, ThreadsKeepTables
<1>3. /\ mapped' = mapped /\ scheduled' = scheduled /\ gone' = gone /\ classQueue' = classQueue
      /\ catQueue' = catQueue /\ phase' = phase /\ batch' = batch /\ at' = at /\ running' = running
      /\ called' = called
  BY <1>2 DEF images, queues, call
<1>4. CallFine' /\ Here' = Here /\ Done' = Done
  BY <1>1, <1>3 DEF CallFine, Here, Done
<1>5. PICK t, u : t = rt /\ u = rt'
  OBVIOUS
<1>6. Pending(u, mapped, scheduled, gone, Done, classQueue, catQueue)
  <2>1. /\ TablesSound(t) /\ TablesSound(u) /\ LoadingSame(t, u)
        /\ Pending(t, mapped, scheduled, gone, Done, classQueue, catQueue)
    BY <1>1, <1>2, <1>5
  <2> QED
    BY <2>1, PendingSame
<1>7. Ordered(u, called, batch, Here)
  <2>1. \A c \in ImageClasses : Lineage(u, c) \subseteq Lineage(t, c)
    <3>1. TablesSound(t) /\ TablesSound(u) /\ \A c \in ImageClasses : u.super[c] = t.super[c]
      BY <1>1, <1>2, <1>5 DEF LoadingSame
    <3>2. \A c \in ImageClasses : Lineage(u, c) = Lineage(t, c)
      BY <3>1, LineageSame
    <3> QED
      BY <3>2
  <2>2. \A x \in Loads : Needs(u, x) \subseteq Needs(t, x)
    BY <2>1, NeedsLess
  <2>3. Ordered(t, called, batch, Here)
    BY <1>1, <1>5
  <2>4. Here \in Nat \ {0} /\ called \in Seq(Loads) /\ batch \in Seq(Loads \cup {NoClass})
    BY <1>1, HereIs
  <2> QED
    BY <2>2, <2>3, <2>4, OrderedLess
<1> QED
  BY <1>2, <1>3, <1>4, <1>5, <1>6, <1>7 DEF LoaderInv

\* map_2_images schedules nothing.
LEMMA MapKeepsLoader ==
  ASSUME LoaderInv, NEW new \in SUBSET Images, MapImages(new)
  PROVE  LoaderInv'
<1>1. TablesSound(rt) /\ CallFine /\ Ordered(rt, called, batch, Here)
      /\ Pending(rt, mapped, scheduled, gone, Done, classQueue, catQueue)
  BY DEF LoaderInv
<1>2. /\ mapped' = mapped \cup new /\ scheduled' = scheduled /\ gone' = gone /\ classQueue' = classQueue
      /\ catQueue' = catQueue /\ phase' = phase /\ batch' = batch /\ at' = at /\ running' = running
      /\ called' = called
  BY DEF MapImages, images, queues, call
<1>3. CallFine' /\ Here' = Here /\ Done' = Done
  BY <1>1, <1>2 DEF CallFine, Here, Done
<1>4. PICK t, u : t = rt /\ u = rt'
  OBVIOUS
<1>5. Mapping(t, u, mapped, gone, new) /\ TablesSound(u) /\ TablesSound(t)
  <2>1. /\ TablesSound(rt') /\ rt'.loaded = rt.loaded
        /\ rt'.ignored = rt.ignored \cup {c \in UNION {ClassesOf(i) : i \in new} : MissingWeakSuperclass(rt, c)}
        /\ \A c \in Classes : rt'.super[c] = IF c \in UNION {ClassesOf(i) : i \in new} /\ MissingWeakSuperclass(rt, c)
                                             THEN NoClass ELSE rt.super[c]
    BY <1>1, MapKeepsTables
  <2>2. new \cap (mapped \cup gone) = {} /\ \A i \in new : Dependencies(i) \subseteq mapped \cup new
    BY DEF MapImages
  <2>3. PICK M : M = Missing(t, new)
    OBVIOUS
  <2>4. M = {c \in UNION {ClassesOf(i) : i \in new} : MissingWeakSuperclass(rt, c)}
    BY <1>4, <2>3 DEF Missing
  <2>5. u.ignored = t.ignored \cup M /\ \A c \in Classes : u.super[c] = IF c \in M THEN NoClass ELSE t.super[c]
    BY <1>4, <2>1, <2>4
  <2> QED
    BY <1>1, <1>4, <2>1, <2>2, <2>3, <2>5 DEF Mapping
<1>6. /\ Pending(u, mapped \cup new, scheduled, gone, Done, classQueue, catQueue)
      /\ \A c \in ImageClasses : Lineage(u, c) \subseteq Lineage(t, c)
  <2>1. Pending(t, mapped, scheduled, gone, Done, classQueue, catQueue)
    BY <1>1, <1>4
  <2> QED
    BY <1>5, <2>1, PendingMapped
<1>7. Ordered(u, called, batch, Here)
  <2>1. \A x \in Loads : Needs(u, x) \subseteq Needs(t, x)
    BY <1>6, NeedsLess
  <2>2. Here \in Nat \ {0} /\ called \in Seq(Loads) /\ batch \in Seq(Loads \cup {NoClass})
        /\ Ordered(t, called, batch, Here)
    BY <1>1, <1>4, HereIs
  <2> QED
    BY <2>1, <2>2, OrderedLess
<1> QED
  BY <1>2, <1>3, <1>4, <1>5, <1>6, <1>7 DEF LoaderInv

\* unmap_image takes the entries of its image away.
LEMMA UnmapKeepsLoader ==
  ASSUME LoaderInv, NEW image \in Images, UnmapImage(image)
  PROVE  LoaderInv'
<1>1. TablesSound(rt) /\ CallFine /\ Ordered(rt, called, batch, Here)
      /\ Pending(rt, mapped, scheduled, gone, Done, classQueue, catQueue)
  BY DEF LoaderInv
<1>2. /\ mapped' = mapped \ {image} /\ scheduled' = scheduled /\ gone' = gone \cup {image}
      /\ classQueue' = Nil(classQueue, ClassesOf(image)) /\ catQueue' = Nil(catQueue, CategoriesOf(image))
      /\ phase' = phase /\ batch' = batch /\ at' = at /\ running' = running /\ called' = called
  BY DEF UnmapImage, images, queues, call
<1>3. CallFine' /\ Here' = Here /\ Done' = Done
  <2>1. Nil(<<>>, ClassesOf(image)) = <<>> /\ Nil(<<>>, CategoriesOf(image)) = <<>>
    BY DEF Nil
  <2>2. phase = "idle" => classQueue' = <<>> /\ catQueue' = <<>>
    BY <1>1, <1>2, <2>1 DEF CallFine
  <2> QED
    BY <1>1, <1>2, <2>2 DEF CallFine, Here, Done
<1>4. PICK t, u : t = rt /\ u = rt'
  OBVIOUS
<1>5. Unmapped(t, u, mapped, image) /\ TablesSound(u) /\ TablesSound(t)
  <2>1. TablesSound(rt') /\ rt'.loaded = rt.loaded \ (ClassesOf(image) \ rt.ignored)
        /\ rt'.ignored = rt.ignored /\ rt'.super = rt.super
    BY <1>1, UnmapKeepsTables
  <2> QED
    BY <1>1, <1>4, <2>1 DEF Unmapped, UnmapImage, Unused
<1>6. Pending(u, mapped', scheduled', gone', Done, classQueue', catQueue')
  <2>1. Pending(t, mapped, scheduled, gone, Done, classQueue, catQueue)
    BY <1>1, <1>4
  <2>2. Pending(u, mapped \ {image}, scheduled, gone \cup {image}, Done,
                Nil(classQueue, ClassesOf(image)), Nil(catQueue, CategoriesOf(image)))
    BY <1>5, <2>1, PendingUnmapped
  <2> QED
    BY <1>2, <2>2
<1>7. Ordered(u, called, batch, Here)
  <2>1. \A c \in ImageClasses : Lineage(u, c) = Lineage(t, c)
    <3>1. \A c \in ImageClasses : u.super[c] = t.super[c]
      BY <1>5 DEF Unmapped
    <3> QED
      BY <1>5, <3>1, LineageSame
  <2>2. \A x \in Loads : Needs(u, x) \subseteq Needs(t, x)
    BY <2>1, NeedsLess
  <2>3. Here \in Nat \ {0} /\ called \in Seq(Loads) /\ batch \in Seq(Loads \cup {NoClass})
        /\ Ordered(t, called, batch, Here)
    BY <1>1, <1>4, HereIs
  <2> QED
    BY <2>2, <2>3, OrderedLess
<1> QED
  BY <1>2, <1>3, <1>4, <1>5, <1>6, <1>7 DEF LoaderInv

\* load_images schedules what its image has.
LEMMA LoadKeepsLoader ==
  ASSUME LoaderInv, NEW image \in Images, LoadImages(image)
  PROVE  LoaderInv'
<1>1. TablesSound(rt) /\ CallFine /\ Ordered(rt, called, batch, Here)
      /\ Pending(rt, mapped, scheduled, gone, Done, classQueue, catQueue)
  BY DEF LoaderInv
<1>2. /\ mapped' = mapped /\ scheduled' = scheduled \cup {image} /\ gone' = gone
      /\ batch' = batch /\ at' = at /\ running' = running /\ called' = called
      /\ image \in mapped /\ image \notin scheduled /\ Dependencies(image) \subseteq scheduled
  BY DEF LoadImages
<1>3. Here' = Here /\ Done' = Done
  BY <1>2 DEF Here, Done
<1>4. CASE Loaded(image) = {}
  <2>1. rt' = rt /\ classQueue' = classQueue /\ catQueue' = catQueue /\ phase' = phase
    BY <1>4 DEF LoadImages, queues
  <2>2. CallFine'
    BY <1>1, <1>2, <2>1 DEF CallFine
  <2>3. Pending(rt, mapped, scheduled \cup {image}, gone, Done, classQueue, catQueue)
    BY <1>1, <1>2, <1>4, PendingIdle
  <2> QED
    BY <1>1, <1>2, <1>3, <2>1, <2>2, <2>3 DEF LoaderInv
<1>5. CASE Loaded(image) # {}
  <2>1. PICK present : present = {x \in Loaded(image) : Present(x)}
    OBVIOUS
  <2>2. PICK plan : plan = ScheduleAll([loaded |-> rt.loaded, queue |-> classQueue], ClassList[image], present)
    OBVIOUS
  <2>3. PICK targets : targets = [n \in DOMAIN CategoryList[image] |-> Target[CategoryList[image][n]]]
    OBVIOUS
  <2>4. /\ rt' = RealizeAll([rt EXCEPT !.loaded = plan.loaded], targets, {Target[k] : k \in present \cap Categories})
        /\ classQueue' = plan.queue /\ catQueue' = catQueue \o Only(CategoryList[image], present)
        /\ phase' = IF phase = "idle" THEN "start" ELSE phase
    BY <1>5, <2>1, <2>2, <2>3 DEF LoadImages, Prepare
  <2>5. PICK t, u, q, r : t = rt /\ u = rt' /\ q = classQueue' /\ r = catQueue'
    OBVIOUS
  <2>6. present = {x \in Loaded(image) : (IF x \in Categories THEN Target[x] ELSE x) \notin t.ignored}
    BY <2>1, <2>5 DEF Present
  <2>7. TablesSound(t) /\ Pending(t, mapped, scheduled, gone, Done, classQueue, catQueue)
    BY <1>1, <2>5
  <2>8. plan.loaded \in SUBSET ImageClasses
    <3>1. PlanOf(t, classQueue, image, present, plan)
      BY <2>2, <2>5, <2>6 DEF PlanOf
    <3> QED
      BY <1>2, <2>5, <2>7, <3>1, PlanIs
  <2>9. TablesSound(u) /\ u.loaded = plan.loaded /\ u.ignored = t.ignored /\ u.super = t.super
    <3>1. PICK N \in SUBSET ImageClasses : N = plan.loaded
      BY <2>8
    <3>2. rt' = RealizeAll([rt EXCEPT !.loaded = N], targets, {Target[k] : k \in present \cap Categories})
      BY <2>4, <3>1
    <3>3. TablesSound(rt') /\ rt'.loaded = N /\ rt'.ignored = rt.ignored /\ rt'.super = rt.super
      BY <1>1, <2>3, <3>2, PrepareKeepsTables
    <3> QED
      BY <2>5, <3>1, <3>3
  <2>10. Planned(t, u, classQueue, catQueue, q, r, image)
    BY <2>2, <2>4, <2>5, <2>6, <2>9 DEF Planned
  <2>11. Pending(u, mapped, scheduled \cup {image}, gone, Done, q, r)
    BY <1>2, <2>5, <2>7, <2>9, <2>10, PendingLoads
  <2>12. Ordered(u, called, batch, Here)
    <3>1. \A c \in ImageClasses : Lineage(u, c) = Lineage(t, c)
      BY <2>7, <2>9, LineageSame
    <3>2. \A x \in Loads : Needs(u, x) \subseteq Needs(t, x)
      BY <3>1, NeedsLess
    <3>3. Here \in Nat \ {0} /\ called \in Seq(Loads) /\ batch \in Seq(Loads \cup {NoClass})
          /\ Ordered(t, called, batch, Here)
      BY <1>1, <2>5, HereIs
    <3> QED
      BY <3>2, <3>3, OrderedLess
  <2>13. CallFine'
    BY <1>1, <1>2, <2>4 DEF CallFine
  <2> QED
    BY <1>2, <1>3, <2>5, <2>9, <2>11, <2>12, <2>13 DEF LoaderInv
<1> QED
  BY <1>4, <1>5

\* The classes that wait are in order.
LEMMA ClassesDetached ==
  ASSUME NEW t, TablesSound(t), NEW m, NEW s, NEW g, NEW c \in Seq(Loads), Ordered(t, c, <<>>, 1),
         NEW q, NEW kq, Pending(t, m, s, g, ToSet(c), q, kq)
  PROVE  /\ q \in Seq(Loads \cup {NoClass}) /\ Ordered(t, c, q, 1)
         /\ Pending(t, m, s, g, ToSet(c) \cup Coming(q, 1), <<>>, kq)
<1>1. PICK L, O, D : L = t.loaded /\ O = Open(t, m) /\ D = ToSet(c)
  OBVIOUS
<1>2. /\ q \in Seq(ImageClasses \cup {NoClass})
      /\ ToSet(q) \cap D = {}
      /\ Distinct(q)
      /\ \A i \in 1 .. Len(q) : q[i] # NoClass => Above(t, q[i]) \cap HasLoad \subseteq D \cup FirstOf(q, i - 1)
  <2>1. Scheduling(t, O, D, [loaded |-> L, queue |-> q])
    BY <1>1 DEF Pending
  <2> QED
    BY <2>1, SchedulingIs
<1>3. q \in Seq(Loads \cup {NoClass}) /\ DOMAIN q = 1 .. Len(q)
  <2>1. \A x \in Seq(ImageClasses \cup {NoClass}) : x \in Seq(Loads \cup {NoClass}) /\ DOMAIN x = 1 .. Len(x)
    BY DEF Loads
  <2> QED
    BY <1>2, <2>1
<1>4. ASSUME NEW i \in 1 .. Len(q), q[i] # NoClass
      PROVE  Needs(t, q[i]) \subseteq D \cup FirstOf(q, i - 1)
  <2>1. q[i] \in ImageClasses \cup {NoClass}
    BY <1>2, ElementOfSeq
  <2>2. Needs(t, q[i]) = Above(t, q[i]) \cap HasLoad
    BY <1>4, <2>1, NilLoads DEF Needs
  <2> QED
    BY <1>2, <1>4, <2>2
<1>5. NoClass \notin D
  BY <1>1, NilLoads, SeqMembers
<1>6. Ordered(t, c, q, 1) /\ Coming(q, 1) = ToSet(q) \ {NoClass}
  BY <1>1, <1>2, <1>3, <1>4, <1>5, OrderedStart
<1>7. Pending(t, m, s, g, D \cup (ToSet(q) \ {NoClass}), <<>>, kq)
  BY <1>1, PendingClasses
<1> QED
  BY <1>1, <1>3, <1>6, <1>7

\* So are the categories, once no class waits.
LEMMA CategoriesDetached ==
  ASSUME NEW t, TablesSound(t), NEW m, NEW s, NEW g, NEW c \in Seq(Loads), Ordered(t, c, <<>>, 1),
         NEW q, Pending(t, m, s, g, ToSet(c), <<>>, q)
  PROVE  /\ q \in Seq(Loads \cup {NoClass}) /\ Ordered(t, c, q, 1)
         /\ Pending(t, m, s, g, ToSet(c) \cup Coming(q, 1), <<>>, <<>>)
<1>1. PICK D : D = ToSet(c)
  OBVIOUS
<1>2. /\ q \in Seq(Categories \cup {NoClass}) /\ Distinct(q) /\ ToSet(q) \cap D = {}
      /\ \A k \in ToSet(q) \ {NoClass} : {Target[k]} \cap HasLoad \subseteq D
  <2>1. ToSet(<<>>) = {}
    BY DEF ToSet
  <2> QED
    BY <1>1, <2>1 DEF Pending, CategoriesWait
<1>3. q \in Seq(Loads \cup {NoClass}) /\ DOMAIN q = 1 .. Len(q)
  <2>1. \A x \in Seq(Categories \cup {NoClass}) : x \in Seq(Loads \cup {NoClass}) /\ DOMAIN x = 1 .. Len(x)
    BY DEF Loads
  <2> QED
    BY <1>2, <2>1
<1>4. ASSUME NEW i \in 1 .. Len(q), q[i] # NoClass
      PROVE  Needs(t, q[i]) \subseteq D \cup FirstOf(q, i - 1)
  <2>1. q[i] \in Categories /\ q[i] \in ToSet(q) \ {NoClass}
    BY <1>2, <1>4, ElementOfSeq, SeqMembers
  <2>2. Needs(t, q[i]) = {Target[q[i]]} \cap HasLoad
    BY <2>1 DEF Needs
  <2> QED
    BY <1>2, <2>1, <2>2
<1>5. NoClass \notin D
  BY <1>1, NilLoads, SeqMembers
<1>6. Ordered(t, c, q, 1) /\ Coming(q, 1) = ToSet(q) \ {NoClass}
  BY <1>1, <1>2, <1>3, <1>4, <1>5, OrderedStart
<1>7. Pending(t, m, s, g, D \cup (ToSet(q) \ {NoClass}), <<>>, <<>>)
  BY <1>1, PendingCategories
<1> QED
  BY <1>1, <1>3, <1>6, <1>7

\* Between two lists nothing comes but what waits.
LEMMA AtStart ==
  ASSUME CallFine, phase \in {"idle", "start"}
  PROVE  Here = 1 /\ batch = <<>> /\ at = 1 /\ ~running /\ Done = ToSet(called)
<1>1. batch = <<>> /\ at = 1 /\ ~running
  BY DEF CallFine
<1>2. Coming(<<>>, 1) = {}
  BY DEF Coming
<1> QED
  BY <1>1, <1>2 DEF Here, Done

\* A list is detached.
LEMMA StartKeepsLoader ==
  ASSUME LoaderInv, StartClassLoads \/ StartCategoryLoads
  PROVE  LoaderInv'
<1>1. TablesSound(rt) /\ CallFine /\ Ordered(rt, called, batch, Here)
      /\ Pending(rt, mapped, scheduled, gone, Done, classQueue, catQueue) /\ phase = "start"
  BY DEF LoaderInv, StartClassLoads, StartCategoryLoads
<1>2. /\ rt' = rt /\ mapped' = mapped /\ scheduled' = scheduled /\ gone' = gone /\ running' = running
      /\ called' = called /\ at' = 1
  BY DEF StartClassLoads, StartCategoryLoads, Detach, images
<1>3. Here = 1 /\ batch = <<>> /\ ~running /\ Done = ToSet(called)
  BY <1>1, AtStart
<1>4. PICK c \in Seq(Loads) : c = called
  BY <1>1, HereIs
<1>9. PICK t : t = rt
  OBVIOUS
<1>5. TablesSound(t) /\ Ordered(t, c, <<>>, 1) /\ Pending(t, mapped, scheduled, gone, ToSet(c), classQueue, catQueue)
  BY <1>1, <1>3, <1>4, <1>9
<1>6. Here' = 1 /\ Done' = ToSet(c) \cup Coming(batch', 1)
  BY <1>2, <1>3, <1>4 DEF Here, Done
<1>7. CASE StartClassLoads
  <2>1. batch' = classQueue /\ phase' = "classes" /\ classQueue' = <<>> /\ catQueue' = catQueue
    BY <1>7 DEF StartClassLoads, Detach
  <2>2. PICK q : q = classQueue
    OBVIOUS
  <2>3. /\ q \in Seq(Loads \cup {NoClass}) /\ Ordered(t, c, q, 1)
        /\ Pending(t, mapped, scheduled, gone, ToSet(c) \cup Coming(q, 1), <<>>, catQueue)
    BY <1>5, <2>2, ClassesDetached
  <2>4. CallFine'
    BY <1>1, <1>2, <1>3, <2>1, <2>2, <2>3 DEF CallFine, Loads
  <2> QED
    BY <1>1, <1>2, <1>4, <1>6, <1>9, <2>1, <2>2, <2>3, <2>4 DEF LoaderInv
<1>8. CASE StartCategoryLoads
  <2>1. batch' = catQueue /\ phase' = "categories" /\ classQueue' = <<>> /\ catQueue' = <<>> /\ classQueue = <<>>
    BY <1>8 DEF StartCategoryLoads, Detach
  <2>2. PICK q : q = catQueue
    OBVIOUS
  <2>3. /\ q \in Seq(Loads \cup {NoClass}) /\ Ordered(t, c, q, 1)
        /\ Pending(t, mapped, scheduled, gone, ToSet(c) \cup Coming(q, 1), <<>>, <<>>)
    BY <1>5, <2>1, <2>2, CategoriesDetached
  <2>4. CallFine'
    BY <1>1, <1>2, <1>3, <2>1, <2>2, <2>3 DEF CallFine, Loads
  <2> QED
    BY <1>1, <1>2, <1>4, <1>6, <1>9, <2>1, <2>2, <2>3, <2>4 DEF LoaderInv
<1> QED
  BY <1>7, <1>8

\* The next +load is called, or nil is passed over.
LEMMA CallKeepsLoader ==
  ASSUME LoaderInv, CallLoad
  PROVE  LoaderInv'
<1>1. TablesSound(rt) /\ CallFine /\ Ordered(rt, called, batch, Here)
      /\ Pending(rt, mapped, scheduled, gone, Done, classQueue, catQueue)
  BY DEF LoaderInv
<1>2. /\ rt' = rt /\ mapped' = mapped /\ scheduled' = scheduled /\ gone' = gone /\ phase' = phase
      /\ batch' = batch /\ classQueue' = classQueue /\ catQueue' = catQueue
      /\ phase \in {"classes", "categories"} /\ ~running /\ at <= Len(batch)
  BY DEF CallLoad, images, queues
<1>3. PICK c \in Seq(Loads), b \in Seq(Loads \cup {NoClass}) : c = called /\ b = batch
  BY <1>1, HereIs
<1>8. PICK t : t = rt
  OBVIOUS
<1>4. PICK n \in 1 .. Len(b) : n = at /\ Here = n
  BY <1>1, <1>2, <1>3, HereIs DEF Here
<1>5. Ordered(t, c, b, n) /\ Done = ToSet(c) \cup Coming(b, n) /\ n \in Nat \ {0} /\ n + 1 \in Nat \ {0}
  BY <1>1, <1>3, <1>4, <1>8 DEF Done
<1>6. CASE b[n] = NoClass
  <2>1. at' = n + 1 /\ running' = running /\ called' = c
    BY <1>3, <1>4, <1>6 DEF CallLoad
  <2>2. Here' = n + 1
    BY <1>2, <2>1 DEF Here
  <2>3. Ordered(t, c, b, n + 1) /\ Coming(b, n + 1) = Coming(b, n)
    BY <1>5, <1>6, OrderedSkip
  <2>4. Done' = Done
    BY <1>2, <1>3, <1>5, <2>1, <2>2, <2>3 DEF Done
  <2>5. CallFine'
    BY <1>1, <1>2, <1>3, <1>5, <2>1 DEF CallFine
  <2> QED
    BY <1>1, <1>2, <1>3, <2>1, <2>2, <2>3, <2>4, <2>5, <1>8 DEF LoaderInv
<1>7. CASE b[n] # NoClass
  <2>1. at' = n /\ running' = TRUE /\ called' = Append(c, b[n])
    BY <1>3, <1>4, <1>7 DEF CallLoad
  <2>2. Here' = n + 1
    BY <1>2, <2>1 DEF Here
  <2>6. PICK d : d = Append(c, b[n])
    OBVIOUS
  <2>3. /\ d \in Seq(Loads) /\ Ordered(t, d, b, n + 1) /\ called' = d
        /\ ToSet(d) \cup Coming(b, n + 1) = ToSet(c) \cup Coming(b, n)
    <3>1. NextCalled(t, c, b, n)
      BY <1>5, <1>7, OrderedCall
    <3> QED
      BY <2>1, <2>6, <3>1 DEF NextCalled
  <2>4. Done' = Done
    BY <1>2, <1>3, <1>5, <2>1, <2>2, <2>3 DEF Done
  <2>5. CallFine'
    <3>1. called' \in Seq(ImageClasses \cup Categories) /\ at' \in Nat \ {0} /\ running' \in BOOLEAN
      BY <1>5, <2>1, <2>3 DEF Loads
    <3> QED
      BY <1>1, <1>2, <1>3, <1>4, <2>1, <3>1 DEF CallFine
  <2> QED
    BY <1>1, <1>2, <1>3, <2>1, <2>2, <2>3, <2>4, <2>5, <1>8 DEF LoaderInv
<1> QED
  BY <1>6, <1>7

\* A +load returns.
LEMMA ReturnKeepsLoader ==
  ASSUME LoaderInv, LoadReturns
  PROVE  LoaderInv'
<1>1. TablesSound(rt) /\ CallFine /\ Ordered(rt, called, batch, Here)
      /\ Pending(rt, mapped, scheduled, gone, Done, classQueue, catQueue)
  BY DEF LoaderInv
<1>2. /\ rt' = rt /\ mapped' = mapped /\ scheduled' = scheduled /\ gone' = gone /\ phase' = phase
      /\ batch' = batch /\ classQueue' = classQueue /\ catQueue' = catQueue /\ called' = called
      /\ running /\ running' = FALSE /\ at' = at + 1
  BY DEF LoadReturns, images, queues
<1>3. Here' = Here /\ Done' = Done
  BY <1>2 DEF Here, Done
<1>4. CallFine'
  <2>1. ~running' /\ running' \in BOOLEAN /\ phase \notin {"idle", "start"}
    BY <1>1, <1>2, Zenon DEF CallFine
  <2>2. at' \in Nat \ {0}
    BY <1>1, <1>2 DEF CallFine
  <2> QED
    BY <1>1, <1>2, <2>1, <2>2 DEF CallFine
<1> QED
  BY <1>1, <1>2, <1>3, <1>4 DEF LoaderInv

\* A list is at its end.
LEMMA EndKeepsLoader ==
  ASSUME LoaderInv, EndClassLoads \/ EndCategoryLoads
  PROVE  LoaderInv'
<1>1. TablesSound(rt) /\ CallFine /\ Ordered(rt, called, batch, Here)
      /\ Pending(rt, mapped, scheduled, gone, Done, classQueue, catQueue)
  BY DEF LoaderInv
<1>2. /\ rt' = rt /\ mapped' = mapped /\ scheduled' = scheduled /\ gone' = gone
      /\ batch' = <<>> /\ at' = 1 /\ classQueue' = classQueue /\ catQueue' = catQueue /\ called' = called
      /\ running' = running /\ at > Len(batch) /\ phase' \in {"start", "idle"}
      /\ phase' = "idle" => classQueue = <<>> /\ catQueue = <<>>
  BY DEF EndClassLoads, EndCategoryLoads, Idle, images, queues
<1>3. PICK c \in Seq(Loads), b \in Seq(Loads \cup {NoClass}), n \in Nat : c = called /\ b = batch /\ n = at
  BY <1>1, HereIs DEF CallFine
<1>9. PICK t : t = rt
  OBVIOUS
<1>4. ~running /\ Here = n /\ n > Len(b)
  BY <1>1, <1>2, <1>3, HereIs DEF CallFine, Here
<1>5. Ordered(t, c, <<>>, 1) /\ Coming(b, n) = {} /\ Coming(<<>>, 1) = {}
  BY <1>1, <1>3, <1>4, <1>9, OrderedEnd
<1>6. Here' = 1
  BY <1>2, <1>4 DEF Here
<1>7. Done = ToSet(c) /\ Done' = ToSet(c)
  BY <1>2, <1>3, <1>4, <1>5, <1>6 DEF Done
<1>8. CallFine'
  <2>1. <<>> \in Seq(ImageClasses \cup Categories \cup {NoClass})
    OBVIOUS
  <2>2. batch' \in Seq(ImageClasses \cup Categories \cup {NoClass})
    BY <1>2, <2>1
  <2> QED
    BY <1>1, <1>2, <1>4, <2>2 DEF CallFine
<1> QED
  BY <1>1, <1>2, <1>3, <1>5, <1>6, <1>7, <1>8, <1>9 DEF LoaderInv

\* Every step keeps the invariant.
LEMMA LoaderStep ==
  ASSUME LoaderInv, [NextLoader]_loader
  PROVE  LoaderInv'
<1>1. CASE Threads
  BY <1>1, ThreadsKeepLoader
<1>2. CASE Dyld
  BY <1>2, MapKeepsLoader, LoadKeepsLoader, UnmapKeepsLoader DEF Dyld
<1>3. CASE StartClassLoads \/ StartCategoryLoads
  BY <1>3, StartKeepsLoader
<1>4. CASE CallLoad
  BY <1>4, CallKeepsLoader
<1>5. CASE LoadReturns
  BY <1>5, ReturnKeepsLoader
<1>6. CASE EndClassLoads \/ EndCategoryLoads
  BY <1>6, EndKeepsLoader
<1>7. CASE UNCHANGED loader
  BY <1>7 DEF loader, images, queues, call, LoaderInv, TablesSound, CallFine, Here, Done
<1> QED
  BY <1>1, <1>2, <1>3, <1>4, <1>5, <1>6, <1>7 DEF NextLoader

\* What was called and what waits is as LoaderInv says, always.
THEOREM LoaderInvariant == SpecLoader => []LoaderInv
<1>1. InitLoader => LoaderInv
  BY LoaderStart
<1>2. LoaderInv /\ [NextLoader]_loader => LoaderInv'
  BY LoaderStep
<1> QED
  BY <1>1, <1>2, PTL DEF SpecLoader

\* Instance variables of a realized class lie behind all of its superclass's,
\* aligned, within the instance (LayoutSound), whatever grows, in whatever order
\* classes are realized, made and freed.
THEOREM LayoutsAreSound == SpecLoader => []LayoutSound
<1>1. LoaderInv => LayoutSound
  <2> SUFFICES ASSUME LoaderInv
               PROVE  LayoutSound
    OBVIOUS
  <2>1. PICK t : t = rt /\ t \in RT /\ Laid(t)
    BY DEF LoaderInv, TablesSound
  <2>2. t.realized \subseteq Classes /\ \A c \in Classes : Sound(t.layout[c])
    BY <2>1, Fields DEF RT
  <2> QED
    BY <2>1, <2>2 DEF Laid, LayoutSound
<1> QED
  BY <1>1, LoaderInvariant, PTL

\* Every +load comes after those of the superclasses, or of the class, and once
\* (LoadOrder), whatever images a +load maps, loads and unloads while it runs.
THEOREM LoadsInOrder == SpecLoader => []LoadOrder
<1>1. LoaderInv => LoadOrder
  <2> SUFFICES ASSUME LoaderInv, NEW n \in DOMAIN called
               PROVE  /\ ~Before(called[n], n)
                      /\ IF called[n] \in Categories THEN Target[called[n]] \in HasLoad => Before(Target[called[n]], n)
                         ELSE \A c \in Lineage(rt, called[n]) \ {called[n]} : c \in HasLoad => Before(c, n)
    BY DEF LoadOrder
  <2>1. PICK c \in Seq(Loads), N \in Nat : c = called /\ N = Len(c) /\ DOMAIN c = 1 .. N
    BY HereIs, LenProperties DEF LoaderInv
  <2>2. /\ n \in 1 .. N /\ Needs(rt, c[n]) \subseteq FirstOf(c, n - 1)
        /\ \A i, j \in 1 .. N : c[i] = c[j] => i = j
    BY <2>1, SeqMembers DEF LoaderInv, Ordered
  <2>3. \A x : Before(x, n) <=> x \in FirstOf(c, n - 1)
    BY <2>1 DEF Before, FirstOf
  <2>4. ~Before(c[n], n)
    <3>1. \A j \in 1 .. n - 1 : j \in 1 .. N /\ j # n
      BY <2>2
    <3> QED
      BY <2>2, <2>3, <3>1 DEF FirstOf
  <2> QED
    BY <2>1, <2>2, <2>3, <2>4 DEF Needs, Above
<1> QED
  BY <1>1, LoaderInvariant, PTL

\* No +load is forgotten, and none of an ignored class is called
\* (NothingForgotten), whenever call_load_methods has returned.
THEOREM NoLoadForgotten == SpecLoader => []NothingForgotten
<1>1. LoaderInv => NothingForgotten
  <2> SUFFICES ASSUME LoaderInv, phase = "idle"
               PROVE  /\ ToSet(classQueue) \cup ToSet(catQueue) = {}
                      /\ \A i \in scheduled \ gone : \A x \in Loaded(i) : Present(x) <=> x \in ToSet(called)
    BY DEF NothingForgotten
  <2>1. classQueue = <<>> /\ catQueue = <<>> /\ Done = ToSet(called) /\ TablesSound(rt)
        /\ Pending(rt, mapped, scheduled, gone, Done, classQueue, catQueue)
    BY AtStart DEF LoaderInv, CallFine
  <2>2. ToSet(<<>>) = {}
    BY DEF ToSet
  <2>3. PICK t, D : t = rt /\ D = ToSet(called)
    OBVIOUS
  <2>4. TablesSound(t) /\ Pending(t, mapped, scheduled, gone, D, <<>>, <<>>)
    BY <2>1, <2>3
  <2>5. ImagesFine(t, mapped, scheduled, gone) /\ Accounted(t, mapped, scheduled, gone, D, <<>>)
    BY <2>4 DEF Pending
  <2>6. t.loaded \in SUBSET Open(t, mapped) /\ t.loaded \cap HasLoad \subseteq D
    BY <2>2, <2>4, PendingIs
  <2>7. ASSUME NEW i \in scheduled \ gone, NEW x \in Loaded(i)
        PROVE  Present(x) <=> x \in D
    <3>1. i \in Images /\ x \in HasLoad
      BY <2>5, <2>7 DEF ImagesFine, Loaded
    <3>2. CASE x \in ClassesOf(i)
      <4>1. x \in ImageClasses /\ x \notin Categories /\ ImageOf(x) = i
        BY <3>1, <3>2, ImageIs, NilLoads
      <4>2. Present(x) <=> x \notin t.ignored
        BY <2>3, <4>1 DEF Present
      <4>3. x \notin t.ignored => x \in D
        BY <2>5, <2>6, <3>1, <3>2 DEF Accounted
      <4>4. x \in D => x \notin t.ignored
        <5>1. x \in D => x \in t.loaded
          BY <2>5, <4>1 DEF Accounted
        <5> QED
          BY <2>4, <2>5, <2>6, <4>1, <5>1, OpenUp
      <4> QED
        BY <4>2, <4>3, <4>4
    <3>3. CASE x \in CategoriesOf(i)
      <4>1. x \in Categories /\ ImageOf(x) = i
        BY <3>1, <3>3, ImageIs
      <4>2. Present(x) <=> Target[x] \notin t.ignored
        BY <2>3, <4>1 DEF Present
      <4>3. Target[x] \notin t.ignored => x \in D
        BY <2>2, <2>5, <3>1, <3>3 DEF Accounted
      <4>4. x \in D => Target[x] \notin t.ignored
        BY <2>5, <4>1 DEF Accounted
      <4> QED
        BY <4>2, <4>3, <4>4
    <3> QED
      BY <3>2, <3>3 DEF Loaded
  <2> QED
    BY <2>1, <2>2, <2>3, <2>7
<1> QED
  BY <1>1, LoaderInvariant, PTL

-----------------------------------------------------------------------------
(* What changes of methods do to the flags                                  *)

\* Classes know those that inherit from them,
Linked(t, R) == \A c \in R : t.super[c] # NoClass => c \in t.subclasses[t.super[c]]

\* and pass a raw isa on to them.
Raw(t, R) == \A c \in R : t.super[c] \in t.rawIsa => c \in t.rawIsa

\* Only initialized classes have a default flag; they are linked.
Up(t) == Linked(t, t.initialized) /\ \A s \in Sides : t.default[s] \subseteq t.initialized

\* In u, classes have lost default flags; with each, those that inherit from it have. A
\* method that would make one custom was there in t, where it did not.
Flagged(t, u) ==
    /\ u.super = t.super /\ \A c \in Classes : t.subclasses[c] \subseteq u.subclasses[c]
    /\ u.initialized = t.initialized /\ u.swizzled = t.swizzled /\ u.replaced = t.replaced
    /\ \A s \in Sides :
         /\ u.default[s] \subseteq t.default[s]
         /\ \A c \in u.default[s] : t.super[c] \in t.default[s] => t.super[c] \in u.default[s]
         /\ \A c \in u.default[s] : \A l \in ToSet(u.lists[c][s]) :
              HasFast(l, s) => l \in ToSet(t.lists[c][s])
    /\ \A R \in SUBSET Classes : Linked(t, R) /\ Raw(t, R) => Raw(u, R)

\* One such change, and another.
LEMMA FlaggedTwice ==
  ASSUME NEW t \in RT, NEW u, NEW v, Flagged(t, u), Flagged(u, v)
  PROVE  Flagged(t, v)
<1>1. /\ v.super = t.super /\ u.super = t.super
      /\ \A c \in Classes : t.subclasses[c] \subseteq u.subclasses[c]
      /\ \A c \in Classes : u.subclasses[c] \subseteq v.subclasses[c]
      /\ v.initialized = t.initialized /\ v.swizzled = t.swizzled /\ v.replaced = t.replaced
  BY DEF Flagged
<1>2. ASSUME NEW s \in Sides
      PROVE  /\ v.default[s] \subseteq t.default[s]
             /\ \A c \in v.default[s] : t.super[c] \in t.default[s] => t.super[c] \in v.default[s]
             /\ \A c \in v.default[s] : \A l \in ToSet(v.lists[c][s]) :
                  HasFast(l, s) => l \in ToSet(t.lists[c][s])
  <2>1. /\ u.default[s] \subseteq t.default[s] /\ v.default[s] \subseteq u.default[s]
        /\ \A c \in u.default[s] : t.super[c] \in t.default[s] => t.super[c] \in u.default[s]
        /\ \A c \in v.default[s] : t.super[c] \in u.default[s] => t.super[c] \in v.default[s]
        /\ \A c \in u.default[s] : \A l \in ToSet(u.lists[c][s]) : HasFast(l, s) => l \in ToSet(t.lists[c][s])
        /\ \A c \in v.default[s] : \A l \in ToSet(v.lists[c][s]) : HasFast(l, s) => l \in ToSet(u.lists[c][s])
    BY <1>1, Zenon DEF Flagged
  <2> QED
    BY <2>1
<1>3. ASSUME NEW R \in SUBSET Classes, Linked(t, R), Raw(t, R)
      PROVE  Raw(v, R)
  <2>1. Raw(u, R)
    BY <1>3 DEF Flagged
  <2>2. Linked(u, R)
    <3> SUFFICES ASSUME NEW c \in R, u.super[c] # NoClass
                 PROVE  c \in u.subclasses[u.super[c]]
      BY DEF Linked
    <3>1. c \in t.subclasses[t.super[c]]
      BY <1>1, <1>3 DEF Linked
    <3>2. t.super[c] \in Classes
      BY <1>1, Fields
    <3> QED
      BY <1>1, <3>1, <3>2
  <2> QED
    BY <2>1, <2>2 DEF Flagged
<1> QED
  BY <1>1, <1>2, <1>3 DEF Flagged

\* One more change of methods: what is unchanged, in short.
Steady(t, u) == u \in RT /\ SameCore(t, u) /\ Flagged(t, u)

\* Linked and initialized classes stay so.
LEMMA UpStays ==
  ASSUME NEW t \in RT, Up(t), NEW u, Flagged(t, u)
  PROVE  Up(u)
<1>1. \A c \in t.initialized : t.super[c] \in Classes \cup {NoClass}
  BY Fields
<1> QED
  BY <1>1 DEF Up, Linked, Flagged

\* Nothing changes.
LEMMA SteadyIdle ==
  ASSUME NEW t \in RT
  PROVE  Steady(t, t)
  BY Fields DEF Steady, Flagged

\* Twice.
LEMMA SteadyTwice ==
  ASSUME NEW t \in RT, NEW u, NEW v, Steady(t, u), Steady(u, v)
  PROVE  Steady(t, v)
  BY SameTwice, FlaggedTwice DEF Steady

\* setHasCustomRR and setHasCustomAWZ
LEMMA SetHasCustomTakes ==
  ASSUME NEW t \in RT, Up(t), NEW c \in Classes, NEW s \in Sides, NEW u, u = SetHasCustom(t, c, s)
  PROVE  /\ Steady(t, u) /\ c \notin u.default[s]
         /\ u.lists = t.lists /\ u.unattached = t.unattached /\ u.rawIsa = t.rawIsa
<1>1. CASE c \notin t.default[s]
  <2>1. u = t
    BY <1>1 DEF SetHasCustom
  <2> QED
    BY <1>1, <2>1, SteadyIdle
<1>2. CASE c \in t.default[s]
  <2>1. PICK S : S = Subtree(t, c)
    OBVIOUS
  <2>2. S \in SUBSET Classes /\ c \in S /\ \A d \in S : t.subclasses[d] \subseteq S
    BY <2>1, SubtreeFacts
  <2>3. PICK D : D = [t.default EXCEPT ![s] = @ \ {d \in S : d = c \/ d \in t.initialized}]
    OBVIOUS
  <2>4. D \in [Sides -> SUBSET Classes] /\ t.default \in [Sides -> SUBSET Classes]
    BY <2>3, Fields
  <2>5. u = [t EXCEPT !.default = D]
    BY <1>2, <2>1, <2>3 DEF SetHasCustom
  <2>6. u \in RT /\ SameCore(t, u)
    BY <2>4, <2>5, PutMethods
  <2>7. /\ u.default = D /\ u.lists = t.lists /\ u.unattached = t.unattached /\ u.rawIsa = t.rawIsa
        /\ u.initialized = t.initialized /\ u.swizzled = t.swizzled /\ u.replaced = t.replaced
        /\ u.super = t.super /\ u.subclasses = t.subclasses
    BY <2>5 DEF RT, TableTypes
  <2>8. D[s] = t.default[s] \ {d \in S : d = c \/ d \in t.initialized}
    BY <2>3, <2>4
  <2>9. \A x \in Sides \ {s} : D[x] = t.default[x]
    BY <2>3, <2>4
  <2>10. ASSUME NEW d \in D[s], t.super[d] \in t.default[s]
         PROVE  t.super[d] \in D[s]
    <3>1. d \in t.default[s] /\ d \in t.initialized
      BY <2>8 DEF Up
    <3>2. t.super[d] # NoClass
      BY <2>4, <2>10, ClassesAssumption DEF Classes
    <3>3. d \in t.subclasses[t.super[d]]
      BY <3>1, <3>2 DEF Up, Linked
    <3>4. t.super[d] \notin S
      BY <2>2, <2>8, <3>1, <3>3
    <3> QED
      BY <2>8, <2>10, <3>4
  <2>11. ASSUME NEW x \in Sides
         PROVE  /\ D[x] \subseteq t.default[x]
                /\ \A d \in D[x] : t.super[d] \in t.default[x] => t.super[d] \in D[x]
    BY <2>8, <2>9, <2>10
  <2>12. Flagged(t, u)
    BY <2>7, <2>11, Zenon DEF Flagged, Raw
  <2> QED
    BY <2>2, <2>6, <2>7, <2>8, <2>12 DEF Steady
<1> QED
  BY <1>1, <1>2

\* u is t with these lists in front of the others of a side of a class.
Attached(t, u, c, s, lists) ==
    /\ Steady(t, u) /\ u.lists = [t.lists EXCEPT ![c][s] = lists \o @]
    /\ u.rawIsa = t.rawIsa

\* prepareMethodLists and attachLists
LEMMA AttachListsIs ==
  ASSUME NEW t \in RT, Up(t), NEW c \in Classes, NEW s \in Sides, NEW lists \in Seq(MethodLists),
         NEW u, u = AttachLists(t, c, s, lists)
  PROVE  Attached(t, u, c, s, lists) /\ u.unattached = t.unattached
<1>1. PICK L : L = [t.lists EXCEPT ![c][s] = lists \o @]
  OBVIOUS
<1>2. t.lists \in [Classes -> [Sides -> Seq(MethodLists)]] /\ t.lists[c][s] \in Seq(MethodLists)
  BY Fields
<1>3. L \in [Classes -> [Sides -> Seq(MethodLists)]]
  <2>1. lists \o t.lists[c][s] \in Seq(MethodLists)
    BY <1>2, ConcatProperties
  <2> QED
    BY <1>1, <1>2, <2>1
<1>4. PICK a : a = [t EXCEPT !.lists = L]
  OBVIOUS
<1>5. a \in RT /\ SameCore(t, a)
  BY <1>3, <1>4, PutMethods
<1>6. /\ a.default = t.default /\ a.lists = L /\ a.unattached = t.unattached /\ a.rawIsa = t.rawIsa
      /\ a.initialized = t.initialized /\ a.swizzled = t.swizzled /\ a.replaced = t.replaced
      /\ a.super = t.super /\ a.subclasses = t.subclasses
  BY <1>4 DEF RT, TableTypes
<1>7. /\ \A d \in Classes, x \in Sides : d # c \/ x # s => L[d][x] = t.lists[d][x]
      /\ ToSet(L[c][s]) = ToSet(lists) \cup ToSet(t.lists[c][s])
  <2>1. L[c][s] = lists \o t.lists[c][s]
    BY <1>1, <1>2
  <2>2. ToSet(lists \o t.lists[c][s]) = ToSet(lists) \cup ToSet(t.lists[c][s])
    BY <1>2, ConcatMembers
  <2> QED
    BY <1>1, <1>2, <2>1, <2>2
<1>8. Up(a)
  BY <1>6 DEF Up, Linked
<1> DEFINE Fast == \E l \in ToSet(lists) : HasFast(l, s)
<1>9. CASE Fast
  <2>1. u = SetHasCustom(a, c, s)
    BY <1>1, <1>4, <1>9 DEF AttachLists
  <2>2. /\ Steady(a, u) /\ c \notin u.default[s]
        /\ u.lists = a.lists /\ u.unattached = a.unattached /\ u.rawIsa = a.rawIsa
    BY <1>5, <1>8, <2>1, SetHasCustomTakes
  <2>3. u \in RT /\ SameCore(t, u)
    BY <1>5, <2>2, SameTwice DEF Steady
  <2>4. ASSUME NEW x \in Sides
        PROVE  /\ u.default[x] \subseteq t.default[x]
               /\ \A d \in u.default[x] : t.super[d] \in t.default[x] => t.super[d] \in u.default[x]
    BY <1>6, <2>2, Zenon DEF Steady, Flagged
  <2>5. ASSUME NEW x \in Sides, NEW d \in u.default[x], NEW l \in ToSet(u.lists[d][x])
        PROVE  l \in ToSet(t.lists[d][x])
    <3>1. d \in Classes /\ (d # c \/ x # s)
      BY <2>2, <2>3, Fields
    <3> QED
      BY <1>6, <1>7, <2>2, <2>5, <3>1
  <2>6. /\ u.super = t.super /\ \A d \in Classes : t.subclasses[d] \subseteq u.subclasses[d]
        /\ u.initialized = t.initialized /\ u.swizzled = t.swizzled /\ u.replaced = t.replaced
        /\ u.rawIsa = t.rawIsa
    BY <1>6, <2>2, Zenon DEF Steady, Flagged
  <2>7. Flagged(t, u)
    BY <2>4, <2>5, <2>6 DEF Flagged, Raw
  <2> QED
    BY <1>1, <1>6, <2>2, <2>3, <2>7 DEF Steady, Attached
<1>10. CASE ~Fast
  <2>1. u = a
    BY <1>1, <1>4, <1>10 DEF AttachLists
  <2>2. ASSUME NEW x \in Sides, NEW d \in a.default[x], NEW l \in ToSet(a.lists[d][x]), HasFast(l, x)
        PROVE  l \in ToSet(t.lists[d][x])
    <3>1. d \in Classes
      BY <1>5, Fields
    <3>2. CASE d # c \/ x # s
      BY <1>6, <1>7, <3>1, <3>2
    <3>3. CASE d = c /\ x = s
      BY <1>6, <1>7, <1>10, <2>2, <3>3
    <3> QED
      BY <3>2, <3>3
  <2>3. Flagged(t, a)
    BY <1>6, <2>2 DEF Flagged, Raw
  <2> QED
    BY <1>1, <1>5, <1>6, <2>1, <2>3 DEF Steady, Attached
<1> QED
  BY <1>9, <1>10

\* Lists in front of others, and more in front of them
LEMMA AttachedTwice ==
  ASSUME NEW t \in RT, NEW c \in Classes, NEW s \in Sides, NEW p \in Seq(MethodLists), NEW q \in Seq(MethodLists),
         NEW u, Attached(t, u, c, s, p), NEW v, Attached(u, v, c, s, q)
  PROVE  Attached(t, v, c, s, q \o p)
<1>1. t.lists \in [Classes -> [Sides -> Seq(MethodLists)]] /\ t.lists[c][s] \in Seq(MethodLists)
  BY Fields
<1>2. u.lists = [t.lists EXCEPT ![c][s] = p \o @] /\ v.lists = [u.lists EXCEPT ![c][s] = q \o @]
  BY DEF Attached
<1>3. PICK r, k, m : r = t.lists[c][s] /\ k = p \o r /\ m = q \o k
  OBVIOUS
<1>4. v.lists = [t.lists EXCEPT ![c][s] = (q \o p) \o @]
  <2>1. r \in Seq(MethodLists)
    BY <1>1, <1>3
  <2>2. m = (q \o p) \o r
    <3>1. (q \o p) \o r = q \o (p \o r)
      BY <2>1, Regrouped
    <3> QED
      BY <1>3, <3>1, Zenon
  <2>3. u.lists = [t.lists EXCEPT ![c][s] = k]
    BY <1>1, <1>2, <1>3
  <2>4. u.lists[c][s] = k
    BY <1>1, <2>3
  <2>5. v.lists = [u.lists EXCEPT ![c][s] = m]
    BY <1>1, <1>2, <1>3, <2>3, <2>4
  <2>6. v.lists = [t.lists EXCEPT ![c][s] = m]
    BY <1>1, <2>3, <2>5
  <2> QED
    BY <1>1, <1>3, <2>2, <2>6
<1>5. Steady(t, v) /\ v.rawIsa = t.rawIsa
  BY SteadyTwice DEF Attached
<1> QED
  BY <1>4, <1>5 DEF Attached

-----------------------------------------------------------------------------
(* The order of what Only keeps                                             *)

\* Only goes through a sequence from the start.
LEMMA OnlyAppend ==
  ASSUME NEW E, NEW q \in Seq(E), NEW x \in E, NEW set
  PROVE  Only(Append(q, x), set) = IF x \in set THEN Append(Only(q, set), x) ELSE Only(q, set)
<1>1. PICK N \in Nat : N = Len(q)
  BY LenProperties
<1>2. PICK r \in Seq(E) : r = Append(q, x)
  BY AppendProperties
<1>3. Len(r) = N + 1 /\ r[N + 1] = x /\ \A i \in 1 .. N : r[i] = q[i]
  BY <1>1, <1>2, AppendProperties
<1>4. r # <<>>
  BY <1>1, <1>3, EmptySeq
<1>5. PICK f : OnlyTo(f, r, set) /\ Only(r, set) = f[N + 1]
  BY <1>3, <1>4, OnlyIs
<1> DEFINE One(y) == IF y \in set THEN <<y>> ELSE <<>>
<1>6. \A i \in 1 .. N + 1 : f[i] = IF i = 1 THEN One(r[i]) ELSE f[i - 1] \o One(r[i])
  BY <1>3, <1>5, Zenon DEF OnlyTo
<1>7. Only(q, set) \in Seq(E)
  BY OnlyMembers
<1>8. Only(r, set) = Only(q, set) \o One(x)
  <2>1. CASE q = <<>>
    <3>1. N = 0 /\ Only(q, set) = <<>>
      BY <1>1, <2>1, OnlyIs
    <3>2. f[1] = One(x)
      BY <1>3, <1>6, <3>1
    <3> QED
      BY <1>5, <3>1, <3>2
  <2>2. CASE q # <<>>
    <3>1. PICK h : OnlyTo(h, q, set) /\ Only(q, set) = h[N]
      BY <1>1, <2>2, OnlyIs
    <3>2. \A i \in 1 .. N : h[i] = IF i = 1 THEN One(q[i]) ELSE h[i - 1] \o One(q[i])
      BY <1>1, <3>1, Zenon DEF OnlyTo
    <3> HIDE DEF One
    <3> DEFINE K == {n \in Nat : n + 1 <= N => f[n + 1] = h[n + 1]}
    <3>3. 0 \in K
      BY <1>3, <1>6, <3>2
    <3>4. ASSUME NEW n \in K
          PROVE  n + 1 \in K
      <4> SUFFICES ASSUME (n + 1) + 1 <= N
                   PROVE  f[(n + 1) + 1] = h[(n + 1) + 1]
        OBVIOUS
      <4>1. n \in Nat /\ n + 2 \in 1 .. N /\ n + 2 \in 1 .. N + 1 /\ n + 2 # 1 /\ (n + 2) - 1 = n + 1
            /\ (n + 1) + 1 = n + 2 /\ f[n + 1] = h[n + 1]
        OBVIOUS
      <4>2. f[n + 2] = f[n + 1] \o One(r[n + 2]) /\ h[n + 2] = h[n + 1] \o One(q[n + 2])
        BY <1>6, <3>2, <4>1
      <4> QED
        BY <1>3, <4>1, <4>2
    <3>5. \A n \in Nat : n \in K
      <4> HIDE DEF K
      <4>1. K \in SUBSET Nat
        BY DEF K
      <4> QED
        BY <3>3, <3>4, <4>1, Induction
    <3>6. N # 0
      BY <1>1, <2>2, EmptySeq
    <3>7. N - 1 \in K /\ (N - 1) + 1 = N
      <4> HIDE DEF K
      <4> QED
        BY <3>5, <3>6
    <3>8. f[N] = h[N]
      BY <3>7
    <3>9. N + 1 \in 1 .. N + 1 /\ N + 1 # 1 /\ (N + 1) - 1 = N
      BY <3>6
    <3>10. f[N + 1] = f[N] \o One(r[N + 1])
      BY <1>6, <3>9
    <3> QED
      BY <1>3, <1>5, <3>1, <3>8, <3>10
  <2> QED
    BY <2>1, <2>2
<1>9. CASE x \in set
  <2>1. PICK o \in Seq(E) : o = Only(q, set)
    BY <1>7
  <2>2. o \o <<x>> = Append(o, x)
    OBVIOUS
  <2> QED
    BY <1>2, <1>8, <1>9, <2>1, <2>2
<1>10. CASE x \notin set
  <2>1. PICK o \in Seq(E) : o = Only(q, set)
    BY <1>7
  <2>2. o \o <<>> = o
    OBVIOUS
  <2> QED
    BY <1>2, <1>8, <1>10, <2>1, <2>2
<1> QED
  BY <1>9, <1>10

\* Members that the sequence does not have make no difference.
LEMMA OnlyAgrees ==
  ASSUME NEW E, NEW q \in Seq(E), NEW S, NEW T, S \cap ToSet(q) = T \cap ToSet(q)
  PROVE  Only(q, S) = Only(q, T)
<1>1. \A n \in DOMAIN q : q[n] \in ToSet(q)
  BY DEF ToSet
<1>2. \A n \in DOMAIN q : q[n] \in S <=> q[n] \in T
  BY <1>1
<1>3. [n \in DOMAIN q |-> IF q[n] \in S THEN <<q[n]>> ELSE <<>>]
        = [n \in DOMAIN q |-> IF q[n] \in T THEN <<q[n]>> ELSE <<>>]
  BY <1>2
<1> QED
  BY <1>3 DEF Only

\* A part of a part is a part.
LEMMA OnlyOnly ==
  ASSUME NEW E, NEW q \in Seq(E), NEW S, NEW T
  PROVE  Only(Only(q, S), T) = Only(q, S \cap T)
<1> DEFINE P == {r \in Seq(E) : Only(Only(r, S), T) = Only(r, S \cap T)}
<1>1. <<>> \in P
  <2>1. <<>> \in Seq(E)
    OBVIOUS
  <2>2. Only(<<>>, S) = <<>> /\ Only(<<>>, T) = <<>> /\ Only(<<>>, S \cap T) = <<>>
    BY <2>1, OnlyIs
  <2> QED
    BY <2>1, <2>2
<1>2. ASSUME NEW r \in Seq(E), r \in P, NEW x \in E
      PROVE  Append(r, x) \in P
  <2>1. PICK o \in Seq(E) : o = Only(r, S)
    BY OnlyMembers
  <2>2. PICK a \in Seq(E) : a = Append(r, x)
    BY AppendProperties
  <2>3. Only(o, T) = Only(r, S \cap T)
    BY <1>2, <2>1
  <2>4. Only(a, S \cap T) = IF x \in S /\ x \in T THEN Append(Only(r, S \cap T), x) ELSE Only(r, S \cap T)
    BY <2>2, OnlyAppend
  <2>5. Only(a, S) = IF x \in S THEN Append(o, x) ELSE o
    BY <2>1, <2>2, OnlyAppend
  <2>6. Only(Append(o, x), T) = IF x \in T THEN Append(Only(o, T), x) ELSE Only(o, T)
    BY OnlyAppend
  <2>7. Only(Only(a, S), T) = Only(a, S \cap T)
    <3>1. CASE x \in S
      <4>1. Only(a, S) = Append(o, x)
        BY <2>5, <3>1
      <4>2. CASE x \in T
        <5>1. Only(Append(o, x), T) = Append(Only(o, T), x) /\ Only(a, S \cap T) = Append(Only(r, S \cap T), x)
          BY <2>4, <2>6, <3>1, <4>2
        <5> QED
          BY <2>3, <4>1, <5>1
      <4>3. CASE x \notin T
        <5>1. Only(Append(o, x), T) = Only(o, T) /\ Only(a, S \cap T) = Only(r, S \cap T)
          BY <2>4, <2>6, <4>3
        <5> QED
          BY <2>3, <4>1, <5>1
      <4> QED
        BY <4>2, <4>3
    <3>2. CASE x \notin S
      BY <2>3, <2>4, <2>5, <3>2, Zenon
    <3> QED
      BY <3>1, <3>2
  <2> QED
    BY <2>2, <2>7
<1>3. Seq(E) \subseteq P
  <2> HIDE DEF P
  <2> QED
    BY <1>1, <1>2, SeqInduction
<1> QED
  BY <1>3

\* Of two sequences, the parts come one after the other.
LEMMA OnlyConcat ==
  ASSUME NEW E, NEW p \in Seq(E), NEW q \in Seq(E), NEW S
  PROVE  Only(p \o q, S) = Only(p, S) \o Only(q, S)
<1> DEFINE P == {r \in Seq(E) : Only(p \o r, S) = Only(p, S) \o Only(r, S)}
<1>0. PICK o \in Seq(E) : o = Only(p, S)
  BY OnlyMembers
<1>1. <<>> \in P
  <2>1. <<>> \in Seq(E)
    OBVIOUS
  <2>2. Only(<<>>, S) = <<>>
    BY <2>1, OnlyIs
  <2>3. p \o <<>> = p /\ o \o <<>> = o
    OBVIOUS
  <2> QED
    BY <1>0, <2>1, <2>2, <2>3
<1>2. ASSUME NEW r \in Seq(E), r \in P, NEW x \in E
      PROVE  Append(r, x) \in P
  <2>1. PICK w \in Seq(E) : w = Only(r, S)
    BY OnlyMembers
  <2>2. PICK a \in Seq(E) : a = Append(r, x)
    BY AppendProperties
  <2>3. PICK b \in Seq(E) : b = p \o r
    BY ConcatProperties
  <2>4. p \o a = Append(b, x) /\ o \o Append(w, x) = Append(o \o w, x)
    <3>1. p \o Append(r, x) = Append(p \o r, x)
      BY ConcatAppend
    <3>2. o \o Append(w, x) = Append(o \o w, x)
      BY ConcatAppend
    <3> QED
      BY <2>2, <2>3, <3>1, <3>2, Zenon
  <2>5. Only(b, S) = o \o w
    BY <1>0, <1>2, <2>1, <2>3
  <2>6. Only(Append(b, x), S) = IF x \in S THEN Append(Only(b, S), x) ELSE Only(b, S)
    BY OnlyAppend
  <2>7. Only(a, S) = IF x \in S THEN Append(w, x) ELSE w
    BY <2>1, <2>2, OnlyAppend
  <2>8. Only(p \o a, S) = o \o Only(a, S)
    BY <2>4, <2>5, <2>6, <2>7
  <2> QED
    BY <1>0, <2>2, <2>8
<1>3. Seq(E) \subseteq P
  <2> HIDE DEF P
  <2> QED
    BY <1>1, <1>2, SeqInduction
<1> QED
  BY <1>3

\* All of a sequence, and none of it
LEMMA OnlyAll ==
  ASSUME NEW E, NEW q \in Seq(E), NEW S
  PROVE  /\ E \subseteq S => Only(q, S) = q
         /\ E \cap S = {} => Only(q, S) = <<>>
<1> DEFINE P == {r \in Seq(E) : (E \subseteq S => Only(r, S) = r) /\ (E \cap S = {} => Only(r, S) = <<>>)}
<1>1. <<>> \in P
  <2>1. <<>> \in Seq(E)
    OBVIOUS
  <2>2. Only(<<>>, S) = <<>>
    BY <2>1, OnlyIs
  <2> QED
    BY <2>1, <2>2
<1>2. ASSUME NEW r \in Seq(E), r \in P, NEW x \in E
      PROVE  Append(r, x) \in P
  <2>1. PICK a \in Seq(E) : a = Append(r, x)
    BY AppendProperties
  <2>2. Only(a, S) = IF x \in S THEN Append(Only(r, S), x) ELSE Only(r, S)
    BY <2>1, OnlyAppend
  <2>3. (E \subseteq S => Only(a, S) = a) /\ (E \cap S = {} => Only(a, S) = <<>>)
    BY <1>2, <2>1, <2>2
  <2> QED
    BY <2>1, <2>3
<1>3. Seq(E) \subseteq P
  <2> HIDE DEF P
  <2> QED
    BY <1>1, <1>2, SeqInduction
<1> QED
  BY <1>3

-----------------------------------------------------------------------------
(* The order of categories                                                  *)

\* The categories attached to a class, newest first, and those that wait for it, are
\* in the order in which they were found.
InOrder(F, attached, waiting) ==
    /\ F \in Seq(Categories) /\ attached \in Seq(Categories) /\ waiting \in Seq(Categories)
    /\ Reverse(attached) \o waiting = Only(F, ToSet(attached) \cup ToSet(waiting))

\* Those were found.
LEMMA InOrderFound ==
  ASSUME NEW F, NEW C, NEW w, InOrder(F, C, w)
  PROVE  ToSet(C) \cup ToSet(w) \subseteq ToSet(F)
<1>1. /\ F \in Seq(Categories) /\ C \in Seq(Categories) /\ w \in Seq(Categories)
      /\ Reverse(C) \o w = Only(F, ToSet(C) \cup ToSet(w))
  BY DEF InOrder
<1>2. Reverse(C) \in Seq(Categories) /\ ToSet(Reverse(C)) = ToSet(C)
  BY <1>1, Backwards
<1>3. ToSet(Reverse(C) \o w) = ToSet(C) \cup ToSet(w)
  <2>1. PICK d \in Seq(Categories) : d = Reverse(C)
    BY <1>2
  <2>2. ToSet(d \o w) = ToSet(d) \cup ToSet(w)
    BY <1>1, ConcatMembers
  <2> QED
    BY <1>2, <2>1, <2>2
<1>4. ToSet(Only(F, ToSet(C) \cup ToSet(w))) = ToSet(F) \cap (ToSet(C) \cup ToSet(w))
  BY <1>1, OnlyMembers
<1> QED
  BY <1>1, <1>3, <1>4

\* No category, in whatever order.
LEMMA InOrderNone ==
  ASSUME NEW F \in Seq(Categories)
  PROVE  InOrder(F, <<>>, <<>>)
<1>1. <<>> \in Seq(Categories) /\ ToSet(<<>>) = {} /\ Reverse(<<>>) = <<>> /\ <<>> \o <<>> = <<>>
  BY DEF ToSet, Reverse
<1>2. Only(F, {}) = <<>>
  BY OnlyAll
<1> QED
  BY <1>1, <1>2 DEF InOrder

\* One more is found, and waits or not.
LEMMA InOrderReads ==
  ASSUME NEW F, NEW C, NEW w, InOrder(F, C, w), NEW k \in Categories, k \notin ToSet(F)
  PROVE  InOrder(Append(F, k), C, w) /\ InOrder(Append(F, k), C, Append(w, k))
<1>1. /\ F \in Seq(Categories) /\ C \in Seq(Categories) /\ w \in Seq(Categories)
      /\ Reverse(C) \o w = Only(F, ToSet(C) \cup ToSet(w))
  BY DEF InOrder
<1>2. PICK S : S = ToSet(C) \cup ToSet(w)
  OBVIOUS
<1>3. k \notin S
  BY <1>2, InOrderFound
<1>4. Append(F, k) \in Seq(Categories) /\ Append(w, k) \in Seq(Categories)
      /\ ToSet(Append(w, k)) = ToSet(w) \cup {k}
  BY <1>1, AppendMembers
<1>5. Only(Append(F, k), S) = Only(F, S)
  BY <1>1, <1>3, OnlyAppend
<1>6. Only(Append(F, k), S \cup {k}) = Append(Only(F, S), k)
  <2>1. Only(Append(F, k), S \cup {k}) = Append(Only(F, S \cup {k}), k)
    <3>1. PICK T : T = S \cup {k}
      OBVIOUS
    <3>2. Only(Append(F, k), T) = IF k \in T THEN Append(Only(F, T), k) ELSE Only(F, T)
      BY <1>1, OnlyAppend
    <3> QED
      BY <3>1, <3>2
  <2>2. S \cap ToSet(F) = (S \cup {k}) \cap ToSet(F)
    OBVIOUS
  <2>3. Only(F, S \cup {k}) = Only(F, S)
    BY <1>1, <2>2, OnlyAgrees
  <2> QED
    BY <2>1, <2>3
<1>7. Reverse(C) \o Append(w, k) = Append(Reverse(C) \o w, k)
  <2>1. PICK r \in Seq(Categories) : r = Reverse(C)
    BY <1>1, Backwards
  <2>2. r \o Append(w, k) = Append(r \o w, k)
    BY <1>1, ConcatAppend
  <2> QED
    BY <2>1, <2>2
<1>8. ToSet(C) \cup ToSet(Append(w, k)) = S \cup {k}
  BY <1>2, <1>4
<1> QED
  BY <1>1, <1>2, <1>4, <1>5, <1>6, <1>7, <1>8 DEF InOrder

\* Those that wait are attached.
LEMMA InOrderAttached ==
  ASSUME NEW F, NEW C, NEW w, InOrder(F, C, w)
  PROVE  InOrder(F, Reverse(w) \o C, <<>>) /\ ToSet(Reverse(w) \o C) = ToSet(C) \cup ToSet(w)
<1>1. /\ F \in Seq(Categories) /\ C \in Seq(Categories) /\ w \in Seq(Categories)
      /\ Reverse(C) \o w = Only(F, ToSet(C) \cup ToSet(w))
  BY DEF InOrder
<1>2. PICK r : r = Reverse(w)
  OBVIOUS
<1>3. r \in Seq(Categories) /\ ToSet(r) = ToSet(w) /\ Reverse(r) = w
  BY <1>1, <1>2, Backwards
<1>4. r \o C \in Seq(Categories) /\ ToSet(r \o C) = ToSet(C) \cup ToSet(w)
  BY <1>1, <1>3, ConcatMembers
<1>5. Reverse(r \o C) = Reverse(C) \o w
  <2>1. \A d \in Seq(Categories) : Reverse(r \o d) = Reverse(d) \o Reverse(r)
    BY <1>3, Backwards
  <2> QED
    BY <1>1, <1>3, <2>1
<1>6. PICK d \in Seq(Categories) : d = Reverse(C) \o w
  <2>1. Reverse(C) \in Seq(Categories)
    BY <1>1, Backwards
  <2> QED
    BY <1>1, <2>1, ConcatMembers
<1>7. d \o <<>> = d /\ ToSet(<<>>) = {} /\ <<>> \in Seq(Categories)
  BY DEF ToSet
<1>8. InOrder(F, r \o C, <<>>)
  BY <1>1, <1>4, <1>5, <1>6, <1>7 DEF InOrder
<1> QED
  BY <1>2, <1>4, <1>8

\* Some of those that wait are taken off, while none is attached.
LEMMA InOrderLess ==
  ASSUME NEW F, NEW w, InOrder(F, <<>>, w), NEW T
  PROVE  InOrder(F, <<>>, Only(w, T))
<1>1. F \in Seq(Categories) /\ w \in Seq(Categories) /\ Reverse(<<>>) \o w = Only(F, ToSet(<<>>) \cup ToSet(w))
  BY DEF InOrder
<1>2. <<>> \in Seq(Categories) /\ ToSet(<<>>) = {} /\ Reverse(<<>>) = <<>>
      /\ \A q \in Seq(Categories) : <<>> \o q = q
  BY DEF ToSet, Reverse
<1>3. PICK S : S = ToSet(w)
  OBVIOUS
<1>4. w = Only(F, S)
  BY <1>1, <1>2, <1>3
<1>5. PICK v : v = Only(w, T)
  OBVIOUS
<1>6. v \in Seq(Categories) /\ ToSet(v) = S \cap T
  BY <1>1, <1>3, <1>5, OnlyMembers
<1>7. v = Only(F, S \cap T)
  <2>1. Only(Only(F, S), T) = Only(F, S \cap T)
    BY <1>1, OnlyOnly
  <2> QED
    BY <1>4, <1>5, <2>1
<1> QED
  BY <1>1, <1>2, <1>5, <1>6, <1>7 DEF InOrder

\* When none waits, those attached are the ones found, newest first.
LEMMA InOrderShows ==
  ASSUME NEW F, NEW C, InOrder(F, C, <<>>)
  PROVE  C = Reverse(Only(F, ToSet(C)))
<1>1. C \in Seq(Categories) /\ Reverse(C) \o <<>> = Only(F, ToSet(C) \cup ToSet(<<>>))
  BY DEF InOrder
<1>2. PICK d \in Seq(Categories) : d = Reverse(C) /\ Reverse(d) = C
  BY <1>1, Backwards
<1>3. d \o <<>> = d /\ ToSet(<<>>) = {}
  BY DEF ToSet
<1> QED
  BY <1>1, <1>2, <1>3

-----------------------------------------------------------------------------
(* Whose the method lists are                                               *)

\* Who owns the lists
OwnersOf(lists) == [n \in DOMAIN lists |-> lists[n].owner]

\* The categories among them, in order
CategoriesIn(lists) == Only(OwnersOf(lists), Categories)

\* Only keeps what it may.
LEMMA OnlyType ==
  ASSUME NEW E, NEW q \in Seq(E), NEW S
  PROVE  Only(q, S) \in Seq(S)
<1> DEFINE P == {r \in Seq(E) : Only(r, S) \in Seq(S)}
<1>1. <<>> \in P
  <2>1. <<>> \in Seq(E) /\ <<>> \in Seq(S)
    OBVIOUS
  <2>2. Only(<<>>, S) = <<>>
    BY <2>1, OnlyIs
  <2> QED
    BY <2>1, <2>2
<1>2. ASSUME NEW r \in P, NEW x \in E
      PROVE  Append(r, x) \in P
  <2>1. r \in Seq(E) /\ Append(r, x) \in Seq(E) /\ Only(r, S) \in Seq(S)
    BY AppendProperties
  <2>2. Only(Append(r, x), S) = IF x \in S THEN Append(Only(r, S), x) ELSE Only(r, S)
    BY <2>1, OnlyAppend
  <2>3. x \in S => Append(Only(r, S), x) \in Seq(S)
    BY <2>1, AppendProperties
  <2> QED
    BY <2>1, <2>2, <2>3
<1>3. \A r \in Seq(E) : r \in P => \A x \in E : Append(r, x) \in P
  <2> HIDE DEF P
  <2> QED
    BY <1>2
<1>4. Seq(E) \subseteq P
  <2> HIDE DEF P
  <2> QED
    BY <1>1, <1>3, SeqInduction, Zenon
<1> QED
  BY <1>4

\* Lists in front of others bring their owners.
LEMMA CategoriesFirst ==
  ASSUME NEW p \in Seq(MethodLists), NEW q \in Seq(MethodLists)
  PROVE  /\ OwnersOf(p) \in Seq(Owners) /\ CategoriesIn(p) \in Seq(Categories)
         /\ CategoriesIn(p \o q) = CategoriesIn(p) \o CategoriesIn(q)
         /\ \A x : x \in ToSet(CategoriesIn(p)) <=> x \in Categories /\ \E l \in ToSet(p) : l.owner = x
<1>1. ASSUME NEW r \in Seq(MethodLists)
      PROVE  OwnersOf(r) \in Seq(Owners) /\ Len(OwnersOf(r)) = Len(r)
             /\ \A i \in 1 .. Len(r) : OwnersOf(r)[i] = r[i].owner
  <2>1. Len(r) \in Nat /\ DOMAIN r = 1 .. Len(r) /\ \A i \in 1 .. Len(r) : r[i] \in MethodLists
    BY LenProperties, ElementOfSeq
  <2>2. \A i \in 1 .. Len(r) : r[i].owner \in Owners
    BY <2>1 DEF MethodLists
  <2>3. PICK o : o = [n \in 1 .. Len(r) |-> r[n].owner]
    OBVIOUS
  <2>4. o \in Seq(Owners) /\ Len(o) = Len(r) /\ \A i \in 1 .. Len(r) : o[i] = r[i].owner
    BY <2>1, <2>2, <2>3
  <2>5. OwnersOf(r) = o
    BY <2>1, <2>3 DEF OwnersOf
  <2> QED
    BY <2>4, <2>5
<1>2. CategoriesIn(p) \in Seq(Categories)
  BY <1>1, OnlyType DEF CategoriesIn
<1>3. OwnersOf(p \o q) = OwnersOf(p) \o OwnersOf(q)
  <2>1. PICK N, M \in Nat : N = Len(p) /\ M = Len(q)
    BY LenProperties
  <2>2. PICK k \in Seq(MethodLists) : k = p \o q
    BY ConcatProperties
  <2>3. Len(k) = N + M /\ \A i \in 1 .. N + M : k[i] = IF i <= N THEN p[i] ELSE q[i - N]
    BY <2>1, <2>2, ConcatProperties
  <2>4. PICK a, b, o : a = OwnersOf(p) /\ b = OwnersOf(q) /\ o = OwnersOf(k)
    OBVIOUS
  <2>5. /\ a \in Seq(Owners) /\ b \in Seq(Owners) /\ o \in Seq(Owners) /\ Len(a) = N /\ Len(b) = M /\ Len(o) = N + M
        /\ \A i \in 1 .. N : a[i] = p[i].owner
        /\ \A i \in 1 .. M : b[i] = q[i].owner
        /\ \A i \in 1 .. N + M : o[i] = k[i].owner
    BY <1>1, <2>1, <2>3, <2>4
  <2>6. PICK e \in Seq(Owners) : e = a \o b
    BY <2>5, ConcatProperties
  <2>7. Len(e) = N + M /\ \A i \in 1 .. N + M : e[i] = IF i <= N THEN a[i] ELSE b[i - N]
    BY <2>5, <2>6, ConcatProperties
  <2>8. \A i \in 1 .. N + M : e[i] = o[i]
    <3> SUFFICES ASSUME NEW i \in 1 .. N + M
                 PROVE  e[i] = o[i]
      OBVIOUS
    <3>1. CASE i <= N
      <4>1. i \in 1 .. N
        BY <2>1, <3>1
      <4>2. k[i] = p[i] /\ e[i] = a[i]
        BY <2>3, <2>7, <3>1
      <4>3. o[i] = k[i].owner /\ a[i] = p[i].owner
        BY <2>5, <4>1
      <4> QED
        BY <4>2, <4>3
    <3>2. CASE ~(i <= N)
      <4>1. i - N \in 1 .. M
        BY <2>1, <3>2
      <4>2. k[i] = q[i - N] /\ e[i] = b[i - N]
        BY <2>3, <2>7, <3>2
      <4>3. o[i] = k[i].owner /\ b[i - N] = q[i - N].owner
        BY <2>5, <4>1
      <4> QED
        BY <4>2, <4>3
    <3> QED
      BY <3>1, <3>2
  <2>9. e = o
    BY <2>5, <2>7, <2>8, SeqEqual
  <2> QED
    BY <2>2, <2>4, <2>6, <2>9
<1>4. CategoriesIn(p \o q) = CategoriesIn(p) \o CategoriesIn(q)
  BY <1>1, <1>3, OnlyConcat DEF CategoriesIn
<1>5. ASSUME NEW x
      PROVE  x \in ToSet(CategoriesIn(p)) <=> x \in Categories /\ \E l \in ToSet(p) : l.owner = x
  <2>1. ToSet(CategoriesIn(p)) = ToSet(OwnersOf(p)) \cap Categories
    BY <1>1, OnlyMembers DEF CategoriesIn
  <2>2. \A y : y \in ToSet(OwnersOf(p)) <=> \E i \in 1 .. Len(p) : p[i].owner = y
    <3>1. \A y : y \in ToSet(OwnersOf(p)) <=> \E i \in 1 .. Len(OwnersOf(p)) : OwnersOf(p)[i] = y
      BY <1>1, SeqMembers
    <3> QED
      BY <1>1, <3>1
  <2>3. \A l : l \in ToSet(p) <=> \E i \in 1 .. Len(p) : p[i] = l
    BY SeqMembers
  <2> QED
    BY <2>1, <2>2, <2>3
<1> QED
  BY <1>1, <1>2, <1>4, <1>5

-----------------------------------------------------------------------------
(* What changes of methods do to the lists                                  *)

\* No lists, no categories.
LEMMA NoneIn == <<>> \in Seq(MethodLists) /\ CategoriesIn(<<>>) = <<>>
<1>1. PICK e : e = <<>>
  OBVIOUS
<1>2. e \in Seq(MethodLists) /\ ToSet(e) = {}
  BY <1>1 DEF ToSet
<1>3. /\ CategoriesIn(e) \in Seq(Categories)
      /\ \A x : x \in ToSet(CategoriesIn(e)) <=> x \in Categories /\ \E m \in ToSet(e) : m.owner = x
  BY <1>2, CategoriesFirst
<1>4. ToSet(CategoriesIn(e)) = {}
  BY <1>2, <1>3
<1> QED
  BY <1>1, <1>2, <1>3, <1>4, NoMember

\* A list that is no category's
LEMMA OneList ==
  ASSUME NEW l \in MethodLists
  PROVE  /\ <<l>> \in Seq(MethodLists) /\ <<l>> # <<>> /\ Last(<<l>>) = l
         /\ l.owner \notin Categories => CategoriesIn(<<l>>) = <<>>
<1>1. <<l>> \in Seq(MethodLists) /\ <<l>> # <<>> /\ Last(<<l>>) = l /\ ToSet(<<l>>) = {l}
  BY DEF Last, ToSet
<1>2. /\ CategoriesIn(<<l>>) \in Seq(Categories)
      /\ \A x : x \in ToSet(CategoriesIn(<<l>>)) <=> x \in Categories /\ \E m \in ToSet(<<l>>) : m.owner = x
  BY <1>1, CategoriesFirst
<1>3. l.owner \notin Categories => ToSet(CategoriesIn(<<l>>)) = {}
  BY <1>1, <1>2
<1> QED
  BY <1>1, <1>2, <1>3, NoMember

\* The class's own list is no category's.
LEMMA OwnList ==
  ASSUME NEW c \in ImageClasses, NEW s \in Sides
  PROVE  /\ ListOf(c, s) \in Seq(MethodLists) /\ CategoriesIn(ListOf(c, s)) = <<>>
         /\ Defines[c][s] # {} => ListOf(c, s) # <<>> /\ Last(ListOf(c, s)).owner = c
<1>1. PICK l : l = [owner |-> c, sels |-> Defines[c][s]]
  OBVIOUS
<1>2. l \in MethodLists /\ l.owner = c /\ c \notin Categories
  BY <1>1, NilLoads DEF MethodLists, Owners, Sels
<1>3. ListOf(c, s) = IF Defines[c][s] = {} THEN <<>> ELSE <<l>>
  BY <1>1 DEF ListOf
<1> QED
  BY <1>2, <1>3, NoneIn, OneList

\* class_addMethod's list is no category's.
LEMMA RuntimeList ==
  ASSUME NEW sel \in Sels
  PROVE  /\ << [owner |-> "runtime", sels |-> {sel}] >> \in Seq(MethodLists)
         /\ CategoriesIn(<< [owner |-> "runtime", sels |-> {sel}] >>) = <<>>
<1>1. PICK l : l = [owner |-> "runtime", sels |-> {sel}]
  OBVIOUS
<1>2. l \in MethodLists /\ l.owner = "runtime" /\ "runtime" \notin Categories
  BY <1>1, ClassesAssumption DEF MethodLists, Owners
<1> QED
  BY <1>1, <1>2, OneList

\* Lists are put in front, and these categories wait now.
Changed(t, u, c, s, new, w) ==
    /\ new \in Seq(MethodLists) /\ Attached(t, u, c, s, new)
    /\ u.unattached = [t.unattached EXCEPT ![c][s] = w]

\* attachCategories
LEMMA AttachCategoriesIs ==
  ASSUME NEW t \in RT, Up(t), NEW c \in Classes, NEW s \in Sides, NEW cats \in Seq(Categories),
         \A k \in ToSet(cats) : Defines[k][s] # {}, NEW u, u = AttachCategories(t, c, s, cats)
  PROVE  \E p \in Seq(MethodLists) :
           Attached(t, u, c, s, p) /\ u.unattached = t.unattached /\ CategoriesIn(p) = Reverse(cats)
<1>1. PICK b : b = Reverse(cats)
  OBVIOUS
<1>2. b \in Seq(Categories) /\ ToSet(b) = ToSet(cats)
  BY <1>1, Backwards
<1>3. PICK N \in Nat : N = Len(b) /\ N = Len(cats) /\ DOMAIN cats = 1 .. N /\ DOMAIN b = 1 .. N
  <2>1. Len(cats) \in Nat /\ DOMAIN cats = 1 .. Len(cats) /\ Len(b) \in Nat /\ DOMAIN b = 1 .. Len(b)
    BY <1>2, LenProperties
  <2>2. Len(b) = Len(cats)
    BY <1>1, <2>1 DEF Reverse
  <2> QED
    BY <2>1, <2>2
<1>4. \A i \in 1 .. N : b[i] \in Categories /\ Defines[b[i]][s] # {}
  <2>1. \A i \in 1 .. N : b[i] \in Categories /\ b[i] \in ToSet(b)
    BY <1>2, <1>3, SeqMembers
  <2> QED
    BY <1>2, <2>1
<1>5. PICK p : p = [i \in 1 .. N |-> [owner |-> b[i], sels |-> Defines[b[i]][s]]]
  OBVIOUS
<1>6. \A i \in 1 .. N : p[i] \in MethodLists /\ p[i].owner = b[i] /\ ListOf(b[i], s) = <<p[i]>>
  BY <1>4, <1>5 DEF MethodLists, Owners, Sels, ListOf
<1>7. p \in Seq(MethodLists) /\ Len(p) = N
  <2>1. p = [i \in 1 .. N |-> p[i]]
    BY <1>5
  <2> QED
    BY <1>3, <1>6, <2>1
<1>8. PICK q : q = [i \in 1 .. N |-> <<p[i]>>]
  OBVIOUS
<1>9. FlattenSeq(q) = p
  BY <1>7, <1>8, FlattenOnes
<1>10. u = AttachLists(t, c, s, p)
  <2>1. [n \in DOMAIN cats |-> ListOf(Reverse(cats)[n], s)] = q
    BY <1>1, <1>3, <1>6, <1>8
  <2> QED
    BY <1>9, <2>1 DEF AttachCategories
<1>11. Attached(t, u, c, s, p) /\ u.unattached = t.unattached
  BY <1>7, <1>10, AttachListsIs
<1>12. CategoriesIn(p) = b
  <2>1. OwnersOf(p) = [i \in 1 .. N |-> p[i].owner]
    BY <1>5 DEF OwnersOf
  <2>2. b = [i \in 1 .. N |-> b[i]]
    BY <1>2, <1>3
  <2>3. OwnersOf(p) = b
    BY <1>6, <2>1, <2>2
  <2>4. Only(b, Categories) = b
    BY <1>2, OnlyAll
  <2> QED
    BY <2>3, <2>4 DEF CategoriesIn
<1> QED
  BY <1>1, <1>7, <1>11, <1>12

\* remethodizeClass
LEMMA RemethodizeIs ==
  ASSUME NEW t \in RT, Up(t), NEW c \in Classes, NEW s \in Sides,
         \A k \in ToSet(t.unattached[c][s]) : Defines[k][s] # {}, NEW u, u = Remethodize(t, c, s)
  PROVE  \E p : Changed(t, u, c, s, p, <<>>) /\ CategoriesIn(p) = Reverse(t.unattached[c][s])
<1>1. PICK W : W = [t.unattached EXCEPT ![c][s] = <<>>]
  OBVIOUS
<1>2. t.unattached \in [Classes -> [Sides -> Seq(Categories)]] /\ t.unattached[c][s] \in Seq(Categories)
  BY Fields
<1>3. W \in [Classes -> [Sides -> Seq(Categories)]]
  <2>1. <<>> \in Seq(Categories)
    OBVIOUS
  <2> QED
    BY <1>1, <1>2, <2>1
<1>4. PICK a : a = [t EXCEPT !.unattached = W]
  OBVIOUS
<1>5. a \in RT /\ SameCore(t, a)
  BY <1>3, <1>4, PutMethods
<1>6. /\ a.default = t.default /\ a.lists = t.lists /\ a.unattached = W /\ a.rawIsa = t.rawIsa
      /\ a.initialized = t.initialized /\ a.swizzled = t.swizzled /\ a.replaced = t.replaced
      /\ a.super = t.super /\ a.subclasses = t.subclasses
  BY <1>4 DEF RT, TableTypes
<1>7. Up(a) /\ Steady(t, a)
  <2>1. Flagged(t, a)
    BY <1>6 DEF Flagged, Raw
  <2> QED
    BY <1>5, <2>1, UpStays DEF Steady
<1>8. PICK w \in Seq(Categories) : w = t.unattached[c][s]
  BY <1>2
<1>9. u = AttachCategories(a, c, s, w)
  BY <1>1, <1>4, <1>8 DEF Remethodize
<1>10. PICK p \in Seq(MethodLists) :
         Attached(a, u, c, s, p) /\ u.unattached = a.unattached /\ CategoriesIn(p) = Reverse(w)
  BY <1>5, <1>7, <1>8, <1>9, AttachCategoriesIs
<1>11. Attached(t, u, c, s, p)
  <2>1. Steady(t, u)
    BY <1>7, <1>10, SteadyTwice DEF Attached
  <2> QED
    BY <1>6, <1>10, <2>1 DEF Attached
<1>12. Changed(t, u, c, s, p, <<>>)
  BY <1>1, <1>6, <1>10, <1>11 DEF Changed
<1> QED
  BY <1>8, <1>10, <1>12

\* class_addMethod
LEMMA AddMethodIs ==
  ASSUME NEW t \in RT, Up(t), NEW c \in Classes, NEW s \in Sides, NEW sel \in Sels, NEW u, u = AddMethod(t, c, s, sel)
  PROVE  \E p \in Seq(MethodLists) :
           Attached(t, u, c, s, p) /\ u.unattached = t.unattached /\ CategoriesIn(p) = <<>>
<1>1. PICK p : p = << [owner |-> "runtime", sels |-> {sel}] >>
  OBVIOUS
<1>2. p \in Seq(MethodLists) /\ CategoriesIn(p) = <<>>
  BY <1>1, RuntimeList
<1>3. CASE u = AttachLists(t, c, s, p)
  BY <1>2, <1>3, AttachListsIs
<1>4. CASE u = t
  <2>1. PICK e : e = <<>>
    OBVIOUS
  <2>2. e \in Seq(MethodLists) /\ CategoriesIn(e) = <<>>
    BY <2>1, NoneIn
  <2>3. t.lists \in [Classes -> [Sides -> Seq(MethodLists)]] /\ t.lists[c][s] \in Seq(MethodLists)
    BY Fields
  <2>4. e \o t.lists[c][s] = t.lists[c][s]
    BY <2>1, <2>3
  <2>5. t.lists = [t.lists EXCEPT ![c][s] = e \o @]
    BY <2>3, <2>4
  <2>6. Attached(t, u, c, s, e)
    BY <1>4, <2>5, SteadyIdle DEF Attached
  <2> QED
    BY <1>4, <2>2, <2>6
<1> QED
  BY <1>1, <1>3, <1>4 DEF AddMethod

\* methodizeClass: its own methods, and in front of them those of the categories that wait
LEMMA MethodizeIs ==
  ASSUME NEW t \in RT, Up(t), NEW c \in ImageClasses, NEW s \in Sides,
         \A k \in ToSet(t.unattached[c][s]) : Defines[k][s] # {}, NEW u, u = Methodize(t, c, s)
  PROVE  \E p : /\ Changed(t, u, c, s, p, <<>>) /\ CategoriesIn(p) = Reverse(t.unattached[c][s])
                /\ Defines[c][s] # {} => p # <<>> /\ Last(p).owner = c
<1>1. PICK o : o = ListOf(c, s)
  OBVIOUS
<1>2. /\ c \in Classes /\ "initialize" \in Sels /\ o \in Seq(MethodLists) /\ CategoriesIn(o) = <<>>
      /\ Defines[c][s] # {} => o # <<>> /\ Last(o).owner = c
  BY <1>1, OwnList DEF Classes, Sels
<1>3. PICK a : a = AttachLists(t, c, s, o)
  OBVIOUS
<1>4. Attached(t, a, c, s, o) /\ a.unattached = t.unattached
  BY <1>2, <1>3, AttachListsIs
<1>5. a \in RT /\ Up(a)
  BY <1>4, UpStays DEF Attached, Steady
<1>6. PICK b : b = IF c \in Roots /\ s = "meta" THEN AddMethod(a, c, s, "initialize") ELSE a
  OBVIOUS
<1>7. PICK r \in Seq(MethodLists) :
        Attached(t, b, c, s, r \o o) /\ b.unattached = t.unattached /\ CategoriesIn(r) = <<>>
  <2>1. CASE b = a
    <3>1. PICK e \in Seq(MethodLists) : e = <<>> /\ e \o o = o /\ CategoriesIn(e) = <<>>
      <4>1. <<>> \o o = o
        BY <1>2
      <4> QED
        BY <4>1, NoneIn
    <3> QED
      BY <1>4, <2>1, <3>1
  <2>2. CASE b = AddMethod(a, c, s, "initialize")
    <3>1. PICK r \in Seq(MethodLists) :
            Attached(a, b, c, s, r) /\ b.unattached = a.unattached /\ CategoriesIn(r) = <<>>
      BY <1>2, <1>5, <2>2, AddMethodIs
    <3>2. Attached(t, b, c, s, r \o o)
      BY <1>2, <1>4, <3>1, AttachedTwice
    <3> QED
      BY <1>4, <3>1, <3>2
  <2> QED
    BY <1>6, <2>1, <2>2
<1>8. PICK n \in Seq(MethodLists) : n = r \o o /\ CategoriesIn(n) = <<>>
  <2>1. r \o o \in Seq(MethodLists) /\ CategoriesIn(r \o o) = CategoriesIn(r) \o CategoriesIn(o)
    BY <1>2, <1>7, ConcatProperties, CategoriesFirst
  <2>2. <<>> \o <<>> = <<>>
    OBVIOUS
  <2> QED
    BY <1>2, <1>7, <2>1, <2>2
<1>9. b \in RT /\ Up(b)
  BY <1>7, UpStays DEF Attached, Steady
<1>10. u = Remethodize(b, c, s)
  BY <1>1, <1>3, <1>6 DEF Methodize
<1>11. PICK p : Changed(b, u, c, s, p, <<>>) /\ CategoriesIn(p) = Reverse(t.unattached[c][s])
  <2>1. \A k \in ToSet(b.unattached[c][s]) : Defines[k][s] # {}
    BY <1>7
  <2>2. \E p : Changed(b, u, c, s, p, <<>>) /\ CategoriesIn(p) = Reverse(b.unattached[c][s])
    BY <1>2, <1>9, <1>10, <2>1, RemethodizeIs
  <2> QED
    BY <1>7, <2>2
<1>12. p \in Seq(MethodLists) /\ Attached(b, u, c, s, p) /\ u.unattached = [t.unattached EXCEPT ![c][s] = <<>>]
  BY <1>7, <1>11 DEF Changed
<1>13. Attached(t, u, c, s, p \o n) /\ p \o n \in Seq(MethodLists)
  BY <1>2, <1>7, <1>8, <1>12, AttachedTwice, ConcatProperties
<1>14. CategoriesIn(p \o n) = Reverse(t.unattached[c][s])
  <2>1. CategoriesIn(p \o n) = CategoriesIn(p) \o CategoriesIn(n) /\ CategoriesIn(p) \in Seq(Categories)
    BY <1>8, <1>12, CategoriesFirst
  <2>2. PICK d \in Seq(Categories) : d = CategoriesIn(p)
    BY <2>1
  <2>3. d \o <<>> = d
    OBVIOUS
  <2> QED
    BY <1>8, <1>11, <2>1, <2>2, <2>3
<1>15. Defines[c][s] # {} => p \o n # <<>> /\ Last(p \o n).owner = c
  <2> SUFFICES ASSUME Defines[c][s] # {}
               PROVE  p \o n # <<>> /\ Last(p \o n).owner = c
    OBVIOUS
  <2>1. o # <<>> /\ Last(o).owner = c
    BY <1>2
  <2>2. n # <<>> /\ Last(n) = Last(o)
    BY <1>2, <1>7, <1>8, <2>1, LastConcat
  <2>3. p \o n # <<>> /\ Last(p \o n) = Last(n)
    BY <1>8, <1>12, <2>2, LastConcat
  <2> QED
    BY <2>1, <2>2, <2>3
<1>16. Changed(t, u, c, s, p \o n, <<>>)
  BY <1>12, <1>13 DEF Changed
<1> QED
  BY <1>14, <1>15, <1>16

-----------------------------------------------------------------------------
\* A raw isa is passed on to all that inherit.
LEMMA SetRequiresRawIsaIs ==
  ASSUME NEW t \in RT, NEW cs \in SUBSET Classes, NEW u, u = SetRequiresRawIsa(t, cs)
  PROVE  Steady(t, u) /\ cs \subseteq u.rawIsa /\ u.lists = t.lists /\ u.unattached = t.unattached
<1>1. PICK S : S = UNION {Subtree(t, c) : c \in cs \ t.rawIsa}
  OBVIOUS
<1>2. \A c \in Classes : /\ Subtree(t, c) \in SUBSET Classes /\ c \in Subtree(t, c)
                         /\ \A d \in Subtree(t, c) : t.subclasses[d] \subseteq Subtree(t, c)
  BY SubtreeFacts
<1>3. S \in SUBSET Classes /\ cs \ t.rawIsa \subseteq S /\ \A d \in S : t.subclasses[d] \subseteq S
  BY <1>1, <1>2
<1>4. PICK I \in SUBSET Classes : I = t.rawIsa \cup S
  BY <1>3, Fields
<1>5. u = [t EXCEPT !.rawIsa = I]
  BY <1>1, <1>4 DEF SetRequiresRawIsa
<1>6. u \in RT /\ SameCore(t, u)
  BY <1>5, PutMethods
<1>7. /\ u.default = t.default /\ u.lists = t.lists /\ u.unattached = t.unattached /\ u.rawIsa = I
      /\ u.initialized = t.initialized /\ u.swizzled = t.swizzled /\ u.replaced = t.replaced
      /\ u.super = t.super /\ u.subclasses = t.subclasses
  BY <1>5 DEF RT, TableTypes
<1>8. ASSUME NEW R \in SUBSET Classes, Linked(t, R), Raw(t, R)
      PROVE  Raw(u, R)
  <2> SUFFICES ASSUME NEW c \in R, t.super[c] \in I
               PROVE  c \in I
    BY <1>7 DEF Raw
  <2>1. CASE t.super[c] \in t.rawIsa
    BY <1>4, <1>8, <2>1 DEF Raw
  <2>2. CASE t.super[c] \in S
    <3>1. t.super[c] # NoClass
      BY <1>3, <2>2, ClassesAssumption DEF Classes
    <3>2. c \in t.subclasses[t.super[c]]
      BY <1>8, <3>1 DEF Linked
    <3> QED
      BY <1>3, <1>4, <2>2, <3>2
  <2> QED
    BY <1>4, <2>1, <2>2
<1>9. Flagged(t, u)
  BY <1>7, <1>8 DEF Flagged
<1> QED
  BY <1>3, <1>4, <1>6, <1>7, <1>9 DEF Steady

\* A class that gets its flags from another
LEMMA InheritCustomIs ==
  ASSUME NEW t \in RT, Up(t), NEW p, NEW c \in Classes, NEW s \in Sides, NEW u, u = InheritCustom(t, p, c, s)
  PROVE  Steady(t, u) /\ u.lists = t.lists /\ u.unattached = t.unattached /\ u.rawIsa = t.rawIsa
<1>1. u = t \/ u = SetHasCustom(t, c, s)
  BY DEF InheritCustom
<1> QED
  BY <1>1, SetHasCustomTakes, SteadyIdle

\* addSubclass
LEMMA AddSubclassIs ==
  ASSUME NEW t \in RT, Up(t), NEW p \in Classes, NEW c \in Classes, NEW u, u = AddSubclass(t, p, c)
  PROVE  /\ Flagged(t, u) /\ u.lists = t.lists /\ u.unattached = t.unattached
         /\ p \in u.rawIsa => c \in u.rawIsa
<1>1. PICK a : a = [t EXCEPT !.subclasses[p] = @ \cup {c}]
  OBVIOUS
<1>2. /\ a \in RT /\ a.default = t.default /\ a.lists = t.lists /\ a.unattached = t.unattached /\ a.rawIsa = t.rawIsa
      /\ a.initialized = t.initialized /\ a.swizzled = t.swizzled /\ a.replaced = t.replaced
      /\ a.super = t.super /\ \A d \in Classes : t.subclasses[d] \subseteq a.subclasses[d]
  <2>1. a \in RT
    BY <1>1 DEF RT, TableTypes
  <2>2. a.subclasses = [t.subclasses EXCEPT ![p] = @ \cup {c}]
    BY <1>1 DEF RT, TableTypes
  <2>3. \A d \in Classes : t.subclasses[d] \subseteq a.subclasses[d]
    BY <2>2, Fields
  <2> QED
    BY <1>1, <2>1, <2>3 DEF RT, TableTypes
<1>3. Flagged(t, a)
  <2>1. \A R : Raw(t, R) => Raw(a, R)
    BY <1>2 DEF Raw
  <2> QED
    BY <1>2, <2>1, Zenon DEF Flagged
<1>4. Up(a)
  BY <1>3, UpStays
<1>5. PICK b : b = InheritCustom(a, p, c, "inst")
  OBVIOUS
<1>6. Steady(a, b) /\ b.lists = a.lists /\ b.unattached = a.unattached /\ b.rawIsa = a.rawIsa
  BY <1>2, <1>4, <1>5, InheritCustomIs DEF Sides
<1>7. b \in RT /\ Up(b)
  BY <1>2, <1>4, <1>6, UpStays DEF Steady
<1>8. PICK d : d = InheritCustom(b, p, c, "meta")
  OBVIOUS
<1>9. Steady(b, d) /\ d.lists = b.lists /\ d.unattached = b.unattached /\ d.rawIsa = b.rawIsa
  BY <1>7, <1>8, InheritCustomIs DEF Sides
<1>10. Flagged(t, d) /\ d \in RT
  <2>1. Flagged(a, d)
    BY <1>2, <1>6, <1>7, <1>9, FlaggedTwice DEF Steady
  <2> QED
    BY <1>3, <1>9, <2>1, FlaggedTwice DEF Steady
<1>11. u = IF p \in d.rawIsa THEN SetRequiresRawIsa(d, {c}) ELSE d
  BY <1>1, <1>5, <1>8, ClassesAssumption DEF AddSubclass
<1>12. CASE p \notin d.rawIsa
  BY <1>2, <1>6, <1>9, <1>10, <1>11, <1>12
<1>13. CASE p \in d.rawIsa
  <2>1. Steady(d, u) /\ {c} \subseteq u.rawIsa /\ u.lists = d.lists /\ u.unattached = d.unattached
    BY <1>10, <1>11, <1>13, SetRequiresRawIsaIs
  <2>2. Flagged(t, u)
    BY <1>10, <2>1, FlaggedTwice DEF Steady
  <2> QED
    BY <1>2, <1>6, <1>9, <2>1, <2>2
<1> QED
  BY <1>12, <1>13

-----------------------------------------------------------------------------
(* What realizing a class does                                              *)

\* A side of a class is as it was.
Untouched(t, u, c, s) == u.lists[c][s] = t.lists[c][s] /\ u.unattached[c][s] = t.unattached[c][s]

\* A side of a class has its own methods now, and those of the categories that waited.
Methodized(t, u, c, s) ==
    \E p \in Seq(MethodLists) :
        /\ u.lists[c][s] = p \o t.lists[c][s] /\ u.unattached[c][s] = <<>>
        /\ CategoriesIn(p) = Reverse(t.unattached[c][s])
        /\ Defines[c][s] # {} => p # <<>> /\ Last(p).owner = c

\* methodizeClass, seen from every class
LEMMA MethodizeEach ==
  ASSUME NEW t \in RT, Up(t), NEW c \in ImageClasses, NEW s \in Sides,
         \A k \in ToSet(t.unattached[c][s]) : Defines[k][s] # {}, NEW u, u = Methodize(t, c, s)
  PROVE  /\ Steady(t, u) /\ u.rawIsa = t.rawIsa /\ Methodized(t, u, c, s)
         /\ \A d \in Classes, x \in Sides : d # c \/ x # s => Untouched(t, u, d, x)
<1>1. PICK p : /\ Changed(t, u, c, s, p, <<>>) /\ CategoriesIn(p) = Reverse(t.unattached[c][s])
               /\ Defines[c][s] # {} => p # <<>> /\ Last(p).owner = c
  BY MethodizeIs
<1>2. /\ p \in Seq(MethodLists) /\ Steady(t, u) /\ u.rawIsa = t.rawIsa
      /\ u.lists = [t.lists EXCEPT ![c][s] = p \o @] /\ u.unattached = [t.unattached EXCEPT ![c][s] = <<>>]
  BY <1>1 DEF Changed, Attached
<1>3. /\ t.lists \in [Classes -> [Sides -> Seq(MethodLists)]] /\ c \in Classes
      /\ t.unattached \in [Classes -> [Sides -> Seq(Categories)]]
  BY Fields DEF Classes
<1>4. u.lists[c][s] = p \o t.lists[c][s] /\ u.unattached[c][s] = <<>>
  BY <1>2, <1>3
<1>5. \A d \in Classes, x \in Sides : d # c \/ x # s => Untouched(t, u, d, x)
  BY <1>2, <1>3 DEF Untouched
<1> QED
  BY <1>1, <1>2, <1>4, <1>5, Zenon DEF Methodized

\* What realizeClass does to methods and flags
RealizedAs(t, u, c) ==
    /\ Flagged(t, u) /\ (t.super[c] \in u.rawIsa => c \in u.rawIsa)
    /\ \A s \in Sides : Methodized(t, u, c, s)
    /\ \A d \in Classes \ {c}, s \in Sides : Untouched(t, u, d, s)

\* That is all it does to them.
LEMMA RealizeOneMethods ==
  ASSUME NEW t \in RT, Up(t), NEW c \in ImageClasses,
         \A s \in Sides : \A k \in ToSet(t.unattached[c][s]) : Defines[k][s] # {}, NEW u, u = RealizeOne(t, c)
  PROVE  RealizedAs(t, u, c)
<1>0. PICK p : p = t.super[c]
  OBVIOUS
<1>1. c \in Classes /\ p \in Classes \cup {NoClass} /\ NoClass \notin Classes
  BY <1>0, ClassesAssumption, Fields DEF Classes
<1>2. PICK l : l = IF p = NoClass THEN t.layout[c] ELSE Reconcile(t, t.layout[c], t.layout[p].size)
  OBVIOUS
<1>3. /\ l \in Layouts /\ Sound(l) /\ CompiledLayout(l)
  <2>1. t.layout[c] \in Layouts /\ Sound(t.layout[c]) /\ CompiledLayout(t.layout[c])
    BY <1>1, Fields
  <2>2. CASE p = NoClass
    BY <1>2, <2>1, <2>2
  <2>3. CASE p # NoClass
    <3>1. t.layout[p] \in Layouts
      BY <1>1, <2>3, Fields
    <3>2. PICK m \in Nat : m = t.layout[p].size
      BY <3>1 DEF Layouts
    <3>3. PICK o \in Layouts : o = t.layout[c] /\ Sound(o) /\ CompiledLayout(o)
      BY <2>1
    <3>4. l = Reconcile(t, o, m)
      BY <1>2, <2>3, <3>2, <3>3
    <3> QED
      BY <3>2, <3>3, <3>4, Reconciled
  <2> QED
    BY <2>2, <2>3
<1>4. PICK a : a = [t EXCEPT !.realized = @ \cup {c}, !.layout[c] = l]
  OBVIOUS
<1>5. a \in RT
  BY <1>1, <1>3, <1>4 DEF RT, TableTypes
<1>6. /\ a.default = t.default /\ a.lists = t.lists /\ a.unattached = t.unattached /\ a.rawIsa = t.rawIsa
      /\ a.initialized = t.initialized /\ a.swizzled = t.swizzled /\ a.replaced = t.replaced
      /\ a.super = t.super /\ a.subclasses = t.subclasses
  BY <1>4 DEF RT, TableTypes
<1>7. Flagged(t, a)
  BY <1>6, Zenon DEF Flagged, Raw
<1>8. PICK r : r = IF c \in OSObject THEN SetRequiresRawIsa(a, {c}) ELSE a
  OBVIOUS
<1>9. Steady(a, r) /\ r.lists = a.lists /\ r.unattached = a.unattached
  BY <1>1, <1>5, <1>8, SetRequiresRawIsaIs, SteadyIdle
<1>10. r \in RT /\ Flagged(t, r)
  BY <1>7, <1>9, FlaggedTwice DEF Steady
<1>11. Up(r)
  BY <1>10, UpStays
<1>12. PICK v : v = AddSubclass(r, p, c)
  OBVIOUS
<1>13. /\ v \in RT /\ Flagged(r, v) /\ v.lists = r.lists /\ v.unattached = r.unattached
       /\ p \in v.rawIsa => c \in v.rawIsa
  <2>1. CASE p = NoClass
    <3>1. v = r
      <4>1. AddSubclass(r, NoClass, c) = r
        BY DEF AddSubclass
      <4> QED
        BY <1>12, <2>1, <4>1
    <3>2. p \notin r.rawIsa
      BY <1>1, <1>10, <2>1, Fields
    <3> QED
      BY <1>10, <3>1, <3>2, SteadyIdle DEF Steady
  <2>2. CASE p # NoClass
    <3>1. p \in Classes
      BY <1>1, <2>2
    <3>2. v \in RT
      BY <1>1, <1>10, <1>12, <3>1, AddSubclassLinks
    <3>3. /\ Flagged(r, v) /\ v.lists = r.lists /\ v.unattached = r.unattached
          /\ p \in v.rawIsa => c \in v.rawIsa
      BY <1>1, <1>10, <1>11, <1>12, <3>1, AddSubclassIs
    <3> QED
      BY <3>2, <3>3
  <2> QED
    BY <2>1, <2>2
<1>14. Flagged(t, v) /\ Up(v) /\ v.lists = t.lists /\ v.unattached = t.unattached
  BY <1>6, <1>9, <1>10, <1>11, <1>13, FlaggedTwice, UpStays
<1>15. PICK m : m = Methodize(v, c, "meta")
  OBVIOUS
<1>16. /\ Steady(v, m) /\ m.rawIsa = v.rawIsa /\ Methodized(v, m, c, "meta")
       /\ \A d \in Classes, x \in Sides : d # c \/ x # "meta" => Untouched(v, m, d, x)
  <2>1. \A k \in ToSet(v.unattached[c]["meta"]) : Defines[k]["meta"] # {}
    BY <1>14 DEF Sides
  <2> QED
    BY <1>13, <1>14, <1>15, <2>1, MethodizeEach DEF Sides
<1>17. m \in RT /\ Up(m) /\ Flagged(t, m)
  BY <1>13, <1>14, <1>16, UpStays, FlaggedTwice DEF Steady
<1>18. u = Methodize(m, c, "inst")
  <2>1. [t EXCEPT !.realized = @ \cup {c},
                  !.layout[c] = IF p = NoClass THEN @ ELSE Reconcile(t, @, t.layout[p].size)] = a
    BY <1>2, <1>4
  <2> QED
    BY <1>0, <1>8, <1>12, <1>15, <2>1 DEF RealizeOne
<1>19. /\ Steady(m, u) /\ u.rawIsa = m.rawIsa /\ Methodized(m, u, c, "inst")
       /\ \A d \in Classes, x \in Sides : d # c \/ x # "inst" => Untouched(m, u, d, x)
  <2>1. Untouched(v, m, c, "inst")
    BY <1>1, <1>16 DEF Sides
  <2>2. \A k \in ToSet(m.unattached[c]["inst"]) : Defines[k]["inst"] # {}
    BY <1>14, <2>1 DEF Sides, Untouched
  <2> QED
    BY <1>17, <1>18, <2>2, MethodizeEach DEF Sides
<1>20. Flagged(t, u)
  BY <1>17, <1>19, FlaggedTwice DEF Steady
<1>21. /\ Untouched(v, m, c, "inst") /\ Untouched(m, u, c, "meta")
       /\ \A d \in Classes \ {c}, s \in Sides : Untouched(v, m, d, s) /\ Untouched(m, u, d, s)
  <2>1. Untouched(v, m, c, "inst") /\ Untouched(m, u, c, "meta")
    BY <1>1, <1>16, <1>19 DEF Sides
  <2>2. \A d \in Classes \ {c}, s \in Sides : d \in Classes /\ d # c
    OBVIOUS
  <2>3. \A d \in Classes \ {c}, s \in Sides : Untouched(v, m, d, s)
    BY <1>16, <2>2, Zenon
  <2>4. \A d \in Classes \ {c}, s \in Sides : Untouched(m, u, d, s)
    BY <1>19, <2>2, Zenon
  <2> QED
    BY <2>1, <2>3, <2>4, Zenon
<1>22. Methodized(t, u, c, "inst")
  <2>1. m.lists[c]["inst"] = t.lists[c]["inst"] /\ m.unattached[c]["inst"] = t.unattached[c]["inst"]
    BY <1>14, <1>21 DEF Untouched
  <2>2. Methodized(m, u, c, "inst")
    BY <1>19
  <2> QED
    BY <2>1, <2>2, Zenon DEF Methodized
<1>23. Methodized(t, u, c, "meta")
  <2>1. /\ u.lists[c]["meta"] = m.lists[c]["meta"] /\ u.unattached[c]["meta"] = m.unattached[c]["meta"]
        /\ v.lists[c]["meta"] = t.lists[c]["meta"] /\ v.unattached[c]["meta"] = t.unattached[c]["meta"]
    BY <1>14, <1>21 DEF Untouched
  <2>2. Methodized(v, m, c, "meta")
    BY <1>16
  <2> QED
    BY <2>1, <2>2, Zenon DEF Methodized
<1>24. \A d \in Classes \ {c}, s \in Sides : Untouched(t, u, d, s)
  BY <1>14, <1>21 DEF Untouched
<1>25. t.super[c] \in u.rawIsa => c \in u.rawIsa
  BY <1>0, <1>13, <1>16, <1>19
<1> QED
  BY <1>20, <1>22, <1>23, <1>24, <1>25, Zenon DEF RealizedAs, Sides

-----------------------------------------------------------------------------
(* Methods in order and flags right: the invariant of the tables             *)

\* F are the categories found, l the lists of a side of a class, w what waits for it: a
\* realized class has its own list last, and nothing waits for it;
Ready(F, l, w, c, s) ==
    /\ InOrder(F, CategoriesIn(l), w) /\ w = <<>>
    /\ Defines[c][s] # {} => l # <<>> /\ Last(l).owner = c

\* one that is not realized has no list.
Waits(F, l, w, s) ==
    l = <<>> /\ InOrder(F, CategoriesIn(l), w) /\ \A k \in ToSet(w) : Defines[k][s] # {}

\* E is, per side, the categories found.
Arranged(t, E) ==
    \A c \in ImageClasses, s \in Sides :
      IF c \in t.realized THEN Ready(E[s], t.lists[c][s], t.unattached[c][s], c, s)
      ELSE Waits(E[s], t.lists[c][s], t.unattached[c][s], s)

\* A class has it, or it waits for the class.
Has(t, k, s) ==
    k \in ToSet(CategoriesIn(t.lists[Target[k]][s])) \cup ToSet(t.unattached[Target[k]][s])

\* That is so of every category found for a class that is not ignored, unless its image
\* is gone.
NoneMissing(t, E, g) ==
    \A s \in Sides : \A k \in ToSet(E[s]) :
      ImageOf(k) \notin g /\ Target[k] \notin t.ignored /\ Defines[k][s] # {} => Has(t, k, s)

\* A class with a default flag has no method of its own against it, and its superclass
\* has the flag;
FlagsOn(t, s) ==
    /\ t.default[s] \subseteq t.initialized
    /\ t.swizzled[s] => t.default[s] = {}
    /\ \A c \in t.default[s] : /\ c # NSObject => t.super[c] \in t.default[s]
                               /\ \A l \in ToSet(t.lists[c][s]) : HasFast(l, s) => l.owner = NSObject

\* when NSObject's method is replaced, none has it any more, nor will.
ReplacedOn(t, g, s) ==
    t.replaced[s] => /\ t.default[s] = {}
                     /\ t.swizzled[s] \/ NSObject \in t.initialized \/ ImageOf(NSObject) \in g

\* The flags agree with the lists.
Agreed(t, g) == t.initialized \subseteq t.realized /\ \A s \in Sides : FlagsOn(t, s) /\ ReplacedOn(t, g, s)

\* Methods and flags are right.
Methodical(t, E, g) ==
    /\ Agreed(t, g) /\ Raw(t, t.realized) /\ Arranged(t, E) /\ NoneMissing(t, E, g)

\* The flags of such tables are as SetHasCustom needs them.
LEMMA MethodicalUp ==
  ASSUME NEW t \in RT, Laid(t), NEW E, NEW g, Methodical(t, E, g)
  PROVE  Up(t) /\ Linked(t, t.realized)
<1>1. t.initialized \subseteq t.realized /\ \A s \in Sides : t.default[s] \subseteq t.initialized
  BY DEF Methodical, Agreed, FlagsOn
<1> QED
  BY <1>1 DEF Up, Linked, Laid

\* When flags are lost, the others are right still.
LEMMA FlaggedFlags ==
  ASSUME NEW t \in RT, NEW s \in Sides, FlagsOn(t, s), NEW u, Flagged(t, u)
  PROVE  FlagsOn(u, s)
<1>1. u.super = t.super /\ u.initialized = t.initialized /\ u.swizzled = t.swizzled
  BY DEF Flagged
<1>2. /\ u.default[s] \subseteq t.default[s]
      /\ \A c \in u.default[s] : t.super[c] \in t.default[s] => t.super[c] \in u.default[s]
      /\ \A c \in u.default[s] : \A l \in ToSet(u.lists[c][s]) : HasFast(l, s) => l \in ToSet(t.lists[c][s])
  BY Zenon DEF Flagged
<1>3. \A c \in u.default[s] : /\ c # NSObject => u.super[c] \in u.default[s]
                              /\ \A l \in ToSet(u.lists[c][s]) : HasFast(l, s) => l.owner = NSObject
  BY <1>1, <1>2 DEF FlagsOn
<1> QED
  BY <1>1, <1>2, <1>3 DEF FlagsOn

\* See FlaggedFlags.
LEMMA FlaggedAgreed ==
  ASSUME NEW t \in RT, NEW u, NEW g, Agreed(t, g), Flagged(t, u), t.realized \subseteq u.realized
  PROVE  Agreed(u, g)
<1>1. u.initialized = t.initialized
  BY DEF Flagged
<1>2. ASSUME NEW s \in Sides
      PROVE  FlagsOn(u, s) /\ ReplacedOn(u, g, s)
  <2>1. u.default[s] \subseteq t.default[s] /\ u.swizzled = t.swizzled /\ u.replaced = t.replaced
    BY Zenon DEF Flagged
  <2>2. FlagsOn(t, s) /\ ReplacedOn(t, g, s)
    BY DEF Agreed
  <2> QED
    BY <1>1, <2>1, <2>2, FlaggedFlags DEF ReplacedOn
<1> QED
  BY <1>1, <1>2 DEF Agreed

\* Raw isas are passed on still.
LEMMA FlaggedRaw ==
  ASSUME NEW t \in RT, Laid(t), NEW u, Flagged(t, u), Raw(t, t.realized)
  PROVE  Raw(u, t.realized)
<1>1. Linked(t, t.realized)
  BY DEF Linked, Laid
<1>2. t.realized \in SUBSET Classes
  BY Fields
<1> QED
  BY <1>1, <1>2 DEF Flagged

\* The tables in all that concerns methods and flags
SameMethods(t, u) ==
    /\ u.lists = t.lists /\ u.unattached = t.unattached /\ u.default = t.default
    /\ u.swizzled = t.swizzled /\ u.replaced = t.replaced
    /\ u.initialized = t.initialized /\ u.realized = t.realized /\ u.rawIsa = t.rawIsa
    /\ \A c \in t.realized : u.super[c] = t.super[c]
    /\ t.ignored \subseteq u.ignored

\* are as good.
LEMMA SameMethodical ==
  ASSUME NEW t \in RT, NEW E, NEW g, Methodical(t, E, g), NEW u, SameMethods(t, u)
  PROVE  Methodical(u, E, g)
<1>1. Agreed(u, g)
  <2>1. ASSUME NEW s \in Sides
        PROVE  FlagsOn(u, s) /\ ReplacedOn(u, g, s)
    BY DEF SameMethods, Methodical, Agreed, FlagsOn, ReplacedOn
  <2> QED
    BY <2>1 DEF SameMethods, Methodical, Agreed
<1>2. Raw(u, u.realized)
  BY DEF SameMethods, Methodical, Raw
<1>3. Arranged(u, E)
  BY DEF SameMethods, Methodical, Arranged
<1>4. NoneMissing(u, E, g)
  BY DEF SameMethods, Methodical, NoneMissing, Has
<1> QED
  BY <1>1, <1>2, <1>3, <1>4 DEF Methodical

\* A raw isa for some
LEMMA RawMethodical ==
  ASSUME NEW t \in RT, Laid(t), NEW E, NEW g, Methodical(t, E, g), NEW cs \in SUBSET Classes,
         NEW u, u = SetRequiresRawIsa(t, cs)
  PROVE  Methodical(u, E, g) /\ u.realized = t.realized
<1>1. Steady(t, u) /\ u.lists = t.lists /\ u.unattached = t.unattached
  BY SetRequiresRawIsaIs
<1>2. u.realized = t.realized /\ u.ignored = t.ignored
  BY <1>1 DEF Steady, SameCore
<1>3. Agreed(u, g)
  BY <1>1, <1>2, FlaggedAgreed DEF Steady, Methodical
<1>4. Raw(u, u.realized)
  BY <1>1, <1>2, FlaggedRaw DEF Steady, Methodical
<1>5. Arranged(u, E)
  BY <1>1, <1>2 DEF Methodical, Arranged
<1>6. NoneMissing(u, E, g)
  BY <1>1, <1>2 DEF Methodical, NoneMissing, Has
<1> QED
  BY <1>2, <1>3, <1>4, <1>5, <1>6 DEF Methodical

\* A class that is realized has what waited for it.
LEMMA ReadyNow ==
  ASSUME NEW F, NEW w, NEW c, NEW s, Waits(F, <<>>, w, s),
         NEW p \in Seq(MethodLists), CategoriesIn(p) = Reverse(w),
         Defines[c][s] # {} => p # <<>> /\ Last(p).owner = c
  PROVE  Ready(F, p, <<>>, c, s) /\ ToSet(CategoriesIn(p)) = ToSet(w)
<1>1. InOrder(F, <<>>, w)
  BY NoneIn DEF Waits
<1>2. w \in Seq(Categories)
  BY <1>1 DEF InOrder
<1>3. PICK r \in Seq(Categories) : r = Reverse(w) /\ ToSet(r) = ToSet(w)
  BY <1>2, Backwards
<1>4. r \o <<>> = r
  OBVIOUS
<1>5. InOrder(F, r, <<>>)
  BY <1>1, <1>3, <1>4, InOrderAttached
<1> QED
  BY <1>3, <1>5 DEF Ready

\* realizeClass keeps the tables so.
LEMMA RealizeOneMethodical ==
  ASSUME NEW t \in RT, Laid(t), NEW E, NEW g, Methodical(t, E, g), NEW c \in ImageClasses, c \notin t.realized,
         t.super[c] \in t.realized \cup {NoClass}, NEW u, u = RealizeOne(t, c)
  PROVE  Methodical(u, E, g)
<1>1. /\ u \in RT /\ Grown(t, u) /\ Laid(u) /\ u.realized = t.realized \cup {c}
      /\ u.ignored = t.ignored /\ u.super = t.super
  BY RealizeOneLays DEF Grown
<1>2. ASSUME NEW s \in Sides
      PROVE  /\ t.lists[c][s] = <<>> /\ Waits(E[s], <<>>, t.unattached[c][s], s)
             /\ \A k \in ToSet(t.unattached[c][s]) : Defines[k][s] # {}
  <2>1. Waits(E[s], t.lists[c][s], t.unattached[c][s], s)
    BY DEF Methodical, Arranged
  <2>2. t.lists[c][s] = <<>> /\ \A k \in ToSet(t.unattached[c][s]) : Defines[k][s] # {}
    BY <2>1 DEF Waits
  <2> QED
    BY <2>1, <2>2, Zenon
<1>3. Up(t)
  BY MethodicalUp
<1>4. RealizedAs(t, u, c)
  BY <1>2, <1>3, RealizeOneMethods
<1>5. Agreed(u, g)
  BY <1>1, <1>4, FlaggedAgreed DEF RealizedAs, Methodical
<1>6. Raw(u, u.realized)
  <2>1. Raw(u, t.realized)
    BY <1>4, FlaggedRaw DEF RealizedAs, Methodical
  <2>2. u.super[c] \in u.rawIsa => c \in u.rawIsa
    BY <1>1, <1>4 DEF RealizedAs
  <2> QED
    BY <1>1, <2>1, <2>2 DEF Raw
<1>7. ASSUME NEW s \in Sides
      PROVE  /\ Ready(E[s], u.lists[c][s], u.unattached[c][s], c, s)
             /\ ToSet(CategoriesIn(u.lists[c][s])) = ToSet(t.unattached[c][s])
  <2>1. PICK p \in Seq(MethodLists) :
          /\ u.lists[c][s] = p \o t.lists[c][s] /\ u.unattached[c][s] = <<>>
          /\ CategoriesIn(p) = Reverse(t.unattached[c][s])
          /\ Defines[c][s] # {} => p # <<>> /\ Last(p).owner = c
    BY <1>4 DEF RealizedAs, Methodized
  <2>2. p \o <<>> = p
    OBVIOUS
  <2>3. u.lists[c][s] = p
    BY <1>2, <2>1, <2>2, Zenon
  <2>4. PICK w, F : w = t.unattached[c][s] /\ F = E[s]
    OBVIOUS
  <2>5. Waits(F, <<>>, w, s) /\ CategoriesIn(p) = Reverse(w)
    BY <1>2, <2>1, <2>4
  <2>6. Ready(F, p, <<>>, c, s) /\ ToSet(CategoriesIn(p)) = ToSet(w)
    BY <2>1, <2>5, ReadyNow
  <2> QED
    BY <2>1, <2>3, <2>4, <2>6, Zenon
<1>8. ASSUME NEW d \in ImageClasses, d # c, NEW s \in Sides
      PROVE  u.lists[d][s] = t.lists[d][s] /\ u.unattached[d][s] = t.unattached[d][s]
  BY <1>4, <1>8 DEF RealizedAs, Untouched, Classes
<1>9. Arranged(u, E)
  <2> SUFFICES ASSUME NEW d \in ImageClasses, NEW s \in Sides
               PROVE  IF d \in u.realized THEN Ready(E[s], u.lists[d][s], u.unattached[d][s], d, s)
                      ELSE Waits(E[s], u.lists[d][s], u.unattached[d][s], s)
    BY DEF Arranged
  <2>1. CASE d = c
    BY <1>1, <1>7, <2>1
  <2>2. CASE d # c
    <3>1. d \in u.realized <=> d \in t.realized
      BY <1>1, <2>2
    <3>2. IF d \in t.realized THEN Ready(E[s], t.lists[d][s], t.unattached[d][s], d, s)
          ELSE Waits(E[s], t.lists[d][s], t.unattached[d][s], s)
      BY DEF Methodical, Arranged
    <3> QED
      BY <1>8, <2>2, <3>1, <3>2
  <2> QED
    BY <2>1, <2>2
<1>10. NoneMissing(u, E, g)
  <2> SUFFICES ASSUME NEW s \in Sides, NEW k \in ToSet(E[s]),
                      ImageOf(k) \notin g, Target[k] \notin t.ignored, Defines[k][s] # {}
               PROVE  Has(u, k, s)
    BY <1>1 DEF NoneMissing
  <2>1. Has(t, k, s)
    BY DEF Methodical, NoneMissing
  <2>2. CASE Target[k] = c
    <3>1. CategoriesIn(t.lists[c][s]) = <<>> /\ ToSet(<<>>) = {}
      <4>1. t.lists[c][s] = <<>>
        BY <1>2
      <4>2. ToSet(<<>>) = {}
        BY DEF ToSet
      <4> QED
        BY <4>1, <4>2, NoneIn, Zenon
    <3>2. k \in ToSet(t.unattached[c][s])
      BY <2>1, <2>2, <3>1 DEF Has
    <3> QED
      BY <1>7, <2>2, <3>2 DEF Has
  <2>3. CASE Target[k] # c
    <3>1. Target[k] \in ImageClasses
      <4>1. E[s] \in Seq(Categories)
        BY <1>2 DEF Waits, InOrder
      <4>2. k \in Categories
        BY <4>1, SeqMembers, ElementOfSeq
      <4> QED
        BY <4>2, ClassesAssumption
    <3> QED
      BY <1>8, <2>1, <2>3, <3>1 DEF Has
  <2> QED
    BY <2>2, <2>3
<1> QED
  BY <1>5, <1>6, <1>9, <1>10 DEF Methodical

-----------------------------------------------------------------------------
(* Methodical: reading categories                                           *)

\* When methods change and no class is realized, flags are right still.
LEMMA FlaggedMethodical ==
  ASSUME NEW t \in RT, Laid(t), NEW E, NEW g, Methodical(t, E, g), NEW u, Flagged(t, u), u.realized = t.realized
  PROVE  Agreed(u, g) /\ Raw(u, u.realized)
  BY FlaggedAgreed, FlaggedRaw DEF Methodical

\* A category is found that does not matter here.
LEMMA FoundMore ==
  ASSUME NEW F, NEW k \in Categories, k \notin ToSet(F), NEW l, NEW w, NEW c, NEW s
  PROVE  /\ Ready(F, l, w, c, s) => Ready(Append(F, k), l, w, c, s)
         /\ Waits(F, l, w, s) => Waits(Append(F, k), l, w, s)
  BY InOrderReads DEF Ready, Waits

\* A category of a realized class is attached when it is found.
LEMMA ReadyMore ==
  ASSUME NEW F, NEW k \in Categories, k \notin ToSet(F), NEW l \in Seq(MethodLists), NEW c, NEW s,
         Ready(F, l, <<>>, c, s), NEW p \in Seq(MethodLists), CategoriesIn(p) = Reverse(<<k>>)
  PROVE  /\ Ready(Append(F, k), p \o l, <<>>, c, s)
         /\ ToSet(CategoriesIn(p \o l)) = ToSet(CategoriesIn(l)) \cup {k}
<1>1. PICK C, w : C = CategoriesIn(l) /\ w = <<k>>
  OBVIOUS
<1>2. Append(<<>>, k) = w /\ ToSet(w) = {k}
  BY <1>1 DEF ToSet
<1>3. InOrder(F, C, <<>>)
  BY <1>1 DEF Ready
<1>4. InOrder(Append(F, k), C, w)
  <2>1. InOrder(Append(F, k), C, Append(<<>>, k))
    BY <1>3, InOrderReads
  <2> QED
    BY <1>2, <2>1
<1>5. PICK r : r = Reverse(w)
  OBVIOUS
<1>6. InOrder(Append(F, k), r \o C, <<>>) /\ ToSet(r \o C) = ToSet(C) \cup {k}
  BY <1>2, <1>4, <1>5, InOrderAttached
<1>7. CategoriesIn(p \o l) = r \o C
  BY <1>1, <1>5, CategoriesFirst
<1>8. Defines[c][s] # {} => p \o l # <<>> /\ Last(p \o l).owner = c
  <2>1. Defines[c][s] # {} => l # <<>> /\ Last(l).owner = c
    BY DEF Ready
  <2>2. l # <<>> => p \o l # <<>> /\ Last(p \o l) = Last(l)
    BY LastConcat
  <2> QED
    BY <2>1, <2>2
<1>9. Ready(Append(F, k), p \o l, <<>>, c, s)
  BY <1>6, <1>7, <1>8 DEF Ready
<1> QED
  BY <1>1, <1>6, <1>7, <1>9

\* A side of a realized class gets lists that are no category's.
LEMMA ReadyStill ==
  ASSUME NEW F, NEW l \in Seq(MethodLists), NEW w, NEW c, NEW s, Ready(F, l, w, c, s),
         NEW p \in Seq(MethodLists), CategoriesIn(p) = <<>>
  PROVE  Ready(F, p \o l, w, c, s) /\ CategoriesIn(p \o l) = CategoriesIn(l)
<1>1. PICK C \in Seq(Categories) : C = CategoriesIn(l)
  BY CategoriesFirst
<1>2. <<>> \o C = C
  OBVIOUS
<1>3. CategoriesIn(p \o l) = C
  BY <1>1, <1>2, CategoriesFirst
<1>4. Defines[c][s] # {} => p \o l # <<>> /\ Last(p \o l).owner = c
  <2>1. Defines[c][s] # {} => l # <<>> /\ Last(l).owner = c
    BY DEF Ready
  <2>2. l # <<>> => p \o l # <<>> /\ Last(p \o l) = Last(l)
    BY LastConcat
  <2> QED
    BY <2>1, <2>2
<1> QED
  BY <1>1, <1>3, <1>4 DEF Ready

\* The category k has been found on a side.
Finds(E, s, k, F) ==
    /\ E \in [Sides -> Seq(Categories)] /\ s \in Sides /\ k \in Categories \ ToSet(E[s])
    /\ F = [E EXCEPT ![s] = Append(@, k)]

\* Other classes and sides have what they had, and wait for what they waited for.
LEMMA FindsIs ==
  ASSUME NEW E, NEW s, NEW k, NEW F, Finds(E, s, k, F)
  PROVE  /\ F \in [Sides -> Seq(Categories)] /\ F[s] = Append(E[s], k) /\ ToSet(F[s]) = ToSet(E[s]) \cup {k}
         /\ \A x \in Sides \ {s} : F[x] = E[x]
         /\ \A x \in Sides : \A l, w, c : /\ Ready(E[x], l, w, c, x) => Ready(F[x], l, w, c, x)
                                      /\ Waits(E[x], l, w, x) => Waits(F[x], l, w, x)
         /\ \A t : Arranged(t, E) => Arranged(t, F)
<1>1. E \in [Sides -> Seq(Categories)] /\ s \in Sides /\ k \in Categories /\ k \notin ToSet(E[s])
      /\ F = [E EXCEPT ![s] = Append(@, k)]
  BY DEF Finds
<1>2. PICK q \in Seq(Categories) : q = E[s]
  BY <1>1
<1>3. Append(q, k) \in Seq(Categories) /\ ToSet(Append(q, k)) = ToSet(q) \cup {k}
  BY <1>1, AppendMembers
<1>4. /\ F \in [Sides -> Seq(Categories)] /\ F[s] = Append(E[s], k) /\ ToSet(F[s]) = ToSet(E[s]) \cup {k}
      /\ \A x \in Sides \ {s} : F[x] = E[x]
  BY <1>1, <1>2, <1>3
<1>5. ASSUME NEW x \in Sides, NEW l, NEW w, NEW c
      PROVE  /\ Ready(E[x], l, w, c, x) => Ready(F[x], l, w, c, x)
             /\ Waits(E[x], l, w, x) => Waits(F[x], l, w, x)
  <2>1. CASE x = s
    BY <1>1, <1>4, <2>1, FoundMore
  <2>2. CASE x # s
    BY <1>4, <2>2
  <2> QED
    BY <2>1, <2>2
<1>6. ASSUME NEW t, Arranged(t, E)
      PROVE  Arranged(t, F)
  BY <1>5, <1>6 DEF Arranged
<1> QED
  BY <1>4, <1>5, <1>6

\* It matters not: its class is ignored, or it has no methods on this side.
LEMMA FoundMethodical ==
  ASSUME NEW t, NEW E, NEW g, Methodical(t, E, g), NEW s, NEW k, NEW F, Finds(E, s, k, F),
         Target[k] \in t.ignored \/ Defines[k][s] = {}
  PROVE  Methodical(t, F, g)
<1>1. /\ ToSet(F[s]) = ToSet(E[s]) \cup {k} /\ \A x \in Sides \ {s} : F[x] = E[x]
      /\ Arranged(t, F)
  BY FindsIs DEF Methodical
<1>2. NoneMissing(t, F, g)
  BY <1>1 DEF Methodical, NoneMissing
<1> QED
  BY <1>1, <1>2 DEF Methodical

\* One category is read.
LEMMA ReadCategoryMethodical ==
  ASSUME NEW t \in RT, Laid(t), NEW E, NEW g, Methodical(t, E, g), NEW s, NEW k, NEW F, Finds(E, s, k, F),
         NEW u, u = ReadCategory(t, k, s)
  PROVE  Methodical(u, F, g)
<1>1. /\ F[s] = Append(E[s], k) /\ ToSet(F[s]) = ToSet(E[s]) \cup {k} /\ \A x \in Sides \ {s} : F[x] = E[x]
      /\ Arranged(t, F)
  <2>1. Arranged(t, E)
    BY DEF Methodical
  <2>2. F[s] = Append(E[s], k)
    BY FindsIs
  <2>3. ToSet(F[s]) = ToSet(E[s]) \cup {k}
    BY FindsIs
  <2>4. \A x \in Sides \ {s} : F[x] = E[x]
    BY FindsIs
  <2>5. Arranged(t, F)
    BY <2>1, FindsIs
  <2> QED
    BY <2>2, <2>3, <2>4, <2>5, Zenon
<1>2. s \in Sides /\ k \in Categories /\ k \notin ToSet(E[s]) /\ E \in [Sides -> Seq(Categories)]
  BY DEF Finds
<1>3. PICK T \in ImageClasses : T = Target[k]
  BY <1>2, ClassesAssumption
<1>4. CASE Defines[k][s] = {}
  BY <1>4, FoundMethodical DEF ReadCategory
<1>5. CASE Defines[k][s] # {}
  <2>1. PICK W : W = [t.unattached EXCEPT ![T][s] = Append(@, k)]
    OBVIOUS
  <2>2. t.unattached \in [Classes -> [Sides -> Seq(Categories)]] /\ T \in Classes
    BY Fields DEF Classes
  <2>3. PICK w \in Seq(Categories) : w = t.unattached[T][s]
    BY <1>2, <2>2
  <2>4. Append(w, k) \in Seq(Categories) /\ ToSet(Append(w, k)) = ToSet(w) \cup {k}
    BY <1>2, <2>3, AppendMembers
  <2>5. /\ W \in [Classes -> [Sides -> Seq(Categories)]] /\ W[T][s] = Append(w, k)
        /\ \A d \in Classes, x \in Sides : d # T \/ x # s => W[d][x] = t.unattached[d][x]
    BY <1>2, <2>1, <2>2, <2>3, <2>4
  <2>6. PICK a : a = [t EXCEPT !.unattached = W]
    OBVIOUS
  <2>7. a \in RT /\ SameCore(t, a)
    BY <2>5, <2>6, PutMethods
  <2>8. /\ a.default = t.default /\ a.lists = t.lists /\ a.unattached = W /\ a.rawIsa = t.rawIsa
        /\ a.initialized = t.initialized /\ a.swizzled = t.swizzled /\ a.replaced = t.replaced
        /\ a.super = t.super /\ a.subclasses = t.subclasses /\ a.realized = t.realized /\ a.ignored = t.ignored
    BY <2>6 DEF RT, TableTypes
  <2>9. u = IF T \in t.realized THEN Remethodize(a, T, s) ELSE a
    BY <1>3, <1>5, <2>1, <2>6 DEF ReadCategory
  <2>10. Flagged(t, a)
    BY <2>8, Zenon DEF Flagged, Raw
  <2>11. IF T \in t.realized THEN Ready(E[s], t.lists[T][s], w, T, s) ELSE Waits(E[s], t.lists[T][s], w, s)
    BY <1>2, <2>3 DEF Methodical, Arranged
  <2>12. CASE T \notin t.realized
    <3>1. Waits(F[s], a.lists[T][s], a.unattached[T][s], s)
      <4>1. Waits(E[s], t.lists[T][s], w, s)
        BY <2>11, <2>12
      <4>2. InOrder(F[s], CategoriesIn(t.lists[T][s]), Append(w, k))
        BY <1>1, <1>2, <4>1, InOrderReads DEF Waits
      <4>3. \A j \in ToSet(Append(w, k)) : Defines[j][s] # {}
        BY <1>5, <2>4, <4>1 DEF Waits
      <4> QED
        BY <2>5, <2>8, <4>1, <4>2, <4>3 DEF Waits
    <3>2. Arranged(a, F)
      <4> SUFFICES ASSUME NEW d \in ImageClasses, NEW x \in Sides
                   PROVE  IF d \in a.realized THEN Ready(F[x], a.lists[d][x], a.unattached[d][x], d, x)
                          ELSE Waits(F[x], a.lists[d][x], a.unattached[d][x], x)
        BY DEF Arranged
      <4>1. CASE d = T /\ x = s
        BY <2>8, <2>12, <3>1, <4>1
      <4>2. CASE d # T \/ x # s
        <5>1. IF d \in t.realized THEN Ready(F[x], t.lists[d][x], t.unattached[d][x], d, x)
              ELSE Waits(F[x], t.lists[d][x], t.unattached[d][x], x)
          BY <1>1 DEF Arranged
        <5>2. a.unattached[d][x] = t.unattached[d][x]
          BY <2>5, <2>8, <4>2 DEF Classes
        <5> QED
          BY <2>8, <5>1, <5>2
      <4> QED
        BY <4>1, <4>2
    <3>3. NoneMissing(a, F, g)
      <4> SUFFICES ASSUME NEW x \in Sides, NEW j \in ToSet(F[x]),
                          ImageOf(j) \notin g, Target[j] \notin t.ignored, Defines[j][x] # {}
                   PROVE  Has(a, j, x)
        BY <2>8 DEF NoneMissing
      <4>1. CASE j = k /\ x = s
        BY <1>3, <2>4, <2>5, <2>8, <4>1 DEF Has
      <4>2. CASE ~(j = k /\ x = s)
        <5>1. j \in ToSet(E[x])
          BY <1>1, <4>2
        <5>2. Has(t, j, x)
          BY <5>1 DEF Methodical, NoneMissing
        <5>3. Target[j] \in Classes
          BY <1>2, <5>1, SeqMembers, ClassesAssumption DEF Classes
        <5>4. ToSet(t.unattached[Target[j]][x]) \subseteq ToSet(a.unattached[Target[j]][x])
          BY <2>3, <2>4, <2>5, <2>8, <5>3
        <5> QED
          BY <2>8, <5>2, <5>4 DEF Has
      <4> QED
        BY <4>1, <4>2
    <3> QED
      BY <2>8, <2>9, <2>10, <2>12, <3>2, <3>3, FlaggedMethodical DEF Methodical
  <2>13. CASE T \in t.realized
    <3>1. Ready(E[s], t.lists[T][s], w, T, s) /\ w = <<>>
      BY <2>11, <2>13 DEF Ready
    <3>2. Append(w, k) = <<k>> /\ ToSet(w) = {} /\ ToSet(<<k>>) = {k}
      BY <3>1 DEF ToSet
    <3>3. Up(a)
      BY <2>10, MethodicalUp, UpStays
    <3>4. PICK p : Changed(a, u, T, s, p, <<>>) /\ CategoriesIn(p) = Reverse(<<k>>)
      <4>1. a.unattached[T][s] = <<k>>
        BY <2>5, <2>8, <3>2
      <4>2. \A j \in ToSet(a.unattached[T][s]) : Defines[j][s] # {}
        BY <1>5, <3>2, <4>1
      <4>3. \E p : Changed(a, u, T, s, p, <<>>) /\ CategoriesIn(p) = Reverse(a.unattached[T][s])
        BY <1>2, <2>2, <2>7, <2>9, <2>13, <3>3, <4>2, RemethodizeIs
      <4> QED
        BY <4>1, <4>3
    <3>5. /\ p \in Seq(MethodLists) /\ Steady(a, u) /\ u.lists = [t.lists EXCEPT ![T][s] = p \o @]
          /\ u.unattached = [W EXCEPT ![T][s] = <<>>]
      BY <2>8, <3>4 DEF Changed, Attached
    <3>6. t.lists \in [Classes -> [Sides -> Seq(MethodLists)]]
      BY Fields
    <3>7. /\ u.lists[T][s] = p \o t.lists[T][s] /\ u.unattached[T][s] = <<>>
          /\ \A d \in Classes, x \in Sides : d # T \/ x # s =>
               u.lists[d][x] = t.lists[d][x] /\ u.unattached[d][x] = t.unattached[d][x]
      <4>1. /\ u.lists[T][s] = p \o t.lists[T][s]
            /\ \A d \in Classes, x \in Sides : d # T \/ x # s => u.lists[d][x] = t.lists[d][x]
        <5>1. PICK L, M, r : L = t.lists /\ M = u.lists /\ r = p \o L[T][s]
          OBVIOUS
        <5>2. L \in [Classes -> [Sides -> Seq(MethodLists)]] /\ M = [L EXCEPT ![T][s] = r]
          BY <3>5, <3>6, <5>1
        <5>3. M[T][s] = r /\ \A d \in Classes, x \in Sides : d # T \/ x # s => M[d][x] = L[d][x]
          BY <1>2, <2>2, <5>2
        <5> QED
          BY <5>1, <5>3, Zenon
      <4>2. /\ u.unattached[T][s] = <<>>
            /\ \A d \in Classes, x \in Sides : d # T \/ x # s => u.unattached[d][x] = W[d][x]
        BY <1>2, <2>2, <2>5, <3>5
      <4>3. \A d \in Classes, x \in Sides : d # T \/ x # s => W[d][x] = t.unattached[d][x]
        BY <1>2, <2>2, <2>5
      <4> QED
        BY <4>1, <4>2, <4>3, Zenon
    <3>8. u.realized = t.realized /\ u.ignored = t.ignored
      BY <2>8, <3>5 DEF Steady, SameCore
    <3>9. PICK l \in Seq(MethodLists) : l = t.lists[T][s]
      BY <1>2, <2>2, <3>6
    <3>10. /\ Ready(F[s], p \o l, <<>>, T, s)
           /\ ToSet(CategoriesIn(p \o l)) = ToSet(CategoriesIn(l)) \cup {k}
      <4>1. Ready(E[s], l, <<>>, T, s)
        BY <3>1, <3>9
      <4>2. PICK q : q = E[s]
        OBVIOUS
      <4>3. /\ Ready(Append(q, k), p \o l, <<>>, T, s)
            /\ ToSet(CategoriesIn(p \o l)) = ToSet(CategoriesIn(l)) \cup {k}
        BY <1>2, <3>4, <3>5, <4>1, <4>2, ReadyMore
      <4> QED
        BY <1>1, <4>2, <4>3
    <3>11. Arranged(u, F)
      <4> SUFFICES ASSUME NEW d \in ImageClasses, NEW x \in Sides
                   PROVE  IF d \in u.realized THEN Ready(F[x], u.lists[d][x], u.unattached[d][x], d, x)
                          ELSE Waits(F[x], u.lists[d][x], u.unattached[d][x], x)
        BY DEF Arranged
      <4>1. CASE d = T /\ x = s
        BY <2>13, <3>7, <3>8, <3>9, <3>10, <4>1
      <4>2. CASE d # T \/ x # s
        <5>1. IF d \in t.realized THEN Ready(F[x], t.lists[d][x], t.unattached[d][x], d, x)
              ELSE Waits(F[x], t.lists[d][x], t.unattached[d][x], x)
          BY <1>1 DEF Arranged
        <5>2. u.lists[d][x] = t.lists[d][x] /\ u.unattached[d][x] = t.unattached[d][x]
          BY <3>7, <4>2 DEF Classes
        <5> QED
          BY <3>8, <5>1, <5>2
      <4> QED
        BY <4>1, <4>2
    <3>12. NoneMissing(u, F, g)
      <4> SUFFICES ASSUME NEW x \in Sides, NEW j \in ToSet(F[x]),
                          ImageOf(j) \notin g, Target[j] \notin t.ignored, Defines[j][x] # {}
                   PROVE  Has(u, j, x)
        BY <3>8 DEF NoneMissing
      <4>1. CASE j = k /\ x = s
        BY <1>3, <3>7, <3>9, <3>10, <4>1 DEF Has
      <4>2. CASE ~(j = k /\ x = s)
        <5>1. j \in ToSet(E[x])
          BY <1>1, <4>2
        <5>2. Has(t, j, x)
          BY <5>1 DEF Methodical, NoneMissing
        <5>3. Target[j] \in Classes
          BY <1>2, <5>1, SeqMembers, ClassesAssumption DEF Classes
        <5>4. CASE Target[j] = T /\ x = s
          <6>1. j \in ToSet(CategoriesIn(l))
            BY <2>3, <3>1, <3>2, <3>9, <5>2, <5>4 DEF Has
          <6> QED
            BY <3>7, <3>9, <3>10, <5>4, <6>1 DEF Has
        <5>5. CASE Target[j] # T \/ x # s
          BY <3>7, <5>2, <5>3, <5>5 DEF Has
        <5> QED
          BY <5>4, <5>5
      <4> QED
        BY <4>1, <4>2
    <3>13. Flagged(t, u)
      BY <2>10, <3>5, <2>7, FlaggedTwice DEF Steady
    <3> QED
      BY <3>8, <3>11, <3>12, <3>13, FlaggedMethodical DEF Methodical
  <2> QED
    BY <2>12, <2>13
<1> QED
  BY <1>4, <1>5

-----------------------------------------------------------------------------
\* The same categories, on either side
Both(F) == [s \in Sides |-> F]

\* A category is found on one side, then on the other.
LEMMA FindsBoth ==
  ASSUME NEW q \in Seq(Categories), NEW k \in Categories, k \notin ToSet(q)
  PROVE  \E M : Finds(Both(q), "inst", k, M) /\ Finds(M, "meta", k, Both(Append(q, k)))
<1>1. Append(q, k) \in Seq(Categories)
  OBVIOUS
<1>2. PICK M : M = [Both(q) EXCEPT !["inst"] = Append(@, k)]
  OBVIOUS
<1>3. Both(q) \in [Sides -> Seq(Categories)] /\ Both(q)["inst"] = q
  BY DEF Both, Sides
<1>4. M \in [Sides -> Seq(Categories)] /\ M["meta"] = q
  BY <1>1, <1>2, <1>3 DEF Both, Sides
<1>5. [M EXCEPT !["meta"] = Append(@, k)] = Both(Append(q, k))
  BY <1>2, <1>4 DEF Both, Sides
<1>6. Finds(Both(q), "inst", k, M)
  BY <1>2, <1>3 DEF Finds, Sides
<1>7. Finds(M, "meta", k, Both(Append(q, k)))
  BY <1>4, <1>5 DEF Finds, Sides
<1> QED
  BY <1>6, <1>7

\* Both sides of a category are read, or the class is ignored.
LEMMA ReadBothMethodical ==
  ASSUME NEW t \in RT, Laid(t), NEW q \in Seq(Categories), NEW g, Methodical(t, Both(q), g),
         NEW k \in Categories, k \notin ToSet(q), NEW u,
         u = IF Target[k] \in t.ignored THEN t ELSE ReadCategory(ReadCategory(t, k, "inst"), k, "meta")
  PROVE  Methodical(u, Both(Append(q, k)), g)
<1>1. PICK M : Finds(Both(q), "inst", k, M) /\ Finds(M, "meta", k, Both(Append(q, k)))
  BY FindsBoth
<1>2. PICK A, Z : A = Both(q) /\ Z = Both(Append(q, k))
  OBVIOUS
<1>3. Finds(A, "inst", k, M) /\ Finds(M, "meta", k, Z) /\ Methodical(t, A, g)
  BY <1>1, <1>2
<1>4. CASE Target[k] \in t.ignored
  <2>1. Methodical(t, M, g)
    BY <1>3, <1>4, FoundMethodical
  <2>2. Methodical(t, Z, g)
    BY <1>3, <1>4, <2>1, FoundMethodical
  <2> QED
    BY <1>2, <1>4, <2>2
<1>5. CASE Target[k] \notin t.ignored
  <2>1. PICK a : a = ReadCategory(t, k, "inst")
    OBVIOUS
  <2>2. Methodical(a, M, g)
    BY <1>3, <2>1, ReadCategoryMethodical
  <2>3. a \in RT /\ SameCore(t, a)
    BY <2>1, ReadCategorySame DEF Sides
  <2>4. Laid(a)
    BY <2>3, SameIsGrown
  <2>5. u = ReadCategory(a, k, "meta")
    BY <1>5, <2>1
  <2>6. Methodical(u, Z, g)
    BY <1>3, <2>2, <2>3, <2>4, <2>5, ReadCategoryMethodical
  <2> QED
    BY <1>2, <2>6
<1> QED
  BY <1>4, <1>5

\* Categories are read, one after the other.
LEMMA ReadCategoriesMethodical ==
  ASSUME NEW t \in RT, Laid(t), NEW F \in Seq(Categories), NEW g, Methodical(t, Both(F), g),
         NEW cats \in Seq(Categories), IsInjective(cats), ToSet(cats) \cap ToSet(F) = {},
         NEW u, u = ReadCategories(t, cats)
  PROVE  u \in RT /\ SameCore(t, u) /\ Methodical(u, Both(F \o cats), g)
<1>1. PICK N \in Nat : N = Len(cats) /\ \A i \in 1 .. N : cats[i] \in Categories
  OBVIOUS
<1> DEFINE Q(n) == F \o SubSeq(cats, 1, n)
<1>2. PICK W : W = [n \in 0 .. N |-> {v \in RT : Methodical(v, Both(Q(n)), g)}]
  OBVIOUS
<1>3. Q(0) = F /\ Q(N) = F \o cats
  <2>1. SubSeq(cats, 1, 0) = <<>> /\ SubSeq(cats, 1, N) = cats
    BY <1>1
  <2>2. F \o <<>> = F
    OBVIOUS
  <2> QED
    BY <2>1, <2>2
<1>4. ASSUME NEW n \in 1 .. N
      PROVE  /\ Q(n - 1) \in Seq(Categories) /\ cats[n] \in Categories /\ cats[n] \notin ToSet(Q(n - 1))
             /\ Q(n) = Append(Q(n - 1), cats[n])
  <2>1. PICK p : p = SubSeq(cats, 1, n - 1)
    OBVIOUS
  <2>2. /\ p \in Seq(Categories) /\ Len(p) = n - 1 /\ \A i \in 1 .. n - 1 : p[i] = cats[i]
        /\ SubSeq(cats, 1, n) = Append(p, cats[n])
    <3>1. n \in 1 .. Len(cats)
      BY <1>1
    <3>2. SubSeq(cats, 1, n) = Append(SubSeq(cats, 1, n - 1), cats[n])
      BY <3>1, FirstMore
    <3>3. /\ SubSeq(cats, 1, n - 1) \in Seq(Categories) /\ Len(SubSeq(cats, 1, n - 1)) = n - 1
          /\ \A i \in 1 .. n - 1 : SubSeq(cats, 1, n - 1)[i] = cats[i]
      BY <3>1, FirstMore
    <3> QED
      BY <2>1, <3>2, <3>3
  <2>3. F \o p \in Seq(Categories) /\ ToSet(F \o p) = ToSet(F) \cup ToSet(p)
    BY <2>2, ConcatMembers
  <2>4. cats[n] \notin ToSet(p)
    <3>1. \A x : x \in ToSet(p) <=> \E i \in 1 .. n - 1 : p[i] = x
      BY <2>2, SeqMembers
    <3>2. \A i, j \in 1 .. N : cats[i] = cats[j] => i = j
      BY <1>1, SeqMembers
    <3>3. \A i \in 1 .. n - 1 : i \in 1 .. N /\ i # n
      BY <1>1
    <3> QED
      BY <2>2, <3>1, <3>2, <3>3
  <2>5. cats[n] \in ToSet(cats)
    BY <1>1, SeqMembers
  <2>6. F \o Append(p, cats[n]) = Append(F \o p, cats[n])
    BY <1>1, <2>2, ConcatAppend
  <2>7. Q(n - 1) = F \o p /\ Q(n) = Append(F \o p, cats[n])
    BY <2>1, <2>2, <2>6
  <2>8. cats[n] \in Categories
    BY <1>1
  <2> HIDE DEF Q
  <2> QED
    BY <2>3, <2>4, <2>5, <2>7, <2>8
<1>5. t \in W[0]
  <2>1. 0 \in 0 .. N
    BY <1>1
  <2>2. Methodical(t, Both(Q(0)), g)
    BY <1>3
  <2> HIDE DEF Q
  <2> QED
    BY <1>2, <2>1, <2>2
<1>6. ASSUME NEW n \in 1 .. N, NEW v \in RT, SameCore(t, v), v \in W[n - 1], NEW w,
             w = IF Target[cats[n]] \in t.ignored THEN v
                 ELSE ReadCategory(ReadCategory(v, cats[n], "inst"), cats[n], "meta")
      PROVE  w \in W[n]
  <2>1. PICK q \in Seq(Categories), k \in Categories :
          q = Q(n - 1) /\ k = cats[n] /\ k \notin ToSet(q) /\ Q(n) = Append(q, k)
    BY <1>4
  <2>2. v.ignored = t.ignored
    BY <1>6 DEF SameCore
  <2>3. Laid(v)
    BY <1>6, SameIsGrown
  <2>4. n - 1 \in 0 .. N /\ n \in 0 .. N
    BY <1>1
  <2>5. Methodical(v, Both(q), g)
    BY <1>2, <1>6, <2>1, <2>4
  <2>6. w = IF Target[k] \in v.ignored THEN v ELSE ReadCategory(ReadCategory(v, k, "inst"), k, "meta")
    BY <1>6, <2>1, <2>2
  <2>7. Methodical(w, Both(Append(q, k)), g)
    BY <2>1, <2>3, <2>5, <2>6, ReadBothMethodical
  <2>8. w \in RT
    <3>1. CASE Target[k] \in v.ignored
      BY <2>6, <3>1
    <3>2. CASE Target[k] \notin v.ignored
      <4>1. PICK a : a = ReadCategory(v, k, "inst")
        OBVIOUS
      <4>2. a \in RT
        BY <2>1, <4>1, ReadCategorySame DEF Sides
      <4>3. ReadCategory(a, k, "meta") \in RT
        BY <2>1, <4>2, ReadCategorySame DEF Sides
      <4> QED
        BY <2>6, <3>2, <4>1, <4>3
    <3> QED
      BY <3>1, <3>2
  <2>9. Methodical(w, Both(Q(n)), g)
    BY <2>1, <2>7
  <2> HIDE DEF Q
  <2> QED
    BY <1>2, <2>4, <2>8, <2>9
<1> HIDE DEF Q
<1>7. ReadingKeeps(t, cats, W)
  BY <1>1, <1>5, <1>6 DEF ReadingKeeps
<1>8. u \in RT /\ SameCore(t, u) /\ u \in W[N]
  BY <1>1, <1>7, ReadCategoriesKeep
<1>9. Methodical(u, Both(Q(N)), g)
  BY <1>1, <1>2, <1>8
<1> QED
  BY <1>3, <1>8, <1>9

-----------------------------------------------------------------------------
(* Methodical: classes initialized, methods added and set                   *)

\* A class that nothing is known against, and whose superclass has the flag, gets it.
LEMMA SetInitializedMethodical ==
  ASSUME NEW t \in RT, NEW E, NEW g, Methodical(t, E, g), NEW c \in t.realized, c \notin t.initialized,
         c = NSObject => ImageOf(NSObject) \notin g, NEW u, u = SetInitialized(t, c)
  PROVE  Methodical(u, E, g)
<1>1. PICK S, D : /\ S = t.initialized \cup {c}
                  /\ D = [s \in Sides |-> IF IsCustom(t, c, s) THEN t.default[s] ELSE t.default[s] \cup {c}]
  OBVIOUS
<1>2. u = [t EXCEPT !.initialized = S, !.default = D]
  BY <1>1 DEF SetInitialized
<1>3. /\ u.initialized = S /\ u.default = D /\ u.swizzled = t.swizzled /\ u.replaced = t.replaced
      /\ u.lists = t.lists /\ u.unattached = t.unattached /\ u.super = t.super
      /\ u.realized = t.realized /\ u.rawIsa = t.rawIsa /\ u.ignored = t.ignored
  BY <1>2 DEF RT, TableTypes
<1>4. ASSUME NEW s \in Sides, c = NSObject, ~IsCustom(t, c, s), NEW l \in ToSet(t.lists[c][s]), HasFast(l, s)
      PROVE  l.owner = NSObject
  <2>1. c \in ImageClasses
    BY <1>4, ClassesAssumption
  <2>2. PICK q \in Seq(MethodLists) : q = t.lists[c][s]
    BY <2>1, Fields DEF Classes
  <2>3. Ready(E[s], q, t.unattached[c][s], c, s)
    BY <2>1, <2>2 DEF Methodical, Arranged
  <2>4. \A m \in ToSet(CategoryLists(t, c, s)) : ~HasFast(m, s)
    BY <1>4 DEF IsCustom
  <2>5. q # <<>>
    BY <1>4, <2>2 DEF ToSet
  <2>6. Defines[c][s] # {}
    BY <1>4, <2>2, <2>4 DEF CategoryLists
  <2>7. Last(q).owner = c /\ CategoryLists(t, c, s) = Front(q)
    BY <2>2, <2>3, <2>5, <2>6 DEF Ready, CategoryLists
  <2>8. PICK N \in Nat : N = Len(q) /\ N >= 1
    BY <2>5, FrontFacts
  <2>9. /\ Front(q) \in Seq(MethodLists) /\ Len(Front(q)) = N - 1 /\ Last(q) = q[N]
        /\ \A i \in 1 .. N - 1 : Front(q)[i] = q[i]
    BY <2>5, <2>8, FrontFacts
  <2>10. PICK i \in 1 .. N : q[i] = l
    BY <1>4, <2>2, <2>8, SeqMembers
  <2>11. CASE i = N
    BY <1>4, <2>7, <2>9, <2>10, <2>11
  <2>12. CASE i # N
    <3>1. i \in 1 .. N - 1
      BY <2>8, <2>12
    <3>2. l \in ToSet(Front(q))
      BY <2>9, <2>10, <3>1, SeqMembers
    <3> QED
      BY <1>4, <2>4, <2>7, <3>2
  <2> QED
    BY <2>11, <2>12
<1>5. ASSUME NEW s \in Sides
      PROVE  FlagsOn(u, s) /\ ReplacedOn(u, g, s)
  <2>1. FlagsOn(t, s) /\ ReplacedOn(t, g, s)
    BY DEF Methodical, Agreed
  <2>2. D[s] = IF IsCustom(t, c, s) THEN t.default[s] ELSE t.default[s] \cup {c}
    BY <1>1
  <2>3. c \notin t.default[s]
    BY <2>1 DEF FlagsOn
  <2>4. CASE IsCustom(t, c, s)
    BY <1>1, <1>3, <2>1, <2>2, <2>4 DEF FlagsOn, ReplacedOn
  <2>5. CASE ~IsCustom(t, c, s)
    <3>1. ~t.swizzled[s] /\ (c # NSObject => t.super[c] \in t.default[s])
          /\ (c # NSObject => \A l \in ToSet(t.lists[c][s]) : ~HasFast(l, s))
      BY <2>5 DEF IsCustom
    <3>2. \A l \in ToSet(t.lists[c][s]) : HasFast(l, s) => l.owner = NSObject
      BY <1>4, <2>5, <3>1
    <3>3. FlagsOn(u, s)
      <4>1. D[s] \subseteq S /\ ~u.swizzled[s]
        BY <1>1, <1>3, <2>1, <2>2, <2>5, <3>1 DEF FlagsOn
      <4>2. \A d \in D[s] : d # NSObject => t.super[d] \in D[s]
        BY <2>1, <2>2, <2>5, <3>1 DEF FlagsOn
      <4>3. \A d \in D[s] : \A l \in ToSet(t.lists[d][s]) : HasFast(l, s) => l.owner = NSObject
        BY <2>1, <2>2, <2>5, <3>2 DEF FlagsOn
      <4> QED
        BY <1>3, <4>1, <4>2, <4>3 DEF FlagsOn
    <3>4. ~t.replaced[s]
      <4> SUFFICES ASSUME t.replaced[s]
                   PROVE  FALSE
        OBVIOUS
      <4>1. t.default[s] = {} /\ (NSObject \in t.initialized \/ ImageOf(NSObject) \in g)
        BY <2>1, <3>1 DEF ReplacedOn
      <4>2. c = NSObject
        BY <3>1, <4>1
      <4> QED
        BY <4>1, <4>2
    <3> QED
      BY <1>3, <3>3, <3>4 DEF ReplacedOn
  <2> QED
    BY <2>4, <2>5
<1>6. Agreed(u, g)
  <2>1. u.initialized \subseteq u.realized
    BY <1>1, <1>3 DEF Methodical, Agreed
  <2> QED
    BY <1>5, <2>1 DEF Agreed
<1>7. Raw(u, u.realized)
  BY <1>3 DEF Methodical, Raw
<1>8. Arranged(u, E)
  BY <1>3 DEF Methodical, Arranged
<1>9. NoneMissing(u, E, g)
  BY <1>3 DEF Methodical, NoneMissing, Has
<1> QED
  BY <1>6, <1>7, <1>8, <1>9 DEF Methodical

\* class_addMethod, on a realized class
LEMMA AddMethodMethodical ==
  ASSUME NEW t \in RT, Laid(t), NEW E, NEW g, Methodical(t, E, g), NEW c \in t.realized, NEW s \in Sides,
         NEW sel \in Sels, NEW u, u = AddMethod(t, c, s, sel)
  PROVE  Methodical(u, E, g)
<1>1. c \in Classes /\ Up(t)
  BY Fields, MethodicalUp
<1>2. PICK p \in Seq(MethodLists) : Attached(t, u, c, s, p) /\ u.unattached = t.unattached /\ CategoriesIn(p) = <<>>
  BY <1>1, AddMethodIs
<1>3. Steady(t, u) /\ u.lists = [t.lists EXCEPT ![c][s] = p \o @]
  BY <1>2 DEF Attached
<1>4. u.realized = t.realized /\ u.ignored = t.ignored
  BY <1>3 DEF Steady, SameCore
<1>5. Agreed(u, g) /\ Raw(u, u.realized)
  BY <1>3, <1>4, FlaggedMethodical DEF Steady
<1>6. t.lists \in [Classes -> [Sides -> Seq(MethodLists)]]
  BY Fields
<1>7. PICK l \in Seq(MethodLists) : l = t.lists[c][s]
  BY <1>1, <1>6
<1>8. /\ u.lists[c][s] = p \o l
      /\ \A d \in Classes, x \in Sides : d # c \/ x # s => u.lists[d][x] = t.lists[d][x]
  BY <1>1, <1>3, <1>6, <1>7
<1>9. c \in ImageClasses => /\ Ready(E[s], p \o l, t.unattached[c][s], c, s)
                            /\ CategoriesIn(p \o l) = CategoriesIn(l)
  <2> SUFFICES ASSUME c \in ImageClasses
               PROVE  /\ Ready(E[s], p \o l, t.unattached[c][s], c, s)
                      /\ CategoriesIn(p \o l) = CategoriesIn(l)
    OBVIOUS
  <2>1. PICK w, F : w = t.unattached[c][s] /\ F = E[s]
    OBVIOUS
  <2>2. Ready(F, l, w, c, s)
    BY <1>7, <2>1 DEF Methodical, Arranged
  <2>3. CategoriesIn(p) = <<>>
    BY <1>2
  <2> QED
    BY <2>1, <2>2, <2>3, ReadyStill
<1>10. Arranged(u, E)
  <2> SUFFICES ASSUME NEW d \in ImageClasses, NEW x \in Sides
               PROVE  IF d \in u.realized THEN Ready(E[x], u.lists[d][x], u.unattached[d][x], d, x)
                      ELSE Waits(E[x], u.lists[d][x], u.unattached[d][x], x)
    BY DEF Arranged
  <2>1. CASE d = c /\ x = s
    BY <1>2, <1>4, <1>8, <1>9, <2>1
  <2>2. CASE d # c \/ x # s
    <3>1. IF d \in t.realized THEN Ready(E[x], t.lists[d][x], t.unattached[d][x], d, x)
          ELSE Waits(E[x], t.lists[d][x], t.unattached[d][x], x)
      BY DEF Methodical, Arranged
    <3>2. u.lists[d][x] = t.lists[d][x]
      BY <1>8, <2>2 DEF Classes
    <3> QED
      BY <1>2, <1>4, <3>1, <3>2
  <2> QED
    BY <2>1, <2>2
<1>11. NoneMissing(u, E, g)
  <2> SUFFICES ASSUME NEW x \in Sides, NEW k \in ToSet(E[x]),
                      ImageOf(k) \notin g, Target[k] \notin t.ignored, Defines[k][x] # {}
               PROVE  Has(u, k, x)
    BY <1>4 DEF NoneMissing
  <2>1. Has(t, k, x)
    BY DEF Methodical, NoneMissing
  <2>2. Target[k] \in ImageClasses
    <3>1. E[x] \in Seq(Categories)
      <4>1. PICK a \in ImageClasses : a = NSObject
        BY ClassesAssumption
      <4>2. IF a \in t.realized THEN Ready(E[x], t.lists[a][x], t.unattached[a][x], a, x)
            ELSE Waits(E[x], t.lists[a][x], t.unattached[a][x], x)
        BY DEF Methodical, Arranged
      <4> QED
        BY <4>2 DEF Ready, Waits, InOrder
    <3> QED
      BY <3>1, SeqMembers, ClassesAssumption
  <2>3. CASE Target[k] = c /\ x = s
    BY <1>2, <1>7, <1>8, <1>9, <2>1, <2>2, <2>3 DEF Has
  <2>4. CASE Target[k] # c \/ x # s
    BY <1>2, <1>8, <2>1, <2>2, <2>4 DEF Has, Classes
  <2> QED
    BY <2>3, <2>4
<1> QED
  BY <1>5, <1>10, <1>11 DEF Methodical

\* Without NSObject, none has the flag.
LEMMA NoDefault ==
  ASSUME NEW t \in RT, Ends(t), NEW s \in Sides, FlagsOn(t, s), NSObject \notin t.default[s]
  PROVE  t.default[s] = {}
<1>1. PICK b, rank : Ranks(rank, b, Classes \cup {NoClass}, t.super, {NoClass})
  BY DEF Ends
<1> DEFINE D == Classes \cup {NoClass}
           f == [d \in D |-> 0]
           R == [d \in D |-> {x \in {0} : d \notin t.default[s]}]
<1>2. t.default[s] \subseteq Classes /\ NoClass \notin Classes
  BY Fields, ClassesAssumption
<1>3. \A d \in D \cap {NoClass} : f[d] \in R[d]
  BY <1>2
<1>4. ASSUME NEW d \in D \ {NoClass}, f[t.super[d]] \in R[t.super[d]]
      PROVE  f[d] \in R[d]
  <2>1. t.super[d] \in D
    BY <1>1 DEF Ranks
  <2>2. t.super[d] \notin t.default[s]
    BY <1>4, <2>1
  <2>3. d \notin t.default[s]
    BY <2>2 DEF FlagsOn
  <2> QED
    BY <2>3
<1>5. \A d \in D : f[d] \in R[d]
  <2> HIDE DEF f, R
  <2> QED
    BY <1>1, <1>3, <1>4, ClimbKeeps
<1> QED
  BY <1>2, <1>5

\* The method of NSObject is replaced: from then on none has the flag.
LEMMA SetImplementationMethodical ==
  ASSUME NEW t \in RT, Laid(t), Ends(t), NEW E, NEW g, Methodical(t, E, g), NEW s \in Sides,
         NEW u, u = SetImplementation(t, s)
  PROVE  Methodical(u, E, g)
<1>1. PICK B : B = [t.replaced EXCEPT ![s] = TRUE]
  OBVIOUS
<1>2. B \in [Sides -> BOOLEAN] /\ \A x \in Sides \ {s} : B[x] = t.replaced[x]
  BY <1>1, Fields
<1>3. PICK v : v = [t EXCEPT !.replaced = B]
  OBVIOUS
<1>4. v \in RT /\ SameCore(t, v)
  BY <1>2, <1>3, PutMethods
<1>5. /\ v.default = t.default /\ v.lists = t.lists /\ v.unattached = t.unattached /\ v.rawIsa = t.rawIsa
      /\ v.initialized = t.initialized /\ v.swizzled = t.swizzled /\ v.replaced = B
      /\ v.super = t.super /\ v.subclasses = t.subclasses /\ v.realized = t.realized /\ v.ignored = t.ignored
  BY <1>3 DEF RT, TableTypes
<1>6. Laid(v) /\ Ends(v)
  BY <1>4, <1>5, SameIsGrown DEF Ends
<1>7. t.initialized \subseteq t.realized /\ \A x \in Sides : FlagsOn(t, x) /\ ReplacedOn(t, g, x)
  BY DEF Methodical, Agreed
<1>8. \A x \in Sides : FlagsOn(v, x)
  BY <1>5, <1>7 DEF FlagsOn
<1>9. Raw(v, v.realized) /\ Arranged(v, E) /\ NoneMissing(v, E, g)
  BY <1>5 DEF Methodical, Raw, Arranged, NoneMissing, Has
<1>10. u = UpdateCustom(v, s)
  BY <1>1, <1>3 DEF SetImplementation
<1>11. CASE v.swizzled[s] \/ (NSObject \in v.initialized /\ NSObject \notin v.default[s])
  <2>1. u = v
    BY <1>10, <1>11 DEF UpdateCustom
  <2>2. v.default[s] = {} /\ (v.swizzled[s] \/ NSObject \in v.initialized)
    BY <1>4, <1>6, <1>8, <1>11, NoDefault DEF FlagsOn
  <2>3. \A x \in Sides : ReplacedOn(v, g, x)
    BY <1>2, <1>5, <1>7, <2>2 DEF ReplacedOn
  <2> QED
    BY <1>5, <1>7, <1>8, <1>9, <2>1, <2>3 DEF Methodical, Agreed
<1>12. CASE ~v.swizzled[s] /\ NSObject \in v.initialized /\ NSObject \in v.default[s]
  <2>1. u = SetHasCustom(v, NSObject, s)
    BY <1>10, <1>12 DEF UpdateCustom
  <2>2. Up(v) /\ NSObject \in Classes
    <3>1. Up(t)
      BY MethodicalUp
    <3> QED
      BY <1>5, <3>1, ClassesAssumption DEF Up, Linked, Classes
  <2>3. /\ Steady(v, u) /\ NSObject \notin u.default[s]
        /\ u.lists = v.lists /\ u.unattached = v.unattached /\ u.rawIsa = v.rawIsa
    BY <1>4, <2>1, <2>2, SetHasCustomTakes
  <2>4. u \in RT /\ Flagged(v, u) /\ u.super = v.super /\ u.realized = v.realized /\ u.ignored = v.ignored
    BY <2>3 DEF Steady, SameCore
  <2>5. \A x \in Sides : FlagsOn(u, x)
    BY <1>4, <1>8, <2>4, FlaggedFlags
  <2>6. u.initialized = v.initialized /\ u.swizzled = v.swizzled /\ u.replaced = v.replaced
        /\ \A x \in Sides : u.default[x] \subseteq v.default[x]
    BY <2>4, Zenon DEF Flagged
  <2>7. u.default[s] = {}
    <3>1. Ends(u)
      BY <1>6, <2>4 DEF Ends
    <3> QED
      BY <2>3, <2>4, <2>5, <3>1, NoDefault
  <2>8. \A x \in Sides : ReplacedOn(u, g, x)
    <3> SUFFICES ASSUME NEW x \in Sides
                 PROVE  ReplacedOn(u, g, x)
      OBVIOUS
    <3>1. CASE x = s
      BY <1>12, <2>6, <2>7, <3>1 DEF ReplacedOn
    <3>2. CASE x # s
      <4>1. ReplacedOn(t, g, x) /\ v.replaced[x] = t.replaced[x]
        BY <1>2, <1>5, <1>7, <3>2
      <4> QED
        BY <1>5, <2>6, <4>1 DEF ReplacedOn
    <3> QED
      BY <3>1, <3>2
  <2>9. Agreed(u, g)
    BY <1>5, <1>7, <2>4, <2>5, <2>6, <2>8 DEF Agreed
  <2>10. Raw(u, u.realized)
    BY <1>4, <1>6, <1>9, <2>4, FlaggedRaw
  <2>11. Arranged(u, E) /\ NoneMissing(u, E, g)
    BY <1>9, <2>3, <2>4 DEF Arranged, NoneMissing, Has
  <2> QED
    BY <2>9, <2>10, <2>11 DEF Methodical
<1>13. CASE ~v.swizzled[s] /\ NSObject \notin v.initialized
  <2>1. PICK W : W = [v.swizzled EXCEPT ![s] = TRUE]
    OBVIOUS
  <2>2. W[s] /\ W \in [Sides -> BOOLEAN] /\ \A x \in Sides \ {s} : W[x] = v.swizzled[x]
    BY <1>4, <2>1, Fields
  <2>3. u = [v EXCEPT !.swizzled = W]
    BY <1>10, <1>13, <2>1 DEF UpdateCustom
  <2>4. /\ u.default = v.default /\ u.lists = v.lists /\ u.unattached = v.unattached /\ u.rawIsa = v.rawIsa
        /\ u.initialized = v.initialized /\ u.swizzled = W /\ u.replaced = v.replaced
        /\ u.super = v.super /\ u.realized = v.realized /\ u.ignored = v.ignored
    BY <1>4, <2>3 DEF RT, TableTypes
  <2>5. v.default[s] = {}
    BY <1>4, <1>6, <1>8, <1>13, NoDefault DEF FlagsOn
  <2>6. \A x \in Sides : FlagsOn(u, x) /\ ReplacedOn(u, g, x)
    <3> SUFFICES ASSUME NEW x \in Sides
                 PROVE  FlagsOn(u, x) /\ ReplacedOn(u, g, x)
      OBVIOUS
    <3>1. CASE x = s
      BY <2>2, <2>4, <2>5, <3>1 DEF FlagsOn, ReplacedOn
    <3>2. CASE x # s
      BY <1>2, <1>5, <1>7, <2>2, <2>4, <3>2 DEF FlagsOn, ReplacedOn
    <3> QED
      BY <3>1, <3>2
  <2>7. Agreed(u, g)
    BY <1>5, <1>7, <2>4, <2>6 DEF Agreed
  <2>8. Raw(u, u.realized) /\ Arranged(u, E) /\ NoneMissing(u, E, g)
    BY <1>9, <2>4 DEF Raw, Arranged, NoneMissing, Has
  <2> QED
    BY <2>7, <2>8 DEF Methodical
<1> QED
  BY <1>11, <1>12, <1>13

-----------------------------------------------------------------------------
(* Methodical: classes made, taken apart and disposed of                    *)

\* The categories found are a sequence.
LEMMA FoundType ==
  ASSUME NEW t, NEW E, Arranged(t, E), NEW s \in Sides
  PROVE  E[s] \in Seq(Categories) /\ \A k \in ToSet(E[s]) : k \in Categories /\ Target[k] \in ImageClasses
<1>1. PICK a \in ImageClasses : a = NSObject
  BY ClassesAssumption
<1>2. IF a \in t.realized THEN Ready(E[s], t.lists[a][s], t.unattached[a][s], a, s)
      ELSE Waits(E[s], t.lists[a][s], t.unattached[a][s], s)
  BY DEF Arranged
<1>3. E[s] \in Seq(Categories)
  BY <1>2 DEF Ready, Waits, InOrder
<1> QED
  BY <1>3, SeqMembers, ClassesAssumption

\* A class that the program makes has its superclass's flags.
LEMMA AllocateClassPairMethodical ==
  ASSUME NEW t \in RT, Laid(t), NEW E, NEW g, Methodical(t, E, g), NEW c \in RuntimeClasses, c \notin t.realized,
         NEW p \in t.realized, NEW u, u = AllocateClassPair(t, c, p)
  PROVE  /\ Methodical(u, E, g)
         /\ u.ignored = t.ignored /\ u.realized = t.realized \cup {c} /\ u.named = t.named
<1>1. /\ c \in Classes /\ p \in Classes /\ NoClass \notin Classes /\ c # p /\ c \notin ImageClasses
      /\ ImageClasses \subseteq Classes /\ t.realized \in SUBSET Classes
      /\ t.super \in [Classes -> Classes \cup {NoClass}]
  <2>1. t.realized \in SUBSET Classes /\ t.super \in [Classes -> Classes \cup {NoClass}]
    BY Fields
  <2> QED
    BY <2>1, ClassesAssumption DEF Classes
<1>2. PICK n \in Nat : n = t.layout[p].size
  <2>1. t.layout[p] \in Layouts
    BY <1>1, Fields
  <2> QED
    BY <2>1 DEF Layouts
<1>3. PICK l \in Layouts : l = [start |-> n, size |-> n, ivars |-> <<>>] /\ Sound(l)
  BY EmptyLayout
<1>4. PICK a : a = [t EXCEPT !.realized = @ \cup {c}, !.constructing = @ \cup {c},
                             !.super[c] = p, !.layout[c] = l]
  OBVIOUS
<1>5. a \in RT
  <2>1. p \in t.realized \cup {NoClass}
    OBVIOUS
  <2> QED
    BY <1>3, <1>4, <2>1, MadeType, Zenon
<1>6. /\ a.realized = t.realized \cup {c} /\ a.super = [t.super EXCEPT ![c] = p]
      /\ a.lists = t.lists /\ a.unattached = t.unattached /\ a.default = t.default
      /\ a.swizzled = t.swizzled /\ a.replaced = t.replaced /\ a.initialized = t.initialized
      /\ a.rawIsa = t.rawIsa /\ a.subclasses = t.subclasses /\ a.ignored = t.ignored /\ a.named = t.named
  BY <1>4 DEF RT, TableTypes
<1>7. a.super[c] = p /\ \A d \in t.realized : a.super[d] = t.super[d]
  BY <1>1, <1>6
<1>8. u = AddSubclass(a, p, c)
  BY <1>1, <1>2, <1>3, <1>4 DEF AllocateClassPair
<1>9. t.initialized \subseteq t.realized /\ \A s \in Sides : FlagsOn(t, s) /\ ReplacedOn(t, g, s)
  BY DEF Methodical, Agreed
<1>10. Linked(a, t.realized) /\ Raw(a, t.realized)
  BY <1>6, <1>7 DEF Linked, Laid, Raw, Methodical
<1>11. Up(a)
  BY <1>6, <1>9, <1>10 DEF Up, Linked, FlagsOn
<1>12. /\ Flagged(a, u) /\ u.lists = a.lists /\ u.unattached = a.unattached
       /\ p \in u.rawIsa => c \in u.rawIsa
  BY <1>1, <1>5, <1>8, <1>11, AddSubclassIs
<1>13. u.realized = a.realized /\ u.ignored = a.ignored /\ u.named = a.named
  <2>1. PICK k : k = [a EXCEPT !.subclasses[p] = @ \cup {c}]
    OBVIOUS
  <2>2. SameCore(k, u)
    BY <1>1, <1>5, <1>8, <2>1, AddSubclassLinks
  <2>3. k.realized = a.realized /\ k.ignored = a.ignored /\ k.named = a.named
    BY <1>5, <2>1 DEF RT, TableTypes
  <2> QED
    BY <2>2, <2>3 DEF SameCore
<1>14. Agreed(u, g)
  <2>1. \A s \in Sides : FlagsOn(a, s) /\ ReplacedOn(a, g, s)
    <3> SUFFICES ASSUME NEW s \in Sides
                 PROVE  FlagsOn(a, s) /\ ReplacedOn(a, g, s)
      OBVIOUS
    <3>1. FlagsOn(t, s) /\ ReplacedOn(t, g, s) /\ t.default[s] \subseteq t.realized
      BY <1>9 DEF FlagsOn
    <3> QED
      BY <1>6, <1>7, <3>1 DEF FlagsOn, ReplacedOn
  <2>2. Agreed(a, g)
    BY <1>6, <1>9, <2>1 DEF Agreed
  <2> QED
    BY <1>5, <1>12, <1>13, <2>2, FlaggedAgreed
<1>15. Raw(u, u.realized)
  <2>1. Raw(u, t.realized)
    BY <1>1, <1>10, <1>12 DEF Flagged
  <2>2. u.super = a.super
    BY <1>12 DEF Flagged
  <2> QED
    BY <1>6, <1>7, <1>12, <1>13, <2>1, <2>2 DEF Raw
<1>16. Arranged(u, E)
  <2>1. \A d \in ImageClasses : d \in u.realized <=> d \in t.realized
    BY <1>1, <1>6, <1>13
  <2> QED
    BY <1>6, <1>12, <2>1 DEF Methodical, Arranged
<1>17. NoneMissing(u, E, g)
  BY <1>6, <1>12, <1>13 DEF Methodical, NoneMissing, Has
<1> QED
  BY <1>6, <1>13, <1>14, <1>15, <1>16, <1>17 DEF Methodical

\* A root has no flags.
LEMMA AllocateRootMethodical ==
  ASSUME NEW t \in RT, NEW E, NEW g, Methodical(t, E, g), NEW c \in RuntimeClasses, c \notin t.realized,
         t.super[c] = NoClass, NEW u, u = AllocateClassPair(t, c, NoClass)
  PROVE  /\ Methodical(u, E, g)
         /\ u.ignored = t.ignored /\ u.realized = t.realized \cup {c} /\ u.named = t.named
<1>1. /\ u.realized = t.realized \cup {c} /\ u.super = t.super
      /\ u.lists = t.lists /\ u.unattached = t.unattached /\ u.default = t.default
      /\ u.swizzled = t.swizzled /\ u.replaced = t.replaced /\ u.initialized = t.initialized
      /\ u.rawIsa = t.rawIsa /\ u.ignored = t.ignored /\ u.named = t.named
  BY AllocateRootIs
<1>2. c \notin ImageClasses /\ NoClass \notin t.rawIsa
  <2>1. t.rawIsa \in SUBSET Classes
    BY Fields
  <2> QED
    BY <2>1, ClassesAssumption
<1>3. Agreed(u, g)
  <2>1. t.initialized \subseteq t.realized /\ \A s \in Sides : FlagsOn(t, s) /\ ReplacedOn(t, g, s)
    BY DEF Methodical, Agreed
  <2>2. \A s \in Sides : FlagsOn(u, s) /\ ReplacedOn(u, g, s)
    BY <1>1, <2>1 DEF FlagsOn, ReplacedOn
  <2> QED
    BY <1>1, <2>1, <2>2 DEF Agreed
<1>4. Raw(u, u.realized)
  BY <1>1, <1>2 DEF Methodical, Raw
<1>5. Arranged(u, E)
  <2>1. \A d \in ImageClasses : d \in u.realized <=> d \in t.realized
    BY <1>1, <1>2
  <2> QED
    BY <1>1, <2>1 DEF Methodical, Arranged
<1>6. NoneMissing(u, E, g)
  BY <1>1 DEF Methodical, NoneMissing, Has
<1> QED
  BY <1>1, <1>3, <1>4, <1>5, <1>6 DEF Methodical

\* The classes cs and what was found in the images h are gone.
Parting(t, E, g, cs, h) ==
    /\ g \subseteq h /\ (NSObject \in cs => ImageOf(NSObject) \in h)
    /\ \A c \in t.realized \ cs : t.super[c] \notin cs
    /\ \A s \in Sides : \A k \in ToSet(E[s]) :
         Target[k] \in cs => ImageOf(k) \in h \/ Target[k] \in t.ignored

\* detach_class and free_class
LEMMA FreeMethodical ==
  ASSUME NEW t \in RT, NEW E, NEW g, Methodical(t, E, g), NEW cs \in SUBSET Classes, NEW h, Parting(t, E, g, cs, h),
         NEW u, u = Free(t, cs)
  PROVE  Methodical(u, E, h)
<1>1. /\ u.super = t.super /\ u.ignored = t.ignored /\ u.realized = t.realized \ cs
      /\ u.swizzled = t.swizzled /\ u.replaced = t.replaced
      /\ u.rawIsa = t.rawIsa \ cs /\ u.initialized = t.initialized \ cs
      /\ u.lists = [c \in Classes |-> IF c \in cs THEN NoLists[c] ELSE t.lists[c]]
      /\ u.unattached = [c \in Classes |-> IF c \in cs THEN NoLists[c] ELSE t.unattached[c]]
      /\ u.default = [s \in Sides |-> t.default[s] \ cs]
  BY DEF Free, RT, TableTypes
<1>2. \A c \in Classes \ cs : u.lists[c] = t.lists[c] /\ u.unattached[c] = t.unattached[c]
  BY <1>1
<1>3. \A c \in cs, s \in Sides : u.lists[c][s] = <<>> /\ u.unattached[c][s] = <<>>
  BY <1>1 DEF NoLists
<1>4. t.realized \subseteq Classes /\ \A s \in Sides : u.default[s] = t.default[s] \ cs
  BY <1>1, Fields
<1>5. Agreed(u, h)
  <2>1. t.initialized \subseteq t.realized /\ \A s \in Sides : FlagsOn(t, s) /\ ReplacedOn(t, g, s)
    BY DEF Methodical, Agreed
  <2>2. ASSUME NEW s \in Sides
        PROVE  FlagsOn(u, s) /\ ReplacedOn(u, h, s)
    <3>1. FlagsOn(t, s) /\ ReplacedOn(t, g, s)
      BY <2>1
    <3>2. \A c \in u.default[s] : c \in t.default[s] /\ c \in t.realized \ cs /\ c \in Classes \ cs
      BY <1>4, <2>1, <3>1 DEF FlagsOn
    <3>3. FlagsOn(u, s)
      <4>1. u.default[s] \subseteq u.initialized /\ (u.swizzled[s] => u.default[s] = {})
        BY <1>1, <1>4, <3>1 DEF FlagsOn
      <4>2. \A c \in u.default[s] : c # NSObject => u.super[c] \in u.default[s]
        BY <1>1, <1>4, <3>1, <3>2 DEF FlagsOn, Parting
      <4>3. \A c \in u.default[s] : \A l \in ToSet(u.lists[c][s]) : HasFast(l, s) => l.owner = NSObject
        BY <1>2, <3>1, <3>2 DEF FlagsOn
      <4> QED
        BY <4>1, <4>2, <4>3 DEF FlagsOn
    <3>4. ReplacedOn(u, h, s)
      BY <1>1, <1>4, <3>1 DEF ReplacedOn, Parting
    <3> QED
      BY <3>3, <3>4
  <2> QED
    BY <1>1, <2>1, <2>2 DEF Agreed
<1>6. Raw(u, u.realized)
  BY <1>1 DEF Methodical, Raw
<1>7. Arranged(u, E)
  <2> SUFFICES ASSUME NEW c \in ImageClasses, NEW s \in Sides
               PROVE  IF c \in u.realized THEN Ready(E[s], u.lists[c][s], u.unattached[c][s], c, s)
                      ELSE Waits(E[s], u.lists[c][s], u.unattached[c][s], s)
    BY DEF Arranged
  <2>1. CASE c \in cs
    <3>1. E[s] \in Seq(Categories)
      BY FoundType DEF Methodical
    <3>2. Waits(E[s], <<>>, <<>>, s)
      <4>1. CategoriesIn(<<>>) = <<>> /\ ToSet(<<>>) = {}
        BY NoneIn DEF ToSet
      <4> QED
        BY <3>1, <4>1, InOrderNone DEF Waits
    <3> QED
      BY <1>1, <1>3, <2>1, <3>2
  <2>2. CASE c \notin cs
    <3>1. IF c \in t.realized THEN Ready(E[s], t.lists[c][s], t.unattached[c][s], c, s)
          ELSE Waits(E[s], t.lists[c][s], t.unattached[c][s], s)
      BY DEF Methodical, Arranged
    <3> QED
      BY <1>1, <1>2, <2>2, <3>1 DEF Classes
  <2> QED
    BY <2>1, <2>2
<1>8. NoneMissing(u, E, h)
  <2> SUFFICES ASSUME NEW s \in Sides, NEW k \in ToSet(E[s]),
                      ImageOf(k) \notin h, Target[k] \notin t.ignored, Defines[k][s] # {}
               PROVE  Has(u, k, s)
    BY <1>1 DEF NoneMissing
  <2>1. Has(t, k, s)
    BY DEF Methodical, NoneMissing, Parting
  <2>2. Target[k] \in Classes \ cs
    <3>1. Target[k] \in Classes
      BY FoundType DEF Methodical, Classes
    <3> QED
      BY <3>1 DEF Parting
  <2> QED
    BY <1>2, <2>1, <2>2 DEF Has
<1> QED
  BY <1>5, <1>6, <1>7, <1>8 DEF Methodical

\* Categories that wait are taken off.
LEMMA RemoveMethodical ==
  ASSUME NEW t \in RT, NEW E, NEW g, Methodical(t, E, g), NEW cats, NEW h, g \subseteq h,
         \A k \in cats : ImageOf(k) \in h, NEW u, u = RemoveUnattached(t, cats)
  PROVE  Methodical(u, E, h)
<1>1. PICK L : L = [c \in Classes |-> IF c \in t.ignored THEN t.unattached[c]
                                      ELSE [s \in Sides |-> IF s = "meta" THEN t.unattached[c][s]
                                               ELSE Only(t.unattached[c][s], Categories \ cats)]]
  OBVIOUS
<1>2. u = [t EXCEPT !.unattached = L]
  BY <1>1 DEF RemoveUnattached
<1>3. /\ u.default = t.default /\ u.lists = t.lists /\ u.unattached = L /\ u.rawIsa = t.rawIsa
      /\ u.initialized = t.initialized /\ u.swizzled = t.swizzled /\ u.replaced = t.replaced
      /\ u.super = t.super /\ u.realized = t.realized /\ u.ignored = t.ignored
  BY <1>2 DEF RT, TableTypes
<1>4. ASSUME NEW c \in Classes, NEW s \in Sides
      PROVE  L[c][s] = t.unattached[c][s] \/ L[c][s] = Only(t.unattached[c][s], Categories \ cats)
  <2>1. CASE c \in t.ignored
    BY <1>1, <2>1
  <2>2. CASE c \notin t.ignored
    <3>1. L[c] = [x \in Sides |-> IF x = "meta" THEN t.unattached[c][x]
                                  ELSE Only(t.unattached[c][x], Categories \ cats)]
      BY <1>1, <2>2
    <3> QED
      BY <3>1
  <2> QED
    BY <2>1, <2>2
<1>5. t.unattached \in [Classes -> [Sides -> Seq(Categories)]]
  BY Fields
<1>6. Agreed(u, h)
  <2>1. ASSUME NEW s \in Sides
        PROVE  FlagsOn(u, s) /\ ReplacedOn(u, h, s)
    BY <1>3 DEF Methodical, Agreed, FlagsOn, ReplacedOn
  <2> QED
    BY <1>3, <2>1 DEF Methodical, Agreed
<1>7. Raw(u, u.realized)
  BY <1>3 DEF Methodical, Raw
<1>8. Arranged(u, E)
  <2> SUFFICES ASSUME NEW c \in ImageClasses, NEW s \in Sides
               PROVE  IF c \in t.realized THEN Ready(E[s], t.lists[c][s], L[c][s], c, s)
                      ELSE Waits(E[s], t.lists[c][s], L[c][s], s)
    BY <1>3 DEF Arranged
  <2>1. PICK w, F : w \in Seq(Categories) /\ w = t.unattached[c][s] /\ F = E[s]
    BY <1>5 DEF Classes
  <2>2. IF c \in t.realized THEN Ready(F, t.lists[c][s], w, c, s) ELSE Waits(F, t.lists[c][s], w, s)
    BY <2>1 DEF Methodical, Arranged
  <2>3. PICK o : o = Only(w, Categories \ cats)
    OBVIOUS
  <2>4. o \in Seq(Categories) /\ ToSet(o) = ToSet(w) \cap (Categories \ cats)
    BY <2>1, <2>3, OnlyMembers
  <2>5. L[c][s] = w \/ L[c][s] = o
    BY <1>4, <2>1, <2>3 DEF Classes
  <2>6. CASE c \in t.realized
    <3>1. Ready(F, t.lists[c][s], w, c, s) /\ w = <<>>
      BY <2>2, <2>6 DEF Ready
    <3>2. ToSet(w) = {}
      BY <3>1 DEF ToSet
    <3>3. o = w
      BY <2>4, <3>1, <3>2, NoMember
    <3> QED
      BY <2>1, <2>5, <2>6, <3>1, <3>3
  <2>7. CASE c \notin t.realized
    <3>1. Waits(F, t.lists[c][s], w, s)
      BY <2>2, <2>7
    <3>2. t.lists[c][s] = <<>> /\ CategoriesIn(<<>>) = <<>>
      BY <3>1, NoneIn DEF Waits
    <3>3. InOrder(F, <<>>, w)
      BY <3>1, <3>2 DEF Waits
    <3>4. InOrder(F, <<>>, o)
      BY <2>3, <3>3, InOrderLess
    <3>5. Waits(F, t.lists[c][s], o, s)
      BY <2>4, <3>1, <3>2, <3>4 DEF Waits
    <3> QED
      BY <2>1, <2>5, <2>7, <3>1, <3>5
  <2> QED
    BY <2>6, <2>7
<1>9. NoneMissing(u, E, h)
  <2> SUFFICES ASSUME NEW s \in Sides, NEW k \in ToSet(E[s]),
                      ImageOf(k) \notin h, Target[k] \notin t.ignored, Defines[k][s] # {}
               PROVE  Has(u, k, s)
    BY <1>3 DEF NoneMissing
  <2>1. Has(t, k, s)
    BY DEF Methodical, NoneMissing
  <2>2. k \in Categories \ cats /\ Target[k] \in Classes
    BY FoundType DEF Methodical, Classes
  <2>3. PICK w \in Seq(Categories) : w = t.unattached[Target[k]][s]
    BY <1>5, <2>2
  <2>4. k \in ToSet(w) => k \in ToSet(L[Target[k]][s])
    <3>1. k \in ToSet(w) => k \in ToSet(Only(w, Categories \ cats))
      BY <2>2, OnlyMembers
    <3> QED
      BY <1>4, <2>2, <2>3, <3>1
  <2> QED
    BY <1>3, <2>1, <2>3, <2>4 DEF Has
<1> QED
  BY <1>6, <1>7, <1>8, <1>9 DEF Methodical

\* objc_disposeClassPair
LEMMA DisposeMethodical ==
  ASSUME NEW t \in RT, Laid(t), NEW E, NEW g, Methodical(t, E, g), NEW c \in RuntimeClasses, t.subclasses[c] = {},
         \A s \in Sides : \A k \in ToSet(E[s]) : Target[k] # c, NEW u, Disposed(u, t, c)
  PROVE  Methodical(u, E, g)
<1>1. c \in Classes /\ c # NSObject /\ c # NoClass
  BY ClassesAssumption DEF Classes
<1>2. PICK f : f = Free(t, {c})
  OBVIOUS
<1>3. \A d \in t.realized : t.super[d] # c
  BY <1>1 DEF Laid
<1>4. Parting(t, E, g, {c}, g)
  BY <1>1, <1>3 DEF Parting
<1>5. Methodical(f, E, g)
  BY <1>1, <1>2, <1>4, FreeMethodical
<1>6. f \in RT /\ f.realized = t.realized \ {c} /\ f.super = t.super
  BY <1>1, <1>2, FreeIs
<1>7. u = [f EXCEPT !.super[c] = NoClass, !.layout[c] = NoLayout]
  BY <1>2 DEF Disposed
<1>8. /\ u.lists = f.lists /\ u.unattached = f.unattached /\ u.default = f.default
      /\ u.swizzled = f.swizzled /\ u.replaced = f.replaced
      /\ u.initialized = f.initialized /\ u.realized = f.realized /\ u.rawIsa = f.rawIsa
      /\ u.ignored = f.ignored /\ u.super = [f.super EXCEPT ![c] = NoClass]
  BY <1>6, <1>7 DEF RT, TableTypes
<1>9. \A d \in f.realized : u.super[d] = f.super[d]
  <2>1. f.super \in [Classes -> Classes \cup {NoClass}] /\ f.realized \in SUBSET Classes
    BY <1>6, Fields
  <2> QED
    BY <1>6, <1>8, <2>1
<1>10. SameMethods(f, u)
  BY <1>8, <1>9 DEF SameMethods
<1> QED
  BY <1>5, <1>6, <1>10, SameMethodical

\* No image has been read.
LEMMA NoTablesMethodical ==
  ASSUME NEW debug \in DebugIvars, NEW size \in RootSizes, NEW t, t = NoTables(debug, size)
  PROVE  Methodical(t, Both(<<>>), {})
<1>1. /\ t.realized = {} /\ t.initialized = {} /\ t.lists = NoLists /\ t.unattached = NoLists
      /\ t.default = [s \in Sides |-> {}] /\ t.swizzled = [s \in Sides |-> FALSE]
      /\ t.replaced = [s \in Sides |-> FALSE]
  BY DEF NoTables
<1>2. PICK F : F = Both(<<>>)
  OBVIOUS
<1>3. ToSet(<<>>) = {} /\ \A s \in Sides : F[s] = <<>>
  BY <1>2 DEF Both, ToSet
<1>4. Agreed(t, {})
  BY <1>1 DEF Agreed, FlagsOn, ReplacedOn
<1>5. Raw(t, t.realized)
  BY <1>1 DEF Raw
<1>6. Arranged(t, F)
  <2>1. \A c \in ImageClasses, s \in Sides : t.lists[c][s] = <<>> /\ t.unattached[c][s] = <<>>
    BY <1>1 DEF NoLists, Classes
  <2>2. \A s \in Sides : Waits(<<>>, <<>>, <<>>, s)
    <3>1. <<>> \in Seq(Categories)
      OBVIOUS
    <3> QED
      BY <1>3, <3>1, InOrderNone, NoneIn DEF Waits
  <2> QED
    BY <1>1, <1>3, <2>1, <2>2 DEF Arranged
<1>7. NoneMissing(t, F, {})
  BY <1>3 DEF NoneMissing
<1> QED
  BY <1>2, <1>4, <1>5, <1>6, <1>7 DEF Methodical

-----------------------------------------------------------------------------
(* Methods and flags, as images come and go                                  *)

\* A class that is named or realized is of a mapped image, and not ignored.
Opened(t, m) == \A c \in (t.realized \cup t.named) \cap ImageClasses : c \in Open(t, m)

\* A category was found once, in an image that is or was mapped.
FoundFine(F, m, g) ==
    F \in Seq(Categories) /\ IsInjective(F) /\ \A k \in ToSet(F) : ImageOf(k) \in m \cup g

\* The inductive invariant
MethodsFine(t, F, m, g) == Methodical(t, Both(F), g) /\ Opened(t, m) /\ FoundFine(F, m, g)

\* of the loader, next to LoaderInv
MethodsInv == MethodsFine(rt, found, mapped, gone)

\* Tables of which this holds while classes of these images are realized
Growing(t, E, g, m) == {u \in RT : Methodical(u, E, g) /\ Opened(u, m)}

\* stay such.
LEMMA GrowingKeeps ==
  ASSUME NEW t, TablesSound(t), NEW m, NEW s, NEW h, ImagesFine(t, m, s, h),
         NEW E, NEW g, Methodical(t, E, g), Opened(t, m)
  PROVE  RealizingKeeps(t, Open(t, m), Growing(t, E, g, m))
<1>1. t \in RT /\ t \in Growing(t, E, g, m)
  BY DEF TablesSound, Growing
<1>2. /\ Open(t, m) \in SUBSET ImageClasses
      /\ \A c \in Open(t, m) : t.super[c] \in Open(t, m) \cup {NoClass}
  BY OpenUp
<1>3. ASSUME NEW u \in RT, NEW c \in Open(t, m), u \in Growing(t, E, g, m), Grown(t, u), Laid(u),
             c \notin u.realized, u.super[c] \in u.realized \cup {NoClass}
      PROVE  RealizeOne(u, c) \in Growing(t, E, g, m)
  <2>1. PICK y : y = RealizeOne(u, c)
    OBVIOUS
  <2>2. c \in ImageClasses /\ Methodical(u, E, g) /\ Opened(u, m)
    BY <1>2, <1>3 DEF Growing
  <2>3. y \in RT /\ Grown(u, y) /\ y.realized = u.realized \cup {c}
    BY <1>3, <2>1, <2>2, RealizeOneLays
  <2>4. Methodical(y, E, g)
    BY <1>3, <2>1, <2>2, RealizeOneMethodical
  <2>5. y.named = u.named /\ y.ignored = u.ignored /\ u.ignored = t.ignored
    BY <1>3, <2>3 DEF Grown
  <2>6. Open(y, m) = Open(t, m) /\ Open(u, m) = Open(t, m)
    BY <2>5 DEF Open
  <2>7. Opened(y, m)
    BY <1>3, <2>2, <2>3, <2>5, <2>6 DEF Opened
  <2> QED
    BY <2>1, <2>3, <2>4, <2>7 DEF Growing
<1> QED
  BY <1>1, <1>2, <1>3 DEF RealizingKeeps

\* A class of a mapped image is realized.
LEMMA RealizeMethodical ==
  ASSUME NEW t, TablesSound(t), NEW m, NEW s, NEW h, ImagesFine(t, m, s, h),
         NEW E, NEW g, Methodical(t, E, g), Opened(t, m), NEW c \in Open(t, m), NEW u, u = Realize(t, c)
  PROVE  u \in RT /\ Grown(t, u) /\ Laid(u) /\ Methodical(u, E, g) /\ Opened(u, m)
<1>1. RealizingKeeps(t, Open(t, m), Growing(t, E, g, m))
  BY GrowingKeeps
<1>2. PICK G, W : G = Open(t, m) /\ W = Growing(t, E, g, m) /\ RealizingKeeps(t, G, W) /\ c \in G \cup t.realized
  BY <1>1
<1>3. t \in RT /\ Laid(t) /\ Bound(t)
  BY DEF TablesSound
<1>4. u \in RT /\ Grown(t, u) /\ Laid(u) /\ u \in W
  BY <1>2, <1>3, RealizeKeeps
<1> QED
  BY <1>2, <1>4 DEF Growing

\* Classes of mapped images are realized.
LEMMA RealizeAllMethodical ==
  ASSUME NEW t, TablesSound(t), NEW m, NEW s, NEW h, ImagesFine(t, m, s, h),
         NEW E, NEW g, Methodical(t, E, g), Opened(t, m),
         NEW X, NEW classes \in Seq(X), NEW set, X \cap set \subseteq Open(t, m) \cup t.realized,
         NEW u, u = RealizeAll(t, classes, set)
  PROVE  u \in RT /\ Grown(t, u) /\ Laid(u) /\ Methodical(u, E, g) /\ Opened(u, m)
<1>1. RealizingKeeps(t, Open(t, m), Growing(t, E, g, m))
  BY GrowingKeeps
<1>2. PICK G, W : G = Open(t, m) /\ W = Growing(t, E, g, m) /\ RealizingKeeps(t, G, W)
                  /\ X \cap set \subseteq G \cup t.realized
  BY <1>1
<1>3. t \in RT /\ Laid(t) /\ Bound(t)
  BY DEF TablesSound
<1>4. u \in RT /\ Grown(t, u) /\ Laid(u) /\ u \in W
  BY <1>2, <1>3, RealizeAllKeep
<1> QED
  BY <1>2, <1>4 DEF Growing

\* Nothing that matters to Opened changes, or classes are named that are the program's.
LEMMA OpenedStill ==
  ASSUME NEW t, NEW m, Opened(t, m), NEW u, u.ignored = t.ignored,
         \A c \in ImageClasses : c \in u.realized \cup u.named => c \in t.realized \cup t.named
  PROVE  Opened(u, m)
<1>1. Open(u, m) = Open(t, m)
  BY DEF Open
<1> QED
  BY <1>1 DEF Opened

-----------------------------------------------------------------------------
(* Methods and flags: the actions of the loader                             *)

\* Threads change methods and flags
LEMMA ThreadsKeepMethods ==
  ASSUME LoaderInv, MethodsInv, Threads
  PROVE  MethodsInv'
<1>1. PICK t, u, E, m, s, g : t = rt /\ u = rt' /\ E = Both(found) /\ m = mapped /\ s = scheduled /\ g = gone
  OBVIOUS
<1>2. /\ TablesSound(t) /\ t \in RT /\ Laid(t) /\ Bound(t) /\ Ends(t) /\ Tidy(t) /\ ImagesFine(t, m, s, g)
      /\ Methodical(t, E, g) /\ Opened(t, m) /\ FoundFine(found, m, g)
  BY <1>1 DEF LoaderInv, MethodsInv, MethodsFine, Pending, TablesSound
<1> DEFINE Still == mapped' = mapped /\ gone' = gone /\ found' = found
           Goal == Still /\ Methodical(u, E, g) /\ Opened(u, m)
<1>3. SUFFICES Goal
  <2>1. ASSUME Goal PROVE MethodsFine(u, found, m, g)
    BY <1>1, <1>2, <2>1 DEF MethodsFine
  <2> QED
    BY <1>1, <2>1 DEF MethodsInv
<1>4. \A v : Tables(v) => u = v /\ Still
  BY <1>1 DEF Tables, images
<1>5. \A c \in ImageClasses : c \notin RuntimeClasses /\ c \in Classes
  BY ClassesAssumption DEF Classes
<1>6. \A c \in Open(t, m) : ImageOf(c) \in m /\ c \in ImageClasses
  BY <1>2, OpenUp
<1>7. ASSUME NEW c \in Classes, LookUp(c)
      PROVE  Goal
  <2>1. c \in t.named \ t.realized /\ u = Realize(t, c) /\ Still
    BY <1>1, <1>4, <1>7 DEF LookUp
  <2>2. c \in Open(t, m)
    BY <1>2, <2>1 DEF Tidy, Classes, Opened
  <2>3. Methodical(u, E, g) /\ Opened(u, m)
    BY <1>2, <2>1, <2>2, RealizeMethodical
  <2> QED
    BY <2>1, <2>3
<1>8. ASSUME NEW v, v \in RT, SameCore(t, v)
      PROVE  Opened(v, m)
  <2>1. v.ignored = t.ignored /\ v.realized = t.realized /\ v.named = t.named
    BY <1>8 DEF SameCore
  <2> QED
    BY <1>2, <2>1, OpenedStill
<1>9. ASSUME NEW c \in Classes, Initialize(c)
      PROVE  Goal
  <2>1. u = SetInitialized(t, c) /\ Still /\ c \in t.realized /\ c \notin t.initialized
    BY <1>1, <1>4, <1>9 DEF Initialize
  <2>2. ASSUME c = NSObject
        PROVE  ImageOf(NSObject) \notin g
    <3>1. c \in ImageClasses
      BY <2>2, ClassesAssumption
    <3>2. c \in Open(t, m)
      BY <1>2, <2>1, <3>1 DEF Opened
    <3> QED
      BY <1>2, <1>6, <2>2, <3>2 DEF ImagesFine
  <2>3. Methodical(u, E, g)
    BY <1>2, <2>1, <2>2, SetInitializedMethodical
  <2>4. u \in RT /\ SameCore(t, u)
    BY <1>2, <2>1, SetInitializedSame
  <2> QED
    BY <1>8, <2>1, <2>3, <2>4
<1>10. ASSUME NEW c \in Classes, NEW x \in Sides, ClassAddMethod(c, x)
       PROVE  Goal
  <2>1. u = AddMethod(t, c, x, FastMethod[x]) /\ Still /\ c \in t.realized
    BY <1>1, <1>4, <1>10 DEF ClassAddMethod
  <2>2. FastMethod[x] \in Sels
    BY DEF FastMethod, Sides, Sels
  <2>3. Methodical(u, E, g)
    BY <1>2, <2>1, <2>2, AddMethodMethodical
  <2>4. u \in RT /\ SameCore(t, u)
    BY <1>2, <2>1, <2>2, AddMethodSame
  <2> QED
    BY <1>8, <2>1, <2>3, <2>4
<1>11. ASSUME NEW c \in Futures, GetFutureClass(c)
       PROVE  Goal
  <2>1. u = [t EXCEPT !.future = @ \cup {c}] /\ Still
    BY <1>1, <1>4, <1>11 DEF GetFutureClass
  <2>2. SameMethods(t, u) /\ u.ignored = t.ignored /\ u.realized = t.realized /\ u.named = t.named
    BY <1>2, <2>1 DEF SameMethods, RT, TableTypes
  <2>3. Methodical(u, E, g)
    BY <1>2, <2>2, SameMethodical
  <2> QED
    BY <1>2, <2>1, <2>2, <2>3, OpenedStill
<1>12. ASSUME NEW x \in Sides, ReplaceDefault(x)
       PROVE  Goal
  <2>1. u = SetImplementation(t, x) /\ Still
    BY <1>1, <1>4, <1>12 DEF ReplaceDefault
  <2>2. Methodical(u, E, g)
    BY <1>2, <2>1, SetImplementationMethodical
  <2>3. u \in RT /\ SameCore(t, u)
    BY <1>2, <2>1, SetImplementationSame
  <2> QED
    BY <1>8, <2>1, <2>2, <2>3
<1>13. ASSUME NEW c \in RuntimeClasses, Register(c)
       PROVE  Goal
  <2>1. u = RegisterClassPair(t, c) /\ Still
    BY <1>1, <1>4, <1>13 DEF Register
  <2>2. u = [t EXCEPT !.constructing = @ \ {c}, !.named = @ \cup {c}]
    BY <2>1 DEF RegisterClassPair
  <2>3. SameMethods(t, u) /\ u.ignored = t.ignored /\ u.realized = t.realized /\ u.named = t.named \cup {c}
    BY <1>2, <2>2 DEF SameMethods, RT, TableTypes
  <2>4. Methodical(u, E, g)
    BY <1>2, <2>3, SameMethodical
  <2> QED
    BY <1>2, <1>5, <2>1, <2>3, <2>4, OpenedStill
<1>14. ASSUME NEW c \in RuntimeClasses, Dispose(c)
       PROVE  Goal
  <2>1. t.subclasses[c] = {} /\ Disposed(u, t, c) /\ Still
    BY <1>1, <1>4, <1>14 DEF Dispose, Disposed
  <2>2. \A x \in Sides : \A k \in ToSet(E[x]) : Target[k] # c
    <3>1. Arranged(t, E)
      BY <1>2 DEF Methodical
    <3> QED
      BY <1>5, <3>1, FoundType
  <2>3. Methodical(u, E, g)
    BY <1>2, <2>1, <2>2, DisposeMethodical
  <2>4. c \in Classes /\ {c} \in SUBSET Classes
    BY DEF Classes
  <2>5. u.ignored = t.ignored /\ u.realized = t.realized \ {c} /\ u.named = t.named \ {c}
    <3>1. PICK w : w = Free(t, {c})
      OBVIOUS
    <3>2. w.ignored = t.ignored /\ w.realized = t.realized \ {c} /\ w.named = t.named \ {c} /\ w \in RT
      BY <1>2, <2>4, <3>1, FreeIs
    <3>3. u = [w EXCEPT !.super[c] = NoClass, !.layout[c] = NoLayout]
      BY <2>1, <3>1 DEF Disposed
    <3> QED
      BY <3>2, <3>3 DEF RT, TableTypes
  <2> QED
    BY <1>2, <2>1, <2>3, <2>5, OpenedStill
<1>15. ASSUME NEW c \in RuntimeClasses, NEW super \in Classes \cup {NoClass}, NewClass(c, super)
       PROVE  Goal
  <2>1. /\ c \notin t.realized /\ super \in t.realized \cup {NoClass}
        /\ u = AllocateClassPair(t, c, super) /\ Still
    BY <1>1, <1>4, <1>15 DEF NewClass
  <2>2. /\ Methodical(u, E, g)
        /\ u.ignored = t.ignored /\ u.realized = t.realized \cup {c} /\ u.named = t.named
    <3>1. CASE super = NoClass
      <4>1. t.super[c] = NoClass
        BY <1>2, <2>1 DEF Tidy
      <4> QED
        BY <1>2, <2>1, <3>1, <4>1, AllocateRootMethodical
    <3>2. CASE super \in t.realized
      BY <1>2, <2>1, <3>2, AllocateClassPairMethodical
    <3> QED
      BY <2>1, <3>1, <3>2
  <2> QED
    BY <1>2, <1>5, <2>1, <2>2, OpenedStill
<1>16. ASSUME NEW c \in RuntimeClasses, NEW ivar \in Ivars, NewIvar(c, ivar)
       PROVE  Goal
  <2>1. u = AddIvar(t, c, ivar[1], ivar[2]) /\ Still
    BY <1>1, <1>4, <1>16 DEF NewIvar
  <2>2. u = [t EXCEPT !.layout[c] = WithIvar(@, ivar[1], ivar[2])]
    BY <2>1 DEF AddIvar
  <2>3. SameMethods(t, u) /\ u.ignored = t.ignored /\ u.realized = t.realized /\ u.named = t.named
    BY <1>2, <2>2 DEF SameMethods, RT, TableTypes
  <2>4. Methodical(u, E, g)
    BY <1>2, <2>3, SameMethodical
  <2> QED
    BY <1>2, <2>1, <2>3, <2>4, OpenedStill
<1> HIDE DEF Goal
<1> QED
  BY <1>7, <1>9, <1>10, <1>11, <1>12, <1>13, <1>14, <1>15, <1>16 DEF Threads

\* Images list a category once.
LEMMA ListedDistinct ==
  ASSUME NEW new \in SUBSET Images
  PROVE  IsInjective(Listed(CategoryList, new))
<1>1. PICK N \in Nat : /\ N = Len(ImageOrder) /\ DOMAIN ImageOrder = 1 .. N
                       /\ \A n \in 1 .. N : ImageOrder[n] \in Images
                       /\ \A i, j \in 1 .. N : ImageOrder[i] = ImageOrder[j] => i = j
  <2>1. ImageOrder \in Seq(Images) /\ IsInjective(ImageOrder)
    BY ImagesAssumption
  <2> QED
    BY <2>1, SeqMembers, ElementOfSeq
<1>2. PICK s : s = [n \in 1 .. N |-> IF ImageOrder[n] \in new THEN CategoryList[ImageOrder[n]] ELSE <<>>]
  OBVIOUS
<1>3. ASSUME NEW n \in 1 .. N
      PROVE  /\ s[n] \in Seq(Categories) /\ IsInjective(s[n])
             /\ \A k \in ToSet(s[n]) : k \in Categories /\ ImageOf(k) = ImageOrder[n]
  <2>1. CASE ImageOrder[n] \in new
    <3>1. PICK i \in Images : i = ImageOrder[n] /\ s[n] = CategoryList[i]
      BY <1>1, <1>2, <2>1
    <3>2. CategoryList[i] \in Seq(Categories) /\ IsInjective(CategoryList[i])
      BY ImagesAssumption
    <3>3. \A k \in CategoriesOf(i) : k \in Categories /\ ImageOf(k) = i
      BY ImageIs
    <3> QED
      BY <3>1, <3>2, <3>3 DEF CategoriesOf
  <2>2. CASE ImageOrder[n] \notin new
    <3>1. <<>> \in Seq(Categories) /\ ToSet(<<>>) = {} /\ IsInjective(<<>>)
      BY DEF ToSet, IsInjective
    <3>2. s[n] = <<>>
      BY <1>2, <2>2
    <3> QED
      BY <3>1, <3>2
  <2> QED
    BY <2>1, <2>2
<1>4. s \in Seq(Seq(Categories)) /\ Len(s) = N
  BY <1>2, <1>3
<1>5. \A i, j \in 1 .. N : i # j => ToSet(s[i]) \cap ToSet(s[j]) = {}
  <2> SUFFICES ASSUME NEW i \in 1 .. N, NEW j \in 1 .. N, NEW k, k \in ToSet(s[i]), k \in ToSet(s[j])
               PROVE  i = j
    OBVIOUS
  <2>1. ImageOf(k) = ImageOrder[i] /\ ImageOf(k) = ImageOrder[j]
    BY <1>3
  <2> QED
    BY <1>1, <2>1
<1>6. Listed(CategoryList, new) = FlattenSeq(s)
  BY <1>1, <1>2 DEF Listed
<1> QED
  BY <1>3, <1>4, <1>5, <1>6, FlattenDistinct

\* readClass
LEMMA ReadClassesMethodical ==
  ASSUME NEW t, TablesSound(t), NEW m, NEW s, NEW g, ImagesFine(t, m, s, g),
         NEW E, Methodical(t, E, g), Opened(t, m), NEW cs \in SUBSET ImageClasses, NEW n, m \subseteq n,
         \A c \in cs : ImageOf(c) \in n \ m, NEW u, u = ReadClasses(t, cs), ImagesFine(u, n, s, g)
  PROVE  Methodical(u, E, g) /\ Opened(u, n)
<1>1. t \in RT /\ Bound(t) /\ Ends(t) /\ Tidy(t) /\ TablesSound(u)
  BY ReadClassesSound DEF TablesSound
<1>2. PICK missing : missing = {c \in cs : MissingWeakSuperclass(t, c)}
  OBVIOUS
<1>3. u = [t EXCEPT !.ignored = @ \cup missing,
                    !.super = [c \in Classes |-> IF c \in missing THEN NoClass ELSE t.super[c]],
                    !.named = @ \cup (cs \ missing)]
  BY <1>2 DEF ReadClasses
<1>4. PICK p : p = [c \in Classes |-> IF c \in missing THEN NoClass ELSE t.super[c]]
  OBVIOUS
<1>5. /\ u.lists = t.lists /\ u.unattached = t.unattached /\ u.default = t.default
      /\ u.swizzled = t.swizzled /\ u.replaced = t.replaced
      /\ u.initialized = t.initialized /\ u.realized = t.realized /\ u.rawIsa = t.rawIsa
      /\ u.super = p /\ u.ignored = t.ignored \cup missing /\ u.named = t.named \cup (cs \ missing)
  BY <1>1, <1>3, <1>4 DEF RT, TableTypes
<1>6. /\ \A c \in ImageClasses : c \in Open(t, m) <=> ImageOf(c) \in m /\ c \notin t.ignored
      /\ \A c \in ImageClasses : c \in Open(u, n) <=> ImageOf(c) \in n /\ c \notin u.ignored
  BY <1>1, OpenUp
<1>7. t.realized \subseteq Classes /\ ImageClasses \subseteq Classes
  BY <1>1, Fields DEF Classes
<1>8. \A c \in (t.realized \cup t.named) \cap ImageClasses :
        ImageOf(c) \in m /\ c \notin t.ignored /\ c \notin missing
  BY <1>2, <1>6 DEF Opened
<1>9. SameMethods(t, u)
  <2>1. \A c \in t.realized : u.super[c] = t.super[c]
    BY <1>2, <1>4, <1>5, <1>7, <1>8
  <2> QED
    BY <1>5, <2>1 DEF SameMethods
<1>10. Methodical(u, E, g)
  BY <1>1, <1>9, SameMethodical
<1>11. \A c \in cs \ missing : c \notin t.ignored
  <2>1. \A c \in Classes : c \in Lineage(t, c)
    BY <1>1, LineageIs
  <2> QED
    BY <1>2, <1>7, <2>1 DEF MissingWeakSuperclass
<1>12. Opened(u, n)
  <2> SUFFICES ASSUME NEW c \in (u.realized \cup u.named) \cap ImageClasses
               PROVE  c \in Open(u, n)
    BY DEF Opened
  <2>1. CASE c \in t.realized \cup t.named
    BY <1>5, <1>6, <1>8, <2>1
  <2>2. CASE c \in cs \ missing
    BY <1>5, <1>6, <1>11, <2>2
  <2> QED
    BY <1>5, <2>1, <2>2
<1> QED
  BY <1>10, <1>12

\* _read_images
LEMMA ReadImagesMethodical ==
  ASSUME NEW t, TablesSound(t), NEW m, NEW s, NEW g, ImagesFine(t, m, s, g),
         NEW F \in Seq(Categories), Methodical(t, Both(F), g), Opened(t, m),
         NEW classes \in Seq(ImageClasses), NEW n, m \subseteq n, \A c \in ToSet(classes) : ImageOf(c) \in n \ m,
         NEW cats \in Seq(Categories), IsInjective(cats), ToSet(cats) \cap ToSet(F) = {},
         NEW u, u = ReadImages(t, classes, cats), ImagesFine(u, n, s, g)
  PROVE  Methodical(u, Both(F \o cats), g) /\ Opened(u, n)
<1>1. PICK read : read = ReadClasses(t, ToSet(classes))
  OBVIOUS
<1>2. ToSet(classes) \in SUBSET ImageClasses /\ \A i \in 1 .. Len(classes) : classes[i] \in ImageClasses
  BY SeqMembers, ElementOfSeq
<1>3. /\ TablesSound(read)
      /\ read.ignored = t.ignored \cup {c \in ToSet(classes) : MissingWeakSuperclass(t, c)}
      /\ \A c \in Classes : read.super[c] = IF c \in ToSet(classes) /\ MissingWeakSuperclass(t, c)
                                            THEN NoClass ELSE t.super[c]
  BY <1>1, <1>2, ReadClassesSound
<1>4. /\ TablesSound(u) /\ u.ignored = read.ignored
      /\ \A c \in Classes : u.super[c] = read.super[c]
  BY <1>3, ReadImagesSound
<1>5. \A v : v.ignored = u.ignored /\ (\A c \in Classes : u.super[c] = v.super[c]) => ImagesFine(v, n, s, g)
  <2> SUFFICES ASSUME NEW v, v.ignored = u.ignored, \A c \in Classes : u.super[c] = v.super[c]
               PROVE  ImagesFine(v, n, s, g)
    OBVIOUS
  <2>1. Open(v, n) = Open(u, n)
    BY DEF Open
  <2>2. Open(u, n) \subseteq Classes
    BY <1>4, OpenUp DEF Classes
  <2> QED
    BY <2>1, <2>2 DEF ImagesFine
<1> DEFINE Fine(v, E) == /\ TablesSound(v) /\ v.ignored = read.ignored /\ v.super = read.super
                         /\ Methodical(v, E, g) /\ Opened(v, n)
           A == Both(F)
           B == Both(F \o cats)
<1>6. \A v, E : Fine(v, E) => v \in RT /\ Laid(v) /\ ImagesFine(v, n, s, g)
  BY <1>4, <1>5 DEF TablesSound
<1>7. Fine(read, A)
  <2>1. ImagesFine(read, n, s, g)
    BY <1>4, <1>5
  <2>2. Methodical(read, A, g) /\ Opened(read, n)
    BY <1>1, <1>2, <2>1, ReadClassesMethodical
  <2> QED
    BY <1>3, <2>2
<1>8. \A c \in ImageClasses : c \in Open(read, n) <=> ImageOf(c) \in n /\ c \notin read.ignored
  BY <1>6, <1>7, OpenUp
<1>9. ASSUME NEW v, NEW E, Fine(v, E), NEW X, NEW list \in Seq(X), NEW set,
             X \cap set \subseteq Open(read, n) \cup v.realized
      PROVE  Fine(RealizeAll(v, list, set), E)
  <2>1. PICK w : w = RealizeAll(v, list, set)
    OBVIOUS
  <2>2. Open(v, n) = Open(read, n)
    BY <1>9 DEF Open
  <2>3. w \in RT /\ Grown(v, w) /\ Laid(w) /\ Methodical(w, E, g) /\ Opened(w, n)
    BY <1>6, <1>9, <2>1, <2>2, RealizeAllMethodical
  <2>4. TablesSound(w)
    BY <1>9, <2>3, GrownSound
  <2>5. w.ignored = v.ignored /\ w.super = v.super
    BY <2>3 DEF Grown
  <2> QED
    BY <1>9, <2>1, <2>3, <2>4, <2>5
<1>10. ASSUME NEW v, NEW E, Fine(v, E), NEW w, NEW C, w \in RT, SameCore(v, w), Methodical(w, C, g)
       PROVE  Fine(w, C)
  <2>1. TablesSound(w)
    BY <1>10, SameSound
  <2>2. w.ignored = v.ignored /\ w.super = v.super /\ w.realized = v.realized /\ w.named = v.named
    BY <1>10, Zenon DEF SameCore
  <2>3. Opened(w, n)
    BY <1>10, <2>2, OpenedStill
  <2> QED
    BY <1>10, <2>1, <2>2, <2>3
<1>11. PICK futures : futures = (t.future \cap ToSet(classes)) \ read.ignored
  OBVIOUS
<1>12. \A set : ToSet(classes) \cap set \cap read.ignored = {} => ToSet(classes) \cap set \subseteq Open(read, n)
  BY <1>2, <1>8
<1>13. classes \in Seq(ToSet(classes))
  BY <1>2, SeqMembers
<1>14. PICK eager : eager = RealizeAll(read, classes, HasLoad \ read.ignored)
  OBVIOUS
<1>15. Fine(eager, A)
  <2>1. ToSet(classes) \cap (HasLoad \ read.ignored) \subseteq Open(read, n) \cup read.realized
    BY <1>12
  <2> HIDE DEF Fine, A
  <2> QED
    BY <1>7, <1>9, <1>13, <1>14, <2>1
<1>16. PICK made : made = RealizeAll(eager, classes, futures)
  OBVIOUS
<1>17. Fine(made, A)
  <2>1. ToSet(classes) \cap futures \subseteq Open(read, n) \cup eager.realized
    BY <1>11, <1>12
  <2> HIDE DEF Fine, A
  <2> QED
    BY <1>9, <1>13, <1>15, <1>16, <2>1
<1>18. PICK resolved : resolved = SetRequiresRawIsa(made, futures)
  OBVIOUS
<1>19. Fine(resolved, A)
  <2>1. futures \in SUBSET Classes /\ made \in RT /\ Laid(made) /\ Methodical(made, A, g)
    BY <1>2, <1>6, <1>11, <1>17 DEF Classes
  <2>2. resolved \in RT /\ SameCore(made, resolved)
    BY <1>18, <2>1, SetRequiresRawIsaSame
  <2>3. Methodical(resolved, A, g)
    BY <1>18, <2>1, RawMethodical
  <2> HIDE DEF Fine, A
  <2> QED
    BY <1>10, <1>17, <2>2, <2>3
<1>20. PICK past : past = [resolved EXCEPT !.future = @ \ futures]
  OBVIOUS
<1>21. Fine(past, A)
  <2>1. resolved \in RT /\ Laid(resolved) /\ Bound(resolved) /\ Ends(resolved) /\ Tidy(resolved)
    BY <1>19 DEF TablesSound
  <2>2. past \in RT
    BY <1>20, <2>1 DEF RT, TableTypes
  <2>3. /\ past.super = resolved.super /\ past.named = resolved.named
        /\ past.future = resolved.future \ futures
        /\ past.ignored = resolved.ignored /\ past.realized = resolved.realized
        /\ past.constructing = resolved.constructing /\ past.loaded = resolved.loaded
        /\ past.subclasses = resolved.subclasses /\ past.layout = resolved.layout
    BY <1>20, <2>1 DEF RT, TableTypes
  <2>4. Laid(past) /\ Bound(past) /\ Ends(past) /\ Tidy(past)
    <3>1. Laid(past)
      BY <2>1, <2>3 DEF Laid
    <3>2. Bound(past) /\ Ends(past)
      BY <2>1, <2>3 DEF Bound, Ends
    <3>3. Tidy(past)
      BY <2>1, <2>3 DEF Tidy
    <3> QED
      BY <3>1, <3>2, <3>3
  <2>5. SameMethods(resolved, past)
    BY <1>20, <2>1 DEF SameMethods, RT, TableTypes
  <2>6. Methodical(past, A, g)
    BY <1>19, <2>1, <2>5, SameMethodical
  <2>7. Opened(past, n)
    BY <1>19, <2>3, OpenedStill
  <2> QED
    BY <1>19, <2>2, <2>3, <2>4, <2>6, <2>7 DEF TablesSound
<1>22. PICK attached : attached = ReadCategories(past, cats)
  OBVIOUS
<1>23. Fine(attached, B)
  <2>1. past \in RT /\ Laid(past) /\ Methodical(past, A, g)
    BY <1>6, <1>21
  <2>2. attached \in RT /\ SameCore(past, attached) /\ Methodical(attached, B, g)
    BY <1>22, <2>1, ReadCategoriesMethodical
  <2> HIDE DEF Fine, A, B
  <2> QED
    BY <1>10, <1>21, <2>2
<1>24. Fine(RealizeAll(attached, SetToSeq(attached.named), attached.named), B)
  <2>1. attached \in RT /\ Tidy(attached) /\ Opened(attached, n)
    BY <1>23 DEF TablesSound
  <2>2. attached.named \in SUBSET Classes
    BY <2>1, Fields
  <2>3. IsFiniteSet(attached.named)
    BY <2>2, ClassesAssumption, FS_Subset
  <2>4. SetToSeq(attached.named) \in Seq(attached.named)
    BY <2>3, InSomeOrder
  <2>5. attached.named \cap attached.named \subseteq Open(read, n) \cup attached.realized
    <3>1. Open(attached, n) = Open(read, n)
      BY <1>23 DEF Open
    <3> QED
      BY <2>1, <2>2, <3>1 DEF Tidy, Classes, Opened
  <2> HIDE DEF Fine, B
  <2> QED
    BY <1>9, <1>23, <2>4, <2>5
<1>25. u \in {attached, RealizeAll(attached, SetToSeq(attached.named), attached.named)}
  BY <1>1, <1>11, <1>14, <1>16, <1>18, <1>20, <1>22 DEF ReadImages
<1>26. Fine(u, B)
  <2> HIDE DEF Fine, B
  <2> QED
    BY <1>23, <1>24, <1>25
<1> QED
  BY <1>26

\* map_2_images attaches the categories that it reads, or they wait.
LEMMA MapKeepsMethods ==
  ASSUME LoaderInv, LoaderInv', MethodsInv, NEW new \in SUBSET Images, MapImages(new)
  PROVE  MethodsInv'
<1>1. PICK t, u, m, s, g, n : /\ t = rt /\ u = rt' /\ m = mapped /\ s = scheduled /\ g = gone
                              /\ n = mapped \cup new
  OBVIOUS
<1>2. PICK cls, cats : cls = Listed(ClassList, new) /\ cats = Listed(CategoryList, new)
  OBVIOUS
<1>3. /\ u = ReadImages(t, cls, cats) /\ found' = found \o cats /\ mapped' = n
      /\ new \cap m = {} /\ new \cap g = {} /\ gone' = g /\ scheduled' = s
  BY <1>1, <1>2 DEF MapImages
<1>4. /\ TablesSound(t) /\ ImagesFine(t, m, s, g)
      /\ Methodical(t, Both(found), g) /\ Opened(t, m) /\ FoundFine(found, m, g)
  BY <1>1 DEF LoaderInv, MethodsInv, MethodsFine, Pending
<1>5. ImagesFine(u, n, s, g)
  BY <1>1, <1>3 DEF LoaderInv, Pending
<1>6. ClassList \in [Images -> Seq(ImageClasses)] /\ CategoryList \in [Images -> Seq(Categories)]
  BY ImagesAssumption
<1>7. cls \in Seq(ImageClasses) /\ ToSet(cls) = UNION {ToSet(ClassList[i]) : i \in new}
  BY <1>2, <1>6, ListedMembers
<1>8. cats \in Seq(Categories) /\ ToSet(cats) = UNION {ToSet(CategoryList[i]) : i \in new} /\ IsInjective(cats)
  BY <1>2, <1>6, ListedMembers, ListedDistinct
<1>9. \A c \in ToSet(cls) : ImageOf(c) \in new
  <2>1. \A i \in new : \A c \in ToSet(ClassList[i]) : ImageOf(c) = i
    BY ImageIs DEF ClassesOf
  <2> QED
    BY <1>7, <2>1
<1>10. \A k \in ToSet(cats) : ImageOf(k) \in new
  <2>1. \A i \in new : \A k \in ToSet(CategoryList[i]) : ImageOf(k) = i
    BY ImageIs DEF CategoriesOf
  <2> QED
    BY <1>8, <2>1
<1>11. PICK F \in Seq(Categories) : /\ F = found /\ IsInjective(F) /\ \A k \in ToSet(F) : ImageOf(k) \in m \cup g
                                    /\ Methodical(t, Both(F), g)
  BY <1>4 DEF FoundFine
<1>12. ToSet(cats) \cap ToSet(F) = {}
  BY <1>3, <1>10, <1>11
<1>13. Methodical(u, Both(F \o cats), g) /\ Opened(u, n)
  <2>1. m \subseteq n /\ \A c \in ToSet(cls) : ImageOf(c) \in n \ m
    BY <1>1, <1>3, <1>9
  <2> QED
    BY <1>3, <1>4, <1>5, <1>7, <1>8, <1>11, <1>12, <2>1, ReadImagesMethodical
<1>14. FoundFine(F \o cats, n, g)
  <2>1. F \o cats \in Seq(Categories) /\ ToSet(F \o cats) = ToSet(F) \cup ToSet(cats) /\ IsInjective(F \o cats)
    BY <1>8, <1>11, <1>12, ConcatMembers
  <2> QED
    BY <1>1, <1>10, <1>11, <2>1 DEF FoundFine
<1> QED
  BY <1>1, <1>3, <1>11, <1>13, <1>14 DEF MethodsInv, MethodsFine

\* Classes are marked as scheduled.
LEMMA LoadedSound ==
  ASSUME NEW t, TablesSound(t), NEW loaded \in SUBSET ImageClasses, NEW v, v = [t EXCEPT !.loaded = loaded]
  PROVE  /\ TablesSound(v) /\ v.loaded = loaded /\ SameMethods(t, v)
         /\ v.super = t.super /\ v.ignored = t.ignored /\ v.realized = t.realized /\ v.named = t.named
<1>1. t \in RT /\ Laid(t) /\ Bound(t) /\ Ends(t) /\ Tidy(t)
  BY DEF TablesSound
<1>2. v \in RT
  BY <1>1 DEF RT, TableTypes, Classes
<1>3. /\ v.super = t.super /\ v.future = t.future /\ v.ignored = t.ignored
      /\ v.realized = t.realized /\ v.loaded = loaded
      /\ v.subclasses = t.subclasses /\ v.layout = t.layout
      /\ v.constructing = t.constructing /\ v.named = t.named
  BY <1>1 DEF RT, TableTypes
<1>4. SameMethods(t, v)
  BY <1>1 DEF SameMethods, RT, TableTypes
<1>5. Laid(v)
  BY <1>1, <1>3 DEF Laid
<1>6. Bound(v) /\ Ends(v)
  BY <1>1, <1>3 DEF Bound, Ends
<1>7. Tidy(v)
  BY <1>1, <1>3 DEF Tidy
<1> QED
  BY <1>2, <1>3, <1>4, <1>5, <1>6, <1>7 DEF TablesSound

\* The classes of an image's categories
LEMMA TargetsType ==
  ASSUME NEW image \in Images
  PROVE  [n \in DOMAIN CategoryList[image] |-> Target[CategoryList[image][n]]] \in Seq(ImageClasses)
<1>1. CategoryList[image] \in Seq(Categories)
  BY ImagesAssumption
<1>2. PICK q \in Seq(Categories) : q = CategoryList[image]
  BY <1>1
<1>3. Len(q) \in Nat /\ DOMAIN q = 1 .. Len(q) /\ \A n \in 1 .. Len(q) : q[n] \in Categories
  BY SeqMembers, ElementOfSeq
<1>4. \A n \in 1 .. Len(q) : Target[q[n]] \in ImageClasses
  BY <1>3, ClassesAssumption
<1> QED
  BY <1>2, <1>3, <1>4

\* load_images realizes the classes of its categories.
LEMMA LoadKeepsMethods ==
  ASSUME LoaderInv, MethodsInv, NEW image \in Images, LoadImages(image)
  PROVE  MethodsInv'
<1>1. PICK t, u, m, s, g, E : t = rt /\ u = rt' /\ m = mapped /\ s = scheduled /\ g = gone /\ E = Both(found)
  OBVIOUS
<1>2. /\ TablesSound(t) /\ ImagesFine(t, m, s, g)
      /\ Methodical(t, E, g) /\ Opened(t, m) /\ FoundFine(found, m, g)
      /\ Pending(t, m, s, g, Done, classQueue, catQueue)
  BY <1>1 DEF LoaderInv, MethodsInv, MethodsFine, Pending
<1>3. image \in m /\ mapped' = m /\ gone' = g /\ found' = found
      /\ (Prepare(image) \/ u = t)
  BY <1>1 DEF LoadImages
<1>4. CASE u = t
  BY <1>1, <1>2, <1>3, <1>4 DEF MethodsInv, MethodsFine
<1>5. CASE Prepare(image)
  <2>1. PICK present : present = {x \in Loaded(image) : (IF x \in Categories THEN Target[x] ELSE x) \notin t.ignored}
    OBVIOUS
  <2>2. present = {x \in Loaded(image) : Present(x)}
    BY <1>1, <2>1 DEF Present
  <2>3. PICK plan : plan = ScheduleAll([loaded |-> t.loaded, queue |-> classQueue], ClassList[image], present)
    OBVIOUS
  <2>4. PICK set : set = {Target[k] : k \in present \cap Categories}
    OBVIOUS
  <2>5. PICK targets : targets = [n \in DOMAIN CategoryList[image] |-> Target[CategoryList[image][n]]]
    OBVIOUS
  <2>6. plan = ScheduleAll([loaded |-> rt.loaded, queue |-> classQueue], ClassList[image], present)
    BY <1>1, <2>3
  <2>7. u = RealizeAll([t EXCEPT !.loaded = plan.loaded], targets, set)
    BY <1>1, <1>5, <2>2, <2>4, <2>5, <2>6 DEF Prepare
  <2>8. plan.loaded \in SUBSET ImageClasses
    <3>1. PlanOf(t, classQueue, image, present, plan)
      BY <2>1, <2>3 DEF PlanOf
    <3> QED
      BY <1>1, <1>2, <1>3, <3>1, PlanIs
  <2>9. PICK N, v : N \in SUBSET ImageClasses /\ N = plan.loaded /\ v = [t EXCEPT !.loaded = N]
    BY <2>8
  <2>10. /\ TablesSound(v) /\ SameMethods(t, v)
         /\ v.super = t.super /\ v.ignored = t.ignored /\ v.realized = t.realized /\ v.named = t.named
    BY <1>2, <2>9, LoadedSound
  <2>11. Open(v, m) = Open(t, m)
    BY <2>10 DEF Open
  <2>12. ImagesFine(v, m, s, g) /\ Opened(v, m)
    BY <1>2, <2>10, <2>11 DEF ImagesFine, Opened
  <2>13. Methodical(v, E, g)
    BY <1>2, <2>10, SameMethodical DEF TablesSound
  <2>14. set \subseteq Open(t, m)
    <3> SUFFICES ASSUME NEW k \in present \cap Categories
                 PROVE  Target[k] \in Open(t, m)
      BY <2>4
    <3>1. Target[k] \notin t.ignored /\ Target[k] \in ImageClasses
      BY <2>1, ClassesAssumption
    <3>2. k \in CategoriesOf(image)
      <4>1. k \notin ImageClasses
        BY ClassesAssumption DEF Classes
      <4> QED
        BY <2>1, <4>1, ImageIs DEF Loaded
    <3>3. ImageOf(Target[k]) \in Dependencies(image) \cup {image}
      BY <3>2, DependenciesAre
    <3>4. ImageOf(Target[k]) \in m
      BY <1>2, <1>3, <3>3 DEF ImagesFine
    <3> QED
      BY <1>2, <3>1, <3>4, OpenUp
  <2>15. targets \in Seq(ImageClasses)
    BY <2>5, TargetsType
  <2>16. ImageClasses \cap set \subseteq Open(v, m) \cup v.realized
    BY <2>11, <2>14
  <2>17. Methodical(u, E, g) /\ Opened(u, m)
    <3>1. u = RealizeAll(v, targets, set)
      BY <2>7, <2>9
    <3> QED
      BY <2>10, <2>12, <2>13, <2>15, <2>16, <3>1, RealizeAllMethodical
  <2> QED
    BY <1>1, <1>2, <1>3, <2>17 DEF MethodsInv, MethodsFine
<1> QED
  BY <1>3, <1>4, <1>5

\* Of what is unmapped nothing is left.
LEMMA UnmapKeepsMethods ==
  ASSUME LoaderInv, MethodsInv, NEW image \in Images, UnmapImage(image)
  PROVE  MethodsInv'
<1>1. PICK t, u, m, s, g, h, E : /\ t = rt /\ u = rt' /\ m = mapped /\ s = scheduled /\ g = gone
                                 /\ h = gone \cup {image} /\ E = Both(found)
  OBVIOUS
<1>2. /\ TablesSound(t) /\ t \in RT /\ Laid(t) /\ Tidy(t) /\ ImagesFine(t, m, s, g)
      /\ Methodical(t, E, g) /\ Opened(t, m) /\ FoundFine(found, m, g)
  BY <1>1 DEF LoaderInv, MethodsInv, MethodsFine, Pending, TablesSound
<1>3. /\ image \in m /\ mapped' = m \ {image} /\ gone' = h /\ found' = found
      /\ u = Free(RemoveUnattached(t, CategoriesOf(image)), ClassesOf(image) \ t.ignored)
      /\ \A c \in ClassesOf(image) : t.subclasses[c] \subseteq ClassesOf(image)
      /\ \A other \in m \ {image} : image \notin Dependencies(other)
  BY <1>1 DEF UnmapImage, Unused
<1>4. PICK v : v = RemoveUnattached(t, CategoriesOf(image))
  OBVIOUS
<1>5. v \in RT /\ SameCore(t, v)
  BY <1>2, <1>4, RemoveUnattachedSame
<1>6. /\ v.super = t.super /\ v.realized = t.realized /\ v.named = t.named /\ v.ignored = t.ignored
  BY <1>5 DEF SameCore
<1>7. g \subseteq h /\ image \in h /\ image \notin g
  BY <1>1, <1>2, <1>3 DEF ImagesFine
<1>8. Methodical(v, E, h)
  <2>1. \A k \in CategoriesOf(image) : ImageOf(k) \in h
    BY <1>7, ImageIs
  <2> QED
    BY <1>2, <1>4, <1>7, <2>1, RemoveMethodical
<1>9. PICK F : F = ClassesOf(image) \ t.ignored
  OBVIOUS
<1>10. \A c : c \in F <=> c \in ImageClasses /\ ImageOf(c) = image /\ c \notin t.ignored
  BY <1>9, ImageIs
<1>11. F \in SUBSET Classes /\ NoClass \notin Classes
  BY <1>10, ClassesAssumption DEF Classes
<1>12. \A c \in v.realized \ F : v.super[c] \notin F
  <2> SUFFICES ASSUME NEW c \in t.realized \ F, t.super[c] \in F
               PROVE  FALSE
    BY <1>6
  <2>1. t.super[c] # NoClass /\ t.super[c] \in ClassesOf(image)
    BY <1>9, <1>11
  <2>2. c \in t.subclasses[t.super[c]]
    BY <1>2, <2>1 DEF Laid
  <2>3. c \in ClassesOf(image)
    BY <1>3, <2>1, <2>2
  <2>4. c \in t.ignored
    BY <1>9, <2>3
  <2> QED
    BY <1>2, <2>1, <2>4 DEF Tidy
<1>13. PICK q \in Seq(Categories) : q = found /\ \A k \in ToSet(q) : k \in Categories /\ ImageOf(k) \in m \cup g
  <2>1. found \in Seq(Categories)
    BY <1>2 DEF FoundFine
  <2>2. ToSet(found) \in SUBSET Categories
    BY <2>1, SeqMembers
  <2> QED
    BY <1>2, <2>1, <2>2 DEF FoundFine
<1>14. \A x \in Sides : \A k \in ToSet(E[x]) : Target[k] \in F => ImageOf(k) \in h \/ Target[k] \in v.ignored
  <2> SUFFICES ASSUME NEW k \in ToSet(q), Target[k] \in F, ImageOf(k) \notin h
               PROVE  FALSE
    BY <1>1, <1>13 DEF Both
  <2>1. ImageOf(k) \in m \ {image} /\ k \in Categories /\ ImageOf(k) \in Images
    BY <1>1, <1>2, <1>7, <1>13 DEF ImagesFine
  <2>2. k \in CategoriesOf(ImageOf(k))
    BY <2>1, ImageIs
  <2>3. ImageOf(Target[k]) \in Dependencies(ImageOf(k)) \cup {ImageOf(k)}
    BY <2>1, <2>2, DependenciesAre
  <2>4. ImageOf(Target[k]) = image
    BY <1>10
  <2> QED
    BY <1>3, <2>1, <2>3, <2>4
<1>15. Parting(v, E, h, F, h)
  <2>1. NSObject \in F => ImageOf(NSObject) \in h
    BY <1>7, <1>10
  <2> QED
    BY <1>12, <1>14, <2>1 DEF Parting
<1>16. u = Free(v, F)
  BY <1>3, <1>4, <1>9
<1>17. Methodical(u, E, h)
  BY <1>5, <1>8, <1>11, <1>15, <1>16, FreeMethodical
<1>18. u.realized = t.realized \ F /\ u.named = t.named \ F /\ u.ignored = t.ignored
  BY <1>5, <1>6, <1>11, <1>16, FreeIs
<1>19. Opened(u, m \ {image})
  <2> SUFFICES ASSUME NEW c \in ((t.realized \cup t.named) \cap ImageClasses) \ F
               PROVE  c \in Open(u, m \ {image})
    BY <1>18 DEF Opened
  <2>1. c \in Open(t, m) /\ ImageOf(c) \in m /\ c \notin t.ignored
    BY <1>2, OpenUp DEF Opened
  <2>2. ImageOf(c) \in m \ {image} /\ ImageOf(c) \in Images
    BY <1>2, <1>10, <2>1 DEF ImagesFine
  <2>3. c \in ClassesOf(ImageOf(c))
    BY <2>2, ImageIs
  <2> QED
    BY <1>18, <2>1, <2>2, <2>3 DEF Open
<1>20. FoundFine(q, m \ {image}, h)
  BY <1>1, <1>2, <1>13 DEF FoundFine
<1> QED
  BY <1>1, <1>3, <1>13, <1>17, <1>19, <1>20 DEF MethodsInv, MethodsFine

-----------------------------------------------------------------------------
(* Methods and flags: the theorems                                          *)

\* Nothing is read, nothing found.
LEMMA MethodsStart ==
  ASSUME InitLoader
  PROVE  MethodsInv
<1>1. PICK debug \in DebugIvars, size \in RootSizes : rt = NoTables(debug, size)
  BY DEF InitLoader
<1>2. PICK t : t = rt
  OBVIOUS
<1>3. found = <<>> /\ mapped = {} /\ gone = {}
  BY DEF InitLoader
<1>4. Methodical(t, Both(<<>>), {})
  BY <1>1, <1>2, NoTablesMethodical
<1>5. t.realized = {} /\ t.named = {}
  BY <1>1, <1>2 DEF NoTables
<1>6. Opened(t, {})
  BY <1>5 DEF Opened
<1>7. FoundFine(<<>>, {}, {})
  BY DEF FoundFine, IsInjective, ToSet
<1> QED
  BY <1>2, <1>3, <1>4, <1>6, <1>7 DEF MethodsInv, MethodsFine

\* Every step keeps them.
LEMMA MethodsStep ==
  ASSUME LoaderInv, LoaderInv', MethodsInv, [NextLoader]_loader
  PROVE  MethodsInv'
<1>1. CASE Threads
  BY <1>1, ThreadsKeepMethods
<1>2. CASE Dyld
  BY <1>2, MapKeepsMethods, LoadKeepsMethods, UnmapKeepsMethods DEF Dyld
<1>3. CASE UNCHANGED <<rt, images, found>>
  BY <1>3 DEF MethodsInv, images
<1>4. CASE StartClassLoads \/ StartCategoryLoads
  BY <1>3, <1>4 DEF StartClassLoads, StartCategoryLoads
<1>5. CASE CallLoad \/ LoadReturns
  BY <1>3, <1>5 DEF CallLoad, LoadReturns
<1>6. CASE EndClassLoads \/ EndCategoryLoads
  BY <1>3, <1>6 DEF EndClassLoads, EndCategoryLoads
<1>7. CASE UNCHANGED loader
  BY <1>3, <1>7 DEF loader
<1> QED
  BY <1>1, <1>2, <1>4, <1>5, <1>6, <1>7 DEF NextLoader

\* The methods and flags are as MethodsInv says, always, whatever images come and go.
THEOREM MethodsInvariant == SpecLoader => []MethodsInv
<1>1. InitLoader => LoaderInv /\ MethodsInv
  BY LoaderStart, MethodsStart
<1>2. (LoaderInv /\ MethodsInv) /\ [NextLoader]_loader => (LoaderInv /\ MethodsInv)'
  BY LoaderStep, MethodsStep
<1> QED
  BY <1>1, <1>2, PTL DEF SpecLoader

\* Where a class has a flag, so has everything above it, up to NSObject.
LEMMA FlaggedLineage ==
  ASSUME NEW t, TablesSound(t), NEW s \in Sides, FlagsOn(t, s), NEW c \in t.default[s]
  PROVE  Lineage(t, c) \subseteq t.default[s] /\ NSObject \in Lineage(t, c)
<1>1. t \in RT /\ Ends(t) /\ Bound(t)
  BY DEF TablesSound
<1>2. PICK b, rank : Ranks(rank, b, Classes \cup {NoClass}, t.super, {NoClass})
  BY <1>1 DEF Ends
<1>3. t.default[s] \subseteq Classes /\ NoClass \notin Classes /\ c \in Classes
  <2>1. t.default[s] \in SUBSET Classes
    BY <1>1, Fields
  <2> QED
    BY <2>1, ClassesAssumption
<1>4. \A d \in t.default[s] \ {NSObject} : t.super[d] \in t.default[s]
  BY DEF FlagsOn
<1>5. t.super[NSObject] = NoClass
  BY <1>1, ClassesAssumption DEF Bound
<1> DEFINE D == Classes \cup {NoClass}
           f == [d \in D |-> Lineage(t, d)]
           R == [d \in D |-> {L \in SUBSET Classes :
                               d \in t.default[s] => L \subseteq t.default[s] /\ NSObject \in L}]
<1>6. Lineage(t, NoClass) = {} /\ \A d \in Classes : Lineage(t, d) = {d} \cup Lineage(t, t.super[d])
  BY <1>1, LineageIs
<1>7. \A d \in D \cap {NoClass} : f[d] \in R[d]
  BY <1>3, <1>6
<1>8. ASSUME NEW d \in D \ {NoClass}, f[t.super[d]] \in R[t.super[d]]
      PROVE  f[d] \in R[d]
  <2>1. t.super[d] \in D /\ d \in Classes
    BY <1>2 DEF Ranks
  <2>2. PICK L : L = Lineage(t, t.super[d])
    OBVIOUS
  <2>3. L \in SUBSET Classes /\ (t.super[d] \in t.default[s] => L \subseteq t.default[s] /\ NSObject \in L)
    BY <1>8, <2>1, <2>2
  <2>4. Lineage(t, d) = {d} \cup L
    BY <1>6, <2>1, <2>2
  <2>5. d \in t.default[s] => {d} \cup L \subseteq t.default[s] /\ NSObject \in {d} \cup L
    <3>1. CASE d = NSObject
      BY <1>5, <1>6, <2>2, <3>1
    <3>2. CASE d # NSObject
      BY <1>4, <2>3, <3>2
    <3> QED
      BY <3>1, <3>2
  <2> QED
    BY <2>1, <2>3, <2>4, <2>5
<1>9. \A d \in D : f[d] \in R[d]
  <2> HIDE DEF f, R
  <2> QED
    BY <1>2, <1>7, <1>8, ClimbKeeps
<1> QED
  BY <1>3, <1>9

\* A class with the default flag answers with the default method (InheritedFlags),
\* and a class that needs a raw isa passes it on.
THEOREM FlagsInherited == SpecLoader => []InheritedFlags
<1>1. LoaderInv /\ MethodsInv => InheritedFlags
  <2> SUFFICES ASSUME LoaderInv, MethodsInv
               PROVE  InheritedFlags
    OBVIOUS
  <2>1. PICK t, g : t = rt /\ g = gone
    OBVIOUS
  <2>2. TablesSound(t) /\ Agreed(t, g) /\ Raw(t, t.realized)
    BY <2>1 DEF LoaderInv, MethodsInv, MethodsFine, Methodical
  <2>3. ASSUME NEW s \in Sides, NEW c \in t.default[s]
        PROVE  ~Overridden(c, s)
    <3>1. FlagsOn(t, s) /\ ReplacedOn(t, g, s)
      BY <2>2 DEF Agreed
    <3>2. Lineage(t, c) \subseteq t.default[s] /\ NSObject \in Lineage(t, c)
      BY <2>2, <2>3, <3>1, FlaggedLineage
    <3>3. ~t.replaced[s]
      BY <2>3, <3>1 DEF ReplacedOn
    <3>4. \A d \in Lineage(t, c) : \A l \in ToSet(t.lists[d][s]) : HasFast(l, s) => l.owner = NSObject
      BY <3>1, <3>2 DEF FlagsOn
    <3> QED
      BY <2>1, <3>2, <3>3, <3>4 DEF Overridden
  <2> QED
    BY <2>1, <2>2, <2>3 DEF InheritedFlags, Raw
<1> QED
  BY <1>1, LoaderInvariant, MethodsInvariant, PTL

\* The categories of a class come before its own methods, each once, the newest
\* first, and none is missing (MethodOrder), however reading and realizing interleave.
THEOREM CategoriesInOrder == SpecLoader => []MethodOrder
<1>1. LoaderInv /\ MethodsInv => MethodOrder
  <2> SUFFICES ASSUME LoaderInv, MethodsInv, NEW c \in rt.realized \cap ImageClasses, NEW s \in Sides
               PROVE  LET lists  == rt.lists[c][s]
                          owners == {l.owner : l \in ToSet(lists)} \cap Categories
                      IN /\ Only([n \in DOMAIN lists |-> lists[n].owner], Categories)
                              = Reverse(Only(found, owners))
                         /\ \A k \in ToSet(found) :
                              Target[k] = c /\ Defines[k][s] # {} /\ ImageOf(k) \notin gone => k \in owners
                         /\ Defines[c][s] # {} => Last(rt.lists[c][s]).owner = c
                         /\ rt.unattached[c][s] = <<>>
    BY DEF MethodOrder
  <2>1. PICK t, g, m, F : t = rt /\ g = gone /\ m = mapped /\ F = found
    OBVIOUS
  <2>2. /\ TablesSound(t) /\ t \in RT /\ Arranged(t, Both(F)) /\ NoneMissing(t, Both(F), g)
        /\ Opened(t, m) /\ c \in t.realized /\ c \in ImageClasses /\ c \in Classes
    BY <2>1 DEF LoaderInv, TablesSound, MethodsInv, MethodsFine, Methodical, Classes
  <2>3. PICK l : l = t.lists[c][s]
    OBVIOUS
  <2>4. PICK owners : owners = {x.owner : x \in ToSet(l)} \cap Categories
    OBVIOUS
  <2>5. Both(F)[s] = F
    BY DEF Both
  <2>6. Ready(F, l, t.unattached[c][s], c, s)
    BY <2>2, <2>3, <2>5 DEF Arranged
  <2>7. l \in Seq(MethodLists)
    BY <2>2, <2>3, Fields
  <2>8. ToSet(CategoriesIn(l)) = owners
    BY <2>4, <2>7, CategoriesFirst
  <2>9. InOrder(F, CategoriesIn(l), <<>>) /\ t.unattached[c][s] = <<>>
        /\ (Defines[c][s] # {} => Last(l).owner = c)
    BY <2>6, Zenon DEF Ready
  <2>10. CategoriesIn(l) = Reverse(Only(F, owners))
    <3>1. PICK C : C = CategoriesIn(l)
      OBVIOUS
    <3>2. InOrder(F, C, <<>>) /\ ToSet(C) = owners
      BY <2>8, <2>9, <3>1
    <3>3. C = Reverse(Only(F, ToSet(C)))
      BY <3>2, InOrderShows
    <3> QED
      BY <3>1, <3>2, <3>3, Zenon
  <2>11. Only([n \in DOMAIN l |-> l[n].owner], Categories) = Reverse(Only(F, owners))
    BY <2>10 DEF CategoriesIn, OwnersOf
  <2>12. ASSUME NEW k \in ToSet(F), Target[k] = c, Defines[k][s] # {}, ImageOf(k) \notin g
         PROVE  k \in owners
    <3>1. c \notin t.ignored
      BY <2>2 DEF Opened, Open
    <3>2. Has(t, k, s)
      BY <2>2, <2>5, <2>12, <3>1 DEF NoneMissing
    <3>3. k \in ToSet(CategoriesIn(l)) \cup ToSet(<<>>)
      BY <2>3, <2>9, <2>12, <3>2, Zenon DEF Has
    <3>4. ToSet(<<>>) = {}
      BY DEF ToSet
    <3> QED
      BY <2>8, <3>3, <3>4
  <2>13. /\ Only([n \in DOMAIN rt.lists[c][s] |-> rt.lists[c][s][n].owner], Categories) = Reverse(Only(found, owners))
         /\ owners = {x.owner : x \in ToSet(rt.lists[c][s])} \cap Categories
    BY <2>1, <2>3, <2>4, <2>11
  <2>14. \A k \in ToSet(found) : Target[k] = c /\ Defines[k][s] # {} /\ ImageOf(k) \notin gone => k \in owners
    BY <2>1, <2>12
  <2>15. (Defines[c][s] # {} => Last(rt.lists[c][s]).owner = c) /\ rt.unattached[c][s] = <<>>
    BY <2>1, <2>3, <2>9
  <2> QED
    BY <2>13, <2>14, <2>15
<1> QED
  BY <1>1, LoaderInvariant, MethodsInvariant, PTL
=============================================================================
