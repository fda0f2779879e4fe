------------------------- MODULE MethodCacheProofs --------------------------
(***************************************************************************)
(* The invariants of MethodCache, for every set of threads, classes and    *)
(* addresses, any hierarchy and every history of messages and changes.     *)
(***************************************************************************)
EXTENDS MethodCache, DataFacts
------------------------------------------------------------------------------
(* The inductive invariant: types, control, memory, values.                *)

Labels == {"idle", "buckets", "probe", "rdlock", "resolve", "fill", "setBuckets", "setMask",
           "setImp", "setKey", "scan", "erase", "lockCollect"}
Found   == Imps \cup {NoImp, Forward}
Entries == [key : {0, EndMarker} \cup Sels, imp : Found]
\* Allocated bucket arrays: an end marker comes last.
Arrays  == {h \in Seq(Entries) : Len(h) >= 2 /\ h[Len(h)].key = EndMarker}
Caches  == [buckets : Addresses \cup {EmptyBuckets}, mask : Nat, occupied : Nat]
Lists   == [Classes -> [Sels -> Imps \cup {NoImp}]]
Registers ==
    [pc : Labels, cls : Classes \cup {NoClass}, sel : Sels \cup {0},
     cur : Classes \cup {NoClass}, mask : Nat, arr : Addresses \cup {0}, idx : Nat,
     wrapped : BOOLEAN, imp : Found, slow : BOOLEAN, tried : BOOLEAN,
     old : Addresses \cup {0}, todo : SUBSET Classes, scan : SUBSET Threads,
     alot : BOOLEAN, after : {"idle", "rdlock", "lockCollect"}, seen : SUBSET Found]
\* What was seen was seen for a message.
Regs == {r \in Registers : r.seen # {} => r.cls \in Classes /\ r.sel \in Sels}

TypeOK ==
    /\ methods \in Lists /\ before \in Lists
    /\ cache \in [Classes -> Caches]
    /\ garbage \in SUBSET Addresses
    /\ readers \in SUBSET Threads
    /\ writer \in Threads \cup {NoThread} /\ cacheUpdateLock \in Threads \cup {NoThread}
    /\ th \in [Threads -> Regs]

\* The locks that a thread holds at each label, and the class it works on.
Updating(t)  == th[t].pc \in {"setBuckets", "setMask", "setImp", "setKey", "scan"}
InMessage(t) == \/ t \in readers \/ Critical(t) \/ th[t].pc \in {"rdlock", "resolve"}
                \/ th[t].after = "rdlock"
Locks(t) ==
    /\ t \in readers <=> \/ th[t].pc \in {"fill", "setImp", "setKey"}
                         \/ Critical(t) /\ th[t].slow
                         \/ th[t].pc \in {"setBuckets", "setMask"} /\ writer # t
                         \/ th[t].pc = "scan" /\ ~th[t].alot /\ writer # t
    /\ writer = t => th[t].pc \in {"erase", "setBuckets", "setMask", "scan"} /\ ~th[t].alot
    /\ th[t].pc = "erase" \/ th[t].after # "idle" => writer = t
    /\ Updating(t) => cacheUpdateLock = t
    /\ cacheUpdateLock = t => Updating(t) \/ th[t].pc = "erase"
    /\ th[t].alot => th[t].pc = "scan"
    /\ InMessage(t) => th[t].cls \in Classes /\ th[t].sel \in Sels
    /\ Critical(t) => th[t].cur \in Classes
    /\ writer = t /\ th[t].pc \in {"setBuckets", "setMask"} => th[t].cur \in Classes
    /\ th[t].pc = "scan" => t \notin th[t].scan
Control ==
    /\ readers # {} => writer = NoThread
    /\ \A t \in Threads : Locks(t)

\* What a cache owns, and what it counts unless a thread is about to set its mask or a key.
Used(k)  == {i \in 0 .. k.mask : Bucket(k.buckets, i).key # 0}
Owned(a) == a \in Addresses /\ heap[a] # Freed /\ a \notin garbage
CacheOwns(c) == LET k == cache[c] IN
    k.buckets # EmptyBuckets => Owned(k.buckets) /\ k.mask + 2 <= Len(heap[k.buckets])
Apart == \A c, d \in Classes :
    cache[c].buckets = cache[d].buckets => c = d \/ cache[c].buckets = EmptyBuckets
Counted(k, used) ==
    /\ k.buckets = EmptyBuckets => k.occupied = 0
    /\ k.buckets # EmptyBuckets =>
         /\ Len(heap[k.buckets]) = k.mask + 2 /\ k.mask >= 1
         /\ k.occupied = used /\ k.occupied <= k.mask
Busy(c) == \E t \in Threads : th[t].pc \in {"setMask", "setKey"} /\ Target(t) = c
CacheCounts(c) == Busy(c) \/ Counted(cache[c], Cardinality(Used(cache[c])))

\* An array of n empty buckets.
IsNew(a, n) ==
    a # EmptyBuckets =>
       /\ Owned(a) /\ n >= 2 /\ Len(heap[a]) = n + 1
       /\ \A i \in 1 .. n : heap[a][i].key = 0
Work(t) == LET k == cache[Target(t)] IN
    /\ th[t].pc = "setBuckets" =>
         /\ IsNew(th[t].arr, th[t].mask + 1) /\ k.mask <= th[t].mask /\ th[t].old = k.buckets
         /\ th[t].arr # EmptyBuckets =>
              /\ \A c \in Classes : cache[c].buckets # th[t].arr
              /\ \A u \in Threads : Holds(u) => th[u].arr # th[t].arr
    /\ th[t].pc = "setMask" =>
         /\ IsNew(th[t].arr, th[t].mask + 1) /\ k.mask <= th[t].mask /\ th[t].arr = k.buckets
         /\ th[t].old # EmptyBuckets =>
              Owned(th[t].old) /\ \A c \in Classes : cache[c].buckets # th[t].old
    /\ t \in readers /\ th[t].pc \in {"setMask", "setBuckets"} => th[t].arr # EmptyBuckets
    /\ t \in readers /\ th[t].pc \in {"scan", "setImp"} =>
         /\ k.buckets # EmptyBuckets /\ k.occupied < k.mask
         /\ Bucket(k.buckets, FindBucket(k, th[t].sel)).key # th[t].sel
    /\ th[t].pc = "setKey" =>
         /\ k.buckets # EmptyBuckets
         /\ th[t].idx \in 0 .. k.mask /\ Bucket(k.buckets, th[t].idx).key = 0
         /\ k.occupied >= 1
         /\ Counted([k EXCEPT !.occupied = @ - 1], Cardinality(Used(k))) /\ k.occupied <= k.mask
ScanInBounds(t) ==
    /\ th[t].pc = "buckets" => th[t].idx <= cache[th[t].cur].mask
    /\ Holds(t) => heap[th[t].arr] # Freed /\ th[t].idx + 1 <= Len(heap[th[t].arr])
\* Of the threads a collection has looked at, none holds what it will free.
Looked(t) == th[t].pc = "scan" =>
    \A u \in Threads \ ({t} \cup th[t].scan) : Holds(u) => th[u].arr \notin garbage

Memory ==
    /\ heap \in [Addresses -> Arrays \cup {Freed}]
    /\ \A a \in garbage : heap[a] # Freed
    /\ \A c \in Classes : CacheOwns(c) /\ CacheCounts(c)
    /\ Apart
    /\ \A t \in Threads : Work(t) /\ ScanInBounds(t) /\ Looked(t)

\* What a message, a lookup and a change know of the method lists.
Saw(t) == InMessage(t) => Visible(th[t].cls, th[t].sel) \subseteq th[t].seen
Result(t) == t \in readers /\ ~Critical(t) => th[t].imp = Resolved(methods, th[t].cls, th[t].sel)
Climb(t) == Critical(t) =>
    IF th[t].slow
    THEN /\ th[t].cur \in Supers[th[t].cls]
         /\ \A d \in Supers[th[t].cls] \ Supers[th[t].cur] : methods[d][th[t].sel] = NoImp
    ELSE th[t].cur = th[t].cls
Reads(t) == Holds(t) =>
    /\ \A i \in DOMAIN heap[th[t].arr] : heap[th[t].arr][i].key = th[t].sel =>
         heap[th[t].arr][i].imp \in IF th[t].slow
                                    THEN {Resolved(methods, th[t].cur, th[t].sel)}
                                    ELSE th[t].seen
    /\ \A d \in Classes : cache[d].buckets = th[t].arr => d = th[t].cur
Current(c) == cache[c].buckets # EmptyBuckets =>
    \A i \in DOMAIN heap[cache[c].buckets] : LET e == heap[cache[c].buckets][i] IN
        e.key > EndMarker => e.imp \in Visible(c, e.key)
Changing(t) == writer = t => \A c \in Classes \ th[t].todo, s \in Sels :
    Resolved(methods, c, s) = Resolved(before, c, s)

Values ==
    /\ ~staleAnswer
    /\ writer = NoThread => before = methods
    /\ \A t \in Threads : Saw(t) /\ Result(t) /\ Climb(t) /\ Reads(t) /\ Changing(t)
    /\ \A c \in Classes : Current(c)

IInv == TypeOK /\ Control /\ Memory /\ Values
------------------------------------------------------------------------------
(* Facts about the operators.                                              *)

\* The probes from a hash on and around reach every bucket.
LEMMA ProbeReaches ==
  ASSUME NEW n \in Nat, NEW h \in Nat, h < n, NEW i \in Nat, i < n
  PROVE  \E j \in 0 .. n - 1 : (h + j) % n = i
<1>1. CASE h <= i
  <2>1. i - h \in 0 .. n - 1 /\ h + (i - h) = i
    BY <1>1
  <2>2. i % n = i
    OBVIOUS
  <2> QED
    BY <2>1, <2>2, Zenon
<1>2. CASE ~(h <= i)
  <2>1. (i + n) - h \in 0 .. n - 1 /\ h + ((i + n) - h) = i + n
    BY <1>2
  <2>2. (i + n) % n = i
    OBVIOUS
  <2> QED
    BY <2>1, <2>2, Zenon
<1> QED
  BY <1>1, <1>2

\* cache_t::find returns a bucket within the mask that has the selector or is empty, if
\* there is an empty one.
LEMMA FindStops ==
  ASSUME NEW k, NEW sel \in Nat, k.mask \in Nat,
         \E i \in 0 .. k.mask : Bucket(k.buckets, i).key = 0
  PROVE  FindBucket(k, sel) \in 0 .. k.mask /\ Stops(k, sel, FindBucket(k, sel))
<1> DEFINE n == k.mask + 1
           p == Probed(k, sel)
           S == {j \in 0 .. k.mask : Stops(k, sel, p[j])}
<1>1. n \in Nat /\ n > 0 /\ Hash(sel, k.mask) \in Nat /\ Hash(sel, k.mask) < n
  <2>1. n \in Nat /\ n > 0 /\ Hash(sel, k.mask) = sel % n
    BY DEF Hash
  <2> HIDE DEF n
  <2> QED
    BY <2>1
<1>2. \A j \in 0 .. k.mask : p[j] = (Hash(sel, k.mask) + j) % n /\ p[j] \in 0 .. k.mask
  <2>1. \A j \in 0 .. k.mask : p[j] = (Hash(sel, k.mask) + j) % n
    BY DEF Probed
  <2>2. \A j \in 0 .. k.mask : (Hash(sel, k.mask) + j) % n \in 0 .. k.mask
    BY <1>1
  <2> QED
    BY <2>1, <2>2
<1>3. PICK i \in 0 .. k.mask : Bucket(k.buckets, i).key = 0
  OBVIOUS
<1>4. \E j \in 0 .. n - 1 : (Hash(sel, k.mask) + j) % n = i
  <2>1. i \in Nat /\ i < n
    BY <1>3
  <2> HIDE DEF n
  <2> QED
    BY <1>1, <2>1, ProbeReaches
<1>5. PICK j \in 0 .. k.mask : p[j] = i
  BY <1>2, <1>4
<1>6. S # {} /\ S \in SUBSET Nat
  BY <1>3, <1>5 DEF Stops
<1>7. \E m \in S : \A l \in S : m <= l
  BY <1>6, LeastOf
<1>8. Min(S) \in S
  BY <1>7 DEF Min
<1>9. FindBucket(k, sel) = p[Min(S)]
  BY DEF FindBucket
<1> HIDE DEF p
<1> QED
  BY <1>2, <1>8, <1>9

\* A class is in its own Supers, which are closed under superclass.
LEMMA SupersClosed ==
  ASSUME NEW c \in Classes
  PROVE  /\ Supers[c] \in SUBSET Classes /\ c \in Supers[c]
         /\ \A d \in Supers[c] : Superclass[d] \in Supers[c] \cup {NoClass}
<1> DEFINE Up == {S \in SUBSET Classes :
                    c \in S /\ \A d \in S : Superclass[d] \in S \cup {NoClass}}
<1>1. Supers[c] = {d \in Classes : \A S \in Up : d \in S}
  BY DEF Supers
<1>2. \A d \in Classes : Superclass[d] \in Classes \cup {NoClass}
  BY CacheAssumption DEF CacheAssumption
<1>3. ASSUME NEW d \in Supers[c]
      PROVE  Superclass[d] \in Supers[c] \cup {NoClass}
  BY <1>1, <1>2, <1>3
<1> QED
  BY <1>1, <1>3

\* Every closed set that has a class has its Supers.
LEMMA SupersLeast ==
  ASSUME NEW c \in Classes, NEW S \in SUBSET Classes, c \in S,
         \A d \in S : Superclass[d] \in S \cup {NoClass}
  PROVE  Supers[c] \subseteq S
BY DEF Supers

\* The classes above a class are the class and those above its superclass.
LEMMA SupersOf ==
  ASSUME NEW c \in Classes
  PROVE  /\ Superclass[c] = NoClass => Supers[c] = {c}
         /\ Superclass[c] # NoClass =>
              Superclass[c] \in Classes /\ Supers[c] = {c} \cup Supers[Superclass[c]]
<1>1. Superclass[c] \in Classes \cup {NoClass} /\ NoClass \notin Classes
  BY CacheAssumption DEF CacheAssumption
<1>2. ASSUME Superclass[c] = NoClass
      PROVE  Supers[c] = {c}
  <2> DEFINE T == {c}
  <2>1. T \in SUBSET Classes /\ c \in T /\ \A d \in T : Superclass[d] \in T \cup {NoClass}
    BY <1>2
  <2>2. Supers[c] \subseteq T
    <3> HIDE DEF T
    <3> QED
      BY <2>1, SupersLeast
  <2> QED
    BY <2>2, SupersClosed
<1>3. ASSUME Superclass[c] # NoClass
      PROVE  Supers[c] = {c} \cup Supers[Superclass[c]]
  <2> DEFINE s == Superclass[c]
             T == {c} \cup Supers[s]
  <2>1. s \in Classes
    BY <1>1, <1>3
  <2>2. T \in SUBSET Classes /\ c \in T /\ s \in Supers[s]
    BY <2>1, SupersClosed
  <2>3. \A d \in Supers[s] : Superclass[d] \in Supers[s] \cup {NoClass}
    BY <2>1, SupersClosed
  <2>4. \A d \in T : Superclass[d] \in T \cup {NoClass}
    BY <2>2, <2>3
  <2>5. Supers[c] \subseteq T
    <3> HIDE DEF T
    <3> QED
      BY <2>2, <2>4, SupersLeast
  <2>6. /\ Supers[c] \in SUBSET Classes /\ s \in Supers[c] /\ c \in Supers[c]
        /\ \A d \in Supers[c] : Superclass[d] \in Supers[c] \cup {NoClass}
    BY <1>3, SupersClosed
  <2>7. Supers[s] \subseteq Supers[c]
    BY <2>1, <2>6, SupersLeast
  <2> QED
    BY <2>5, <2>6, <2>7
<1> QED
  BY <1>1, <1>2, <1>3

\* The classes above a class above: transitivity, and no two classes are above each other.
LEMMA SupersOrder ==
  ASSUME NEW c \in Classes, NEW d \in Supers[c]
  PROVE  /\ Supers[d] \subseteq Supers[c]
         /\ c \in Supers[d] => c = d
<1>1. d \in Classes /\ Supers[c] \in SUBSET Classes
  BY SupersClosed
<1>2. Supers[d] \subseteq Supers[c]
  <2>1. \A e \in Supers[c] : Superclass[e] \in Supers[c] \cup {NoClass}
    BY SupersClosed
  <2> QED
    BY <1>1, <2>1, SupersLeast
<1>3. ASSUME c \in Supers[d], c # d
      PROVE  FALSE
  <2>1. Superclass[c] # NoClass
    BY <1>3, SupersOf
  <2>2. Superclass[c] \in Classes /\ d \in Supers[Superclass[c]]
    BY <1>3, <2>1, SupersOf
  <2>3. \A e \in Supers[Superclass[c]] :
           Superclass[e] \in Supers[Superclass[c]] \cup {NoClass}
    BY <2>2, SupersClosed
  <2>4. Supers[d] \subseteq Supers[Superclass[c]]
    <3>1. Supers[Superclass[c]] \in SUBSET Classes
      BY <2>2, SupersClosed
    <3> QED
      BY <1>1, <2>2, <2>3, <3>1, SupersLeast
  <2> QED
    BY <1>3, <2>1, <2>4, SuperclassAssumption DEF SuperclassAssumption
<1> QED
  BY <1>2, <1>3

\* Among the classes above that are in a set, one is the nearest.
LEMMA NearestSuper ==
  ASSUME NEW c \in Classes, NEW has \in SUBSET Supers[c], has # {}
  PROVE  /\ (CHOOSE d \in has : has \subseteq Supers[d]) \in has
         /\ has \subseteq Supers[CHOOSE d \in has : has \subseteq Supers[d]]
<1> DEFINE S == {d \in Supers[c] : has \subseteq Supers[d]}
<1>1. Supers[c] \in SUBSET Classes /\ c \in Supers[c]
  BY SupersClosed
<1>2. ASSUME S \cap has = {}
      PROVE  FALSE
  <2>1. S \in SUBSET Classes /\ c \in S
    BY <1>1
  <2>2. ASSUME NEW d \in S
        PROVE  Superclass[d] \in S \cup {NoClass}
    <3>1. d \in Classes /\ d \in Supers[c] /\ has \subseteq Supers[d] /\ d \notin has
      BY <1>1, <1>2
    <3>2. Superclass[d] # NoClass
      <4>1. Superclass[d] = NoClass => Supers[d] = {d}
        BY <3>1, SupersOf
      <4> QED
        BY <3>1, <4>1
    <3>3. Supers[d] = {d} \cup Supers[Superclass[d]]
      BY <3>1, <3>2, SupersOf
    <3>4. has \subseteq Supers[Superclass[d]]
      BY <3>1, <3>3
    <3>5. Superclass[d] \in Supers[c]
      BY <3>1, <3>2, SupersClosed
    <3> QED
      BY <3>4, <3>5
  <2>3. Supers[c] \subseteq S
    <3> HIDE DEF S
    <3> QED
      BY <2>1, <2>2, SupersLeast
  <2> QED
    BY <1>2, <2>3
<1>3. PICK e \in has : has \subseteq Supers[e]
  BY <1>2
<1> QED
  BY <1>3

\* Resolved looks at the classes above only.
LEMMA ResolvedSame ==
  ASSUME NEW c \in Classes, NEW s, NEW m1, NEW m2,
         \A d \in Supers[c] : m1[d][s] = m2[d][s]
  PROVE  Resolved(m1, c, s) = Resolved(m2, c, s)
<1> DEFINE has(m) == {d \in Supers[c] : m[d][s] # NoImp}
           best(m) == CHOOSE d \in has(m) : has(m) \subseteq Supers[d]
<1>1. has(m1) = has(m2)
  OBVIOUS
<1>2. best(m1) = best(m2)
  BY <1>1
<1>3. has(m1) # {} => best(m1) \in Supers[c]
  <2> DEFINE h == has(m1)
  <2>1. h \in SUBSET Supers[c]
    OBVIOUS
  <2> HIDE DEF h
  <2>2. h # {} => (CHOOSE d \in h : h \subseteq Supers[d]) \in h
    BY <2>1, NearestSuper
  <2> QED
    BY <2>1, <2>2 DEF h
<1>4. has(m1) # {} => m1[best(m1)][s] = m2[best(m2)][s]
  BY <1>2, <1>3
<1> HIDE DEF has, best
<1>5. Resolved(m1, c, s) = IF has(m1) = {} THEN Forward ELSE m1[best(m1)][s]
  BY DEF Resolved, has, best
<1>6. Resolved(m2, c, s) = IF has(m2) = {} THEN Forward ELSE m2[best(m2)][s]
  BY DEF Resolved, has, best
<1> QED
  BY <1>1, <1>4, <1>5, <1>6

\* What is found is an implementation or the forwarder.
LEMMA ResolvedType ==
  ASSUME NEW c \in Classes, NEW s \in Sels, NEW m \in Lists
  PROVE  Resolved(m, c, s) \in Found
<1> DEFINE has == {d \in Supers[c] : m[d][s] # NoImp}
           best == CHOOSE d \in has : has \subseteq Supers[d]
<1>1. has # {} => best \in Classes
  <2>1. has \in SUBSET Supers[c] /\ Supers[c] \in SUBSET Classes
    BY SupersClosed
  <2> HIDE DEF has
  <2>2. has # {} => best \in has
    BY <2>1, NearestSuper
  <2> QED
    BY <2>1, <2>2
<1>2. has # {} => m[best][s] \in Found
  BY <1>1 DEF Lists, Found
<1>3. Forward \in Found
  BY DEF Found
<1> HIDE DEF has, best
<1>4. Resolved(m, c, s) = IF has = {} THEN Forward ELSE m[best][s]
  BY DEF Resolved, has, best
<1> QED
  BY <1>2, <1>3, <1>4

\* A class with the method gives it; one without has what its superclass has, or the
\* forwarder.
LEMMA ResolvedStep ==
  ASSUME NEW c \in Classes, NEW s, NEW m
  PROVE  /\ m[c][s] # NoImp => Resolved(m, c, s) = m[c][s]
         /\ m[c][s] = NoImp /\ Superclass[c] = NoClass => Resolved(m, c, s) = Forward
<1> DEFINE has == {d \in Supers[c] : m[d][s] # NoImp}
           best == CHOOSE d \in has : has \subseteq Supers[d]
<1>1. Supers[c] \in SUBSET Classes /\ c \in Supers[c]
  BY SupersClosed
<1>2. ASSUME m[c][s] # NoImp
      PROVE  has # {} /\ best = c
  <2>1. c \in has /\ has \in SUBSET Supers[c]
    BY <1>1, <1>2
  <2> HIDE DEF has
  <2>2. best \in has /\ has \subseteq Supers[best]
    BY <2>1, NearestSuper
  <2> HIDE DEF best
  <2> QED
    BY <2>1, <2>2, SupersOrder
<1>3. ASSUME m[c][s] = NoImp, Superclass[c] = NoClass
      PROVE  has = {}
  <2>1. Supers[c] = {c}
    BY <1>3, SupersOf
  <2> QED
    BY <1>3, <2>1
<1> HIDE DEF has, best
<1>4. Resolved(m, c, s) = IF has = {} THEN Forward ELSE m[best][s]
  BY DEF Resolved, has, best
<1> QED
  BY <1>2, <1>3, <1>4

\* Classes without the method may be passed over.
LEMMA ResolvedAbove ==
  ASSUME NEW c \in Classes, NEW d \in Supers[c], NEW s, NEW m,
         \A e \in Supers[c] \ Supers[d] : m[e][s] = NoImp
  PROVE  Resolved(m, c, s) = Resolved(m, d, s)
<1> DEFINE has(x) == {e \in Supers[x] : m[e][s] # NoImp}
           best(x) == CHOOSE e \in has(x) : has(x) \subseteq Supers[e]
<1>1. Supers[d] \subseteq Supers[c]
  BY SupersOrder
<1>2. has(c) = has(d)
  BY <1>1
<1>3. best(c) = best(d)
  BY <1>2
<1> HIDE DEF has, best
<1>4. \A x : Resolved(m, x, s) = IF has(x) = {} THEN Forward ELSE m[best(x)][s]
  BY DEF Resolved, has, best
<1> QED
  BY <1>2, <1>3, <1>4
------------------------------------------------------------------------------
(* Facts about the registers.                                              *)

\* The registers of a scan that begins, and of a scan that is over.
LEMMA ScanRegs ==
  ASSUME NEW r \in Regs, NEW c \in Classes, cache \in [Classes -> Caches], r.sel \in Nat
  PROVE  LET q == ScanOf(r, c) IN
         /\ q \in Regs /\ q.pc = "buckets" /\ q.cur = c /\ q.arr = 0 /\ q.wrapped = FALSE
         /\ q.idx \in Nat /\ q.idx <= cache[c].mask
         /\ q.cls = r.cls /\ q.sel = r.sel /\ q.imp = r.imp /\ q.slow = r.slow
         /\ q.tried = r.tried /\ q.mask = r.mask /\ q.old = r.old /\ q.todo = r.todo
         /\ q.scan = r.scan /\ q.alot = r.alot /\ q.after = r.after /\ q.seen = r.seen
<1>1. cache[c].mask \in Nat
  BY DEF Caches
<1>2. Hash(r.sel, cache[c].mask) \in Nat /\ Hash(r.sel, cache[c].mask) <= cache[c].mask
  BY <1>1 DEF Hash
<1> QED
  BY <1>2 DEF ScanOf, Regs, Registers, Labels

\* The registers once a scan is over.
LEMMA NoScanRegs ==
  ASSUME NEW r \in Regs, NEW p \in Labels
  PROVE  LET q == NoScan(r, p) IN
         /\ q \in Regs /\ q.pc = p /\ q.cur = NoClass /\ q.idx = 0 /\ q.arr = 0
         /\ q.cls = r.cls /\ q.sel = r.sel /\ q.imp = r.imp /\ q.slow = r.slow
         /\ q.tried = r.tried /\ q.mask = r.mask /\ q.old = r.old /\ q.todo = r.todo
         /\ q.scan = r.scan /\ q.alot = r.alot /\ q.after = r.after /\ q.seen = r.seen
BY DEF NoScan, Regs, Registers

\* A thread that is idle.
LEMMA IdleRegs ==
  /\ Idle \in Regs /\ Idle.pc = "idle" /\ Idle.slow = FALSE /\ Idle.alot = FALSE
  /\ Idle.after = "idle" /\ Idle.seen = {}
BY DEF Idle, Regs, Registers, Labels, Found

\* Locks of a thread that does not act.
LEMMA LocksStay ==
  ASSUME NEW u \in Threads,
         th'[u].pc = th[u].pc, th'[u].slow = th[u].slow, th'[u].alot = th[u].alot,
         th'[u].after = th[u].after, th'[u].cls = th[u].cls, th'[u].sel = th[u].sel,
         th'[u].cur = th[u].cur, th'[u].scan = th[u].scan,
         u \in readers' <=> u \in readers,
         writer' = u <=> writer = u, cacheUpdateLock' = u <=> cacheUpdateLock = u,
         Locks(u)
  PROVE  Locks(u)'
BY DEF Locks, Updating, InMessage, Critical

\* A message takes notice of a change of methods.
LEMMA NoticeRegs ==
  ASSUME NEW r \in Regs, NEW ch, ch.to \in Lists
  PROVE  LET q == Notice(r, ch) IN
         /\ q \in Regs /\ q.pc = r.pc /\ q.cur = r.cur /\ q.arr = r.arr /\ q.idx = r.idx
         /\ q.cls = r.cls /\ q.sel = r.sel /\ q.imp = r.imp /\ q.slow = r.slow
         /\ q.tried = r.tried /\ q.mask = r.mask /\ q.old = r.old /\ q.todo = r.todo
         /\ q.scan = r.scan /\ q.alot = r.alot /\ q.after = r.after
         /\ r.seen \subseteq q.seen
         /\ r.seen # {} => Resolved(ch.to, r.cls, r.sel) \in q.seen
<1>1. CASE r.seen = {}
  BY <1>1 DEF Notice
<1>2. CASE r.seen # {}
  <2> DEFINE x == Resolved(ch.to, r.cls, r.sel)
  <2>1. r.cls \in Classes /\ r.sel \in Sels
    BY <1>2 DEF Regs
  <2>2. x \in Found
    BY <2>1, ResolvedType
  <2>3. Notice(r, ch) = [r EXCEPT !.seen = @ \cup {x}]
    BY <1>2 DEF Notice
  <2> HIDE DEF x
  <2>4. Notice(r, ch) \in Regs
    BY <2>1, <2>2, <2>3 DEF Regs, Registers
  <2> QED
    BY <2>3, <2>4 DEF Regs, Registers, x
<1> QED
  BY <1>1, <1>2
------------------------------------------------------------------------------
(* Facts about the memory.                                                 *)

\* A bucket that is read within bounds is an entry.
LEMMA BucketType ==
  ASSUME TypeOK, Memory, NEW a, NEW i \in Nat,
         a # EmptyBuckets => a \in Addresses /\ heap[a] # Freed /\ i + 1 <= Len(heap[a])
  PROVE  Bucket(a, i) \in Entries
<1>1. EmptyBucket \in Entries
  BY DEF EmptyBucket, Entries, Found
<1>2. CASE a = EmptyBuckets
  BY <1>1, <1>2 DEF Bucket
<1>3. CASE a # EmptyBuckets
  <2>1. heap[a] \in Seq(Entries) /\ i + 1 \in 1 .. Len(heap[a]) /\ Bucket(a, i) = heap[a][i + 1]
    BY <1>3 DEF Memory, Arrays, Bucket
  <2> QED
    BY <2>1, ElementOfSeq
<1> QED
  BY <1>2, <1>3

\* Nobody is about to change a cache while cacheUpdateLock is free, or its owner is elsewhere.
LEMMA NobodyBusy ==
  ASSUME TypeOK, Control, NEW c,
         \/ cacheUpdateLock = NoThread
         \/ cacheUpdateLock \in Threads /\ th[cacheUpdateLock].pc \notin {"setMask", "setKey"}
  PROVE  ~Busy(c)
<1>1. \A u \in Threads : th[u].pc \in {"setMask", "setKey"} => cacheUpdateLock = u
  BY DEF Control, Locks, Updating
<1>2. NoThread \notin Threads
  BY CacheAssumption DEF CacheAssumption
<1> QED
  BY <1>1, <1>2 DEF Busy

\* The buckets in use, and one of the others.
LEMMA UsedFacts ==
  ASSUME NEW k \in Caches
  PROVE  /\ Used(k) \in SUBSET (0 .. k.mask) /\ IsFiniteSet(Used(k))
         /\ Cardinality(Used(k)) \in Nat
         /\ Cardinality(Used(k)) <= k.mask => \E i \in 0 .. k.mask : Bucket(k.buckets, i).key = 0
<1>1. k.mask \in Nat
  BY DEF Caches
<1>2. Used(k) \in SUBSET (0 .. k.mask)
  BY DEF Used
<1>3. IsFiniteSet(0 .. k.mask) /\ Cardinality(0 .. k.mask) = k.mask + 1
  BY <1>1, FS_Interval
<1>4. IsFiniteSet(Used(k)) /\ Cardinality(Used(k)) \in Nat
  BY <1>2, <1>3, FS_Subset, FS_CardinalityType
<1>5. Cardinality(Used(k)) <= k.mask => Used(k) # 0 .. k.mask
  BY <1>1, <1>3
<1>6. Used(k) # 0 .. k.mask => \E i \in 0 .. k.mask : Bucket(k.buckets, i).key = 0
  BY <1>2 DEF Used
<1> QED
  BY <1>2, <1>4, <1>5, <1>6

\* Whoever may look for a selector in a cache finds it or an empty bucket.
LEMMA FindInCache ==
  ASSUME TypeOK, Memory, NEW c \in Classes, ~Busy(c), NEW s \in Sels
  PROVE  /\ FindBucket(cache[c], s) \in 0 .. cache[c].mask
         /\ Stops(cache[c], s, FindBucket(cache[c], s))
<1> DEFINE k == cache[c]
<1>1. k \in Caches /\ k.mask \in Nat
  BY DEF TypeOK, Caches
<1>2. Counted(k, Cardinality(Used(k)))
  BY DEF Memory, CacheCounts
<1>3. s \in Nat
  BY CacheAssumption DEF CacheAssumption
<1>4. \E i \in 0 .. k.mask : Bucket(k.buckets, i).key = 0
  <2>1. CASE k.buckets = EmptyBuckets
    <3>1. 0 \in 0 .. k.mask /\ Bucket(k.buckets, 0).key = 0
      BY <1>1, <2>1 DEF Bucket, EmptyBucket
    <3> QED
      BY <3>1
  <2>2. CASE k.buckets # EmptyBuckets
    <3>1. Cardinality(Used(k)) <= k.mask
      BY <1>2, <2>2 DEF Counted
    <3> QED
      BY <1>1, <3>1, UsedFacts
  <2> QED
    BY <2>1, <2>2
<1> QED
  BY <1>1, <1>3, <1>4, FindStops

\* Where a bucket array is allocated.
LEMMA FreeAddressFacts ==
  ASSUME \E a \in Addresses : heap[a] = Freed
  PROVE  FreeAddress \in Addresses /\ heap[FreeAddress] = Freed
<1> DEFINE S == {a \in Addresses : heap[a] = Freed}
<1>1. S \in SUBSET Nat /\ S # {}
  BY CacheAssumption DEF CacheAssumption
<1> HIDE DEF S
<1>2. \E m \in S : \A l \in S : m <= l
  BY <1>1, LeastOf
<1>3. Min(S) \in S
  BY <1>2 DEF Min
<1> QED
  BY <1>3 DEF S, FreeAddress

\* The capacity that a cache is given is at least two, and at least what it was; a cache
\* that keeps its buckets has room for one more entry.
LEMMA CapacityFacts ==
  ASSUME NEW k \in Caches, Counted(k, Cardinality(Used(k)))
  PROVE  LET n == NewCapacity(k) IN
         /\ n \in Nat
         /\ n # 0 => n >= 2 /\ k.mask <= n - 1
         /\ n = 0 => k.buckets # EmptyBuckets /\ k.occupied < k.mask
         /\ (IF IsConstantEmptyCache(k) THEN 0 ELSE k.buckets) = k.buckets
<1>1. k.mask \in Nat /\ k.occupied \in Nat
  BY DEF Caches
<1>2. InitCacheSize \in Nat /\ MaxCapacity \in Nat /\ InitCacheSize >= 2
  BY CacheAssumption DEF CacheAssumption
<1>3. Capacity(k) \in Nat /\ (k.mask = 0 => Capacity(k) = 0)
      /\ (k.mask # 0 => Capacity(k) = k.mask + 1 /\ Capacity(k) >= 2)
  BY <1>1 DEF Capacity
<1>4. CASE IsConstantEmptyCache(k)
  <2>1. NewCapacity(k) = IF Capacity(k) = 0 THEN InitCacheSize ELSE Capacity(k)
    BY <1>4 DEF NewCapacity
  <2> QED
    BY <1>1, <1>2, <1>3, <1>4, <2>1 DEF IsConstantEmptyCache, EmptyBuckets
<1>5. CASE ~IsConstantEmptyCache(k)
  <2>1. k.buckets # EmptyBuckets /\ k.mask >= 1
    BY <1>5 DEF IsConstantEmptyCache, Counted
  <2>2. CASE HasRoom(k)
    <3>1. NewCapacity(k) = 0
      BY <1>5, <2>2 DEF NewCapacity
    <3> DEFINE n == Capacity(k)
    <3>2. n = k.mask + 1 /\ n \in Nat /\ n >= 2
      BY <1>1, <1>3, <2>1
    <3>3. (n \div 4) * 3 < n /\ (n \div 4) * 3 \in Nat
      <4> HIDE DEF n
      <4> QED
        BY <3>2
    <3>4. k.occupied + 1 <= (n \div 4) * 3
      BY <2>2 DEF HasRoom
    <3> HIDE DEF n
    <3>5. k.occupied < k.mask
      BY <1>1, <3>2, <3>3, <3>4
    <3> QED
      BY <1>5, <2>1, <3>1, <3>5
  <2>3. CASE ~HasRoom(k)
    <3>1. NewCapacity(k) = Expanded(Capacity(k))
      BY <1>5, <2>3 DEF NewCapacity
    <3> QED
      BY <1>1, <1>2, <1>3, <1>5, <2>1, <3>1 DEF Expanded
  <2> QED
    BY <2>2, <2>3
<1> QED
  BY <1>4, <1>5
------------------------------------------------------------------------------
(* Types and control.                                                      *)

\* A step of one thread keeps types and control if it does so for that thread.
LEMMA ControlOf ==
  ASSUME TypeOK, Control, NEW t \in Threads, NEW r \in Regs, Become(t, r),
         methods' \in Lists, before' \in Lists, cache' \in [Classes -> Caches],
         garbage' \in SUBSET Addresses, readers' \in SUBSET Threads,
         writer' \in Threads \cup {NoThread}, cacheUpdateLock' \in Threads \cup {NoThread},
         \A u \in Threads \ {t} : /\ u \in readers' <=> u \in readers
                                  /\ writer' = u <=> writer = u
                                  /\ cacheUpdateLock' = u <=> cacheUpdateLock = u,
         readers' # {} => writer' = NoThread,
         Locks(t)'
  PROVE  TypeOK' /\ Control' /\ th'[t] = r /\ \A u \in Threads \ {t} : th'[u] = th[u]
<1>1. th \in [Threads -> Regs]
  BY DEF TypeOK
<1>2. th' \in [Threads -> Regs] /\ th'[t] = r /\ \A u \in Threads \ {t} : th'[u] = th[u]
  BY <1>1 DEF Become
<1>3. TypeOK'
  BY <1>2 DEF TypeOK
<1>4. ASSUME NEW u \in Threads, u # t
      PROVE  Locks(u)'
  <2>1. th'[u] = th[u] /\ Locks(u)
    BY <1>2, <1>4 DEF Control
  <2> QED
    BY <1>4, <2>1, LocksStay
<1>5. Control'
  BY <1>4 DEF Control
<1> QED
  BY <1>2, <1>3, <1>5

\* Each action in turn.  A message begins.
LEMMA SendControl ==
  ASSUME IInv, NEW t \in Threads, NEW c \in Classes, NEW s \in Sels, Send(t, c, s)
  PROVE  TypeOK' /\ Control'
<1> DEFINE i == [Idle EXCEPT !.cls = c, !.sel = s, !.seen = Visible(c, s)]
           r == ScanOf(i, c)
<1>1. TypeOK /\ Control /\ Locks(t) /\ th[t] \in Regs /\ th[t].pc = "idle" /\ t \notin readers
  BY DEF IInv, Control, TypeOK, Send, At, Locks, Critical
<1>2. Visible(c, s) \in SUBSET Found
  BY <1>1, ResolvedType DEF Visible, TypeOK
<1>3. i \in Regs /\ i.sel = s
      /\ i.slow = FALSE /\ i.alot = FALSE /\ i.after = "idle" /\ i.cls = c
  BY <1>2 DEF Idle, Regs, Registers, Labels, Found
<1>4. /\ r \in Regs /\ r.pc = "buckets" /\ r.slow = FALSE /\ r.alot = FALSE /\ r.cls = c
      /\ r.sel = s /\ r.cur = c /\ r.after = "idle"
  <2>1. i \in Regs /\ i.sel \in Nat /\ cache \in [Classes -> Caches]
    BY <1>1, <1>3, CacheAssumption DEF CacheAssumption, TypeOK
  <2> HIDE DEF i
  <2> QED
    BY <1>3, <2>1, ScanRegs
<1>5. Become(t, r) /\ UNCHANGED <<tables, memory, locks>>
  BY DEF Send
<1> HIDE DEF r
<1>6. th'[t] = r
  BY <1>1, <1>5 DEF Become, TypeOK
<1>7. Locks(t)'
  BY <1>1, <1>4, <1>5, <1>6 DEF Locks, Updating, InMessage, Critical, locks
<1> QED
  BY <1>1, <1>4, <1>5, <1>7, ControlOf DEF TypeOK, Control, tables, memory, locks

\* The scan loads the buckets.
LEMMA LoadBucketsControl ==
  ASSUME IInv, NEW t \in Threads, LoadBuckets(t)
  PROVE  TypeOK' /\ Control'
<1> DEFINE r == [th[t] EXCEPT !.pc = "probe", !.arr = cache[th[t].cur].buckets]
<1>1. TypeOK /\ Control /\ Locks(t) /\ th[t] \in Regs /\ th[t].pc = "buckets"
      /\ th[t].cur \in Classes
  BY DEF IInv, Control, TypeOK, LoadBuckets, At, Locks, Critical
<1>2. r \in Regs
  BY <1>1 DEF Regs, Registers, Labels, TypeOK, Caches, EmptyBuckets
<1>3. Become(t, r) /\ UNCHANGED <<tables, memory, locks>>
  BY DEF LoadBuckets
<1>4. th'[t] = r
  BY <1>1, <1>3 DEF Become, TypeOK
<1>5. Locks(t)'
  BY <1>1, <1>3, <1>4 DEF Locks, Updating, InMessage, Critical, locks, Regs, Registers
<1> HIDE DEF r
<1> QED
  BY <1>1, <1>2, <1>3, <1>5, ControlOf DEF TypeOK, Control, tables, memory, locks

\* What a turn of the scan may come to.
LookupEnds(t) ==
    LET b == Bucket(th[t].arr, th[t].idx)  c == th[t].cur  s == th[t].sel IN
    \/ b.key = s /\ (~th[t].slow \/ c = th[t].cls) /\ Answer(t, b.imp)
    \/ /\ th[t].slow /\ th[t].tried
       /\ \/ b.key = s /\ b.imp = Forward
          \/ methods[c][s] = NoImp /\ Superclass[c] = NoClass
       /\ GoOn(t, [NoScan(th[t], "fill") EXCEPT !.imp = Forward])
    \/ /\ th[t].slow
       /\ Become(t, [NoScan(th[t], "resolve") EXCEPT !.tried = TRUE, !.slow = FALSE])
       /\ readers' = readers \ {t} /\ UNCHANGED staleAnswer
    \/ /\ th[t].slow
       /\ \E imp : /\ \/ b.key = s /\ imp = b.imp
                      \/ imp = methods[c][s] /\ imp # NoImp
                   /\ GoOn(t, [NoScan(th[t], "fill") EXCEPT !.imp = imp])
LookupGoesOn(t) ==
    LET b == Bucket(th[t].arr, th[t].idx)  c == th[t].cur  s == th[t].sel IN
    \/ /\ th[t].slow /\ methods[c][s] = NoImp /\ Superclass[c] # NoClass
       /\ GoOn(t, ScanOf(th[t], Superclass[c]))
    \/ ~th[t].slow /\ GoOn(t, NoScan(th[t], "rdlock"))
    \/ b.key = EndMarker /\ GoOn(t, [th[t] EXCEPT !.idx = 0, !.wrapped = TRUE])
    \/ b.key \notin {0, EndMarker, s} /\ GoOn(t, [th[t] EXCEPT !.idx = @ + 1])

\* There is no other outcome.
LEMMA ProbeCases ==
  ASSUME NEW t \in Threads, Probe(t)
  PROVE  LookupEnds(t) \/ LookupGoesOn(t)
<1> DEFINE b == Bucket(th[t].arr, th[t].idx)
<1>1. CASE b.key = th[t].sel /\ Hit(t, b.imp)
  <2>1. CASE ~th[t].slow \/ th[t].cur = th[t].cls
    BY <1>1, <2>1 DEF Hit, LookupEnds
  <2>2. CASE ~(~th[t].slow \/ th[t].cur = th[t].cls) /\ b.imp = Forward
    BY <1>1, <2>2 DEF Hit, NotFound, LookupEnds
  <2>3. CASE ~(~th[t].slow \/ th[t].cur = th[t].cls) /\ b.imp # Forward
    BY <1>1, <2>3 DEF Hit, LookupEnds
  <2> QED
    BY <2>1, <2>2, <2>3
<1>2. CASE Miss(t)
  <2>1. CASE ~th[t].slow
    BY <1>2, <2>1 DEF Miss, LookupGoesOn
  <2>2. CASE th[t].slow /\ methods[th[t].cur][th[t].sel] # NoImp
    BY <1>2, <2>2 DEF Miss, SearchLists, LookupEnds
  <2>3. CASE th[t].slow /\ methods[th[t].cur][th[t].sel] = NoImp /\ Superclass[th[t].cur] # NoClass
    BY <1>2, <2>3 DEF Miss, SearchLists, LookupGoesOn
  <2>4. CASE th[t].slow /\ methods[th[t].cur][th[t].sel] = NoImp /\ Superclass[th[t].cur] = NoClass
    BY <1>2, <2>4 DEF Miss, SearchLists, NotFound, LookupEnds
  <2> QED
    BY <2>1, <2>2, <2>3, <2>4
<1>3. CASE b.key = EndMarker /\ GoOn(t, [th[t] EXCEPT !.idx = 0, !.wrapped = TRUE])
  BY <1>3 DEF LookupGoesOn
<1>4. CASE b.key \notin {0, EndMarker, th[t].sel} /\ GoOn(t, [th[t] EXCEPT !.idx = @ + 1])
  BY <1>4 DEF LookupGoesOn
<1> QED
  BY <1>1, <1>2, <1>3, <1>4 DEF Probe

\* One turn of the scan.
LEMMA ProbeControl ==
  ASSUME IInv, NEW t \in Threads, Probe(t)
  PROVE  TypeOK' /\ Control'
<1> DEFINE b == Bucket(th[t].arr, th[t].idx)
           c == th[t].cur
           s == th[t].sel
<1>1. TypeOK /\ Control /\ Memory /\ Locks(t) /\ th[t] \in Regs /\ th[t].pc = "probe"
      /\ c \in Classes /\ th[t].cls \in Classes /\ s \in Sels /\ s \in Nat
  BY CacheAssumption
     DEF CacheAssumption, IInv, Control, TypeOK, Probe, At, Locks, Critical, InMessage
<1>2. UNCHANGED <<tables, memory, writer, cacheUpdateLock>>
  BY DEF Probe
<1>3. b.imp \in Found
  <2>1. th[t].arr # EmptyBuckets =>
          /\ th[t].arr \in Addresses /\ heap[th[t].arr] # Freed
          /\ th[t].idx + 1 <= Len(heap[th[t].arr])
    BY <1>1 DEF Memory, ScanInBounds, Holds, Regs, Registers, EmptyBuckets
  <2>2. th[t].idx \in Nat
    BY <1>1 DEF Regs, Registers
  <2>3. b \in Entries
    BY <1>1, <2>1, <2>2, BucketType
  <2> HIDE DEF b
  <2> QED
    BY <2>3 DEF Entries
<1>4. methods[c][s] \in Found
  BY <1>1 DEF TypeOK, Lists, Found
<1>5. ASSUME NEW r \in Regs, Become(t, r), readers' \in {readers, readers \ {t}},
             t \in readers' <=> r.pc = "fill" \/ (r.pc \in {"buckets", "probe"} /\ r.slow),
             r.pc \in {"idle", "fill", "resolve", "buckets", "rdlock", "probe"},
             r.after = "idle", r.alot = FALSE,
             r.pc \in {"buckets", "probe"} => r.cur \in Classes,
             r.pc # "idle" => r.cls = th[t].cls /\ r.sel = s
      PROVE  TypeOK' /\ Control'
  <2>1. th'[t] = r
    BY <1>1, <1>5 DEF Become, TypeOK
  <2>2. Locks(t)'
    <3>1. writer # t /\ cacheUpdateLock # t
      BY <1>1 DEF Locks, Updating
    <3>2. writer' # t /\ cacheUpdateLock' # t
      BY <1>2, <3>1
    <3> HIDE DEF b, c, s
    <3> QED
      BY <1>1, <1>5, <2>1, <3>2 DEF Locks, Updating, InMessage, Critical, s
  <2> QED
    BY <1>1, <1>2, <1>5, <2>2, ControlOf DEF TypeOK, Control, tables, memory
<1>6. th[t].after = "idle" /\ th[t].alot = FALSE /\ (t \in readers <=> th[t].slow = TRUE)
  BY <1>1 DEF Locks, Critical, Regs, Registers
<1> HIDE DEF b, c, s
<1>7. ASSUME NEW p \in Labels, NEW imp \in Found
      PROVE  LET r == [NoScan(th[t], p) EXCEPT !.imp = imp] IN
             /\ r \in Regs /\ r.pc = p /\ r.after = "idle" /\ r.alot = FALSE
             /\ r.cls = th[t].cls /\ r.sel = s
  <2> DEFINE n == NoScan(th[t], p)
  <2>1. /\ n \in Regs /\ n.pc = p /\ n.after = "idle" /\ n.alot = FALSE
        /\ n.cls = th[t].cls /\ n.sel = s
    BY <1>1, <1>6, NoScanRegs DEF s
  <2> HIDE DEF n
  <2>2. LET r == [n EXCEPT !.imp = imp] IN
        /\ r \in Regs /\ r.pc = p /\ r.after = "idle" /\ r.alot = FALSE
        /\ r.cls = th[t].cls /\ r.sel = s
    BY <2>1 DEF Regs, Registers
  <2> QED
    BY <2>2 DEF n
<1>8. "fill" \in Labels /\ "resolve" \in Labels /\ "rdlock" \in Labels /\ Forward \in Found
  BY DEF Labels, Found
<1>9. CASE LookupEnds(t)
  <2>1. CASE Answer(t, b.imp)
    BY <1>5, <2>1, IdleRegs DEF Answer
  <2>2. ASSUME NEW imp \in Found, GoOn(t, [NoScan(th[t], "fill") EXCEPT !.imp = imp]),
               th[t].slow
        PROVE  TypeOK' /\ Control'
    <3> DEFINE r == [NoScan(th[t], "fill") EXCEPT !.imp = imp]
    <3>1. "fill" \in Labels /\ imp \in Found
      BY <1>8, <2>2
    <3>2. /\ r \in Regs /\ r.pc = "fill" /\ r.after = "idle" /\ r.alot = FALSE
          /\ r.cls = th[t].cls /\ r.sel = s
      BY <1>7, <3>1
    <3> HIDE DEF r
    <3> QED
      BY <1>5, <1>6, <2>2, <3>2 DEF GoOn, r
  <2>3. ASSUME Become(t, [NoScan(th[t], "resolve") EXCEPT !.tried = TRUE, !.slow = FALSE]),
               readers' = readers \ {t}
        PROVE  TypeOK' /\ Control'
    <3> DEFINE r == [NoScan(th[t], "resolve") EXCEPT !.tried = TRUE, !.slow = FALSE]
    <3>1. r \in Regs /\ r.pc = "resolve" /\ r.after = "idle" /\ r.alot = FALSE
          /\ r.cls = th[t].cls /\ r.sel = s
      <4> DEFINE q == NoScan(th[t], "resolve")
      <4>1. /\ q \in Regs /\ q.pc = "resolve" /\ q.after = "idle" /\ q.alot = FALSE
            /\ q.cls = th[t].cls /\ q.sel = s
        BY <1>1, <1>6, <1>8, NoScanRegs DEF s
      <4> HIDE DEF q
      <4>2. r = [q EXCEPT !.tried = TRUE, !.slow = FALSE]
        BY DEF q
      <4> HIDE DEF r
      <4> QED
        BY <4>1, <4>2 DEF Regs, Registers
    <3> HIDE DEF r
    <3> QED
      BY <1>5, <2>3, <3>1 DEF r
  <2> QED
    BY <1>3, <1>4, <1>8, <1>9, <2>1, <2>2, <2>3 DEF LookupEnds, b, c, s
<1>10. CASE LookupGoesOn(t)
  <2>1. CASE th[t].slow /\ Superclass[c] # NoClass /\ GoOn(t, ScanOf(th[t], Superclass[c]))
    <3>1. Superclass[c] \in Classes
      BY <1>1, <2>1, SupersOf
    <3> DEFINE r == ScanOf(th[t], Superclass[c])
    <3>2. /\ r \in Regs /\ r.pc = "buckets" /\ r.slow = th[t].slow /\ r.cur \in Classes
          /\ r.after = "idle" /\ r.alot = FALSE /\ r.cls = th[t].cls /\ r.sel = s
      BY <1>1, <1>6, <3>1, ScanRegs DEF TypeOK, s
    <3> HIDE DEF r
    <3> QED
      BY <1>5, <1>6, <2>1, <3>2 DEF GoOn, r
  <2>2. CASE ~th[t].slow /\ GoOn(t, NoScan(th[t], "rdlock"))
    <3> DEFINE r == NoScan(th[t], "rdlock")
    <3>1. r \in Regs /\ r.pc = "rdlock" /\ r.after = "idle" /\ r.alot = FALSE
          /\ r.cls = th[t].cls /\ r.sel = s
      BY <1>1, <1>6, <1>8, NoScanRegs DEF s
    <3> HIDE DEF r
    <3> QED
      BY <1>5, <1>6, <2>2, <3>1 DEF GoOn, r
  <2>3. CASE GoOn(t, [th[t] EXCEPT !.idx = 0, !.wrapped = TRUE])
    <3> DEFINE r == [th[t] EXCEPT !.idx = 0, !.wrapped = TRUE]
    <3>1. r \in Regs /\ r.pc = "probe" /\ r.slow = th[t].slow /\ r.cur \in Classes
          /\ r.after = "idle" /\ r.alot = FALSE /\ r.cls = th[t].cls /\ r.sel = s
      BY <1>1, <1>6 DEF Regs, Registers, s, c
    <3> HIDE DEF r
    <3> QED
      BY <1>5, <1>6, <2>3, <3>1 DEF GoOn, r
  <2>4. CASE GoOn(t, [th[t] EXCEPT !.idx = @ + 1])
    <3> DEFINE r == [th[t] EXCEPT !.idx = @ + 1]
    <3>1. r \in Regs /\ r.pc = "probe" /\ r.slow = th[t].slow /\ r.cur \in Classes
          /\ r.after = "idle" /\ r.alot = FALSE /\ r.cls = th[t].cls /\ r.sel = s
      BY <1>1, <1>6 DEF Regs, Registers, s, c
    <3> HIDE DEF r
    <3> QED
      BY <1>5, <1>6, <2>4, <3>1 DEF GoOn, r
  <2> QED
    BY <1>10, <2>1, <2>2, <2>3, <2>4 DEF LookupGoesOn, c
<1> QED
  BY <1>9, <1>10, ProbeCases

\* A lookup takes runtimeLock for reading.
LEMMA LockRuntimeReadControl ==
  ASSUME IInv, NEW t \in Threads, LockRuntimeRead(t)
  PROVE  TypeOK' /\ Control'
<1> DEFINE q == ScanOf(th[t], th[t].cls)
           r == [q EXCEPT !.slow = TRUE]
<1>1. TypeOK /\ Control /\ Locks(t) /\ th[t] \in Regs /\ th[t].pc \in {"rdlock", "resolve"}
      /\ th[t].cls \in Classes /\ th[t].sel \in Sels /\ th[t].sel \in Nat
  BY CacheAssumption DEF CacheAssumption, IInv, Control, TypeOK, LockRuntimeRead, At, Locks,
     InMessage
<1>2. writer = NoThread /\ readers' = readers \cup {t} /\ Become(t, r)
      /\ UNCHANGED <<tables, memory, writer, cacheUpdateLock>>
  BY DEF LockRuntimeRead
<1>3. writer # t /\ cacheUpdateLock # t /\ th[t].after = "idle" /\ th[t].alot = FALSE
  BY <1>1 DEF Locks, Updating, Regs, Registers
<1>4. /\ r \in Regs /\ r.pc = "buckets" /\ r.slow = TRUE /\ r.cur \in Classes
      /\ r.after = "idle" /\ r.alot = FALSE /\ r.cls = th[t].cls /\ r.sel = th[t].sel
  <2>1. /\ q \in Regs /\ q.pc = "buckets" /\ q.cur \in Classes
        /\ q.after = "idle" /\ q.alot = FALSE /\ q.cls = th[t].cls /\ q.sel = th[t].sel
    BY <1>1, <1>3, ScanRegs DEF TypeOK
  <2> HIDE DEF q
  <2> QED
    BY <2>1 DEF Regs, Registers
<1> HIDE DEF r
<1>5. th'[t] = r
  BY <1>1, <1>2 DEF Become, TypeOK
<1>6. Locks(t)'
  BY <1>1, <1>2, <1>3, <1>4, <1>5 DEF Locks, Updating, InMessage, Critical
<1> QED
  BY <1>1, <1>2, <1>4, <1>6, ControlOf DEF TypeOK, Control, tables, memory

\* The class that a thread works on.
LEMMA TargetFacts ==
  ASSUME TypeOK, Control, NEW t \in Threads,
         t \in readers \/ th[t].pc \in {"setBuckets", "setMask", "setImp", "setKey"}
  PROVE  /\ Target(t) \in Classes
         /\ t \in readers => Target(t) = th[t].cls /\ writer # t
         /\ th[t].pc \in {"setImp", "setKey"} => t \in readers
         /\ th[t].pc \in {"setBuckets", "setMask"} /\ t \notin readers => writer = t
<1>1. Locks(t) /\ NoThread \notin Threads
  BY CacheAssumption DEF Control, CacheAssumption
<1>2. t \in readers => writer = NoThread
  BY DEF Control
<1> QED
  BY <1>1, <1>2 DEF Locks, InMessage, Target, Filling

\* A cache is filled: nothing is left to do, there is room, or an array is allocated.
FillAnswers(t) ==
    /\ Bucket(cache[th[t].cls].buckets, FindBucket(cache[th[t].cls], th[t].sel)).key = th[t].sel
    /\ Answer(t, th[t].imp) /\ UNCHANGED <<heap, cacheUpdateLock>>
FillHasRoom(t) ==
    /\ Bucket(cache[th[t].cls].buckets, FindBucket(cache[th[t].cls], th[t].sel)).key # th[t].sel
    /\ cache[th[t].cls].buckets # EmptyBuckets
    /\ cache[th[t].cls].occupied < cache[th[t].cls].mask
    /\ cacheUpdateLock' = t /\ GoOn(t, NoScan(th[t], "setImp")) /\ UNCHANGED heap
FillAllocates(t) ==
    LET n == NewCapacity(cache[th[t].cls]) IN
    /\ n \in Nat /\ n >= 2 /\ cache[th[t].cls].mask <= n - 1
    /\ FreeAddress \in Addresses /\ heap[FreeAddress] = Freed
    /\ cacheUpdateLock' = t /\ heap' = [heap EXCEPT ![FreeAddress] = NewBuckets(n)]
    /\ GoOn(t, [th[t] EXCEPT !.pc = "setBuckets", !.arr = FreeAddress, !.mask = n - 1,
                             !.old = cache[th[t].cls].buckets])

\* There is no other outcome, and nobody else is at work on the cache.
LEMMA FillCases ==
  ASSUME IInv, NEW t \in Threads, Fill(t)
  PROVE  /\ th[t].cls \in Classes /\ th[t].sel \in Sels /\ t \in readers
         /\ cache[th[t].cls] \in Caches /\ ~Busy(th[t].cls)
         /\ Counted(cache[th[t].cls], Cardinality(Used(cache[th[t].cls])))
         /\ FillAnswers(t) \/ FillHasRoom(t) \/ FillAllocates(t)
<1> DEFINE k == cache[th[t].cls]
           n == NewCapacity(k)
<1>1. TypeOK /\ Control /\ Memory /\ Locks(t) /\ th[t].pc = "fill" /\ t \in readers
      /\ cacheUpdateLock = NoThread
  BY DEF IInv, Control, Fill, At, Locks
<1>2. th[t].cls \in Classes /\ th[t].sel \in Sels /\ k \in Caches
  BY <1>1 DEF Locks, InMessage, TypeOK
<1>3. ~Busy(th[t].cls)
  BY <1>1, NobodyBusy
<1>4. Counted(k, Cardinality(Used(k)))
  BY <1>1, <1>2, <1>3 DEF Memory, CacheCounts
<1>5. /\ n \in Nat
      /\ n # 0 => n >= 2 /\ k.mask <= n - 1
      /\ n = 0 => k.buckets # EmptyBuckets /\ k.occupied < k.mask
      /\ (IF IsConstantEmptyCache(k) THEN 0 ELSE k.buckets) = k.buckets
  <2> HIDE DEF k
  <2> QED
    BY <1>2, <1>4, CapacityFacts
<1>6. CASE CachedImp(k, th[t].sel).key = th[t].sel
  <2>1. Answer(t, th[t].imp) /\ UNCHANGED <<heap, cacheUpdateLock>>
    BY <1>6 DEF Fill
  <2> QED
    BY <1>1, <1>2, <1>3, <1>4, <1>6, <2>1 DEF FillAnswers, CachedImp
<1>7. CASE CachedImp(k, th[t].sel).key # th[t].sel /\ n = 0
  <2>1. cacheUpdateLock' = t /\ GoOn(t, NoScan(th[t], "setImp")) /\ UNCHANGED heap
    BY <1>7 DEF Fill
  <2> QED
    BY <1>1, <1>2, <1>3, <1>4, <1>5, <1>7, <2>1 DEF FillHasRoom, CachedImp
<1>8. CASE CachedImp(k, th[t].sel).key # th[t].sel /\ n # 0
  <2>1. /\ cacheUpdateLock' = t
        /\ \E a \in Addresses : heap[a] = Freed
        /\ heap' = [heap EXCEPT ![FreeAddress] = NewBuckets(n)]
        /\ GoOn(t, [th[t] EXCEPT !.pc = "setBuckets", !.arr = FreeAddress,
                   !.mask = n - 1,
                   !.old = IF IsConstantEmptyCache(k) THEN 0 ELSE k.buckets])
    BY <1>8 DEF Fill
  <2>2. FreeAddress \in Addresses /\ heap[FreeAddress] = Freed
    BY <2>1, FreeAddressFacts
  <2>3. GoOn(t, [th[t] EXCEPT !.pc = "setBuckets", !.arr = FreeAddress,
                 !.mask = n - 1, !.old = k.buckets])
    BY <1>5, <2>1
  <2>4. FillAllocates(t)
    <3>1. n >= 2 /\ k.mask <= n - 1
      BY <1>5, <1>8
    <3> QED
      BY <1>5, <2>1, <2>2, <2>3, <3>1 DEF FillAllocates
  <2> QED
    BY <1>1, <1>2, <1>3, <1>4, <2>4
<1> QED
  BY <1>6, <1>7, <1>8

\* A lookup takes cacheUpdateLock to fill the cache.
LEMMA FillControl ==
  ASSUME IInv, NEW t \in Threads, Fill(t)
  PROVE  TypeOK' /\ Control'
<1> DEFINE k == cache[th[t].cls]
           n == NewCapacity(k)
<1>1. TypeOK /\ Control /\ Locks(t) /\ th[t] \in Regs /\ th[t].pc = "fill" /\ t \in readers
      /\ cacheUpdateLock = NoThread /\ NoThread \notin Threads
  BY CacheAssumption DEF CacheAssumption, IInv, Control, TypeOK, Fill, At, Locks
<1>2. UNCHANGED <<tables, cache, garbage, writer>>
  BY DEF Fill
<1>3. th[t].cls \in Classes /\ th[t].sel \in Sels /\ writer = NoThread /\ k \in Caches
  BY <1>1, FillCases DEF Control
<1>4. th[t].after = "idle" /\ th[t].alot = FALSE
  BY <1>1, <1>3 DEF Locks, Regs, Registers
<1>5. CASE FillAnswers(t)
  <2>1. Become(t, Idle) /\ readers' = readers \ {t} /\ cacheUpdateLock' = cacheUpdateLock
    BY <1>5 DEF FillAnswers, Answer
  <2>2. th'[t] = Idle
    BY <1>1, <2>1 DEF Become, TypeOK
  <2>3. Locks(t)'
    BY <1>1, <1>2, <1>3, <2>1, <2>2, IdleRegs DEF Locks, Updating, InMessage, Critical
  <2> QED
    BY <1>1, <1>2, <2>1, <2>3, ControlOf, IdleRegs DEF TypeOK, Control, tables
<1>6. ASSUME NEW r \in Regs, r.pc \in {"setImp", "setBuckets"}, r.after = "idle",
             r.alot = FALSE, r.cls = th[t].cls, r.sel = th[t].sel, GoOn(t, r),
             cacheUpdateLock' = t
      PROVE  TypeOK' /\ Control'
  <2>1. th'[t] = r /\ readers' = readers
    BY <1>1, <1>6 DEF Become, TypeOK, GoOn
  <2>2. Locks(t)'
    BY <1>1, <1>2, <1>3, <1>6, <2>1 DEF Locks, Updating, InMessage, Critical
  <2> QED
    BY <1>1, <1>2, <1>6, <2>1, <2>2, ControlOf DEF TypeOK, Control, tables, GoOn
<1>7. CASE FillHasRoom(t)
  <2> DEFINE r == NoScan(th[t], "setImp")
  <2>1. /\ r \in Regs /\ r.pc = "setImp" /\ r.after = "idle" /\ r.alot = FALSE
        /\ r.cls = th[t].cls /\ r.sel = th[t].sel
    BY <1>1, <1>4, NoScanRegs DEF Labels
  <2> HIDE DEF r
  <2> QED
    BY <1>6, <1>7, <2>1 DEF FillHasRoom, r
<1>8. CASE FillAllocates(t)
  <2> DEFINE r == [th[t] EXCEPT !.pc = "setBuckets", !.arr = FreeAddress, !.mask = n - 1,
                                !.old = k.buckets]
  <2>1. n - 1 \in Nat /\ FreeAddress \in Addresses /\ k.buckets \in Addresses \cup {0}
    BY <1>3, <1>8 DEF FillAllocates, Caches, EmptyBuckets
  <2> HIDE DEF n, k
  <2>2. /\ r \in Regs /\ r.pc = "setBuckets" /\ r.after = "idle" /\ r.alot = FALSE
        /\ r.cls = th[t].cls /\ r.sel = th[t].sel
    BY <1>1, <1>4, <2>1 DEF Regs, Registers, Labels
  <2> HIDE DEF r
  <2> QED
    BY <1>6, <1>8, <2>2 DEF FillAllocates, r, n, k
<1> QED
  BY <1>5, <1>7, <1>8, FillCases

\* The new buckets are stored.
LEMMA SetBucketsControl ==
  ASSUME IInv, NEW t \in Threads, SetBuckets(t)
  PROVE  TypeOK' /\ Control'
<1> DEFINE r == [th[t] EXCEPT !.pc = "setMask"]
<1>1. TypeOK /\ Control /\ Locks(t) /\ th[t] \in Regs /\ th[t].pc = "setBuckets"
      /\ NoThread \notin Threads /\ Target(t) \in Classes
  BY CacheAssumption, TargetFacts
     DEF CacheAssumption, IInv, Control, TypeOK, SetBuckets, At
<1>2. Become(t, r) /\ UNCHANGED <<tables, heap, garbage, locks, staleAnswer>>
  BY DEF SetBuckets
<1>3. cache' \in [Classes -> Caches]
  BY <1>1 DEF SetBuckets, StoreFirst, TypeOK, Caches, Regs, Registers, EmptyBuckets
<1>4. r \in Regs
  BY <1>1 DEF Regs, Registers, Labels
<1>5. th'[t] = r
  BY <1>1, <1>2 DEF Become, TypeOK
<1>6. Locks(t)'
  BY <1>1, <1>2, <1>5 DEF Locks, Updating, InMessage, Critical, locks, Regs, Registers
<1> HIDE DEF r
<1> QED
  BY <1>1, <1>2, <1>3, <1>4, <1>6, ControlOf DEF TypeOK, Control, tables, locks

\* The registers after the mask is stored: to the scan of a collection, or on.
LEMMA AfterSetMask ==
  ASSUME TypeOK, Control, NEW t \in Threads, SetMask(t)
  PROVE  \E r \in Regs :
           /\ Become(t, r)
           /\ \/ r.pc = "scan" /\ r.scan = Threads \ {t}
              \/ r.pc = Continue(t)
           /\ r.cls = th[t].cls /\ r.sel = th[t].sel /\ r.imp = th[t].imp /\ r.slow = th[t].slow
           /\ r.todo = th[t].todo /\ r.alot = th[t].alot /\ r.after = th[t].after
           /\ r.seen = th[t].seen
<1> DEFINE collect == th[t].old # 0 /\ Collects(garbage')
           p == IF collect THEN "scan" ELSE Continue(t)
           S == IF collect THEN Threads \ {t} ELSE {}
           q == NoScan(th[t], p)
           r == [q EXCEPT !.old = 0, !.mask = 0, !.scan = S]
<1>1. Become(t, r)
  BY DEF SetMask
<1>2. p \in Labels /\ S \in SUBSET Threads /\ th[t] \in Regs
  BY DEF Labels, Continue, TypeOK
<1>3. (p = "scan" /\ S = Threads \ {t}) \/ p = Continue(t)
  OBVIOUS
<1> HIDE DEF p, S
<1>4. /\ q \in Regs /\ q.pc = p
      /\ q.cls = th[t].cls /\ q.sel = th[t].sel /\ q.imp = th[t].imp /\ q.slow = th[t].slow
      /\ q.todo = th[t].todo /\ q.alot = th[t].alot /\ q.after = th[t].after
      /\ q.seen = th[t].seen
  BY <1>2, NoScanRegs
<1> HIDE DEF q
<1>5. /\ r \in Regs /\ r.pc = p /\ r.scan = S
      /\ r.cls = th[t].cls /\ r.sel = th[t].sel /\ r.imp = th[t].imp /\ r.slow = th[t].slow
      /\ r.todo = th[t].todo /\ r.alot = th[t].alot /\ r.after = th[t].after
      /\ r.seen = th[t].seen
  <2>1. /\ r.pc = q.pc /\ r.scan = S /\ r.cls = q.cls /\ r.sel = q.sel /\ r.imp = q.imp
        /\ r.slow = q.slow /\ r.todo = q.todo /\ r.alot = q.alot /\ r.after = q.after
        /\ r.seen = q.seen
    BY <1>4 DEF Regs, Registers
  <2>2. r \in Registers
    BY <1>2, <1>4 DEF Regs, Registers
  <2>3. r \in Regs
    BY <1>4, <2>1, <2>2 DEF Regs
  <2> HIDE DEF r
  <2> QED
    BY <1>4, <2>1, <2>3
<1> QED
  BY <1>1, <1>3, <1>5

\* The mask is stored, and the old buckets go to waste.
LEMMA SetMaskControl ==
  ASSUME IInv, NEW t \in Threads, SetMask(t)
  PROVE  TypeOK' /\ Control'
<1>1. TypeOK /\ Control /\ Locks(t) /\ th[t] \in Regs /\ th[t].pc = "setMask"
      /\ NoThread \notin Threads /\ Target(t) \in Classes
      /\ (t \notin readers => writer = t) /\ cacheUpdateLock = t
  BY CacheAssumption, TargetFacts
     DEF CacheAssumption, IInv, Control, TypeOK, SetMask, At, Locks, Updating
<1>2. UNCHANGED <<tables, heap, locks, staleAnswer>>
  BY DEF SetMask
<1>3. cache' \in [Classes -> Caches]
  BY <1>1 DEF SetMask, TypeOK, Caches, Regs, Registers, EmptyBuckets
<1>4. garbage' \in SUBSET Addresses
  BY <1>1 DEF SetMask, TypeOK, Regs, Registers
<1>5. PICK r \in Regs :
        /\ Become(t, r)
        /\ \/ r.pc = "scan" /\ r.scan = Threads \ {t}
           \/ r.pc = Continue(t)
        /\ r.cls = th[t].cls /\ r.sel = th[t].sel /\ r.alot = th[t].alot
        /\ r.after = th[t].after
  BY <1>1, AfterSetMask
<1>6. th'[t] = r
  BY <1>1, <1>5 DEF Become, TypeOK
<1>7. th[t].alot = FALSE
  BY <1>1 DEF Locks, Regs, Registers
<1>8. Locks(t)'
  <2>1. CASE t \in readers
    BY <1>1, <1>2, <1>5, <1>6, <1>7, <2>1
       DEF Locks, Updating, InMessage, Critical, locks, Continue, Filling
  <2>2. CASE t \notin readers
    BY <1>1, <1>2, <1>5, <1>6, <1>7, <2>2
       DEF Locks, Updating, InMessage, Critical, locks, Continue, Filling
  <2> QED
    BY <2>1, <2>2
<1> QED
  BY <1>1, <1>2, <1>3, <1>4, <1>5, <1>8, ControlOf DEF TypeOK, Control, tables, locks

\* The bucket is reserved and its imp written.
LEMMA SetImpControl ==
  ASSUME IInv, NEW t \in Threads, SetImp(t)
  PROVE  TypeOK' /\ Control'
<1> DEFINE i == FindBucket(cache[th[t].cls], th[t].sel)
           r == [th[t] EXCEPT !.pc = "setKey", !.idx = i]
<1>1. TypeOK /\ Control /\ Memory /\ Locks(t) /\ th[t] \in Regs /\ th[t].pc = "setImp"
      /\ t \in readers /\ cacheUpdateLock = t /\ th[t].cls \in Classes /\ th[t].sel \in Sels
  BY DEF IInv, Control, TypeOK, SetImp, At, Locks, Updating, InMessage
<1>2. Become(t, r) /\ UNCHANGED <<tables, garbage, locks, staleAnswer>>
      /\ cache' = [cache EXCEPT ![th[t].cls].occupied = @ + 1]
  BY DEF SetImp
<1>3. cache' \in [Classes -> Caches]
  BY <1>1, <1>2 DEF TypeOK, Caches
<1>4. i \in Nat
  <2>1. ~Busy(th[t].cls)
    BY <1>1, NobodyBusy
  <2>2. cache[th[t].cls].mask \in Nat
    BY <1>1 DEF TypeOK, Caches
  <2> QED
    BY <1>1, <2>1, <2>2, FindInCache
<1> HIDE DEF i
<1>5. r \in Regs
  BY <1>1, <1>4 DEF Regs, Registers, Labels
<1>6. th'[t] = r
  BY <1>1, <1>2 DEF Become, TypeOK
<1>7. Locks(t)'
  BY <1>1, <1>2, <1>6 DEF Locks, Updating, InMessage, Critical, locks, Regs, Registers
<1> HIDE DEF r
<1> QED
  BY <1>1, <1>2, <1>3, <1>5, <1>7, ControlOf DEF TypeOK, Control, tables, locks

\* The key is written, and the lookup returns.
LEMMA SetKeyControl ==
  ASSUME IInv, NEW t \in Threads, SetKey(t)
  PROVE  TypeOK' /\ Control'
<1>1. TypeOK /\ Control /\ Locks(t) /\ th[t].pc = "setKey" /\ cacheUpdateLock = t
      /\ NoThread \notin Threads /\ writer # t
  BY CacheAssumption DEF CacheAssumption, IInv, Control, SetKey, At, Locks, Updating
<1>2. Become(t, Idle) /\ readers' = readers \ {t} /\ cacheUpdateLock' = NoThread
      /\ UNCHANGED <<tables, cache, garbage, writer>>
  BY DEF SetKey, Answer
<1>3. th'[t] = Idle
  BY <1>1, <1>2 DEF Become, TypeOK
<1>4. Locks(t)'
  BY <1>1, <1>2, <1>3, IdleRegs DEF Locks, Updating, InMessage, Critical
<1> QED
  BY <1>1, <1>2, <1>4, ControlOf, IdleRegs DEF TypeOK, Control, tables

\* A collection looks at a thread.
LEMMA ScanControl ==
  ASSUME IInv, NEW t \in Threads, Scan(t)
  PROVE  TypeOK' /\ Control'
<1>1. TypeOK /\ Control /\ Locks(t) /\ th[t] \in Regs /\ th[t].pc = "scan"
      /\ NoThread \notin Threads /\ cacheUpdateLock = t
  BY CacheAssumption DEF CacheAssumption, IInv, Control, TypeOK, Scan, At, Locks, Updating
<1>2. UNCHANGED <<tables, memory, locks, staleAnswer>>
  BY DEF Scan
<1>3. ASSUME NEW r \in Regs, Become(t, r), r.alot = th[t].alot, r.after = th[t].after,
             r.cls = th[t].cls, r.sel = th[t].sel, t \notin r.scan,
             \/ r.pc = "scan"
             \/ th[t].alot = FALSE /\ r.pc = Continue(t)
      PROVE  TypeOK' /\ Control'
  <2>1. th'[t] = r
    BY <1>1, <1>3 DEF Become, TypeOK
  <2>2. Locks(t)'
    <3>1. CASE t \in readers
      BY <1>1, <1>2, <1>3, <2>1, <3>1
         DEF Locks, Updating, InMessage, Critical, locks, Continue, Filling
    <3>2. CASE t \notin readers
      BY <1>1, <1>2, <1>3, <2>1, <3>2
         DEF Locks, Updating, InMessage, Critical, locks, Continue, Filling
    <3> QED
      BY <3>1, <3>2
  <2> QED
    BY <1>1, <1>2, <1>3, <2>2, ControlOf DEF TypeOK, Control, tables, memory, locks
<1>4. PICK u \in th[t].scan :
         IF ~InCritical(u) THEN Become(t, [th[t] EXCEPT !.scan = @ \ {u}])
         ELSE IF th[t].alot THEN Become(t, [th[t] EXCEPT !.scan = Threads \ {t}])
         ELSE Become(t, [th[t] EXCEPT !.pc = Continue(t), !.scan = {}])
  BY DEF Scan
<1>5. t \notin th[t].scan /\ th[t].scan \in SUBSET Threads /\ th[t].alot \in BOOLEAN
  BY <1>1 DEF Locks, Regs, Registers
<1>6. ASSUME NEW S \in SUBSET (Threads \ {t}), NEW p \in {"scan", Continue(t)}
      PROVE  LET r == [th[t] EXCEPT !.pc = p, !.scan = S] IN
             /\ r \in Regs /\ r.pc = p /\ r.alot = th[t].alot /\ r.after = th[t].after
             /\ r.cls = th[t].cls /\ r.sel = th[t].sel /\ t \notin r.scan
  <2>1. p \in Labels
    BY <1>6 DEF Continue, Labels
  <2> QED
    BY <1>1, <2>1 DEF Regs, Registers
<1>7. \A S : [th[t] EXCEPT !.scan = S] = [th[t] EXCEPT !.pc = "scan", !.scan = S]
  BY <1>1 DEF Regs, Registers
<1>8. CASE ~InCritical(u)
  <2> DEFINE S == th[t].scan \ {u}
             r == [th[t] EXCEPT !.pc = "scan", !.scan = S]
  <2>1. Become(t, r)
    BY <1>4, <1>7, <1>8
  <2>2. S \in SUBSET (Threads \ {t})
    BY <1>5
  <2> HIDE DEF S
  <2>3. /\ r \in Regs /\ r.pc = "scan" /\ r.alot = th[t].alot /\ r.after = th[t].after
        /\ r.cls = th[t].cls /\ r.sel = th[t].sel /\ t \notin r.scan
    BY <1>6, <2>2
  <2> HIDE DEF r
  <2> QED
    BY <1>3, <2>1, <2>3
<1>9. CASE InCritical(u) /\ th[t].alot
  <2> DEFINE S == Threads \ {t}
             r == [th[t] EXCEPT !.pc = "scan", !.scan = S]
  <2>1. Become(t, r)
    BY <1>4, <1>7, <1>9
  <2>2. S \in SUBSET (Threads \ {t})
    OBVIOUS
  <2> HIDE DEF S
  <2>3. /\ r \in Regs /\ r.pc = "scan" /\ r.alot = th[t].alot /\ r.after = th[t].after
        /\ r.cls = th[t].cls /\ r.sel = th[t].sel /\ t \notin r.scan
    BY <1>6, <2>2
  <2> HIDE DEF r
  <2> QED
    BY <1>3, <2>1, <2>3
<1>10. CASE InCritical(u) /\ ~th[t].alot
  <2> DEFINE r == [th[t] EXCEPT !.pc = Continue(t), !.scan = {}]
  <2>1. Become(t, r)
    BY <1>4, <1>10
  <2>2. /\ r \in Regs /\ r.pc = Continue(t) /\ r.alot = th[t].alot /\ r.after = th[t].after
        /\ r.cls = th[t].cls /\ r.sel = th[t].sel /\ t \notin r.scan
    BY <1>6
  <2> HIDE DEF r
  <2> QED
    BY <1>3, <1>5, <1>10, <2>1, <2>2
<1> QED
  BY <1>8, <1>9, <1>10

\* A collection frees the garbage.
LEMMA FreeGarbageControl ==
  ASSUME IInv, NEW t \in Threads, FreeGarbage(t)
  PROVE  TypeOK' /\ Control'
<1>1. TypeOK /\ Control /\ Locks(t) /\ th[t] \in Regs /\ th[t].pc = "scan"
      /\ NoThread \notin Threads /\ cacheUpdateLock = t /\ th[t].alot \in BOOLEAN
  BY CacheAssumption
     DEF CacheAssumption, IInv, Control, TypeOK, FreeGarbage, At, Locks, Updating, Regs, Registers
<1>2. UNCHANGED <<tables, cache, readers, writer, staleAnswer>> /\ garbage' = {}
  BY DEF FreeGarbage
<1>3. CASE th[t].alot
  <2>1. Become(t, Idle) /\ cacheUpdateLock' = NoThread
    BY <1>3 DEF FreeGarbage
  <2>2. th'[t] = Idle
    BY <1>1, <2>1 DEF Become, TypeOK
  <2>3. Locks(t)'
    BY <1>1, <1>2, <1>3, <2>1, <2>2, IdleRegs DEF Locks, Updating, InMessage, Critical
  <2> QED
    BY <1>1, <1>2, <2>1, <2>3, ControlOf, IdleRegs DEF TypeOK, Control, tables
<1>4. CASE ~th[t].alot
  <2> DEFINE r == [th[t] EXCEPT !.pc = Continue(t)]
  <2>1. Become(t, r) /\ cacheUpdateLock' = cacheUpdateLock
    BY <1>4 DEF FreeGarbage
  <2>2. r \in Regs /\ r.pc = Continue(t) /\ r.alot = FALSE /\ r.after = th[t].after
        /\ r.cls = th[t].cls /\ r.sel = th[t].sel
    <3>1. Continue(t) \in Labels
      BY DEF Continue, Labels
    <3> QED
      BY <1>1, <1>4, <3>1 DEF Regs, Registers
  <2> HIDE DEF r
  <2>3. th'[t] = r
    BY <1>1, <2>1 DEF Become, TypeOK
  <2>4. Locks(t)'
    <3>1. CASE t \in readers
      BY <1>1, <1>2, <1>4, <2>1, <2>2, <2>3, <3>1
         DEF Locks, Updating, InMessage, Critical, Continue, Filling
    <3>2. CASE t \notin readers
      BY <1>1, <1>2, <1>4, <2>1, <2>2, <2>3, <3>2
         DEF Locks, Updating, InMessage, Critical, Continue, Filling
    <3> QED
      BY <3>1, <3>2
  <2> QED
    BY <1>1, <1>2, <2>1, <2>2, <2>4, ControlOf DEF TypeOK, Control, tables
<1> QED
  BY <1>3, <1>4

\* What a change makes of the method lists is what they are but for the classes whose
\* caches it flushes and those above none of them.
LEMMA ChangeFacts ==
  ASSUME TypeOK, NEW ch \in Changes \cup {FlushAll}
  PROVE  /\ ch.to \in Lists /\ ch.flush \in SUBSET Classes
         /\ \A c \in Classes \ ch.flush, s \in Sels :
              Resolved(ch.to, c, s) = Resolved(methods, c, s)
<1>1. methods \in Lists
  BY DEF TypeOK
<1>2. Changed \in SUBSET (Classes \X Sels)
  BY CacheAssumption DEF CacheAssumption
<1>3. ASSUME NEW x \in Changed, NEW i \in Imps, ch = AddMethod(x[1], x[2], i)
      PROVE  /\ ch.to \in Lists /\ ch.flush \in SUBSET Classes
             /\ \A c \in Classes \ ch.flush, s \in Sels :
                  Resolved(ch.to, c, s) = Resolved(methods, c, s)
  <2>1. x[1] \in Classes /\ x[2] \in Sels
    BY <1>2
  <2>2. ch.to = [methods EXCEPT ![x[1]][x[2]] = i] /\ ch.flush = Subclasses(x[1])
    BY <1>3 DEF AddMethod
  <2>3. ch.to \in Lists
    BY <1>1, <2>1, <2>2 DEF Lists
  <2>4. ch.flush \in SUBSET Classes
    BY <2>2 DEF Subclasses
  <2>5. ASSUME NEW c \in Classes \ ch.flush, NEW s \in Sels
        PROVE  Resolved(ch.to, c, s) = Resolved(methods, c, s)
    <3>1. x[1] \notin Supers[c] /\ Supers[c] \in SUBSET Classes
      BY <2>2, SupersClosed DEF Subclasses
    <3>2. \A d \in Supers[c] : ch.to[d][s] = methods[d][s]
      BY <1>1, <2>2, <3>1 DEF Lists
    <3> QED
      BY <3>2, ResolvedSame
  <2> QED
    BY <2>3, <2>4, <2>5
<1>4. ASSUME NEW x \in Changed, NEW i \in Imps, ch = SetImplementation(x[1], x[2], i)
      PROVE  ch.to \in Lists /\ ch.flush = Classes
  BY <1>1, <1>2, <1>4 DEF SetImplementation, Lists
<1>5. ASSUME NEW c \in Classes, NEW d \in Classes, NEW s \in Sels, ch = Exchange(c, d, s)
      PROVE  ch.to \in Lists /\ ch.flush = Classes
  <2>1. methods[d][s] \in Imps \cup {NoImp} /\ methods[c][s] \in Imps \cup {NoImp}
    BY <1>1 DEF Lists
  <2>2. ch.flush = Classes
        /\ ch.to = [methods EXCEPT ![c][s] = methods[d][s], ![d][s] = methods[c][s]]
    BY <1>5 DEF Exchange
  <2> DEFINE one == [methods EXCEPT ![c][s] = methods[d][s]]
  <2>3. one \in Lists
    BY <1>1, <2>1 DEF Lists
  <2>4. ch.to = [one EXCEPT ![d][s] = methods[c][s]]
    BY <2>2
  <2> HIDE DEF one
  <2>5. ch.to \in Lists
    BY <2>1, <2>3, <2>4 DEF Lists
  <2> QED
    BY <2>2, <2>5
<1>6. ASSUME ch = FlushAll
      PROVE  ch.to \in Lists /\ ch.flush = Classes
  BY <1>1, <1>6 DEF FlushAll
<1>7. \/ \E x \in Changed, i \in Imps :
           ch = AddMethod(x[1], x[2], i) \/ ch = SetImplementation(x[1], x[2], i)
      \/ \E c \in Classes, d \in Classes, s \in Sels : ch = Exchange(c, d, s)
      \/ ch = FlushAll
  BY DEF Changes
<1> QED
  BY <1>3, <1>4, <1>5, <1>6, <1>7

\* The state after a change of the method lists.
LEMMA ChangeCases ==
  ASSUME IInv, NEW t \in Threads, StartChange(t)
  PROVE  \E to \in Lists, flush \in SUBSET Classes :
           /\ methods' = to /\ writer' = t /\ readers = {} /\ writer = NoThread
           /\ th[t].pc \in {"idle", "resolve"}
           /\ UNCHANGED <<before, memory, readers, cacheUpdateLock, staleAnswer>>
           /\ \A c \in Classes \ flush, s \in Sels :
                Resolved(to, c, s) = Resolved(methods, c, s)
           /\ th' \in [Threads -> Regs]
           /\ \A u \in Threads : LET r == th[u]  q == th'[u] IN
                /\ u # t => q.pc = r.pc /\ q.todo = r.todo /\ q.after = r.after
                /\ q.cur = r.cur /\ q.arr = r.arr /\ q.idx = r.idx
                /\ q.cls = r.cls /\ q.sel = r.sel /\ q.imp = r.imp /\ q.slow = r.slow
                /\ q.mask = r.mask /\ q.old = r.old /\ q.scan = r.scan /\ q.alot = r.alot
                /\ r.seen \subseteq q.seen
                /\ r.seen # {} => Resolved(to, r.cls, r.sel) \in q.seen
           /\ th'[t].pc = "erase" /\ th'[t].todo = flush
           /\ th'[t].after = "rdlock" => th[t].pc = "resolve"
<1>1. TypeOK /\ th \in [Threads -> Regs]
  BY DEF IInv, TypeOK
<1>2. PICK ch \in Changes \cup {FlushAll} :
          /\ methods' = ch.to
          /\ th' = [u \in Threads |->
                      IF u # t THEN Notice(th[u], ch)
                      ELSE [Notice(th[t], ch) EXCEPT !.pc = "erase", !.todo = ch.flush,
                              !.after = CASE At(t, "resolve") -> "rdlock"
                                          [] ch = FlushAll    -> "lockCollect"
                                          [] OTHER            -> "idle"]]
  BY DEF StartChange
<1>3. /\ writer' = t /\ readers = {} /\ writer = NoThread
      /\ th[t].pc \in {"idle", "resolve"}
      /\ UNCHANGED <<before, memory, readers, cacheUpdateLock, staleAnswer>>
  BY DEF StartChange, At
<1>4. /\ ch.to \in Lists /\ ch.flush \in SUBSET Classes
      /\ \A c \in Classes \ ch.flush, s \in Sels :
           Resolved(ch.to, c, s) = Resolved(methods, c, s)
  BY <1>1, ChangeFacts
<1> DEFINE after == CASE At(t, "resolve") -> "rdlock"
                      [] ch = FlushAll    -> "lockCollect"
                      [] OTHER            -> "idle"
<1>5. after \in {"idle", "rdlock", "lockCollect"} /\ (after = "rdlock" => th[t].pc = "resolve")
  <2>1. CASE At(t, "resolve")
    <3>1. after = "rdlock" \/ after = "lockCollect"
      BY <2>1
    <3> QED
      BY <2>1, <3>1 DEF At
  <2>2. CASE ~At(t, "resolve")
    BY <2>2
  <2> QED
    BY <2>1, <2>2
<1> HIDE DEF after
<1>6. \A u \in Threads : LET q == Notice(th[u], ch)  r == th[u] IN
         /\ q \in Regs /\ q.pc = r.pc /\ q.cur = r.cur /\ q.arr = r.arr /\ q.idx = r.idx
         /\ q.cls = r.cls /\ q.sel = r.sel /\ q.imp = r.imp /\ q.slow = r.slow
         /\ q.tried = r.tried /\ q.mask = r.mask /\ q.old = r.old /\ q.todo = r.todo
         /\ q.scan = r.scan /\ q.alot = r.alot /\ q.after = r.after
         /\ r.seen \subseteq q.seen
         /\ r.seen # {} => Resolved(ch.to, r.cls, r.sel) \in q.seen
  BY <1>1, <1>4, NoticeRegs
<1> DEFINE n == Notice(th[t], ch)
           x == [n EXCEPT !.pc = "erase", !.todo = ch.flush, !.after = after]
<1>7. th' = [u \in Threads |-> IF u # t THEN Notice(th[u], ch) ELSE x]
  BY <1>2 DEF after
<1>8. /\ n \in Regs /\ n.cur = th[t].cur /\ n.arr = th[t].arr /\ n.idx = th[t].idx
      /\ n.cls = th[t].cls /\ n.sel = th[t].sel /\ n.imp = th[t].imp /\ n.slow = th[t].slow
      /\ n.mask = th[t].mask /\ n.old = th[t].old /\ n.scan = th[t].scan
      /\ n.alot = th[t].alot
      /\ th[t].seen \subseteq n.seen
      /\ th[t].seen # {} => Resolved(ch.to, th[t].cls, th[t].sel) \in n.seen
  BY <1>6
<1> HIDE DEF n
<1>9. /\ x \in Regs /\ x.cur = th[t].cur /\ x.arr = th[t].arr /\ x.idx = th[t].idx
      /\ x.cls = th[t].cls /\ x.sel = th[t].sel /\ x.imp = th[t].imp /\ x.slow = th[t].slow
      /\ x.mask = th[t].mask /\ x.old = th[t].old /\ x.scan = th[t].scan
      /\ x.alot = th[t].alot
      /\ th[t].seen \subseteq x.seen
      /\ th[t].seen # {} => Resolved(ch.to, th[t].cls, th[t].sel) \in x.seen
      /\ x.pc = "erase" /\ x.todo = ch.flush /\ x.after = after
  <2>1. /\ x.cur = n.cur /\ x.arr = n.arr /\ x.idx = n.idx /\ x.cls = n.cls /\ x.sel = n.sel
        /\ x.imp = n.imp /\ x.slow = n.slow /\ x.mask = n.mask /\ x.old = n.old
        /\ x.scan = n.scan /\ x.alot = n.alot /\ x.seen = n.seen
        /\ x.pc = "erase" /\ x.todo = ch.flush /\ x.after = after
    BY <1>8 DEF Regs, Registers
  <2>2. x \in Registers
    BY <1>4, <1>5, <1>8 DEF Regs, Registers, Labels
  <2>3. x \in Regs
    BY <1>8, <2>1, <2>2 DEF Regs
  <2> HIDE DEF x
  <2> QED
    BY <1>8, <2>1, <2>3
<1> HIDE DEF x
<1>10. th' \in [Threads -> Regs]
  BY <1>6, <1>7, <1>9
<1>11. th'[t] = x /\ \A u \in Threads \ {t} : th'[u] = Notice(th[u], ch)
  BY <1>7
<1>12. \A u \in Threads : LET r == th[u]  q == th'[u] IN
                /\ u # t => q.pc = r.pc /\ q.todo = r.todo /\ q.after = r.after
                /\ q.cur = r.cur /\ q.arr = r.arr /\ q.idx = r.idx
                /\ q.cls = r.cls /\ q.sel = r.sel /\ q.imp = r.imp /\ q.slow = r.slow
                /\ q.mask = r.mask /\ q.old = r.old /\ q.scan = r.scan /\ q.alot = r.alot
                /\ r.seen \subseteq q.seen
                /\ r.seen # {} => Resolved(ch.to, r.cls, r.sel) \in q.seen
  <2> SUFFICES ASSUME NEW u \in Threads
               PROVE  LET r == th[u]  q == th'[u] IN
                /\ u # t => q.pc = r.pc /\ q.todo = r.todo /\ q.after = r.after
                /\ q.cur = r.cur /\ q.arr = r.arr /\ q.idx = r.idx
                /\ q.cls = r.cls /\ q.sel = r.sel /\ q.imp = r.imp /\ q.slow = r.slow
                /\ q.mask = r.mask /\ q.old = r.old /\ q.scan = r.scan /\ q.alot = r.alot
                /\ r.seen \subseteq q.seen
                /\ r.seen # {} => Resolved(ch.to, r.cls, r.sel) \in q.seen
    OBVIOUS
  <2>1. CASE u = t
    BY <1>9, <1>11, <2>1
  <2>2. CASE u # t
    BY <1>6, <1>11, <2>2
  <2> QED
    BY <2>1, <2>2
<1>13. /\ methods' = ch.to
       /\ th'[t].pc = "erase" /\ th'[t].todo = ch.flush
       /\ th'[t].after = "rdlock" => th[t].pc = "resolve"
  BY <1>2, <1>5, <1>9, <1>11
<1> USE <1>4
<1> WITNESS ch.to \in Lists, ch.flush \in SUBSET Classes
<1> QED
  BY <1>3, <1>4, <1>10, <1>12, <1>13

\* A change of methods begins.
LEMMA StartChangeControl ==
  ASSUME IInv, NEW t \in Threads, StartChange(t)
  PROVE  TypeOK' /\ Control'
<1>1. PICK to \in Lists :
           /\ methods' = to /\ writer' = t /\ readers = {} /\ writer = NoThread
           /\ th[t].pc \in {"idle", "resolve"}
           /\ UNCHANGED <<before, memory, readers, cacheUpdateLock, staleAnswer>>
           /\ th' \in [Threads -> Regs]
           /\ \A u \in Threads : LET r == th[u]  q == th'[u] IN
                /\ u # t => q.pc = r.pc /\ q.todo = r.todo /\ q.after = r.after
                /\ q.cur = r.cur /\ q.cls = r.cls /\ q.sel = r.sel /\ q.slow = r.slow
                /\ q.scan = r.scan /\ q.alot = r.alot
           /\ th'[t].pc = "erase"
           /\ th'[t].after = "rdlock" => th[t].pc = "resolve"
  BY ChangeCases
<1>2. TypeOK /\ Control /\ Locks(t) /\ NoThread \notin Threads
  BY CacheAssumption DEF CacheAssumption, IInv, Control
<1>3. TypeOK'
  BY <1>1, <1>2 DEF TypeOK, memory
<1>4. ASSUME NEW u \in Threads, u # t
      PROVE  Locks(u)'
  <2>1. Locks(u)
    BY <1>2 DEF Control
  <2>2. writer' # u /\ writer # u
    BY <1>1, <1>2, <1>4
  <2> QED
    BY <1>1, <1>4, <2>1, <2>2, LocksStay
<1>5. Locks(t)'
  <2>1. cacheUpdateLock # t /\ th[t].after = "idle" /\ t \notin readers'
        /\ (th[t].pc = "resolve" => th[t].cls \in Classes /\ th[t].sel \in Sels)
        /\ ~th[t].alot
    BY <1>1, <1>2 DEF Locks, Updating, InMessage
  <2>2. /\ th'[t].alot = th[t].alot /\ th'[t].cls = th[t].cls /\ th'[t].sel = th[t].sel
        /\ th'[t].pc = "erase" /\ (th'[t].after = "rdlock" => th[t].pc = "resolve")
        /\ writer' = t /\ cacheUpdateLock' = cacheUpdateLock
    BY <1>1
  <2> QED
    BY <2>1, <2>2 DEF Locks, Updating, InMessage, Critical
<1> QED
  BY <1>1, <1>3, <1>4, <1>5 DEF Control

\* A cache is flushed.
LEMMA EraseControl ==
  ASSUME IInv, NEW t \in Threads, NEW c \in Classes, Erase(t, c)
  PROVE  TypeOK' /\ Control'
<1> DEFINE r == [th[t] EXCEPT !.pc = "setBuckets", !.cur = c, !.arr = EmptyBuckets,
                              !.mask = cache[c].mask, !.old = cache[c].buckets]
<1>1. TypeOK /\ Control /\ Locks(t) /\ th[t] \in Regs /\ th[t].pc = "erase" /\ writer = t
      /\ NoThread \notin Threads /\ t \notin readers
  BY CacheAssumption DEF CacheAssumption, IInv, Control, TypeOK, Erase, At, Locks, Critical
<1>2. Become(t, r) /\ cacheUpdateLock \in {NoThread, t} /\ cacheUpdateLock' = t
      /\ UNCHANGED <<tables, memory, readers, writer, staleAnswer>>
  BY DEF Erase
<1>3. r \in Regs
  BY <1>1 DEF Regs, Registers, Labels, TypeOK, Caches, EmptyBuckets
<1>4. th'[t] = r
  BY <1>1, <1>2 DEF Become, TypeOK
<1>5. Locks(t)'
  BY <1>1, <1>2, <1>4 DEF Locks, Updating, InMessage, Critical, Regs, Registers
<1> HIDE DEF r
<1> QED
  BY <1>1, <1>2, <1>3, <1>5, ControlOf DEF TypeOK, Control, tables, memory

\* The change is complete.
LEMMA EndChangeControl ==
  ASSUME IInv, NEW t \in Threads, EndChange(t)
  PROVE  TypeOK' /\ Control'
<1> DEFINE r == [th[t] EXCEPT !.pc = th[t].after, !.after = "idle", !.todo = {}]
<1>1. TypeOK /\ Control /\ Locks(t) /\ th[t] \in Regs /\ th[t].pc = "erase" /\ writer = t
      /\ NoThread \notin Threads /\ t \notin readers
  BY CacheAssumption DEF CacheAssumption, IInv, Control, TypeOK, EndChange, At, Locks, Critical
<1>2. Become(t, r) /\ cacheUpdateLock \in {NoThread, t} /\ cacheUpdateLock' = NoThread
      /\ before' = methods /\ writer' = NoThread
      /\ UNCHANGED <<methods, changes, memory, readers, staleAnswer>>
  BY DEF EndChange
<1>3. r \in Regs
  <2>1. r.cls = th[t].cls /\ r.sel = th[t].sel /\ r.seen = th[t].seen
    BY <1>1 DEF Regs, Registers
  <2>2. r \in Registers
    BY <1>1 DEF Regs, Registers, Labels
  <2> QED
    BY <1>1, <2>1, <2>2 DEF Regs
<1>4. th'[t] = r
  BY <1>1, <1>2 DEF Become, TypeOK
<1>5. Locks(t)'
  BY <1>1, <1>2, <1>4 DEF Locks, Updating, InMessage, Critical, Regs, Registers
<1> HIDE DEF r
<1> QED
  BY <1>1, <1>2, <1>3, <1>5, ControlOf DEF TypeOK, Control, memory

\* A flush of everything goes on to collect.
LEMMA LockCollectControl ==
  ASSUME IInv, NEW t \in Threads, LockCollect(t)
  PROVE  TypeOK' /\ Control'
<1> DEFINE r == [th[t] EXCEPT !.pc = "scan", !.alot = TRUE, !.scan = Threads \ {t}]
<1>1. TypeOK /\ Control /\ Locks(t) /\ th[t] \in Regs /\ th[t].pc = "lockCollect"
      /\ NoThread \notin Threads
  BY CacheAssumption DEF CacheAssumption, IInv, Control, TypeOK, LockCollect, At
<1>2. Become(t, r) /\ cacheUpdateLock = NoThread /\ cacheUpdateLock' = t
      /\ UNCHANGED <<tables, memory, readers, writer, staleAnswer>>
  BY DEF LockCollect
<1>3. r \in Regs
  <2>1. r.cls = th[t].cls /\ r.sel = th[t].sel /\ r.seen = th[t].seen
    BY <1>1 DEF Regs, Registers
  <2>2. r \in Registers
    BY <1>1 DEF Regs, Registers, Labels
  <2> QED
    BY <1>1, <2>1, <2>2 DEF Regs
<1>4. th'[t] = r
  BY <1>1, <1>2 DEF Become, TypeOK
<1>5. Locks(t)'
  BY <1>1, <1>2, <1>4 DEF Locks, Updating, InMessage, Critical, Regs, Registers
<1> HIDE DEF r
<1> QED
  BY <1>1, <1>2, <1>3, <1>5, ControlOf DEF TypeOK, Control, tables, memory

\* The actions of a thread, one for each message or class.
LEMMA Steps ==
  ASSUME Next
  PROVE  \E t \in Threads :
           \/ \E c \in Classes, s \in Sels : Send(t, c, s)
           \/ LoadBuckets(t) \/ Probe(t) \/ LockRuntimeRead(t)
           \/ Fill(t) \/ SetBuckets(t) \/ SetMask(t) \/ SetImp(t) \/ SetKey(t)
           \/ Scan(t) \/ FreeGarbage(t)
           \/ StartChange(t) \/ (\E c \in Classes : Erase(t, c)) \/ EndChange(t) \/ LockCollect(t)
<1>1. \A m \in Messages : m[1] \in Classes /\ m[2] \in Sels
  BY CacheAssumption DEF CacheAssumption
<1> QED
  BY <1>1 DEF Next

\* Every step keeps types and control.
LEMMA ControlStep ==
  ASSUME IInv, [Next]_vars
  PROVE  TypeOK' /\ Control'
<1>1. CASE Next
  BY <1>1, Steps, SendControl, LoadBucketsControl, ProbeControl, LockRuntimeReadControl,
     FillControl, SetBucketsControl, SetMaskControl, SetImpControl, SetKeyControl, ScanControl,
     FreeGarbageControl, StartChangeControl, EraseControl, EndChangeControl, LockCollectControl
<1>2. CASE UNCHANGED vars
  BY <1>2 DEF IInv, TypeOK, Control, Locks, Updating, InMessage, Critical, vars
<1> QED
  BY <1>1, <1>2
------------------------------------------------------------------------------
(* Memory.                                                                 *)

\* What is known of a cache depends on its own array only.
LEMMA CacheFrame ==
  ASSUME NEW k, k.buckets # EmptyBuckets => heap'[k.buckets] = heap[k.buckets]
  PROVE  /\ \A i : Bucket(k.buckets, i)' = Bucket(k.buckets, i)
         /\ Used(k)' = Used(k)
         /\ \A s : FindBucket(k, s)' = FindBucket(k, s)
         /\ \A n : Counted(k, n)' <=> Counted(k, n)
<1>1. \A i : Bucket(k.buckets, i)' = Bucket(k.buckets, i)
  BY DEF Bucket
<1>2. Used(k)' = Used(k)
  BY <1>1 DEF Used
<1>3. ASSUME NEW s
      PROVE  FindBucket(k, s)' = FindBucket(k, s)
  <2> DEFINE p == Probed(k, s)
             S == {j \in 0 .. k.mask : Stops(k, s, p[j])}
  <2>1. p' = p
    BY DEF Probed, Hash
  <2>2. \A i : Stops(k, s, i)' <=> Stops(k, s, i)
    BY <1>1 DEF Stops
  <2>3. S' = S
    BY <2>1, <2>2
  <2>4. FindBucket(k, s) = p[Min(S)] /\ FindBucket(k, s)' = p'[Min(S')]
    BY DEF FindBucket
  <2> HIDE DEF p, S
  <2> QED
    BY <2>1, <2>3, <2>4
<1>4. \A n : Counted(k, n)' <=> Counted(k, n)
  BY DEF Counted
<1> QED
  BY <1>1, <1>2, <1>3, <1>4

\* An array of empty buckets.
LEMMA NewBucketsFacts ==
  ASSUME NEW n \in Nat, n >= 2
  PROVE  /\ NewBuckets(n) \in Arrays /\ NewBuckets(n) # Freed /\ Len(NewBuckets(n)) = n + 1
         /\ \A i \in 1 .. n : NewBuckets(n)[i].key = 0
<1> DEFINE F(i) == IF i <= n THEN EmptyBucket ELSE [key |-> EndMarker, imp |-> NoImp]
           h == [i \in 1 .. n + 1 |-> F(i)]
<1>1. \A i \in 1 .. n + 1 : F(i) \in Entries
  BY DEF EmptyBucket, Entries, Found
<1>2. h \in Seq(Entries) /\ Len(h) = n + 1
  <2>1. h \in [1 .. n + 1 -> Entries]
    BY <1>1
  <2> HIDE DEF h
  <2> QED
    BY <2>1, LenProperties
<1>3. h[n + 1].key = EndMarker /\ \A i \in 1 .. n : h[i].key = 0
  BY DEF EmptyBucket
<1>4. h = NewBuckets(n)
  BY DEF NewBuckets
<1> HIDE DEF h
<1>5. h # Freed
  BY <1>2 DEF Freed
<1> QED
  BY <1>2, <1>3, <1>4, <1>5 DEF Arrays

\* The registers that Memory speaks of.
SameWork(u) ==
    /\ th'[u].pc = th[u].pc /\ th'[u].arr = th[u].arr /\ th'[u].idx = th[u].idx
    /\ th'[u].mask = th[u].mask /\ th'[u].old = th[u].old /\ th'[u].cur = th[u].cur
    /\ th'[u].cls = th[u].cls /\ th'[u].sel = th[u].sel /\ th'[u].scan = th[u].scan
    /\ u \in readers' <=> u \in readers

\* The class that a thread works on stays.
LEMMA SameTarget ==
  ASSUME NEW u \in Threads, SameWork(u)
  PROVE  Target(u)' = Target(u) /\ (Holds(u)' <=> Holds(u))
BY DEF SameWork, Target, Filling, Holds, EmptyBuckets

\* What a thread at work knows depends on its registers, the cache it works on and two
\* arrays.
LEMMA WorkStays ==
  ASSUME NEW u \in Threads, SameWork(u), UNCHANGED memory, Work(u),
         th[u].pc = "setBuckets" => \A v \in Threads : Holds(v)' => th'[v].arr # th[u].arr
  PROVE  Work(u)'
<1>1. PICK c : c = Target(u)
  OBVIOUS
<1>2. PICK k : k = cache[c]
  OBVIOUS
<1>3. cache' = cache /\ heap' = heap /\ garbage' = garbage
  BY DEF memory
<1>4. Target(u)' = c /\ cache'[c] = k
  BY <1>1, <1>2, <1>3, SameTarget
<1>5. PICK r : r = th[u]
  OBVIOUS
<1>6. /\ th'[u].pc = r.pc /\ th'[u].arr = r.arr /\ th'[u].idx = r.idx /\ th'[u].sel = r.sel
      /\ th'[u].mask = r.mask /\ th'[u].old = r.old /\ (u \in readers' <=> u \in readers)
  BY <1>5 DEF SameWork
<1>7. /\ \A i : Bucket(k.buckets, i)' = Bucket(k.buckets, i)
      /\ Used(k)' = Used(k)
      /\ \A s : FindBucket(k, s)' = FindBucket(k, s)
      /\ \A n : Counted([k EXCEPT !.occupied = @ - 1], n)'
                  <=> Counted([k EXCEPT !.occupied = @ - 1], n)
  BY <1>3, CacheFrame DEF Used, Bucket, Counted
<1>8. \A a, n : IsNew(a, n)' <=> IsNew(a, n)
  BY <1>3 DEF IsNew, Owned
<1>9. \A a : Owned(a)' <=> Owned(a)
  BY <1>3 DEF Owned
<1>10. r.pc = "setBuckets" =>
         /\ IsNew(r.arr, r.mask + 1)' /\ k.mask <= r.mask /\ r.old = k.buckets
         /\ r.arr # EmptyBuckets =>
              /\ \A d \in Classes : cache'[d].buckets # r.arr
              /\ \A v \in Threads : Holds(v)' => th'[v].arr # r.arr
  BY <1>1, <1>2, <1>3, <1>5, <1>8 DEF Work
<1>11. r.pc = "setMask" =>
         /\ IsNew(r.arr, r.mask + 1)' /\ k.mask <= r.mask /\ r.arr = k.buckets
         /\ r.old # EmptyBuckets =>
              Owned(r.old)' /\ \A d \in Classes : cache'[d].buckets # r.old
  BY <1>1, <1>2, <1>3, <1>5, <1>8, <1>9 DEF Work
<1>12. /\ u \in readers /\ r.pc \in {"setMask", "setBuckets"} => r.arr # EmptyBuckets
       /\ u \in readers /\ r.pc \in {"scan", "setImp"} =>
            /\ k.buckets # EmptyBuckets /\ k.occupied < k.mask
            /\ Bucket(k.buckets, FindBucket(k, r.sel))'.key # r.sel
       /\ r.pc = "setKey" =>
            /\ k.buckets # EmptyBuckets
            /\ r.idx \in 0 .. k.mask /\ Bucket(k.buckets, r.idx)'.key = 0
            /\ k.occupied >= 1
            /\ Counted([k EXCEPT !.occupied = @ - 1], Cardinality(Used(k)))'
            /\ k.occupied <= k.mask
  BY <1>1, <1>2, <1>5, <1>7 DEF Work
<1> QED
  BY <1>4, <1>6, <1>10, <1>11, <1>12 DEF Work

\* A cache that stays as it is, with its array, counts what it counted.
LEMMA CountsStay ==
  ASSUME NEW c \in Classes, cache'[c] = cache[c], CacheCounts(c),
         cache[c].buckets # EmptyBuckets => heap'[cache[c].buckets] = heap[cache[c].buckets],
         Busy(c) => Busy(c)'
  PROVE  CacheCounts(c)'
<1>1. PICK k : k = cache[c]
  OBVIOUS
<1>2. /\ Used(k)' = Used(k)
      /\ \A n : Counted(k, n)' <=> Counted(k, n)
  BY <1>1, CacheFrame
<1>3. Counted(k, Cardinality(Used(k))) => Counted(k, Cardinality(Used(k)))'
  BY <1>2
<1>4. cache'[c] = k
  BY <1>1
<1>5. CASE Busy(c)
  BY <1>5 DEF CacheCounts
<1>6. CASE ~Busy(c)
  BY <1>1, <1>3, <1>4, <1>6 DEF CacheCounts
<1> QED
  BY <1>5, <1>6

\* A thread that is about to change a cache still is.
LEMMA BusyStays ==
  ASSUME NEW t \in Threads, NEW c, \A u \in Threads \ {t} : SameWork(u),
         th[t].pc \notin {"setMask", "setKey"}, Busy(c)
  PROVE  Busy(c)'
<1>1. PICK u \in Threads : th[u].pc \in {"setMask", "setKey"} /\ Target(u) = c
  BY DEF Busy
<1>2. u # t
  BY <1>1
<1>3. th'[u].pc = th[u].pc /\ Target(u)' = Target(u)
  BY <1>2, SameTarget DEF SameWork
<1> QED
  BY <1>1, <1>3 DEF Busy

\* A step of a thread that leaves memory alone.
LEMMA QuietMemory ==
  ASSUME IInv, NEW t \in Threads, UNCHANGED memory, \A u \in Threads \ {t} : SameWork(u),
         th[t].pc \notin {"setMask", "setKey"},
         Holds(t)' => \/ Holds(t) /\ th'[t].arr = th[t].arr
                      \/ \E c \in Classes : th'[t].arr = cache[c].buckets,
         Work(t)', ScanInBounds(t)', Looked(t)'
  PROVE  Memory'
<1>1. cache' = cache /\ heap' = heap /\ garbage' = garbage
  BY DEF memory
<1>2. Memory
  BY DEF IInv
<1>3. /\ heap' \in [Addresses -> Arrays \cup {Freed}]
      /\ \A a \in garbage' : heap'[a] # Freed
  BY <1>1, <1>2 DEF Memory
<1>4. \A c \in Classes : CacheOwns(c)' /\ CacheCounts(c)'
  <2> SUFFICES ASSUME NEW c \in Classes
               PROVE  CacheOwns(c)' /\ CacheCounts(c)'
    OBVIOUS
  <2>1. CacheOwns(c)'
    BY <1>1, <1>2 DEF Memory, CacheOwns, Owned
  <2>2. CacheCounts(c)'
    BY <1>1, <1>2, BusyStays, CountsStay DEF Memory
  <2> QED
    BY <2>1, <2>2
<1>5. Apart'
  BY <1>1, <1>2 DEF Memory, Apart
<1>6. ASSUME NEW u \in Threads, u # t
      PROVE  Work(u)' /\ ScanInBounds(u)' /\ Looked(u)'
  <2>1. Work(u) /\ ScanInBounds(u) /\ Looked(u) /\ SameWork(u)
    BY <1>2, <1>6 DEF Memory
  <2>2. \A v \in Threads \ {t} : th'[v].arr = th[v].arr /\ (Holds(v)' <=> Holds(v))
    BY SameTarget DEF SameWork
  <2>3. ScanInBounds(u)'
    BY <1>1, <2>1 DEF ScanInBounds, SameWork, Holds, EmptyBuckets
  <2>4. th[u].pc = "setBuckets" /\ Holds(t)' => th'[t].arr # th[u].arr
    <3>1. th[u].pc = "setBuckets" /\ th[u].arr # EmptyBuckets =>
              /\ \A c \in Classes : cache[c].buckets # th[u].arr
              /\ \A v \in Threads : Holds(v) => th[v].arr # th[u].arr
      BY <2>1 DEF Work
    <3>2. Holds(t)' => th'[t].arr # EmptyBuckets
      BY DEF Holds, EmptyBuckets
    <3> QED
      BY <3>1, <3>2
  <2>5. th[u].pc = "setBuckets" => \A v \in Threads : Holds(v)' => th'[v].arr # th[u].arr
    <3> SUFFICES ASSUME th[u].pc = "setBuckets", NEW v \in Threads, Holds(v)', v # t
                 PROVE  th'[v].arr # th[u].arr
      BY <2>4
    <3>1. th'[v].arr = th[v].arr /\ Holds(v) /\ th[v].arr # EmptyBuckets
      BY <2>2 DEF Holds
    <3> QED
      BY <2>1, <3>1 DEF Work
  <2>6. Work(u)'
    BY <2>1, <2>5, WorkStays
  <2>7. Looked(u)'
    <3> SUFFICES ASSUME th[u].pc = "scan", NEW v \in Threads \ ({u} \cup th[u].scan), Holds(v)'
                 PROVE  th'[v].arr \notin garbage
      BY <1>1, <2>1 DEF Looked, SameWork
    <3>1. CASE v # t
      BY <2>1, <2>2, <3>1 DEF Looked
    <3>2. CASE v = t /\ Holds(t) /\ th'[t].arr = th[t].arr
      BY <2>1, <3>2 DEF Looked
    <3>3. ASSUME v = t, NEW c \in Classes, th'[t].arr = cache[c].buckets
          PROVE  th'[v].arr \notin garbage
      <4>1. th'[t].arr # EmptyBuckets
        BY <3>3 DEF Holds, EmptyBuckets
      <4>2. CacheOwns(c)
        BY <1>2 DEF Memory
      <4> QED
        BY <3>3, <4>1, <4>2 DEF CacheOwns, Owned
    <3> QED
      BY <3>1, <3>2, <3>3
  <2> QED
    BY <2>3, <2>6, <2>7
<1> QED
  BY <1>3, <1>4, <1>5, <1>6 DEF Memory

\* The other threads are as they were.
LEMMA OthersSame ==
  ASSUME TypeOK, NEW t \in Threads, NEW r, Become(t, r),
         \A u \in Threads \ {t} : u \in readers' <=> u \in readers
  PROVE  th'[t] = r /\ \A u \in Threads \ {t} : th'[u] = th[u] /\ SameWork(u)
BY DEF Become, TypeOK, SameWork

\* A step that leaves memory alone and comes to no work on a cache.
LEMMA QuietStep ==
  ASSUME IInv, NEW t \in Threads, NEW r \in Regs, Become(t, r), UNCHANGED memory,
         \A u \in Threads \ {t} : u \in readers' <=> u \in readers,
         th[t].pc \notin {"setMask", "setKey"},
         r.pc \notin {"setBuckets", "setMask", "setImp", "setKey", "scan"},
         r.pc = "buckets" => r.idx <= cache[r.cur].mask,
         r.pc = "probe" /\ r.arr # EmptyBuckets =>
           /\ heap[r.arr] # Freed /\ r.idx + 1 <= Len(heap[r.arr])
           /\ \/ Holds(t) /\ r.arr = th[t].arr
              \/ \E c \in Classes : r.arr = cache[c].buckets
  PROVE  Memory'
<1>1. th'[t] = r /\ \A u \in Threads \ {t} : SameWork(u)
  BY OthersSame DEF IInv
<1>2. cache' = cache /\ heap' = heap
  BY DEF memory
<1>3. Work(t)'
  BY <1>1 DEF Work
<1>4. ScanInBounds(t)'
  BY <1>1, <1>2 DEF ScanInBounds, Holds, EmptyBuckets
<1>5. Looked(t)'
  BY <1>1 DEF Looked
<1>6. Holds(t)' => \/ Holds(t) /\ th'[t].arr = th[t].arr
                   \/ \E c \in Classes : th'[t].arr = cache[c].buckets
  BY <1>1 DEF Holds, EmptyBuckets
<1> QED
  BY <1>1, <1>3, <1>4, <1>5, <1>6, QuietMemory

\* A message begins.
LEMMA SendMemory ==
  ASSUME IInv, NEW t \in Threads, NEW c \in Classes, NEW s \in Sels, Send(t, c, s)
  PROVE  Memory'
<1> DEFINE i == [Idle EXCEPT !.cls = c, !.sel = s, !.seen = Visible(c, s)]
           r == ScanOf(i, c)
<1>1. TypeOK /\ th[t].pc = "idle"
  BY DEF IInv, Send, At
<1>2. Visible(c, s) \in SUBSET Found
  BY <1>1, ResolvedType DEF Visible, TypeOK
<1>3. i \in Regs /\ i.sel = s
  BY <1>2 DEF Idle, Regs, Registers, Labels, Found
<1>4. r \in Regs /\ r.pc = "buckets" /\ r.cur = c /\ r.idx <= cache[c].mask
  <2>1. i \in Regs /\ i.sel \in Nat /\ cache \in [Classes -> Caches]
    BY <1>1, <1>3, CacheAssumption DEF CacheAssumption, TypeOK
  <2> HIDE DEF i
  <2> QED
    BY <1>3, <2>1, ScanRegs
<1>5. Become(t, r) /\ UNCHANGED memory /\ readers' = readers
  BY DEF Send, locks
<1> HIDE DEF r
<1> QED
  BY <1>1, <1>4, <1>5, QuietStep

\* The scan loads the buckets: the mask it has loaded is no larger than they are.
LEMMA LoadBucketsMemory ==
  ASSUME IInv, NEW t \in Threads, LoadBuckets(t)
  PROVE  Memory'
<1> DEFINE r == [th[t] EXCEPT !.pc = "probe", !.arr = cache[th[t].cur].buckets]
<1>1. TypeOK /\ Control /\ Memory /\ Locks(t) /\ th[t] \in Regs /\ th[t].pc = "buckets"
      /\ th[t].cur \in Classes
  BY DEF IInv, Control, TypeOK, LoadBuckets, At, Locks, Critical
<1>2. Become(t, r) /\ UNCHANGED memory /\ readers' = readers
  BY DEF LoadBuckets, locks
<1>3. th[t].idx <= cache[th[t].cur].mask /\ CacheOwns(th[t].cur)
      /\ cache[th[t].cur].mask \in Nat /\ th[t].idx \in Nat
  BY <1>1 DEF Memory, ScanInBounds, TypeOK, Caches, Regs, Registers
<1>4. r \in Regs /\ r.pc = "probe" /\ r.arr = cache[th[t].cur].buckets /\ r.idx = th[t].idx
  BY <1>1 DEF Regs, Registers, Labels, TypeOK, Caches, EmptyBuckets
<1>5. r.arr # EmptyBuckets => heap[r.arr] # Freed /\ r.idx + 1 <= Len(heap[r.arr])
  <2>1. r.arr # EmptyBuckets =>
          heap[r.arr] # Freed /\ cache[th[t].cur].mask + 2 <= Len(heap[r.arr])
          /\ r.arr \in Addresses
    BY <1>3, <1>4 DEF CacheOwns, Owned
  <2>2. r.arr \in Addresses /\ heap[r.arr] # Freed => Len(heap[r.arr]) \in Nat
    BY <1>1 DEF Memory, Arrays
  <2>3. \A m, i, l \in Nat : i <= m /\ m + 2 <= l => i + 1 <= l
    OBVIOUS
  <2> HIDE DEF r
  <2> QED
    BY <1>3, <1>4, <2>1, <2>2, <2>3
<1> HIDE DEF r
<1> QED
  BY <1>1, <1>2, <1>4, <1>5, QuietStep

\* One turn of the scan: the end marker keeps it in the array.
LEMMA ProbeMemory ==
  ASSUME IInv, NEW t \in Threads, Probe(t)
  PROVE  Memory'
<1> DEFINE b == Bucket(th[t].arr, th[t].idx)
           c == th[t].cur
           s == th[t].sel
<1>1. TypeOK /\ Control /\ Memory /\ Locks(t) /\ th[t] \in Regs /\ th[t].pc = "probe"
      /\ c \in Classes /\ s \in Sels /\ s \in Nat
  BY CacheAssumption
     DEF CacheAssumption, IInv, Control, TypeOK, Probe, At, Locks, Critical, InMessage
<1>2. UNCHANGED memory
  BY DEF Probe
<1>3. readers' \in {readers, readers \ {t}}
  <2>1. LookupEnds(t) \/ LookupGoesOn(t)
    BY ProbeCases
  <2> QED
    BY <2>1 DEF LookupEnds, LookupGoesOn, Answer, GoOn
<1>4. ASSUME NEW r \in Regs, Become(t, r),
             r.pc \notin {"setBuckets", "setMask", "setImp", "setKey", "scan", "probe", "buckets"}
      PROVE  Memory'
  BY <1>1, <1>2, <1>3, <1>4, QuietStep
<1>5. ASSUME NEW p \in {"fill", "resolve", "rdlock"}
      PROVE  NoScan(th[t], p) \in Regs /\ NoScan(th[t], p).pc = p
  BY <1>1, NoScanRegs DEF Labels
<1>6. b.imp \in Found /\ methods[c][s] \in Found /\ Forward \in Found
  <2>1. th[t].arr # EmptyBuckets =>
          /\ th[t].arr \in Addresses /\ heap[th[t].arr] # Freed
          /\ th[t].idx + 1 <= Len(heap[th[t].arr])
    BY <1>1 DEF Memory, ScanInBounds, Holds, Regs, Registers, EmptyBuckets
  <2>2. th[t].idx \in Nat
    BY <1>1 DEF Regs, Registers
  <2>3. b \in Entries
    BY <1>1, <2>1, <2>2, BucketType
  <2> HIDE DEF b
  <2> QED
    BY <1>1, <2>3 DEF Entries, TypeOK, Lists, Found
<1>7. CASE LookupEnds(t)
  <2>1. ASSUME NEW imp \in Found, Become(t, [NoScan(th[t], "fill") EXCEPT !.imp = imp])
        PROVE  Memory'
    <3> DEFINE q == NoScan(th[t], "fill")
               r == [q EXCEPT !.imp = imp]
    <3>1. q \in Regs /\ q.pc = "fill"
      BY <1>5
    <3> HIDE DEF q
    <3>2. r \in Regs /\ r.pc = "fill"
      BY <3>1 DEF Regs, Registers
    <3> HIDE DEF r
    <3> QED
      BY <1>4, <2>1, <3>2 DEF r, q
  <2>2. ASSUME Become(t, [NoScan(th[t], "resolve") EXCEPT !.tried = TRUE, !.slow = FALSE])
        PROVE  Memory'
    <3> DEFINE q == NoScan(th[t], "resolve")
               r == [q EXCEPT !.tried = TRUE, !.slow = FALSE]
    <3>1. q \in Regs /\ q.pc = "resolve"
      BY <1>5
    <3> HIDE DEF q
    <3>2. r \in Regs /\ r.pc = "resolve"
      BY <3>1 DEF Regs, Registers
    <3> HIDE DEF r
    <3> QED
      BY <1>4, <2>2, <3>2 DEF r, q
  <2>3. CASE Become(t, Idle)
    BY <1>4, <2>3, IdleRegs
  <2> HIDE DEF b, c, s
  <2> QED
    BY <1>6, <1>7, <2>1, <2>2, <2>3 DEF LookupEnds, Answer, GoOn, b, c, s
<1>8. CASE LookupGoesOn(t)
  <2>1. CASE Superclass[c] # NoClass /\ GoOn(t, ScanOf(th[t], Superclass[c]))
    <3> DEFINE r == ScanOf(th[t], Superclass[c])
    <3>1. Superclass[c] \in Classes
      BY <1>1, <2>1, SupersOf
    <3>2. r \in Regs /\ r.pc = "buckets" /\ r.cur = Superclass[c] /\ r.idx <= cache[r.cur].mask
      <4>1. cache \in [Classes -> Caches] /\ th[t] \in Regs /\ th[t].sel \in Nat
        BY <1>1 DEF TypeOK
      <4> HIDE DEF b, c, s
      <4>2. /\ r \in Regs /\ r.pc = "buckets" /\ r.cur = Superclass[c]
            /\ r.idx <= cache[Superclass[c]].mask
        BY <3>1, <4>1, ScanRegs
      <4> QED
        BY <4>2
    <3> HIDE DEF r
    <3> QED
      BY <1>1, <1>2, <1>3, <2>1, <3>2, QuietStep DEF GoOn, r
  <2>2. CASE GoOn(t, NoScan(th[t], "rdlock"))
    BY <1>4, <1>5, <2>2 DEF GoOn
  <2>3. ASSUME NEW i \in Nat, NEW w \in BOOLEAN,
               Become(t, [th[t] EXCEPT !.idx = i, !.wrapped = w]),
               Holds(t) => i + 1 <= Len(heap[th[t].arr])
        PROVE  Memory'
    <3> DEFINE r == [th[t] EXCEPT !.idx = i, !.wrapped = w]
    <3>1. r \in Regs /\ r.pc = "probe" /\ r.idx = i /\ r.arr = th[t].arr
      BY <1>1 DEF Regs, Registers
    <3>2. Holds(t) => heap[th[t].arr] # Freed
      BY <1>1 DEF Memory, ScanInBounds
    <3>3. r.arr # EmptyBuckets => Holds(t)
      BY <1>1, <3>1 DEF Holds
    <3> HIDE DEF r
    <3> QED
      BY <1>1, <1>2, <1>3, <2>3, <3>1, <3>2, <3>3, QuietStep DEF r
  <2>4. Holds(t) => /\ heap[th[t].arr] \in Arrays /\ Len(heap[th[t].arr]) \in Nat
                    /\ Len(heap[th[t].arr]) >= 2 /\ th[t].idx + 1 <= Len(heap[th[t].arr])
                    /\ th[t].idx + 1 = Len(heap[th[t].arr]) => b.key = EndMarker
    BY <1>1 DEF Memory, ScanInBounds, Holds, Arrays, Regs, Registers, EmptyBuckets, Bucket
  <2>5. CASE GoOn(t, [th[t] EXCEPT !.idx = 0, !.wrapped = TRUE])
    <3>1. Holds(t) => 0 + 1 <= Len(heap[th[t].arr])
      BY <2>4
    <3> HIDE DEF b, c, s
    <3> QED
      BY <2>3, <2>5, <3>1 DEF GoOn
  <2>6. CASE b.key \notin {0, EndMarker, s} /\ GoOn(t, [th[t] EXCEPT !.idx = @ + 1])
    <3>1. [th[t] EXCEPT !.idx = @ + 1]
            = [th[t] EXCEPT !.idx = th[t].idx + 1, !.wrapped = th[t].wrapped]
      BY <1>1 DEF Regs, Registers
    <3>2. th[t].idx + 1 \in Nat /\ th[t].wrapped \in BOOLEAN
      BY <1>1 DEF Regs, Registers
    <3> HIDE DEF b, c, s
    <3>3. Holds(t) => (th[t].idx + 1) + 1 <= Len(heap[th[t].arr])
      BY <2>4, <2>6, <3>2
    <3> QED
      BY <2>3, <2>6, <3>1, <3>2, <3>3 DEF GoOn
  <2> QED
    BY <1>8, <2>1, <2>2, <2>5, <2>6 DEF LookupGoesOn
<1> QED
  BY <1>7, <1>8, ProbeCases

\* A lookup takes runtimeLock for reading.
LEMMA LockRuntimeReadMemory ==
  ASSUME IInv, NEW t \in Threads, LockRuntimeRead(t)
  PROVE  Memory'
<1> DEFINE q == ScanOf(th[t], th[t].cls)
           r == [q EXCEPT !.slow = TRUE]
<1>1. TypeOK /\ Control /\ Locks(t) /\ th[t] \in Regs /\ th[t].pc \in {"rdlock", "resolve"}
      /\ th[t].cls \in Classes /\ th[t].sel \in Nat
  BY CacheAssumption
     DEF CacheAssumption, IInv, Control, TypeOK, LockRuntimeRead, At, Locks, InMessage
<1>2. readers' = readers \cup {t} /\ Become(t, r) /\ UNCHANGED memory
  BY DEF LockRuntimeRead
<1>3. r \in Regs /\ r.pc = "buckets" /\ r.idx <= cache[r.cur].mask
  <2>1. cache \in [Classes -> Caches] /\ th[t] \in Regs /\ th[t].cls \in Classes
        /\ th[t].sel \in Nat
    BY <1>1 DEF TypeOK
  <2>2. q \in Regs /\ q.pc = "buckets" /\ q.cur = th[t].cls /\ q.idx <= cache[th[t].cls].mask
    BY <2>1, ScanRegs
  <2> HIDE DEF q
  <2> QED
    BY <2>2 DEF Regs, Registers
<1> HIDE DEF r
<1> QED
  BY <1>1, <1>2, <1>3, QuietStep

\* A lookup fills the cache: an array is allocated that nobody uses.
LEMMA FillMemory ==
  ASSUME IInv, NEW t \in Threads, Fill(t)
  PROVE  Memory'
<1> DEFINE c == th[t].cls
           k == cache[c]
           n == NewCapacity(k)
<1>1. TypeOK /\ Control /\ Memory /\ Locks(t) /\ th[t] \in Regs /\ th[t].pc = "fill"
      /\ cacheUpdateLock = NoThread /\ c \in Classes /\ k \in Caches /\ t \in readers
  BY FillCases DEF IInv, Control, TypeOK, Fill, At
<1>2. UNCHANGED <<cache, garbage>>
  BY DEF Fill
<1>3. CASE FillAnswers(t)
  <2>1. /\ Become(t, Idle) /\ UNCHANGED memory
        /\ \A u \in Threads \ {t} : u \in readers' <=> u \in readers
    BY <1>2, <1>3 DEF FillAnswers, Answer, memory
  <2> QED
    BY <1>1, <2>1, QuietStep, IdleRegs
<1>4. CASE FillHasRoom(t)
  <2> DEFINE r == NoScan(th[t], "setImp")
  <2>1. r \in Regs /\ r.pc = "setImp" /\ r.sel = th[t].sel /\ r.cls = c
    BY <1>1, NoScanRegs DEF Labels
  <2>2. Become(t, r) /\ UNCHANGED memory /\ readers' = readers
    BY <1>2, <1>4 DEF FillHasRoom, GoOn, memory
  <2>3. th'[t] = r /\ \A u \in Threads \ {t} : SameWork(u)
    BY <1>1, <2>2, OthersSame
  <2> HIDE DEF r
  <2>4. Work(t)'
    <3>1. PICK d : d = c
      OBVIOUS
    <3>2. PICK kk : kk = cache[d]
      OBVIOUS
    <3>3. PICK s : s = th[t].sel
      OBVIOUS
    <3>4. /\ kk.buckets # EmptyBuckets /\ kk.occupied < kk.mask
          /\ Bucket(kk.buckets, FindBucket(kk, s)).key # s
      BY <1>4, <3>1, <3>2, <3>3 DEF FillHasRoom
    <3>5. Bucket(kk.buckets, FindBucket(kk, s))' = Bucket(kk.buckets, FindBucket(kk, s))
      <4>1. FindBucket(kk, s)' = FindBucket(kk, s)
            /\ \A i : Bucket(kk.buckets, i)' = Bucket(kk.buckets, i)
        BY <2>2, CacheFrame DEF memory
      <4> QED
        BY <4>1
    <3>6. Target(t)' = d /\ cache'[d] = kk /\ th'[t].sel = s
      BY <1>1, <2>1, <2>2, <2>3, <3>1, <3>2, <3>3 DEF Target, Filling, memory
    <3> HIDE DEF c, k, n
    <3> QED
      BY <2>1, <2>3, <3>4, <3>5, <3>6 DEF Work
  <2>5. ScanInBounds(t)' /\ Looked(t)' /\ ~Holds(t)'
    BY <2>1, <2>3 DEF ScanInBounds, Looked, Holds
  <2> QED
    BY <1>1, <2>2, <2>3, <2>4, <2>5, QuietMemory
<1>5. CASE FillAllocates(t)
  <2> DEFINE a == FreeAddress
             r == [th[t] EXCEPT !.pc = "setBuckets", !.arr = a, !.mask = n - 1, !.old = k.buckets]
  <2>1. /\ n \in Nat /\ n >= 2 /\ k.mask <= n - 1 /\ a \in Addresses /\ heap[a] = Freed
        /\ heap' = [heap EXCEPT ![a] = NewBuckets(n)] /\ cacheUpdateLock' = t
        /\ Become(t, r) /\ readers' = readers
    BY <1>5 DEF FillAllocates, GoOn
  <2> HIDE DEF n, a
  <2>2. th'[t] = r /\ \A u \in Threads \ {t} : th'[u] = th[u] /\ SameWork(u)
    BY <1>1, <2>1, OthersSame
  <2>3. /\ r.pc = "setBuckets" /\ r.arr = a /\ r.mask = n - 1 /\ r.old = k.buckets
        /\ r.cls = c
    BY <1>1 DEF Regs, Registers
  <2> HIDE DEF r
  <2>4. a \notin garbage /\ a # EmptyBuckets
        /\ (\A d \in Classes : cache[d].buckets # a)
        /\ (\A u \in Threads : Holds(u) => th[u].arr # a)
    <3>1. a # EmptyBuckets
      BY <2>1, CacheAssumption DEF CacheAssumption, EmptyBuckets
    <3> QED
      BY <1>1, <2>1, <3>1 DEF Memory, CacheOwns, Owned, ScanInBounds
  <2>5. /\ heap'[a] = NewBuckets(n) /\ \A b \in Addresses \ {a} : heap'[b] = heap[b]
        /\ heap' \in [Addresses -> Arrays \cup {Freed}]
        /\ NewBuckets(n) # Freed /\ Len(NewBuckets(n)) = n + 1
        /\ \A i \in 1 .. n : NewBuckets(n)[i].key = 0
    BY <1>1, <2>1, NewBucketsFacts DEF Memory
  <2>6. \A b \in garbage' : heap'[b] # Freed
    BY <1>1, <1>2, <2>4, <2>5 DEF Memory, TypeOK
  <2>7. ASSUME NEW d \in Classes
        PROVE  CacheOwns(d)' /\ CacheCounts(d)'
    <3>1. CacheOwns(d) /\ CacheCounts(d) /\ cache[d].buckets # a /\ cache' = cache
      BY <1>1, <1>2, <2>4 DEF Memory
    <3>2. cache[d].buckets # EmptyBuckets => heap'[cache[d].buckets] = heap[cache[d].buckets]
      BY <2>5, <3>1 DEF CacheOwns, Owned
    <3>3. CacheOwns(d)'
      BY <1>2, <3>1, <3>2 DEF CacheOwns, Owned
    <3>4. CacheCounts(d)'
      BY <1>1, <2>2, <3>1, <3>2, BusyStays, CountsStay
    <3> QED
      BY <3>3, <3>4
  <2>8. Apart'
    BY <1>1, <1>2 DEF Memory, Apart
  <2>9. ASSUME NEW u \in Threads
        PROVE  Work(u)' /\ ScanInBounds(u)' /\ Looked(u)'
    <3>1. CASE u # t
      <4>1. th'[u] = th[u] /\ ScanInBounds(u) /\ Locks(u)
        BY <1>1, <2>2, <3>1 DEF Memory, Control
      <4>2. ~Updating(u)
        BY <1>1, <4>1, CacheAssumption DEF CacheAssumption, Locks
      <4>3. Work(u)' /\ Looked(u)'
        BY <4>1, <4>2 DEF Work, Looked, Updating
      <4>4. th[u].arr \in Addresses \cup {0}
        BY <1>1 DEF TypeOK, Regs, Registers
      <4>5. ScanInBounds(u)'
        BY <1>2, <2>4, <2>5, <4>1, <4>4 DEF ScanInBounds, Holds, EmptyBuckets
      <4> QED
        BY <4>3, <4>5
    <3>2. CASE u = t
      <4>1. ScanInBounds(t)' /\ Looked(t)'
        BY <2>2, <2>3 DEF ScanInBounds, Looked, Holds
      <4>2. Target(t)' = c /\ cache'[c] = k
        BY <1>1, <1>2, <2>1, <2>2, <2>3 DEF Target, Filling
      <4>3. (n - 1) + 1 = n
        BY <2>1
      <4>5. \A v \in Threads : Holds(v)' => th'[v].arr # a
        BY <2>2, <2>3, <2>4 DEF Holds
      <4>6. \A d \in Classes : cache'[d].buckets # a
        BY <1>2, <2>4
      <4> HIDE DEF c, k
      <4>7. PICK aa : aa = a
        OBVIOUS
      <4>8. PICK nn : nn = n
        OBVIOUS
      <4>9. IsNew(aa, nn)'
        BY <1>2, <2>1, <2>4, <2>5, <4>7, <4>8 DEF IsNew, Owned
      <4>10. th'[t].arr = aa /\ th'[t].mask + 1 = nn /\ th'[t].mask = nn - 1
        BY <2>2, <2>3, <4>3, <4>7, <4>8
      <4>11. PICK kk : kk = k
        OBVIOUS
      <4>12. PICK cc : cc = c
        OBVIOUS
      <4>13. Target(t)' = cc /\ cache'[cc] = kk /\ kk.mask <= nn - 1 /\ th'[t].old = kk.buckets
             /\ th'[t].pc = "setBuckets"
        BY <2>1, <2>2, <2>3, <4>2, <4>8, <4>11, <4>12
      <4>14. Work(t)'
        BY <2>4, <4>5, <4>6, <4>7, <4>9, <4>10, <4>13 DEF Work
      <4> QED
        BY <3>2, <4>1, <4>14
    <3> QED
      BY <3>1, <3>2
  <2> QED
    BY <2>5, <2>6, <2>7, <2>8, <2>9 DEF Memory
<1> QED
  BY <1>3, <1>4, <1>5, FillCases

\* A collection looks at a thread: one that is not in the messenger holds no array.
LEMMA ScanMemory ==
  ASSUME IInv, NEW t \in Threads, Scan(t)
  PROVE  Memory'
<1>1. TypeOK /\ Control /\ Memory /\ Locks(t) /\ th[t] \in Regs /\ th[t].pc = "scan"
      /\ Work(t) /\ Looked(t) /\ th[t].scan \in SUBSET Threads
  BY DEF IInv, Control, Memory, TypeOK, Scan, At, Regs, Registers
<1>2. UNCHANGED memory /\ readers' = readers
  BY DEF Scan, locks
<1>3. ASSUME NEW r, Become(t, r), r.pc \in {"scan", Continue(t)}, r.cls = th[t].cls,
             r.sel = th[t].sel,
             r.pc = "scan" => \A u \in Threads \ ({t} \cup r.scan) :
                                 Holds(u) => th[u].arr \notin garbage
      PROVE  Memory'
  <2>1. th'[t] = r /\ \A u \in Threads \ {t} : th'[u] = th[u] /\ SameWork(u)
    BY <1>1, <1>2, <1>3, OthersSame
  <2>2. Work(t)'
    <3>1. PICK d : d = th[t].cls
      OBVIOUS
    <3>2. PICK k : k = cache[d]
      OBVIOUS
    <3>3. PICK s : s = th[t].sel
      OBVIOUS
    <3>4. t \in readers =>
            /\ k.buckets # EmptyBuckets /\ k.occupied < k.mask
            /\ Bucket(k.buckets, FindBucket(k, s)).key # s
      BY <1>1, <3>1, <3>2, <3>3 DEF Work, Target, Filling
    <3>5. Bucket(k.buckets, FindBucket(k, s))' = Bucket(k.buckets, FindBucket(k, s))
      <4>1. FindBucket(k, s)' = FindBucket(k, s)
            /\ \A i : Bucket(k.buckets, i)' = Bucket(k.buckets, i)
        BY <1>2, CacheFrame DEF memory
      <4> QED
        BY <4>1
    <3>6. (t \in readers => Target(t)' = d) /\ cache'[d] = k /\ th'[t].sel = s
      BY <1>2, <1>3, <2>1, <3>1, <3>2, <3>3 DEF Target, Filling, memory
    <3>7. th'[t].pc \in {"scan", "setImp", "erase"}
      BY <1>3, <2>1 DEF Continue
    <3> QED
      BY <1>2, <3>4, <3>5, <3>6, <3>7 DEF Work
  <2>3. ScanInBounds(t)' /\ ~Holds(t)'
    BY <1>3, <2>1 DEF ScanInBounds, Holds, Continue
  <2>4. Looked(t)'
    <3>1. \A u \in Threads \ {t} : th'[u].arr = th[u].arr /\ (Holds(u)' <=> Holds(u))
      BY <2>1 DEF Holds, EmptyBuckets
    <3> QED
      BY <1>2, <1>3, <2>1, <3>1 DEF Looked, memory
  <2> QED
    BY <1>1, <1>2, <2>1, <2>2, <2>3, <2>4, QuietMemory
<1>4. PICK u \in th[t].scan :
         IF ~InCritical(u) THEN Become(t, [th[t] EXCEPT !.scan = @ \ {u}])
         ELSE IF th[t].alot THEN Become(t, [th[t] EXCEPT !.scan = Threads \ {t}])
         ELSE Become(t, [th[t] EXCEPT !.pc = Continue(t), !.scan = {}])
  BY DEF Scan
<1>5. CASE ~InCritical(u)
  <2> DEFINE r == [th[t] EXCEPT !.scan = @ \ {u}]
  <2>1. Become(t, r)
    BY <1>4, <1>5
  <2>2. r.pc = "scan" /\ r.cls = th[t].cls /\ r.sel = th[t].sel /\ r.scan = th[t].scan \ {u}
    BY <1>1 DEF Regs, Registers
  <2> HIDE DEF r
  <2>3. ~Holds(u)
    BY <1>5 DEF InCritical, Critical, Holds
  <2>4. \A v \in Threads \ ({t} \cup r.scan) : Holds(v) => th[v].arr \notin garbage
    BY <1>1, <2>2, <2>3 DEF Looked
  <2> QED
    BY <1>3, <2>1, <2>2, <2>4
<1>6. CASE InCritical(u) /\ th[t].alot
  <2> DEFINE r == [th[t] EXCEPT !.scan = Threads \ {t}]
  <2>1. Become(t, r)
    BY <1>4, <1>6
  <2>2. r.pc = "scan" /\ r.cls = th[t].cls /\ r.sel = th[t].sel /\ r.scan = Threads \ {t}
    BY <1>1 DEF Regs, Registers
  <2> HIDE DEF r
  <2> QED
    BY <1>3, <2>1, <2>2
<1>7. CASE InCritical(u) /\ ~th[t].alot
  <2> DEFINE r == [th[t] EXCEPT !.pc = Continue(t), !.scan = {}]
  <2>1. Become(t, r)
    BY <1>4, <1>7
  <2>2. r.pc = Continue(t) /\ r.cls = th[t].cls /\ r.sel = th[t].sel /\ r.pc # "scan"
    BY <1>1 DEF Regs, Registers, Continue
  <2> HIDE DEF r
  <2> QED
    BY <1>3, <2>1, <2>2
<1> QED
  BY <1>5, <1>6, <1>7

\* A change of methods begins.
LEMMA StartChangeMemory ==
  ASSUME IInv, NEW t \in Threads, StartChange(t)
  PROVE  Memory'
<1>1. /\ UNCHANGED memory /\ readers' = readers /\ readers = {}
      /\ th[t].pc \in {"idle", "resolve"} /\ th'[t].pc = "erase"
      /\ \A u \in Threads : LET r == th[u]  q == th'[u] IN
           /\ u # t => q.pc = r.pc
           /\ q.cur = r.cur /\ q.arr = r.arr /\ q.idx = r.idx /\ q.cls = r.cls /\ q.sel = r.sel
           /\ q.mask = r.mask /\ q.old = r.old /\ q.scan = r.scan
  BY ChangeCases
<1>2. \A u \in Threads \ {t} : SameWork(u)
  BY <1>1 DEF SameWork
<1>3. Work(t)' /\ ScanInBounds(t)' /\ Looked(t)' /\ ~Holds(t)'
  BY <1>1 DEF Work, ScanInBounds, Looked, Holds
<1> QED
  BY <1>1, <1>2, <1>3, QuietMemory

\* A cache is about to be flushed.
LEMMA EraseMemory ==
  ASSUME IInv, NEW t \in Threads, NEW c \in Classes, Erase(t, c)
  PROVE  Memory'
<1> DEFINE r == [th[t] EXCEPT !.pc = "setBuckets", !.cur = c, !.arr = EmptyBuckets,
                              !.mask = cache[c].mask, !.old = cache[c].buckets]
<1>1. TypeOK /\ Control /\ Locks(t) /\ th[t] \in Regs /\ th[t].pc = "erase" /\ t \notin readers
  BY CacheAssumption DEF CacheAssumption, IInv, Control, TypeOK, Erase, At, Locks, Critical
<1>2. Become(t, r) /\ UNCHANGED memory /\ readers' = readers
  BY DEF Erase
<1>3. /\ r.pc = "setBuckets" /\ r.cur = c /\ r.arr = EmptyBuckets
      /\ r.mask = cache[c].mask /\ r.old = cache[c].buckets
  BY <1>1 DEF Regs, Registers
<1> HIDE DEF r
<1>4. th'[t] = r /\ \A u \in Threads \ {t} : SameWork(u)
  BY <1>1, <1>2, OthersSame
<1>5. ScanInBounds(t)' /\ Looked(t)' /\ ~Holds(t)'
  BY <1>3, <1>4 DEF ScanInBounds, Looked, Holds
<1>6. Work(t)'
  <2>1. Target(t)' = c /\ cache' = cache /\ t \notin readers'
    BY <1>1, <1>2, <1>3, <1>4 DEF Target, Filling, memory
  <2>2. cache[c].mask \in Nat
    BY <1>1 DEF TypeOK, Caches
  <2> QED
    BY <1>3, <1>4, <2>1, <2>2 DEF Work, IsNew
<1> QED
  BY <1>1, <1>2, <1>4, <1>5, <1>6, QuietMemory

\* A change is complete.
LEMMA EndChangeMemory ==
  ASSUME IInv, NEW t \in Threads, EndChange(t)
  PROVE  Memory'
<1> DEFINE r == [th[t] EXCEPT !.pc = th[t].after, !.after = "idle", !.todo = {}]
<1>1. TypeOK /\ th[t] \in Regs /\ th[t].pc = "erase"
  BY DEF IInv, TypeOK, EndChange, At
<1>2. Become(t, r) /\ UNCHANGED memory /\ readers' = readers
  BY DEF EndChange
<1>3. r \in Regs /\ r.pc \in {"idle", "rdlock", "lockCollect"}
  <2>1. /\ r.cls = th[t].cls /\ r.sel = th[t].sel /\ r.seen = th[t].seen
        /\ r.pc \in {"idle", "rdlock", "lockCollect"}
    BY <1>1 DEF Regs, Registers
  <2>2. r \in Registers
    BY <1>1 DEF Regs, Registers, Labels
  <2> QED
    BY <1>1, <2>1, <2>2 DEF Regs
<1> HIDE DEF r
<1> QED
  BY <1>1, <1>2, <1>3, QuietStep

\* A flush of everything goes on to collect.
LEMMA LockCollectMemory ==
  ASSUME IInv, NEW t \in Threads, LockCollect(t)
  PROVE  Memory'
<1> DEFINE r == [th[t] EXCEPT !.pc = "scan", !.alot = TRUE, !.scan = Threads \ {t}]
<1>1. TypeOK /\ Control /\ Locks(t) /\ th[t] \in Regs /\ th[t].pc = "lockCollect"
      /\ t \notin readers
  BY CacheAssumption DEF CacheAssumption, IInv, Control, TypeOK, LockCollect, At, Locks, Critical
<1>2. Become(t, r) /\ UNCHANGED memory /\ readers' = readers
  BY DEF LockCollect
<1>3. r.pc = "scan" /\ r.scan = Threads \ {t}
  BY <1>1 DEF Regs, Registers
<1> HIDE DEF r
<1>4. th'[t] = r /\ \A u \in Threads \ {t} : SameWork(u)
  BY <1>1, <1>2, OthersSame
<1>5. ScanInBounds(t)' /\ Looked(t)' /\ ~Holds(t)' /\ Work(t)'
  BY <1>1, <1>2, <1>3, <1>4 DEF ScanInBounds, Looked, Holds, Work
<1> QED
  BY <1>1, <1>2, <1>4, <1>5, QuietMemory

\* The owner of cacheUpdateLock works alone.
LEMMA WorkAlone ==
  ASSUME TypeOK, Control, NEW t \in Threads, cacheUpdateLock \in {t, NoThread},
         NEW u \in Threads, u # t, th'[u] = th[u]
  PROVE  Work(u)' /\ Looked(u)'
<1>1. Locks(u) /\ NoThread \notin Threads
  BY CacheAssumption DEF Control, CacheAssumption
<1>2. ~Updating(u)
  BY <1>1 DEF Locks
<1> QED
  BY <1>2 DEF Work, Looked, Updating

\* A scan stays in bounds if masks do not shrink and what it holds keeps its length.
LEMMA BoundsStay ==
  ASSUME TypeOK, Control, NEW u \in Threads, ScanInBounds(u), th'[u] = th[u],
         cache' \in [Classes -> Caches], \A c \in Classes : cache[c].mask <= cache'[c].mask,
         Holds(u) => /\ heap'[th[u].arr] # Freed
                     /\ Len(heap'[th[u].arr]) = Len(heap[th[u].arr])
  PROVE  ScanInBounds(u)'
<1>1. th[u].idx \in Nat /\ (th[u].pc = "buckets" => th[u].cur \in Classes)
  BY DEF TypeOK, Regs, Registers, Control, Locks, Critical
<1>2. th[u].pc = "buckets" => th[u].idx <= cache'[th[u].cur].mask
  BY <1>1 DEF ScanInBounds, TypeOK, Caches
<1>3. Holds(u)' <=> Holds(u)
  BY DEF Holds, EmptyBuckets
<1> QED
  BY <1>2, <1>3 DEF ScanInBounds

\* The owner of cacheUpdateLock changes one cache and its array.
LEMMA OneCache ==
  ASSUME IInv, TypeOK', NEW t \in Threads, cacheUpdateLock = t, NEW c \in Classes, Target(t) = c,
         \A u \in Threads \ {t} : th'[u] = th[u],
         cache[c].mask <= cache'[c].mask,
         \A d \in Classes \ {c} : /\ cache'[d] = cache[d]
                                  /\ cache[d].buckets # EmptyBuckets =>
                                       /\ heap'[cache[d].buckets] = heap[cache[d].buckets]
                                       /\ cache[d].buckets \notin garbage',
         \A a \in Addresses : heap[a] # Freed => /\ heap'[a] # Freed
                                                 /\ Len(heap'[a]) = Len(heap[a])
  PROVE  /\ \A d \in Classes \ {c} : CacheOwns(d)' /\ CacheCounts(d)'
         /\ \A u \in Threads \ {t} : Work(u)' /\ ScanInBounds(u)' /\ Looked(u)'
<1>1. TypeOK /\ Control /\ Memory
  BY DEF IInv
<1>2. ASSUME NEW d \in Classes, d # c
      PROVE  CacheOwns(d)' /\ CacheCounts(d)'
  <2>1. CacheOwns(d) /\ CacheCounts(d)
    BY <1>1 DEF Memory
  <2>2. ~Busy(d)
    BY <1>1, <1>2 DEF Busy, Control, Locks, Updating
  <2>3. CacheOwns(d)'
    BY <1>2, <2>1 DEF CacheOwns, Owned
  <2>4. CacheCounts(d)'
    BY <1>2, <2>1, <2>2, CountsStay
  <2> QED
    BY <2>3, <2>4
<1>3. ASSUME NEW u \in Threads, u # t
      PROVE  Work(u)' /\ ScanInBounds(u)' /\ Looked(u)'
  <2>1. th'[u] = th[u] /\ ScanInBounds(u) /\ th[u] \in Regs
    BY <1>1, <1>3 DEF Memory, TypeOK
  <2>2. cache' \in [Classes -> Caches]
    BY DEF TypeOK
  <2>3. \A d \in Classes : cache[d].mask \in Nat /\ cache'[d].mask \in Nat
    BY <1>1, <2>2 DEF TypeOK, Caches
  <2>4. \A d \in Classes : cache[d].mask <= cache'[d].mask
    <3> SUFFICES ASSUME NEW d \in Classes
                 PROVE  cache[d].mask <= cache'[d].mask
      OBVIOUS
    <3>1. CASE d = c
      BY <3>1
    <3>2. CASE d # c
      BY <2>3, <3>2
    <3> QED
      BY <3>1, <3>2
  <2>5. Holds(u) => heap'[th[u].arr] # Freed /\ Len(heap'[th[u].arr]) = Len(heap[th[u].arr])
    BY <2>1 DEF ScanInBounds, Holds, Regs, Registers, EmptyBuckets
  <2>6. ScanInBounds(u)'
    BY <1>1, <2>1, <2>2, <2>4, <2>5, BoundsStay
  <2> QED
    BY <1>1, <1>3, <2>1, <2>6, WorkAlone
<1> QED
  BY <1>2, <1>3

\* The new buckets are stored: they are no fewer than the old mask allows.
LEMMA SetBucketsMemory ==
  ASSUME IInv, NEW t \in Threads, SetBuckets(t)
  PROVE  Memory'
<1> DEFINE r == [th[t] EXCEPT !.pc = "setMask"]
<1>1. PICK c : c = Target(t)
  OBVIOUS
<1>2. PICK k : k = cache[c]
  OBVIOUS
<1>3. PICK q : q = th[t]
  OBVIOUS
<1>4. TypeOK /\ Control /\ Memory /\ Locks(t) /\ q \in Regs /\ q.pc = "setBuckets"
      /\ c \in Classes /\ k \in Caches /\ Work(t) /\ cacheUpdateLock = t
  BY <1>1, <1>2, <1>3, TargetFacts
     DEF IInv, Control, Memory, TypeOK, SetBuckets, At, Locks, Updating
<1>5. heap' = heap /\ garbage' = garbage /\ readers' = readers /\ Become(t, r)
  BY DEF SetBuckets, locks
<1>6. r.pc = "setMask" /\ r.arr = q.arr /\ r.mask = q.mask /\ r.old = q.old /\ r.cls = q.cls
      /\ r.cur = q.cur
  BY <1>3, <1>4 DEF Regs, Registers
<1> HIDE DEF r
<1>7. th'[t] = r /\ \A u \in Threads \ {t} : th'[u] = th[u]
  BY <1>4, <1>5, OthersSame
<1>8. /\ cache'[c] = [k EXCEPT !.buckets = q.arr]
      /\ \A d \in Classes \ {c} : cache'[d] = cache[d]
  BY <1>1, <1>2, <1>3, <1>4 DEF SetBuckets, StoreFirst, TypeOK
<1>9. cache'[c].buckets = q.arr /\ cache'[c].mask = k.mask /\ cache'[c].occupied = k.occupied
      /\ k.mask \in Nat /\ q.mask \in Nat
  BY <1>4, <1>8 DEF Caches, Regs, Registers
<1>10. /\ IsNew(q.arr, q.mask + 1) /\ k.mask <= q.mask /\ q.old = k.buckets
       /\ q.arr # EmptyBuckets => \A d \in Classes : cache[d].buckets # q.arr
       /\ t \in readers => q.arr # EmptyBuckets
  BY <1>1, <1>2, <1>3, <1>4 DEF Work
<1>11. Target(t)' = c
  BY <1>1, <1>3, <1>5, <1>6, <1>7 DEF Target, Filling
<1>12. \A d \in Classes : CacheOwns(d) /\ (cache[d].buckets # EmptyBuckets =>
                                             cache[d].buckets \notin garbage)
  BY <1>4 DEF Memory, CacheOwns, Owned
<1>13. /\ \A d \in Classes \ {c} : CacheOwns(d)' /\ CacheCounts(d)'
       /\ \A u \in Threads \ {t} : Work(u)' /\ ScanInBounds(u)' /\ Looked(u)'
  <2>1. cache[c].mask <= cache'[c].mask
    BY <1>2, <1>9
  <2> QED
    BY <1>1, <1>4, <1>5, <1>7, <1>8, <1>12, <2>1, OneCache, SetBucketsControl
<1>14. CacheOwns(c)' /\ CacheCounts(c)'
  <2>1. Busy(c)'
    BY <1>6, <1>7, <1>11 DEF Busy
  <2>2. q.arr # EmptyBuckets => Owned(q.arr) /\ Len(heap[q.arr]) = (q.mask + 1) + 1
    BY <1>10 DEF IsNew
  <2>3. CacheOwns(c)'
    BY <1>5, <1>9, <1>10, <2>2 DEF CacheOwns, Owned
  <2> QED
    BY <2>1, <2>3 DEF CacheCounts
<1>15. Apart'
  <2> SUFFICES ASSUME NEW d \in Classes, NEW e \in Classes,
                      cache'[d].buckets = cache'[e].buckets, d # e
               PROVE  cache'[d].buckets = EmptyBuckets
    BY DEF Apart
  <2>1. CASE d # c /\ e # c
    BY <1>4, <1>8, <2>1 DEF Memory, Apart
  <2>2. CASE d = c \/ e = c
    BY <1>8, <1>9, <1>10, <2>2
  <2> QED
    BY <2>1, <2>2
<1>16. ScanInBounds(t)' /\ Looked(t)'
  BY <1>6, <1>7 DEF ScanInBounds, Looked, Holds
<1>17. Work(t)'
  <2>1. q.old # EmptyBuckets => Owned(q.old)' /\ \A d \in Classes : cache'[d].buckets # q.old
    <3> SUFFICES ASSUME q.old # EmptyBuckets
                 PROVE  Owned(q.old)' /\ \A d \in Classes : cache'[d].buckets # q.old
      OBVIOUS
    <3>1. Owned(q.old)
      BY <1>2, <1>4, <1>10, <1>12 DEF CacheOwns
    <3>2. q.arr # q.old
      BY <1>2, <1>4, <1>10
    <3>3. \A d \in Classes \ {c} : cache[d].buckets # q.old
      BY <1>2, <1>4, <1>10 DEF Memory, Apart
    <3> QED
      BY <1>5, <1>8, <1>9, <3>1, <3>2, <3>3 DEF Owned
  <2>2. th'[t].pc = "setMask" /\ th'[t].arr = q.arr /\ th'[t].mask = q.mask /\ th'[t].old = q.old
    BY <1>6, <1>7
  <2>3. IsNew(q.arr, q.mask + 1)'
    BY <1>5, <1>10 DEF IsNew, Owned
  <2> QED
    BY <1>5, <1>9, <1>10, <1>11, <2>1, <2>2, <2>3 DEF Work
<1>18. /\ heap' \in [Addresses -> Arrays \cup {Freed}]
       /\ \A a \in garbage' : heap'[a] # Freed
  BY <1>4, <1>5 DEF Memory
<1>19. \A d \in Classes : CacheOwns(d)' /\ CacheCounts(d)'
  BY <1>13, <1>14
<1>20. \A u \in Threads : Work(u)' /\ ScanInBounds(u)' /\ Looked(u)'
  BY <1>13, <1>16, <1>17
<1> QED
  BY <1>15, <1>18, <1>19, <1>20 DEF Memory

\* The new mask is stored with the count at zero, and the old buckets go to waste: no cache has
\* them any more.
LEMMA SetMaskMemory ==
  ASSUME IInv, NEW t \in Threads, SetMask(t)
  PROVE  Memory'
<1>1. PICK c : c = Target(t)
  OBVIOUS
<1>2. PICK k : k = cache[c]
  OBVIOUS
<1>3. PICK q : q = th[t]
  OBVIOUS
<1>4. TypeOK /\ Control /\ Memory /\ Locks(t) /\ q \in Regs /\ q.pc = "setMask"
      /\ c \in Classes /\ k \in Caches /\ Work(t) /\ cacheUpdateLock = t
      /\ (t \in readers => c = q.cls /\ q.sel \in Sels) /\ TypeOK'
  BY <1>1, <1>2, <1>3, TargetFacts, SetMaskControl
     DEF IInv, Control, Memory, TypeOK, SetMask, At, Locks, Updating, InMessage
<1>5. heap' = heap /\ readers' = readers /\ garbage' = garbage \cup ({q.old} \ {0})
  BY <1>3 DEF SetMask, locks
<1>6. PICK r \in Regs :
        /\ Become(t, r)
        /\ (r.pc = "scan" /\ r.scan = Threads \ {t}) \/ r.pc = Continue(t)
        /\ r.cls = q.cls /\ r.sel = q.sel
  BY <1>3, <1>4, AfterSetMask
<1>7. th'[t] = r /\ \A u \in Threads \ {t} : th'[u] = th[u]
  BY <1>4, <1>5, <1>6, OthersSame
<1>8. PICK n : n = [buckets |-> q.arr, mask |-> q.mask, occupied |-> 0]
  OBVIOUS
<1>9. cache'[c] = n /\ \A d \in Classes \ {c} : cache'[d] = cache[d]
  BY <1>1, <1>3, <1>4, <1>8 DEF SetMask, TypeOK
<1>10. n.buckets = q.arr /\ n.mask = q.mask /\ n.occupied = 0 /\ k.mask \in Nat /\ q.mask \in Nat
  BY <1>4, <1>8 DEF Caches, Regs, Registers
<1>11. /\ IsNew(q.arr, q.mask + 1) /\ k.mask <= q.mask /\ q.arr = k.buckets
       /\ q.old # EmptyBuckets => Owned(q.old) /\ \A d \in Classes : cache[d].buckets # q.old
       /\ t \in readers => q.arr # EmptyBuckets
  BY <1>1, <1>2, <1>3, <1>4 DEF Work
<1>12. \A d \in Classes : CacheOwns(d) /\ (cache[d].buckets # EmptyBuckets =>
                                             cache[d].buckets \notin garbage')
  BY <1>4, <1>5, <1>11 DEF Memory, CacheOwns, Owned, EmptyBuckets
<1>13. /\ \A d \in Classes \ {c} : CacheOwns(d)' /\ CacheCounts(d)'
       /\ \A u \in Threads \ {t} : Work(u)' /\ ScanInBounds(u)' /\ Looked(u)'
  <2>1. cache[c].mask <= cache'[c].mask
    BY <1>2, <1>9, <1>10, <1>11
  <2> QED
    BY <1>1, <1>4, <1>5, <1>7, <1>9, <1>12, <2>1, OneCache
<1>14. q.arr # EmptyBuckets =>
         /\ q.arr \in Addresses /\ heap[q.arr] # Freed /\ q.arr \notin garbage'
         /\ Len(heap[q.arr]) = q.mask + 2 /\ q.mask >= 1
         /\ \A i \in 0 .. q.mask : Bucket(q.arr, i).key = 0
  <2> SUFFICES ASSUME q.arr # EmptyBuckets
               PROVE  /\ q.arr \in Addresses /\ heap[q.arr] # Freed /\ q.arr \notin garbage'
                      /\ Len(heap[q.arr]) = q.mask + 2 /\ q.mask >= 1
                      /\ \A i \in 0 .. q.mask : Bucket(q.arr, i).key = 0
    OBVIOUS
  <2>1. Owned(q.arr) /\ Len(heap[q.arr]) = (q.mask + 1) + 1 /\ q.mask + 1 >= 2
        /\ \A i \in 1 .. q.mask + 1 : heap[q.arr][i].key = 0
    BY <1>11 DEF IsNew
  <2>2. q.arr \notin garbage'
    BY <1>2, <1>4, <1>11, <1>12
  <2>3. \A i \in 0 .. q.mask : Bucket(q.arr, i).key = 0
    <3> SUFFICES ASSUME NEW i \in 0 .. q.mask
                 PROVE  Bucket(q.arr, i).key = 0
      OBVIOUS
    <3>1. i + 1 \in 1 .. q.mask + 1
      BY <1>10
    <3> QED
      BY <2>1, <3>1 DEF Bucket
  <2> QED
    BY <1>10, <2>1, <2>2, <2>3 DEF Owned
<1>15. \A i : Bucket(n.buckets, i)' = Bucket(n.buckets, i)
  BY <1>5 DEF Bucket
<1>16. CacheOwns(c)' /\ CacheCounts(c)'
  <2>1. CacheOwns(c)'
    BY <1>5, <1>9, <1>10, <1>14 DEF CacheOwns, Owned
  <2>2. n.buckets # EmptyBuckets => Used(n)' = {}
    BY <1>10, <1>14, <1>15 DEF Used
  <2>3. n.buckets # EmptyBuckets => Cardinality(Used(n)') = 0
    BY <2>2, FS_EmptySet
  <2>4. Counted(n, Cardinality(Used(n)))'
    BY <1>5, <1>10, <1>14, <2>3 DEF Counted
  <2> QED
    BY <1>9, <2>1, <2>4 DEF CacheCounts
<1>17. Apart'
  <2>1. \A d \in Classes : cache'[d].buckets = cache[d].buckets
    BY <1>2, <1>9, <1>10, <1>11
  <2> QED
    BY <1>4, <2>1 DEF Memory, Apart
<1>18. r.pc \in {"scan", "setImp", "erase"}
  BY <1>6 DEF Continue
<1>19. ScanInBounds(t)' /\ Looked(t)'
  <2>1. ScanInBounds(t)'
    BY <1>7, <1>18 DEF ScanInBounds, Holds
  <2>2. Looked(t)'
    BY <1>6, <1>7, <1>18 DEF Looked, Continue
  <2> QED
    BY <2>1, <2>2
<1>20. Work(t)'
  <2>1. t \in readers =>
          /\ n.buckets # EmptyBuckets /\ n.occupied < n.mask
          /\ Bucket(n.buckets, FindBucket(n, q.sel))'.key # q.sel
    <3> SUFFICES ASSUME t \in readers
                 PROVE  /\ n.buckets # EmptyBuckets /\ n.occupied < n.mask
                        /\ Bucket(n.buckets, FindBucket(n, q.sel))'.key # q.sel
      OBVIOUS
    <3>1. n.buckets # EmptyBuckets /\ n.occupied < n.mask
      BY <1>10, <1>11, <1>14
    <3>2. q.sel \in Nat /\ q.sel > 1
      BY <1>4, CacheAssumption DEF CacheAssumption
    <3>3. 0 \in 0 .. n.mask /\ Bucket(n.buckets, 0).key = 0
      BY <1>10, <1>11, <1>14
    <3>4. FindBucket(n, q.sel) \in 0 .. n.mask
      BY <1>10, <3>2, <3>3, FindStops
    <3>5. FindBucket(n, q.sel)' = FindBucket(n, q.sel)
      BY <1>5, CacheFrame
    <3>6. Bucket(n.buckets, FindBucket(n, q.sel)).key = 0
      BY <1>10, <1>11, <1>14, <3>4
    <3>7. Bucket(n.buckets, FindBucket(n, q.sel))' = Bucket(n.buckets, FindBucket(n, q.sel))
      BY <1>15, <3>5
    <3> QED
      BY <3>1, <3>2, <3>6, <3>7
  <2>2. (t \in readers => Target(t)' = c) /\ th'[t].sel = q.sel
    BY <1>4, <1>5, <1>6, <1>7 DEF Target, Filling
  <2> QED
    BY <1>5, <1>7, <1>9, <1>18, <2>1, <2>2 DEF Work
<1>21. /\ heap' \in [Addresses -> Arrays \cup {Freed}]
       /\ \A a \in garbage' : heap'[a] # Freed
  BY <1>4, <1>5, <1>11 DEF Memory, Owned, EmptyBuckets
<1>22. \A d \in Classes : CacheOwns(d)' /\ CacheCounts(d)'
  BY <1>13, <1>16
<1>23. \A u \in Threads : Work(u)' /\ ScanInBounds(u)' /\ Looked(u)'
  BY <1>13, <1>19, <1>20
<1> QED
  BY <1>17, <1>21, <1>22, <1>23 DEF Memory

\* One bucket of an array is written.
Writes(a, i, e) == heap' = [heap EXCEPT ![a][i + 1] = e]

\* It is not the end marker: the array stays an array, and nothing else changes.
LEMMA BucketWritten ==
  ASSUME heap \in [Addresses -> Arrays \cup {Freed}], NEW a \in Addresses, heap[a] # Freed,
         NEW i \in Nat, i + 2 <= Len(heap[a]), NEW e \in Entries, a # EmptyBuckets,
         Writes(a, i, e)
  PROVE  /\ heap' \in [Addresses -> Arrays \cup {Freed}]
         /\ heap[a] \in Arrays /\ heap'[a] \in Arrays /\ heap'[a] # Freed
         /\ Len(heap'[a]) = Len(heap[a]) /\ heap'[a][i + 1] = e
         /\ \A j \in DOMAIN heap'[a] : j # i + 1 => heap'[a][j] = heap[a][j]
         /\ \A b \in Addresses \ {a} : heap'[b] = heap[b]
         /\ Bucket(a, i)' = e
         /\ \A j \in Nat : j # i /\ j + 1 <= Len(heap[a]) => Bucket(a, j)' = Bucket(a, j)
<1>1. PICK h : h = heap[a]
  OBVIOUS
<1>2. PICK l : l = i + 1
  OBVIOUS
<1>3. PICK g : g = [h EXCEPT ![l] = e]
  OBVIOUS
<1>4. h \in Arrays /\ h \in [1 .. Len(h) -> Entries] /\ h \in Seq(Entries) /\ Len(h) \in Nat
      /\ h[Len(h)].key = EndMarker /\ Len(h) >= 2
  BY <1>1, LenProperties DEF Arrays
<1>5. l \in 1 .. Len(h) /\ l # Len(h) /\ Len(h) \in 1 .. Len(h)
  BY <1>1, <1>2, <1>4
<1>6. g \in [1 .. Len(h) -> Entries] /\ g[l] = e /\ \A j \in 1 .. Len(h) : j # l => g[j] = h[j]
  BY <1>3, <1>4, <1>5
<1>7. g \in Seq(Entries) /\ Len(g) = Len(h)
  BY <1>4, <1>6, LenProperties
<1>8. g \in Arrays /\ g # Freed /\ DOMAIN g = 1 .. Len(h)
  <2>1. g[Len(h)] = h[Len(h)]
    BY <1>5, <1>6
  <2> QED
    BY <1>4, <1>6, <1>7, <2>1 DEF Arrays, Freed
<1>9. heap' = [heap EXCEPT ![a] = g]
  BY <1>1, <1>2, <1>3 DEF Writes
<1>10. heap'[a] = g /\ \A b \in Addresses \ {a} : heap'[b] = heap[b]
  BY <1>9
<1>11. heap' \in [Addresses -> Arrays \cup {Freed}]
  BY <1>8, <1>9
<1>12. Bucket(a, i)' = e
  BY <1>2, <1>6, <1>10 DEF Bucket
<1>13. ASSUME NEW j \in Nat, j # i, j + 1 <= Len(heap[a])
       PROVE  Bucket(a, j)' = Bucket(a, j)
  <2>1. j + 1 \in 1 .. Len(h) /\ j + 1 # l
    BY <1>1, <1>2, <1>4, <1>13
  <2> QED
    BY <1>1, <1>6, <1>10, <2>1 DEF Bucket
<1> QED
  BY <1>1, <1>2, <1>4, <1>6, <1>7, <1>8, <1>10, <1>11, <1>12, <1>13

\* The imp of the bucket that the scan of the filling thread found is written: its key is zero.
LEMMA SetImpMemory ==
  ASSUME IInv, NEW t \in Threads, SetImp(t)
  PROVE  Memory'
<1>1. PICK c : c = Target(t)
  OBVIOUS
<1>2. PICK k : k = cache[c]
  OBVIOUS
<1>3. PICK q : q = th[t]
  OBVIOUS
<1>4. PICK i : i = FindBucket(k, q.sel)
  OBVIOUS
<1>5. PICK a : a = k.buckets
  OBVIOUS
<1>6. TypeOK /\ Control /\ Memory /\ Locks(t) /\ q \in Regs /\ q.pc = "setImp"
      /\ c \in Classes /\ k \in Caches /\ Work(t) /\ cacheUpdateLock = t /\ t \in readers
      /\ c = q.cls /\ q.sel \in Sels /\ TypeOK'
  BY <1>1, <1>2, <1>3, TargetFacts, SetImpControl
     DEF IInv, Control, Memory, TypeOK, SetImp, At, Locks, Updating, InMessage
<1>7. garbage' = garbage /\ readers' = readers
  BY DEF SetImp, locks
<1>8. PICK e : e = [key |-> 0, imp |-> q.imp]
  OBVIOUS
<1>9. /\ heap' = [heap EXCEPT ![a][i + 1] = e]
      /\ cache' = [cache EXCEPT ![c].occupied = @ + 1]
      /\ Become(t, [q EXCEPT !.pc = "setKey", !.idx = i])
  BY <1>2, <1>3, <1>4, <1>5, <1>6, <1>8 DEF SetImp, WrittenFirst
<1>10. /\ th'[t] = [q EXCEPT !.pc = "setKey", !.idx = i]
       /\ \A u \in Threads \ {t} : th'[u] = th[u]
  BY <1>6, <1>7, <1>9, OthersSame
<1>11. th'[t].pc = "setKey" /\ th'[t].idx = i /\ th'[t].cls = c
  BY <1>6, <1>10 DEF Regs, Registers
<1>12. PICK n : n = [k EXCEPT !.occupied = @ + 1]
  OBVIOUS
<1>13. cache'[c] = n /\ \A d \in Classes \ {c} : cache'[d] = cache[d]
  BY <1>2, <1>6, <1>9, <1>12 DEF TypeOK
<1>14. /\ n.buckets = a /\ n.mask = k.mask /\ n.occupied = k.occupied + 1
       /\ k.mask \in Nat /\ k.occupied \in Nat
  BY <1>5, <1>6, <1>12 DEF Caches
<1>15. a # EmptyBuckets /\ k.occupied < k.mask /\ Bucket(a, i).key # q.sel
  BY <1>1, <1>2, <1>3, <1>4, <1>5, <1>6 DEF Work
<1>16. ~Busy(c)
  BY <1>3, <1>6, NobodyBusy
<1>17. CacheOwns(c) /\ Counted(k, Cardinality(Used(k)))
  BY <1>2, <1>6, <1>16 DEF Memory, CacheCounts
<1>18. i \in 0 .. k.mask /\ Bucket(a, i).key = 0
  <2>1. i \in 0 .. k.mask /\ Stops(k, q.sel, i)
    BY <1>2, <1>4, <1>6, <1>16, FindInCache
  <2> QED
    BY <1>5, <1>15, <2>1 DEF Stops
<1>19. a \in Addresses /\ heap[a] # Freed /\ a \notin garbage /\ Len(heap[a]) = k.mask + 2
  BY <1>2, <1>5, <1>15, <1>17 DEF CacheOwns, Owned, Counted
<1>20. /\ heap' \in [Addresses -> Arrays \cup {Freed}]
       /\ heap'[a] # Freed /\ Len(heap'[a]) = Len(heap[a])
       /\ \A b \in Addresses \ {a} : heap'[b] = heap[b]
       /\ Bucket(a, i)' = e
       /\ \A j \in Nat : j # i /\ j + 1 <= Len(heap[a]) => Bucket(a, j)' = Bucket(a, j)
  <2>1. e \in Entries
    BY <1>6, <1>8 DEF Entries, Regs, Registers
  <2>2. i \in Nat /\ i + 2 <= Len(heap[a]) /\ heap \in [Addresses -> Arrays \cup {Freed}]
    BY <1>6, <1>14, <1>18, <1>19 DEF Memory
  <2>3. Writes(a, i, e)
    BY <1>9 DEF Writes
  <2> QED
    BY <1>15, <1>19, <2>1, <2>2, <2>3, BucketWritten
<1>21. \A d \in Classes \ {c} : CacheOwns(d) /\ cache[d].buckets # a
  BY <1>2, <1>5, <1>6, <1>15 DEF Memory, Apart
<1>22. /\ \A d \in Classes \ {c} : CacheOwns(d)' /\ CacheCounts(d)'
       /\ \A u \in Threads \ {t} : Work(u)' /\ ScanInBounds(u)' /\ Looked(u)'
  <2>1. cache[c].mask <= cache'[c].mask
    BY <1>2, <1>13, <1>14
  <2>2. \A d \in Classes \ {c} : cache[d].buckets # EmptyBuckets =>
           /\ heap'[cache[d].buckets] = heap[cache[d].buckets]
           /\ cache[d].buckets \notin garbage'
    BY <1>7, <1>20, <1>21 DEF CacheOwns, Owned
  <2>3. \A b \in Addresses : heap[b] # Freed => heap'[b] # Freed /\ Len(heap'[b]) = Len(heap[b])
    BY <1>20
  <2> QED
    BY <1>1, <1>6, <1>10, <1>13, <2>1, <2>2, <2>3, OneCache
<1>23. Target(t)' = c
  BY <1>6, <1>7, <1>11 DEF Target, Filling
<1>24. CacheOwns(c)' /\ CacheCounts(c)'
  <2>1. CacheOwns(c)'
    BY <1>7, <1>13, <1>14, <1>19, <1>20 DEF CacheOwns, Owned
  <2>2. Busy(c)'
    BY <1>11, <1>23 DEF Busy
  <2> QED
    BY <2>1, <2>2 DEF CacheCounts
<1>25. Apart'
  <2>1. \A d \in Classes : cache'[d].buckets = cache[d].buckets
    BY <1>2, <1>5, <1>13, <1>14
  <2> QED
    BY <1>6, <2>1 DEF Memory, Apart
<1>26. ScanInBounds(t)' /\ Looked(t)'
  BY <1>11 DEF ScanInBounds, Looked, Holds
<1>27. Work(t)'
  <2>1. Used(n)' = Used(k)
    <3>1. \A j \in 0 .. k.mask : Bucket(a, j)'.key = Bucket(a, j).key
      <4> SUFFICES ASSUME NEW j \in 0 .. k.mask
                   PROVE  Bucket(a, j)'.key = Bucket(a, j).key
        OBVIOUS
      <4>1. CASE j = i
        BY <1>8, <1>18, <1>20, <4>1
      <4>2. CASE j # i
        BY <1>14, <1>19, <1>20, <4>2
      <4> QED
        BY <4>1, <4>2
    <3> QED
      BY <1>5, <1>14, <3>1 DEF Used
  <2>2. Counted(k, Cardinality(Used(n)))'
    <3>1. \A u : Counted(k, u)' <=> Counted(k, u)
      BY <1>5, <1>19, <1>20 DEF Counted
    <3> QED
      BY <1>17, <2>1, <3>1
  <2>3. /\ n.buckets # EmptyBuckets
        /\ i \in 0 .. n.mask /\ Bucket(n.buckets, i)'.key = 0
        /\ n.occupied >= 1 /\ n.occupied <= n.mask
    BY <1>8, <1>14, <1>15, <1>18, <1>20
  <2>4. Counted([n EXCEPT !.occupied = @ - 1], Cardinality(Used(n)))'
    <3>1. PICK m : m = [n EXCEPT !.occupied = @ - 1]
      OBVIOUS
    <3>2. m.buckets = k.buckets /\ m.mask = k.mask /\ m.occupied = k.occupied
      BY <1>5, <1>6, <1>12, <1>14, <3>1 DEF Caches
    <3> QED
      BY <2>2, <3>1, <3>2 DEF Counted
  <2> QED
    BY <1>11, <1>13, <1>23, <2>3, <2>4 DEF Work
<1>28. \A b \in garbage' : heap'[b] # Freed
  BY <1>6, <1>7, <1>20 DEF Memory, TypeOK
<1>29. \A d \in Classes : CacheOwns(d)' /\ CacheCounts(d)'
  BY <1>22, <1>24
<1>30. \A u \in Threads : Work(u)' /\ ScanInBounds(u)' /\ Looked(u)'
  BY <1>22, <1>26, <1>27
<1> QED
  BY <1>20, <1>25, <1>28, <1>29, <1>30 DEF Memory

\* The key is written: one bucket more is in use, as counted.
LEMMA SetKeyMemory ==
  ASSUME IInv, NEW t \in Threads, SetKey(t)
  PROVE  Memory'
<1>1. PICK c : c = Target(t)
  OBVIOUS
<1>2. PICK k : k = cache[c]
  OBVIOUS
<1>3. PICK q : q = th[t]
  OBVIOUS
<1>4. PICK i : i = q.idx
  OBVIOUS
<1>5. PICK a : a = k.buckets
  OBVIOUS
<1>6. TypeOK /\ Control /\ Memory /\ Locks(t) /\ q \in Regs /\ q.pc = "setKey"
      /\ c \in Classes /\ k \in Caches /\ Work(t) /\ cacheUpdateLock = t /\ t \in readers
      /\ c = q.cls /\ q.sel \in Sels /\ TypeOK' /\ Control'
  BY <1>1, <1>2, <1>3, TargetFacts, SetKeyControl
     DEF IInv, Control, Memory, TypeOK, SetKey, At, Locks, Updating, InMessage
<1>7. garbage' = garbage /\ cache' = cache /\ cacheUpdateLock' = NoThread
      /\ Become(t, Idle) /\ readers' = readers \ {t}
  BY DEF SetKey, Answer
<1>8. PICK e : e = [key |-> q.sel, imp |-> q.imp]
  OBVIOUS
<1>9. heap' = [heap EXCEPT ![a][i + 1] = e]
  BY <1>2, <1>3, <1>4, <1>5, <1>6, <1>8 DEF SetKey
<1>10. th'[t] = Idle /\ \A u \in Threads \ {t} : th'[u] = th[u]
  BY <1>6, <1>7, OthersSame
<1>11. k.mask \in Nat /\ k.occupied \in Nat
  BY <1>6 DEF Caches
<1>12. /\ a # EmptyBuckets /\ i \in 0 .. k.mask /\ Bucket(a, i).key = 0
       /\ k.occupied >= 1 /\ k.occupied <= k.mask
       /\ Counted([k EXCEPT !.occupied = @ - 1], Cardinality(Used(k)))
  BY <1>1, <1>2, <1>3, <1>4, <1>5, <1>6 DEF Work
<1>13. Len(heap[a]) = k.mask + 2 /\ k.mask >= 1 /\ k.occupied - 1 = Cardinality(Used(k))
  <2>1. PICK m : m = [k EXCEPT !.occupied = @ - 1]
    OBVIOUS
  <2>2. m.buckets = a /\ m.mask = k.mask /\ m.occupied = k.occupied - 1
    BY <1>5, <1>6, <2>1 DEF Caches
  <2> QED
    BY <1>12, <2>1, <2>2 DEF Counted
<1>14. a \in Addresses /\ heap[a] # Freed /\ a \notin garbage
  BY <1>2, <1>5, <1>6, <1>12 DEF Memory, CacheOwns, Owned
<1>15. /\ heap' \in [Addresses -> Arrays \cup {Freed}]
       /\ heap'[a] # Freed /\ Len(heap'[a]) = Len(heap[a])
       /\ \A b \in Addresses \ {a} : heap'[b] = heap[b]
       /\ Bucket(a, i)' = e
       /\ \A j \in Nat : j # i /\ j + 1 <= Len(heap[a]) => Bucket(a, j)' = Bucket(a, j)
  <2>1. e \in Entries
    BY <1>6, <1>8 DEF Entries, Regs, Registers
  <2>2. i \in Nat /\ i + 2 <= Len(heap[a]) /\ heap \in [Addresses -> Arrays \cup {Freed}]
    BY <1>6, <1>11, <1>12, <1>13 DEF Memory
  <2>3. Writes(a, i, e)
    BY <1>9 DEF Writes
  <2> QED
    BY <1>12, <1>14, <2>1, <2>2, <2>3, BucketWritten
<1>16. \A d \in Classes \ {c} : CacheOwns(d) /\ cache[d].buckets # a
  BY <1>2, <1>5, <1>6, <1>12 DEF Memory, Apart
<1>17. /\ \A d \in Classes \ {c} : CacheOwns(d)' /\ CacheCounts(d)'
       /\ \A u \in Threads \ {t} : Work(u)' /\ ScanInBounds(u)' /\ Looked(u)'
  <2>1. cache[c].mask <= cache'[c].mask
    BY <1>2, <1>7, <1>11
  <2>2. \A d \in Classes \ {c} : cache[d].buckets # EmptyBuckets =>
           /\ heap'[cache[d].buckets] = heap[cache[d].buckets]
           /\ cache[d].buckets \notin garbage'
    BY <1>7, <1>15, <1>16 DEF CacheOwns, Owned
  <2>3. \A b \in Addresses : heap[b] # Freed => heap'[b] # Freed /\ Len(heap'[b]) = Len(heap[b])
    BY <1>15
  <2> QED
    BY <1>1, <1>6, <1>7, <1>10, <2>1, <2>2, <2>3, OneCache
<1>18. Used(k)' = Used(k) \cup {i}
  <2>1. q.sel # 0
    BY <1>6, CacheAssumption DEF CacheAssumption
  <2>2. \A j \in 0 .. k.mask : j # i => Bucket(a, j)' = Bucket(a, j)
    BY <1>11, <1>13, <1>15
  <2> QED
    BY <1>5, <1>8, <1>12, <1>15, <2>1, <2>2 DEF Used
<1>19. Cardinality(Used(k)') = k.occupied
  <2> DEFINE S == Used(k)
  <2>1. IsFiniteSet(S) /\ i \notin S /\ Cardinality(S) = k.occupied - 1
    BY <1>5, <1>6, <1>12, <1>13, UsedFacts DEF Used
  <2>2. Cardinality(S \cup {i}) = Cardinality(S) + 1
    <3> HIDE DEF S
    <3> QED
      BY <2>1, FS_AddElement
  <2> QED
    BY <1>11, <1>18, <2>1, <2>2
<1>20. CacheOwns(c)' /\ CacheCounts(c)'
  <2>1. CacheOwns(c)'
    BY <1>2, <1>5, <1>7, <1>11, <1>13, <1>14, <1>15 DEF CacheOwns, Owned
  <2>2. Counted(k, Cardinality(Used(k)))'
    BY <1>5, <1>12, <1>13, <1>15, <1>19 DEF Counted
  <2> QED
    BY <1>2, <1>7, <2>1, <2>2 DEF CacheCounts
<1>21. Apart'
  BY <1>6, <1>7 DEF Memory, Apart
<1>22. Work(t)' /\ ScanInBounds(t)' /\ Looked(t)'
  BY <1>10, IdleRegs DEF Work, ScanInBounds, Looked, Holds
<1>23. \A b \in garbage' : heap'[b] # Freed
  BY <1>6, <1>7, <1>15 DEF Memory, TypeOK
<1>24. \A d \in Classes : CacheOwns(d)' /\ CacheCounts(d)'
  BY <1>17, <1>20
<1>25. \A u \in Threads : Work(u)' /\ ScanInBounds(u)' /\ Looked(u)'
  BY <1>17, <1>22
<1> QED
  BY <1>15, <1>21, <1>23, <1>24, <1>25 DEF Memory

\* Garbage is freed: no cache has it, and no scan that was looked at.
LEMMA FreeGarbageMemory ==
  ASSUME IInv, NEW t \in Threads, FreeGarbage(t)
  PROVE  Memory'
<1>1. TypeOK /\ Control /\ Memory /\ Locks(t) /\ th[t] \in Regs /\ th[t].pc = "scan"
      /\ Work(t) /\ Looked(t) /\ th[t].scan = {} /\ cacheUpdateLock = t
      /\ (t \in readers => Target(t) = th[t].cls) /\ TypeOK'
  BY TargetFacts, FreeGarbageControl
     DEF IInv, Control, Memory, TypeOK, FreeGarbage, At, Locks, Updating
<1>2. /\ heap' = [a \in Addresses |-> IF a \in garbage THEN Freed ELSE heap[a]]
      /\ garbage' = {} /\ cache' = cache /\ readers' = readers
      /\ Become(t, Idle) \/ Become(t, [th[t] EXCEPT !.pc = Continue(t)])
  BY DEF FreeGarbage
<1>3. PICK r : /\ Become(t, r) /\ r.pc \in {"idle", "setImp", "erase"}
               /\ r.pc = "setImp" => t \in readers /\ r.cls = th[t].cls /\ r.sel = th[t].sel
  <2>1. CASE Become(t, Idle)
    BY <2>1, IdleRegs
  <2>2. CASE Become(t, [th[t] EXCEPT !.pc = Continue(t)])
    <3> DEFINE r == [th[t] EXCEPT !.pc = Continue(t)]
    <3>1. r.pc = Continue(t) /\ r.cls = th[t].cls /\ r.sel = th[t].sel
      BY <1>1 DEF Regs, Registers
    <3> HIDE DEF r
    <3>2. Become(t, r)
      BY <2>2 DEF r
    <3> QED
      BY <3>1, <3>2 DEF Continue, Filling
  <2> QED
    BY <1>2, <2>1, <2>2
<1>4. th'[t] = r /\ \A u \in Threads \ {t} : th'[u] = th[u]
  BY <1>1, <1>2, <1>3, OthersSame
<1>5. \A a \in Addresses \ garbage : heap'[a] = heap[a]
  BY <1>2
<1>6. \A d \in Classes : CacheOwns(d) /\ CacheCounts(d) /\ ~Busy(d)
  BY <1>1, NobodyBusy DEF Memory
<1>7. ASSUME NEW d \in Classes
      PROVE  /\ CacheOwns(d)' /\ CacheCounts(d)'
             /\ cache[d].buckets # EmptyBuckets => heap'[cache[d].buckets] = heap[cache[d].buckets]
  <2>1. cache[d].buckets # EmptyBuckets =>
          /\ Owned(cache[d].buckets) /\ heap'[cache[d].buckets] = heap[cache[d].buckets]
    BY <1>5, <1>6 DEF CacheOwns, Owned
  <2>2. CacheOwns(d)'
    BY <1>2, <1>6, <2>1 DEF CacheOwns, Owned
  <2>3. CacheCounts(d)'
    BY <1>2, <1>6, <2>1, CountsStay
  <2> QED
    BY <2>1, <2>2, <2>3
<1>8. Apart'
  BY <1>1, <1>2 DEF Memory, Apart
<1>9. ASSUME NEW u \in Threads, u # t
      PROVE  Work(u)' /\ ScanInBounds(u)' /\ Looked(u)'
  <2>1. th'[u] = th[u] /\ ScanInBounds(u) /\ th[u] \in Regs
    BY <1>1, <1>4, <1>9 DEF Memory, TypeOK
  <2>2. Holds(u) => th[u].arr \in Addresses \ garbage
    BY <1>1, <1>9, <2>1 DEF Looked, Holds, Regs, Registers, EmptyBuckets
  <2>3. Holds(u) => heap'[th[u].arr] # Freed /\ Len(heap'[th[u].arr]) = Len(heap[th[u].arr])
    BY <1>5, <2>1, <2>2 DEF ScanInBounds
  <2>4. cache' \in [Classes -> Caches] /\ \A d \in Classes : cache[d].mask <= cache'[d].mask
    BY <1>1, <1>2 DEF TypeOK, Caches
  <2>5. ScanInBounds(u)'
    BY <1>1, <2>1, <2>3, <2>4, BoundsStay
  <2> QED
    BY <1>1, <1>9, <2>1, <2>5, WorkAlone
<1>10. ScanInBounds(t)' /\ Looked(t)'
  BY <1>3, <1>4 DEF ScanInBounds, Looked, Holds
<1>11. Work(t)'
  <2>1. CASE r.pc = "setImp"
    <3>1. PICK d : d = th[t].cls
      OBVIOUS
    <3>2. PICK k : k = cache[d]
      OBVIOUS
    <3>3. PICK s : s = th[t].sel
      OBVIOUS
    <3>4. d \in Classes
      BY <1>1, <1>3, <2>1, <3>1, TargetFacts
    <3>5. /\ k.buckets # EmptyBuckets /\ k.occupied < k.mask
          /\ Bucket(k.buckets, FindBucket(k, s)).key # s
      BY <1>1, <1>3, <2>1, <3>1, <3>2, <3>3 DEF Work
    <3>6. Bucket(k.buckets, FindBucket(k, s))' = Bucket(k.buckets, FindBucket(k, s))
      <4>1. k.buckets # EmptyBuckets => heap'[k.buckets] = heap[k.buckets]
        BY <1>7, <3>2, <3>4
      <4>2. FindBucket(k, s)' = FindBucket(k, s)
            /\ \A i : Bucket(k.buckets, i)' = Bucket(k.buckets, i)
        BY <4>1, CacheFrame
      <4> QED
        BY <4>2
    <3>7. Target(t)' = d /\ cache'[d] = k /\ th'[t].sel = s
      BY <1>2, <1>3, <1>4, <2>1, <3>1, <3>2, <3>3 DEF Target, Filling
    <3> QED
      BY <1>4, <2>1, <3>5, <3>6, <3>7 DEF Work
  <2>2. CASE r.pc # "setImp"
    BY <1>3, <1>4, <2>2 DEF Work
  <2> QED
    BY <2>1, <2>2
<1>12. heap' \in [Addresses -> Arrays \cup {Freed}]
  BY <1>1, <1>2 DEF Memory
<1>13. \A u \in Threads : Work(u)' /\ ScanInBounds(u)' /\ Looked(u)'
  BY <1>9, <1>10, <1>11
<1> QED
  BY <1>2, <1>7, <1>8, <1>12, <1>13 DEF Memory

\* Every step keeps the memory.
LEMMA MemoryStep ==
  ASSUME IInv, [Next]_vars
  PROVE  Memory'
<1>1. CASE Next
  BY <1>1, Steps, SendMemory, LoadBucketsMemory, ProbeMemory, LockRuntimeReadMemory,
     FillMemory, SetBucketsMemory, SetMaskMemory, SetImpMemory, SetKeyMemory, ScanMemory,
     FreeGarbageMemory, StartChangeMemory, EraseMemory, EndChangeMemory, LockCollectMemory
<1>2. CASE UNCHANGED vars
  <2>1. UNCHANGED memory /\ \A u \in Threads : SameWork(u)
    BY <1>2 DEF vars, memory, SameWork
  <2>2. Memory
    BY DEF IInv
  <2>3. \A c \in Classes : Busy(c)' <=> Busy(c)
    BY <1>2 DEF vars, Busy, Target, Filling
  <2>4. \A c \in Classes : CacheOwns(c)' /\ CacheCounts(c)'
    BY <1>2, <2>2, <2>3, CountsStay DEF vars, Memory, CacheOwns, Owned
  <2>5. \A u \in Threads : Work(u)'
    <3> SUFFICES ASSUME NEW u \in Threads
                 PROVE  Work(u)'
      OBVIOUS
    <3>1. \A v \in Threads : (Holds(v)' <=> Holds(v)) /\ th'[v].arr = th[v].arr
      BY <1>2 DEF vars, Holds
    <3>2. Work(u)
      BY <2>2 DEF Memory
    <3>3. th[u].pc = "setBuckets" => \A v \in Threads : Holds(v)' => th'[v].arr # th[u].arr
      BY <3>1, <3>2 DEF Work, Holds
    <3> QED
      BY <2>1, <3>2, <3>3, WorkStays
  <2>6. \A u \in Threads : ScanInBounds(u)' /\ Looked(u)'
    BY <1>2, <2>2 DEF vars, Memory, ScanInBounds, Looked, Holds
  <2> QED
    BY <1>2, <2>2, <2>4, <2>5, <2>6 DEF vars, Memory, Apart
<1> QED
  BY <1>1, <1>2
------------------------------------------------------------------------------
(* Values.                                                                 *)

\* What is known of a message, but for the array it reads.
Own(t) == Saw(t) /\ Result(t) /\ Climb(t) /\ Changing(t)

\* A thread that does not act knows what it knew.
LEMMA OtherOwn ==
  ASSUME IInv, NEW u \in Threads, th'[u] = th[u], u \in readers' <=> u \in readers,
         methods' = methods, before' = before, writer' = writer
  PROVE  Own(u)'
<1>1. Saw(u) /\ Result(u) /\ Climb(u) /\ Changing(u)
  BY DEF IInv, Values
<1>2. (InMessage(u)' <=> InMessage(u)) /\ (Critical(u)' <=> Critical(u))
  BY DEF InMessage, Critical
<1>3. Saw(u)'
  BY <1>1, <1>2 DEF Saw, Visible
<1>4. Result(u)'
  BY <1>1, <1>2 DEF Result
<1>5. Climb(u)'
  BY <1>1, <1>2 DEF Climb
<1>6. Changing(u)'
  BY <1>1 DEF Changing
<1> QED
  BY <1>3, <1>4, <1>5, <1>6 DEF Own

\* A scan reads what it read while its array stays as it is and no other cache gets it.
LEMMA ReadsStay ==
  ASSUME IInv, NEW u \in Threads, th'[u] = th[u], methods' = methods,
         Holds(u) => /\ heap'[th[u].arr] = heap[th[u].arr]
                     /\ \A d \in Classes : cache'[d].buckets = th[u].arr =>
                                             cache[d].buckets = th[u].arr
  PROVE  Reads(u)'
<1>1. Reads(u)
  BY DEF IInv, Values
<1>2. Holds(u)' <=> Holds(u)
  BY DEF Holds, EmptyBuckets
<1> QED
  BY <1>1, <1>2 DEF Reads

\* A cache whose array stays as it is keeps its entries.
LEMMA CurrentStays ==
  ASSUME IInv, NEW c \in Classes, cache'[c].buckets = cache[c].buckets,
         cache[c].buckets # EmptyBuckets => heap'[cache[c].buckets] = heap[cache[c].buckets],
         methods' = methods, before' = before
  PROVE  Current(c)'
<1>1. Current(c)
  BY DEF IInv, Values
<1> QED
  BY <1>1 DEF Current, Visible, EmptyBuckets

\* A step of one thread that leaves the method lists alone.
LEMMA ValuesOf ==
  ASSUME IInv, NEW t \in Threads, methods' = methods, before' = before, writer' = writer,
         \A u \in Threads \ {t} : th'[u] = th[u] /\ (u \in readers' <=> u \in readers),
         ~staleAnswer', Own(t)', Reads(t)',
         \A u \in Threads \ {t} : Reads(u)', \A c \in Classes : Current(c)'
  PROVE  Values'
<1>1. (writer' = NoThread => before' = methods')
  BY DEF IInv, Values
<1>2. ASSUME NEW u \in Threads
      PROVE  Saw(u)' /\ Result(u)' /\ Climb(u)' /\ Reads(u)' /\ Changing(u)'
  <2>1. CASE u = t
    BY <2>1 DEF Own
  <2>2. CASE u # t
    <3>1. Own(u)'
      BY <2>2, OtherOwn
    <3> QED
      BY <2>2, <3>1 DEF Own
  <2> QED
    BY <2>1, <2>2
<1> QED
  BY <1>1, <1>2 DEF Values

\* A step that leaves memory alone as well.
LEMMA QuietValues ==
  ASSUME IInv, NEW t \in Threads, NEW r, Become(t, r), UNCHANGED memory,
         methods' = methods, before' = before, writer' = writer,
         \A u \in Threads \ {t} : u \in readers' <=> u \in readers,
         ~staleAnswer', Own(t)', Reads(t)'
  PROVE  Values'
<1>1. \A u \in Threads \ {t} : th'[u] = th[u]
  BY OthersSame DEF IInv
<1>2. cache' = cache /\ heap' = heap
  BY DEF memory
<1>3. \A u \in Threads \ {t} : Reads(u)'
  BY <1>1, <1>2, ReadsStay
<1>4. \A c \in Classes : Current(c)'
  BY <1>2, CurrentStays
<1> QED
  BY <1>1, <1>3, <1>4, ValuesOf

\* A thread that is out of its message.
LEMMA IdleOwn ==
  ASSUME NEW t \in Threads, Control', th'[t] = Idle
  PROVE  Own(t)' /\ Reads(t)'
<1>1. t \notin readers' /\ writer' # t
  <2>1. Locks(t)'
    BY DEF Control
  <2> QED
    BY <2>1, IdleRegs DEF Locks, Critical
<1>2. ~InMessage(t)' /\ ~Critical(t)' /\ ~Holds(t)'
  BY <1>1, IdleRegs DEF InMessage, Critical, Holds
<1> QED
  BY <1>1, <1>2 DEF Own, Saw, Result, Climb, Reads, Changing

\* A thread at work within its message, or on a change.
LEMMA WorkerOwn ==
  ASSUME IInv, NEW t \in Threads, NEW r, th'[t] = r, t \in readers' <=> t \in readers,
         methods' = methods, before' = before, writer' = writer,
         ~Critical(t), r.pc \notin {"buckets", "probe", "rdlock", "resolve"},
         r.cls = th[t].cls, r.sel = th[t].sel, r.imp = th[t].imp, r.seen = th[t].seen,
         r.todo = th[t].todo, r.after = th[t].after
  PROVE  Own(t)' /\ Reads(t)'
<1>1. Saw(t) /\ Result(t) /\ Changing(t)
  BY DEF IInv, Values
<1>2. (InMessage(t)' => InMessage(t)) /\ ~Critical(t)' /\ ~Holds(t)'
  BY DEF InMessage, Critical, Holds
<1>3. Saw(t)'
  BY <1>1, <1>2 DEF Saw, Visible
<1>4. Result(t)'
  BY <1>1, <1>2 DEF Result
<1>5. Climb(t)' /\ Reads(t)'
  BY <1>2 DEF Climb, Reads
<1>6. Changing(t)'
  BY <1>1 DEF Changing
<1> QED
  BY <1>3, <1>4, <1>5, <1>6 DEF Own

\* What a thread knows of its message: while it has runtimeLock for reading no change is in
\* progress.
LEMMA ReaderFacts ==
  ASSUME IInv, NEW t \in Threads
  PROVE  /\ t \in readers => before = methods /\ writer # t
         /\ Critical(t) => /\ th[t].cls \in Classes /\ th[t].sel \in Sels /\ th[t].cur \in Classes
                           /\ t \in readers <=> th[t].slow = TRUE
                           /\ writer # t
         /\ InMessage(t) => Visible(th[t].cls, th[t].sel) \subseteq th[t].seen
         /\ ~staleAnswer
<1>1. Control /\ Locks(t) /\ Saw(t) /\ ~staleAnswer /\ (writer = NoThread => before = methods)
  BY DEF IInv, Control, Values
<1>2. t \in readers => writer = NoThread
  BY <1>1 DEF Control
<1>3. NoThread \notin Threads /\ th[t] \in Regs
  BY CacheAssumption DEF CacheAssumption, IInv, TypeOK
<1>4. Critical(t) => InMessage(t)
  BY DEF InMessage
<1>5. th[t].slow \in BOOLEAN
  BY <1>3 DEF Regs, Registers
<1>6. Critical(t) => writer # t
  BY <1>1 DEF Locks, Critical
<1>7. Critical(t) => (t \in readers <=> th[t].slow = TRUE)
  BY <1>1, <1>5 DEF Locks, Critical
<1> QED
  BY <1>1, <1>2, <1>3, <1>4, <1>6, <1>7 DEF Locks, Saw

\* A message begins: it may run what the lists give.
LEMMA SendValues ==
  ASSUME IInv, NEW t \in Threads, NEW c \in Classes, NEW s \in Sels, Send(t, c, s)
  PROVE  Values'
<1> DEFINE i == [Idle EXCEPT !.cls = c, !.sel = s, !.seen = Visible(c, s)]
           r == ScanOf(i, c)
<1>1. TypeOK /\ th[t].pc = "idle" /\ writer # t /\ ~staleAnswer /\ t \notin readers
  BY ReaderFacts DEF IInv, Send, At, Control, Locks, Critical
<1>2. Visible(c, s) \in SUBSET Found
  BY <1>1, ResolvedType DEF Visible, TypeOK
<1>3. i \in Regs /\ i.sel = s /\ i.cls = c /\ i.slow = FALSE /\ i.seen = Visible(c, s)
  BY <1>2 DEF Idle, Regs, Registers, Labels, Found
<1>4. /\ r.pc = "buckets" /\ r.cur = c /\ r.cls = c /\ r.sel = s /\ r.slow = FALSE
      /\ r.seen = Visible(c, s)
  <2>1. i \in Regs /\ i.sel \in Nat /\ cache \in [Classes -> Caches]
    BY <1>1, <1>3, CacheAssumption DEF CacheAssumption, TypeOK
  <2> HIDE DEF i
  <2> QED
    BY <1>3, <2>1, ScanRegs
<1>5. Become(t, r) /\ UNCHANGED <<tables, memory, locks, staleAnswer>>
  BY DEF Send
<1> HIDE DEF r
<1>6. th'[t] = r
  BY <1>1, <1>5, OthersSame DEF locks
<1>7. Saw(t)'
  BY <1>4, <1>5, <1>6 DEF Saw, Visible, tables
<1>8. Result(t)' /\ Climb(t)' /\ Changing(t)' /\ Reads(t)'
  BY <1>1, <1>4, <1>5, <1>6 DEF Result, Climb, Changing, Reads, Critical, Holds, locks
<1> QED
  BY <1>1, <1>5, <1>7, <1>8, QuietValues DEF Own, tables, locks

\* The scan loads the buckets: their entries are what its message may run.
LEMMA LoadBucketsValues ==
  ASSUME IInv, NEW t \in Threads, LoadBuckets(t)
  PROVE  Values'
<1>1. PICK q : q = th[t]
  OBVIOUS
<1>2. PICK c : c = q.cur
  OBVIOUS
<1>3. PICK a : a = cache[c].buckets
  OBVIOUS
<1>4. q \in Regs /\ q.pc = "buckets" /\ Critical(t)
  BY <1>1 DEF IInv, TypeOK, LoadBuckets, At, Critical
<1>5. /\ q.cls \in Classes /\ q.sel \in Sels /\ c \in Classes /\ writer # t
      /\ (t \in readers <=> q.slow = TRUE) /\ Visible(q.cls, q.sel) \subseteq q.seen
      /\ (t \in readers => before = methods) /\ ~staleAnswer /\ q.slow \in BOOLEAN
  BY <1>1, <1>2, <1>4, ReaderFacts DEF InMessage, Regs, Registers
<1>6. UNCHANGED <<tables, memory, locks, staleAnswer>>
      /\ Become(t, [q EXCEPT !.pc = "probe", !.arr = a])
  BY <1>1, <1>2, <1>3 DEF LoadBuckets
<1>7. PICK r : r = [q EXCEPT !.pc = "probe", !.arr = a]
  OBVIOUS
<1>8. /\ r.pc = "probe" /\ r.arr = a /\ r.cls = q.cls /\ r.sel = q.sel /\ r.cur = c
      /\ r.slow = q.slow /\ r.seen = q.seen
  BY <1>2, <1>4, <1>7 DEF Regs, Registers
<1>9. th'[t] = r
  BY <1>6, <1>7, OthersSame DEF locks, IInv
<1>10. Climb(t) /\ Current(c) /\ Apart
  BY <1>5 DEF IInv, Values, Memory
<1>11. Saw(t)'
  BY <1>5, <1>6, <1>8, <1>9 DEF Saw, Visible, tables
<1>12. Climb(t)'
  BY <1>1, <1>2, <1>4, <1>6, <1>8, <1>9, <1>10 DEF Climb, Critical, tables
<1>13. Result(t)' /\ Changing(t)'
  BY <1>5, <1>6, <1>8, <1>9 DEF Result, Changing, Critical, locks
<1>14. Reads(t)'
  <2> SUFFICES ASSUME a # EmptyBuckets
               PROVE  /\ \A j \in DOMAIN heap[a] : heap[a][j].key = q.sel =>
                           heap[a][j].imp \in IF q.slow THEN {Resolved(methods, c, q.sel)}
                                              ELSE q.seen
                      /\ \A d \in Classes : cache[d].buckets = a => d = c
    BY <1>6, <1>8, <1>9 DEF Reads, Holds, EmptyBuckets, tables, memory
  <2>1. \A d \in Classes : cache[d].buckets = a => d = c
    BY <1>3, <1>5, <1>10 DEF Apart
  <2>2. ASSUME NEW j \in DOMAIN heap[a], heap[a][j].key = q.sel
        PROVE  heap[a][j].imp \in IF q.slow THEN {Resolved(methods, c, q.sel)} ELSE q.seen
    <3>1. q.sel \in Nat /\ q.sel > EndMarker
      BY <1>5, CacheAssumption DEF CacheAssumption, EndMarker
    <3>2. heap[a][j].imp \in Visible(c, q.sel)
      BY <1>3, <1>10, <2>2, <3>1 DEF Current
    <3>3. CASE q.slow
      BY <1>5, <3>2, <3>3 DEF Visible
    <3>4. CASE ~q.slow
      <4>1. c = q.cls
        BY <1>1, <1>2, <1>4, <1>10, <3>4 DEF Climb
      <4> QED
        BY <1>5, <3>2, <3>4, <4>1
    <3> QED
      BY <3>3, <3>4
  <2> QED
    BY <2>1, <2>2
<1> QED
  BY <1>5, <1>6, <1>7, <1>11, <1>12, <1>13, <1>14, QuietValues DEF Own, tables, locks

\* What a scan finds: for a message in progress, or what the lists give.
LEMMA FoundInArray ==
  ASSUME IInv, NEW t \in Threads, th[t].pc = "probe",
         Bucket(th[t].arr, th[t].idx).key = th[t].sel
  PROVE  Bucket(th[t].arr, th[t].idx).imp
           \in IF th[t].slow THEN {Resolved(methods, th[t].cur, th[t].sel)} ELSE th[t].seen
<1>1. th[t].sel \in Sels /\ th[t] \in Regs
  BY ReaderFacts DEF Critical, IInv, TypeOK
<1>2. th[t].sel # 0
  BY <1>1, CacheAssumption DEF CacheAssumption
<1>3. th[t].arr # EmptyBuckets
  BY <1>2 DEF Bucket, EmptyBucket
<1>4. Holds(t)
  BY <1>3 DEF Holds
<1>5. Reads(t) /\ ScanInBounds(t) /\ heap \in [Addresses -> Arrays \cup {Freed}]
  BY DEF IInv, Values, Memory
<1>6. th[t].arr \in Addresses /\ th[t].idx \in Nat
  BY <1>1, <1>3 DEF Regs, Registers, EmptyBuckets
<1>7. heap[th[t].arr] \in Arrays /\ th[t].idx + 1 \in 1 .. Len(heap[th[t].arr])
  BY <1>4, <1>5, <1>6 DEF ScanInBounds, Arrays
<1>8. th[t].idx + 1 \in DOMAIN heap[th[t].arr]
  BY <1>7 DEF Arrays
<1>9. Bucket(th[t].arr, th[t].idx) = heap[th[t].arr][th[t].idx + 1]
  BY <1>3 DEF Bucket
<1> QED
  BY <1>4, <1>5, <1>8, <1>9 DEF Reads

\* What the slow path knows of the class it has climbed to holds of the class of its message.
LEMMA Climbed ==
  ASSUME IInv, NEW t \in Threads, Critical(t), th[t].slow
  PROVE  Resolved(methods, th[t].cls, th[t].sel) = Resolved(methods, th[t].cur, th[t].sel)
<1>1. th[t].cls \in Classes /\ Climb(t)
  BY ReaderFacts DEF IInv, Values
<1> QED
  BY <1>1, ResolvedAbove DEF Climb

\* One turn of the scan: what it finds answers the message, or is what the lists give.
LEMMA ProbeValues ==
  ASSUME IInv, NEW t \in Threads, Probe(t)
  PROVE  Values'
<1>1. PICK q : q = th[t]
  OBVIOUS
<1>2. PICK c : c = q.cur
  OBVIOUS
<1>3. PICK s : s = q.sel
  OBVIOUS
<1>4. PICK b : b = Bucket(q.arr, q.idx)
  OBVIOUS
<1>5. q \in Regs /\ q.pc = "probe" /\ Critical(t) /\ TypeOK
  BY <1>1 DEF IInv, TypeOK, Probe, At, Critical
<1>6. /\ q.cls \in Classes /\ s \in Sels /\ c \in Classes /\ writer # t
      /\ (t \in readers <=> q.slow = TRUE) /\ Visible(q.cls, s) \subseteq q.seen
      /\ (t \in readers => before = methods) /\ ~staleAnswer /\ q.slow \in BOOLEAN
  BY <1>1, <1>2, <1>3, <1>5, ReaderFacts DEF InMessage, Regs, Registers
<1>7. Climb(t) /\ Reads(t)
  BY DEF IInv, Values
<1>8. UNCHANGED <<tables, memory, writer, cacheUpdateLock>>
  BY DEF Probe
<1>9. b.key = s => b.imp \in IF q.slow THEN {Resolved(methods, c, s)} ELSE q.seen
  BY <1>1, <1>2, <1>3, <1>4, <1>5, FoundInArray
<1>10. q.slow => Resolved(methods, q.cls, s) = Resolved(methods, c, s)
  BY <1>1, <1>2, <1>3, <1>5, Climbed
<1>11. q.slow => Resolved(methods, q.cls, s) \in q.seen
  BY <1>6 DEF Visible
<1>12. methods[c][s] # NoImp => Resolved(methods, c, s) = methods[c][s]
  BY <1>6, ResolvedStep
<1>13. methods[c][s] = NoImp /\ Superclass[c] = NoClass => Resolved(methods, c, s) = Forward
  BY <1>6, ResolvedStep
<1>14. ASSUME NEW imp, Answer(t, imp), imp \in q.seen
       PROVE  Values'
  <2>1. Become(t, Idle) /\ readers' = readers \ {t} /\ ~staleAnswer'
    BY <1>1, <1>6, <1>14 DEF Answer
  <2>2. th'[t] = Idle
    BY <1>5, <2>1, OthersSame
  <2>3. Own(t)' /\ Reads(t)'
    BY <2>2, IdleOwn, ProbeControl
  <2> QED
    BY <1>8, <2>1, <2>3, QuietValues DEF tables
<1>15. ASSUME NEW r, Become(t, r), readers' \in {readers, readers \ {t}}, ~staleAnswer',
              r.pc \in {"fill", "rdlock", "resolve", "buckets", "probe"},
              r.cls = q.cls, r.sel = s, r.seen = q.seen,
              r.pc = "fill" => r.imp = Resolved(methods, q.cls, s),
              r.pc \in {"rdlock", "resolve"} => t \notin readers',
              r.pc = "buckets" => /\ r.slow /\ r.cur \in Supers[q.cls]
                                  /\ \A d \in Supers[q.cls] \ Supers[r.cur] : methods[d][s] = NoImp,
              r.pc = "probe" => r.cur = c /\ r.slow = q.slow /\ r.arr = q.arr
       PROVE  Values'
  <2>1. th'[t] = r
    BY <1>5, <1>15, OthersSame
  <2>2. methods' = methods /\ before' = before /\ writer' = writer /\ heap' = heap
        /\ cache' = cache
    BY <1>8 DEF tables, memory
  <2>3. Saw(t)'
    BY <1>6, <1>15, <2>1, <2>2 DEF Saw, Visible
  <2>4. Result(t)'
    BY <1>15, <2>1, <2>2 DEF Result, Critical
  <2>5. Climb(t)'
    BY <1>1, <1>2, <1>3, <1>5, <1>7, <1>15, <2>1, <2>2 DEF Climb, Critical
  <2>6. Changing(t)'
    BY <1>6, <2>2 DEF Changing
  <2>7. Reads(t)'
    <3>1. Holds(t)' => Holds(t)
      BY <1>1, <1>5, <1>15, <2>1 DEF Holds, EmptyBuckets
    <3>2. Holds(t)' => r.pc = "probe"
      BY <2>1 DEF Holds
    <3> QED
      BY <1>1, <1>2, <1>3, <1>7, <1>15, <2>1, <2>2, <3>1, <3>2 DEF Reads
  <2> QED
    BY <1>8, <1>15, <2>2, <2>3, <2>4, <2>5, <2>6, <2>7, QuietValues DEF Own
<1>16. ASSUME NEW p \in Labels
       PROVE  LET r == NoScan(q, p) IN
              /\ r \in Regs /\ r.pc = p /\ r.cls = q.cls /\ r.sel = s /\ r.seen = q.seen
  BY <1>3, <1>5, NoScanRegs
<1>17. CASE LookupEnds(t)
  <2>1. CASE b.key = s /\ (~q.slow \/ c = q.cls) /\ Answer(t, b.imp)
    <3>1. b.imp \in q.seen
      BY <1>6, <1>9, <1>11, <2>1
    <3> QED
      BY <1>14, <2>1, <3>1
  <2>2. ASSUME q.slow, NEW imp, imp = Resolved(methods, c, s),
               GoOn(t, [NoScan(q, "fill") EXCEPT !.imp = imp])
        PROVE  Values'
    <3> DEFINE n == NoScan(q, "fill")
               r == [n EXCEPT !.imp = imp]
    <3>1. n \in Regs /\ n.pc = "fill" /\ n.cls = q.cls /\ n.sel = s /\ n.seen = q.seen
      BY <1>16 DEF Labels
    <3> HIDE DEF n
    <3>2. r.pc = "fill" /\ r.cls = q.cls /\ r.sel = s /\ r.seen = q.seen /\ r.imp = imp
      BY <3>1 DEF Regs, Registers
    <3> HIDE DEF r
    <3>3. Become(t, r) /\ readers' = readers /\ ~staleAnswer'
      BY <1>6, <2>2 DEF GoOn, r, n
    <3> QED
      BY <1>10, <1>15, <2>2, <3>2, <3>3
  <2>3. ASSUME Become(t, [NoScan(q, "resolve") EXCEPT !.tried = TRUE, !.slow = FALSE]),
               readers' = readers \ {t}, UNCHANGED staleAnswer
        PROVE  Values'
    <3> DEFINE n == NoScan(q, "resolve")
               r == [n EXCEPT !.tried = TRUE, !.slow = FALSE]
    <3>1. n \in Regs /\ n.pc = "resolve" /\ n.cls = q.cls /\ n.sel = s /\ n.seen = q.seen
      BY <1>16 DEF Labels
    <3> HIDE DEF n
    <3>2. r.pc = "resolve" /\ r.cls = q.cls /\ r.sel = s /\ r.seen = q.seen
      BY <3>1 DEF Regs, Registers
    <3> HIDE DEF r
    <3>3. Become(t, r) /\ ~staleAnswer' /\ t \notin readers'
      BY <1>6, <2>3 DEF r, n
    <3> QED
      BY <1>15, <2>3, <3>2, <3>3
  <2>4. \/ b.key = s /\ (~q.slow \/ c = q.cls) /\ Answer(t, b.imp)
        \/ /\ q.slow
           /\ \/ b.key = s /\ b.imp = Forward
              \/ methods[c][s] = NoImp /\ Superclass[c] = NoClass
           /\ GoOn(t, [NoScan(q, "fill") EXCEPT !.imp = Forward])
        \/ /\ Become(t, [NoScan(q, "resolve") EXCEPT !.tried = TRUE, !.slow = FALSE])
           /\ readers' = readers \ {t} /\ UNCHANGED staleAnswer
        \/ /\ q.slow
           /\ \E imp : /\ \/ b.key = s /\ imp = b.imp
                          \/ imp = methods[c][s] /\ imp # NoImp
                       /\ GoOn(t, [NoScan(q, "fill") EXCEPT !.imp = imp])
    BY <1>1, <1>2, <1>3, <1>4, <1>17 DEF LookupEnds
  <2>5. q.slow /\ b.key = s => b.imp = Resolved(methods, c, s)
    BY <1>9
  <2> QED
    BY <1>12, <1>13, <2>1, <2>2, <2>3, <2>4, <2>5
<1>18. CASE LookupGoesOn(t)
  <2>1. CASE /\ q.slow /\ methods[c][s] = NoImp /\ Superclass[c] # NoClass
             /\ GoOn(t, ScanOf(q, Superclass[c]))
    <3>1. PICK d : d = Superclass[c]
      OBVIOUS
    <3>2. d \in Classes /\ Supers[c] = {c} \cup Supers[d]
      BY <1>6, <2>1, <3>1, SupersOf
    <3>3. c \in Supers[q.cls] /\ \A e \in Supers[q.cls] \ Supers[c] : methods[e][s] = NoImp
      BY <1>1, <1>2, <1>3, <1>5, <1>7, <2>1 DEF Climb
    <3>4. d \in Supers[q.cls]
      BY <1>6, <2>1, <3>1, <3>3, SupersClosed
    <3>5. \A e \in Supers[q.cls] \ Supers[d] : methods[e][s] = NoImp
      BY <2>1, <3>2, <3>3
    <3> DEFINE r == ScanOf(q, d)
    <3>6. /\ r.pc = "buckets" /\ r.cur = d /\ r.cls = q.cls /\ r.sel = s /\ r.slow = q.slow
          /\ r.seen = q.seen
      <4>1. q.sel \in Nat /\ cache \in [Classes -> Caches]
        BY <1>3, <1>5, <1>6, CacheAssumption DEF CacheAssumption, TypeOK
      <4> QED
        BY <1>3, <1>5, <3>2, <4>1, ScanRegs
    <3>7. Become(t, r) /\ readers' = readers /\ ~staleAnswer'
      BY <1>6, <2>1, <3>1 DEF GoOn
    <3> HIDE DEF r
    <3> QED
      BY <1>15, <2>1, <3>4, <3>5, <3>6, <3>7
  <2>2. CASE ~q.slow /\ GoOn(t, NoScan(q, "rdlock"))
    <3> DEFINE r == NoScan(q, "rdlock")
    <3>1. r.pc = "rdlock" /\ r.cls = q.cls /\ r.sel = s /\ r.seen = q.seen
      BY <1>16 DEF Labels
    <3>2. Become(t, r) /\ readers' = readers /\ ~staleAnswer'
      BY <1>6, <2>2 DEF GoOn
    <3> HIDE DEF r
    <3> QED
      BY <1>6, <1>15, <2>2, <3>1, <3>2
  <2>3. ASSUME NEW i, NEW w, GoOn(t, [q EXCEPT !.idx = i, !.wrapped = w])
        PROVE  Values'
    <3> DEFINE r == [q EXCEPT !.idx = i, !.wrapped = w]
    <3>1. /\ r.pc = "probe" /\ r.cls = q.cls /\ r.sel = s /\ r.seen = q.seen
          /\ r.cur = c /\ r.slow = q.slow /\ r.arr = q.arr
      BY <1>2, <1>3, <1>5 DEF Regs, Registers
    <3>2. Become(t, r) /\ readers' = readers /\ ~staleAnswer'
      BY <1>6, <2>3 DEF GoOn
    <3> HIDE DEF r
    <3> QED
      BY <1>15, <3>1, <3>2
  <2>4. \/ /\ q.slow /\ methods[c][s] = NoImp /\ Superclass[c] # NoClass
           /\ GoOn(t, ScanOf(q, Superclass[c]))
        \/ ~q.slow /\ GoOn(t, NoScan(q, "rdlock"))
        \/ GoOn(t, [q EXCEPT !.idx = 0, !.wrapped = TRUE])
        \/ GoOn(t, [q EXCEPT !.idx = @ + 1])
    BY <1>1, <1>2, <1>3, <1>18 DEF LookupGoesOn
  <2>5. [q EXCEPT !.idx = @ + 1] = [q EXCEPT !.idx = q.idx + 1, !.wrapped = q.wrapped]
    BY <1>5 DEF Regs, Registers
  <2> QED
    BY <2>1, <2>2, <2>3, <2>4, <2>5
<1> QED
  BY <1>17, <1>18, ProbeCases

\* A lookup takes runtimeLock for reading.
LEMMA LockRuntimeReadValues ==
  ASSUME IInv, NEW t \in Threads, LockRuntimeRead(t)
  PROVE  Values'
<1>1. PICK q : q = th[t]
  OBVIOUS
<1>2. TypeOK /\ q \in Regs /\ q.pc \in {"rdlock", "resolve"} /\ InMessage(t)
  BY <1>1 DEF IInv, TypeOK, LockRuntimeRead, At, InMessage
<1>3. q.cls \in Classes /\ q.sel \in Sels /\ Visible(q.cls, q.sel) \subseteq q.seen
      /\ ~staleAnswer
  BY <1>1, <1>2, ReaderFacts DEF IInv, Control, Locks
<1>4. /\ Become(t, [ScanOf(q, q.cls) EXCEPT !.slow = TRUE]) /\ readers' = readers \cup {t}
      /\ writer = NoThread /\ NoThread \notin Threads
      /\ UNCHANGED <<tables, memory, writer, cacheUpdateLock, staleAnswer>>
  BY <1>1, CacheAssumption DEF LockRuntimeRead, CacheAssumption
<1> DEFINE n == ScanOf(q, q.cls)
           r == [n EXCEPT !.slow = TRUE]
<1>5. /\ n \in Regs /\ n.pc = "buckets" /\ n.cls = q.cls /\ n.cur = q.cls /\ n.sel = q.sel
      /\ n.seen = q.seen
  <2>1. q.sel \in Nat /\ cache \in [Classes -> Caches]
    BY <1>2, <1>3, CacheAssumption DEF CacheAssumption, TypeOK
  <2> QED
    BY <1>2, <1>3, <2>1, ScanRegs
<1> HIDE DEF n
<1>6. /\ r.pc = "buckets" /\ r.cls = q.cls /\ r.cur = q.cls /\ r.sel = q.sel
      /\ r.seen = q.seen /\ r.slow = TRUE
  BY <1>5 DEF Regs, Registers
<1> HIDE DEF r
<1>7. Become(t, r)
  BY <1>4 DEF r, n
<1>8. th'[t] = r
  BY <1>2, <1>4, <1>7, OthersSame
<1>9. Saw(t)'
  BY <1>3, <1>4, <1>6, <1>8 DEF Saw, Visible, tables
<1>10. Climb(t)'
  <2>1. q.cls \in Supers[q.cls]
    BY <1>3, SupersClosed
  <2> QED
    BY <1>6, <1>8, <2>1 DEF Climb
<1>11. Result(t)' /\ Changing(t)' /\ Reads(t)'
  BY <1>4, <1>6, <1>8 DEF Result, Changing, Reads, Critical, Holds
<1> QED
  BY <1>3, <1>4, <1>7, <1>9, <1>10, <1>11, QuietValues DEF Own, tables

\* A collection looks at a thread.
LEMMA ScanValues ==
  ASSUME IInv, NEW t \in Threads, Scan(t)
  PROVE  Values'
<1>1. TypeOK /\ th[t] \in Regs /\ th[t].pc = "scan" /\ ~staleAnswer
  BY ReaderFacts DEF IInv, TypeOK, Scan, At
<1>2. UNCHANGED <<tables, memory, locks, staleAnswer>>
  BY DEF Scan
<1>3. PICK r : /\ Become(t, r) /\ r.pc \in {"scan", "setImp", "erase"}
               /\ r.cls = th[t].cls /\ r.sel = th[t].sel /\ r.imp = th[t].imp
               /\ r.seen = th[t].seen /\ r.todo = th[t].todo /\ r.after = th[t].after
  <2>1. ASSUME NEW p \in {"scan", Continue(t)}, NEW S,
               Become(t, [th[t] EXCEPT !.pc = p, !.scan = S])
        PROVE  \E r : /\ Become(t, r) /\ r.pc \in {"scan", "setImp", "erase"}
                      /\ r.cls = th[t].cls /\ r.sel = th[t].sel /\ r.imp = th[t].imp
                      /\ r.seen = th[t].seen /\ r.todo = th[t].todo /\ r.after = th[t].after
    <3> DEFINE r == [th[t] EXCEPT !.pc = p, !.scan = S]
    <3>1. /\ r.pc = p
          /\ r.cls = th[t].cls /\ r.sel = th[t].sel /\ r.imp = th[t].imp
          /\ r.seen = th[t].seen /\ r.todo = th[t].todo /\ r.after = th[t].after
      BY <1>1 DEF Regs, Registers
    <3> HIDE DEF r
    <3>2. Become(t, r)
      BY <2>1 DEF r
    <3> QED
      BY <3>1, <3>2 DEF Continue
  <2>2. \A S : [th[t] EXCEPT !.scan = S] = [th[t] EXCEPT !.pc = "scan", !.scan = S]
    BY <1>1 DEF Regs, Registers
  <2>3. PICK u \in th[t].scan :
          \/ Become(t, [th[t] EXCEPT !.scan = th[t].scan \ {u}])
          \/ Become(t, [th[t] EXCEPT !.scan = Threads \ {t}])
          \/ Become(t, [th[t] EXCEPT !.pc = Continue(t), !.scan = {}])
    BY DEF Scan
  <2> QED
    BY <2>1, <2>2, <2>3
<1>4. th'[t] = r
  BY <1>1, <1>2, <1>3, OthersSame DEF locks
<1>5. Own(t)' /\ Reads(t)'
  BY <1>1, <1>2, <1>3, <1>4, WorkerOwn DEF Critical, tables, locks
<1> QED
  BY <1>1, <1>2, <1>3, <1>5, QuietValues DEF tables, locks

\* A cache is about to be flushed.
LEMMA EraseValues ==
  ASSUME IInv, NEW t \in Threads, NEW c \in Classes, Erase(t, c)
  PROVE  Values'
<1> DEFINE r == [th[t] EXCEPT !.pc = "setBuckets", !.cur = c, !.arr = EmptyBuckets,
                              !.mask = cache[c].mask, !.old = cache[c].buckets]
<1>1. TypeOK /\ th[t] \in Regs /\ th[t].pc = "erase" /\ ~staleAnswer
  BY ReaderFacts DEF IInv, TypeOK, Erase, At
<1>2. Become(t, r) /\ UNCHANGED <<tables, memory, readers, writer, staleAnswer>>
  BY DEF Erase
<1>3. /\ r.pc = "setBuckets" /\ r.cls = th[t].cls /\ r.sel = th[t].sel /\ r.imp = th[t].imp
      /\ r.seen = th[t].seen /\ r.todo = th[t].todo /\ r.after = th[t].after
  BY <1>1 DEF Regs, Registers
<1> HIDE DEF r
<1>4. th'[t] = r
  BY <1>1, <1>2, OthersSame
<1>5. Own(t)' /\ Reads(t)'
  BY <1>1, <1>2, <1>3, <1>4, WorkerOwn DEF Critical, tables
<1> QED
  BY <1>1, <1>2, <1>5, QuietValues DEF tables

\* A flush of everything goes on to collect.
LEMMA LockCollectValues ==
  ASSUME IInv, NEW t \in Threads, LockCollect(t)
  PROVE  Values'
<1> DEFINE r == [th[t] EXCEPT !.pc = "scan", !.alot = TRUE, !.scan = Threads \ {t}]
<1>1. TypeOK /\ th[t] \in Regs /\ th[t].pc = "lockCollect" /\ ~staleAnswer
  BY ReaderFacts DEF IInv, TypeOK, LockCollect, At
<1>2. Become(t, r) /\ UNCHANGED <<tables, memory, readers, writer, staleAnswer>>
  BY DEF LockCollect
<1>3. /\ r.pc = "scan" /\ r.cls = th[t].cls /\ r.sel = th[t].sel /\ r.imp = th[t].imp
      /\ r.seen = th[t].seen /\ r.todo = th[t].todo /\ r.after = th[t].after
  BY <1>1 DEF Regs, Registers
<1> HIDE DEF r
<1>4. th'[t] = r
  BY <1>1, <1>2, OthersSame
<1>5. Own(t)' /\ Reads(t)'
  BY <1>1, <1>2, <1>3, <1>4, WorkerOwn DEF Critical, tables
<1> QED
  BY <1>1, <1>2, <1>5, QuietValues DEF tables

\* An array that a cache or a scan has is allocated.
LEMMA InUse ==
  ASSUME IInv
  PROVE  /\ \A c \in Classes : cache[c].buckets # EmptyBuckets =>
              cache[c].buckets \in Addresses \ garbage /\ heap[cache[c].buckets] # Freed
         /\ \A u \in Threads : Holds(u) => th[u].arr \in Addresses /\ heap[th[u].arr] # Freed
<1>1. \A c \in Classes : CacheOwns(c)
  BY DEF IInv, Memory
<1>2. \A u \in Threads : th[u] \in Regs /\ ScanInBounds(u)
  BY DEF IInv, Memory, TypeOK
<1> QED
  BY <1>1, <1>2 DEF CacheOwns, Owned, ScanInBounds, Holds, Regs, Registers, EmptyBuckets

\* A lookup takes cacheUpdateLock: its message may run the implementation it has found.
LEMMA FillValues ==
  ASSUME IInv, NEW t \in Threads, Fill(t)
  PROVE  Values'
<1>1. TypeOK /\ th[t] \in Regs /\ th[t].pc = "fill" /\ t \in readers
  BY FillCases DEF IInv, TypeOK, Fill, At
<1>2. UNCHANGED <<tables, cache, garbage, writer>>
  BY DEF Fill
<1>3. ~staleAnswer /\ Visible(th[t].cls, th[t].sel) \subseteq th[t].seen
  BY <1>1, ReaderFacts DEF InMessage
<1>4. th[t].imp = Resolved(methods, th[t].cls, th[t].sel)
  BY <1>1 DEF IInv, Values, Result, Critical
<1>5. CASE FillAnswers(t)
  <2>1. th[t].imp \in th[t].seen
    BY <1>3, <1>4 DEF Visible
  <2>2. Become(t, Idle) /\ readers' = readers \ {t} /\ ~staleAnswer' /\ heap' = heap
    BY <1>3, <1>5, <2>1 DEF FillAnswers, Answer
  <2>3. th'[t] = Idle
    BY <1>1, <2>2, OthersSame
  <2>4. Own(t)' /\ Reads(t)'
    BY <2>3, IdleOwn, FillControl
  <2> QED
    BY <1>2, <2>2, <2>4, QuietValues DEF tables, memory
<1>6. CASE FillHasRoom(t)
  <2> DEFINE r == NoScan(th[t], "setImp")
  <2>1. Become(t, r) /\ readers' = readers /\ ~staleAnswer' /\ heap' = heap
    BY <1>3, <1>6 DEF FillHasRoom, GoOn
  <2>2. /\ r.pc = "setImp" /\ r.cls = th[t].cls /\ r.sel = th[t].sel /\ r.imp = th[t].imp
        /\ r.seen = th[t].seen /\ r.todo = th[t].todo /\ r.after = th[t].after
    BY <1>1, NoScanRegs DEF Labels
  <2> HIDE DEF r
  <2>3. th'[t] = r
    BY <1>1, <2>1, OthersSame
  <2>4. Own(t)' /\ Reads(t)'
    BY <1>1, <1>2, <2>1, <2>2, <2>3, WorkerOwn DEF Critical, tables
  <2> QED
    BY <1>2, <2>1, <2>4, QuietValues DEF tables, memory
<1>7. CASE FillAllocates(t)
  <2> DEFINE n == NewCapacity(cache[th[t].cls])
             r == [th[t] EXCEPT !.pc = "setBuckets", !.arr = FreeAddress, !.mask = n - 1,
                                !.old = cache[th[t].cls].buckets]
  <2>1. Become(t, r) /\ readers' = readers /\ ~staleAnswer'
    BY <1>3, <1>7 DEF FillAllocates, GoOn
  <2>2. /\ r.pc = "setBuckets" /\ r.cls = th[t].cls /\ r.sel = th[t].sel /\ r.imp = th[t].imp
        /\ r.seen = th[t].seen /\ r.todo = th[t].todo /\ r.after = th[t].after
    BY <1>1 DEF Regs, Registers
  <2> HIDE DEF r
  <2>3. th'[t] = r /\ \A u \in Threads \ {t} : th'[u] = th[u]
    BY <1>1, <2>1, OthersSame
  <2>4. Own(t)' /\ Reads(t)'
    BY <1>1, <1>2, <2>1, <2>2, <2>3, WorkerOwn DEF Critical, tables
  <2>5. \A a \in Addresses : heap[a] # Freed => heap'[a] = heap[a]
    BY <1>7 DEF FillAllocates, IInv, Memory
  <2>6. \A c \in Classes : Current(c)'
    BY <1>2, <2>5, InUse, CurrentStays DEF tables
  <2>7. \A u \in Threads \ {t} : Reads(u)'
    BY <1>2, <2>3, <2>5, InUse, ReadsStay DEF tables
  <2> QED
    BY <1>2, <2>1, <2>3, <2>4, <2>6, <2>7, ValuesOf DEF tables
<1> QED
  BY <1>5, <1>6, <1>7, FillCases

\* The new buckets are stored: they are empty, and no scan has them.
LEMMA SetBucketsValues ==
  ASSUME IInv, NEW t \in Threads, SetBuckets(t)
  PROVE  Values'
<1> DEFINE r == [th[t] EXCEPT !.pc = "setMask"]
<1>1. PICK c : c = Target(t)
  OBVIOUS
<1>2. PICK a : a = th[t].arr
  OBVIOUS
<1>3. TypeOK /\ th[t] \in Regs /\ th[t].pc = "setBuckets" /\ c \in Classes /\ Work(t)
      /\ ~staleAnswer /\ heap \in [Addresses -> Arrays \cup {Freed}] /\ th[t].mask \in Nat
  BY <1>1, TargetFacts, ReaderFacts DEF IInv, Memory, TypeOK, SetBuckets, At, Regs, Registers
<1>4. UNCHANGED <<tables, heap, garbage, locks, staleAnswer>> /\ Become(t, r)
      /\ cache' = [cache EXCEPT ![c].buckets = a]
  BY <1>1, <1>2 DEF SetBuckets, StoreFirst
<1>5. /\ r.pc = "setMask" /\ r.cls = th[t].cls /\ r.sel = th[t].sel /\ r.imp = th[t].imp
      /\ r.seen = th[t].seen /\ r.todo = th[t].todo /\ r.after = th[t].after
  BY <1>3 DEF Regs, Registers
<1> HIDE DEF r
<1>6. th'[t] = r /\ \A u \in Threads \ {t} : th'[u] = th[u]
  BY <1>3, <1>4, OthersSame DEF locks
<1>7. Own(t)' /\ Reads(t)'
  BY <1>3, <1>4, <1>5, <1>6, WorkerOwn DEF Critical, tables, locks
<1>8. cache'[c].buckets = a /\ \A d \in Classes \ {c} : cache'[d] = cache[d]
  BY <1>3, <1>4 DEF TypeOK, Caches
<1>9. IsNew(a, th[t].mask + 1)
      /\ (a # EmptyBuckets => \A u \in Threads : Holds(u) => th[u].arr # a)
  BY <1>2, <1>3 DEF Work
<1>10. \A d \in Classes : Current(d)'
  <2> SUFFICES ASSUME NEW d \in Classes
               PROVE  Current(d)'
    OBVIOUS
  <2>1. CASE d # c
    BY <1>4, <1>8, <2>1, CurrentStays DEF tables
  <2>2. CASE d = c /\ a = EmptyBuckets
    BY <1>8, <2>2 DEF Current, EmptyBuckets
  <2>3. CASE d = c /\ a # EmptyBuckets
    <3>1. heap[a] \in Arrays /\ Len(heap[a]) = th[t].mask + 2
          /\ \A i \in 1 .. th[t].mask + 1 : heap[a][i].key = 0
      BY <1>3, <1>9, <2>3 DEF IsNew, Owned
    <3>2. DOMAIN heap[a] = 1 .. th[t].mask + 2 /\ heap[a][th[t].mask + 2].key = EndMarker
      BY <3>1 DEF Arrays
    <3>3. \A i \in DOMAIN heap[a] : ~(heap[a][i].key > EndMarker)
      <4> SUFFICES ASSUME NEW i \in DOMAIN heap[a]
                   PROVE  ~(heap[a][i].key > EndMarker)
        OBVIOUS
      <4>1. i = th[t].mask + 2 \/ i \in 1 .. th[t].mask + 1
        BY <1>3, <3>2
      <4> QED
        BY <3>1, <3>2, <4>1 DEF EndMarker
    <3> QED
      BY <1>4, <1>8, <2>3, <3>3 DEF Current, EndMarker
  <2> QED
    BY <2>1, <2>2, <2>3
<1>11. \A u \in Threads \ {t} : Reads(u)'
  <2> SUFFICES ASSUME NEW u \in Threads \ {t}
               PROVE  Reads(u)'
    OBVIOUS
  <2>1. Holds(u) => th[u].arr # a
    BY <1>9 DEF Holds
  <2>2. Holds(u) => \A d \in Classes : cache'[d].buckets = th[u].arr =>
                                         cache[d].buckets = th[u].arr
    BY <1>8, <2>1
  <2> QED
    BY <1>4, <1>6, <2>2, ReadsStay DEF tables
<1> QED
  BY <1>3, <1>4, <1>6, <1>7, <1>10, <1>11, ValuesOf DEF tables, locks

\* The mask is stored: the buckets stay.
LEMMA SetMaskValues ==
  ASSUME IInv, NEW t \in Threads, SetMask(t)
  PROVE  Values'
<1>1. PICK c : c = Target(t)
  OBVIOUS
<1>2. TypeOK /\ Control /\ th[t] \in Regs /\ th[t].pc = "setMask" /\ c \in Classes /\ Work(t)
      /\ ~staleAnswer
  BY <1>1, TargetFacts, ReaderFacts DEF IInv, Memory, TypeOK, SetMask, At
<1>3. UNCHANGED <<tables, heap, locks, staleAnswer>>
  BY DEF SetMask
<1>4. PICK r : /\ Become(t, r) /\ r.pc \in {"scan", "setImp", "erase"}
               /\ r.cls = th[t].cls /\ r.sel = th[t].sel /\ r.imp = th[t].imp
               /\ r.seen = th[t].seen /\ r.todo = th[t].todo /\ r.after = th[t].after
  BY <1>2, AfterSetMask DEF Continue
<1>5. th'[t] = r /\ \A u \in Threads \ {t} : th'[u] = th[u]
  BY <1>2, <1>3, <1>4, OthersSame DEF locks
<1>6. Own(t)' /\ Reads(t)'
  BY <1>2, <1>3, <1>4, <1>5, WorkerOwn DEF Critical, tables, locks
<1>7. th[t].arr = cache[c].buckets
  BY <1>1, <1>2 DEF Work
<1>8. \A d \in Classes : cache'[d].buckets = cache[d].buckets
  BY <1>1, <1>2, <1>7 DEF SetMask, TypeOK
<1>9. \A d \in Classes : Current(d)'
  BY <1>3, <1>8, CurrentStays DEF tables
<1>10. \A u \in Threads \ {t} : Reads(u)'
  BY <1>3, <1>5, <1>8, ReadsStay DEF tables
<1> QED
  BY <1>2, <1>3, <1>5, <1>6, <1>9, <1>10, ValuesOf DEF tables, locks

\* The imp of a bucket is written: without its key nobody takes it.
LEMMA SetImpValues ==
  ASSUME IInv, NEW t \in Threads, SetImp(t)
  PROVE  Values'
<1>1. PICK c : c = Target(t)
  OBVIOUS
<1>2. PICK a : a = cache[c].buckets
  OBVIOUS
<1>3. PICK q : q = th[t]
  OBVIOUS
<1>4. PICK i : i = FindBucket(cache[c], q.sel)
  OBVIOUS
<1>5. PICK e : e = [key |-> 0, imp |-> q.imp]
  OBVIOUS
<1>6. TypeOK /\ Control /\ Memory /\ q \in Regs /\ q.pc = "setImp" /\ c \in Classes
      /\ Work(t) /\ cacheUpdateLock = t /\ t \in readers /\ c = q.cls /\ q.sel \in Sels
      /\ ~staleAnswer
  BY <1>1, <1>3, TargetFacts, ReaderFacts
     DEF IInv, Control, TypeOK, Memory, SetImp, At, Locks, Updating, InMessage
<1>7. /\ UNCHANGED <<tables, garbage, locks, staleAnswer>>
      /\ Writes(a, i, e) /\ Become(t, [q EXCEPT !.pc = "setKey", !.idx = i])
      /\ cache' = [cache EXCEPT ![c].occupied = @ + 1]
  BY <1>2, <1>3, <1>4, <1>5, <1>6 DEF SetImp, WrittenFirst, Writes
<1>8. PICK r : r = [q EXCEPT !.pc = "setKey", !.idx = i]
  OBVIOUS
<1>9. /\ r.pc = "setKey" /\ r.cls = q.cls /\ r.sel = q.sel /\ r.imp = q.imp
      /\ r.seen = q.seen /\ r.todo = q.todo /\ r.after = q.after
  BY <1>6, <1>8 DEF Regs, Registers
<1>10. th'[t] = r /\ \A u \in Threads \ {t} : th'[u] = th[u]
  BY <1>6, <1>7, <1>8, OthersSame DEF locks
<1>11. Own(t)' /\ Reads(t)'
  BY <1>3, <1>6, <1>7, <1>9, <1>10, WorkerOwn DEF Critical, tables, locks
<1>12. \A d \in Classes : cache'[d].buckets = cache[d].buckets
  BY <1>6, <1>7 DEF TypeOK, Caches
<1>13. a # EmptyBuckets /\ i \in 0 .. cache[c].mask /\ cache[c].mask \in Nat
  <2>1. ~Busy(c)
    BY <1>3, <1>6, NobodyBusy
  <2> QED
    BY <1>1, <1>2, <1>3, <1>4, <1>6, <2>1, FindInCache DEF Work, TypeOK, Caches
<1>14. a \in Addresses /\ heap[a] # Freed /\ cache[c].mask + 2 <= Len(heap[a])
       /\ heap[a] \in Arrays /\ Len(heap[a]) \in Nat
  BY <1>2, <1>6, <1>13 DEF Memory, CacheOwns, Owned, Arrays
<1>15. /\ heap'[a] \in Arrays /\ Len(heap'[a]) = Len(heap[a]) /\ heap'[a][i + 1] = e
       /\ \A j \in DOMAIN heap'[a] : j # i + 1 => heap'[a][j] = heap[a][j]
       /\ \A b \in Addresses \ {a} : heap'[b] = heap[b]
  <2>1. e \in Entries
    BY <1>5, <1>6 DEF Entries, Regs, Registers
  <2>2. i \in Nat /\ i + 2 <= Len(heap[a]) /\ heap \in [Addresses -> Arrays \cup {Freed}]
    BY <1>6, <1>13, <1>14 DEF Memory
  <2> QED
    BY <1>7, <1>13, <1>14, <2>1, <2>2, BucketWritten
<1>16. DOMAIN heap'[a] = DOMAIN heap[a]
  BY <1>14, <1>15 DEF Arrays
<1>17. \A d \in Classes : Current(d)'
  <2> SUFFICES ASSUME NEW d \in Classes
               PROVE  Current(d)'
    OBVIOUS
  <2>1. CASE cache[d].buckets # a
    BY <1>7, <1>12, <1>15, <2>1, InUse, CurrentStays DEF tables
  <2>2. CASE cache[d].buckets = a
    <3>1. \A j \in DOMAIN heap[a] : heap[a][j].key > EndMarker =>
             heap[a][j].imp \in Visible(d, heap[a][j].key)
      BY <1>13, <2>2 DEF IInv, Values, Current
    <3>2. ~(e.key > EndMarker)
      BY <1>5 DEF EndMarker
    <3>3. \A j \in DOMAIN heap'[a] : heap'[a][j].key > EndMarker =>
             heap'[a][j].imp \in Visible(d, heap'[a][j].key)
      BY <1>15, <1>16, <3>1, <3>2
    <3> QED
      BY <1>7, <1>12, <2>2, <3>3 DEF Current, Visible, tables, EndMarker
  <2> QED
    BY <2>1, <2>2
<1>18. \A u \in Threads \ {t} : Reads(u)'
  <2> SUFFICES ASSUME NEW u \in Threads \ {t}
               PROVE  Reads(u)'
    OBVIOUS
  <2>1. CASE Holds(u) => th[u].arr # a
    BY <1>7, <1>10, <1>12, <1>15, <2>1, InUse, ReadsStay DEF tables
  <2>2. CASE Holds(u) /\ th[u].arr = a
    <3>1. th[u].sel # 0
      <4>1. th[u].sel \in Sels
        BY <2>2, ReaderFacts DEF Holds, Critical
      <4> QED
        BY <4>1, CacheAssumption DEF CacheAssumption
    <3>2. Reads(u)
      BY DEF IInv, Values
    <3>3. e.key # th[u].sel
      BY <1>5, <3>1
    <3>4. \A j \in DOMAIN heap'[a] : heap'[a][j].key = th[u].sel =>
             heap'[a][j].imp \in IF th[u].slow THEN {Resolved(methods, th[u].cur, th[u].sel)}
                                 ELSE th[u].seen
      BY <1>15, <1>16, <2>2, <3>2, <3>3 DEF Reads
    <3> QED
      BY <1>7, <1>10, <1>12, <2>2, <3>2, <3>4 DEF Reads, tables
  <2> QED
    BY <2>1, <2>2
<1> QED
  BY <1>6, <1>7, <1>10, <1>11, <1>17, <1>18, ValuesOf DEF tables, locks

\* The key is written: whoever reads the array may run the implementation.
LEMMA SetKeyValues ==
  ASSUME IInv, NEW t \in Threads, SetKey(t)
  PROVE  Values'
<1>1. PICK c : c = Target(t)
  OBVIOUS
<1>2. PICK a : a = cache[c].buckets
  OBVIOUS
<1>3. PICK q : q = th[t]
  OBVIOUS
<1>4. PICK i : i = q.idx
  OBVIOUS
<1>5. PICK e : e = [key |-> q.sel, imp |-> q.imp]
  OBVIOUS
<1>6. TypeOK /\ Control /\ Memory /\ q \in Regs /\ q.pc = "setKey" /\ c \in Classes
      /\ Work(t) /\ t \in readers /\ c = q.cls /\ q.sel \in Sels
  BY <1>1, <1>3, TargetFacts
     DEF IInv, Control, TypeOK, Memory, SetKey, At, Locks, InMessage
<1>7. /\ UNCHANGED <<tables, cache, garbage, writer>>
      /\ Writes(a, i, e) /\ Become(t, Idle) /\ readers' = readers \ {t}
      /\ staleAnswer' = (staleAnswer \/ q.imp \notin q.seen)
  BY <1>2, <1>3, <1>4, <1>5, <1>6 DEF SetKey, Answer, Writes
<1>8. q.imp = Resolved(methods, c, q.sel) /\ before = methods /\ ~staleAnswer
      /\ Visible(c, q.sel) \subseteq q.seen
  <2>1. Result(t)
    BY DEF IInv, Values
  <2>2. q.imp = Resolved(methods, c, q.sel)
    BY <1>3, <1>6, <2>1 DEF Result, Critical
  <2> QED
    BY <1>3, <1>6, <2>2, ReaderFacts DEF InMessage
<1>9. ~staleAnswer'
  BY <1>7, <1>8 DEF Visible
<1>10. th'[t] = Idle /\ \A u \in Threads \ {t} : th'[u] = th[u]
  BY <1>6, <1>7, OthersSame
<1>11. Own(t)' /\ Reads(t)'
  BY <1>10, IdleOwn, SetKeyControl
<1>12. a # EmptyBuckets /\ i \in 0 .. cache[c].mask /\ cache[c].mask \in Nat
  BY <1>1, <1>2, <1>3, <1>4, <1>6 DEF Work, TypeOK, Caches
<1>13. a \in Addresses /\ heap[a] # Freed /\ cache[c].mask + 2 <= Len(heap[a])
       /\ heap[a] \in Arrays /\ Len(heap[a]) \in Nat
  BY <1>2, <1>6, <1>12 DEF Memory, CacheOwns, Owned, Arrays
<1>14. /\ heap'[a] \in Arrays /\ Len(heap'[a]) = Len(heap[a]) /\ heap'[a][i + 1] = e
       /\ \A j \in DOMAIN heap'[a] : j # i + 1 => heap'[a][j] = heap[a][j]
       /\ \A b \in Addresses \ {a} : heap'[b] = heap[b]
  <2>1. e \in Entries
    BY <1>5, <1>6 DEF Entries, Regs, Registers
  <2>2. i \in Nat /\ i + 2 <= Len(heap[a]) /\ heap \in [Addresses -> Arrays \cup {Freed}]
    BY <1>6, <1>12, <1>13 DEF Memory
  <2> QED
    BY <1>7, <1>12, <1>13, <2>1, <2>2, BucketWritten
<1>15. DOMAIN heap'[a] = DOMAIN heap[a]
  BY <1>13, <1>14 DEF Arrays
<1>16. e.key = q.sel /\ e.imp = Resolved(methods, c, q.sel)
  BY <1>5, <1>8
<1>17. \A d \in Classes : Current(d)'
  <2> SUFFICES ASSUME NEW d \in Classes
               PROVE  Current(d)'
    OBVIOUS
  <2>1. CASE cache[d].buckets # a
    BY <1>7, <1>14, <2>1, InUse, CurrentStays DEF tables
  <2>2. CASE cache[d].buckets = a
    <3>1. d = c
      BY <1>2, <1>6, <1>12, <2>2 DEF Memory, Apart
    <3>2. \A j \in DOMAIN heap[a] : heap[a][j].key > EndMarker =>
             heap[a][j].imp \in Visible(d, heap[a][j].key)
      BY <1>12, <2>2 DEF IInv, Values, Current
    <3>3. e.imp \in Visible(d, e.key)
      BY <1>16, <3>1 DEF Visible
    <3>4. \A j \in DOMAIN heap'[a] : heap'[a][j].key > EndMarker =>
             heap'[a][j].imp \in Visible(d, heap'[a][j].key)
      BY <1>14, <1>15, <3>2, <3>3
    <3> QED
      BY <1>7, <2>2, <3>4 DEF Current, Visible, tables, EndMarker
  <2> QED
    BY <2>1, <2>2
<1>18. \A u \in Threads \ {t} : Reads(u)'
  <2> SUFFICES ASSUME NEW u \in Threads \ {t}
               PROVE  Reads(u)'
    OBVIOUS
  <2>1. CASE Holds(u) => th[u].arr # a
    BY <1>7, <1>10, <1>14, <2>1, InUse, ReadsStay DEF tables
  <2>2. CASE Holds(u) /\ th[u].arr = a
    <3>1. Reads(u) /\ Climb(u) /\ Critical(u)
      BY <2>2 DEF IInv, Values, Holds, Critical
    <3>2. th[u].cur = c
      BY <1>2, <1>6, <2>2, <3>1 DEF Reads
    <3>3. ~th[u].slow => th[u].cls = c
      BY <3>1, <3>2 DEF Climb
    <3>4. Visible(th[u].cls, th[u].sel) \subseteq th[u].seen
      BY <3>1, ReaderFacts DEF InMessage
    <3>5. e.key = th[u].sel =>
            e.imp \in IF th[u].slow THEN {Resolved(methods, th[u].cur, th[u].sel)}
                      ELSE th[u].seen
      BY <1>16, <3>2, <3>3, <3>4 DEF Visible
    <3>6. \A j \in DOMAIN heap'[a] : heap'[a][j].key = th[u].sel =>
             heap'[a][j].imp \in IF th[u].slow THEN {Resolved(methods, th[u].cur, th[u].sel)}
                                 ELSE th[u].seen
      BY <1>14, <1>15, <2>2, <3>1, <3>5 DEF Reads
    <3> QED
      BY <1>7, <1>10, <2>2, <3>1, <3>6 DEF Reads, tables
  <2> QED
    BY <2>1, <2>2
<1> QED
  BY <1>7, <1>9, <1>10, <1>11, <1>17, <1>18, ValuesOf DEF tables

\* Garbage is freed: nobody reads it.
LEMMA FreeGarbageValues ==
  ASSUME IInv, NEW t \in Threads, FreeGarbage(t)
  PROVE  Values'
<1>1. TypeOK /\ th[t] \in Regs /\ th[t].pc = "scan" /\ Looked(t) /\ th[t].scan = {}
      /\ ~staleAnswer
  BY ReaderFacts DEF IInv, Memory, TypeOK, FreeGarbage, At
<1>2. UNCHANGED <<tables, cache, readers, writer, staleAnswer>>
      /\ heap' = [a \in Addresses |-> IF a \in garbage THEN Freed ELSE heap[a]]
  BY DEF FreeGarbage
<1>3. Own(t)' /\ Reads(t)' /\ \A u \in Threads \ {t} : th'[u] = th[u]
  <2>1. CASE Become(t, Idle)
    <3>1. th'[t] = Idle /\ \A u \in Threads \ {t} : th'[u] = th[u]
      BY <1>1, <1>2, <2>1, OthersSame
    <3> QED
      BY <3>1, IdleOwn, FreeGarbageControl
  <2>2. CASE Become(t, [th[t] EXCEPT !.pc = Continue(t)])
    <3> DEFINE r == [th[t] EXCEPT !.pc = Continue(t)]
    <3>1. /\ r.pc \in {"setImp", "erase"} /\ r.cls = th[t].cls /\ r.sel = th[t].sel
          /\ r.imp = th[t].imp /\ r.seen = th[t].seen /\ r.todo = th[t].todo
          /\ r.after = th[t].after
      BY <1>1 DEF Regs, Registers, Continue
    <3> HIDE DEF r
    <3>2. Become(t, r)
      BY <2>2 DEF r
    <3>3. th'[t] = r /\ \A u \in Threads \ {t} : th'[u] = th[u]
      BY <1>1, <1>2, <3>2, OthersSame
    <3>4. Own(t)' /\ Reads(t)'
      BY <1>1, <1>2, <3>1, <3>3, WorkerOwn DEF Critical, tables
    <3> QED
      BY <3>3, <3>4
  <2> QED
    BY <2>1, <2>2 DEF FreeGarbage
<1>4. \A a \in Addresses \ garbage : heap'[a] = heap[a]
  BY <1>2
<1>5. \A d \in Classes : Current(d)'
  BY <1>2, <1>4, InUse, CurrentStays DEF tables
<1>6. \A u \in Threads \ {t} : Reads(u)'
  <2> SUFFICES ASSUME NEW u \in Threads \ {t}
               PROVE  Reads(u)'
    OBVIOUS
  <2>1. Holds(u) => th[u].arr \in Addresses \ garbage
    BY <1>1, InUse DEF Looked
  <2> QED
    BY <1>2, <1>3, <1>4, <2>1, ReadsStay DEF tables
<1> QED
  BY <1>1, <1>2, <1>3, <1>5, <1>6, ValuesOf DEF tables

\* A change of methods begins: every message in progress takes notice, and no lookup is under
\* way that found what was there.
LEMMA StartChangeValues ==
  ASSUME IInv, NEW t \in Threads, StartChange(t)
  PROVE  Values'
<1>1. PICK to \in Lists, flush \in SUBSET Classes :
           /\ methods' = to /\ writer' = t /\ readers = {} /\ writer = NoThread
           /\ th[t].pc \in {"idle", "resolve"}
           /\ UNCHANGED <<before, memory, readers, cacheUpdateLock, staleAnswer>>
           /\ \A c \in Classes \ flush, s \in Sels :
                Resolved(to, c, s) = Resolved(methods, c, s)
           /\ \A u \in Threads : LET r == th[u]  q == th'[u] IN
                /\ u # t => q.pc = r.pc /\ q.after = r.after
                /\ q.cur = r.cur /\ q.arr = r.arr
                /\ q.cls = r.cls /\ q.sel = r.sel /\ q.slow = r.slow
                /\ r.seen \subseteq q.seen
                /\ r.seen # {} => Resolved(to, r.cls, r.sel) \in q.seen
           /\ th'[t].pc = "erase" /\ th'[t].todo = flush
           /\ th'[t].after = "rdlock" => th[t].pc = "resolve"
  BY ChangeCases
<1>2. before = methods /\ ~staleAnswer /\ NoThread \notin Threads
  BY <1>1, CacheAssumption DEF IInv, Values, CacheAssumption
<1>3. before' = before /\ heap' = heap /\ cache' = cache /\ readers' = {} /\ ~staleAnswer'
      /\ writer' # NoThread
  BY <1>1, <1>2 DEF memory
<1>4. ASSUME NEW u \in Threads
      PROVE  /\ InMessage(u)' => InMessage(u)
             /\ Critical(u)' => Critical(u) /\ u # t
             /\ Holds(u)' => Holds(u)
  BY <1>1, <1>3 DEF InMessage, Critical, Holds, EmptyBuckets
<1>5. ASSUME NEW u \in Threads
      PROVE  Saw(u)'
  <2> SUFFICES ASSUME InMessage(u)
               PROVE  Visible(th[u].cls, th[u].sel)' \subseteq th'[u].seen
    BY <1>4 DEF Saw
  <2>1. Visible(th[u].cls, th[u].sel) \subseteq th[u].seen
    BY ReaderFacts
  <2>2. Resolved(before, th[u].cls, th[u].sel) \in th[u].seen /\ th[u].seen # {}
    BY <2>1 DEF Visible
  <2> QED
    BY <1>1, <1>3, <2>2 DEF Visible
<1>6. ASSUME NEW u \in Threads
      PROVE  Climb(u)' /\ Reads(u)' /\ Result(u)'
  <2>1. Critical(u) => th[u].slow = FALSE /\ th[u].cur = th[u].cls
    <3>1. Critical(u) => th[u].slow # TRUE /\ th[u].slow \in BOOLEAN
      BY <1>1, ReaderFacts DEF IInv, TypeOK, Regs, Registers
    <3> QED
      BY <3>1 DEF IInv, Values, Climb
  <2>2. Climb(u)'
    BY <1>1, <1>4, <2>1 DEF Climb
  <2>3. Reads(u)'
    <3>1. Holds(u) => Critical(u)
      BY DEF Holds, Critical
    <3>2. Reads(u)
      BY DEF IInv, Values
    <3> QED
      BY <1>1, <1>3, <1>4, <2>1, <3>1, <3>2 DEF Reads
  <2>4. Result(u)'
    BY <1>3 DEF Result
  <2> QED
    BY <2>2, <2>3, <2>4
<1>7. \A u \in Threads : Changing(u)'
  BY <1>1, <1>2, <1>3 DEF Changing
<1>8. ASSUME NEW c \in Classes
      PROVE  Current(c)'
  <2>1. Current(c)
    BY DEF IInv, Values
  <2>2. \A s : Visible(c, s) \subseteq {Resolved(before, c, s)}
    BY <1>2 DEF Visible
  <2> QED
    BY <1>3, <2>1, <2>2 DEF Current, Visible, EmptyBuckets
<1> QED
  BY <1>3, <1>5, <1>6, <1>7, <1>8 DEF Values

\* A change is complete: the caches it had to flush are empty, the others say what the lists
\* give.
LEMMA EndChangeValues ==
  ASSUME IInv, NEW t \in Threads, EndChange(t)
  PROVE  Values'
<1> DEFINE r == [th[t] EXCEPT !.pc = th[t].after, !.after = "idle", !.todo = {}]
<1>1. TypeOK /\ Control /\ Memory /\ th[t] \in Regs /\ th[t].pc = "erase" /\ writer = t
      /\ NoThread \notin Threads /\ readers = {}
  <2>1. TypeOK /\ Control /\ Memory /\ th[t].pc = "erase" /\ Locks(t) /\ NoThread \notin Threads
    BY CacheAssumption DEF CacheAssumption, IInv, Control, EndChange, At
  <2> QED
    BY <2>1 DEF Locks, Control, TypeOK
<1>2. /\ Become(t, r) /\ cacheUpdateLock \in {NoThread, t} /\ ToErase(t) = {}
      /\ before' = methods /\ methods' = methods /\ writer' = NoThread
      /\ heap' = heap /\ cache' = cache /\ readers' = readers /\ staleAnswer' = staleAnswer
  BY DEF EndChange, memory
<1>3. r.pc = th[t].after /\ r.after = "idle" /\ r.cls = th[t].cls /\ r.sel = th[t].sel
      /\ r.seen = th[t].seen /\ th[t].after \in {"idle", "rdlock", "lockCollect"}
  BY <1>1 DEF Regs, Registers
<1> HIDE DEF r
<1>4. th'[t] = r /\ \A u \in Threads \ {t} : th'[u] = th[u]
  BY <1>1, <1>2, OthersSame
<1>5. \A c, s : Visible(c, s)' \subseteq Visible(c, s)
  BY <1>2 DEF Visible
<1>6. ASSUME NEW u \in Threads
      PROVE  Saw(u)' /\ Climb(u)' /\ Reads(u)' /\ Result(u)' /\ Changing(u)'
  <2>1. Saw(u) /\ Climb(u) /\ Reads(u)
    BY DEF IInv, Values
  <2>2. Result(u)' /\ Changing(u)'
    BY <1>1, <1>2 DEF Result, Changing
  <2>3. CASE u = t
    <3>1. (InMessage(t)' => InMessage(t)) /\ ~Critical(t)' /\ ~Holds(t)'
      BY <1>2, <1>3, <1>4 DEF InMessage, Critical, Holds
    <3>2. Saw(t)'
      BY <1>3, <1>4, <1>5, <2>1, <2>3, <3>1 DEF Saw
    <3> QED
      BY <2>2, <2>3, <3>1, <3>2 DEF Climb, Reads
  <2>4. CASE u # t
    <3>1. (InMessage(u)' <=> InMessage(u)) /\ (Critical(u)' <=> Critical(u))
          /\ (Holds(u)' <=> Holds(u)) /\ th'[u] = th[u]
      BY <1>2, <1>4, <2>4 DEF InMessage, Critical, Holds, EmptyBuckets
    <3>2. Saw(u)'
      BY <1>5, <2>1, <3>1 DEF Saw
    <3>3. Climb(u)' /\ Reads(u)'
      BY <1>2, <2>1, <3>1 DEF Climb, Reads
    <3> QED
      BY <2>2, <3>2, <3>3
  <2> QED
    BY <2>3, <2>4
<1>7. ASSUME NEW c \in Classes
      PROVE  Current(c)'
  <2> SUFFICES ASSUME cache[c].buckets # EmptyBuckets, NEW i \in DOMAIN heap[cache[c].buckets],
                      heap[cache[c].buckets][i].key > EndMarker
               PROVE  heap[cache[c].buckets][i].imp
                        \in Visible(c, heap[cache[c].buckets][i].key)'
    BY <1>2 DEF Current, EmptyBuckets, EndMarker
  <2>1. PICK a : a = cache[c].buckets
    OBVIOUS
  <2>2. PICK m : m = cache[c].mask
    OBVIOUS
  <2>3. /\ a \in Addresses /\ heap[a] \in Arrays /\ m \in Nat
        /\ Counted(cache[c], Cardinality(Used(cache[c]))) /\ cache[c] \in Caches
    <3>1. ~Busy(c)
      BY <1>1, <1>2, NobodyBusy
    <3> QED
      BY <1>1, <2>1, <2>2, <3>1 DEF Memory, CacheOwns, Owned, CacheCounts, TypeOK, Caches
  <2>4. Len(heap[a]) = m + 2 /\ m >= 1 /\ cache[c].occupied = Cardinality(Used(cache[c]))
    BY <2>1, <2>2, <2>3 DEF Counted
  <2>5. i \in 1 .. m + 2 /\ heap[a][i] \in Entries /\ heap[a][m + 2].key = EndMarker
    <3>1. DOMAIN heap[a] = 1 .. m + 2 /\ heap[a] \in Seq(Entries)
      BY <2>3, <2>4 DEF Arrays
    <3> QED
      BY <2>1, <2>3, <2>4, <3>1, ElementOfSeq DEF Arrays
  <2>6. c \notin th[t].todo
    <3> SUFFICES ASSUME c \in th[t].todo
                 PROVE  FALSE
      OBVIOUS
    <3>1. cache[c].occupied = 0
      BY <1>2, <2>2, <2>3, <2>4 DEF ToErase, Caches
    <3>2. Used(cache[c]) = {}
      <4> DEFINE S == Used(cache[c])
      <4>1. IsFiniteSet(S) /\ Cardinality(S) = 0
        BY <2>3, <2>4, <3>1, UsedFacts
      <4> HIDE DEF S
      <4>2. S = {}
        BY <4>1, FS_EmptySet
      <4> QED
        BY <4>2 DEF S
    <3>3. \A j \in 0 .. m : heap[a][j + 1].key = 0
      BY <2>1, <2>2, <3>2 DEF Used, Bucket
    <3>4. i = m + 2 \/ i - 1 \in 0 .. m
      BY <2>3, <2>5
    <3>5. CASE i = m + 2
      BY <2>1, <2>5, <3>5 DEF EndMarker
    <3>6. CASE i - 1 \in 0 .. m
      <4>1. heap[a][(i - 1) + 1].key = 0 /\ (i - 1) + 1 = i
        BY <2>5, <3>3, <3>6
      <4> QED
        BY <2>1, <4>1 DEF EndMarker
    <3> QED
      BY <3>4, <3>5, <3>6
  <2>7. heap[a][i].key \in Sels
    BY <2>1, <2>5 DEF Entries, EndMarker
  <2>8. heap[a][i].imp \in Visible(c, heap[a][i].key)
    BY <2>1 DEF IInv, Values, Current
  <2>9. Resolved(methods, c, heap[a][i].key) = Resolved(before, c, heap[a][i].key)
    BY <1>1, <2>6, <2>7 DEF IInv, Values, Changing
  <2> QED
    BY <1>2, <2>1, <2>8, <2>9 DEF Visible
<1> QED
  BY <1>2, <1>6, <1>7 DEF Values, IInv

\* Every step keeps what messages, lookups, changes and caches hold of the method lists.
LEMMA ValuesStep ==
  ASSUME IInv, [Next]_vars
  PROVE  Values'
<1>1. CASE Next
  BY <1>1, Steps, SendValues, LoadBucketsValues, ProbeValues, LockRuntimeReadValues,
     FillValues, SetBucketsValues, SetMaskValues, SetImpValues, SetKeyValues, ScanValues,
     FreeGarbageValues, StartChangeValues, EraseValues, EndChangeValues, LockCollectValues
<1>2. CASE UNCHANGED vars
  <2>1. /\ methods' = methods /\ before' = before /\ writer' = writer /\ readers' = readers
        /\ th' = th /\ cache' = cache /\ heap' = heap /\ staleAnswer' = staleAnswer
    BY <1>2 DEF vars
  <2>2. \A u \in Threads : Own(u)'
    BY <2>1, OtherOwn
  <2>3. \A u \in Threads : Reads(u)'
    BY <2>1, ReadsStay
  <2>4. \A c \in Classes : Current(c)'
    BY <2>1, CurrentStays
  <2> QED
    BY <2>1, <2>2, <2>3, <2>4 DEF IInv, Values, Own
<1> QED
  BY <1>1, <1>2

------------------------------------------------------------------------------
(* The theorems.                                                           *)

\* The invariant holds at first: no thread has begun, every cache is the shared empty one.
LEMMA InitInv ==
  ASSUME Init
  PROVE  IInv
<1>1. /\ methods \in Lists /\ before = methods
      /\ \A c \in Classes : cache[c] = [buckets |-> EmptyBuckets, mask |-> 0, occupied |-> 0]
      /\ \A a \in Addresses : heap[a] = Freed
      /\ garbage = {} /\ staleAnswer = FALSE /\ readers = {} /\ writer = NoThread
      /\ cacheUpdateLock = NoThread /\ NoThread \notin Threads
      /\ \A t \in Threads : th[t] = Idle
  BY CacheAssumption DEF Init, CacheAssumption, Lists
<1>2. TypeOK
  <2>1. cache \in [Classes -> Caches]
    BY DEF Init, Caches
  <2>2. th \in [Threads -> Regs]
    BY IdleRegs DEF Init
  <2> QED
    BY <1>1, <2>1, <2>2 DEF TypeOK
<1>3. \A t \in Threads : th[t].pc = "idle" /\ th[t].after = "idle" /\ ~th[t].alot
  BY <1>1 DEF Idle
<1>4. Control
  BY <1>1, <1>3 DEF Control, Locks, Updating, InMessage, Critical
<1>5. \A t \in Threads : ~Critical(t) /\ ~Holds(t) /\ ~InMessage(t)
  BY <1>1, <1>3 DEF InMessage, Critical, Holds
<1>6. Memory
  <2>1. heap \in [Addresses -> Arrays \cup {Freed}]
    BY DEF Init
  <2>2. \A c \in Classes : CacheOwns(c) /\ CacheCounts(c)
    BY <1>1 DEF CacheOwns, CacheCounts, Counted
  <2>3. Apart
    BY <1>1 DEF Apart
  <2>4. \A t \in Threads : Work(t) /\ ScanInBounds(t) /\ Looked(t)
    BY <1>1, <1>3, <1>5 DEF Work, ScanInBounds, Looked
  <2> QED
    BY <1>1, <2>1, <2>2, <2>3, <2>4 DEF Memory
<1>7. Values
  <2>1. \A t \in Threads : Saw(t) /\ Result(t) /\ Climb(t) /\ Reads(t) /\ Changing(t)
    BY <1>1, <1>5 DEF Saw, Result, Climb, Reads, Changing
  <2>2. \A c \in Classes : Current(c)
    BY <1>1 DEF Current
  <2> QED
    BY <1>1, <2>1, <2>2 DEF Values
<1> QED
  BY <1>2, <1>4, <1>6, <1>7 DEF IInv

\* Whatever the threads do, the types, the locks of each label, the ownership of every array
\* and the knowledge of every lookup are as the invariant says.
THEOREM Invariant == Spec => []IInv
<1>1. IInv /\ [Next]_vars => IInv'
  BY ControlStep, MemoryStep, ValuesStep DEF IInv
<1> QED
  BY InitInv, <1>1, PTL DEF Spec

\* objc_msgSend reads no array that _collecting_in_critical let free, and never past its end,
\* though it takes no lock and loads the mask and the buckets one after the other.
THEOREM ScanSafety == Spec => []ScanIsSafe
<1>1. IInv => ScanIsSafe
  <2> SUFFICES ASSUME IInv, NEW t \in Threads, Holds(t)
               PROVE  heap[th[t].arr] # Freed /\ th[t].idx + 1 \in DOMAIN heap[th[t].arr]
    BY DEF ScanIsSafe
  <2>1. ScanInBounds(t) /\ th[t] \in Regs /\ heap \in [Addresses -> Arrays \cup {Freed}]
    BY DEF IInv, Memory, TypeOK
  <2>2. heap[th[t].arr] # Freed /\ th[t].idx + 1 <= Len(heap[th[t].arr])
    BY <2>1 DEF ScanInBounds
  <2>3. th[t].arr \in Addresses /\ th[t].idx \in Nat
    BY <2>1 DEF Regs, Registers, Holds, EmptyBuckets
  <2>4. heap[th[t].arr] \in Seq(Entries)
    BY <2>1, <2>2, <2>3 DEF Arrays
  <2>5. DOMAIN heap[th[t].arr] = 1 .. Len(heap[th[t].arr]) /\ Len(heap[th[t].arr]) \in Nat
    BY <2>4
  <2> QED
    BY <2>2, <2>3, <2>5
<1> QED
  BY Invariant, <1>1, PTL

\* cache_fill and flushCaches leave no implementation in a cache that the method lists do not
\* give, but for those a change in progress is about to flush.
THEOREM Currency == Spec => []CachedIsCurrent
<1>1. IInv => CachedIsCurrent
  <2> SUFFICES ASSUME IInv, NEW c \in Classes, cache[c].buckets # EmptyBuckets,
                      NEW e \in Range(heap[cache[c].buckets]), e.key > EndMarker
               PROVE  e.imp \in Visible(c, e.key)
    BY DEF CachedIsCurrent
  <2>1. PICK i \in DOMAIN heap[cache[c].buckets] : e = heap[cache[c].buckets][i]
    BY DEF Range
  <2>2. Current(c)
    BY DEF IInv, Values
  <2> QED
    BY <2>1, <2>2 DEF Current
<1> QED
  BY Invariant, <1>1, PTL

\* Every message runs an implementation that its class had for its selector at some moment
\* of the message, though methods are added, replaced and exchanged meanwhile.
THEOREM AnswerCurrency == Spec => []AnswerWasCurrent
<1>1. IInv => AnswerWasCurrent
  BY DEF IInv, Values, AnswerWasCurrent
<1> QED
  BY Invariant, <1>1, PTL

\* Whenever cacheUpdateLock is free, cache_t::find and the scan have an empty bucket to end at.
THEOREM RoomLeft == Spec => []AlwaysAnEmptyBucket
<1>1. IInv => AlwaysAnEmptyBucket
  <2> SUFFICES ASSUME IInv, cacheUpdateLock = NoThread, NEW c \in Classes,
                      cache[c].buckets # EmptyBuckets
               PROVE  /\ cache[c].occupied = Cardinality(Used(cache[c]))
                      /\ cache[c].occupied < Capacity(cache[c])
    BY DEF AlwaysAnEmptyBucket, Used
  <2>1. TypeOK /\ Control /\ Memory /\ NoThread \notin Threads
    BY CacheAssumption DEF IInv, CacheAssumption
  <2>2. ~Busy(c)
    <3>1. \A t \in Threads : ~Updating(t)
      BY <2>1 DEF Control, Locks
    <3> QED
      BY <3>1 DEF Busy, Updating
  <2>3. Counted(cache[c], Cardinality(Used(cache[c])))
    BY <2>1, <2>2 DEF Memory, CacheCounts
  <2>4. cache[c].mask \in Nat /\ cache[c].occupied \in Nat
    BY <2>1 DEF TypeOK, Caches
  <2> QED
    BY <2>3, <2>4 DEF Counted, Capacity
<1> QED
  BY Invariant, <1>1, PTL
=============================================================================
