------------------------------- MODULE DenseMap -------------------------------
(****************************************************************************)
(* RefcountMap, the table of reference counts of a SideTable:               *)
(* objc::DenseMap<DisguisedPtr<objc_object>, size_t, true>                  *)
(* (llvm-DenseMap.h). Open addressing with quadratic probing; what is       *)
(* erased leaves a tombstone, and a count of zero may be dropped whenever   *)
(* its bucket is wanted or the table is rehashed.                           *)
(*                                                                          *)
(* Every operation is under the side table's lock: one step each.           *)
(****************************************************************************)
EXTENDS Integers, FiniteSets, FiniteSetsExt

CONSTANTS Keys, KeyHash,  \* the objects and their hashes
          EmptyKey, TombstoneKey,
          Counts,         \* bound: the counts stored for each key
          MinBuckets,     \* MIN_BUCKETS, 4
          MinCompact      \* MIN_COMPACT, 1024

\* strictly greater than a: each power serves until a reaches it
NextPowerOf2(a) ==
    LET power[i \in 0 .. a] == IF i = 0 THEN 1
                               ELSE IF i < power[i - 1] THEN power[i - 1] ELSE 2 * power[i - 1]
    IN power[a]

ASSUME DenseMapAssumption ==
    /\ {EmptyKey, TombstoneKey} \cap Keys = {} /\ EmptyKey # TombstoneKey
    /\ KeyHash \in [Keys -> Nat] /\ Counts \in [Keys -> SUBSET Nat]
    /\ MinBuckets \in Nat \ {0} /\ NextPowerOf2(MinBuckets - 1) = MinBuckets
    /\ MinCompact \in Nat

VARIABLES refcnts,   \* the map
          stored     \* ghost: the count last stored for a key, 0 when erased

refcounts == <<refcnts, stored>>

\* init, allocateBuckets and initEmpty
NewMap(n) == [size       |-> n,
              buckets    |-> [i \in 0 .. n - 1 |-> [key |-> EmptyKey, count |-> 0]],
              entries    |-> 0,
              tombstones |-> 0]

------------------------------------------------------------------------------
(* Lookup                                                                   *)

\* The bucket that is looked at after i others.
ProbeAt(m, k, i) == (KeyHash[k] + (i * (i + 1)) \div 2) % m.size

Probed(m, k, i) == m.buckets[ProbeAt(m, k, i)]

\* mutant: a tombstone ends the search
StopsAtTombstone(m, k) ==
    Min({i \in 0 .. m.size : Probed(m, k, i).key \in {k, EmptyKey, TombstoneKey}})

\* The search ends at the key or at an empty bucket.
Stops(m, k) == Min({i \in 0 .. m.size : Probed(m, k, i).key \in {k, EmptyKey}})

Found(m, k) == m.size # 0 /\ Probed(m, k, Stops(m, k)).key = k

\* LookupBucketFor: the key's own bucket, or the first on the way that may be taken.
BucketFor(m, k) ==
    LET stop   == Stops(m, k)
        usable == {i \in 0 .. stop - 1 : \/ Probed(m, k, i).key = TombstoneKey
                                         \/ Probed(m, k, i).count = 0}
    IN ProbeAt(m, k, IF Found(m, k) \/ usable = {} THEN stop ELSE Min(usable))

CountOf(m, k) == IF Found(m, k) THEN m.buckets[BucketFor(m, k)].count ELSE 0

------------------------------------------------------------------------------
(* Growing and shrinking                                                    *)

Purged(b) == b.key \in {EmptyKey, TombstoneKey} \/ b.count = 0

Moved(new, b) == [new EXCEPT !.buckets[BucketFor(new, b.key)] = b, !.entries = @ + 1]

\* grow and moveFromOldBuckets
Grow(m, atLeast) ==
    LET moved[i \in 0 .. m.size] ==
            IF i = 0 THEN NewMap(Max({MinBuckets, NextPowerOf2(atLeast)}))
            ELSE IF Purged(m.buckets[i - 1]) THEN moved[i - 1]
            ELSE Moved(moved[i - 1], m.buckets[i - 1])
    IN moved[m.size]

\* compact; shrink_and_clear of a map without entries gives its buckets up.
Compact(m) ==
    IF m.entries = 0 THEN NewMap(0)
    ELSE IF m.size \div 16 > m.entries /\ m.size > MinCompact
    THEN Grow(m, 2 * m.entries)
    ELSE m

\* What InsertIntoBucketImpl makes room in: more than 3/4 full, the table
\* doubles; with 1/8 or less empty it is rehashed, and, for all that its
\* comment says, grow(NumBuckets) then doubles it as well.
WithRoom(m) ==
    LET grown == IF 4 * (m.entries + 1) >= 3 * m.size THEN Grow(m, 2 * m.size) ELSE m
        n     == grown.size
    IN IF n - (m.entries + 1 + grown.tombstones) <= n \div 8 THEN Grow(grown, n) ELSE grown

------------------------------------------------------------------------------
(* Operations                                                               *)

\* InsertIntoBucket, of a count of zero
Insert(m, k) ==
    LET room  == WithRoom(m)
        b     == BucketFor(room, k)
        taken == room.buckets[b].key
    IN [room EXCEPT !.buckets[b]  = [key |-> k, count |-> 0],
                    !.entries     = IF taken \in {EmptyKey, TombstoneKey} THEN @ + 1 ELSE @,
                    !.tombstones  = IF taken = TombstoneKey THEN @ - 1 ELSE @]

\* refcnts[k] = n
StoreCount(k, n) ==
    /\ stored[k] # n \/ ~Found(refcnts, k)
    /\ LET m == IF Found(refcnts, k) THEN refcnts ELSE Insert(refcnts, k)
       IN refcnts' = [m EXCEPT !.buckets[BucketFor(m, k)].count = n]
    /\ stored' = [stored EXCEPT ![k] = n]

\* refcnts.erase(k), or of the iterator find(k) gave
EraseCount(k) ==
    /\ Found(refcnts, k)
    /\ refcnts' = Compact([refcnts EXCEPT !.buckets[BucketFor(refcnts, k)] =
                                             [key |-> TombstoneKey, count |-> 0],
                                          !.entries = @ - 1, !.tombstones = @ + 1])
    /\ stored' = [stored EXCEPT ![k] = 0]

InitRefcounts == refcnts = NewMap(0) /\ stored = [k \in Keys |-> 0]

NextRefcounts ==
    \E k \in Keys : EraseCount(k) \/ \E n \in Counts[k] : StoreCount(k, n)

SpecRefcounts == InitRefcounts /\ [][NextRefcounts]_refcounts

------------------------------------------------------------------------------
(* Properties                                                               *)

BucketsWith(keys) == {i \in DOMAIN refcnts.buckets : refcnts.buckets[i].key \in keys}

\* Whatever was inserted, erased, rehashed, doubled, compacted and purged, a
\* key has the count stored last, and none is in two buckets; the entries and
\* the tombstones are counted exactly, and some bucket is empty, so that no
\* search runs round the table ("Hash table corrupted", llvm-DenseMap.h:542).
RefcountsAreKept ==
    /\ \A k \in Keys : /\ CountOf(refcnts, k) = stored[k]
                       /\ Cardinality(BucketsWith({k})) <= 1
    /\ refcnts.entries = Cardinality(BucketsWith(Keys))
    /\ refcnts.tombstones = Cardinality(BucketsWith({TombstoneKey}))
    /\ refcnts.size # 0 => BucketsWith({EmptyKey}) # {}
==============================================================================
