-------------------------------- MODULE Tables -------------------------------
(****************************************************************************)
(* The runtime's own containers: NXMapTable (maptable.mm), a hash table     *)
(* with linear probing whose removal inserts the rest of the chain again,   *)
(* and NXHashTable (hashtable2.mm), whose buckets are arrays.               *)
(*                                                                          *)
(* A table is a record and an operation an operator from tables to tables:  *)
(* the runtime calls them under a lock of its own. Keys that isEqual are    *)
(* the same key.                                                            *)
(****************************************************************************)
EXTENDS Integers, FiniteSets, SequencesExt

CONSTANTS TableHash,         \* the hash of a key or element
          NoKey, NoValue     \* NX_MAPNOTAKEY, NULL

Log2(n) == Max({e \in 0 .. 16 : 2 ^ e <= n} \cup {0})
Size(f) == Cardinality(DOMAIN f)

------------------------------------------------------------------------------
(* NXMapTable                                                               *)

NoPair        == [key |-> NoKey, value |-> NoValue]
EmptyPairs(n) == [pairs |-> [i \in 0 .. n - 1 |-> NoPair], count |-> 0]

NewMapTable(capacity) == EmptyPairs(2 ^ (Log2(capacity) + 1))

\* The d-th bucket that a search for k looks at.
BucketAt(t, k, d) == (TableHash[k] + d) % Size(t.pairs)

\* Where a search for k would stop: at k, or at a free bucket.
StopsFor(t, k) == {d \in 0 .. Size(t.pairs) - 1 : t.pairs[BucketAt(t, k, d)].key \in {k, NoKey}}

PairBucket(t, k) == BucketAt(t, k, Min(StopsFor(t, k)))
MapMember(t, k)  == StopsFor(t, k) # {} /\ t.pairs[PairBucket(t, k)].key = k
MapGet(t, k)     == IF MapMember(t, k) THEN t.pairs[PairBucket(t, k)].value ELSE NoValue

Put(t, k, v) ==
    [t EXCEPT !.pairs[PairBucket(t, k)] = [key |-> k, value |-> v],
              !.count = IF MapMember(t, k) THEN @ ELSE @ + 1]

\* _NXMapRehash: twice the buckets, filled in the order of the old ones
MapRehash(t) ==
    LET n == Size(t.pairs)
        moved[i \in 0 .. n] ==
            IF i = 0 THEN EmptyPairs(2 * n)
            ELSE IF t.pairs[i - 1].key = NoKey THEN moved[i - 1]
            ELSE Put(moved[i - 1], t.pairs[i - 1].key, t.pairs[i - 1].value)
    IN moved[n]

Crowded(t) == t.count * 4 > Size(t.pairs) * 3

MapInsert(t, k, v) ==
    LET room == IF StopsFor(t, k) = {} THEN MapRehash(t) ELSE t
        full == Put(room, k, v)
    IN IF ~MapMember(t, k) /\ Crowded(full) THEN MapRehash(full) ELSE full

\* mutant: the rest of the chain stays where it is
ChainOfOne(t, k) == 1

\* How many buckets are taken in a row, from the one k hashes to.
ChainLength(t, k) ==
    LET n == Size(t.pairs) IN
    Min({d \in 0 .. n - 1 : t.pairs[BucketAt(t, k, d)].key = NoKey} \cup {n})

\* NXMapRemove: a chain that holds k is cleared, and all but k inserted again, last first
MapRemove(t, k) ==
    LET length  == ChainLength(t, k)
        chain   == {BucketAt(t, k, d) : d \in 0 .. length - 1}
        cleared == [pairs |-> [b \in DOMAIN t.pairs |-> IF b \in chain THEN NoPair ELSE t.pairs[b]],
                    count |-> t.count - length]
        again[i \in 0 .. length] ==
            IF i = 0 THEN cleared
            ELSE LET pair == t.pairs[BucketAt(t, k, length - i)]
                 IN IF pair.key = k THEN again[i - 1]
                    ELSE MapInsert(again[i - 1], pair.key, pair.value)
    IN IF \A b \in chain : t.pairs[b].key # k THEN t ELSE again[length]

------------------------------------------------------------------------------
(* NXHashTable. The processor can divide (SUPPORT_MOD): sizes are 2^n - 1.  *)

EmptyBuckets(n) == [buckets |-> [i \in 0 .. n - 1 |-> <<>>], count |-> 0]

NewHashTable(capacity) == EmptyBuckets(2 ^ (Log2(capacity) + 1) - 1)

HashBucket(t, x) == TableHash[x] % Size(t.buckets)
HashMember(t, x) == x \in ToSet(t.buckets[HashBucket(t, x)])

\* what NXNextHashState gives: the last bucket first, and in it the last element
Iterated(t) ==
    LET n == Size(t.buckets)
        walk[i \in 0 .. n] == IF i = 0 THEN <<>> ELSE walk[i - 1] \o Reverse(t.buckets[n - i])
    IN walk[n]

\* a new element comes first in its bucket
Added(t, x) == [t EXCEPT !.buckets[HashBucket(t, x)] = <<x>> \o @, !.count = @ + 1]

\* _NXHashRehash
HashRehash(t) ==
    LET walk == Iterated(t)
        moved[i \in 0 .. Len(walk)] ==
            IF i = 0 THEN EmptyBuckets(2 * Size(t.buckets) + 1) ELSE Added(moved[i - 1], walk[i])
    IN moved[Len(walk)]

\* NXHashInsert: a bucket that was empty never makes the table grow
HashInsert(t, x) ==
    IF HashMember(t, x) THEN t
    ELSE IF t.buckets[HashBucket(t, x)] # <<>> /\ t.count + 1 > Size(t.buckets)
         THEN HashRehash(Added(t, x))
         ELSE Added(t, x)

HashRemove(t, x) ==
    IF ~HashMember(t, x) THEN t
    ELSE [t EXCEPT !.buckets[HashBucket(t, x)] = RemoveAt(@, CHOOSE j \in DOMAIN @ : @[j] = x), !.count = @ - 1]
==============================================================================
