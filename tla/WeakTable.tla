------------------------------ MODULE WeakTable -------------------------------
(****************************************************************************)
(* weak_table_t and weak_entry_t (objc-weak.h, objc-weak.mm): for each      *)
(* object with weak references, the addresses of the variables. Both levels *)
(* are open hash tables with linear probing, in which nothing marks what    *)
(* was removed: a search goes on for the largest displacement any insertion *)
(* ever needed. A few referrers are kept in the entry itself.               *)
(*                                                                          *)
(* The callers hold the side table's lock: one step for each operation.     *)
(****************************************************************************)
EXTENDS Integers, FiniteSets, FiniteSetsExt

CONSTANTS Referents, NoReferent,    \* the objects, and nil
          Referrers, NoReferrer,    \* the variables, and nil
          Watchers,                 \* bound: the variables that may refer to an object
          HashReferent, HashReferrer,
          InlineCount,              \* WEAK_INLINE_COUNT, 4
          FirstSize,                \* 64
          CompactSize               \* 1024

ASSUME WeakTableAssumption ==
    /\ NoReferent \notin Referents /\ NoReferrer \notin Referrers
    /\ Watchers \in [Referents -> SUBSET Referrers]
    /\ HashReferent \in [Referents -> Nat] /\ HashReferrer \in [Referrers -> Nat]
    /\ {InlineCount, FirstSize, CompactSize} \subseteq {2 ^ i : i \in 1 .. 20}

VARIABLES weak_table,
          watching     \* ghost: what each variable refers to

weak == <<weak_table, watching>>

Size(slots) == Cardinality(DOMAIN slots)
Slots(n, x) == [i \in 0 .. n - 1 |-> x]

\* How far the first free slot is from where the hash points.
Displacement(slots, free, hash) ==
    LET n == Size(slots) IN Min({d \in 0 .. n - 1 : slots[(hash + d) % n] = free})

\* mutant: a displacement larger than any before is not noted
ReachedNever(reach, d) == reach

\* max_hash_displacement
Reached(reach, d) == IF d > reach THEN d ELSE reach

Within(slots, i, hash, reach) == (i - hash) % Size(slots) <= reach

------------------------------------------------------------------------------
(* The referrers of one entry                                               *)

NewEntry(o, r) == [referent |-> o, out_of_line |-> FALSE, num |-> 0, reach |-> 0,
                   refs |-> [Slots(InlineCount, NoReferrer) EXCEPT ![0] = r]]

HashIn(e, r) ==
    LET d == Displacement(e.refs, NoReferrer, HashReferrer[r])
    IN [e EXCEPT !.refs[(HashReferrer[r] + d) % Size(e.refs)] = r,
                 !.num = @ + 1, !.reach = Reached(@, d)]

\* The referrers in the slots refs, inserted into e in the order of the slots.
Rehashed(refs, e) ==
    LET moved[i \in 0 .. Size(refs)] ==
            IF i = 0 THEN e
            ELSE IF refs[i - 1] = NoReferrer THEN moved[i - 1]
            ELSE HashIn(moved[i - 1], refs[i - 1])
    IN moved[Size(refs)]

GrowRefsAndInsert(e, r) ==
    HashIn(Rehashed(e.refs, [e EXCEPT !.refs = Slots(2 * Size(e.refs), NoReferrer),
                                      !.num = 0, !.reach = 0]), r)

\* The inline referrers that do not suffice become a full, unhashed table, that
\* growing puts right.
OutOfLine(e) == IF e.out_of_line THEN e
                ELSE [e EXCEPT !.out_of_line = TRUE, !.num = InlineCount, !.reach = 0]

AppendReferrer(e, r) ==
    LET nils == {i \in DOMAIN e.refs : e.refs[i] = NoReferrer}
        out  == OutOfLine(e)
    IN IF ~e.out_of_line /\ nils # {} THEN [e EXCEPT !.refs[Min(nils)] = r]
       ELSE IF out.num >= (3 * Size(e.refs)) \div 4 THEN GrowRefsAndInsert(out, r)
       ELSE HashIn(out, r)

\* Where remove_referrer finds r, if it does.
SlotsOf(e, r) ==
    {i \in DOMAIN e.refs : e.refs[i] = r /\ (e.out_of_line =>
                                                Within(e.refs, i, HashReferrer[r], e.reach))}

RemoveReferrer(e, r) ==
    IF SlotsOf(e, r) = {} THEN e
    ELSE [e EXCEPT !.refs[Min(SlotsOf(e, r))] = NoReferrer,
                   !.num = IF e.out_of_line THEN @ - 1 ELSE @]

------------------------------------------------------------------------------
(* The entries of the table                                                 *)

NoEntry == [referent |-> NoReferent]

WeakEntryInsert(t, e) ==
    LET h == HashReferent[e.referent]
        d == Displacement(t.entries, NoEntry, h)
    IN [entries |-> [t.entries EXCEPT ![(h + d) % Size(t.entries)] = e],
        num |-> t.num + 1, reach |-> Reached(t.reach, d)]

NoEntries(n) == [entries |-> Slots(n, NoEntry), num |-> 0, reach |-> 0]

WeakResize(t, n) ==
    LET old == t.entries
        moved[i \in 0 .. Size(old)] ==
            IF i = 0 THEN NoEntries(n)
            ELSE IF old[i - 1] = NoEntry THEN moved[i - 1]
            ELSE WeakEntryInsert(moved[i - 1], old[i - 1])
    IN moved[Size(old)]

WeakGrowMaybe(t) ==
    LET n == Size(t.entries)
    IN IF t.num >= (n * 3) \div 4 THEN WeakResize(t, IF n = 0 THEN FirstSize ELSE 2 * n) ELSE t

WeakCompactMaybe(t) ==
    LET n == Size(t.entries)
    IN IF n >= CompactSize /\ n \div 16 >= t.num THEN WeakResize(t, n \div 8) ELSE t

WeakEntryRemove(t, i) ==
    WeakCompactMaybe([t EXCEPT !.entries[i] = NoEntry, !.num = @ - 1])

\* weak_entry_for_referent: the index of the entry, in a set that is empty for nil
EntryForReferent(t, o) ==
    {i \in DOMAIN t.entries : /\ t.entries[i].referent = o
                              /\ Within(t.entries, i, HashReferent[o], t.reach)}

------------------------------------------------------------------------------
(* weak_register_no_lock, weak_unregister_no_lock, weak_clear_no_lock       *)

RegisterReferrer(o, r) ==
    /\ watching[r] = NoReferent /\ r \in Watchers[o]
    /\ watching' = [watching EXCEPT ![r] = o]
    /\ \/ \E i \in EntryForReferent(weak_table, o) :
             weak_table' = [weak_table EXCEPT !.entries[i] = AppendReferrer(@, r)]
       \/ /\ EntryForReferent(weak_table, o) = {}
          /\ weak_table' = WeakEntryInsert(WeakGrowMaybe(weak_table), NewEntry(o, r))

\* The test looks at the inline referrers even of an entry that has none: there
\* they are the pointer to the others, so that such an entry is never empty.
IsEmpty(e) == ~e.out_of_line /\ \A i \in DOMAIN e.refs : e.refs[i] = NoReferrer

UnregisterReferrer(o, r) ==
    /\ watching[r] = o
    /\ watching' = [watching EXCEPT ![r] = NoReferent]
    /\ weak_table' =
         IF EntryForReferent(weak_table, o) = {} THEN weak_table
         ELSE LET i == Min(EntryForReferent(weak_table, o))
                  e == RemoveReferrer(weak_table.entries[i], r)
              IN IF IsEmpty(e) THEN WeakEntryRemove(weak_table, i)
                 ELSE [weak_table EXCEPT !.entries[i] = e]

ClearReferent(o) ==
    \E i \in EntryForReferent(weak_table, o) :
        /\ watching' = [r \in Referrers |->
                          IF \E j \in DOMAIN weak_table.entries[i].refs :
                                weak_table.entries[i].refs[j] = r /\ watching[r] = o
                          THEN NoReferent ELSE watching[r]]
        /\ weak_table' = WeakEntryRemove(weak_table, i)

InitWeakTable ==
    /\ weak_table = NoEntries(0)
    /\ watching = [r \in Referrers |-> NoReferent]

NextWeakTable ==
    \E o \in Referents :
        ClearReferent(o) \/ \E r \in Referrers : RegisterReferrer(o, r) \/ UnregisterReferrer(o, r)

SpecWeakTable == InitWeakTable /\ [][NextWeakTable]_weak

------------------------------------------------------------------------------
(* Properties                                                               *)

Held(e) == {i \in DOMAIN e.refs : e.refs[i] # NoReferrer}

\* After any registrations, removals, clearings, growth and compaction the
\* table finds, within the displacement it noted, the entry of every object
\* that has weak references, once, and in it exactly its variables, each of
\* which can still be unregistered; the counts that decide when to grow are
\* exact, and only an entry that went out of line is kept without referrers
\* (weak_entry_for_referent, append_referrer, remove_referrer, weak_resize).
WeakTableAgrees ==
    LET t    == weak_table
        used == {i \in DOMAIN t.entries : t.entries[i] # NoEntry}
    IN /\ t.num = Cardinality(used)
       /\ \A r \in Referrers :
            watching[r] # NoReferent => EntryForReferent(t, watching[r]) # {}
       /\ \A i \in used :
            LET e == t.entries[i]
            IN /\ EntryForReferent(t, e.referent) = {i}
               /\ {e.refs[j] : j \in Held(e)} = {r \in Referrers : watching[r] = e.referent}
               /\ \A j \in Held(e) : SlotsOf(e, e.refs[j]) = {j}
               /\ e.out_of_line => e.num = Cardinality(Held(e))
               /\ Held(e) = {} => e.out_of_line
==============================================================================
