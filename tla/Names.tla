-------------------------------- MODULE Names ---------------------------------
(****************************************************************************)
(* What the runtime keeps by name or by address in its containers: the      *)
(* selectors (objc-sel.mm), the future classes, the unattached categories   *)
(* and the realized classes (objc-runtime-new.mm).                          *)
(*                                                                          *)
(* A selector is the address of a string: its text and its home, the image  *)
(* or the caller that brought it, and whether it is a copy on the heap. A   *)
(* critical section of selLock or runtimeLock is one step.                  *)
(****************************************************************************)
EXTENDS Tables

CONSTANTS Callers, NoName,
          SelNames,          \* texts of selectors
          Builtins,          \* those in the shared cache (preoptimized)
          OwnSelectors,      \* those that sel_init registers, in order
          SelImages,         \* images with selector references
          SelRefs,           \* per image: the texts it refers to, in order
          SelBundles,        \* the images that may be unloaded
          FutureNames, Classed, Real,  \* keys of the other tables: names, and classes
          SelrefCount, FutureCapacity, CategoryCapacity, RealizedCapacity,
          MaxCategories      \* bound: unattached categories of one class

ASSUME NamesAssumption ==
    /\ NoName \notin SelNames /\ NoKey \notin SelNames \cup FutureNames \cup Classed
    /\ NoValue \notin FutureNames /\ NoValue \notin Nat
    /\ {"libobjc", "shared cache"} \cap SelImages = {}
    /\ Builtins \subseteq SelNames /\ OwnSelectors \in Seq(SelNames)
    /\ SelRefs \in [SelImages -> Seq(SelNames)] /\ SelBundles \subseteq SelImages
    /\ TableHash \in [SelNames \cup FutureNames \cup Classed \cup Real -> Nat]
    /\ {SelrefCount, FutureCapacity, CategoryCapacity, RealizedCapacity, MaxCategories} \subseteq Nat

VARIABLES namedSelectors, selImages,    \* selImages: images that are mapped
          given,                        \* ghost: per text, the selectors handed out
          missed,                       \* per caller: the text it did not find
          future_named_class_map, copies, \* copies: keys strdup'ed and not freed, per name
          category_map,
          realized_class_hash,
          futures, categories, realized \* ghosts: what the three tables should hold

selectors == <<namedSelectors, selImages, given, missed>>
futureMap == <<future_named_class_map, copies, futures>>
attaching == <<category_map, categories>>
realizing == <<realized_class_hash, realized>>
names     == <<selectors, futureMap, attaching, realizing>>

------------------------------------------------------------------------------
(* Selectors                                                                *)

\* a table that is not there yet, NULL: one without buckets
NoTable == EmptyPairs(0)

Shared(n)  == [text |-> n, home |-> "shared cache", copy |-> FALSE]
Given(n, s) == given' = [given EXCEPT ![n] = @ \cup {s}]

\* sel_alloc
SelAlloc(n, home, copy) == [text |-> n, home |-> home, copy |-> copy]

\* mutant: no second look under the write lock
InsertedBlindly(t, n, home, copy) ==
    MapInsert(IF t = NoTable THEN NewMapTable(SelrefCount) ELSE t, n, SelAlloc(n, home, copy))

\* The second half of __sel_registerName, under the write lock: look again, then insert.
Inserted(t, n, home, copy) ==
    LET table == IF t = NoTable THEN NewMapTable(SelrefCount) ELSE t
    IN IF MapMember(table, n) THEN table ELSE MapInsert(table, n, SelAlloc(n, home, copy))

\* sel_registerNameNoLock, for one text after another
Registered(t, texts, home, copy) ==
    LET table[i \in 0 .. Len(texts)] ==
            IF i = 0 THEN t
            ELSE IF texts[i] \in Builtins THEN table[i - 1]
            ELSE Inserted(table[i - 1], texts[i], home, copy)
    IN table[Len(texts)]

Answer(t, n) == IF n \in Builtins THEN Shared(n) ELSE MapGet(t, n)

\* sel_registerName, sel_getUid: the shared cache, then the table under the read lock
RegisterName(c, n) ==
    /\ missed[c] = NoName
    /\ IF n \in Builtins \/ MapMember(namedSelectors, n)
       THEN Given(n, Answer(namedSelectors, n)) /\ UNCHANGED missed
       ELSE missed' = [missed EXCEPT ![c] = n] /\ UNCHANGED given
    /\ UNCHANGED <<namedSelectors, selImages>>

\* ... and the table under the write lock, if it was not there
InsertName(c) ==
    LET n == missed[c]  table == Inserted(namedSelectors, n, c, TRUE) IN
    /\ n # NoName
    /\ namedSelectors' = table /\ Given(n, MapGet(table, n))
    /\ missed' = [missed EXCEPT ![c] = NoName]
    /\ UNCHANGED selImages

\* _read_images fixes up the selector references of an image under the write lock, and
\* copies the texts of a bundle.
FixUpSelectors(i) ==
    LET table == Registered(namedSelectors, SelRefs[i], i, i \in SelBundles) IN
    /\ i \notin selImages
    /\ selImages' = selImages \cup {i} /\ namedSelectors' = table
    /\ given' = [n \in SelNames |-> IF n \in ToSet(SelRefs[i]) THEN given[n] \cup {Answer(table, n)}
                                                              ELSE given[n]]
    /\ UNCHANGED missed

\* external: dyld takes a bundle and its memory away
UnmapSelectors(i) ==
    /\ i \in selImages \cap SelBundles /\ selImages' = selImages \ {i}
    /\ UNCHANGED <<namedSelectors, given, missed>>

InitSelectors ==
    /\ namedSelectors = Registered(NoTable, OwnSelectors, "libobjc", FALSE)
    /\ selImages = {} /\ given = [n \in SelNames |-> {}]
    /\ missed = [c \in Callers |-> NoName]

NextSelectors ==
    \/ \E c \in Callers : InsertName(c) \/ \E n \in SelNames : RegisterName(c, n)
    \/ \E i \in SelImages : FixUpSelectors(i) \/ UnmapSelectors(i)

------------------------------------------------------------------------------
(* Future classes: a table with keys of its own that comes and goes         *)

FutureTable == IF future_named_class_map = NoTable THEN NewMapTable(FutureCapacity)
               ELSE future_named_class_map

\* _objc_allocateFutureClass, addFutureNamedClass and NXMapKeyCopyingInsert
AddFutureNamedClass(n) ==
    IF MapGet(FutureTable, n) # NoValue
    THEN future_named_class_map' = FutureTable /\ UNCHANGED <<copies, futures>>
    ELSE /\ future_named_class_map' = MapInsert(FutureTable, n, n)
         /\ copies' = [copies EXCEPT ![n] = @ + 1]
         /\ futures' = [futures EXCEPT ![n] = n]

\* popFutureNamedClass and NXMapKeyFreeingRemove
PopFutureNamedClass(n) ==
    /\ future_named_class_map # NoTable
    /\ LET t == future_named_class_map  rest == MapRemove(t, n) IN
       /\ MapMember(t, n) /\ copies' = [copies EXCEPT ![n] = @ - 1]
       /\ future_named_class_map' = IF rest.count = 0 THEN NoTable ELSE rest
    /\ futures' = [futures EXCEPT ![n] = NoValue]

InitFutures ==
    /\ future_named_class_map = NoTable
    /\ copies = [n \in FutureNames |-> 0] /\ futures = [n \in FutureNames |-> NoValue]

NextFutures == \E n \in FutureNames : AddFutureNamedClass(n) \/ PopFutureNamedClass(n)

------------------------------------------------------------------------------
(* Unattached categories: how many a class has stands for its list of them  *)

\* addUnattachedCategoryForClass: the longer list replaces the old one
AddUnattached(c) ==
    LET list == MapGet(category_map, c)  longer == IF list = NoValue THEN 1 ELSE list + 1 IN
    /\ longer <= MaxCategories
    /\ category_map' = MapInsert(category_map, c, longer)
    /\ categories' = [categories EXCEPT ![c] = IF @ = NoValue THEN 1 ELSE @ + 1]

\* removeUnattachedCategoryForClass: a list that is empty then stays
RemoveUnattached(c) ==
    LET list == MapGet(category_map, c) IN
    /\ list \notin {NoValue, 0}
    /\ category_map' = [category_map EXCEPT !.pairs[PairBucket(category_map, c)].value = list - 1]
    /\ categories' = [categories EXCEPT ![c] = @ - 1]

\* unattachedCategoriesForClass, removeAllUnattachedCategoriesForClass
TakeUnattached(c) ==
    /\ category_map' = MapRemove(category_map, c)
    /\ categories' = [categories EXCEPT ![c] = NoValue]

InitCategories ==
    category_map = NewMapTable(CategoryCapacity) /\ categories = [c \in Classed |-> NoValue]

NextCategories ==
    \E c \in Classed : AddUnattached(c) \/ RemoveUnattached(c) \/ TakeUnattached(c)

------------------------------------------------------------------------------
(* Realized classes; realized_metaclass_hash is its like                    *)

AddRealizedClass(c) ==
    /\ c \notin realized /\ realized' = realized \cup {c}
    /\ realized_class_hash' = HashInsert(realized_class_hash, c)

\* by detach_class, if the class is realized
RemoveRealizedClass(c) ==
    /\ c \in realized /\ realized' = realized \ {c}
    /\ realized_class_hash' = HashRemove(realized_class_hash, c)

InitRealized == realized_class_hash = NewHashTable(RealizedCapacity) /\ realized = {}
NextRealized == \E c \in Real : AddRealizedClass(c) \/ RemoveRealizedClass(c)

------------------------------------------------------------------------------
InitNames == InitSelectors /\ InitFutures /\ InitCategories /\ InitRealized

NextNames ==
    \/ NextSelectors /\ UNCHANGED <<futureMap, attaching, realizing>>
    \/ NextFutures /\ UNCHANGED <<selectors, attaching, realizing>>
    \/ NextCategories /\ UNCHANGED <<selectors, futureMap, realizing>>
    \/ NextRealized /\ UNCHANGED <<selectors, futureMap, attaching>>

SpecNames == InitNames /\ [][NextNames]_names

------------------------------------------------------------------------------
(* Properties                                                               *)

\* A selector is compared by address, so there is one for each text: whoever raced to
\* register it, every selector ever handed out is what a lookup still answers, and its
\* string is still there though the bundle that first used it is unloaded
\* (__sel_registerName, _read_images; sel_isMapped of it stays true).
OneSelectorPerName ==
    \A n \in SelNames : \A s \in given[n] :
        /\ Answer(namedSelectors, n) = s
        /\ s.home \in SelImages /\ ~s.copy => s.home \in selImages

\* Every key that should be there is found, with its last value, and no other is; the
\* pairs are counted, and some bucket is free, so that a search ends.
MapHolds(t, wanted) ==
    /\ \A k \in DOMAIN wanted : MapGet(t, k) = wanted[k]
    /\ t.count = Cardinality({k \in DOMAIN wanted : wanted[k] # NoValue}) /\ ~Crowded(t)
    /\ Cardinality({i \in DOMAIN t.pairs : t.pairs[i].key # NoKey}) = t.count

\* The tables of objc-runtime-new.mm hold what was put into them and not taken out,
\* after every growth and every removal from the middle of a chain, also of one that
\* wraps round (NXMapInsert, NXMapRemove, NXHashInsert, NXHashRemove): the future
\* classes, whose keys are freed once, with their pair, and whose table goes when it is
\* empty; the categories that wait; and the realized classes, which a walk over the
\* table meets once each.
TablesHold ==
    /\ IF future_named_class_map = NoTable THEN \A n \in FutureNames : futures[n] = NoValue
       ELSE MapHolds(future_named_class_map, futures)
    /\ \A n \in FutureNames : copies[n] = IF futures[n] # NoValue THEN 1 ELSE 0
    /\ MapHolds(category_map, categories)
    /\ LET t == realized_class_hash  walk == Iterated(t) IN
       /\ ToSet(walk) = realized /\ Len(walk) = Cardinality(realized) /\ t.count = Len(walk)
       /\ \A c \in Real : HashMember(t, c) <=> c \in realized
==============================================================================
