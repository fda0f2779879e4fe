------------------------------- MODULE Classes -------------------------------
(****************************************************************************)
(* The tables of objc-runtime-new.mm that runtimeLock guards: which classes *)
(* are read, realized, initialized; their method lists and categories that  *)
(* wait for them; the cached answers "this class uses the default retain    *)
(* and release" and "the default alloc"; the layout of their instances.     *)
(*                                                                          *)
(* All of it is read and written under one lock, so the tables are a record *)
(* rt and one critical section is an operator from rt to rt. Loader makes   *)
(* them steps.                                                              *)
(*                                                                          *)
(* A class and its metaclass are made, realized and freed together: they    *)
(* are the two sides of one class here, the instance and the class methods. *)
(****************************************************************************)
EXTENDS Integers, FiniteSets, SequencesExt

CONSTANTS ImageClasses,    \* classes compiled into images
          RuntimeClasses,  \* classes the program makes with objc_allocateClassPair
          Categories,
          NoClass,         \* nil
          NSObject,        \* the class whose retain, release and alloc are the default
          Roots,           \* RO_ROOT
          OSObject,        \* the classes named "OS_object"
          Superclass,      \* per image class: the pointer dyld binds, NoClass if it cannot
          Target,          \* per category: its class
          Defines,         \* per class or category: the methods on either side
          HasLoad,         \* the classes and categories with a +load
          Compiled         \* per image class: the layout the compiler chose

Classes == ImageClasses \cup RuntimeClasses
Sides   == {"inst", "meta"}
\* A method that makes retain and release, or alloc and allocWithZone:, custom.
FastMethod == [inst |-> "retain", meta |-> "alloc"]

\* Ivars lie behind one another from the start on, aligned, within the size.
Sound(layout) ==
    /\ layout.start <= layout.size
    /\ \A n \in DOMAIN layout.ivars :
         LET v == layout.ivars[n] IN
         /\ layout.start <= v.offset /\ v.offset % v.align = 0 /\ v.offset + v.size <= layout.size
         /\ \A m \in 1 .. n - 1 : layout.ivars[m].offset + layout.ivars[m].size <= v.offset

Ivar    == [offset : Nat, size : Nat, align : Nat \ {0}]
Layouts == [start : Nat, size : Nat, ivars : Seq(Ivar)]

\* A word, and what the compiler aligns ivars to.
Alignments == {8} \cup UNION {{v.align : v \in ToSet(Compiled[c].ivars)} : c \in ImageClasses}

ASSUME ClassesAssumption ==
    /\ IsFiniteSet(Classes) /\ NoClass \notin Classes \cup Categories
    /\ ImageClasses \cap RuntimeClasses = {} /\ Classes \cap Categories = {}
    /\ "runtime" \notin Classes \cup Categories
    /\ NSObject \in Roots /\ Roots \subseteq ImageClasses
    /\ Superclass \in [ImageClasses -> ImageClasses \cup {NoClass}]
    /\ \A c \in Roots : Superclass[c] = NoClass
    /\ \E depth \in [ImageClasses -> 0 .. Cardinality(Classes)] :
         \A c \in ImageClasses : Superclass[c] # NoClass => depth[Superclass[c]] < depth[c]
    /\ Target \in [Categories -> ImageClasses] /\ HasLoad \subseteq ImageClasses \cup Categories
    /\ Compiled \in [ImageClasses -> Layouts] /\ \A c \in ImageClasses : Sound(Compiled[c])
    /\ \A a, b \in Alignments : a <= b => b % a = 0

NoLayout == [start |-> 0, size |-> 0, ivars |-> <<>>]
NoLists  == [c \in Classes |-> [s \in Sides |-> <<>>]]

\* The members of a sequence that are in a set.
Only(seq, set) ==
    FlattenSeq([n \in DOMAIN seq |-> IF seq[n] \in set THEN <<seq[n]>> ELSE <<>>])

\* No image has been read.
NoTables(debugIvars, rootSize) ==
    [ super        |-> [c \in Classes |-> IF c \in ImageClasses THEN Superclass[c] ELSE NoClass],
      named        |-> {},   future |-> {},  ignored |-> {},  realized |-> {},
      constructing |-> {},   loaded |-> {},  rawIsa  |-> {},  initialized |-> {},
      subclasses   |-> [c \in Classes |-> {}],
      lists        |-> NoLists,
      unattached   |-> NoLists,
      default      |-> [s \in Sides |-> {}],
      swizzled     |-> [s \in Sides |-> FALSE],
      replaced     |-> [s \in Sides |-> FALSE],
      debugIvars   |-> debugIvars,
      layout       |-> [c \in Classes |-> CASE c = NSObject -> [Compiled[c] EXCEPT !.size = rootSize]
                                            [] c \in RuntimeClasses -> NoLayout
                                            [] OTHER -> Compiled[c]] ]

\* The classes from c up to its root.
Lineage(rt, c) ==
    LET above[d \in Classes \cup {NoClass}] ==
            IF d = NoClass THEN {} ELSE {d} \cup above[rt.super[d]]
    IN above[c]

\* foreach_realized_class_and_subclass
Subtree(rt, c) ==
    LET within[n \in 0 .. Cardinality(Classes)] ==
            IF n = 0 THEN {c}
            ELSE within[n - 1] \cup UNION {rt.subclasses[d] : d \in within[n - 1]}
    IN within[Cardinality(Classes)]

------------------------------------------------------------------------------
(* Flags that subclasses inherit                                            *)

\* setHasCustomRR and setHasCustomAWZ
SetHasCustom(rt, c, s) ==
    IF c \notin rt.default[s] THEN rt
    ELSE [rt EXCEPT !.default[s] = @ \ {d \in Subtree(rt, c) : d = c \/ d \in rt.initialized}]

SetRequiresRawIsa(rt, cs) ==
    [rt EXCEPT !.rawIsa = @ \cup UNION {Subtree(rt, c) : c \in cs \ rt.rawIsa}]

\* mutant: a subclass starts without its superclass's flags
AddSubclassPlain(rt, super, c) ==
    IF super = NoClass THEN rt ELSE [rt EXCEPT !.subclasses[super] = @ \cup {c}]

InheritCustom(rt, super, c, s) ==
    IF super \in rt.default[s] THEN rt ELSE SetHasCustom(rt, c, s)

AddSubclass(rt, super, c) ==
    LET linked == [rt EXCEPT !.subclasses[super] = @ \cup {c}]
        custom == InheritCustom(InheritCustom(linked, super, c, "inst"), super, c, "meta")
    IN IF super = NoClass THEN rt
       ELSE IF super \in custom.rawIsa THEN SetRequiresRawIsa(custom, {c}) ELSE custom

------------------------------------------------------------------------------
(* Method lists                                                             *)

HasFast(list, s) == FastMethod[s] \in list.sels

\* The list a class or a category brings to a side, if it brings one.
ListOf(x, s) == IF Defines[x][s] = {} THEN <<>> ELSE << [owner |-> x, sels |-> Defines[x][s]] >>

\* prepareMethodLists and attachLists
AttachLists(rt, c, s, lists) ==
    LET attached == [rt EXCEPT !.lists[c][s] = lists \o @]
    IN IF \E l \in ToSet(lists) : HasFast(l, s) THEN SetHasCustom(attached, c, s) ELSE attached

\* mutant: the categories are attached in the order they were found
AttachOldestFirst(rt, c, s, cats) ==
    AttachLists(rt, c, s, FlattenSeq([n \in DOMAIN cats |-> ListOf(cats[n], s)]))

\* attachCategories: the newest category goes first.
AttachCategories(rt, c, s, cats) ==
    AttachLists(rt, c, s, FlattenSeq([n \in DOMAIN cats |-> ListOf(Reverse(cats)[n], s)]))

\* remethodizeClass: what waits is attached, and waits no longer.
Remethodize(rt, c, s) ==
    AttachCategories([rt EXCEPT !.unattached[c][s] = <<>>], c, s, rt.unattached[c][s])

\* class_addMethod: nothing if the class itself has the method.
AddMethod(rt, c, s, sel) ==
    IF \E l \in ToSet(rt.lists[c][s]) : sel \in l.sels THEN rt
    ELSE AttachLists(rt, c, s, << [owner |-> "runtime", sels |-> {sel}] >>)

\* methodizeClass
Methodize(rt, c, s) ==
    LET base == AttachLists(rt, c, s, ListOf(c, s))
        root == IF c \in Roots /\ s = "meta" THEN AddMethod(base, c, s, "initialize") ELSE base
    IN Remethodize(root, c, s)

\* addUnattachedCategoryForClass, and remethodizeClass if the class is there.
ReadCategory(rt, k, s) ==
    LET waiting == [rt EXCEPT !.unattached[Target[k]][s] = Append(@, k)]
    IN IF Defines[k][s] = {} THEN rt
       ELSE IF Target[k] \in rt.realized THEN Remethodize(waiting, Target[k], s)
       ELSE waiting

ReadCategories(rt, cats) ==
    LET after[n \in 0 .. Len(cats)] ==
            IF n = 0 THEN rt
            ELSE IF Target[cats[n]] \in rt.ignored THEN after[n - 1]
            ELSE ReadCategory(ReadCategory(after[n - 1], cats[n], "inst"), cats[n], "meta")
    IN after[Len(cats)]

------------------------------------------------------------------------------
(* The layout of instances                                                  *)

Alignment(ivars) == Max({1} \cup {ivars[i].align : i \in DOMAIN ivars})
RoundUp(n, a) == ((n + a - 1) \div a) * a

Slide(layout, delta) ==
    [ start |-> layout.start + delta,
      size  |-> layout.size + delta,
      ivars |-> [i \in DOMAIN layout.ivars |-> [layout.ivars[i] EXCEPT !.offset = @ + delta]] ]

\* mutant: the ivars slide by as much as the superclass grew
MoveIvarsUnaligned(layout, superSize) == Slide(layout, superSize - layout.start)

\* moveIvars
MoveIvars(layout, superSize) ==
    Slide(layout, RoundUp(superSize - layout.start, Alignment(layout.ivars)))

\* DebugNonFragileIvars: the class is pushed down so that it must slide up.
ForceDown(layout) ==
    Slide(layout, (layout.start % Max({8, Alignment(layout.ivars)})) - layout.start)

\* reconcileInstanceVariables
Reconcile(rt, layout, superSize) ==
    LET compiled == IF rt.debugIvars THEN ForceDown(layout) ELSE layout
    IN IF compiled.start >= superSize THEN compiled ELSE MoveIvars(compiled, superSize)

------------------------------------------------------------------------------
(* Realizing and initializing classes                                       *)

\* mutant: the class is laid out before its superclass is
RealizeAgainstCompiled(rt, c) ==
    LET super == rt.super[c]
        laid  == [rt EXCEPT !.realized = @ \cup {c},
                            !.layout[c] = IF super = NoClass THEN @
                                          ELSE Reconcile(rt, @, Compiled[super].size)]
    IN Methodize(Methodize(AddSubclass(laid, super, c), c, "meta"), c, "inst")

\* The body of realizeClass, its superclass being realized.
RealizeOne(rt, c) ==
    LET super == rt.super[c]
        laid  == [rt EXCEPT !.realized = @ \cup {c},
                            !.layout[c] = IF super = NoClass THEN @
                                          ELSE Reconcile(rt, @, rt.layout[super].size)]
        raw   == IF c \in OSObject THEN SetRequiresRawIsa(laid, {c}) ELSE laid
    IN Methodize(Methodize(AddSubclass(raw, super, c), c, "meta"), c, "inst")

\* realizeClass: superclasses first. A class the program has made is realized.
Realize(rt, c) ==
    LET after[d \in ImageClasses \cup rt.realized \cup {NoClass}] ==
            IF d \in rt.realized \cup {NoClass} THEN rt ELSE RealizeOne(after[rt.super[d]], d)
    IN after[c]

\* Those of a list that are in a set, in order
RealizeAll(rt, classes, set) ==
    LET after[n \in 0 .. Len(classes)] ==
            IF n = 0 THEN rt
            ELSE IF classes[n] \in set THEN Realize(after[n - 1], classes[n]) ELSE after[n - 1]
    IN after[Len(classes)]

\* The lists that are not the class's own: endCategoryMethodLists.
CategoryLists(rt, c, s) ==
    LET lists == rt.lists[c][s]
    IN IF lists = <<>> \/ Defines[c][s] = {} THEN lists ELSE Front(lists)

\* mutant: NSObject's own methods are looked at, its categories' are not
IsCustomNoCategories(rt, c, s) ==
    \/ rt.swizzled[s]
    \/ /\ c # NSObject
       /\ \/ rt.super[c] = NoClass
          \/ rt.super[c] \notin rt.default[s]
          \/ \E l \in ToSet(rt.lists[c][s]) : HasFast(l, s)

\* What objc_class::setInitialized finds: the superclass's answer is final.
IsCustom(rt, c, s) ==
    \/ rt.swizzled[s]
    \/ IF c = NSObject THEN \E l \in ToSet(CategoryLists(rt, c, s)) : HasFast(l, s)
       ELSE \/ rt.super[c] = NoClass
            \/ rt.super[c] \notin rt.default[s]
            \/ \E l \in ToSet(rt.lists[c][s]) : HasFast(l, s)

SetInitialized(rt, c) ==
    [rt EXCEPT !.initialized = @ \cup {c},
               !.default = [s \in Sides |-> IF IsCustom(rt, c, s) THEN @[s] ELSE @[s] \cup {c}]]

\* updateCustomRR_AWZ, for a method that NSObject's own lists hold.
UpdateCustom(rt, s) ==
    IF rt.swizzled[s] \/ (NSObject \in rt.initialized /\ NSObject \notin rt.default[s]) THEN rt
    ELSE IF NSObject \in rt.initialized THEN SetHasCustom(rt, NSObject, s)
    ELSE [rt EXCEPT !.swizzled[s] = TRUE]

\* method_setImplementation and method_exchangeImplementations of NSObject's method
SetImplementation(rt, s) == UpdateCustom([rt EXCEPT !.replaced[s] = TRUE], s)

------------------------------------------------------------------------------
(* Reading and unloading images                                             *)

\* missingWeakSuperclass
MissingWeakSuperclass(rt, c) ==
    \E d \in Lineage(rt, c) : d \in rt.ignored \/ (rt.super[d] = NoClass /\ d \notin Roots)

\* readClass, for the classes of a list: in whichever order they come, a class is
\* ignored with the superclass it misses.
ReadClasses(rt, classes) ==
    LET missing == {c \in classes : MissingWeakSuperclass(rt, c)}
    IN [rt EXCEPT !.ignored = @ \cup missing,
                  !.super = [c \in Classes |-> IF c \in missing THEN NoClass ELSE @[c]],
                  !.named = @ \cup (classes \ missing)]

\* _read_images: classes, then the non-lazy ones, then the future classes that have
\* become real (their objects were made with a raw isa), then categories.
ReadImages(rt, classes, cats) ==
    LET read     == ReadClasses(rt, ToSet(classes))
        futures  == (rt.future \cap ToSet(classes)) \ read.ignored
        eager    == RealizeAll(read, classes, HasLoad \ read.ignored)
        resolved == SetRequiresRawIsa(RealizeAll(eager, classes, futures), futures)
        attached == ReadCategories([resolved EXCEPT !.future = @ \ futures], cats)
    IN IF rt.debugIvars THEN RealizeAll(attached, SetToSeq(attached.named), attached.named)
       ELSE attached

\* _unload_image takes categories off the list of the class, not of the metaclass.
RemoveUnattached(rt, cats) ==
    [rt EXCEPT !.unattached =
        [c \in Classes |-> IF c \in rt.ignored THEN @[c]
                           ELSE [s \in Sides |-> IF s = "meta" THEN @[c][s]
                                                ELSE Only(@[c][s], Categories \ cats)]]]

\* detach_class and free_class
Free(rt, cs) ==
    [rt EXCEPT !.subclasses = [c \in Classes |-> @[c] \ cs],
               !.named = @ \ cs,        !.realized = @ \ cs,
               !.constructing = @ \ cs, !.loaded = @ \ cs,
               !.rawIsa = @ \ cs,       !.initialized = @ \ cs,
               !.lists = [c \in Classes |-> IF c \in cs THEN NoLists[c] ELSE @[c]],
               !.unattached = [c \in Classes |-> IF c \in cs THEN NoLists[c] ELSE @[c]],
               !.default = [s \in Sides |-> @[s] \ cs]]

------------------------------------------------------------------------------
(* Classes made by the program                                              *)

\* objc_allocateClassPair: a realized class that cannot be found by name yet; a root has
\* the isa and no more.
AllocateClassPair(rt, c, super) ==
    LET start == IF super = NoClass THEN 0 ELSE rt.layout[super].size
        size  == IF super = NoClass THEN 8 ELSE start
        made  == [rt EXCEPT !.realized = @ \cup {c}, !.constructing = @ \cup {c},
                            !.super[c] = super,
                            !.layout[c] = [start |-> start, size |-> size, ivars |-> <<>>]]
    IN AddSubclass(made, super, c)

\* mutant: the new ivar goes right after the others
AddIvarPacked(rt, c, size, align) ==
    LET layout == rt.layout[c]
    IN [rt EXCEPT !.layout[c] = [@ EXCEPT !.size = layout.size + size,
            !.ivars = Append(@, [offset |-> layout.size, size |-> size, align |-> align])]]

\* class_addIvar
WithIvar(layout, size, align) ==
    LET offset == RoundUp(layout.size, align)
    IN [layout EXCEPT !.size = offset + size,
                      !.ivars = Append(@, [offset |-> offset, size |-> size, align |-> align])]

AddIvar(rt, c, size, align) == [rt EXCEPT !.layout[c] = WithIvar(@, size, align)]

\* objc_registerClassPair
RegisterClassPair(rt, c) ==
    [rt EXCEPT !.constructing = @ \ {c}, !.named = @ \cup {c}]
==============================================================================
