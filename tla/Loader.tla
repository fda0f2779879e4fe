------------------------------- MODULE Loader --------------------------------
(****************************************************************************)
(* Images come and go: map_2_images reads their classes and categories,     *)
(* load_images schedules their +load methods and runs them                  *)
(* (objc-loadmethod.mm), unmap_image takes a bundle away. Meanwhile any     *)
(* thread may realize classes by looking them up, initialize them by        *)
(* sending to them, change their methods, and make classes of its own.      *)
(*                                                                          *)
(* A critical section of runtimeLock is one step. loadMethodLock is held    *)
(* from a load_images to the end of its call_load_methods and is recursive: *)
(* while a +load runs, the program may map and load more images (a dlopen   *)
(* in the +load), and the nested call only schedules.                       *)
(*                                                                          *)
(* dyld is outside src: it maps an image after the images it depends on,    *)
(* calls load_images for it after it did for those, and unmaps a bundle     *)
(* that nobody uses.                                                        *)
(****************************************************************************)
EXTENDS Classes

CONSTANTS Images,
          ImageOrder,    \* the images, each after those it depends on
          ClassList,     \* per image: its classes, in the order of __objc_classlist
          CategoryList,  \* per image: its categories, in order
          Bundles,       \* the images that may be unloaded (MH_BUNDLE)
          Futures,       \* classes that are asked for with objc_getFutureClass
          DebugIvars,    \* the values of DebugNonFragileIvars
          RootSizes,     \* sizes NSObject may have, by its release
          Ivars,         \* <<size, align>> of the ivars that are added at run time
          MaxChanges,    \* bound: methods changed and classes made at run time
          MaxIvars       \* bound: ivars added to a class

VARIABLES rt,          \* the tables of Classes
          mapped,      \* images dyld has mapped and map_2_images has read
          scheduled,   \* images load_images has been called for
          gone,        \* images that were unloaded
          classQueue,  \* loadable_classes; NoClass where an entry was removed
          catQueue,    \* loadable_categories
          phase,       \* where call_load_methods is; "idle": nobody is in it
          batch,       \* the detached list that is being called
          at,          \* position in it
          running,     \* its +load is on the stack
          called,      \* ghost: the +load methods called, in order
          found,       \* ghost: the categories read, in order
          changes      \* ghost: changes made by the program, for the bound

images == <<mapped, scheduled, gone>>
queues == <<classQueue, catQueue>>
call   == <<phase, batch, at, running>>
loader == <<rt, images, queues, call, called, found, changes>>

ClassesOf(image)    == ToSet(ClassList[image])
CategoriesOf(image) == ToSet(CategoryList[image])
ImageOf(x)          == CHOOSE i \in Images : x \in ClassesOf(i) \cup CategoriesOf(i)
Loaded(image)       == {x \in ClassesOf(image) \cup CategoriesOf(image) : x \in HasLoad}

\* A class or category is compiled into one image.
ASSUME ImagesAssumption ==
    /\ ImageOrder \in Seq(Images) /\ ToSet(ImageOrder) = Images /\ IsInjective(ImageOrder)
    /\ ClassList \in [Images -> Seq(ImageClasses)] /\ CategoryList \in [Images -> Seq(Categories)]
    /\ \A x \in ImageClasses \cup Categories : \E i \in Images : \A j \in Images :
         x \in ClassesOf(j) \cup CategoriesOf(j) <=> j = i
    /\ \A i \in Images : IsInjective(CategoryList[i])
    /\ Bundles \subseteq Images /\ Futures \subseteq ImageClasses
    /\ DebugIvars \subseteq BOOLEAN /\ RootSizes \subseteq Nat
    /\ \A size \in RootSizes : Sound([Compiled[NSObject] EXCEPT !.size = size])
    /\ Ivars \subseteq Nat \X (Nat \ {0})
    /\ MaxChanges \in Nat /\ MaxIvars \in Nat

\* external: the images dyld brings in before this one
Dependencies(image) ==
    LET inherited == {Superclass[d] : d \in ClassesOf(image)} \ {NoClass}
        extended  == {Target[k] : k \in CategoriesOf(image)}
    IN {ImageOf(c) : c \in inherited \cup extended} \ {image}

\* The tables' end of a class: nil if it is ignored.
Present(x) == (IF x \in Categories THEN Target[x] ELSE x) \notin rt.ignored

InitLoader ==
    /\ \E debug \in DebugIvars, size \in RootSizes : rt = NoTables(debug, size)
    /\ mapped = {} /\ scheduled = {} /\ gone = {}
    /\ classQueue = <<>> /\ catQueue = <<>>
    /\ phase = "idle" /\ batch = <<>> /\ at = 1 /\ running = FALSE
    /\ called = <<>> /\ found = <<>> /\ changes = 0

------------------------------------------------------------------------------
(* Images                                                                   *)

\* loadMethodLock can be taken: nobody holds it, or the +load that runs does.
HasLoadLock == phase = "idle" \/ running

\* What images list, one image after the other
Listed(list, new) ==
    FlattenSeq([n \in DOMAIN ImageOrder |-> IF ImageOrder[n] \in new THEN list[ImageOrder[n]] ELSE <<>>])

\* map_2_images, for one image or for several at once
MapImages(new) ==
    /\ new # {} /\ new \subseteq Images \ (mapped \cup gone)
    /\ \A i \in new : Dependencies(i) \subseteq mapped \cup new
    /\ rt' = ReadImages(rt, Listed(ClassList, new), Listed(CategoryList, new))
    /\ found' = found \o Listed(CategoryList, new)
    /\ mapped' = mapped \cup new
    /\ UNCHANGED <<scheduled, gone, queues, call, called, changes>>

\* add_class_to_loadable_list, and RW_LOADED; s is the flags and the list.
AddClass(s, c) ==
    [loaded |-> s.loaded \cup {c}, queue |-> IF c \in HasLoad THEN Append(s.queue, c) ELSE s.queue]

\* mutant: the superclasses are left to their own image
ScheduleOnly(s, c) == IF c \in s.loaded THEN s ELSE AddClass(s, c)

\* schedule_class_load: superclasses first, every class once
ScheduleClass(s, c) ==
    LET after[d \in ImageClasses \cup {NoClass}] ==
            IF d \in s.loaded \cup {NoClass} THEN s ELSE AddClass(after[rt.super[d]], d)
    IN after[c]

ScheduleAll(s, classes, set) ==
    LET after[n \in 0 .. Len(classes)] ==
            IF n = 0 THEN s
            ELSE IF classes[n] \in set THEN ScheduleClass(after[n - 1], classes[n]) ELSE after[n - 1]
    IN after[Len(classes)]

\* prepare_load_methods
Prepare(image) ==
    LET present  == {x \in Loaded(image) : Present(x)}
        cats     == CategoryList[image]
        plan     == ScheduleAll([loaded |-> rt.loaded, queue |-> classQueue], ClassList[image], present)
        targets  == [n \in DOMAIN cats |-> Target[cats[n]]]
    IN /\ rt' = RealizeAll([rt EXCEPT !.loaded = plan.loaded], targets,
                           {Target[k] : k \in present \cap Categories})
       /\ classQueue' = plan.queue
       /\ catQueue' = catQueue \o Only(cats, present)

\* load_images, of one image: objc-os.mm:860 registers it as "not batch", so that dyld
\* calls it for each. A nested call_load_methods returns at once (its static loading).
LoadImages(image) ==
    /\ HasLoadLock
    /\ image \in mapped \ scheduled /\ Dependencies(image) \subseteq scheduled
    /\ scheduled' = scheduled \cup {image}
    /\ IF Loaded(image) = {} THEN UNCHANGED <<rt, queues, phase>>
       ELSE Prepare(image) /\ phase' = IF phase = "idle" THEN "start" ELSE phase
    /\ UNCHANGED <<mapped, gone, batch, at, running, called, found, changes>>

Nil(queue, xs) == [n \in DOMAIN queue |-> IF queue[n] \in xs THEN NoClass ELSE queue[n]]

\* No image but this one has classes that inherit from it, and none of its
\* +load methods is in a list that call_load_methods has detached already.
Unused(image) ==
    /\ \A c \in ClassesOf(image) : rt.subclasses[c] \subseteq ClassesOf(image)
    /\ \A other \in mapped \ {image} : image \notin Dependencies(other)
    /\ phase # "idle" => ToSet(batch) \cap Loaded(image) = {}

\* unmap_image
UnmapImage(image) ==
    /\ HasLoadLock
    /\ image \in mapped \cap Bundles /\ Unused(image)
    /\ rt' = Free(RemoveUnattached(rt, CategoriesOf(image)), ClassesOf(image) \ rt.ignored)
    /\ classQueue' = Nil(classQueue, ClassesOf(image))
    /\ catQueue' = Nil(catQueue, CategoriesOf(image))
    /\ mapped' = mapped \ {image} /\ gone' = gone \cup {image}
    /\ UNCHANGED <<scheduled, call, called, found, changes>>

------------------------------------------------------------------------------
(* call_load_methods                                                        *)

Idle == phase' = "idle" /\ batch' = <<>> /\ at' = 1

\* The list is taken away, so that a +load that loads images starts a new one.
Detach(queue, next) == batch' = queue /\ at' = 1 /\ phase' = next

\* while (loadable_classes_used > 0) call_class_loads()
StartClassLoads ==
    /\ phase = "start" /\ classQueue # <<>>
    /\ Detach(classQueue, "classes") /\ classQueue' = <<>>
    /\ UNCHANGED <<rt, images, catQueue, running, called, found, changes>>

StartCategoryLoads ==
    /\ phase = "start" /\ classQueue = <<>>
    /\ Detach(catQueue, "categories") /\ catQueue' = <<>>
    /\ UNCHANGED <<rt, images, classQueue, running, called, found, changes>>

\* The next entry's +load is called, or its entry is nil.
CallLoad ==
    /\ phase \in {"classes", "categories"} /\ ~running /\ at <= Len(batch)
    /\ IF batch[at] = NoClass
       THEN at' = at + 1 /\ UNCHANGED <<running, called>>
       ELSE running' = TRUE /\ called' = Append(called, batch[at]) /\ UNCHANGED at
    /\ UNCHANGED <<rt, images, queues, phase, batch, found, changes>>

LoadReturns ==
    /\ running /\ running' = FALSE /\ at' = at + 1
    /\ UNCHANGED <<rt, images, queues, phase, batch, called, found, changes>>

EndClassLoads ==
    /\ phase = "classes" /\ at > Len(batch)
    /\ phase' = "start" /\ batch' = <<>> /\ at' = 1
    /\ UNCHANGED <<rt, images, queues, running, called, found, changes>>

\* mutant: only new classes start another round
EndCategoryLoadsEarly ==
    /\ phase = "categories" /\ at > Len(batch)
    /\ IF classQueue # <<>> THEN phase' = "start" /\ batch' = <<>> /\ at' = 1 ELSE Idle
    /\ UNCHANGED <<rt, images, queues, running, called, found, changes>>

\* Every entry was called or is nil, so what remains is what was added; another
\* round is made for it, or for new classes.
EndCategoryLoads ==
    /\ phase = "categories" /\ at > Len(batch)
    /\ IF classQueue # <<>> \/ catQueue # <<>> THEN phase' = "start" /\ batch' = <<>> /\ at' = 1
       ELSE Idle
    /\ UNCHANGED <<rt, images, queues, running, called, found, changes>>

------------------------------------------------------------------------------
(* What threads do to classes, at any time                                  *)

Tables(new) == rt' = new /\ UNCHANGED <<images, queues, call, called, found>>
Unchanging  == UNCHANGED changes
\* Changes of the program's own are counted.
Change      == changes < MaxChanges /\ changes' = changes + 1

\* look_up_class, lookUpImpOrForward: a class that is found is realized.
LookUp(c) == c \in rt.named \ rt.realized /\ Tables(Realize(rt, c)) /\ Unchanging

\* _objc_allocateFutureClass: there is no class of that name yet.
GetFutureClass(c) ==
    /\ c \in Futures \ (rt.named \cup rt.future \cup rt.ignored)
    /\ \A i \in gone : c \notin ClassesOf(i)
    /\ Tables([rt EXCEPT !.future = @ \cup {c}]) /\ Unchanging

\* The last step of _class_initialize: the superclass has been through it.
Initialize(c) ==
    /\ c \in (rt.realized \cap rt.named) \ rt.initialized
    /\ rt.super[c] \in rt.initialized \cup {NoClass}
    /\ Tables(SetInitialized(rt, c)) /\ Unchanging

ClassAddMethod(c, s) ==
    c \in rt.realized /\ Tables(AddMethod(rt, c, s, FastMethod[s])) /\ Change

ReplaceDefault(s) ==
    NSObject \in rt.realized /\ Tables(SetImplementation(rt, s)) /\ Change

\* objc_allocateClassPair, of a root if there is no superclass; verifySuperclass refuses
\* a class under construction.
NewClass(c, super) ==
    /\ c \notin rt.named \cup rt.realized
    /\ super \in ((rt.realized \cap rt.named) \ rt.constructing) \cup {NoClass}
    /\ Tables(AllocateClassPair(rt, c, super)) /\ Change

NewIvar(c, ivar) ==
    /\ c \in rt.constructing /\ Len(rt.layout[c].ivars) < MaxIvars
    /\ Tables(AddIvar(rt, c, ivar[1], ivar[2])) /\ Unchanging

Register(c) == c \in rt.constructing /\ Tables(RegisterClassPair(rt, c)) /\ Unchanging

\* objc_disposeClassPair, once no subclass is left
Dispose(c) ==
    /\ c \in rt.realized /\ rt.subclasses[c] = {}
    /\ Tables([Free(rt, {c}) EXCEPT !.super[c] = NoClass, !.layout[c] = NoLayout]) /\ Unchanging

Threads ==
    \/ \E c \in Classes :
         LookUp(c) \/ Initialize(c) \/ \E s \in Sides : ClassAddMethod(c, s)
    \/ \E c \in Futures : GetFutureClass(c)
    \/ \E s \in Sides : ReplaceDefault(s)
    \/ \E c \in RuntimeClasses :
         \/ Register(c) \/ Dispose(c)
         \/ \E super \in Classes \cup {NoClass} : NewClass(c, super)
         \/ \E ivar \in Ivars : NewIvar(c, ivar)

Dyld ==
    \/ \E new \in SUBSET Images : MapImages(new)
    \/ \E i \in Images : LoadImages(i) \/ UnmapImage(i)

NextLoader ==
    \/ Threads \/ Dyld
    \/ StartClassLoads \/ StartCategoryLoads
    \/ CallLoad \/ LoadReturns \/ EndClassLoads \/ EndCategoryLoads

SpecLoader == InitLoader /\ [][NextLoader]_loader

------------------------------------------------------------------------------
(* Properties                                                               *)

Before(x, n) == x \in {called[m] : m \in 1 .. n - 1}

\* "Class +load methods are called superclass-first. Category +load methods are
\* not called until after the parent class's +load" (objc-loadmethod.mm:336), and
\* none is called twice: whatever images a +load maps and loads while it runs.
LoadOrder ==
    \A n \in DOMAIN called :
        LET x == called[n] IN
        /\ ~Before(x, n)
        /\ IF x \in Categories THEN Target[x] \in HasLoad => Before(Target[x], n)
           ELSE \A c \in Lineage(rt, x) \ {x} : c \in HasLoad => Before(c, n)

\* "No +load method is forgotten because it was added during a +load call"
\* (objc-loadmethod.mm:348): when call_load_methods has returned, every +load of
\* every image dyld asked for has run, except those of ignored classes.
NothingForgotten ==
    phase = "idle" =>
        /\ ToSet(classQueue) \cup ToSet(catQueue) = {}
        /\ \A i \in scheduled \ gone : \A x \in Loaded(i) : Present(x) <=> x \in ToSet(called)

\* A class's own methods come last, and before them those of every category read
\* for it, each once, the newest first: the category read last wins, whether it was
\* read before or after the class was realized (attachCategories, methodizeClass).
MethodOrder ==
    \A c \in rt.realized \cap ImageClasses, s \in Sides :
        LET lists  == rt.lists[c][s]
            owners == {l.owner : l \in ToSet(lists)} \cap Categories
        IN /\ Only([n \in DOMAIN lists |-> lists[n].owner], Categories)
                = Reverse(Only(found, owners))
           /\ \A k \in ToSet(found) :
                Target[k] = c /\ Defines[k][s] # {} /\ ImageOf(k) \notin gone => k \in owners
           /\ Defines[c][s] # {} => Last(rt.lists[c][s]).owner = c
           /\ rt.unattached[c][s] = <<>>

\* Some class from c up to NSObject, or NSObject's own category or replaced
\* method, answers retain and release (alloc, on the class side).
Overridden(c, s) ==
    LET line == Lineage(rt, c) IN
    \/ NSObject \notin line
    \/ rt.replaced[s]
    \/ \E d \in line : \E l \in ToSet(rt.lists[d][s]) : HasFast(l, s) /\ l.owner # NSObject

\* objc_retain, objc_release and objc_alloc skip the message to an object whose class
\* has the default flag: the flag is never set where a message would reach another
\* method, whenever that method came (setInitialized, prepareMethodLists,
\* updateCustomRR_AWZ, addSubclass). A class that needs a raw isa passes it on.
InheritedFlags ==
    /\ \A s \in Sides : \A c \in rt.default[s] : ~Overridden(c, s)
    /\ \A c \in rt.realized : rt.super[c] \in rt.rawIsa => c \in rt.rawIsa

\* Instance variables of a realized class lie behind all of its superclass's,
\* aligned, within the instance, however the superclass has grown since the class
\* was compiled (reconcileInstanceVariables, moveIvars, class_addIvar).
LayoutSound ==
    \A c \in rt.realized :
        /\ Sound(rt.layout[c])
        /\ rt.super[c] # NoClass => rt.layout[c].start >= rt.layout[rt.super[c]].size
==============================================================================
