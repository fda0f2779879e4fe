--------------------------- MODULE AutoreleasePool ---------------------------
(***************************************************************************)
(* The autorelease pools of one thread, NSObject.mm: a chain of pages, the *)
(* hot page kept in thread-local storage, and releaseUntil, which runs     *)
(* -dealloc methods that use the pools themselves.                         *)
(*                                                                         *)
(* pages[1] is the cold page and pages[k+1] the child of pages[k]; a page  *)
(* is the sequence of what lies between its begin() and its next.  hot is  *)
(* the index of the hot page, 0 for nil.  frames holds the calls of pop    *)
(* that are on the thread's call stack: the page and the slot of the token,*)
(* whether it is inside the -dealloc of an object it released, and whether *)
(* tls_dealloc called it.                                                  *)
(***************************************************************************)
EXTENDS Naturals, Sequences, SequencesExt, FiniteSetsExt

CONSTANTS Objects,      \* what is autoreleased
          Sentinel,     \* POOL_SENTINEL
          Slots,        \* pointers that fit in a page
          MaxEntries,   \* bound: pointers in all pages
          MaxFrames     \* bound: calls of pop inside each other

ASSUME PoolAssumption ==
    /\ Sentinel \notin Objects
    /\ {Slots, MaxEntries, MaxFrames} \subseteq Nat \ {0}

VARIABLES
    debugPoolAllocation,   \* OBJC_DEBUG_POOL_ALLOCATION
    debugMissingPools,     \* OBJC_DEBUG_MISSING_POOLS
    pages, hot, frames,
    tokens                 \* tokens the running code may pop, oldest first

poolVars == <<debugPoolAllocation, debugMissingPools, pages, hot, frames, tokens>>
options == <<debugPoolAllocation, debugMissingPools>>

Full(p)   == Len(pages[p]) = Slots
Entries   == FlattenSeq(pages)
Frame     == Last(frames)
Level     == Len(frames)
\* releaseUntil's `this->next != stop'
Remaining == Len(pages[Frame.page]) # Frame.stop - 1
\* Code outside the pools runs: the thread's own, or a -dealloc.
UserRuns  == frames # <<>> => Frame.dealloc
HasRoom   == Len(Entries) + 1 < MaxEntries

InitPool ==
    /\ debugPoolAllocation \in BOOLEAN /\ debugMissingPools \in BOOLEAN
    /\ pages = <<>> /\ hot = 0
    /\ frames = <<>> /\ tokens = <<>>

------------------------------------------------------------------------------
(* Adding to the pool.                                                     *)

\* mutant: a page is made although the hot page has an empty child.
PageAfterHotFresh == Len(pages) + 1
\* autoreleaseFullPage: the first descendant with room, made when there is none.
PageAfterHot == Min({q \in hot + 1 .. Len(pages) + 1 :
                        q = Len(pages) + 1 \/ ~Full(q)})

AddTo(p, e) ==
    /\ pages' = IF p > Len(pages) THEN Append(pages, <<e>>)
                                  ELSE [pages EXCEPT ![p] = Append(@, e)]
    /\ hot' = p

\* autoreleaseFast, and autoreleaseNewPage when a fresh page is asked for.
AutoreleaseOnPage(e, fresh) ==
    /\ hot # 0
    /\ AddTo(IF fresh \/ Full(hot) THEN PageAfterHot ELSE hot, e)

\* autoreleaseNoPage: an object with no pool in place brings its own boundary.
AutoreleaseNoPage(e) ==
    /\ hot = 0
    /\ pages' = << IF e = Sentinel THEN <<e>> ELSE <<Sentinel, e>> >>
    /\ hot' = 1

\* With DebugMissingPools an object that has no page is leaked: nothing happens.
Autorelease(o) ==
    /\ UserRuns /\ HasRoom
    /\ \/ AutoreleaseOnPage(o, FALSE)
       \/ ~debugMissingPools /\ AutoreleaseNoPage(o)
    /\ UNCHANGED <<options, frames, tokens>>

Push ==
    /\ UserRuns /\ HasRoom
    /\ AutoreleaseOnPage(Sentinel, debugPoolAllocation) \/ AutoreleaseNoPage(Sentinel)
    /\ tokens' = Append(tokens, [page |-> hot', slot |-> Len(pages'[hot']), level |-> Level])
    /\ UNCHANGED <<options, frames>>

------------------------------------------------------------------------------
(* Popping.                                                                *)

NewFrame(p, s, exit) == [page |-> p, stop |-> s, dealloc |-> FALSE, exit |-> exit]

\* pop: any token of the running code may be popped; the newer ones go with it.
Pop(i) ==
    /\ UserRuns /\ Level < MaxFrames
    /\ tokens[i].level = Level
    /\ frames' = Append(frames, NewFrame(tokens[i].page, tokens[i].slot, FALSE))
    /\ tokens' = SubSeq(tokens, 1, i - 1)
    /\ UNCHANGED <<options, pages, hot>>

\* mutant: releaseUntil does not restart from the hot page.
HottestOfFrame  == Max({q \in 1 .. Frame.page : pages[q] # <<>>})
\* The page releaseUntil takes the next pointer from: it restarts from the
\* hot page and skips the empty ones.
HottestNonempty == Max({q \in 1 .. hot : pages[q] # <<>>})

\* One turn of the loop of releaseUntil.
ReleaseNext ==
    /\ ~UserRuns /\ Remaining
    /\ LET h == HottestNonempty IN
       /\ pages'  = [pages EXCEPT ![h] = Front(@)]
       /\ hot'    = h
       /\ frames' = [frames EXCEPT ![Level].dealloc = Last(pages[h]) # Sentinel]
    /\ UNCHANGED <<options, tokens>>

\* A -dealloc returns; the tokens it did not pop, the newest, are lost, their
\* boundaries stay.
DeallocReturns ==
    /\ frames # <<>> /\ Frame.dealloc
    /\ frames' = [frames EXCEPT ![Level].dealloc = FALSE]
    /\ tokens' = SubSeq(tokens, 1, Max({0} \cup {i \in DOMAIN tokens : tokens[i].level < Level}))
    /\ UNCHANGED <<options, pages, hot>>

\* mutant: the child is kept with all of its descendants.
ReserveAll(p) == IF Len(pages[p]) < Slots \div 2 THEN p ELSE Len(pages)
\* mutant: the page of the token is killed, not its child.
ReserveOwn(p) == IF Len(pages[p]) < Slots \div 2 THEN p - 1 ELSE Min({p + 1, Len(pages)})
\* One empty child page may stay when page p is at least half full.
Reserve(p) == IF Len(pages[p]) < Slots \div 2 THEN p ELSE Min({p + 1, Len(pages)})

\* mutant: with DebugMissingPools the cold page stays.
KeptCold(p) == IF debugPoolAllocation /\ pages[p] = <<>> THEN p - 1 ELSE Reserve(p)
\* How many pages pop leaves of the chain when p is the page of its token.
Kept(p) ==
    CASE debugPoolAllocation /\ pages[p] = <<>>         -> p - 1
      [] debugMissingPools /\ pages[p] = <<>> /\ p = 1  -> 0
      [] OTHER                                          -> Reserve(p)

\* tls_dealloc kills what pop left, except under the options with which pop
\* has done so already.
KeptAtExit(n) == IF debugMissingPools \/ debugPoolAllocation THEN n ELSE 0

\* The rest of pop once releaseUntil has set the hot page to the token's page.
FinishPop ==
    /\ ~UserRuns /\ ~Remaining
    /\ LET n == Kept(Frame.page) IN
       IF Frame.exit
       THEN pages' = SubSeq(pages, 1, KeptAtExit(n)) /\ hot' = 0
       ELSE pages' = SubSeq(pages, 1, n) /\ hot' = Min({n, Frame.page})
    /\ frames' = Front(frames)
    /\ UNCHANGED <<options, tokens>>

\* tls_dealloc: the thread ends and pops from the start of the cold page.
\* Destructors of other keys may still run, autorelease, and bring it back.
ThreadExit ==
    /\ frames = <<>> /\ hot # 0
    /\ tokens' = <<>>
    /\ IF pages[1] # <<>>
       THEN frames' = <<NewFrame(1, 1, TRUE)>> /\ UNCHANGED <<pages, hot>>
       ELSE /\ pages' = SubSeq(pages, 1, KeptAtExit(Len(pages)))
            /\ hot' = 0
            /\ UNCHANGED frames
    /\ UNCHANGED options

NextPool ==
    \/ \E o \in Objects : Autorelease(o)
    \/ Push
    \/ \E i \in DOMAIN tokens : Pop(i)
    \/ ReleaseNext
    \/ DeallocReturns
    \/ FinishPop
    \/ ThreadExit

SpecPool == InitPool /\ [][NextPool]_poolVars

------------------------------------------------------------------------------
(* Properties.                                                             *)

\* The pages in order are the stack of pointers the header comment of the
\* pools describes: a pop releases exactly what lies above its boundary, and
\* no page that is killed or skipped holds a pointer.
Position(p, s) == Len(FlattenSeq(SubSeq(pages, 1, p - 1))) + s
Stack == INSTANCE PoolStack WITH stack <- Entries,
            pops <- [k \in DOMAIN frames |-> Position(frames[k].page, frames[k].stop)]
Implements == Stack!Spec

\* Every token that running code may still pop, and every page that a pop in
\* progress will look at again, is there: the boundary is where the token says.
NothingInUseIsKilled ==
    /\ \A t \in Range(tokens) : /\ t.page <= Len(pages)
                                /\ t.slot <= Len(pages[t.page])
                                /\ pages[t.page][t.slot] = Sentinel
    /\ \A f \in Range(frames) : f.page <= Len(pages)

\* hotPage() is nil exactly when the thread has no page: no chain of pages is
\* left behind for autoreleaseNoPage to replace.
NoChainIsLost == hot = 0 <=> pages = <<>>

\* Outside of pops at most one empty page is kept in reserve, and pointers
\* lie only in the hot page and its ancestors.
OneSpare == frames = <<>> => /\ Len(pages) <= hot + 1
                             /\ \A q \in hot + 1 .. Len(pages) : pages[q] = <<>>

\* Whatever nested pops, the hysteresis of kill, the options and tls_dealloc do to
\* the list of pages, they kill none that is in use, lose none, and keep one spare.
PagesAreKept == NothingInUseIsKilled /\ NoChainIsLost /\ OneSpare

\* The fixme in releaseUntil: the `while' that skips empty pages could be an
\* `if'.  It could, when DebugPoolAllocation is off: two empty pages in a row
\* are never met on the way down.
WhileCouldBeIf ==
    ~debugPoolAllocation /\ frames # <<>> /\ ~Frame.dealloc /\ Remaining
        => pages[hot] # <<>> \/ pages[hot - 1] # <<>>
==============================================================================
