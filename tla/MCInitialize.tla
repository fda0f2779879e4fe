---------------------------- MODULE MCInitialize ----------------------------
(***************************************************************************)
(* Initialize on the hierarchy of the comment in objc-initialize.mm:88,    *)
(* without OBPostLoader, whose part OBObject plays itself.                 *)
(*                                                                         *)
(* The runtime's tables on small instances: the selectors and what else    *)
(* Names keeps, and the reference counts of a side table (DenseMap). They  *)
(* share nothing with the threads here, being under locks of their own;    *)
(* so each is explored by itself: a behaviour is one of the part chosen at *)
(* first.                                                                  *)
(***************************************************************************)
EXTENDS Initialize, Names, DenseMap

VARIABLE part

CONSTANTS OBObject, OFObject, OWAddressEntry, OWController, OWConsoleController

OmniWeb == [c \in Classes |->
  CASE c = OBObject -> NoClass
    [] c = OFObject -> OBObject
    [] c = OWConsoleController -> OWController
    [] OTHER -> OFObject]

\* the root's +initialize reaches down the hierarchy, a subclass's up
OmniWebSends == [c \in Classes |->
  CASE c = OBObject -> {OWConsoleController}
    [] c = OFObject -> {OWAddressEntry}
    [] c = OWConsoleController -> {OFObject}
    [] OTHER -> {}]

\* Keys that meet in a table: 3 and 7 hash alike in four buckets, and wrap in four and eight.
MCTableHash == [k \in SelNames \cup FutureNames \cup Classed \cup Real |->
  CASE k \in {"a", "c"} -> 3 [] k \in {"b", "d"} -> 7 [] OTHER -> 4]
MCSelRefs == [i \in SelImages |-> IF i \in SelBundles THEN <<"d", "c">> ELSE <<"b", "c">>]
MCOwn     == <<"a">>

\* six objects, of which four collide in a map of eight; the first may have a count of zero
MCKeyHash == <<1, 1, 2, 4, 7, 7>>
MCCounts == [k \in Keys |-> IF k = 1 THEN {0, 1} ELSE {1}]

MCInit ==
  /\ Init /\ InitNames /\ InitRefcounts
  /\ part \in {"threads", "selectors", "futures", "categories", "classes", "refcnts"}

OnlyThreads ==
  part = "threads" /\ UNCHANGED <<part, names, refcounts>>
OnlySelectors ==
  part = "selectors" /\ UNCHANGED <<part, vars, futureMap, attaching, realizing, refcounts>>
OnlyFutures ==
  part = "futures" /\ UNCHANGED <<part, vars, selectors, attaching, realizing, refcounts>>
OnlyCategories ==
  part = "categories" /\ UNCHANGED <<part, vars, selectors, futureMap, realizing, refcounts>>
OnlyClasses ==
  part = "classes" /\ UNCHANGED <<part, vars, selectors, futureMap, attaching, refcounts>>
OnlyRefcounts ==
  part = "refcnts" /\ UNCHANGED <<part, vars, names>>

Threading(t) ==
  \/ \E c \in Classes : OnlyThreads /\ Message(t, c)
  \/ \E c \in Classes : OnlyThreads /\ Send(t, c)
  \/ OnlyThreads /\ WakeUp(t)
  \/ OnlyThreads /\ Start(t)
  \/ OnlyThreads /\ Mark(t)
  \/ OnlyThreads /\ Other(t)
  \/ OnlyThreads /\ OtherAgain(t)
  \/ OnlyThreads /\ Wait(t)
  \/ OnlyThreads /\ InitializeReturns(t)
  \/ OnlyThreads /\ FinishNow(t)
  \/ OnlyThreads /\ FinishAfter(t)
  \/ OnlyThreads /\ Finishing(t)

MCNext ==
  \/ \E t \in Threads : Threading(t)
  \/ \E c \in Callers, n \in SelNames : OnlySelectors /\ RegisterName(c, n)
  \/ \E c \in Callers : OnlySelectors /\ InsertName(c)
  \/ \E i \in SelImages : OnlySelectors /\ FixUpSelectors(i)
  \/ \E i \in SelImages : OnlySelectors /\ UnmapSelectors(i)
  \/ \E n \in FutureNames : OnlyFutures /\ AddFutureNamedClass(n)
  \/ \E n \in FutureNames : OnlyFutures /\ PopFutureNamedClass(n)
  \/ \E c \in Classed : OnlyCategories /\ AddUnattached(c)
  \/ \E c \in Classed : OnlyCategories /\ RemoveUnattached(c)
  \/ \E c \in Classed : OnlyCategories /\ TakeUnattached(c)
  \/ \E c \in Real : OnlyClasses /\ AddRealizedClass(c)
  \/ \E c \in Real : OnlyClasses /\ RemoveRealizedClass(c)
  \/ \E k \in Keys : OnlyRefcounts /\ EraseCount(k)
  \/ \E k \in Keys, n \in {0, 1} : OnlyRefcounts /\ n \in Counts[k] /\ StoreCount(k, n)

MCSpec == MCInit /\ [][MCNext]_<<part, vars, names, refcounts>> /\ Fairness
=============================================================================
