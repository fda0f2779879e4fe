----------------------------- MODULE Initialize -----------------------------
(***************************************************************************)
(* Class initialization on demand: _class_initialize, _finishInitializing  *)
(* and _finishInitializingAfter (objc-initialize.mm). A thread that sends  *)
(* a message to a class that is not initialized runs _class_initialize     *)
(* first, which runs +initialize, which sends messages to other classes.   *)
(*                                                                         *)
(* A thread takes one step per access to memory another thread can reach:  *)
(* a read of a class's flags without the lock, a critical section of       *)
(* classInitLock with one write, each write of a longer one.               *)
(***************************************************************************)
EXTENDS Naturals, FiniteSets, Sequences

CONSTANTS Threads, NoThread,
          Classes, NoClass,
          Super,            \* cls->superclass; NoClass for a root
          Sends             \* the classes each +initialize may send messages to

ASSUME InitializeAssumption ==
  /\ NoThread \notin Threads /\ NoClass \notin Classes
  /\ Super \in [Classes -> Classes \cup {NoClass}]
  /\ Sends \in [Classes -> SUBSET Classes]

VARIABLES flags,        \* per class: which of INITIALIZING and INITIALIZED are set
          lock,         \* the mutex of classInitLock
          asleep,       \* the threads in classInitLock.wait()
          pending,      \* pendingInitializeMap: per superclass, newest first
          mine,         \* per thread: the classes it is initializing
          stack,        \* per thread: its calls of _class_initialize, innermost first: the
                        \* class, the next statement, and the classes that its +initialize
                        \* may still send messages to
          finishing     \* per thread: what _finishInitializing has yet to mark

vars == <<flags, lock, asleep, pending, mine, stack, finishing>>

Init ==
  /\ flags = [c \in Classes |-> {}]
  /\ lock = NoThread /\ asleep = {}
  /\ pending = [c \in Classes |-> <<>>]
  /\ mine = [t \in Threads |-> {}]
  /\ stack = [t \in Threads |-> <<>>] /\ finishing = [t \in Threads |-> <<>>]

Initialized(c) == c # NoClass => "initialized" \in flags[c]

At(t, label) == stack[t] # <<>> /\ Head(stack[t]).label = label
Cls(t) == Head(stack[t]).cls

Goto(t, label) == stack' = [stack EXCEPT ![t][1].label = label]
Return(t) == stack' = [stack EXCEPT ![t] = Tail(@)]
Call(t, c, caller) ==
  stack' = [stack EXCEPT
    ![t] = <<[cls |-> c, label |-> "start", toSend |-> Sends[c]]>> \o caller]

-----------------------------------------------------------------------------
(* Sending a message: the caller of _class_initialize reads the flags      *)

Message(t, c) ==
  /\ stack[t] = <<>> /\ ~Initialized(c)
  /\ Call(t, c, <<>>)
  /\ UNCHANGED <<flags, lock, asleep, pending, mine, finishing>>

\* +initialize sends a message; to an initialized class nothing comes of it
Send(t, c) ==
  LET rest == <<[Head(stack[t]) EXCEPT !.toSend = @ \ {c}]>> \o Tail(stack[t]) IN
  /\ At(t, "initialize") /\ c \in Head(stack[t]).toSend
  /\ IF Initialized(c) THEN stack' = [stack EXCEPT ![t] = rest] ELSE Call(t, c, rest)
  /\ UNCHANGED <<flags, lock, asleep, pending, mine, finishing>>

-----------------------------------------------------------------------------
(* _class_initialize                                                       *)

\* mutant: a class begins without its superclass
SuperReadyAlways(c) == TRUE

SuperReady(c) == Initialized(Super[c])

Start(t) ==
  /\ At(t, "start")
  /\ IF SuperReady(Cls(t)) THEN Goto(t, "mark")
     ELSE Call(t, Super[Cls(t)],
               <<[Head(stack[t]) EXCEPT !.label = "mark"]>> \o Tail(stack[t]))
  /\ UNCHANGED <<flags, lock, asleep, pending, mine, finishing>>

\* one critical section: the thread that sets CLS_INITIALIZING runs +initialize
Mark(t) ==
  LET c == Cls(t) IN
  /\ At(t, "mark") /\ lock = NoThread
  /\ IF flags[c] = {}
     THEN /\ flags' = [flags EXCEPT ![c] = {"initializing"}]
          /\ mine' = [mine EXCEPT ![t] = @ \cup {c}]
          /\ Goto(t, "initialize")
     ELSE Goto(t, "other") /\ UNCHANGED <<flags, mine>>
  /\ UNCHANGED <<lock, asleep, pending, finishing>>

\* mutant: a thread does not wait for the thread that initializes the class
NeedNotWaitEver(t, c) == TRUE

NeedNotWait(t, c) == c \in mine[t]

\* the flags are read twice, INITIALIZING first
Other(t) ==
  LET initializing == "initializing" \in flags[Cls(t)] IN
  /\ At(t, "other")
  /\ \/ initializing /\ NeedNotWait(t, Cls(t)) /\ Return(t)
     \/ initializing /\ ~NeedNotWait(t, Cls(t)) /\ Goto(t, "wait")
     \/ ~initializing /\ Goto(t, "other2")
  /\ UNCHANGED <<flags, lock, asleep, pending, mine, finishing>>

\* a class that is not initialized either is the fatal error at 722
OtherAgain(t) ==
  /\ At(t, "other2") /\ Initialized(Cls(t)) /\ Return(t)
  /\ UNCHANGED <<flags, lock, asleep, pending, mine, finishing>>

\* one critical section, from the lock or from the wake-up to the next wait()
Wait(t) ==
  /\ At(t, "wait") /\ t \notin asleep /\ lock = NoThread
  /\ IF Initialized(Cls(t)) THEN Return(t) /\ UNCHANGED asleep
     ELSE asleep' = asleep \cup {t} /\ UNCHANGED stack
  /\ UNCHANGED <<flags, lock, pending, mine, finishing>>

\* wait() may return without a notifyAll
WakeUp(t) ==
  /\ t \in asleep /\ asleep' = asleep \ {t}
  /\ UNCHANGED <<flags, lock, pending, mine, stack, finishing>>

InitializeReturns(t) ==
  /\ At(t, "initialize") /\ Goto(t, "finish")
  /\ UNCHANGED <<flags, lock, asleep, pending, mine, finishing>>

-----------------------------------------------------------------------------
(* _finishInitializing and _finishInitializingAfter                        *)

FinishNow(t) ==
  /\ At(t, "finish") /\ lock = NoThread /\ Initialized(Super[Cls(t)])
  /\ lock' = t /\ finishing' = [finishing EXCEPT ![t] = <<Cls(t)>>]
  /\ Goto(t, "finishing")
  /\ UNCHANGED <<flags, asleep, pending, mine>>

FinishAfter(t) ==
  LET super == Super[Cls(t)] IN
  /\ At(t, "finish") /\ lock = NoThread /\ ~Initialized(super)
  /\ pending' = [pending EXCEPT ![super] = <<Cls(t)>> \o @]
  /\ Return(t)
  /\ UNCHANGED <<flags, lock, asleep, mine, finishing>>

\* mutant: the subclasses that wait for a class are forgotten
ReleasedNone(c) == <<>>

Released(c) == pending[c]

\* mutant: nobody is woken
NotWokenAll(c) == asleep

NotWoken(c) == {}

Completed(c) == {"initialized"}

Finishing(t) ==
  LET c == Head(finishing[t])
      rest == Released(c) \o Tail(finishing[t])
  IN
  /\ At(t, "finishing")
  /\ flags' = [flags EXCEPT ![c] = Completed(c)]
  /\ asleep' = NotWoken(c)
  /\ mine' = [mine EXCEPT ![t] = @ \ {c}]
  /\ pending' = [pending EXCEPT ![c] = <<>>]
  /\ finishing' = [finishing EXCEPT ![t] = rest]
  /\ IF rest = <<>> THEN lock' = NoThread /\ Return(t) ELSE UNCHANGED <<lock, stack>>

Step(t) ==
  \/ \E c \in Classes : Send(t, c)
  \/ Start(t) \/ Mark(t) \/ Other(t) \/ OtherAgain(t) \/ Wait(t)
  \/ InitializeReturns(t) \/ FinishNow(t) \/ FinishAfter(t) \/ Finishing(t)

Next == \E t \in Threads : (\E c \in Classes : Message(t, c)) \/ WakeUp(t) \/ Step(t)

Spec == Init /\ [][Next]_vars

\* The scheduler runs every thread that can run, and every +initialize returns. Once a
\* class is initialized nobody takes the lock for it, so weak fairness is enough.
Fairness == \A t \in Threads : WF_vars(Step(t))

FairSpec == Spec /\ Fairness

-----------------------------------------------------------------------------
(* Properties                                                              *)

\* None of the fatal errors and assertions of objc-initialize.mm is reached: a class is
\* marked by the thread that initializes it, after its superclass (433, 392), and is
\* begun by a thread that is not initializing it already (333); a class that somebody
\* else began is initializing when its flags are read, or else initialized when they are
\* read again (722), and never both (35).
NoFatalError ==
  /\ \A c \in Classes : Cardinality(flags[c]) <= 1
  /\ \A t \in Threads :
      /\ At(t, "finishing") =>
           Head(finishing[t]) \in mine[t] /\ Initialized(Super[Head(finishing[t])])
      /\ At(t, "mark") /\ flags[Cls(t)] = {} => Cls(t) \notin mine[t]
      /\ At(t, "other2") => Initialized(Cls(t))

\* A message to a class goes through only when the class is initialized, or when the
\* sender is the thread that is initializing it (objc-initialize.mm:41).
Answered ==
  [][\A t \in Threads : Len(stack'[t]) < Len(stack[t]) =>
       "initialized" \in flags'[Cls(t)] \/ Cls(t) \in mine'[t]]_vars

Initializer(c) ==
  CASE flags[c] = {} -> NoThread
    [] "initialized" \in flags[c] -> "done"
    [] OTHER -> CHOOSE t \in Threads : c \in mine[t]

Abstract == INSTANCE ClassInit
              WITH Nobody <- NoThread, Done <- "done",
                   initializer <- [c \in Classes |-> Initializer(c)]

\* Only one thread initializes a class, the initialized and initializing classes of one
\* thread are a contiguous part of the hierarchy, and superclasses are initialized first
\* ("Solved by completely initializing superclasses", objc-initialize.mm:84).
Implements == Abstract!Spec

\* Every message is answered in the end, when +initialize methods send messages only
\* within their own part of the hierarchy: no deadlock between a superclass and a
\* subclass, no lost wake-up, no class left in pendingInitializeMap.
EveryMessageAnswered == \A t \in Threads : stack[t] # <<>> ~> stack[t] = <<>>
=============================================================================
