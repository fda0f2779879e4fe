-------------------------- MODULE InitializeProofs --------------------------
(***************************************************************************)
(* Proofs about Initialize, for any threads, any hierarchy of classes and  *)
(* any messages that the +initialize methods send; and about Names, which  *)
(* shares a run with it, for any hashes of the keys and any capacities.    *)
(*                                                                         *)
(* IInv is the inductive invariant. Ready is what _class_initialize relies *)
(* on when it begins a class: its superclass is initialized, or is being   *)
(* initialized by this thread. Frame says what a call of it, anywhere in a *)
(* thread's stack, relies on. Pending and Marking say where a class is     *)
(* whose +initialize has returned: in pendingInitializeMap, or on the list *)
(* of the thread that marks the classes, in the one place or in the other, *)
(* once, and still with the thread that began it.                          *)
(*                                                                         *)
(* NamesInv is that of Names. MapHas says of an NXMapTable which pairs it  *)
(* holds and that a search for each of their keys comes to it, MapIs that  *)
(* there is room besides: every operation of maptable.mm keeps it, also    *)
(* the removal, whose chain no search has to cross that ends behind it.    *)
(* HashHas says of an NXHashTable that each element is once in the bucket  *)
(* it belongs to. The invariant of a user of such a table says which pairs *)
(* or elements these are.                                                  *)
(***************************************************************************)
EXTENDS Initialize, Names, DataFacts

Labels == {"start", "mark", "other", "other2", "wait", "initialize", "finish", "finishing"}
Frames == [cls : Classes, label : Labels, toSend : SUBSET Classes]
Flags == {{}, {"initializing"}, {"initialized"}}

\* The type invariant.
Types ==
  /\ flags \in [Classes -> Flags]
  /\ lock \in Threads \cup {NoThread} /\ asleep \in SUBSET Threads
  /\ pending \in [Classes -> Seq(Classes)] /\ mine \in [Threads -> SUBSET Classes]
  /\ stack \in [Threads -> Seq(Frames)] /\ finishing \in [Threads -> Seq(Classes)]

\* A class that is being initialized is some thread's, and only that one's; its superclass
\* was ready for it when the thread began, and is still.
Ready(t, c) == Initialized(c) \/ c \in mine[t]

Owned ==
  /\ \A c \in Classes : flags[c] = {"initializing"} <=> \E t \in Threads : c \in mine[t]
  /\ \A t, u \in Threads : t # u => mine[t] \cap mine[u] = {}
  /\ \A t \in Threads : \A c \in mine[t] : Ready(t, Super[c])

\* A class in pendingInitializeMap is in the list of its superclass, once, while that is
\* being initialized.
Queued(c) == \E s \in Classes : c \in Range(pending[s])

Pending ==
  \A s \in Classes :
    /\ IsInjective(pending[s])
    /\ Initialized(s) => pending[s] = <<>>
    /\ \A c \in Range(pending[s]) : Super[c] = s /\ flags[c] = {"initializing"}

\* What a thread has yet to mark is its own, under superclasses that are marked.
Marking(t) ==
  /\ finishing[t] # <<>> <=> At(t, "finishing")
  /\ IsInjective(finishing[t])
  /\ \A c \in Range(finishing[t]) : c \in mine[t] /\ Initialized(Super[c]) /\ ~Queued(c)
  /\ At(t, "finishing") => Initialized(Cls(t)) \/ Head(finishing[t]) = Cls(t)

\* +initialize runs or has just returned
Works(f) == f.label \in {"initialize", "finish"}

\* What a call knows of its class by itself.
Local(t, f) ==
  /\ f.label \in {"other", "wait"} => flags[f.cls] # {}
  /\ f.label = "other2" => Initialized(f.cls)
  /\ Works(f) => f.cls \in mine[t] /\ ~Queued(f.cls) /\ f.cls \notin Range(finishing[t])

\* The i-th call, from the innermost. A call that waits for another to return is that of a
\* subclass, or of a +initialize that sends a message.
Frame(t, i) ==
  LET f == stack[t][i] IN
  /\ Local(t, f)
  /\ f.label = "mark" => Ready(t, Super[f.cls]) \/ (i > 1 /\ stack[t][i - 1].cls = Super[f.cls])
  /\ i > 1 => f.label \in {"mark", "initialize"}
  /\ \A j \in 1 .. Len(stack[t]) :
       j # i /\ Works(f) /\ Works(stack[t][j]) => stack[t][j].cls # f.cls

Thread(t) == Marking(t) /\ \A i \in 1 .. Len(stack[t]) : Frame(t, i)

\* The inductive invariant.
IInv == Types /\ Owned /\ Pending /\ \A t \in Threads : Thread(t)

-----------------------------------------------------------------------------
(* The stack of a thread                                                   *)

\* The stack has a new top, for the same class; or it is one shorter, or one longer above
\* a new top.
OthersSame(t) == \A u \in Threads \ {t} : stack'[u] = stack[u]

NewTop(t, f) ==
  /\ stack' \in [Threads -> Seq(Frames)] /\ OthersSame(t)
  /\ stack'[t] # <<>> /\ Len(stack'[t]) = Len(stack[t]) /\ stack'[t][1] = f
  /\ \A i \in 2 .. Len(stack[t]) : stack'[t][i] = stack[t][i]

Popped(t) ==
  /\ stack' \in [Threads -> Seq(Frames)] /\ OthersSame(t)
  /\ Len(stack'[t]) = Len(stack[t]) - 1
  /\ \A i \in 1 .. Len(stack[t]) - 1 : stack'[t][i] = stack[t][i + 1]

Pushed(t, g, f) ==
  /\ stack' \in [Threads -> Seq(Frames)] /\ OthersSame(t)
  /\ stack'[t] # <<>> /\ Len(stack'[t]) = Len(stack[t]) + 1
  /\ stack'[t][1] = f /\ stack'[t][2] = g
  /\ \A i \in 3 .. Len(stack[t]) + 1 : stack'[t][i] = stack[t][i - 1]

\* The top of a stack that is not empty.
LEMMA TopOf ==
  ASSUME IInv, NEW t \in Threads, stack[t] # <<>>
  PROVE  /\ Len(stack[t]) \in Nat /\ Len(stack[t]) >= 1 /\ Head(stack[t]) = stack[t][1]
         /\ stack[t][1] \in Frames /\ Cls(t) = stack[t][1].cls /\ Cls(t) \in Classes
         /\ \A label : At(t, label) <=> stack[t][1].label = label
         /\ \A i \in 1 .. Len(stack[t]) : stack[t][i] \in Frames
<1>1. stack[t] \in Seq(Frames)
  BY DEF IInv, Types
<1>2. /\ Head(stack[t]) \in Frames /\ Head(stack[t]) = stack[t][1]
      /\ Len(stack[t]) \in Nat /\ Len(stack[t]) >= 1
  BY <1>1, HeadTailFacts
<1>3. \A i \in 1 .. Len(stack[t]) : stack[t][i] \in Frames
  BY <1>1, ElementOfSeq
<1> QED
  BY <1>2, <1>3 DEF Cls, At, Frames

\* Goto changes the label of the top.
LEMMA GotoTop ==
  ASSUME IInv, NEW t \in Threads, stack[t] # <<>>, NEW label \in Labels, Goto(t, label)
  PROVE  \E f \in Frames : NewTop(t, f) /\ f.cls = Cls(t) /\ f.label = label
<1> DEFINE f == [stack[t][1] EXCEPT !.label = label]
<1>1. stack \in [Threads -> Seq(Frames)] /\ stack[t][1] \in Frames /\ 1 \in 1 .. Len(stack[t])
      /\ Cls(t) = stack[t][1].cls
  BY TopOf DEF IInv, Types
<1>2. f \in Frames /\ f.cls = Cls(t) /\ f.label = label
  BY <1>1 DEF Frames
<1>3. stack' = [stack EXCEPT ![t] = [stack[t] EXCEPT ![1] = f]]
  BY DEF Goto
<1> HIDE DEF f
<1>4. /\ [stack[t] EXCEPT ![1] = f] \in Seq(Frames)
      /\ Len([stack[t] EXCEPT ![1] = f]) = Len(stack[t])
      /\ \A j \in 1 .. Len(stack[t]) :
           [stack[t] EXCEPT ![1] = f][j] = IF j = 1 THEN f ELSE stack[t][j]
  BY <1>1, <1>2, ExceptSeq
<1>5. [stack[t] EXCEPT ![1] = f] # <<>>
  BY <1>1, <1>4, EmptySeq
<1>6. /\ stack' \in [Threads -> Seq(Frames)] /\ OthersSame(t)
      /\ stack'[t] = [stack[t] EXCEPT ![1] = f]
  BY <1>1, <1>3, <1>4 DEF OthersSame
<1>7. \A i \in 2 .. Len(stack[t]) : stack'[t][i] = stack[t][i]
  BY <1>1, <1>4, <1>6
<1>8. NewTop(t, f)
  BY <1>1, <1>4, <1>5, <1>6, <1>7 DEF NewTop
<1> QED
  BY <1>2, <1>8

\* Return takes the top off.
LEMMA ReturnPops ==
  ASSUME IInv, NEW t \in Threads, stack[t] # <<>>, Return(t)
  PROVE  Popped(t)
<1>1. stack \in [Threads -> Seq(Frames)]
  BY DEF IInv, Types
<1>2. /\ Tail(stack[t]) \in Seq(Frames) /\ Len(Tail(stack[t])) = Len(stack[t]) - 1
      /\ \A i \in 1 .. Len(stack[t]) - 1 : Tail(stack[t])[i] = stack[t][i + 1]
  BY <1>1, HeadTailFacts
<1>3. /\ stack' \in [Threads -> Seq(Frames)] /\ OthersSame(t)
      /\ stack'[t] = Tail(stack[t])
  BY <1>1, <1>2 DEF Return, OthersSame
<1> QED
  BY <1>2, <1>3 DEF Popped

\* A new frame on the tail of the stack is a new top.
LEMMA ReplaceTop ==
  ASSUME IInv, NEW t \in Threads, stack[t] # <<>>, NEW f \in Frames
  PROVE  LET q == <<f>> \o Tail(stack[t]) IN
         /\ q \in Seq(Frames) /\ q # <<>> /\ Len(q) = Len(stack[t]) /\ q[1] = f
         /\ \A i \in 2 .. Len(stack[t]) : q[i] = stack[t][i]
<1> DEFINE q == <<f>> \o Tail(stack[t])
<1>1. stack[t] \in Seq(Frames)
  BY DEF IInv, Types
<1>2. /\ Tail(stack[t]) \in Seq(Frames) /\ Len(Tail(stack[t])) = Len(stack[t]) - 1
      /\ \A i \in 1 .. Len(stack[t]) - 1 : Tail(stack[t])[i] = stack[t][i + 1]
      /\ Len(stack[t]) \in Nat /\ Len(stack[t]) >= 1
  BY <1>1, HeadTailFacts
<1>3. /\ q \in Seq(Frames) /\ q # <<>> /\ Len(q) = Len(Tail(stack[t])) + 1 /\ q[1] = f
      /\ \A i \in 2 .. Len(Tail(stack[t])) + 1 : q[i] = Tail(stack[t])[i - 1]
  BY <1>2, ConsFacts
<1> HIDE DEF q
<1>4. /\ q \in Seq(Frames) /\ q # <<>> /\ Len(q) = Len(stack[t]) /\ q[1] = f
      /\ \A i \in 2 .. Len(stack[t]) : q[i] = stack[t][i]
  <2>1. ASSUME NEW i \in 2 .. Len(stack[t])
        PROVE  q[i] = stack[t][i]
    <3>1. i \in 2 .. Len(Tail(stack[t])) + 1 /\ i - 1 \in 1 .. Len(stack[t]) - 1
          /\ (i - 1) + 1 = i
      BY <1>2
    <3> QED
      BY <1>2, <1>3, <3>1
  <2> QED
    BY <1>2, <1>3, <2>1
<1> QED
  BY <1>4 DEF q

\* A call on top of a new top.
LEMMA CallPushes ==
  ASSUME IInv, NEW t \in Threads, stack[t] # <<>>, NEW g \in Frames, NEW c \in Classes,
         Call(t, c, <<g>> \o Tail(stack[t]))
  PROVE  \E f \in Frames : Pushed(t, g, f) /\ f.cls = c /\ f.label = "start"
<1> DEFINE q == <<g>> \o Tail(stack[t])
           f == [cls |-> c, label |-> "start", toSend |-> Sends[c]]
<1>1. stack \in [Threads -> Seq(Frames)] /\ Len(stack[t]) \in Nat /\ Len(stack[t]) >= 1
  BY TopOf DEF IInv, Types
<1>2. f \in Frames /\ f.cls = c /\ f.label = "start"
  BY InitializeAssumption DEF Frames, Labels
<1>3. /\ q \in Seq(Frames) /\ Len(q) = Len(stack[t]) /\ q[1] = g
      /\ \A i \in 2 .. Len(stack[t]) : q[i] = stack[t][i]
  BY ReplaceTop
<1>4. stack' = [stack EXCEPT ![t] = <<f>> \o q]
  BY DEF Call
<1> HIDE DEF q, f
<1>5. /\ <<f>> \o q \in Seq(Frames) /\ <<f>> \o q # <<>> /\ Len(<<f>> \o q) = Len(q) + 1
      /\ (<<f>> \o q)[1] = f /\ \A i \in 2 .. Len(q) + 1 : (<<f>> \o q)[i] = q[i - 1]
  BY <1>2, <1>3, ConsFacts
<1>6. /\ stack' \in [Threads -> Seq(Frames)] /\ OthersSame(t) /\ stack'[t] = <<f>> \o q
  BY <1>1, <1>4, <1>5 DEF OthersSame
<1>7. stack'[t][2] = g
  BY <1>1, <1>3, <1>5, <1>6
<1>8. ASSUME NEW i \in 3 .. Len(stack[t]) + 1
      PROVE  stack'[t][i] = stack[t][i - 1]
  <2>1. i \in 2 .. Len(q) + 1 /\ i - 1 \in 2 .. Len(stack[t])
    BY <1>1, <1>3
  <2> QED
    BY <1>3, <1>5, <1>6, <2>1
<1>9. Pushed(t, g, f)
  BY <1>3, <1>5, <1>6, <1>7, <1>8 DEF Pushed
<1> QED
  BY <1>2, <1>9

-----------------------------------------------------------------------------
(* What a step leaves of the invariant                                     *)

\* The flags of a class never go back.
Grow ==
  \A c \in Classes : /\ flags[c] # {} => flags'[c] # {}
                     /\ Initialized(c) => "initialized" \in flags'[c]

\* What was initialized is so after the step, NoClass included.
LEMMA StillInitialized ==
  ASSUME Grow, NEW c \in Classes \cup {NoClass}, Initialized(c)
  PROVE  Initialized(c)'
BY DEF Grow, Initialized

\* Another thread's part of the invariant.
LEMMA OthersKeep ==
  ASSUME IInv, Grow, NEW u \in Threads, stack'[u] = stack[u], finishing'[u] = finishing[u],
         mine'[u] = mine[u], \A c \in mine[u] : Queued(c)' => Queued(c)
  PROVE  Thread(u)'
<1>1. /\ Marking(u) /\ \A i \in 1 .. Len(stack[u]) : Frame(u, i)
      /\ mine[u] \in SUBSET Classes /\ finishing[u] \in Seq(Classes)
  BY DEF IInv, Thread, Types
<1>2. \A c \in Classes : Super[c] \in Classes \cup {NoClass}
  BY InitializeAssumption
<1>3. Marking(u)'
  <2>1. \A c \in Range(finishing'[u]) : c \in mine'[u] /\ Initialized(Super[c])' /\ ~Queued(c)'
    BY <1>1, <1>2, StillInitialized DEF Marking
  <2>2. At(u, "finishing")' <=> At(u, "finishing")
    BY DEF At
  <2>3. ASSUME At(u, "finishing")
        PROVE  Initialized(Cls(u))' \/ Head(finishing'[u]) = Cls(u)'
    <3>1. PICK c \in Classes : c = Cls(u)
      BY <2>3, TopOf DEF At
    <3>2. Cls(u)' = c
      BY <3>1 DEF Cls
    <3>3. Initialized(Cls(u))' <=> Initialized(c)'
      BY <3>2 DEF Initialized
    <3>4. Initialized(c) \/ Head(finishing[u]) = c
      BY <1>1, <2>3, <3>1 DEF Marking
    <3> QED
      BY <3>2, <3>3, <3>4, StillInitialized
  <2> QED
    BY <1>1, <2>1, <2>2, <2>3 DEF Marking
<1>4. ASSUME NEW i \in 1 .. Len(stack[u])
      PROVE  Frame(u, i)'
  <2>1. PICK f \in Frames : f = stack[u][i]
    BY ElementOfSeq DEF IInv, Types
  <2>2. f.cls \in Classes
    BY <2>1 DEF Frames
  <2>3. /\ Local(u, f)
        /\ f.label = "mark" => Ready(u, Super[f.cls])
                               \/ (i > 1 /\ stack[u][i - 1].cls = Super[f.cls])
        /\ i > 1 => f.label \in {"mark", "initialize"}
        /\ \A j \in 1 .. Len(stack[u]) :
             j # i /\ Works(f) /\ Works(stack[u][j]) => stack[u][j].cls # f.cls
    BY <1>1, <2>1 DEF Frame
  <2>4. Local(u, f)'
    <3>1. f.label = "other2" => Initialized(f.cls)'
      BY <2>2, <2>3, StillInitialized DEF Local
    <3> QED
      BY <2>2, <2>3, <3>1 DEF Local, Grow
  <2>5. Ready(u, Super[f.cls]) => Ready(u, Super[f.cls])'
    BY <1>2, <2>2, StillInitialized DEF Ready
  <2>6. stack'[u][i] = f
    BY <2>1
  <2>7. Local(u, stack[u][i])' <=> Local(u, f)'
    BY <2>6 DEF Local, Queued
  <2>8. Ready(u, Super[stack[u][i].cls])' <=> Ready(u, Super[f.cls])'
    BY <2>6 DEF Ready, Initialized
  <2> QED
    BY <2>3, <2>4, <2>5, <2>6, <2>7, <2>8 DEF Frame
<1> QED
  BY <1>3, <1>4 DEF Thread

\* What the calls below the top of a thread rely on stays.
Keeps(t) ==
  /\ \A c \in Classes \cup {NoClass} : Ready(t, c) => Ready(t, c)'
  /\ \A i \in 2 .. Len(stack[t]) : Works(stack[t][i]) =>
       \E c \in Classes : /\ c = stack[t][i].cls /\ c \in mine'[t] /\ ~Queued(c)'
                          /\ c \notin Range(finishing'[t])

\* A call below the top, in its new place.
LEMMA BelowKeeps ==
  ASSUME IInv, Grow, NEW t \in Threads, Keeps(t), NEW i \in 2 .. Len(stack[t]), NEW f \in Frames,
         f = stack[t][i]
  PROVE  /\ Local(t, f)' /\ f.cls \in Classes /\ f.label \in {"mark", "initialize"}
         /\ f.label = "mark" => Ready(t, Super[f.cls])' \/ stack[t][i - 1].cls = Super[f.cls]
         /\ \A j \in 1 .. Len(stack[t]) :
              j # i /\ Works(f) /\ Works(stack[t][j]) => stack[t][j].cls # f.cls
<1>1. i \in 1 .. Len(stack[t]) /\ i > 1
  <2>1. Len(stack[t]) \in Nat
    BY LenProperties DEF IInv, Types
  <2> QED
    BY <2>1
<1>2. Frame(t, i)
  BY <1>1 DEF IInv, Thread
<1>3. f.cls \in Classes /\ Super[f.cls] \in Classes \cup {NoClass}
  BY InitializeAssumption DEF Frames
<1>4. Local(t, f)'
  BY <1>2, <1>3 DEF Frame, Local, Keeps, Grow
<1> QED
  BY <1>1, <1>2, <1>3, <1>4 DEF Frame, Keeps

\* The calls of a thread when its top changes.
LEMMA NewTopKeeps ==
  ASSUME IInv, Grow, NEW t \in Threads, stack[t] # <<>>, Keeps(t), NEW f \in Frames,
         NewTop(t, f), f.cls = Cls(t), Local(t, f)', f.label = "mark" => Ready(t, Super[f.cls])',
         Works(f) => \A j \in 2 .. Len(stack[t]) : Works(stack[t][j]) => stack[t][j].cls # f.cls
  PROVE  \A i \in 1 .. Len(stack'[t]) : Frame(t, i)'
<1> SUFFICES ASSUME NEW i \in 1 .. Len(stack'[t])
             PROVE  Frame(t, i)'
  OBVIOUS
<1>1. /\ Len(stack[t]) \in Nat /\ Len(stack'[t]) = Len(stack[t]) /\ Cls(t) = stack[t][1].cls
      /\ \A j \in 1 .. Len(stack[t]) : stack[t][j] \in Frames
  BY TopOf DEF NewTop
<1>2. stack'[t][1] = f /\ \A j \in 2 .. Len(stack[t]) : stack'[t][j] = stack[t][j]
  BY DEF NewTop
<1>3. CASE i = 1
  <2>1. \A j \in 1 .. Len(stack'[t]) :
          j # i /\ Works(f) /\ Works(stack'[t][j]) => stack'[t][j].cls # f.cls
    BY <1>1, <1>2, <1>3
  <2>2. Local(t, stack[t][i])' <=> Local(t, f)'
    BY <1>2, <1>3 DEF Local, Queued
  <2>3. Ready(t, Super[stack[t][i].cls])' <=> Ready(t, Super[f.cls])'
    BY <1>2, <1>3 DEF Ready, Initialized
  <2> QED
    BY <1>2, <1>3, <2>1, <2>2, <2>3 DEF Frame
<1>4. CASE i # 1
  <2>1. i \in 2 .. Len(stack[t]) /\ i > 1
    BY <1>1, <1>4
  <2>2. PICK g \in Frames : g = stack[t][i]
    BY <1>1
  <2>3. stack'[t][i] = g
    BY <1>2, <2>1, <2>2
  <2>4. /\ Local(t, g)' /\ g.label \in {"mark", "initialize"}
        /\ g.label = "mark" => Ready(t, Super[g.cls])' \/ stack[t][i - 1].cls = Super[g.cls]
        /\ \A j \in 1 .. Len(stack[t]) :
             j # i /\ Works(g) /\ Works(stack[t][j]) => stack[t][j].cls # g.cls
    BY <2>1, <2>2, BelowKeeps
  <2>5. stack'[t][i - 1].cls = stack[t][i - 1].cls
    <3>1. i - 1 = 1 \/ i - 1 \in 2 .. Len(stack[t])
      BY <1>1, <2>1
    <3> QED
      BY <1>1, <1>2, <3>1
  <2>6. ASSUME NEW j \in 1 .. Len(stack'[t]), j # i, Works(g), Works(stack'[t][j])
        PROVE  stack'[t][j].cls # g.cls
    <3>1. CASE j = 1
      BY <1>2, <2>1, <2>2, <2>6, <3>1
    <3>2. CASE j # 1
      BY <1>1, <1>2, <2>4, <2>6, <3>2
    <3> QED
      BY <3>1, <3>2
  <2>7. Local(t, stack[t][i])' <=> Local(t, g)'
    BY <2>3 DEF Local, Queued
  <2>8. Ready(t, Super[stack[t][i].cls])' <=> Ready(t, Super[g.cls])'
    BY <2>3 DEF Ready, Initialized
  <2> QED
    BY <2>1, <2>3, <2>4, <2>5, <2>6, <2>7, <2>8 DEF Frame
<1> QED
  BY <1>3, <1>4

\* The calls of a thread when the innermost returns, for a class it may rely on.
LEMMA PoppedKeeps ==
  ASSUME IInv, Grow, NEW t \in Threads, stack[t] # <<>>, Keeps(t), Popped(t),
         NEW c \in Classes, c = Cls(t), Ready(t, c)'
  PROVE  /\ \A i \in 1 .. Len(stack'[t]) : Frame(t, i)'
         /\ ~At(t, "finishing")'
<1>1. /\ Len(stack[t]) \in Nat /\ Len(stack'[t]) = Len(stack[t]) - 1
      /\ Cls(t) = stack[t][1].cls /\ Len(stack[t]) >= 1
      /\ \A j \in 1 .. Len(stack[t]) : stack[t][j] \in Frames
  BY TopOf DEF Popped
<1>2. \A j \in 1 .. Len(stack[t]) - 1 : stack'[t][j] = stack[t][j + 1]
  BY DEF Popped
<1>3. ASSUME NEW i \in 1 .. Len(stack'[t])
      PROVE  Frame(t, i)' /\ stack'[t][i].label # "finishing"
  <2>1. i + 1 \in 2 .. Len(stack[t]) /\ (i + 1) - 1 = i /\ i \in 1 .. Len(stack[t]) - 1
    BY <1>1
  <2>2. PICK g \in Frames : g = stack[t][i + 1]
    BY <1>1, <2>1
  <2>3. stack'[t][i] = g
    BY <1>2, <2>1, <2>2
  <2>4. /\ Local(t, g)' /\ g.label \in {"mark", "initialize"}
        /\ g.label = "mark" => Ready(t, Super[g.cls])' \/ stack[t][i].cls = Super[g.cls]
        /\ \A j \in 1 .. Len(stack[t]) :
             j # i + 1 /\ Works(g) /\ Works(stack[t][j]) => stack[t][j].cls # g.cls
    <3>1. PICK k : k = i + 1 /\ k \in 2 .. Len(stack[t]) /\ k - 1 = i /\ stack[t][k] = g
      BY <2>1, <2>2
    <3>2. /\ Local(t, g)' /\ g.label \in {"mark", "initialize"}
          /\ g.label = "mark" => Ready(t, Super[g.cls])' \/ stack[t][k - 1].cls = Super[g.cls]
          /\ \A j \in 1 .. Len(stack[t]) :
               j # k /\ Works(g) /\ Works(stack[t][j]) => stack[t][j].cls # g.cls
      BY <3>1, BelowKeeps
    <3> QED
      BY <3>1, <3>2
  <2>5. g.label = "mark" => Ready(t, Super[g.cls])'
                            \/ (i > 1 /\ stack'[t][i - 1].cls = Super[g.cls])
    <3>1. CASE i = 1
      BY <1>1, <2>4, <3>1
    <3>2. CASE i # 1
      <4>1. i - 1 \in 1 .. Len(stack[t]) - 1 /\ (i - 1) + 1 = i /\ i > 1
        BY <1>1, <2>1, <3>2
      <4> QED
        BY <1>2, <2>4, <4>1
    <3> QED
      BY <3>1, <3>2
  <2>6. ASSUME NEW j \in 1 .. Len(stack'[t]), j # i, Works(g), Works(stack'[t][j])
        PROVE  stack'[t][j].cls # g.cls
    <3>1. j + 1 \in 1 .. Len(stack[t]) /\ j + 1 # i + 1 /\ j \in 1 .. Len(stack[t]) - 1
      BY <1>1, <2>6
    <3> QED
      BY <1>2, <2>4, <2>6, <3>1
  <2>7. Local(t, stack[t][i])' <=> Local(t, g)'
    BY <2>3 DEF Local, Queued
  <2>8. Ready(t, Super[stack[t][i].cls])' <=> Ready(t, Super[g.cls])'
    BY <2>3 DEF Ready, Initialized
  <2> QED
    BY <2>3, <2>4, <2>5, <2>6, <2>7, <2>8 DEF Frame
<1>4. ~At(t, "finishing")'
  <2>1. SUFFICES ASSUME stack'[t] # <<>>
                 PROVE  Head(stack'[t]).label # "finishing"
    BY DEF At
  <2>2. stack'[t] \in Seq(Frames)
    BY DEF Popped
  <2>3. Head(stack'[t]) = stack'[t][1] /\ Len(stack'[t]) \in Nat /\ Len(stack'[t]) >= 1
    BY <2>1, <2>2, HeadTailFacts
  <2> QED
    BY <1>3, <2>3
<1> QED
  BY <1>3, <1>4

\* The calls of a thread when the innermost makes another.
LEMMA PushedKeeps ==
  ASSUME IInv, Grow, NEW t \in Threads, stack[t] # <<>>, Keeps(t), NEW g \in Frames,
         NEW f \in Frames, Pushed(t, g, f), f.label = "start", g.cls = Cls(t), Local(t, g)',
         \/ g.label = "mark" /\ f.cls = Super[g.cls]
         \/ g.label = "initialize" /\ stack[t][1].label = "initialize"
  PROVE  \A i \in 1 .. Len(stack'[t]) : Frame(t, i)'
<1> SUFFICES ASSUME NEW i \in 1 .. Len(stack'[t])
             PROVE  Frame(t, i)'
  OBVIOUS
<1>1. /\ Len(stack[t]) \in Nat /\ Len(stack'[t]) = Len(stack[t]) + 1 /\ Len(stack[t]) >= 1
      /\ Cls(t) = stack[t][1].cls
      /\ \A j \in 1 .. Len(stack[t]) : stack[t][j] \in Frames
  BY TopOf DEF Pushed
<1>2. /\ stack'[t][1] = f /\ stack'[t][2] = g
      /\ \A j \in 3 .. Len(stack[t]) + 1 : stack'[t][j] = stack[t][j - 1]
  BY DEF Pushed
<1>w. ~Works(f) /\ (Works(g) => Works(stack[t][1]))
  BY DEF Works
<1>3. CASE i = 1
  <2>1. Local(t, stack[t][i])'
    BY <1>2, <1>3, <1>w DEF Local, Works
  <2> QED
    BY <1>2, <1>3, <1>w, <2>1 DEF Frame
<1>4. CASE i = 2
  <2>1. Local(t, stack[t][i])' <=> Local(t, g)'
    BY <1>2, <1>4 DEF Local, Queued
  <2>2. ASSUME NEW j \in 1 .. Len(stack'[t]), j # i, Works(g), Works(stack'[t][j])
        PROVE  stack'[t][j].cls # g.cls
    <3>1. j # 1
      BY <1>2, <1>w, <2>2
    <3>2. j - 1 \in 2 .. Len(stack[t]) /\ j \in 3 .. Len(stack[t]) + 1
      BY <1>1, <1>4, <2>2, <3>1
    <3>3. 1 \in 1 .. Len(stack[t]) /\ j - 1 \in 1 .. Len(stack[t]) /\ j - 1 # 1
      BY <1>1, <3>2
    <3>4. Frame(t, 1)
      BY <3>3 DEF IInv, Thread
    <3> QED
      BY <1>1, <1>2, <1>w, <2>2, <3>2, <3>3, <3>4 DEF Frame
  <2> QED
    BY <1>2, <1>4, <2>1, <2>2 DEF Frame
<1>5. CASE i # 1 /\ i # 2
  <2>1. /\ i - 1 \in 2 .. Len(stack[t]) /\ i > 1 /\ i \in 3 .. Len(stack[t]) + 1
        /\ i - 1 \in 1 .. Len(stack[t])
    BY <1>1, <1>5
  <2>2. PICK h \in Frames : h = stack[t][i - 1]
    BY <1>1, <2>1
  <2>3. stack'[t][i] = h
    BY <1>2, <2>1, <2>2
  <2>4. /\ Local(t, h)' /\ h.label \in {"mark", "initialize"}
        /\ h.label = "mark" => Ready(t, Super[h.cls])' \/ stack[t][(i - 1) - 1].cls = Super[h.cls]
        /\ \A j \in 1 .. Len(stack[t]) :
             j # i - 1 /\ Works(h) /\ Works(stack[t][j]) => stack[t][j].cls # h.cls
    BY <2>1, <2>2, BelowKeeps
  <2>5. stack'[t][i - 1].cls = stack[t][(i - 1) - 1].cls
    <3>1. CASE i = 3
      BY <1>1, <1>2, <3>1
    <3>2. CASE i # 3
      <4>1. i - 1 \in 3 .. Len(stack[t]) + 1
        BY <1>1, <2>1, <3>2
      <4> QED
        BY <1>2, <4>1
    <3> QED
      BY <3>1, <3>2
  <2>6. ASSUME NEW j \in 1 .. Len(stack'[t]), j # i, Works(h), Works(stack'[t][j])
        PROVE  stack'[t][j].cls # h.cls
    <3>1. j # 1
      BY <1>2, <1>w, <2>6
    <3>2. CASE j = 2
      <4>1. Works(stack[t][1]) /\ 1 \in 1 .. Len(stack[t]) /\ 1 # i - 1
        BY <1>1, <1>2, <1>w, <1>5, <2>6, <3>2
      <4> QED
        BY <1>1, <1>2, <2>4, <2>6, <3>2, <4>1
    <3>3. CASE j # 2
      <4>1. j \in 3 .. Len(stack[t]) + 1 /\ j - 1 \in 1 .. Len(stack[t]) /\ j - 1 # i - 1
        BY <1>1, <2>6, <3>1, <3>3
      <4> QED
        BY <1>2, <2>4, <2>6, <4>1
    <3> QED
      BY <3>2, <3>3
  <2>7. Local(t, stack[t][i])' <=> Local(t, h)'
    BY <2>3 DEF Local, Queued
  <2>8. Ready(t, Super[stack[t][i].cls])' <=> Ready(t, Super[h.cls])'
    BY <2>3 DEF Ready, Initialized
  <2> QED
    BY <2>1, <2>3, <2>4, <2>5, <2>6, <2>7, <2>8 DEF Frame
<1> QED
  BY <1>3, <1>4, <1>5

-----------------------------------------------------------------------------
(* The steps that change nothing but the thread's stack, or who is asleep  *)

\* Nothing else changes.
Quiet ==
  /\ flags' = flags /\ mine' = mine /\ pending' = pending /\ finishing' = finishing
  /\ lock' = lock

\* Such a step keeps what the threads share.
LEMMA QuietShares ==
  ASSUME IInv, Quiet, NEW t \in Threads
  PROVE  /\ Grow /\ Keeps(t) /\ Owned' /\ Pending'
         /\ \A c : Queued(c)' <=> Queued(c)
         /\ \A f \in Frames : Local(t, f)' <=> Local(t, f)
         /\ \A c : Ready(t, c)' <=> Ready(t, c)
<1>1. Grow /\ \A c : Queued(c)' <=> Queued(c)
  <2>1. \A c : Queued(c)' <=> Queued(c)
    BY DEF Quiet, Queued
  <2>2. \A c \in Classes : Initialized(c) => "initialized" \in flags[c]
    BY InitializeAssumption DEF Initialized
  <2> QED
    BY <2>1, <2>2 DEF Quiet, Grow
<1>2. \A u \in Threads : \A c : Ready(u, c)' <=> Ready(u, c)
  BY DEF Quiet, Ready, Initialized
<1>3. \A f \in Frames : Local(t, f)' <=> Local(t, f)
  BY <1>1 DEF Quiet, Local, Initialized
<1>4. Keeps(t)
  <2>1. ASSUME NEW i \in 2 .. Len(stack[t]), Works(stack[t][i])
        PROVE  \E c \in Classes : /\ c = stack[t][i].cls /\ c \in mine'[t] /\ ~Queued(c)'
                                  /\ c \notin Range(finishing'[t])
    <3>1. Len(stack[t]) \in Nat
      BY LenProperties DEF IInv, Types
    <3>2. i \in 1 .. Len(stack[t]) /\ stack[t][i] \in Frames
      BY <3>1, ElementOfSeq DEF IInv, Types
    <3>3. Local(t, stack[t][i])
      BY <3>2 DEF IInv, Thread, Frame
    <3> QED
      BY <1>1, <2>1, <3>2, <3>3 DEF Local, Quiet, Frames
  <2> QED
    BY <1>2, <2>1 DEF Keeps
<1>5. Owned'
  BY <1>2 DEF IInv, Owned, Quiet
<1>6. Pending'
  BY DEF IInv, Pending, Quiet, Initialized
<1> QED
  BY <1>1, <1>2, <1>3, <1>4, <1>5, <1>6

\* And the invariant, if the thread's own calls are right.
LEMMA QuietKeeps ==
  ASSUME IInv, Quiet, NEW t \in Threads, OthersSame(t), stack' \in [Threads -> Seq(Frames)],
         asleep' \in SUBSET Threads, ~At(t, "finishing"), ~At(t, "finishing")',
         \A i \in 1 .. Len(stack'[t]) : Frame(t, i)'
  PROVE  IInv'
<1>1. Grow /\ Owned' /\ Pending' /\ \A c : Queued(c)' <=> Queued(c)
  BY QuietShares
<1>2. Types'
  BY DEF IInv, Types, Quiet
<1>3. Thread(t)'
  <2>1. finishing'[t] = <<>>
    BY DEF IInv, Thread, Marking, Quiet
  <2>2. Range(finishing'[t]) = {} /\ IsInjective(finishing'[t])
    BY <2>1, <1>2, RangeFacts, EmptySeq DEF Types
  <2> QED
    BY <2>1, <2>2 DEF Thread, Marking
<1>4. ASSUME NEW u \in Threads, u # t
      PROVE  Thread(u)'
  BY <1>1, <1>4, OthersKeep DEF OthersSame, Quiet
<1> QED
  BY <1>1, <1>2, <1>3, <1>4 DEF IInv

\* The innermost call of a thread, and what it knows.
LEMMA TopFrame ==
  ASSUME IInv, NEW t \in Threads, stack[t] # <<>>
  PROVE  \E f \in Frames :
           /\ f = stack[t][1] /\ f.cls = Cls(t) /\ f.cls \in Classes /\ Local(t, f)
           /\ \A label : At(t, label) <=> f.label = label
           /\ f.label = "mark" => Ready(t, Super[f.cls])
           /\ Works(f) => \A j \in 2 .. Len(stack[t]) :
                            Works(stack[t][j]) => stack[t][j].cls # f.cls
<1>1. /\ stack[t][1] \in Frames /\ 1 \in 1 .. Len(stack[t]) /\ Len(stack[t]) \in Nat
      /\ Cls(t) = stack[t][1].cls /\ Cls(t) \in Classes
      /\ \A label : At(t, label) <=> stack[t][1].label = label
  BY TopOf
<1>2. Frame(t, 1)
  BY <1>1 DEF IInv, Thread
<1> QED
  BY <1>1, <1>2 DEF Frame

\* A quiet step that only changes the top, to a place that relies on no more.
LEMMA QuietTop ==
  ASSUME IInv, Quiet, asleep' \in SUBSET Threads, NEW t \in Threads, stack[t] # <<>>,
         ~At(t, "finishing"), NEW f \in Frames, NewTop(t, f), f.cls = Cls(t),
         f.label # "finishing", Local(t, f), f.label = "mark" => Ready(t, Super[f.cls]),
         Works(f) => Works(stack[t][1])
  PROVE  IInv'
<1>1. /\ Grow /\ Keeps(t) /\ Local(t, f)'
      /\ f.label = "mark" => Ready(t, Super[f.cls])'
  BY QuietShares
<1>2. Works(f) => \A j \in 2 .. Len(stack[t]) : Works(stack[t][j]) => stack[t][j].cls # f.cls
  BY TopFrame
<1>3. \A i \in 1 .. Len(stack'[t]) : Frame(t, i)'
  BY <1>1, <1>2, NewTopKeeps
<1>4. ~At(t, "finishing")'
  <2>1. stack'[t] \in Seq(Frames) /\ stack'[t] # <<>> /\ stack'[t][1] = f
    BY DEF NewTop
  <2>2. Head(stack'[t]) = f
    BY <2>1, HeadTailFacts
  <2> QED
    BY <2>2 DEF At
<1> QED
  BY <1>3, <1>4, QuietKeeps DEF NewTop

\* A quiet step that only returns, from the call of a class the thread may rely on.
LEMMA QuietPop ==
  ASSUME IInv, Quiet, asleep' \in SUBSET Threads, NEW t \in Threads, stack[t] # <<>>,
         ~At(t, "finishing"), Popped(t), Ready(t, Cls(t))
  PROVE  IInv'
<1>1. PICK c \in Classes : c = Cls(t)
  BY TopOf
<1>2. Grow /\ Keeps(t) /\ Ready(t, c)'
  BY <1>1, QuietShares
<1>3. (\A i \in 1 .. Len(stack'[t]) : Frame(t, i)') /\ ~At(t, "finishing")'
  BY <1>1, <1>2, PoppedKeeps
<1> QED
  BY <1>3, QuietKeeps DEF Popped

\* A quiet step that only calls.
LEMMA QuietPush ==
  ASSUME IInv, Quiet, asleep' \in SUBSET Threads, NEW t \in Threads, stack[t] # <<>>,
         ~At(t, "finishing"), NEW g \in Frames, NEW f \in Frames, Pushed(t, g, f),
         f.label = "start", g.cls = Cls(t), Local(t, g),
         \/ g.label = "mark" /\ f.cls = Super[g.cls]
         \/ g.label = "initialize" /\ stack[t][1].label = "initialize"
  PROVE  IInv'
<1>1. Grow /\ Keeps(t) /\ Local(t, g)'
  BY QuietShares
<1>2. \A i \in 1 .. Len(stack'[t]) : Frame(t, i)'
  BY <1>1, PushedKeeps
<1>3. ~At(t, "finishing")'
  <2>1. stack'[t] \in Seq(Frames) /\ stack'[t] # <<>> /\ stack'[t][1] = f
    BY DEF Pushed
  <2>2. Head(stack'[t]) = f
    BY <2>1, HeadTailFacts
  <2> QED
    BY <2>2 DEF At
<1> QED
  BY <1>2, <1>3, QuietKeeps DEF Pushed

\* Message keeps the invariant.
LEMMA MessageKeeps ==
  ASSUME IInv, NEW t \in Threads, NEW c \in Classes, Message(t, c)
  PROVE  IInv'
<1> DEFINE f == [cls |-> c, label |-> "start", toSend |-> Sends[c]]
<1>1. stack[t] = <<>> /\ Quiet /\ asleep' = asleep /\ Call(t, c, <<>>)
  BY DEF Message, Quiet
<1>2. f \in Frames /\ f.label = "start"
  BY InitializeAssumption DEF Frames, Labels
<1>3. stack' = [stack EXCEPT ![t] = <<f>> \o <<>>]
  BY <1>1 DEF Call
<1> HIDE DEF f
<1>4. /\ <<f>> \o <<>> \in Seq(Frames) /\ Len(<<f>> \o <<>>) = 1 /\ (<<f>> \o <<>>)[1] = f
      /\ Head(<<f>> \o <<>>) = f
  <2>1. <<>> \in Seq(Frames) /\ Len(<<>>) = 0
    BY EmptySeq
  <2> QED
    BY <1>2, <2>1, ConsFacts
<1>5. /\ stack' \in [Threads -> Seq(Frames)] /\ OthersSame(t) /\ Len(stack'[t]) = 1
      /\ stack'[t][1] = f /\ Head(stack'[t]) = f
  BY <1>3, <1>4 DEF OthersSame, IInv, Types
<1>6. \A i \in 1 .. Len(stack'[t]) : Frame(t, i)'
  BY <1>2, <1>5 DEF Frame, Local, Works
<1>7. ~At(t, "finishing") /\ ~At(t, "finishing")'
  BY <1>1, <1>2, <1>5 DEF At
<1> QED
  BY <1>1, <1>5, <1>6, <1>7, QuietKeeps DEF IInv, Types

\* Send keeps the invariant.
LEMMA SendKeeps ==
  ASSUME IInv, NEW t \in Threads, NEW c \in Classes, Send(t, c)
  PROVE  IInv'
<1>1. PICK f \in Frames :
           /\ f = stack[t][1] /\ f.cls = Cls(t) /\ f.cls \in Classes /\ Local(t, f)
           /\ \A label : At(t, label) <=> f.label = label
  BY TopFrame DEF Send, At
<1>2. stack[t] # <<>> /\ Quiet /\ asleep' \in SUBSET Threads /\ f.label = "initialize"
      /\ Head(stack[t]) = f
  BY <1>1, TopOf DEF Send, Quiet, At, IInv, Types
<1> DEFINE g == [f EXCEPT !.toSend = @ \ {c}]
<1>3. g \in Frames /\ g.cls = f.cls /\ g.label = f.label
  BY <1>1 DEF Frames
<1>4. IF Initialized(c) THEN stack' = [stack EXCEPT ![t] = <<g>> \o Tail(stack[t])]
      ELSE Call(t, c, <<g>> \o Tail(stack[t]))
  BY <1>2 DEF Send
<1> HIDE DEF g
<1>5. Local(t, g)
  BY <1>1, <1>3 DEF Local, Works
<1>6. CASE Initialized(c)
  <2>1. NewTop(t, g)
    <3>1. LET q == <<g>> \o Tail(stack[t]) IN
          /\ q \in Seq(Frames) /\ q # <<>> /\ Len(q) = Len(stack[t]) /\ q[1] = g
          /\ \A i \in 2 .. Len(stack[t]) : q[i] = stack[t][i]
      BY <1>2, <1>3, ReplaceTop
    <3>2. stack' \in [Threads -> Seq(Frames)] /\ OthersSame(t)
          /\ stack'[t] = <<g>> \o Tail(stack[t])
      BY <1>4, <1>6, <3>1 DEF OthersSame, IInv, Types
    <3> QED
      BY <3>1, <3>2 DEF NewTop
  <2> QED
    BY <1>1, <1>2, <1>3, <1>5, <2>1, QuietTop DEF Works
<1>7. CASE ~Initialized(c)
  <2>1. PICK h \in Frames : Pushed(t, g, h) /\ h.cls = c /\ h.label = "start"
    BY <1>2, <1>3, <1>4, <1>7, CallPushes
  <2> QED
    BY <1>1, <1>2, <1>3, <1>5, <2>1, QuietPush
<1> QED
  BY <1>6, <1>7

\* Start keeps the invariant: the superclass is called first unless it is initialized.
LEMMA StartKeeps ==
  ASSUME IInv, NEW t \in Threads, Start(t)
  PROVE  IInv'
<1>1. PICK f \in Frames :
           /\ f = stack[t][1] /\ f.cls = Cls(t) /\ f.cls \in Classes /\ Local(t, f)
           /\ \A label : At(t, label) <=> f.label = label
  BY TopFrame DEF Start, At
<1>2. stack[t] # <<>> /\ Quiet /\ asleep' \in SUBSET Threads /\ f.label = "start"
      /\ Head(stack[t]) = f
  BY <1>1, TopOf DEF Start, Quiet, At, IInv, Types
<1>3. CASE SuperReady(Cls(t))
  <2>1. Goto(t, "mark") /\ "mark" \in Labels
    BY <1>3 DEF Start, Labels
  <2>2. PICK g \in Frames : NewTop(t, g) /\ g.cls = Cls(t) /\ g.label = "mark"
    BY <1>2, <2>1, GotoTop
  <2>3. Local(t, g) /\ Ready(t, Super[g.cls])
    BY <1>3, <2>2 DEF Local, Works, SuperReady, Ready
  <2> QED
    BY <1>1, <1>2, <2>2, <2>3, QuietTop DEF Works
<1>4. CASE ~SuperReady(Cls(t))
  <2> DEFINE g == [f EXCEPT !.label = "mark"]
  <2>1. g \in Frames /\ g.cls = f.cls /\ g.label = "mark"
    BY <1>1 DEF Frames, Labels
  <2>2. Super[Cls(t)] \in Classes
    BY <1>1, <1>4, InitializeAssumption DEF SuperReady, Initialized
  <2>3. Call(t, Super[Cls(t)], <<g>> \o Tail(stack[t]))
    BY <1>2, <1>4 DEF Start
  <2> HIDE DEF g
  <2>4. PICK h \in Frames : Pushed(t, g, h) /\ h.cls = Super[Cls(t)] /\ h.label = "start"
    BY <1>2, <2>1, <2>2, <2>3, CallPushes
  <2>5. Local(t, g)
    BY <2>1 DEF Local, Works
  <2> QED
    BY <1>1, <1>2, <2>1, <2>4, <2>5, QuietPush
<1> QED
  BY <1>3, <1>4

\* Other keeps the invariant.
LEMMA OtherKeeps ==
  ASSUME IInv, NEW t \in Threads, Other(t)
  PROVE  IInv'
<1>1. PICK f \in Frames :
           /\ f = stack[t][1] /\ f.cls = Cls(t) /\ f.cls \in Classes /\ Local(t, f)
           /\ \A label : At(t, label) <=> f.label = label
  BY TopFrame DEF Other, At
<1>2. stack[t] # <<>> /\ Quiet /\ asleep' \in SUBSET Threads /\ f.label = "other"
  BY <1>1 DEF Other, Quiet, At, IInv, Types
<1>3. CASE "initializing" \in flags[Cls(t)] /\ NeedNotWait(t, Cls(t))
  <2>1. Popped(t)
    BY <1>2, <1>3, ReturnPops DEF Other
  <2> QED
    BY <1>1, <1>2, <1>3, <2>1, QuietPop DEF NeedNotWait, Ready
<1>4. ASSUME NEW label \in {"wait", "other2"}, Goto(t, label),
             label = "other2" => Initialized(Cls(t))
      PROVE  IInv'
  <2>1. label \in Labels
    BY DEF Labels
  <2>2. PICK g \in Frames : NewTop(t, g) /\ g.cls = Cls(t) /\ g.label = label
    BY <1>2, <1>4, <2>1, GotoTop
  <2>3. Local(t, g)
    BY <1>1, <1>2, <1>4, <2>2 DEF Local, Works
  <2> QED
    BY <1>1, <1>2, <1>4, <2>2, <2>3, QuietTop DEF Works
<1>5. CASE "initializing" \in flags[Cls(t)] /\ ~NeedNotWait(t, Cls(t))
  BY <1>4, <1>5 DEF Other
<1>6. CASE "initializing" \notin flags[Cls(t)]
  <2>1. flags[Cls(t)] # {} /\ flags[Cls(t)] \in Flags
    BY <1>1, <1>2 DEF Local, IInv, Types
  <2>2. "initialized" \in flags[Cls(t)]
    BY <1>6, <2>1 DEF Flags
  <2> QED
    BY <1>4, <1>6, <2>2 DEF Other, Initialized
<1> QED
  BY <1>3, <1>5, <1>6

\* OtherAgain keeps the invariant.
LEMMA OtherAgainKeeps ==
  ASSUME IInv, NEW t \in Threads, OtherAgain(t)
  PROVE  IInv'
<1>1. PICK f \in Frames :
           /\ f = stack[t][1] /\ f.cls = Cls(t) /\ f.cls \in Classes /\ Local(t, f)
           /\ \A label : At(t, label) <=> f.label = label
  BY TopFrame DEF OtherAgain, At
<1>2. stack[t] # <<>> /\ Quiet /\ asleep' \in SUBSET Threads /\ f.label = "other2"
  BY <1>1 DEF OtherAgain, Quiet, At, IInv, Types
<1>3. Popped(t)
  BY <1>2, ReturnPops DEF OtherAgain
<1> QED
  BY <1>1, <1>2, <1>3, QuietPop DEF OtherAgain, Ready

\* A step that changes no stack keeps the invariant.
LEMMA SameStacksKeep ==
  ASSUME IInv, Quiet, stack' = stack, asleep' \in SUBSET Threads
  PROVE  IInv'
<1>1. Types'
  BY DEF IInv, Types, Quiet
<1>2. ASSUME NEW u \in Threads
      PROVE  Thread(u)' /\ Owned' /\ Pending'
  BY QuietShares, OthersKeep DEF Quiet
<1>3. CASE Threads = {}
  BY <1>1, <1>3 DEF IInv, Owned, Pending, Quiet, Initialized, Ready
<1> QED
  BY <1>1, <1>2, <1>3 DEF IInv

\* Wait, WakeUp and InitializeReturns keep the invariant.
LEMMA WaitKeeps ==
  ASSUME IInv, NEW t \in Threads, Wait(t) \/ WakeUp(t)
  PROVE  IInv'
<1>1. asleep \in SUBSET Threads
  BY DEF IInv, Types
<1>2. CASE WakeUp(t) \/ (Wait(t) /\ ~Initialized(Cls(t)))
  <2>1. Quiet /\ stack' = stack /\ asleep' \in SUBSET Threads
    BY <1>1, <1>2 DEF Wait, WakeUp, Quiet
  <2> QED
    BY <2>1, SameStacksKeep
<1>3. CASE Wait(t) /\ Initialized(Cls(t))
  <2>1. stack[t] # <<>> /\ Quiet /\ asleep' = asleep /\ ~At(t, "finishing") /\ Return(t)
    BY <1>3 DEF Wait, At, Quiet
  <2> QED
    BY <1>1, <1>3, <2>1, ReturnPops, QuietPop DEF Ready
<1> QED
  BY <1>2, <1>3

\* See WaitKeeps.
LEMMA InitializeReturnsKeeps ==
  ASSUME IInv, NEW t \in Threads, InitializeReturns(t)
  PROVE  IInv'
<1>1. PICK f \in Frames :
           /\ f = stack[t][1] /\ f.cls = Cls(t) /\ f.cls \in Classes /\ Local(t, f)
           /\ \A label : At(t, label) <=> f.label = label
  BY TopFrame DEF InitializeReturns, At
<1>2. stack[t] # <<>> /\ Quiet /\ asleep' \in SUBSET Threads /\ f.label = "initialize"
  BY <1>1 DEF InitializeReturns, Quiet, At, IInv, Types
<1>3. Goto(t, "finish") /\ "finish" \in Labels
  BY DEF InitializeReturns, Labels
<1>4. PICK g \in Frames : NewTop(t, g) /\ g.cls = Cls(t) /\ g.label = "finish"
  BY <1>2, <1>3, GotoTop
<1>5. Local(t, g)
  BY <1>1, <1>2, <1>4 DEF Local, Works
<1> QED
  BY <1>1, <1>2, <1>4, <1>5, QuietTop DEF Works


-----------------------------------------------------------------------------
(* The steps that mark a class, or put it off                              *)

\* The initial states.
LEMMA InitKeeps ==
  ASSUME Init
  PROVE  IInv
<1>1. <<>> \in Seq(Classes) /\ <<>> \in Seq(Frames) /\ Len(<<>>) = 0
  BY EmptySeq
<1>2. Range(<<>>) = {} /\ IsInjective(<<>>)
  BY <1>1, RangeFacts
<1>3. Types
  BY <1>1 DEF Init, Types, Flags
<1>4. Owned
  BY DEF Init, Owned
<1>5. Pending /\ \A c : ~Queued(c)
  BY <1>2 DEF Init, Pending, Queued
<1>6. ASSUME NEW t \in Threads
      PROVE  Thread(t)
  BY <1>1, <1>2 DEF Init, Thread, Marking, At
<1> QED
  BY <1>3, <1>4, <1>5, <1>6 DEF IInv

\* What a class that a thread initializes may be.
LEMMA MineFacts ==
  ASSUME IInv, NEW t \in Threads, NEW c \in mine[t]
  PROVE  /\ c \in Classes /\ c # NoClass /\ flags[c] = {"initializing"} /\ ~Initialized(c)
         /\ Super[c] \in Classes \cup {NoClass} /\ Ready(t, Super[c])
         /\ \A u \in Threads \ {t} : c \notin mine[u]
<1>1. c \in Classes /\ c # NoClass /\ Super[c] \in Classes \cup {NoClass}
  BY InitializeAssumption DEF IInv, Types
<1>2. flags[c] = {"initializing"} /\ Ready(t, Super[c])
  BY <1>1 DEF IInv, Owned
<1>3. \A u \in Threads \ {t} : c \notin mine[u]
  BY DEF IInv, Owned
<1> QED
  BY <1>1, <1>2, <1>3 DEF Initialized

\* A class in a list of pendingInitializeMap is being initialized.
LEMMA QueuedFacts ==
  ASSUME IInv, NEW s \in Classes
  PROVE  /\ pending[s] \in Seq(Classes) /\ Range(pending[s]) \in SUBSET Classes
         /\ \A c \in Range(pending[s]) : Queued(c) /\ Super[c] = s /\ flags[c] = {"initializing"}
<1>1. pending[s] \in Seq(Classes)
  BY DEF IInv, Types
<1>2. Range(pending[s]) \in SUBSET Classes
  BY <1>1, RangeFacts
<1> QED
  BY <1>1, <1>2 DEF IInv, Pending, Queued

\* The classes of a thread's calls below the innermost that have begun them.
LEMMA BelowWorks ==
  ASSUME IInv, NEW t \in Threads, NEW i \in 2 .. Len(stack[t]), Works(stack[t][i])
  PROVE  \E d \in Classes : /\ d = stack[t][i].cls /\ d \in mine[t] /\ ~Queued(d)
                            /\ d \notin Range(finishing[t])
<1>1. Len(stack[t]) \in Nat /\ stack[t] \in Seq(Frames)
  BY LenProperties DEF IInv, Types
<1>2. i \in 1 .. Len(stack[t]) /\ stack[t][i] \in Frames
  BY <1>1, ElementOfSeq
<1>3. Local(t, stack[t][i])
  BY <1>2 DEF IInv, Thread, Frame
<1> QED
  BY <1>2, <1>3 DEF Local, Frames

\* Mark keeps the invariant: a class is begun by one thread, whose stack does not hold a
\* call that has begun it already.
LEMMA MarkKeeps ==
  ASSUME IInv, NEW t \in Threads, Mark(t)
  PROVE  IInv'
<1>1. PICK f \in Frames :
           /\ f = stack[t][1] /\ f.cls = Cls(t) /\ f.cls \in Classes /\ Local(t, f)
           /\ \A label : At(t, label) <=> f.label = label
           /\ f.label = "mark" => Ready(t, Super[f.cls])
  BY TopFrame DEF Mark, At
<1>2. /\ stack[t] # <<>> /\ f.label = "mark" /\ ~At(t, "finishing")
      /\ lock' = lock /\ asleep' = asleep /\ pending' = pending /\ finishing' = finishing
      /\ asleep \in SUBSET Threads
  BY <1>1 DEF Mark, At, IInv, Types
<1>3. CASE flags[Cls(t)] # {}
  <2>1. Goto(t, "other") /\ "other" \in Labels /\ Quiet
    BY <1>2, <1>3 DEF Mark, Labels, Quiet
  <2>2. PICK g \in Frames : NewTop(t, g) /\ g.cls = Cls(t) /\ g.label = "other"
    BY <1>2, <2>1, GotoTop
  <2>3. Local(t, g)
    BY <1>3, <2>2 DEF Local, Works
  <2> QED
    BY <1>1, <1>2, <2>1, <2>2, <2>3, QuietTop DEF Works
<1>4. CASE flags[Cls(t)] = {}
  <2>1. PICK c \in Classes : c = Cls(t)
    BY <1>1
  <2>2. /\ flags[c] = {} /\ flags' = [flags EXCEPT ![c] = {"initializing"}]
        /\ mine' = [mine EXCEPT ![t] = @ \cup {c}] /\ Goto(t, "initialize")
        /\ "initialize" \in Labels
    BY <1>4, <2>1 DEF Mark, Labels
  <2>3. PICK g \in Frames : NewTop(t, g) /\ g.cls = c /\ g.label = "initialize"
    BY <1>2, <2>1, <2>2, GotoTop
  <2>4. c # NoClass /\ ~Initialized(c) /\ \A u \in Threads : c \notin mine[u]
    BY <2>2, InitializeAssumption, MineFacts DEF Initialized
  <2>5. \A d : Queued(d)' <=> Queued(d)
    BY <1>2 DEF Queued
  <2>6. ~Queued(c)
    <3>1. ASSUME NEW s \in Classes, c \in Range(pending[s])
          PROVE  FALSE
      <4>1. flags[c] = {"initializing"}
        BY <3>1, QueuedFacts
      <4> QED
        BY <2>2, <4>1
    <3> QED
      BY <3>1 DEF Queued
  <2>7. /\ flags \in [Classes -> Flags] /\ mine \in [Threads -> SUBSET Classes]
        /\ stack \in [Threads -> Seq(Frames)] /\ finishing \in [Threads -> Seq(Classes)]
    BY DEF IInv, Types
  <2>8. Grow
    BY <2>2, <2>4, <2>7, InitializeAssumption DEF Grow, Initialized
  <2>9. mine'[t] = mine[t] \cup {c} /\ \A u \in Threads \ {t} : mine'[u] = mine[u]
    BY <2>2, <2>7
  <2>10. \A u \in Threads, d \in Classes \cup {NoClass} : Ready(u, d) => Ready(u, d)'
    BY <2>8, <2>9, StillInitialized DEF Ready
  <2>11. finishing[t] = <<>> /\ Range(finishing[t]) = {} /\ IsInjective(finishing[t])
    BY <1>2, <2>7, RangeFacts DEF IInv, Thread, Marking
  <2>12. Keeps(t)
    <3>1. ASSUME NEW i \in 2 .. Len(stack[t]), Works(stack[t][i])
          PROVE  \E d \in Classes : /\ d = stack[t][i].cls /\ d \in mine'[t] /\ ~Queued(d)'
                                    /\ d \notin Range(finishing'[t]) /\ d # c
      <4>1. PICK d \in Classes : /\ d = stack[t][i].cls /\ d \in mine[t] /\ ~Queued(d)
                                 /\ d \notin Range(finishing[t])
        BY <3>1, BelowWorks
      <4> QED
        BY <1>2, <2>4, <2>5, <2>9, <4>1
    <3> QED
      BY <2>10, <3>1 DEF Keeps
  <2>13. Local(t, g)'
    BY <1>2, <2>3, <2>5, <2>6, <2>9, <2>11 DEF Local, Works
  <2>14. \A j \in 2 .. Len(stack[t]) : Works(stack[t][j]) => stack[t][j].cls # g.cls
    <3>1. ASSUME NEW j \in 2 .. Len(stack[t]), Works(stack[t][j])
          PROVE  stack[t][j].cls \in mine[t]
      BY <3>1, BelowWorks
    <3> QED
      BY <2>3, <2>4, <3>1
  <2>15. \A i \in 1 .. Len(stack'[t]) : Frame(t, i)'
    BY <1>2, <2>1, <2>3, <2>8, <2>12, <2>13, <2>14, NewTopKeeps
  <2>16. Types'
    BY <1>2, <2>2, <2>3, <2>7 DEF NewTop, IInv, Types, Flags
  <2>17. Owned'
    <3>1. ASSUME NEW d \in Classes
          PROVE  flags'[d] = {"initializing"} <=> \E u \in Threads : d \in mine'[u]
      <4>1. CASE d = c
        BY <2>2, <2>7, <2>9, <4>1
      <4>2. CASE d # c
        BY <2>2, <2>7, <2>9, <4>2 DEF IInv, Owned
      <4> QED
        BY <4>1, <4>2
    <3>2. \A u, v \in Threads : u # v => mine'[u] \cap mine'[v] = {}
      BY <2>4, <2>9 DEF IInv, Owned
    <3>3. ASSUME NEW u \in Threads, NEW d \in mine'[u]
          PROVE  Ready(u, Super[d])'
      <4>1. CASE d \in mine[u]
        BY <2>10, <4>1, MineFacts
      <4>2. CASE d \notin mine[u]
        <5>1. u = t /\ d = c
          BY <2>9, <3>3, <4>2
        <5>2. Ready(t, Super[c]) /\ Super[c] \in Classes \cup {NoClass}
          BY <1>1, <1>2, <2>1, InitializeAssumption
        <5> QED
          BY <2>10, <5>1, <5>2
      <4> QED
        BY <4>1, <4>2
    <3> QED
      BY <3>1, <3>2, <3>3 DEF Owned
  <2>18. Pending'
    <3>1. ASSUME NEW s \in Classes
          PROVE  Initialized(s)' => Initialized(s)
      BY <2>2, <2>7, InitializeAssumption DEF Initialized
    <3>2. ASSUME NEW s \in Classes, NEW d \in Range(pending[s])
          PROVE  Super[d] = s /\ flags'[d] = {"initializing"}
      BY <2>2, <2>7, QueuedFacts
    <3> QED
      BY <1>2, <3>1, <3>2 DEF IInv, Pending
  <2>19. Thread(t)'
    <3>1. ~At(t, "finishing")'
      <4>1. stack'[t] \in Seq(Frames) /\ stack'[t] # <<>> /\ stack'[t][1] = g
        BY <2>3 DEF NewTop
      <4>2. Head(stack'[t]) = g
        BY <4>1, HeadTailFacts
      <4> QED
        BY <2>3, <4>2 DEF At
    <3> QED
      BY <1>2, <2>11, <2>15, <3>1 DEF Thread, Marking
  <2>20. ASSUME NEW u \in Threads, u # t
         PROVE  Thread(u)'
    BY <1>2, <2>3, <2>5, <2>8, <2>9, <2>20, OthersKeep DEF NewTop, OthersSame
  <2> QED
    BY <2>16, <2>17, <2>18, <2>19, <2>20 DEF IInv
<1> QED
  BY <1>3, <1>4

\* FinishNow keeps the invariant: the class is the first that the thread marks.
LEMMA FinishNowKeeps ==
  ASSUME IInv, NEW t \in Threads, FinishNow(t)
  PROVE  IInv'
<1>1. PICK f \in Frames :
           /\ f = stack[t][1] /\ f.cls = Cls(t) /\ f.cls \in Classes /\ Local(t, f)
           /\ \A label : At(t, label) <=> f.label = label
           /\ Works(f) => \A j \in 2 .. Len(stack[t]) :
                            Works(stack[t][j]) => stack[t][j].cls # f.cls
  BY TopFrame DEF FinishNow, At
<1>2. PICK c \in Classes : c = Cls(t)
  BY <1>1
<1>3. /\ stack[t] # <<>> /\ f.label = "finish" /\ Works(f)
      /\ flags' = flags /\ asleep' = asleep /\ pending' = pending /\ mine' = mine
      /\ lock' = t /\ finishing' = [finishing EXCEPT ![t] = <<c>>] /\ Goto(t, "finishing")
      /\ Initialized(Super[c]) /\ "finishing" \in Labels
  BY <1>1, <1>2 DEF FinishNow, At, Works, Labels
<1>4. c \in mine[t] /\ ~Queued(c)
  BY <1>1, <1>2, <1>3 DEF Local
<1>5. PICK g \in Frames : NewTop(t, g) /\ g.cls = c /\ g.label = "finishing"
  BY <1>2, <1>3, GotoTop
<1>6. \A d : Queued(d)' <=> Queued(d)
  BY <1>3 DEF Queued
<1>7. finishing \in [Threads -> Seq(Classes)]
  BY DEF IInv, Types
<1>8. /\ <<c>> \in Seq(Classes) /\ <<c>> # <<>> /\ Range(<<c>>) = {c} /\ IsInjective(<<c>>)
      /\ Head(<<c>>) = c
  BY OneElement
<1>9. finishing'[t] = <<c>> /\ \A u \in Threads \ {t} : finishing'[u] = finishing[u]
  BY <1>3, <1>7
<1>10. Grow
  BY <1>3, InitializeAssumption DEF Grow, Initialized
<1>11. \A u \in Threads, d \in Classes \cup {NoClass} : Ready(u, d)' <=> Ready(u, d)
  BY <1>3 DEF Ready, Initialized
<1>12. Keeps(t)
  <2>1. ASSUME NEW i \in 2 .. Len(stack[t]), Works(stack[t][i])
        PROVE  \E d \in Classes : /\ d = stack[t][i].cls /\ d \in mine'[t] /\ ~Queued(d)'
                                  /\ d \notin Range(finishing'[t])
    <3>1. PICK d \in Classes : d = stack[t][i].cls /\ d \in mine[t] /\ ~Queued(d)
      BY <2>1, BelowWorks
    <3>2. d # c
      BY <1>1, <1>2, <1>3, <2>1, <3>1
    <3> QED
      BY <1>3, <1>6, <1>8, <1>9, <3>1, <3>2
  <2> QED
    BY <1>11, <2>1 DEF Keeps
<1>13. Local(t, g)'
  BY <1>5 DEF Local, Works
<1>14. \A i \in 1 .. Len(stack'[t]) : Frame(t, i)'
  BY <1>2, <1>3, <1>5, <1>10, <1>12, <1>13, NewTopKeeps DEF Works
<1>15. Types'
  BY <1>3, <1>5, <1>7, <1>8 DEF NewTop, IInv, Types
<1>16. Owned'
  BY <1>3 DEF IInv, Owned, Ready, Initialized
<1>17. Pending'
  BY <1>3 DEF IInv, Pending, Initialized
<1>18. Thread(t)'
  <2>1. At(t, "finishing")' /\ Cls(t)' = c
    <3>1. stack'[t] \in Seq(Frames) /\ stack'[t] # <<>> /\ stack'[t][1] = g
      BY <1>5 DEF NewTop
    <3>2. Head(stack'[t]) = g
      BY <3>1, HeadTailFacts
    <3> QED
      BY <1>5, <3>1, <3>2 DEF At, Cls
  <2>2. \A d \in Range(finishing'[t]) : d \in mine'[t] /\ Initialized(Super[d])' /\ ~Queued(d)'
    BY <1>3, <1>4, <1>6, <1>8, <1>9 DEF Initialized
  <2>3. Marking(t)'
    BY <1>8, <1>9, <2>1, <2>2 DEF Marking
  <2> QED
    BY <1>14, <2>3 DEF Thread
<1>19. ASSUME NEW u \in Threads, u # t
       PROVE  Thread(u)'
  BY <1>3, <1>5, <1>6, <1>9, <1>10, <1>19, OthersKeep DEF NewTop, OthersSame
<1> QED
  BY <1>15, <1>16, <1>17, <1>18, <1>19 DEF IInv

\* FinishAfter keeps the invariant: the class goes into the list of a superclass that the
\* thread itself is initializing.
LEMMA FinishAfterKeeps ==
  ASSUME IInv, NEW t \in Threads, FinishAfter(t)
  PROVE  IInv'
<1>1. PICK f \in Frames :
           /\ f = stack[t][1] /\ f.cls = Cls(t) /\ f.cls \in Classes /\ Local(t, f)
           /\ \A label : At(t, label) <=> f.label = label
           /\ Works(f) => \A j \in 2 .. Len(stack[t]) :
                            Works(stack[t][j]) => stack[t][j].cls # f.cls
  BY TopFrame DEF FinishAfter, At
<1>2. PICK c \in Classes : c = Cls(t)
  BY <1>1
<1>3. PICK s \in Classes : s = Super[c] /\ ~Initialized(s)
  BY <1>2, InitializeAssumption DEF FinishAfter, Initialized
<1>4. /\ stack[t] # <<>> /\ f.label = "finish" /\ Works(f) /\ ~At(t, "finishing")
      /\ flags' = flags /\ asleep' = asleep /\ lock' = lock /\ mine' = mine
      /\ finishing' = finishing /\ pending' = [pending EXCEPT ![s] = <<c>> \o @] /\ Return(t)
  BY <1>1, <1>2, <1>3 DEF FinishAfter, At, Works
<1>5. c \in mine[t] /\ ~Queued(c) /\ flags[c] = {"initializing"}
  BY <1>1, <1>2, <1>4, MineFacts DEF Local
<1>6. Popped(t)
  BY <1>4, ReturnPops
<1>7. /\ pending[s] \in Seq(Classes) /\ IsInjective(pending[s]) /\ c \notin Range(pending[s])
      /\ pending \in [Classes -> Seq(Classes)] /\ finishing \in [Threads -> Seq(Classes)]
  BY <1>5 DEF IInv, Types, Pending, Queued
<1> DEFINE q == <<c>> \o pending[s]
<1>8. q \in Seq(Classes) /\ IsInjective(q) /\ Range(q) = {c} \cup Range(pending[s])
  <2> DEFINE one == <<c>>
  <2>1. one \in Seq(Classes) /\ Range(one) = {c} /\ IsInjective(one)
    BY OneElement
  <2> HIDE DEF one
  <2>2. /\ one \o pending[s] \in Seq(Classes)
        /\ Range(one \o pending[s]) = Range(one) \cup Range(pending[s])
        /\ Range(one) \cap Range(pending[s]) = {} => IsInjective(one \o pending[s])
    BY <1>7, <2>1, ConcatRange
  <2>3. Range(one) \cap Range(pending[s]) = {}
    BY <1>7, <2>1
  <2>4. q = one \o pending[s]
    BY DEF one
  <2> QED
    BY <2>1, <2>2, <2>3, <2>4
<1>9. pending' = [pending EXCEPT ![s] = q]
  BY <1>4
<1> HIDE DEF q
<1>10. pending'[s] = q /\ \A d \in Classes \ {s} : pending'[d] = pending[d]
  BY <1>7, <1>9
<1>11. \A d : Queued(d)' => Queued(d) \/ d = c
  BY <1>8, <1>10 DEF Queued
<1>12. Grow
  BY <1>4, InitializeAssumption DEF Grow, Initialized
<1>13. \A u \in Threads, d \in Classes \cup {NoClass} : Ready(u, d)' <=> Ready(u, d)
  BY <1>4 DEF Ready, Initialized
<1>14. Keeps(t)
  <2>1. ASSUME NEW i \in 2 .. Len(stack[t]), Works(stack[t][i])
        PROVE  \E d \in Classes : /\ d = stack[t][i].cls /\ d \in mine'[t] /\ ~Queued(d)'
                                  /\ d \notin Range(finishing'[t])
    <3>1. PICK d \in Classes : /\ d = stack[t][i].cls /\ d \in mine[t] /\ ~Queued(d)
                               /\ d \notin Range(finishing[t])
      BY <2>1, BelowWorks
    <3>2. d # c
      BY <1>1, <1>2, <1>4, <2>1, <3>1
    <3> QED
      BY <1>4, <1>11, <3>1, <3>2
  <2> QED
    BY <1>13, <2>1 DEF Keeps
<1>15. (\A i \in 1 .. Len(stack'[t]) : Frame(t, i)') /\ ~At(t, "finishing")'
  <2>1. Ready(t, c)'
    BY <1>4, <1>5 DEF Ready
  <2> QED
    BY <1>2, <1>4, <1>6, <1>12, <1>14, <2>1, PoppedKeeps
<1>16. Types'
  BY <1>4, <1>6, <1>7, <1>8, <1>9 DEF Popped, IInv, Types
<1>17. Owned'
  BY <1>4 DEF IInv, Owned, Ready, Initialized
<1>18. Pending'
  <2>1. ASSUME NEW d \in Classes
        PROVE  /\ IsInjective(pending'[d]) /\ (Initialized(d)' => pending'[d] = <<>>)
               /\ \A e \in Range(pending'[d]) : Super[e] = d /\ flags'[e] = {"initializing"}
    <3>1. Initialized(d)' <=> Initialized(d)
      BY <1>4 DEF Initialized
    <3>0. /\ IsInjective(pending[d]) /\ (Initialized(d) => pending[d] = <<>>)
          /\ \A e \in Range(pending[d]) : Super[e] = d /\ flags[e] = {"initializing"}
      BY DEF IInv, Pending
    <3>2. CASE d = s
      <4>1. pending'[d] = q
        BY <1>10, <3>2
      <4>2. \A e \in Range(q) : Super[e] = d /\ flags'[e] = {"initializing"}
        <5> SUFFICES ASSUME NEW e \in Range(q)
                     PROVE  Super[e] = d /\ flags'[e] = {"initializing"}
          OBVIOUS
        <5>1. CASE e = c
          BY <1>3, <1>4, <1>5, <3>2, <5>1
        <5>2. CASE e # c
          <6>1. e \in Range(pending[s])
            BY <1>8, <5>2
          <6> QED
            BY <1>4, <3>0, <3>2, <6>1
        <5> QED
          BY <5>1, <5>2
      <4>3. ~Initialized(d)
        BY <1>3, <1>5, <3>2 DEF Initialized
      <4> QED
        BY <1>8, <3>1, <4>1, <4>2, <4>3
    <3>3. CASE d # s
      BY <1>4, <1>10, <3>0, <3>1, <3>3
    <3> QED
      BY <3>2, <3>3
  <2> QED
    BY <2>1 DEF Pending
<1>19. Thread(t)'
  <2>1. finishing'[t] = <<>> /\ finishing[t] = <<>>
    BY <1>4 DEF IInv, Thread, Marking
  <2>2. Range(finishing'[t]) = {} /\ IsInjective(finishing'[t])
    BY <1>7, <2>1, RangeFacts
  <2> QED
    BY <1>15, <2>1, <2>2 DEF Thread, Marking
<1>20. ASSUME NEW u \in Threads, u # t
       PROVE  Thread(u)'
  <2>1. \A d \in mine[u] : Queued(d)' => Queued(d)
    BY <1>5, <1>11, <1>20, MineFacts
  <2> QED
    BY <1>4, <1>6, <1>12, <1>20, <2>1, OthersKeep DEF Popped, OthersSame
<1> QED
  BY <1>16, <1>17, <1>18, <1>19, <1>20 DEF IInv

\* Finishing keeps the invariant: the class that is marked leaves its thread, and the
\* subclasses that waited for it in pendingInitializeMap come before the rest of the list.
LEMMA FinishingKeeps ==
  ASSUME IInv, NEW t \in Threads, Finishing(t)
  PROVE  IInv'
<1>1. /\ stack[t] # <<>> /\ finishing[t] # <<>> /\ At(t, "finishing")
      /\ finishing[t] \in Seq(Classes) /\ IsInjective(finishing[t])
      /\ \A d \in Range(finishing[t]) : d \in mine[t] /\ Initialized(Super[d]) /\ ~Queued(d)
  BY DEF Finishing, At, IInv, Types, Thread, Marking
<1>2. PICK c \in Classes : c = Head(finishing[t])
  BY <1>1, HeadTailFacts
<1> DEFINE r == Tail(finishing[t])
<1>3. /\ r \in Seq(Classes) /\ Range(finishing[t]) = {c} \cup Range(r)
      /\ IsInjective(r) /\ c \notin Range(r)
  BY <1>1, <1>2, TailRange
<1> DEFINE q == pending[c]
<1>4. /\ q \in Seq(Classes) /\ IsInjective(q) /\ Range(q) \in SUBSET Classes
      /\ \A d \in Range(q) : Queued(d) /\ Super[d] = c /\ flags[d] = {"initializing"}
  BY QueuedFacts DEF IInv, Pending
<1>5. /\ c \in mine[t] /\ ~Queued(c) /\ flags[c] = {"initializing"} /\ Initialized(Super[c])
      /\ c # NoClass /\ ~Initialized(c) /\ \A u \in Threads \ {t} : c \notin mine[u]
  BY <1>1, <1>3, MineFacts
<1> HIDE DEF r, q
<1> DEFINE rest == q \o r
<1>6. rest \in Seq(Classes) /\ Range(rest) = Range(q) \cup Range(r) /\ IsInjective(rest)
  <2>1. Range(q) \cap Range(r) = {}
    BY <1>1, <1>3, <1>4
  <2> QED
    BY <1>3, <1>4, <2>1, ConcatRange
<1>7. c \notin Range(rest)
  BY <1>3, <1>4, <1>5, <1>6
<1>8. rest = Released(Head(finishing[t])) \o Tail(finishing[t])
  BY <1>2 DEF Released, q, r
<1> HIDE DEF rest
<1>9. /\ flags' = [flags EXCEPT ![c] = {"initialized"}] /\ asleep' = {}
      /\ mine' = [mine EXCEPT ![t] = @ \ {c}] /\ pending' = [pending EXCEPT ![c] = <<>>]
      /\ finishing' = [finishing EXCEPT ![t] = rest]
      /\ IF rest = <<>> THEN lock' = NoThread /\ Return(t) ELSE lock' = lock /\ stack' = stack
  BY <1>2, <1>8 DEF Finishing, Completed, NotWoken
<1>10. /\ flags \in [Classes -> Flags] /\ mine \in [Threads -> SUBSET Classes]
       /\ stack \in [Threads -> Seq(Frames)] /\ finishing \in [Threads -> Seq(Classes)]
       /\ pending \in [Classes -> Seq(Classes)] /\ lock \in Threads \cup {NoThread}
  BY DEF IInv, Types
<1>11. /\ flags'[c] = {"initialized"} /\ \A d \in Classes \ {c} : flags'[d] = flags[d]
       /\ mine'[t] = mine[t] \ {c} /\ \A u \in Threads \ {t} : mine'[u] = mine[u]
       /\ pending'[c] = <<>> /\ \A d \in Classes \ {c} : pending'[d] = pending[d]
       /\ finishing'[t] = rest /\ \A u \in Threads \ {t} : finishing'[u] = finishing[u]
  BY <1>9, <1>10
<1>12. Grow /\ Initialized(c)'
  BY <1>5, <1>11, InitializeAssumption DEF Grow, Initialized
<1>13. \A u \in Threads, d \in Classes \cup {NoClass} : Ready(u, d) => Ready(u, d)'
  BY <1>11, <1>12, StillInitialized DEF Ready
<1>14. Range(<<>>) = {} /\ <<>> \in Seq(Classes) /\ IsInjective(<<>>)
  BY EmptySeq, RangeFacts
<1>15. \A d : (Queued(d)' => Queued(d)) /\ (d \in Range(q) => ~Queued(d)')
  <2>1. ASSUME NEW d, NEW s \in Classes, d \in Range(pending'[s])
        PROVE  Queued(d) /\ d \notin Range(q)
    <3>1. s # c
      BY <1>11, <1>14, <2>1
    <3>2. d \in Range(pending[s])
      BY <1>11, <2>1, <3>1
    <3>3. Queued(d) /\ Super[d] = s
      BY <3>2, QueuedFacts
    <3> QED
      BY <1>4, <3>1, <3>3
  <2> QED
    BY <2>1 DEF Queued
<1>16. \A d \in Range(q) : d \in mine[t]
  <2>1. ASSUME NEW d \in Range(q)
        PROVE  d \in mine[t]
    <3>1. PICK u \in Threads : d \in mine[u]
      BY <1>4, <2>1 DEF IInv, Owned
    <3>2. Ready(u, c)
      BY <1>4, <3>1, MineFacts
    <3>3. u = t
      BY <1>5, <3>2 DEF Ready
    <3> QED
      BY <3>1, <3>3
  <2> QED
    BY <2>1
<1>17. Keeps(t)
  <2>1. ASSUME NEW i \in 2 .. Len(stack[t]), Works(stack[t][i])
        PROVE  \E d \in Classes : /\ d = stack[t][i].cls /\ d \in mine'[t] /\ ~Queued(d)'
                                  /\ d \notin Range(finishing'[t])
    <3>1. PICK d \in Classes : /\ d = stack[t][i].cls /\ d \in mine[t] /\ ~Queued(d)
                               /\ d \notin Range(finishing[t])
      BY <2>1, BelowWorks
    <3>2. d # c /\ d \notin Range(q) /\ d \notin Range(r)
      BY <1>3, <1>4, <3>1
    <3> QED
      BY <1>6, <1>11, <1>15, <3>1, <3>2
  <2> QED
    BY <1>13, <2>1 DEF Keeps
<1>18. Types'
  <2>1. stack' \in [Threads -> Seq(Frames)]
    BY <1>1, <1>9, <1>10, ReturnPops DEF Popped
  <2>2. flags' \in [Classes -> Flags] /\ mine' \in [Threads -> SUBSET Classes]
    BY <1>9, <1>10 DEF Flags
  <2>3. pending' \in [Classes -> Seq(Classes)] /\ finishing' \in [Threads -> Seq(Classes)]
    BY <1>6, <1>9, <1>10, <1>14
  <2> QED
    BY <1>9, <1>10, <2>1, <2>2, <2>3 DEF Types
<1>19. Owned'
  <2>1. ASSUME NEW d \in Classes
        PROVE  flags'[d] = {"initializing"} <=> \E u \in Threads : d \in mine'[u]
    <3>1. CASE d = c
      BY <1>5, <1>11, <3>1
    <3>2. CASE d # c
      BY <1>11, <3>2 DEF IInv, Owned
    <3> QED
      BY <3>1, <3>2
  <2>2. \A u, v \in Threads : u # v => mine'[u] \cap mine'[v] = {}
    BY <1>11 DEF IInv, Owned
  <2>3. ASSUME NEW u \in Threads, NEW d \in mine'[u]
        PROVE  Ready(u, Super[d])'
    <3>1. d \in mine[u]
      BY <1>11, <2>3
    <3> QED
      BY <1>13, <3>1, MineFacts
  <2> QED
    BY <2>1, <2>2, <2>3 DEF Owned
<1>20. Pending'
  <2>1. ASSUME NEW s \in Classes
        PROVE  /\ IsInjective(pending'[s]) /\ (Initialized(s)' => pending'[s] = <<>>)
               /\ \A d \in Range(pending'[s]) : Super[d] = s /\ flags'[d] = {"initializing"}
    <3>1. CASE s = c
      BY <1>11, <1>14, <3>1
    <3>2. CASE s # c
      <4>1. pending'[s] = pending[s] /\ (Initialized(s)' => Initialized(s))
        BY <1>11, <3>2 DEF Initialized
      <4>2. \A d \in Range(pending[s]) : d # c /\ d \in Classes
        BY <1>5, QueuedFacts
      <4> QED
        BY <1>11, <4>1, <4>2 DEF IInv, Pending
    <3> QED
      BY <3>1, <3>2
  <2> QED
    BY <2>1 DEF Pending
<1>21. \A d \in Range(rest) : d \in mine'[t] /\ Initialized(Super[d])' /\ ~Queued(d)'
  <2>1. ASSUME NEW d \in Range(q)
        PROVE  d \in mine'[t] /\ Initialized(Super[d])' /\ ~Queued(d)'
    <3>1. d \in mine[t] /\ d # c /\ Super[d] = c /\ ~Queued(d)'
      BY <1>4, <1>5, <1>15, <1>16
    <3> QED
      BY <1>11, <1>12, <3>1
  <2>2. ASSUME NEW d \in Range(r)
        PROVE  d \in mine'[t] /\ Initialized(Super[d])' /\ ~Queued(d)'
    <3>1. d \in mine[t] /\ d # c /\ Initialized(Super[d]) /\ ~Queued(d)'
      BY <1>1, <1>3, <1>15
    <3>2. Super[d] \in Classes \cup {NoClass}
      BY <3>1, MineFacts
    <3>3. Initialized(Super[d])'
      BY <1>12, <3>1, <3>2, StillInitialized
    <3> QED
      BY <1>11, <3>1, <3>3
  <2> QED
    BY <1>6, <2>1, <2>2
<1>22. PICK k \in Classes : k = Cls(t)
  BY <1>1, TopOf
<1>23. Initialized(k)'
  <2>1. Initialized(k) \/ k = c
    BY <1>1, <1>2, <1>22 DEF IInv, Thread, Marking
  <2> QED
    BY <1>12, <2>1, StillInitialized
<1>24. Thread(t)'
  <2>1. CASE rest = <<>>
    <3>1. Popped(t)
      BY <1>1, <1>9, <2>1, ReturnPops
    <3>2. Ready(t, k)'
      BY <1>23 DEF Ready
    <3>3. (\A i \in 1 .. Len(stack'[t]) : Frame(t, i)') /\ ~At(t, "finishing")'
      BY <1>1, <1>12, <1>17, <1>22, <3>1, <3>2, PoppedKeeps
    <3> QED
      BY <1>6, <1>11, <1>21, <2>1, <3>3 DEF Thread, Marking
  <2>2. CASE rest # <<>>
    <3>1. stack' = stack
      BY <1>9, <2>2
    <3>2. At(t, "finishing")' /\ Cls(t)' = k
      BY <1>1, <1>22, <3>1 DEF At, Cls
    <3>3. Initialized(Cls(t))'
      BY <1>23, <3>2 DEF Initialized
    <3>4. Marking(t)'
      BY <1>6, <1>11, <1>21, <2>2, <3>2, <3>3 DEF Marking
    <3>5. PICK f \in Frames :
            /\ f = stack[t][1] /\ f.cls = Cls(t) /\ f.cls \in Classes
            /\ \A label : At(t, label) <=> f.label = label
      BY <1>1, TopFrame
    <3>6. stack[t] \in Seq(Frames)
      BY <1>10
    <3>7. f.label = "finishing" /\ NewTop(t, f)
      BY <1>1, <1>10, <3>1, <3>5, <3>6 DEF NewTop, OthersSame
    <3>8. Local(t, f)' /\ ~Works(f)
      BY <3>7 DEF Local, Works
    <3>9. \A i \in 1 .. Len(stack'[t]) : Frame(t, i)'
      BY <1>1, <1>12, <1>17, <3>5, <3>7, <3>8, NewTopKeeps
    <3> QED
      BY <3>4, <3>9 DEF Thread
  <2> QED
    BY <2>1, <2>2
<1>25. ASSUME NEW u \in Threads, u # t
       PROVE  Thread(u)'
  <2>1. stack'[u] = stack[u]
    BY <1>1, <1>9, <1>25, ReturnPops DEF Popped, OthersSame
  <2> QED
    BY <1>11, <1>12, <1>15, <1>25, <2>1, OthersKeep
<1> QED
  BY <1>18, <1>19, <1>20, <1>24, <1>25 DEF IInv

-----------------------------------------------------------------------------
(* The theorems                                                            *)

\* The initial states and the steps.
LEMMA StepKeeps ==
  ASSUME IInv, [Next]_vars
  PROVE  IInv'
<1>1. CASE UNCHANGED vars
  <2>1. Quiet /\ stack' = stack /\ asleep' \in SUBSET Threads
    BY <1>1 DEF vars, Quiet, IInv, Types
  <2> QED
    BY <2>1, SameStacksKeep
<1>2. ASSUME NEW t \in Threads,
             (\E c \in Classes : Message(t, c)) \/ WakeUp(t) \/ Step(t)
      PROVE  IInv'
  <2>1. CASE \E c \in Classes : Message(t, c) \/ Send(t, c)
    BY <2>1, MessageKeeps, SendKeeps
  <2>2. CASE Wait(t) \/ WakeUp(t) \/ Other(t) \/ OtherAgain(t)
    BY <2>2, WaitKeeps, OtherKeeps, OtherAgainKeeps
  <2>3. CASE Start(t) \/ Mark(t) \/ InitializeReturns(t)
    BY <2>3, StartKeeps, MarkKeeps, InitializeReturnsKeeps
  <2>4. CASE FinishNow(t) \/ FinishAfter(t) \/ Finishing(t)
    BY <2>4, FinishNowKeeps, FinishAfterKeeps, FinishingKeeps
  <2> QED
    BY <1>2, <2>1, <2>2, <2>3, <2>4 DEF Step
<1> QED
  BY <1>1, <1>2 DEF Next

\* IInv holds in every state: the two flags of a class, the threads' calls, the class's
\* owner and pendingInitializeMap agree.
THEOREM Invariant == Spec => []IInv
<1>1. Init => IInv
  BY InitKeeps
<1>2. IInv /\ [Next]_vars => IInv'
  BY StepKeeps
<1> QED
  BY <1>1, <1>2, PTL DEF Spec

\* No thread reaches a fatal error or a failed assertion of objc-initialize.mm.
THEOREM NoFatalErrors == Spec => []NoFatalError
<1>1. ASSUME IInv
      PROVE  NoFatalError
  <2>1. ASSUME NEW c \in Classes
        PROVE  Cardinality(flags[c]) <= 1
    <3>1. flags[c] \in Flags
      BY <1>1 DEF IInv, Types
    <3>2. /\ Cardinality({}) = 0 /\ Cardinality({"initializing"}) = 1
          /\ Cardinality({"initialized"}) = 1
      BY FS_EmptySet, FS_Singleton
    <3> QED
      BY <3>1, <3>2 DEF Flags
  <2>2. ASSUME NEW t \in Threads, At(t, "finishing")
        PROVE  Head(finishing[t]) \in mine[t] /\ Initialized(Super[Head(finishing[t])])
    <3>1. finishing[t] # <<>> /\ finishing[t] \in Seq(Classes)
      BY <1>1, <2>2 DEF IInv, Types, Thread, Marking
    <3>2. Head(finishing[t]) \in Range(finishing[t])
      BY <3>1, TailRange
    <3> QED
      BY <1>1, <3>2 DEF IInv, Thread, Marking
  <2>3. ASSUME NEW t \in Threads, At(t, "mark"), flags[Cls(t)] = {}
        PROVE  Cls(t) \notin mine[t]
    BY <1>1, <2>3, MineFacts
  <2>4. ASSUME NEW t \in Threads, At(t, "other2")
        PROVE  Initialized(Cls(t))
    BY <1>1, <2>4, TopFrame DEF At, Local
  <2> QED
    BY <2>1, <2>2, <2>3, <2>4 DEF NoFatalError
<1> QED
  BY <1>1, Invariant, PTL

\* A call that does not return leaves the thread's stack as long as it was, or longer.
LEMMA StaysInside ==
  ASSUME IInv, NEW t \in Threads,
         \/ (\E c \in Classes : Message(t, c) \/ Send(t, c)) \/ WakeUp(t) \/ Start(t)
         \/ Mark(t) \/ InitializeReturns(t) \/ FinishNow(t)
  PROVE  ~(Len(stack'[t]) < Len(stack[t]))
<1>1. stack \in [Threads -> Seq(Frames)] /\ Len(stack[t]) \in Nat
  BY LenProperties DEF IInv, Types
<1>2. ASSUME stack[t] # <<>>, NEW label \in Labels, Goto(t, label)
      PROVE  Len(stack'[t]) = Len(stack[t])
  BY <1>2, GotoTop DEF NewTop
<1>3. ASSUME stack[t] # <<>>, NEW g \in Frames, NEW c \in Classes,
             Call(t, c, <<g>> \o Tail(stack[t]))
      PROVE  Len(stack'[t]) = Len(stack[t]) + 1
  BY <1>3, CallPushes DEF Pushed
<1>4. CASE WakeUp(t)
  BY <1>1, <1>4 DEF WakeUp
<1>5. CASE \E c \in Classes : Message(t, c)
  <2>1. Len(stack[t]) = 0
    BY <1>5, EmptySeq DEF Message
  <2>2. Len(stack'[t]) \in Nat
    <3>1. IInv'
      BY <1>5, MessageKeeps
    <3> QED
      BY <3>1, LenProperties DEF IInv, Types
  <2> QED
    BY <2>1, <2>2
<1>6. CASE \E c \in Classes : Send(t, c)
  <2>1. PICK c \in Classes : Send(t, c)
    BY <1>6
  <2>2. /\ stack[t] # <<>> /\ Head(stack[t]) = stack[t][1] /\ stack[t][1] \in Frames
    BY <2>1, TopOf DEF Send, At
  <2> DEFINE g == [Head(stack[t]) EXCEPT !.toSend = @ \ {c}]
  <2>3. g \in Frames
    BY <2>2 DEF Frames
  <2>4. IF Initialized(c) THEN stack' = [stack EXCEPT ![t] = <<g>> \o Tail(stack[t])]
        ELSE Call(t, c, <<g>> \o Tail(stack[t]))
    BY <2>1 DEF Send
  <2> HIDE DEF g
  <2>5. Initialized(c) => Len(stack'[t]) = Len(stack[t])
    BY <1>1, <2>2, <2>3, <2>4, ReplaceTop
  <2> QED
    BY <1>1, <1>3, <2>2, <2>3, <2>4, <2>5
<1>7. CASE Start(t)
  <2>1. /\ stack[t] # <<>> /\ Head(stack[t]) = stack[t][1] /\ stack[t][1] \in Frames
        /\ Cls(t) \in Classes /\ "mark" \in Labels
    BY <1>7, TopOf DEF Start, At, Labels
  <2> DEFINE g == [Head(stack[t]) EXCEPT !.label = "mark"]
  <2>2. g \in Frames
    BY <2>1 DEF Frames
  <2>3. IF SuperReady(Cls(t)) THEN Goto(t, "mark")
        ELSE Call(t, Super[Cls(t)], <<g>> \o Tail(stack[t]))
    BY <1>7 DEF Start
  <2> HIDE DEF g
  <2>4. ~SuperReady(Cls(t)) => Super[Cls(t)] \in Classes
    BY <2>1, InitializeAssumption DEF SuperReady, Initialized
  <2> QED
    BY <1>1, <1>2, <1>3, <2>1, <2>2, <2>3, <2>4
<1>8. CASE Mark(t) \/ InitializeReturns(t) \/ FinishNow(t)
  <2>1. stack[t] # <<>> /\ \E label \in Labels : Goto(t, label)
    BY <1>8 DEF Mark, InitializeReturns, FinishNow, At, Labels
  <2> QED
    BY <1>1, <1>2, <2>1
<1> QED
  BY <1>4, <1>5, <1>6, <1>7, <1>8

\* Only the thread of a step has another stack after it.
LEMMA OneStack ==
  ASSUME NEW t \in Threads, IInv,
         (\E c \in Classes : Message(t, c)) \/ WakeUp(t) \/ Step(t)
  PROVE  \A u \in Threads \ {t} : stack'[u] = stack[u]
<1>1. stack \in [Threads -> Seq(Frames)]
  BY DEF IInv, Types
<1> QED
  BY <1>1 DEF Step, Message, WakeUp, Send, Start, Mark, Other, OtherAgain, Wait, InitializeReturns,
              FinishNow, FinishAfter, Finishing, Goto, Return, Call

\* A call of _class_initialize returns only when the class is initialized, or to the
\* thread that is initializing it: Message, and +initialize, can go on.
THEOREM EveryCallAnswered == Spec => Answered
<1> DEFINE A == \A t \in Threads : Len(stack'[t]) < Len(stack[t]) =>
                  "initialized" \in flags'[Cls(t)] \/ Cls(t) \in mine'[t]
<1>1. ASSUME IInv, [Next]_vars
      PROVE  [A]_vars
  <2>1. SUFFICES ASSUME NEW u \in Threads,
                        (\E c \in Classes : Message(u, c)) \/ WakeUp(u) \/ Step(u),
                        NEW t \in Threads, Len(stack'[t]) < Len(stack[t])
                 PROVE  "initialized" \in flags'[Cls(t)] \/ Cls(t) \in mine'[t]
    BY <1>1 DEF Next
  <2>2. Len(stack[t]) \in Nat /\ stack[t] \in Seq(Frames)
    BY <1>1, LenProperties DEF IInv, Types
  <2>3. t = u
    <3>1. ASSUME t # u
          PROVE  FALSE
      BY <1>1, <2>1, <2>2, <3>1, OneStack
    <3> QED
      BY <3>1
  <2>4. Other(t) \/ OtherAgain(t) \/ Wait(t) \/ FinishAfter(t) \/ Finishing(t)
    BY <1>1, <2>1, <2>3, StaysInside DEF Step
  <2>5. stack[t] # <<>>
    BY <2>4 DEF Other, OtherAgain, Wait, FinishAfter, Finishing, At
  <2>6. PICK c \in Classes : c = Cls(t)
    BY <1>1, <2>5, TopOf
  <2>7. c # NoClass
    BY InitializeAssumption
  <2>8. CASE Other(t)
    <3>1. flags' = flags /\ mine' = mine /\ stack' # stack
      BY <2>1, <2>2, <2>8 DEF Other
    <3>2. NeedNotWait(t, c)
      <4>1. ASSUME NEW label \in {"wait", "other2"}, Goto(t, label)
            PROVE  FALSE
        <5>1. label \in Labels
          BY DEF Labels
        <5>2. Len(stack'[t]) = Len(stack[t])
          BY <1>1, <2>5, <4>1, <5>1, GotoTop DEF NewTop
        <5> QED
          BY <2>1, <2>2, <5>2
      <4> QED
        BY <2>6, <2>8, <4>1 DEF Other
    <3> QED
      BY <2>6, <3>1, <3>2 DEF NeedNotWait
  <2>9. CASE Wait(t) \/ OtherAgain(t)
    <3>1. flags' = flags /\ Initialized(c)
      BY <2>1, <2>2, <2>6, <2>9 DEF Wait, OtherAgain
    <3> QED
      BY <2>6, <2>7, <3>1 DEF Initialized
  <2>10. CASE FinishAfter(t)
    <3>1. mine' = mine /\ At(t, "finish")
      BY <2>10 DEF FinishAfter
    <3>2. c \in mine[t]
      BY <1>1, <2>5, <2>6, <3>1, TopFrame DEF Local, Works
    <3> QED
      BY <2>6, <3>1, <3>2
  <2>11. CASE Finishing(t)
    <3>1. Initialized(c) \/ Head(finishing[t]) = c
      BY <1>1, <2>6, <2>11 DEF Finishing, IInv, Thread, Marking
    <3>2. flags' = [flags EXCEPT ![Head(finishing[t])] = {"initialized"}]
      BY <2>11 DEF Finishing, Completed
    <3>3. flags \in [Classes -> Flags]
      BY <1>1 DEF IInv, Types
    <3> QED
      BY <2>6, <2>7, <3>1, <3>2, <3>3 DEF Initialized
  <2> QED
    BY <2>4, <2>8, <2>9, <2>10, <2>11
<1> QED
  BY <1>1, Invariant, PTL DEF Spec, Answered

-----------------------------------------------------------------------------
(* What class initialization promises                                      *)

\* The abstract state of a class, in a state of the invariant.
Whose(c, flag, owner, value) ==
  /\ flag = {} => value = NoThread
  /\ flag = {"initialized"} => value = "done"
  /\ \A t \in Threads : c \in owner[t] => value = t

\* Initializer finds the one thread that is initializing the class.
LEMMA InitializerIs ==
  ASSUME Types, Owned, NEW c \in Classes
  PROVE  Whose(c, flags[c], mine, Initializer(c))
<1>1. ASSUME NEW t \in Threads, c \in mine[t]
      PROVE  Initializer(c) = t
  <2>1. flags[c] = {"initializing"} /\ \A u \in Threads : c \in mine[u] <=> u = t
    BY <1>1 DEF Owned
  <2>2. Initializer(c) = CHOOSE u \in Threads : c \in mine[u]
    BY <2>1 DEF Initializer
  <2> QED
    BY <2>1, <2>2
<1>2. flags[c] = {} => Initializer(c) = NoThread
  BY DEF Initializer
<1>3. flags[c] = {"initialized"} => Initializer(c) = "done"
  BY DEF Initializer
<1> QED
  BY <1>1, <1>2, <1>3 DEF Whose

\* The same after a step.
LEMMA InitializerBecomes ==
  ASSUME Types', Owned', NEW c \in Classes
  PROVE  Whose(c, flags'[c], mine', Initializer(c)')
<1>1. ASSUME NEW t \in Threads, c \in mine'[t]
      PROVE  Initializer(c)' = t
  <2>1. flags'[c] = {"initializing"} /\ \A u \in Threads : c \in mine'[u] <=> u = t
    BY <1>1 DEF Owned
  <2>2. Initializer(c)' = CHOOSE u \in Threads : c \in mine'[u]
    BY <2>1 DEF Initializer
  <2> QED
    BY <2>1, <2>2
<1>2. flags'[c] = {} => Initializer(c)' = NoThread
  BY DEF Initializer
<1>3. flags'[c] = {"initialized"} => Initializer(c)' = "done"
  BY DEF Initializer
<1> QED
  BY <1>1, <1>2, <1>3 DEF Whose

\* Every class is nobody's, some thread's, or done.
LEMMA InitializerCases ==
  ASSUME IInv, NEW c \in Classes
  PROVE  /\ flags[c] \in Flags
         /\ flags[c] = {"initializing"} => \E t \in Threads : c \in mine[t]
BY DEF IInv, Types, Owned

\* A class whose flags and owner stay is the same abstractly.
LEMMA InitializerKeeps ==
  ASSUME IInv, IInv', NEW c \in Classes, flags'[c] = flags[c],
         \A t \in Threads : c \in mine[t] => c \in mine'[t]
  PROVE  Initializer(c)' = Initializer(c)
<1>1. /\ Whose(c, flags[c], mine, Initializer(c))
      /\ Whose(c, flags'[c], mine', Initializer(c)')
  BY InitializerIs, InitializerBecomes DEF IInv
<1> QED
  BY <1>1, InitializerCases DEF Whose, Flags

\* An initialized superclass, abstractly.
LEMMA SuperIsDone ==
  ASSUME IInv, NEW c \in Classes, NEW t \in Threads, Ready(t, Super[c])
  PROVE  \/ Super[c] = NoClass
         \/ /\ Super[c] \in Classes /\ Initializer(Super[c]) \in {t, "done"}
            /\ Initialized(Super[c]) => Initializer(Super[c]) = "done"
<1>1. CASE Super[c] = NoClass
  BY <1>1
<1>2. CASE Super[c] # NoClass
  <2>1. PICK s \in Classes : s = Super[c] /\ s # NoClass
    BY <1>2, InitializeAssumption
  <2>2. Whose(s, flags[s], mine, Initializer(s)) /\ flags[s] \in Flags
    BY InitializerIs, InitializerCases DEF IInv
  <2>3. Initialized(s) => flags[s] = {"initialized"}
    BY <2>1, <2>2 DEF Initialized, Flags
  <2> QED
    BY <2>1, <2>2, <2>3 DEF Whose, Ready
<1> QED
  BY <1>1, <1>2

\* Class initialization implements ClassInit: Mark begins a class, Finishing completes one,
\* and no other step is seen.
THEOREM ImplementsClassInit == Spec => Implements
<1> DEFINE Who == [c \in Classes |-> Initializer(c)]
<1>1. Init => Abstract!Init
  <2> SUFFICES ASSUME Init
               PROVE  Who = [c \in Classes |-> NoThread]
    BY DEF Abstract!Init
  <2>1. ASSUME NEW c \in Classes
        PROVE  Initializer(c) = NoThread
    BY DEF Init, Initializer
  <2> QED
    BY <2>1
<1>2. ASSUME IInv, IInv', [Next]_vars
      PROVE  [Abstract!Next]_Who
  <2>1. \A c \in Classes : Who[c] = Initializer(c) /\ Who'[c] = Initializer(c)'
    OBVIOUS
  <2>2. ASSUME flags' = flags, mine' = mine
        PROVE  Who' = Who
    <3>1. \A c \in Classes : Initializer(c)' = Initializer(c)
      BY <1>2, <2>2, InitializerKeeps
    <3> QED
      BY <3>1
  <2>3. ASSUME NEW c \in Classes, NEW v, Initializer(c)' = v,
               \A d \in Classes \ {c} : Initializer(d)' = Initializer(d)
        PROVE  Who' = [Who EXCEPT ![c] = v]
    BY <2>3
  <2> HIDE DEF Who
  <2>4. /\ flags \in [Classes -> Flags] /\ mine \in [Threads -> SUBSET Classes]
    BY <1>2 DEF IInv, Types
  <2>5. ASSUME NEW t \in Threads, Mark(t), flags[Cls(t)] = {}
        PROVE  Abstract!Next
    <3>1. stack[t] # <<>> /\ At(t, "mark")
      BY <2>5 DEF Mark, At
    <3>2. PICK c \in Classes : c = Cls(t) /\ Ready(t, Super[c])
      BY <1>2, <3>1, TopFrame
    <3>3. /\ flags[c] = {} /\ flags' = [flags EXCEPT ![c] = {"initializing"}]
          /\ mine' = [mine EXCEPT ![t] = @ \cup {c}]
      BY <2>5, <3>2 DEF Mark
    <3>4. Initializer(c) = NoThread
      BY <1>2, <3>3, InitializerIs DEF IInv, Whose
    <3>5. c \in mine'[t]
      BY <2>4, <3>3
    <3>6. Initializer(c)' = t
      BY <1>2, <3>5, InitializerBecomes DEF IInv, Whose
    <3>7. ASSUME NEW d \in Classes \ {c}
          PROVE  Initializer(d)' = Initializer(d)
      <4>1. flags'[d] = flags[d] /\ \A u \in Threads : d \in mine[u] => d \in mine'[u]
        BY <2>4, <3>3
      <4> QED
        BY <1>2, <4>1, InitializerKeeps
    <3>8. Who' = [Who EXCEPT ![c] = t]
      BY <2>3, <3>6, <3>7
    <3>9. Super[c] = NoClass \/ Who[Super[c]] \in {t, "done"}
      BY <1>2, <2>1, <3>2, SuperIsDone
    <3>10. Abstract!Begin(t, c)
      BY <2>1, <3>4, <3>8, <3>9 DEF Abstract!Begin, Abstract!SuperIs, Who
    <3> QED
      BY <3>10 DEF Abstract!Next
  <2>6. ASSUME NEW t \in Threads, Finishing(t)
        PROVE  Abstract!Next
    <3>1. finishing[t] # <<>> /\ finishing[t] \in Seq(Classes)
      BY <1>2, <2>6 DEF Finishing, IInv, Types, Thread, Marking
    <3>2. PICK c \in Classes : c = Head(finishing[t]) /\ c \in Range(finishing[t])
      BY <3>1, TailRange
    <3>3. /\ c \in mine[t] /\ Initialized(Super[c])
          /\ flags' = [flags EXCEPT ![c] = {"initialized"}]
          /\ mine' = [mine EXCEPT ![t] = @ \ {c}]
      BY <1>2, <2>6, <3>2 DEF Finishing, Completed, IInv, Thread, Marking
    <3>4. Initializer(c) \in Threads
      BY <1>2, <3>3, InitializerIs DEF IInv, Whose
    <3>5. flags'[c] = {"initialized"}
      BY <2>4, <3>3
    <3>6. Initializer(c)' = "done"
      BY <1>2, <3>5, InitializerBecomes DEF IInv, Whose
    <3>7. ASSUME NEW d \in Classes \ {c}
          PROVE  Initializer(d)' = Initializer(d)
      <4>1. flags'[d] = flags[d] /\ \A u \in Threads : d \in mine[u] => d \in mine'[u]
        BY <2>4, <3>3
      <4> QED
        BY <1>2, <4>1, InitializerKeeps
    <3>8. Who' = [Who EXCEPT ![c] = "done"]
      BY <2>3, <3>6, <3>7
    <3>9. Super[c] = NoClass \/ Who[Super[c]] = "done"
      BY <1>2, <2>1, <3>3, SuperIsDone DEF Ready
    <3>10. Abstract!Complete(c)
      BY <2>1, <3>4, <3>8, <3>9 DEF Abstract!Complete, Abstract!SuperIs, Who
    <3> QED
      BY <3>10 DEF Abstract!Next
  <2>7. CASE UNCHANGED vars
    BY <2>2, <2>7 DEF vars
  <2>8. CASE Next
    <3>1. \/ flags' = flags /\ mine' = mine
          \/ \E t \in Threads : (Mark(t) /\ flags[Cls(t)] = {}) \/ Finishing(t)
      <4>1. PICK t \in Threads : (\E c \in Classes : Message(t, c)) \/ WakeUp(t) \/ Step(t)
        BY <2>8 DEF Next
      <4> QED
        BY <4>1 DEF Step, Message, WakeUp, Send, Start, Mark, Other, OtherAgain, Wait, InitializeReturns,
                    FinishNow, FinishAfter
    <3> QED
      BY <2>2, <2>5, <2>6, <3>1
  <2> QED
    BY <1>2, <2>7, <2>8
<1>3. IInv /\ [Next]_vars => IInv'
  BY StepKeeps
<1> QED
  BY <1>1, <1>2, <1>3, Invariant, PTL DEF Spec, Implements, Abstract!Spec

-----------------------------------------------------------------------------
(* Names                                                                   *)

\* Min is the least member.
LEMMA MinOf ==
  ASSUME NEW S \in SUBSET Nat, S # {}
  PROVE  /\ Min(S) \in S /\ \A y \in S : Min(S) <= y
         /\ \A x \in S : (\A y \in S : x <= y) => Min(S) = x
<1>1. Min(S) \in S /\ \A y \in S : Min(S) <= y
  BY LeastOf DEF Min
<1>2. ASSUME NEW x \in S, \A y \in S : x <= y
      PROVE  Min(S) = x
  <2>1. PICK m : m = Min(S)
    OBVIOUS
  <2>2. m \in Nat /\ x \in Nat /\ m <= x /\ x <= m
    BY <1>1, <1>2, <2>1
  <2> QED
    BY <2>1, <2>2
<1> QED
  BY <1>1, <1>2

\* Two ways to the same slot go on together.
LEMMA Together ==
  ASSUME NEW n \in Nat \ {0}, NEW g \in Nat, NEW h \in Nat, NEW a \in Nat, NEW b \in Nat,
         SlotAt(g, a, n) = SlotAt(h, b, n), NEW x \in Nat
  PROVE  SlotAt(g, a + x, n) = SlotAt(h, b + x, n)
<1>1. PICK p, q, r, s, u : /\ p = (g + a) \div n /\ r = (g + a) % n
                           /\ q = (h + b) \div n /\ s = (g + (a + x)) % n /\ u = (g + (a + x)) \div n
  OBVIOUS
<1>2. g + a \in Int /\ h + b \in Int /\ g + (a + x) \in Int /\ h + (b + x) \in Int
  OBVIOUS
<1>3. p \in Int /\ r \in 0 .. n - 1 /\ g + a = n * p + r
  BY <1>1, <1>2, Division
<1>4. r = (h + b) % n
  BY <1>1 DEF SlotAt
<1>5. q \in Int /\ h + b = n * q + r
  BY <1>1, <1>2, <1>4, Division
<1>6. u \in Int /\ s \in 0 .. n - 1 /\ g + (a + x) = n * u + s
  BY <1>1, <1>2, Division
<1>7. PICK v \in Int : v = (u - p) + q
  BY <1>3, <1>5, <1>6
<1>8. n * v = n * u - n * p + n * q
  BY <1>3, <1>5, <1>6, <1>7
<1>9. PICK nu, np, nq, nv : nu = n * u /\ np = n * p /\ nq = n * q /\ nv = n * v
                            /\ nu \in Int /\ np \in Int /\ nq \in Int /\ nv \in Int
  BY <1>3, <1>5, <1>6, <1>7
<1>10. h + (b + x) = n * v + s
  BY <1>3, <1>5, <1>6, <1>8, <1>9
<1>11. s = (h + (b + x)) % n
  BY <1>2, <1>6, <1>7, <1>10, Division
<1> QED
  BY <1>1, <1>11 DEF SlotAt

\* A function that pairs the members of two sets off.
LEMMA SameSize ==
  ASSUME NEW S, IsFiniteSet(S), NEW T, NEW f \in [S -> T],
         \A x, y \in S : f[x] = f[y] => x = y, \A z \in T : \E x \in S : f[x] = z
  PROVE  IsFiniteSet(T) /\ Cardinality(T) = Cardinality(S)
<1>1. f \in Bijection(S, T)
  BY DEF Bijection, Injection, Surjection, IsInjective
<1>2. ExistsBijection(S, T)
  BY <1>1 DEF ExistsBijection
<1> QED
  BY <1>2, FS_Bijection

-----------------------------------------------------------------------------
(* NXMapTable                                                              *)

MapKeys == SelNames \cup FutureNames \cup Classed
Pairs(V) == [key : MapKeys \cup {NoKey}, value : V \cup {NoValue}]
MapTables(V) == [pairs : UNION {[0 .. n - 1 -> Pairs(V)] : n \in Nat}, count : Nat]
Taken(t) == {i \in DOMAIN t.pairs : t.pairs[i].key # NoKey}

\* A search for k comes to slot i without meeting a free one.
Leads(t, n, k, i) ==
  \A d \in 0 .. n - 1 : d < Further(TableHash[k], i, n) => SlotAt(TableHash[k], d, n) \in Taken(t)

\* The table t has n slots and in them, counted, the pairs E: one for each key, which a search
\* for it comes to.
MapHas(t, n, V, E) ==
  /\ n \in Nat /\ t \in MapTables(V) /\ t.pairs \in [0 .. n - 1 -> Pairs(V)]
  /\ t.count = Cardinality(Taken(t))
  /\ \A i, j \in Taken(t) : t.pairs[i].key = t.pairs[j].key => i = j
  /\ \A i \in Taken(t) : Leads(t, n, t.pairs[i].key, i)
  /\ E = {t.pairs[i] : i \in Taken(t)}

\* What the assumptions say.
LEMMA NamesConstants ==
  /\ NoKey \notin MapKeys /\ \A k \in MapKeys : TableHash[k] \in Nat
  /\ NoName \notin SelNames /\ NoValue \notin FutureNames /\ NoValue \notin Nat
  BY NamesAssumption DEF MapKeys

\* How many slots there are.
LEMMA SlotsIn ==
  ASSUME NEW n \in Nat, NEW f, DOMAIN f = 0 .. n - 1
  PROVE  Size(f) = n
<1>1. Cardinality(0 .. n - 1) = IF 0 > n - 1 THEN 0 ELSE n - 1 - 0 + 1
  BY FS_Interval
<1> QED
  BY <1>1 DEF Size

\* What the parts of a table are.
LEMMA MapFacts ==
  ASSUME NEW t, NEW n, NEW V, NEW E, MapHas(t, n, V, E)
  PROVE  /\ n \in Nat /\ t.pairs \in [0 .. n - 1 -> Pairs(V)] /\ DOMAIN t.pairs = 0 .. n - 1
         /\ Size(t.pairs) = n /\ t.count \in Nat /\ t = [pairs |-> t.pairs, count |-> t.count]
         /\ Taken(t) = {i \in 0 .. n - 1 : t.pairs[i].key # NoKey}
         /\ \A i \in Taken(t) : t.pairs[i] \in Pairs(V) /\ t.pairs[i].key \in MapKeys
                                /\ TableHash[t.pairs[i].key] \in Nat
         /\ IsFiniteSet(Taken(t)) /\ t.count = Cardinality(Taken(t)) /\ t.count <= n
         /\ E = {t.pairs[i] : i \in Taken(t)}
<1>1. /\ n \in Nat /\ t.pairs \in [0 .. n - 1 -> Pairs(V)] /\ DOMAIN t.pairs = 0 .. n - 1
      /\ t.count = Cardinality(Taken(t)) /\ t.count \in Nat
      /\ t = [pairs |-> t.pairs, count |-> t.count]
      /\ E = {t.pairs[i] : i \in Taken(t)}
  BY DEF MapHas, MapTables
<1>2. Size(t.pairs) = n
  BY <1>1, SlotsIn
<1>3. Taken(t) = {i \in 0 .. n - 1 : t.pairs[i].key # NoKey}
  BY <1>1 DEF Taken
<1>4. \A i \in Taken(t) : /\ t.pairs[i] \in Pairs(V) /\ t.pairs[i].key \in MapKeys
                          /\ TableHash[t.pairs[i].key] \in Nat
  BY <1>1, <1>3, NamesConstants DEF Pairs
<1>5. IsFiniteSet(0 .. n - 1) /\ Cardinality(0 .. n - 1) = n
  <2>0. n - 1 \in Int
    BY <1>1
  <2>1. /\ IsFiniteSet(0 .. n - 1)
        /\ Cardinality(0 .. n - 1) = IF 0 > n - 1 THEN 0 ELSE n - 1 - 0 + 1
    BY <2>0, FS_Interval
  <2> QED
    BY <1>1, <2>1
<1>6. Taken(t) \subseteq 0 .. n - 1
  BY <1>3
<1>7. IsFiniteSet(Taken(t)) /\ Cardinality(Taken(t)) <= n
  BY <1>5, <1>6, FS_Subset
<1> QED
  BY <1>1, <1>2, <1>3, <1>4, <1>7

\* A search for a key that is in the table ends where it is.
LEMMA SearchFinds ==
  ASSUME NEW t, NEW n, NEW V, NEW E, MapHas(t, n, V, E), NEW s \in Taken(t), NEW k, k = t.pairs[s].key
  PROVE  /\ MapMember(t, k) /\ PairBucket(t, k) = s /\ MapGet(t, k) = t.pairs[s].value
         /\ StopsFor(t, k) # {}
<1>1. PICK h : h = TableHash[k]
  OBVIOUS
<1>2. /\ n \in Nat \ {0} /\ h \in Nat /\ Size(t.pairs) = n /\ s \in 0 .. n - 1 /\ k # NoKey
      /\ Taken(t) = {i \in 0 .. n - 1 : t.pairs[i].key # NoKey}
  <2>1. /\ n \in Nat /\ h \in Nat /\ Size(t.pairs) = n /\ s \in 0 .. n - 1 /\ k # NoKey
        /\ Taken(t) = {i \in 0 .. n - 1 : t.pairs[i].key # NoKey}
    BY <1>1, MapFacts
  <2> QED
    BY <2>1
<1>3. PICK S : S = {d \in 0 .. n - 1 : t.pairs[SlotAt(h, d, n)].key \in {k, NoKey}}
  OBVIOUS
<1>4. S = StopsFor(t, k)
  BY <1>1, <1>2, <1>3 DEF StopsFor, BucketAt, SlotAt
<1>5. PICK f : f = Further(h, s, n) /\ f \in 0 .. n - 1 /\ SlotAt(h, f, n) = s
  <2>1. n \in Nat \ {0} /\ h \in Nat /\ s \in 0 .. n - 1
    BY <1>2
  <2>2. Further(h, s, n) \in 0 .. n - 1 /\ SlotAt(h, Further(h, s, n), n) = s
    BY <2>1, Distance
  <2> QED
    BY <2>2
<1>6. f \in S
  BY <1>3, <1>5
<1>7. ASSUME NEW d \in S
      PROVE  f <= d
  <2>1. SUFFICES ASSUME d < f
                 PROVE  FALSE
    BY <1>2, <1>3, <1>5
  <2>2. d \in 0 .. n - 1 /\ t.pairs[SlotAt(h, d, n)].key \in {k, NoKey}
    BY <1>3
  <2>3. SlotAt(h, d, n) \in Taken(t)
    BY <1>1, <1>5, <2>1, <2>2 DEF MapHas, Leads
  <2>4. t.pairs[SlotAt(h, d, n)].key = k
    BY <1>2, <2>2, <2>3
  <2>5. SlotAt(h, d, n) = s
    BY <2>3, <2>4 DEF MapHas
  <2>6. Further(h, SlotAt(h, d, n), n) = d
    BY <1>2, <2>2, Distance
  <2>7. f = d
    BY <1>5, <2>5, <2>6
  <2> QED
    BY <1>5, <2>1, <2>7
<1>8. Min(S) = f
  <2>1. S \in SUBSET Nat /\ S # {}
    BY <1>3, <1>6
  <2> QED
    BY <1>6, <1>7, <2>1, MinOf
<1>9. PairBucket(t, k) = s
  BY <1>1, <1>2, <1>4, <1>5, <1>8 DEF PairBucket, BucketAt, SlotAt
<1>10. StopsFor(t, k) # {}
  BY <1>4, <1>6
<1> QED
  BY <1>9, <1>10 DEF MapMember, MapGet

\* A search for another ends at a free slot, if there is one.
LEMMA SearchEnds ==
  ASSUME NEW t, NEW n, NEW V, NEW E, MapHas(t, n, V, E), NEW k \in MapKeys, \A p \in E : p.key # k
  PROVE  /\ ~MapMember(t, k) /\ MapGet(t, k) = NoValue
         /\ t.count # n => LET s == PairBucket(t, k) IN
              /\ StopsFor(t, k) # {} /\ s \in 0 .. n - 1 /\ t.pairs[s].key = NoKey
              /\ Leads(t, n, k, s)
<1>1. PICK h : h = TableHash[k] /\ h \in Nat
  BY NamesConstants
<1>2. /\ n \in Nat /\ Size(t.pairs) = n /\ k # NoKey /\ DOMAIN t.pairs = 0 .. n - 1
      /\ Taken(t) = {i \in 0 .. n - 1 : t.pairs[i].key # NoKey}
      /\ t.count = Cardinality(Taken(t))
      /\ \A i \in 0 .. n - 1 : t.pairs[i].key # k
  BY MapFacts, NamesConstants
<1>3. PICK S : S = {d \in 0 .. n - 1 : t.pairs[SlotAt(h, d, n)].key \in {k, NoKey}}
  OBVIOUS
<1>4. S = StopsFor(t, k)
  BY <1>1, <1>2, <1>3 DEF StopsFor, BucketAt, SlotAt
<1>5. ASSUME S # {}
      PROVE  /\ PairBucket(t, k) \in 0 .. n - 1 /\ t.pairs[PairBucket(t, k)].key = NoKey
             /\ Leads(t, n, k, PairBucket(t, k))
  <2>1. S \in SUBSET Nat
    BY <1>3
  <2>2. PICK d : d = Min(S) /\ d \in S /\ \A e \in S : d <= e
    BY <1>5, <2>1, MinOf
  <2>3. d \in 0 .. n - 1 /\ n \in Nat \ {0} /\ t.pairs[SlotAt(h, d, n)].key \in {k, NoKey}
    BY <1>2, <1>3, <2>2
  <2>4. PICK s : s = SlotAt(h, d, n) /\ s \in 0 .. n - 1 /\ Further(h, s, n) = d
    <3>1. n \in Nat \ {0} /\ h \in Nat /\ d \in 0 .. n - 1 /\ d \in Nat
      BY <1>1, <2>3
    <3>2. SlotAt(h, d, n) \in 0 .. n - 1 /\ Further(h, SlotAt(h, d, n), n) = d
      BY <3>1, Distance
    <3> QED
      BY <3>2
  <2>5. PairBucket(t, k) = s
    BY <1>1, <1>2, <1>4, <2>2, <2>4 DEF PairBucket, BucketAt, SlotAt
  <2>6. t.pairs[s].key = NoKey
    BY <1>2, <2>3, <2>4
  <2>7. ASSUME NEW e \in 0 .. n - 1, e < d
        PROVE  SlotAt(h, e, n) \in Taken(t)
    <3>1. e \notin S
      BY <2>2, <2>3, <2>7
    <3>2. SlotAt(h, e, n) \in 0 .. n - 1
      <4>1. n \in Nat \ {0} /\ h \in Nat /\ e \in Nat
        BY <1>1, <2>3
      <4> QED
        BY <4>1, Distance
    <3> QED
      BY <1>2, <1>3, <3>1, <3>2
  <2> QED
    BY <1>1, <2>4, <2>5, <2>6, <2>7 DEF Leads
<1>6. ASSUME t.count # n
      PROVE  S # {}
  <2>1. Taken(t) \in SUBSET (0 .. n - 1) /\ Cardinality(Taken(t)) # n
    BY <1>2, <1>6
  <2>2. PICK f \in 0 .. n - 1 : f \notin Taken(t)
    BY <1>2, <2>1, FreeSlot
  <2>3. n \in Nat \ {0}
    BY <1>2, <2>2
  <2>4. PICK d : d \in 0 .. n - 1 /\ SlotAt(h, d, n) = f
    <3>1. n \in Nat \ {0} /\ h \in Nat /\ f \in 0 .. n - 1
      BY <1>1, <2>2, <2>3
    <3>2. Further(h, f, n) \in 0 .. n - 1 /\ SlotAt(h, Further(h, f, n), n) = f
      BY <3>1, Distance
    <3> QED
      BY <3>2
  <2>5. t.pairs[f].key = NoKey
    BY <1>2, <2>2
  <2> QED
    BY <1>3, <2>4, <2>5
<1>7. ~MapMember(t, k)
  <2>1. CASE S = {}
    BY <1>4, <2>1 DEF MapMember
  <2>2. CASE S # {}
    BY <1>2, <1>5, <2>2 DEF MapMember
  <2> QED
    BY <2>1, <2>2
<1> QED
  BY <1>4, <1>5, <1>6, <1>7 DEF MapGet

Pair(k, v) == [key |-> k, value |-> v]
Without(E, k) == {p \in E : p.key # k}

\* A pair comes to a slot that a search for its key leads to.
LEMMA PutAt ==
  ASSUME NEW t, NEW n, NEW V, NEW E, MapHas(t, n, V, E), NEW s \in 0 .. n - 1, NEW k \in MapKeys,
         NEW v \in V, Leads(t, n, k, s), \A i \in Taken(t) : t.pairs[i].key = k <=> i = s,
         NEW c, c = IF s \in Taken(t) THEN t.count ELSE t.count + 1
  PROVE  LET x == [pairs |-> [t.pairs EXCEPT ![s] = Pair(k, v)], count |-> c] IN
         MapHas(x, n, V, Without(E, k) \cup {Pair(k, v)}) /\ x.count = c
<1>1. /\ n \in Nat /\ t.pairs \in [0 .. n - 1 -> Pairs(V)] /\ DOMAIN t.pairs = 0 .. n - 1
      /\ t.count \in Nat /\ k # NoKey
      /\ Taken(t) = {i \in 0 .. n - 1 : t.pairs[i].key # NoKey}
      /\ IsFiniteSet(Taken(t)) /\ t.count = Cardinality(Taken(t))
      /\ E = {t.pairs[i] : i \in Taken(t)}
  BY MapFacts, NamesConstants
<1>2. PICK p : p = Pair(k, v) /\ p.key = k /\ p \in Pairs(V)
  <2>1. PICK p : p = Pair(k, v)
    OBVIOUS
  <2>2. p = [key |-> k, value |-> v] /\ v \in V \cup {NoValue}
    BY <2>1 DEF Pair
  <2>3. p.key = k /\ p \in Pairs(V)
    BY <2>2 DEF Pairs
  <2> QED
    BY <2>1, <2>3
<1>3. PICK g, x : g = [t.pairs EXCEPT ![s] = p] /\ x = [pairs |-> g, count |-> c]
  OBVIOUS
<1>4. /\ g \in [0 .. n - 1 -> Pairs(V)] /\ DOMAIN g = 0 .. n - 1
      /\ \A i \in 0 .. n - 1 : g[i] = IF i = s THEN p ELSE t.pairs[i]
  BY <1>1, <1>2, <1>3
<1>5. Cardinality(Taken(t) \cup {s}) = IF s \in Taken(t) THEN t.count ELSE t.count + 1
  BY <1>1, FS_AddElement
<1>6. c \in Nat /\ x \in MapTables(V) /\ x.pairs = g /\ x.count = c
  <2>1. g \in UNION {[0 .. m - 1 -> Pairs(V)] : m \in Nat}
    BY <1>1, <1>4
  <2>2. c \in Nat
    BY <1>1
  <2> QED
    BY <1>3, <2>1, <2>2 DEF MapTables
<1>7. Taken(x) = Taken(t) \cup {s}
  BY <1>1, <1>2, <1>4, <1>6 DEF Taken
<1>8. \A i \in Taken(x) : x.pairs[i] = IF i = s THEN p ELSE t.pairs[i]
  BY <1>1, <1>4, <1>6, <1>7
<1>9. \A i, j \in Taken(x) : x.pairs[i].key = x.pairs[j].key => i = j
  BY <1>2, <1>7, <1>8 DEF MapHas
<1>10. \A i \in Taken(x) : Leads(x, n, x.pairs[i].key, i)
  <2>1. \A i \in Taken(t) : i # s => Leads(t, n, t.pairs[i].key, i)
    BY DEF MapHas
  <2>2. \A i \in Taken(x) : Leads(t, n, x.pairs[i].key, i)
    BY <1>2, <1>7, <1>8, <2>1
  <2> QED
    BY <1>7, <2>2 DEF Leads
<1>11. Without(E, k) \cup {p} = {x.pairs[i] : i \in Taken(x)}
  BY <1>1, <1>7, <1>8 DEF Without
<1>12. MapHas(x, n, V, Without(E, k) \cup {p})
  BY <1>1, <1>4, <1>5, <1>6, <1>7, <1>9, <1>10, <1>11 DEF MapHas
<1> QED
  BY <1>2, <1>3, <1>6, <1>12

\* A pair for a new key if there is room, or another value for a key.
LEMMA PutPuts ==
  ASSUME NEW t, NEW n, NEW V, NEW E, MapHas(t, n, V, E), NEW k \in MapKeys, NEW v \in V,
         (\E p \in E : p.key = k) \/ t.count # n
  PROVE  /\ MapHas(Put(t, k, v), n, V, Without(E, k) \cup {Pair(k, v)})
         /\ (\E p \in E : p.key = k) => MapMember(t, k) /\ Put(t, k, v).count = t.count
         /\ (\A p \in E : p.key # k) => ~MapMember(t, k) /\ Put(t, k, v).count = t.count + 1
         /\ StopsFor(t, k) # {}
<1>1. PICK s : s = PairBucket(t, k)
  OBVIOUS
<1>2. PICK x, c : /\ c = IF MapMember(t, k) THEN t.count ELSE t.count + 1
                  /\ x = [pairs |-> [t.pairs EXCEPT ![s] = Pair(k, v)], count |-> c]
  OBVIOUS
<1>3. /\ t = [pairs |-> t.pairs, count |-> t.count] /\ E = {t.pairs[i] : i \in Taken(t)}
      /\ Taken(t) = {i \in 0 .. n - 1 : t.pairs[i].key # NoKey}
  BY MapFacts
<1>4. Put(t, k, v) = x
  <2>1. PICK a, b : a = t.pairs /\ b = t.count
    OBVIOUS
  <2>2. Put(t, k, v) = [t EXCEPT !.pairs[s] = Pair(k, v),
                                 !.count = IF MapMember(t, k) THEN @ ELSE @ + 1]
    BY <1>1 DEF Put, Pair
  <2> QED
    BY <1>2, <1>3, <2>1, <2>2
<1>5. CASE \E p \in E : p.key = k
  <2>1. PICK i \in Taken(t) : t.pairs[i].key = k
    BY <1>3, <1>5
  <2>2. MapMember(t, k) /\ s = i /\ StopsFor(t, k) # {}
    BY <1>1, <2>1, SearchFinds
  <2>3. s \in 0 .. n - 1 /\ s \in Taken(t) /\ Leads(t, n, k, s)
    BY <1>3, <2>1, <2>2 DEF MapHas
  <2>4. \A j \in Taken(t) : t.pairs[j].key = k <=> j = s
    BY <2>1, <2>2 DEF MapHas
  <2>5. c = IF s \in Taken(t) THEN t.count ELSE t.count + 1
    BY <1>2, <2>2, <2>3
  <2>6. MapHas(x, n, V, Without(E, k) \cup {Pair(k, v)}) /\ x.count = c
    BY <1>2, <2>3, <2>4, <2>5, PutAt
  <2> QED
    BY <1>2, <1>4, <1>5, <2>2, <2>6
<1>6. CASE ~ \E p \in E : p.key = k
  <2>1. \A p \in E : p.key # k
    BY <1>6
  <2>2. t.count # n
    BY <1>6
  <2>3. ~MapMember(t, k) /\ StopsFor(t, k) # {}
        /\ s \in 0 .. n - 1 /\ t.pairs[s].key = NoKey /\ Leads(t, n, k, s)
    BY <1>1, <2>1, <2>2, SearchEnds
  <2>4. \A j \in Taken(t) : t.pairs[j].key = k <=> j = s
    BY <1>3, <2>1, <2>3
  <2>5. c = IF s \in Taken(t) THEN t.count ELSE t.count + 1
    BY <1>2, <1>3, <2>3
  <2>6. MapHas(x, n, V, Without(E, k) \cup {Pair(k, v)}) /\ x.count = c
    BY <1>2, <2>3, <2>4, <2>5, PutAt
  <2> QED
    BY <1>2, <1>4, <1>6, <2>3, <2>6
<1> QED
  BY <1>5, <1>6

\* A table without pairs.
LEMMA EmptyPairsHas ==
  ASSUME NEW n \in Nat, NEW V
  PROVE  MapHas(EmptyPairs(n), n, V, {}) /\ EmptyPairs(n).count = 0
<1>1. PICK t, f : t = EmptyPairs(n) /\ f = [i \in 0 .. n - 1 |-> NoPair]
  OBVIOUS
<1>2. t = [pairs |-> f, count |-> 0]
  BY <1>1 DEF EmptyPairs
<1>3. f \in [0 .. n - 1 -> Pairs(V)] /\ \A i \in DOMAIN f : f[i].key = NoKey
  BY <1>1 DEF Pairs, NoPair
<1>4. t \in MapTables(V) /\ t.pairs = f /\ t.count = 0
  BY <1>2, <1>3 DEF MapTables
<1>5. Taken(t) = {}
  BY <1>3, <1>4 DEF Taken
<1>6. MapHas(t, n, V, {})
  BY <1>3, <1>4, <1>5, FS_EmptySet DEF MapHas
<1> QED
  BY <1>1, <1>4, <1>6

\* A loop over the slots of a table, each turn of which leaves x or makes it Next(x, slot).
MapMoves(f, m, pairs, base) ==
  f = [i \in 0 .. m |-> IF i = 0 THEN base
                        ELSE IF pairs[i - 1].key = NoKey THEN f[i - 1]
                        ELSE Put(f[i - 1], pairs[i - 1].key, pairs[i - 1].value)]

\* _NXMapRehash: the same pairs in twice the slots.
LEMMA RehashKeeps ==
  ASSUME NEW t, NEW m, NEW V, NEW E, MapHas(t, m, V, E), \A p \in E : p.value \in V
  PROVE  MapHas(MapRehash(t), 2 * m, V, E) /\ MapRehash(t).count = t.count
<1>0. PICK pairs, n : pairs = t.pairs /\ n = 2 * m
  OBVIOUS
<1> DEFINE First(i) == {j \in 0 .. i - 1 : pairs[j].key # NoKey}
           Like(x, i) == MapHas(x, n, V, {pairs[j] : j \in First(i)}) /\ x.count = Cardinality(First(i))
           R == [i \in 0 .. m |-> {x \in MapTables(V) : Like(x, i)}]
           Turn(x, i) == IF pairs[i - 1].key = NoKey THEN x
                         ELSE Put(x, pairs[i - 1].key, pairs[i - 1].value)
           g == [p \in MapTables(V) \X (1 .. m) |-> Turn(p[1], p[2])]
<1>1. /\ m \in Nat /\ n \in Nat /\ m <= n /\ Size(pairs) = m /\ t.count \in Nat
      /\ Taken(t) = First(m) /\ IsFiniteSet(First(m)) /\ t.count = Cardinality(First(m))
      /\ t.count <= m
      /\ \A j \in First(m) : /\ pairs[j].key \in MapKeys /\ pairs[j].value \in V
                             /\ pairs[j] = Pair(pairs[j].key, pairs[j].value)
      /\ \A i, j \in First(m) : pairs[i].key = pairs[j].key => i = j
      /\ E = {pairs[j] : j \in First(m)}
  <2>1. /\ m \in Nat /\ Size(pairs) = m /\ t.count \in Nat /\ t.count <= m
        /\ Taken(t) = {i \in 0 .. m - 1 : pairs[i].key # NoKey}
        /\ \A i \in Taken(t) : pairs[i] \in Pairs(V) /\ pairs[i].key \in MapKeys
        /\ IsFiniteSet(Taken(t)) /\ t.count = Cardinality(Taken(t))
        /\ E = {pairs[j] : j \in Taken(t)}
    BY <1>0, MapFacts
  <2>2. Taken(t) = First(m)
    BY <2>1
  <2>3. \A i, j \in Taken(t) : pairs[i].key = pairs[j].key => i = j
    BY <1>0 DEF MapHas
  <2>4. \A j \in Taken(t) : /\ pairs[j].key \in MapKeys /\ pairs[j].value \in V
                            /\ pairs[j] = Pair(pairs[j].key, pairs[j].value)
    BY <2>1 DEF Pairs, Pair
  <2>5. n \in Nat /\ m <= n
    BY <1>0, <2>1
  <2> HIDE DEF First, Like, R, Turn, g
  <2>6. /\ m \in Nat /\ n \in Nat /\ m <= n /\ Size(pairs) = m /\ t.count \in Nat /\ t.count <= m
        /\ IsFiniteSet(First(m)) /\ t.count = Cardinality(First(m)) /\ E = {pairs[j] : j \in First(m)}
    BY <2>1, <2>2, <2>5, Zenon
  <2>7. \A j \in First(m) : /\ pairs[j].key \in MapKeys /\ pairs[j].value \in V
                             /\ pairs[j] = Pair(pairs[j].key, pairs[j].value)
    BY <2>2, <2>4, Zenon
  <2>8. \A i, j \in First(m) : pairs[i].key = pairs[j].key => i = j
    BY <2>2, <2>3, Zenon
  <2> QED
    BY <2>2, <2>6, <2>7, <2>8, Zenon
<1>2. ASSUME NEW i \in 1 .. m, NEW x \in R[i - 1]
      PROVE  x \in MapTables(V) /\ Turn(x, i) \in R[i]
  <2>1. i - 1 \in 0 .. m /\ i \in 0 .. m /\ i - 1 \in 0 .. m - 1
    BY <1>1
  <2>2. x \in MapTables(V) /\ Like(x, i - 1)
    BY <2>1
  <2>3. PICK k, v : k = pairs[i - 1].key /\ v = pairs[i - 1].value
    OBVIOUS
  <2>4. First(i) = IF k = NoKey THEN First(i - 1) ELSE First(i - 1) \cup {i - 1}
    <3>1. 0 .. i - 1 = 0 .. (i - 1) - 1 \cup {i - 1}
      BY <1>1
    <3> QED
      BY <2>3, <3>1
  <2>5. First(i) \subseteq First(m) /\ i - 1 \notin First(i - 1) /\ First(i - 1) \subseteq First(i)
    BY <1>1, <2>4
  <2>6. CASE k = NoKey
    <3>1. First(i) = First(i - 1)
      BY <2>4, <2>6
    <3>2. Like(x, i)
      BY <2>2, <3>1
    <3>3. Turn(x, i) = x
      BY <2>3, <2>6
    <3> HIDE DEF Like, Turn
    <3> QED
      BY <2>1, <2>2, <3>2, <3>3
  <2>7. CASE k # NoKey
    <3>1. i - 1 \in First(m) /\ First(i) = First(i - 1) \cup {i - 1}
      BY <2>4, <2>5, <2>7
    <3>2. k \in MapKeys /\ v \in V /\ pairs[i - 1] = Pair(k, v)
      BY <1>1, <2>3, <3>1
    <3>3. \A p \in {pairs[j] : j \in First(i - 1)} : p.key # k
      <4> SUFFICES ASSUME NEW j \in First(i - 1)
                   PROVE  pairs[j].key # k
        OBVIOUS
      <4>1. j \in First(m) /\ j # i - 1
        BY <2>5
      <4> HIDE DEF First
      <4> QED
        BY <1>1, <2>3, <3>1, <4>1
    <3>4. /\ IsFiniteSet(First(i - 1)) /\ Cardinality(First(i - 1)) \in Nat
          /\ Cardinality(First(i)) = Cardinality(First(i - 1)) + 1
          /\ Cardinality(First(i)) <= Cardinality(First(m)) /\ Cardinality(First(i)) \in Nat
      <4> HIDE DEF First
      <4>1. IsFiniteSet(First(i)) /\ Cardinality(First(i)) <= Cardinality(First(m))
        BY <1>1, <2>5, FS_Subset
      <4>2. IsFiniteSet(First(i - 1))
        BY <2>5, <4>1, FS_Subset
      <4>3. Cardinality(First(i - 1) \cup {i - 1}) = Cardinality(First(i - 1)) + 1
        BY <2>5, <4>2, FS_AddElement
      <4> QED
        BY <3>1, <4>1, <4>2, <4>3, FS_CardinalityType
    <3>5. x.count # n
      <4>1. PICK a, b, c : a = Cardinality(First(i - 1)) /\ b = Cardinality(First(i)) /\ c = Cardinality(First(m))
        OBVIOUS
      <4> HIDE DEF First
      <4> QED
        BY <1>1, <2>2, <3>4, <4>1
    <3>6. PICK y, F : y = Put(x, k, v) /\ F = {pairs[j] : j \in First(i - 1)}
      OBVIOUS
    <3>7. MapHas(y, n, V, F \cup {Pair(k, v)}) /\ y.count = x.count + 1
      <4> HIDE DEF First
      <4>1. MapHas(x, n, V, F)
        BY <2>2, <3>6
      <4>2. Without(F, k) = F /\ ~ \E p \in F : p.key = k
        BY <3>3, <3>6 DEF Without
      <4>3. x.count # n
        BY <3>5
      <4>4. k \in MapKeys /\ v \in V /\ ((\E p \in F : p.key = k) \/ x.count # n)
        BY <3>2, <4>3
      <4> HIDE DEF Like, R, Turn, g
      <4>5. /\ MapHas(Put(x, k, v), n, V, Without(F, k) \cup {Pair(k, v)})
            /\ (\A p \in F : p.key # k) => Put(x, k, v).count = x.count + 1
        BY <4>1, <4>4, PutPuts
      <4> QED
        BY <3>6, <4>2, <4>5
    <3>8. {pairs[j] : j \in First(i)} = F \cup {Pair(k, v)}
      <4> HIDE DEF First
      <4> QED
        BY <3>1, <3>2, <3>6
    <3>9. y \in MapTables(V) /\ Like(y, i)
      <4> HIDE DEF First
      <4> QED
        BY <2>2, <3>4, <3>7, <3>8 DEF MapHas
    <3>10. Turn(x, i) = y
      BY <2>3, <2>7, <3>6
    <3> HIDE DEF Like, Turn
    <3> QED
      BY <2>1, <3>9, <3>10
  <2> QED
    BY <2>2, <2>6, <2>7
<1>3. EmptyPairs(n) \in R[0]
  <2>1. First(0) = {} /\ {pairs[j] : j \in First(0)} = {}
    OBVIOUS
  <2>2. 0 \in 0 .. m
    BY <1>1
  <2>3. Like(EmptyPairs(n), 0)
    <3>1. MapHas(EmptyPairs(n), n, V, {}) /\ EmptyPairs(n).count = 0
      BY <1>1, EmptyPairsHas
    <3>2. Cardinality(First(0)) = 0
      BY <2>1, FS_EmptySet
    <3> HIDE DEF First
    <3> QED
      BY <2>1, <3>1, <3>2
  <2>4. EmptyPairs(n) \in MapTables(V)
    BY <1>1, EmptyPairsHas DEF MapHas
  <2> HIDE DEF Like
  <2> QED
    BY <2>2, <2>3, <2>4
<1>4. TurnsKeep(g, m, R)
  <2> SUFFICES ASSUME NEW i \in 1 .. m, NEW x \in R[i - 1]
               PROVE  g[<<x, i>>] \in R[i]
    BY DEF TurnsKeep
  <2>1. x \in MapTables(V) /\ Turn(x, i) \in R[i]
    BY <1>2
  <2> HIDE DEF R, Turn
  <2> QED
    BY <2>1
<1>5. PICK f : Loops(f, m, EmptyPairs(n), g) /\ \A i \in 0 .. m : f[i] \in R[i]
  <2> HIDE DEF R, g
  <2> QED
    BY <1>1, <1>3, <1>4, LoopExists
<1>6. \A i \in 0 .. m : f[i] = IF i = 0 THEN EmptyPairs(n) ELSE Turn(f[i - 1], i)
  <2> SUFFICES ASSUME NEW i \in 0 .. m
               PROVE  f[i] = IF i = 0 THEN EmptyPairs(n) ELSE Turn(f[i - 1], i)
    OBVIOUS
  <2>1. CASE i = 0
    <3> HIDE DEF g
    <3> QED
      BY <1>5, <2>1 DEF Loops
  <2>2. CASE i # 0
    <3>1. i \in 1 .. m /\ i - 1 \in 0 .. m
      BY <1>1, <2>2
    <3>2. f[i - 1] \in R[i - 1]
      BY <1>5, <3>1
    <3>3. f[i - 1] \in MapTables(V)
      BY <1>2, <3>1, <3>2
    <3>4. f[i] = g[<<f[i - 1], i>>]
      <4> HIDE DEF g
      <4> QED
        BY <1>5, <2>2 DEF Loops
    <3> HIDE DEF R, Turn
    <3> QED
      BY <2>2, <3>1, <3>3, <3>4
  <2> QED
    BY <2>1, <2>2
<1>7. MapMoves(f, m, pairs, EmptyPairs(n))
  <2>1. f = [i \in 0 .. m |-> f[i]]
    <3> HIDE DEF g
    <3> QED
      BY <1>5 DEF Loops
  <2> QED
    BY <1>6, <2>1 DEF MapMoves
<1>8. MapMoves(CHOOSE h : MapMoves(h, m, pairs, EmptyPairs(n)), m, pairs, EmptyPairs(n))
  BY <1>7, Zenon
<1>9. PICK h : (h = CHOOSE c : MapMoves(c, m, pairs, EmptyPairs(n)))
               /\ MapMoves(h, m, pairs, EmptyPairs(n))
  BY <1>8, Zenon
<1>10. MapRehash(t) = h[m]
  BY <1>0, <1>1, <1>9 DEF MapRehash, MapMoves
<1>11. h[0] \in R[0] /\ \A i \in 1 .. m : h[i - 1] \in R[i - 1] => h[i] \in R[i]
  <2>1. \A i \in 0 .. m : h[i] = IF i = 0 THEN EmptyPairs(n) ELSE Turn(h[i - 1], i)
    BY <1>9, Zenon DEF MapMoves
  <2> HIDE DEF R, Turn
  <2> QED
    BY <1>1, <1>2, <1>3, <2>1
<1>12. h[m] \in R[m]
  <2> HIDE DEF R
  <2>1. \A i \in 0 .. m : h[i] \in R[i]
    BY <1>1, <1>11, LoopKeeps
  <2> QED
    BY <1>1, <2>1
<1>13. Like(h[m], m)
  <2>1. m \in 0 .. m
    BY <1>1
  <2> HIDE DEF Like
  <2> QED
    BY <1>12, <2>1
<1> QED
  BY <1>0, <1>1, <1>10, <1>13

\* A table with the pairs E, and with room.
MapIs(t, V, E) ==
  /\ \E n \in Nat \ {0} : MapHas(t, n, V, E)
  /\ ~Crowded(t) /\ \A p \in E : p.value \in V

\* It is not full.
LEMMA HasRoom ==
  ASSUME NEW t, NEW V, NEW E, MapIs(t, V, E), NEW n \in Nat \ {0}, MapHas(t, n, V, E)
  PROVE  t.count \in Nat /\ t.count < n /\ t.count * 4 <= n * 3
<1>1. t.count \in Nat /\ t.count <= n /\ Size(t.pairs) = n
  BY MapFacts
<1>2. PICK c : c = t.count
  OBVIOUS
<1>3. c \in Nat /\ c * 4 <= n * 3
  BY <1>1, <1>2 DEF MapIs, Crowded
<1> QED
  BY <1>2, <1>3

\* What a lookup answers.
LEMMA MapAnswers ==
  ASSUME NEW t, NEW V, NEW E, MapIs(t, V, E), NEW k \in MapKeys
  PROVE  /\ \A p \in E : p.key = k => MapMember(t, k) /\ MapGet(t, k) = p.value
         /\ (\A p \in E : p.key # k) => ~MapMember(t, k) /\ MapGet(t, k) = NoValue
<1>1. PICK n \in Nat \ {0} : MapHas(t, n, V, E)
  BY DEF MapIs
<1>2. E = {t.pairs[i] : i \in Taken(t)}
  BY <1>1, MapFacts
<1>3. ASSUME NEW p \in E, p.key = k
      PROVE  MapMember(t, k) /\ MapGet(t, k) = p.value
  <2>1. PICK i \in Taken(t) : p = t.pairs[i]
    BY <1>2
  <2> QED
    BY <1>1, <1>3, <2>1, SearchFinds
<1>4. ASSUME \A p \in E : p.key # k
      PROVE  ~MapMember(t, k) /\ MapGet(t, k) = NoValue
  BY <1>1, <1>4, SearchEnds
<1> QED
  BY <1>3, <1>4

\* NXMapInsert, which grows the table when it gets crowded.
LEMMA InsertPuts ==
  ASSUME NEW t, NEW V, NEW E, MapIs(t, V, E), NEW k \in MapKeys, NEW v \in V
  PROVE  MapIs(MapInsert(t, k, v), V, Without(E, k) \cup {Pair(k, v)})
<1>1. PICK n \in Nat \ {0} : MapHas(t, n, V, E)
  BY DEF MapIs
<1>2. t.count \in Nat /\ t.count < n /\ t.count * 4 <= n * 3
  BY <1>1, HasRoom
<1>3. PICK F, full : F = Without(E, k) \cup {Pair(k, v)} /\ full = Put(t, k, v)
  OBVIOUS
<1>4. t.count # n
  BY <1>2
<1>5. /\ MapHas(full, n, V, F) /\ StopsFor(t, k) # {}
      /\ (\E p \in E : p.key = k) => MapMember(t, k) /\ full.count = t.count
      /\ (\A p \in E : p.key # k) => ~MapMember(t, k) /\ full.count = t.count + 1
  BY <1>1, <1>3, <1>4, PutPuts
<1>6. \A p \in F : p.value \in V
  BY <1>3 DEF Without, Pair, MapIs
<1>7. MapInsert(t, k, v) = IF ~MapMember(t, k) /\ Crowded(full) THEN MapRehash(full) ELSE full
  BY <1>3, <1>5 DEF MapInsert
<1>8. PICK c : c = full.count
  OBVIOUS
<1>9. c \in Nat /\ c <= n /\ Size(full.pairs) = n
  BY <1>5, <1>8, MapFacts
<1>10. CASE Crowded(full) /\ ~MapMember(t, k)
  <2>1. PICK x, m : x = MapRehash(full) /\ m = 2 * n
    OBVIOUS
  <2>2. MapHas(x, m, V, F) /\ x.count = c
    BY <1>5, <1>6, <1>8, <2>1, RehashKeeps
  <2>3. m \in Nat \ {0} /\ Size(x.pairs) = m
    BY <2>1, <2>2, MapFacts
  <2>4. ~Crowded(x)
    BY <1>9, <2>1, <2>2, <2>3 DEF Crowded
  <2>5. MapIs(x, V, F)
    BY <1>6, <2>2, <2>3, <2>4 DEF MapIs
  <2> QED
    BY <1>3, <1>7, <1>10, <2>1, <2>5
<1>11. CASE ~Crowded(full)
  <2>1. MapIs(full, V, F)
    BY <1>5, <1>6, <1>11 DEF MapIs
  <2> QED
    BY <1>3, <1>7, <1>11, <2>1
<1>12. CASE MapMember(t, k)
  <2>1. c = t.count
    BY <1>5, <1>8, <1>12
  <2>2. ~Crowded(full)
    BY <1>2, <1>8, <1>9, <2>1 DEF Crowded
  <2> QED
    BY <1>11, <2>2
<1> QED
  BY <1>10, <1>11, <1>12

\* Another value for a key of the table.
LEMMA ValuePuts ==
  ASSUME NEW t, NEW V, NEW E, MapIs(t, V, E), NEW k \in MapKeys, \E p \in E : p.key = k, NEW v \in V
  PROVE  MapIs([t EXCEPT !.pairs[PairBucket(t, k)].value = v], V, Without(E, k) \cup {Pair(k, v)})
<1>1. PICK n \in Nat \ {0} : MapHas(t, n, V, E)
  BY DEF MapIs
<1>2. /\ t.count \in Nat /\ t.count * 4 <= n * 3
      /\ DOMAIN t.pairs = 0 .. n - 1 /\ E = {t.pairs[i] : i \in Taken(t)}
      /\ Taken(t) = {i \in 0 .. n - 1 : t.pairs[i].key # NoKey}
      /\ t = [pairs |-> t.pairs, count |-> t.count]
      /\ \A i \in Taken(t) : t.pairs[i] \in Pairs(V)
  BY <1>1, HasRoom, MapFacts
<1>3. PICK i \in Taken(t) : t.pairs[i].key = k
  BY <1>2
<1>4. MapMember(t, k) /\ PairBucket(t, k) = i
  BY <1>1, <1>3, SearchFinds
<1>5. PICK F, full : F = Without(E, k) \cup {Pair(k, v)} /\ full = Put(t, k, v)
  OBVIOUS
<1>6. MapHas(full, n, V, F) /\ full.count = t.count
  BY <1>1, <1>5, PutPuts
<1>7. PICK a, b, p : a = t.pairs /\ b = t.count /\ p = a[i]
  OBVIOUS
<1>8. p = [key |-> k, value |-> p.value] /\ i \in DOMAIN a
  BY <1>2, <1>3, <1>7 DEF Pairs
<1>9. [p EXCEPT !.value = v] = Pair(k, v)
  BY <1>8 DEF Pair
<1>10. t = [pairs |-> a, count |-> b]
  BY <1>2, <1>7
<1>11. full = [pairs |-> [a EXCEPT ![i] = Pair(k, v)], count |-> b]
  BY <1>4, <1>5, <1>10 DEF Put, Pair
<1>12. [t EXCEPT !.pairs[i].value = v] = [pairs |-> [a EXCEPT ![i] = [p EXCEPT !.value = v]], count |-> b]
  BY <1>7, <1>8, <1>10
<1>13. [t EXCEPT !.pairs[PairBucket(t, k)].value = v] = full
  BY <1>4, <1>9, <1>11, <1>12
<1>14. ~Crowded(full)
  <2>1. PICK c : c = full.count
    OBVIOUS
  <2>2. Size(full.pairs) = n
    BY <1>6, MapFacts
  <2> QED
    BY <1>2, <1>6, <2>1, <2>2 DEF Crowded
<1>15. \A q \in F : q.value \in V
  BY <1>5 DEF Without, Pair, MapIs
<1> QED
  BY <1>5, <1>6, <1>13, <1>14, <1>15 DEF MapIs

\* The buckets that are taken in a row, from the one k hashes to.
ChainOf(t, k) == {BucketAt(t, k, d) : d \in 0 .. ChainLength(t, k) - 1}
SlotsFrom(h, l, n) == {SlotAt(h, d, n) : d \in 0 .. l - 1}

\* It ends at a free one, and a pair with that key would be in it.
LEMMA ChainFacts ==
  ASSUME NEW t, NEW n \in Nat \ {0}, NEW V, NEW E, MapHas(t, n, V, E), t.count # n, NEW k \in MapKeys
  PROVE  /\ ChainLength(t, k) \in 0 .. n - 1
         /\ SlotAt(TableHash[k], ChainLength(t, k), n) \notin Taken(t)
         /\ ChainOf(t, k) = SlotsFrom(TableHash[k], ChainLength(t, k), n)
         /\ ChainOf(t, k) \subseteq Taken(t) /\ Cardinality(ChainOf(t, k)) = ChainLength(t, k)
         /\ \A i \in Taken(t) : t.pairs[i].key = k => i \in ChainOf(t, k)
<1>0. PICK h, l : h = TableHash[k] /\ l = ChainLength(t, k)
  OBVIOUS
<1>1. /\ h \in Nat /\ Size(t.pairs) = n /\ t.count = Cardinality(Taken(t))
      /\ Taken(t) = {i \in 0 .. n - 1 : t.pairs[i].key # NoKey}
  BY <1>0, NamesConstants, MapFacts
<1>2. \A d \in 0 .. n - 1 : SlotAt(h, d, n) \in 0 .. n - 1 /\ Further(h, SlotAt(h, d, n), n) = d
  <2> SUFFICES ASSUME NEW d \in 0 .. n - 1
               PROVE  SlotAt(h, d, n) \in 0 .. n - 1 /\ Further(h, SlotAt(h, d, n), n) = d
    OBVIOUS
  <2>1. n \in Nat \ {0} /\ h \in Nat /\ d \in 0 .. n - 1 /\ d \in Nat
    BY <1>1
  <2> QED
    BY <2>1, Distance
<1>3. \A i \in 0 .. n - 1 : Further(h, i, n) \in 0 .. n - 1 /\ SlotAt(h, Further(h, i, n), n) = i
  <2> SUFFICES ASSUME NEW i \in 0 .. n - 1
               PROVE  Further(h, i, n) \in 0 .. n - 1 /\ SlotAt(h, Further(h, i, n), n) = i
    OBVIOUS
  <2>1. n \in Nat \ {0} /\ h \in Nat /\ i \in 0 .. n - 1
    BY <1>1
  <2> QED
    BY <2>1, Distance
<1>4. PICK S : S = {d \in 0 .. n - 1 : t.pairs[SlotAt(h, d, n)].key = NoKey}
  OBVIOUS
<1>5. l = Min(S \cup {n})
  BY <1>0, <1>1, <1>4 DEF ChainLength, BucketAt, SlotAt
<1>6. S # {}
  <2>1. Taken(t) \in SUBSET (0 .. n - 1) /\ Cardinality(Taken(t)) # n
    BY <1>1
  <2>2. PICK f \in 0 .. n - 1 : f \notin Taken(t)
    BY <2>1, FreeSlot
  <2>3. Further(h, f, n) \in S
    BY <1>1, <1>3, <1>4, <2>2
  <2> QED
    BY <2>3
<1>7. l \in S /\ \A d \in S : l <= d
  <2>1. S \cup {n} \in SUBSET Nat /\ S \cup {n} # {}
    BY <1>4
  <2>2. l \in S \cup {n} /\ \A d \in S \cup {n} : l <= d
    BY <1>5, <2>1, MinOf
  <2>3. \A d \in S : d < n
    BY <1>4
  <2>4. l # n
    BY <1>4, <1>6, <2>2, <2>3
  <2> QED
    BY <2>2, <2>4
<1>8. l \in 0 .. n - 1 /\ SlotAt(h, l, n) \notin Taken(t)
  BY <1>1, <1>4, <1>7
<1>9. \A d \in 0 .. l - 1 : d \in 0 .. n - 1 /\ SlotAt(h, d, n) \in Taken(t)
  <2> SUFFICES ASSUME NEW d \in 0 .. l - 1
               PROVE  d \in 0 .. n - 1 /\ SlotAt(h, d, n) \in Taken(t)
    OBVIOUS
  <2>1. d \in 0 .. n - 1 /\ ~(l <= d)
    BY <1>8
  <2>2. d \notin S
    BY <1>7, <2>1
  <2> QED
    BY <1>1, <1>2, <1>4, <2>1, <2>2
<1>10. ChainOf(t, k) = {SlotAt(h, d, n) : d \in 0 .. l - 1}
  BY <1>0, <1>1 DEF ChainOf, BucketAt, SlotAt
<1>11. ChainOf(t, k) \subseteq Taken(t)
  BY <1>9, <1>10
<1>12. Cardinality(ChainOf(t, k)) = l
  <2>1. PICK f : f = [d \in 0 .. l - 1 |-> SlotAt(h, d, n)]
    OBVIOUS
  <2>2. f \in [0 .. l - 1 -> ChainOf(t, k)]
    BY <1>10, <2>1
  <2>3. \A x, y \in 0 .. l - 1 : f[x] = f[y] => x = y
    BY <1>2, <1>9, <2>1
  <2>4. \A z \in ChainOf(t, k) : \E x \in 0 .. l - 1 : f[x] = z
    BY <1>10, <2>1
  <2>5. IsFiniteSet(0 .. l - 1) /\ Cardinality(0 .. l - 1) = l
    <3>1. l - 1 \in Int /\ l \in Nat
      BY <1>8
    <3>2. PICK m : m = l - 1 /\ m \in Int
      BY <3>1
    <3>3. IsFiniteSet(0 .. m) /\ Cardinality(0 .. m) = IF 0 > m THEN 0 ELSE m - 0 + 1
      <4>1. m \in Int
        BY <3>2
      <4> QED
        BY <4>1, FS_Interval
    <3>4. (IF 0 > m THEN 0 ELSE m - 0 + 1) = l
      BY <3>1, <3>2
    <3> QED
      BY <3>2, <3>3, <3>4
  <2>6. PICK D, C : D = 0 .. l - 1 /\ C = ChainOf(t, k)
    OBVIOUS
  <2>7. f \in [D -> C] /\ IsFiniteSet(D) /\ Cardinality(D) = l
    BY <2>2, <2>5, <2>6
  <2>8. \A x, y \in D : f[x] = f[y] => x = y
    BY <2>3, <2>6
  <2>9. \A z \in C : \E x \in D : f[x] = z
    BY <2>4, <2>6
  <2>10. Cardinality(C) = Cardinality(D)
    BY <2>7, <2>8, <2>9, SameSize
  <2> QED
    BY <2>6, <2>7, <2>10
<1>13. ASSUME NEW i \in Taken(t), t.pairs[i].key = k
       PROVE  i \in ChainOf(t, k)
  <2>1. PICK f : f = Further(h, i, n) /\ f \in 0 .. n - 1 /\ SlotAt(h, f, n) = i
    BY <1>1, <1>3
  <2>2. \A d \in 0 .. n - 1 : d < f => SlotAt(h, d, n) \in Taken(t)
    BY <1>0, <1>13, <2>1 DEF MapHas, Leads
  <2>3. ~(l < f) /\ l # f
    BY <1>8, <2>1, <2>2
  <2>4. f \in 0 .. l - 1
    BY <1>8, <2>1, <2>3
  <2> QED
    BY <1>10, <2>1, <2>4
<1> QED
  BY <1>0, <1>8, <1>10, <1>11, <1>12, <1>13 DEF SlotsFrom

\* What is left when a chain is cleared: the other pairs, and the ways to them.
Cleared(t, k) ==
  [pairs |-> [b \in DOMAIN t.pairs |-> IF b \in ChainOf(t, k) THEN NoPair ELSE t.pairs[b]],
   count |-> t.count - ChainLength(t, k)]

\* NXMapRemove: when a chain is cleared, the other pairs are still found.
LEMMA ClearedHas ==
  ASSUME NEW t, NEW n \in Nat \ {0}, NEW V, NEW E, MapHas(t, n, V, E), t.count # n, NEW k \in MapKeys
  PROVE  /\ MapHas(Cleared(t, k), n, V, {t.pairs[i] : i \in Taken(t) \ ChainOf(t, k)})
         /\ Cleared(t, k).count <= t.count
<1>1. PICK h, l, C : h = TableHash[k] /\ l = ChainLength(t, k) /\ C = ChainOf(t, k)
  OBVIOUS
<1>2. /\ l \in 0 .. n - 1 /\ SlotAt(h, l, n) \notin Taken(t)
      /\ C = {SlotAt(h, d, n) : d \in 0 .. l - 1} /\ C \subseteq Taken(t) /\ Cardinality(C) = l
  <2>1. /\ l \in 0 .. n - 1 /\ SlotAt(h, l, n) \notin Taken(t)
        /\ C = SlotsFrom(h, l, n) /\ C \subseteq Taken(t) /\ Cardinality(C) = l
    BY <1>1, ChainFacts
  <2> QED
    BY <2>1 DEF SlotsFrom
<1>3. /\ t.pairs \in [0 .. n - 1 -> Pairs(V)] /\ DOMAIN t.pairs = 0 .. n - 1
      /\ t.count \in Nat /\ t.count = Cardinality(Taken(t)) /\ IsFiniteSet(Taken(t))
      /\ Taken(t) = {i \in 0 .. n - 1 : t.pairs[i].key # NoKey} /\ h \in Nat
      /\ \A i \in Taken(t) : TableHash[t.pairs[i].key] \in Nat
  BY <1>1, MapFacts, NamesConstants
<1>4. PICK x, g : x = Cleared(t, k) /\ g = [b \in 0 .. n - 1 |-> IF b \in C THEN NoPair ELSE t.pairs[b]]
  OBVIOUS
<1>5. x = [pairs |-> g, count |-> t.count - l]
  BY <1>1, <1>3, <1>4 DEF Cleared
<1>6. NoPair \in Pairs(V) /\ NoPair.key = NoKey
  BY DEF NoPair, Pairs
<1>7. g \in [0 .. n - 1 -> Pairs(V)] /\ DOMAIN g = 0 .. n - 1
  BY <1>3, <1>4, <1>6
<1>8. x.pairs = g /\ x.count = t.count - l
  BY <1>5
<1>9. Taken(x) = Taken(t) \ C
  BY <1>3, <1>4, <1>6, <1>7, <1>8 DEF Taken
<1>10. \A i \in Taken(x) : i \in Taken(t) /\ i \notin C /\ x.pairs[i] = t.pairs[i]
  BY <1>3, <1>4, <1>8, <1>9
<1>11. IsFiniteSet(C) /\ Cardinality(Taken(x)) = t.count - l
  <2>1. IsFiniteSet(C) /\ C \cap Taken(t) = C
    BY <1>2, <1>3, FS_Subset
  <2>2. Cardinality(Taken(t) \ C) = Cardinality(Taken(t)) - Cardinality(Taken(t) \cap C)
    BY <1>3, FS_Difference
  <2>3. Taken(t) \cap C = C
    BY <2>1
  <2> QED
    BY <1>2, <1>3, <1>9, <2>1, <2>2, <2>3
<1>12. t.count - l \in Nat /\ t.count - l <= t.count
  <2>1. IsFiniteSet(Taken(x))
    BY <1>3, <1>9, FS_Subset
  <2>2. PICK c, a : c = Cardinality(Taken(x)) /\ c \in Nat /\ a = t.count
    BY <2>1, FS_CardinalityType
  <2>3. a \in Nat /\ l \in Nat
    <3>1. l \in 0 .. n - 1
      BY <1>2
    <3>2. t.count \in Nat
      BY <1>3
    <3> QED
      BY <2>2, <3>1, <3>2
  <2>4. c = a - l
    BY <1>11, <2>2
  <2> QED
    BY <2>2, <2>3, <2>4
<1>13. x \in MapTables(V)
  <2>1. g \in UNION {[0 .. m - 1 -> Pairs(V)] : m \in Nat}
    BY <1>7
  <2> QED
    BY <1>5, <1>12, <2>1 DEF MapTables
<1>14. \A i, j \in Taken(x) : x.pairs[i].key = x.pairs[j].key => i = j
  BY <1>10 DEF MapHas
<1>15. \A i \in Taken(x) : Leads(x, n, x.pairs[i].key, i)
  <2> SUFFICES ASSUME NEW i \in Taken(x)
               PROVE  Leads(x, n, x.pairs[i].key, i)
    OBVIOUS
  <2>1. PICK q, e, f : q = t.pairs[i].key /\ e = TableHash[q] /\ f = Further(e, i, n)
    OBVIOUS
  <2>2. i \in Taken(t) /\ i \notin C /\ x.pairs[i].key = q
    BY <1>10, <2>1
  <2>3. n \in Nat \ {0} /\ e \in Nat /\ i \in 0 .. n - 1
    BY <1>3, <2>1, <2>2
  <2>4. f \in 0 .. n - 1 /\ SlotAt(e, f, n) = i
    BY <2>1, <2>3, Distance
  <2>5. \A d \in 0 .. n - 1 : d < f => SlotAt(e, d, n) \in Taken(t)
    BY <2>1, <2>2 DEF MapHas, Leads
  <2>6. ASSUME NEW d \in 0 .. n - 1, d < f
        PROVE  SlotAt(e, d, n) \in Taken(x)
    <3>1. SUFFICES ASSUME SlotAt(e, d, n) \in C
                   PROVE  FALSE
      BY <1>9, <2>5, <2>6
    <3>2. PICK b \in 0 .. l - 1 : SlotAt(e, d, n) = SlotAt(h, b, n)
      BY <1>2, <3>1
    <3>3. PICK y : y = f - d /\ y \in Nat /\ d + y = f
      BY <2>4, <2>6
    <3>4. d \in Nat /\ b \in Nat /\ l \in Nat
      BY <1>2
    <3>5. CASE b + y < l
      <4>1. SlotAt(e, d + y, n) = SlotAt(h, b + y, n)
        <5>1. /\ n \in Nat \ {0} /\ e \in Nat /\ h \in Nat /\ d \in Nat /\ b \in Nat /\ y \in Nat
              /\ SlotAt(e, d, n) = SlotAt(h, b, n)
          BY <1>3, <2>3, <3>2, <3>3, <3>4
        <5> QED
          BY <5>1, Together
      <4>2. b + y \in 0 .. l - 1
        BY <3>3, <3>4, <3>5
      <4>3. i \in C
        BY <1>2, <2>4, <3>3, <4>1, <4>2
      <4> QED
        BY <2>2, <4>3
    <3>6. CASE ~(b + y < l)
      <4>1. PICK z : z = l - b /\ z \in Nat /\ b + z = l /\ z <= y
        BY <1>2, <3>3, <3>4, <3>6
      <4>2. SlotAt(e, d + z, n) = SlotAt(h, l, n)
        <5>1. /\ n \in Nat \ {0} /\ e \in Nat /\ h \in Nat /\ d \in Nat /\ b \in Nat /\ z \in Nat
              /\ SlotAt(e, d, n) = SlotAt(h, b, n)
          BY <1>3, <2>3, <3>2, <3>4, <4>1
        <5>2. SlotAt(e, d + z, n) = SlotAt(h, b + z, n)
          BY <5>1, Together
        <5> QED
          BY <4>1, <5>2
      <4>3. d + z \in 0 .. n - 1 /\ d + z <= f
        BY <2>4, <3>3, <3>4, <4>1
      <4>4. SlotAt(e, d + z, n) \in Taken(t)
        BY <2>2, <2>4, <2>5, <4>3
      <4> QED
        BY <1>2, <4>2, <4>4
    <3> QED
      BY <3>5, <3>6
  <2> QED
    BY <2>1, <2>2, <2>6 DEF Leads
<1>16. {t.pairs[i] : i \in Taken(t) \ C} = {x.pairs[i] : i \in Taken(x)}
  BY <1>9, <1>10
<1>17. MapHas(x, n, V, {t.pairs[i] : i \in Taken(t) \ C})
  BY <1>7, <1>8, <1>11, <1>13, <1>14, <1>15, <1>16 DEF MapHas
<1> QED
  BY <1>1, <1>4, <1>8, <1>12, <1>17

\* A table with m slots in it at most three quarters of which are taken is not crowded.
LEMMA StaysRoomy ==
  ASSUME NEW x, NEW n \in Nat \ {0}, NEW V, NEW E, MapHas(x, n, V, E),
         NEW c \in Nat, c * 4 <= n * 3, x.count <= c, \A p \in E : p.value \in V
  PROVE  MapIs(x, V, E)
<1>1. PICK a : a = x.count
  OBVIOUS
<1>2. a \in Nat /\ a <= c /\ Size(x.pairs) = n
  BY <1>1, MapFacts
<1>3. ~(a * 4 > n * 3)
  BY <1>2
<1>4. ~Crowded(x)
  BY <1>1, <1>2, <1>3 DEF Crowded
<1> QED
  BY <1>4 DEF MapIs

\* The loop of NXMapRemove.
MapRefills(f, length, t, k, base) ==
  f = [i \in 0 .. length |->
         IF i = 0 THEN base
         ELSE LET pair == t.pairs[BucketAt(t, k, length - i)]
              IN IF pair.key = k THEN f[i - 1] ELSE MapInsert(f[i - 1], pair.key, pair.value)]

\* NXMapRemove: all pairs but that with the key.
LEMMA RemoveTakesPair ==
  ASSUME NEW t, NEW V, NEW E, MapIs(t, V, E), NEW k \in MapKeys
  PROVE  MapIs(MapRemove(t, k), V, Without(E, k))
<1>1. PICK n \in Nat \ {0} : MapHas(t, n, V, E)
  BY DEF MapIs
<1>2. PICK h, l, C, ps, T : h = TableHash[k] /\ l = ChainLength(t, k) /\ C = ChainOf(t, k)
                            /\ ps = t.pairs /\ T = Taken(t)
  OBVIOUS
<1>3. /\ t.count \in Nat /\ t.count # n /\ t.count * 4 <= n * 3 /\ h \in Nat
      /\ T = {i \in 0 .. n - 1 : ps[i].key # NoKey} /\ E = {ps[i] : i \in T}
      /\ \A i \in T : ps[i] \in Pairs(V) /\ ps[i].key \in MapKeys /\ ps[i].value \in V
      /\ Size(ps) = n /\ \A i, j \in T : ps[i].key = ps[j].key => i = j
  <2>1. t.count \in Nat /\ t.count < n /\ t.count * 4 <= n * 3
    BY <1>1, HasRoom
  <2>2. t.count # n
    BY <2>1
  <2>3. /\ T = {i \in 0 .. n - 1 : ps[i].key # NoKey} /\ E = {ps[i] : i \in T} /\ Size(ps) = n
        /\ \A i \in T : ps[i] \in Pairs(V) /\ ps[i].key \in MapKeys
    BY <1>1, <1>2, MapFacts
  <2>4. h \in Nat
    BY <1>2, NamesConstants
  <2>5. \A i, j \in T : ps[i].key = ps[j].key => i = j
    BY <1>1, <1>2 DEF MapHas
  <2>6. \A i \in T : ps[i].value \in V
    BY <2>3 DEF MapIs
  <2> QED
    BY <2>1, <2>2, <2>3, <2>4, <2>5, <2>6
<1>4. /\ l \in 0 .. n - 1 /\ C = SlotsFrom(h, l, n) /\ C \subseteq T
      /\ \A i \in T : ps[i].key = k => i \in C
  BY <1>1, <1>2, <1>3, ChainFacts
<1>5. CASE \A b \in C : ps[b].key # k
  <2>1. MapRemove(t, k) = t
    BY <1>2, <1>5 DEF MapRemove, ChainOf
  <2>2. \A i \in T : ps[i].key # k
    BY <1>4, <1>5
  <2>3. Without(E, k) = E
    BY <1>3, <2>2 DEF Without
  <2> QED
    BY <2>1, <2>3
<1>6. CASE ~ \A b \in C : ps[b].key # k
  <2> DEFINE Spot(i) == SlotAt(h, l - i, n)
  <2>1. /\ \A i \in 1 .. l : Spot(i) \in C /\ Spot(i) \in T
        /\ \A i, j \in 1 .. l : Spot(i) = Spot(j) => i = j
        /\ \A s \in C : \E i \in 1 .. l : s = Spot(i)
    <3>1. \A i \in 1 .. l : l - i \in 0 .. l - 1 /\ l - i \in 0 .. n - 1
      BY <1>4
    <3>2. \A d \in 0 .. n - 1 : Further(h, SlotAt(h, d, n), n) = d
      <4>1. n \in Nat \ {0} /\ h \in Nat
        BY <1>3
      <4> QED
        BY <4>1, Distance
    <3>3. \A i, j \in 1 .. l : Spot(i) = Spot(j) => i = j
      <4> SUFFICES ASSUME NEW i \in 1 .. l, NEW j \in 1 .. l, Spot(i) = Spot(j)
                   PROVE  i = j
        OBVIOUS
      <4>1. l - i = l - j
        BY <3>1, <3>2
      <4> QED
        BY <1>4, <4>1
    <3>4. \A i \in 1 .. l : Spot(i) \in C
      BY <1>4, <3>1 DEF SlotsFrom
    <3>5. ASSUME NEW s \in C
          PROVE  \E i \in 1 .. l : s = Spot(i)
      <4>1. PICK d \in 0 .. l - 1 : s = SlotAt(h, d, n)
        BY <1>4 DEF SlotsFrom
      <4>2. PICK i : i = l - d /\ i \in 1 .. l /\ l - i = d
        BY <1>4
      <4> QED
        BY <4>1, <4>2
    <3> QED
      BY <1>4, <3>3, <3>4, <3>5
  <2>2. \A i \in 1 .. l : BucketAt(t, k, l - i) = Spot(i)
    BY <1>2, <1>3 DEF BucketAt, SlotAt
  <2> DEFINE Rest(i) == (T \ C) \cup {s \in C : ps[s].key # k /\ \E j \in 1 .. i : s = Spot(j)}
             Like(x, i) == MapIs(x, V, {ps[s] : s \in Rest(i)})
             R == [i \in 0 .. l |-> {x \in MapTables(V) : Like(x, i)}]
             Turn(x, i) == IF ps[Spot(i)].key = k THEN x ELSE MapInsert(x, ps[Spot(i)].key, ps[Spot(i)].value)
             base == Cleared(t, k)
  <2> HIDE DEF Spot
  <2>3. ASSUME NEW x, NEW i \in 0 .. l, Like(x, i)
        PROVE  x \in R[i]
    <3>1. x \in MapTables(V)
      BY <2>3 DEF MapIs, MapHas
    <3> QED
      BY <2>3, <3>1
  <2>4. ASSUME NEW i \in 1 .. l, NEW x \in R[i - 1]
        PROVE  Turn(x, i) \in R[i]
    <3>1. i - 1 \in 0 .. l /\ i \in 0 .. l /\ 1 .. i = 1 .. i - 1 \cup {i} /\ i \notin 1 .. i - 1
          /\ 1 .. i - 1 \subseteq 1 .. l
      BY <1>4
    <3>2. Like(x, i - 1)
      BY <3>1
    <3>3. PICK s, q, v : s = Spot(i) /\ q = ps[s].key /\ v = ps[s].value
      OBVIOUS
    <3>4. s \in C /\ s \in T /\ q \in MapKeys /\ v \in V /\ ps[s] = Pair(q, v)
      <4>1. s \in C /\ s \in T
        BY <2>1, <3>3
      <4>2. q \in MapKeys /\ v \in V /\ ps[s] \in Pairs(V)
        BY <1>3, <3>3, <4>1
      <4> QED
        BY <3>3, <4>1, <4>2 DEF Pairs, Pair
    <3>5. s \notin Rest(i - 1) /\ Rest(i - 1) \subseteq T
      BY <1>4, <2>1, <3>1, <3>3, <3>4
    <3>6. Rest(i) = IF q = k THEN Rest(i - 1) ELSE Rest(i - 1) \cup {s}
      BY <3>1, <3>3, <3>4
    <3>7. Turn(x, i) = IF q = k THEN x ELSE MapInsert(x, q, v)
      BY <3>3
    <3>8. CASE q = k
      <4>1. Like(x, i)
        BY <3>2, <3>6, <3>8
      <4> HIDE DEF Like, Turn, R
      <4> QED
        BY <2>3, <3>1, <3>7, <3>8, <4>1
    <3>9. CASE q # k
      <4>1. PICK F, y : F = {ps[j] : j \in Rest(i - 1)} /\ y = MapInsert(x, q, v)
        OBVIOUS
      <4>2. MapIs(x, V, F)
        BY <3>2, <4>1
      <4>3. Without(F, q) = F
        <5> SUFFICES ASSUME NEW j \in Rest(i - 1)
                     PROVE  ps[j].key # q
          BY <4>1 DEF Without
        <5>1. j \in T /\ j # s
          BY <3>5
        <5> QED
          BY <1>3, <3>3, <3>4, <5>1
      <4>4. MapIs(y, V, Without(F, q) \cup {Pair(q, v)})
        BY <3>4, <4>1, <4>2, InsertPuts
      <4>5. {ps[j] : j \in Rest(i)} = F \cup {Pair(q, v)}
        <5> HIDE DEF Rest
        <5> QED
          BY <3>4, <3>6, <3>9, <4>1
      <4>6. Like(y, i)
        BY <4>3, <4>4, <4>5
      <4> HIDE DEF Like, Turn, R
      <4> QED
        BY <2>3, <3>1, <3>7, <3>9, <4>1, <4>6
    <3> QED
      BY <3>8, <3>9
  <2>5. base \in R[0]
    <3>1. /\ MapHas(base, n, V, {ps[s] : s \in T \ C}) /\ base.count <= t.count
      <4>1. /\ MapHas(Cleared(t, k), n, V, {t.pairs[i] : i \in Taken(t) \ ChainOf(t, k)})
            /\ Cleared(t, k).count <= t.count
        BY <1>1, <1>3, ClearedHas
      <4>2. {t.pairs[i] : i \in Taken(t) \ ChainOf(t, k)} = {ps[s] : s \in T \ C}
        BY <1>2
      <4> QED
        BY <4>1, <4>2
    <3>2. Rest(0) = T \ C
      OBVIOUS
    <3>3. PICK F : F = {ps[s] : s \in T \ C}
      OBVIOUS
    <3>4. \A p \in F : p.value \in V
      BY <1>3, <3>3
    <3>5. MapHas(base, n, V, F)
      BY <3>1, <3>3
    <3> HIDE DEF base
    <3>6. MapIs(base, V, F)
      BY <1>3, <3>1, <3>4, <3>5, StaysRoomy
    <3>7. Like(base, 0) /\ 0 \in 0 .. l
      <4> HIDE DEF Rest, R, Turn
      <4>1. {ps[s] : s \in Rest(0)} = F
        BY <3>2, <3>3
      <4>2. MapIs(base, V, {ps[s] : s \in Rest(0)})
        BY <3>6, <4>1
      <4>3. 0 \in 0 .. l
        BY <1>4
      <4> QED
        BY <4>2, <4>3
    <3> HIDE DEF Like, R
    <3> QED
      BY <2>3, <3>7
  <2> DEFINE g == [p \in MapTables(V) \X (1 .. l) |-> Turn(p[1], p[2])]
  <2>6. \A i \in 0 .. l : \A x \in R[i] : x \in MapTables(V)
    OBVIOUS
  <2>7. l \in Nat /\ \A i \in 1 .. l : i - 1 \in 0 .. l
    BY <1>4
  <2>8. TurnsKeep(g, l, R)
    <3> SUFFICES ASSUME NEW i \in 1 .. l, NEW x \in R[i - 1]
                 PROVE  g[<<x, i>>] \in R[i]
      BY DEF TurnsKeep
    <3> HIDE DEF R, Turn
    <3>1. x \in MapTables(V) /\ Turn(x, i) \in R[i]
      BY <2>4, <2>6, <2>7
    <3> QED
      BY <3>1
  <2>9. PICK f : Loops(f, l, base, g) /\ \A i \in 0 .. l : f[i] \in R[i]
    <3> HIDE DEF R, g, base
    <3> QED
      BY <2>5, <2>7, <2>8, LoopExists
  <2>10. f = [i \in 0 .. l |-> IF i = 0 THEN base ELSE Turn(f[i - 1], i)]
    <3>1. f = [i \in 0 .. l |-> IF i = 0 THEN base ELSE g[<<f[i - 1], i>>]]
      <4> HIDE DEF g, base
      <4> QED
        BY <2>9 DEF Loops
    <3>2. \A i \in 1 .. l : f[i - 1] \in MapTables(V)
      <4> HIDE DEF R
      <4> QED
        BY <2>6, <2>7, <2>9
    <3> HIDE DEF base, Turn
    <3>3. \A i \in 1 .. l : g[<<f[i - 1], i>>] = Turn(f[i - 1], i)
      BY <3>2
    <3>4. \A i \in 0 .. l : i # 0 => i \in 1 .. l
      BY <2>7
    <3> HIDE DEF g
    <3> QED
      BY <3>1, <3>3, <3>4
  <2>11. MapRefills(f, l, t, k, base)
    <3>1. \A i \in 0 .. l : i # 0 => ps[Spot(i)] = t.pairs[BucketAt(t, k, l - i)]
      BY <1>2, <2>2, <2>7
    <3>2. f = [i \in 0 .. l |-> f[i]]
      <4> HIDE DEF Turn, base
      <4> QED
        BY <2>10
    <3> HIDE DEF base
    <3>3. \A i \in 0 .. l : f[i] = IF i = 0 THEN base
                                   ELSE LET pair == t.pairs[BucketAt(t, k, l - i)]
                                        IN IF pair.key = k THEN f[i - 1] ELSE MapInsert(f[i - 1], pair.key, pair.value)
      BY <2>10, <3>1
    <3> QED
      BY <3>2, <3>3 DEF MapRefills
  <2>12. MapRefills(CHOOSE c : MapRefills(c, l, t, k, base), l, t, k, base)
    BY <2>11, Zenon
  <2>13. PICK c : (c = CHOOSE d : MapRefills(d, l, t, k, base)) /\ MapRefills(c, l, t, k, base)
    BY <2>12, Zenon
  <2>14. MapRemove(t, k) = c[l]
    BY <1>2, <1>6, <2>13 DEF MapRemove, MapRefills, ChainOf, Cleared
  <2>15. c[0] \in R[0] /\ \A i \in 1 .. l : c[i - 1] \in R[i - 1] => c[i] \in R[i]
    <3>1. \A i \in 0 .. l : c[i] = IF i = 0 THEN base
                                   ELSE IF t.pairs[BucketAt(t, k, l - i)].key = k THEN c[i - 1]
                                   ELSE MapInsert(c[i - 1], t.pairs[BucketAt(t, k, l - i)].key,
                                                  t.pairs[BucketAt(t, k, l - i)].value)
      BY <2>13, Zenon DEF MapRefills
    <3>2. \A i \in 0 .. l : i # 0 => ps[Spot(i)] = t.pairs[BucketAt(t, k, l - i)]
      BY <1>2, <2>2, <2>7
    <3>3. \A i \in 0 .. l : c[i] = IF i = 0 THEN base ELSE Turn(c[i - 1], i)
      <4> HIDE DEF base
      <4> QED
        BY <3>1, <3>2
    <3>4. \A i \in 0 .. l : i \in 1 .. l \/ i = 0
      BY <2>7
    <3>5. 0 \in 0 .. l /\ \A i \in 1 .. l : i \in 0 .. l /\ i # 0
      BY <2>7
    <3> HIDE DEF R, Turn, base
    <3>6. c[0] = base /\ \A i \in 1 .. l : c[i] = Turn(c[i - 1], i)
      BY <3>3, <3>5
    <3>7. \A i \in 1 .. l : c[i - 1] \in R[i - 1] => Turn(c[i - 1], i) \in R[i]
      BY <2>4
    <3> QED
      BY <2>5, <3>6, <3>7
  <2>16. c[l] \in R[l]
    <3> HIDE DEF R
    <3>1. \A i \in 0 .. l : c[i] \in R[i]
      BY <2>7, <2>15, LoopKeeps
    <3> QED
      BY <2>7, <3>1
  <2>17. MapIs(c[l], V, {ps[s] : s \in Rest(l)})
    BY <2>7, <2>16
  <2>18. Rest(l) = {s \in T : ps[s].key # k}
    BY <1>4, <2>1
  <2>19. {ps[s] : s \in Rest(l)} = Without(E, k)
    <3> HIDE DEF Rest
    <3> QED
      BY <1>3, <2>18 DEF Without
  <2> QED
    BY <2>14, <2>17, <2>19
<1> QED
  BY <1>5, <1>6

\* The logarithm of a capacity, which is at least zero and at most sixteen, and the powers of two.
LEMMA Powers ==
  ASSUME NEW c \in Nat
  PROVE  LET n == 2 ^ (Log2(c) + 1) IN n \in Nat /\ n > 1
<1>1. PICK S : S = {e \in 0 .. 16 : 2 ^ e <= c} \cup {0}
  OBVIOUS
<1>2. S \subseteq 0 .. 16 /\ 0 \in S
  BY <1>1
<1>3. PICK T : T = {16 - e : e \in S}
  OBVIOUS
<1>4. T \in SUBSET Nat /\ T # {}
  BY <1>2, <1>3
<1>5. PICK d \in T : \A x \in T : d <= x
  BY <1>4, LeastOf
<1>6. PICK e \in S : d = 16 - e
  BY <1>3, <1>5
<1>7. \A x \in S : e >= x
  <2> SUFFICES ASSUME NEW x \in S
               PROVE  e >= x
    OBVIOUS
  <2>1. d <= 16 - x
    BY <1>3, <1>5
  <2>2. x \in Nat /\ e \in Nat
    BY <1>2
  <2> QED
    BY <1>6, <2>1, <2>2
<1>8. Log2(c) \in S
  <2>1. Log2(c) = CHOOSE x \in S : \A y \in S : x >= y
    BY <1>1 DEF Log2, Max
  <2> QED
    BY <1>7, <2>1
<1>9. \A x \in {2 ^ i : i \in 1 .. 17} : x \in Nat /\ x > 1
  OBVIOUS
<1>10. PICK l : l = Log2(c) /\ l \in 0 .. 16
  BY <1>2, <1>8
<1>11. l + 1 \in 1 .. 17
  BY <1>10
<1> QED
  BY <1>9, <1>10, <1>11

\* A new table.
LEMMA NewTableIs ==
  ASSUME NEW c \in Nat, NEW V
  PROVE  MapIs(NewMapTable(c), V, {})
<1>1. PICK n : n = 2 ^ (Log2(c) + 1) /\ n \in Nat \ {0}
  <2>1. PICK n : n = 2 ^ (Log2(c) + 1)
    OBVIOUS
  <2>2. n \in Nat /\ n > 1
    BY <2>1, Powers
  <2> QED
    BY <2>1, <2>2
<1>2. MapHas(EmptyPairs(n), n, V, {}) /\ EmptyPairs(n).count = 0
  BY <1>1, EmptyPairsHas
<1>3. 0 * 4 <= n * 3 /\ 0 \in Nat
  BY <1>1
<1>4. MapIs(EmptyPairs(n), V, {})
  <2>1. PICK x : x = EmptyPairs(n)
    OBVIOUS
  <2>2. MapHas(x, n, V, {}) /\ x.count <= 0
    BY <1>2, <2>1
  <2>3. MapIs(x, V, {})
    BY <1>1, <1>3, <2>2, StaysRoomy
  <2> QED
    BY <2>1, <2>3
<1> QED
  BY <1>1, <1>4 DEF NewMapTable

\* The pairs that a function stands for, and what becomes of them when it changes.
Wanted(w)  == {k \in DOMAIN w : w[k] # NoValue}
PairsOf(w) == {Pair(k, w[k]) : k \in Wanted(w)}

Changes(w, z, k) == DOMAIN z = DOMAIN w /\ \A q \in DOMAIN w \ {k} : z[q] = w[q]

\* One key gets another value, or none.
LEMMA PairsChange ==
  ASSUME NEW w, NEW z, NEW k \in DOMAIN w, Changes(w, z, k)
  PROVE  /\ z[k] = NoValue => PairsOf(z) = Without(PairsOf(w), k)
         /\ z[k] # NoValue => PairsOf(z) = Without(PairsOf(w), k) \cup {Pair(k, z[k])}
<1>1. \A q, v : Pair(q, v).key = q
  BY DEF Pair
<1>2. \A q \in Wanted(w) \ {k} : z[q] = w[q]
  BY DEF Wanted, Changes
<1>3. Without(PairsOf(w), k) = {Pair(q, w[q]) : q \in Wanted(w) \ {k}}
  BY <1>1 DEF Without, PairsOf
<1>4. ASSUME z[k] # NoValue
      PROVE  PairsOf(z) = Without(PairsOf(w), k) \cup {Pair(k, z[k])}
  <2>1. Wanted(z) = (Wanted(w) \ {k}) \cup {k}
    BY <1>4 DEF Wanted, Changes
  <2> QED
    BY <1>2, <1>3, <2>1 DEF PairsOf
<1>5. ASSUME z[k] = NoValue
      PROVE  PairsOf(z) = Without(PairsOf(w), k)
  <2>1. Wanted(z) = Wanted(w) \ {k}
    BY <1>5 DEF Wanted, Changes
  <2> QED
    BY <1>2, <1>3, <2>1 DEF PairsOf
<1> QED
  BY <1>4, <1>5

\* What is looked up in such a table.
LEMMA WantedAnswers ==
  ASSUME NEW w, DOMAIN w \in SUBSET MapKeys, NEW t, NEW V, MapIs(t, V, PairsOf(w)), NEW k \in DOMAIN w
  PROVE  MapGet(t, k) = w[k] /\ (w[k] = NoValue => ~MapMember(t, k))
         /\ (w[k] # NoValue => \E p \in PairsOf(w) : p.key = k)
<1>1. \A q, v : Pair(q, v).key = q /\ Pair(q, v).value = v
  BY DEF Pair
<1>2. CASE w[k] # NoValue
  <2>1. Pair(k, w[k]) \in PairsOf(w)
    BY <1>2 DEF PairsOf, Wanted
  <2>2. MapGet(t, k) = Pair(k, w[k]).value
    BY <1>1, <2>1, MapAnswers
  <2> QED
    BY <1>1, <1>2, <2>1, <2>2
<1>3. CASE w[k] = NoValue
  <2>1. \A p \in PairsOf(w) : p.key # k
    BY <1>1, <1>3 DEF PairsOf, Wanted
  <2> QED
    BY <1>3, <2>1, MapAnswers
<1> QED
  BY <1>2, <1>3

\* It holds what it should.
LEMMA HoldsWanted ==
  ASSUME NEW w, DOMAIN w \in SUBSET MapKeys, NEW t, NEW V, MapIs(t, V, PairsOf(w))
  PROVE  MapHolds(t, w) /\ t.count = Cardinality(Wanted(w)) /\ IsFiniteSet(Wanted(w))
<1>1. PICK n \in Nat \ {0} : MapHas(t, n, V, PairsOf(w))
  BY DEF MapIs
<1>2. \A k \in DOMAIN w : MapGet(t, k) = w[k]
  <2> SUFFICES ASSUME NEW k \in DOMAIN w
               PROVE  MapGet(t, k) = w[k]
    OBVIOUS
  <2>1. MapIs(t, V, PairsOf(w)) /\ DOMAIN w \in SUBSET MapKeys /\ k \in DOMAIN w
    OBVIOUS
  <2> QED
    BY <2>1, WantedAnswers
<1>3. /\ Taken(t) = {i \in DOMAIN t.pairs : t.pairs[i].key # NoKey} /\ IsFiniteSet(Taken(t))
      /\ t.count = Cardinality(Taken(t)) /\ PairsOf(w) = {t.pairs[i] : i \in Taken(t)}
  BY <1>1, MapFacts
<1>4. IsFiniteSet(Wanted(w)) /\ Cardinality(Wanted(w)) = Cardinality(Taken(t))
  <2>1. PICK f : f = [i \in Taken(t) |-> t.pairs[i].key]
    OBVIOUS
  <2>2. \A k \in Wanted(w) : Pair(k, w[k]) \in PairsOf(w) /\ Pair(k, w[k]).key = k
    BY DEF PairsOf, Pair
  <2>3. \A p \in PairsOf(w) : p.key \in Wanted(w)
    BY DEF PairsOf, Pair
  <2>4. f \in [Taken(t) -> Wanted(w)]
    BY <1>3, <2>1, <2>3
  <2>5. \A x, y \in Taken(t) : f[x] = f[y] => x = y
    BY <1>1, <2>1 DEF MapHas
  <2>6. \A z \in Wanted(w) : \E x \in Taken(t) : f[x] = z
    BY <1>3, <2>1, <2>2
  <2> QED
    BY <1>3, <2>4, <2>5, <2>6, SameSize
<1>5. ~Crowded(t)
  BY DEF MapIs
<1> QED
  BY <1>2, <1>3, <1>4, <1>5 DEF MapHolds, Wanted

\* A table is not NULL.
LEMMA TableIsThere ==
  ASSUME NEW t, NEW V, NEW E, MapIs(t, V, E)
  PROVE  t # NoTable
<1>1. PICK n \in Nat \ {0} : MapHas(t, n, V, E)
  BY DEF MapIs
<1>2. DOMAIN t.pairs = 0 .. n - 1
  BY <1>1, MapFacts
<1>3. 0 \in DOMAIN t.pairs
  BY <1>2
<1>4. DOMAIN NoTable.pairs = 0 .. -1
  BY DEF NoTable, EmptyPairs
<1> QED
  BY <1>3, <1>4

-----------------------------------------------------------------------------
(* Future classes and unattached categories                                *)

FuturesInv ==
  /\ futures \in [FutureNames -> FutureNames \cup {NoValue}]
  /\ copies = [n \in FutureNames |-> IF futures[n] # NoValue THEN 1 ELSE 0]
  /\ IF future_named_class_map = NoTable THEN Wanted(futures) = {}
     ELSE MapIs(future_named_class_map, FutureNames, PairsOf(futures))

CategoriesInv ==
  /\ categories \in [Classed -> Nat \cup {NoValue}]
  /\ MapIs(category_map, Nat, PairsOf(categories))

\* At first there are none.
LEMMA FuturesInit == InitFutures => FuturesInv
<1> SUFFICES ASSUME InitFutures
             PROVE  FuturesInv
  OBVIOUS
<1>1. futures \in [FutureNames -> FutureNames \cup {NoValue}] /\ Wanted(futures) = {}
  BY DEF InitFutures, Wanted
<1>2. copies = [n \in FutureNames |-> IF futures[n] # NoValue THEN 1 ELSE 0]
  BY DEF InitFutures
<1> QED
  BY <1>1, <1>2 DEF InitFutures, FuturesInv

\* The table that a future class is looked for in, or a new one.
LEMMA FutureTableIs ==
  ASSUME FuturesInv
  PROVE  MapIs(FutureTable, FutureNames, PairsOf(futures))
<1>1. CASE future_named_class_map = NoTable
  <2>1. PairsOf(futures) = {}
    BY <1>1 DEF FuturesInv, PairsOf
  <2>2. MapIs(NewMapTable(FutureCapacity), FutureNames, {})
    BY NamesAssumption, NewTableIs
  <2> QED
    BY <1>1, <2>1, <2>2 DEF FutureTable
<1>2. CASE future_named_class_map # NoTable
  BY <1>2 DEF FuturesInv, FutureTable
<1> QED
  BY <1>1, <1>2

\* A pair comes to the table, with a copy of its key.
LEMMA FuturesAdd ==
  ASSUME FuturesInv, NEW n \in FutureNames, AddFutureNamedClass(n)
  PROVE  FuturesInv'
<1>1. /\ futures \in [FutureNames -> FutureNames \cup {NoValue}]
      /\ copies = [m \in FutureNames |-> IF futures[m] # NoValue THEN 1 ELSE 0]
      /\ NoValue \notin FutureNames /\ FutureNames \in SUBSET MapKeys
  BY NamesConstants DEF FuturesInv, MapKeys
<1>2. PICK t : t = FutureTable /\ MapIs(t, FutureNames, PairsOf(futures))
  BY FutureTableIs
<1>3. MapGet(t, n) = futures[n]
  <2>2. /\ DOMAIN futures \in SUBSET MapKeys /\ n \in DOMAIN futures
        /\ MapIs(t, FutureNames, PairsOf(futures))
    BY <1>1, <1>2
  <2> QED
    BY <2>2, WantedAnswers
<1>4. CASE futures[n] # NoValue
  <2>1. future_named_class_map' = t /\ copies' = copies /\ futures' = futures
    BY <1>2, <1>3, <1>4 DEF AddFutureNamedClass
  <2>2. future_named_class_map' # NoTable
    BY <1>2, <2>1, TableIsThere
  <2> QED
    BY <1>1, <1>2, <2>1, <2>2 DEF FuturesInv
<1>5. CASE futures[n] = NoValue
  <2>1. /\ future_named_class_map' = MapInsert(t, n, n)
        /\ copies' = [copies EXCEPT ![n] = @ + 1] /\ futures' = [futures EXCEPT ![n] = n]
    BY <1>2, <1>3, <1>5 DEF AddFutureNamedClass
  <2>2. PairsOf(futures') = Without(PairsOf(futures), n) \cup {Pair(n, n)}
    <3>1. Changes(futures, futures', n) /\ n \in DOMAIN futures /\ futures'[n] = n /\ n # NoValue
      BY <1>1, <2>1 DEF Changes
    <3> QED
      BY <3>1, PairsChange
  <2>3. MapIs(MapInsert(t, n, n), FutureNames, Without(PairsOf(futures), n) \cup {Pair(n, n)})
    BY <1>1, <1>2, InsertPuts
  <2>4. MapIs(future_named_class_map', FutureNames, PairsOf(futures'))
    BY <2>1, <2>2, <2>3
  <2>5. future_named_class_map' # NoTable
    BY <2>4, TableIsThere
  <2>6. futures' \in [FutureNames -> FutureNames \cup {NoValue}]
    BY <1>1, <2>1
  <2>7. copies' = [m \in FutureNames |-> IF futures'[m] # NoValue THEN 1 ELSE 0]
    BY <1>1, <1>5, <2>1
  <2> QED
    BY <2>4, <2>5, <2>6, <2>7 DEF FuturesInv
<1> QED
  BY <1>4, <1>5

\* It goes, and so does the table that was its last.
LEMMA FuturesPop ==
  ASSUME FuturesInv, NEW n \in FutureNames, PopFutureNamedClass(n)
  PROVE  FuturesInv'
<1>1. /\ futures \in [FutureNames -> FutureNames \cup {NoValue}]
      /\ copies = [m \in FutureNames |-> IF futures[m] # NoValue THEN 1 ELSE 0]
      /\ NoValue \notin FutureNames /\ FutureNames \in SUBSET MapKeys
  BY NamesConstants DEF FuturesInv, MapKeys
<1>2. PICK t, rest : t = future_named_class_map /\ rest = MapRemove(t, n)
  OBVIOUS
<1>3. /\ t # NoTable /\ MapMember(t, n) /\ copies' = [copies EXCEPT ![n] = @ - 1]
      /\ future_named_class_map' = IF rest.count = 0 THEN NoTable ELSE rest
      /\ futures' = [futures EXCEPT ![n] = NoValue]
  BY <1>2 DEF PopFutureNamedClass
<1>4. MapIs(t, FutureNames, PairsOf(futures))
  BY <1>2, <1>3 DEF FuturesInv
<1>5. futures[n] # NoValue
  <2>2. /\ DOMAIN futures \in SUBSET MapKeys /\ n \in DOMAIN futures
        /\ MapIs(t, FutureNames, PairsOf(futures))
    BY <1>1, <1>4
  <2>3. futures[n] = NoValue => ~MapMember(t, n)
    BY <2>2, WantedAnswers
  <2> QED
    BY <1>3, <2>3
<1>6. PairsOf(futures') = Without(PairsOf(futures), n)
  <2>1. Changes(futures, futures', n) /\ n \in DOMAIN futures /\ futures'[n] = NoValue
    BY <1>1, <1>3 DEF Changes
  <2> QED
    BY <2>1, PairsChange
<1>7. MapIs(rest, FutureNames, PairsOf(futures'))
  <2>1. MapIs(MapRemove(t, n), FutureNames, Without(PairsOf(futures), n))
    BY <1>1, <1>4, RemoveTakesPair
  <2> QED
    BY <1>2, <1>6, <2>1
<1>8. futures' \in [FutureNames -> FutureNames \cup {NoValue}]
  BY <1>1, <1>3
<1>9. copies' = [m \in FutureNames |-> IF futures'[m] # NoValue THEN 1 ELSE 0]
  BY <1>1, <1>3, <1>5
<1>10. rest # NoTable
  BY <1>7, TableIsThere
<1>11. CASE rest.count = 0
  <2>1. rest.count = Cardinality(Wanted(futures')) /\ IsFiniteSet(Wanted(futures'))
    BY <1>1, <1>7, <1>8, HoldsWanted
  <2>2. Wanted(futures') = {}
    BY <1>11, <2>1, FS_EmptySet
  <2> QED
    BY <1>3, <1>8, <1>9, <1>11, <2>2 DEF FuturesInv
<1>12. CASE rest.count # 0
  BY <1>3, <1>7, <1>8, <1>9, <1>10, <1>12 DEF FuturesInv
<1> QED
  BY <1>11, <1>12

\* At first no category waits, in a table that is there.
LEMMA CategoriesInit == InitCategories => CategoriesInv
<1> SUFFICES ASSUME InitCategories
             PROVE  CategoriesInv
  OBVIOUS
<1>1. categories \in [Classed -> Nat \cup {NoValue}] /\ Wanted(categories) = {}
  BY DEF InitCategories, Wanted
<1>2. PairsOf(categories) = {}
  BY <1>1 DEF PairsOf
<1>3. MapIs(NewMapTable(CategoryCapacity), Nat, {})
  BY NamesAssumption, NewTableIs
<1> QED
  BY <1>1, <1>2, <1>3 DEF InitCategories, CategoriesInv

\* The list of a class becomes longer or shorter, or is taken.
LEMMA CategoriesStep ==
  ASSUME CategoriesInv, NEW c \in Classed, AddUnattached(c) \/ RemoveUnattached(c) \/ TakeUnattached(c)
  PROVE  CategoriesInv'
<1>1. /\ categories \in [Classed -> Nat \cup {NoValue}] /\ MapIs(category_map, Nat, PairsOf(categories))
      /\ Classed \in SUBSET MapKeys /\ NoValue \notin Nat
  BY NamesConstants DEF CategoriesInv, MapKeys
<1>2. PICK list : list = MapGet(category_map, c)
  OBVIOUS
<1>3. /\ list = categories[c] /\ list \in Nat \cup {NoValue}
      /\ list # NoValue => \E p \in PairsOf(categories) : p.key = c
  <2>1. /\ MapGet(category_map, c) = categories[c]
        /\ categories[c] # NoValue => \E p \in PairsOf(categories) : p.key = c
    <3>2. /\ DOMAIN categories \in SUBSET MapKeys /\ c \in DOMAIN categories
          /\ MapIs(category_map, Nat, PairsOf(categories))
      BY <1>1
    <3> QED
      BY <3>2, WantedAnswers
  <2> QED
    BY <1>1, <1>2, <2>1
<1>4. ASSUME NEW v \in Nat, categories' = [categories EXCEPT ![c] = v],
             MapIs(category_map', Nat, Without(PairsOf(categories), c) \cup {Pair(c, v)})
      PROVE  CategoriesInv'
  <2>1. PairsOf(categories') = Without(PairsOf(categories), c) \cup {Pair(c, v)}
    <3>1. v # NoValue
      BY <1>1
    <3>2. Changes(categories, categories', c) /\ c \in DOMAIN categories /\ categories'[c] = v
      BY <1>1, <1>4 DEF Changes
    <3> QED
      BY <3>1, <3>2, PairsChange
  <2>2. categories' \in [Classed -> Nat \cup {NoValue}]
    BY <1>1, <1>4
  <2> QED
    BY <1>4, <2>1, <2>2 DEF CategoriesInv
<1>5. CASE AddUnattached(c)
  <2>1. PICK v : v = IF list = NoValue THEN 1 ELSE list + 1
    OBVIOUS
  <2>2. v \in Nat
    BY <1>3, <2>1
  <2>3. category_map' = MapInsert(category_map, c, v) /\ categories' = [categories EXCEPT ![c] = v]
    BY <1>1, <1>2, <1>3, <1>5, <2>1 DEF AddUnattached
  <2>4. MapIs(MapInsert(category_map, c, v), Nat, Without(PairsOf(categories), c) \cup {Pair(c, v)})
    BY <1>1, <2>2, InsertPuts
  <2> QED
    BY <1>4, <2>2, <2>3, <2>4
<1>6. CASE RemoveUnattached(c)
  <2>1. list \notin {NoValue, 0}
    BY <1>2, <1>6 DEF RemoveUnattached
  <2>2. PICK v : v = list - 1 /\ v \in Nat
    BY <1>3, <2>1
  <2>3. /\ category_map' = [category_map EXCEPT !.pairs[PairBucket(category_map, c)].value = v]
        /\ categories' = [categories EXCEPT ![c] = v]
    BY <1>1, <1>2, <1>3, <1>6, <2>2 DEF RemoveUnattached
  <2>4. \E p \in PairsOf(categories) : p.key = c
    BY <1>3, <2>1
  <2>5. MapIs(category_map', Nat, Without(PairsOf(categories), c) \cup {Pair(c, v)})
    BY <1>1, <2>2, <2>3, <2>4, ValuePuts
  <2> QED
    BY <1>4, <2>2, <2>3, <2>5
<1>7. CASE TakeUnattached(c)
  <2>1. category_map' = MapRemove(category_map, c) /\ categories' = [categories EXCEPT ![c] = NoValue]
    BY <1>7 DEF TakeUnattached
  <2>2. MapIs(MapRemove(category_map, c), Nat, Without(PairsOf(categories), c))
    BY <1>1, RemoveTakesPair
  <2>3. PairsOf(categories') = Without(PairsOf(categories), c)
    <3>1. Changes(categories, categories', c) /\ c \in DOMAIN categories /\ categories'[c] = NoValue
      BY <1>1, <2>1 DEF Changes
    <3> QED
      BY <3>1, PairsChange
  <2>4. categories' \in [Classed -> Nat \cup {NoValue}]
    BY <1>1, <2>1
  <2> QED
    BY <2>1, <2>2, <2>3, <2>4 DEF CategoriesInv
<1> QED
  BY <1>5, <1>6, <1>7

-----------------------------------------------------------------------------
(* Selectors                                                               *)

Entries(t) == {t.pairs[i] : i \in Taken(t)}
Homes      == Callers \cup SelImages \cup {"libobjc"}
SelValues  == [text : SelNames, home : Homes, copy : BOOLEAN]

\* The table of selectors, if it is there.
SelTable(t) == t = NoTable \/ MapIs(t, SelValues, Entries(t))

\* A string stays where it is: it is a copy, or not in an image, or in one that stays.
StaysIn(s, images) == s.home \in SelImages /\ ~s.copy => s.home \in images \ SelBundles

SelectorsInv ==
  /\ missed \in [Callers -> (SelNames \ Builtins) \cup {NoName}]
  /\ selImages \subseteq SelImages /\ DOMAIN given = SelNames
  /\ SelTable(namedSelectors) /\ \A p \in Entries(namedSelectors) : StaysIn(p.value, selImages)
  /\ \A n \in SelNames : \A s \in given[n] :
       IF n \in Builtins THEN s = Shared(n) ELSE Pair(n, s) \in Entries(namedSelectors)

\* The table x has what t has, and selectors with that home.
Extends(t, x, home, copy) ==
  /\ SelTable(x) /\ Entries(t) \subseteq Entries(x)
  /\ \A p \in Entries(x) \ Entries(t) : p.value.home = home /\ p.value.copy = copy

\* A lookup answers with a selector of the table.
Finds(x, n) == Pair(n, MapGet(x, n)) \in Entries(x)

\* No table has no entries.
LEMMA NothingThere ==
  /\ Entries(NoTable) = {} /\ \A k : ~MapMember(NoTable, k)
  /\ NoTable \in MapTables(SelValues)
<1>1. MapHas(NoTable, 0, SelValues, {})
  BY EmptyPairsHas DEF NoTable
<1>2. PICK t : t = NoTable
  OBVIOUS
<1>3. MapHas(t, 0, SelValues, {})
  BY <1>1, <1>2
<1>4. Size(t.pairs) = 0 /\ {} = {t.pairs[i] : i \in Taken(t)} /\ t \in MapTables(SelValues)
  BY <1>3, MapFacts DEF MapHas
<1>5. \A k : StopsFor(t, k) = {}
  BY <1>4 DEF StopsFor
<1> QED
  BY <1>2, <1>4, <1>5 DEF Entries, MapMember

\* What a table with the entries E has as entries.
LEMMA EntriesAre ==
  ASSUME NEW t, NEW V, NEW E, MapIs(t, V, E)
  PROVE  Entries(t) = E /\ t \in MapTables(V)
<1>1. PICK n \in Nat \ {0} : MapHas(t, n, V, E)
  BY DEF MapIs
<1> QED
  BY <1>1 DEF MapHas, Entries

\* An entry is what a lookup finds, and only that.
LEMMA EntryAnswers ==
  ASSUME NEW t, SelTable(t), NEW n \in SelNames
  PROVE  /\ \A s : Pair(n, s) \in Entries(t) => MapMember(t, n) /\ MapGet(t, n) = s
         /\ MapMember(t, n) => Finds(t, n)
<1>1. CASE t = NoTable
  BY <1>1, NothingThere
<1>2. CASE MapIs(t, SelValues, Entries(t))
  <2>1. n \in MapKeys
    BY DEF MapKeys
  <2>2. PICK m \in Nat \ {0} : MapHas(t, m, SelValues, Entries(t))
    BY <1>2 DEF MapIs
  <2>3. \A i \in Taken(t) : t.pairs[i] \in Pairs(SelValues)
    BY <2>2, MapFacts
  <2>4. \A p \in Entries(t) : p.key = n => MapMember(t, n) /\ MapGet(t, n) = p.value
    BY <1>2, <2>1, MapAnswers
  <2>5. \A p \in Entries(t) : p = Pair(p.key, p.value)
    BY <2>3 DEF Entries, Pairs, Pair
  <2>6. \A s : Pair(n, s).key = n /\ Pair(n, s).value = s
    BY DEF Pair
  <2>7. ASSUME MapMember(t, n)
        PROVE  Finds(t, n)
    <3>1. ~ \A p \in Entries(t) : p.key # n
      BY <1>2, <2>1, <2>7, MapAnswers
    <3>2. PICK p \in Entries(t) : p.key = n
      BY <3>1
    <3> QED
      BY <2>4, <2>5, <3>2 DEF Finds
  <2> QED
    BY <2>4, <2>6, <2>7
<1> QED
  BY <1>1, <1>2 DEF SelTable

\* __sel_registerName under the write lock.
LEMMA InsertedExtends ==
  ASSUME NEW t, SelTable(t), NEW n \in SelNames, NEW home \in Homes, NEW copy \in BOOLEAN
  PROVE  LET x == Inserted(t, n, home, copy) IN
         x \in MapTables(SelValues) /\ Extends(t, x, home, copy) /\ Finds(x, n)
<1>1. PICK y : y = IF t = NoTable THEN NewMapTable(SelrefCount) ELSE t
  OBVIOUS
<1>2. PICK E : E = Entries(t)
  OBVIOUS
<1>3. MapIs(y, SelValues, E)
  <2>1. CASE t = NoTable
    <3>1. MapIs(NewMapTable(SelrefCount), SelValues, {})
      BY NamesAssumption, NewTableIs
    <3> QED
      BY <1>1, <1>2, <2>1, <3>1, NothingThere
  <2> QED
    BY <1>1, <1>2, <2>1 DEF SelTable
<1>4. Entries(y) = E /\ y \in MapTables(SelValues) /\ SelTable(y)
  BY <1>3, EntriesAre DEF SelTable
<1>5. CASE MapMember(y, n)
  <2>1. Inserted(t, n, home, copy) = y
    BY <1>1, <1>5 DEF Inserted
  <2>2. Finds(y, n)
    BY <1>4, <1>5, EntryAnswers
  <2> QED
    BY <1>2, <1>4, <2>1, <2>2 DEF Extends
<1>6. CASE ~MapMember(y, n)
  <2>1. PICK v, x : v = SelAlloc(n, home, copy) /\ x = MapInsert(y, n, v)
    OBVIOUS
  <2>2. Inserted(t, n, home, copy) = x
    BY <1>1, <1>6, <2>1 DEF Inserted
  <2>3. v \in SelValues /\ v.home = home /\ v.copy = copy /\ n \in MapKeys
    BY <2>1 DEF SelAlloc, SelValues, MapKeys
  <2>4. \A p \in E : p.key # n
    BY <1>3, <1>6, <2>3, MapAnswers
  <2>5. Without(E, n) = E
    BY <2>4 DEF Without
  <2>6. PICK F : F = Without(E, n) \cup {Pair(n, v)}
    OBVIOUS
  <2>7. MapIs(x, SelValues, F)
    BY <1>3, <2>1, <2>3, <2>6, InsertPuts
  <2>8. Entries(x) = F /\ x \in MapTables(SelValues) /\ SelTable(x)
    BY <2>7, EntriesAre DEF SelTable
  <2>9. Pair(n, v).value = v
    BY DEF Pair
  <2>10. Extends(t, x, home, copy)
    BY <1>2, <2>3, <2>5, <2>6, <2>8, <2>9 DEF Extends
  <2>11. MapGet(x, n) = v
    BY <2>6, <2>8, EntryAnswers
  <2>12. Finds(x, n)
    BY <2>6, <2>8, <2>11 DEF Finds
  <2> QED
    BY <2>2, <2>8, <2>10, <2>12
<1> QED
  BY <1>5, <1>6

\* What is found stays found when the table is extended.
LEMMA ExtendsOn ==
  ASSUME NEW t, NEW x, NEW y, NEW home, NEW copy, Extends(t, x, home, copy), Extends(x, y, home, copy)
  PROVE  Extends(t, y, home, copy) /\ \A n \in SelNames : Finds(x, n) => Finds(y, n)
<1>1. Extends(t, y, home, copy)
  BY DEF Extends
<1>2. ASSUME NEW n \in SelNames, Finds(x, n)
      PROVE  Finds(y, n)
  <2>1. PICK s : s = MapGet(x, n)
    OBVIOUS
  <2>2. Pair(n, s) \in Entries(y) /\ SelTable(y)
    BY <1>2, <2>1 DEF Finds, Extends
  <2>3. MapGet(y, n) = s
    BY <2>2, EntryAnswers
  <2> QED
    BY <2>2, <2>3 DEF Finds
<1> QED
  BY <1>1, <1>2

\* sel_registerNameNoLock for one text after another.
Registers(f, t, texts, home, copy) ==
  f = [i \in 0 .. Len(texts) |->
         IF i = 0 THEN t
         ELSE IF texts[i] \in Builtins THEN f[i - 1]
         ELSE Inserted(f[i - 1], texts[i], home, copy)]

\* It extends the table, and each of the texts is found then.
LEMMA RegisteredExtends ==
  ASSUME NEW t, SelTable(t), NEW texts \in Seq(SelNames), NEW home \in Homes, NEW copy \in BOOLEAN
  PROVE  LET x == Registered(t, texts, home, copy) IN
         Extends(t, x, home, copy) /\ \A n \in ToSet(texts) \ Builtins : Finds(x, n)
<1>1. PICK l : l = Len(texts) /\ l \in Nat /\ \A i \in 1 .. l : texts[i] \in SelNames
  OBVIOUS
<1> DEFINE Like(x, i) == /\ Extends(t, x, home, copy)
                         /\ \A j \in 1 .. i : texts[j] \notin Builtins => Finds(x, texts[j])
           R == [i \in 0 .. l |-> {x \in MapTables(SelValues) : Like(x, i)}]
           Turn(x, i) == IF texts[i] \in Builtins THEN x ELSE Inserted(x, texts[i], home, copy)
           g == [p \in MapTables(SelValues) \X (1 .. l) |-> Turn(p[1], p[2])]
<1>2. ASSUME NEW i \in 1 .. l, NEW x \in R[i - 1]
      PROVE  x \in MapTables(SelValues) /\ Turn(x, i) \in R[i]
  <2>1. i - 1 \in 0 .. l /\ i \in 0 .. l /\ 1 .. i = 1 .. i - 1 \cup {i} /\ 1 .. i - 1 \subseteq 1 .. l
    BY <1>1
  <2>2. x \in MapTables(SelValues) /\ Like(x, i - 1)
    BY <2>1
  <2>3. CASE texts[i] \in Builtins
    <3>1. Like(x, i)
      BY <2>1, <2>2, <2>3
    <3> QED
      BY <2>1, <2>2, <2>3, <3>1
  <2>4. CASE texts[i] \notin Builtins
    <3>1. PICK y, n : n = texts[i] /\ y = Inserted(x, n, home, copy)
      OBVIOUS
    <3>2. n \in SelNames /\ SelTable(x)
      BY <1>1, <2>2, <3>1 DEF Extends
    <3>3. y \in MapTables(SelValues) /\ Extends(x, y, home, copy) /\ Finds(y, n)
      BY <3>1, <3>2, InsertedExtends
    <3>4. Extends(t, y, home, copy) /\ \A q \in SelNames : Finds(x, q) => Finds(y, q)
      BY <2>2, <3>3, ExtendsOn
    <3>5. Like(y, i)
      BY <1>1, <2>1, <2>2, <3>1, <3>3, <3>4
    <3> HIDE DEF Like
    <3> QED
      BY <2>1, <2>2, <2>4, <3>1, <3>3, <3>5
  <2> QED
    BY <2>3, <2>4
<1>3. t \in R[0]
  <2>1. t \in MapTables(SelValues)
    BY NothingThere, EntriesAre DEF SelTable
  <2>2. Like(t, 0)
    BY DEF Extends
  <2>3. 0 \in 0 .. l
    BY <1>1
  <2> HIDE DEF Like
  <2> QED
    BY <2>1, <2>2, <2>3
<1>4. TurnsKeep(g, l, R)
  <2> SUFFICES ASSUME NEW i \in 1 .. l, NEW x \in R[i - 1]
               PROVE  g[<<x, i>>] \in R[i]
    BY DEF TurnsKeep
  <2>1. x \in MapTables(SelValues) /\ Turn(x, i) \in R[i]
    BY <1>2
  <2> HIDE DEF R, Turn
  <2> QED
    BY <2>1
<1>5. PICK f : Loops(f, l, t, g) /\ \A i \in 0 .. l : f[i] \in R[i]
  <2> HIDE DEF R, g
  <2> QED
    BY <1>1, <1>3, <1>4, LoopExists
<1>6. f = [i \in 0 .. l |-> IF i = 0 THEN t ELSE Turn(f[i - 1], i)]
  <2>1. f = [i \in 0 .. l |-> IF i = 0 THEN t ELSE g[<<f[i - 1], i>>]]
    <3> HIDE DEF g
    <3> QED
      BY <1>5 DEF Loops
  <2>2. \A i \in 1 .. l : f[i - 1] \in MapTables(SelValues)
    <3> SUFFICES ASSUME NEW i \in 1 .. l
                 PROVE  f[i - 1] \in MapTables(SelValues)
      OBVIOUS
    <3>1. i - 1 \in 0 .. l
      BY <1>1
    <3> QED
      BY <1>2, <1>5, <3>1
  <2> HIDE DEF Turn
  <2>3. \A i \in 1 .. l : g[<<f[i - 1], i>>] = Turn(f[i - 1], i)
    BY <2>2
  <2>4. \A i \in 0 .. l : i # 0 => i \in 1 .. l
    BY <1>1
  <2> HIDE DEF g
  <2> QED
    BY <2>1, <2>3, <2>4
<1>7. Registers(f, t, texts, home, copy)
  BY <1>1, <1>6 DEF Registers
<1>8. Registers(CHOOSE c : Registers(c, t, texts, home, copy), t, texts, home, copy)
  BY <1>7, Zenon
<1>9. PICK c : (c = CHOOSE d : Registers(d, t, texts, home, copy)) /\ Registers(c, t, texts, home, copy)
  BY <1>8, Zenon
<1>10. Registered(t, texts, home, copy) = c[l]
  BY <1>1, <1>9 DEF Registered, Registers
<1>11. c[0] \in R[0] /\ \A i \in 1 .. l : c[i - 1] \in R[i - 1] => c[i] \in R[i]
  <2>1. \A i \in 0 .. Len(texts) : c[i] = IF i = 0 THEN t ELSE Turn(c[i - 1], i)
    BY <1>9, Zenon DEF Registers
  <2>2. 0 \in 0 .. l /\ \A i \in 1 .. l : i \in 0 .. l /\ i # 0
    BY <1>1
  <2> HIDE DEF R, Turn
  <2>3. c[0] = t /\ \A i \in 1 .. l : c[i] = Turn(c[i - 1], i)
    BY <1>1, <2>1, <2>2
  <2>4. \A i \in 1 .. l : c[i - 1] \in R[i - 1] => Turn(c[i - 1], i) \in R[i]
    BY <1>2
  <2> QED
    BY <1>3, <2>3, <2>4
<1>12. c[l] \in R[l]
  <2> HIDE DEF R
  <2>1. \A i \in 0 .. l : c[i] \in R[i]
    BY <1>1, <1>11, LoopKeeps
  <2> QED
    BY <1>1, <2>1
<1>13. Like(c[l], l)
  BY <1>1, <1>12
<1>14. \A n \in ToSet(texts) : \E j \in 1 .. l : n = texts[j]
  BY <1>1 DEF ToSet
<1> QED
  BY <1>10, <1>13, <1>14

\* What is found once, and where its string is, when the table is extended.
LEMMA SelectorsKeep ==
  ASSUME SelectorsInv, NEW x, NEW home, NEW copy, Extends(namedSelectors, x, home, copy),
         NEW images \in SUBSET SelImages, NEW s, s.home = home, s.copy = copy, StaysIn(s, images),
         selImages \ SelBundles \subseteq images
  PROVE  /\ SelTable(x) /\ \A p \in Entries(x) : StaysIn(p.value, images)
         /\ \A n \in SelNames : \A r \in given[n] :
              IF n \in Builtins THEN r = Shared(n) ELSE Pair(n, r) \in Entries(x)
  BY DEF SelectorsInv, Extends, StaysIn

\* At first the runtime's own selectors are there, and none was handed out.
LEMMA SelectorsInit == InitSelectors => SelectorsInv
<1> SUFFICES ASSUME InitSelectors
             PROVE  SelectorsInv
  OBVIOUS
<1>1. SelTable(NoTable) /\ Entries(NoTable) = {}
  BY NothingThere DEF SelTable
<1>2. PICK home, x : home = "libobjc" /\ x = Registered(NoTable, OwnSelectors, home, FALSE)
  OBVIOUS
<1>3. home \in Homes /\ home \notin SelImages /\ OwnSelectors \in Seq(SelNames) /\ FALSE \in BOOLEAN
  BY <1>2, NamesAssumption DEF Homes
<1>4. Extends(NoTable, x, home, FALSE)
  BY <1>1, <1>2, <1>3, RegisteredExtends
<1>5. SelTable(x) /\ \A p \in Entries(x) : StaysIn(p.value, {})
  BY <1>1, <1>3, <1>4 DEF Extends, StaysIn
<1>6. /\ namedSelectors = x /\ selImages = {} /\ given = [n \in SelNames |-> {}]
      /\ missed = [c \in Callers |-> NoName]
  BY <1>2 DEF InitSelectors
<1> QED
  BY <1>5, <1>6 DEF SelectorsInv

\* A lookup under the read lock: what it finds is an entry.
LEMMA SelectorsLook ==
  ASSUME SelectorsInv, NEW c \in Callers, NEW n \in SelNames, RegisterName(c, n)
  PROVE  SelectorsInv'
<1>1. namedSelectors' = namedSelectors /\ selImages' = selImages
  BY DEF RegisterName
<1>2. CASE n \in Builtins \/ MapMember(namedSelectors, n)
  <2>1. PICK s : s = Answer(namedSelectors, n)
    OBVIOUS
  <2>2. given' = [given EXCEPT ![n] = @ \cup {s}] /\ missed' = missed
    BY <1>2, <2>1 DEF RegisterName, Given
  <2>3. IF n \in Builtins THEN s = Shared(n) ELSE Pair(n, s) \in Entries(namedSelectors)
    <3>1. CASE n \in Builtins
      BY <2>1, <3>1 DEF Answer
    <3>2. CASE n \notin Builtins
      <4>1. Finds(namedSelectors, n)
        BY <1>2, <3>2, EntryAnswers DEF SelectorsInv
      <4> QED
        BY <2>1, <3>2, <4>1 DEF Answer, Finds
    <3> QED
      BY <3>1, <3>2
  <2>4. DOMAIN given' = SelNames /\ \A m \in SelNames : given'[m] = IF m = n THEN given[n] \cup {s} ELSE given[m]
    BY <2>2 DEF SelectorsInv
  <2> QED
    BY <1>1, <2>2, <2>3, <2>4 DEF SelectorsInv
<1>3. CASE ~(n \in Builtins \/ MapMember(namedSelectors, n))
  <2>1. given' = given /\ missed' = [missed EXCEPT ![c] = n] /\ n \in SelNames \ Builtins
    BY <1>3 DEF RegisterName
  <2> QED
    BY <1>1, <2>1 DEF SelectorsInv
<1> QED
  BY <1>2, <1>3

\* ... and under the write lock, which looks again.
LEMMA SelectorsInsert ==
  ASSUME SelectorsInv, NEW c \in Callers, InsertName(c)
  PROVE  SelectorsInv'
<1>1. PICK n, x, s : n = missed[c] /\ x = Inserted(namedSelectors, n, c, TRUE) /\ s = MapGet(x, n)
  OBVIOUS
<1>2. /\ n # NoName /\ namedSelectors' = x /\ given' = [given EXCEPT ![n] = @ \cup {s}]
      /\ missed' = [missed EXCEPT ![c] = NoName] /\ selImages' = selImages
  BY <1>1 DEF InsertName, Given
<1>3. n \in SelNames \ Builtins /\ c \in Homes /\ SelTable(namedSelectors)
  BY <1>1, <1>2 DEF SelectorsInv, Homes
<1>4. Extends(namedSelectors, x, c, TRUE) /\ Finds(x, n)
  <2>1. TRUE \in BOOLEAN
    OBVIOUS
  <2> QED
    BY <1>1, <1>3, <2>1, InsertedExtends
<1>5. /\ SelTable(x) /\ \A p \in Entries(x) : StaysIn(p.value, selImages)
      /\ \A m \in SelNames : \A r \in given[m] :
           IF m \in Builtins THEN r = Shared(m) ELSE Pair(m, r) \in Entries(x)
  <2>1. PICK z : z = SelAlloc(n, c, TRUE)
    OBVIOUS
  <2>2. z.home = c /\ z.copy = TRUE /\ StaysIn(z, selImages)
    BY <2>1 DEF SelAlloc, StaysIn
  <2>3. selImages \in SUBSET SelImages /\ selImages \ SelBundles \subseteq selImages
    BY DEF SelectorsInv
  <2> QED
    BY <1>4, <2>2, <2>3, SelectorsKeep
<1>6. DOMAIN given' = SelNames /\ \A m \in SelNames : given'[m] = IF m = n THEN given[n] \cup {s} ELSE given[m]
  BY <1>2 DEF SelectorsInv
<1>7. Pair(n, s) \in Entries(x)
  BY <1>1, <1>4 DEF Finds
<1>8. \A m \in SelNames : \A r \in given'[m] :
        IF m \in Builtins THEN r = Shared(m) ELSE Pair(m, r) \in Entries(x)
  BY <1>3, <1>5, <1>6, <1>7
<1>9. missed' \in [Callers -> (SelNames \ Builtins) \cup {NoName}]
  BY <1>2 DEF SelectorsInv
<1>10. selImages' \subseteq SelImages
  BY <1>2 DEF SelectorsInv
<1> QED
  BY <1>2, <1>5, <1>6, <1>8, <1>9, <1>10 DEF SelectorsInv

\* An image brings its selectors: strings of its own, copied if the image may go.
LEMMA SelectorsFixUp ==
  ASSUME SelectorsInv, NEW i \in SelImages, FixUpSelectors(i)
  PROVE  SelectorsInv'
<1>1. PICK copy, x, texts : /\ copy = (i \in SelBundles) /\ texts = SelRefs[i]
                            /\ x = Registered(namedSelectors, texts, i, copy)
  OBVIOUS
<1>2. /\ selImages' = selImages \cup {i} /\ namedSelectors' = x /\ missed' = missed
      /\ given' = [n \in SelNames |-> IF n \in ToSet(texts) THEN given[n] \cup {Answer(x, n)} ELSE given[n]]
  BY <1>1 DEF FixUpSelectors
<1>3. copy \in BOOLEAN /\ i \in Homes /\ texts \in Seq(SelNames) /\ SelTable(namedSelectors)
  <2>1. copy \in BOOLEAN
    BY <1>1
  <2>2. texts \in Seq(SelNames)
    BY <1>1, NamesAssumption
  <2> QED
    BY <2>1, <2>2 DEF SelectorsInv, Homes
<1>4. Extends(namedSelectors, x, i, copy) /\ \A n \in ToSet(texts) \ Builtins : Finds(x, n)
  BY <1>1, <1>3, RegisteredExtends
<1>5. /\ SelTable(x) /\ \A p \in Entries(x) : StaysIn(p.value, selImages')
      /\ \A n \in SelNames : \A r \in given[n] :
           IF n \in Builtins THEN r = Shared(n) ELSE Pair(n, r) \in Entries(x)
  <2>1. PICK z, images : z = SelAlloc(i, i, copy) /\ images = selImages \cup {i}
    OBVIOUS
  <2>2. z.home = i /\ z.copy = copy /\ StaysIn(z, images)
    BY <1>1, <2>1 DEF SelAlloc, StaysIn
  <2>3. images \in SUBSET SelImages /\ selImages \ SelBundles \subseteq images
    BY <2>1 DEF SelectorsInv
  <2>4. /\ SelTable(x) /\ \A p \in Entries(x) : StaysIn(p.value, images)
        /\ \A n \in SelNames : \A r \in given[n] :
             IF n \in Builtins THEN r = Shared(n) ELSE Pair(n, r) \in Entries(x)
    BY <1>4, <2>2, <2>3, SelectorsKeep
  <2> QED
    BY <1>2, <2>1, <2>4
<1>6. \A n \in SelNames : \A r \in given'[n] :
        IF n \in Builtins THEN r = Shared(n) ELSE Pair(n, r) \in Entries(x)
  <2> SUFFICES ASSUME NEW n \in SelNames, NEW r \in given'[n]
               PROVE  IF n \in Builtins THEN r = Shared(n) ELSE Pair(n, r) \in Entries(x)
    OBVIOUS
  <2>1. CASE r \in given[n]
    BY <1>5, <2>1
  <2>2. CASE r \notin given[n]
    <3>1. n \in ToSet(texts) /\ r = Answer(x, n)
      BY <1>2, <2>2
    <3> QED
      BY <1>4, <3>1 DEF Answer, Finds
  <2> QED
    BY <2>1, <2>2
<1>7. selImages' \subseteq SelImages /\ DOMAIN given' = SelNames
      /\ missed' \in [Callers -> (SelNames \ Builtins) \cup {NoName}]
  BY <1>2 DEF SelectorsInv
<1> QED
  BY <1>2, <1>5, <1>6, <1>7 DEF SelectorsInv

\* A bundle goes: no string was left in it.
LEMMA SelectorsUnmap ==
  ASSUME SelectorsInv, NEW i \in SelImages, UnmapSelectors(i)
  PROVE  SelectorsInv'
<1>1. /\ i \in SelBundles /\ selImages' = selImages \ {i} /\ namedSelectors' = namedSelectors
      /\ given' = given /\ missed' = missed
  BY DEF UnmapSelectors
<1>2. \A p \in Entries(namedSelectors) : StaysIn(p.value, selImages')
  BY <1>1 DEF SelectorsInv, StaysIn
<1> QED
  BY <1>1, <1>2 DEF SelectorsInv

\* So there is one selector for each text.
LEMMA SelectorsAgree == SelectorsInv => OneSelectorPerName
<1> SUFFICES ASSUME SelectorsInv, NEW n \in SelNames, NEW s \in given[n]
             PROVE  /\ Answer(namedSelectors, n) = s
                    /\ s.home \in SelImages /\ ~s.copy => s.home \in selImages
  BY DEF OneSelectorPerName
<1>1. CASE n \in Builtins
  <2>1. s = Shared(n)
    BY <1>1 DEF SelectorsInv
  <2>2. s.home = "shared cache"
    BY <2>1 DEF Shared
  <2>3. s.home \notin SelImages
    BY <2>2, NamesAssumption
  <2> QED
    BY <1>1, <2>1, <2>3 DEF Answer
<1>2. CASE n \notin Builtins
  <2>1. Pair(n, s) \in Entries(namedSelectors) /\ SelTable(namedSelectors)
    BY <1>2 DEF SelectorsInv
  <2>2. MapGet(namedSelectors, n) = s
    BY <2>1, EntryAnswers
  <2>3. Pair(n, s).value = s
    BY DEF Pair
  <2>4. StaysIn(s, selImages)
    BY <2>1, <2>3 DEF SelectorsInv
  <2> QED
    BY <1>2, <2>2, <2>4 DEF Answer, StaysIn
<1> QED
  BY <1>1, <1>2

-----------------------------------------------------------------------------
(* NXHashTable                                                             *)

Distinct(s)     == \A a, b \in 1 .. Len(s) : s[a] = s[b] => a = b
Belong(s, i, n) == \A a \in 1 .. Len(s) : TableHash[s[a]] % n = i

\* The table t has n buckets and in them, counted, the elements S: each once, in its own bucket.
HashHas(t, n, S) ==
  /\ n \in Nat \ {0} /\ t.buckets \in [0 .. n - 1 -> Seq(Real)]
  /\ t = [buckets |-> t.buckets, count |-> t.count]
  /\ \A i \in 0 .. n - 1 : Distinct(t.buckets[i]) /\ Belong(t.buckets[i], i, n)
  /\ S = UNION {ToSet(t.buckets[i]) : i \in 0 .. n - 1}
  /\ IsFiniteSet(S) /\ t.count = Cardinality(S)

\* The members of a sequence.
LEMMA Members ==
  ASSUME NEW T, NEW s \in Seq(T)
  PROVE  /\ ToSet(s) = {s[a] : a \in 1 .. Len(s)} /\ ToSet(s) \subseteq T /\ Len(s) \in Nat
         /\ DOMAIN s = 1 .. Len(s)
  BY DEF ToSet

\* Where an element is looked for, and what is found.
LEMMA HashFinds ==
  ASSUME NEW t, NEW n, NEW S, HashHas(t, n, S), NEW x \in Real, NEW i, i = HashBucket(t, x)
  PROVE  /\ i \in 0 .. n - 1 /\ i = TableHash[x] % n /\ Size(t.buckets) = n
         /\ S \subseteq Real
         /\ x \in S => x \in ToSet(t.buckets[i])
         /\ x \in ToSet(t.buckets[i]) => x \in S
<1>1. n \in Nat \ {0} /\ t.buckets \in [0 .. n - 1 -> Seq(Real)] /\ DOMAIN t.buckets = 0 .. n - 1
  BY DEF HashHas
<1>2. Size(t.buckets) = n
  BY <1>1, SlotsIn
<1>3. i = TableHash[x] % n
  BY <1>2 DEF HashBucket
<1>4. TableHash[x] \in Nat
  BY NamesAssumption
<1>5. i \in 0 .. n - 1
  <2>1. PICK h : h = TableHash[x] /\ h \in Int
    BY <1>4
  <2>2. h % n \in 0 .. n - 1
    BY <1>1, <2>1
  <2> QED
    BY <1>3, <2>1, <2>2
<1>6. \A j \in 0 .. n - 1 : /\ ToSet(t.buckets[j]) = {t.buckets[j][a] : a \in 1 .. Len(t.buckets[j])}
                            /\ ToSet(t.buckets[j]) \subseteq Real
  <2> SUFFICES ASSUME NEW j \in 0 .. n - 1
               PROVE  /\ ToSet(t.buckets[j]) = {t.buckets[j][a] : a \in 1 .. Len(t.buckets[j])}
                      /\ ToSet(t.buckets[j]) \subseteq Real
    OBVIOUS
  <2>1. PICK s : s = t.buckets[j] /\ s \in Seq(Real)
    BY <1>1
  <2>2. ToSet(s) = {s[a] : a \in 1 .. Len(s)} /\ ToSet(s) \subseteq Real
    BY <2>1, Members
  <2> QED
    BY <2>1, <2>2
<1>7. S = UNION {ToSet(t.buckets[j]) : j \in 0 .. n - 1}
  BY DEF HashHas
<1>8. S \subseteq Real
  BY <1>6, <1>7
<1>9. ASSUME x \in S
      PROVE  x \in ToSet(t.buckets[i])
  <2>1. PICK j \in 0 .. n - 1 : x \in ToSet(t.buckets[j])
    BY <1>7, <1>9
  <2>2. PICK a \in 1 .. Len(t.buckets[j]) : x = t.buckets[j][a]
    BY <1>6, <2>1
  <2>3. TableHash[x] % n = j
    BY <2>2 DEF HashHas, Belong
  <2> QED
    BY <1>3, <2>1, <2>3
<1> QED
  BY <1>2, <1>3, <1>5, <1>7, <1>8, <1>9

\* A sequence of different members is as long as they are many.
LEMMA DistinctLen ==
  ASSUME NEW T, NEW s \in Seq(T), Distinct(s)
  PROVE  IsFiniteSet(ToSet(s)) /\ Len(s) = Cardinality(ToSet(s))
<1>0. PICK n : n = Len(s) /\ n \in Nat
  BY Members
<1>1. PICK f : n = Len(s) /\ n \in Nat /\ f = [a \in 1 .. n |-> s[a]]
  BY <1>0
<1>2. ToSet(s) = {s[a] : a \in 1 .. n}
  BY <1>1, Members
<1>3. f \in [1 .. n -> ToSet(s)] /\ \A z \in ToSet(s) : \E a \in 1 .. n : f[a] = z
  BY <1>1, <1>2
<1>4. \A a, b \in 1 .. n : f[a] = f[b] => a = b
  BY <1>1 DEF Distinct
<1>5. IsFiniteSet(1 .. n) /\ Cardinality(1 .. n) = n
  <2>1. 1 \in Int /\ n \in Int
    BY <1>1
  <2>2. IsFiniteSet(1 .. n) /\ Cardinality(1 .. n) = IF 1 > n THEN 0 ELSE n - 1 + 1
    BY <2>1, FS_Interval
  <2> QED
    BY <1>1, <2>2
<1>6. IsFiniteSet(ToSet(s)) /\ Cardinality(ToSet(s)) = Cardinality(1 .. n)
  BY <1>3, <1>4, <1>5, SameSize
<1> QED
  BY <1>1, <1>5, <1>6

\* Two sequences with different members, one after the other.
LEMMA DistinctAfter ==
  ASSUME NEW T, NEW s \in Seq(T), NEW r \in Seq(T), Distinct(s), Distinct(r), ToSet(s) \cap ToSet(r) = {}
  PROVE  s \o r \in Seq(T) /\ Distinct(s \o r) /\ ToSet(s \o r) = ToSet(s) \cup ToSet(r)
<1>0. Len(s) \in Nat /\ Len(r) \in Nat
  BY Members
<1>1. PICK u, m, n : u = s \o r /\ m = Len(s) /\ n = Len(r) /\ m \in Nat /\ n \in Nat
  BY <1>0
<1>2. u \in Seq(T) /\ Len(u) = m + n /\ \A a \in 1 .. m + n : u[a] = IF a <= m THEN s[a] ELSE r[a - m]
  BY <1>1
<1>3. /\ ToSet(s) = {s[a] : a \in 1 .. m} /\ ToSet(r) = {r[a] : a \in 1 .. n}
      /\ ToSet(u) = {u[a] : a \in 1 .. m + n}
  <2>1. ToSet(s) = {s[a] : a \in 1 .. m} /\ ToSet(r) = {r[a] : a \in 1 .. n}
    BY <1>1, Members
  <2>2. u \in Seq(T) /\ Len(u) = m + n
    BY <1>2
  <2>3. ToSet(u) = {u[a] : a \in 1 .. Len(u)}
    BY <2>2, Members
  <2> QED
    BY <2>1, <2>2, <2>3
<1>4. \A a \in 1 .. m + n : /\ a <= m => a \in 1 .. m /\ u[a] = s[a] /\ u[a] \in ToSet(s)
                            /\ ~(a <= m) => a - m \in 1 .. n /\ u[a] = r[a - m] /\ u[a] \in ToSet(r)
  BY <1>1, <1>2, <1>3
<1>5. Distinct(u)
  <2> SUFFICES ASSUME NEW a \in 1 .. m + n, NEW b \in 1 .. m + n, u[a] = u[b]
               PROVE  a = b
    BY <1>2 DEF Distinct
  <2>1. CASE a <= m /\ b <= m
    BY <1>1, <1>4, <2>1 DEF Distinct
  <2>2. CASE ~(a <= m) /\ ~(b <= m)
    <3>1. a - m = b - m
      BY <1>1, <1>4, <2>2 DEF Distinct
    <3> QED
      BY <1>1, <3>1
  <2>3. CASE a <= m /\ ~(b <= m)
    BY <1>4, <2>3
  <2>4. CASE ~(a <= m) /\ b <= m
    BY <1>4, <2>4
  <2> QED
    BY <2>1, <2>2, <2>3, <2>4
<1>6. ToSet(u) = ToSet(s) \cup ToSet(r)
  <2>1. \A x \in ToSet(u) : x \in ToSet(s) \cup ToSet(r)
    BY <1>3, <1>4
  <2>2. \A x \in ToSet(s) : x \in ToSet(u)
    <3> SUFFICES ASSUME NEW a \in 1 .. m
                 PROVE  s[a] \in ToSet(u)
      BY <1>3
    <3>1. a \in 1 .. m + n /\ a <= m
      BY <1>1
    <3> QED
      BY <1>3, <1>4, <3>1
  <2>3. \A x \in ToSet(r) : x \in ToSet(u)
    <3> SUFFICES ASSUME NEW a \in 1 .. n
                 PROVE  r[a] \in ToSet(u)
      BY <1>3
    <3>1. PICK b : b = m + a /\ b \in 1 .. m + n /\ ~(b <= m) /\ b - m = a
      BY <1>1
    <3> QED
      BY <1>3, <1>4, <3>1
  <2> QED
    BY <2>1, <2>2, <2>3
<1> QED
  BY <1>1, <1>2, <1>5, <1>6

\* A sequence from its end.
LEMMA DistinctBack ==
  ASSUME NEW T, NEW s \in Seq(T), Distinct(s)
  PROVE  Reverse(s) \in Seq(T) /\ Distinct(Reverse(s)) /\ ToSet(Reverse(s)) = ToSet(s)
<1>1. PICK u, n : u = Reverse(s) /\ n = Len(s) /\ n \in Nat
  OBVIOUS
<1>2. u = [a \in 1 .. n |-> s[(n - a) + 1]]
  BY <1>1 DEF Reverse
<1>3. \A a \in 1 .. n : (n - a) + 1 \in 1 .. n
  BY <1>1
<1>4. \A a \in 1 .. n : s[a] \in T
  BY <1>1
<1>5. u \in Seq(T) /\ Len(u) = n /\ \A a \in 1 .. n : u[a] = s[(n - a) + 1]
  BY <1>1, <1>2, <1>3, <1>4
<1>6. ToSet(s) = {s[a] : a \in 1 .. n} /\ ToSet(u) = {u[a] : a \in 1 .. n}
  BY <1>1, <1>5, Members
<1>7. Distinct(u)
  <2> SUFFICES ASSUME NEW a \in 1 .. n, NEW b \in 1 .. n, u[a] = u[b]
               PROVE  a = b
    BY <1>5 DEF Distinct
  <2>1. (n - a) + 1 = (n - b) + 1
    <3>1. PICK c, d : c = (n - a) + 1 /\ d = (n - b) + 1 /\ c \in 1 .. n /\ d \in 1 .. n
      BY <1>3
    <3>2. s[c] = s[d]
      BY <1>5, <3>1
    <3> QED
      BY <1>1, <3>1, <3>2 DEF Distinct
  <2> QED
    BY <1>1, <2>1
<1>8. ToSet(u) = ToSet(s)
  <2>1. \A x \in ToSet(u) : x \in ToSet(s)
    BY <1>3, <1>5, <1>6
  <2>2. ASSUME NEW a \in 1 .. n
        PROVE  s[a] \in ToSet(u)
    <3>1. PICK b : b = (n - a) + 1 /\ b \in 1 .. n /\ (n - b) + 1 = a
      BY <1>1
    <3> QED
      BY <1>5, <1>6, <3>1
  <2> QED
    BY <1>6, <2>1, <2>2
<1> QED
  BY <1>1, <1>5, <1>7, <1>8

\* A sequence without one of its members.
LEMMA DistinctLess ==
  ASSUME NEW T, NEW s \in Seq(T), Distinct(s), NEW j \in 1 .. Len(s)
  PROVE  /\ RemoveAt(s, j) \in Seq(T) /\ Distinct(RemoveAt(s, j))
         /\ ToSet(RemoveAt(s, j)) = ToSet(s) \ {s[j]}
<1>1. PICK u, n : u = RemoveAt(s, j) /\ n = Len(s) /\ n \in Nat
  OBVIOUS
<1>2. j \in 1 .. n
  BY <1>1
<1>3. PICK p, q : p = SubSeq(s, 1, j - 1) /\ q = SubSeq(s, j + 1, n)
  OBVIOUS
<1>4. p \in Seq(T) /\ Len(p) = j - 1 /\ \A a \in 1 .. j - 1 : p[a] = s[a]
  BY <1>1, <1>2, <1>3
<1>5. q \in Seq(T) /\ Len(q) = n - j /\ \A a \in 1 .. n - j : q[a] = s[a + j]
  BY <1>1, <1>2, <1>3
<1>6. u = p \o q
  BY <1>1, <1>3 DEF RemoveAt
<1>7. ToSet(s) = {s[a] : a \in 1 .. n} /\ ToSet(p) = {p[a] : a \in 1 .. j - 1} /\ ToSet(q) = {q[a] : a \in 1 .. n - j}
  BY <1>1, <1>4, <1>5, Members
<1>8. Distinct(p) /\ Distinct(q)
  <2>1. ASSUME NEW a \in 1 .. j - 1, NEW b \in 1 .. j - 1, p[a] = p[b]
        PROVE  a = b
    <3>1. a \in 1 .. n /\ b \in 1 .. n
      BY <1>1, <1>2
    <3> QED
      BY <1>1, <1>4, <2>1, <3>1 DEF Distinct
  <2>2. ASSUME NEW a \in 1 .. n - j, NEW b \in 1 .. n - j, q[a] = q[b]
        PROVE  a = b
    <3>1. a + j \in 1 .. n /\ b + j \in 1 .. n
      BY <1>1, <1>2
    <3>2. a + j = b + j
      BY <1>1, <1>5, <2>2, <3>1 DEF Distinct
    <3> QED
      BY <1>2, <3>2
  <2> QED
    BY <1>4, <1>5, <2>1, <2>2 DEF Distinct
<1>9. ToSet(p) \cap ToSet(q) = {}
  <2> SUFFICES ASSUME NEW a \in 1 .. j - 1, NEW b \in 1 .. n - j, p[a] = q[b]
               PROVE  FALSE
    BY <1>7
  <2>1. a \in 1 .. n /\ b + j \in 1 .. n /\ a # b + j
    BY <1>1, <1>2
  <2> QED
    BY <1>1, <1>4, <1>5, <2>1 DEF Distinct
<1>10. ToSet(p) \cup ToSet(q) = ToSet(s) \ {s[j]}
  <2>1. ASSUME NEW a \in 1 .. j - 1
        PROVE  p[a] \in ToSet(s) \ {s[j]}
    <3>1. a \in 1 .. n /\ a # j
      BY <1>1, <1>2
    <3> QED
      BY <1>1, <1>2, <1>4, <1>7, <3>1 DEF Distinct
  <2>2. ASSUME NEW a \in 1 .. n - j
        PROVE  q[a] \in ToSet(s) \ {s[j]}
    <3>1. a + j \in 1 .. n /\ a + j # j
      BY <1>1, <1>2
    <3> QED
      BY <1>1, <1>2, <1>5, <1>7, <3>1 DEF Distinct
  <2>3. ASSUME NEW a \in 1 .. n, a # j
        PROVE  s[a] \in ToSet(p) \cup ToSet(q)
    <3>1. CASE a < j
      <4>1. a \in 1 .. j - 1
        BY <1>2, <3>1
      <4> QED
        BY <1>4, <1>7, <4>1
    <3>2. CASE a > j
      <4>1. PICK b : b = a - j /\ b \in 1 .. n - j /\ b + j = a
        BY <1>1, <1>2, <3>2
      <4> QED
        BY <1>5, <1>7, <4>1
    <3> QED
      BY <1>2, <2>3, <3>1, <3>2
  <2> QED
    BY <1>7, <2>1, <2>2, <2>3
<1> QED
  BY <1>1, <1>4, <1>5, <1>6, <1>8, <1>9, <1>10, DistinctAfter

\* Another sequence in a bucket.
LEMMA BucketChanges ==
  ASSUME NEW t, NEW n, NEW S, HashHas(t, n, S), NEW i \in 0 .. n - 1, NEW s \in Seq(Real), Distinct(s),
         Belong(s, i, n), NEW F, F = (S \ ToSet(t.buckets[i])) \cup ToSet(s),
         IsFiniteSet(F), NEW c, c = Cardinality(F)
  PROVE  HashHas([buckets |-> [t.buckets EXCEPT ![i] = s], count |-> c], n, F)
<1>1. /\ n \in Nat \ {0} /\ t.buckets \in [0 .. n - 1 -> Seq(Real)]
      /\ \A j \in 0 .. n - 1 : Distinct(t.buckets[j]) /\ Belong(t.buckets[j], j, n)
      /\ S = UNION {ToSet(t.buckets[j]) : j \in 0 .. n - 1}
  BY DEF HashHas
<1>2. PICK g, x : g = [t.buckets EXCEPT ![i] = s] /\ x = [buckets |-> g, count |-> c]
  OBVIOUS
<1>3. g \in [0 .. n - 1 -> Seq(Real)] /\ \A j \in 0 .. n - 1 : g[j] = IF j = i THEN s ELSE t.buckets[j]
  BY <1>1, <1>2
<1>4. \A j \in 0 .. n - 1 : Distinct(g[j]) /\ Belong(g[j], j, n)
  BY <1>1, <1>3
<1>5. \A j \in 0 .. n - 1 : j # i => ToSet(t.buckets[j]) \cap ToSet(t.buckets[i]) = {}
  <2> SUFFICES ASSUME NEW j \in 0 .. n - 1, NEW y \in ToSet(t.buckets[j]), y \in ToSet(t.buckets[i])
               PROVE  j = i
    OBVIOUS
  <2>1. PICK p, q : p = t.buckets[j] /\ q = t.buckets[i] /\ p \in Seq(Real) /\ q \in Seq(Real)
    BY <1>1
  <2>2. ToSet(p) = {p[a] : a \in 1 .. Len(p)} /\ ToSet(q) = {q[a] : a \in 1 .. Len(q)}
    <3>1. p \in Seq(Real) /\ q \in Seq(Real)
      BY <2>1
    <3>2. ToSet(p) = {p[a] : a \in 1 .. Len(p)}
      BY <3>1, Members
    <3>3. ToSet(q) = {q[a] : a \in 1 .. Len(q)}
      BY <3>1, Members
    <3> QED
      BY <3>2, <3>3
  <2>3. TableHash[y] % n = j
    BY <1>1, <2>1, <2>2 DEF Belong
  <2>4. TableHash[y] % n = i
    BY <1>1, <2>1, <2>2 DEF Belong
  <2> QED
    BY <2>3, <2>4
<1>6. F = UNION {ToSet(g[j]) : j \in 0 .. n - 1}
  <2>1. \A y \in F : \E j \in 0 .. n - 1 : y \in ToSet(g[j])
    BY <1>1, <1>3
  <2>2. \A j \in 0 .. n - 1 : \A y \in ToSet(g[j]) : y \in F
    BY <1>1, <1>3, <1>5
  <2> QED
    BY <2>1, <2>2
<1>7. x.buckets = g /\ x.count = c /\ x = [buckets |-> x.buckets, count |-> x.count]
  BY <1>2
<1>8. HashHas(x, n, F)
  BY <1>1, <1>3, <1>4, <1>6, <1>7 DEF HashHas
<1> QED
  BY <1>2, <1>8

\* A new element comes first in its bucket.
LEMMA AddedHas ==
  ASSUME NEW t, NEW n, NEW S, HashHas(t, n, S), NEW x \in Real, x \notin S
  PROVE  HashHas(Added(t, x), n, S \cup {x})
<1>1. PICK i, b, s, F, c : i = HashBucket(t, x) /\ b = t.buckets[i] /\ s = <<x>> \o b /\ F = S \cup {x}
                           /\ c = t.count + 1
  OBVIOUS
<1>2. i \in 0 .. n - 1 /\ i = TableHash[x] % n /\ x \notin ToSet(b)
  BY <1>1, HashFinds
<1>3. /\ t.buckets \in [0 .. n - 1 -> Seq(Real)] /\ t = [buckets |-> t.buckets, count |-> t.count]
      /\ b \in Seq(Real) /\ Distinct(b) /\ Belong(b, i, n) /\ ToSet(b) \subseteq S
      /\ IsFiniteSet(S) /\ t.count = Cardinality(S)
  BY <1>1, <1>2 DEF HashHas
<1>4. <<x>> \in Seq(Real) /\ Distinct(<<x>>) /\ ToSet(<<x>>) = {x}
  <2>1. PICK z : z = <<x>>
    OBVIOUS
  <2>2. z \in Seq(Real) /\ Len(z) = 1 /\ z[1] = x
    BY <2>1
  <2>3. ToSet(z) = {z[a] : a \in 1 .. 1}
    BY <2>2, Members
  <2> QED
    BY <2>1, <2>2, <2>3 DEF Distinct
<1>5. s \in Seq(Real) /\ Distinct(s) /\ ToSet(s) = {x} \cup ToSet(b)
  <2>1. ToSet(<<x>>) \cap ToSet(b) = {}
    BY <1>2, <1>4
  <2>2. PICK z : z = <<x>>
    OBVIOUS
  <2>3. z \o b \in Seq(Real) /\ Distinct(z \o b) /\ ToSet(z \o b) = ToSet(z) \cup ToSet(b)
    <3>1. /\ z \in Seq(Real) /\ b \in Seq(Real) /\ Distinct(z) /\ Distinct(b)
          /\ ToSet(z) \cap ToSet(b) = {}
      BY <1>3, <1>4, <2>1, <2>2
    <3> QED
      BY <3>1, DistinctAfter
  <2> QED
    BY <1>1, <1>4, <2>2, <2>3
<1>6. Belong(s, i, n)
  <2>1. \A a \in 1 .. Len(s) : s[a] \in ToSet(s)
    BY <1>5, Members
  <2>2. ToSet(b) = {b[a] : a \in 1 .. Len(b)}
    BY <1>3, Members
  <2>3. \A y \in ToSet(s) : TableHash[y] % n = i
    BY <1>2, <1>3, <1>5, <2>2 DEF Belong
  <2> QED
    BY <2>1, <2>3 DEF Belong
<1>7. IsFiniteSet(F) /\ c = Cardinality(F)
  BY <1>1, <1>3, FS_AddElement
<1>8. F = (S \ ToSet(t.buckets[i])) \cup ToSet(s)
  BY <1>1, <1>3, <1>5
<1>9. HashHas([buckets |-> [t.buckets EXCEPT ![i] = s], count |-> c], n, F)
  BY <1>2, <1>5, <1>6, <1>7, <1>8, BucketChanges
<1>10. Added(t, x) = [buckets |-> [t.buckets EXCEPT ![i] = s], count |-> c]
  <2>1. PICK p, q : p = t.buckets /\ q = t.count
    OBVIOUS
  <2>2. Added(t, x) = [t EXCEPT !.buckets[i] = s, !.count = c]
    BY <1>1, <1>3 DEF Added
  <2> QED
    BY <1>3, <2>1, <2>2
<1> QED
  BY <1>1, <1>9, <1>10

\* The walk that NXNextHashState makes.
Walks(f, n, t) == f = [i \in 0 .. n |-> IF i = 0 THEN <<>> ELSE f[i - 1] \o Reverse(t.buckets[n - i])]

\* It meets each element once.
LEMMA WalkMeets ==
  ASSUME NEW t, NEW n, NEW S, HashHas(t, n, S)
  PROVE  LET w == Iterated(t) IN
         w \in Seq(Real) /\ Distinct(w) /\ ToSet(w) = S /\ Len(w) = Cardinality(S) /\ t.count = Len(w)
<1>1. /\ n \in Nat /\ t.buckets \in [0 .. n - 1 -> Seq(Real)] /\ DOMAIN t.buckets = 0 .. n - 1
      /\ \A i \in 0 .. n - 1 : Distinct(t.buckets[i]) /\ Belong(t.buckets[i], i, n)
      /\ S = UNION {ToSet(t.buckets[i]) : i \in 0 .. n - 1} /\ t.count = Cardinality(S)
  BY DEF HashHas
<1>2. Size(t.buckets) = n
  BY <1>1, SlotsIn
<1> DEFINE Seen(i) == UNION {ToSet(t.buckets[n - j]) : j \in 1 .. i}
           R == [i \in 0 .. n |-> {w \in Seq(Real) : Distinct(w) /\ ToSet(w) = Seen(i)}]
           Turn(w, i) == w \o Reverse(t.buckets[n - i])
           g == [p \in Seq(Real) \X (1 .. n) |-> Turn(p[1], p[2])]
<1>3. ASSUME NEW i \in 1 .. n, NEW w \in R[i - 1]
      PROVE  w \in Seq(Real) /\ Turn(w, i) \in R[i]
  <2>1. i - 1 \in 0 .. n /\ i \in 0 .. n /\ n - i \in 0 .. n - 1 /\ 1 .. i = 1 .. i - 1 \cup {i}
    BY <1>1
  <2>2. w \in Seq(Real) /\ Distinct(w) /\ ToSet(w) = Seen(i - 1)
    BY <2>1
  <2>3. PICK b, k, r : k = n - i /\ b = t.buckets[k] /\ r = Reverse(b)
    OBVIOUS
  <2>4. b \in Seq(Real) /\ Distinct(b) /\ Belong(b, k, n)
    BY <1>1, <2>1, <2>3
  <2>5. r \in Seq(Real) /\ Distinct(r) /\ ToSet(r) = ToSet(b)
    BY <2>3, <2>4, DistinctBack
  <2>6. Seen(i) = Seen(i - 1) \cup ToSet(b)
    BY <2>1, <2>3
  <2>7. ToSet(w) \cap ToSet(r) = {}
    <3> SUFFICES ASSUME NEW y \in Seen(i - 1), y \in ToSet(b)
                 PROVE  FALSE
      BY <2>2, <2>5
    <3>1. PICK j \in 1 .. i - 1 : y \in ToSet(t.buckets[n - j])
      OBVIOUS
    <3> HIDE DEF Seen, R, Turn, g
    <3>2. PICK h, q : h = n - j /\ h \in 0 .. n - 1 /\ h # k /\ q = t.buckets[h]
      <4>1. n - j \in 0 .. n - 1 /\ n - j # k
        <5>1. n \in Nat /\ i \in 1 .. n /\ j \in 1 .. i - 1 /\ k = n - i
          BY <1>1, <2>3
        <5> QED
          BY <5>1
      <4>2. PICK h : h = n - j
        OBVIOUS
      <4>3. h \in 0 .. n - 1 /\ h # k
        BY <4>1, <4>2
      <4> QED
        BY <4>2, <4>3, Zenon
    <3>3. q \in Seq(Real) /\ Belong(q, h, n)
      BY <1>1, <3>2
    <3>4. ToSet(q) = {q[a] : a \in 1 .. Len(q)} /\ ToSet(b) = {b[a] : a \in 1 .. Len(b)}
      BY <2>4, <3>3, Members
    <3>5. TableHash[y] % n = h
      BY <3>1, <3>2, <3>3, <3>4 DEF Belong
    <3>6. TableHash[y] % n = k
      BY <2>4, <3>4 DEF Belong
    <3> QED
      BY <3>2, <3>5, <3>6
  <2>8. w \o r \in Seq(Real) /\ Distinct(w \o r) /\ ToSet(w \o r) = Seen(i)
    <3>1. w \o r \in Seq(Real) /\ Distinct(w \o r) /\ ToSet(w \o r) = ToSet(w) \cup ToSet(r)
      BY <2>2, <2>5, <2>7, DistinctAfter
    <3> HIDE DEF Seen
    <3> QED
      BY <2>2, <2>5, <2>6, <3>1
  <2>9. Turn(w, i) = w \o r
    BY <2>3
  <2> HIDE DEF Turn, Seen
  <2> QED
    BY <2>1, <2>2, <2>8, <2>9
<1>4. <<>> \in R[0]
  <2>1. PICK z : z = <<>>
    OBVIOUS
  <2>2. z \in Seq(Real) /\ Len(z) = 0
    BY <2>1
  <2>3. ToSet(z) = {} /\ Distinct(z)
    <3>1. ToSet(z) = {z[a] : a \in 1 .. Len(z)}
      BY <2>2, Members
    <3> QED
      BY <2>2, <3>1 DEF Distinct
  <2>4. Seen(0) = {}
    OBVIOUS
  <2>5. 0 \in 0 .. n
    BY <1>1
  <2> HIDE DEF Seen
  <2> QED
    BY <2>1, <2>2, <2>3, <2>4, <2>5
<1>5. TurnsKeep(g, n, R)
  <2> SUFFICES ASSUME NEW i \in 1 .. n, NEW w \in R[i - 1]
               PROVE  g[<<w, i>>] \in R[i]
    BY DEF TurnsKeep
  <2>1. w \in Seq(Real) /\ Turn(w, i) \in R[i]
    BY <1>3
  <2> HIDE DEF R, Turn
  <2> QED
    BY <2>1
<1>6. PICK f : Loops(f, n, <<>>, g) /\ \A i \in 0 .. n : f[i] \in R[i]
  <2> HIDE DEF R, g
  <2> QED
    BY <1>1, <1>4, <1>5, LoopExists
<1>7. f = [i \in 0 .. n |-> IF i = 0 THEN <<>> ELSE Turn(f[i - 1], i)]
  <2>1. f = [i \in 0 .. n |-> IF i = 0 THEN <<>> ELSE g[<<f[i - 1], i>>]]
    <3> HIDE DEF g
    <3> QED
      BY <1>6 DEF Loops
  <2>2. \A i \in 1 .. n : f[i - 1] \in Seq(Real)
    <3> SUFFICES ASSUME NEW i \in 1 .. n
                 PROVE  f[i - 1] \in Seq(Real)
      OBVIOUS
    <3>1. i - 1 \in 0 .. n
      BY <1>1
    <3> QED
      BY <1>3, <1>6, <3>1
  <2> HIDE DEF Turn
  <2>3. \A i \in 1 .. n : g[<<f[i - 1], i>>] = Turn(f[i - 1], i)
    BY <2>2
  <2>4. \A i \in 0 .. n : i # 0 => i \in 1 .. n
    BY <1>1
  <2> HIDE DEF g
  <2> QED
    BY <2>1, <2>3, <2>4
<1>8. Walks(f, n, t)
  BY <1>7 DEF Walks
<1>9. Walks(CHOOSE c : Walks(c, n, t), n, t)
  BY <1>8, Zenon
<1>10. PICK c : (c = CHOOSE d : Walks(d, n, t)) /\ Walks(c, n, t)
  BY <1>9, Zenon
<1>11. Iterated(t) = c[n]
  BY <1>2, <1>10 DEF Iterated, Walks
<1>12. c[0] \in R[0] /\ \A i \in 1 .. n : c[i - 1] \in R[i - 1] => c[i] \in R[i]
  <2>1. \A i \in 0 .. n : c[i] = IF i = 0 THEN <<>> ELSE Turn(c[i - 1], i)
    BY <1>10, Zenon DEF Walks
  <2>2. 0 \in 0 .. n /\ \A i \in 1 .. n : i \in 0 .. n /\ i # 0
    BY <1>1
  <2> HIDE DEF R, Turn
  <2>3. c[0] = <<>> /\ \A i \in 1 .. n : c[i] = Turn(c[i - 1], i)
    BY <2>1, <2>2
  <2>4. \A i \in 1 .. n : c[i - 1] \in R[i - 1] => Turn(c[i - 1], i) \in R[i]
    BY <1>3
  <2> QED
    BY <1>4, <2>3, <2>4
<1>13. c[n] \in R[n]
  <2> HIDE DEF R
  <2>1. \A i \in 0 .. n : c[i] \in R[i]
    BY <1>1, <1>12, LoopKeeps
  <2> QED
    BY <1>1, <2>1
<1>14. Seen(n) = S
  <2>1. \A j \in 1 .. n : n - j \in 0 .. n - 1
    BY <1>1
  <2>2. ASSUME NEW i \in 0 .. n - 1
        PROVE  \E j \in 1 .. n : n - j = i
    <3>1. PICK j : j = n - i /\ j \in 1 .. n /\ n - j = i
      BY <1>1
    <3> QED
      BY <3>1
  <2> QED
    BY <1>1, <2>1, <2>2
<1>15. c[n] \in Seq(Real) /\ Distinct(c[n]) /\ ToSet(c[n]) = S
  <2>1. n \in 0 .. n
    BY <1>1
  <2> HIDE DEF Seen
  <2> QED
    BY <1>13, <1>14, <2>1
<1>16. Len(c[n]) = Cardinality(S)
  BY <1>15, DistinctLen
<1> QED
  BY <1>1, <1>11, <1>15, <1>16

\* A table without elements.
LEMMA EmptyBucketsHas ==
  ASSUME NEW n \in Nat \ {0}
  PROVE  HashHas(EmptyBuckets(n), n, {})
<1>1. PICK t, f : t = EmptyBuckets(n) /\ f = [i \in 0 .. n - 1 |-> <<>>]
  OBVIOUS
<1>2. t = [buckets |-> f, count |-> 0] /\ t.buckets = f /\ t.count = 0
  BY <1>1 DEF EmptyBuckets
<1>3. f \in [0 .. n - 1 -> Seq(Real)] /\ \A i \in 0 .. n - 1 : f[i] = <<>>
  BY <1>1
<1>4. \A i \in 0 .. n - 1 : Distinct(f[i]) /\ Belong(f[i], i, n) /\ ToSet(f[i]) = {}
  BY <1>3 DEF Distinct, Belong, ToSet
<1>5. {} = UNION {ToSet(f[i]) : i \in 0 .. n - 1}
  BY <1>4
<1>6. HashHas(t, n, {})
  BY <1>2, <1>3, <1>4, <1>5, FS_EmptySet DEF HashHas
<1> QED
  BY <1>1, <1>6

\* The loop of _NXHashRehash.
HashMoves(f, w, base) == f = [i \in 0 .. Len(w) |-> IF i = 0 THEN base ELSE Added(f[i - 1], w[i])]

\* _NXHashRehash: the same elements in twice the buckets and one.
LEMMA HashRehashKeeps ==
  ASSUME NEW t, NEW m, NEW S, HashHas(t, m, S)
  PROVE  HashHas(HashRehash(t), 2 * m + 1, S)
<1>1. PICK w, l, n : w = Iterated(t) /\ l = Len(w) /\ n = 2 * m + 1
  OBVIOUS
<1>2. w \in Seq(Real) /\ Distinct(w) /\ ToSet(w) = S
  BY <1>1, WalkMeets
<1>3. /\ l \in Nat /\ Size(t.buckets) = m /\ n \in Nat \ {0} /\ S = {w[a] : a \in 1 .. l}
      /\ \A a \in 1 .. l : w[a] \in Real
  <2>1. m \in Nat \ {0} /\ DOMAIN t.buckets = 0 .. m - 1
    BY DEF HashHas
  <2>2. Size(t.buckets) = m
    BY <2>1, SlotsIn
  <2>3. l \in Nat /\ S = {w[a] : a \in 1 .. l}
    BY <1>1, <1>2, Members
  <2>4. \A a \in 1 .. l : w[a] \in Real
    BY <1>1, <1>2
  <2>5. n \in Nat \ {0}
    BY <1>1, <2>1
  <2> QED
    BY <2>2, <2>3, <2>4, <2>5
<1>4. PICK Q : Q = [buckets : [0 .. n - 1 -> Seq(Real)], count : Nat]
  OBVIOUS
<1>5. ASSUME NEW x, NEW F, HashHas(x, n, F)
      PROVE  x \in Q
  <2>1. x.count \in Nat
    BY <1>5, FS_CardinalityType DEF HashHas
  <2> QED
    BY <1>4, <1>5, <2>1 DEF HashHas
<1> DEFINE Seen(i) == {w[a] : a \in 1 .. i}
           R == [i \in 0 .. l |-> {x \in Q : HashHas(x, n, Seen(i))}]
           g == [p \in Q \X (1 .. l) |-> Added(p[1], w[p[2]])]
           base == EmptyBuckets(n)
<1>6. ASSUME NEW i \in 1 .. l, NEW x \in R[i - 1]
      PROVE  x \in Q /\ Added(x, w[i]) \in R[i]
  <2>1. i - 1 \in 0 .. l /\ i \in 0 .. l /\ 1 .. i = 1 .. i - 1 \cup {i} /\ i \notin 1 .. i - 1
        /\ 1 .. i - 1 \subseteq 1 .. l
    BY <1>3
  <2>2. x \in Q /\ HashHas(x, n, Seen(i - 1))
    BY <2>1
  <2>3. w[i] \in Real /\ w[i] \notin Seen(i - 1) /\ Seen(i) = Seen(i - 1) \cup {w[i]}
    BY <1>1, <1>2, <1>3, <2>1 DEF Distinct
  <2> HIDE DEF Seen
  <2>4. HashHas(Added(x, w[i]), n, Seen(i))
    BY <2>2, <2>3, AddedHas
  <2>5. Added(x, w[i]) \in Q
    BY <1>5, <2>4
  <2> QED
    BY <2>1, <2>2, <2>4, <2>5
<1>7. base \in R[0]
  <2>1. HashHas(EmptyBuckets(n), n, {})
    BY <1>3, EmptyBucketsHas
  <2>2. Seen(0) = {} /\ 0 \in 0 .. l
    BY <1>3
  <2>3. EmptyBuckets(n) \in Q
    BY <1>5, <2>1
  <2> HIDE DEF Seen
  <2> QED
    BY <2>1, <2>2, <2>3
<1>8. TurnsKeep(g, l, R)
  <2> SUFFICES ASSUME NEW i \in 1 .. l, NEW x \in R[i - 1]
               PROVE  g[<<x, i>>] \in R[i]
    BY DEF TurnsKeep
  <2>1. x \in Q /\ Added(x, w[i]) \in R[i]
    BY <1>6
  <2> HIDE DEF R
  <2> QED
    BY <2>1
<1>9. PICK f : Loops(f, l, base, g) /\ \A i \in 0 .. l : f[i] \in R[i]
  <2> HIDE DEF R, g, base
  <2> QED
    BY <1>3, <1>7, <1>8, LoopExists
<1>10. f = [i \in 0 .. l |-> IF i = 0 THEN base ELSE Added(f[i - 1], w[i])]
  <2>1. f = [i \in 0 .. l |-> IF i = 0 THEN base ELSE g[<<f[i - 1], i>>]]
    <3> HIDE DEF g, base
    <3> QED
      BY <1>9 DEF Loops
  <2>2. \A i \in 1 .. l : f[i - 1] \in Q
    <3> SUFFICES ASSUME NEW i \in 1 .. l
                 PROVE  f[i - 1] \in Q
      OBVIOUS
    <3>1. i - 1 \in 0 .. l
      BY <1>3
    <3> HIDE DEF base
    <3> QED
      BY <1>6, <1>9, <3>1
  <2>3. \A i \in 1 .. l : g[<<f[i - 1], i>>] = Added(f[i - 1], w[i])
    BY <2>2
  <2>4. \A i \in 0 .. l : i # 0 => i \in 1 .. l
    BY <1>3
  <2> HIDE DEF g, base
  <2> QED
    BY <2>1, <2>3, <2>4
<1>11. HashMoves(f, w, base)
  <2> HIDE DEF base
  <2> QED
    BY <1>1, <1>10 DEF HashMoves
<1>12. HashMoves(CHOOSE c : HashMoves(c, w, base), w, base)
  BY <1>11, Zenon
<1>13. PICK c : (c = CHOOSE d : HashMoves(d, w, base)) /\ HashMoves(c, w, base)
  BY <1>12, Zenon
<1>14. HashRehash(t) = c[l]
  BY <1>1, <1>3, <1>13 DEF HashRehash, HashMoves
<1>15. c[0] \in R[0] /\ \A i \in 1 .. l : c[i - 1] \in R[i - 1] => c[i] \in R[i]
  <2> HIDE DEF base
  <2>1. \A i \in 0 .. Len(w) : c[i] = IF i = 0 THEN base ELSE Added(c[i - 1], w[i])
    BY <1>13, Zenon DEF HashMoves
  <2>2. 0 \in 0 .. l /\ \A i \in 1 .. l : i \in 0 .. l /\ i # 0
    BY <1>3
  <2> HIDE DEF R
  <2>3. c[0] = base /\ \A i \in 1 .. l : c[i] = Added(c[i - 1], w[i])
    BY <1>1, <2>1, <2>2
  <2>4. \A i \in 1 .. l : c[i - 1] \in R[i - 1] => Added(c[i - 1], w[i]) \in R[i]
    BY <1>6
  <2> QED
    BY <1>7, <2>3, <2>4
<1>16. c[l] \in R[l]
  <2> HIDE DEF R
  <2>1. \A i \in 0 .. l : c[i] \in R[i]
    BY <1>3, <1>15, LoopKeeps
  <2> QED
    BY <1>3, <2>1
<1>17. HashHas(c[l], n, S)
  <2>1. l \in 0 .. l
    BY <1>3
  <2>2. Seen(l) = S
    BY <1>3
  <2> HIDE DEF Seen
  <2> QED
    BY <1>16, <2>1, <2>2
<1> QED
  BY <1>1, <1>14, <1>17

\* NXHashInsert.
LEMMA HashInsertAdds ==
  ASSUME NEW t, NEW n, NEW S, HashHas(t, n, S), NEW x \in Real
  PROVE  \E m : HashHas(HashInsert(t, x), m, S \cup {x})
<1>1. PICK i : i = HashBucket(t, x)
  OBVIOUS
<1>2. HashMember(t, x) => x \in S
  BY <1>1, HashFinds DEF HashMember
<1>3. x \in S => HashMember(t, x)
  BY <1>1, HashFinds DEF HashMember
<1>4. CASE x \in S
  <2>1. HashInsert(t, x) = t /\ S \cup {x} = S
    BY <1>3, <1>4 DEF HashInsert
  <2> QED
    BY <2>1
<1>5. CASE x \notin S
  <2>1. PICK y, z : y = Added(t, x) /\ z = HashRehash(y)
    OBVIOUS
  <2>2. HashHas(y, n, S \cup {x})
    BY <1>5, <2>1, AddedHas
  <2>3. HashHas(z, 2 * n + 1, S \cup {x})
    BY <2>1, <2>2, HashRehashKeeps
  <2>4. HashInsert(t, x) = y \/ HashInsert(t, x) = z
    BY <1>2, <1>5, <2>1 DEF HashInsert
  <2> QED
    BY <2>2, <2>3, <2>4
<1> QED
  BY <1>4, <1>5

\* NXHashRemove.
LEMMA HashRemoveTakes ==
  ASSUME NEW t, NEW n, NEW S, HashHas(t, n, S), NEW x \in S
  PROVE  HashHas(HashRemove(t, x), n, S \ {x})
<1>0. x \in Real
  <2>1. \A i \in 0 .. n - 1 : t.buckets[i] \in Seq(Real)
    BY DEF HashHas
  <2>2. \A i \in 0 .. n - 1 : ToSet(t.buckets[i]) \subseteq Real
    BY <2>1, Members
  <2> QED
    BY <2>2 DEF HashHas
<1>1. PICK i, b, j, s, F, c : /\ i = HashBucket(t, x) /\ b = t.buckets[i]
                              /\ j = CHOOSE a \in DOMAIN b : b[a] = x
                              /\ s = RemoveAt(b, j) /\ F = S \ {x} /\ c = t.count - 1
  OBVIOUS
<1>2. i \in 0 .. n - 1 /\ i = TableHash[x] % n /\ x \in ToSet(b)
  BY <1>0, <1>1, HashFinds
<1>3. /\ t.buckets \in [0 .. n - 1 -> Seq(Real)] /\ t = [buckets |-> t.buckets, count |-> t.count]
      /\ b \in Seq(Real) /\ Distinct(b) /\ Belong(b, i, n) /\ ToSet(b) \subseteq S
      /\ IsFiniteSet(S) /\ t.count = Cardinality(S)
  BY <1>1, <1>2 DEF HashHas
<1>4. DOMAIN b = 1 .. Len(b) /\ ToSet(b) = {b[a] : a \in 1 .. Len(b)}
  BY <1>3, Members
<1>5. j \in 1 .. Len(b) /\ b[j] = x
  <2>1. \E a \in DOMAIN b : b[a] = x
    BY <1>2, <1>4
  <2> QED
    BY <1>1, <1>4, <2>1
<1>6. s \in Seq(Real) /\ Distinct(s) /\ ToSet(s) = ToSet(b) \ {x}
  <2>1. s \in Seq(Real) /\ Distinct(s) /\ ToSet(s) = ToSet(b) \ {b[j]}
    <3>1. b \in Seq(Real) /\ Distinct(b) /\ j \in 1 .. Len(b)
      BY <1>3, <1>5
    <3>2. /\ RemoveAt(b, j) \in Seq(Real) /\ Distinct(RemoveAt(b, j))
          /\ ToSet(RemoveAt(b, j)) = ToSet(b) \ {b[j]}
      BY <3>1, DistinctLess
    <3> QED
      BY <1>1, <3>2
  <2> QED
    BY <1>5, <2>1
<1>7. Belong(s, i, n)
  <2>1. \A a \in 1 .. Len(s) : s[a] \in ToSet(s)
    BY <1>6, Members
  <2>2. \A y \in ToSet(s) : TableHash[y] % n = i
    BY <1>3, <1>4, <1>6 DEF Belong
  <2> QED
    BY <2>1, <2>2 DEF Belong
<1>8. IsFiniteSet(F) /\ c = Cardinality(F)
  BY <1>1, <1>3, FS_RemoveElement
<1>9. F = (S \ ToSet(t.buckets[i])) \cup ToSet(s)
  BY <1>1, <1>3, <1>6, <1>2
<1>10. HashHas([buckets |-> [t.buckets EXCEPT ![i] = s], count |-> c], n, F)
  BY <1>2, <1>6, <1>7, <1>8, <1>9, BucketChanges
<1>11. HashRemove(t, x) = [buckets |-> [t.buckets EXCEPT ![i] = s], count |-> c]
  <2>1. PICK p, q : p = t.buckets /\ q = t.count
    OBVIOUS
  <2>2. HashMember(t, x)
    BY <1>1, <1>2 DEF HashMember
  <2>3. HashRemove(t, x) = [t EXCEPT !.buckets[i] = s, !.count = c]
    BY <1>1, <1>3, <2>2 DEF HashRemove
  <2> QED
    BY <1>3, <2>1, <2>3
<1> QED
  BY <1>1, <1>10, <1>11

-----------------------------------------------------------------------------
(* Realized classes, and all four tables                                   *)

RealizedInv == realized \subseteq Real /\ \E n \in Nat : HashHas(realized_class_hash, n, realized)

\* At first no class is realized.
LEMMA RealizedInit == InitRealized => RealizedInv
<1> SUFFICES ASSUME InitRealized
             PROVE  RealizedInv
  OBVIOUS
<1>1. PICK n : n = 2 ^ (Log2(RealizedCapacity) + 1)
  OBVIOUS
<1>2. n \in Nat /\ n > 1
  BY <1>1, Powers, NamesAssumption
<1>3. n - 1 \in Nat \ {0}
  BY <1>2
<1>4. HashHas(EmptyBuckets(n - 1), n - 1, {})
  BY <1>3, EmptyBucketsHas
<1> QED
  BY <1>1, <1>3, <1>4 DEF InitRealized, RealizedInv, NewHashTable

\* addRealizedClass and removeRealizedClass keep the set of the realized classes.
LEMMA RealizedStep ==
  ASSUME RealizedInv, NEW c \in Real, AddRealizedClass(c) \/ RemoveRealizedClass(c)
  PROVE  RealizedInv'
<1>1. PICK n \in Nat : HashHas(realized_class_hash, n, realized)
  BY DEF RealizedInv
<1>2. CASE AddRealizedClass(c)
  <2>1. PICK m : HashHas(HashInsert(realized_class_hash, c), m, realized \cup {c})
    BY <1>1, HashInsertAdds
  <2>2. m \in Nat
    BY <2>1 DEF HashHas
  <2> QED
    BY <1>2, <2>1, <2>2 DEF AddRealizedClass, RealizedInv
<1>3. CASE RemoveRealizedClass(c)
  <2>1. c \in realized
    BY <1>3 DEF RemoveRealizedClass
  <2>2. HashHas(HashRemove(realized_class_hash, c), n, realized \ {c})
    BY <1>1, <2>1, HashRemoveTakes
  <2> QED
    BY <1>3, <2>2 DEF RemoveRealizedClass, RealizedInv
<1> QED
  BY <1>2, <1>3

NamesInv == SelectorsInv /\ FuturesInv /\ CategoriesInv /\ RealizedInv

\* The tables agree with what was put into them.
LEMMA TablesAgree == FuturesInv /\ CategoriesInv /\ RealizedInv => TablesHold
<1> SUFFICES ASSUME FuturesInv, CategoriesInv, RealizedInv
             PROVE  TablesHold
  OBVIOUS
<1>1. IF future_named_class_map = NoTable THEN \A n \in FutureNames : futures[n] = NoValue
      ELSE MapHolds(future_named_class_map, futures)
  <2>1. DOMAIN futures = FutureNames /\ FutureNames \in SUBSET MapKeys
    BY DEF FuturesInv, MapKeys
  <2>2. CASE future_named_class_map = NoTable
    BY <2>1, <2>2 DEF FuturesInv, Wanted
  <2>3. CASE future_named_class_map # NoTable
    <3>1. MapIs(future_named_class_map, FutureNames, PairsOf(futures)) /\ DOMAIN futures \in SUBSET MapKeys
      BY <2>1, <2>3 DEF FuturesInv
    <3>2. MapHolds(future_named_class_map, futures)
      BY <3>1, HoldsWanted
    <3> QED
      BY <2>3, <3>2
  <2> QED
    BY <2>2, <2>3
<1>2. \A n \in FutureNames : copies[n] = IF futures[n] # NoValue THEN 1 ELSE 0
  BY DEF FuturesInv
<1>3. MapHolds(category_map, categories)
  <2>1. MapIs(category_map, Nat, PairsOf(categories)) /\ DOMAIN categories \in SUBSET MapKeys
    BY DEF CategoriesInv, MapKeys
  <2> QED
    BY <2>1, HoldsWanted
<1>4. PICK n \in Nat : HashHas(realized_class_hash, n, realized)
  BY DEF RealizedInv
<1>5. PICK t, w : t = realized_class_hash /\ w = Iterated(t)
  OBVIOUS
<1>6. ToSet(w) = realized /\ Len(w) = Cardinality(realized) /\ t.count = Len(w)
  BY <1>4, <1>5, WalkMeets
<1>7. ASSUME NEW c \in Real
      PROVE  HashMember(t, c) <=> c \in realized
  <2>1. PICK i : i = HashBucket(t, c)
    OBVIOUS
  <2>2. /\ c \in realized => c \in ToSet(t.buckets[i])
        /\ c \in ToSet(t.buckets[i]) => c \in realized
    BY <1>4, <1>5, <2>1, HashFinds
  <2> QED
    BY <2>1, <2>2 DEF HashMember
<1> QED
  BY <1>1, <1>2, <1>3, <1>5, <1>6, <1>7 DEF TablesHold

\* The invariant holds at first.
LEMMA NamesInit == InitNames => NamesInv
  BY SelectorsInit, FuturesInit, CategoriesInit, RealizedInit DEF InitNames, NamesInv

\* A step of one of the four tables leaves the other three alone.
LEMMA NamesStep == NamesInv /\ [NextNames]_names => NamesInv'
<1> SUFFICES ASSUME NamesInv, [NextNames]_names
             PROVE  NamesInv'
  OBVIOUS
<1>1. SelectorsInv /\ FuturesInv /\ CategoriesInv /\ RealizedInv
  BY DEF NamesInv
<1>2. UNCHANGED selectors => SelectorsInv'
  BY <1>1 DEF SelectorsInv, selectors
<1>3. UNCHANGED futureMap => FuturesInv'
  BY <1>1 DEF FuturesInv, futureMap
<1>4. UNCHANGED attaching => CategoriesInv'
  BY <1>1 DEF CategoriesInv, attaching
<1>5. UNCHANGED realizing => RealizedInv'
  BY <1>1 DEF RealizedInv, realizing
<1>6. CASE NextSelectors /\ UNCHANGED <<futureMap, attaching, realizing>>
  <2>1. SelectorsInv'
    BY <1>1, <1>6, SelectorsLook, SelectorsInsert, SelectorsFixUp, SelectorsUnmap DEF NextSelectors
  <2> QED
    BY <1>3, <1>4, <1>5, <1>6, <2>1 DEF NamesInv
<1>7. CASE NextFutures /\ UNCHANGED <<selectors, attaching, realizing>>
  <2>1. FuturesInv'
    BY <1>1, <1>7, FuturesAdd, FuturesPop DEF NextFutures
  <2> QED
    BY <1>2, <1>4, <1>5, <1>7, <2>1 DEF NamesInv
<1>8. CASE NextCategories /\ UNCHANGED <<selectors, futureMap, realizing>>
  <2>1. CategoriesInv'
    BY <1>1, <1>8, CategoriesStep DEF NextCategories
  <2> QED
    BY <1>2, <1>3, <1>5, <1>8, <2>1 DEF NamesInv
<1>9. CASE NextRealized /\ UNCHANGED <<selectors, futureMap, attaching>>
  <2>1. RealizedInv'
    BY <1>1, <1>9, RealizedStep DEF NextRealized
  <2> QED
    BY <1>2, <1>3, <1>4, <1>9, <2>1 DEF NamesInv
<1>10. CASE UNCHANGED names
  BY <1>2, <1>3, <1>4, <1>5, <1>10 DEF names, NamesInv
<1> QED
  BY <1>6, <1>7, <1>8, <1>9, <1>10 DEF NextNames

\* The invariant.
THEOREM NamesInvariant == SpecNames => []NamesInv
  BY NamesInit, NamesStep, PTL DEF SpecNames

\* One selector for each text, whoever raced to register it and whatever is unloaded.
THEOREM SelectorsAreUnique == SpecNames => []OneSelectorPerName
<1>1. NamesInv => OneSelectorPerName
  BY SelectorsAgree DEF NamesInv
<1> QED
  BY <1>1, NamesInvariant, PTL

\* The tables hold what was put into them and not taken out.
THEOREM TablesAreExact == SpecNames => []TablesHold
<1>1. NamesInv => TablesHold
  BY TablesAgree DEF NamesInv
<1> QED
  BY <1>1, NamesInvariant, PTL
=============================================================================
