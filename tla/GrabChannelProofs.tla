--------------------------- MODULE GrabChannelProofs ---------------------------
(***************************************************************************)
(* Theorems about GrabChannel for any cluster of surfaces, any number of   *)
(* native threads, any queue room and any number of restarts.              *)
(*                                                                         *)
(* The inductive invariant adds to the type invariant what each program    *)
(* counter says about the item in hand (LoopShape, NativeShape) and about  *)
(* the queue a control call works on (CallShape).                          *)
(*                                                                         *)
(* From it and from the ownership of surfaces follow that no surface is    *)
(* lost, that an active channel is served, and that frames are turned away *)
(* for signals only.                                                       *)
(***************************************************************************)
EXTENDS GrabChannel, FiniteSetTheorems, Functions, TLAPS

Reads == {"waiting", "reading", "copy", "release", "free", "handler"}

(* A loop past its start serves a queue that exists; it holds a surface    *)
(* exactly between reading it and releasing it.                            *)
LoopShape ==
    \A g \in Gens :
        /\ loop[g].pc \in Reads => loop[g].q \in Gens
        /\ loop[g].sig \in Surfaces <=> loop[g].pc \in {"copy", "release", "free"}

(* A native thread holds a surface exactly inside EnqueueSurface. *)
NativeShape ==
    \A n \in NativeThreads :
        /\ native[n].pc # "idle" => native[n].sig \in Items
        /\ native[n].sig \in Surfaces <=>
              native[n].pc \in {"peek", "write", "nre", "drop", "free"}

(* A shutdown past its first step works on a queue; the handle is zeroed   *)
(* only by a disposal under way.                                           *)
CallShape ==
    /\ api \in {"join", "drain"} => cur # 0
    /\ disposed \/ ~handle \/ api = "mark" => disposing

TypeInv == TypeOK /\ LoopShape /\ NativeShape /\ CallShape

(* A channel just constructed has its types and shapes.                  *)
LEMMA TypeInit == Init => TypeInv
<1> SUFFICES ASSUME Init PROVE TypeInv
  OBVIOUS
<1> USE GrabChannelAssumption DEF Init, Gens, Signals, Items, NoSignal, Frame
<1>1. TypeOK
  <2>1. gen \in Gens /\ cur \in {0, gen} /\ caller \in 0..MaxGen
    OBVIOUS
  <2>2. queue \in [Gens -> Seq(Items)]
    OBVIOUS
  <2>3. loop \in [Gens -> [pc : LoopPC, sig : Items \cup {NoSignal, Frame},
                           q : 0..MaxGen]]
    BY DEF LoopPC
  <2>4. native \in [NativeThreads -> [pc : NativePC, sig : Items \cup {NoSignal}]]
    BY DEF NativePC
  <2>5. /\ surf \in [Surfaces -> {"FREE", "PROCESSING"}]
        /\ closed \in [Gens -> BOOLEAN]
    OBVIOUS
  <2>6. \A g \in Gens : loop[g].pc \notin {"copy", "release", "free"}
    OBVIOUS
  <2> QED
    BY <2>1, <2>2, <2>3, <2>4, <2>5, <2>6 DEF TypeOK, ApiPC
<1>2. LoopShape
  BY DEF LoopShape, Reads
<1>3. NativeShape
  BY DEF NativeShape
<1>4. CallShape
  BY DEF CallShape
<1> QED
  BY <1>1, <1>2, <1>3, <1>4 DEF TypeInv

(***************************************************************************)
(* How the moves of the threads preserve the type invariant.               *)
(***************************************************************************)

LoopOK ==
    /\ loop \in [Gens -> [pc : LoopPC, sig : Items \cup {NoSignal, Frame},
                          q : 0..MaxGen]]
    /\ LoopShape

NativeOK ==
    /\ native \in [NativeThreads -> [pc : NativePC, sig : Items \cup {NoSignal}]]
    /\ NativeShape

HalOK ==
    /\ hw \in {"IDLE", "ACTIVE", "DELETED"}
    /\ surf \in [Surfaces -> {"FREE", "PROCESSING"}]

QueueOK ==
    /\ gen \in Gens /\ cur \in {0, gen}
    /\ queue \in [Gens -> Seq(Items)]
    /\ closed \in [Gens -> BOOLEAN]

FlagsOK ==
    /\ handle \in BOOLEAN /\ disposing \in BOOLEAN /\ disposed \in BOOLEAN
    /\ isActive \in BOOLEAN
    /\ api \in ApiPC /\ caller \in 0..MaxGen
    /\ CallShape

(* The type invariant by parts, one for each group of variables ...      *)
LEMMA TypeParts ==
    TypeInv <=> LoopOK /\ NativeOK /\ HalOK /\ QueueOK /\ FlagsOK
BY DEF TypeInv, TypeOK, LoopOK, LoopShape, NativeOK, HalOK, QueueOK, FlagsOK

(* ... and the same in the next state.                                   *)
LEMMA TypeNext ==
    LoopOK' /\ NativeOK' /\ HalOK' /\ QueueOK' /\ FlagsOK' => TypeInv'
BY DEF TypeInv, TypeOK, LoopOK, LoopShape, NativeOK, HalOK, QueueOK, FlagsOK

(* A loop that moves to pc with sig in hand. *)
LEMMA LoopMove ==
    ASSUME TypeInv, NEW g \in Gens, NEW pc \in LoopPC, NEW q \in 0..MaxGen,
           NEW sig \in Items \cup {NoSignal, Frame},
           loop' = [loop EXCEPT ![g] = [pc |-> pc, sig |-> sig, q |-> q]],
           pc \in Reads => q \in Gens,
           sig \in Surfaces <=> pc \in {"copy", "release", "free"}
    PROVE  LoopOK'
<1>1. loop' \in [Gens -> [pc : LoopPC, sig : Items \cup {NoSignal, Frame},
                          q : 0..MaxGen]]
  BY DEF TypeInv, TypeOK
<1>2. ASSUME NEW h \in Gens
      PROVE  /\ loop'[h].pc \in Reads => loop'[h].q \in Gens
             /\ loop'[h].sig \in Surfaces <=> loop'[h].pc \in {"copy", "release", "free"}
  BY DEF TypeInv, TypeOK, LoopShape
<1> QED
  BY <1>1, <1>2 DEF LoopOK, LoopShape

(* A native thread that moves to pc with sig in hand. *)
LEMMA NativeMove ==
    ASSUME TypeInv, NEW n \in NativeThreads, NEW pc \in NativePC,
           NEW sig \in Items \cup {NoSignal},
           NativeGoto(n, pc, sig),
           pc # "idle" => sig \in Items,
           sig \in Surfaces <=> pc \in {"peek", "write", "nre", "drop", "free"}
    PROVE  NativeOK'
<1>1. native' \in [NativeThreads -> [pc : NativePC, sig : Items \cup {NoSignal}]]
  BY DEF TypeInv, TypeOK, NativeGoto
<1>2. ASSUME NEW m \in NativeThreads
      PROVE  /\ native'[m].pc # "idle" => native'[m].sig \in Items
             /\ native'[m].sig \in Surfaces <=>
                   native'[m].pc \in {"peek", "write", "nre", "drop", "free"}
  BY DEF TypeInv, TypeOK, NativeShape, NativeGoto
<1> QED
  BY <1>1, <1>2 DEF NativeOK, NativeShape

(* Threads and the parts of the state a step leaves alone. *)
LEMMA Unmoved ==
    ASSUME TypeInv
    PROVE  /\ UNCHANGED loop => LoopOK'
           /\ UNCHANGED native => NativeOK'
           /\ UNCHANGED hal => HalOK'
           /\ UNCHANGED sigq => QueueOK'
           /\ UNCHANGED <<chan, isActive, call, cur>> => FlagsOK'
BY TypeParts DEF LoopOK, NativeOK, HalOK, QueueOK, FlagsOK, LoopShape,
   NativeShape, CallShape, hal, chan, sigq, call

(* An item is appended to the current queue, or not. *)
LEMMA QueueAppend ==
    ASSUME TypeInv, NEW x \in Items, cur # 0,
           queue' = [queue EXCEPT ![cur] = Append(@, x)],
           UNCHANGED <<gen, cur, closed>>
    PROVE  QueueOK'
BY TypeParts DEF QueueOK, Gens

(* The head of a nonempty queue is taken. *)
LEMMA QueueTail ==
    ASSUME TypeInv, NEW g \in Gens, queue[g] # << >>,
           queue' = [queue EXCEPT ![g] = Tail(@)],
           UNCHANGED <<gen, cur, closed>>
    PROVE  QueueOK' /\ Head(queue[g]) \in Items
BY TypeParts DEF QueueOK, Gens

(* A callback that the hardware delivers. *)
LEMMA TypeSurfaceCallback ==
    ASSUME TypeInv, NEW n \in NativeThreads, NEW s \in Surfaces,
           OnSurfaceCallback(n, s)
    PROVE  TypeInv'
<1>1. NativeOK'
  BY Unmoved, NativeMove DEF OnSurfaceCallback, NativePC, Items
<1>2. HalOK'
  BY TypeParts DEF OnSurfaceCallback, HalOK
<1> QED
  BY <1>1, <1>2, TypeNext, Unmoved DEF OnSurfaceCallback, call, sigq

(* A signal that the hardware delivers.                                  *)
LEMMA TypeSignalCallback ==
    ASSUME TypeInv, NEW n \in NativeThreads, NEW k \in EnabledSignals,
           OnSignalCallback(n, k)
    PROVE  TypeInv'
<1>1. NativeOK'
  <2>1. k \in Signals
    BY GrabChannelAssumption
  <2> QED
    BY <2>1, Unmoved, NativeMove, GrabChannelAssumption
       DEF OnSignalCallback, NativePC, Items, Signals, NoSignal
<1>2. HalOK'
  BY TypeParts DEF OnSignalCallback, HalOK
<1> QED
  BY <1>1, <1>2, TypeNext, Unmoved DEF OnSignalCallback, call, sigq

(* A step of a native thread inside a callback. *)
LEMMA TypeNative ==
    ASSUME TypeInv, NEW n \in NativeThreads, Native(n)
    PROVE  TypeInv'
<1> USE TypeParts, TypeNext, Unmoved, GrabChannelAssumption
    DEF Items, NativePC, NoSignal, hal, call
<1>s. /\ native[n].pc \in {"flag", "post", "write", "peek", "drop"} => native[n].sig \in Items
      /\ native[n].sig \in Surfaces <=>
            native[n].pc \in {"peek", "write", "nre", "drop", "free"}
  BY DEF NativeOK, NativeShape
<1>1. CASE ClearActive(n)
  <2>1. NativeOK'
    BY <1>1, <1>s, NativeMove DEF ClearActive
  <2>2. FlagsOK'
    BY <1>1 DEF ClearActive, FlagsOK, CallShape, chan, sigq
  <2> QED
    BY <1>1, <2>1, <2>2 DEF ClearActive
<1>2. CASE EnqueueSignal(n)
  <2>1. NativeOK'
    BY <1>2, NativeMove DEF EnqueueSignal
  <2>2. QueueOK'
    <3>1. CASE CanWrite
      BY <1>2, <1>s, <3>1, QueueAppend DEF EnqueueSignal, CanWrite
    <3>2. CASE ~CanWrite
      BY <1>2, <3>2 DEF EnqueueSignal, sigq
    <3> QED
      BY <3>1, <3>2
  <2> QED
    BY <1>2, <2>1, <2>2 DEF EnqueueSignal
<1>3. CASE EnqueueSurfaceTest(n)
  <2>1. NativeOK'
    BY <1>3, <1>s, NativeMove DEF EnqueueSurfaceTest
  <2> QED
    BY <1>3, <2>1 DEF EnqueueSurfaceTest, sigq
<1>4. CASE EnqueueSurfaceWrite(n)
  <2>1. NativeOK'
    <3>1. CASE CanWrite
      BY <1>4, <3>1, NativeMove DEF EnqueueSurfaceWrite
    <3>2. CASE ~CanWrite
      BY <1>4, <1>s, <3>2, NativeMove DEF EnqueueSurfaceWrite
    <3> QED
      BY <3>1, <3>2
  <2>2. QueueOK'
    <3>1. CASE CanWrite
      BY <1>4, <1>s, <3>1, QueueAppend DEF EnqueueSurfaceWrite, CanWrite
    <3>2. CASE ~CanWrite
      BY <1>4, <3>2 DEF EnqueueSurfaceWrite, sigq
    <3> QED
      BY <3>1, <3>2
  <2> QED
    BY <1>4, <2>1, <2>2 DEF EnqueueSurfaceWrite
<1>5. CASE DropSurface(n)
  <2>1. NativeOK'
    BY <1>5, <1>s, NativeMove DEF DropSurface
  <2> QED
    BY <1>5, <2>1 DEF DropSurface, sigq
<1>6. CASE FreeDropped(n)
  <2>1. NativeOK'
    BY <1>6, NativeMove DEF FreeDropped
  <2>2. HalOK'
    BY <1>6 DEF FreeDropped, HalOK
  <2> QED
    BY <1>6, <2>1, <2>2 DEF FreeDropped, sigq
<1> QED
  BY <1>1, <1>2, <1>3, <1>4, <1>5, <1>6 DEF Native

(* A step of a processing loop. *)
LEMMA TypeLoop ==
    ASSUME TypeInv, NEW g \in Gens, Loop(g) \/ HandlerReturn(g)
    PROVE  TypeInv'
<1> USE TypeParts, TypeNext, Unmoved, GrabChannelAssumption
    DEF Items, LoopPC, Reads, NoSignal, Frame, Signals
<1>s. /\ loop[g].q \in 0..MaxGen
      /\ loop[g].pc \in Reads => loop[g].q \in Gens
      /\ loop[g].sig \in Items \cup {NoSignal, Frame}
      /\ loop[g].sig \in Surfaces <=> loop[g].pc \in {"copy", "release", "free"}
  BY DEF LoopOK, LoopShape
<1>a. ASSUME loop[g].pc \in Reads, AfterSurface(g) PROVE LoopOK'
  <2>1. loop[g].q \in 0..MaxGen /\ loop[g].q \in Gens
    BY <1>a, <1>s
  <2>2. CASE LoopGoto(g, "handler", Frame)
    BY <2>1, <2>2, LoopMove DEF LoopGoto
  <2>3. CASE LoopGoto(g, "reading", NoSignal)
    BY <2>1, <2>3, LoopMove DEF LoopGoto
  <2> QED
    BY <1>a, <2>2, <2>3 DEF AfterSurface
<1>1. CASE LoopStart(g)
  <2>1. cur \in 0..MaxGen /\ (cur # 0 => cur \in Gens)
    BY DEF QueueOK, Gens
  <2>2. LoopOK'
    BY <1>1, <2>1, LoopMove DEF LoopStart
  <2> QED
    BY <1>1, <2>2 DEF LoopStart, hal, sigq, call
<1>2. CASE LoopWake(g)
  <2>1. LoopOK'
    BY <1>2, <1>s, LoopMove DEF LoopWake, LoopGoto
  <2> QED
    BY <1>2, <2>1 DEF LoopWake, hal, sigq, call
<1>3. CASE LoopExit(g)
  <2>1. LoopOK'
    BY <1>3, <1>s, LoopMove DEF LoopExit, LoopGoto
  <2> QED
    BY <1>3, <2>1 DEF LoopExit, hal, sigq, call
<1>4. CASE LoopRead(g)
  <2>1. CASE queue[loop[g].q] = << >>
    <3>1. LoopOK'
      BY <1>4, <1>s, <2>1, LoopMove DEF LoopRead, LoopGoto
    <3> QED
      BY <1>4, <2>1, <3>1 DEF LoopRead, hal, sigq, call
  <2>2. CASE queue[loop[g].q] # << >>
    <3>1. QueueOK' /\ Head(queue[loop[g].q]) \in Items
      BY <1>4, <1>s, <2>2, QueueTail DEF LoopRead
    <3>2. LoopOK'
      BY <1>4, <1>s, <2>2, <3>1, LoopMove DEF LoopRead, LoopGoto
    <3> QED
      BY <1>4, <2>2, <3>1, <3>2 DEF LoopRead, hal, sigq, call
  <2> QED
    BY <2>1, <2>2
<1>5. CASE CopySurface(g)
  <2>1. LoopOK'
    BY <1>5, <1>s, LoopMove DEF CopySurface, LoopGoto
  <2> QED
    BY <1>5, <2>1 DEF CopySurface, hal, sigq, call
<1>6. CASE ReleaseTest(g)
  <2>1. LoopOK'
    BY <1>6, <1>s, <1>a, LoopMove DEF ReleaseTest, LoopGoto
  <2> QED
    BY <1>6, <2>1 DEF ReleaseTest, hal, sigq, call
<1>7. CASE ReleaseFree(g)
  <2>1. HalOK'
    BY <1>7 DEF ReleaseFree, HalOK
  <2> QED
    BY <1>7, <1>s, <1>a, <2>1 DEF ReleaseFree, sigq, call
<1>8. CASE HandlerReturn(g)
  <2>1. LoopOK'
    BY <1>8, <1>s, LoopMove DEF HandlerReturn, LoopGoto
  <2> QED
    BY <1>8, <2>1 DEF HandlerReturn, hal, sigq, call
<1> QED
  BY <1>1, <1>2, <1>3, <1>4, <1>5, <1>6, <1>7, <1>8 DEF Loop

(* A step of a control call. *)
LEMMA TypeCall ==
    ASSUME TypeInv, NEW c \in 0..MaxGen,
           StartAcquisition \/ StopAcquisition(c) \/ Dispose \/ Call
    PROVE  TypeInv'
<1> USE TypeParts, TypeNext, Unmoved, GrabChannelAssumption DEF Goto, Return
<1>c. 0 \in 0..MaxGen
  OBVIOUS
<1>1. CASE StartAcquisition
  <2>1. CASE cur = 0
    <3>1. gen + 1 \in Gens
      BY <1>1, <2>1 DEF StartAcquisition, QueueOK, Gens
    <3>2. QueueOK'
      BY <1>1, <2>1, <3>1 DEF StartAcquisition, QueueOK
    <3>3. LoopOK'
      BY <1>1, <1>c, <2>1, <3>1, LoopMove
         DEF StartAcquisition, LoopPC, Reads, NoSignal, Frame, Signals
    <3>4. FlagsOK'
      BY <1>1 DEF StartAcquisition, FlagsOK, CallShape, ApiPC, chan
    <3> QED
      BY <1>1, <3>2, <3>3, <3>4 DEF StartAcquisition, hal
  <2>2. CASE cur # 0
    <3>1. FlagsOK'
      BY <1>1 DEF StartAcquisition, FlagsOK, CallShape, ApiPC, chan
    <3> QED
      BY <1>1, <2>2, <3>1 DEF StartAcquisition, hal, sigq
  <2> QED
    BY <2>1, <2>2
<1>2. CASE StopAcquisition(c)
  <2>1. HalOK' /\ FlagsOK'
    BY <1>2 DEF StopAcquisition, HalOK, FlagsOK, CallShape, ApiPC, chan
  <2> QED
    BY <1>2, <2>1 DEF StopAcquisition
<1>3. CASE Dispose
  <2>1. FlagsOK'
    BY <1>3 DEF Dispose, FlagsOK, CallShape, ApiPC
  <2> QED
    BY <1>3, <2>1 DEF Dispose
<1>4. CASE Activate
  <2>1. HalOK' /\ FlagsOK'
    BY <1>4 DEF Activate, HalOK, FlagsOK, CallShape, ApiPC, chan
  <2> QED
    BY <1>4, <2>1 DEF Activate
<1>5. CASE ActivateFails
  <2>1. FlagsOK'
    BY <1>5, <1>c DEF ActivateFails, FlagsOK, CallShape, ApiPC, chan
  <2> QED
    BY <1>5, <2>1 DEF ActivateFails
<1>6. CASE SetActive
  <2>1. FlagsOK'
    BY <1>6, <1>c DEF SetActive, FlagsOK, CallShape, ApiPC, chan
  <2> QED
    BY <1>6, <2>1 DEF SetActive
<1>7. CASE DisposeMark
  <2>1. HalOK' /\ FlagsOK'
    BY <1>7 DEF DisposeMark, HalOK, FlagsOK, CallShape, ApiPC
  <2> QED
    BY <1>7, <2>1 DEF DisposeMark
<1>8. CASE CloseQueue
  <2>1. QueueOK'
    BY <1>8 DEF CloseQueue, QueueOK
  <2>2. FlagsOK'
    BY <1>8 DEF CloseQueue, FlagsOK, CallShape, ApiPC, chan
  <2> QED
    BY <1>8, <2>1, <2>2 DEF CloseQueue, hal
<1>9. CASE JoinDone \/ JoinTimeout
  <2>1. FlagsOK'
    BY <1>9 DEF JoinDone, JoinTimeout, FlagsOK, CallShape, ApiPC, chan, sigq
  <2> QED
    BY <1>9, <2>1 DEF JoinDone, JoinTimeout, hal, sigq
<1>10. CASE DrainOne
  <2>1. cur \in Gens
    BY <1>10 DEF DrainOne, QueueOK, FlagsOK, CallShape
  <2>2. QueueOK'
    BY <1>10, <2>1, QueueTail DEF DrainOne
  <2>3. HalOK'
    BY <1>10 DEF DrainOne, HalOK
  <2> QED
    BY <1>10, <2>2, <2>3 DEF DrainOne, call
<1>11. CASE DrainEmpty
  <2>1. FlagsOK'
    BY <1>11 DEF DrainEmpty, FlagsOK, CallShape, ApiPC, chan
  <2> QED
    BY <1>11, <2>1 DEF DrainEmpty
<1>12. CASE NullOut
  <2>1. QueueOK'
    BY <1>12 DEF NullOut, QueueOK
  <2>2. FlagsOK'
    BY <1>12, <1>c DEF NullOut, FlagsOK, CallShape, ApiPC, chan
  <2> QED
    BY <1>12, <2>1, <2>2 DEF NullOut
<1>13. CASE Delete
  <2>1. HalOK' /\ FlagsOK'
    BY <1>13, <1>c DEF Delete, HalOK, FlagsOK, CallShape, ApiPC, chan
  <2> QED
    BY <1>13, <2>1 DEF Delete
<1> QED
  BY <1>1, <1>2, <1>3, <1>4, <1>5, <1>6, <1>7, <1>8, <1>9, <1>10, <1>11,
     <1>12, <1>13 DEF Call

(* A step that changes nothing.                                          *)
LEMMA TypeStutter == TypeInv /\ UNCHANGED vars => TypeInv'
BY DEF vars, TypeInv, TypeOK, LoopShape, NativeShape, CallShape

(* Every step keeps types and shapes.                                    *)
LEMMA TypeStep == TypeInv /\ [Next]_vars => TypeInv'
<1>1. 0 \in 0..MaxGen
  BY GrabChannelAssumption
<1> QED
  BY <1>1, TypeSurfaceCallback, TypeSignalCallback, TypeNative, TypeLoop, TypeCall,
     TypeStutter DEF Next, StartRefused, StopRefused, DisposeAgain

(* Every reachable state has the types the model declares, with the shapes *)
(* the program counters imply.                                             *)
THEOREM TypeInvariance == Spec => []TypeInv
BY TypeInit, TypeStep, PTL DEF Spec

(* Every reachable state of a channel has the types the model declares.  *)
THEOREM TypeCorrect == Spec => []TypeOK
<1>1. TypeInv => TypeOK
  BY DEF TypeInv
<1> QED
  BY <1>1, TypeInvariance, PTL

(***************************************************************************)
(* Ownership of surfaces.                                                  *)
(*                                                                         *)
(* A step does one of five things to the hands that surfaces are in:       *)
(* nothing (or a hand lets go), a fresh surface enters a native hand, a    *)
(* native hand's item moves to a queue, a queue's head moves to a loop, or *)
(* a surface leaves its hand and becomes free. One lemma per kind of step. *)
(***************************************************************************)

(* What a sequence looks like with one more item ...                     *)
LEMMA AppendFacts ==
    ASSUME NEW q \in Seq(Items), NEW x \in Items
    PROVE  /\ DOMAIN Append(q, x) = 1..(Len(q) + 1)
           /\ DOMAIN q = 1..Len(q)
           /\ \A i \in DOMAIN q : Append(q, x)[i] = q[i]
           /\ Append(q, x)[Len(q) + 1] = x
           /\ Len(q) \in Nat
OBVIOUS

(* ... and without its first.                                            *)
LEMMA TailFacts ==
    ASSUME NEW q \in Seq(Items), q # << >>
    PROVE  /\ 1 \in DOMAIN q /\ Head(q) = q[1]
           /\ DOMAIN q \subseteq Nat
           /\ \A i \in DOMAIN Tail(q) : i + 1 \in DOMAIN q /\ Tail(q)[i] = q[i + 1]
           /\ DOMAIN Tail(q) \subseteq Nat \ {0}
OBVIOUS

(* What a moving thread has in hand afterwards. *)
LEMMA NativeSig ==
    ASSUME TypeInv, NEW n \in NativeThreads, NEW pc, NEW sig, NativeGoto(n, pc, sig)
    PROVE  \A m \in NativeThreads : native'[m].sig = IF m = n THEN sig ELSE native[m].sig
BY DEF NativeGoto, TypeInv, TypeOK

(* The same for a moving loop.                                           *)
LEMMA LoopSig ==
    ASSUME TypeInv, NEW g \in Gens, NEW pc, NEW sig, NEW q,
           loop' = [loop EXCEPT ![g] = [pc |-> pc, sig |-> sig, q |-> q]]
    PROVE  \A h \in Gens : loop'[h].sig = IF h = g THEN sig ELSE loop[h].sig
BY DEF TypeInv, TypeOK

(* Nothing moves, except that threads may let go of what they hold. *)
LEMMA OwnershipLetGo ==
    ASSUME SurfaceOwnership,
           \A n \in NativeThreads :
              native'[n].sig = native[n].sig \/ native'[n].sig \notin Surfaces,
           \A g \in Gens : loop'[g].sig = loop[g].sig \/ loop'[g].sig \notin Surfaces,
           UNCHANGED <<queue, surf>>
    PROVE  SurfaceOwnership'
<1>1. HeldIsProcessing'
  BY DEF SurfaceOwnership, HeldIsProcessing, NativeHolds, LoopHolds, Queued
<1>2. OneHolder'
  BY DEF SurfaceOwnership, OneHolder, NativeHolds, LoopHolds, Queued
<1> QED
  BY <1>1, <1>2 DEF SurfaceOwnership

(* The hardware fills a free surface; native thread n may get it. *)
LEMMA OwnershipFill ==
    ASSUME TypeInv, SurfaceOwnership, NEW n \in NativeThreads, NEW s \in Surfaces,
           OnSurfaceCallback(n, s)
    PROVE  SurfaceOwnership'
<1>1. /\ \A m \in NativeThreads : m # n => native'[m].sig = native[m].sig
      /\ native'[n].sig \in Surfaces => native'[n].sig = s \/ native'[n].sig = native[n].sig
      /\ surf' = [surf EXCEPT ![s] = "PROCESSING"]
      /\ surf[s] = "FREE" /\ surf \in [Surfaces -> {"FREE", "PROCESSING"}]
      /\ UNCHANGED <<loop, queue>>
  BY DEF OnSurfaceCallback, NativeGoto, sigq, TypeInv, TypeOK
<1>2. HeldIsProcessing'
  BY <1>1 DEF SurfaceOwnership, HeldIsProcessing, NativeHolds, LoopHolds, Queued
<1>3. OneHolder'
  BY <1>1 DEF SurfaceOwnership, HeldIsProcessing, OneHolder, NativeHolds, LoopHolds, Queued
<1> QED
  BY <1>2, <1>3 DEF SurfaceOwnership

(* Native thread n's item moves to the tail of queue q. *)
LEMMA OwnershipEnqueue ==
    ASSUME TypeInv, SurfaceOwnership, NEW n \in NativeThreads, NEW q \in Gens,
           native[n].sig \in Items,
           NativeGoto(n, "idle", NoSignal),
           queue' = [queue EXCEPT ![q] = Append(@, native[n].sig)],
           UNCHANGED <<surf, loop>>
    PROVE  SurfaceOwnership'
<1> DEFINE x == native[n].sig
<1>1. /\ \A m \in NativeThreads : m # n => native'[m].sig = native[m].sig
      /\ native'[n].sig \notin Surfaces
  BY GrabChannelAssumption DEF NativeGoto, TypeInv, TypeOK, NoSignal
<1>2. queue[q] \in Seq(Items)
  BY DEF TypeInv, TypeOK
<1>3. /\ DOMAIN queue[q] = 1..Len(queue[q])
      /\ DOMAIN queue'[q] = 1..(Len(queue[q]) + 1)
      /\ \A i \in DOMAIN queue[q] : queue'[q][i] = queue[q][i]
      /\ queue'[q][Len(queue[q]) + 1] = x
      /\ Len(queue[q]) \in Nat
      /\ \A g \in Gens : g # q => queue'[g] = queue[g]
  BY <1>2, AppendFacts DEF TypeInv, TypeOK
<1>4. \A g \in Gens, s \in Surfaces : Queued(g, s)' <=> Queued(g, s) \/ (g = q /\ s = x)
  BY <1>3 DEF Queued
<1>5. HeldIsProcessing'
  BY <1>1, <1>4 DEF SurfaceOwnership, HeldIsProcessing, NativeHolds, LoopHolds
<1>6. ASSUME NEW s \in Surfaces, NEW g \in Gens, NEW h \in Gens,
             NEW i \in DOMAIN queue'[g], NEW j \in DOMAIN queue'[h],
             queue'[g][i] = s, queue'[h][j] = s
      PROVE  g = h /\ i = j
  <2>1. ~(s = x /\ \E k \in Gens : Queued(k, s))
    BY DEF SurfaceOwnership, OneHolder, NativeHolds
  <2>2. CASE s = x
    BY <1>3, <1>6, <2>1, <2>2 DEF Queued
  <2>3. CASE s # x
    <3>1. i \in DOMAIN queue[g] /\ queue[g][i] = s
      BY <1>3, <1>6, <2>3
    <3>2. j \in DOMAIN queue[h] /\ queue[h][j] = s
      BY <1>3, <1>6, <2>3
    <3> QED
      BY <3>1, <3>2 DEF SurfaceOwnership, OneHolder
  <2> QED
    BY <2>2, <2>3
<1>7. ASSUME NEW s \in Surfaces
      PROVE  /\ \A m, k \in NativeThreads :
                   NativeHolds(m, s)' /\ NativeHolds(k, s)' => m = k
             /\ \A g, h \in Gens : LoopHolds(g, s)' /\ LoopHolds(h, s)' => g = h
             /\ \A m \in NativeThreads, g \in Gens :
                   NativeHolds(m, s)' => ~LoopHolds(g, s)' /\ ~Queued(g, s)'
             /\ \A g, h \in Gens : LoopHolds(g, s)' => ~Queued(h, s)'
  BY <1>1, <1>4 DEF SurfaceOwnership, OneHolder, NativeHolds, LoopHolds
<1>8. OneHolder'
  BY <1>6, <1>7 DEF OneHolder
<1> QED
  BY <1>5, <1>8 DEF SurfaceOwnership

(* What is left in the queues after the head of queue q is taken. *)
LEMMA TailQueued ==
    ASSUME TypeInv, OneHolder, NEW q \in Gens, NEW x, queue[q] # << >>, x = Head(queue[q]),
           queue' = [queue EXCEPT ![q] = Tail(@)]
    PROVE  /\ \A g \in Gens, s \in Surfaces : Queued(g, s)' => Queued(g, s)
           /\ Queued(q, x)
           /\ x \in Surfaces => \A g \in Gens : ~Queued(g, x)'
           /\ \A s \in Surfaces : \A g, h \in Gens :
                 \A i \in DOMAIN queue'[g], j \in DOMAIN queue'[h] :
                    queue'[g][i] = s /\ queue'[h][j] = s => g = h /\ i = j
<1>1. queue[q] \in Seq(Items)
  BY DEF TypeInv, TypeOK
<1>2. /\ 1 \in DOMAIN queue[q] /\ x = queue[q][1]
      /\ \A i \in DOMAIN queue'[q] : /\ i \in Nat \ {0}
                                     /\ i + 1 \in DOMAIN queue[q]
                                     /\ queue'[q][i] = queue[q][i + 1]
      /\ \A g \in Gens : g # q => queue'[g] = queue[g]
  BY <1>1, TailFacts DEF TypeInv, TypeOK
<1>3. \A g \in Gens, s \in Surfaces : Queued(g, s)' => Queued(g, s)
  BY <1>2 DEF Queued
<1>4. Queued(q, x)
  BY <1>2 DEF Queued
<1>5. ASSUME x \in Surfaces, NEW g \in Gens, NEW i \in DOMAIN queue'[g],
             queue'[g][i] = x
      PROVE  FALSE
  <2>1. CASE g = q
    <3>1. i + 1 = 1
      BY <1>2, <1>5, <2>1 DEF OneHolder
    <3> QED
      BY <1>2, <1>5, <2>1, <3>1
  <2>2. CASE g # q
    BY <1>2, <1>5, <2>2 DEF OneHolder
  <2> QED
    BY <2>1, <2>2
<1>6. ASSUME NEW s \in Surfaces, NEW g \in Gens, NEW h \in Gens,
             NEW i \in DOMAIN queue'[g], NEW j \in DOMAIN queue'[h],
             queue'[g][i] = s, queue'[h][j] = s
      PROVE  g = h /\ i = j
  <2> DEFINE at(k, l) == IF k = q THEN l + 1 ELSE l
  <2>1. at(g, i) \in DOMAIN queue[g] /\ queue[g][at(g, i)] = s
    BY <1>2, <1>6
  <2>2. at(h, j) \in DOMAIN queue[h] /\ queue[h][at(h, j)] = s
    BY <1>2, <1>6
  <2>3. g = h /\ at(g, i) = at(h, j)
    BY <2>1, <2>2 DEF OneHolder
  <2> QED
    BY <1>2, <1>6, <2>3
<1> QED
  BY <1>3, <1>4, <1>5, <1>6 DEF Queued

(* Loop g takes the head of the queue q it serves. *)
LEMMA OwnershipRead ==
    ASSUME TypeInv, SurfaceOwnership, NEW g \in Gens, NEW q \in Gens, NEW pc,
           NEW x, x = Head(queue[q]), queue[q] # << >>,
           queue' = [queue EXCEPT ![q] = Tail(@)],
           LoopGoto(g, pc, x),
           UNCHANGED <<surf, native>>
    PROVE  SurfaceOwnership'
<1>1. /\ \A h \in Gens : h # g => loop'[h].sig = loop[h].sig
      /\ loop'[g].sig = x
  BY DEF LoopGoto, TypeInv, TypeOK
<1>2. /\ \A h \in Gens, s \in Surfaces : Queued(h, s)' => Queued(h, s)
      /\ Queued(q, x)
      /\ x \in Surfaces => \A h \in Gens : ~Queued(h, x)'
      /\ \A s \in Surfaces : \A h, k \in Gens :
            \A i \in DOMAIN queue'[h], j \in DOMAIN queue'[k] :
               queue'[h][i] = s /\ queue'[k][j] = s => h = k /\ i = j
  BY TailQueued DEF SurfaceOwnership
<1>3. HeldIsProcessing'
  BY <1>1, <1>2 DEF SurfaceOwnership, HeldIsProcessing, NativeHolds, LoopHolds
<1>4. ASSUME NEW s \in Surfaces
      PROVE  /\ \A m, k \in NativeThreads :
                   NativeHolds(m, s)' /\ NativeHolds(k, s)' => m = k
             /\ \A h, k \in Gens : LoopHolds(h, s)' /\ LoopHolds(k, s)' => h = k
             /\ \A m \in NativeThreads, h \in Gens :
                   NativeHolds(m, s)' => ~LoopHolds(h, s)' /\ ~Queued(h, s)'
             /\ \A h, k \in Gens : LoopHolds(h, s)' => ~Queued(k, s)'
  BY <1>1, <1>2 DEF SurfaceOwnership, OneHolder, NativeHolds, LoopHolds
<1>5. OneHolder'
  BY <1>2, <1>4 DEF OneHolder
<1> QED
  BY <1>3, <1>5 DEF SurfaceOwnership

(* A draining caller takes the head of queue q; it may free it at once. *)
LEMMA OwnershipDrain ==
    ASSUME TypeInv, SurfaceOwnership, NEW q \in Gens, queue[q] # << >>,
           NEW x, x = Head(queue[q]),
           queue' = [queue EXCEPT ![q] = Tail(@)],
           UNCHANGED surf \/ (x \in Surfaces /\ surf' = [surf EXCEPT ![x] = "FREE"]),
           UNCHANGED <<native, loop>>
    PROVE  SurfaceOwnership'
<1>1. /\ \A h \in Gens, s \in Surfaces : Queued(h, s)' => Queued(h, s)
      /\ Queued(q, x)
      /\ x \in Surfaces => \A h \in Gens : ~Queued(h, x)'
      /\ \A s \in Surfaces : \A h, k \in Gens :
            \A i \in DOMAIN queue'[h], j \in DOMAIN queue'[k] :
               queue'[h][i] = s /\ queue'[k][j] = s => h = k /\ i = j
  BY TailQueued DEF SurfaceOwnership
<1>2. \A s \in Surfaces : surf'[s] = "FREE" => surf[s] = "FREE" \/ s = x
  BY DEF TypeInv, TypeOK
<1>3. HeldIsProcessing'
  BY <1>1, <1>2 DEF SurfaceOwnership, HeldIsProcessing, OneHolder, NativeHolds, LoopHolds
<1>4. OneHolder'
  BY <1>1 DEF SurfaceOwnership, OneHolder, NativeHolds, LoopHolds
<1> QED
  BY <1>3, <1>4 DEF SurfaceOwnership

(* A thread gives the surface x back to the driver and lets go of it. *)
LEMMA OwnershipFree ==
    ASSUME TypeInv, SurfaceOwnership, NEW x,
           surf' = [surf EXCEPT ![x] = "FREE"],
           \/ \E n \in NativeThreads :
                 x = native[n].sig /\ NativeGoto(n, "idle", NoSignal) /\ UNCHANGED loop
           \/ \E g \in Gens :
                 x = loop[g].sig /\ AfterSurface(g) /\ UNCHANGED native,
           UNCHANGED queue
    PROVE  SurfaceOwnership'
<1>1. /\ NoSignal \notin Surfaces /\ Frame \notin Surfaces
      /\ surf \in [Surfaces -> {"FREE", "PROCESSING"}]
  BY GrabChannelAssumption DEF TypeInv, TypeOK
<1>2. /\ \A n \in NativeThreads : \/ native'[n].sig = native[n].sig
                                  \/ native'[n].sig \notin Surfaces
      /\ \A g \in Gens : loop'[g].sig = loop[g].sig \/ loop'[g].sig \notin Surfaces
  <2>1. CASE \E n \in NativeThreads :
                x = native[n].sig /\ NativeGoto(n, "idle", NoSignal) /\ UNCHANGED loop
    BY <1>1, <2>1 DEF NativeGoto, TypeInv, TypeOK
  <2>2. CASE \E g \in Gens : x = loop[g].sig /\ AfterSurface(g) /\ UNCHANGED native
    BY <1>1, <2>2, LoopSig DEF AfterSurface, LoopGoto
  <2> QED
    BY <2>1, <2>2
<1>3. x \in Surfaces =>
         /\ \A n \in NativeThreads : ~NativeHolds(n, x)'
         /\ \A g \in Gens : ~LoopHolds(g, x)' /\ ~Queued(g, x)'
  <2>1. CASE \E n \in NativeThreads :
                x = native[n].sig /\ NativeGoto(n, "idle", NoSignal) /\ UNCHANGED loop
    <3>1. PICK n \in NativeThreads :
                x = native[n].sig /\ NativeGoto(n, "idle", NoSignal) /\ UNCHANGED loop
      BY <2>1
    <3>2. native'[n].sig = NoSignal
      BY <3>1 DEF NativeGoto, TypeInv, TypeOK
    <3> QED
      BY <1>1, <1>2, <3>1, <3>2
         DEF SurfaceOwnership, OneHolder, NativeHolds, LoopHolds, Queued
  <2>2. CASE \E g \in Gens : x = loop[g].sig /\ AfterSurface(g) /\ UNCHANGED native
    <3>1. PICK g \in Gens : x = loop[g].sig /\ AfterSurface(g) /\ UNCHANGED native
      BY <2>2
    <3>2. loop'[g].sig \in {NoSignal, Frame}
      BY <3>1 DEF AfterSurface, LoopGoto, TypeInv, TypeOK
    <3> QED
      BY <1>1, <1>2, <3>1, <3>2
         DEF SurfaceOwnership, OneHolder, NativeHolds, LoopHolds, Queued
  <2> QED
    BY <2>1, <2>2
<1>4. \A s \in Surfaces : surf'[s] = "FREE" => surf[s] = "FREE" \/ s = x
  BY <1>1
<1>5. HeldIsProcessing'
  BY <1>2, <1>3, <1>4
     DEF SurfaceOwnership, HeldIsProcessing, NativeHolds, LoopHolds, Queued
<1>6. OneHolder'
  BY <1>2 DEF SurfaceOwnership, OneHolder, NativeHolds, LoopHolds, Queued
<1> QED
  BY <1>5, <1>6 DEF SurfaceOwnership

(* A fresh channel has handed out nothing.                               *)
LEMMA OwnershipInit == Init => SurfaceOwnership
BY GrabChannelAssumption
   DEF Init, SurfaceOwnership, HeldIsProcessing, OneHolder, NativeHolds, LoopHolds,
       Queued, NoSignal, Gens

(* A signal puts no surface in anybody's hands.                          *)
LEMMA OwnershipSignalCallback ==
    ASSUME TypeInv, SurfaceOwnership, NEW n \in NativeThreads, NEW k \in EnabledSignals,
           OnSignalCallback(n, k)
    PROVE  SurfaceOwnership'
<1>1. k \notin Surfaces
  BY GrabChannelAssumption
<1>2. \A m \in NativeThreads : \/ native'[m].sig = native[m].sig
                               \/ native'[m].sig \notin Surfaces
  BY <1>1, NativeSig DEF OnSignalCallback
<1> QED
  BY <1>2, OwnershipLetGo DEF OnSignalCallback, sigq

(* A native thread enqueues its surface or gives it back.                *)
LEMMA OwnershipNative ==
    ASSUME TypeInv, SurfaceOwnership, NEW n \in NativeThreads, Native(n)
    PROVE  SurfaceOwnership'
<1> DEFINE LetsGo == \A m \in NativeThreads : \/ native'[m].sig = native[m].sig
                                              \/ native'[m].sig \notin Surfaces
<1>s. NoSignal \notin Surfaces
  BY GrabChannelAssumption
<1>1. CASE ClearActive(n) \/ EnqueueSurfaceTest(n)
  <2>1. LetsGo
    BY <1>1, NativeSig DEF ClearActive, EnqueueSurfaceTest
  <2> QED
    BY <1>1, <2>1, OwnershipLetGo DEF ClearActive, EnqueueSurfaceTest, sigq, hal
<1>2. CASE DropSurface(n)
  <2>1. LetsGo
    BY <1>2, <1>s, NativeSig DEF DropSurface
  <2> QED
    BY <1>2, <2>1, OwnershipLetGo DEF DropSurface, sigq, hal
<1>3. CASE EnqueueSignal(n) \/ EnqueueSurfaceWrite(n)
  <2>1. CASE CanWrite
    <3>1. cur \in Gens /\ native[n].sig \in Items
      BY <1>3, <2>1 DEF EnqueueSignal, EnqueueSurfaceWrite, CanWrite, TypeInv, TypeOK,
                        NativeShape
    <3> QED
      BY <1>3, <2>1, <3>1, OwnershipEnqueue DEF EnqueueSignal, EnqueueSurfaceWrite, hal
  <2>2. CASE ~CanWrite
    <3>1. LetsGo
      BY <1>3, <1>s, <2>2, NativeSig DEF EnqueueSignal, EnqueueSurfaceWrite
    <3> QED
      BY <1>3, <2>2, <3>1, OwnershipLetGo DEF EnqueueSignal, EnqueueSurfaceWrite, hal
  <2> QED
    BY <2>1, <2>2
<1>4. CASE FreeDropped(n)
  BY <1>4, OwnershipFree DEF FreeDropped, sigq
<1> QED
  BY <1>1, <1>2, <1>3, <1>4 DEF Native

(* A loop takes a surface from its queue, later gives it back.           *)
LEMMA OwnershipLoop ==
    ASSUME TypeInv, SurfaceOwnership, NEW g \in Gens, Loop(g) \/ HandlerReturn(g)
    PROVE  SurfaceOwnership'
<1> DEFINE LetsGo == \A h \in Gens : loop'[h].sig = loop[h].sig \/ loop'[h].sig \notin Surfaces
<1>s. NoSignal \notin Surfaces /\ Frame \notin Surfaces
  BY GrabChannelAssumption
<1>1. CASE LoopStart(g)
  <2>1. LetsGo
    BY <1>1, <1>s, LoopSig DEF LoopStart
  <2> QED
    BY <1>1, <2>1, OwnershipLetGo DEF LoopStart, sigq, hal
<1>2. CASE LoopWake(g) \/ LoopExit(g) \/ CopySurface(g) \/ HandlerReturn(g)
  <2>1. LetsGo
    <3>1. CASE CopySurface(g)
      BY <3>1, LoopSig DEF CopySurface, LoopGoto
    <3>2. CASE LoopWake(g) \/ LoopExit(g)
      BY <1>s, <3>2, LoopSig DEF LoopWake, LoopExit, LoopGoto
    <3>3. CASE HandlerReturn(g)
      BY <1>s, <3>3, LoopSig DEF HandlerReturn, LoopGoto
    <3> QED
      BY <1>2, <3>1, <3>2, <3>3
  <2> QED
    BY <1>2, <2>1, OwnershipLetGo
       DEF LoopWake, LoopExit, CopySurface, HandlerReturn, sigq, hal
<1>3. CASE LoopRead(g)
  <2>1. CASE queue[loop[g].q] = << >>
    <3>1. LetsGo
      BY <1>3, <1>s, <2>1, LoopSig DEF LoopRead, LoopGoto
    <3> QED
      BY <1>3, <2>1, <3>1, OwnershipLetGo DEF LoopRead, hal
  <2>2. CASE queue[loop[g].q] # << >>
    <3>1. loop[g].q \in Gens
      BY <1>3 DEF LoopRead, TypeInv, LoopShape, Reads
    <3>2. PICK x : x = Head(queue[loop[g].q])
      OBVIOUS
    <3>3. PICK pc : LoopGoto(g, pc, x)
      BY <1>3, <2>2, <3>2 DEF LoopRead
    <3>4. /\ queue' = [queue EXCEPT ![loop[g].q] = Tail(@)]
          /\ UNCHANGED <<surf, native>>
      BY <1>3, <2>2 DEF LoopRead, hal
    <3> QED
      BY <2>2, <3>1, <3>2, <3>3, <3>4, OwnershipRead
  <2> QED
    BY <2>1, <2>2
<1>4. CASE ReleaseTest(g)
  <2>1. LetsGo
    BY <1>4, <1>s, LoopSig DEF ReleaseTest, AfterSurface, LoopGoto
  <2> QED
    BY <1>4, <2>1, OwnershipLetGo DEF ReleaseTest, sigq, hal
<1>5. CASE ReleaseFree(g)
  BY <1>5, OwnershipFree DEF ReleaseFree, sigq
<1> QED
  BY <1>1, <1>2, <1>3, <1>4, <1>5 DEF Loop

(* A control call touches surfaces only when it drains a queue.          *)
LEMMA OwnershipCall ==
    ASSUME TypeInv, SurfaceOwnership, NEW c \in 0..MaxGen,
           StartAcquisition \/ StopAcquisition(c) \/ Dispose \/ Call
    PROVE  SurfaceOwnership'
<1>1. CASE StartAcquisition
  <2>1. \A h \in Gens : loop'[h].sig = loop[h].sig \/ loop'[h].sig \notin Surfaces
    <3>1. cur = 0 => gen + 1 \in Gens
      BY <1>1, GrabChannelAssumption DEF StartAcquisition, TypeInv, TypeOK, Gens
    <3> QED
      BY <1>1, <3>1, LoopSig, GrabChannelAssumption DEF StartAcquisition
  <2> QED
    BY <1>1, <2>1, OwnershipLetGo DEF StartAcquisition, hal
<1>2. CASE DrainOne
  <2>1. cur \in Gens
    BY <1>2 DEF DrainOne, TypeInv, TypeOK, CallShape
  <2>2. PICK x : x = Head(queue[cur])
    OBVIOUS
  <2> QED
    BY <1>2, <2>1, <2>2, OwnershipDrain DEF DrainOne
<1>3. CASE \/ StopAcquisition(c) \/ Dispose \/ Activate \/ ActivateFails \/ SetActive
           \/ DisposeMark \/ CloseQueue \/ JoinDone \/ JoinTimeout \/ DrainEmpty
           \/ NullOut \/ Delete
  <2>1. UNCHANGED <<surf, queue, loop, native>>
    BY <1>3 DEF StopAcquisition, Dispose, Activate, ActivateFails, SetActive, DisposeMark,
                CloseQueue, JoinDone, JoinTimeout, DrainEmpty, NullOut, Delete, hal, sigq
  <2> QED
    BY <2>1, OwnershipLetGo
<1> QED
  BY <1>1, <1>2, <1>3 DEF Call

(* Every step keeps surfaces in single hands.                            *)
LEMMA OwnershipStep == TypeInv /\ SurfaceOwnership /\ [Next]_vars => SurfaceOwnership'
<1>1. 0 \in 0..MaxGen
  BY GrabChannelAssumption
<1>2. SurfaceOwnership /\ UNCHANGED vars => SurfaceOwnership'
  BY DEF vars, SurfaceOwnership, HeldIsProcessing, OneHolder, NativeHolds, LoopHolds, Queued
<1> QED
  BY <1>1, <1>2, OwnershipFill, OwnershipSignalCallback, OwnershipNative, OwnershipLoop,
     OwnershipCall DEF Next, StartRefused, StopRefused, DisposeAgain

(* Whatever the callbacks, restarts, time-outs and drains, a surface in    *)
(* the program's hands is in exactly one pair of them and is still marked  *)
(* as processing: it is never released twice, nor copied after release     *)
(* (GrabChannel.cs:297-307, 369-391, 848-875).                             *)
THEOREM OwnershipHolds == Spec => []SurfaceOwnership
BY TypeInvariance, OwnershipInit, OwnershipStep, PTL DEF Spec

(***************************************************************************)
(* No surface is lost, and an active channel is served.                    *)
(***************************************************************************)

(* A queue and a loop that StartAcquisition has not created are untouched. *)
Unborn ==
    \A g \in Gens : g > gen =>
        loop[g].pc = "none" /\ queue[g] = << >> /\ ~closed[g]

(* Somebody has surface s in hand.                                         *)
Held(s) ==
    \/ \E n \in NativeThreads : NativeHolds(n, s)
    \/ \E g \in Gens : LoopHolds(g, s) \/ Queued(g, s)

(* A shutdown whose queue is closed.                                       *)
Shutting == {"join", "drain", "nullOut"}

(* Loop g serves queue g, or will once it is scheduled.                    *)
Serves(g) ==
    \/ loop[g].pc = "scheduled"
    \/ loop[g].pc \notin {"none", "done"} /\ loop[g].q = g

(* The queue at hand is open and served, unless a shutdown closed it.      *)
Serving ==
    /\ cur # 0 /\ closed[cur] => api \in Shutting
    /\ api \in {"activate", "setActive"} => cur # 0
    /\ isActive => cur # 0 /\ api \notin Shutting \cup {"close", "delete"}
    /\ cur # 0 /\ ~closed[cur] => Serves(cur)

(* The inductive invariant, relative to TypeInv.                           *)
ServiceInv == Unborn /\ Serving /\ NoSurfaceLost

(* An item is in its queue after it was appended, with all the others.     *)
LEMMA AppendQueued ==
    ASSUME TypeInv, NEW q \in Gens, NEW x \in Items,
           queue' = [queue EXCEPT ![q] = Append(@, x)]
    PROVE  /\ Queued(q, x)'
           /\ \A g \in Gens, s \in Surfaces : Queued(g, s) => Queued(g, s)'
           /\ \A g \in Gens : g # q => queue'[g] = queue[g]
<1>1. queue[q] \in Seq(Items) /\ queue'[q] = Append(queue[q], x)
      /\ \A g \in Gens : g # q => queue'[g] = queue[g]
  BY DEF TypeInv, TypeOK
<1>2. /\ \A i \in DOMAIN queue[q] : i \in DOMAIN queue'[q] /\ queue'[q][i] = queue[q][i]
      /\ Len(queue[q]) + 1 \in DOMAIN queue'[q] /\ queue'[q][Len(queue[q]) + 1] = x
  BY <1>1, AppendFacts
<1> QED
  BY <1>1, <1>2 DEF Queued

(* What was queued still is, or was the head.                              *)
LEMMA TailLeaves ==
    ASSUME TypeInv, NEW q \in Gens, queue[q] # << >>,
           queue' = [queue EXCEPT ![q] = Tail(@)]
    PROVE  /\ \A g \in Gens, s \in Surfaces :
                 Queued(g, s) => Queued(g, s)' \/ (g = q /\ s = Head(queue[q]))
           /\ \A g \in Gens : g # q => queue'[g] = queue[g]
<1>1. queue[q] \in Seq(Items) /\ queue'[q] = Tail(queue[q])
      /\ \A g \in Gens : g # q => queue'[g] = queue[g]
  BY DEF TypeInv, TypeOK
<1>2. \A i \in DOMAIN queue[q] :
         \/ queue[q][i] = Head(queue[q])
         \/ i - 1 \in DOMAIN queue'[q] /\ queue'[q][i - 1] = queue[q][i]
  <2>1. queue[q][1] = Head(queue[q]) /\ DOMAIN queue[q] = 1..Len(queue[q])
    BY <1>1
  <2>2. /\ DOMAIN Tail(queue[q]) = 1..(Len(queue[q]) - 1)
        /\ \A j \in 1..(Len(queue[q]) - 1) : Tail(queue[q])[j] = queue[q][j + 1]
    BY <1>1
  <2>3. Len(queue[q]) \in Nat
    BY <1>1
  <2>4. ASSUME NEW i \in DOMAIN queue[q], i # 1
        PROVE  i - 1 \in 1..(Len(queue[q]) - 1) /\ (i - 1) + 1 = i
    BY <2>1, <2>3, <2>4
  <2> QED
    BY <1>1, <2>1, <2>2, <2>4
<1>3. \A s \in Surfaces : Queued(q, s) => Queued(q, s)' \/ s = Head(queue[q])
  BY <1>2 DEF Queued
<1>4. \A g \in Gens, s \in Surfaces : g # q /\ Queued(g, s) => Queued(g, s)'
  BY <1>1 DEF Queued
<1> QED
  BY <1>1, <1>3, <1>4

(* A step loses no surface if what was in a hand stays in one or goes back. *)
LEMMA NotLost ==
    ASSUME NoSurfaceLost, ~disposing' => ~disposing,
           \A s \in Surfaces : surf'[s] = "PROCESSING" => surf[s] = "PROCESSING" \/ Held(s)',
           ~disposing' => \A s \in Surfaces : Held(s) /\ surf'[s] = "PROCESSING" => Held(s)'
    PROVE  NoSurfaceLost'
BY DEF NoSurfaceLost, Held

(* A callback takes what the hardware filled; a signal takes nothing.      *)
LEMMA CallbackLosesNone ==
    ASSUME TypeInv, NoSurfaceLost, NEW n \in NativeThreads,
           \/ \E s \in Surfaces : OnSurfaceCallback(n, s)
           \/ \E k \in EnabledSignals : OnSignalCallback(n, k)
    PROVE  NoSurfaceLost'
<1>1. /\ \A m \in NativeThreads :
            native[m].sig \in Surfaces => native'[m].sig = native[m].sig
      /\ UNCHANGED <<queue, loop, disposing>>
  BY DEF OnSurfaceCallback, OnSignalCallback, NativeGoto, chan, sigq, TypeInv, TypeOK,
         NativeShape
<1>2. \A s \in Surfaces : Held(s) => Held(s)'
  BY <1>1 DEF Held, NativeHolds, LoopHolds, Queued
<1>3. CASE \E s \in Surfaces : OnSurfaceCallback(n, s)
  <2>1. PICK s \in Surfaces : OnSurfaceCallback(n, s)
    BY <1>3
  <2>2. ~disposing => native'[n].sig = s
    BY <2>1 DEF OnSurfaceCallback, NativeGoto, TypeInv, TypeOK
  <2>3. \A r \in Surfaces : r # s => surf'[r] = surf[r]
    BY <2>1 DEF OnSurfaceCallback, TypeInv, TypeOK
  <2> QED
    BY <1>1, <1>2, <2>2, <2>3 DEF NoSurfaceLost, Held, NativeHolds
<1>4. CASE \E k \in EnabledSignals : OnSignalCallback(n, k)
  <2>1. UNCHANGED surf
    BY <1>4 DEF OnSignalCallback
  <2> QED
    BY <1>1, <1>2, <2>1, NotLost
<1> QED
  BY <1>3, <1>4

(* A native thread passes its surface to a queue or gives it back.         *)
LEMMA NativeLosesNone ==
    ASSUME TypeInv, NoSurfaceLost, NEW n \in NativeThreads, Native(n)
    PROVE  NoSurfaceLost'
<1>0. UNCHANGED <<disposing, loop>>
  BY DEF Native, ClearActive, EnqueueSignal, EnqueueSurfaceTest, EnqueueSurfaceWrite,
         DropSurface, FreeDropped, chan
<1>1. CASE ClearActive(n) \/ EnqueueSurfaceTest(n)
  <2>1. \A m \in NativeThreads : native'[m].sig = native[m].sig
    BY <1>1, NativeSig DEF ClearActive, EnqueueSurfaceTest
  <2>2. UNCHANGED <<surf, queue>>
    BY <1>1 DEF ClearActive, EnqueueSurfaceTest, hal, sigq
  <2> QED
    BY <1>0, <2>1, <2>2, NotLost DEF Held, NativeHolds, LoopHolds, Queued
<1>2. CASE EnqueueSignal(n) \/ EnqueueSurfaceWrite(n)
  <2>1. UNCHANGED surf
    BY <1>2 DEF EnqueueSignal, EnqueueSurfaceWrite, hal
  <2>2. CASE CanWrite
    <3>1. cur \in Gens /\ native[n].sig \in Items
      BY <1>2, <2>2 DEF EnqueueSignal, EnqueueSurfaceWrite, CanWrite, TypeInv, TypeOK,
                        NativeShape
    <3>2. /\ queue' = [queue EXCEPT ![cur] = Append(@, native[n].sig)]
          /\ NativeGoto(n, "idle", NoSignal)
      BY <1>2, <2>2 DEF EnqueueSignal, EnqueueSurfaceWrite
    <3>3. \A m \in NativeThreads : m # n => native'[m].sig = native[m].sig
      BY <3>2, NativeSig
    <3>4. PICK q \in Gens, x \in Items : q = cur /\ x = native[n].sig
      BY <3>1
    <3>5. Queued(q, x)' /\ \A g \in Gens, s \in Surfaces : Queued(g, s) => Queued(g, s)'
      BY <3>2, <3>4, AppendQueued
    <3>6. \A s \in Surfaces : Held(s) => Held(s)'
      BY <1>0, <3>3, <3>4, <3>5 DEF Held, NativeHolds, LoopHolds
    <3> QED
      BY <1>0, <2>1, <3>6, NotLost
  <2>3. CASE ~CanWrite
    <3>1. UNCHANGED queue
      BY <1>2, <2>3 DEF EnqueueSignal, EnqueueSurfaceWrite
    <3>2. \A m \in NativeThreads :
             native[m].sig \in Surfaces => native'[m].sig = native[m].sig
      BY <1>2, <2>3, NativeSig DEF EnqueueSignal, EnqueueSurfaceWrite, TypeInv, NativeShape
    <3> QED
      BY <1>0, <2>1, <3>1, <3>2, NotLost DEF Held, NativeHolds, LoopHolds, Queued
  <2> QED
    BY <2>2, <2>3
<1>3. CASE DropSurface(n)
  <2>1. UNCHANGED <<surf, queue>>
    BY <1>3 DEF DropSurface, hal, sigq
  <2>2. ~disposing => \A m \in NativeThreads : native'[m].sig = native[m].sig
    BY <1>3, NativeSig DEF DropSurface, TypeInv, CallShape
  <2> QED
    BY <1>0, <2>1, <2>2, NotLost DEF Held, NativeHolds, LoopHolds, Queued
<1>4. CASE FreeDropped(n)
  <2>1. UNCHANGED queue /\ \A m \in NativeThreads : m # n => native'[m].sig = native[m].sig
    BY <1>4, NativeSig DEF FreeDropped, sigq
  <2>2. \A s \in Surfaces : IF s = native[n].sig THEN surf'[s] = "FREE" ELSE surf'[s] = surf[s]
    BY <1>4 DEF FreeDropped, TypeInv, TypeOK
  <2> QED
    BY <1>0, <2>1, <2>2, NotLost DEF Held, NativeHolds, LoopHolds, Queued
<1> QED
  BY <1>1, <1>2, <1>3, <1>4 DEF Native

(* A loop reads the head of its queue and gives it back.                   *)
LEMMA LoopLosesNone ==
    ASSUME TypeInv, NoSurfaceLost, NEW g \in Gens, Loop(g) \/ HandlerReturn(g)
    PROVE  NoSurfaceLost'
<1> DEFINE Keeps == \A h \in Gens : loop[h].sig \in Surfaces => loop'[h].sig = loop[h].sig
<1>0. UNCHANGED <<disposing, native>>
  BY DEF Loop, LoopStart, LoopWake, LoopExit, LoopRead, CopySurface, ReleaseTest,
         ReleaseFree, HandlerReturn, chan
<1>1. ASSUME Keeps, UNCHANGED <<surf, queue>> PROVE NoSurfaceLost'
  BY <1>0, <1>1, NotLost DEF Held, NativeHolds, LoopHolds, Queued
<1>2. CASE LoopStart(g) \/ LoopWake(g) \/ LoopExit(g) \/ HandlerReturn(g)
  <2>1. Keeps
    <3>1. CASE LoopStart(g)
      BY <3>1, LoopSig DEF LoopStart, TypeInv, LoopShape
    <3>2. CASE LoopWake(g) \/ LoopExit(g)
      <4>1. loop[g].sig \notin Surfaces
        BY <3>2 DEF LoopWake, LoopExit, TypeInv, LoopShape
      <4>2. CASE LoopWake(g)
        BY <4>1, <4>2, LoopSig DEF LoopWake, LoopGoto
      <4>3. CASE LoopExit(g)
        BY <4>1, <4>3, LoopSig DEF LoopExit, LoopGoto
      <4> QED
        BY <3>2, <4>2, <4>3
    <3>3. CASE HandlerReturn(g)
      <4>1. loop[g].sig \notin Surfaces
        BY <3>3 DEF HandlerReturn, TypeInv, LoopShape
      <4> QED
        BY <3>3, <4>1, LoopSig DEF HandlerReturn, LoopGoto
    <3> QED
      BY <1>2, <3>1, <3>2, <3>3
  <2> QED
    BY <1>1, <1>2, <2>1 DEF LoopStart, LoopWake, LoopExit, HandlerReturn, hal, sigq
<1>3. CASE CopySurface(g)
  <2>1. Keeps
    BY <1>3, LoopSig DEF CopySurface, LoopGoto
  <2> QED
    BY <1>1, <1>3, <2>1 DEF CopySurface, hal, sigq
<1>4. CASE LoopRead(g)
  <2>1. UNCHANGED surf /\ loop[g].pc = "reading" /\ loop[g].q \in Gens
        /\ loop[g].sig \notin Surfaces
    BY <1>4 DEF LoopRead, hal, TypeInv, LoopShape, Reads
  <2>2. CASE queue[loop[g].q] = << >>
    BY <1>1, <1>4, <2>1, <2>2, LoopSig DEF LoopRead, LoopGoto
  <2>3. CASE queue[loop[g].q] # << >>
    <3>a. PICK x, pc : x = Head(queue[loop[g].q]) /\ LoopGoto(g, pc, x)
      BY <1>4, <2>3 DEF LoopRead
    <3>1. \A h \in Gens : IF h = g THEN loop'[h].sig = x ELSE loop'[h].sig = loop[h].sig
      BY <3>a DEF LoopGoto, TypeInv, TypeOK
    <3>2. \A h \in Gens, s \in Surfaces :
             Queued(h, s) => Queued(h, s)' \/ s = Head(queue[loop[g].q])
      BY <1>4, <2>1, <2>3, TailLeaves DEF LoopRead
    <3> QED
      BY <1>0, <2>1, <3>a, <3>1, <3>2, NotLost DEF Held, NativeHolds, LoopHolds
  <2> QED
    BY <2>2, <2>3
<1>5. CASE ReleaseTest(g)
  <2>1. UNCHANGED <<surf, queue>>
    BY <1>5 DEF ReleaseTest, hal, sigq
  <2>2. ~disposing => Keeps
    BY <1>5, LoopSig DEF ReleaseTest, LoopGoto, TypeInv, CallShape
  <2> QED
    BY <1>0, <1>1, <2>1, <2>2 DEF NoSurfaceLost
<1>6. CASE ReleaseFree(g)
  <2>1. UNCHANGED queue /\ \A h \in Gens : h # g => loop'[h].sig = loop[h].sig
    BY <1>6, LoopSig DEF ReleaseFree, AfterSurface, LoopGoto, sigq
  <2>2. \A s \in Surfaces : IF s = loop[g].sig THEN surf'[s] = "FREE" ELSE surf'[s] = surf[s]
    BY <1>6 DEF ReleaseFree, TypeInv, TypeOK
  <2> QED
    BY <1>0, <2>1, <2>2, NotLost DEF Held, NativeHolds, LoopHolds, Queued
<1> QED
  BY <1>2, <1>3, <1>4, <1>5, <1>6 DEF Loop

(* A control call gives back what it drains, unless it is a disposal.      *)
LEMMA CallLosesNone ==
    ASSUME TypeInv, Unborn, NoSurfaceLost, NEW c \in 0..MaxGen,
           StartAcquisition \/ StopAcquisition(c) \/ Dispose \/ Call
    PROVE  NoSurfaceLost'
<1>1. CASE StartAcquisition
  <2>1. UNCHANGED <<surf, disposing, native, queue>>
    BY <1>1 DEF StartAcquisition, hal, chan
  <2>2. \A h \in Gens : loop[h].sig \in Surfaces => loop'[h].sig = loop[h].sig
    <3>1. gen \in Nat /\ (cur = 0 => gen + 1 \in Gens)
      BY <1>1, GrabChannelAssumption DEF StartAcquisition, TypeInv, TypeOK, Gens
    <3>2. cur = 0 => loop[gen + 1].sig \notin Surfaces
      BY <3>1 DEF Unborn, TypeInv, LoopShape
    <3> QED
      BY <1>1, <3>1, <3>2, LoopSig DEF StartAcquisition
  <2> QED
    BY <2>1, <2>2, NotLost DEF Held, NativeHolds, LoopHolds, Queued
<1>2. CASE DrainOne
  <2>1. cur \in Gens /\ UNCHANGED <<disposing, native, loop>>
        /\ queue[cur] # << >> /\ queue' = [queue EXCEPT ![cur] = Tail(@)]
    BY <1>2 DEF DrainOne, TypeInv, TypeOK, CallShape, chan
  <2>2. \A h \in Gens, s \in Surfaces :
           Queued(h, s) => Queued(h, s)' \/ s = Head(queue[cur])
    BY <2>1, TailLeaves
  <2>3. \A s \in Surfaces : surf'[s] = surf[s] \/ surf'[s] = "FREE"
    BY <1>2 DEF DrainOne, TypeInv, TypeOK
  <2>4. ~disposing => \A s \in Surfaces : s = Head(queue[cur]) => surf'[s] = "FREE"
    BY <1>2 DEF DrainOne, TypeInv, TypeOK, CallShape
  <2> QED
    BY <2>1, <2>2, <2>3, <2>4, NotLost DEF Held, NativeHolds, LoopHolds
<1>3. CASE \/ StopAcquisition(c) \/ Dispose \/ Activate \/ ActivateFails \/ SetActive
           \/ DisposeMark \/ CloseQueue \/ JoinDone \/ JoinTimeout \/ DrainEmpty
           \/ NullOut \/ Delete
  <2>1. UNCHANGED <<surf, queue, loop, native>> /\ (~disposing' => ~disposing)
    BY <1>3 DEF StopAcquisition, Dispose, Activate, ActivateFails, SetActive, DisposeMark,
                CloseQueue, JoinDone, JoinTimeout, DrainEmpty, NullOut, Delete, hal, sigq,
                chan
  <2> QED
    BY <2>1, NotLost DEF Held, NativeHolds, LoopHolds, Queued
<1> QED
  BY <1>1, <1>2, <1>3 DEF Call

(* Only the first queue and loop exist at first.                           *)
LEMMA UnbornStart == Init => Unborn
BY DEF Init, Unborn, Gens

(* Queues and loops are created in order, and none is used before.         *)
LEMMA UnbornStep == TypeInv /\ Unborn /\ [Next]_vars => Unborn'
<1> SUFFICES ASSUME TypeInv, Unborn, Next PROVE Unborn'
  BY DEF vars, Unborn
<1>0. gen \in Nat /\ cur \in {0, gen} /\ gen \in Gens
  BY DEF TypeInv, TypeOK, Gens
<1>a. ASSUME UNCHANGED <<loop, queue, closed>>, gen' \in {gen, gen + 1} PROVE Unborn'
  BY <1>0, <1>a DEF Unborn, Gens
<1>1. ASSUME NEW n \in NativeThreads,
             \/ Native(n)
             \/ \E s \in Surfaces : OnSurfaceCallback(n, s)
             \/ \E k \in EnabledSignals : OnSignalCallback(n, k)
      PROVE  Unborn'
  <2>1. UNCHANGED <<loop, gen, closed>>
        /\ \/ UNCHANGED queue
           \/ cur # 0 /\ queue' = [queue EXCEPT ![cur] = Append(@, native[n].sig)]
    BY <1>1 DEF Native, ClearActive, EnqueueSignal, EnqueueSurfaceTest, EnqueueSurfaceWrite,
         DropSurface, FreeDropped, OnSurfaceCallback, OnSignalCallback, CanWrite, sigq
  <2>2. \A g \in Gens : g # cur => queue'[g] = queue[g]
    BY <2>1 DEF TypeInv, TypeOK
  <2> QED
    BY <1>0, <2>1, <2>2 DEF Unborn, Gens
<1>2. ASSUME NEW g \in Gens, Loop(g) \/ HandlerReturn(g) PROVE Unborn'
  <2>1. loop[g].pc # "none" /\ UNCHANGED <<gen, closed>>
        /\ \A h \in Gens : h # g => loop'[h] = loop[h]
    BY <1>2 DEF Loop, LoopStart, LoopWake, LoopExit, LoopRead, CopySurface, ReleaseTest,
                ReleaseFree, AfterSurface, HandlerReturn, LoopGoto, sigq, TypeInv, TypeOK
  <2>2. \A h \in Gens : queue[h] = << >> => queue'[h] = queue[h]
    BY <1>2 DEF Loop, LoopStart, LoopWake, LoopExit, LoopRead, CopySurface, ReleaseTest,
                ReleaseFree, HandlerReturn, sigq, TypeInv, TypeOK
  <2> QED
    BY <2>1, <2>2 DEF Unborn
<1>3. ASSUME NEW c \in 0..MaxGen, StartAcquisition \/ StopAcquisition(c) \/ Dispose \/ Call
      PROVE  Unborn'
  <2>1. CASE StartAcquisition
    <3>1. /\ gen' \in {gen, gen + 1} /\ UNCHANGED <<queue, closed>>
          /\ \A g \in Gens : g > gen' => loop'[g] = loop[g]
      BY <1>0, <2>1 DEF StartAcquisition, TypeInv, TypeOK
    <3> QED
      BY <1>0, <3>1 DEF Unborn, Gens
  <2>2. CASE DrainOne \/ CloseQueue
    <3>1. /\ UNCHANGED <<gen, loop>>
          /\ \A g \in Gens : g # cur => queue'[g] = queue[g] /\ closed'[g] = closed[g]
      BY <2>2 DEF DrainOne, CloseQueue, TypeInv, TypeOK
    <3> QED
      BY <1>0, <3>1 DEF Unborn, Gens
  <2>3. CASE \/ StopAcquisition(c) \/ Dispose \/ Activate \/ ActivateFails \/ SetActive
             \/ DisposeMark \/ JoinDone \/ JoinTimeout \/ DrainEmpty \/ NullOut \/ Delete
    BY <1>a, <2>3 DEF StopAcquisition, Dispose, Activate, ActivateFails, SetActive,
         DisposeMark, JoinDone, JoinTimeout, DrainEmpty, NullOut, Delete, sigq
  <2> QED
    BY <1>3, <2>1, <2>2, <2>3 DEF Call
<1>4. UNCHANGED vars => Unborn'
  BY DEF vars, Unborn
<1>5. 0 \in 0..MaxGen
  BY GrabChannelAssumption
<1> QED
  BY <1>1, <1>2, <1>3, <1>4, <1>5 DEF Next, StartRefused, StopRefused, DisposeAgain

(* The first loop is scheduled.                                            *)
LEMMA ServingStart == Init => Serving
BY GrabChannelAssumption DEF Init, Serving, Serves, Shutting, Gens

(* A stop closes the queue before its loop ends; a start makes a new pair. *)
LEMMA ServingStep == TypeInv /\ Unborn /\ Serving /\ [Next]_vars => Serving'
<1> SUFFICES ASSUME TypeInv, Unborn, Serving, Next PROVE Serving'
  BY DEF vars, Serving, Serves
<1>0. gen \in Nat /\ cur \in {0, gen} /\ gen \in Gens
  BY DEF TypeInv, TypeOK, Gens
<1>1. ASSUME NEW n \in NativeThreads,
             \/ Native(n)
             \/ \E s \in Surfaces : OnSurfaceCallback(n, s)
             \/ \E k \in EnabledSignals : OnSignalCallback(n, k)
      PROVE  Serving'
  <2>1. UNCHANGED <<loop, cur, closed, api>> /\ (isActive' => isActive)
    BY <1>1 DEF Native, ClearActive, EnqueueSignal, EnqueueSurfaceTest, EnqueueSurfaceWrite,
         DropSurface, FreeDropped, OnSurfaceCallback, OnSignalCallback, sigq, call
  <2> QED
    BY <2>1 DEF Serving, Serves
<1>2. ASSUME NEW g \in Gens, Loop(g) \/ HandlerReturn(g) PROVE Serving'
  <2>1. UNCHANGED <<isActive, cur, closed, api>>
    BY <1>2 DEF Loop, LoopStart, LoopWake, LoopExit, LoopRead, CopySurface, ReleaseTest,
                ReleaseFree, HandlerReturn, sigq, call
  <2>2. \A h \in Gens : h # g => loop'[h] = loop[h]
    BY <1>2 DEF Loop, LoopStart, LoopWake, LoopExit, LoopRead, CopySurface, ReleaseTest,
                ReleaseFree, AfterSurface, HandlerReturn, LoopGoto, TypeInv, TypeOK
  <2>3. cur = g /\ Serves(g) /\ ~closed[g] => Serves(g)'
    <3>1. CASE LoopStart(g)
      BY <3>1 DEF LoopStart, Serves, Gens, TypeInv, TypeOK
    <3>2. CASE LoopExit(g)
      BY <3>2 DEF LoopExit, Serves
    <3>3. CASE \/ LoopWake(g) \/ LoopRead(g) \/ CopySurface(g) \/ ReleaseTest(g)
               \/ ReleaseFree(g) \/ HandlerReturn(g)
      BY <3>3 DEF LoopWake, LoopRead, CopySurface, ReleaseTest, ReleaseFree, HandlerReturn,
           AfterSurface, LoopGoto, Serves, TypeInv, TypeOK
    <3> QED
      BY <1>2, <3>1, <3>2, <3>3 DEF Loop
  <2> QED
    BY <1>0, <2>1, <2>2, <2>3 DEF Serving, Serves
<1>3. ASSUME NEW c \in 0..MaxGen, StartAcquisition \/ StopAcquisition(c) \/ Dispose \/ Call
      PROVE  Serving'
  <2>1. CASE StartAcquisition
    <3>1. CASE cur = 0
      <4>1. gen + 1 \in Gens /\ gen + 1 > gen
        BY <1>0, <2>1, <3>1, GrabChannelAssumption DEF StartAcquisition, Gens
      <4>2. cur' = gen + 1 /\ loop'[gen + 1].pc = "scheduled" /\ UNCHANGED closed
        BY <2>1, <3>1, <4>1 DEF StartAcquisition, TypeInv, TypeOK
      <4> QED
        BY <1>0, <2>1, <4>1, <4>2
           DEF StartAcquisition, Goto, Unborn, Serving, Serves, Shutting
    <3>2. CASE cur # 0
      BY <2>1, <3>2 DEF StartAcquisition, Goto, Serving, Serves, Shutting
    <3> QED
      BY <3>1, <3>2
  <2>2. CASE CloseQueue
    BY <1>0, <2>2 DEF CloseQueue, Goto, Serving, Serves, Shutting, TypeInv, TypeOK
  <2>3. CASE \/ StopAcquisition(c) \/ Dispose \/ Activate \/ ActivateFails \/ SetActive
             \/ DisposeMark \/ JoinDone \/ JoinTimeout \/ DrainOne \/ DrainEmpty
             \/ NullOut \/ Delete
    BY <1>0, <2>3 DEF StopAcquisition, Dispose, Activate, ActivateFails, SetActive,
         DisposeMark, JoinDone, JoinTimeout, DrainOne, DrainEmpty, NullOut, Delete, Goto,
         Return, Serving, Serves, Shutting, sigq, call, hal, chan
  <2> QED
    BY <1>3, <2>1, <2>2, <2>3 DEF Call
<1>4. UNCHANGED vars => Serving'
  BY DEF vars, Serving, Serves
<1>5. 0 \in 0..MaxGen
  BY GrabChannelAssumption
<1> QED
  BY <1>1, <1>2, <1>3, <1>4, <1>5 DEF Next, StartRefused, StopRefused, DisposeAgain

(* It holds in every reachable state.                                      *)
LEMMA ServiceInvHolds == Spec => []ServiceInv
<1>1. Init => ServiceInv
  BY UnbornStart, ServingStart DEF Init, ServiceInv, NoSurfaceLost
<1>2. 0 \in 0..MaxGen
  BY GrabChannelAssumption
<1>3. TypeInv /\ ServiceInv /\ [Next]_vars => NoSurfaceLost'
  <2>1. NoSurfaceLost /\ UNCHANGED vars => NoSurfaceLost'
    BY DEF vars, NoSurfaceLost, NativeHolds, LoopHolds, Queued
  <2> QED
    BY <1>2, <2>1, CallbackLosesNone, NativeLosesNone, LoopLosesNone, CallLosesNone
       DEF ServiceInv, Next, StartRefused, StopRefused, DisposeAgain
<1>4. TypeInv /\ ServiceInv /\ [Next]_vars => ServiceInv'
  BY <1>3, UnbornStep, ServingStep DEF ServiceInv
<1> QED
  BY <1>1, <1>4, TypeInvariance, PTL DEF Spec

(* Until disposal begins, a surface that the driver handed out is in       *)
(* somebody's hand: whatever fails to be enqueued, is drained by a stop or *)
(* is left in a queue whose loop outlived its join, comes back or is held  *)
(* (GrabChannel.cs:292-307, 369-391, 848-875).                             *)
THEOREM NoneLost == Spec => []NoSurfaceLost
<1>1. ServiceInv => NoSurfaceLost
  BY DEF ServiceInv
<1> QED
  BY <1>1, ServiceInvHolds, PTL

(* An active channel has an open queue and a loop that serves it, whatever *)
(* loops of earlier sessions a stop did not wait for (StartAcquisition and *)
(* ShutdownProcessingThread).                                              *)
THEOREM ActiveServed == Spec => []ActiveIsServed
<1>1. ServiceInv => ActiveIsServed
  BY DEF ServiceInv, Serving, Serves, Shutting, ActiveIsServed
<1> QED
  BY <1>1, ServiceInvHolds, PTL

(***************************************************************************)
(* Why a frame is turned away.                                             *)
(***************************************************************************)

(* The positions of a queue that hold surfaces, or signals.                *)
SurfacesIn(q) == {i \in DOMAIN q : q[i] \in Surfaces}
SignalsIn(q) == {i \in DOMAIN q : q[i] \in Signals}

(* They are all it has.                                                    *)
LEMMA QueueCounted ==
    ASSUME NEW q \in Seq(Items)
    PROVE  /\ IsFiniteSet(SurfacesIn(q)) /\ IsFiniteSet(SignalsIn(q))
           /\ Cardinality(SignalsIn(q)) \in Nat
           /\ Len(q) <= Cardinality(SurfacesIn(q)) + Cardinality(SignalsIn(q))
<1>1. /\ Len(q) \in Nat /\ DOMAIN q = 1..Len(q)
      /\ \A i \in DOMAIN q : q[i] \in Surfaces \cup Signals
  BY DEF Items
<1>2. IsFiniteSet(1..Len(q)) /\ Cardinality(1..Len(q)) = Len(q)
  <2>1. 1 \in Int /\ Len(q) \in Int
    BY <1>1
  <2>2. IsFiniteSet(1..Len(q))
        /\ Cardinality(1..Len(q)) = IF 1 > Len(q) THEN 0 ELSE Len(q) - 1 + 1
    BY <2>1, FS_Interval
  <2> QED
    BY <1>1, <2>2
<1>3. SurfacesIn(q) \cup SignalsIn(q) = 1..Len(q)
  BY <1>1 DEF SurfacesIn, SignalsIn
<1>4. IsFiniteSet(SurfacesIn(q)) /\ IsFiniteSet(SignalsIn(q))
  BY <1>2, <1>3, FS_Subset
<1>5. IsFiniteSet(SurfacesIn(q) \cap SignalsIn(q))
  BY <1>4, FS_Subset
<1>6. Cardinality(SurfacesIn(q) \cup SignalsIn(q)) = Cardinality(SurfacesIn(q))
         + Cardinality(SignalsIn(q)) - Cardinality(SurfacesIn(q) \cap SignalsIn(q))
  BY <1>4, FS_Union
<1>7. /\ Cardinality(SurfacesIn(q)) \in Nat /\ Cardinality(SignalsIn(q)) \in Nat
      /\ Cardinality(SurfacesIn(q) \cap SignalsIn(q)) \in Nat
  BY <1>4, <1>5, FS_CardinalityType
<1>8. Cardinality(SurfacesIn(q) \cup SignalsIn(q)) = Len(q)
  BY <1>2, <1>3
<1>9. Len(q) <= Cardinality(SurfacesIn(q)) + Cardinality(SignalsIn(q))
  BY <1>6, <1>7, <1>8
<1> QED
  BY <1>4, <1>7, <1>9

(* A surface in a native hand leaves a place for it in every queue.        *)
LEMMA PlaceForSurface ==
    ASSUME TypeInv, OneHolder, NEW n \in NativeThreads, NEW g \in Gens,
           native[n].sig \in Surfaces
    PROVE  Cardinality(SurfacesIn(queue[g])) < Cardinality(Surfaces)
<1> DEFINE x == native[n].sig
           I == SurfacesIn(queue[g])
           f == [i \in I |-> queue[g][i]]
<1>1. \A i \in I : queue[g][i] \in Surfaces \ {x}
  BY DEF SurfacesIn, OneHolder, NativeHolds, Queued
<1>2. \A i, j \in I : queue[g][i] = queue[g][j] => i = j
  BY DEF SurfacesIn, OneHolder
<1>3. f \in Injection(I, Surfaces \ {x})
  BY <1>1, <1>2 DEF Injection, IsInjective
<1>4. /\ IsFiniteSet(Surfaces) /\ IsFiniteSet(Surfaces \ {x})
      /\ Cardinality(Surfaces \ {x}) = Cardinality(Surfaces) - 1
      /\ Cardinality(Surfaces) \in Nat
  BY GrabChannelAssumption, FS_RemoveElement, FS_CardinalityType
<1>5. Cardinality(I) <= Cardinality(Surfaces \ {x}) /\ IsFiniteSet(I)
  BY <1>3, <1>4, FS_Injection
<1>6. Cardinality(I) \in Nat
  BY <1>5, FS_CardinalityType
<1> QED
  BY <1>4, <1>5, <1>6

(* So a queue that has no room is full of signals.                         *)
LEMMA DropMeansFull ==
    ASSUME TypeInv, OneHolder, NEW n \in NativeThreads, EnqueueSurfaceWrite(n),
           native'[n].pc = "drop", ~closed[cur]
    PROVE  Cardinality(SignalsIn(queue[cur])) > Room
<1>1. ~CanWrite /\ cur # 0
  BY DEF EnqueueSurfaceWrite, NativeGoto, TypeInv, TypeOK
<1>2. cur \in Gens /\ native[n].sig \in Surfaces /\ queue[cur] \in Seq(Items)
  BY <1>1 DEF EnqueueSurfaceWrite, TypeInv, TypeOK, NativeShape
<1>3. Len(queue[cur]) \in Nat /\ Len(queue[cur]) >= Cardinality(Surfaces) + Room
  BY <1>1, <1>2, GrabChannelAssumption, FS_CardinalityType DEF CanWrite, QueueCapacity
<1>4. /\ Cardinality(SurfacesIn(queue[cur])) < Cardinality(Surfaces)
      /\ Cardinality(SurfacesIn(queue[cur])) \in Nat
      /\ Cardinality(SignalsIn(queue[cur])) \in Nat
      /\ Cardinality(Surfaces) \in Nat
      /\ Len(queue[cur]) <=
            Cardinality(SurfacesIn(queue[cur])) + Cardinality(SignalsIn(queue[cur]))
  BY <1>2, PlaceForSurface, QueueCounted, FS_CardinalityType, GrabChannelAssumption
<1> QED
  BY <1>3, <1>4, GrabChannelAssumption

(* An open queue turns a frame away only when more than Room signals wait  *)
(* in it: surfaces alone, however many the cluster has, never fill it      *)
(* (GrabChannel.cs:317).                                                   *)
THEOREM DropsForSignals == Spec => FrameDroppedOnlyForSignals
<1> DEFINE A == \A n \in NativeThreads :
              native[n].pc = "write" /\ native'[n].pc = "drop" /\ ~closed[cur] =>
                 Cardinality({i \in DOMAIN queue[cur] : queue[cur][i] \in Signals}) > Room
<1>1. TypeInv /\ SurfaceOwnership /\ [Next]_vars => A
  <2> SUFFICES ASSUME TypeInv, SurfaceOwnership, [Next]_vars, NEW n \in NativeThreads,
                      native[n].pc = "write", native'[n].pc = "drop", ~closed[cur]
               PROVE  Cardinality(SignalsIn(queue[cur])) > Room
    BY DEF SignalsIn
  <2>1. PICK m \in NativeThreads : 
           \/ Native(m)
           \/ \E s \in Surfaces : OnSurfaceCallback(m, s)
           \/ \E k \in EnabledSignals : OnSignalCallback(m, k)
    BY DEF Next, vars, Loop, LoopStart, LoopWake, LoopExit, LoopRead, CopySurface, ReleaseTest,
           ReleaseFree, HandlerReturn, StartRefused, StopRefused, DisposeAgain,
           StartAcquisition, StopAcquisition, Dispose, Call, Activate, ActivateFails,
           SetActive, DisposeMark, CloseQueue, JoinDone, JoinTimeout, DrainOne, DrainEmpty,
           NullOut, Delete
  <2>2. EnqueueSurfaceWrite(n)
    BY <2>1 DEF Native, ClearActive, EnqueueSignal, EnqueueSurfaceTest, EnqueueSurfaceWrite,
         DropSurface, FreeDropped, OnSurfaceCallback, OnSignalCallback, NativeGoto, TypeInv,
         TypeOK
  <2> QED
    BY <2>2, DropMeansFull DEF SurfaceOwnership
<1> QED
  BY <1>1, TypeInvariance, OwnershipHolds, PTL DEF Spec, FrameDroppedOnlyForSignals

===============================================================================
