--------------------------- MODULE GrabServiceProofs ---------------------------
EXTENDS GrabService, TLAPS

(***************************************************************************)
(* TypeOK and DriverOpenedOnce, for every number of threads, handles and   *)
(* channels and every deadline. DriverOpenedOnce is not inductive: that    *)
(* the driver is opened once rests on _initialized telling whether it is   *)
(* open (DriverShape), or that the driver refused a disposal's close; that *)
(* this disposal runs to its end under the lock rests on who holds the lock*)
(* where (LockShape), and that the channels are well-formed on what threads*)
(* have in hand (InHand).                                                  *)
(***************************************************************************)

(* The threads' positions, and the channels and handles they have in hand. *)
ThreadTypes ==
    /\ pc \in [Threads -> PCs]
    /\ chan \in [Threads -> 0..MaxChannels] /\ hnd \in [Threads -> Handles \cup {0}]

(* All other variables. *)
DataTypes ==
    /\ driver \in Nat /\ live \subseteq Handles /\ stranded \subseteq Handles
    /\ callback \in [Handles -> 0..MaxChannels] /\ registry \in [Handles -> 0..MaxChannels]
    /\ unclosed \in BOOLEAN
    /\ initialized \in BOOLEAN /\ boardCount \in {0, 1} /\ disposed \in BOOLEAN
    /\ lock \in Threads \cup {0} /\ tries \in [Threads -> 0..Deadline]
    /\ sweep \cup gone \cup rooted \cup owned \subseteq Channels
    /\ created \in 0..MaxChannels /\ handle \in [Channels -> Handles \cup {0}]

(* A thread may have the lock at p: it builds or probes, or it disposes of *)
(* the service.                                                            *)
LockPlace(p) ==
    \/ p \in {"construct", "add", "probe"}
    \/ disposed /\ p \in {"sweep", "dispose", "delete", "unroot"}

(* Who builds, probes or sweeps has the lock, and who has the lock does so *)
(* or disposes of a channel for the sweep; nobody builds or probes once the*)
(* service is disposed of.                                                 *)
LockShape ==
    \A t \in Threads :
        /\ pc[t] \in {"construct", "add", "probe", "sweep"} => lock = t
        /\ lock = t => LockPlace(pc[t])
        /\ disposed => pc[t] \notin {"construct", "add", "probe"}

(* The driver is open exactly when the service is initialized, or was and  *)
(* the driver refused to be closed. A disposed service that still is       *)
(* initialized has its disposal under way.                                 *)
DriverShape ==
    /\ driver = IF initialized \/ unclosed THEN 1 ELSE 0
    /\ unclosed => disposed /\ ~initialized
    /\ disposed /\ initialized => lock # 0

(* Who builds or disposes has a channel in hand. *)
InHand ==
    \A t \in Threads :
        pc[t] \in {"construct", "add", "dispose", "delete", "unroot"} => chan[t] \in Channels

LifeInv == TypeOK /\ LockShape /\ DriverShape /\ InHand

(* Nothing is open, held or in hand at the start. *)
LEMMA Initially == Init => LifeInv
<1> SUFFICES ASSUME Init PROVE LifeInv
  OBVIOUS
<1>1. TypeOK
  <2>1. /\ driver \in Nat /\ live \subseteq Handles /\ callback \in [Handles -> 0..MaxChannels]
        /\ registry \in [Handles -> 0..MaxChannels]
    BY GrabServiceAssumption DEF Init
  <2>2. /\ initialized \in BOOLEAN /\ disposed \in BOOLEAN /\ boardCount \in {0, 1}
        /\ stranded \subseteq Handles /\ unclosed \in BOOLEAN
    BY DEF Init
  <2>3. /\ lock \in Threads \cup {0} /\ pc \in [Threads -> PCs]
        /\ tries \in [Threads -> 0..Deadline]
        /\ chan \in [Threads -> 0..MaxChannels] /\ hnd \in [Threads -> Handles \cup {0}]
    BY GrabServiceAssumption DEF Init, PCs
  <2>4. /\ sweep \cup gone \cup rooted \cup owned \subseteq Channels
        /\ created \in 0..MaxChannels /\ handle \in [Channels -> Handles \cup {0}]
    BY GrabServiceAssumption DEF Init
  <2> QED
    BY <2>1, <2>2, <2>3, <2>4 DEF TypeOK
<1>2. LockShape
  BY GrabServiceAssumption DEF Init, LockShape
<1>3. DriverShape
  BY DEF Init, DriverShape
<1>4. InHand
  BY DEF Init, InHand
<1> QED
  BY <1>1, <1>2, <1>3, <1>4 DEF LifeInv

(* A thread that moves keeps what is said of the others, if it takes and   *)
(* gives back the lock as its position demands.                            *)
LEMMA Moves ==
    ASSUME LifeInv, NEW t \in Threads,
           NEW p \in PCs, NEW c \in 0..MaxChannels, NEW h \in Handles \cup {0},
           Goto(t, p), Hold(t, c, h),
           lock' # lock => lock \in {0, t} /\ lock' \in {0, t},
           lock' = t => LockPlace(p)',
           p \in {"construct", "add", "probe", "sweep"} => lock' = t,
           disposed' => p \notin {"construct", "add", "probe"},
           disposed' # disposed => lock = 0,
           p \in {"construct", "add", "dispose", "delete", "unroot"} => c \in Channels
    PROVE  ThreadTypes' /\ LockShape' /\ InHand'
<1>1. ThreadTypes'
  BY DEF LifeInv, TypeOK, ThreadTypes, Goto, Hold
<1>2. ASSUME NEW u \in Threads, u # t
      PROVE  pc'[u] = pc[u] /\ chan'[u] = chan[u] /\ hnd'[u] = hnd[u]
  BY <1>2 DEF LifeInv, TypeOK, Goto, Hold
<1>3. pc'[t] = p /\ chan'[t] = c /\ hnd'[t] = h
  BY DEF LifeInv, TypeOK, Goto, Hold
<1>4. ASSUME NEW u \in Threads
      PROVE  /\ pc'[u] \in {"construct", "add", "probe", "sweep"} => lock' = u
             /\ lock' = u => LockPlace(pc[u])'
             /\ disposed' => pc'[u] \notin {"construct", "add", "probe"}
  <2>1. CASE u = t
    BY <1>3, <2>1
  <2>2. CASE u # t
    <3>1. /\ pc[u] \in {"construct", "add", "probe", "sweep"} => lock = u
          /\ lock = u => LockPlace(pc[u])
          /\ disposed => pc[u] \notin {"construct", "add", "probe"}
      BY DEF LifeInv, LockShape
    <3>2. u # 0
      BY GrabServiceAssumption
    <3> QED
      BY <1>2, <2>2, <3>1, <3>2 DEF LockPlace
  <2> QED
    BY <2>1, <2>2
<1>5. ASSUME NEW u \in Threads,
             pc'[u] \in {"construct", "add", "dispose", "delete", "unroot"}
      PROVE  chan'[u] \in Channels
  BY <1>2, <1>3, <1>5 DEF LifeInv, InHand
<1> QED
  BY <1>1, <1>4, <1>5 DEF LockShape, InHand

(* The same of a thread that keeps what it has in hand. *)
LEMMA Stays ==
    ASSUME LifeInv, NEW t \in Threads, NEW p \in PCs, Goto(t, p), UNCHANGED locals,
           lock' # lock => lock \in {0, t} /\ lock' \in {0, t},
           lock' = t => LockPlace(p)',
           p \in {"construct", "add", "probe", "sweep"} => lock' = t,
           disposed' => p \notin {"construct", "add", "probe"},
           disposed' # disposed => lock = 0,
           p \in {"construct", "add", "dispose", "delete", "unroot"} => chan[t] \in Channels
    PROVE  ThreadTypes' /\ LockShape' /\ InHand'
<1>1. chan[t] \in 0..MaxChannels /\ hnd[t] \in Handles \cup {0}
  BY DEF LifeInv, TypeOK
<1>2. Hold(t, chan[t], hnd[t])
  BY DEF LifeInv, TypeOK, locals, Hold
<1> QED
  BY <1>1, <1>2, Moves

(* An Initialize that begins touches nothing but its own position. *)
LEMMA InitializeLives ==
    ASSUME LifeInv, NEW t \in Threads, Initialize(t)
    PROVE  LifeInv'
<1>1. ThreadTypes' /\ LockShape' /\ InHand'
  BY Stays DEF Initialize, LifeInv, PCs, service, LockShape, LockPlace
<1>2. DataTypes'
  BY GrabServiceAssumption
     DEF Initialize, LifeInv, TypeOK, DataTypes, hal, service, objects
<1>3. DriverShape'
  BY DEF Initialize, LifeInv, DriverShape, hal, service
<1> QED
  BY <1>1, <1>2, <1>3 DEF LifeInv, TypeOK, ThreadTypes, DataTypes

(* An attempt that finds the work done leaves it alone. *)
LEMMA AttemptNotNeededLives ==
    ASSUME LifeInv, NEW t \in Threads, AttemptNotNeeded(t)
    PROVE  LifeInv'
<1>1. ThreadTypes' /\ LockShape' /\ InHand'
  BY Stays DEF AttemptNotNeeded, LifeInv, PCs, Enter, LockShape, LockPlace
<1>2. DataTypes'
  BY DEF AttemptNotNeeded, LifeInv, TypeOK, DataTypes, hal, service, objects
<1>3. DriverShape'
  BY DEF AttemptNotNeeded, LifeInv, DriverShape, hal, service
<1> QED
  BY <1>1, <1>2, <1>3 DEF LifeInv, TypeOK, ThreadTypes, DataTypes

(* The driver is opened by who found it closed, under the lock. *)
LEMMA AttemptSucceedsLives ==
    ASSUME LifeInv, NEW t \in Threads, AttemptSucceeds(t)
    PROVE  LifeInv'
<1>1. ThreadTypes' /\ LockShape' /\ InHand'
  <2>1. /\ Goto(t, "idle") /\ lock = 0 /\ t # 0
        /\ UNCHANGED <<locals, lock, disposed>>
    BY GrabServiceAssumption DEF AttemptSucceeds, Enter
  <2>2. disposed' = disposed /\ lock' = lock /\ "idle" \in PCs
    BY <2>1 DEF PCs
  <2> QED
    BY <2>1, <2>2, Stays DEF LockPlace
<1>2. DataTypes'
  BY DEF AttemptSucceeds, LifeInv, TypeOK, DataTypes, objects
<1>3. DriverShape'
  BY DEF AttemptSucceeds, LifeInv, DriverShape
<1> QED
  BY <1>1, <1>2, <1>3 DEF LifeInv, TypeOK, ThreadTypes, DataTypes

(* A failed attempt opens nothing. *)
LEMMA AttemptFailsLives ==
    ASSUME LifeInv, NEW t \in Threads, AttemptFails(t)
    PROVE  LifeInv'
<1>1. ThreadTypes' /\ LockShape' /\ InHand'
  BY Stays DEF AttemptFails, LifeInv, PCs, Enter, LockShape, LockPlace
<1>2. DataTypes'
  BY DEF AttemptFails, LifeInv, TypeOK, DataTypes, hal, service, objects
<1>3. DriverShape'
  BY DEF AttemptFails, LifeInv, DriverShape, hal, service
<1> QED
  BY <1>1, <1>2, <1>3 DEF LifeInv, TypeOK, ThreadTypes, DataTypes

(* Nor does one that will be repeated. *)
LEMMA AttemptAgainLives ==
    ASSUME LifeInv, NEW t \in Threads, AttemptAgain(t)
    PROVE  LifeInv'
<1>1. ThreadTypes' /\ LockShape' /\ InHand'
  BY Stays DEF AttemptAgain, LifeInv, PCs, Enter, LockShape, LockPlace
<1>2. DataTypes'
  BY DEF AttemptAgain, LifeInv, TypeOK, DataTypes, hal, service, objects
<1>3. DriverShape'
  BY DEF AttemptAgain, LifeInv, DriverShape, hal, service
<1> QED
  BY <1>1, <1>2, <1>3 DEF LifeInv, TypeOK, ThreadTypes, DataTypes

(* An attempt is counted up to the deadline. *)
LEMMA SleepLives ==
    ASSUME LifeInv, NEW t \in Threads, Sleep(t)
    PROVE  LifeInv'
<1>1. ThreadTypes' /\ LockShape' /\ InHand'
  BY Stays DEF Sleep, LifeInv, PCs, service, LockShape, LockPlace
<1>2. DataTypes'
  BY GrabServiceAssumption
     DEF Sleep, LifeInv, TypeOK, DataTypes, hal, service, objects
<1>3. DriverShape'
  BY DEF Sleep, LifeInv, DriverShape, hal, service
<1> QED
  BY <1>1, <1>2, <1>3 DEF LifeInv, TypeOK, ThreadTypes, DataTypes

(* A channel is created under the lock, in a service that is not disposed  *)
(* of.                                                                     *)
LEMMA CreateChannelLives ==
    ASSUME LifeInv, NEW t \in Threads, NEW h \in Handles, CreateChannel(t, h)
    PROVE  LifeInv'
<1>1. ThreadTypes' /\ LockShape' /\ InHand'
  <2>1. /\ lock = 0 /\ lock' = t /\ ~disposed' /\ disposed' = disposed
        /\ created + 1 \in Channels /\ Hold(t, created + 1, h) /\ Goto(t, "construct")
    BY GrabServiceAssumption
       DEF CreateChannel, LifeInv, TypeOK, Enter, Ready, Channels, service
  <2>2. created + 1 \in 0..MaxChannels /\ h \in Handles \cup {0} /\ "construct" \in PCs
    BY <2>1 DEF Channels, PCs
  <2> QED
    BY <2>1, <2>2, Moves DEF LockPlace
<1>2. DataTypes'
  BY GrabServiceAssumption
     DEF CreateChannel, LifeInv, TypeOK, DataTypes, Channels, service
<1>3. DriverShape'
  BY DEF CreateChannel, LifeInv, DriverShape, Ready, service
<1> QED
  BY <1>1, <1>2, <1>3 DEF LifeInv, TypeOK, ThreadTypes, DataTypes

(* Whether the driver deletes a channel or refuses, what it has left are   *)
(* channels of the same kind.                                              *)
LEMMA DeleteTypes ==
    ASSUME DataTypes, NEW h \in Handles \cup {0}, McDelete(h)
    PROVE  /\ live' \subseteq Handles /\ stranded' \subseteq Handles
           /\ callback' \in [Handles -> 0..MaxChannels]
  BY GrabServiceAssumption DEF DataTypes, McDelete

(* A constructor that fails gives the lock back. *)
LEMMA ConstructFailsLives ==
    ASSUME LifeInv, NEW t \in Threads, ConstructFails(t)
    PROVE  LifeInv'
<1>1. ThreadTypes' /\ LockShape' /\ InHand'
  BY Moves, GrabServiceAssumption
     DEF ConstructFails, LifeInv, LockShape, LockPlace, PCs, service
<1>2. DataTypes'
  <2>1. DataTypes /\ chan[t] \in Channels /\ hnd[t] \in Handles \cup {0}
    BY DEF ConstructFails, LifeInv, TypeOK, InHand, DataTypes
  <2>2. McDelete(hnd[t])
    BY DEF ConstructFails
  <2>3. /\ live' \subseteq Handles /\ stranded' \subseteq Handles
        /\ callback' \in [Handles -> 0..MaxChannels]
    BY <2>1, <2>2, DeleteTypes
  <2> QED
    BY <2>1, <2>3 DEF ConstructFails, DataTypes, service
<1>3. DriverShape'
  BY DEF ConstructFails, LifeInv, DriverShape, LockShape, service
<1> QED
  BY <1>1, <1>2, <1>3 DEF LifeInv, TypeOK, ThreadTypes, DataTypes

(* A constructor that registers its callback keeps the lock. *)
LEMMA RegisterCallbackLives ==
    ASSUME LifeInv, NEW t \in Threads, RegisterCallback(t)
    PROVE  LifeInv'
<1>1. ThreadTypes' /\ LockShape' /\ InHand'
  BY Stays DEF RegisterCallback, LifeInv, LockShape, InHand, PCs, service, LockPlace
<1>2. DataTypes'
  BY DEF RegisterCallback, LifeInv, TypeOK, InHand, DataTypes, service
<1>3. DriverShape'
  BY DEF RegisterCallback, LifeInv, DriverShape, service
<1> QED
  BY <1>1, <1>2, <1>3 DEF LifeInv, TypeOK, ThreadTypes, DataTypes

(* A channel is registered, and the lock given back. *)
LEMMA AddToRegistryLives ==
    ASSUME LifeInv, NEW t \in Threads, AddToRegistry(t)
    PROVE  LifeInv'
<1>1. ThreadTypes' /\ LockShape' /\ InHand'
  BY Moves, GrabServiceAssumption DEF AddToRegistry, LifeInv, LockShape, PCs, LockPlace
<1>2. DataTypes'
  BY DEF AddToRegistry, LifeInv, TypeOK, InHand, DataTypes, hal, objects
<1>3. DriverShape'
  BY DEF AddToRegistry, LifeInv, DriverShape, LockShape, hal
<1> QED
  BY <1>1, <1>2, <1>3 DEF LifeInv, TypeOK, ThreadTypes, DataTypes

(* A probe is created in the same way. *)
LEMMA GetBoardStatusLives ==
    ASSUME LifeInv, NEW t \in Threads, NEW h \in Handles, GetBoardStatus(t, h)
    PROVE  LifeInv'
<1>1. ThreadTypes' /\ LockShape' /\ InHand'
  BY Moves, GrabServiceAssumption
     DEF GetBoardStatus, LifeInv, InHand, PCs, Enter, Ready, hal, service,
         objects, LockPlace
<1>2. DataTypes'
  BY DEF GetBoardStatus, LifeInv, TypeOK, DataTypes, service, objects
<1>3. DriverShape'
  BY DEF GetBoardStatus, LifeInv, DriverShape, Ready, service
<1> QED
  BY <1>1, <1>2, <1>3 DEF LifeInv, TypeOK, ThreadTypes, DataTypes

(* A probe gives the lock back. *)
LEMMA ProbeDoneLives ==
    ASSUME LifeInv, NEW t \in Threads, ProbeDone(t)
    PROVE  LifeInv'
<1>1. ThreadTypes' /\ LockShape' /\ InHand'
  BY Moves, GrabServiceAssumption
     DEF ProbeDone, LifeInv, LockShape, LockPlace, PCs, service
<1>2. DataTypes'
  <2>1. DataTypes /\ hnd[t] \in Handles \cup {0}
    BY DEF LifeInv, TypeOK, DataTypes
  <2>2. McDelete(hnd[t])
    BY DEF ProbeDone
  <2>3. /\ live' \subseteq Handles /\ stranded' \subseteq Handles
        /\ callback' \in [Handles -> 0..MaxChannels]
    BY <2>1, <2>2, DeleteTypes
  <2> QED
    BY <2>1, <2>3 DEF ProbeDone, DataTypes, service, objects
<1>3. DriverShape'
  BY DEF ProbeDone, LifeInv, DriverShape, LockShape, service
<1> QED
  BY <1>1, <1>2, <1>3 DEF LifeInv, TypeOK, ThreadTypes, DataTypes

(* A release takes its channel without the lock. *)
LEMMA ReleaseChannelLives ==
    ASSUME LifeInv, NEW t \in Threads, NEW c \in Channels, ReleaseChannel(t, c)
    PROVE  LifeInv'
<1>1. ThreadTypes' /\ LockShape' /\ InHand'
  BY Moves DEF ReleaseChannel, LifeInv, PCs, Channels, LockShape, LockPlace
<1>2. DataTypes'
  BY GrabServiceAssumption
     DEF ReleaseChannel, LifeInv, TypeOK, DataTypes, hal, objects
<1>3. DriverShape'
  BY DEF ReleaseChannel, LifeInv, DriverShape, hal
<1> QED
  BY <1>1, <1>2, <1>3 DEF LifeInv, TypeOK, ThreadTypes, DataTypes

(* A channel that is gone is left alone, another is taken in hand with its *)
(* handle.                                                                 *)
LEMMA DisposeChannelLives ==
    ASSUME LifeInv, NEW t \in Threads, DisposeChannel(t)
    PROVE  LifeInv'
<1>1. ThreadTypes' /\ LockShape' /\ InHand'
  <2>1. /\ pc[t] = "dispose" /\ chan[t] \in Channels /\ lock' = lock /\ disposed' = disposed
        /\ AfterChannel(t) = "sweep" => lock = t
        /\ AfterChannel(t) \in {"sweep", "idle"} /\ (lock = t => AfterChannel(t) = "sweep")
        /\ lock = t => disposed'
    BY DEF DisposeChannel, LifeInv, LockShape, LockPlace, InHand, service, AfterChannel
  <2>2. CASE chan[t] \in gone
    <3>1. Hold(t, 0, 0) /\ Goto(t, AfterChannel(t))
      BY <2>2 DEF DisposeChannel
    <3>2. 0 \in 0..MaxChannels /\ AfterChannel(t) \in PCs
      BY <2>1, GrabServiceAssumption DEF PCs
    <3> QED
      BY <2>1, <3>1, <3>2, Moves DEF LockPlace
  <2>3. CASE chan[t] \notin gone
    <3>1. Hold(t, chan[t], handle[chan[t]]) /\ Goto(t, "delete")
      BY <2>3 DEF DisposeChannel
    <3>2. /\ chan[t] \in 0..MaxChannels /\ handle[chan[t]] \in Handles \cup {0}
          /\ "delete" \in PCs
      BY <2>1 DEF LifeInv, TypeOK, PCs
    <3> QED
      BY <2>1, <3>1, <3>2, Moves DEF LockPlace
  <2> QED
    BY <2>2, <2>3
<1>2. DataTypes'
  <2>1. chan[t] \in Channels /\ DataTypes
    BY DEF DisposeChannel, LifeInv, TypeOK, InHand, DataTypes
  <2>2. handle' \in [Channels -> Handles \cup {0}] /\ gone' \subseteq Channels
    BY <2>1 DEF DisposeChannel, DataTypes
  <2> QED
    BY <2>1, <2>2 DEF DisposeChannel, DataTypes, hal, service
<1>3. DriverShape'
  BY DEF DisposeChannel, LifeInv, DriverShape, hal, service
<1> QED
  BY <1>1, <1>2, <1>3 DEF LifeInv, TypeOK, ThreadTypes, DataTypes

(* Deleting leaves the lock to whoever has it. *)
LEMMA DeleteChannelLives ==
    ASSUME LifeInv, NEW t \in Threads, DeleteChannel(t)
    PROVE  LifeInv'
<1>1. ThreadTypes' /\ LockShape' /\ InHand'
  <2>1. /\ pc[t] = "delete" /\ Goto(t, "unroot") /\ chan[t] \in Channels
        /\ UNCHANGED <<locals, lock, disposed>>
    BY DEF DeleteChannel, LifeInv, InHand, service
  <2>2. disposed' = disposed /\ "unroot" \in PCs /\ (lock = t => disposed)
    BY <2>1 DEF PCs, LifeInv, LockShape, LockPlace
  <2> QED
    BY <2>1, <2>2, Stays DEF LockPlace
<1>2. DataTypes'
  <2>1. DataTypes /\ hnd[t] \in Handles \cup {0}
    BY DEF LifeInv, TypeOK, DataTypes
  <2>2. McDelete(hnd[t])
    BY DEF DeleteChannel
  <2>3. /\ live' \subseteq Handles /\ stranded' \subseteq Handles
        /\ callback' \in [Handles -> 0..MaxChannels]
    BY <2>1, <2>2, DeleteTypes
  <2> QED
    BY <2>1, <2>3 DEF DeleteChannel, DataTypes, service, objects
<1>3. DriverShape'
  BY DEF DeleteChannel, LifeInv, DriverShape, service
<1> QED
  BY <1>1, <1>2, <1>3 DEF LifeInv, TypeOK, ThreadTypes, DataTypes

(* Who disposed of a channel sweeps on exactly if it has the lock. *)
LEMMA FreeHandlesLives ==
    ASSUME LifeInv, NEW t \in Threads, FreeHandles(t)
    PROVE  LifeInv'
<1>1. ThreadTypes' /\ LockShape' /\ InHand'
  BY Moves, GrabServiceAssumption
     DEF FreeHandles, LifeInv, LockShape, LockPlace, PCs, AfterChannel, service
<1>2. DataTypes'
  BY DEF FreeHandles, LifeInv, TypeOK, DataTypes, hal, service
<1>3. DriverShape'
  BY DEF FreeHandles, LifeInv, DriverShape, hal, service
<1> QED
  BY <1>1, <1>2, <1>3 DEF LifeInv, TypeOK, ThreadTypes, DataTypes

(* Nor does a Dispose that waits for the lock. *)
LEMMA DisposeLives ==
    ASSUME LifeInv, NEW t \in Threads, Dispose(t)
    PROVE  LifeInv'
<1>1. ThreadTypes' /\ LockShape' /\ InHand'
  BY Stays DEF Dispose, LifeInv, PCs, service, LockShape, LockPlace
<1>2. DataTypes'
  BY DEF Dispose, LifeInv, TypeOK, DataTypes, hal, service, objects
<1>3. DriverShape'
  BY DEF Dispose, LifeInv, DriverShape, hal, service
<1> QED
  BY <1>1, <1>2, <1>3 DEF LifeInv, TypeOK, ThreadTypes, DataTypes

(* A second Dispose finds nothing to do. *)
LEMMA DisposeAgainLives ==
    ASSUME LifeInv, NEW t \in Threads, DisposeAgain(t)
    PROVE  LifeInv'
<1>1. ThreadTypes' /\ LockShape' /\ InHand'
  BY Stays DEF DisposeAgain, LifeInv, PCs, Enter, LockShape, LockPlace
<1>2. DataTypes'
  BY DEF DisposeAgain, LifeInv, TypeOK, DataTypes, hal, service, objects
<1>3. DriverShape'
  BY DEF DisposeAgain, LifeInv, DriverShape, hal, service
<1> QED
  BY <1>1, <1>2, <1>3 DEF LifeInv, TypeOK, ThreadTypes, DataTypes

(* The disposal takes the lock when it marks the service disposed. *)
LEMMA DisposeBeginLives ==
    ASSUME LifeInv, NEW t \in Threads, DisposeBegin(t)
    PROVE  LifeInv'
<1>1. ThreadTypes' /\ LockShape' /\ InHand'
  BY Stays DEF DisposeBegin, LifeInv, PCs, Enter, LockShape, LockPlace
<1>2. DataTypes'
  BY DEF DisposeBegin, LifeInv, TypeOK, DataTypes, Channels, hal, objects
<1>3. DriverShape'
  BY GrabServiceAssumption DEF DisposeBegin, LifeInv, DriverShape, hal
<1> QED
  BY <1>1, <1>2, <1>3 DEF LifeInv, TypeOK, ThreadTypes, DataTypes

(* The disposal keeps the lock while it disposes of a channel. *)
LEMMA SweepChannelLives ==
    ASSUME LifeInv, NEW t \in Threads, NEW c \in Channels, SweepChannel(t, c)
    PROVE  LifeInv'
<1>1. ThreadTypes' /\ LockShape' /\ InHand'
  BY Moves DEF SweepChannel, LifeInv, PCs, Channels, service, LockShape, LockPlace
<1>2. DataTypes'
  BY DEF SweepChannel, LifeInv, TypeOK, DataTypes, hal, service, objects
<1>3. DriverShape'
  BY DEF SweepChannel, LifeInv, DriverShape, hal, service
<1> QED
  BY <1>1, <1>2, <1>3 DEF LifeInv, TypeOK, ThreadTypes, DataTypes

(* The driver is closed before the lock is given back. *)
LEMMA CloseDriverLives ==
    ASSUME LifeInv, NEW t \in Threads, CloseDriver(t)
    PROVE  LifeInv'
<1>1. ThreadTypes' /\ LockShape' /\ InHand'
  <2>1. /\ lock = t /\ lock' = 0 /\ t # 0 /\ Goto(t, "idle")
        /\ UNCHANGED <<locals, disposed>>
    BY GrabServiceAssumption DEF CloseDriver, LifeInv, LockShape
  <2>2. disposed' = disposed /\ "idle" \in PCs
    BY <2>1 DEF PCs
  <2> QED
    BY <2>1, <2>2, Stays DEF LockPlace
<1>2. DataTypes'
  <2>1. DataTypes /\ driver = IF initialized \/ unclosed THEN 1 ELSE 0
    BY DEF LifeInv, TypeOK, DataTypes, DriverShape
  <2>2. driver' \in Nat
    <3>1. driver' \in {driver, 0}
      BY <2>1 DEF CloseDriver
    <3> QED
      BY <2>1, <3>1 DEF DataTypes
  <2>3. unclosed' \in BOOLEAN
    BY <2>1 DEF CloseDriver, DataTypes
  <2>4. registry' \in [Handles -> 0..MaxChannels]
    BY GrabServiceAssumption DEF CloseDriver
  <2> QED
    BY <2>1, <2>2, <2>3, <2>4 DEF CloseDriver, DataTypes, objects
<1>3. DriverShape'
  <2>1. disposed' = disposed /\ disposed
    BY DEF CloseDriver, LifeInv, LockShape, LockPlace
  <2> QED
    BY <2>1 DEF CloseDriver, LifeInv, DriverShape
<1> QED
  BY <1>1, <1>2, <1>3 DEF LifeInv, TypeOK, ThreadTypes, DataTypes

(* Every step of every thread, and every stutter, keeps the invariant. *)
LEMMA StepLives == ASSUME LifeInv, [Next]_vars PROVE LifeInv'
<1>1. ASSUME UNCHANGED vars PROVE LifeInv'
  BY <1>1 DEF vars, LifeInv, TypeOK, LockShape, LockPlace, DriverShape, InHand
<1>2. ASSUME NEW t \in Threads, Refused(t) PROVE LifeInv'
  BY <1>1, <1>2 DEF Refused
<1>3. ASSUME NEW t \in Threads, NEW h \in Handles, CreateChannel(t, h) \/ GetBoardStatus(t, h)
      PROVE  LifeInv'
  BY <1>3, CreateChannelLives, GetBoardStatusLives
<1>4. ASSUME NEW t \in Threads, NEW c \in Channels, ReleaseChannel(t, c) PROVE LifeInv'
  BY <1>4, ReleaseChannelLives
<1>5. ASSUME NEW t \in Threads, Initialize(t) \/ Dispose(t) PROVE LifeInv'
  BY <1>5, InitializeLives, DisposeLives
<1>6. ASSUME NEW t \in Threads, WaitsForLock(t) PROVE LifeInv'
  BY <1>6, AttemptNotNeededLives, AttemptSucceedsLives, AttemptFailsLives, AttemptAgainLives,
     DisposeAgainLives, DisposeBeginLives
     DEF WaitsForLock, Attempt
<1>7. ASSUME NEW t \in Threads, Step(t) PROVE LifeInv'
  BY <1>7, SleepLives, ConstructFailsLives, RegisterCallbackLives, AddToRegistryLives,
     ProbeDoneLives, DisposeChannelLives, DeleteChannelLives, FreeHandlesLives,
     SweepChannelLives, CloseDriverLives
     DEF Step
<1> QED
  BY <1>1, <1>2, <1>3, <1>4, <1>5, <1>6, <1>7 DEF Next

(* The invariant holds in every reachable state. *)
LEMMA LifeInvHolds == Spec => []LifeInv
<1>1. Init => LifeInv
  BY Initially
<1>2. LifeInv /\ [Next]_vars => LifeInv'
  BY StepLives
<1> QED
  BY <1>1, <1>2, PTL DEF Spec

(* Every variable keeps its type: handles and channel objects in hand, in  *)
(* the registry and in the driver's hands are real ones, and the attempts  *)
(* of Initialize stay within its deadline.                                 *)
THEOREM TypeCorrect == Spec => []TypeOK
<1>1. LifeInv => TypeOK
  BY DEF LifeInv
<1> QED
  BY LifeInvHolds, <1>1, PTL

(* The driver is open at most once, and closed after disposal unless it    *)
(* refused, whoever initializes, retries, creates, probes, releases and    *)
(* disposes together (Initialize checks again under _lock after each sleep,*)
(* and Dispose keeps _lock until it asked the driver to close).            *)
THEOREM DriverOnce == Spec => []DriverOpenedOnce
<1>1. LifeInv => DriverOpenedOnce
  BY DEF LifeInv, DriverShape, DriverOpenedOnce, Closed
<1> QED
  BY LifeInvHolds, <1>1, PTL
================================================================================
