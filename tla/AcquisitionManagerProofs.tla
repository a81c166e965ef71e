----------------------- MODULE AcquisitionManagerProofs -----------------------
(***************************************************************************)
(* The safety properties of AcquisitionManager, for every number of        *)
(* clients, tasks, channels, events and triggers. The types and what may   *)
(* stop a session hold as they are (AskerInv). The consistency of the      *)
(* manager and its promise hold where one thread at most starts sessions   *)
(* (OneStarter): Locking says who holds the lock across steps, Roles that  *)
(* the starter finds what it left between its steps, Matching that the     *)
(* state, the channel, the subscription and the timer agree, TriggerTaken  *)
(* and FrameKnown whose the trigger and the latest frame are.              *)
(***************************************************************************)
EXTENDS AcquisitionManager, TLAPS

(* The kinds of threads are apart, and 0 is none of them. *)
LEMMA Kinds ==
    /\ 0 \notin Threads /\ Channels \subseteq Nat \ {0}
    /\ Clients \cap Tasks = {} /\ Clients \cap Channels = {} /\ Tasks \cap Channels = {}
    /\ Clients \subseteq Threads /\ Tasks \subseteq Threads
    /\ Channels \subseteq Threads
  BY ManagerAssumption DEF Threads, Channels

(***************************************************************************)
(* The steps, in groups that leave the same variables alone                *)
(***************************************************************************)

(* The three uses of ReleaseLocal. *)
ReleasesLocal(t) ==
    \/ ReleaseLocal(t, "startRelease", "start")
    \/ ReleaseLocal(t, "startFailed", "idle")
    \/ ReleaseLocal(t, "release", IF t = disposer THEN "gone" ELSE "idle")

(* What moves a client and no one else. *)
ClientMoves(t) ==
    \/ StartNoChannel(t) \/ StartTail(t) \/ CallStop(t)
    \/ AwaitDone(t) \/ AwaitTimeout(t)

(* The actions with their parameters, the two ends of the wait in Stop,    *)
(* the ends of the two handlers, and the hardware.                         *)
StartsSession(t) ==
    \E target \in Targets, interval \in Intervals, early \in BOOLEAN :
        StartSession(t, target, interval, early)

Registers(t) == \E sent \in BOOLEAN : TriggerAsync(t, sent)

StopWaited(t) == StopJoined(t) \/ StopTimeout(t)

HandlerTail(c) == FrameTail(c) \/ ErrorTail(c)

HardwareMoves(c) ==
    HardwareEnds(c) \/ \E e \in Errors \cup {"FRAME"} : HardwareSignals(c, e)

(* Every step is one of these. *)
LEMMA Steps ==
    ASSUME [Next]_vars
    PROVE  \/ UNCHANGED vars
           \/ \E t \in Clients :
                 \/ ClientMoves(t) \/ ReleasesLocal(t)
                 \/ (t \in Starters /\ StartCheck(t))
                 \/ StartFails(t) \/ StartsSession(t)
                 \/ ReleaseChannel(t) \/ (t \in Hosts /\ Dispose(t)) \/ DisposeDetach(t)
                 \/ Registers(t) \/ ClearTrigger(t)
           \/ \E t \in Threads :
                 StopNothing(t) \/ StopBegin(t) \/ StopWaited(t) \/ StopTail(t)
           \/ \E c \in Channels :
                 \/ RecordFrame(c) \/ RecordError(c) \/ HandlerTail(c) \/ CheckTarget(c)
                 \/ TakeEvent(c) \/ HardwareMoves(c)
<1>1. ASSUME NEW t \in Clients, Calls(t) \/ Client(t) \/ AwaitTimeout(t), ~Stop(t)
      PROVE  \/ UNCHANGED vars
             \/ ClientMoves(t) \/ ReleasesLocal(t)
             \/ (t \in Starters /\ StartCheck(t)) \/ StartFails(t) \/ StartsSession(t)
             \/ ReleaseChannel(t) \/ (t \in Hosts /\ Dispose(t)) \/ DisposeDetach(t)
             \/ Registers(t) \/ ClearTrigger(t)
  BY <1>1
     DEF Calls, Client, Start, Refused, ClientMoves, ReleasesLocal, StartsSession,
         Registers
<1>2. ASSUME NEW t, Stop(t)
      PROVE  StopNothing(t) \/ StopBegin(t) \/ StopWaited(t) \/ StopTail(t)
  BY <1>2 DEF Stop, StopWaited
<1>3. ASSUME NEW c \in Channels, HandlerStep(c)
      PROVE  RecordFrame(c) \/ RecordError(c) \/ CheckTarget(c) \/ HandlerTail(c)
  BY <1>3 DEF HandlerStep, HandlerTail
<1> QED
  BY <1>1, <1>2, <1>3, Kinds DEF Next, Loop, HardwareMoves

(* What the smaller steps change. *)
LEMMA ClientMovesOnly ==
    ASSUME NEW t, ClientMoves(t)
    PROVE  /\ UNCHANGED <<session, frames, trigger, timing, lock, loc, disposer,
                          hardware, wiring>>
           /\ \E p \in {"idle", "stop", "timedOut"} : Goto(t, p)
           /\ tcs' \in {tcs, [tcs EXCEPT ![t] = 0]}
  BY DEF ClientMoves, StartNoChannel, StartTail, CallStop, AwaitDone, AwaitTimeout,
         SetTcs

LEMMA HardwareMovesOnly ==
    ASSUME NEW c, HardwareMoves(c)
    PROVE  /\ UNCHANGED <<session, frames, trigger, timing, lock, threads, wiring>>
           /\ running' \subseteq running /\ active' \subseteq active
  BY DEF HardwareMoves, HardwareEnds, HardwareSignals

(* Who writes the session, the latest frame and error, the timer and the   *)
(* number of channels.                                                     *)
LEMMA SessionMoves ==
    ASSUME [Next]_vars
    PROVE  \/ UNCHANGED <<session, frames, timing, created>>
           \/ \E t \in Clients :
                 \/ t \in Starters /\ StartCheck(t)
                 \/ StartFails(t) \/ StartsSession(t)
                 \/ ReleaseChannel(t) \/ DisposeDetach(t)
           \/ \E t \in Threads : StopBegin(t)
           \/ \E c \in Channels : RecordFrame(c) \/ RecordError(c)
<1> DEFINE Same == UNCHANGED <<session, frames, timing, created>>
<1>1. ASSUME NEW t,
             \/ ClientMoves(t) \/ ReleasesLocal(t) \/ Dispose(t)
             \/ Registers(t) \/ ClearTrigger(t)
      PROVE  Same
  BY <1>1, ClientMovesOnly
     DEF ReleasesLocal, ReleaseLocal, Dispose, Registers, TriggerAsync,
         ClearTrigger, wiring
<1>2. ASSUME NEW t, StopNothing(t) \/ StopWaited(t) \/ StopTail(t) \/ HandlerTail(t)
      PROVE  Same
  BY <1>2
     DEF StopNothing, StopWaited, StopJoined, StopTimeout, StopEnd, HandlerTail,
         StopTail, FrameTail, ErrorTail, wiring
<1>3. ASSUME NEW c, CheckTarget(c) \/ TakeEvent(c) \/ HardwareMoves(c)
      PROVE  Same
  BY <1>3, HardwareMovesOnly DEF CheckTarget, TakeEvent, wiring
<1>4. CASE UNCHANGED vars
  BY <1>4 DEF vars, session, frames, timing
<1> QED
  BY <1>1, <1>2, <1>3, <1>4, Steps

(* Who changes the state, the channel, its subscription, the lock and the  *)
(* timer.                                                                  *)
LEMMA DeliveryMoves ==
    ASSUME [Next]_vars
    PROVE  \/ UNCHANGED <<channelState, channel, subscribed, lock, timing>>
           \/ \E t \in Clients :
                 \/ t \in Starters /\ StartCheck(t)
                 \/ StartFails(t) \/ StartsSession(t)
                 \/ ReleaseChannel(t) \/ DisposeDetach(t)
           \/ \E t \in Threads : StopBegin(t) \/ StopWaited(t)
<1> DEFINE Same == UNCHANGED <<channelState, channel, subscribed, lock, timing>>
<1>1. ASSUME NEW t,
             \/ ClientMoves(t) \/ ReleasesLocal(t) \/ Dispose(t)
             \/ Registers(t) \/ ClearTrigger(t)
      PROVE  Same
  BY <1>1, ClientMovesOnly
     DEF ReleasesLocal, ReleaseLocal, Dispose, Registers, TriggerAsync,
         ClearTrigger, session, wiring
<1>2. ASSUME NEW t, StopNothing(t) \/ StopTail(t) \/ HandlerTail(t)
      PROVE  Same
  BY <1>2
     DEF StopNothing, HandlerTail, StopTail, FrameTail, ErrorTail, session, wiring
<1>3. ASSUME NEW c,
             \/ RecordFrame(c) \/ RecordError(c) \/ CheckTarget(c)
             \/ TakeEvent(c) \/ HardwareMoves(c)
      PROVE  Same
  BY <1>3, HardwareMovesOnly
     DEF RecordFrame, RecordError, CheckTarget, TakeEvent, session, wiring
<1>4. CASE UNCHANGED vars
  BY <1>4 DEF vars, timing
<1> QED
  BY <1>1, <1>2, <1>3, <1>4, Steps

(***************************************************************************)
(* Types                                                                   *)
(***************************************************************************)

(* TypeOK in four parts, each disturbed by a few of the actions. A thread  *)
(* that waits in Stop waits for a channel.                                 *)
SessionTypes ==
    /\ channelState \in {"None", "Idle", "Active"}
    /\ channel \in 0..created /\ created \in 0..MaxChannels
    /\ config \in Targets \cup {NoConfig} /\ stats \in Nat \cup {NoStats}
    /\ lastFrame \in 0..MaxChannels /\ lastError \in 0..MaxChannels
    /\ timer \in 0..MaxChannels /\ timers \subseteq Channels

TriggerTypes ==
    /\ triggerTcs \in 0..nextTcs /\ nextTcs \in 0..MaxTriggers
    /\ tcsState \in [Triggers -> {"none", "pending", "result", "error", "canceled"}]

ThreadTypes ==
    /\ lock \in Threads \cup {0} /\ disposer \in Clients \cup {0}
    /\ pc \in [Threads -> PCs]
    /\ loc \in [Threads -> 0..MaxChannels]
    /\ tcs \in [Threads -> 0..nextTcs]
    /\ \A t \in Threads : pc[t] = "stopJoin" => loc[t] # 0

Queues == Seq(Errors \cup {"FRAME", "END"})

ChannelTypes ==
    /\ running \subseteq Channels /\ active \subseteq Channels
    /\ subscribed \subseteq Channels /\ closed \subseteq Channels
    /\ abandoned \subseteq Channels
    /\ events \in [Channels -> Queues]
    /\ signalled \in [Channels -> 0..MaxEvents]

Types == SessionTypes /\ TriggerTypes /\ ThreadTypes /\ ChannelTypes

(* The manager starts with the types declared. *)
LEMMA TypesStart == Init => Types
<1> SUFFICES ASSUME Init PROVE Types
  OBVIOUS
<1>1. SessionTypes
  BY ManagerAssumption DEF Init, SessionTypes, NoConfig, NoStats
<1>2. TriggerTypes
  BY ManagerAssumption DEF Init, TriggerTypes
<1>3. ThreadTypes
  BY ManagerAssumption DEF Init, ThreadTypes, PCs
<1>4. ChannelTypes
  <2>1. << >> \in Queues
    BY DEF Queues
  <2> QED
    BY <2>1, ManagerAssumption DEF Init, ChannelTypes
<1> QED
  BY <1>1, <1>2, <1>3, <1>4 DEF Types

(* The session: Start, Stop, the release of a channel and the handlers     *)
(* write it, under the lock.                                               *)
LEMMA SessionTypesStep ==
    ASSUME Types, [Next]_vars
    PROVE  SessionTypes'
<1> USE ManagerAssumption DEF Types, SessionTypes
<1>1. ASSUME NEW t \in Clients, StartCheck(t) \/ ReleaseChannel(t) PROVE SessionTypes'
  BY <1>1 DEF StartCheck, ReleaseChannel, timing, wiring, NoStats
<1>2. ASSUME NEW t \in Clients, StartFails(t) \/ DisposeDetach(t) PROVE SessionTypes'
  BY <1>2 DEF StartFails, DisposeDetach, frames, timing, wiring, NoStats
<1>3. ASSUME NEW t \in Clients, StartsSession(t) PROVE SessionTypes'
  <2>1. created' \in Channels /\ channel' = created' /\ created' \in 0..MaxChannels
    BY <1>3 DEF StartsSession, StartSession, Channels
  <2>2. timer' \in 0..MaxChannels /\ timers' \subseteq Channels
    BY <1>3, <2>1 DEF StartsSession, StartSession, timing, Channels
  <2> QED
    BY <1>3, <2>1, <2>2 DEF StartsSession, StartSession, NoStats
<1>4. ASSUME NEW t \in Threads, StopBegin(t) PROVE SessionTypes'
  BY <1>4 DEF StopBegin, DisposeTimer, frames
<1>5. ASSUME NEW c \in Channels, RecordFrame(c) \/ RecordError(c) PROVE SessionTypes'
  <2>1. CASE RecordFrame(c)
    BY <2>1 DEF RecordFrame, timing, wiring, NoStats, Channels
  <2>2. CASE RecordError(c)
    BY <2>2 DEF RecordError, session, timing, wiring, Channels
  <2> QED
    BY <1>5, <2>1, <2>2
<1>6. CASE UNCHANGED <<session, frames, timing, created>>
  BY <1>6 DEF session, frames, timing
<1> QED
  BY <1>1, <1>2, <1>3, <1>4, <1>5, <1>6, SessionMoves

(* The trigger: TriggerAsync registers it, whoever takes it completes it. *)
LEMMA TriggerTypesStep ==
    ASSUME Types, [Next]_vars
      PROVE  TriggerTypes'
<1> USE ManagerAssumption DEF Types, TriggerTypes
<1>1. ASSUME NEW t \in Clients, Registers(t) PROVE TriggerTypes'
  BY <1>1 DEF Registers, TriggerAsync, Triggers
<1>2. CASE triggerTcs' \in {0, triggerTcs} /\ UNCHANGED <<nextTcs, tcsState>>
  BY <1>2
<1>3. ASSUME NEW t, StopBegin(t) \/ RecordFrame(t) \/ RecordError(t) \/ ClearTrigger(t)
      PROVE  triggerTcs' \in {0, triggerTcs} /\ UNCHANGED <<nextTcs, tcsState>>
  BY <1>3 DEF StopBegin, RecordFrame, RecordError, ClearTrigger, TakeTrigger
<1>4. ASSUME NEW t \in Threads, StopTail(t) \/ HandlerTail(t) PROVE TriggerTypes'
  BY <1>4 DEF HandlerTail, StopTail, FrameTail, ErrorTail, Complete
<1>5. CASE UNCHANGED trigger
  BY <1>2, <1>5 DEF trigger
<1>6. ASSUME NEW t,
             \/ ClientMoves(t) \/ ReleasesLocal(t) \/ StartCheck(t) \/ StartFails(t)
             \/ StartsSession(t) \/ ReleaseChannel(t) \/ Dispose(t) \/ DisposeDetach(t)
      PROVE  UNCHANGED trigger
  BY <1>6, ClientMovesOnly
     DEF ReleasesLocal, ReleaseLocal, StartCheck, StartFails, StartsSession,
         StartSession, ReleaseChannel, Dispose, DisposeDetach
<1>7. ASSUME NEW t,
             \/ StopNothing(t) \/ StopWaited(t) \/ CheckTarget(t) \/ TakeEvent(t)
             \/ HardwareMoves(t)
      PROVE  UNCHANGED trigger
  BY <1>7, HardwareMovesOnly
     DEF StopNothing, StopWaited, StopJoined, StopTimeout, StopEnd, CheckTarget,
         TakeEvent
<1>8. CASE UNCHANGED vars
  BY <1>2, <1>8 DEF vars
<1> QED
  BY <1>1, <1>2, <1>3, <1>4, <1>5, <1>6, <1>7, <1>8, Steps, Kinds

(* The channels: their hardware, their loops and whoever stops them. *)
LEMMA ChannelTypesStep ==
    ASSUME Types, [Next]_vars
    PROVE  ChannelTypes'
<1> USE ManagerAssumption DEF Types, ChannelTypes
<1>1. ASSUME NEW c \in Channels, NEW e \in Errors \cup {"FRAME", "END"}, Signal(c, e)
      PROVE  events' \in [Channels -> Queues]
  <2>1. Append(events[c], e) \in Queues
    BY DEF Queues
  <2> QED
    BY <1>1, <2>1 DEF Signal
<1>2. << >> \in Queues
  BY DEF Queues
<1>3. ASSUME NEW t \in Clients, ReleasesLocal(t) PROVE ChannelTypes'
  <2>1. loc[t] # 0 => loc[t] \in Channels
    BY DEF ThreadTypes, SessionTypes, Channels, Threads
  <2>2. events' \in [Channels -> Queues]
    BY <1>2, <1>3 DEF ReleasesLocal, ReleaseLocal
  <2>3. /\ running' \subseteq Channels /\ active' \subseteq Channels
        /\ closed' \subseteq Channels
    BY <1>3, <2>1 DEF ReleasesLocal, ReleaseLocal
  <2> QED
    BY <1>3, <2>2, <2>3 DEF ReleasesLocal, ReleaseLocal
<1>4. ASSUME NEW t \in Clients, StartsSession(t) PROVE ChannelTypes'
  <2>1. created + 1 \in Channels
    BY <1>4 DEF StartsSession, StartSession, Channels, SessionTypes
  <2>2. events' \in [Channels -> Queues]
    BY <1>1, <1>4, <2>1 DEF StartsSession, StartSession
  <2> QED
    BY <1>4, <2>1, <2>2 DEF StartsSession, StartSession
<1>5. ASSUME NEW t \in Threads, StopBegin(t) PROVE ChannelTypes'
  <2>1. channel # 0 => channel \in Channels
    BY DEF SessionTypes, Channels
  <2> QED
    BY <1>5, <2>1 DEF StopBegin
<1>6. ASSUME NEW t \in Threads, StopWaited(t) PROVE ChannelTypes'
  <2>1. loc[t] \in Channels
    BY <1>6
       DEF StopWaited, StopJoined, StopTimeout, ThreadTypes, SessionTypes, Channels
  <2>2. events' \in [Channels -> Queues]
    BY <1>2, <1>6 DEF StopWaited, StopJoined, StopTimeout, StopEnd
  <2> QED
    BY <1>6, <2>1, <2>2 DEF StopWaited, StopJoined, StopTimeout, StopEnd
<1>7. ASSUME NEW c \in Channels, TakeEvent(c) PROVE ChannelTypes'
  <2>1. Tail(events[c]) \in Queues
    BY <1>7 DEF TakeEvent, Queues
  <2> QED
    BY <1>7, <2>1 DEF TakeEvent, wiring
<1>8. ASSUME NEW c \in Channels, HardwareMoves(c) PROVE ChannelTypes'
  <2>1. events' \in [Channels -> Queues]
    BY <1>1, <1>8 DEF HardwareMoves, HardwareEnds, HardwareSignals
  <2>2. signalled' \in [Channels -> 0..MaxEvents]
    BY <1>8 DEF HardwareMoves, HardwareEnds, HardwareSignals
  <2> QED
    BY <1>8, <2>1, <2>2, HardwareMovesOnly DEF wiring
<1>9. CASE UNCHANGED <<hardware, subscribed, closed, abandoned>>
  BY <1>9 DEF hardware
<1>10. ASSUME NEW t,
              \/ ClientMoves(t) \/ StartCheck(t) \/ StartFails(t) \/ ReleaseChannel(t)
              \/ Dispose(t) \/ DisposeDetach(t) \/ Registers(t) \/ ClearTrigger(t)
      PROVE  UNCHANGED <<hardware, subscribed, closed, abandoned>>
  BY <1>10
     DEF ClientMoves, StartNoChannel, StartTail, CallStop, AwaitDone, AwaitTimeout,
         StartCheck, StartFails, ReleaseChannel, Dispose, DisposeDetach, Registers,
         TriggerAsync, ClearTrigger, wiring
<1>11. ASSUME NEW t,
              \/ StopNothing(t) \/ StopTail(t) \/ HandlerTail(t)
              \/ RecordFrame(t) \/ RecordError(t) \/ CheckTarget(t)
       PROVE  UNCHANGED <<hardware, subscribed, closed, abandoned>>
  BY <1>11
     DEF StopNothing, HandlerTail, StopTail, FrameTail, ErrorTail, RecordFrame,
         RecordError, CheckTarget, wiring
<1>12. CASE UNCHANGED vars
  BY <1>12 DEF vars
<1> QED
  BY <1>3, <1>4, <1>5, <1>6, <1>7, <1>8, <1>9, <1>10, <1>11, <1>12, Steps

(* The threads: every step but the hardware's moves one, or a loop and the *)
(* task it starts.                                                         *)
LEMMA ThreadTypesStep ==
    ASSUME Types, [Next]_vars
    PROVE  ThreadTypes'
<1> USE ManagerAssumption, Kinds
        DEF Types, ThreadTypes, SessionTypes, TriggerTypes, Goto, SetLoc, SetTcs
<1>1. ASSUME NEW t \in Clients, ClientMoves(t) PROVE ThreadTypes'
  <2>1. UNCHANGED <<lock, loc, disposer, created, nextTcs>>
    BY <1>1, ClientMovesOnly DEF trigger, wiring
  <2> QED
    BY <1>1, <2>1, ClientMovesOnly DEF PCs
<1>2. ASSUME NEW t \in Clients, ReleasesLocal(t) PROVE ThreadTypes'
  <2>1. PICK from \in PCs \ {"stopJoin"}, to \in PCs \ {"stopJoin"} :
            ReleaseLocal(t, from, to)
    BY <1>2 DEF ReleasesLocal, PCs
  <2> QED
    BY <2>1 DEF ReleaseLocal, trigger
<1>3. ASSUME NEW t \in Clients, StartCheck(t) \/ StartFails(t) PROVE ThreadTypes'
  BY <1>3 DEF StartCheck, StartFails, PCs, trigger, wiring
<1>4. ASSUME NEW t \in Clients, StartsSession(t) PROVE ThreadTypes'
  BY <1>4 DEF StartsSession, StartSession, PCs, trigger
<1>5. ASSUME NEW t \in Clients, Dispose(t) \/ ReleaseChannel(t) \/ DisposeDetach(t)
      PROVE ThreadTypes'
  BY <1>5 DEF Dispose, ReleaseChannel, DisposeDetach, PCs, trigger, wiring
<1>6. ASSUME NEW t \in Clients, Registers(t) \/ ClearTrigger(t) PROVE ThreadTypes'
  BY <1>6 DEF Registers, TriggerAsync, ClearTrigger, PCs, wiring
<1>7. ASSUME NEW t \in Threads, StopNothing(t) PROVE ThreadTypes'
  BY <1>7 DEF StopNothing, AfterStop, PCs, trigger, wiring
<1>8. ASSUME NEW t \in Threads, StopBegin(t) PROVE ThreadTypes'
  BY <1>8 DEF StopBegin, TakeTrigger, PCs
<1>9. ASSUME NEW t \in Threads, StopWaited(t) PROVE ThreadTypes'
  <2>1. StopEnd(t) /\ created' = created
    BY <1>9 DEF StopWaited, StopJoined, StopTimeout, StopEnd
  <2> QED
    BY <2>1 DEF StopEnd, PCs, trigger
<1>10. ASSUME NEW t \in Threads, StopTail(t) \/ HandlerTail(t) PROVE ThreadTypes'
  BY <1>10 DEF HandlerTail, StopTail, FrameTail, ErrorTail, AfterStop, PCs, wiring
<1>11. ASSUME NEW c \in Channels, RecordFrame(c) \/ RecordError(c) PROVE ThreadTypes'
  BY <1>11 DEF RecordFrame, RecordError, TakeTrigger, PCs, wiring
<1>12. ASSUME NEW c \in Channels, CheckTarget(c) PROVE ThreadTypes'
  <2>1. UNCHANGED <<lock, disposer, created, tcs, nextTcs>>
    BY <1>12 DEF CheckTarget, trigger, wiring
  <2>2. CASE TargetReached
    <3>1. PICK k \in Tasks : /\ pc[k] = "idle" /\ loc' = [loc EXCEPT ![k] = c]
                             /\ pc' = [pc EXCEPT ![c] = "idle", ![k] = "stop"]
      BY <1>12, <2>2 DEF CheckTarget
    <3> QED
      BY <2>1, <3>1 DEF PCs, Channels
  <2>3. CASE ~TargetReached
    BY <1>12, <2>1, <2>3 DEF CheckTarget, PCs
  <2> QED
    BY <2>2, <2>3
<1>13. ASSUME NEW c \in Channels, TakeEvent(c) PROVE ThreadTypes'
  BY <1>13 DEF TakeEvent, Handler, PCs, trigger, wiring
<1>14. ASSUME NEW c, HardwareMoves(c) PROVE ThreadTypes'
  BY <1>14, HardwareMovesOnly DEF threads, trigger, wiring
<1>15. CASE UNCHANGED vars
  BY <1>15 DEF vars
<1> QED
  BY <1>1, <1>2, <1>3, <1>4, <1>5, <1>6, <1>7, <1>8, <1>9, <1>10, <1>11, <1>12,
     <1>13, <1>14, <1>15, Steps

(* Every step keeps the types. *)
LEMMA TypesStep ==
    ASSUME Types, [Next]_vars
      PROVE  Types'
  BY SessionTypesStep, TriggerTypesStep, ThreadTypesStep, ChannelTypesStep DEF Types

(* Every variable keeps its type. *)
THEOREM TypeCorrect == Spec => []TypeOK
<1>1. Types => TypeOK
  <2>1. Types =>
          UNION {running, active, subscribed, closed, abandoned} \subseteq Channels
    BY DEF Types, ChannelTypes
  <2> QED
  BY <2>1, ManagerAssumption
     DEF Types, SessionTypes, TriggerTypes, ThreadTypes, ChannelTypes, Queues,
         TypeOK
<1> QED
  BY <1>1, TypesStart, TypesStep, PTL DEF Spec

(***************************************************************************)
(* Who asks for a stop                                                     *)
(***************************************************************************)

(* Nothing has happened on a channel that is not created yet. *)
Fresh == \A c \in Channels :
    c > created => pc[c] = "idle" /\ events[c] = << >> /\ c \notin running

(* The positions of a loop that goes on to Stop. *)
Ending == {"stop", "overrun", "overrunTail"}

(* A loop that is about to stop its session, or will be once it has taken  *)
(* the events in its queue, has hardware that stopped.                     *)
Ended == \A c \in Channels :
    /\ pc[c] \in Ending => c \notin running
    /\ \A i \in DOMAIN events[c] :
          events[c][i] \in {"END", "OVERRUN"} => c \notin running

(* A task that is about to stop a session was started for a channel that   *)
(* was created, and if that one is the session's, the target is reached.   *)
Asked == \A k \in Tasks : pc[k] = "stop" =>
    /\ loc[k] \in Channels /\ loc[k] <= created
    /\ channelState = "Active" /\ loc[k] = channel => config > 0 /\ stats >= config

(* Channels are created one at a time. *)
LEMMA CreatedGrows ==
    ASSUME [Next]_vars PROVE created' \in {created, created + 1}
  BY SessionMoves
     DEF StartCheck, StartFails, StartsSession, StartSession, ReleaseChannel,
         DisposeDetach, StopBegin, RecordFrame, RecordError, wiring

(* How a loop moves: it takes an event, or goes on in a handler. *)
LEMMA LoopMoves ==
    ASSUME [Next]_vars, NEW c \in Channels, pc \in [Threads -> PCs]
    PROVE  \/ pc'[c] = pc[c]
           \/ TakeEvent(c)
           \/ /\ pc[c] # "idle" /\ pc'[c] # "frame"
              /\ pc'[c] \in Ending => pc[c] \in Ending
<1> USE Kinds DEF Goto, Ending
<1> DEFINE Goes == \/ pc'[c] = pc[c]
                   \/ /\ pc[c] # "idle" /\ pc'[c] # "frame"
                      /\ pc'[c] \in Ending => pc[c] \in Ending
<1>1. ASSUME NEW t \in Clients,
             \/ ClientMoves(t) \/ ReleasesLocal(t) \/ StartCheck(t) \/ StartFails(t)
             \/ StartsSession(t) \/ ReleaseChannel(t) \/ Dispose(t) \/ DisposeDetach(t)
             \/ Registers(t) \/ ClearTrigger(t)
      PROVE  Goes
  <2>1. t # c
    OBVIOUS
  <2> QED
    BY <1>1, <2>1, ClientMovesOnly
       DEF ReleasesLocal, ReleaseLocal, StartCheck, StartFails, StartsSession,
           StartSession, ReleaseChannel, Dispose, DisposeDetach, Registers,
           TriggerAsync, ClearTrigger
<1>2. ASSUME NEW t \in Threads, StopNothing(t) \/ StopBegin(t) \/ StopWaited(t)
      PROVE  Goes
  BY <1>2
     DEF StopNothing, StopBegin, StopWaited, StopJoined, StopTimeout, StopEnd,
         AfterStop, Enter
<1>3. ASSUME NEW t \in Threads, StopTail(t) \/ HandlerTail(t)
      PROVE  Goes
  BY <1>3 DEF HandlerTail, StopTail, FrameTail, ErrorTail, AfterStop
<1>4. ASSUME NEW d \in Channels, RecordFrame(d) \/ RecordError(d)
      PROVE  Goes
  BY <1>4 DEF RecordFrame, RecordError, Enter
<1>5. ASSUME NEW d \in Channels, CheckTarget(d)
      PROVE  Goes
  <2>1. \A k \in Tasks : k # c
    OBVIOUS
  <2> QED
    BY <1>5, <2>1 DEF CheckTarget, Enter
<1>6. ASSUME NEW d \in Channels, TakeEvent(d)
      PROVE  pc'[c] = pc[c] \/ TakeEvent(c)
  BY <1>6 DEF TakeEvent
<1>7. ASSUME NEW d, HardwareMoves(d)
      PROVE  Goes
  BY <1>7, HardwareMovesOnly DEF threads
<1>8. CASE UNCHANGED vars
  BY <1>8 DEF vars
<1> QED
  BY <1>1, <1>2, <1>3, <1>4, <1>5, <1>6, <1>7, <1>8, Steps

(* How a channel's queue and hardware change: the queue is drained, its    *)
(* head is taken, the hardware starts, or it signals.                      *)
LEMMA QueueMoves ==
    ASSUME Types, [Next]_vars, NEW c \in Channels
    PROVE  \/ /\ events'[c] \in {events[c], << >>}
              /\ c \in running' => c \in running
           \/ TakeEvent(c)
           \/ /\ created < MaxChannels /\ c = created + 1 /\ created' = c
              /\ events'[c] = events[c] \/ c \notin running' \/ c \in running
           \/ \E e \in Errors \cup {"FRAME", "END"} :
                 /\ c \in running /\ events'[c] = Append(events[c], e)
                 /\ e \in {"END", "OVERRUN"} => c \notin running'
<1> USE DEF Types, ChannelTypes
<1> DEFINE Shrinks == /\ events'[c] \in {events[c], << >>}
                      /\ c \in running' => c \in running
<1> DEFINE Starts == /\ created < MaxChannels /\ c = created + 1 /\ created' = c
                     /\ events'[c] = events[c] \/ c \notin running' \/ c \in running
<1>1. ASSUME NEW t,
             \/ ClientMoves(t) \/ StartCheck(t) \/ StartFails(t) \/ ReleaseChannel(t)
             \/ Dispose(t) \/ DisposeDetach(t) \/ Registers(t) \/ ClearTrigger(t)
      PROVE  Shrinks
  BY <1>1, ClientMovesOnly
     DEF StartCheck, StartFails, ReleaseChannel, Dispose, DisposeDetach, Registers,
         TriggerAsync, ClearTrigger, hardware
<1>2. ASSUME NEW t, ReleasesLocal(t)
      PROVE  Shrinks
  BY <1>2 DEF ReleasesLocal, ReleaseLocal
<1>3. ASSUME NEW t \in Clients, StartsSession(t)
      PROVE  Shrinks \/ Starts
  BY <1>3 DEF StartsSession, StartSession, Signal
<1>4. ASSUME NEW t, StopBegin(t) \/ StopWaited(t)
      PROVE  Shrinks
  BY <1>4 DEF StopBegin, StopWaited, StopJoined, StopTimeout, StopEnd
<1>5. ASSUME NEW t,
             \/ StopNothing(t) \/ StopTail(t) \/ HandlerTail(t)
             \/ RecordFrame(t) \/ RecordError(t) \/ CheckTarget(t)
      PROVE  Shrinks
  BY <1>5
     DEF StopNothing, HandlerTail, StopTail, FrameTail, ErrorTail, RecordFrame,
         RecordError, CheckTarget, hardware
<1>6. ASSUME NEW d \in Channels, TakeEvent(d)
      PROVE  Shrinks \/ TakeEvent(c)
  BY <1>6 DEF TakeEvent
<1>7. ASSUME NEW d \in Channels, HardwareMoves(d)
      PROVE  \/ Shrinks
             \/ \E e \in Errors \cup {"FRAME", "END"} :
                   /\ c \in running /\ events'[c] = Append(events[c], e)
                   /\ e \in {"END", "OVERRUN"} => c \notin running'
  <2>1. PICK e \in Errors \cup {"FRAME", "END"} :
            /\ d \in running /\ Signal(d, e) /\ running' \subseteq running
            /\ e \in {"END", "OVERRUN"} => running' = running \ {d}
    <3>1. CASE HardwareEnds(d)
      BY <3>1 DEF HardwareEnds
    <3>2. ASSUME NEW e \in Errors \cup {"FRAME"}, HardwareSignals(d, e)
          PROVE  /\ d \in running /\ Signal(d, e) /\ running' \subseteq running
                 /\ e \in {"END", "OVERRUN"} => running' = running \ {d}
      BY <3>2, ManagerAssumption DEF HardwareSignals
    <3> QED
      BY <1>7, <3>1, <3>2 DEF HardwareMoves
  <2>2. CASE c = d
    BY <2>1, <2>2 DEF Signal
  <2>3. CASE c # d
    BY <2>1, <2>3 DEF Signal
  <2> QED
    BY <2>2, <2>3
<1>8. CASE UNCHANGED vars
  BY <1>8 DEF vars
<1> QED
  BY <1>1, <1>2, <1>3, <1>4, <1>5, <1>6, <1>7, <1>8, Steps

(* Loops wake up for events, and hardware signals once it runs. *)
LEMMA FreshStep ==
    ASSUME Types, Fresh, [Next]_vars PROVE Fresh'
<1> SUFFICES ASSUME NEW c \in Channels, c > created'
             PROVE  pc'[c] = "idle" /\ events'[c] = << >> /\ c \notin running'
  BY DEF Fresh
<1>1. created \in Nat /\ c \in Nat /\ pc \in [Threads -> PCs]
  BY ManagerAssumption, Kinds DEF Types, SessionTypes, ThreadTypes
<1>2. pc[c] = "idle" /\ events[c] = << >> /\ c \notin running
  BY <1>1, CreatedGrows DEF Fresh
<1>3. ~TakeEvent(c) /\ c # created'
  BY <1>1, <1>2 DEF TakeEvent
<1> QED
  BY <1>1, <1>2, <1>3, LoopMoves, QueueMoves

(* The event that ends a session is queued when the hardware stops, and    *)
(* hardware starts on a fresh channel only.                                *)
LEMMA EndedStep ==
    ASSUME Types, Fresh, Ended, [Next]_vars PROVE Ended'
<1> SUFFICES ASSUME NEW c \in Channels
             PROVE  /\ pc'[c] \in Ending => c \notin running'
                    /\ \A i \in DOMAIN events'[c] :
                          events'[c][i] \in {"END", "OVERRUN"} => c \notin running'
  BY DEF Ended
<1>1. pc \in [Threads -> PCs] /\ events[c] \in Queues /\ created \in Nat
  BY ManagerAssumption DEF Types, ThreadTypes, ChannelTypes, SessionTypes
<1>2. CASE TakeEvent(c)
  <2>1. running' = running /\ events[c] # << >> /\ events'[c] = Tail(events[c])
    BY <1>2 DEF TakeEvent, Types, ChannelTypes
  <2>2. /\ 1 \in DOMAIN events[c] /\ Head(events[c]) = events[c][1]
        /\ \A i \in DOMAIN events'[c] :
              i + 1 \in DOMAIN events[c] /\ events'[c][i] = events[c][i + 1]
    BY <1>1, <2>1 DEF Queues
  <2>3. pc'[c] \in Ending => pc[c] \in Ending \/ Head(events[c]) \in {"END", "OVERRUN"}
    BY <1>1, <1>2, Kinds DEF TakeEvent, Handler, Ending, Goto
  <2> QED
    BY <2>1, <2>2, <2>3 DEF Ended
<1>3. CASE ~TakeEvent(c)
  <2>1. pc'[c] \in Ending => pc[c] \in Ending
    BY <1>1, <1>3, LoopMoves
  <2>2. CASE events'[c] \in {events[c], << >>} /\ (c \in running' => c \in running)
    BY <2>1, <2>2 DEF Ended
  <2>3. CASE /\ c = created + 1
             /\ events'[c] = events[c] \/ c \notin running' \/ c \in running
    <3>1. pc[c] \notin Ending /\ events[c] = << >> /\ c \notin running
      BY <1>1, <2>3 DEF Fresh, Ending
    <3> QED
      BY <2>1, <2>3, <3>1
  <2>4. ASSUME NEW e \in Errors \cup {"FRAME", "END"},
               c \in running, events'[c] = Append(events[c], e),
               e \in {"END", "OVERRUN"} => c \notin running'
        PROVE  /\ pc'[c] \in Ending => c \notin running'
               /\ \A i \in DOMAIN events'[c] :
                     events'[c][i] \in {"END", "OVERRUN"} => c \notin running'
    <3>1. \A i \in DOMAIN events'[c] :
             \/ events'[c][i] = e
             \/ i \in DOMAIN events[c] /\ events'[c][i] = events[c][i]
      BY <1>1, <2>4 DEF Queues
    <3> QED
      BY <2>1, <2>4, <3>1 DEF Ended
  <2> QED
    BY <1>3, <2>2, <2>3, <2>4, QueueMoves
<1> QED
  BY <1>2, <1>3

(* A task is about to stop because it was, or because a loop just started  *)
(* it.                                                                     *)
LEMMA TaskMoves ==
    ASSUME Types, [Next]_vars, NEW k \in Tasks, pc'[k] = "stop"
    PROVE  \/ pc[k] = "stop" /\ loc'[k] = loc[k]
           \/ \E c \in Channels : CheckTarget(c) /\ TargetReached /\ loc'[k] = c
<1> USE Kinds DEF Types, ThreadTypes, Goto, SetLoc
<1>1. ASSUME NEW t \in Clients,
             \/ ClientMoves(t) \/ ReleasesLocal(t) \/ StartCheck(t) \/ StartFails(t)
             \/ StartsSession(t) \/ ReleaseChannel(t) \/ Dispose(t) \/ DisposeDetach(t)
             \/ Registers(t) \/ ClearTrigger(t)
      PROVE  pc[k] = "stop" /\ loc'[k] = loc[k]
  <2>1. t # k
    OBVIOUS
  <2> QED
    BY <1>1, <2>1, ClientMovesOnly
       DEF ReleasesLocal, ReleaseLocal, StartCheck, StartFails, StartsSession,
           StartSession, ReleaseChannel, Dispose, DisposeDetach, Registers,
           TriggerAsync, ClearTrigger
<1>2. ASSUME NEW t \in Threads, StopNothing(t) \/ StopBegin(t) \/ StopWaited(t)
      PROVE  pc[k] = "stop" /\ loc'[k] = loc[k]
  BY <1>2
     DEF StopNothing, StopBegin, StopWaited, StopJoined, StopTimeout, StopEnd,
         AfterStop
<1>3. ASSUME NEW t \in Threads, StopTail(t)
      PROVE  pc[k] = "stop" /\ loc'[k] = loc[k]
  BY <1>3 DEF StopTail, AfterStop
<1>4. ASSUME NEW c \in Channels,
             HandlerTail(c) \/ RecordFrame(c) \/ RecordError(c) \/ TakeEvent(c)
      PROVE  pc[k] = "stop" /\ loc'[k] = loc[k]
  <2>1. c # k
    OBVIOUS
  <2> QED
    BY <1>4, <2>1
       DEF HandlerTail, FrameTail, ErrorTail, RecordFrame, RecordError, TakeEvent
<1>5. ASSUME NEW c \in Channels, CheckTarget(c)
      PROVE  (pc[k] = "stop" /\ loc'[k] = loc[k]) \/ (TargetReached /\ loc'[k] = c)
  BY <1>5 DEF CheckTarget
<1>6. ASSUME NEW c, HardwareMoves(c)
      PROVE  pc[k] = "stop" /\ loc'[k] = loc[k]
  BY <1>6, HardwareMovesOnly DEF threads
<1>7. CASE UNCHANGED vars
  BY <1>7 DEF vars
<1> QED
  BY <1>1, <1>2, <1>3, <1>4, <1>5, <1>6, <1>7, Steps

(* A target that is reached stays reached while the session lasts, and the *)
(* next session has another channel.                                       *)
LEMMA AskedStep ==
    ASSUME Types, Fresh, Asked, [Next]_vars PROVE Asked'
<1> USE ManagerAssumption, Kinds DEF Types, SessionTypes
<1> SUFFICES ASSUME NEW k \in Tasks, pc'[k] = "stop"
             PROVE  /\ loc'[k] \in Channels /\ loc'[k] <= created'
                    /\ channelState' = "Active" /\ loc'[k] = channel'
                          => config' > 0 /\ stats' >= config'
  BY DEF Asked
<1>1. created' \in {created, created + 1} /\ created \in Nat
  BY CreatedGrows
<1>2. CASE pc[k] = "stop" /\ loc'[k] = loc[k]
  <2>1. /\ loc[k] \in Channels /\ loc[k] <= created
        /\ channelState = "Active" /\ loc[k] = channel => config > 0 /\ stats >= config
    BY <1>2 DEF Asked
  <2>2. CASE UNCHANGED <<session, frames, timing, created>>
    BY <1>2, <2>1, <2>2 DEF session
  <2>3. ASSUME NEW t \in Clients,
               \/ StartCheck(t) \/ StartFails(t) \/ StartsSession(t)
               \/ ReleaseChannel(t) \/ DisposeDetach(t)
        PROVE  \/ channelState' # "Active" \/ channel' = 0 \/ channel' = created + 1
               \/ UNCHANGED <<channelState, channel, config, stats>>
    BY <2>3
       DEF StartCheck, StartFails, StartsSession, StartSession, ReleaseChannel,
           DisposeDetach
  <2>4. ASSUME NEW t, StopBegin(t) \/ RecordError(t)
        PROVE  \/ channelState' # "Active"
               \/ UNCHANGED <<channelState, channel, config, stats>>
    BY <2>4 DEF StopBegin, RecordError, session
  <2>5. ASSUME NEW c, RecordFrame(c)
        PROVE  /\ UNCHANGED <<channelState, channel, config>>
               /\ stats' \in {stats, stats + 1}
    BY <2>5 DEF RecordFrame
  <2>6. config \in Int /\ stats \in Int
    BY DEF NoConfig, NoStats
  <2>7. CASE \/ channelState' # "Active" \/ channel' = 0 \/ channel' = created + 1
             \/ /\ UNCHANGED <<channelState, channel, config>>
                /\ stats' \in {stats, stats + 1}
    BY <1>1, <1>2, <2>1, <2>6, <2>7 DEF Channels
  <2> QED
    BY <2>2, <2>3, <2>4, <2>5, <2>7, SessionMoves
<1>3. ASSUME NEW c \in Channels, CheckTarget(c), TargetReached, loc'[k] = c
      PROVE  /\ loc'[k] \in Channels /\ loc'[k] <= created'
             /\ channelState' = "Active" /\ loc'[k] = channel'
                   => config' > 0 /\ stats' >= config'
  <2>1. UNCHANGED <<config, stats, created>>
    BY <1>3 DEF CheckTarget, session, wiring
  <2>2. c <= created
    BY <1>1, <1>3 DEF Fresh, CheckTarget, Enter
  <2> QED
    BY <1>3, <2>1, <2>2 DEF TargetReached
<1> QED
  BY <1>2, <1>3, TaskMoves

(* The parts hold together. *)
AskerInv == Types /\ Fresh /\ Ended /\ Asked

LEMMA AskerInvHolds == Spec => []AskerInv
<1>1. Init => AskerInv
  BY TypesStart, Kinds DEF Init, AskerInv, Fresh, Ended, Asked
<1>2. AskerInv /\ [Next]_vars => AskerInv'
  BY TypesStep, FreshStep, EndedStep, AskedStep DEF AskerInv
<1> QED
  BY <1>1, <1>2, PTL DEF Spec

(* No handler and no pool task stops a session that runs short of its      *)
(* target on hardware that acquires, unless an earlier session asked for   *)
(* it. This holds with any number of starters, though the task carries no  *)
(* session (Task.Run(Stop), AcquisitionManager.cs:322): the late stop is   *)
(* the one exception.                                                      *)
THEOREM StopsAreAskedFor == Spec => NoSessionStopsUnasked
<1>1. AskerInv /\ [Next]_vars =>
        [\A t \in Tasks \cup Channels :
          /\ pc[t] = "stop" /\ pc'[t] # "stop"
          /\ channelState = "Active" /\ channelState' = "Idle"
          => \/ channel \notin running
             \/ config > 0 /\ stats >= config
             \/ Asker(t) # channel]_vars
  <2> SUFFICES ASSUME AskerInv, Next, NEW t \in Tasks \cup Channels,
                      pc[t] = "stop", pc'[t] # "stop", Asker(t) = channel,
                      channelState = "Active", channelState' = "Idle"
               PROVE  channel \notin running \/ (config > 0 /\ stats >= config)
    OBVIOUS
  <2>1. CASE t \in Tasks
    BY <2>1 DEF AskerInv, Asked, Asker
  <2>2. CASE t \in Channels
    BY <2>2, Kinds DEF AskerInv, Ended, Ending, Asker
  <2> QED
    BY <2>1, <2>2
<1> QED
  BY <1>1, AskerInvHolds, PTL DEF Spec, NoSessionStopsUnasked

(***************************************************************************)
(* One session at a time                                                   *)
(***************************************************************************)

(* What is left of the file holds where no two threads start sessions: the *)
(* second phase of Start does not look at the state again, and the run     *)
(* SessionTwoStarts shows what two do. The host that disposes of the       *)
(* manager is the starter, or there is none: it disposes when no request   *)
(* starts a session any more.                                              *)
OneStarter == \A s, t \in Starters \cup Hosts : s = t

(* The lock is held across steps by the thread that waits in Stop, for the *)
(* channel of a session that has ended.                                    *)
Locking ==
    /\ \A t \in Threads : pc[t] = "stopJoin" <=> lock = t
    /\ lock # 0 => channelState = "Idle" /\ loc[lock] = channel

(* The positions between the phases of Start, and between the parts of     *)
(* Dispose.                                                                *)
Starting == {"startRelease", "start", "startFailed"}
Disposing == {"stopJoin", "stopTail", "disposeDetach"}

(* Nothing starts beside the starter, which finds nothing between the two  *)
(* phases of Start, nor between the parts of Dispose.                      *)
Roles ==
    /\ disposer \in Hosts \cup {0}
    /\ \A t \in Threads :
          /\ pc[t] \in Starting => t \in Starters /\ channelState = "None"
          /\ pc[t] = "disposeDetach" => t = disposer
          /\ t = disposer /\ pc[t] \in Disposing => channelState # "Active"

(* Whoever changes the session does it under the lock. *)
LEMMA LockingStep ==
    ASSUME Types, Locking, [Next]_vars PROVE Locking'
<1> USE Kinds DEF Types, ThreadTypes, Goto, SetLoc, Enter
<1>1. CASE /\ lock' = lock
           /\ \A t \in Threads : pc'[t] = "stopJoin" <=> pc[t] = "stopJoin"
           /\ lock # 0 => UNCHANGED <<channelState, channel>> /\ loc'[lock] = loc[lock]
  BY <1>1 DEF Locking
<1>2. ASSUME NEW t \in Clients,
             \/ ClientMoves(t) \/ Dispose(t) \/ StartCheck(t) \/ StartFails(t)
             \/ StartsSession(t) \/ ReleaseChannel(t) \/ DisposeDetach(t)
             \/ Registers(t) \/ ClearTrigger(t)
      PROVE  Locking'
  <2>1. lock' = lock /\ (lock # 0 => UNCHANGED <<channelState, channel, loc>>)
    BY <1>2, ClientMovesOnly
       DEF Dispose, StartCheck, StartFails, StartsSession, StartSession,
           ReleaseChannel, DisposeDetach, Registers, TriggerAsync, ClearTrigger,
           session
  <2>2. \A u \in Threads : pc'[u] = "stopJoin" <=> pc[u] = "stopJoin"
    BY <1>2
       DEF ClientMoves, StartNoChannel, StartTail, CallStop, AwaitDone,
           AwaitTimeout, Dispose, StartCheck, StartFails, StartsSession,
           StartSession, ReleaseChannel, DisposeDetach, Registers, TriggerAsync,
           ClearTrigger
  <2> QED
    BY <1>1, <2>1, <2>2
<1>3. ASSUME NEW t \in Threads, ReleasesLocal(t) \/ StopNothing(t) \/ StopTail(t)
      PROVE  Locking'
  <2>1. /\ UNCHANGED <<lock, channelState, channel>>
        /\ \A u \in Threads : /\ pc'[u] = "stopJoin" <=> pc[u] = "stopJoin"
                              /\ pc[u] = "stopJoin" => loc'[u] = loc[u]
    BY <1>3
       DEF ReleasesLocal, ReleaseLocal, StopNothing, StopTail, AfterStop, session
  <2> QED
    BY <2>1 DEF Locking
<1>4. ASSUME NEW t \in Threads, StopBegin(t)
      PROVE  Locking'
  <2>1. lock = 0 /\ \A u \in Threads : pc[u] # "stopJoin"
    BY <1>4 DEF StopBegin, Locking
  <2>2. CASE channel # 0 /\ channel \in active
    BY <1>4, <2>1, <2>2 DEF StopBegin, Locking
  <2>3. CASE channel = 0 \/ channel \notin active
    <3>1. lock' = 0 /\ \A u \in Threads : pc'[u] # "stopJoin"
      BY <1>4, <2>1, <2>3 DEF StopBegin
    <3> QED
      BY <3>1 DEF Locking
  <2> QED
    BY <2>2, <2>3
<1>5. ASSUME NEW t \in Threads, StopWaited(t)
      PROVE  Locking'
  <2>1. pc[t] = "stopJoin" /\ lock' = 0 /\ pc' = [pc EXCEPT ![t] = "stopTail"]
    BY <1>5 DEF StopWaited, StopJoined, StopTimeout, StopEnd
  <2> QED
    BY <2>1 DEF Locking
<1>6. ASSUME NEW c \in Channels,
             \/ RecordFrame(c) \/ RecordError(c) \/ HandlerTail(c) \/ CheckTarget(c)
             \/ TakeEvent(c) \/ HardwareMoves(c)
      PROVE  Locking'
  <2>1. UNCHANGED <<lock, channelState, channel>> /\ (lock # 0 => loc' = loc)
    BY <1>6, HardwareMovesOnly
       DEF RecordFrame, RecordError, HandlerTail, FrameTail, ErrorTail, CheckTarget,
           TakeEvent, session, threads
  <2>2. \A u \in Threads : pc'[u] = "stopJoin" <=> pc[u] = "stopJoin"
    BY <1>6, HardwareMovesOnly
       DEF RecordFrame, RecordError, HandlerTail, FrameTail, ErrorTail, CheckTarget,
           TakeEvent, Handler, threads
  <2> QED
    BY <1>1, <2>1, <2>2
<1>7. CASE UNCHANGED vars
  BY <1>1, <1>7 DEF vars
<1> QED
  BY <1>2, <1>3, <1>4, <1>5, <1>6, <1>7, Steps

(* A session begins in the second phase of Start only, and its starter is  *)
(* nowhere else by then.                                                   *)
LEMMA RolesStep ==
    ASSUME OneStarter, Types, Locking, Roles, [Next]_vars PROVE Roles'
<1> USE Kinds, ManagerAssumption
        DEF Types, ThreadTypes, Goto, Enter, Starting, Disposing
<1>1. CASE /\ disposer' = disposer
           /\ channelState' = channelState \/ channelState' # "Active"
           /\ \A t \in Threads :
                 /\ pc'[t] \in Starting => pc[t] \in Starting /\ channelState' = "None"
                 /\ pc'[t] = "disposeDetach" => t = disposer
                 /\ t = disposer /\ pc'[t] \in Disposing
                       => pc[t] \in Disposing \/ channelState' # "Active"
  BY <1>1 DEF Roles
<1>2. CASE /\ UNCHANGED <<channelState, disposer>>
           /\ \A t \in Threads :
                 /\ pc'[t] \in Starting => pc[t] \in Starting
                 /\ pc'[t] \in Disposing => pc'[t] = pc[t]
  BY <1>2 DEF Roles
<1>3. ASSUME NEW t \in Clients,
             ClientMoves(t) \/ ReleasesLocal(t) \/ Registers(t) \/ ClearTrigger(t)
      PROVE  Roles'
  <2>1. UNCHANGED <<channelState, disposer>>
    BY <1>3, ClientMovesOnly
       DEF ReleasesLocal, ReleaseLocal, Registers, TriggerAsync, ClearTrigger,
           session
  <2>2. /\ \A u \in Threads \ {t} : pc'[u] = pc[u]
        /\ pc'[t] \in Starting => pc[t] \in Starting
        /\ pc'[t] \in Disposing => pc'[t] = pc[t]
    BY <1>3, ClientMovesOnly
       DEF ReleasesLocal, ReleaseLocal, Registers, TriggerAsync, ClearTrigger
  <2> QED
    BY <1>2, <2>1, <2>2
<1>4. ASSUME NEW t \in Clients, t \in Starters, StartCheck(t)
      PROVE  Roles'
  <2>1. /\ disposer' = disposer /\ pc'[t] \in Starting
        /\ \A u \in Threads \ {t} : pc'[u] = pc[u]
        /\ channelState' = "None" /\ channelState # "Active"
    BY <1>4 DEF StartCheck, SessionTypes
  <2> QED
    BY <1>4, <2>1 DEF Roles
<1>5. ASSUME NEW t \in Clients, StartFails(t) \/ StartsSession(t)
      PROVE  Roles'
  <2>1. /\ pc[t] = "start" /\ t \in Starters /\ disposer' = disposer
        /\ \A u \in Threads \ {t} : pc'[u] = pc[u]
        /\ \/ pc'[t] = "startFailed" /\ channelState' = channelState
           \/ pc'[t] = "startTail"
    BY <1>5 DEF StartFails, StartsSession, StartSession, Roles
  <2>2. \A u \in Threads : u # t => pc[u] \notin Starting
    BY <2>1 DEF Roles, OneStarter
  <2>3. \A u \in Threads : u # t => u # disposer
    BY <2>1 DEF Roles, OneStarter
  <2> QED
    BY <2>1, <2>2, <2>3 DEF Roles
<1>6. ASSUME NEW t \in Clients, t \in Hosts, Dispose(t)
      PROVE  Roles'
  <2>1. /\ UNCHANGED channelState /\ disposer' = t /\ disposer = 0
        /\ \A u \in Threads \ {t} : pc'[u] = pc[u]
        /\ pc'[t] = "stop"
    BY <1>6 DEF Dispose, session
  <2> QED
    BY <1>6, <2>1 DEF Roles
<1>7. ASSUME NEW t \in Clients, ReleaseChannel(t) \/ DisposeDetach(t)
      PROVE  Roles'
  <2>1. /\ channelState' = "None" /\ disposer' = disposer
        /\ \A u \in Threads \ {t} : pc'[u] = pc[u]
        /\ pc'[t] = "release"
    BY <1>7 DEF ReleaseChannel, DisposeDetach
  <2> QED
    BY <2>1 DEF Roles
<1>8. ASSUME NEW t \in Threads,
             StopNothing(t) \/ StopBegin(t) \/ StopWaited(t) \/ StopTail(t)
      PROVE  Roles'
  <2>1. /\ disposer' = disposer
        /\ \/ channelState' = channelState
           \/ channelState' = "Idle" /\ channelState = "Active"
    BY <1>8
       DEF StopNothing, StopBegin, StopWaited, StopJoined, StopTimeout, StopEnd,
           StopTail, session
  <2>2. /\ \A u \in Threads \ {t} : pc'[u] = pc[u]
        /\ pc'[t] \notin Starting
        /\ pc'[t] = "disposeDetach" => t = disposer
        /\ t = disposer /\ pc'[t] \in Disposing
              => pc[t] \in Disposing \/ channelState' # "Active"
    BY <1>8
       DEF StopNothing, StopBegin, StopWaited, StopJoined, StopTimeout, StopEnd,
           StopTail, AfterStop, session
  <2> QED
    BY <2>1, <2>2 DEF Roles
<1>9. ASSUME NEW c \in Channels,
             \/ RecordFrame(c) \/ RecordError(c) \/ HandlerTail(c) \/ CheckTarget(c)
             \/ TakeEvent(c) \/ HardwareMoves(c)
      PROVE  Roles'
  <2>1. UNCHANGED <<channelState, disposer>>
    BY <1>9, HardwareMovesOnly
       DEF RecordFrame, RecordError, HandlerTail, FrameTail, ErrorTail, CheckTarget,
           TakeEvent, session, threads
  <2>2. \A u \in Threads : pc'[u] = pc[u] \/ pc'[u] \notin Starting \cup Disposing
    BY <1>9, HardwareMovesOnly
       DEF RecordFrame, RecordError, HandlerTail, FrameTail, ErrorTail, CheckTarget,
           TakeEvent, Handler, threads
  <2> QED
    BY <1>2, <2>1, <2>2
<1>10. CASE UNCHANGED vars
  BY <1>2, <1>10 DEF vars
<1> QED
  BY <1>3, <1>4, <1>5, <1>6, <1>7, <1>8, <1>9, <1>10, Steps

(* The manager matches its channel: the events of a session's channel      *)
(* reach the manager until the stop has waited for its loop, and the timer *)
(* runs with the session.                                                  *)
Matching ==
    /\ channelState = "None" <=> channel = 0
    /\ subscribed = IF channelState = "Active" \/ lock # 0 THEN {channel} ELSE {}
    /\ timers # {} => timers = {channel} /\ timer = channel /\ channelState = "Active"

(* The channel, the subscription and the timer come and go together. *)
LEMMA MatchingStep ==
    ASSUME OneStarter, Types, Locking, Roles, Matching, [Next]_vars PROVE Matching'
<1> USE Kinds, ManagerAssumption DEF Enter
<1>1. CASE UNCHANGED <<channelState, channel, subscribed, lock, timing>>
  BY <1>1 DEF Matching, timing
<1>2. ASSUME NEW t \in Clients, StartCheck(t) \/ ReleaseChannel(t) PROVE Matching'
  BY <1>2
     DEF StartCheck, ReleaseChannel, Matching, timing, wiring, Types, SessionTypes
<1>3. ASSUME NEW t \in Clients, DisposeDetach(t) PROVE Matching'
  <2>1. channelState # "Active"
    BY <1>3 DEF DisposeDetach, Roles, Starting, Disposing
  <2> QED
    BY <1>3, <2>1 DEF DisposeDetach, Matching, timing, wiring
<1>4. ASSUME NEW t \in Clients, StartFails(t) PROVE Matching'
  <2>1. channelState = "None"
    BY <1>4 DEF StartFails, Roles, Starting, Disposing
  <2> QED
    BY <1>4, <2>1 DEF StartFails, Matching, timing
<1>5. ASSUME NEW t \in Clients, StartsSession(t)
      PROVE  Matching'
  <2>1. channelState = "None" /\ lock = 0
    BY <1>5 DEF StartsSession, StartSession, Roles, Starting, Disposing
  <2>2. subscribed = {} /\ timers = {}
    BY <2>1 DEF Matching
  <2>3. created + 1 # 0
    BY <1>5 DEF Types, SessionTypes
  <2> QED
    BY <1>5, <2>1, <2>2, <2>3 DEF StartsSession, StartSession, Matching, timing
<1>6. ASSUME NEW t \in Threads, StopBegin(t) PROVE Matching'
  <2>1. /\ channelState = "Active" /\ lock = 0 /\ channelState' = "Idle"
        /\ channel' = channel /\ channel # 0
    BY <1>6 DEF StopBegin, Matching
  <2>2. subscribed = {channel} /\ timers' = {}
    BY <1>6, <2>1 DEF StopBegin, DisposeTimer, Matching
  <2>3. subscribed' = IF lock' # 0 THEN {channel} ELSE {}
    BY <1>6, <2>1, <2>2 DEF StopBegin
  <2> QED
    BY <2>1, <2>2, <2>3 DEF Matching
<1>7. ASSUME NEW t \in Threads, StopWaited(t) PROVE Matching'
  <2>1. /\ lock' = 0 /\ UNCHANGED <<channelState, channel, timing>>
        /\ subscribed' = subscribed \ {loc[t]}
        /\ pc[t] = "stopJoin"
    BY <1>7 DEF StopWaited, StopJoined, StopTimeout, StopEnd, session
  <2>2. lock = t /\ channelState = "Idle" /\ loc[t] = channel
    BY <2>1 DEF Locking
  <2> QED
    BY <2>1, <2>2 DEF Matching, timing
<1> QED
  BY <1>1, <1>2, <1>3, <1>4, <1>5, <1>6, <1>7, DeliveryMoves

(* The positions of a thread that has taken a trigger away. *)
Takers == {"stopJoin", "stopTail", "frameTail", "errorTail", "overrunTail"}

(* A trigger that was taken is not the registered one, so that whoever     *)
(* completes it leaves the registered one pending.                         *)
TriggerTaken ==
    /\ channel \in active => channelState = "Active"
    /\ TriggerBelongsToSession
    /\ \A t \in Threads : pc[t] \in Takers /\ tcs[t] # 0 => tcs[t] # triggerTcs

(* A trigger is registered while the session is active, and taken away     *)
(* with it.                                                                *)
LEMMA TriggerTakenStep ==
    ASSUME OneStarter, Types, Locking, Roles, Matching, TriggerTaken, [Next]_vars
      PROVE  TriggerTaken'
<1> USE Kinds, ManagerAssumption
        DEF Enter, Types, ThreadTypes, TriggerTypes, Goto, SetTcs
<1> DEFINE ActiveOnly == channel \in active => channelState = "Active"
<1> DEFINE Registered ==
      triggerTcs # 0 => tcsState[triggerTcs] = "pending" /\ channelState = "Active"
<1> DEFINE Apart ==
      \A t \in Threads : pc[t] \in Takers /\ tcs[t] # 0 => tcs[t] # triggerTcs
<1>1. ActiveOnly /\ Registered /\ Apart /\ 0 \notin active
  BY DEF TriggerTaken, TriggerBelongsToSession, ChannelTypes
<1>2. ASSUME ActiveOnly', Registered', Apart' PROVE TriggerTaken'
  BY <1>2 DEF TriggerTaken, TriggerBelongsToSession
<1>3. CASE /\ UNCHANGED <<triggerTcs, tcsState, channelState, channel>>
           /\ active' \subseteq active
           /\ \A t \in Threads :
                 pc'[t] \in Takers => pc[t] \in Takers /\ tcs'[t] = tcs[t]
  BY <1>1, <1>2, <1>3
<1>4. ASSUME NEW t \in Clients, StartCheck(t)
      PROVE  TriggerTaken'
  <2>1. UNCHANGED <<triggerTcs, active>> /\ triggerTcs = 0
    BY <1>1, <1>4 DEF StartCheck, hardware, trigger
  <2>2. ActiveOnly'
    BY <1>1, <1>4, <2>1 DEF StartCheck
  <2> QED
    BY <1>2, <2>1, <2>2
<1>5. ASSUME NEW t \in Clients, ReleaseChannel(t) \/ DisposeDetach(t) \/ StartFails(t)
      PROVE  TriggerTaken'
  <2>1. UNCHANGED <<triggerTcs, active>> /\ channel' = 0 /\ channelState # "Active"
    BY <1>5
       DEF ReleaseChannel, DisposeDetach, StartFails, hardware, trigger, Roles,
           Starting, Disposing
  <2> QED
    BY <1>1, <1>2, <2>1
<1>6. ASSUME NEW t \in Clients, StartsSession(t)
      PROVE  TriggerTaken'
  <2>1. channelState = "None" /\ channelState' = "Active" /\ triggerTcs' = triggerTcs
    BY <1>6 DEF StartsSession, StartSession, Roles, Starting, Disposing, trigger
  <2> QED
    BY <1>1, <1>2, <2>1
<1>7. ASSUME NEW t \in Threads,
             StopBegin(t) \/ RecordFrame(t) \/ RecordError(t) \/ ClearTrigger(t)
      PROVE  TriggerTaken'
  <2>1. triggerTcs' = 0
    BY <1>7 DEF StopBegin, RecordFrame, RecordError, ClearTrigger, TakeTrigger
  <2>2. ActiveOnly'
    BY <1>1, <1>7
       DEF StopBegin, RecordFrame, RecordError, ClearTrigger, session, hardware
  <2> QED
    BY <1>2, <2>1, <2>2
<1>8. ASSUME NEW t \in Threads, StopTail(t) \/ HandlerTail(t)
      PROVE  TriggerTaken'
  <2>1. /\ pc[t] \in Takers /\ pc'[t] \notin Takers
        /\ UNCHANGED <<triggerTcs, channelState, channel, active>>
        /\ tcs' = [tcs EXCEPT ![t] = 0] /\ \A u \in Threads \ {t} : pc'[u] = pc[u]
    BY <1>8
       DEF StopTail, HandlerTail, FrameTail, ErrorTail, Takers, AfterStop, session,
           hardware
  <2>2. triggerTcs # 0 => tcsState'[triggerTcs] = tcsState[triggerTcs]
    <3>1. tcs[t] # 0 => tcs[t] # triggerTcs
      BY <1>1, <2>1
    <3>2. \E outcome : Complete(tcs[t], outcome)
      BY <1>8 DEF StopTail, HandlerTail, FrameTail, ErrorTail
    <3>3. triggerTcs # 0 => triggerTcs \in Triggers
      BY DEF Triggers
    <3> QED
      BY <3>1, <3>2, <3>3 DEF Complete
  <2> QED
    BY <1>1, <1>2, <2>1, <2>2
<1>9. ASSUME NEW t \in Clients, Registers(t)
      PROVE  TriggerTaken'
  <2>1. nextTcs + 1 \in Triggers
    BY <1>9 DEF Registers, TriggerAsync, Triggers
  <2>2. /\ triggerTcs' = nextTcs + 1 /\ tcsState'[nextTcs + 1] = "pending"
        /\ UNCHANGED <<channelState, channel, active>> /\ channelState = "Active"
    BY <1>1, <1>9, <2>1 DEF Registers, TriggerAsync, session, hardware
  <2>3. \A u \in Threads : /\ pc'[u] \in Takers => pc[u] \in Takers /\ tcs'[u] = tcs[u]
                            /\ tcs[u] # nextTcs + 1
    BY <1>9 DEF Registers, TriggerAsync, Takers
  <2> QED
    BY <1>1, <1>2, <2>2, <2>3
<1>10. ASSUME NEW t \in Clients, ClientMoves(t) \/ ReleasesLocal(t) \/ Dispose(t)
       PROVE  TriggerTaken'
  <2>1. /\ UNCHANGED <<triggerTcs, tcsState, channelState, channel>>
        /\ active' \subseteq active
    BY <1>10, ClientMovesOnly
       DEF ReleasesLocal, ReleaseLocal, Dispose, session, hardware, trigger
  <2>2. \A u \in Threads : pc'[u] \in Takers => pc[u] \in Takers /\ tcs'[u] = tcs[u]
    BY <1>10, ClientMovesOnly DEF ReleasesLocal, ReleaseLocal, Dispose, Takers
  <2> QED
    BY <1>3, <2>1, <2>2
<1>11. ASSUME NEW t \in Threads,
              \/ StopNothing(t) \/ StopWaited(t) \/ CheckTarget(t)
              \/ TakeEvent(t) \/ HardwareMoves(t)
       PROVE  TriggerTaken'
  <2>1. /\ UNCHANGED <<triggerTcs, tcsState, channelState, channel, tcs>>
        /\ active' \subseteq active
    BY <1>11, HardwareMovesOnly
       DEF StopNothing, StopWaited, StopJoined, StopTimeout, StopEnd, CheckTarget,
           TakeEvent, session, hardware, trigger, threads
  <2>2. \A u \in Threads : pc'[u] \in Takers => pc[u] \in Takers
    BY <1>11, HardwareMovesOnly
       DEF StopNothing, StopWaited, StopJoined, StopTimeout, StopEnd, CheckTarget,
           TakeEvent, Handler, Takers, AfterStop, threads
  <2> QED
    BY <1>3, <2>1, <2>2
<1>12. CASE UNCHANGED vars
  BY <1>3, <1>12 DEF vars
<1> QED
  BY <1>4, <1>5, <1>6, <1>7, <1>8, <1>9, <1>10, <1>11, <1>12, Steps

(* A loop on its way to record a frame is that of the session's channel,   *)
(* or was left behind by a stop.                                           *)
FrameKnown ==
    /\ LatestFrameIsOurs
    /\ \A c \in Channels : pc[c] = "frame" => c \in subscribed \cup abandoned

(* A stop that did not wait for a handler remembers whose it is. *)
LEMMA FrameKnownStep ==
    ASSUME OneStarter, Types, Locking, Roles, Matching, FrameKnown, [Next]_vars
    PROVE  FrameKnown'
<1> USE Kinds, ManagerAssumption DEF Enter, Types, ThreadTypes, Goto
<1>1. /\ disposer = 0 => lastFrame \in {0, channel} \cup abandoned
      /\ \A c \in Channels : pc[c] = "frame" => c \in subscribed \cup abandoned
  BY DEF FrameKnown, LatestFrameIsOurs
<1>2. ASSUME disposer' = 0 => lastFrame' \in {0, channel'} \cup abandoned',
             \A c \in Channels : pc'[c] = "frame" => c \in subscribed' \cup abandoned'
      PROVE  FrameKnown'
  BY <1>2 DEF FrameKnown, LatestFrameIsOurs
<1>3. \A c \in Channels : pc'[c] = "frame" => pc[c] = "frame" \/ c \in subscribed
  BY LoopMoves DEF TakeEvent
<1>4. CASE /\ disposer' = 0 => disposer = 0
           /\ disposer' = 0 => lastFrame' = 0 \/ UNCHANGED <<lastFrame, channel>>
           /\ UNCHANGED <<subscribed, abandoned>>
  BY <1>1, <1>2, <1>3, <1>4
<1>5. ASSUME NEW t \in Clients,
             StartCheck(t) \/ StartFails(t) \/ ReleaseChannel(t) \/ DisposeDetach(t)
      PROVE  FrameKnown'
  <2>1. UNCHANGED <<disposer, subscribed, abandoned>>
    BY <1>5 DEF StartCheck, StartFails, ReleaseChannel, DisposeDetach, wiring
  <2>2. DisposeDetach(t) => disposer # 0
    BY DEF DisposeDetach, Roles, Starting, Disposing
  <2>3. ~DisposeDetach(t) => lastFrame' = 0 \/ UNCHANGED <<lastFrame, channel>>
    BY <1>5 DEF StartCheck, StartFails, ReleaseChannel
  <2> QED
    BY <1>4, <2>1, <2>2, <2>3
<1>6. ASSUME NEW t \in Clients, StartsSession(t)
      PROVE  FrameKnown'
  BY <1>1, <1>2, <1>3, <1>6 DEF StartsSession, StartSession
<1>7. ASSUME NEW t \in Threads, StopBegin(t)
      PROVE  FrameKnown'
  <2>1. UNCHANGED <<disposer, lastFrame, channel>> /\ abandoned \subseteq abandoned'
    BY <1>7 DEF StopBegin, frames
  <2>2. subscribed = {channel} /\ channel # 0
    BY <1>7 DEF StopBegin, Matching
  <2>3. \A c \in Channels : pc'[c] = "frame" => c # t /\ pc[c] = "frame"
    BY <1>7 DEF StopBegin
  <2>4. \A c \in Channels :
           c # t /\ pc[c] = "frame" => c \in subscribed' \cup abandoned'
    BY <1>1, <1>7, <2>2 DEF StopBegin, Resting
  <2> QED
    BY <1>1, <1>2, <2>1, <2>3, <2>4
<1>8. ASSUME NEW t \in Threads, StopWaited(t)
      PROVE  FrameKnown'
  <2>1. /\ UNCHANGED <<disposer, lastFrame, channel>> /\ abandoned \subseteq abandoned'
        /\ subscribed' = subscribed \ {loc[t]}
        /\ \A c \in Channels : pc'[c] = "frame" => pc[c] = "frame"
        /\ loc[t] \in abandoned' \/ pc[loc[t]] = "idle"
    BY <1>8
       DEF StopWaited, StopJoined, StopTimeout, StopEnd, Joined, Resting, session,
           frames
  <2> QED
    BY <1>1, <1>2, <2>1
<1>9. ASSUME NEW d \in Channels, RecordFrame(d)
      PROVE  FrameKnown'
  <2>1. /\ UNCHANGED <<disposer, channel, subscribed, abandoned>>
        /\ lastFrame' = d /\ pc[d] = "frame" /\ lock = 0
    BY <1>9 DEF RecordFrame, wiring
  <2>2. d \in {channel} \cup abandoned
    BY <1>1, <2>1 DEF Matching
  <2> QED
    BY <1>1, <1>2, <1>3, <2>1, <2>2
<1>10. ASSUME NEW t \in Clients,
              \/ ClientMoves(t) \/ ReleasesLocal(t) \/ Dispose(t)
              \/ Registers(t) \/ ClearTrigger(t)
       PROVE  FrameKnown'
  <2>1. /\ UNCHANGED <<lastFrame, channel, subscribed, abandoned>>
        /\ disposer' = 0 => disposer = 0
    BY <1>10, ClientMovesOnly
       DEF ReleasesLocal, ReleaseLocal, Dispose, Registers, TriggerAsync,
           ClearTrigger, session, frames, wiring
  <2> QED
    BY <1>4, <2>1
<1>11. ASSUME NEW t \in Threads,
              \/ StopNothing(t) \/ StopTail(t) \/ RecordError(t) \/ HandlerTail(t)
              \/ CheckTarget(t) \/ TakeEvent(t) \/ HardwareMoves(t)
       PROVE  FrameKnown'
  <2>1. UNCHANGED <<disposer, lastFrame, channel, subscribed, abandoned>>
    BY <1>11, HardwareMovesOnly
       DEF StopNothing, StopTail, RecordError, HandlerTail, FrameTail, ErrorTail,
           CheckTarget, TakeEvent, session, frames, threads, wiring
  <2> QED
    BY <1>4, <2>1
<1>12. CASE UNCHANGED vars
  BY <1>4, <1>12 DEF vars
<1> QED
  BY <1>5, <1>6, <1>7, <1>8, <1>9, <1>10, <1>11, <1>12, Steps

(* The parts hold together. *)
SessionInv == Types /\ Locking /\ Roles /\ Matching /\ TriggerTaken /\ FrameKnown

(* No session is there at the start. *)
LEMMA SessionStart == Init => SessionInv
<1> SUFFICES ASSUME Init PROVE SessionInv
  OBVIOUS
<1>1. Types
  BY TypesStart
<1>2. Locking /\ Roles
  BY Kinds DEF Init, Locking, Roles, Starting, Disposing
<1>3. Matching
  BY DEF Init, Matching
<1>4. TriggerTaken
  BY DEF Init, TriggerTaken, Takers, TriggerBelongsToSession
<1>5. FrameKnown
  BY Kinds DEF Init, FrameKnown, LatestFrameIsOurs
<1> QED
  BY <1>1, <1>2, <1>3, <1>4, <1>5 DEF SessionInv

(* Every step keeps them. *)
LEMMA SessionInvHolds ==
    ASSUME OneStarter
    PROVE  Spec => []SessionInv
<1>1. SessionInv /\ [Next]_vars => SessionInv'
  BY TypesStep, LockingStep, RolesStep, MatchingStep, TriggerTakenStep,
     FrameKnownStep
     DEF SessionInv
<1> QED
  BY SessionStart, <1>1, PTL DEF Spec

(* The state, the channel, its subscription and the timer agree in every   *)
(* state, whatever stops, joins that give up, sequences that end by        *)
(* themselves, handlers and disposals come between.                        *)
THEOREM Consistent ==
    ASSUME OneStarter
    PROVE  Spec => []StateMatchesChannel
<1>1. SessionInv => StateMatchesChannel
  BY DEF SessionInv, Matching, StateMatchesChannel
<1> QED
  BY SessionInvHolds, <1>1, PTL

(* A registered trigger is pending and its session active: no frame,       *)
(* error, stop or time-out completes it and leaves it registered, or       *)
(* leaves it behind when the session ends.                                 *)
THEOREM NoVainWait ==
    ASSUME OneStarter
    PROVE  Spec => []TriggerBelongsToSession
<1>1. SessionInv => TriggerBelongsToSession
  BY DEF SessionInv, TriggerTaken
<1> QED
  BY SessionInvHolds, <1>1, PTL

(* The latest frame is one of the channel at hand, or of one whose handler *)
(* a stop did not wait for.                                                *)
THEOREM OurFrame ==
    ASSUME OneStarter
    PROVE  Spec => []LatestFrameIsOurs
<1>1. SessionInv => LatestFrameIsOurs
  BY DEF SessionInv, FrameKnown
<1> QED
  BY SessionInvHolds, <1>1, PTL

(* Every step of the manager is one of the promise, or none of its         *)
(* business.                                                               *)
LEMMA PromiseKept ==
    ASSUME OneStarter, SessionInv, [Next]_vars
    PROVE  Promise!Next \/ UNCHANGED Promise!vars
<1> USE DEF Enter, Promise!Next, Promise!vars, SessionInv, Matching
<1>1. ASSUME NEW t \in Clients, StartCheck(t) \/ ReleaseChannel(t) \/ DisposeDetach(t)
      PROVE  Promise!Next \/ UNCHANGED Promise!vars
  <2>1. channelState # "Active" /\ lock = 0 /\ subscribed' = subscribed
        /\ \/ UNCHANGED <<channelState, channel>>
           \/ channelState' = "None" /\ channel' = 0
    BY <1>1
       DEF StartCheck, ReleaseChannel, DisposeDetach, wiring, Roles, Starting,
           Disposing, Types, ThreadTypes, Threads
  <2> QED
    BY <2>1 DEF Promise!Release, Types, SessionTypes
<1>2. ASSUME NEW t \in Clients, StartFails(t)
      PROVE  Promise!Next \/ UNCHANGED Promise!vars
  <2>1. channelState = "None"
    BY <1>2 DEF StartFails, Roles, Starting, Disposing, Threads
  <2> QED
    BY <1>2, <2>1 DEF StartFails
<1>3. ASSUME NEW t \in Clients, StartsSession(t)
      PROVE  Promise!Next \/ UNCHANGED Promise!vars
  <2>1. channelState = "None" /\ subscribed = {} /\ created + 1 \in Channels
    BY <1>3, ManagerAssumption
       DEF StartsSession, StartSession, Roles, Starting, Disposing, Threads, Types,
           SessionTypes, Channels
  <2> QED
    BY <1>3, <2>1 DEF StartsSession, StartSession, Promise!Begin
<1>4. ASSUME NEW t \in Threads, StopBegin(t)
      PROVE  Promise!Next \/ UNCHANGED Promise!vars
  <2>1. /\ subscribed' \in {subscribed, subscribed \ {channel}}
        /\ channelState = "Active" /\ channelState' = "Idle" /\ channel' = channel
    BY <1>4 DEF StopBegin
  <2> QED
    BY <2>1 DEF Promise!End
<1>5. ASSUME NEW t \in Threads, StopWaited(t)
      PROVE  Promise!Next \/ UNCHANGED Promise!vars
  <2>1. /\ UNCHANGED <<channelState, channel>>
        /\ subscribed' = subscribed \ {loc[t]} /\ pc[t] = "stopJoin"
    BY <1>5 DEF StopWaited, StopJoined, StopTimeout, StopEnd, session
  <2>2. lock = t /\ t # 0
    BY <2>1, Kinds DEF Locking
  <2> QED
    BY <2>1, <2>2 DEF Locking, Promise!Silence
<1>6. CASE UNCHANGED <<channelState, channel, subscribed, lock, timing>>
  BY <1>6
<1> HIDE DEF Promise!Next, Promise!vars, SessionInv, Matching
<1> QED
  BY <1>1, <1>2, <1>3, <1>4, <1>5, <1>6, DeliveryMoves

(* The manager implements IAcquisitionSession's promise: one session at a  *)
(* time, begun when the last one's channel is released and silent.         *)
THEOREM KeepsPromise ==
    ASSUME OneStarter
    PROVE  Spec => OneSessionAtATime
<1>1. Init => Promise!Init
  BY DEF Init, Promise!Init
<1>2. SessionInv /\ [Next]_vars => [Promise!Next]_Promise!vars
  BY PromiseKept
<1> QED
  BY <1>1, <1>2, SessionInvHolds, PTL DEF Spec, OneSessionAtATime, Promise!Spec

===============================================================================
