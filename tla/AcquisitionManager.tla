--------------------------- MODULE AcquisitionManager ---------------------------
(***************************************************************************)
(* The acquisition session of the API (AcquisitionManager.cs): Start, Stop,*)
(* ReleaseChannel, TriggerAsync and Dispose called by HTTP threads, and    *)
(* the event handlers called by each channel's processing loop, all        *)
(* sharing the manager's _lock.                                            *)
(*                                                                         *)
(* A thread is a client (an HTTP request or the host), a pool task made by *)
(* Task.Run(Stop), or the processing loop of channel c, which is thread c. *)
(* A channel is what GrabChannel offers: hardware that may run, an         *)
(* IsActive flag, a queue of events its loop hands to the subscribers one  *)
(* at a time, and StopAcquisition, which joins that loop or gives up.      *)
(* Sections under the lock are one step each, except Stop's: it holds the  *)
(* lock while it waits for the loop.                                       *)
(***************************************************************************)
EXTENDS Integers, Sequences, FiniteSets

CONSTANTS
    Clients,        \* threads of requests
    Starters,       \* those that may call Start
    Stoppers,       \* those that may call Stop and ReleaseChannel
    Hosts,          \* those that may call Dispose
    Triggerers,     \* those that may call TriggerAsync
    Tasks,          \* slots for Task.Run(Stop); bound: tasks alive at once
    MaxChannels,    \* bound: channels created in a run
    MaxEvents,      \* bound: frames and errors one channel signals
    MaxTriggers,    \* bound: TriggerAsync calls that register in a run
    Targets,        \* FrameCount of configurations; 0 stands for none
    Intervals,      \* whether a configuration has an IntervalMs
    SoftTriggers,   \* whether the profile's trigger mode is SOFT or COMBINED
    Errors          \* error signals the hardware may raise

Channels == 1..MaxChannels
Triggers == 1..MaxTriggers
Threads == Clients \cup Tasks \cup Channels

ASSUME ManagerAssumption ==
    /\ Starters \cup Stoppers \cup Hosts \cup Triggerers \subseteq Clients
    /\ Clients \cap Tasks = {}
    /\ (Clients \cup Tasks) \cap Nat = {}
    /\ MaxChannels \in Nat \ {0} /\ MaxTriggers \in Nat /\ MaxEvents \in Nat
    /\ Targets \subseteq Nat /\ Intervals \subseteq BOOLEAN /\ SoftTriggers \in BOOLEAN
    /\ Errors \subseteq {"OVERRUN", "CLUSTER_UNAVAILABLE", "FAILURE"}

VARIABLES
    channelState,   \* _channelState
    channel,        \* _channel, 0 is null
    config,         \* _activeConfig: its FrameCount, or NoConfig
    stats,          \* _statistics: its FrameCount, or NoStats
    lastFrame,      \* _lastFrame: the channel it came from, 0 is null
    lastError,      \* _lastError: the channel it came from, 0 is null
    triggerTcs,     \* _triggerTcs, 0 is null
    timer,          \* _triggerTimer: the session it was made for, 0 is null
    timers,         \* the timers alive
    lock,           \* who holds _lock across steps, 0 is nobody
    pc, loc, tcs,   \* each thread's position, local channel, local TCS
    disposer,       \* the client that set _disposed, 0 while it is false
    tcsState,       \* each TaskCompletionSource
    nextTcs,        \* how many were made
    created,        \* how many channels were created
    running,        \* channels whose hardware acquires
    active,         \* channels whose IsActive is true
    subscribed,     \* channels whose events reach the manager
    closed,         \* channels whose queue was shut down
    events,         \* each channel's queue of events
    signalled,      \* how many frames and errors each channel signalled
    abandoned       \* channels stopped while their loop was in a handler

session  == <<channelState, channel, config, stats>>
frames   == <<lastFrame, lastError>>
trigger  == <<triggerTcs, tcsState, nextTcs>>
timing   == <<timer, timers>>
threads  == <<pc, loc, tcs, disposer>>
hardware == <<running, active, events, signalled>>
wiring   == <<created, subscribed, closed, abandoned>>
vars == <<channelState, channel, config, stats, lastFrame, lastError, triggerTcs,
          timer, timers, lock, pc, loc, tcs, disposer, tcsState, nextTcs, created,
          running, active, subscribed, closed, events, signalled, abandoned>>

NoConfig == -1
NoStats == -1

Init ==
    /\ channelState = "None" /\ channel = 0
    /\ config = NoConfig /\ stats = NoStats
    /\ lastFrame = 0 /\ lastError = 0
    /\ triggerTcs = 0 /\ timer = 0 /\ timers = {}
    /\ lock = 0
    /\ pc = [t \in Threads |-> "idle"]
    /\ loc = [t \in Threads |-> 0]
    /\ tcs = [t \in Threads |-> 0]
    /\ disposer = 0
    /\ tcsState = [i \in Triggers |-> "none"]
    /\ nextTcs = 0 /\ created = 0
    /\ running = {} /\ active = {} /\ subscribed = {} /\ closed = {}
    /\ events = [c \in Channels |-> << >>]
    /\ signalled = [c \in Channels |-> 0]
    /\ abandoned = {}

Goto(t, p) == pc' = [pc EXCEPT ![t] = p]
SetLoc(t, c) == loc' = [loc EXCEPT ![t] = c]
SetTcs(t, i) == tcs' = [tcs EXCEPT ![t] = i]

(* Thread t is at p and can enter a section under the lock. *)
Enter(t, p) == pc[t] = p /\ lock = 0

(* Definitions that no action uses are mistakes: the one that follows each *)
(* of them, replaced by it, breaks a property (PROJECT.json, "mutants").   *)

(* Mistake: the null TCS is completed too. *)
CompleteUnchecked(i, outcome) ==
    tcsState' = [j \in Triggers \cup {i} |-> IF j = i THEN outcome ELSE tcsState[j]]

(* A TaskCompletionSource is completed once; TrySet... on null does nothing. *)
Complete(i, outcome) ==
    tcsState' = IF i # 0 /\ tcsState[i] = "pending"
                  THEN [tcsState EXCEPT ![i] = outcome] ELSE tcsState

(* Mistake: the TCS stays in the field of whoever takes it. *)
PeekTrigger(t) == SetTcs(t, triggerTcs) /\ UNCHANGED triggerTcs

(* The caller takes the pending trigger away to complete it later. *)
TakeTrigger(t) == SetTcs(t, triggerTcs) /\ triggerTcs' = 0

(* Mistake: the timer is forgotten, not disposed of. *)
ForgetTimer == timer' = 0 /\ UNCHANGED timers

DisposeTimer == timer' = 0 /\ timers' = timers \ {timer}

(***************************************************************************)
(* The channels                                                            *)
(***************************************************************************)

Signal(c, e) == events' = [events EXCEPT ![c] = Append(@, e)]

(* A frame or an error; an overrun stops the acquisition. *)
HardwareSignals(c, e) ==
    /\ c \in running \ closed /\ signalled[c] < MaxEvents
    /\ Signal(c, e)
    /\ signalled' = [signalled EXCEPT ![c] = @ + 1]
    /\ IF e = "OVERRUN"
         THEN running' = running \ {c} /\ active' = active \ {c}
         ELSE UNCHANGED <<running, active>>
    /\ UNCHANGED <<session, frames, trigger, timing, lock, threads, wiring>>

(* The sequence ends. *)
HardwareEnds(c) ==
    /\ c \in running \ closed
    /\ Signal(c, "END")
    /\ running' = running \ {c} /\ active' = active \ {c}
    /\ UNCHANGED <<signalled, session, frames, trigger, timing, lock, threads, wiring>>

(* Mistake: nobody listens to the end of a sequence. *)
HandlerWithoutEnd(e) ==
    CASE e = "FRAME" -> "frame" [] e = "END" -> "idle"
      [] e = "OVERRUN" -> "overrun" [] OTHER -> "error"

Handler(e) ==
    CASE e = "FRAME" -> "frame" [] e = "END" -> "stop"
      [] e = "OVERRUN" -> "overrun" [] OTHER -> "error"

(* The loop of channel c takes an event and, if the manager is subscribed, *)
(* enters its handler: OnFrameAcquired, OnAcquisitionError or              *)
(* OnAcquisitionEnded, which is Stop.                                      *)
TakeEvent(c) ==
    /\ pc[c] = "idle" /\ events[c] # << >>
    /\ events' = [events EXCEPT ![c] = Tail(@)]
    /\ IF c \in subscribed
         THEN Goto(c, Handler(Head(events[c])))
         ELSE UNCHANGED pc
    /\ UNCHANGED <<session, frames, trigger, timing, lock, loc, tcs, disposer, running,
                   active, signalled, wiring>>

(***************************************************************************)
(* Start                                                                   *)
(***************************************************************************)

(* Phase 1: refuse when active, detach the idle channel. *)
StartCheck(t) ==
    /\ Enter(t, "idle")
    /\ channelState # "Active"
    /\ IF channelState = "Idle"
         THEN /\ SetLoc(t, channel) /\ Goto(t, "startRelease")
              /\ channel' = 0 /\ channelState' = "None"
              /\ lastFrame' = 0 /\ stats' = NoStats
         ELSE /\ Goto(t, "start")
              /\ UNCHANGED <<channel, channelState, lastFrame, stats, loc>>
    /\ UNCHANGED <<config, lastError, trigger, timing, lock, tcs, disposer, hardware, wiring>>

(* GrabService.ReleaseChannel disposes of a detached channel, outside the  *)
(* lock: its queue is closed and drained, its loop joined or left behind.  *)
ReleaseLocal(t, from, to) ==
    /\ pc[t] = from
    /\ IF loc[t] = 0
         THEN UNCHANGED <<closed, running, active, events>>
         ELSE /\ closed' = closed \cup {loc[t]}
              /\ running' = running \ {loc[t]} /\ active' = active \ {loc[t]}
              /\ events' = [events EXCEPT ![loc[t]] = << >>]
    /\ SetLoc(t, 0) /\ Goto(t, to)
    /\ UNCHANGED <<session, frames, trigger, timing, lock, tcs, disposer, signalled,
                   created, subscribed, abandoned>>

(* Phase 2, without looking at the state again. The profile is unknown or  *)
(* the channel cannot be created, ...                                      *)
StartNoChannel(t) ==
    /\ Enter(t, "start")
    /\ Goto(t, "idle")
    /\ UNCHANGED <<session, frames, trigger, timing, lock, loc, tcs, disposer,
                   hardware, wiring>>

(* Mistake: the state becomes Active before StartAcquisition throws. *)
StartFailsActive(t) ==
    /\ Enter(t, "start") /\ created < MaxChannels
    /\ created' = created + 1
    /\ SetLoc(t, created + 1) /\ Goto(t, "startFailed")
    /\ channelState' = "Active"
    /\ channel' = 0 /\ config' = NoConfig /\ stats' = NoStats
    /\ lastFrame' = 0 /\ lastError' = 0
    /\ UNCHANGED <<trigger, timing, lock, tcs, disposer, hardware, subscribed, closed,
                   abandoned>>

(* ... StartAcquisition throws and everything is rolled back, ... *)
StartFails(t) ==
    /\ Enter(t, "start") /\ created < MaxChannels
    /\ created' = created + 1
    /\ SetLoc(t, created + 1) /\ Goto(t, "startFailed")
    /\ channel' = 0 /\ config' = NoConfig /\ stats' = NoStats
    /\ lastFrame' = 0 /\ lastError' = 0
    /\ UNCHANGED <<channelState, trigger, timing, lock, tcs, disposer, hardware,
                   subscribed, closed, abandoned>>

(* ... or the session starts. A sequence that ends while StartAcquisition  *)
(* is still returning has its END in the queue and IsActive true.          *)
StartSession(t, target, interval, early) ==
    /\ Enter(t, "start") /\ created < MaxChannels
    /\ LET c == created + 1 IN
         /\ created' = c /\ channel' = c
         /\ active' = active \cup {c} /\ subscribed' = subscribed \cup {c}
         /\ IF early THEN UNCHANGED running /\ Signal(c, "END")
                     ELSE running' = running \cup {c} /\ UNCHANGED events
         /\ IF interval THEN timer' = c /\ timers' = timers \cup {c}
                        ELSE UNCHANGED timing
    /\ channelState' = "Active"
    /\ config' = target /\ stats' = 0
    /\ lastFrame' = 0 /\ lastError' = 0
    /\ Goto(t, "startTail")
    /\ UNCHANGED <<trigger, lock, loc, tcs, disposer, closed, signalled, abandoned>>

(* StatusChanged is raised outside the lock. *)
StartTail(t) ==
    /\ pc[t] = "startTail"
    /\ Goto(t, "idle")
    /\ UNCHANGED <<session, frames, trigger, timing, lock, loc, tcs, disposer,
                   hardware, wiring>>

Start(t) ==
    \/ ReleaseLocal(t, "startRelease", "start")
    \/ StartNoChannel(t) \/ StartFails(t)
    \/ \E target \in Targets, interval \in Intervals, early \in BOOLEAN :
          StartSession(t, target, interval, early)
    \/ ReleaseLocal(t, "startFailed", "idle")
    \/ StartTail(t)

(***************************************************************************)
(* Stop, run by clients, by pool tasks and by handlers                     *)
(***************************************************************************)

(* Where thread t goes when Stop returns: Dispose has more to do. *)
AfterStop(t) == IF t = disposer THEN "disposeDetach" ELSE "idle"

(* Nothing to stop. *)
StopNothing(t) ==
    /\ Enter(t, "stop") /\ channelState # "Active"
    /\ Goto(t, AfterStop(t)) /\ SetLoc(t, 0)
    /\ UNCHANGED <<session, frames, trigger, timing, lock, tcs, disposer, hardware, wiring>>

(* Loops that are in no handler. *)
Resting == {c \in Channels : pc[c] = "idle"}

(* The state changes at once; the channel is told to stop, and unless it   *)
(* had ended by itself the lock is kept while its loop is joined. With no  *)
(* channel the call throws here, its TCS forgotten.                        *)
StopBegin(t) ==
    /\ Enter(t, "stop") /\ channelState = "Active"
    /\ channelState' = "Idle" /\ config' = NoConfig
    /\ TakeTrigger(t)
    /\ DisposeTimer
    /\ IF channel = 0
         THEN /\ Goto(t, IF t = disposer THEN "gone" ELSE "idle") /\ SetLoc(t, 0)
              /\ UNCHANGED <<lock, active, running, closed, subscribed, abandoned>>
       ELSE IF channel \in active
         THEN /\ Goto(t, "stopJoin") /\ SetLoc(t, channel) /\ lock' = t
              /\ active' = active \ {channel} /\ running' = running \ {channel}
              /\ closed' = closed \cup {channel}
              /\ UNCHANGED <<subscribed, abandoned>>
         ELSE /\ Goto(t, "stopTail") /\ SetLoc(t, 0)
              /\ subscribed' = subscribed \ {channel}
              /\ abandoned' = abandoned \cup ({channel} \ ({t} \cup Resting))
              /\ UNCHANGED <<lock, active, running, closed>>
    /\ UNCHANGED <<channel, stats, frames, tcsState, nextTcs, disposer, created,
                   events, signalled>>

(* Mistake: an empty queue is taken for a loop that is through. *)
QueueEmpty(t) == events[loc[t]] = << >>

(* The loop is through, ... *)
Joined(t) == loc[t] \in Resting /\ events[loc[t]] = << >>

(* Mistake: the handlers stay subscribed. *)
StopEndSubscribed(t) ==
    /\ pc[t] = "stopJoin"
    /\ events' = [events EXCEPT ![loc[t]] = << >>]
    /\ lock' = 0
    /\ Goto(t, "stopTail") /\ SetLoc(t, 0)
    /\ UNCHANGED <<session, frames, trigger, timing, tcs, disposer, running, active,
                   signalled, created, subscribed, closed>>

(* ... or two seconds have passed; what is left in the queue is drained,   *)
(* the handlers are unsubscribed, the lock released.                       *)
StopEnd(t) ==
    /\ pc[t] = "stopJoin"
    /\ events' = [events EXCEPT ![loc[t]] = << >>]
    /\ subscribed' = subscribed \ {loc[t]}
    /\ lock' = 0
    /\ Goto(t, "stopTail") /\ SetLoc(t, 0)
    /\ UNCHANGED <<session, frames, trigger, timing, tcs, disposer, running, active,
                   signalled, created, closed>>

StopJoined(t) == pc[t] = "stopJoin" /\ Joined(t) /\ StopEnd(t) /\ UNCHANGED abandoned

(* Mistake: a join without a time-out. *)
StopForever(t) == FALSE

StopTimeout(t) ==
    /\ pc[t] = "stopJoin" /\ ~Joined(t) /\ StopEnd(t)
    /\ abandoned' = abandoned \cup {loc[t]}

(* Mistake: the request is left to its time-out. *)
StopTailSilent(t) ==
    /\ pc[t] = "stopTail"
    /\ SetTcs(t, 0)
    /\ Goto(t, AfterStop(t))
    /\ UNCHANGED <<session, frames, trigger, timing, lock, loc, disposer, hardware, wiring>>

(* Outside the lock: log, cancel the pending trigger, raise StatusChanged. *)
StopTail(t) ==
    /\ pc[t] = "stopTail"
    /\ Complete(tcs[t], "canceled") /\ SetTcs(t, 0)
    /\ Goto(t, AfterStop(t))
    /\ UNCHANGED <<session, frames, triggerTcs, nextTcs, timing, lock, loc, disposer,
                   hardware, wiring>>

Stop(t) == StopNothing(t) \/ StopBegin(t) \/ StopJoined(t) \/ StopTimeout(t) \/ StopTail(t)

CallStop(t) ==
    /\ pc[t] = "idle"
    /\ Goto(t, "stop")
    /\ UNCHANGED <<session, frames, trigger, timing, lock, loc, tcs, disposer,
                   hardware, wiring>>

(* ReleaseChannel gives an idle channel back. *)
ReleaseChannel(t) ==
    /\ Enter(t, "idle") /\ channelState = "Idle"
    /\ SetLoc(t, channel) /\ Goto(t, "release")
    /\ channel' = 0 /\ channelState' = "None"
    /\ lastFrame' = 0 /\ stats' = NoStats
    /\ UNCHANGED <<config, lastError, trigger, timing, lock, tcs, disposer, hardware, wiring>>

(* Dispose, once, is Stop, then detach whatever is there, then release it. *)
Dispose(t) ==
    /\ pc[t] = "idle" /\ disposer = 0
    /\ disposer' = t
    /\ Goto(t, "stop")
    /\ UNCHANGED <<session, frames, trigger, timing, lock, loc, tcs, hardware, wiring>>

DisposeDetach(t) ==
    /\ Enter(t, "disposeDetach")
    /\ SetLoc(t, channel) /\ Goto(t, "release")
    /\ channel' = 0 /\ channelState' = "None"
    /\ UNCHANGED <<config, stats, frames, trigger, timing, lock, tcs, disposer,
                   hardware, wiring>>

(***************************************************************************)
(* TriggerAsync                                                            *)
(***************************************************************************)

(* Register a TCS and send the trigger; if sending throws the TCS stays.   *)
TriggerAsync(t, sent) ==
    /\ Enter(t, "idle") /\ nextTcs < MaxTriggers /\ SoftTriggers
    /\ channel # 0 /\ channel \in active /\ triggerTcs = 0
    /\ nextTcs' = nextTcs + 1 /\ triggerTcs' = nextTcs + 1
    /\ tcsState' = [tcsState EXCEPT ![nextTcs + 1] = "pending"]
    /\ IF sent THEN Goto(t, "await") /\ SetTcs(t, nextTcs + 1)
               ELSE UNCHANGED <<pc, tcs>>
    /\ UNCHANGED <<session, frames, timing, lock, loc, disposer, hardware, wiring>>

AwaitDone(t) ==
    /\ pc[t] = "await" /\ tcsState[tcs[t]] # "pending"
    /\ Goto(t, "idle") /\ SetTcs(t, 0)
    /\ UNCHANGED <<session, frames, trigger, timing, lock, loc, disposer, hardware, wiring>>

AwaitTimeout(t) ==
    /\ pc[t] = "await" /\ tcsState[tcs[t]] = "pending"
    /\ Goto(t, "timedOut")
    /\ UNCHANGED <<session, frames, trigger, timing, lock, loc, tcs, disposer,
                   hardware, wiring>>

(* The time-out path clears the field, whatever is in it by now. *)
ClearTrigger(t) ==
    /\ Enter(t, "timedOut")
    /\ triggerTcs' = 0
    /\ Goto(t, "idle") /\ SetTcs(t, 0)
    /\ UNCHANGED <<session, frames, tcsState, nextTcs, timing, lock, loc, disposer,
                   hardware, wiring>>

(***************************************************************************)
(* Handlers, on the loop of channel c                                      *)
(***************************************************************************)

(* ProcessFrame under the lock: whatever session there is by now. *)
RecordFrame(c) ==
    /\ Enter(c, "frame")
    /\ lastFrame' = c
    /\ stats' = IF stats = NoStats THEN NoStats ELSE stats + 1
    /\ TakeTrigger(c)
    /\ Goto(c, "frameTail")
    /\ UNCHANGED <<channelState, channel, config, lastError, tcsState, nextTcs, timing,
                   lock, loc, disposer, hardware, wiring>>

(* Complete the trigger, raise FrameAcquired and StatusChanged. *)
FrameTail(c) ==
    /\ pc[c] = "frameTail"
    /\ Complete(tcs[c], "result") /\ SetTcs(c, 0)
    /\ Goto(c, "target")
    /\ UNCHANGED <<session, frames, triggerTcs, nextTcs, timing, lock, loc, disposer,
                   hardware, wiring>>

(* Mistake: a session without a number of frames has the number 0. *)
TargetZero == config >= 0 /\ stats >= config

(* Mistake: off by one. *)
TargetPassed == config > 0 /\ stats > config

TargetReached == config > 0 /\ stats >= config

(* Compare with the target and hand Stop to the pool: the task is not tied *)
(* to a session ("loc" remembers, for the properties, who asked).          *)
CheckTarget(c) ==
    /\ Enter(c, "target")
    /\ IF TargetReached
         THEN \E k \in Tasks :
                /\ pc[k] = "idle"
                /\ pc' = [pc EXCEPT ![c] = "idle", ![k] = "stop"]
                /\ SetLoc(k, c)
         ELSE Goto(c, "idle") /\ UNCHANGED loc
    /\ UNCHANGED <<session, frames, trigger, timing, lock, tcs, disposer, hardware, wiring>>

(* ProcessError under the lock. *)
RecordError(c) ==
    /\ pc[c] \in {"error", "overrun"} /\ lock = 0
    /\ lastError' = c
    /\ TakeTrigger(c)
    /\ Goto(c, IF pc[c] = "overrun" THEN "overrunTail" ELSE "errorTail")
    /\ UNCHANGED <<session, lastFrame, tcsState, nextTcs, timing, lock, loc, disposer,
                   hardware, wiring>>

(* Fail the trigger; an overrun goes on to Stop. *)
ErrorTail(c) ==
    /\ pc[c] \in {"errorTail", "overrunTail"}
    /\ Complete(tcs[c], "error") /\ SetTcs(c, 0)
    /\ Goto(c, IF pc[c] = "overrunTail" THEN "stop" ELSE "idle")
    /\ UNCHANGED <<session, frames, triggerTcs, nextTcs, timing, lock, loc, disposer,
                   hardware, wiring>>

HandlerStep(c) ==
    RecordFrame(c) \/ FrameTail(c) \/ CheckTarget(c) \/ RecordError(c) \/ ErrorTail(c)

(***************************************************************************)
(* The specification                                                       *)
(***************************************************************************)

(* Calls that throw or find nothing to do. *)
Refused(t) == pc[t] = "idle" /\ UNCHANGED vars

Calls(t) ==
    \/ Refused(t)
    \/ t \in Stoppers /\ (CallStop(t) \/ ReleaseChannel(t))
    \/ t \in Starters /\ StartCheck(t)
    \/ t \in Hosts /\ Dispose(t)
    \/ t \in Triggerers /\ \E sent \in BOOLEAN : TriggerAsync(t, sent)

Client(t) ==
    \/ Start(t) \/ Stop(t) \/ DisposeDetach(t)
    \/ ReleaseLocal(t, "release", IF t = disposer THEN "gone" ELSE "idle")
    \/ AwaitDone(t) \/ ClearTrigger(t)

Loop(c) == TakeEvent(c) \/ HandlerStep(c) \/ Stop(c)

Next ==
    \/ \E t \in Clients : Calls(t) \/ Client(t) \/ AwaitTimeout(t)
    \/ \E k \in Tasks : Stop(k)
    \/ \E c \in Channels :
          \/ Loop(c) \/ HardwareEnds(c)
          \/ \E e \in Errors \cup {"FRAME"} : HardwareSignals(c, e)

Spec == Init /\ [][Next]_vars

(* Threads that have something to do are scheduled, loops included. No     *)
(* request is ever made, no hardware ever signals, and no trigger times    *)
(* out unless it happens to.                                               *)
Fairness ==
    /\ \A t \in Clients : WF_vars(Client(t))
    /\ \A k \in Tasks : WF_vars(Stop(k))
    /\ \A c \in Channels : WF_vars(Loop(c))

FairSpec == Spec /\ Fairness

(***************************************************************************)
(* Properties                                                              *)
(***************************************************************************)

PCs == {"idle", "gone", "start", "startRelease", "startFailed", "startTail", "stop",
        "stopJoin", "stopTail", "release", "disposeDetach", "await", "timedOut",
        "frame", "frameTail", "target", "error", "errorTail", "overrun", "overrunTail"}

(* Every variable has its type. *)
TypeOK ==
    /\ channelState \in {"None", "Idle", "Active"}
    /\ channel \in 0..created /\ created \in 0..MaxChannels
    /\ config \in Targets \cup {NoConfig} /\ stats \in Nat \cup {NoStats}
    /\ {lastFrame, lastError} \subseteq 0..MaxChannels
    /\ triggerTcs \in 0..nextTcs /\ nextTcs \in 0..MaxTriggers
    /\ timer \in 0..MaxChannels /\ timers \subseteq Channels
    /\ lock \in Threads \cup {0} /\ disposer \in Clients \cup {0}
    /\ pc \in [Threads -> PCs]
    /\ loc \in [Threads -> 0..MaxChannels]
    /\ tcs \in [Threads -> 0..MaxTriggers]
    /\ tcsState \in [Triggers -> {"none", "pending", "result", "error", "canceled"}]
    /\ UNION {running, active, subscribed, closed, abandoned} \subseteq Channels
    /\ events \in [Channels -> Seq(Errors \cup {"FRAME", "END"})]
    /\ signalled \in [Channels -> 0..MaxEvents]

(* The manager implements the promise of its interface: a session begins   *)
(* when the last one's channel is released and silent.                     *)
Promise == INSTANCE AcquisitionSession
             WITH state <- channelState, current <- channel, live <- subscribed
OneSessionAtATime == Promise!Spec

(* The manager is consistent: an active session has the channel whose      *)
(* events it receives, a released one has none; the only timer not disposed*)
(* of is that of the active session. A callback of it that is in flight    *)
(* when it is disposed of is not looked at.                                *)
StateMatchesChannel ==
    /\ channelState = "Active" => channel # 0 /\ subscribed = {channel}
    /\ channelState = "None" <=> channel = 0
    /\ timers # {} => timers = {channel} /\ channelState = "Active"

(* A registered TCS is pending and its session active: whoever completes it*)
(* takes it away, and Stop takes it away with the session. Whether every   *)
(* waiting request is registered is another matter (see ClearTrigger).     *)
TriggerBelongsToSession ==
    triggerTcs # 0 => tcsState[triggerTcs] = "pending" /\ channelState = "Active"

(* The latest frame is one of the channel at hand. Only a stop that did not *)
(* wait for the handler in progress (the join timed out, or the sequence   *)
(* had ended by itself and was not joined) lets a frame of an earlier      *)
(* channel in, after Stop, ReleaseChannel or the next Start forgot it.     *)
LatestFrameIsOurs ==
    disposer = 0 => lastFrame \in {0, channel} \cup abandoned

(* Who made thread t call Stop: the channel whose loop it is, or whose     *)
(* handler started the task.                                               *)
Asker(t) == IF t \in Tasks THEN loc[t] ELSE t

(* A session that no client stops ends because its hardware did or because *)
(* it has its frames. The only exception is a Stop that was asked for in   *)
(* an earlier session and comes late (AcquisitionManager.cs:322).          *)
NoSessionStopsUnasked ==
    [][\A t \in Tasks \cup Channels :
          /\ pc[t] = "stop" /\ pc'[t] # "stop"
          /\ channelState = "Active" /\ channelState' = "Idle"
          => \/ channel \notin running
             \/ config > 0 /\ stats >= config
             \/ Asker(t) # channel]_vars

(* The hardware of session c stopped, or it has its frames.               *)
Overdue(c) ==
    /\ channelState = "Active" /\ channel = c
    /\ c \notin running \/ (config > 0 /\ stats >= config)

(* A session whose hardware stopped by itself, or that recorded its target *)
(* number of frames, does not stay active (AcquisitionManagerTests.cs:     *)
(* 609-614 is about a manager stuck there).                                *)
OverdueSessionEnds ==
    \A c \in Channels : Overdue(c) ~> channelState # "Active" \/ channel # c

(* Stop returns on every thread, also on the loop it waits for. *)
StopReturns ==
    \A t \in Stoppers \cup Hosts \cup Tasks \cup Channels :
        pc[t] = "stop" ~> pc[t] \in {"idle", "gone"}

(* A request that waits for a frame when its session ends does not have to *)
(* sit out its time-out.                                                   *)
StopFreesTriggers ==
    \A t \in Triggerers : pc[t] = "await" /\ channelState # "Active" ~> pc[t] # "await"

(* What the sources say and the code does not keep, each refuted by a run. *)

(* "One session at a time" (IAcquisitionSession.cs:6): two channels never  *)
(* deliver events to the manager together.                                 *)
OneChannelDelivers == Cardinality(subscribed) <= 1

===============================================================================
