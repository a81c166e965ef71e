------------------------------ MODULE GrabService ------------------------------
(***************************************************************************)
(* The life cycle of the driver and of its channels (GrabService.cs, with  *)
(* the constructor and Dispose of GrabChannel.cs). Initialize, CreateChannel*)
(* and GetBoardStatus run under _lock; Initialize gives it up to sleep     *)
(* between its attempts; ReleaseChannel never takes it; Dispose keeps it   *)
(* until every registered channel is disposed of and the driver closed.    *)
(*                                                                         *)
(* The driver knows a channel by a handle, and may give a deleted channel's*)
(* handle to the next one. The service registers channels by their handles.*)
(* It reads no status of McDelete and McCloseDriver: a channel the driver  *)
(* refuses to delete is stranded, and nobody knows it any more.            *)
(* A channel object is numbered when it is constructed; its client releases*)
(* it once (AcquisitionManager.cs detaches it under its own lock first).   *)
(***************************************************************************)
EXTENDS Naturals, FiniteSets

CONSTANTS
    Threads,        \* requests and the host
    Handles,        \* handles of the driver, none of them 0
    MaxChannels,    \* bound: channel objects constructed in a run
    Deadline        \* attempts of Initialize before it gives up; 60 in the code

Channels == 1..MaxChannels

ASSUME GrabServiceAssumption ==
    /\ IsFiniteSet(Handles)
    /\ 0 \notin Handles /\ 0 \notin Threads
    /\ MaxChannels \in Nat /\ Deadline \in Nat

VARIABLES
    driver,         \* how often the driver was opened and not closed
    live,           \* handles of the driver's channels
    callback,       \* the channel object each of them calls back, 0 for none
    stranded,       \* those of live that it refused to delete
    unclosed,       \* it refused to be closed
    initialized,    \* _initialized
    boardCount,     \* _boardCount
    disposed,       \* _disposed
    registry,       \* _channels: the channel object under each handle, 0 for none
    lock,           \* who holds _lock across steps, 0 is nobody
    pc, chan, hnd,  \* each thread's position, channel object and handle in hand
    tries,          \* the attempts its Initialize made
    sweep,          \* the channels that Dispose has yet to dispose of
    created,        \* how many channel objects were constructed
    handle,         \* their _channelHandle
    gone,           \* those that are _disposed
    rooted,         \* those whose GC handles are allocated
    owned           \* those in the hands of clients

hal     == <<driver, live, callback, stranded, unclosed>>
service == <<initialized, boardCount, disposed, registry>>
objects == <<created, handle, gone, rooted>>
locals  == <<chan, hnd>>
vars == <<driver, live, callback, stranded, unclosed, initialized, boardCount, disposed,
          registry, lock, pc, chan, hnd, tries, sweep, created, handle, gone, rooted, owned>>

Init ==
    /\ driver = 0 /\ live = {} /\ callback = [h \in Handles |-> 0]
    /\ stranded = {} /\ unclosed = FALSE
    /\ initialized = FALSE /\ boardCount = 0 /\ disposed = FALSE
    /\ registry = [h \in Handles |-> 0]
    /\ lock = 0
    /\ pc = [t \in Threads |-> "idle"]
    /\ chan = [t \in Threads |-> 0] /\ hnd = [t \in Threads |-> 0]
    /\ tries = [t \in Threads |-> 0]
    /\ sweep = {}
    /\ created = 0 /\ handle = [c \in Channels |-> 0]
    /\ gone = {} /\ rooted = {} /\ owned = {}

Goto(t, p) == pc' = [pc EXCEPT ![t] = p]
Hold(t, c, h) == chan' = [chan EXCEPT ![t] = c] /\ hnd' = [hnd EXCEPT ![t] = h]

(* Thread t is at p and can take _lock. *)
Enter(t, p) == pc[t] = p /\ lock = 0

(* What CreateChannel and GetBoardStatus check first, under the lock. *)
Ready == ~disposed /\ initialized

(* McDelete of handle h, whose status nobody reads: the driver deletes the *)
(* channel, or refuses and may go on calling it back.                      *)
McDelete(h) ==
    \/ /\ live' = live \ {h} /\ callback' = [callback EXCEPT ![h] = 0]
       /\ UNCHANGED stranded
    \/ /\ stranded' = stranded \cup ({h} \cap Handles)
       /\ UNCHANGED <<live, callback>>

(* Definitions that no action uses are mistakes: the one that follows each *)
(* of them, replaced by it, breaks a property (PROJECT.json, "mutants").   *)

(***************************************************************************)
(* Initialize                                                              *)
(***************************************************************************)

(* The first check is made without the lock. *)
Initialize(t) ==
    /\ pc[t] = "idle" /\ ~disposed
    /\ Goto(t, "attempt") /\ tries' = [tries EXCEPT ![t] = 0]
    /\ UNCHANGED <<hal, service, objects, lock, locals, sweep, owned>>

(* Somebody else opened the driver, or disposed of the service. *)
AttemptNotNeeded(t) ==
    /\ Enter(t, "attempt") /\ (disposed \/ initialized)
    /\ Goto(t, "idle")
    /\ UNCHANGED <<hal, service, objects, lock, locals, tries, sweep, owned>>

(* Mistake: the check made before the loop is taken to hold still. *)
AttemptUnchecked(t) ==
    /\ Enter(t, "attempt") /\ ~initialized
    /\ driver' = driver + 1 /\ initialized' = TRUE /\ boardCount' \in {0, 1}
    /\ Goto(t, "idle")
    /\ UNCHANGED <<live, callback, stranded, unclosed, disposed, registry, objects, lock,
                   locals, tries, sweep, owned>>

(* The driver opens; a board is found or not. *)
AttemptSucceeds(t) ==
    /\ Enter(t, "attempt") /\ ~disposed /\ ~initialized
    /\ driver' = driver + 1 /\ initialized' = TRUE /\ boardCount' \in {0, 1}
    /\ Goto(t, "idle")
    /\ UNCHANGED <<live, callback, stranded, unclosed, disposed, registry, objects, lock,
                   locals, tries, sweep, owned>>

(* Any error is an exception, except that of a driver service not up yet,  *)
(* as long as the deadline has not passed.                                 *)
AttemptFails(t) ==
    /\ Enter(t, "attempt") /\ ~disposed /\ ~initialized
    /\ Goto(t, "idle")
    /\ UNCHANGED <<hal, service, objects, lock, locals, tries, sweep, owned>>

(* Mistake: no deadline. *)
AttemptAgainForEver(t) ==
    /\ Enter(t, "attempt") /\ ~disposed /\ ~initialized
    /\ Goto(t, "sleep")
    /\ UNCHANGED <<hal, service, objects, lock, locals, tries, sweep, owned>>

AttemptAgain(t) ==
    /\ Enter(t, "attempt") /\ ~disposed /\ ~initialized /\ tries[t] < Deadline
    /\ Goto(t, "sleep")
    /\ UNCHANGED <<hal, service, objects, lock, locals, tries, sweep, owned>>

(* Half a second, without the lock. *)
Sleep(t) ==
    /\ pc[t] = "sleep"
    /\ Goto(t, "attempt")
    /\ tries' = [tries EXCEPT ![t] = IF @ < Deadline THEN @ + 1 ELSE @]
    /\ UNCHANGED <<hal, service, objects, lock, locals, sweep, owned>>

Attempt(t) ==
    AttemptNotNeeded(t) \/ AttemptSucceeds(t) \/ AttemptFails(t) \/ AttemptAgain(t)

(***************************************************************************)
(* CreateChannel and the constructor of GrabChannel                        *)
(***************************************************************************)

(* The driver makes a channel; the lock is kept. *)
CreateChannel(t, h) ==
    /\ Enter(t, "idle") /\ Ready /\ created < MaxChannels /\ h \notin live
    /\ lock' = t
    /\ created' = created + 1 /\ handle' = [handle EXCEPT ![created + 1] = h]
    /\ live' = live \cup {h}
    /\ Hold(t, created + 1, h) /\ Goto(t, "construct")
    /\ UNCHANGED <<driver, callback, stranded, unclosed, service, gone, rooted, tries, sweep,
                   owned>>

(* A parameter is refused, or the callback is, after the GC handles were   *)
(* allocated, which nobody frees: the driver is asked to delete its channel.*)
ConstructFails(t) ==
    /\ pc[t] = "construct"
    /\ rooted' \in {rooted, rooted \cup {chan[t]}}
    /\ McDelete(hnd[t])
    /\ handle' = [handle EXCEPT ![chan[t]] = 0]
    /\ lock' = 0 /\ Hold(t, 0, 0) /\ Goto(t, "idle")
    /\ UNCHANGED <<driver, unclosed, service, created, gone, tries, sweep, owned>>

(* The delegate and the object are rooted, the callback is registered. *)
RegisterCallback(t) ==
    /\ pc[t] = "construct"
    /\ rooted' = rooted \cup {chan[t]}
    /\ callback' = [callback EXCEPT ![hnd[t]] = chan[t]]
    /\ Goto(t, "add")
    /\ UNCHANGED <<driver, live, stranded, unclosed, service, created, handle, gone, lock,
                   locals, tries, sweep, owned>>

(* TryAdd: a handle that is taken keeps its entry, and nobody notices. *)
AddToRegistry(t) ==
    /\ pc[t] = "add"
    /\ registry' = IF registry[hnd[t]] = 0 THEN [registry EXCEPT ![hnd[t]] = chan[t]]
                                           ELSE registry
    /\ owned' = owned \cup {chan[t]}
    /\ lock' = 0 /\ Hold(t, 0, 0) /\ Goto(t, "idle")
    /\ UNCHANGED <<hal, initialized, boardCount, disposed, objects, tries, sweep>>

(***************************************************************************)
(* GetBoardStatus: a temporary channel of the driver, without callbacks    *)
(***************************************************************************)

GetBoardStatus(t, h) ==
    /\ Enter(t, "idle") /\ Ready /\ boardCount > 0 /\ h \notin live
    /\ lock' = t /\ live' = live \cup {h}
    /\ Hold(t, 0, h) /\ Goto(t, "probe")
    /\ UNCHANGED <<driver, callback, stranded, unclosed, service, objects, tries, sweep,
                   owned>>

(* Mistake: the temporary channel is not deleted when a query throws. *)
ProbeForgets(t) ==
    /\ pc[t] = "probe"
    /\ McDelete(hnd[t]) \/ UNCHANGED <<live, callback, stranded>>
    /\ lock' = 0 /\ Hold(t, 0, 0) /\ Goto(t, "idle")
    /\ UNCHANGED <<driver, unclosed, service, objects, tries, sweep, owned>>

(* Whatever the queries do, the driver is asked to delete it in the end. *)
ProbeDone(t) ==
    /\ pc[t] = "probe"
    /\ McDelete(hnd[t])
    /\ lock' = 0 /\ Hold(t, 0, 0) /\ Goto(t, "idle")
    /\ UNCHANGED <<driver, unclosed, service, objects, tries, sweep, owned>>

(***************************************************************************)
(* ReleaseChannel and Dispose of GrabChannel                               *)
(***************************************************************************)

(* Mistake: disposed of first, removed afterwards, when its handle is 0. *)
ReleaseWithoutEntry(t, c) ==
    /\ pc[t] = "idle" /\ c \in owned
    /\ owned' = owned \ {c}
    /\ Hold(t, c, 0) /\ Goto(t, "dispose")
    /\ UNCHANGED <<hal, service, objects, lock, tries, sweep>>

(* The entry goes first; the handle of a disposed channel is no key. *)
ReleaseChannel(t, c) ==
    /\ pc[t] = "idle" /\ c \in owned
    /\ owned' = owned \ {c}
    /\ registry' = IF handle[c] \in Handles THEN [registry EXCEPT ![handle[c]] = 0]
                                            ELSE registry
    /\ Hold(t, c, 0) /\ Goto(t, "dispose")
    /\ UNCHANGED <<hal, initialized, boardCount, disposed, objects, lock, tries, sweep>>

(* Where a thread goes on that has disposed of a channel. *)
AfterChannel(t) == IF lock = t THEN "sweep" ELSE "idle"

(* Only the first to come disposes; it takes the handle away. Others       *)
(* return at once, without waiting for it.                                 *)
DisposeChannel(t) ==
    /\ pc[t] = "dispose"
    /\ IF chan[t] \in gone
         THEN /\ Hold(t, 0, 0) /\ Goto(t, AfterChannel(t))
              /\ UNCHANGED <<handle, gone>>
         ELSE /\ Hold(t, chan[t], handle[chan[t]]) /\ Goto(t, "delete")
              /\ gone' = gone \cup {chan[t]}
              /\ handle' = [handle EXCEPT ![chan[t]] = 0]
    /\ UNCHANGED <<hal, service, created, rooted, lock, tries, sweep, owned>>

(* Mistake: the GC handles are freed before the driver's channel is gone. *)
DeleteUnrooted(t) ==
    /\ pc[t] = "delete"
    /\ rooted' = rooted \ {chan[t]}
    /\ Goto(t, "unroot")
    /\ UNCHANGED <<hal, service, created, handle, gone, lock, locals, tries, sweep, owned>>

(* After the loop was joined, two seconds at most: delete, ... *)
DeleteChannel(t) ==
    /\ pc[t] = "delete"
    /\ McDelete(hnd[t])
    /\ Goto(t, "unroot")
    /\ UNCHANGED <<driver, unclosed, service, objects, lock, locals, tries, sweep, owned>>

(* ... and only then let go of what the callbacks refer to, though the     *)
(* driver may have refused.                                                *)
FreeHandles(t) ==
    /\ pc[t] = "unroot"
    /\ rooted' = rooted \ {chan[t]}
    /\ Hold(t, 0, 0) /\ Goto(t, AfterChannel(t))
    /\ UNCHANGED <<hal, service, created, handle, gone, lock, tries, sweep, owned>>

(***************************************************************************)
(* Dispose of the service                                                  *)
(***************************************************************************)

Dispose(t) ==
    /\ pc[t] = "idle" /\ ~disposed
    /\ Goto(t, "close")
    /\ UNCHANGED <<hal, service, objects, lock, locals, tries, sweep, owned>>

DisposeAgain(t) ==
    /\ Enter(t, "close") /\ disposed
    /\ Goto(t, "idle")
    /\ UNCHANGED <<hal, service, objects, lock, locals, tries, sweep, owned>>

(* Under the lock to the end: mark, and take a snapshot of the registry. *)
DisposeBegin(t) ==
    /\ Enter(t, "close") /\ ~disposed
    /\ lock' = t /\ disposed' = TRUE
    /\ sweep' = {registry[h] : h \in Handles} \ {0}
    /\ Goto(t, "sweep")
    /\ UNCHANGED <<hal, initialized, boardCount, registry, objects, locals, tries, owned>>

SweepChannel(t, c) ==
    /\ pc[t] = "sweep" /\ c \in sweep
    /\ sweep' = sweep \ {c}
    /\ Hold(t, c, 0) /\ Goto(t, "dispose")
    /\ UNCHANGED <<hal, service, objects, lock, tries, owned>>

(* Mistake: a driver that was never opened is closed. *)
CloseDriverAlways(t) ==
    /\ pc[t] = "sweep" /\ sweep = {}
    /\ registry' = [h \in Handles |-> 0]
    /\ driver' = driver - 1
    /\ initialized' = FALSE
    /\ lock' = 0 /\ Goto(t, "idle")
    /\ UNCHANGED <<live, callback, stranded, unclosed, boardCount, disposed, objects, locals,
                   tries, sweep, owned>>

(* Clear the registry, close the driver if it is open. It may refuse; the  *)
(* service takes it for closed.                                            *)
CloseDriver(t) ==
    /\ pc[t] = "sweep" /\ sweep = {}
    /\ registry' = [h \in Handles |-> 0]
    /\ \/ driver' = (IF initialized THEN driver - 1 ELSE driver) /\ UNCHANGED unclosed
       \/ initialized /\ unclosed' = TRUE /\ UNCHANGED driver
    /\ initialized' = FALSE
    /\ lock' = 0 /\ Goto(t, "idle")
    /\ UNCHANGED <<live, callback, stranded, boardCount, disposed, objects, locals, tries,
                   sweep, owned>>

(***************************************************************************)
(* The specification                                                       *)
(***************************************************************************)

(* Calls that throw or find nothing to do. *)
Refused(t) == pc[t] = "idle" /\ UNCHANGED vars

Step(t) ==
    \/ Sleep(t)
    \/ ConstructFails(t) \/ RegisterCallback(t) \/ AddToRegistry(t) \/ ProbeDone(t)
    \/ DisposeChannel(t) \/ DeleteChannel(t) \/ FreeHandles(t)
    \/ (\E c \in Channels : SweepChannel(t, c)) \/ CloseDriver(t)

WaitsForLock(t) == Attempt(t) \/ DisposeAgain(t) \/ DisposeBegin(t)

Next ==
    \E t \in Threads :
        \/ Refused(t) \/ Initialize(t) \/ Dispose(t)
        \/ \E h \in Handles : CreateChannel(t, h) \/ GetBoardStatus(t, h)
        \/ \E c \in Channels : ReleaseChannel(t, c)
        \/ Step(t) \/ WaitsForLock(t)

Spec == Init /\ [][Next]_vars

(* A thread inside a call goes on; one that waits for the monitor gets it  *)
(* some time if it keeps becoming free, since monitors queue their waiters.*)
Fairness == \A t \in Threads : WF_vars(Step(t)) /\ SF_vars(WaitsForLock(t))

FairSpec == Spec /\ Fairness

(***************************************************************************)
(* Properties                                                              *)
(***************************************************************************)

PCs == {"idle", "attempt", "sleep", "construct", "add", "probe", "dispose", "delete",
        "unroot", "close", "sweep"}

(* Every variable has its type. *)
TypeOK ==
    /\ driver \in Nat /\ live \subseteq Handles
    /\ stranded \subseteq Handles /\ unclosed \in BOOLEAN
    /\ callback \in [Handles -> 0..MaxChannels]
    /\ initialized \in BOOLEAN /\ boardCount \in {0, 1} /\ disposed \in BOOLEAN
    /\ registry \in [Handles -> 0..MaxChannels]
    /\ lock \in Threads \cup {0}
    /\ pc \in [Threads -> PCs]
    /\ chan \in [Threads -> 0..MaxChannels] /\ hnd \in [Threads -> Handles \cup {0}]
    /\ tries \in [Threads -> 0..Deadline]
    /\ sweep \cup gone \cup rooted \cup owned \subseteq Channels
    /\ created \in 0..MaxChannels /\ handle \in [Channels -> Handles \cup {0}]

(* Nobody is inside the locked part of Dispose, which has run. *)
Closed == disposed /\ lock = 0

(* Thread t is about to delete h, in a ReleaseChannel that overlapped the  *)
(* disposal of the service.                                                *)
Deleting(t, h) ==
    \/ pc[t] = "dispose" /\ handle[chan[t]] = h
    \/ pc[t] = "delete" /\ hnd[t] = h

(* Once the service is disposed of, the driver has no channel left that    *)
(* nobody is deleting or was refused to delete: through reused handles,    *)
(* failed constructors, probes and releases beside the disposal, none slips*)
(* through the registry (GrabService.cs:303-312 is the net under whatever  *)
(* clients forgot).                                                        *)
NothingOutlivesDriver ==
    Closed => \A h \in live \ stranded : \E t \in Threads : Deleting(t, h)

(* The driver is opened once, however many threads initialize and retry,   *)
(* it is closed by disposal unless it refuses, and an Initialize that slept*)
(* through disposal does not open it again (GrabService.cs:60-65).         *)
DriverOpenedOnce == driver <= 1 /\ (Closed /\ ~unclosed => driver = 0)

(* As long as the driver can call a channel back, the delegate and the     *)
(* object it refers to are rooted, whoever disposes of the channel. Only a *)
(* disposed channel that the driver refused to delete may have lost them.  *)
CallbacksAreRooted ==
    \A h \in Handles : callback[h] # 0 =>
        /\ h \in live
        /\ callback[h] \in rooted \/ (h \in stranded /\ callback[h] \in gone)

(* Every call returns: Initialize by its deadline even when the driver     *)
(* service never comes up, Dispose although releases run beside it.        *)
CallsReturn == \A t \in Threads : pc[t] # "idle" ~> pc[t] = "idle"

===============================================================================
