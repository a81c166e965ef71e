------------------------------ MODULE GrabChannel ------------------------------
(***************************************************************************)
(* One acquisition channel of the frame-grabber driver (GrabChannel.cs):   *)
(* the cluster of surfaces the hardware fills, the bounded queue of        *)
(* signals between the vendor's callback threads and the processing loop,  *)
(* and the control calls StartAcquisition, StopAcquisition and Dispose.    *)
(*                                                                         *)
(* Three kinds of threads take steps:                                      *)
(*   - the native threads run OnNativeCallback and take no lock;           *)
(*   - a processing loop per signal queue (a queue object, with its task,  *)
(*     is a "generation": every re-initialisation creates the next one);   *)
(*   - one caller at a time runs a control call: the owner (caller 0) or a *)
(*     processing loop g whose subscriber calls StopAcquisition from       *)
(*     inside its event handler (caller g).                                *)
(* Control calls do not overlap because their only client makes them under *)
(* its own lock, or on a channel it has already detached                   *)
(* (AcquisitionManager.cs:115, 121-141, 222-241); the channel's own _lock  *)
(* is therefore never contended and is not a variable. The two counters of *)
(* drops are incremented atomically and only ever reported: no variables.  *)
(*                                                                         *)
(* The driver may refuse what StartAcquisition asks for. What the code does*)
(* not look at the status of is taken to succeed here: giving a surface    *)
(* back (421), stopping (508-512, 806-808), deleting (832, see GrabService).*)
(***************************************************************************)
EXTENDS Naturals, Sequences, FiniteSets

CONSTANTS
    Surfaces,       \* the surface cluster (SurfaceCount of them)
    NativeThreads,  \* the vendor's threads that deliver callbacks
    EnabledSignals, \* the signals the board supports besides filled surfaces
    Room,           \* queue slots beyond one per surface; 8 in the code
    MaxGen          \* bound: how many signal queues a run may create

Signals == {"OVERRUN", "CLUSTER_UNAVAILABLE", "FAILURE", "END"}
NoSignal == "NONE"
Frame == "FRAME"    \* what a loop holds while subscribers see the copied image

ASSUME GrabChannelAssumption ==
    /\ Surfaces \cap (Signals \cup {NoSignal, Frame}) = {}
    /\ IsFiniteSet(Surfaces)
    /\ EnabledSignals \subseteq Signals
    /\ Room \in Nat
    /\ MaxGen \in Nat \ {0}

Gens == 1..MaxGen

VARIABLES
    hw,                      \* the hardware channel: IDLE, ACTIVE or DELETED
    surf,                    \* SurfaceState of each surface, as the driver keeps it
    handle,                  \* _channelHandle # 0
    disposing, disposed,     \* _disposing, _disposed
    isActive,                \* _isActive
    gen,                     \* how many signal queues were created so far
    cur,                     \* _signalQueue (and _processingTask): its generation, 0 is null
    queue, closed,           \* contents of each queue; its writer was completed
    loop,                    \* each processing loop: pc, item in hand, queue it reads
    native,                  \* each native thread: pc, signal in hand
    api, caller              \* the control call in progress, and who makes it

hal    == <<hw, surf>>
chan   == <<handle, disposing, disposed>>
sigq   == <<gen, cur, queue, closed>>
call   == <<api, caller>>
vars   == <<hw, surf, handle, disposing, disposed, isActive, gen, cur, queue,
            closed, loop, native, api, caller>>

Items == Surfaces \cup Signals
LoopPC == {"none", "scheduled", "waiting", "reading", "copy", "release", "free",
           "handler", "done"}
NativePC == {"idle", "flag", "post", "peek", "write", "nre", "drop", "free"}
ApiPC == {"idle", "activate", "setActive", "mark", "close", "join", "drain",
          "nullOut", "delete"}

(* Definitions that no action uses are mistakes: the one that follows each *)
(* of them, replaced by it, breaks a property (PROJECT.json, "mutants").   *)

(* Mistake: no headroom for signals. *)
BareCapacity == Cardinality(Surfaces)

QueueCapacity == Cardinality(Surfaces) + Room

(* TryWrite on the current queue succeeds: it exists, is open and has room. *)
CanWrite == cur # 0 /\ ~closed[cur] /\ Len(queue[cur]) < QueueCapacity

(* A channel just constructed: the first queue exists, its task is scheduled. *)
Init ==
    /\ hw = "IDLE"
    /\ surf = [s \in Surfaces |-> "FREE"]
    /\ handle = TRUE /\ disposing = FALSE /\ disposed = FALSE
    /\ isActive = FALSE
    /\ gen = 1 /\ cur = 1
    /\ queue = [g \in Gens |-> << >>]
    /\ closed = [g \in Gens |-> FALSE]
    /\ loop = [g \in Gens |-> [pc |-> IF g = 1 THEN "scheduled" ELSE "none",
                               sig |-> NoSignal, q |-> 0]]
    /\ native = [n \in NativeThreads |-> [pc |-> "idle", sig |-> NoSignal]]
    /\ api = "idle" /\ caller = 0

(***************************************************************************)
(* Native threads                                                          *)
(***************************************************************************)

NativeGoto(n, pc, sig) == native' = [native EXCEPT ![n] = [pc |-> pc, sig |-> sig]]

(* A surface was filled. The callback returns at once when the channel is  *)
(* being disposed of; the surface then stays with the driver.              *)
OnSurfaceCallback(n, s) ==
    /\ hw = "ACTIVE" /\ native[n].pc = "idle" /\ surf[s] = "FREE"
    /\ surf' = [surf EXCEPT ![s] = "PROCESSING"]
    /\ IF disposing THEN UNCHANGED native ELSE NativeGoto(n, "peek", s)
    /\ UNCHANGED <<hw, chan, isActive, sigq, loop, call>>

(* Any other signal. The sequence ends with END; an overrun stops it too.  *)
OnSignalCallback(n, k) ==
    /\ hw = "ACTIVE" /\ native[n].pc = "idle"
    /\ k = "CLUSTER_UNAVAILABLE" => \A s \in Surfaces : surf[s] # "FREE"
    /\ hw' = IF k \in {"END", "OVERRUN"} THEN "IDLE" ELSE hw
    /\ IF disposing
         THEN UNCHANGED native
         ELSE NativeGoto(n, IF k \in {"END", "OVERRUN"} THEN "flag" ELSE "post", k)
    /\ UNCHANGED <<surf, chan, isActive, sigq, loop, call>>

(* ProcessSignal clears _isActive without the lock, then enqueues. *)
ClearActive(n) ==
    /\ native[n].pc = "flag"
    /\ isActive' = FALSE
    /\ NativeGoto(n, "post", native[n].sig)
    /\ UNCHANGED <<hal, chan, sigq, loop, call>>

(* The result of TryWrite is ignored: a signal that finds no room is gone. *)
EnqueueSignal(n) ==
    /\ native[n].pc = "post"
    /\ queue' = IF CanWrite THEN [queue EXCEPT ![cur] = Append(@, native[n].sig)]
                            ELSE queue
    /\ NativeGoto(n, "idle", NoSignal)
    /\ UNCHANGED <<hal, chan, isActive, gen, cur, closed, loop, call>>

(* EnqueueSurface reads the volatile field twice: once to test it ... *)
EnqueueSurfaceTest(n) ==
    /\ native[n].pc = "peek"
    /\ NativeGoto(n, IF cur = 0 THEN "drop" ELSE "write", native[n].sig)
    /\ UNCHANGED <<hal, chan, isActive, sigq, loop, call>>

(* Mistake: no return after a successful write. *)
EnqueueSurfaceFallsThrough(n) ==
    /\ native[n].pc = "write"
    /\ queue' = IF CanWrite THEN [queue EXCEPT ![cur] = Append(@, native[n].sig)]
                            ELSE queue
    /\ NativeGoto(n, "drop", native[n].sig)
    /\ UNCHANGED <<hal, chan, isActive, gen, cur, closed, loop, call>>

(* ... and once more to write through it; a null now is an exception that  *)
(* escapes into the native thread ("nre").                                 *)
EnqueueSurfaceWrite(n) ==
    /\ native[n].pc = "write"
    /\ IF CanWrite
         THEN /\ queue' = [queue EXCEPT ![cur] = Append(@, native[n].sig)]
              /\ NativeGoto(n, "idle", NoSignal)
         ELSE /\ NativeGoto(n, IF cur = 0 THEN "nre" ELSE "drop", native[n].sig)
              /\ UNCHANGED queue
    /\ UNCHANGED <<hal, chan, isActive, gen, cur, closed, loop, call>>

(* The release of the dropped frame first tests the handle ... *)
DropSurface(n) ==
    /\ native[n].pc = "drop"
    /\ IF handle THEN NativeGoto(n, "free", native[n].sig)
                 ELSE NativeGoto(n, "idle", NoSignal)
    /\ UNCHANGED <<hal, chan, isActive, sigq, loop, call>>

(* ... and then hands the surface back to the driver. *)
FreeDropped(n) ==
    /\ native[n].pc = "free"
    /\ surf' = [surf EXCEPT ![native[n].sig] = "FREE"]
    /\ NativeGoto(n, "idle", NoSignal)
    /\ UNCHANGED <<hw, chan, isActive, sigq, loop, call>>

Native(n) ==
    \/ ClearActive(n) \/ EnqueueSignal(n)
    \/ EnqueueSurfaceTest(n) \/ EnqueueSurfaceWrite(n)
    \/ DropSurface(n) \/ FreeDropped(n)

(***************************************************************************)
(* Processing loops                                                        *)
(***************************************************************************)

LoopGoto(g, pc, sig) ==
    loop' = [loop EXCEPT ![g] = [pc |-> pc, sig |-> sig, q |-> loop[g].q]]

(* The task starts and reads _signalQueue: the loop serves whichever queue *)
(* is current then, or ends when there is none.                            *)
LoopStart(g) ==
    /\ loop[g].pc = "scheduled"
    /\ loop' = [loop EXCEPT ![g] = [pc  |-> IF cur = 0 THEN "done" ELSE "waiting",
                                    sig |-> NoSignal, q |-> cur]]
    /\ UNCHANGED <<hal, chan, isActive, sigq, native, call>>

(* WaitToReadAsync: items wake the loop up; a completed and cancelled      *)
(* queue ends it, whether or not items were left.                          *)
LoopWake(g) ==
    /\ loop[g].pc = "waiting"
    /\ queue[loop[g].q] # << >>
    /\ LoopGoto(g, "reading", NoSignal)
    /\ UNCHANGED <<hal, chan, isActive, sigq, native, call>>

LoopExit(g) ==
    /\ loop[g].pc = "waiting"
    /\ closed[loop[g].q]
    /\ LoopGoto(g, "done", NoSignal)
    /\ UNCHANGED <<hal, chan, isActive, sigq, native, call>>

(* Mistake: every signal is taken for a filled surface. *)
LoopReadUnsorted(g) ==
    LET q == loop[g].q IN
    /\ loop[g].pc = "reading"
    /\ IF queue[q] = << >>
         THEN LoopGoto(g, "waiting", NoSignal) /\ UNCHANGED queue
         ELSE /\ queue' = [queue EXCEPT ![q] = Tail(@)]
              /\ LoopGoto(g, "copy", Head(queue[q]))
    /\ UNCHANGED <<hal, chan, isActive, gen, cur, closed, native, call>>

(* TryRead until the queue is empty, without looking at the cancellation.  *)
LoopRead(g) ==
    LET q == loop[g].q IN
    /\ loop[g].pc = "reading"
    /\ IF queue[q] = << >>
         THEN LoopGoto(g, "waiting", NoSignal) /\ UNCHANGED queue
         ELSE /\ queue' = [queue EXCEPT ![q] = Tail(@)]
              /\ LoopGoto(g, IF Head(queue[q]) \in Surfaces THEN "copy" ELSE "handler",
                          Head(queue[q]))
    /\ UNCHANGED <<hal, chan, isActive, gen, cur, closed, native, call>>

(* Mistake: a failed copy skips the release. *)
CopyWithoutFinally(g) ==
    /\ loop[g].pc = "copy"
    /\ LoopGoto(g, "release", loop[g].sig) \/ LoopGoto(g, "reading", NoSignal)
    /\ UNCHANGED <<hal, chan, isActive, sigq, native, call>>

(* ProcessSurfaceReady: read the surface's address and copy the image. *)
CopySurface(g) ==
    /\ loop[g].pc = "copy"
    /\ LoopGoto(g, "release", loop[g].sig)
    /\ UNCHANGED <<hal, chan, isActive, sigq, native, call>>

(* The copy raised FrameAcquired, or failed and raised nothing. *)
AfterSurface(g) == LoopGoto(g, "handler", Frame) \/ LoopGoto(g, "reading", NoSignal)

(* ReleaseSurface tests the handle, then calls the driver. *)
ReleaseTest(g) ==
    /\ loop[g].pc = "release"
    /\ IF handle THEN LoopGoto(g, "free", loop[g].sig) ELSE AfterSurface(g)
    /\ UNCHANGED <<hal, chan, isActive, sigq, native, call>>

ReleaseFree(g) ==
    /\ loop[g].pc = "free"
    /\ surf' = [surf EXCEPT ![loop[g].sig] = "FREE"]
    /\ AfterSurface(g)
    /\ UNCHANGED <<hw, chan, isActive, sigq, native, call>>

(* Mistake: an exception of a subscriber ends the loop. *)
HandlerThrowsOut(g) ==
    /\ loop[g].pc = "handler" /\ caller # g
    /\ LoopGoto(g, "reading", NoSignal) \/ LoopGoto(g, "done", NoSignal)
    /\ UNCHANGED <<hal, chan, isActive, sigq, native, call>>

(* The subscribers return or throw; both leave the loop running. *)
HandlerReturn(g) ==
    /\ loop[g].pc = "handler" /\ caller # g
    /\ LoopGoto(g, "reading", NoSignal)
    /\ UNCHANGED <<hal, chan, isActive, sigq, native, call>>

Loop(g) ==
    \/ LoopStart(g) \/ LoopWake(g) \/ LoopExit(g) \/ LoopRead(g)
    \/ CopySurface(g) \/ ReleaseTest(g) \/ ReleaseFree(g)

(***************************************************************************)
(* Control calls                                                           *)
(***************************************************************************)

Goto(pc) == api' = pc /\ UNCHANGED caller
Return == api' = "idle" /\ caller' = 0

(* StartAcquisition throws when disposed and returns when active. Its      *)
(* first effect is to give a reused channel a new queue and loop.          *)
StartRefused ==
    /\ api = "idle" /\ (disposed \/ isActive)
    /\ UNCHANGED vars

(* Mistake: a reused channel keeps its shut-down queue. *)
StartWithoutQueue ==
    /\ api = "idle" /\ ~disposed /\ ~isActive
    /\ Goto("activate")
    /\ UNCHANGED <<hal, chan, isActive, sigq, loop, native>>

StartAcquisition ==
    /\ api = "idle" /\ ~disposed /\ ~isActive
    /\ IF cur = 0
         THEN /\ gen < MaxGen
              /\ gen' = gen + 1 /\ cur' = gen + 1
              /\ loop' = [loop EXCEPT ![gen + 1] =
                            [pc |-> "scheduled", sig |-> NoSignal, q |-> 0]]
         ELSE UNCHANGED <<gen, cur, loop>>
    /\ Goto("activate")
    /\ UNCHANGED <<hal, chan, isActive, queue, closed, native>>

(* The driver activates the channel, unless it already was active ... *)
Activate ==
    /\ api = "activate" /\ hw = "IDLE"
    /\ hw' = "ACTIVE"
    /\ Goto("setActive")
    /\ UNCHANGED <<surf, chan, isActive, sigq, loop, native>>

(* ... or one of its calls fails and the method throws. *)
ActivateFails ==
    /\ api = "activate"
    /\ Return
    /\ UNCHANGED <<hal, chan, isActive, sigq, loop, native>>

SetActive ==
    /\ api = "setActive"
    /\ isActive' = TRUE
    /\ Return
    /\ UNCHANGED <<hal, chan, sigq, loop, native>>

(* Caller c may be the owner, or a loop inside a subscriber's handler. *)
MayCall(c) == c = 0 \/ (c \in Gens /\ loop[c].pc = "handler")

StopRefused ==
    /\ api = "idle" /\ (~isActive \/ disposed)
    /\ UNCHANGED vars

StopAcquisition(c) ==
    /\ api = "idle" /\ MayCall(c) /\ isActive /\ ~disposed
    /\ hw' = "IDLE"
    /\ isActive' = FALSE
    /\ api' = "close" /\ caller' = c
    /\ UNCHANGED <<surf, chan, sigq, loop, native>>

DisposeAgain ==
    /\ api = "idle" /\ disposed
    /\ UNCHANGED vars

Dispose ==
    /\ api = "idle" /\ ~disposed
    /\ disposing' = TRUE
    /\ Goto("mark")
    /\ UNCHANGED <<hal, handle, disposed, isActive, sigq, loop, native>>

(* Under the lock: mark, stop the hardware if active, zero the handle. *)
DisposeMark ==
    /\ api = "mark"
    /\ disposed' = TRUE /\ handle' = FALSE
    /\ isActive' = FALSE
    /\ hw' = IF isActive THEN "IDLE" ELSE hw
    /\ Goto("close")
    /\ UNCHANGED <<surf, disposing, sigq, loop, native>>

(* ShutdownProcessingThread: complete the writer and cancel the loop, ... *)
CloseQueue ==
    /\ api = "close"
    /\ closed' = IF cur = 0 THEN closed ELSE [closed EXCEPT ![cur] = TRUE]
    /\ Goto(IF cur = 0 THEN "nullOut" ELSE "join")
    /\ UNCHANGED <<hal, chan, isActive, gen, cur, queue, loop, native>>

(* ... wait for the loop's task at most two seconds, ... *)
JoinDone ==
    /\ api = "join" /\ loop[cur].pc = "done"
    /\ Goto("drain")
    /\ UNCHANGED <<hal, chan, isActive, sigq, loop, native>>

(* Mistake: a join without a time-out. *)
JoinForever == FALSE

JoinTimeout ==
    /\ api = "join" /\ loop[cur].pc # "done"
    /\ Goto("drain")
    /\ UNCHANGED <<hal, chan, isActive, sigq, loop, native>>

(* Mistake: what is left is thrown away. *)
DrainDiscards ==
    /\ api = "drain" /\ queue[cur] # << >>
    /\ queue' = [queue EXCEPT ![cur] = Tail(@)]
    /\ UNCHANGED <<hal, chan, isActive, gen, cur, closed, loop, native, call>>

(* ... drain what is left, releasing the surfaces, ... *)
DrainOne ==
    /\ api = "drain" /\ queue[cur] # << >>
    /\ queue' = [queue EXCEPT ![cur] = Tail(@)]
    /\ surf' = IF handle /\ Head(queue[cur]) \in Surfaces
                 THEN [surf EXCEPT ![Head(queue[cur])] = "FREE"] ELSE surf
    /\ UNCHANGED <<hw, chan, isActive, gen, cur, closed, loop, native, call>>

DrainEmpty ==
    /\ api = "drain" /\ queue[cur] = << >>
    /\ Goto("nullOut")
    /\ UNCHANGED <<hal, chan, isActive, sigq, loop, native>>

(* ... and forget the queue and the task. Dispose goes on to Delete. *)
NullOut ==
    /\ api = "nullOut"
    /\ cur' = 0
    /\ IF disposed THEN Goto("delete") ELSE Return
    /\ UNCHANGED <<hal, chan, isActive, gen, queue, closed, loop, native>>

Delete ==
    /\ api = "delete"
    /\ hw' = "DELETED"
    /\ Return
    /\ UNCHANGED <<surf, chan, isActive, sigq, loop, native>>

Call ==
    \/ Activate \/ ActivateFails \/ SetActive
    \/ DisposeMark \/ CloseQueue \/ JoinDone \/ JoinTimeout
    \/ DrainOne \/ DrainEmpty \/ NullOut \/ Delete

Next ==
    \/ \E n \in NativeThreads :
          \/ \E s \in Surfaces : OnSurfaceCallback(n, s)
          \/ \E k \in EnabledSignals : OnSignalCallback(n, k)
          \/ Native(n)
    \/ \E g \in Gens : Loop(g) \/ HandlerReturn(g)
    \/ StartRefused \/ StartAcquisition
    \/ StopRefused \/ \E c \in 0..MaxGen : StopAcquisition(c)
    \/ DisposeAgain \/ Dispose
    \/ Call

Spec == Init /\ [][Next]_vars

(* The threads of the process are scheduled: a callback in flight, a loop  *)
(* with work and a control call in progress go on. Nothing makes the       *)
(* hardware signal, or anybody call.                                       *)
Fairness ==
    /\ \A n \in NativeThreads : WF_vars(Native(n))
    /\ \A g \in Gens : WF_vars(Loop(g))
    /\ WF_vars(Call)

FairSpec == Spec /\ Fairness

(* Subscribers that return from their handlers: what SurfaceComesBack and  *)
(* EndIsAnnounced assume, and CallReturns does not.                        *)
SubscribersReturn == \A g \in Gens : WF_vars(HandlerReturn(g))

(***************************************************************************)
(* Properties                                                              *)
(***************************************************************************)

(* Every variable has its type, and what a loop copies and releases is a   *)
(* surface (GrabChannel.cs:341-355: each kind of signal has its case).     *)
TypeOK ==
    /\ hw \in {"IDLE", "ACTIVE", "DELETED"}
    /\ surf \in [Surfaces -> {"FREE", "PROCESSING"}]
    /\ handle \in BOOLEAN /\ disposing \in BOOLEAN /\ disposed \in BOOLEAN
    /\ isActive \in BOOLEAN
    /\ gen \in Gens /\ cur \in {0, gen}
    /\ queue \in [Gens -> Seq(Items)]
    /\ closed \in [Gens -> BOOLEAN]
    /\ loop \in [Gens -> [pc : LoopPC, sig : Items \cup {NoSignal, Frame},
                          q : 0..MaxGen]]
    /\ native \in [NativeThreads -> [pc : NativePC, sig : Items \cup {NoSignal}]]
    /\ \A g \in Gens : loop[g].pc \in {"copy", "release", "free"} => loop[g].sig \in Surfaces
    /\ api \in ApiPC /\ caller \in 0..MaxGen

(* A surface can be in three kinds of hands: a native thread that has not  *)
(* enqueued it yet, a queue, a loop that has not released it yet.          *)
NativeHolds(n, s) == native[n].sig = s
LoopHolds(g, s) == loop[g].sig = s
Queued(g, s) == \E i \in DOMAIN queue[g] : queue[g][i] = s

(* Whatever is in hand is still the program's: the driver was not told the *)
(* surface is free, so the hardware cannot overwrite it while it is copied *)
(* (GrabChannel.cs:369-391: copy first, release after).                    *)
HeldIsProcessing ==
    \A s \in Surfaces : surf[s] = "FREE" =>
        /\ \A n \in NativeThreads : ~NativeHolds(n, s)
        /\ \A g \in Gens : ~LoopHolds(g, s) /\ ~Queued(g, s)

(* No surface is in two hands: the loop, the draining caller and a dropping *)
(* native thread never release, or copy, the same surface twice.            *)
OneHolder ==
    \A s \in Surfaces :
        /\ \A n, m \in NativeThreads : NativeHolds(n, s) /\ NativeHolds(m, s) => n = m
        /\ \A g, h \in Gens : LoopHolds(g, s) /\ LoopHolds(h, s) => g = h
        /\ \A g, h \in Gens : \A i \in DOMAIN queue[g], j \in DOMAIN queue[h] :
              queue[g][i] = s /\ queue[h][j] = s => g = h /\ i = j
        /\ \A n \in NativeThreads, g \in Gens :
              NativeHolds(n, s) => ~LoopHolds(g, s) /\ ~Queued(g, s)
        /\ \A g, h \in Gens : LoopHolds(g, s) => ~Queued(h, s)

(* Through any interleaving of callbacks, loops, restarts, time-outs and   *)
(* drains, a surface in the program's hands is in exactly one pair of them *)
(* and has not been given back.                                            *)
SurfaceOwnership == HeldIsProcessing /\ OneHolder

(* Until disposal begins no surface is lost: one the driver has handed out *)
(* is in somebody's hand, who will give it back, or died holding it (see   *)
(* NullReference). A lost surface would shrink the cluster for good.       *)
NoSurfaceLost ==
    ~disposing =>
        \A s \in Surfaces : surf[s] = "PROCESSING" =>
            \/ \E n \in NativeThreads : NativeHolds(n, s)
            \/ \E g \in Gens : LoopHolds(g, s) \/ Queued(g, s)

(* The queue has a slot for every surface and Room more                    *)
(* (GrabChannel.cs:317), so an open queue turns a frame away only when     *)
(* more than Room other signals wait in it.                                *)
FrameDroppedOnlyForSignals ==
    [][\A n \in NativeThreads :
          native[n].pc = "write" /\ native'[n].pc = "drop" /\ ~closed[cur] =>
              Cardinality({i \in DOMAIN queue[cur] : queue[cur][i] \in Signals}) > Room]_vars

(* A channel that reports itself active, with no call in progress, has an  *)
(* open queue and a loop that serves it or is about to: a restart after a  *)
(* stop, even one that timed out, never leaves frames without a consumer.  *)
ActiveIsServed ==
    isActive /\ api = "idle" =>
        /\ cur # 0 /\ ~closed[cur]
        /\ \/ loop[cur].pc = "scheduled"
           \/ loop[cur].pc \notin {"none", "done"} /\ loop[cur].q = cur

(* Some native thread died of the null reference in EnqueueSurface. *)
NullReference == \E n \in NativeThreads : native[n].pc = "nre"

(* Every surface handed out comes back, unless the channel is disposed of: *)
(* by the loop, by the drain of a stop, or by the drop path.               *)
SurfaceComesBack ==
    SubscribersReturn =>
        \A s \in Surfaces :
            surf[s] = "PROCESSING" ~> surf[s] = "FREE" \/ disposing \/ NullReference

(* Every control call returns, also when a subscriber never returns from   *)
(* its handler, and also when the caller is the loop it waits for.         *)
CallReturns == (api # "idle") ~> (api = "idle")

(* An end of activity that got into the queue is announced to subscribers  *)
(* unless a Stop or Dispose is under way and discards it, whatever the     *)
(* subscribers threw before (GrabChannel.cs:357-360).                      *)
EndQueued == cur # 0 /\ Queued(cur, "END")
ShuttingDown == api \in {"mark", "close", "join", "drain", "nullOut", "delete"}
EndIsAnnounced ==
    SubscribersReturn =>
        (EndQueued ~> \/ \E g \in Gens : loop[g].pc = "handler" /\ loop[g].sig = "END"
                      \/ ShuttingDown)

(***************************************************************************)
(* What the code's comments promise and the interleavings break            *)
(***************************************************************************)

(* GrabChannel.cs:815-817: zeroing the handle first eliminates "the TOCTOU *)
(* use-after-free window": no one calls the driver about a surface of a    *)
(* channel already deleted.                                                *)
NoReleaseAfterDelete ==
    hw = "DELETED" =>
        /\ \A n \in NativeThreads : native[n].pc # "free"
        /\ \A g \in Gens : loop[g].pc # "free"

===============================================================================
