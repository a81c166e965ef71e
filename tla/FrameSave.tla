------------------------------- MODULE FrameSave -------------------------------
(***************************************************************************)
(* The way of a frame from the acquisition to the disk and the catalogue   *)
(* (FrameSaveService.cs, FrameSaveTracker.cs, FilenameGenerator.cs,        *)
(* ImageSharpEncoderBase.cs, CapturedImageRepository.cs) and the deletion  *)
(* of a saved image (ImagesController.cs), across shutdowns and crashes.   *)
(*                                                                         *)
(* The processing loop of each session's channel records a frame in the    *)
(* manager and raises FrameAcquired; the handler asks the manager for the  *)
(* configuration and for the latest frame in two calls, asks the tracker   *)
(* whether the frame is new and offers it to a bounded queue. One worker   *)
(* writes the file and then the row. A configuration is named by its       *)
(* session, a frame is <<session, index>>, a file by the order of its      *)
(* creation (its name holds the time and a counter).                       *)
(***************************************************************************)
EXTENDS Integers, Sequences, FiniteSets

CONSTANTS
    Requests,       \* HTTP threads that delete images
    Capacity,       \* of the save queue; 8 in the code
    MaxSessions,    \* bound: sessions started
    MaxFrames,      \* bound: frames of one session
    MaxBoots,       \* bound: times the process runs
    LateLoops       \* a loop outlives the two-second join and the next start

Sessions == 1..MaxSessions
Ids == 1..(MaxSessions * MaxFrames)

ASSUME FrameSaveAssumption ==
    /\ Capacity \in Nat \ {0} /\ MaxSessions \in Nat \ {0} /\ MaxFrames \in Nat
    /\ MaxBoots \in Nat \ {0} /\ LateLoops \in BOOLEAN

VARIABLES
    session,        \* the manager's _activeConfig, 0 when no session is active
    sessions,       \* how many were started
    latest,         \* the manager's _lastFrame
    taken,          \* frames the loop of each session took from its channel
    loop,           \* each session's processing loop: position and locals
    lastSaved,      \* the tracker's _lastSaved
    queue,          \* _saveQueue
    completed,      \* its writer was completed
    subscribed,     \* OnFrameAcquired is subscribed to FrameAcquired
    worker,         \* RunSaveWorkerAsync: position, item and file
    disk,           \* each file: none, partial, whole or deleted
    content,        \* the frame and the configuration it was written for
    nextId,         \* files created
    rows,           \* the catalogue
    delete,         \* each Delete request: position and image
    host,           \* up, stopping, joined, gaveUp or down
    boots           \* how many times the process was started

manager == <<session, sessions, latest>>
loops   == <<taken, loop>>
pipe    == <<queue, completed>>
store   == <<disk, content, nextId, rows>>
process == <<host, boots>>
vars == <<manager, loops, lastSaved, pipe, subscribed, worker, store, delete, process>>

NoFrame == <<0, 0>>
Idle == [pc |-> "idle", frame |-> NoFrame, config |-> 0]
NoItem == [frame |-> NoFrame, config |-> 0]
Waiting == [pc |-> "wait", item |-> NoItem, id |-> 0]
NoRequest == [pc |-> "idle", id |-> 0]

Init ==
    /\ session = 0 /\ sessions = 0 /\ latest = NoFrame
    /\ taken = [s \in Sessions |-> 0]
    /\ loop = [s \in Sessions |-> Idle]
    /\ lastSaved = NoFrame
    /\ queue = << >> /\ completed = FALSE /\ subscribed = TRUE
    /\ worker = Waiting
    /\ disk = [i \in Ids |-> "none"] /\ content = [i \in Ids |-> NoItem]
    /\ nextId = 0 /\ rows = {}
    /\ delete = [r \in Requests |-> NoRequest]
    /\ host = "up" /\ boots = 1

Running == host # "down"

(***************************************************************************)
(* The manager, as far as the handler sees it                              *)
(***************************************************************************)

(* Start waits for the loop of the channel it releases, at most two        *)
(* seconds; the latest frame is forgotten.                                 *)
StartSession ==
    /\ Running /\ session = 0 /\ sessions < MaxSessions
    /\ LateLoops \/ \A s \in Sessions : loop[s].pc = "idle"
    /\ sessions' = sessions + 1 /\ session' = sessions + 1
    /\ latest' = NoFrame
    /\ UNCHANGED <<loops, lastSaved, pipe, subscribed, worker, store, delete, process>>

(* Stop keeps the latest frame; a handler may be anywhere.                 *)
StopSession ==
    /\ Running /\ session # 0
    /\ session' = 0
    /\ UNCHANGED <<sessions, latest, loops, lastSaved, pipe, subscribed, worker, store,
                   delete, process>>

(* The loop of the current session takes a frame ...                       *)
TakeFrame(s) ==
    /\ Running /\ s = session /\ loop[s].pc = "idle" /\ taken[s] < MaxFrames
    /\ taken' = [taken EXCEPT ![s] = @ + 1]
    /\ loop' = [loop EXCEPT ![s].pc = "record", ![s].frame = <<s, taken[s] + 1>>]
    /\ UNCHANGED <<manager, lastSaved, pipe, subscribed, worker, store, delete, process>>

(* ... ProcessFrame records it as the latest, whatever session there is    *)
(* by then, and raises FrameAcquired.                                      *)
RecordFrame(s) ==
    /\ Running /\ loop[s].pc = "record"
    /\ latest' = loop[s].frame
    /\ loop' = [loop EXCEPT ![s] = IF subscribed THEN [Idle EXCEPT !.pc = "status"] ELSE Idle]
    /\ UNCHANGED <<session, sessions, taken, lastSaved, pipe, subscribed, worker, store,
                   delete, process>>

(***************************************************************************)
(* OnFrameAcquired, on the loop                                            *)
(***************************************************************************)

(* Mistake: a handler that does not look whether the session is over. *)
ReadConfigUnchecked(s) ==
    /\ Running /\ loop[s].pc = "status"
    /\ loop' = [loop EXCEPT ![s].pc = "frame", ![s].config = session]
    /\ UNCHANGED <<manager, taken, lastSaved, pipe, subscribed, worker, store, delete, process>>

(* GetStatus().ActiveConfig; nothing is saved when no session is active.   *)
ReadConfig(s) ==
    /\ Running /\ loop[s].pc = "status"
    /\ loop' = [loop EXCEPT ![s] = IF session = 0 THEN Idle
                                   ELSE [@ EXCEPT !.pc = "frame", !.config = session]]
    /\ UNCHANGED <<manager, taken, lastSaved, pipe, subscribed, worker, store, delete, process>>

(* GetLatestFrame, in a section of its own.                                *)
ReadFrame(s) ==
    /\ Running /\ loop[s].pc = "frame"
    /\ loop' = [loop EXCEPT ![s] = IF latest = NoFrame THEN Idle
                                   ELSE [@ EXCEPT !.pc = "track", !.frame = latest]]
    /\ UNCHANGED <<manager, taken, lastSaved, pipe, subscribed, worker, store, delete, process>>

(* Exchange and compare.                                                   *)
ShouldSave(s) ==
    /\ Running /\ loop[s].pc = "track"
    /\ lastSaved' = loop[s].frame
    /\ loop' = [loop EXCEPT ![s] = IF lastSaved = loop[s].frame THEN Idle
                                   ELSE [@ EXCEPT !.pc = "write"]]
    /\ UNCHANGED <<manager, taken, pipe, subscribed, worker, store, delete, process>>

Item(s) == [frame |-> loop[s].frame, config |-> loop[s].config]

(* Mistake: a full queue makes the writer wait. *)
TryWriteWait(s) ==
    /\ Running /\ loop[s].pc = "write" /\ (completed \/ Len(queue) < Capacity)
    /\ queue' = IF completed THEN queue ELSE Append(queue, Item(s))
    /\ loop' = [loop EXCEPT ![s] = Idle]
    /\ UNCHANGED <<manager, taken, lastSaved, completed, subscribed, worker, store,
                   delete, process>>

(* Mistake: the queue is not bounded. *)
TryWriteUnbounded(s) ==
    /\ Running /\ loop[s].pc = "write"
    /\ queue' = IF completed THEN queue ELSE Append(queue, Item(s))
    /\ loop' = [loop EXCEPT ![s] = Idle]
    /\ UNCHANGED <<manager, taken, lastSaved, completed, subscribed, worker, store,
                   delete, process>>

(* DropWrite: with no room, or after the completion, the frame is gone.    *)
TryWrite(s) ==
    /\ Running /\ loop[s].pc = "write"
    /\ queue' = IF completed \/ Len(queue) >= Capacity THEN queue ELSE Append(queue, Item(s))
    /\ loop' = [loop EXCEPT ![s] = Idle]
    /\ UNCHANGED <<manager, taken, lastSaved, completed, subscribed, worker, store,
                   delete, process>>

Handler(s) == RecordFrame(s) \/ ReadConfig(s) \/ ReadFrame(s) \/ ShouldSave(s) \/ TryWrite(s)

(***************************************************************************)
(* RunSaveWorkerAsync and SaveAsync                                        *)
(***************************************************************************)

WorkerTake ==
    /\ Running /\ worker.pc = "wait" /\ queue # << >>
    /\ worker' = [worker EXCEPT !.pc = "create", !.item = Head(queue)]
    /\ queue' = Tail(queue)
    /\ UNCHANGED <<manager, loops, lastSaved, completed, subscribed, store, delete, process>>

(* Mistake: completion ends the worker, whatever is queued. *)
WorkerEndsEarly ==
    /\ Running /\ worker.pc = "wait" /\ completed
    /\ worker' = [worker EXCEPT !.pc = "done"]
    /\ UNCHANGED <<manager, loops, lastSaved, pipe, subscribed, store, delete, process>>

(* ReadAllAsync ends when the queue is completed and empty.                *)
WorkerEnds ==
    /\ Running /\ worker.pc = "wait" /\ completed /\ queue = << >>
    /\ worker' = [worker EXCEPT !.pc = "done"]
    /\ UNCHANGED <<manager, loops, lastSaved, pipe, subscribed, store, delete, process>>

(* A name of its own, then File.Create.                                    *)
WorkerCreate ==
    /\ Running /\ worker.pc = "create"
    /\ nextId' = nextId + 1
    /\ disk' = [disk EXCEPT ![nextId + 1] = "partial"]
    /\ content' = [content EXCEPT ![nextId + 1] = worker.item]
    /\ worker' = [worker EXCEPT !.pc = "encode", !.id = nextId + 1]
    /\ UNCHANGED <<rows, manager, loops, lastSaved, pipe, subscribed, delete, process>>

WorkerEncode ==
    /\ Running /\ worker.pc = "encode"
    /\ disk' = [disk EXCEPT ![worker.id] = "whole"]
    /\ worker' = [worker EXCEPT !.pc = "row"]
    /\ UNCHANGED <<content, nextId, rows, manager, loops, lastSaved, pipe, subscribed,
                   delete, process>>

WorkerAddRow ==
    /\ Running /\ worker.pc = "row"
    /\ rows' = rows \cup {worker.id}
    /\ worker' = Waiting
    /\ UNCHANGED <<disk, content, nextId, manager, loops, lastSaved, pipe, subscribed,
                   delete, process>>

(* Mistake: a failure kills the worker. *)
WorkerFailsForGood ==
    /\ Running /\ worker.pc \in {"create", "encode", "row"}
    /\ worker' = [worker EXCEPT !.pc = "done"]
    /\ UNCHANGED <<manager, loops, lastSaved, pipe, subscribed, store, delete, process>>

(* Mistake: an exception of the encoder alone is swallowed. *)
WorkerFailsOn ==
    /\ Running /\ worker.pc \in {"create", "encode", "row"}
    /\ worker' = IF worker.pc = "encode" THEN [worker EXCEPT !.pc = "row"] ELSE Waiting
    /\ UNCHANGED <<manager, loops, lastSaved, pipe, subscribed, store, delete, process>>

(* Any of the three steps throws; what was written so far stays.           *)
WorkerFails ==
    /\ Running /\ worker.pc \in {"create", "encode", "row"}
    /\ worker' = Waiting
    /\ UNCHANGED <<manager, loops, lastSaved, pipe, subscribed, store, delete, process>>

Worker ==
    \/ WorkerTake \/ WorkerEnds
    \/ WorkerCreate \/ WorkerEncode \/ WorkerAddRow \/ WorkerFails

(***************************************************************************)
(* ImagesController.Delete                                                 *)
(***************************************************************************)

DeleteFind(r, i) ==
    /\ Running /\ delete[r].pc = "idle" /\ i \in rows
    /\ delete' = [delete EXCEPT ![r] = [pc |-> "file", id |-> i]]
    /\ UNCHANGED <<manager, loops, lastSaved, pipe, subscribed, worker, store, process>>

(* A file that cannot be deleted, or is gone, is no obstacle.              *)
DeleteFile(r, removed) ==
    /\ Running /\ delete[r].pc = "file"
    /\ disk' = IF removed THEN [disk EXCEPT ![delete[r].id] = "deleted"] ELSE disk
    /\ delete' = [delete EXCEPT ![r].pc = "row"]
    /\ UNCHANGED <<content, nextId, rows, manager, loops, lastSaved, pipe, subscribed,
                   worker, process>>

(* The row, unless another request was faster, which is an exception.      *)
DeleteRow(r) ==
    /\ Running /\ delete[r].pc = "row"
    /\ rows' = rows \ {delete[r].id}
    /\ delete' = [delete EXCEPT ![r] = NoRequest]
    /\ UNCHANGED <<disk, content, nextId, manager, loops, lastSaved, pipe, subscribed,
                   worker, process>>

Delete(r) == DeleteFile(r, TRUE) \/ DeleteFile(r, FALSE) \/ DeleteRow(r)

(***************************************************************************)
(* The host                                                                *)
(***************************************************************************)

(* StopAsync: unsubscribe, complete, wait for the worker ...               *)
HostStop ==
    /\ host = "up"
    /\ host' = "stopping" /\ subscribed' = FALSE /\ completed' = TRUE
    /\ UNCHANGED <<boots, queue, manager, loops, lastSaved, worker, store, delete>>

HostJoins ==
    /\ host = "stopping" /\ worker.pc = "done"
    /\ host' = "joined"
    /\ UNCHANGED <<boots, manager, loops, lastSaved, pipe, subscribed, worker, store, delete>>

(* ... until the host's token is cancelled.                                *)
HostGivesUp ==
    /\ host = "stopping" /\ worker.pc # "done"
    /\ host' = "gaveUp"
    /\ UNCHANGED <<boots, manager, loops, lastSaved, pipe, subscribed, worker, store, delete>>

(* The process ends, after its shutdown or by a crash: disk and database   *)
(* stay, everything else is gone.                                          *)
ProcessEnds ==
    /\ host \in {"up", "stopping", "joined", "gaveUp"}
    /\ host' = "down"
    /\ session' = 0 /\ latest' = NoFrame /\ loop' = [s \in Sessions |-> Idle]
    /\ lastSaved' = NoFrame /\ queue' = << >> /\ completed' = FALSE /\ subscribed' = TRUE
    /\ worker' = Waiting /\ delete' = [r \in Requests |-> NoRequest]
    /\ UNCHANGED <<boots, sessions, taken, store>>

Boot ==
    /\ host = "down" /\ boots < MaxBoots
    /\ host' = "up" /\ boots' = boots + 1
    /\ UNCHANGED <<manager, loops, lastSaved, pipe, subscribed, worker, store, delete>>

(***************************************************************************)
(* The specification                                                       *)
(***************************************************************************)

Next ==
    \/ StartSession \/ StopSession
    \/ \E s \in Sessions : TakeFrame(s) \/ Handler(s)
    \/ Worker
    \/ \E r \in Requests : Delete(r) \/ \E i \in Ids : DeleteFind(r, i)
    \/ HostStop \/ HostJoins \/ HostGivesUp \/ ProcessEnds \/ Boot

Spec == Init /\ [][Next]_vars

(* The loops are scheduled; nothing is assumed of the disk.                *)
FairSpec == Spec /\ \A s \in Sessions : WF_vars(Handler(s))

(* The disk and the database answer, if only by failing.                   *)
DiskAnswers == WF_vars(Worker)

(***************************************************************************)
(* Properties                                                              *)
(***************************************************************************)

Frames == (Sessions \X (1..MaxFrames)) \cup {NoFrame}
Items == [frame : Frames, config : Sessions \cup {0}]

InQueue(f) == \E i \in DOMAIN queue : queue[i].frame = f

(* Every variable has its type, and the save queue its capacity.           *)
TypeOK ==
    /\ session \in 0..sessions /\ sessions \in 0..MaxSessions
    /\ {latest, lastSaved} \subseteq Frames
    /\ taken \in [Sessions -> 0..MaxFrames]
    /\ loop \in [Sessions -> [pc : {"idle", "record", "status", "frame", "track", "write"},
                              frame : Frames, config : Sessions \cup {0}]]
    /\ queue \in Seq(Items) /\ Len(queue) <= Capacity
    /\ {completed, subscribed} \subseteq BOOLEAN
    /\ worker \in [pc : {"wait", "create", "encode", "row", "done"},
                   item : Items, id : Ids \cup {0}]
    /\ disk \in [Ids -> {"none", "partial", "whole", "deleted"}]
    /\ content \in [Ids -> Items] /\ nextId \in Ids \cup {0} /\ rows \subseteq Ids
    /\ delete \in [Requests -> [pc : {"idle", "file", "row"}, id : Ids \cup {0}]]
    /\ host \in {"up", "stopping", "joined", "gaveUp", "down"} /\ boots \in 1..MaxBoots

(* While no loop outlives its join, a frame is written with the            *)
(* configuration (directory, format) of the session it was taken in, though*)
(* the handler asks for the two at different times.                        *)
SavedUnderItsSession ==
    \A i \in Ids : disk[i] # "none" => content[i].config = content[i].frame[1]

(* The catalogue never lists a file that is missing or half written, unless*)
(* a deletion removed the file: across failed writes, crashes and requests *)
(* that delete what is being saved.                                        *)
RowHasItsFile == \A i \in rows : disk[i] \in {"whole", "deleted"}

(* An orderly shutdown (StopAsync returned because the worker was through) *)
(* loses no frame that the queue accepted, though frames may still arrive. *)
ShutdownDrains == host = "joined" => queue = << >> /\ worker.pc = "done"

(* "decouples the acquisition loop from disk I/O" (FrameSaveService.cs:15):*)
(* a handler returns although the disk never answers.                      *)
LoopNotBlocked == \A s \in Sessions : loop[s].pc # "idle" ~> loop[s].pc = "idle"

(* "Save failures must not kill the worker" (FrameSaveService.cs:108):     *)
(* while the process lives, whatever fails, the queue is served.           *)
QueueIsServed ==
    DiskAnswers =>
        \A s \in Sessions, n \in 1..MaxFrames :
            InQueue(<<s, n>>) ~> ~InQueue(<<s, n>>) \/ ~Running

(* What the source says and the code does not keep.                        *)

(* ShouldSave is true "only if this frame has not been saved before. Safe  *)
(* for concurrent callers" (FrameSaveTracker.cs:14-16): no two files of    *)
(* one frame.                                                              *)
SavedOnce ==
    \A i, j \in 1..nextId : content[i].frame = content[j].frame => i = j

===============================================================================
