---------------------------- MODULE FrameSaveProofs ----------------------------
(***************************************************************************)
(* The safety properties of FrameSave, for every number of requests,       *)
(* sessions, frames and starts of the process and every capacity of the    *)
(* queue. TypeOK needs a count: files are numbered as they are created, and*)
(* Counted says that every file, queued item and handler under way goes    *)
(* back to a frame of its own that some session took. RowHasItsFile needs  *)
(* that the file being written is in no row and no request's hands (Files),*)
(* ShutdownDrains that the worker ends only when the queue is closed and   *)
(* empty (Draining), SavedUnderItsSession that a loop which is in a handler*)
(* belongs to the last session (Sorted), which holds unless loops outlive  *)
(* their join.                                                             *)
(***************************************************************************)
EXTENDS FrameSave, FiniteSetTheorems, TLAPS

(***************************************************************************)
(* Types                                                                   *)
(***************************************************************************)

(* A loop, the worker and a request, with what they have in hand. *)
LoopStates == [pc : {"idle", "record", "status", "frame", "track", "write"},
               frame : Frames, config : Sessions \cup {0}]
WorkerStates == [pc : {"wait", "create", "encode", "row", "done"},
                 item : Items, id : Ids \cup {0}]
DeleteStates == [pc : {"idle", "file", "row"}, id : Ids \cup {0}]

(* TypeOK in five parts, each disturbed by a few of the actions. *)
ManagerTypes ==
    /\ session \in 0..sessions /\ sessions \in 0..MaxSessions
    /\ latest \in Frames /\ lastSaved \in Frames

LoopTypes == taken \in [Sessions -> 0..MaxFrames] /\ loop \in [Sessions -> LoopStates]

PipeTypes ==
    /\ queue \in Seq(Items) /\ Len(queue) <= Capacity
    /\ completed \in BOOLEAN /\ subscribed \in BOOLEAN

StoreTypes ==
    /\ disk \in [Ids -> {"none", "partial", "whole", "deleted"}]
    /\ content \in [Ids -> Items] /\ nextId \in Ids \cup {0} /\ rows \subseteq Ids

ThreadTypes ==
    /\ worker \in WorkerStates
    /\ delete \in [Requests -> DeleteStates]
    /\ host \in {"up", "stopping", "joined", "gaveUp", "down"} /\ boots \in 1..MaxBoots

Types == ManagerTypes /\ LoopTypes /\ PipeTypes /\ StoreTypes /\ ThreadTypes

(* What a thread has in hand that has nothing in hand. *)
LEMMA Nothing ==
    /\ NoFrame \in Frames /\ NoItem \in Items /\ Idle \in LoopStates
    /\ Waiting \in WorkerStates /\ NoRequest \in DeleteStates
<1>1. NoFrame \in Frames
  BY DEF Frames
<1>2. NoItem \in Items
  BY <1>1 DEF NoItem, Items
<1> QED
  BY <1>1, <1>2 DEF Idle, Waiting, NoRequest, LoopStates, WorkerStates, DeleteStates

(* The program starts with the types declared. *)
LEMMA TypesStart == Init => Types
<1> SUFFICES ASSUME Init PROVE Types
  OBVIOUS
<1>1. ManagerTypes
  BY Nothing, FrameSaveAssumption DEF Init, ManagerTypes
<1>2. LoopTypes
  BY Nothing, FrameSaveAssumption DEF Init, LoopTypes
<1>3. PipeTypes
  <2>1. queue = << >> /\ completed = FALSE /\ subscribed = TRUE
    BY DEF Init
  <2>2. << >> \in Seq(Items) /\ Len(<< >>) = 0 /\ 0 <= Capacity
    BY FrameSaveAssumption
  <2> QED
    BY <2>1, <2>2 DEF PipeTypes
<1>4. StoreTypes
  BY Nothing DEF Init, StoreTypes
<1>5. ThreadTypes
  BY Nothing, FrameSaveAssumption DEF Init, ThreadTypes
<1> QED
  BY <1>1, <1>2, <1>3, <1>4, <1>5 DEF Types

(* A loop takes a frame of its session, the next one. *)
LEMMA TakeFrameTypes ==
    ASSUME ManagerTypes, LoopTypes, NEW s \in Sessions, TakeFrame(s)
    PROVE  LoopTypes'
<1>1. <<s, taken[s] + 1>> \in Frames /\ loop[s] \in LoopStates
  BY FrameSaveAssumption DEF TakeFrame, LoopTypes, Frames
<1> DEFINE next == [[loop[s] EXCEPT !.pc = "record"]
                             EXCEPT !.frame = <<s, taken[s] + 1>>]
<1>2. next \in LoopStates
  BY <1>1 DEF LoopStates
<1>3. loop' = [loop EXCEPT ![s] = next]
  BY DEF TakeFrame, LoopTypes
<1>4. taken' \in [Sessions -> 0..MaxFrames]
  BY FrameSaveAssumption DEF TakeFrame, LoopTypes
<1> QED
  BY <1>2, <1>3, <1>4 DEF LoopTypes

(* A recorded frame is a frame. *)
LEMMA RecordFrameTypes ==
    ASSUME LoopTypes, NEW s \in Sessions, RecordFrame(s)
    PROVE  LoopTypes' /\ latest' \in Frames
<1>1. loop[s] \in LoopStates /\ taken' = taken
  BY DEF LoopTypes, RecordFrame
<1>2. loop' \in [Sessions -> LoopStates]
  BY <1>1, Nothing DEF LoopTypes, LoopStates, RecordFrame
<1> QED
  BY <1>1, <1>2 DEF LoopTypes, LoopStates, RecordFrame

(* A handler reads the session's configuration ... *)
LEMMA ReadConfigTypes ==
    ASSUME ManagerTypes, LoopTypes, NEW s \in Sessions, ReadConfig(s)
    PROVE  LoopTypes'
<1>1. loop[s] \in LoopStates /\ taken' = taken
  BY DEF LoopTypes, ReadConfig
<1>2. session \in Sessions \cup {0}
  BY FrameSaveAssumption DEF ManagerTypes, Sessions
<1>3. [loop[s] EXCEPT !.pc = "frame", !.config = session] \in LoopStates
  BY <1>1, <1>2 DEF LoopStates
<1> QED
  BY <1>1, <1>3, Nothing DEF LoopTypes, ReadConfig

(* ... and the latest frame ... *)
LEMMA ReadFrameTypes ==
    ASSUME ManagerTypes, LoopTypes, NEW s \in Sessions, ReadFrame(s)
    PROVE  LoopTypes'
<1>1. loop[s] \in LoopStates /\ taken' = taken
  BY DEF LoopTypes, ReadFrame
<1>3. [loop[s] EXCEPT !.pc = "track", !.frame = latest] \in LoopStates
  BY <1>1 DEF LoopStates, ManagerTypes
<1> QED
  BY <1>1, <1>3, Nothing DEF LoopTypes, ReadFrame

(* ... which the tracker remembers ... *)
LEMMA ShouldSaveTypes ==
    ASSUME LoopTypes, NEW s \in Sessions, ShouldSave(s)
    PROVE  LoopTypes' /\ lastSaved' \in Frames
<1>1. loop[s] \in LoopStates /\ taken' = taken
  BY DEF LoopTypes, ShouldSave
<1>3. [loop[s] EXCEPT !.pc = "write"] \in LoopStates /\ loop[s].frame \in Frames
  BY <1>1 DEF LoopStates
<1> QED
  BY <1>1, <1>3, Nothing DEF LoopTypes, ShouldSave

(* ... and queues them, within the capacity. *)
LEMMA TryWriteTypes ==
    ASSUME LoopTypes, PipeTypes, NEW s \in Sessions, TryWrite(s)
    PROVE  LoopTypes' /\ PipeTypes'
<1>1. loop[s] \in LoopStates /\ taken' = taken
  BY DEF LoopTypes, TryWrite
<1>2. Item(s) \in Items
  BY <1>1 DEF Item, Items, LoopStates
<1>3. /\ Append(queue, Item(s)) \in Seq(Items)
      /\ Len(Append(queue, Item(s))) = Len(queue) + 1
  BY <1>2 DEF PipeTypes
<1>4. PipeTypes'
  BY <1>3, FrameSaveAssumption DEF PipeTypes, TryWrite
<1>5. loop' \in [Sessions -> LoopStates]
  BY Nothing DEF LoopTypes, TryWrite
<1> QED
  BY <1>1, <1>4, <1>5, Nothing DEF LoopTypes

(* The worker takes an item off the queue. *)
LEMMA WorkerTakeTypes ==
    ASSUME PipeTypes, ThreadTypes, WorkerTake
    PROVE  PipeTypes' /\ ThreadTypes'
<1>1. /\ Head(queue) \in Items /\ Tail(queue) \in Seq(Items)
      /\ Len(Tail(queue)) = Len(queue) - 1
  BY DEF PipeTypes, WorkerTake
<1>2. PipeTypes'
  BY <1>1, FrameSaveAssumption DEF PipeTypes, WorkerTake
<1>3. worker' \in WorkerStates
  BY <1>1 DEF ThreadTypes, WorkerStates, WorkerTake
<1> QED
  BY <1>2, <1>3 DEF ThreadTypes, WorkerTake, process

(* It creates the next file, if that is within the bound ... *)
LEMMA WorkerCreateTypes ==
    ASSUME StoreTypes, ThreadTypes, WorkerCreate, nextId + 1 \in Ids
    PROVE  StoreTypes' /\ ThreadTypes'
<1>1. worker.item \in Items /\ nextId' = nextId + 1
  BY DEF ThreadTypes, WorkerStates, WorkerCreate
<1>2. worker' \in WorkerStates
  BY <1>1 DEF ThreadTypes, WorkerStates, WorkerCreate
<1>3. disk' \in [Ids -> {"none", "partial", "whole", "deleted"}]
  BY DEF StoreTypes, WorkerCreate
<1>4. content' \in [Ids -> Items]
  BY <1>1 DEF StoreTypes, WorkerCreate
<1> QED
  BY <1>1, <1>2, <1>3, <1>4 DEF ThreadTypes, StoreTypes, WorkerCreate, process

(* ... and writes it. *)
LEMMA WorkerEncodeTypes ==
    ASSUME StoreTypes, ThreadTypes, WorkerEncode
    PROVE  StoreTypes' /\ ThreadTypes'
<1>2. worker' \in WorkerStates
  BY DEF ThreadTypes, WorkerStates, WorkerEncode
<1>3. disk' \in [Ids -> {"none", "partial", "whole", "deleted"}]
  BY DEF StoreTypes, WorkerEncode
<1> QED
  BY <1>2, <1>3 DEF ThreadTypes, StoreTypes, WorkerEncode, process

(* A process that ends leaves the disk and the database. *)
LEMMA ProcessEndsTypes ==
    ASSUME Types, ProcessEnds
    PROVE  Types'
<1>1. ManagerTypes'
  BY Nothing, FrameSaveAssumption DEF ProcessEnds, Types, ManagerTypes
<1>2. LoopTypes'
  BY Nothing, FrameSaveAssumption DEF ProcessEnds, Types, LoopTypes
<1>3. PipeTypes'
  <2>1. queue' = << >> /\ completed' = FALSE /\ subscribed' = TRUE
    BY DEF ProcessEnds
  <2>2. << >> \in Seq(Items) /\ Len(<< >>) = 0 /\ 0 <= Capacity
    BY FrameSaveAssumption
  <2> QED
    BY <2>1, <2>2 DEF PipeTypes
<1>4. StoreTypes'
  BY DEF ProcessEnds, StoreTypes, store, Types
<1>5. ThreadTypes'
  BY Nothing DEF ProcessEnds, ThreadTypes, Types
<1> QED
  BY <1>1, <1>2, <1>3, <1>4, <1>5 DEF Types

(* Every step keeps the types, if the file that is created is within the   *)
(* bound and the one that is listed is a file.                             *)
LEMMA TypesStep ==
    ASSUME Types, Next,
           WorkerCreate => nextId + 1 \in Ids, WorkerAddRow => worker.id \in Ids
    PROVE  Types'
<1> USE DEF Types
<1>1. CASE StartSession
  BY <1>1, Nothing, FrameSaveAssumption
     DEF StartSession, ManagerTypes, LoopTypes, PipeTypes, StoreTypes, ThreadTypes,
         loops, pipe, store, process, Sessions
<1>2. CASE StopSession
  BY <1>2
     DEF StopSession, ManagerTypes, LoopTypes, PipeTypes, StoreTypes, ThreadTypes,
         loops, pipe, store, process
<1>3. ASSUME NEW s \in Sessions, TakeFrame(s) \/ ReadConfig(s) \/ ReadFrame(s)
      PROVE Types'
  <2>1. LoopTypes'
    BY <1>3, TakeFrameTypes, ReadConfigTypes, ReadFrameTypes
  <2>2. UNCHANGED <<manager, lastSaved, pipe, subscribed, worker, store, delete,
                    process>>
    BY <1>3 DEF TakeFrame, ReadConfig, ReadFrame
  <2> QED
    BY <2>1, <2>2
       DEF ManagerTypes, PipeTypes, StoreTypes, ThreadTypes, manager, pipe, store,
           process
<1>4. ASSUME NEW s \in Sessions, RecordFrame(s) PROVE Types'
  BY <1>4, RecordFrameTypes
     DEF RecordFrame, ManagerTypes, PipeTypes, StoreTypes, ThreadTypes, pipe, store,
         process
<1>5. ASSUME NEW s \in Sessions, ShouldSave(s) PROVE Types'
  BY <1>5, ShouldSaveTypes
     DEF ShouldSave, ManagerTypes, PipeTypes, StoreTypes, ThreadTypes, manager,
         pipe, store, process
<1>6. ASSUME NEW s \in Sessions, TryWrite(s) PROVE Types'
  BY <1>6, TryWriteTypes
     DEF TryWrite, ManagerTypes, StoreTypes, ThreadTypes, manager, pipe, store,
         process
<1>7. CASE WorkerTake
  BY <1>7, WorkerTakeTypes
     DEF WorkerTake, ManagerTypes, LoopTypes, StoreTypes, manager, loops, store
<1>8. CASE WorkerEnds \/ WorkerFails
  <2>1. worker' \in WorkerStates
    BY <1>8, Nothing DEF WorkerEnds, WorkerFails, ThreadTypes, WorkerStates
  <2> QED
    BY <1>8, <2>1
       DEF WorkerEnds, WorkerFails, ManagerTypes, LoopTypes, PipeTypes, StoreTypes,
           ThreadTypes, manager, loops, pipe, store, process
<1>9. CASE WorkerCreate
  BY <1>9, WorkerCreateTypes
     DEF WorkerCreate, ManagerTypes, LoopTypes, PipeTypes, manager, loops, pipe
<1>10. CASE WorkerEncode
  BY <1>10, WorkerEncodeTypes
     DEF WorkerEncode, ManagerTypes, LoopTypes, PipeTypes, manager, loops, pipe
<1>11. CASE WorkerAddRow
  BY <1>11, Nothing
     DEF WorkerAddRow, ManagerTypes, LoopTypes, PipeTypes, StoreTypes, ThreadTypes,
         manager, loops, pipe, process
<1>12. ASSUME NEW r \in Requests, NEW i \in Ids, DeleteFind(r, i) PROVE Types'
  BY <1>12
     DEF DeleteFind, DeleteStates, ManagerTypes, LoopTypes, PipeTypes, StoreTypes,
         ThreadTypes, manager, loops, pipe, store, process
<1>13. ASSUME NEW r \in Requests, NEW removed \in BOOLEAN, DeleteFile(r, removed)
       PROVE Types'
  BY <1>13
     DEF DeleteFile, DeleteStates, ManagerTypes, LoopTypes, PipeTypes, StoreTypes,
         ThreadTypes, manager, loops, pipe, store, process
<1>14. ASSUME NEW r \in Requests, DeleteRow(r) PROVE Types'
  BY <1>14, Nothing
     DEF DeleteRow, ManagerTypes, LoopTypes, PipeTypes, StoreTypes, ThreadTypes,
         manager, loops, pipe, store, process
<1>15. CASE HostStop
  BY <1>15
     DEF HostStop, ManagerTypes, LoopTypes, PipeTypes, StoreTypes, ThreadTypes,
         manager, loops, store
<1>16. CASE HostJoins \/ HostGivesUp
  BY <1>16
     DEF HostJoins, HostGivesUp, ManagerTypes, LoopTypes, PipeTypes, StoreTypes,
         ThreadTypes, manager, loops, pipe, store
<1>17. CASE Boot
  BY <1>17, FrameSaveAssumption
     DEF Boot, ManagerTypes, LoopTypes, PipeTypes, StoreTypes, ThreadTypes, manager,
         loops, pipe, store
<1> QED
  BY <1>1, <1>2, <1>3, <1>4, <1>5, <1>6, <1>7, <1>8, <1>9, <1>10, <1>11, <1>12,
     <1>13, <1>14, <1>15, <1>16, <1>17, ProcessEndsTypes
     DEF Next, Handler, Worker, Delete

(***************************************************************************)
(* Files and their rows                                                    *)
(***************************************************************************)

(* The file that the worker writes is the newest, in no row, and in no     *)
(* request's hands.                                                        *)
WorkerFile ==
    /\ worker.pc \in {"encode", "row"} =>
          /\ worker.id = nextId /\ nextId \in Ids /\ nextId \notin rows
          /\ \A r \in Requests : delete[r].pc # "idle" => delete[r].id # nextId
    /\ worker.pc = "encode" => disk[nextId] = "partial"
    /\ worker.pc = "row" => disk[nextId] = "whole"

(* Rows and requests know files that were created, and requests files that *)
(* were whole.                                                             *)
KnownFiles ==
    /\ \A i \in rows : i <= nextId
    /\ \A r \in Requests : delete[r].pc # "idle" =>
          /\ delete[r].id \in Ids /\ delete[r].id <= nextId
          /\ disk[delete[r].id] \in {"whole", "deleted"}

Files == WorkerFile /\ KnownFiles /\ RowHasItsFile

(* No file is there at the start. *)
LEMMA FilesStart == Init => Files
  BY DEF Init, Files, WorkerFile, KnownFiles, RowHasItsFile, Waiting, NoRequest

(* No step lists a file that is not whole: the worker's file is new when   *)
(* it is created, whole when it is listed, and no request has it in        *)
(* between.                                                                *)
LEMMA FilesStep ==
    ASSUME Types, Files, [Next]_vars, WorkerCreate => nextId + 1 \in Ids
    PROVE  Files'
<1> USE DEF Types, Files
<1>1. CASE UNCHANGED <<worker, disk, nextId, rows, delete>>
  BY <1>1 DEF WorkerFile, KnownFiles, RowHasItsFile
<1>2. CASE WorkerTake \/ WorkerEnds \/ WorkerFails
  <2>1. worker'.pc \notin {"encode", "row"}
    <3>1. CASE WorkerTake
      BY <3>1 DEF WorkerTake, ThreadTypes, WorkerStates
    <3>2. CASE WorkerEnds
      BY <3>2 DEF WorkerEnds, ThreadTypes, WorkerStates
    <3>3. CASE WorkerFails
      BY <3>3 DEF WorkerFails, Waiting
    <3> QED
      BY <1>2, <3>1, <3>2, <3>3
  <2>2. UNCHANGED <<disk, nextId, rows, delete>>
    BY <1>2 DEF WorkerTake, WorkerEnds, WorkerFails, store
  <2> QED
    BY <2>1, <2>2 DEF WorkerFile, KnownFiles, RowHasItsFile
<1>3. CASE WorkerCreate
  <2>1. /\ worker'.pc = "encode" /\ worker'.id = nextId + 1 /\ nextId' = nextId + 1
        /\ nextId \in Nat /\ disk' = [disk EXCEPT ![nextId + 1] = "partial"]
        /\ UNCHANGED <<rows, delete>>
    BY <1>3 DEF WorkerCreate, ThreadTypes, WorkerStates, StoreTypes, Ids
  <2>2. nextId + 1 \in Ids /\ rows \subseteq Ids /\ Ids \subseteq Nat
    BY <1>3 DEF StoreTypes, Ids
  <2>3. /\ disk'[nextId + 1] = "partial"
        /\ \A i \in Ids : i <= nextId =>
              i <= nextId + 1 /\ i # nextId + 1 /\ disk'[i] = disk[i]
    BY <2>1, <2>2 DEF StoreTypes
  <2>4. WorkerFile' /\ KnownFiles'
    BY <2>1, <2>2, <2>3 DEF WorkerFile, KnownFiles
  <2>5. RowHasItsFile'
    BY <2>1, <2>2 DEF KnownFiles, RowHasItsFile, StoreTypes
  <2> QED
    BY <2>4, <2>5
<1>4. CASE WorkerEncode
  <2>1. /\ worker.pc = "encode" /\ worker'.pc = "row" /\ worker'.id = worker.id
        /\ disk' = [disk EXCEPT ![worker.id] = "whole"]
        /\ UNCHANGED <<nextId, rows, delete>>
    BY <1>4 DEF WorkerEncode, ThreadTypes, WorkerStates
  <2> QED
    BY <2>1 DEF WorkerFile, KnownFiles, RowHasItsFile, StoreTypes
<1>5. CASE WorkerAddRow
  <2>1. /\ worker.pc = "row" /\ worker'.pc = "wait" /\ rows' = rows \cup {nextId}
        /\ nextId \in Ids
        /\ UNCHANGED <<disk, nextId, delete>>
    BY <1>5 DEF WorkerAddRow, Waiting, WorkerFile
  <2> QED
    BY <2>1 DEF WorkerFile, KnownFiles, RowHasItsFile, Ids
<1>6. ASSUME NEW r \in Requests, NEW i \in Ids, DeleteFind(r, i) PROVE Files'
  <2>1. /\ i \in rows /\ delete' = [delete EXCEPT ![r] = [pc |-> "file", id |-> i]]
        /\ UNCHANGED <<worker, disk, nextId, rows>>
    BY <1>6 DEF DeleteFind, store
  <2>2. \A q \in Requests :
           delete'[q] = IF q = r THEN [pc |-> "file", id |-> i] ELSE delete[q]
    BY <2>1 DEF ThreadTypes
  <2> QED
    BY <2>1, <2>2 DEF WorkerFile, KnownFiles, RowHasItsFile
<1>7. ASSUME NEW r \in Requests, NEW removed \in BOOLEAN, DeleteFile(r, removed)
      PROVE Files'
  <2>1. /\ delete[r].pc = "file"
        /\ disk' \in {disk, [disk EXCEPT ![delete[r].id] = "deleted"]}
        /\ UNCHANGED <<worker, nextId, rows>>
    BY <1>7 DEF DeleteFile
  <2>2. \A q \in Requests :
           /\ delete'[q].id = delete[q].id
           /\ delete'[q].pc # "idle" <=> delete[q].pc # "idle"
    BY <1>7, <2>1 DEF DeleteFile, ThreadTypes, DeleteStates
  <2>3. \A i \in Ids : /\ disk'[i] \in {disk[i], "deleted"}
                       /\ i # delete[r].id => disk'[i] = disk[i]
    BY <2>1 DEF StoreTypes
  <2>4. WorkerFile'
    BY <2>1, <2>2, <2>3 DEF WorkerFile
  <2>5. RowHasItsFile'
    BY <2>1, <2>3 DEF RowHasItsFile, StoreTypes
  <2>6. KnownFiles'
    <3>1. \A i \in Ids :
             disk[i] \in {"whole", "deleted"} => disk'[i] \in {"whole", "deleted"}
      BY <2>3
    <3> QED
      BY <2>1, <2>2, <3>1 DEF KnownFiles
  <2> QED
    BY <2>4, <2>5, <2>6
<1>8. ASSUME NEW r \in Requests, DeleteRow(r) PROVE Files'
  <2>1. rows' \subseteq rows /\ UNCHANGED <<worker, disk, nextId>>
    BY <1>8 DEF DeleteRow
  <2>2. \A q \in Requests : delete'[q].pc # "idle" => delete'[q] = delete[q]
    BY <1>8 DEF DeleteRow, ThreadTypes, NoRequest
  <2> QED
    BY <2>1, <2>2 DEF WorkerFile, KnownFiles, RowHasItsFile
<1>9. CASE ProcessEnds
  BY <1>9
     DEF ProcessEnds, WorkerFile, KnownFiles, RowHasItsFile, Waiting, NoRequest,
         store
<1>10. ASSUME NEW s \in Sessions, TakeFrame(s) \/ Handler(s)
       PROVE UNCHANGED <<worker, disk, nextId, rows, delete>>
  BY <1>10
     DEF TakeFrame, Handler, RecordFrame, ReadConfig, ReadFrame, ShouldSave,
         TryWrite, store
<1>11. ASSUME UNCHANGED vars \/ StartSession \/ StopSession \/ HostStop \/ HostJoins
              \/ HostGivesUp \/ Boot
       PROVE UNCHANGED <<worker, disk, nextId, rows, delete>>
  BY <1>11
     DEF vars, StartSession, StopSession, HostStop, HostJoins, HostGivesUp, Boot,
         store
<1> QED
  BY <1>1, <1>2, <1>3, <1>4, <1>5, <1>6, <1>7, <1>8, <1>9, <1>10, <1>11
     DEF Next, Worker, Delete

(***************************************************************************)
(* The shutdown                                                            *)
(***************************************************************************)

(* Who stops has completed the queue, and the worker ends only when it is  *)
(* completed and empty.                                                    *)
Draining ==
    /\ host \in {"stopping", "joined", "gaveUp"} => completed
    /\ worker.pc = "done" => completed /\ queue = << >>
    /\ host = "joined" => worker.pc = "done"

(* Nothing is completed at the start. *)
LEMMA DrainingStart == Init => Draining
  BY DEF Init, Draining, Waiting

(* Items that arrive after the completion are dropped, so an empty queue   *)
(* stays empty.                                                            *)
LEMMA DrainingStep ==
    ASSUME Types, Draining, [Next]_vars
    PROVE  Draining'
<1> USE DEF Types
<1>1. CASE UNCHANGED <<worker, queue, completed, host>>
  BY <1>1 DEF Draining
<1>2. ASSUME NEW s \in Sessions, TryWrite(s) PROVE Draining'
  BY <1>2 DEF TryWrite, Draining, process
<1>3. CASE WorkerTake \/ WorkerCreate \/ WorkerEncode \/ WorkerAddRow \/ WorkerFails
  <2>1. worker.pc # "done" /\ worker'.pc # "done"
    <3>1. CASE WorkerTake
      BY <3>1 DEF WorkerTake, ThreadTypes, WorkerStates
    <3>2. CASE WorkerCreate
      BY <3>2 DEF WorkerCreate, ThreadTypes, WorkerStates
    <3>3. CASE WorkerEncode
      BY <3>3 DEF WorkerEncode, ThreadTypes, WorkerStates
    <3>4. CASE WorkerAddRow \/ WorkerFails
      BY <3>4 DEF WorkerAddRow, WorkerFails, Waiting
    <3> QED
      BY <1>3, <3>1, <3>2, <3>3, <3>4
  <2>2. UNCHANGED <<completed, host>>
    BY <1>3
       DEF WorkerTake, WorkerCreate, WorkerEncode, WorkerAddRow, WorkerFails, pipe,
           process
  <2> QED
    BY <2>1, <2>2 DEF Draining
<1>4. CASE WorkerEnds
  BY <1>4 DEF WorkerEnds, Draining, ThreadTypes, WorkerStates, pipe, process
<1>5. CASE HostStop \/ HostJoins \/ HostGivesUp \/ Boot
  BY <1>5 DEF HostStop, HostJoins, HostGivesUp, Boot, Draining, pipe
<1>6. CASE ProcessEnds
  BY <1>6 DEF ProcessEnds, Draining, Waiting
<1>7. ASSUME NEW s \in Sessions, TakeFrame(s) \/ (Handler(s) /\ ~TryWrite(s))
      PROVE UNCHANGED <<worker, queue, completed, host>>
  BY <1>7
     DEF TakeFrame, Handler, RecordFrame, ReadConfig, ReadFrame, ShouldSave, pipe,
         process
<1>8. ASSUME NEW r \in Requests, Delete(r) \/ \E i \in Ids : DeleteFind(r, i)
      PROVE UNCHANGED <<worker, queue, completed, host>>
  BY <1>8 DEF Delete, DeleteFile, DeleteRow, DeleteFind, pipe, process
<1>9. ASSUME UNCHANGED vars \/ StartSession \/ StopSession
      PROVE UNCHANGED <<worker, queue, completed, host>>
  BY <1>9 DEF vars, StartSession, StopSession, pipe, process
<1> QED
  BY <1>1, <1>2, <1>3, <1>4, <1>5, <1>6, <1>7, <1>8, <1>9 DEF Next, Worker

(***************************************************************************)
(* Counting the files                                                      *)
(***************************************************************************)

(* What is on its way to a file: queued items, handlers, the worker's      *)
(* item.                                                                   *)
Busy == {s \in Sessions : loop[s].pc # "idle"}
Creating == IF worker.pc = "create" THEN 1 ELSE 0
Pending == Len(queue) + Cardinality(Busy) + Creating

(* How many frames the sessions can have taken so far: all but the last    *)
(* may be through.                                                         *)
Taken == IF sessions = 0 THEN 0 ELSE (sessions - 1) * MaxFrames + taken[sessions]

Counted ==
    /\ nextId + Pending <= Taken
    /\ session \in {0, sessions}
    /\ \A s \in Sessions : s > sessions => taken[s] = 0

(* The loops in a handler can be counted. *)
LEMMA Finite == IsFiniteSet(Busy) /\ Cardinality(Busy) \in Nat
<1>1. IsFiniteSet(Sessions)
  BY FS_Interval, FrameSaveAssumption DEF Sessions
<1>2. Busy \subseteq Sessions
  BY DEF Busy
<1> QED
  BY <1>1, <1>2, FS_Subset, FS_CardinalityType

(* The worker finds a number for its file. *)
LEMMA Room ==
    ASSUME Types, Counted, worker.pc = "create"
    PROVE  nextId + 1 \in Ids
<1>1. Taken <= MaxSessions * MaxFrames
  <2>1. CASE sessions = 0
    BY <2>1, FrameSaveAssumption DEF Taken
  <2>2. CASE sessions # 0
    <3>1. /\ sessions \in Nat /\ 1 <= sessions /\ sessions <= MaxSessions
          /\ taken[sessions] \in Nat /\ taken[sessions] <= MaxFrames
      BY <2>2, FrameSaveAssumption DEF Types, ManagerTypes, LoopTypes, Sessions
    <3>2. (sessions - 1) * MaxFrames + MaxFrames = sessions * MaxFrames
      BY <3>1, FrameSaveAssumption
    <3>3. sessions * MaxFrames <= MaxSessions * MaxFrames
      BY <3>1, FrameSaveAssumption
    <3> QED
      BY <2>2, <3>1, <3>2, <3>3, FrameSaveAssumption DEF Taken
  <2> QED
    BY <2>1, <2>2
<1>2. Len(queue) \in Nat /\ nextId \in Nat /\ Creating = 1
  BY DEF Types, PipeTypes, StoreTypes, Ids, Creating
<1>3. Taken \in Int /\ MaxSessions * MaxFrames \in Int
  BY FrameSaveAssumption DEF Taken, Types, ManagerTypes, LoopTypes, Sessions
<1> QED
  BY <1>1, <1>2, <1>3, Finite DEF Counted, Pending, Ids

(* Nothing is to be counted at the start. *)
LEMMA CountedStart == Init => Counted
<1> SUFFICES ASSUME Init PROVE Counted
  OBVIOUS
<1>1. Busy = {}
  BY DEF Init, Busy, Idle
<1>2. Pending = 0
  BY <1>1, FS_EmptySet DEF Init, Pending, Creating, Waiting
<1> QED
  BY <1>2, FrameSaveAssumption DEF Init, Counted, Taken

(* One loop moves: the handlers under way are one fewer, or as many as     *)
(* before.                                                                 *)
LEMMA LoopMoves ==
    ASSUME Types, Types', NEW s \in Sessions, s \in Busy,
           \A u \in Sessions \ {s} : loop'[u] = loop[u]
    PROVE  Cardinality(Busy') = IF loop'[s].pc = "idle" THEN Cardinality(Busy) - 1
                                                        ELSE Cardinality(Busy)
<1>1. Busy' = IF loop'[s].pc = "idle" THEN Busy \ {s} ELSE Busy
  BY DEF Busy
<1> QED
  BY <1>1, Finite, FS_RemoveElement

(* A frame is counted when it is taken; after that it is in one place at a *)
(* time, or lost.                                                          *)
LEMMA CountedStep ==
    ASSUME Types, Types', Counted, [Next]_vars
    PROVE  Counted'
<1>0. /\ Taken \in Int /\ Taken' \in Int /\ Len(queue) \in Nat
      /\ Len(queue') \in Nat /\ nextId \in Nat /\ nextId' \in Nat
      /\ Cardinality(Busy) \in Nat /\ Creating \in {0, 1} /\ Creating' \in {0, 1}
  <2>1. Taken \in Int
    BY FrameSaveAssumption DEF Taken, Types, ManagerTypes, LoopTypes, Sessions
  <2>2. Taken' \in Int
    BY FrameSaveAssumption DEF Taken, Types, ManagerTypes, LoopTypes, Sessions
  <2>3. Len(queue) \in Nat /\ Len(queue') \in Nat
    BY DEF Types, PipeTypes
  <2>4. nextId \in Nat /\ nextId' \in Nat
    BY DEF Types, StoreTypes, Ids
  <2> QED
    BY <2>1, <2>2, <2>3, <2>4, Finite DEF Creating
<1>1. CASE /\ UNCHANGED <<sessions, session, taken, loop>>
           /\ nextId' + Len(queue') + Creating' <= nextId + Len(queue) + Creating
  <2>1. Busy' = Busy /\ Taken' = Taken
    BY <1>1 DEF Busy, Taken
  <2>2. Cardinality(Busy') = Cardinality(Busy)
    BY <2>1
  <2>3. nextId' + Len(queue') + Creating' <= nextId + Len(queue) + Creating
    BY <1>1
  <2>4. /\ (nextId + (Len(queue) + Cardinality(Busy) + Creating) <= Taken)
        /\ \A s \in Sessions : s > sessions => taken[s] = 0
    BY DEF Counted, Pending
  <2>5. nextId' + (Len(queue') + Cardinality(Busy') + Creating') <= Taken'
    BY <1>0, <2>1, <2>2, <2>3, <2>4
  <2> QED
    BY <1>1, <2>4, <2>5 DEF Counted, Pending
<1>2. CASE StartSession
  <2>1. /\ sessions' = sessions + 1 /\ session' = sessions + 1
        /\ sessions' \in Sessions /\ sessions \in Nat /\ taken' = taken
        /\ UNCHANGED <<nextId, queue, loop, worker>>
    BY <1>2, FrameSaveAssumption
       DEF StartSession, Types, ManagerTypes, Sessions, loops, pipe, store
  <2>2. Pending' = Pending /\ Pending \in Nat
    BY <1>0, <2>1 DEF Pending, Busy, Creating
  <2>3. Taken' >= Taken
    <3>1. Taken' = sessions * MaxFrames
      BY <2>1, FrameSaveAssumption DEF Taken, Counted
    <3>2. CASE sessions = 0
      BY <3>1, <3>2, FrameSaveAssumption DEF Taken
    <3>3. CASE sessions # 0
      <4>1. taken[sessions] \in Nat /\ taken[sessions] <= MaxFrames
        BY <2>1, <3>3, FrameSaveAssumption DEF Types, LoopTypes, Sessions
      <4>2. (sessions - 1) * MaxFrames + MaxFrames = sessions * MaxFrames
        BY <2>1, FrameSaveAssumption
      <4> QED
        BY <2>1, <3>1, <3>3, <4>1, <4>2, FrameSaveAssumption DEF Taken
    <3> QED
      BY <3>2, <3>3
  <2> QED
    BY <1>0, <2>1, <2>2, <2>3 DEF Counted, Sessions
<1>3. CASE StopSession
  <2>1. UNCHANGED <<sessions, taken, loop, nextId, queue, worker>> /\ session' = 0
    BY <1>3 DEF StopSession, loops, pipe, store
  <2> QED
    BY <2>1 DEF Counted, Pending, Taken, Busy, Creating
<1>4. ASSUME NEW s \in Sessions, TakeFrame(s) PROVE Counted'
  <2>1. /\ s = sessions /\ s # 0 /\ taken' = [taken EXCEPT ![s] = @ + 1]
        /\ loop[s].pc = "idle" /\ loop'[s].pc = "record"
        /\ \A u \in Sessions \ {s} : loop'[u] = loop[u]
        /\ UNCHANGED <<session, sessions, nextId, queue, worker>>
    BY <1>4
       DEF TakeFrame, Counted, Types, LoopTypes, LoopStates, Sessions, manager,
           pipe, store
  <2>2. Busy' = Busy \cup {s} /\ s \notin Busy
    BY <2>1 DEF Busy
  <2>3. Cardinality(Busy') = Cardinality(Busy) + 1
    BY <2>2, Finite, FS_AddElement
  <2>4. Taken' = Taken + 1
    BY <2>1, FrameSaveAssumption DEF Taken, Types, LoopTypes, Sessions
  <2>5. \A u \in Sessions : u > sessions => taken'[u] = 0
    <3>1. \A u \in Sessions \ {s} : taken'[u] = taken[u]
      BY <2>1 DEF Types, LoopTypes
    <3>2. \A u \in Sessions : u > sessions => u # s
      BY <2>1 DEF Sessions
    <3> QED
      BY <2>1, <3>1, <3>2 DEF Counted
  <2> QED
    BY <1>0, <2>1, <2>3, <2>4, <2>5 DEF Counted, Pending, Creating
<1>5. ASSUME NEW s \in Sessions, Handler(s) PROVE Counted'
  <2>1. s \in Busy /\ \A u \in Sessions \ {s} : loop'[u] = loop[u]
    BY <1>5
       DEF Handler, RecordFrame, ReadConfig, ReadFrame, ShouldSave, TryWrite, Busy,
           Types, LoopTypes
  <2>2. UNCHANGED <<session, sessions, taken, nextId, worker>>
    BY <1>5
       DEF Handler, RecordFrame, ReadConfig, ReadFrame, ShouldSave, TryWrite,
           manager, store
  <2>3. /\ Cardinality(Busy') \in Nat
        /\ Cardinality(Busy') + Len(queue') <= Cardinality(Busy) + Len(queue)
    <3>1. CASE TryWrite(s)
      <4>1. loop'[s].pc = "idle" /\ queue' \in {queue, Append(queue, Item(s))}
        BY <3>1 DEF TryWrite, Idle, Types, LoopTypes
      <4>2. Len(queue') <= Len(queue) + 1
        BY <1>0, <4>1 DEF Types, PipeTypes
      <4>3. Cardinality(Busy') = Cardinality(Busy) - 1 /\ s \in Busy
        BY <2>1, <4>1, LoopMoves
      <4>4. Cardinality(Busy) # 0
        BY <2>1, Finite, FS_EmptySet
      <4> QED
        BY <1>0, <4>2, <4>3, <4>4
    <3>2. CASE ~TryWrite(s)
      <4>1. queue' = queue
        BY <1>5, <3>2
           DEF Handler, RecordFrame, ReadConfig, ReadFrame, ShouldSave, pipe
      <4>2. Cardinality(Busy) # 0
        BY <2>1, Finite, FS_EmptySet
      <4> QED
        BY <1>0, <2>1, <4>1, <4>2, LoopMoves
    <3> QED
      BY <3>1, <3>2
  <2>4. Taken' = Taken /\ Creating' = Creating
    BY <2>2 DEF Taken, Creating
  <2> QED
    BY <1>0, <2>2, <2>3, <2>4 DEF Counted, Pending, Creating
<1>6. CASE Worker
  <2>1. UNCHANGED <<sessions, session, taken, loop>>
    BY <1>6
       DEF Worker, WorkerTake, WorkerEnds, WorkerCreate, WorkerEncode, WorkerAddRow,
           WorkerFails, manager, loops
  <2>2. CASE WorkerTake
    <3>1. Len(queue') = Len(queue) - 1 /\ worker.pc = "wait" /\ nextId' = nextId
      BY <2>2 DEF WorkerTake, Types, PipeTypes, store
    <3> QED
      BY <1>0, <1>1, <2>1, <3>1 DEF Creating
  <2>3. CASE WorkerCreate
    <3>1. /\ nextId' = nextId + 1 /\ worker.pc = "create" /\ worker'.pc = "encode"
          /\ queue' = queue
      BY <2>3 DEF WorkerCreate, Types, ThreadTypes, WorkerStates, pipe
    <3> QED
      BY <1>0, <1>1, <2>1, <3>1 DEF Creating
  <2>4. CASE WorkerEnds \/ WorkerEncode \/ WorkerAddRow \/ WorkerFails
    <3>1. worker'.pc # "create"
      BY <2>4
         DEF WorkerEnds, WorkerEncode, WorkerAddRow, WorkerFails, Waiting, Types,
             ThreadTypes, WorkerStates
    <3>2. nextId' = nextId /\ queue' = queue
      BY <2>4 DEF WorkerEnds, WorkerEncode, WorkerAddRow, WorkerFails, pipe, store
    <3> QED
      BY <1>0, <1>1, <2>1, <3>1, <3>2 DEF Creating
  <2> QED
    BY <1>6, <2>2, <2>3, <2>4 DEF Worker
<1>7. CASE ProcessEnds
  <2>1. /\ Len(queue') = 0 /\ session' = 0 /\ Creating' = 0
        /\ UNCHANGED <<sessions, taken, nextId>>
    BY <1>7 DEF ProcessEnds, Creating, Waiting, store
  <2>2. Busy' = {}
    BY <1>7 DEF ProcessEnds, Busy, Idle
  <2>3. Cardinality(Busy') = 0 /\ Taken' = Taken
    BY <2>1, <2>2, FS_EmptySet DEF Taken
  <2> QED
    BY <1>0, <2>1, <2>3 DEF Counted, Pending, Creating
<1>8. ASSUME UNCHANGED vars \/ HostStop \/ HostJoins \/ HostGivesUp \/ Boot
             \/ \E r \in Requests : Delete(r) \/ \E i \in Ids : DeleteFind(r, i)
      PROVE Counted'
  <2>1. UNCHANGED <<sessions, session, taken, loop, nextId, queue, worker>>
    BY <1>8
       DEF vars, HostStop, HostJoins, HostGivesUp, Boot, Delete, DeleteFile,
           DeleteRow, DeleteFind, manager, loops, pipe, store
  <2> QED
    BY <1>0, <1>1, <2>1 DEF Creating
<1> QED
  BY <1>2, <1>3, <1>4, <1>5, <1>6, <1>7, <1>8 DEF Next

(***************************************************************************)
(* Frames and their sessions                                               *)
(***************************************************************************)

Matches(item) == item.config = item.frame[1]

(* A loop that is in a handler is that of the last session; so are the     *)
(* frame and the configuration it has in hand.                             *)
OneLoop ==
    \A s \in Sessions :
        /\ loop[s].pc # "idle" => s = sessions
        /\ loop[s].pc \in {"record", "track", "write"} => loop[s].frame[1] = sessions
        /\ loop[s].pc \in {"frame", "track", "write"} => loop[s].config = sessions

(* Whatever is on its way to a file has its session's configuration. *)
ItemsMatch ==
    /\ \A i \in DOMAIN queue : Matches(queue[i])
    /\ worker.pc \in {"create", "encode", "row"} => Matches(worker.item)

Sorted ==
    /\ latest # NoFrame => latest[1] = sessions
    /\ OneLoop /\ ItemsMatch /\ SavedUnderItsSession

(* Nothing is recorded at the start. *)
LEMMA SortedStart == Init => Sorted
  BY DEF Init, Sorted, OneLoop, ItemsMatch, SavedUnderItsSession, Idle, Waiting

(* A handler reads the configuration and the latest frame of its own       *)
(* session, because no session begins while it runs.                       *)
LEMMA SortedStep ==
    ASSUME ~LateLoops, Types, Counted, Files, Sorted, [Next]_vars
    PROVE  Sorted'
<1> USE DEF Sorted
<1>1. CASE StartSession
  <2>1. /\ latest' = NoFrame /\ \A s \in Sessions : loop[s].pc = "idle"
        /\ UNCHANGED <<loop, queue, worker, disk, content>>
    BY <1>1 DEF StartSession, loops, pipe, store
  <2> QED
    BY <2>1 DEF OneLoop, ItemsMatch, SavedUnderItsSession
<1>2. ASSUME NEW s \in Sessions, TakeFrame(s) PROVE Sorted'
  <2>1. /\ s = sessions /\ loop'[s].pc = "record" /\ loop'[s].frame[1] = s
        /\ \A u \in Sessions \ {s} : loop'[u] = loop[u]
    BY <1>2 DEF TakeFrame, Counted, Types, LoopTypes, LoopStates, Sessions
  <2>2. UNCHANGED <<sessions, latest, queue, worker, disk, content>>
    BY <1>2 DEF TakeFrame, manager, pipe, store
  <2>3. OneLoop'
    BY <2>1, <2>2 DEF OneLoop
  <2> QED
    BY <2>2, <2>3 DEF ItemsMatch, SavedUnderItsSession
<1>3. ASSUME NEW s \in Sessions, Handler(s) PROVE Sorted'
  <2>1. /\ s = sessions /\ loop[s].pc # "idle"
        /\ \A u \in Sessions \ {s} : loop'[u] = loop[u]
    BY <1>3
       DEF Handler, RecordFrame, ReadConfig, ReadFrame, ShouldSave, TryWrite,
           OneLoop, Types, LoopTypes
  <2>2. UNCHANGED <<sessions, session, worker, disk, content>>
    BY <1>3
       DEF Handler, RecordFrame, ReadConfig, ReadFrame, ShouldSave, TryWrite,
           manager, store
  <2>3. /\ loop'[s].pc \in {"record", "track", "write"} => loop'[s].frame[1] = sessions
        /\ loop'[s].pc \in {"frame", "track", "write"} => loop'[s].config = sessions
    <3>0. loop[s] \in LoopStates /\ loop' \in [Sessions -> LoopStates] /\ s # 0
      BY FrameSaveAssumption, <1>3, RecordFrameTypes, ReadConfigTypes,
         ReadFrameTypes, ShouldSaveTypes, TryWriteTypes
         DEF Types, LoopTypes, Handler, Sessions
    <3>1. CASE RecordFrame(s)
      BY <3>0, <3>1 DEF RecordFrame, Idle, Types, LoopTypes
    <3>2. CASE ReadConfig(s)
      <4>1. CASE session = 0
        BY <3>2, <4>1 DEF ReadConfig, Idle, Types, LoopTypes
      <4>2. CASE session # 0
        BY <3>0, <3>2, <4>2 DEF ReadConfig, Types, LoopTypes, LoopStates, Counted
      <4> QED
        BY <4>1, <4>2
    <3>3. CASE ReadFrame(s)
      <4>1. CASE latest = NoFrame
        BY <3>3, <4>1 DEF ReadFrame, Idle, Types, LoopTypes
      <4>2. CASE latest # NoFrame
        BY <3>0, <3>3, <4>2 DEF ReadFrame, Types, LoopTypes, LoopStates, OneLoop
      <4> QED
        BY <4>1, <4>2
    <3>4. CASE ShouldSave(s)
      <4>1. CASE lastSaved = loop[s].frame
        BY <3>4, <4>1 DEF ShouldSave, Idle, Types, LoopTypes
      <4>2. CASE lastSaved # loop[s].frame
        BY <3>0, <3>4, <4>2 DEF ShouldSave, Types, LoopTypes, LoopStates, OneLoop
      <4> QED
        BY <4>1, <4>2
    <3>5. CASE TryWrite(s)
      BY <3>5 DEF TryWrite, Idle, Types, LoopTypes
    <3> QED
      BY <1>3, <3>1, <3>2, <3>3, <3>4, <3>5 DEF Handler
  <2>4. OneLoop'
    BY <2>1, <2>2, <2>3 DEF OneLoop
  <2>5. latest' # NoFrame => latest'[1] = sessions
    BY <1>3, <2>1
       DEF Handler, RecordFrame, ReadConfig, ReadFrame, ShouldSave, TryWrite,
           manager, OneLoop
  <2>6. \A i \in DOMAIN queue' : Matches(queue'[i])
    <3>1. CASE queue' = queue
      BY <3>1 DEF ItemsMatch
    <3>2. CASE queue' = Append(queue, Item(s)) /\ loop[s].pc = "write"
      <4>1. Matches(Item(s))
        BY <2>1, <3>2 DEF Matches, Item, OneLoop
      <4> QED
        BY <3>2, <4>1 DEF ItemsMatch, Types, PipeTypes
    <3> QED
      BY <1>3, <3>1, <3>2
         DEF Handler, RecordFrame, ReadConfig, ReadFrame, ShouldSave, TryWrite, pipe
  <2> QED
    BY <2>2, <2>4, <2>5, <2>6 DEF ItemsMatch, SavedUnderItsSession
<1>4. CASE Worker
  <2>1. UNCHANGED <<latest, sessions, loop>>
    BY <1>4
       DEF Worker, WorkerTake, WorkerEnds, WorkerCreate, WorkerEncode, WorkerAddRow,
           WorkerFails, manager, loops
  <2>2. CASE WorkerTake
    <3>1. /\ worker'.item = Head(queue) /\ queue' = Tail(queue) /\ queue # << >>
          /\ UNCHANGED <<disk, content>>
      BY <2>2 DEF WorkerTake, Types, ThreadTypes, WorkerStates, store
    <3>2. Matches(worker'.item) /\ \A i \in DOMAIN queue' : Matches(queue'[i])
      BY <3>1 DEF ItemsMatch, Types, PipeTypes
    <3> QED
      BY <2>1, <3>1, <3>2 DEF OneLoop, ItemsMatch, SavedUnderItsSession
  <2>3. CASE WorkerCreate
    <3>1. /\ worker.pc = "create" /\ worker'.item = worker.item /\ queue' = queue
          /\ disk' = [disk EXCEPT ![nextId + 1] = "partial"]
          /\ content' = [content EXCEPT ![nextId + 1] = worker.item]
      BY <2>3 DEF WorkerCreate, Types, ThreadTypes, WorkerStates, pipe
    <3>2. SavedUnderItsSession'
      BY <3>1 DEF SavedUnderItsSession, ItemsMatch, Matches, Types, StoreTypes
    <3> QED
      BY <2>1, <3>1, <3>2 DEF OneLoop, ItemsMatch
  <2>4. CASE WorkerEncode
    <3>1. /\ worker.pc = "encode" /\ worker'.item = worker.item
          /\ UNCHANGED <<queue, content>>
          /\ disk' = [disk EXCEPT ![worker.id] = "whole"]
      BY <2>4 DEF WorkerEncode, Types, ThreadTypes, WorkerStates, pipe
    <3>2. disk[worker.id] # "none"
      BY <3>1 DEF Files, WorkerFile
    <3> QED
      BY <2>1, <3>1, <3>2
         DEF OneLoop, ItemsMatch, SavedUnderItsSession, Types, StoreTypes
  <2>5. CASE WorkerEnds \/ WorkerAddRow \/ WorkerFails
    <3>1. worker'.pc \notin {"create", "encode", "row"}
      BY <2>5
         DEF WorkerEnds, WorkerAddRow, WorkerFails, Waiting, Types, ThreadTypes,
             WorkerStates
    <3>2. UNCHANGED <<queue, disk, content>>
      BY <2>5 DEF WorkerEnds, WorkerAddRow, WorkerFails, pipe, store
    <3> QED
      BY <2>1, <3>1, <3>2 DEF OneLoop, ItemsMatch, SavedUnderItsSession
  <2> QED
    BY <1>4, <2>2, <2>3, <2>4, <2>5 DEF Worker
<1>5. ASSUME NEW r \in Requests, Delete(r) \/ \E i \in Ids : DeleteFind(r, i)
      PROVE Sorted'
  <2>1. UNCHANGED <<latest, sessions, loop, queue, worker, content>>
    BY <1>5
       DEF Delete, DeleteFile, DeleteRow, DeleteFind, manager, loops, pipe, store
  <2>2. \A i \in Ids : disk'[i] # "none" => disk[i] # "none"
    BY <1>5
       DEF Delete, DeleteFile, DeleteRow, DeleteFind, Files, KnownFiles, Types,
           StoreTypes, store
  <2> QED
    BY <2>1, <2>2 DEF OneLoop, ItemsMatch, SavedUnderItsSession
<1>6. CASE ProcessEnds
  BY <1>6
     DEF ProcessEnds, OneLoop, ItemsMatch, SavedUnderItsSession, Idle, Waiting,
         store
<1>7. ASSUME UNCHANGED vars \/ StopSession \/ HostStop \/ HostJoins \/ HostGivesUp
             \/ Boot
      PROVE Sorted'
  <2>1. UNCHANGED <<latest, sessions, loop, queue, worker, disk, content>>
    BY <1>7
       DEF vars, StopSession, HostStop, HostJoins, HostGivesUp, Boot, manager,
           loops, pipe, store
  <2> QED
    BY <2>1 DEF OneLoop, ItemsMatch, SavedUnderItsSession
<1> QED
  BY <1>1, <1>2, <1>3, <1>4, <1>5, <1>6, <1>7 DEF Next

(***************************************************************************)
(* The theorems                                                            *)
(***************************************************************************)

SaveInv == Types /\ Counted /\ Files /\ Draining

(* The parts hold together. *)
LEMMA SaveInvHolds == Spec => []SaveInv
<1>1. Init => SaveInv
  BY TypesStart, CountedStart, FilesStart, DrainingStart DEF SaveInv
<1>2. SaveInv /\ [Next]_vars => SaveInv'
  <2> SUFFICES ASSUME SaveInv, [Next]_vars PROVE SaveInv'
    OBVIOUS
  <2>1. WorkerCreate => nextId + 1 \in Ids
    BY Room DEF SaveInv, WorkerCreate
  <2>2. WorkerAddRow => worker.id \in Ids
    BY DEF SaveInv, Files, WorkerFile, WorkerAddRow
  <2>3. Types'
    <3>1. CASE UNCHANGED vars
      BY <3>1
         DEF SaveInv, Types, ManagerTypes, LoopTypes, PipeTypes, StoreTypes,
             ThreadTypes, vars, manager, loops, pipe, store, process
    <3>2. CASE Next
      BY <2>1, <2>2, <3>2, TypesStep DEF SaveInv
    <3> QED
      BY <3>1, <3>2
  <2> QED
    BY <2>1, <2>3, CountedStep, FilesStep, DrainingStep DEF SaveInv
<1> QED
  BY <1>1, <1>2, PTL DEF Spec

(* Every variable keeps its type: the queue stays within its capacity, and *)
(* the files created within the frames taken.                              *)
THEOREM TypeCorrect == Spec => []TypeOK
<1>1. SaveInv => TypeOK
  BY DEF SaveInv, Types, ManagerTypes, LoopTypes, PipeTypes, StoreTypes,
         ThreadTypes, LoopStates, WorkerStates, DeleteStates, TypeOK
<1> QED
  BY SaveInvHolds, <1>1, PTL

(* The catalogue lists no file that is missing or half written, unless a   *)
(* deletion removed it, through failed writes, crashes and requests that   *)
(* delete what is being saved (SaveAsync adds the row last,                *)
(* FrameSaveService.cs).                                                   *)
THEOREM RowsHaveFiles == Spec => []RowHasItsFile
<1>1. SaveInv => RowHasItsFile
  BY DEF SaveInv, Files
<1> QED
  BY SaveInvHolds, <1>1, PTL

(* A StopAsync that saw its worker end left nothing in the queue, though   *)
(* handlers may run on.                                                    *)
THEOREM NothingLeftBehind == Spec => []ShutdownDrains
<1>1. SaveInv => ShutdownDrains
  BY DEF SaveInv, Draining, ShutdownDrains
<1> QED
  BY SaveInvHolds, <1>1, PTL

(* Where every loop is through before the next session begins, a frame is  *)
(* written with the configuration of the session it was taken in, though   *)
(* the handler asks for the two in separate calls (OnFrameAcquired).       *)
THEOREM OwnConfiguration == ASSUME ~LateLoops PROVE Spec => []SavedUnderItsSession
<1>1. Init => SaveInv /\ Sorted
  BY TypesStart, CountedStart, FilesStart, DrainingStart, SortedStart DEF SaveInv
<1>2. SaveInv /\ Sorted /\ [Next]_vars => Sorted'
  BY SortedStep DEF SaveInv
<1>3. Sorted => SavedUnderItsSession
  BY DEF Sorted
<1> QED
  BY SaveInvHolds, <1>1, <1>2, <1>3, PTL DEF Spec

===============================================================================
