------------------------------- MODULE StatusFeed -------------------------------
(***************************************************************************)
(* How the session's status reaches a browser. GetEvents of                *)
(* AcquisitionController.cs pushes it whenever StatusChanged is raised     *)
(* (useLiveStream.ts receives it); GetStatus answers the queries of        *)
(* useAcquisitionSession.ts, repeated while its copy says the session is   *)
(* active. Both write the same query cache.                                *)
(*                                                                         *)
(* StatusChanged is raised outside the manager's lock, by requests, pool   *)
(* tasks and processing loops: each builds a message from the status of    *)
(* that moment, and then queues it. A status is named by the number of     *)
(* changes before it. There is one browser; when its connection breaks it  *)
(* opens the next one by itself.                                           *)
(***************************************************************************)
EXTENDS Naturals, Sequences

CONSTANTS
    Raisers,        \* threads that change the session and raise StatusChanged
    MaxVersion,     \* bound: changes of the session
    MaxStreams      \* bound: connections

VARIABLES
    active,         \* the session is active
    version,        \* how often its status changed
    announced,      \* the last change that StatusChanged is raised for
    raiser,         \* each raiser: position, message, connection it is for
    stream,         \* GetEvents: position, first message, connection
    queue,          \* its channel of messages
    crossed,        \* the newest message was built while an older was not queued
    live,           \* what the last message said; isActive of useLiveStream
    cache,          \* isActive in the query cache
    fetch           \* the GetStatus request: none, sent, or the answer

session == <<active, version, announced>>
server  == <<raiser, stream, queue, crossed>>
browser == <<live, cache, fetch>>
vars == <<active, version, announced, raiser, stream, queue, crossed, live, cache, fetch>>

Status == [active |-> active, version |-> version]
NoStatus == [active |-> FALSE, version |-> 0]

Message(p, status, n) == [pc |-> p, status |-> status, to |-> n]

Init ==
    /\ active = FALSE /\ version = 0 /\ announced = 0
    /\ raiser = [r \in Raisers |-> Message("idle", NoStatus, 0)]
    /\ stream = Message("closed", NoStatus, 0)
    /\ queue = << >> /\ crossed = FALSE
    /\ live = NoStatus /\ cache = FALSE /\ fetch = "none"

(* Definitions that no action uses are mistakes: the one that follows each *)
(* of them, replaced by it, breaks a property (PROJECT.json, "mutants").   *)

(***************************************************************************)
(* The session                                                             *)
(***************************************************************************)

(* Start, Stop or a frame, under the manager's lock.                       *)
Change(r, to) ==
    /\ raiser[r].pc = "idle" /\ version < MaxVersion
    /\ active' = to /\ version' = version + 1 /\ announced' = version + 1
    /\ raiser' = [raiser EXCEPT ![r].pc = "raise"]
    /\ UNCHANGED <<stream, queue, crossed, browser>>

(* ReleaseChannel and errors raise nothing.                                *)
ChangeUnannounced ==
    /\ version < MaxVersion
    /\ version' = version + 1
    /\ UNCHANGED <<active, announced, server, browser>>

(***************************************************************************)
(* GetEvents                                                               *)
(***************************************************************************)

(* Mistake: the handlers are subscribed after the first message. *)
SubscribedLate == stream.pc = "open"

(* The handlers are subscribed before the first message is built.          *)
Subscribed == stream.pc # "closed"

(* A message that somebody built for this connection and has not queued.   *)
Unqueued ==
    \/ stream.pc = "first"
    \/ \E r \in Raisers : raiser[r].pc = "queue" /\ raiser[r].to = stream.to

(* OnStatusChanged, if it is subscribed: GetStatus takes the manager's     *)
(* lock for itself.                                                        *)
Build(r) ==
    /\ raiser[r].pc = "raise"
    /\ raiser' = [raiser EXCEPT ![r] =
                     IF Subscribed THEN Message("queue", Status, stream.to)
                                   ELSE Message("idle", NoStatus, 0)]
    /\ crossed' = IF Subscribed THEN Unqueued ELSE crossed
    /\ UNCHANGED <<session, stream, queue, browser>>

(* TryWrite; the channel of a connection that is gone is completed.        *)
Enqueue(r) ==
    /\ raiser[r].pc = "queue"
    /\ queue' = IF raiser[r].to = stream.to /\ stream.pc # "closed"
                  THEN Append(queue, raiser[r].status) ELSE queue
    /\ raiser' = [raiser EXCEPT ![r] = Message("idle", NoStatus, 0)]
    /\ UNCHANGED <<session, stream, crossed, browser>>

(* The browser's EventSource opens a connection: subscribe, ...            *)
Connect ==
    /\ stream.pc = "closed" /\ stream.to < MaxStreams
    /\ stream' = Message("subscribed", NoStatus, stream.to + 1)
    /\ UNCHANGED <<session, raiser, queue, crossed, browser>>

(* ... build the first message, like a handler, ...                        *)
BuildFirst ==
    /\ stream.pc = "subscribed"
    /\ stream' = Message("first", Status, stream.to)
    /\ crossed' = Unqueued
    /\ UNCHANGED <<session, raiser, queue, browser>>

(* ... queue it, perhaps behind newer ones, and start sending.             *)
EnqueueFirst ==
    /\ stream.pc = "first"
    /\ queue' = Append(queue, stream.status)
    /\ stream' = Message("open", NoStatus, stream.to)
    /\ UNCHANGED <<session, raiser, crossed, browser>>

(* A message arrives: status_changed sets the cache and isActive.          *)
Deliver ==
    /\ stream.pc = "open" /\ queue # << >>
    /\ queue' = Tail(queue)
    /\ live' = Head(queue) /\ cache' = Head(queue).active
    /\ UNCHANGED <<session, raiser, stream, crossed, fetch>>

(* The connection breaks, with what it had queued.                         *)
Disconnect ==
    /\ stream.pc # "closed"
    /\ stream' = Message("closed", NoStatus, stream.to)
    /\ queue' = << >>
    /\ UNCHANGED <<session, raiser, crossed, browser>>

(***************************************************************************)
(* GetStatus                                                               *)
(***************************************************************************)

(* Mistake: the status is queried again while it says nothing happens. *)
PollInactive ==
    /\ ~cache /\ fetch = "none"
    /\ fetch' = "sent"
    /\ UNCHANGED <<session, server, live, cache>>

(* refetchInterval: a query every second while the cache says active.      *)
Poll ==
    /\ cache /\ fetch = "none"
    /\ fetch' = "sent"
    /\ UNCHANGED <<session, server, live, cache>>

(* The page is mounted, or a Start or Stop of its own was answered: a      *)
(* query, which takes the place of one that is under way.                  *)
Invalidate ==
    /\ fetch' = "sent"
    /\ UNCHANGED <<session, server, live, cache>>

Answer ==
    /\ fetch = "sent"
    /\ fetch' = IF active THEN "active" ELSE "inactive"
    /\ UNCHANGED <<session, server, live, cache>>

(* The request fails, the cache keeps what it has.                         *)
FetchFails ==
    /\ fetch # "none"
    /\ fetch' = "none"
    /\ UNCHANGED <<session, server, live, cache>>

(* The answer overwrites whatever messages came in the meantime.           *)
Receive ==
    /\ fetch \in {"active", "inactive"}
    /\ cache' = (fetch = "active") /\ fetch' = "none"
    /\ UNCHANGED <<session, server, live>>

(***************************************************************************)
(* The specification                                                       *)
(***************************************************************************)

Next ==
    \/ \E r \in Raisers :
          (\E to \in BOOLEAN : Change(r, to)) \/ Build(r) \/ Enqueue(r)
    \/ ChangeUnannounced
    \/ Connect \/ BuildFirst \/ EnqueueFirst \/ Deliver \/ Disconnect
    \/ Poll \/ Invalidate \/ Answer \/ FetchFails \/ Receive

Spec == Init /\ [][Next]_vars

(* Threads go on, queued messages are sent, the interval elapses, and of   *)
(* queries that are repeated for ever not all fail. Connections need not   *)
(* come back.                                                              *)
Fairness ==
    /\ \A r \in Raisers : WF_vars(Build(r) \/ Enqueue(r))
    /\ WF_vars(EnqueueFirst \/ Deliver)
    /\ WF_vars(Poll) /\ SF_vars(Answer) /\ SF_vars(Receive)

(***************************************************************************)
(* Properties                                                              *)
(***************************************************************************)

Statuses == [active : BOOLEAN, version : 0..MaxVersion]

(* Every variable has its type.                                            *)
TypeOK ==
    /\ {active, cache, crossed} \subseteq BOOLEAN
    /\ version \in 0..MaxVersion /\ announced \in 0..version
    /\ raiser \in [Raisers -> [pc : {"idle", "raise", "queue"}, status : Statuses,
                               to : 0..MaxStreams]]
    /\ stream \in [pc : {"closed", "subscribed", "first", "open"}, status : Statuses,
                   to : 0..MaxStreams]
    /\ queue \in Seq(Statuses) /\ live \in Statuses
    /\ fetch \in {"none", "sent", "active", "inactive"}

(* A connected browser misses nothing: once all is sent, it has seen the   *)
(* last change that was announced, also one made while it was connecting.  *)
(* The exception is a message built before that change and queued after    *)
(* it, which is then the last. What the page shows is its cache, which an  *)
(* older answer to a poll may overwrite: see StaleActiveHeals.             *)
QuietMeansCurrent ==
    /\ stream.pc = "open" /\ queue = << >> /\ ~crossed
    /\ \A r \in Raisers : raiser[r].pc = "idle"
    => live.version >= announced

(* A page that shows a session as active, from an old message or an old    *)
(* answer, does not go on doing so after the session has ended for good,   *)
(* whether it is connected or not.                                         *)
StaleActiveHeals == Fairness => ((<>[]~active) => <>[]~cache)

===============================================================================
