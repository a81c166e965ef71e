# PeanutVision: a TLA+ verification project

PeanutVision acquires images from line-scan and area cameras through Euresys Grablink frame
grabbers. A C# driver layer (`src/PeanutVision.MultiCamDriver`) wraps the vendor's MultiCam
library; an ASP.NET service (`src/PeanutVision.Api`) runs one acquisition session at a time on
top of it, saves frames, measures trigger latency and streams its status; a React application
(`src/peanut-vision-app`) drives the service. These modules model the concurrent core of that
program: everything between the vendor's callback threads and the files on disk.

Contents: [the system](#the-system), [the modules](#the-modules), [the runs](#the-runs),
[what the runs refute](#what-the-runs-refute), [the proofs](#the-proofs),
[what is not modelled](#what-is-not-modelled), [the plan](#the-plan).

## The system

| Component | State it keeps | Operations | Who calls it |
|---|---|---|---|
| `GrabChannel` (driver) | handle, `_isActive`, disposal flags, a bounded signal queue and the task that reads it, the state of each surface in the driver, drop counters | callbacks of native threads, the processing loop, `StartAcquisition`, `StopAcquisition`, `Dispose` | the vendor's threads; the session, under its lock |
| `GrabService` (driver) | initialised and disposed flags, the registry of channels | `Initialize` with retries, `CreateChannel`, `ReleaseChannel`, `Dispose` | the session, the host |
| `AcquisitionManager` (API) | channel and its state, active configuration, statistics, last frame and error, pending trigger, interval timer, trigger timestamps | `Start`, `Stop`, `ReleaseChannel`, `Trigger`, `TriggerAsync`, `GetStatus`, `GetLatestFrame`, `Dispose`, three event handlers | HTTP threads, the timer, pool tasks, the channels' loops |
| Frame saving (`FrameSaveService`, `FrameSaveTracker`, `FilenameGenerator`) | a bounded queue, the last frame marked as saved, a name counter | the `FrameAcquired` handler, the save worker, `StartAsync`, `StopAsync` | the channels' loops, the host |
| Image catalogue (`CapturedImageRepository`, `ImagesController`) | rows in SQLite, files on disk | add, page, download, delete | the save worker, HTTP threads |
| Trigger latency (`LatencyService`, `LatencyRepository`, `LatencyAnalyzer`) | the last records and the next id | add, read, clear, statistics | the channels' loops, HTTP threads |
| `AcquisitionStatistics` (driver) | counters, shortest, longest and summed frame interval, a stopwatch | start, stop, record, reset, snapshot | the session, under its lock |
| `ChannelEventLog` | a ring of events | add, read | the manager |
| Presets (`AcquisitionPresetService`) | a list in memory and a JSON file | save, delete, load | HTTP threads |
| `AcquisitionController` | connected event streams | REST calls, server-sent status events | browsers |
| Web client (`useAcquisitionSession`, `useLiveStream`, `ImageGallery`) | a query cache, the last message of the stream, the page shown and the rows marked on it | poll, receive, invalidate; fetch, page, mark, delete | its user |
| HAL, mock and fake camera, camera files, encoders, histogram, file browser | (almost) none | conversions and I/O | everyone |

The path of a frame: the hardware fills a surface and a native thread runs `OnNativeCallback`,
which puts the surface into the channel's queue; the channel's loop copies it, gives it back
and raises `FrameAcquired`; the manager's handler, on that loop, records the frame under the
manager's `_lock`, pairs it with a trigger, completes a waiting `TriggerAsync` and raises its own
`FrameAcquired`; the save service's handler, still on that loop, asks the manager for the
configuration and the frame and queues both; a worker writes the file and then the row.

The other way round, `Stop` takes `_lock` and calls the channel's `StopAcquisition`, which
completes the queue, waits at most two seconds for the loop, drains what is left and gives the
surfaces back. The loop may be waiting for `_lock` just then.

What is hard here: handlers of one session running while another begins (every join has a
time-out); lock-free callbacks beside a shutdown; bounded queues that drop; `Task.Run(Stop)` not
tied to the session that asked for it; calls of the driver whose status nobody reads; results told apart only by their order (timestamps and
frames, status messages of several threads); two stores (file and row, list and JSON file) that are
changed one after the other; releases of channels beside the disposal of the service that owns
them; a browser whose pages change under what is marked on them.
`PROJECT.json` lists these hazards line by line with the properties that watch them.

What makes each component correct: no surface is used after it was given back, or lost; an
acquiring channel is always served; at most one session, whose channel, timer and pending trigger
belong together; a session that ends by itself is noticed; calls return; a frame is measured
against its own trigger and saved under its own session, at most once; a row has its file; an
orderly shutdown loses nothing that was accepted; histories hold the newest entries; no channel
outlives the driver, and what a channel may call back stays pinned; a browser that is connected is told of
every change, and deletes only what its user saw marked. Where the code does not do this the property names
the exception, or a run refutes it.

## The modules

`GrabChannel` models one channel. Each native thread, each processing loop and the one control
call in progress has a program counter; a step is what the code does between two points where
another thread's action matters (a read of a shared field, a queue operation, a HAL call). Every
re-creation of the queue is a new *generation*, so that a loop left behind by a timed-out join
goes on reading the old queue beside the new loop. Correspondence: `OnSurfaceCallback`,
`OnSignalCallback`, `EnqueueSurfaceTest`, `EnqueueSurfaceWrite`, `EnqueueSignal` and `DropSurface`
are `ProcessSignal` and what it calls; `LoopStart` to `HandlerReturn` are
`ProcessingLoopAsync`; `CloseQueue` to `NullOut` are `ShutdownProcessingThread`, shared by stop and
disposal. Control calls do not overlap because their only client makes them under its own lock or
on a channel that it has already detached; the channel's own lock is therefore not a variable. What
`StartAcquisition` asks of the driver may fail; calls whose status the channel does not look at (giving a
surface back, stopping, deleting) succeed here: a refused release would keep a surface from the cluster for
good, and a refused deletion is `GrabService`'s subject. The drop counters are only reported and are not variables.

`AcquisitionManager` models the session with the channel reduced to what the manager can see of
it: hardware that runs or not, `IsActive`, a queue of events, a subscription, a loop (thread `c`
is the loop of channel `c`) and a stop that joins it or gives up. A section under `_lock` is one
step, except the one in `Stop`, which holds the lock while it waits. The event queue is unbounded
here: `OverdueSessionEnds` assumes that the end of the sequence got into the queue (a full one
discards it, GrabChannel.cs:311). The history variable `abandoned` holds the channels whose handler
a stop did not wait for. `AcquisitionSession` is the promise of `IAcquisitionSession`; the manager
implements it under the mapping in `OneSessionAtATime`.

`GrabService` models the driver's life: threads initialize (giving up `_lock` to sleep between
attempts), create channels, probe the board, release channels and dispose of the service. A
constructor is three steps (create in the driver, register the callback, enter in the registry), a
channel's `Dispose` three (mark, delete, unpin), because the disposal of the service and a release,
which takes no lock, meet there. The driver may reuse a deleted channel's handle, and each of its
calls may fail: opening, creating, a parameter, the callback, a query, and also `McDelete` and
`McCloseDriver`, whose statuses the code ignores (GrabChannel.cs:207, 832, GrabService.cs:245, 318). What the
driver refused to delete is in the history variable `stranded`, and `unclosed` says that it refused to be closed;
the properties except these, and only these.

`TriggerLatency` models the timestamps queue of the manager with a clock: triggers of requests and
of the interval timer, frames, reported drops (`CLUSTER_UNAVAILABLE`), losses nobody reports,
frames without a trigger, stops and restarts, and the handler cut where it reads the time, discards
old stamps and takes one. The history variable `astray` says whether something unforeseen has
happened since stamps and frames were last both empty.

`FrameSave` models the saving pipeline, the deletion of images, and the life of the process: the
handler's two reads of the manager are separate steps, the file is created, filled and entered in
the catalogue in three, each of which may fail, and `ProcessEnds` may come anywhere, keeping
only the disk and the database. The manager is reduced to its configuration and its latest frame.
The constant `LateLoops` says whether a loop may outlive the start of the next session.

`StatusFeed` models how a status reaches a browser: threads raise `StatusChanged`, build a
message and queue it in two steps, beside `GetEvents`, which subscribes before it builds its own
first message; the page receives messages and polls `GetStatus` while its cache says active.
Connections break and come back. A status is its number; the history variable `crossed` says that
the newest message was built while an older one was on its way to the queue.

`Gallery` models the capture list of one browser: pages in a query cache that are fetched again,
rows marked by position, and a series of deletions, while images are captured and other browsers
delete. `AcquisitionStatistics` models the intervals under a running stopwatch; `Reported` is what a snapshot
makes of a missing shortest or longest one. An interval is counted only if the frame before it came later than
0 ms, as in the code: the lower bound in `AverageInRange` has that condition, the upper one has not.

`RecentHistory` is what a bounded history promises; `ChannelEventLog` (a ring) and
`LatencyRepository` (a queue, with the unprotected `_nextId++` in its two steps) implement it.
`PresetService` models the presets: the list, the file that is emptied and then filled, the
semaphore, failures and restarts. `Load` takes a torn file, and an intact one that it
fails to read, for no presets; `misread` says that the latter happened at the last start, and that is when memory may
lack what the file has. `MCStores` runs these two, the log, the statistics, the feed and
the gallery beside each other: as they share nothing, a behaviour picks one and steps only that.

`MC...` modules hold what only TLC needs (symmetry, side-by-side composition). A definition marked
`Mistake` is not used by any specification: it is a wrong version of the definition after it, and
the mutants listed in `PROJECT.json` show that the property named there notices it.

## The runs

| Run | Question | Bounds |
|---|---|---|
| `ChannelSafety` | Are surfaces owned by one hand and never lost, is an active channel served, are frames dropped only for other signals? | two surfaces, two native threads, one slot of room, two queue generations, the end signal |
| `ChannelLiveness` | Do surfaces come back, is the end announced, do calls return? | one surface and one thread, two generations, two kinds of signals |
| `SessionSafety` | Do state, channel and subscription agree, is no timer left over, does a trigger or frame of another session stay, does the manager keep its promise, does a session only stop when asked? | two channels, one starter beside a second client, one pool task, one trigger, one disposal |
| `SessionLiveness` | Do sessions that end or reach their target stop, does `Stop` return everywhere, does it free a waiting request? | two channels, one client that starts and stops, one that triggers |
| `DriverLifeCycle` | Does a channel outlive the driver unless it refused, is it opened twice or after disposal, may native code call what is not pinned, do calls return? | two threads, two handles, two channel objects, one retry; every call of the driver may fail |
| `TriggerPairs` | Is a latency measured against the frame's own trigger while frames are not astray, within range, is no trigger counted twice? | three triggers, two sessions, clock up to 3, limit 1, one outside frame |
| `FrameSafe` | Are frames saved under their session, have rows their files unless these were deleted, does shutdown drain, is nobody stuck? | two sessions of two frames, a queue of one, one deletion, one restart |
| `Stores` | Do the histories keep the newest entries, do saved presets survive, is the average in range, is a browser told of every change, does the gallery delete what it showed? | rings of three, two adders, five ids; two names, two requests, three saves, one restart; three frames in five units of time; two raisers, three changes, two connections; pages of two, three images |

Two of everything that can collide is what the hazards need: two generations for a loop left
behind, two channels for a session that meets its predecessor, two surfaces for a mix-up, one slot
of queue room so that full queues happen at once. The third trigger is needed for a frame to take
the stamp of a later one. Numbers that only grow (frames, ids, saves, versions, time) are cut where no
property looks further; every cut is a constant and stands in a guard.

Three assumptions narrow the runs and are deliberate. `SessionSafety` and `SessionLiveness` have
one starter, because with two the code does not keep its promise (`SessionTwoStarts`);
`SessionLiveness` has one triggering request, because the time-out path of `TriggerAsync` clears
the trigger of whoever registered after it. `FrameSafe` and `TriggerPairs` let a session begin only
when the last one's loop is through, as it is unless a two-second join times out
(`FrameSavedTwice` shows what happens otherwise).

Fairness is only for threads that have something to do: callbacks in flight, processing loops,
control calls, pool tasks, handlers that build a message. The operating system schedules them. It is
weak except in two places, where what a step waits for comes and goes. A thread that waits for
`GrabService`'s lock gets it if it is free again and again: .NET wakes a waiter at every release,
and an `Initialize` that retries sleeps between its attempts. And of status queries that are
repeated every second for ever, not all fail (strong fairness of `Answer` and `Receive`, an
assumption about the network); connections of the stream need not come back. Nothing makes the hardware signal, a client call, or a time-out
expire early. A join's time-out is an ordinary step of the joining thread, since the code waits at most
two seconds. Properties that need more say so: `SubscribersReturn` (event subscribers return from
their handlers) in front of `SurfaceComesBack` and `EndIsAnnounced`, `DiskAnswers` (a write ends,
if only by failing) in front of `QueueIsServed`; `CallReturns` and `LoopNotBlocked` hold without.

Deadlock is checked except where the system may really be at its end: `FrameSafe`,
`FrameSavedTwice` and `Stores` (the process has ended for good), `TriggerPairs` (the clock and
the triggers are used up) and `GalleryMarksMove` (the images are used up).

## What the runs refute

Four runs expect a violation. Each checks one statement of a comment or an interface.

* `ChannelUseAfterDelete`: zeroing the handle first does not close the window between
  `ReleaseSurface`'s test of the handle and its call of the driver (GrabChannel.cs:815-817, 418-421).
* `SessionTwoStarts`: two concurrent `Start` calls both start; the first channel stays acquiring and
  subscribed (IAcquisitionSession.cs:6, AcquisitionManager.cs:99-121).
* `FrameSavedTwice`: the tracker remembers one frame, so with two loops alive a frame can be saved
  twice (FrameSaveTracker.cs:14-16).
* `GalleryMarksMove`: marks do not go when the list of images changes but when its length does; on
  full pages they stay and mean other images (ImageGallery/index.tsx:78-81).

Facts the models contain that no run is spent on: the end signal lost on a full queue
(GrabChannel.cs:311); `Stop` joining, under `_lock`, a loop whose handlers take `_lock`, until two
seconds have passed (AcquisitionManager.cs:237; `StopReturns` fails without that limit); a null reference between `EnqueueSurface`'s
two reads of the queue (GrabChannel.cs:300); `IsActive` set after a sequence that already ended
(GrabChannel.cs:491); a trigger that stays registered when sending it throws
(AcquisitionManager.cs:290-292); two loops reading one generation's successor after a timed-out
join; ids that repeat when `LatencyRepository.Add` overlaps `Clear` or itself; handles that
stay pinned when a constructor fails after it pinned them (GrabChannel.cs:204-209); channels that the driver
refused to delete, that nobody knows any more (GrabChannel.cs:832, GrabService.cs:245) and that may call back
what their `Dispose` freed (835-845); a first frame at 0 ms, after which the average interval is below the shortest
(AcquisitionStatistics.cs:141); an intact preset file that
cannot be read at a start, after which the next save overwrites every stored preset
(AcquisitionPresetService.cs:81); a late `Task.Run(Stop)` that stops the next session
(AcquisitionManager.cs:322); a late time-out that clears the registration of another request
(AcquisitionManager.cs:299); a row whose file was deleted (ImagesController.cs:54-57); a page that says idle, from an old message queued last, and is not
polled again (useAcquisitionSession.ts:21); and the way latencies go
astray: a frame later than the limit loses its own stamp and takes the next trigger's, a loss
without a signal shifts every later pair as long as triggers come faster than the limit, and a drop
signal takes the oldest stamp without discarding expired ones first. `OwnTrigger` is exact about
the last three: it excepts the pairs recorded while `astray`, and only those.

## The proofs

TLAPS checks these for every value of the constants, from the assumption named in each module
(`GrabChannelAssumption`: surfaces are finitely many and not signals, the bounds are numbers;
`EventLogAssumption`: the array is not empty, its initial content is no event;
`GrabServiceAssumption`: handles are finitely many, neither they nor threads are 0, the bounds
are numbers; `ManagerAssumption`: clients, tasks and channels are apart, the callers are clients;
`FrameSaveAssumption` and `LatencyAssumption`: the bounds are numbers; `StoresAssumption`: the bounds
are numbers, a page has room for an image, the process runs at least once, a torn file is not the text of
a list). Two groups of theorems have a hypothesis of their own, named below.

* `GrabChannelProofs`. `TypeInvariance` proves `TypeInv`: `TypeOK` is not inductive, because whether
  a step stores a legal item depends on what the program counters say about the item in hand
  (`LoopShape`, `NativeShape`) and about the queue a control call works on (`CallShape`). `TypeCorrect`
  follows. `OwnershipHolds` proves `SurfaceOwnership`, which is inductive relative to `TypeInv`. A step
  moves a surface in one of four ways (filled by the hardware, enqueued, taken from a queue, given
  back), each a lemma on its own; every action is shown to be one of them or to move nothing.
  `NoneLost` and `ActiveServed`, for `NoSurfaceLost` and `ActiveIsServed`, need that queues and loops not
  yet created are untouched (`Unborn`) and how the state of the current queue follows the control call
  (`Serving`). `DropsForSignals`, for the action property `FrameDroppedOnlyForSignals`, counts: the surfaces
  in a queue are distinct and lack the one in the native thread's hand (from `SurfaceOwnership`), so a
  queue without room holds more than `Room` signals.
* `ChannelEventLogProofs`. `LogRefines` proves that the ring implements `RecentHistory` for every
  capacity. The lemmas compute where the ring keeps its i-th oldest event (`SlotValue`) and
  compare the slots before and after an addition, with room (`AddWithRoom`) and without
  (`AddWhenFull`). `ReadsCorrect` proves `ReadsNewestFirst`. Both are invariance arguments over
  `TypeOK`.

* `GrabServiceProofs`. `TypeCorrect` and `DriverOnce`, the latter for `DriverOpenedOnce`, both from
  `LifeInv`, for any number of threads, handles and channels and any deadline. `DriverOpenedOnce`
  is not inductive: that the driver is never opened twice needs that `_initialized` tells whether it
  is open or was refused its closing, that it is closed after disposal needs that a disposed service which is
  still initialized has its disposal under the lock (both in `DriverShape`), and that needs which positions
  hold the lock and where a thread that holds it may be (`LockShape`, `LockPlace`); `InHand` makes the types inductive. `Moves` says once what a thread that moves
  leaves true of the others; each action is then a lemma of three facts.
* `GrabServiceRootsProofs`. `RootedCallbacks` and `DriverLeftEmpty`, for `CallbacksAreRooted` and
  `NothingOutlivesDriver`, from `RootInv`, relative to `LifeInv`. Neither is inductive. Deletion empties
  the driver's callback before the channel is unrooted only if no other thread disposes of the same channel
  (`DeletedOnce`), no live handle is given out twice (`HandlesApart`, `HeldApart`) and a channel under construction is
  its builder's alone (`Private`). That the disposal misses no channel is an account of every live handle:
  it is in the registry, in a builder's, a prober's or a disposal's hands, or in the sweep (`Accounted`).
  All this is about the handles not stranded and what these call back (`held`, `calls`), for which a refused
  deletion is like one that succeeds; of the stranded ones it is enough that a handle still live is not given
  out again and that the channel they call back is disposed of (`Stranded`).
  Each action is restated by its effect on single threads, channels and handles (`Steps`); the parts are
  then proved over these effects.

* `AcquisitionManagerProofs`. `TypeCorrect` and `StopsAreAskedFor` hold for any number of starters,
  from `AskerInv`: nothing has happened on a channel that is not created yet (`Fresh`), a loop that is
  about to stop its session, or will be once it has taken the events in its queue, has hardware that
  stopped (`Ended`), a task that is about to stop the session it was started in does so because the
  target is reached (`Asked`). The others have the hypothesis `OneStarter`: one thread at most
  starts sessions, and the host that disposes of the manager is that thread or there is none. The code
  needs it: the second phase of `Start` does not look at the state again, and the run
  `SessionTwoStarts` shows what two starters do. `SessionSafety` satisfies it. `StateMatchesChannel` is
  not inductive: the starter must find what it left when it takes the lock back (`Roles`, `Locking`),
  and the subscription and the timer belong to it (`Matching`). `TriggerTaken` says who may
  complete a trigger that is no longer registered, `FrameKnown` whose frames may still arrive.
  `KeepsPromise` maps each step to a step of `AcquisitionSession` or a stutter. The actions
  are grouped by what they leave alone (`Steps`, and a lemma per variable on who writes it), so that
  each part of the invariant is proved over a handful of groups.
* `FrameSaveProofs`. `TypeOK` itself needs an argument: files are numbered as they are created, and
  that the numbers suffice is a count (`Counted`): every file, queued item and busy handler goes
  back to a frame of its own. `RowHasItsFile` needs that the file the worker holds is in no row
  and in no request's hands (`Files`), `ShutdownDrains` that the worker ends only on a closed and empty
  queue (`Draining`). `OwnConfiguration` has the hypothesis `~LateLoops` (no loop outlives its join,
  as in `FrameSafe`; `FrameSavedTwice` shows what late loops do): a busy loop is then the last
  session's (`Sorted`).
* `TriggerLatencyProofs`. `OwnTriggers` and `LatenciesInRange`, for `OwnTrigger` and `LatencyInRange`, from
  `LatencyInv`. While not astray, the queue of stamps is, place by place, the line of frames still to be
  answered: the one in the loop's hands, those in the channel's queue, those the camera works on (`InStep`).
  Whatever is lost, stamps and records are in the order of their triggers (`Ordered`), which makes no
  trigger count twice. A latency is not negative because a frame answers a trigger sent before it arrived
  (`Past`), nor above the limit because no stamp is added in front of the one that `Expire` left (`Timely`).
  Each action is restated by its effect on the sequences (`Effects`).
* `StoresProofs`, about the parts that `MCStores` puts side by side, each with its own inductive invariant.
  Presets: a taken semaphore means exactly one request that writes what is in memory (`Guarded`).
  Statistics: the first frame, the last and the clock are in order, and the total is no more than the
  last frame's time (`InOrder`); with these `AverageInRange` is inductive, a frame adding one summand to products
  (`Products`, `Another`); the upper bound, which holds whenever the first frame came, has an invariant of its own
  (`Bounded`). Feed: unless messages crossed at most one is waiting to be queued (`Alone`), and the newest
  message is as new as the last announced change once every raiser built its own (`News`). Gallery: what is
  still to be deleted was confirmed (`Marked`); that an answer is a page of known images needs that
  `NewestFirst` enumerates a set (`Sorted`: images have different numbers of newer ones, and an
  injection between finite sets of one size is onto). Repository: `RepositoryKeepsHistory` maps the
  locked section of `Add` to `RecentHistory`'s, whether the limit is tested before or after.

So every invariant, every action property and every refinement that a passing run checks is a theorem
too. Only model-checked: the liveness properties, because fairness and ENABLED are out of the prover's
reach (`LoopNotBlocked`, `QueueIsServed`, `CallReturns`, `CallsReturn`, `EndIsAnnounced`, `SurfaceComesBack`, `StopReturns`,
`StopFreesTriggers`, `OverdueSessionEnds`, `StaleActiveHeals`). No module declares a recursive operator.

## What is not modelled

Parameter, calibration and exposure calls of the channel (single HAL calls under its lock); the
queries of boards and cameras of `GrabService`, which only read; latency analysis (arithmetic on a
snapshot); rates; validation of requests; the date filter of the gallery (other keys of the same
cache) and the other screens of the client; the HAL with its mock and fake; camera files, encoders'
pixel work, histograms, browsing of directories, error mapping; downloading of files. Payloads
(pixels, texts, paths) are abstracted to identities everywhere.

## The plan

Done, in this order: `GrabChannel` and its proofs; `AcquisitionSession` and `AcquisitionManager`;
`FrameSave`; `TriggerLatency`; the stores with the ring's refinement proof; `GrabService` and its first proofs;
`StatusFeed`, `Gallery` and `AcquisitionStatistics`; the proofs of every safety property. Left:

1. Composition: the channel as the manager sees it (running, `IsActive`, events, joined or given up)
   as an abstract specification that `GrabChannel` implements.

To check everything: `tlc -config <run>.cfg <module>` for each run of `PROJECT.json`, and `tlapm`
on the `...Proofs` modules.
