------------------------ MODULE GrabServiceRootsProofs ------------------------
(***************************************************************************)
(* What the driver may call back is rooted, and no channel of the driver   *)
(* outlives it, for every number of threads, handles and channels. Both    *)
(* properties are about handles that change hands: a channel object holds  *)
(* its handle until one disposal takes it (HandlesApart, HeldApart,        *)
(* DeletedOnce), nobody but its builder knows a channel under construction *)
(* (Private), and the registry lists the channels of the clients           *)
(* (Registered). Called says who answers for each callback, Accounted who  *)
(* will delete each channel of the driver. Nobody learns that the driver   *)
(* refused a deletion, so that these speak of the channels it was not yet  *)
(* asked to delete (held, calls), and Stranded of the others.              *)
(***************************************************************************)
EXTENDS GrabServiceProofs

(***************************************************************************)
(* The invariant                                                           *)
(***************************************************************************)

(* The channels that the driver was not asked to delete, and what it calls *)
(* back on them. A deletion has the same effect on them whether the driver *)
(* deletes the channel or refuses.                                         *)
held == live \ stranded
calls == [h \in Handles |-> IF h \in stranded THEN 0 ELSE callback[h]]

Building(t) == pc[t] \in {"construct", "add"}
Locked(t) == pc[t] \in {"construct", "add", "probe", "sweep"}
Disposing(t) == pc[t] \in {"dispose", "delete", "unroot"}
Deletes(t) == pc[t] \in {"delete", "unroot"}

(* A handle in hand, which no channel object has.                          *)
Holds(t) == pc[t] \in {"probe", "delete"} /\ hnd[t] # 0

(* Whatever names a channel object names one that was constructed.         *)
Built ==
    /\ \A c \in owned \cup gone \cup sweep : c <= created
    /\ \A h \in Handles : registry[h] <= created /\ calls[h] <= created
    /\ \A t \in Threads : chan[t] <= created
    /\ \A c \in Channels : c > created => handle[c] = 0

(* A channel under construction has its handle and is known to its builder *)
(* alone.                                                                  *)
Private ==
    \A t \in Threads : Building(t) =>
        /\ hnd[t] \in Handles /\ handle[chan[t]] = hnd[t] /\ chan[t] \notin owned
        /\ \A u \in Threads : Disposing(u) => chan[u] # chan[t]
        /\ pc[t] = "construct" => \A h \in Handles : calls[h] # chan[t]

(* Channels that are not disposed of have handles of the driver's, each    *)
(* its own.                                                                *)
HandlesApart ==
    /\ \A c \in Channels : handle[c] # 0 => handle[c] \in held /\ c \notin gone
    /\ \A c, d \in Channels : handle[c] # 0 /\ handle[c] = handle[d] => c = d

(* So have the threads that probe or delete, and no channel has theirs.    *)
HeldApart ==
    /\ \A t \in Threads : Holds(t) => hnd[t] \in held /\ \A c \in Channels : handle[c] # hnd[t]
    /\ \A t, u \in Threads : Holds(t) /\ Holds(u) /\ hnd[t] = hnd[u] => t = u

(* A channel is deleted by one thread, which marked it disposed.           *)
DeletedOnce ==
    /\ \A t \in Threads : Deletes(t) => chan[t] \in gone
    /\ \A t, u \in Threads : Deletes(t) /\ Deletes(u) /\ chan[t] = chan[u] => t = u

(* The driver may call channel c back on h: c has that handle, or a thread *)
(* is about to delete it.                                                  *)
Answers(c, h) ==
    \/ handle[c] = h
    \/ \E u \in Threads : pc[u] = "delete" /\ chan[u] = c /\ hnd[u] = h

(* A callback is registered on a rooted channel, under the handle it has.  *)
Called ==
    /\ \A h \in Handles : calls[h] # 0 =>
          h \in held /\ calls[h] \in rooted /\ Answers(calls[h], h)
    /\ \A t \in Threads : pc[t] = "unroot" => \A h \in Handles : calls[h] # chan[t]

(* Until the disposal begins, the registry lists clients' channels, each   *)
(* under its handle, and what is disposed of is no client's any more.      *)
Registered ==
    ~disposed =>
        /\ \A h \in Handles : registry[h] # 0 =>
              registry[h] \in owned /\ handle[registry[h]] = h
        /\ \A t \in Threads : Disposing(t) => chan[t] \notin owned

(* What the driver refused to delete it still has, and if it calls a       *)
(* channel object back there, that is disposed of.                         *)
Stranded ==
    /\ stranded \subseteq live
    /\ \A h \in stranded : callback[h] # 0 => callback[h] \in gone

(* Who has the lock builds, probes, or is in the disposal, which alone has *)
(* channels to sweep.                                                      *)
SweepShape ==
    /\ sweep # {} => disposed /\ lock # 0
    /\ \A t \in Threads : lock = t =>
          Building(t) \/ pc[t] = "probe" \/ (disposed /\ (pc[t] = "sweep" \/ Disposing(t)))

(* The ways in which a channel of the driver comes to be deleted.          *)
Known(h) ==
    \/ \E t \in Threads : Holds(t) /\ hnd[t] = h
    \/ \E t \in Threads :
          (Building(t) \/ pc[t] = "dispose") /\ handle[chan[t]] = h
    \/ ~disposed /\ registry[h] # 0 /\ handle[registry[h]] = h
    \/ \E c \in sweep : handle[c] = h

Accounted == \A h \in held : Known(h)

(* The inductive invariant.                                                *)
RootInv ==
    /\ Built /\ Private /\ HandlesApart /\ HeldApart /\ DeletedOnce /\ Called
    /\ Registered /\ Stranded /\ SweepShape /\ Accounted

(***************************************************************************)
(* The steps, by their effects on what the invariant is about              *)
(***************************************************************************)

(* Thread t moves to p with c and h in hand.                               *)
Moved(t, p, c, h) ==
    /\ pc'[t] = p /\ chan'[t] = c /\ hnd'[t] = h
    /\ \A u \in Threads : u # t => pc'[u] = pc[u] /\ chan'[u] = chan[u] /\ hnd'[u] = hnd[u]

(* No other thread is inside the lock.                                     *)
Alone(t) == \A u \in Threads : Locked(u) => u = t

(* Channel c gets handle h.                                                *)
Handled(c, h) ==
    /\ handle'[c] = h
    /\ \A d \in Channels : d # c => handle'[d] = handle[d]

(* The driver was asked to delete handle h.                                *)
GivenUp(h) ==
    /\ held' = held \ {h}
    /\ \A k \in Handles : calls'[k] = IF k = h THEN 0 ELSE calls[k]

registers == <<disposed, registry, sweep>>
holders == <<held, calls, handle, gone, rooted, owned>>

(* Initialize in all its parts, and a Dispose that waits or comes late.    *)
Elsewhere(t) ==
    /\ UNCHANGED <<holders, registers, created, lock, chan, hnd>>
    /\ \A u \in Threads : pc'[u] = pc[u] \/
          {pc[u], pc'[u]} \subseteq {"idle", "attempt", "sleep", "close"}

(* The steps, by what they change for the threads, channels and handles.   *)
Creates(t, h) ==
    /\ pc[t] = "idle" /\ created + 1 \in Channels /\ created' = created + 1
    /\ h \notin held /\ held' = held \cup {h} /\ ~disposed /\ Alone(t)
    /\ Handled(created + 1, h) /\ Moved(t, "construct", created + 1, h) /\ lock' = t
    /\ UNCHANGED <<calls, gone, rooted, owned, registers>>

Fails(t) ==
    /\ pc[t] = "construct" /\ chan[t] \in Channels /\ ~disposed /\ Alone(t)
    /\ GivenUp(hnd[t]) /\ Handled(chan[t], 0)
    /\ rooted \subseteq rooted' /\ Moved(t, "idle", 0, 0) /\ lock' = 0
    /\ UNCHANGED <<created, gone, owned, registers>>

Registers(t) ==
    /\ pc[t] = "construct" /\ chan[t] \in Channels /\ ~disposed /\ Alone(t)
    /\ rooted' = rooted \cup {chan[t]}
    /\ hnd[t] # 0 => calls'[hnd[t]] = chan[t]
    /\ \A h \in Handles : h # hnd[t] => calls'[h] = calls[h]
    /\ Moved(t, "add", chan[t], hnd[t])
    /\ UNCHANGED <<held, created, handle, gone, owned, registers, lock>>

Adds(t) ==
    /\ pc[t] = "add" /\ chan[t] \in Channels /\ ~disposed /\ Alone(t)
    /\ \A h \in Handles :
          registry'[h] = IF h = hnd[t] /\ registry[h] = 0 THEN chan[t] ELSE registry[h]
    /\ owned' = owned \cup {chan[t]} /\ Moved(t, "idle", 0, 0) /\ lock' = 0
    /\ UNCHANGED <<held, calls, created, handle, gone, rooted, disposed, sweep>>

Probes(t, h) ==
    /\ pc[t] = "idle" /\ h \notin held /\ held' = held \cup {h} /\ ~disposed /\ Alone(t)
    /\ Moved(t, "probe", 0, h) /\ lock' = t
    /\ UNCHANGED <<calls, created, handle, gone, rooted, owned, registers>>

ProbeEnds(t) ==
    /\ pc[t] = "probe" /\ GivenUp(hnd[t]) /\ ~disposed /\ Alone(t)
    /\ Moved(t, "idle", 0, 0) /\ lock' = 0
    /\ UNCHANGED <<created, handle, gone, rooted, owned, registers>>

Releases(t, c) ==
    /\ pc[t] = "idle" /\ c \in owned /\ owned' = owned \ {c}
    /\ \A h \in Handles : registry'[h] = IF h = handle[c] THEN 0 ELSE registry[h]
    /\ Moved(t, "dispose", c, 0)
    /\ UNCHANGED <<held, calls, created, handle, gone, rooted, disposed, sweep, lock>>

Sweeps(t, c) ==
    /\ pc[t] = "sweep" /\ c \in sweep /\ sweep' = sweep \ {c} /\ Alone(t) /\ lock = t
    /\ Moved(t, "dispose", c, 0)
    /\ UNCHANGED <<holders, created, registry, disposed, lock>>

(* Somebody else disposes of the channel.                                  *)
Returns(t) ==
    /\ pc[t] = "dispose" /\ chan[t] \in gone
    /\ Moved(t, AfterChannel(t), 0, 0)
    /\ UNCHANGED <<holders, created, registers, lock>>

Disposes(t) ==
    /\ pc[t] = "dispose" /\ chan[t] \in Channels /\ chan[t] \notin gone
    /\ gone' = gone \cup {chan[t]} /\ Handled(chan[t], 0)
    /\ Moved(t, "delete", chan[t], handle[chan[t]])
    /\ UNCHANGED <<held, calls, created, rooted, owned, registers, lock>>

DeletesHandle(t) ==
    /\ pc[t] = "delete" /\ chan[t] \in Channels /\ GivenUp(hnd[t])
    /\ Moved(t, "unroot", chan[t], hnd[t])
    /\ UNCHANGED <<created, handle, gone, rooted, owned, registers, lock>>

Frees(t) ==
    /\ pc[t] = "unroot" /\ rooted' = rooted \ {chan[t]}
    /\ Moved(t, AfterChannel(t), 0, 0)
    /\ UNCHANGED <<held, calls, created, handle, gone, owned, registers, lock>>

Begins(t) ==
    /\ pc[t] = "close" /\ ~disposed /\ disposed' /\ lock' = t
    /\ sweep' = {registry[h] : h \in Handles} \ {0}
    /\ Moved(t, "sweep", chan[t], hnd[t])
    /\ UNCHANGED <<holders, created, registry>>

Closes(t) ==
    /\ pc[t] = "sweep" /\ sweep = {} /\ lock = t
    /\ \A h \in Handles : registry'[h] = 0
    /\ Moved(t, "idle", chan[t], hnd[t]) /\ lock' = 0
    /\ UNCHANGED <<holders, created, sweep, disposed>>

(* A thread that goes on changes only what is its own.                     *)
LEMMA GoesOn ==
    ASSUME ThreadTypes, NEW t \in Threads, NEW p, NEW c, NEW h, Goto(t, p), Hold(t, c, h)
    PROVE  Moved(t, p, c, h)
  BY DEF ThreadTypes, Goto, Hold, Moved

(* The same of one that keeps its channel and handle.                      *)
LEMMA GoesOnHolding ==
    ASSUME ThreadTypes, NEW t \in Threads, NEW p, Goto(t, p), UNCHANGED locals
    PROVE  Moved(t, p, chan[t], hnd[t])
  BY DEF ThreadTypes, Goto, locals, Moved

(* The lock is one thread's.                                               *)
LEMMA IsAlone ==
    ASSUME LifeInv, NEW t \in Threads, lock = 0 \/ Locked(t)
    PROVE  Alone(t)
  BY GrabServiceAssumption DEF LifeInv, LockShape, Locked, Alone

(* The types, from the invariant of the life cycle.                        *)
LEMMA LifeTypes ==
    ASSUME LifeInv PROVE ThreadTypes /\ DataTypes
  BY DEF LifeInv, TypeOK, ThreadTypes, DataTypes

(* McDelete, whatever the driver answers.                                  *)
LEMMA DeleteEffect ==
    ASSUME LifeInv, NEW h \in Handles \cup {0}, McDelete(h)
    PROVE  GivenUp(h)
<1>1. callback \in [Handles -> 0..MaxChannels]
  BY LifeTypes DEF DataTypes
<1>2. CASE stranded' = stranded \cup ({h} \cap Handles) /\ UNCHANGED <<live, callback>>
  BY <1>1, <1>2 DEF LifeInv, TypeOK, held, calls, GivenUp
<1>3. CASE /\ live' = live \ {h} /\ callback' = [callback EXCEPT ![h] = 0]
           /\ UNCHANGED stranded
  BY <1>1, <1>3 DEF held, calls, GivenUp
<1> QED
  BY <1>2, <1>3 DEF McDelete

(* A step that leaves the driver's channels alone.                         *)
LEMMA SameHeld ==
    ASSUME UNCHANGED <<live, callback, stranded>> PROVE UNCHANGED <<held, calls>>
  BY DEF held, calls

(* What each action does, as one of the steps above.                       *)
LEMMA ElsewhereEffect ==
    ASSUME LifeInv, NEW t \in Threads,
           Initialize(t) \/ Attempt(t) \/ Sleep(t) \/ Dispose(t) \/ DisposeAgain(t)
    PROVE  Elsewhere(t)
<1> USE DEF LifeInv, TypeOK, Goto, hal, service, objects, locals, holders, registers, Enter,
            Elsewhere
<1>1. CASE Initialize(t) \/ Dispose(t)
  BY <1>1, SameHeld DEF Initialize, Dispose
<1>2. CASE Sleep(t) \/ DisposeAgain(t)
  BY <1>2, SameHeld DEF Sleep, DisposeAgain
<1>3. CASE Attempt(t)
  BY <1>3, SameHeld DEF Attempt, AttemptNotNeeded, AttemptSucceeds, AttemptFails, AttemptAgain
<1> QED
  BY <1>1, <1>2, <1>3

(* McCreate succeeds.                                                      *)
LEMMA CreateEffect ==
    ASSUME LifeInv, Stranded, NEW t \in Threads, NEW h \in Handles, CreateChannel(t, h)
    PROVE  Creates(t, h)
<1>1. /\ pc[t] = "idle" /\ created + 1 \in Channels /\ created' = created + 1
      /\ ~disposed /\ lock = 0 /\ lock' = t
      /\ UNCHANGED <<gone, rooted, owned, registers>>
  BY GrabServiceAssumption
     DEF CreateChannel, Enter, Ready, Channels, service, registers, LifeInv, TypeOK
<1>2. h \notin held /\ held' = held \cup {h} /\ UNCHANGED calls
  BY DEF CreateChannel, Stranded, held, calls
<1>3. Handled(created + 1, h)
  BY <1>1, LifeTypes DEF CreateChannel, DataTypes, Handled
<1>4. Moved(t, "construct", created + 1, h)
  BY GoesOn, LifeTypes DEF CreateChannel
<1> QED
  BY <1>1, <1>2, <1>3, <1>4, IsAlone DEF Creates

(* McCreate or the configuration of the channel fails.                     *)
LEMMA FailEffect ==
    ASSUME LifeInv, NEW t \in Threads, ConstructFails(t)
    PROVE  Fails(t)
<1>1. /\ pc[t] = "construct" /\ chan[t] \in Channels /\ ~disposed /\ Locked(t)
      /\ rooted \subseteq rooted' /\ lock' = 0
      /\ UNCHANGED <<created, gone, owned, registers>>
  BY DEF ConstructFails, LifeInv, LockShape, InHand, Locked, service, registers
<1>2. Handled(chan[t], 0)
  BY <1>1, LifeTypes DEF ConstructFails, DataTypes, Handled
<1>3. Moved(t, "idle", 0, 0)
  BY GoesOn, LifeTypes DEF ConstructFails
<1>4. GivenUp(hnd[t])
  BY DeleteEffect, LifeTypes DEF ConstructFails, ThreadTypes
<1> QED
  BY <1>1, <1>2, <1>3, <1>4, IsAlone DEF Fails

(* The channel registers its callback.                                     *)
LEMMA RegisterEffect ==
    ASSUME LifeInv, Private, HandlesApart, NEW t \in Threads, RegisterCallback(t)
    PROVE  Registers(t)
<1>1. /\ pc[t] = "construct" /\ chan[t] \in Channels /\ ~disposed /\ Locked(t)
      /\ rooted' = rooted \cup {chan[t]}
      /\ UNCHANGED <<created, handle, gone, owned, registers, lock>>
  BY DEF RegisterCallback, LifeInv, LockShape, InHand, Locked, service, registers
<1>2. UNCHANGED held
  BY DEF RegisterCallback, held
<1>3. /\ hnd[t] # 0 => calls'[hnd[t]] = chan[t]
      /\ \A h \in Handles : h # hnd[t] => calls'[h] = calls[h]
  <2>1. hnd[t] \notin stranded
    BY GrabServiceAssumption
       DEF RegisterCallback, Private, Building, HandlesApart, held, LifeInv, InHand
  <2>2. callback' = [callback EXCEPT ![hnd[t]] = chan[t]] /\ UNCHANGED stranded
    BY DEF RegisterCallback
  <2> QED
    BY <2>1, <2>2, LifeTypes DEF DataTypes, ThreadTypes, calls
<1>4. Moved(t, "add", chan[t], hnd[t])
  BY GoesOnHolding, LifeTypes DEF RegisterCallback
<1> QED
  BY <1>1, <1>2, <1>3, <1>4, IsAlone DEF Registers

(* CreateChannel enters the channel in the registry.                       *)
LEMMA AddEffect ==
    ASSUME LifeInv, NEW t \in Threads, AddToRegistry(t)
    PROVE  Adds(t)
<1>1. /\ pc[t] = "add" /\ chan[t] \in Channels /\ ~disposed /\ Locked(t)
      /\ owned' = owned \cup {chan[t]} /\ lock' = 0
      /\ UNCHANGED <<held, calls, created, handle, gone, rooted, disposed, sweep>>
  BY SameHeld DEF AddToRegistry, LifeInv, LockShape, InHand, Locked, hal, objects
<1>2. \A h \in Handles :
          registry'[h] = IF h = hnd[t] /\ registry[h] = 0 THEN chan[t] ELSE registry[h]
  BY LifeTypes DEF AddToRegistry, DataTypes, ThreadTypes
<1>3. Moved(t, "idle", 0, 0)
  BY GoesOn, LifeTypes DEF AddToRegistry
<1> QED
  BY <1>1, <1>2, <1>3, IsAlone DEF Adds

(* A probe creates a channel of its own.                                   *)
LEMMA ProbeEffect ==
    ASSUME LifeInv, Stranded, NEW t \in Threads, NEW h \in Handles, GetBoardStatus(t, h)
    PROVE  Probes(t, h)
<1>1. /\ pc[t] = "idle" /\ ~disposed /\ lock = 0 /\ lock' = t
      /\ UNCHANGED <<created, handle, gone, rooted, owned, registers>>
  BY DEF GetBoardStatus, Enter, Ready, service, objects, registers
<1>2. Moved(t, "probe", 0, h)
  BY GoesOn, LifeTypes DEF GetBoardStatus
<1>3. h \notin held /\ held' = held \cup {h} /\ UNCHANGED calls
  BY DEF GetBoardStatus, Stranded, held, calls
<1> QED
  BY <1>1, <1>2, <1>3, IsAlone DEF Probes

(* The probe deletes it.                                                   *)
LEMMA ProbeEndEffect ==
    ASSUME LifeInv, NEW t \in Threads, ProbeDone(t)
    PROVE  ProbeEnds(t)
<1>1. /\ pc[t] = "probe" /\ ~disposed /\ Locked(t) /\ lock' = 0
      /\ UNCHANGED <<created, handle, gone, rooted, owned, registers>>
  BY DEF ProbeDone, LifeInv, LockShape, Locked, service, objects, registers
<1>2. Moved(t, "idle", 0, 0)
  BY GoesOn, LifeTypes DEF ProbeDone
<1>3. GivenUp(hnd[t])
  BY DeleteEffect, LifeTypes DEF ProbeDone, ThreadTypes
<1> QED
  BY <1>1, <1>2, <1>3, IsAlone DEF ProbeEnds

(* A client releases its channel.                                          *)
LEMMA ReleaseEffect ==
    ASSUME LifeInv, NEW t \in Threads, NEW c \in Channels, ReleaseChannel(t, c)
    PROVE  Releases(t, c)
<1>1. /\ pc[t] = "idle" /\ c \in owned /\ owned' = owned \ {c}
      /\ UNCHANGED <<held, calls, created, handle, gone, rooted, disposed, sweep, lock>>
  BY SameHeld DEF ReleaseChannel, hal, objects
<1>2. \A h \in Handles : registry'[h] = IF h = handle[c] THEN 0 ELSE registry[h]
  BY LifeTypes DEF ReleaseChannel, DataTypes
<1>3. Moved(t, "dispose", c, 0)
  BY GoesOn, LifeTypes DEF ReleaseChannel
<1> QED
  BY <1>1, <1>2, <1>3 DEF Releases

(* The disposal of the service takes the next channel.                     *)
LEMMA SweepEffect ==
    ASSUME LifeInv, NEW t \in Threads, NEW c \in Channels, SweepChannel(t, c)
    PROVE  Sweeps(t, c)
<1>1. /\ pc[t] = "sweep" /\ c \in sweep /\ sweep' = sweep \ {c} /\ Locked(t) /\ lock = t
      /\ UNCHANGED <<holders, created, registry, disposed, lock>>
  BY SameHeld DEF SweepChannel, LifeInv, LockShape, Locked, hal, service, objects, holders
<1>2. Moved(t, "dispose", c, 0)
  BY GoesOn, LifeTypes DEF SweepChannel
<1> QED
  BY <1>1, <1>2, IsAlone DEF Sweeps

(* The channel is disposed of, or has been.                                *)
LEMMA DisposeEffect ==
    ASSUME LifeInv, NEW t \in Threads, DisposeChannel(t)
    PROVE  Returns(t) \/ Disposes(t)
<1>1. CASE chan[t] \in gone
  <2>1. /\ pc[t] = "dispose"
        /\ UNCHANGED <<holders, created, registers, lock>>
    BY <1>1, SameHeld DEF DisposeChannel, hal, service, holders, registers
  <2>2. Moved(t, AfterChannel(t), 0, 0)
    BY <1>1, GoesOn, LifeTypes DEF DisposeChannel
  <2> QED
    BY <1>1, <2>1, <2>2 DEF Returns
<1>2. CASE chan[t] \notin gone
  <2>1. /\ pc[t] = "dispose" /\ chan[t] \in Channels /\ gone' = gone \cup {chan[t]}
        /\ UNCHANGED <<held, calls, created, rooted, owned, registers, lock>>
    BY <1>2, SameHeld DEF DisposeChannel, LifeInv, InHand, hal, service, registers
  <2>2. Handled(chan[t], 0)
    BY <1>2, <2>1, LifeTypes DEF DisposeChannel, DataTypes, Handled
  <2>3. Moved(t, "delete", chan[t], handle[chan[t]])
    BY <1>2, GoesOn, LifeTypes DEF DisposeChannel
  <2> QED
    BY <1>2, <2>1, <2>2, <2>3 DEF Disposes
<1> QED
  BY <1>1, <1>2

(* McDelete.                                                               *)
LEMMA DeleteChannelEffect ==
    ASSUME LifeInv, NEW t \in Threads, DeleteChannel(t)
    PROVE  DeletesHandle(t)
<1>1. /\ pc[t] = "delete" /\ chan[t] \in Channels
      /\ UNCHANGED <<created, handle, gone, rooted, owned, registers, lock>>
  BY DEF DeleteChannel, LifeInv, InHand, service, objects, registers
<1>2. GivenUp(hnd[t])
  BY DeleteEffect, LifeTypes DEF DeleteChannel, ThreadTypes
<1>3. Moved(t, "unroot", chan[t], hnd[t])
  BY GoesOnHolding, LifeTypes DEF DeleteChannel
<1> QED
  BY <1>1, <1>2, <1>3 DEF DeletesHandle

(* The object of the channel is unrooted.                                  *)
LEMMA FreeEffect ==
    ASSUME LifeInv, NEW t \in Threads, FreeHandles(t)
    PROVE  Frees(t)
<1>1. /\ pc[t] = "unroot" /\ rooted' = rooted \ {chan[t]}
      /\ UNCHANGED <<held, calls, created, handle, gone, owned, registers, lock>>
  BY SameHeld DEF FreeHandles, hal, service, registers
<1>2. Moved(t, AfterChannel(t), 0, 0)
  BY GoesOn, LifeTypes DEF FreeHandles
<1> QED
  BY <1>1, <1>2 DEF Frees

(* The disposal of the service begins.                                     *)
LEMMA BeginEffect ==
    ASSUME LifeInv, NEW t \in Threads, DisposeBegin(t)
    PROVE  Begins(t)
<1>1. /\ pc[t] = "close" /\ ~disposed /\ disposed' /\ lock' = t
      /\ sweep' = {registry[h] : h \in Handles} \ {0}
      /\ UNCHANGED <<holders, created, registry>>
  BY SameHeld DEF DisposeBegin, Enter, hal, objects, holders
<1>2. Moved(t, "sweep", chan[t], hnd[t])
  BY GoesOnHolding, LifeTypes DEF DisposeBegin
<1> QED
  BY <1>1, <1>2 DEF Begins

(* The driver is closed.                                                   *)
LEMMA CloseEffect ==
    ASSUME LifeInv, NEW t \in Threads, CloseDriver(t)
    PROVE  Closes(t)
<1>1. /\ pc[t] = "sweep" /\ sweep = {} /\ lock = t /\ lock' = 0
      /\ \A h \in Handles : registry'[h] = 0
      /\ UNCHANGED <<holders, created, sweep, disposed>>
  BY SameHeld DEF CloseDriver, LifeInv, LockShape, objects, holders
<1>2. Moved(t, "idle", chan[t], hnd[t])
  BY GoesOnHolding, LifeTypes DEF CloseDriver
<1> QED
  BY <1>1, <1>2 DEF Closes

(* Every step of the program is one of these.                              *)
LEMMA Steps ==
    ASSUME LifeInv, Private, HandlesApart, Stranded, [Next]_vars
    PROVE  \/ UNCHANGED vars
           \/ \E t \in Threads :
                 \/ Elsewhere(t) \/ Fails(t) \/ Registers(t) \/ Adds(t) \/ ProbeEnds(t)
                 \/ Returns(t) \/ Disposes(t) \/ DeletesHandle(t) \/ Frees(t)
                 \/ Begins(t) \/ Closes(t)
                 \/ \E h \in Handles : Creates(t, h) \/ Probes(t, h)
                 \/ \E c \in Channels : Releases(t, c) \/ Sweeps(t, c)
  BY ElsewhereEffect, CreateEffect, FailEffect, RegisterEffect, AddEffect,
     ProbeEffect, ProbeEndEffect, ReleaseEffect, SweepEffect, DisposeEffect,
     DeleteChannelEffect, FreeEffect, BeginEffect, CloseEffect
     DEF Next, Step, WaitsForLock, Refused

(* The types, element by element.                                          *)
LEMMA Shapes ==
    ASSUME LifeInv
    PROVE  /\ \A h \in Handles : calls[h] \in Channels \cup {0}
           /\ \A h \in Handles : registry[h] \in Channels \cup {0}
           /\ \A c \in Channels : handle[c] \in Handles \cup {0}
           /\ \A t \in Threads : chan[t] \in Channels \cup {0} /\ hnd[t] \in Handles \cup {0}
           /\ held \subseteq Handles /\ owned \cup gone \cup sweep \subseteq Channels
           /\ 0 \notin Handles /\ 0 \notin Channels /\ 0 \notin Threads
  BY LifeTypes, GrabServiceAssumption DEF DataTypes, ThreadTypes, Channels, held, calls

(* Channel objects are numbers.                                            *)
LEMMA Numbers ==
    ASSUME LifeInv
    PROVE  /\ created \in Nat /\ Channels \subseteq Nat
           /\ \A h \in Handles : registry[h] \in Nat /\ calls[h] \in Nat
           /\ \A t \in Threads : chan[t] \in Nat
           /\ owned \cup gone \cup sweep \subseteq Channels
  BY LifeTypes, Shapes DEF DataTypes, Channels

(* A channel that is constructed now is new to everybody.                  *)
LEMMA NewChannel ==
    ASSUME LifeInv, Built, created + 1 \in Channels
    PROVE  /\ created + 1 \notin owned \cup gone \cup sweep /\ handle[created + 1] = 0
           /\ \A h \in Handles : registry[h] # created + 1 /\ calls[h] # created + 1
           /\ \A t \in Threads : chan[t] # created + 1
  BY LifeTypes, Shapes, GrabServiceAssumption DEF Built, DataTypes, ThreadTypes, Channels

(***************************************************************************)
(* The steps keep the invariant                                            *)
(***************************************************************************)

(* Nobody names a channel before it is constructed.                        *)
LEMMA BuiltStep ==
    ASSUME LifeInv, Private, HandlesApart, Stranded, Built, [Next]_vars PROVE Built'
<1> USE Numbers DEF Moved, GivenUp, Built, AfterChannel
<1>1. ASSUME NEW t \in Threads, Elsewhere(t)
      PROVE  Built'
  BY <1>1 DEF Elsewhere, holders, registers
<1>2. ASSUME NEW t \in Threads, Registers(t)
      PROVE  Built'
  BY <1>2, GrabServiceAssumption DEF Registers, registers
<1>3. ASSUME NEW t \in Threads, NEW c \in Channels, Sweeps(t, c)
      PROVE  Built'
  BY <1>3 DEF Sweeps, holders
<1>4. ASSUME NEW t \in Threads, NEW h \in Handles, Creates(t, h)
      PROVE  Built'
  <2>1. created' = created + 1 /\ created \in Nat
    BY <1>4 DEF Creates
  <2>2. \A k \in Handles : registry'[k] <= created' /\ calls'[k] <= created'
    BY <1>4, <2>1 DEF Creates, registers
  <2>3. \A u \in Threads : u # t => chan'[u] = chan[u] /\ chan[u] <= created /\ chan[u] \in Nat
    BY <1>4 DEF Creates
  <2>4. chan'[t] = created + 1
    BY <1>4 DEF Creates
  <2>5. \A u \in Threads : chan'[u] <= created'
    BY <2>1, <2>3, <2>4
  <2>6. \A c \in Channels : c > created' => handle'[c] = 0
    BY <1>4, <2>1 DEF Creates, Handled
  <2>7. \A c \in owned' \cup gone' \cup sweep' : c <= created'
    BY <1>4, <2>1 DEF Creates, registers
  <2> QED
    BY <2>2, <2>5, <2>6, <2>7
<1>5. ASSUME NEW t \in Threads, Fails(t)
      PROVE  Built'
  <2>1. created' = created /\ 0 <= created
    BY <1>5 DEF Fails
  <2>2. \A u \in Threads : chan'[u] <= created'
    BY <1>5, <2>1 DEF Fails
  <2>3. \A h \in Handles : calls'[h] <= created'
    BY <1>5, <2>1 DEF Fails
  <2>4. \A h \in Handles : registry'[h] <= created'
    BY <1>5, <2>1 DEF Fails, registers
  <2>5. \A c \in Channels : c > created' => handle'[c] = 0
    BY <1>5, <2>1 DEF Fails, Handled
  <2>6. \A c \in owned' \cup gone' \cup sweep' : c <= created'
    BY <1>5, <2>1 DEF Fails, registers
  <2> QED
    BY <2>2, <2>3, <2>4, <2>5, <2>6
<1>6. ASSUME NEW t \in Threads, Adds(t)
      PROVE  Built'
  <2>1. chan[t] <= created /\ created' = created /\ 0 <= created
    BY <1>6 DEF Adds
  <2>2. \A h \in Handles : registry'[h] <= created' /\ calls'[h] <= created'
    BY <1>6, <2>1 DEF Adds
  <2>3. \A u \in Threads : chan'[u] <= created'
    BY <1>6, <2>1 DEF Adds
  <2> QED
    BY <1>6, <2>1, <2>2, <2>3 DEF Adds
<1>7. ASSUME NEW t \in Threads, NEW h \in Handles, Probes(t, h)
      PROVE  Built'
  <2>1. created' = created /\ 0 <= created
    BY <1>7 DEF Probes
  <2>2. \A u \in Threads : chan'[u] <= created'
    BY <1>7, <2>1 DEF Probes
  <2> QED
    BY <1>7, <2>1, <2>2 DEF Probes, registers
<1>8. ASSUME NEW t \in Threads, ProbeEnds(t)
      PROVE  Built'
  <2>1. created' = created /\ 0 <= created
    BY <1>8 DEF ProbeEnds
  <2>2. \A u \in Threads : chan'[u] <= created'
    BY <1>8, <2>1 DEF ProbeEnds
  <2>3. \A h \in Handles : calls'[h] <= created'
    BY <1>8, <2>1 DEF ProbeEnds
  <2>4. \A h \in Handles : registry'[h] <= created'
    BY <1>8, <2>1 DEF ProbeEnds, registers
  <2>5. \A c \in Channels : c > created' => handle'[c] = 0
    BY <1>8, <2>1 DEF ProbeEnds
  <2>6. \A c \in owned' \cup gone' \cup sweep' : c <= created'
    BY <1>8, <2>1 DEF ProbeEnds, registers
  <2> QED
    BY <2>2, <2>3, <2>4, <2>5, <2>6
<1>9. ASSUME NEW t \in Threads, NEW c \in Channels, Releases(t, c)
      PROVE  Built'
  <2>1. c <= created /\ created' = created /\ 0 <= created
    BY <1>9 DEF Releases
  <2>2. \A h \in Handles : registry'[h] <= created' /\ calls'[h] <= created'
    BY <1>9, <2>1 DEF Releases
  <2>3. \A u \in Threads : chan'[u] <= created'
    BY <1>9, <2>1 DEF Releases
  <2> QED
    BY <1>9, <2>1, <2>2, <2>3 DEF Releases
<1>10. ASSUME NEW t \in Threads, Returns(t)
      PROVE  Built'
  <2>1. created' = created /\ 0 <= created
    BY <1>10 DEF Returns
  <2>2. \A u \in Threads : chan'[u] <= created'
    BY <1>10, <2>1 DEF Returns
  <2> QED
    BY <1>10, <2>1, <2>2 DEF Returns, holders, registers
<1>11. ASSUME NEW t \in Threads, Disposes(t)
      PROVE  Built'
  <2>1. chan[t] <= created /\ created' = created /\ 0 <= created
    BY <1>11 DEF Disposes
  <2>2. \A c \in Channels : c > created => handle'[c] = 0
    BY <1>11, <2>1 DEF Disposes, Handled, registers
  <2>3. \A u \in Threads : chan'[u] <= created'
    BY <1>11, <2>1 DEF Disposes
  <2> QED
    BY <1>11, <2>1, <2>2, <2>3 DEF Disposes, registers
<1>12. ASSUME NEW t \in Threads, DeletesHandle(t)
      PROVE  Built'
  <2>1. chan[t] <= created /\ created' = created /\ 0 <= created
    BY <1>12 DEF DeletesHandle
  <2>2. \A h \in Handles : registry'[h] <= created' /\ calls'[h] <= created'
    BY <1>12, <2>1 DEF DeletesHandle, registers
  <2>3. \A u \in Threads : chan'[u] <= created'
    BY <1>12, <2>1 DEF DeletesHandle
  <2> QED
    BY <1>12, <2>1, <2>2, <2>3 DEF DeletesHandle, registers
<1>13. ASSUME NEW t \in Threads, Frees(t)
      PROVE  Built'
  <2>1. created' = created /\ 0 <= created
    BY <1>13 DEF Frees
  <2>2. \A u \in Threads : chan'[u] <= created'
    BY <1>13, <2>1 DEF Frees
  <2> QED
    BY <1>13, <2>1, <2>2 DEF Frees, registers
<1>14. ASSUME NEW t \in Threads, Begins(t)
      PROVE  Built'
  <2>1. \A c \in sweep' : c <= created'
    BY <1>14 DEF Begins
  <2> QED
    BY <1>14, <2>1 DEF Begins, holders
<1>15. ASSUME NEW t \in Threads, Closes(t)
      PROVE  Built'
  <2>1. \A h \in Handles : registry'[h] <= created' /\ calls'[h] <= created'
    BY <1>15 DEF Closes, holders
  <2>2. \A u \in Threads : chan'[u] <= created'
    BY <1>15 DEF Closes
  <2> QED
    BY <1>15, <2>1, <2>2 DEF Closes, holders
<1>16. CASE UNCHANGED vars
  BY <1>16 DEF vars, held, calls
<1> HIDE DEF Moved, GivenUp, Built, AfterChannel
<1> QED
  BY <1>1, <1>2, <1>3, <1>4, <1>5, <1>6, <1>7, <1>8, <1>9, <1>10, <1>11, <1>12,
     <1>13, <1>14, <1>15, <1>16, Steps

(* The lock keeps everybody from a channel under construction: it enters   *)
(* no client's hands, and no disposal, before it is finished.              *)
LEMMA PrivateStep ==
    ASSUME LifeInv, Stranded, Built, Private, HandlesApart, SweepShape, [Next]_vars PROVE Private'
<1> USE Shapes DEF Moved, GivenUp, Private, Building, Disposing, SweepShape
<1>1. ASSUME NEW t \in Threads,
             \/ Elsewhere(t) \/ Fails(t) \/ Registers(t)
             \/ \E h \in Handles : Creates(t, h)
      PROVE  Private'
  BY <1>1, NewChannel
     DEF Elsewhere, holders, registers, Creates, Handled, Fails, Registers, Locked,
         Alone, AfterChannel
<1>2. ASSUME NEW t \in Threads,
             \/ Adds(t) \/ ProbeEnds(t)
             \/ \E h \in Handles : Probes(t, h)
             \/ \E c \in Channels : Releases(t, c)
      PROVE  Private'
  BY <1>2
     DEF Adds, Probes, registers, ProbeEnds, Releases, Locked, Alone, AfterChannel
<1>3. ASSUME NEW t \in Threads,
             \/ Returns(t) \/ Frees(t) \/ Begins(t)
             \/ \E c \in Channels : Sweeps(t, c)
      PROVE  Private'
  BY <1>3
     DEF Sweeps, holders, Returns, registers, Frees, Begins, Locked, Alone,
         AfterChannel
<1>4. ASSUME NEW t \in Threads, Closes(t)
      PROVE  Private'
  BY <1>4 DEF Closes, holders, Locked, Alone, AfterChannel
<1>5. ASSUME NEW t \in Threads, Disposes(t)
      PROVE  Private'
  <2>1. \A u \in Threads :
          /\ Building(u)' => /\ Building(u) /\ pc'[u] = pc[u]
                             /\ hnd'[u] = hnd[u] /\ chan'[u] = chan[u]
          /\ Disposing(u)' => Disposing(u) /\ chan'[u] = chan[u]
    BY <1>5 DEF Disposes
  <2>2. \A u \in Threads : Building(u) => chan[u] # chan[t] /\ chan[u] \in Channels
    BY <1>5 DEF Disposes, LifeInv, InHand
  <2>3. \A u \in Threads : Building(u) => handle'[chan[u]] = handle[chan[u]]
    BY <1>5, <2>2 DEF Disposes, Handled
  <2> QED
    BY <1>5, <2>1, <2>2, <2>3 DEF Disposes
<1>6. ASSUME NEW t \in Threads, DeletesHandle(t)
      PROVE  Private'
  <2>1. \A u \in Threads :
          /\ Building(u)' => /\ Building(u) /\ pc'[u] = pc[u]
                             /\ hnd'[u] = hnd[u] /\ chan'[u] = chan[u]
          /\ Disposing(u)' => Disposing(u) /\ chan'[u] = chan[u]
    BY <1>6 DEF DeletesHandle
  <2>2. \A u \in Threads : Building(u) => chan[u] # 0
    BY DEF LifeInv, InHand
  <2>3. \A h \in Handles : calls'[h] \in {calls[h], 0}
    BY <1>6 DEF DeletesHandle
  <2> QED
    BY <1>6, <2>1, <2>2, <2>3 DEF DeletesHandle
<1>7. CASE UNCHANGED vars
  BY <1>7 DEF vars, held, calls
<1> HIDE DEF Moved, GivenUp, Private, Building, Disposing, SweepShape
<1> QED
  BY <1>1, <1>2, <1>3, <1>4, <1>5, <1>6, <1>7, Steps

(* The driver gives no live handle twice, and who deletes one holds it     *)
(* alone.                                                                  *)
LEMMA HandlesApartStep ==
    ASSUME LifeInv, Stranded, Built, Private, HandlesApart, HeldApart, [Next]_vars
    PROVE HandlesApart'
<1> USE Shapes DEF Moved, GivenUp, HandlesApart
<1>1. ASSUME NEW t \in Threads,
             \/ Elsewhere(t) \/ Fails(t) \/ Registers(t)
             \/ \E h \in Handles : Creates(t, h)
      PROVE  HandlesApart'
  BY <1>1, NewChannel
     DEF Elsewhere, holders, registers, Creates, Handled, Fails, Registers,
         HeldApart, Private, Building, Holds
<1>2. ASSUME NEW t \in Threads,
             \/ Adds(t) \/ ProbeEnds(t)
             \/ \E h \in Handles : Probes(t, h)
             \/ \E c \in Channels : Releases(t, c)
      PROVE  HandlesApart'
  BY <1>2
     DEF Adds, Probes, registers, ProbeEnds, Releases, HeldApart, Private, Building,
         Holds
<1>3. ASSUME NEW t \in Threads,
             \/ Returns(t) \/ Disposes(t) \/ DeletesHandle(t)
             \/ \E c \in Channels : Sweeps(t, c)
      PROVE  HandlesApart'
  BY <1>3
     DEF Sweeps, holders, Returns, registers, Disposes, Handled, DeletesHandle,
         HeldApart, Private, Building, Holds
<1>4. ASSUME NEW t \in Threads,
             \/ Frees(t) \/ Begins(t) \/ Closes(t)
      PROVE  HandlesApart'
  BY <1>4
     DEF Frees, registers, Begins, holders, Closes, HeldApart, Private, Building,
         Holds
<1>5. CASE UNCHANGED vars
  BY <1>5 DEF vars, held, calls
<1> HIDE DEF Moved, GivenUp, HandlesApart
<1> QED
  BY <1>1, <1>2, <1>3, <1>4, <1>5, Steps

(* A handle passes from the channel to the thread that deletes it, or from *)
(* the driver to the thread that probes.                                   *)
LEMMA HeldApartStep ==
    ASSUME LifeInv, Stranded, Built, Private, HandlesApart, HeldApart, [Next]_vars
    PROVE HeldApart'
<1> USE Shapes DEF Moved, GivenUp, HeldApart, Holds
<1>1. ASSUME NEW t \in Threads,
             \/ Elsewhere(t) \/ Fails(t) \/ Registers(t)
             \/ \E h \in Handles : Creates(t, h)
      PROVE  HeldApart'
  BY <1>1, NewChannel
     DEF Elsewhere, holders, registers, Creates, Handled, Fails, Registers,
         HandlesApart, Private, Building, AfterChannel
<1>2. ASSUME NEW t \in Threads,
             \/ Adds(t) \/ ProbeEnds(t)
             \/ \E h \in Handles : Probes(t, h)
             \/ \E c \in Channels : Releases(t, c)
      PROVE  HeldApart'
  BY <1>2
     DEF Adds, Probes, registers, ProbeEnds, Releases, HandlesApart, Private,
         Building, AfterChannel
<1>3. ASSUME NEW t \in Threads,
             \/ Returns(t) \/ Disposes(t) \/ DeletesHandle(t)
             \/ \E c \in Channels : Sweeps(t, c)
      PROVE  HeldApart'
  BY <1>3
     DEF Sweeps, holders, Returns, registers, Disposes, Handled, DeletesHandle,
         HandlesApart, Private, Building, AfterChannel
<1>4. ASSUME NEW t \in Threads,
             \/ Frees(t) \/ Begins(t) \/ Closes(t)
      PROVE  HeldApart'
  BY <1>4
     DEF Frees, registers, Begins, holders, Closes, HandlesApart, Private, Building,
         AfterChannel
<1>5. CASE UNCHANGED vars
  BY <1>5 DEF vars, held, calls
<1> HIDE DEF Moved, GivenUp, HeldApart, Holds
<1> QED
  BY <1>1, <1>2, <1>3, <1>4, <1>5, Steps

(* Who comes second finds the channel gone.                                *)
LEMMA DeletedOnceStep ==
    ASSUME LifeInv, Private, HandlesApart, Stranded, DeletedOnce, [Next]_vars PROVE DeletedOnce'
<1> USE DEF Moved, GivenUp, DeletedOnce, Deletes
<1>1. ASSUME NEW t \in Threads,
             \/ Elsewhere(t) \/ Fails(t) \/ Registers(t)
             \/ \E h \in Handles : Creates(t, h)
      PROVE  DeletedOnce'
  BY <1>1, NewChannel
     DEF Elsewhere, holders, registers, Creates, Handled, Fails, Registers,
         AfterChannel
<1>2. ASSUME NEW t \in Threads,
             \/ Adds(t) \/ ProbeEnds(t)
             \/ \E h \in Handles : Probes(t, h)
             \/ \E c \in Channels : Releases(t, c)
      PROVE  DeletedOnce'
  BY <1>2 DEF Adds, Probes, registers, ProbeEnds, Releases, AfterChannel
<1>3. ASSUME NEW t \in Threads,
             \/ Returns(t) \/ Disposes(t) \/ DeletesHandle(t)
             \/ \E c \in Channels : Sweeps(t, c)
      PROVE  DeletedOnce'
  BY <1>3
     DEF Sweeps, holders, Returns, registers, Disposes, Handled, DeletesHandle,
         AfterChannel
<1>4. ASSUME NEW t \in Threads,
             \/ Frees(t) \/ Begins(t) \/ Closes(t)
      PROVE  DeletedOnce'
  BY <1>4 DEF Frees, registers, Begins, holders, Closes, AfterChannel
<1>5. CASE UNCHANGED vars
  BY <1>5 DEF vars, held, calls
<1> HIDE DEF Moved, GivenUp, DeletedOnce, Deletes
<1> QED
  BY <1>1, <1>2, <1>3, <1>4, <1>5, Steps

(* A callback is registered on a rooted channel, and goes with the handle, *)
(* before the channel is unrooted.                                         *)
LEMMA CalledStep ==
    ASSUME LifeInv, Stranded, Built, Private, HandlesApart, HeldApart, DeletedOnce, Called,
           [Next]_vars
    PROVE Called'
<1> USE Shapes DEF Moved, GivenUp, Called, Answers
<1>1. ASSUME NEW t \in Threads,
             \/ Elsewhere(t) \/ Fails(t) \/ Registers(t) \/ Adds(t)
      PROVE  Called'
  BY <1>1
     DEF Elsewhere, holders, registers, Fails, Handled, Registers, Adds,
         HandlesApart, HeldApart, DeletedOnce, Deletes, Private, Building,
         Disposing, Holds, AfterChannel
<1>2. ASSUME NEW t \in Threads,
             \/ ProbeEnds(t) \/ Returns(t)
             \/ \E c \in Channels : Releases(t, c)
             \/ \E c \in Channels : Sweeps(t, c)
      PROVE  Called'
  BY <1>2
     DEF ProbeEnds, registers, Releases, Sweeps, holders, Returns, HandlesApart,
         HeldApart, DeletedOnce, Deletes, Private, Building, Disposing, Holds,
         AfterChannel
<1>3. ASSUME NEW t \in Threads,
             \/ Disposes(t) \/ DeletesHandle(t) \/ Frees(t) \/ Begins(t)
      PROVE  Called'
  BY <1>3
     DEF Disposes, Handled, registers, DeletesHandle, Frees, Begins, holders,
         HandlesApart, HeldApart, DeletedOnce, Deletes, Private, Building,
         Disposing, Holds, AfterChannel
<1>4. ASSUME NEW t \in Threads, Closes(t)
      PROVE  Called'
  BY <1>4
     DEF Closes, holders, HandlesApart, HeldApart, DeletedOnce, Deletes, Private,
         Building, Disposing, Holds, AfterChannel
<1>5. ASSUME NEW t \in Threads, NEW h \in Handles, Creates(t, h)
      PROVE  Called'
  <2>1. ASSUME NEW k \in Handles, calls'[k] # 0
      PROVE  k \in held' /\ calls'[k] \in rooted' /\ Answers(calls[k], k)'
    BY <1>5, <2>1, NewChannel DEF Creates, Handled
  <2>2. \A u \in Threads : pc'[u] = "unroot" => pc[u] = "unroot" /\ chan'[u] = chan[u]
    BY <1>5 DEF Creates
  <2> QED
    BY <1>5, <2>1, <2>2 DEF Creates
<1>6. ASSUME NEW t \in Threads, NEW h \in Handles, Probes(t, h)
      PROVE  Called'
  <2>1. ASSUME NEW k \in Handles, calls'[k] # 0
      PROVE  k \in held' /\ calls'[k] \in rooted' /\ Answers(calls[k], k)'
    BY <1>6, <2>1 DEF Probes
  <2>2. \A u \in Threads : pc'[u] = "unroot" => pc[u] = "unroot" /\ chan'[u] = chan[u]
    BY <1>6 DEF Probes
  <2> QED
    BY <1>6, <2>1, <2>2 DEF Probes
<1>7. CASE UNCHANGED vars
  BY <1>7 DEF vars, held, calls
<1> HIDE DEF Moved, GivenUp, Called, Answers
<1> QED
  BY <1>1, <1>2, <1>3, <1>4, <1>5, <1>6, <1>7, Steps

(* A channel leaves the registry when its client releases it, before its   *)
(* handle goes.                                                            *)
LEMMA RegisteredStep ==
    ASSUME LifeInv, Stranded, Built, Private, HandlesApart, SweepShape, Registered, [Next]_vars
    PROVE Registered'
<1> USE Shapes DEF Moved, GivenUp, Registered, Disposing
<1>1. ASSUME NEW t \in Threads,
             \/ Elsewhere(t) \/ Fails(t) \/ Registers(t)
             \/ \E h \in Handles : Creates(t, h)
      PROVE  Registered'
  BY <1>1, NewChannel
     DEF Elsewhere, holders, registers, Creates, Handled, Fails, Registers,
         HandlesApart, Private, Building, SweepShape, AfterChannel
<1>2. ASSUME NEW t \in Threads,
             \/ Adds(t) \/ ProbeEnds(t)
             \/ \E h \in Handles : Probes(t, h)
             \/ \E c \in Channels : Releases(t, c)
      PROVE  Registered'
  BY <1>2
     DEF Adds, Probes, registers, ProbeEnds, Releases, HandlesApart, Private,
         Building, SweepShape, AfterChannel
<1>3. ASSUME NEW t \in Threads,
             \/ Returns(t) \/ Disposes(t) \/ DeletesHandle(t)
             \/ \E c \in Channels : Sweeps(t, c)
      PROVE  Registered'
  BY <1>3
     DEF Sweeps, holders, Returns, registers, Disposes, Handled, DeletesHandle,
         HandlesApart, Private, Building, SweepShape, AfterChannel
<1>4. ASSUME NEW t \in Threads,
             \/ Frees(t) \/ Begins(t) \/ Closes(t)
      PROVE  Registered'
  BY <1>4
     DEF Frees, registers, Begins, holders, Closes, HandlesApart, Private, Building,
         SweepShape, AfterChannel
<1>5. CASE UNCHANGED vars
  BY <1>5 DEF vars, held, calls
<1> HIDE DEF Moved, GivenUp, Registered, Disposing
<1> QED
  BY <1>1, <1>2, <1>3, <1>4, <1>5, Steps

(* Who is about to delete a channel holds it alone, and only a disposed    *)
(* channel object can be called back there.                                *)
LEMMA HeldAlone ==
    ASSUME LifeInv, Private, HandlesApart, HeldApart, DeletedOnce, Called,
           NEW t \in Threads, pc[t] \in {"construct", "probe", "delete"},
           hnd[t] \in Handles
    PROVE  hnd[t] \in held /\ (callback[hnd[t]] # 0 => callback[hnd[t]] \in gone)
<1>1. hnd[t] # 0
  BY GrabServiceAssumption
<1>2. hnd[t] \in held
  BY <1>1 DEF Private, Building, HandlesApart, HeldApart, Holds, LifeInv, InHand
<1>3. calls[hnd[t]] = callback[hnd[t]]
  BY <1>2 DEF held, calls
<1>4. ASSUME calls[hnd[t]] # 0 PROVE calls[hnd[t]] \in gone
  <2>1. Answers(calls[hnd[t]], hnd[t]) /\ calls[hnd[t]] \in Channels
    BY <1>4, Shapes DEF Called
  <2>2. CASE handle[calls[hnd[t]]] = hnd[t]
    BY <1>1, <2>1, <2>2
       DEF Private, Building, HandlesApart, HeldApart, Holds, LifeInv, InHand
  <2>3. ASSUME NEW u \in Threads, pc[u] = "delete", chan[u] = calls[hnd[t]], hnd[u] = hnd[t]
        PROVE  calls[hnd[t]] \in gone
    BY <1>1, <2>3
       DEF Private, Building, HeldApart, Holds, DeletedOnce, Deletes, LifeInv, InHand
  <2> QED
    BY <2>1, <2>2, <2>3 DEF Answers
<1> QED
  BY <1>2, <1>3, <1>4

(* The driver is asked to delete nothing but what a thread holds alone.    *)
LEMMA RefusedStep ==
    ASSUME LifeInv, Private, HandlesApart, HeldApart, DeletedOnce, Called, Stranded,
           NEW t \in Threads, pc[t] \in {"construct", "probe", "delete"},
           McDelete(hnd[t]), gone \subseteq gone'
    PROVE  Stranded'
<1>1. hnd[t] \in Handles \cup {0} /\ live \subseteq Handles
  BY LifeTypes DEF ThreadTypes, DataTypes
<1>2. callback \in [Handles -> 0..MaxChannels]
  BY LifeTypes DEF DataTypes
<1>3. hnd[t] \in Handles =>
          /\ hnd[t] \in live /\ hnd[t] \notin stranded
          /\ callback[hnd[t]] # 0 => callback[hnd[t]] \in gone
  BY HeldAlone DEF held
<1>4. CASE /\ stranded' = stranded \cup ({hnd[t]} \cap Handles)
           /\ UNCHANGED <<live, callback>>
  BY <1>3, <1>4 DEF Stranded
<1>5. CASE /\ live' = live \ {hnd[t]} /\ callback' = [callback EXCEPT ![hnd[t]] = 0]
           /\ UNCHANGED stranded
  BY <1>1, <1>2, <1>3, <1>5 DEF Stranded
<1> QED
  BY <1>4, <1>5 DEF McDelete

(* What it refused stays with it, and is never called back anew.           *)
LEMMA StrandedStep ==
    ASSUME LifeInv, Private, HandlesApart, HeldApart, DeletedOnce, Called, Stranded,
           [Next]_vars
    PROVE  Stranded'
<1>1. ASSUME UNCHANGED <<live, callback, stranded>>, gone \subseteq gone'
      PROVE  Stranded'
  BY <1>1 DEF Stranded
<1>2. ASSUME NEW t \in Threads, Initialize(t) \/ Dispose(t) \/ WaitsForLock(t)
      PROVE  Stranded'
  BY <1>1, <1>2
     DEF Initialize, Dispose, WaitsForLock, Attempt, AttemptNotNeeded, AttemptSucceeds,
         AttemptFails, AttemptAgain, DisposeAgain, DisposeBegin, hal, objects
<1>3. ASSUME NEW t \in Threads, NEW h \in Handles, CreateChannel(t, h) \/ GetBoardStatus(t, h)
      PROVE  Stranded'
  BY <1>3 DEF CreateChannel, GetBoardStatus, objects, Stranded
<1>4. ASSUME NEW t \in Threads, NEW c \in Channels, ReleaseChannel(t, c)
      PROVE  Stranded'
  BY <1>1, <1>4 DEF ReleaseChannel, hal, objects
<1>5. ASSUME NEW t \in Threads,
             \/ Sleep(t) \/ AddToRegistry(t) \/ DisposeChannel(t) \/ FreeHandles(t)
             \/ CloseDriver(t) \/ \E c \in Channels : SweepChannel(t, c)
      PROVE  Stranded'
  BY <1>1, <1>5
     DEF Sleep, AddToRegistry, DisposeChannel, FreeHandles, CloseDriver, SweepChannel,
         hal, objects
<1>6. ASSUME NEW t \in Threads, ConstructFails(t) \/ ProbeDone(t) \/ DeleteChannel(t)
      PROVE  Stranded'
  BY <1>6, RefusedStep DEF ConstructFails, ProbeDone, DeleteChannel, objects
<1>7. ASSUME NEW t \in Threads, RegisterCallback(t)
      PROVE  Stranded'
  <2>1. hnd[t] \notin stranded
    BY <1>7, GrabServiceAssumption
       DEF RegisterCallback, Private, Building, HandlesApart, held, LifeInv, InHand
  <2>2. callback \in [Handles -> 0..MaxChannels] /\ stranded \subseteq Handles
    BY DEF LifeInv, TypeOK
  <2> QED
    BY <1>7, <2>1, <2>2 DEF RegisterCallback, Stranded
<1>8. CASE UNCHANGED vars
  BY <1>1, <1>8 DEF vars
<1> QED
  BY <1>2, <1>3, <1>4, <1>5, <1>6, <1>7, <1>8 DEF Next, Step, Refused

(* The disposal keeps the lock to its end.                                 *)
LEMMA SweepShapeStep ==
    ASSUME LifeInv, Private, HandlesApart, Stranded, SweepShape, [Next]_vars PROVE SweepShape'
<1> USE Shapes DEF Moved, GivenUp, SweepShape, Building, Disposing
<1>1. ASSUME NEW t \in Threads,
             \/ Elsewhere(t) \/ Fails(t) \/ Registers(t)
             \/ \E h \in Handles : Creates(t, h)
      PROVE  SweepShape'
  BY <1>1, NewChannel
     DEF Elsewhere, holders, registers, Creates, Handled, Fails, Registers,
         AfterChannel
<1>2. ASSUME NEW t \in Threads,
             \/ Adds(t) \/ ProbeEnds(t)
             \/ \E h \in Handles : Probes(t, h)
             \/ \E c \in Channels : Releases(t, c)
      PROVE  SweepShape'
  BY <1>2 DEF Adds, Probes, registers, ProbeEnds, Releases, AfterChannel
<1>3. ASSUME NEW t \in Threads,
             \/ Returns(t) \/ Disposes(t) \/ DeletesHandle(t)
             \/ \E c \in Channels : Sweeps(t, c)
      PROVE  SweepShape'
  BY <1>3
     DEF Sweeps, holders, Returns, registers, Disposes, Handled, DeletesHandle,
         AfterChannel
<1>4. ASSUME NEW t \in Threads,
             \/ Frees(t) \/ Begins(t) \/ Closes(t)
      PROVE  SweepShape'
  BY <1>4 DEF Frees, registers, Begins, holders, Closes, AfterChannel
<1>5. CASE UNCHANGED vars
  BY <1>5 DEF vars, held, calls
<1> HIDE DEF Moved, GivenUp, SweepShape, Building, Disposing
<1> QED
  BY <1>1, <1>2, <1>3, <1>4, <1>5, Steps

(* Each handle of the driver passes from its builder to the registry, then *)
(* to a disposal, directly or through the sweep, and then to a deletion.   *)
LEMMA AccountedStep ==
    ASSUME LifeInv, Stranded, Built, Private, HandlesApart, SweepShape, Registered, Accounted,
           [Next]_vars
    PROVE Accounted'
<1> USE Shapes DEF Moved, GivenUp, Accounted, Known, Holds, Building, SweepShape
<1>1. ASSUME NEW t \in Threads,
             \/ Elsewhere(t) \/ Registers(t) \/ Adds(t) \/ ProbeEnds(t)
      PROVE  Accounted'
  BY <1>1
     DEF Elsewhere, holders, registers, Registers, Adds, ProbeEnds, HandlesApart,
         Private, Registered, AfterChannel
<1>2. ASSUME NEW t \in Threads,
             \/ Returns(t) \/ DeletesHandle(t)
             \/ \E c \in Channels : Releases(t, c)
             \/ \E c \in Channels : Sweeps(t, c)
      PROVE  Accounted'
  BY <1>2
     DEF Releases, Sweeps, holders, Returns, registers, DeletesHandle, HandlesApart,
         Private, Registered, AfterChannel
<1>3. ASSUME NEW t \in Threads,
             \/ Frees(t) \/ Begins(t) \/ Closes(t)
      PROVE  Accounted'
  BY <1>3
     DEF Frees, registers, Begins, holders, Closes, HandlesApart, Private,
         Registered, AfterChannel
<1>4. ASSUME NEW t \in Threads, NEW h \in Handles, Creates(t, h)
      PROVE  Accounted'
  <2>1. ASSUME NEW k \in held' PROVE Known(k)'
    <3>1. CASE k = h
      BY <1>4, <3>1 DEF Creates, Handled
    <3>2. CASE \E u \in Threads : Holds(u) /\ hnd[u] = k
      BY <1>4, <3>2 DEF Creates
    <3>3. CASE \E u \in Threads : (Building(u) \/ pc[u] = "dispose") /\ handle[chan[u]] = k
      BY <1>4, <3>3, NewChannel DEF Creates, Handled, LifeInv, InHand, Alone, Locked
    <3>4. CASE ~disposed /\ registry[k] # 0 /\ handle[registry[k]] = k
      BY <1>4, <2>1, <3>4, NewChannel DEF Creates, Handled, registers
    <3> QED
      BY <2>1, <3>2, <3>3, <3>4, <3>1, <1>4 DEF Creates
  <2> QED
    BY <2>1
<1>5. ASSUME NEW t \in Threads, Fails(t)
      PROVE  Accounted'
  <2>1. ASSUME NEW k \in held' PROVE Known(k)'
    <3>1. k \in held /\ k # hnd[t] /\ k # 0 /\ k \in Handles
      BY <1>5, <2>1 DEF Fails
    <3>2. CASE \E u \in Threads : Holds(u) /\ hnd[u] = k
      BY <1>5, <3>1, <3>2 DEF Fails
    <3>3. CASE \E u \in Threads : (Building(u) \/ pc[u] = "dispose") /\ handle[chan[u]] = k
      BY <1>5, <3>1, <3>3 DEF Fails, Handled, LifeInv, InHand, Private
    <3>4. CASE ~disposed /\ registry[k] # 0 /\ handle[registry[k]] = k
      BY <1>5, <3>1, <3>4 DEF Fails, Handled, registers, Private
    <3> QED
      BY <2>1, <3>1, <3>2, <3>3, <3>4, <1>5 DEF Fails
  <2> QED
    BY <2>1
<1>6. ASSUME NEW t \in Threads, NEW h \in Handles, Probes(t, h)
      PROVE  Accounted'
  <2>1. ASSUME NEW k \in held' PROVE Known(k)'
    <3>1. CASE k = h
      BY <1>6, <3>1 DEF Probes
    <3>2. CASE \E u \in Threads : Holds(u) /\ hnd[u] = k
      BY <1>6, <3>2 DEF Probes
    <3>3. CASE \E u \in Threads : (Building(u) \/ pc[u] = "dispose") /\ handle[chan[u]] = k
      BY <1>6, <3>3, NewChannel DEF Probes, LifeInv, InHand, Alone, Locked
    <3>4. CASE ~disposed /\ registry[k] # 0 /\ handle[registry[k]] = k
      BY <1>6, <2>1, <3>4, NewChannel DEF Probes, registers
    <3> QED
      BY <2>1, <3>2, <3>3, <3>4, <3>1, <1>6 DEF Probes
  <2> QED
    BY <2>1
<1>7. ASSUME NEW t \in Threads, Disposes(t)
      PROVE  Accounted'
  <2>1. ASSUME NEW k \in held' PROVE Known(k)'
    <3>1. k \in held /\ k # 0 /\ k \in Handles
      BY <1>7, <2>1 DEF Disposes
    <3>2. CASE \E u \in Threads : Holds(u) /\ hnd[u] = k
      BY <1>7, <3>1, <3>2 DEF Disposes
    <3>3. CASE handle[chan[t]] = k
      BY <1>7, <3>1, <3>3 DEF Disposes
    <3>4. CASE /\ handle[chan[t]] # k
               /\ \E u \in Threads :
                     (Building(u) \/ pc[u] = "dispose") /\ handle[chan[u]] = k
      BY <1>7, <3>1, <3>4 DEF Disposes, Handled, LifeInv, InHand
    <3>5. CASE /\ handle[chan[t]] # k /\ ~disposed /\ registry[k] # 0
               /\ handle[registry[k]] = k
      BY <1>7, <3>1, <3>5 DEF Disposes, Handled, registers
    <3>6. CASE handle[chan[t]] # k /\ \E c \in sweep : handle[c] = k
      BY <1>7, <3>1, <3>6 DEF Disposes, Handled, registers
    <3> QED
      BY <3>1, <3>2, <3>4, <3>5, <3>3, <3>6
  <2> QED
    BY <2>1
<1>8. CASE UNCHANGED vars
  BY <1>8 DEF vars, held, calls
<1> HIDE DEF Moved, GivenUp, Accounted, Known, Holds, Building, SweepShape
<1> QED
  BY <1>1, <1>2, <1>3, <1>4, <1>5, <1>6, <1>7, <1>8, Steps

(* Nothing is created, held or called back at the start.                   *)
LEMMA RootStart == Init => RootInv
<1> SUFFICES ASSUME Init PROVE RootInv
  OBVIOUS
<1> USE GrabServiceAssumption DEF Init, Building, Disposing, Deletes, Holds
<1>1. Built
  BY DEF Built, Channels, calls
<1>2. Private /\ HandlesApart /\ HeldApart /\ DeletedOnce
  BY DEF Private, HandlesApart, HeldApart, DeletedOnce
<1>3. Called /\ Registered /\ Stranded /\ SweepShape /\ Accounted
  BY DEF Called, Registered, Stranded, SweepShape, Accounted, held, calls
<1> QED
  BY <1>1, <1>2, <1>3 DEF RootInv

(* It holds in every reachable state.                                      *)
LEMMA RootInvHolds == Spec => []RootInv
<1>1. Init => RootInv
  BY RootStart
<1>2. LifeInv /\ RootInv /\ [Next]_vars => RootInv'
  BY BuiltStep, PrivateStep, HandlesApartStep, HeldApartStep, DeletedOnceStep,
     CalledStep, RegisteredStep, StrandedStep, SweepShapeStep, AccountedStep
     DEF RootInv
<1> QED
  BY <1>1, <1>2, LifeInvHolds, PTL DEF Spec

(***************************************************************************)
(* The theorems                                                            *)
(***************************************************************************)

(* As long as the driver can call a channel back, what it refers to is     *)
(* rooted, though a release may meet the disposal of the service on the    *)
(* same channel and the driver gives deleted channels' handles out again   *)
(* (GrabChannel.Dispose frees the GC handles after McDelete). The exception*)
(* is a disposed channel that the driver refused to delete.                *)
THEOREM RootedCallbacks == Spec => []CallbacksAreRooted
<1>1. RootInv => CallbacksAreRooted
  BY DEF RootInv, Called, Stranded, CallbacksAreRooted, held, calls
<1> QED
  BY RootInvHolds, <1>1, PTL

(* Once the service is disposed of, every channel that the driver still    *)
(* has it refused to delete, or it is in the hands of a release that is    *)
(* about to: TryAdd never finds a stale entry under a handle that is given *)
(* out again, and the disposal's snapshot of the registry misses none.     *)
THEOREM DriverLeftEmpty == Spec => []NothingOutlivesDriver
<1>1. LifeInv /\ RootInv => NothingOutlivesDriver
  BY Shapes
     DEF RootInv, Accounted, Known, Holds, Building, SweepShape, LifeInv, LockShape,
         NothingOutlivesDriver, Closed, Deleting, held
<1> QED
  BY LifeInvHolds, RootInvHolds, <1>1, PTL

===============================================================================
