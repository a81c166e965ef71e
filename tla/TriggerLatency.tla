----------------------------- MODULE TriggerLatency -----------------------------
(***************************************************************************)
(* How the manager measures the time from a trigger to its frame           *)
(* (AcquisitionManager.cs: _triggerTimestamps). Every trigger, of a request*)
(* or of the interval timer, leaves a time stamp in a queue; every frame   *)
(* first discards the stamps that are too old, then takes the oldest for   *)
(* its own; a frame that the hardware reports as dropped takes a stamp too.*)
(* Nothing else says which stamp belongs to which frame: the pairing is    *)
(* right only while stamps and frames stay in step.                        *)
(*                                                                         *)
(* One loop serves the signals (the join of the last session's loop did    *)
(* not time out). Triggers are numbered; a frame carries the number of the *)
(* trigger it answers, 0 when the camera was triggered from outside.       *)
(***************************************************************************)
EXTENDS Integers, Sequences

CONSTANTS
    MaxTriggers,    \* bound: triggers
    MaxStarts,      \* bound: sessions
    MaxTime,        \* bound: the clock
    MaxLatency,     \* _maxExpectedLatency
    SoftTriggers,   \* whether the profile's trigger mode is SOFT or COMBINED
    OutsideFrames   \* bound: frames without a trigger (COMBINED, IMMEDIATE)

Triggers == 1..MaxTriggers

ASSUME LatencyAssumption ==
    /\ {MaxTriggers, MaxStarts, MaxTime, MaxLatency, OutsideFrames} \subseteq Nat
    /\ SoftTriggers \in BOOLEAN

VARIABLES
    now,            \* the clock
    active,         \* a session is active, its hardware acquires
    timed,          \* it has an interval timer
    starts,         \* how many sessions were started
    sent,           \* how many triggers were sent
    time,           \* when each was
    stamps,         \* _triggerTimestamps: the triggers, by their stamps
    exposing,       \* triggers the camera is working on, oldest first
    signals,        \* the channel's queue: frames and drops, by trigger
    outside,        \* frames without a trigger so far
    loop,           \* the processing loop: position, frame, time it came
    records,        \* what was given to the latency service
    astray          \* stamps and frames are out of step

hardware == <<active, timed, starts, exposing, outside>>
triggers == <<sent, time>>
vars == <<now, hardware, triggers, stamps, signals, loop, records, astray>>

Idle == [pc |-> "idle", frame |-> 0, at |-> 0]

Init ==
    /\ now = 0 /\ active = FALSE /\ timed = FALSE /\ starts = 0
    /\ sent = 0 /\ time = [i \in Triggers |-> 0]
    /\ stamps = << >> /\ exposing = << >> /\ signals = << >> /\ outside = 0
    /\ loop = Idle /\ records = << >> /\ astray = FALSE

(* What the camera, the queue or the loop still has to answer.             *)
Outstanding ==
    {exposing[k] : k \in DOMAIN exposing} \cup {signals[k].of : k \in DOMAIN signals}
        \cup (IF loop.pc = "idle" THEN {} ELSE {loop.frame})

(* Stamps and frames fall out of step when something unforeseen happens,   *)
(* and are in step again when nothing is left of either.                   *)
Watch(unforeseen) ==
    astray' = ((astray \/ unforeseen) /\ ~(stamps' = << >> /\ Outstanding' = {}))

Tick ==
    /\ now < MaxTime
    /\ now' = now + 1
    /\ UNCHANGED <<hardware, triggers, stamps, signals, loop, records, astray>>

(***************************************************************************)
(* Sessions and triggers, under the manager's lock                         *)
(***************************************************************************)

(* Stamps of the last session are not removed.                             *)
Start ==
    /\ ~active /\ loop.pc = "idle" /\ starts < MaxStarts
    /\ active' = TRUE /\ timed' \in BOOLEAN /\ starts' = starts + 1
    /\ UNCHANGED <<now, exposing, outside, triggers, stamps, signals, loop, records, astray>>

(* The camera stops; what is queued is drained.                            *)
Stop ==
    /\ active
    /\ active' = FALSE /\ timed' = FALSE
    /\ exposing' = << >> /\ signals' = << >>
    /\ UNCHANGED <<now, starts, outside, triggers, stamps, loop, records>>
    /\ Watch(exposing # << >> \/ signals # << >>)

(* Stamp, then send; if sending throws, the stamp stays.                   *)
StampAndSend(accepted) ==
    /\ active /\ sent < MaxTriggers
    /\ sent' = sent + 1 /\ time' = [time EXCEPT ![sent + 1] = now]
    /\ stamps' = Append(stamps, sent + 1)
    /\ exposing' = IF accepted THEN Append(exposing, sent + 1) ELSE exposing
    /\ UNCHANGED <<now, active, timed, starts, outside, signals, loop, records>>
    /\ Watch(~accepted)

(* Trigger and TriggerAsync refuse a profile without software triggers ... *)
Trigger(accepted) == SoftTriggers /\ StampAndSend(accepted)

(* ... the timer's callback does not ask.                                  *)
TimerTick(accepted) == timed /\ StampAndSend(accepted)

(***************************************************************************)
(* The camera                                                              *)
(***************************************************************************)

Answer(kind) ==
    /\ active /\ exposing # << >>
    /\ exposing' = Tail(exposing)
    /\ signals' = Append(signals, [kind |-> kind, of |-> Head(exposing)])
    /\ UNCHANGED <<now, active, timed, starts, outside, triggers, stamps, loop, records, astray>>

(* The frame never comes and no signal says so: the camera missed the      *)
(* trigger, or the frame found the channel's queue full.                   *)
Lose ==
    /\ active /\ exposing # << >>
    /\ exposing' = Tail(exposing)
    /\ UNCHANGED <<now, active, timed, starts, outside, triggers, stamps, signals, loop,
                   records>>
    /\ Watch(TRUE)

OutsideFrame ==
    /\ active /\ outside < OutsideFrames
    /\ outside' = outside + 1
    /\ signals' = Append(signals, [kind |-> "FRAME", of |-> 0])
    /\ UNCHANGED <<now, active, timed, starts, exposing, triggers, stamps, loop, records>>
    /\ Watch(TRUE)

(***************************************************************************)
(* The processing loop                                                     *)
(***************************************************************************)

(* ProcessFrame notes the time first and then waits for the lock.          *)
Receive ==
    /\ loop.pc = "idle" /\ signals # << >> /\ Head(signals).kind = "FRAME"
    /\ loop' = [pc |-> "expire", frame |-> Head(signals).of, at |-> now]
    /\ signals' = Tail(signals)
    /\ UNCHANGED <<now, hardware, triggers, stamps, records, astray>>

TooOld == stamps # << >> /\ loop.at - time[Head(stamps)] > MaxLatency

(* Mistake: no stamp is ever too old. *)
ExpireNothing ==
    /\ loop.pc = "expire"
    /\ loop' = [loop EXCEPT !.pc = "dequeue"]
    /\ UNCHANGED <<now, hardware, triggers, stamps, signals, records, astray>>

(* Discard the stamps that are too old, one by one.                        *)
Expire ==
    /\ loop.pc = "expire"
    /\ IF TooOld THEN stamps' = Tail(stamps) /\ UNCHANGED loop
                 ELSE loop' = [loop EXCEPT !.pc = "dequeue"] /\ UNCHANGED stamps
    /\ UNCHANGED <<now, hardware, triggers, signals, records>>
    /\ Watch(TooOld /\ Head(stamps) \in Outstanding)

Record(i) == [trigger |-> i, frame |-> loop.frame, at |-> loop.at, astray |-> astray]

(* Mistake: the stamp is looked at, not taken. *)
PeekStamp ==
    /\ loop.pc = "dequeue"
    /\ records' = IF stamps = << >> THEN records ELSE Append(records, Record(Head(stamps)))
    /\ loop' = Idle
    /\ UNCHANGED <<now, hardware, triggers, stamps, signals, astray>>

(* Mistake: the default of an empty queue is recorded. *)
DequeueDefault ==
    /\ loop.pc = "dequeue"
    /\ records' = Append(records, Record(IF stamps = << >> THEN 0 ELSE Head(stamps)))
    /\ stamps' = IF stamps = << >> THEN stamps ELSE Tail(stamps)
    /\ loop' = Idle
    /\ UNCHANGED <<now, hardware, triggers, signals>>
    /\ Watch(FALSE)

(* Take the oldest stamp, if there is one by now, and record the pair.     *)
Dequeue ==
    /\ loop.pc = "dequeue"
    /\ IF stamps = << >>
         THEN UNCHANGED <<stamps, records>>
         ELSE stamps' = Tail(stamps) /\ records' = Append(records, Record(Head(stamps)))
    /\ loop' = Idle
    /\ UNCHANGED <<now, hardware, triggers, signals>>
    /\ Watch(FALSE)

(* Mistake: a dropped frame keeps its stamp. *)
DropKeepsStamp ==
    /\ loop.pc = "idle" /\ signals # << >> /\ Head(signals).kind = "DROP"
    /\ signals' = Tail(signals)
    /\ UNCHANGED <<now, hardware, triggers, stamps, loop, records>>
    /\ Watch(FALSE)

(* CLUSTER_UNAVAILABLE: the oldest stamp goes, without a look at its age.  *)
Drop ==
    /\ loop.pc = "idle" /\ signals # << >> /\ Head(signals).kind = "DROP"
    /\ signals' = Tail(signals)
    /\ stamps' = IF stamps = << >> THEN stamps ELSE Tail(stamps)
    /\ UNCHANGED <<now, hardware, triggers, loop, records>>
    /\ Watch(FALSE)

(***************************************************************************)
(* The specification                                                       *)
(***************************************************************************)

Next ==
    \/ Tick \/ Start \/ Stop
    \/ \E accepted \in BOOLEAN : Trigger(accepted) \/ TimerTick(accepted)
    \/ Answer("FRAME") \/ Answer("DROP") \/ Lose \/ OutsideFrame
    \/ Receive \/ Expire \/ Dequeue \/ Drop

Spec == Init /\ [][Next]_vars

(***************************************************************************)
(* Properties                                                              *)
(***************************************************************************)

Records == [trigger : Triggers, frame : Triggers \cup {0}, at : 0..MaxTime, astray : BOOLEAN]

(* Every variable has its type.                                            *)
TypeOK ==
    /\ now \in 0..MaxTime /\ {active, timed, astray} \subseteq BOOLEAN
    /\ starts \in 0..MaxStarts /\ outside \in 0..OutsideFrames
    /\ sent \in 0..MaxTriggers /\ time \in [Triggers -> 0..MaxTime]
    /\ stamps \in Seq(Triggers) /\ exposing \in Seq(Triggers)
    /\ signals \in Seq([kind : {"FRAME", "DROP"}, of : Triggers \cup {0}])
    /\ loop \in [pc : {"idle", "expire", "dequeue"}, frame : Triggers \cup {0}, at : 0..MaxTime]
    /\ records \in Seq(Records)

(* A frame is recorded with the time of its own trigger, through reported  *)
(* drops, stops, restarts and delays, unless a trigger was lost without a  *)
(* signal, a frame came from outside or later than _maxExpectedLatency, and*)
(* the queue has not been empty since. Whatever was lost, no trigger is    *)
(* recorded twice. Drops are answers to triggers here; the signal of a drop*)
(* without a trigger is not modelled.                                      *)
OwnTrigger ==
    \A k \in DOMAIN records :
        /\ ~records[k].astray => records[k].trigger = records[k].frame
        /\ \A j \in DOMAIN records : j < k => records[j].trigger < records[k].trigger

(* A recorded latency never exceeds _maxExpectedLatency, whatever was lost *)
(* or late, and is not negative unless frames have gone astray.            *)
LatencyInRange ==
    \A k \in DOMAIN records :
        LET latency == records[k].at - time[records[k].trigger]
        IN latency <= MaxLatency /\ (~records[k].astray => latency >= 0)

===============================================================================
