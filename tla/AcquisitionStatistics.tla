-------------------------- MODULE AcquisitionStatistics --------------------------
(***************************************************************************)
(* The counters and frame intervals of a session                           *)
(* (AcquisitionStatistics.cs). One lock covers every operation, so each is *)
(* one step. Time is the Stopwatch's, in units of its reading              *)
(* (milliseconds), and passes only while it runs; rates are divisions of   *)
(* these numbers and left out. Start means start or go on. The manager     *)
(* makes a new object for each session and never calls Reset; tests do.    *)
(***************************************************************************)
EXTENDS Integers

CONSTANTS
    MaxTime,        \* bound: the Stopwatch's readings
    MaxCount        \* bound: frames, dropped frames, errors

VARIABLES
    clock, ticking,             \* _stopwatch
    frames, dropped, errors,
    shortest, longest, total,   \* the intervals; before the first None
    last,                       \* _lastFrameTimestampMs
    first                       \* history: when the first frame came, -1 before it

counters  == <<dropped, errors>>
intervals == <<frames, shortest, longest, total, last, first>>
vars == <<clock, ticking, frames, dropped, errors, shortest, longest, total, last, first>>

None == -1

Init ==
    /\ clock = 0 /\ ticking = FALSE
    /\ frames = 0 /\ dropped = 0 /\ errors = 0
    /\ shortest = None /\ longest = None /\ total = 0
    /\ last = 0 /\ first = None

Start == ticking' = TRUE /\ UNCHANGED <<clock, counters, intervals>>
Stop == ticking' = FALSE /\ UNCHANGED <<clock, counters, intervals>>

Tick ==
    /\ ticking /\ clock < MaxTime
    /\ clock' = clock + 1
    /\ UNCHANGED <<ticking, counters, intervals>>

(* Definitions that no action uses are mistakes: the one that follows each *)
(* of them, replaced by it, breaks a property (PROJECT.json, "mutants").   *)

(* Mistake: the first frame's distance from the start counts as well. *)
HasIntervalFromStart == TRUE

(* A frame that came at 0 counts as no frame here.                         *)
HasInterval == frames > 0 /\ last > 0

Smaller(a, b) == IF a = None \/ b < a THEN b ELSE a
Larger(a, b)  == IF a = None \/ b > a THEN b ELSE a

(* What a snapshot makes of an interval that there was not. *)
Reported(a) == IF a = None THEN 0 ELSE a

(* Stop does not keep late frames from being recorded.                     *)
RecordFrame ==
    /\ frames < MaxCount
    /\ IF HasInterval
       THEN /\ total' = total + (clock - last)
            /\ shortest' = Smaller(shortest, clock - last)
            /\ longest' = Larger(longest, clock - last)
       ELSE UNCHANGED <<total, shortest, longest>>
    /\ last' = clock /\ frames' = frames + 1
    /\ first' = IF frames = 0 THEN clock ELSE first
    /\ UNCHANGED <<clock, ticking, counters>>

RecordDroppedFrame ==
    /\ dropped < MaxCount /\ dropped' = dropped + 1
    /\ UNCHANGED <<clock, ticking, errors, intervals>>

RecordError ==
    /\ errors < MaxCount /\ errors' = errors + 1
    /\ UNCHANGED <<clock, ticking, dropped, intervals>>

(* The Stopwatch stops, too.                                               *)
Reset ==
    /\ clock' = 0 /\ ticking' = FALSE
    /\ frames' = 0 /\ dropped' = 0 /\ errors' = 0
    /\ shortest' = None /\ longest' = None /\ total' = 0
    /\ last' = 0 /\ first' = None

Next ==
    \/ Start \/ Stop \/ Tick
    \/ RecordFrame \/ RecordDroppedFrame \/ RecordError \/ Reset

Spec == Init /\ [][Next]_vars

(***************************************************************************)
(* Properties                                                              *)
(***************************************************************************)

(* Every variable has its type.                                            *)
TypeOK ==
    /\ clock \in 0..MaxTime /\ ticking \in BOOLEAN
    /\ {frames, dropped, errors} \subseteq 0..MaxCount
    /\ {shortest, longest, first} \subseteq None..MaxTime
    /\ {total, last} \subseteq 0..MaxTime

(* The average interval a snapshot reports, the total over one less than   *)
(* the frames, is not above the longest it reports; nor is it below the    *)
(* shortest, and the intervals add up to the time from the first frame to  *)
(* the last, across stops, unless the first frame came at 0: the interval  *)
(* after it is skipped and yet divided by.                                 *)
AverageInRange ==
    frames > 1 =>
        /\ total <= Reported(longest) * (frames - 1)
        /\ first > 0 => /\ Reported(shortest) * (frames - 1) <= total
                        /\ total = last - first

===============================================================================
