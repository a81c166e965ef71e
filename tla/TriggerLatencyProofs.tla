------------------------- MODULE TriggerLatencyProofs -------------------------
(***************************************************************************)
(* Theorems about TriggerLatency for any number of triggers, sessions and  *)
(* frames from outside, and any limit of latencies.                        *)
(*                                                                         *)
(* While stamps and frames are in step the queue of stamps is exactly the  *)
(* line of frames still to be answered: the one in the loop's hands, those *)
(* in the channel's queue, those the camera works on (InStep). Whatever is *)
(* lost, stamps and recorded triggers are in the order they were sent      *)
(* (Ordered). Sequences are compared place by place.                       *)
(***************************************************************************)
EXTENDS TriggerLatency, TLAPS

Signal == [kind : {"FRAME", "DROP"}, of : Triggers \cup {0}]
LoopTypes == [pc : {"idle", "expire", "dequeue"}, frame : Triggers \cup {0}, at : 0..MaxTime]

(* How many frames the loop has in hand.                                   *)
InHand == IF loop.pc = "idle" THEN 0 ELSE 1

(* The trigger of the k-th frame still to be answered.                     *)
Due(k) ==
    IF k <= InHand THEN loop.frame
    ELSE IF k <= InHand + Len(signals) THEN signals[k - InHand].of
    ELSE exposing[k - InHand - Len(signals)]

(* The stamps are those of the frames still to be answered.                *)
InStep ==
    ~astray =>
        /\ Len(stamps) = InHand + Len(signals) + Len(exposing)
        /\ \A k \in 1..Len(stamps) : stamps[k] = Due(k)

(* Stamps wait in the order of their triggers, behind all that were        *)
(* recorded.                                                               *)
Ordered ==
    /\ \A k \in 1..Len(stamps) : stamps[k] <= sent
    /\ \A j, k \in 1..Len(stamps) : j < k => stamps[j] < stamps[k]
    /\ \A j \in 1..Len(records), k \in 1..Len(stamps) : records[j].trigger < stamps[k]
    /\ \A k \in 1..Len(records) : records[k].trigger <= sent
    /\ \A j, k \in 1..Len(records) : j < k => records[j].trigger < records[k].trigger

(* Frames answer triggers that were sent before them.                      *)
Past ==
    /\ \A i \in Triggers : time[i] <= now
    /\ loop.at <= now
    /\ \A k \in 1..Len(exposing) : exposing[k] <= sent
    /\ \A k \in 1..Len(signals) : signals[k].of <= sent
    /\ loop.pc # "idle" => loop.frame <= sent /\ (loop.frame # 0 => time[loop.frame] <= loop.at)

(* A stamp that Expire left is not too old for the frame at hand.          *)
Timely ==
    loop.pc = "dequeue" /\ Len(stamps) > 0 => loop.at - time[stamps[1]] <= MaxLatency

(* So with what was recorded.                                              *)
Recorded ==
    \A k \in 1..Len(records) :
        /\ ~records[k].astray => records[k].trigger = records[k].frame
        /\ records[k].at - time[records[k].trigger] <= MaxLatency
        /\ ~records[k].astray => records[k].at - time[records[k].trigger] >= 0

(* The inductive invariant.                                                *)
LatencyInv == TypeOK /\ InStep /\ Ordered /\ Past /\ Timely /\ Recorded

(***************************************************************************)
(* What the steps do to the sequences, place by place.                     *)
(***************************************************************************)

(* Sequence r is q with x behind, or q without its first.                  *)
Pushed(q, r, x) ==
    /\ Len(r) = Len(q) + 1 /\ r[Len(q) + 1] = x
    /\ \A k \in 1..Len(q) : r[k] = q[k]

Popped(q, r) ==
    /\ Len(q) > 0 /\ Len(r) = Len(q) - 1
    /\ \A k \in 1..Len(r) : r[k] = q[k + 1]

(* A sequence with one more item ...                                       *)
LEMMA PushFacts ==
    ASSUME NEW S, NEW q \in Seq(S), NEW x \in S
    PROVE  Append(q, x) \in Seq(S) /\ Pushed(q, Append(q, x), x)
BY DEF Pushed

(* ... without its first ...                                               *)
LEMMA PopFacts ==
    ASSUME NEW S, NEW q \in Seq(S), q # << >>
    PROVE  /\ Tail(q) \in Seq(S) /\ Popped(q, Tail(q))
           /\ Head(q) = q[1] /\ q[1] \in S
<1>1. Len(q) \in Nat /\ Len(q) > 0
  OBVIOUS
<1>2. Tail(q) \in Seq(S) /\ Len(Tail(q)) = Len(q) - 1 /\ Head(q) = q[1] /\ q[1] \in S
  BY <1>1
<1>3. \A k \in 1..(Len(q) - 1) : Tail(q)[k] = q[k + 1]
  BY <1>1
<1> QED
  BY <1>1, <1>2, <1>3 DEF Popped

(* ... and any.                                                            *)
LEMMA SeqFacts ==
    ASSUME NEW S, NEW q \in Seq(S)
    PROVE  /\ Len(q) \in Nat /\ DOMAIN q = 1..Len(q)
           /\ q = << >> <=> Len(q) = 0
           /\ \A k \in 1..Len(q) : q[k] \in S
OBVIOUS

(* The places after a push ...                                             *)
LEMMA PlacesPushed ==
    ASSUME NEW q, NEW r, NEW x, Len(q) \in Nat, Pushed(q, r, x)
    PROVE  \A k \in 1..Len(r) :
              \/ k \in 1..Len(q) /\ r[k] = q[k]
              \/ k = Len(q) + 1 /\ r[k] = x
<1>1. Len(r) = Len(q) + 1 /\ r[Len(q) + 1] = x
  BY DEF Pushed
<1>2. \A k \in 1..Len(q) : r[k] = q[k]
  BY DEF Pushed
<1> SUFFICES ASSUME NEW k \in 1..Len(r)
             PROVE  \/ k \in 1..Len(q) /\ r[k] = q[k]
                    \/ k = Len(q) + 1 /\ r[k] = x
  OBVIOUS
<1>3. k \in 1..Len(q) \/ k = Len(q) + 1
  BY <1>1
<1>4. CASE k \in 1..Len(q)
  BY <1>2, <1>4
<1>5. CASE k = Len(q) + 1
  BY <1>1, <1>5
<1> QED
  BY <1>3, <1>4, <1>5

(* ... and after a pop.                                                    *)
LEMMA PlacesPopped ==
    ASSUME NEW q, NEW r, Len(q) \in Nat, Popped(q, r)
    PROVE  /\ 1 \in 1..Len(q)
           /\ \A k \in 1..Len(r) : k \in Nat /\ k + 1 \in 1..Len(q) /\ r[k] = q[k + 1]
<1>1. Len(r) = Len(q) - 1 /\ Len(q) > 0
  BY DEF Popped
<1>2. 1 \in 1..Len(q) /\ \A k \in 1..Len(r) : k \in Nat /\ k + 1 \in 1..Len(q)
  BY <1>1
<1> QED
  BY <1>1, <1>2 DEF Popped

(* Stamps and frames are in step after a step only if they were, or if     *)
(* nothing is left of either.                                              *)
Nothing ==
    Len(stamps) = 0 /\ Len(exposing) = 0 /\ Len(signals) = 0 /\ loop.pc = "idle"

Watched(unforeseen) == ~astray' => (~astray /\ ~unforeseen) \/ Nothing'

untouched == <<now, sent, time>>

(* The steps, by what they change.                                         *)
Sends(accepted) ==
    /\ sent < MaxTriggers /\ sent' = sent + 1
    /\ \A i \in Triggers : time'[i] = IF i = sent + 1 THEN now ELSE time[i]
    /\ Pushed(stamps, stamps', sent + 1)
    /\ IF accepted THEN Pushed(exposing, exposing', sent + 1) ELSE exposing' = exposing
    /\ UNCHANGED <<now, signals, loop, records>>
    /\ Watched(~accepted)

Stops ==
    /\ Len(exposing') = 0 /\ Len(signals') = 0
    /\ Watched(Len(exposing) > 0 \/ Len(signals) > 0)
    /\ UNCHANGED <<untouched, stamps, loop, records>>

Answers ==
    /\ Popped(exposing, exposing')
    /\ Pushed(signals, signals', signals'[Len(signals) + 1])
    /\ signals'[Len(signals) + 1].of = exposing[1]
    /\ UNCHANGED <<untouched, stamps, loop, records, astray>>

Loses ==
    /\ Popped(exposing, exposing') /\ Watched(TRUE)
    /\ UNCHANGED <<untouched, stamps, signals, loop, records>>

Intrudes ==
    /\ Pushed(signals, signals', signals'[Len(signals) + 1])
    /\ signals'[Len(signals) + 1].of = 0 /\ Watched(TRUE)
    /\ UNCHANGED <<untouched, stamps, exposing, loop, records>>

Receives ==
    /\ loop.pc = "idle" /\ Popped(signals, signals')
    /\ loop'.pc = "expire" /\ loop'.frame = signals[1].of /\ loop'.at = now
    /\ UNCHANGED <<untouched, stamps, exposing, records, astray>>

Discards ==
    /\ loop.pc = "expire" /\ Popped(stamps, stamps')
    /\ Watched(stamps[1] = loop.frame)
    /\ UNCHANGED <<untouched, exposing, signals, loop, records>>

Accepts ==
    /\ loop.pc = "expire"
    /\ loop'.pc = "dequeue" /\ loop'.frame = loop.frame /\ loop'.at = loop.at
    /\ Len(stamps) > 0 => loop.at - time[stamps[1]] <= MaxLatency
    /\ Watched(FALSE)
    /\ UNCHANGED <<untouched, stamps, exposing, signals, records>>

Pairs ==
    /\ loop.pc = "dequeue" /\ loop'.pc = "idle" /\ loop'.at = 0
    /\ \/ Len(stamps) = 0 /\ UNCHANGED <<stamps, records>>
       \/ Popped(stamps, stamps') /\ Pushed(records, records', Record(stamps[1]))
    /\ Watched(FALSE)
    /\ UNCHANGED <<untouched, exposing, signals>>

Drops ==
    /\ loop.pc = "idle" /\ Popped(signals, signals')
    /\ \/ Len(stamps) = 0 /\ UNCHANGED stamps
       \/ Popped(stamps, stamps')
    /\ Watched(FALSE)
    /\ UNCHANGED <<untouched, exposing, loop, records>>

Passes ==
    /\ now' \in {now, now + 1}
    /\ UNCHANGED <<sent, time, stamps, exposing, signals, loop, records, astray>>

Effect ==
    \/ \E accepted \in BOOLEAN : Sends(accepted)
    \/ Stops \/ Answers \/ Loses \/ Intrudes \/ Receives \/ Discards \/ Accepts \/ Pairs
    \/ Drops \/ Passes

(* What the constants are.                                                 *)
LEMMA Bounds ==
    /\ MaxTriggers \in Nat /\ MaxStarts \in Nat /\ MaxTime \in Nat
    /\ MaxLatency \in Nat /\ OutsideFrames \in Nat
    /\ \A i \in Triggers : i \in Nat \ {0}
<1>1. /\ MaxTriggers \in Nat /\ MaxStarts \in Nat /\ MaxTime \in Nat
      /\ MaxLatency \in Nat /\ OutsideFrames \in Nat
  BY LatencyAssumption
<1> QED
  BY <1>1 DEF Triggers

(* The types, place by place.                                              *)
LEMMA Places ==
    ASSUME TypeOK
    PROVE  /\ now \in Nat /\ sent \in Nat /\ MaxLatency \in Nat
           /\ \A i \in Triggers : i \in Nat \ {0} /\ time[i] \in Nat
           /\ Len(stamps) \in Nat /\ \A k \in 1..Len(stamps) : stamps[k] \in Triggers
           /\ Len(exposing) \in Nat
           /\ \A k \in 1..Len(exposing) : exposing[k] \in Triggers
           /\ Len(signals) \in Nat
           /\ \A k \in 1..Len(signals) : signals[k].of \in Triggers \cup {0}
           /\ loop.pc \in {"idle", "expire", "dequeue"}
           /\ loop.frame \in Triggers \cup {0} /\ loop.at \in Nat
           /\ Len(records) \in Nat
           /\ \A k \in 1..Len(records) :
                 /\ records[k].trigger \in Triggers
                 /\ records[k].frame \in Triggers \cup {0}
                 /\ records[k].at \in Nat
<1>1. /\ now \in Nat /\ sent \in Nat /\ MaxLatency \in Nat
      /\ \A i \in Triggers : i \in Nat \ {0} /\ time[i] \in Nat
      /\ loop.pc \in {"idle", "expire", "dequeue"}
      /\ loop.frame \in Triggers \cup {0} /\ loop.at \in Nat
  <2>1. /\ now \in 0..MaxTime /\ sent \in 0..MaxTriggers
        /\ \A i \in Triggers : time[i] \in 0..MaxTime
        /\ loop \in LoopTypes
    BY DEF TypeOK, LoopTypes
  <2> QED
    BY <2>1, Bounds DEF LoopTypes
<1>2. /\ Len(stamps) \in Nat /\ \A k \in 1..Len(stamps) : stamps[k] \in Triggers
      /\ Len(exposing) \in Nat /\ \A k \in 1..Len(exposing) : exposing[k] \in Triggers
  BY SeqFacts DEF TypeOK
<1>3. Len(signals) \in Nat /\ \A k \in 1..Len(signals) : signals[k] \in Signal
  BY SeqFacts DEF TypeOK, Signal
<1>4. Len(records) \in Nat /\ \A k \in 1..Len(records) : records[k] \in Records
  BY SeqFacts DEF TypeOK
<1> QED
  BY <1>1, <1>2, <1>3, <1>4, Bounds DEF Signal, Records

(***************************************************************************)
(* Types, and the effect of each action.                                   *)
(***************************************************************************)

(* The initial state has its types.                                        *)
LEMMA TypeStart == Init => TypeOK
<1> SUFFICES ASSUME Init PROVE TypeOK
  OBVIOUS
<1>1. /\ now \in 0..MaxTime /\ starts \in 0..MaxStarts /\ outside \in 0..OutsideFrames
      /\ sent \in 0..MaxTriggers /\ time \in [Triggers -> 0..MaxTime]
      /\ loop \in LoopTypes
  BY Bounds DEF Init, Idle, LoopTypes
<1>2. /\ stamps \in Seq(Triggers) /\ exposing \in Seq(Triggers)
      /\ signals \in Seq(Signal) /\ records \in Seq(Records)
  BY DEF Init
<1>3. {active, timed, astray} \subseteq BOOLEAN
  BY DEF Init
<1> QED
  BY <1>1, <1>2, <1>3 DEF TypeOK, LoopTypes, Signal

(* Every step keeps them.                                                  *)
LEMMA TypeStep == TypeOK /\ [Next]_vars => TypeOK'
<1> SUFFICES ASSUME TypeOK, Next PROVE TypeOK'
  BY DEF vars, hardware, triggers, TypeOK
<1> USE DEF TypeOK, hardware, triggers, Watch
<1>1. CASE Tick \/ Start \/ Stop
  <2>1. CASE Tick
    BY <2>1, Bounds DEF Tick
  <2>2. CASE Start
    BY <2>2, Bounds DEF Start
  <2>3. CASE Stop
    <3>1. exposing' \in Seq(Triggers) /\ signals' \in Seq(Signal)
      BY <2>3 DEF Stop
    <3>2. {active', timed', astray'} \subseteq BOOLEAN
      BY <2>3 DEF Stop
    <3> QED
      BY <2>3, <3>1, <3>2 DEF Stop, Signal
  <2> QED
    BY <1>1, <2>1, <2>2, <2>3
<1>2. ASSUME NEW accepted \in BOOLEAN, Trigger(accepted) \/ TimerTick(accepted)
      PROVE  TypeOK'
  <2>1. sent + 1 \in Triggers /\ now \in 0..MaxTime /\ sent + 1 \in 0..MaxTriggers
    BY <1>2, Bounds DEF Trigger, TimerTick, StampAndSend, Triggers
  <2>2. /\ Append(stamps, sent + 1) \in Seq(Triggers)
        /\ Append(exposing, sent + 1) \in Seq(Triggers)
    BY <2>1, PushFacts
  <2> QED
    BY <1>2, <2>1, <2>2 DEF Trigger, TimerTick, StampAndSend
<1>3. ASSUME NEW kind \in {"FRAME", "DROP"}, Answer(kind) PROVE TypeOK'
  <2>1. /\ Tail(exposing) \in Seq(Triggers)
        /\ [kind |-> kind, of |-> Head(exposing)] \in Signal
    BY <1>3, PopFacts DEF Answer, Signal
  <2>2. signals' \in Seq(Signal)
    BY <1>3, <2>1, PushFacts DEF Answer, Signal
  <2> QED
    BY <1>3, <2>1, <2>2 DEF Answer, Signal
<1>4. CASE Lose
  BY <1>4, PopFacts DEF Lose
<1>5. CASE OutsideFrame
  <2>1. [kind |-> "FRAME", of |-> 0] \in Signal
    BY DEF Signal
  <2>2. signals' \in Seq(Signal)
    BY <1>5, <2>1, PushFacts DEF OutsideFrame, Signal
  <2> QED
    BY <1>5, <2>2, Bounds DEF OutsideFrame, Signal
<1>6. CASE Receive
  <2>1. Head(signals) \in Signal /\ Tail(signals) \in Seq(Signal)
    <3>1. signals \in Seq(Signal) /\ signals # << >>
      BY <1>6 DEF Receive, Signal
    <3> QED
      BY <3>1, PopFacts
  <2> QED
    BY <1>6, <2>1 DEF Receive, Signal
<1>7. CASE Expire
  <2>1. stamps # << >> => Tail(stamps) \in Seq(Triggers)
    BY PopFacts
  <2>2. stamps' \in Seq(Triggers) /\ loop' \in LoopTypes
    BY <1>7, <2>1 DEF Expire, TooOld, LoopTypes
  <2>3. astray' \in BOOLEAN
    BY <1>7 DEF Expire
  <2> QED
    BY <1>7, <2>2, <2>3 DEF Expire, LoopTypes
<1>8. CASE Dequeue
  <2>1. stamps # << >> => Tail(stamps) \in Seq(Triggers) /\ Head(stamps) \in Triggers
    BY PopFacts
  <2>2. stamps # << >> => Record(Head(stamps)) \in Records
    BY <2>1 DEF Record, Records
  <2>3. stamps' \in Seq(Triggers) /\ records' \in Seq(Records)
    <3>1. stamps # << >> => Append(records, Record(Head(stamps))) \in Seq(Records)
      BY <2>2, PushFacts
    <3> QED
      BY <1>8, <2>1, <3>1 DEF Dequeue
  <2>4. loop' \in LoopTypes
    BY <1>8, Bounds DEF Dequeue, Idle, LoopTypes
  <2> QED
    BY <1>8, <2>3, <2>4 DEF Dequeue, LoopTypes
<1>9. CASE Drop
  <2>1. stamps # << >> => Tail(stamps) \in Seq(Triggers)
    BY PopFacts
  <2>2. Tail(signals) \in Seq(Signal)
    BY <1>9, PopFacts DEF Drop, Signal
  <2> QED
    BY <1>9, <2>1, <2>2 DEF Drop, Signal
<1> QED
  BY <1>1, <1>2, <1>3, <1>4, <1>5, <1>6, <1>7, <1>8, <1>9 DEF Next

(* What Watch says of sequences with types.                                *)
LEMMA WatchFacts ==
    ASSUME TypeOK, TypeOK', NEW unforeseen \in BOOLEAN, Watch(unforeseen)
    PROVE  Watched(unforeseen)
<1>1. /\ stamps' = << >> <=> Len(stamps') = 0
      /\ DOMAIN exposing' = 1..Len(exposing') /\ Len(exposing') \in Nat
      /\ DOMAIN signals' = 1..Len(signals') /\ Len(signals') \in Nat
      /\ astray' \in BOOLEAN /\ astray \in BOOLEAN
  BY SeqFacts DEF TypeOK
<1>2. Len(exposing') > 0 => exposing'[1] \in Outstanding'
  BY <1>1 DEF Outstanding
<1>3. Len(signals') > 0 => signals'[1].of \in Outstanding'
  BY <1>1 DEF Outstanding
<1>4. loop'.pc # "idle" => loop'.frame \in Outstanding'
  BY DEF Outstanding
<1>5. stamps' = << >> /\ Outstanding' = {} => Nothing'
  BY <1>1, <1>2, <1>3, <1>4 DEF Nothing
<1> QED
  BY <1>1, <1>5 DEF Watch, Watched

(* Every step is one of the effects.                                       *)
LEMMA Effects ==
    ASSUME TypeOK, TypeOK', [Next]_vars PROVE Effect
<1> USE DEF untouched
<1>1. CASE UNCHANGED vars \/ Tick \/ Start
  BY <1>1 DEF vars, Tick, Start, Passes, Effect, hardware, triggers
<1>2. CASE Stop
  <2>1. Watched(exposing # << >> \/ signals # << >>)
    BY <1>2, WatchFacts DEF Stop
  <2>2. /\ exposing = << >> <=> Len(exposing) = 0
        /\ signals = << >> <=> Len(signals) = 0
    BY SeqFacts DEF TypeOK
  <2>3. Len(exposing') = 0 /\ Len(signals') = 0
    BY <1>2 DEF Stop
  <2> QED
    BY <1>2, <2>1, <2>2, <2>3 DEF Stop, Stops, Effect, triggers, Watched
<1>3. ASSUME NEW accepted \in BOOLEAN, Trigger(accepted) \/ TimerTick(accepted)
      PROVE  Effect
  <2>1. sent + 1 \in Triggers
    BY <1>3, Bounds DEF Trigger, TimerTick, StampAndSend, Triggers, TypeOK
  <2>2. Watched(~accepted)
    BY <1>3, WatchFacts
       DEF Trigger, TimerTick, StampAndSend
  <2>a. /\ Pushed(stamps, Append(stamps, sent + 1), sent + 1)
        /\ Pushed(exposing, Append(exposing, sent + 1), sent + 1)
    BY <2>1, PushFacts DEF TypeOK
  <2>3. Pushed(stamps, stamps', sent + 1)
    BY <1>3, <2>a DEF Trigger, TimerTick, StampAndSend
  <2>4. IF accepted THEN Pushed(exposing, exposing', sent + 1) ELSE exposing' = exposing
    BY <1>3, <2>a DEF Trigger, TimerTick, StampAndSend
  <2>5. \A i \in Triggers : time'[i] = IF i = sent + 1 THEN now ELSE time[i]
    BY <1>3 DEF Trigger, TimerTick, StampAndSend, TypeOK
  <2>6. Sends(accepted)
    BY <1>3, <2>2, <2>3, <2>4, <2>5 DEF Trigger, TimerTick, StampAndSend, Sends
  <2> QED
    BY <2>6 DEF Effect
<1>4. ASSUME NEW kind \in {"FRAME", "DROP"}, Answer(kind) PROVE Effect
  <2>1. /\ Popped(exposing, exposing') /\ Head(exposing) = exposing[1]
        /\ [kind |-> kind, of |-> Head(exposing)] \in Signal
    BY <1>4, PopFacts DEF Answer, Signal, TypeOK
  <2>2. Pushed(signals, signals', [kind |-> kind, of |-> Head(exposing)])
    BY <1>4, <2>1, PushFacts DEF Answer, Signal, TypeOK
  <2> QED
    BY <1>4, <2>1, <2>2 DEF Answer, Answers, Pushed, Effect, triggers
<1>5. CASE Lose
  <2>1. Popped(exposing, exposing') /\ Watched(TRUE)
    BY <1>5, PopFacts, WatchFacts DEF Lose, TypeOK
  <2> QED
    BY <1>5, <2>1 DEF Lose, Loses, Effect, triggers
<1>6. CASE OutsideFrame
  <2>1. Pushed(signals, signals', [kind |-> "FRAME", of |-> 0])
    <3>1. [kind |-> "FRAME", of |-> 0] \in Signal
      BY DEF Signal
    <3> QED
      BY <1>6, <3>1, PushFacts DEF OutsideFrame, Signal, TypeOK
  <2>2. Watched(TRUE)
    BY <1>6, WatchFacts DEF OutsideFrame
  <2> QED
    <3>1. /\ signals'[Len(signals) + 1] = [kind |-> "FRAME", of |-> 0]
          /\ UNCHANGED <<untouched, stamps, exposing, loop, records>>
      BY <1>6, <2>1 DEF OutsideFrame, Pushed, triggers
    <3>2. Intrudes
      <4>1. signals'[Len(signals) + 1].of = 0
        BY <3>1
      <4> QED
        BY <2>1, <2>2, <3>1, <4>1 DEF Intrudes
    <3> QED
      BY <3>2 DEF Effect
<1>7. CASE Receive
  <2>1. Popped(signals, signals') /\ Head(signals) = signals[1]
    BY <1>7, PopFacts DEF Receive, TypeOK
  <2> QED
    <3>1. Receives
      BY <1>7, <2>1 DEF Receive, Receives, hardware, triggers
    <3> QED
      BY <3>1 DEF Effect
<1>8. CASE Expire
  <2>1. stamps # << >> => Popped(stamps, Tail(stamps)) /\ Head(stamps) = stamps[1]
    BY PopFacts DEF TypeOK
  <2>2. CASE TooOld
    <3>1. Watch(Head(stamps) \in Outstanding)
      BY <1>8, <2>2 DEF Expire
    <3>2. Watched(Head(stamps) \in Outstanding)
      <4>1. (Head(stamps) \in Outstanding) \in BOOLEAN
        OBVIOUS
      <4> QED
        BY <3>1, <4>1, WatchFacts
    <3>3. loop.frame \in Outstanding
      BY <1>8 DEF Expire, Outstanding
    <3> QED
      BY <1>8, <2>1, <2>2, <3>2, <3>3
         DEF Expire, TooOld, Discards, Watched, Effect, hardware, triggers
  <2>3. CASE ~TooOld
    <3>1. Watched(FALSE)
      BY <1>8, <2>3, WatchFacts DEF Expire
    <3>2. Len(stamps) > 0 => loop.at - time[stamps[1]] <= MaxLatency
      <4>1. Len(stamps) > 0 => stamps # << >>
        BY SeqFacts DEF TypeOK
      <4>2. ASSUME Len(stamps) > 0 PROVE loop.at - time[stamps[1]] <= MaxLatency
        <5>1. stamps # << >> /\ Head(stamps) = stamps[1]
          BY <4>1, <4>2, <2>1
        <5>2. ~(loop.at - time[stamps[1]] > MaxLatency)
          BY <5>1, <2>3 DEF TooOld
        <5>3. 1 \in 1..Len(stamps)
          BY <4>2, Places
        <5>4. stamps[1] \in Triggers
          BY <5>3, Places
        <5>5. loop.at \in Nat /\ time[stamps[1]] \in Nat /\ MaxLatency \in Nat
          BY <5>4, Places
        <5> QED
          BY <5>2, <5>5
      <4> QED
        BY <4>2
    <3>3. loop' = [loop EXCEPT !.pc = "dequeue"]
      BY <1>8, <2>3 DEF Expire
    <3> QED
      BY <1>8, <2>3, <3>1, <3>2, <3>3
         DEF Expire, Accepts, Effect, hardware, triggers, TypeOK
  <2> QED
    BY <2>2, <2>3
<1>9. CASE Dequeue
  <2>1. Watched(FALSE)
    BY <1>9, WatchFacts DEF Dequeue
  <2>2. CASE stamps = << >>
    BY <1>9, <2>1, <2>2 DEF Dequeue, Pairs, Idle, Effect, hardware, triggers
  <2>3. CASE stamps # << >>
    <3>1. /\ Popped(stamps, stamps') /\ Head(stamps) = stamps[1]
          /\ stamps[1] \in Triggers
      BY <1>9, <2>3, PopFacts DEF Dequeue, TypeOK
    <3>2. Record(stamps[1]) \in Records
      BY <3>1 DEF Record, Records, TypeOK
    <3>3. Pushed(records, Append(records, Record(stamps[1])), Record(stamps[1]))
      BY <3>2, PushFacts DEF TypeOK
    <3>4. records' = Append(records, Record(stamps[1]))
      BY <1>9, <2>3, <3>1 DEF Dequeue
    <3> QED
      BY <1>9, <2>1, <2>3, <3>1, <3>3, <3>4
         DEF Dequeue, Pairs, Idle, Effect, hardware, triggers
  <2> QED
    BY <2>2, <2>3
<1>10. CASE Drop
  <2>1. Watched(FALSE)
    BY <1>10, WatchFacts DEF Drop
  <2>2. Popped(signals, signals')
    BY <1>10, PopFacts DEF Drop, TypeOK
  <2>3. (Len(stamps) = 0 /\ UNCHANGED stamps) \/ Popped(stamps, stamps')
    BY <1>10, PopFacts DEF Drop, TypeOK
  <2> QED
    BY <1>10, <2>1, <2>2, <2>3 DEF Drop, Drops, Effect, hardware, triggers
<1> QED
  BY <1>1, <1>2, <1>3, <1>4, <1>5, <1>6, <1>7, <1>8, <1>9, <1>10 DEF Next

(***************************************************************************)
(* Each part of the invariant after each effect.                           *)
(***************************************************************************)

(* A stamp and its frame are taken together.                               *)
LEMMA InStepStep ==
    ASSUME TypeOK, TypeOK', InStep, Effect PROVE InStep'
<1> SUFFICES ASSUME ~astray', ~Nothing' PROVE InStep'
  BY Places DEF InStep, Nothing, InHand
<1>0. /\ Len(stamps) \in Nat /\ Len(signals) \in Nat /\ Len(exposing) \in Nat
      /\ Len(stamps') \in Nat /\ Len(signals') \in Nat /\ Len(exposing') \in Nat
      /\ InHand \in {0, 1} /\ InHand' \in {0, 1}
  BY Places DEF InHand
<1>a. ASSUME Len(stamps') = InHand' + Len(signals') + Len(exposing'),
             \A k \in 1..Len(stamps') : stamps'[k] = Due(k)'
      PROVE  InStep'
  BY <1>a DEF InStep
<1>b. ~astray => /\ Len(stamps) = InHand + Len(signals) + Len(exposing)
                 /\ \A k \in 1..Len(stamps) : stamps[k] = Due(k)
  BY DEF InStep
<1>1. CASE Sends(TRUE)
  <2>1. ~astray /\ InHand' = InHand /\ loop' = loop /\ signals' = signals
    BY <1>1 DEF Sends, Watched, InHand
  <2>2. Pushed(stamps, stamps', sent + 1) /\ Pushed(exposing, exposing', sent + 1)
    BY <1>1 DEF Sends
  <2>3. Len(stamps') = InHand' + Len(signals') + Len(exposing')
    BY <1>0, <1>b, <2>1, <2>2 DEF Pushed
  <2>4. ASSUME NEW k \in 1..Len(stamps') PROVE stamps'[k] = Due(k)'
    <3>1. CASE k \in 1..Len(stamps)
      <4>1. stamps'[k] = stamps[k] /\ stamps[k] = Due(k)
        BY <1>b, <2>1, <2>2, <3>1 DEF Pushed
      <4>2. k <= InHand + Len(signals) => Due(k)' = Due(k)
        BY <1>0, <2>1 DEF Due
      <4>3. ASSUME k > InHand + Len(signals) PROVE Due(k)' = Due(k)
        <5>1. k - InHand - Len(signals) \in 1..Len(exposing)
          BY <1>0, <1>b, <2>1, <3>1, <4>3
        <5> QED
          BY <1>0, <2>1, <2>2, <3>1, <4>3, <5>1 DEF Pushed, Due
      <4> QED
        BY <1>0, <3>1, <4>1, <4>2, <4>3
    <3>2. CASE k = Len(stamps) + 1
      BY <1>0, <1>b, <2>1, <2>2, <3>2 DEF Pushed, Due
    <3> QED
      BY <1>0, <2>2, <3>1, <3>2, PlacesPushed
  <2> QED
    BY <1>a, <2>3, <2>4
<1>2. ~Sends(FALSE) /\ ~Loses /\ ~Intrudes
  BY DEF Sends, Loses, Intrudes, Watched
<1>3. CASE Stops \/ Passes
  BY <1>0, <1>3 DEF Stops, Passes, Watched, InStep, InHand, Due
<1>4. CASE Answers
  <2>1. ~astray /\ InHand' = InHand /\ loop' = loop /\ stamps' = stamps
    BY <1>4 DEF Answers, InHand
  <2>2. /\ Pushed(signals, signals', signals'[Len(signals) + 1])
        /\ Popped(exposing, exposing')
        /\ signals'[Len(signals) + 1].of = exposing[1]
    BY <1>4 DEF Answers
  <2>3. Len(stamps') = InHand' + Len(signals') + Len(exposing')
    BY <1>0, <1>b, <2>1, <2>2 DEF Pushed, Popped
  <2>4. ASSUME NEW k \in 1..Len(stamps') PROVE Due(k)' = Due(k)
    <3>1. CASE k <= InHand + Len(signals)
      BY <1>0, <2>1, <2>2, <3>1 DEF Pushed, Due
    <3>2. CASE k = InHand + Len(signals) + 1
      BY <1>0, <2>1, <2>2, <3>2 DEF Pushed, Due
    <3>3. CASE k > InHand + Len(signals) + 1
      <4>1. /\ Due(k)' = exposing'[k - InHand - Len(signals) - 1]
            /\ Due(k) = exposing[k - InHand - Len(signals)]
        BY <1>0, <2>1, <2>2, <3>3 DEF Pushed, Due
      <4>2. k - InHand - Len(signals) - 1 \in 1..Len(exposing')
        BY <1>0, <2>1, <2>2, <2>3, <3>3 DEF Pushed
      <4>3. exposing'[k - InHand - Len(signals) - 1]
                = exposing[k - InHand - Len(signals) - 1 + 1]
        BY <2>2, <4>2 DEF Popped
      <4>4. k - InHand - Len(signals) - 1 + 1 = k - InHand - Len(signals)
        BY <1>0
      <4> QED
        BY <4>1, <4>3, <4>4
    <3> QED
      BY <1>0, <3>1, <3>2, <3>3
  <2> QED
    BY <1>a, <1>b, <2>1, <2>3, <2>4
<1>5. CASE Receives
  BY <1>0, <1>5 DEF Receives, InStep, Popped, InHand, Due
<1>6. CASE Discards
  BY <1>0, <1>6 DEF Discards, Watched, InStep, InHand, Due
<1>7. CASE Accepts
  BY <1>0, <1>7 DEF Accepts, Watched, InStep, InHand, Due
<1>c. ASSUME ~astray, Popped(stamps, stamps'), exposing' = exposing,
             Len(stamps') = InHand' + Len(signals') + Len(exposing'),
             \A k \in 1..Len(stamps') : Due(k)' = Due(k + 1)
      PROVE  InStep'
  <2>1. \A k \in 1..Len(stamps') :
           k + 1 \in 1..Len(stamps) /\ stamps'[k] = stamps[k + 1]
    BY <1>0, <1>c, PlacesPopped
  <2>2. \A k \in 1..Len(stamps') : stamps'[k] = Due(k)'
    BY <1>b, <1>c, <2>1
  <2> QED
    BY <1>a, <1>c, <2>2
<1>8. CASE Pairs
  <2>1. ~astray /\ InHand = 1 /\ InHand' = 0 /\ UNCHANGED <<signals, exposing>>
    BY <1>8 DEF Pairs, Watched, InHand
  <2>2. Popped(stamps, stamps')
    BY <1>0, <1>8, <1>b, <2>1 DEF Pairs
  <2>3. Len(stamps') = InHand' + Len(signals') + Len(exposing')
    BY <1>0, <1>b, <2>1, <2>2 DEF Popped
  <2>4. ASSUME NEW k \in 1..Len(stamps') PROVE Due(k)' = Due(k + 1)
    <3>1. k \in Nat /\ k > 0 /\ (k + 1) - 1 = k
      BY <1>0
    <3> QED
      BY <1>0, <2>1, <3>1 DEF Due
  <2> QED
    BY <1>c, <2>1, <2>2, <2>3, <2>4
<1>9. CASE Drops
  <2>1. /\ ~astray /\ InHand = 0 /\ InHand' = 0 /\ UNCHANGED exposing
        /\ Popped(signals, signals')
    BY <1>9 DEF Drops, Watched, InHand
  <2>2. Popped(stamps, stamps')
    BY <1>0, <1>9, <1>b, <2>1 DEF Drops, Popped
  <2>3. Len(stamps') = InHand' + Len(signals') + Len(exposing')
    BY <1>0, <1>b, <2>1, <2>2 DEF Popped
  <2>4. ASSUME NEW k \in 1..Len(stamps') PROVE Due(k)' = Due(k + 1)
    <3>1. CASE k <= Len(signals')
      BY <1>0, <2>1, <3>1 DEF Popped, Due
    <3>2. CASE k > Len(signals')
      BY <1>0, <2>1, <3>2 DEF Popped, Due
    <3> QED
      BY <1>0, <3>1, <3>2
  <2> QED
    BY <1>c, <2>1, <2>2, <2>3, <2>4
<1> QED
  BY <1>1, <1>2, <1>3, <1>4, <1>5, <1>6, <1>7, <1>8, <1>9 DEF Effect

(* Stamps are taken from the front ...                                     *)
LEMMA OrderedTaken ==
    ASSUME TypeOK, TypeOK', Ordered, Popped(stamps, stamps'), UNCHANGED sent
    PROVE  /\ \A k \in 1..Len(stamps') : stamps'[k] <= sent'
           /\ \A j, k \in 1..Len(stamps') : j < k => stamps'[j] < stamps'[k]
           /\ \A j \in 1..Len(records), k \in 1..Len(stamps') :
                 records[j].trigger < stamps'[k]
           /\ stamps[1] <= sent
           /\ \A k \in 1..Len(stamps') : stamps[1] < stamps'[k]
           /\ \A j \in 1..Len(records) : records[j].trigger < stamps[1]
<1>1. Len(stamps) \in Nat /\ Len(stamps') \in Nat /\ 1 \in 1..Len(stamps)
  BY Places DEF Popped
<1>2. \A k \in 1..Len(stamps') : /\ k \in Nat /\ k > 0 /\ k + 1 \in 1..Len(stamps)
                                 /\ stamps'[k] = stamps[k + 1]
  BY <1>1 DEF Popped
<1> QED
  BY <1>1, <1>2 DEF Ordered

(* ... and added behind all others.                                        *)
LEMMA OrderedStep ==
    ASSUME TypeOK, TypeOK', Ordered, Effect PROVE Ordered'
<1>0. /\ Len(stamps) \in Nat /\ Len(stamps') \in Nat /\ Len(records) \in Nat
      /\ Len(records') \in Nat /\ sent \in Nat
      /\ \A k \in 1..Len(stamps) : stamps[k] \in Nat
      /\ \A k \in 1..Len(records) : records[k].trigger \in Nat
  BY Places, Bounds
<1>1. ASSUME NEW accepted \in BOOLEAN, Sends(accepted) PROVE Ordered'
  <2>1. sent' = sent + 1 /\ records' = records
    BY <1>1 DEF Sends
  <2>2. \A k \in 1..Len(stamps') : \/ k \in 1..Len(stamps) /\ stamps'[k] = stamps[k]
                                   \/ k = Len(stamps) + 1 /\ stamps'[k] = sent + 1
    <3>1. Pushed(stamps, stamps', sent + 1)
      BY <1>1 DEF Sends
    <3> QED
      BY <1>0, <3>1, PlacesPushed
  <2>3. ASSUME NEW k \in 1..Len(stamps') PROVE stamps'[k] <= sent'
    <3>1. CASE k \in 1..Len(stamps) /\ stamps'[k] = stamps[k]
      <4>1. stamps[k] <= sent /\ stamps[k] \in Nat
        BY <1>0, <3>1 DEF Ordered
      <4> QED
        BY <1>0, <2>1, <3>1, <4>1
    <3>2. CASE stamps'[k] = sent + 1
      BY <1>0, <2>1, <3>2
    <3> QED
      BY <2>2, <3>1, <3>2
  <2>4. ASSUME NEW j \in 1..Len(stamps'), NEW k \in 1..Len(stamps'), j < k
        PROVE  stamps'[j] < stamps'[k]
    <3>1. j \in 1..Len(stamps) /\ stamps'[j] = stamps[j]
      BY <1>0, <2>2, <2>4
    <3>2. stamps[j] <= sent /\ stamps[j] \in Nat
      BY <1>0, <3>1 DEF Ordered
    <3>3. CASE k \in 1..Len(stamps) /\ stamps'[k] = stamps[k]
      BY <2>4, <3>1, <3>3 DEF Ordered
    <3>4. CASE stamps'[k] = sent + 1
      BY <1>0, <3>1, <3>2, <3>4
    <3> QED
      BY <2>2, <3>3, <3>4
  <2>5. \A j \in 1..Len(records), k \in 1..Len(stamps') : records[j].trigger < stamps'[k]
    BY <1>0, <2>2 DEF Ordered
  <2>6. \A k \in 1..Len(records) : records[k].trigger <= sent'
    BY <1>0, <2>1 DEF Ordered
  <2> QED
    BY <2>1, <2>3, <2>4, <2>5, <2>6 DEF Ordered
<1>2. CASE Stops \/ Answers \/ Loses \/ Intrudes \/ Receives \/ Accepts \/ Passes
  BY <1>2
     DEF Stops, Answers, Loses, Intrudes, Receives, Accepts, Passes, untouched,
         Ordered
<1>3. CASE UNCHANGED <<sent, stamps, records>>
  BY <1>3 DEF Ordered
<1>4. CASE Discards \/ Drops
  <2>1. CASE UNCHANGED stamps
    BY <1>3, <1>4, <2>1 DEF Discards, Drops, untouched
  <2>2. CASE Popped(stamps, stamps')
    BY <1>4, <2>2, OrderedTaken DEF Discards, Drops, untouched, Ordered
  <2> QED
    BY <1>4, <2>1, <2>2 DEF Discards, Drops
<1>5. CASE Pairs
  <2>1. CASE Len(stamps) = 0 /\ UNCHANGED <<stamps, records>>
    BY <1>3, <1>5, <2>1 DEF Pairs, untouched
  <2>2. CASE Popped(stamps, stamps') /\ Pushed(records, records', Record(stamps[1]))
    <3>1. \A k \in 1..Len(records') :
             \/ k \in 1..Len(records) /\ records'[k] = records[k]
             \/ k = Len(records) + 1 /\ records'[k].trigger = stamps[1]
      <4>1. \A k \in 1..Len(records') :
               \/ k \in 1..Len(records) /\ records'[k] = records[k]
               \/ k = Len(records) + 1 /\ records'[k] = Record(stamps[1])
        BY <1>0, <2>2, PlacesPushed
      <4>2. Record(stamps[1]).trigger = stamps[1]
        BY DEF Record
      <4> QED
        BY <4>1, <4>2
    <3>2. UNCHANGED sent
      BY <1>5 DEF Pairs, untouched
    <3>3. /\ \A k \in 1..Len(stamps') : stamps'[k] <= sent'
          /\ \A j, k \in 1..Len(stamps') : j < k => stamps'[j] < stamps'[k]
      BY <2>2, <3>2, OrderedTaken
    <3>4. \A j \in 1..Len(records'), k \in 1..Len(stamps') : records'[j].trigger < stamps'[k]
      BY <2>2, <3>1, <3>2, OrderedTaken
    <3>5. \A k \in 1..Len(records') : records'[k].trigger <= sent'
      BY <2>2, <3>1, <3>2, OrderedTaken DEF Ordered
    <3>6. \A j, k \in 1..Len(records') : j < k => records'[j].trigger < records'[k].trigger
      <4>1. \A j, k \in 1..Len(records) : j < k => records[j].trigger < records[k].trigger
        BY DEF Ordered
      <4>2. \A k \in 1..Len(records) : records[k].trigger < stamps[1]
        BY <2>2, <3>2, OrderedTaken
      <4>3. SUFFICES ASSUME NEW j \in 1..Len(records'), NEW k \in 1..Len(records'), j < k
                     PROVE  records'[j].trigger < records'[k].trigger
        OBVIOUS
      <4>4. j \in 1..Len(records) /\ records'[j] = records[j]
        BY <1>0, <3>1, <4>3
      <4>5. CASE k \in 1..Len(records) /\ records'[k] = records[k]
        BY <4>1, <4>3, <4>4, <4>5
      <4>6. CASE records'[k].trigger = stamps[1]
        BY <4>2, <4>4, <4>6
      <4> QED
        BY <3>1, <4>5, <4>6
    <3> QED
      BY <3>3, <3>4, <3>5, <3>6 DEF Ordered
  <2> QED
    BY <1>5, <2>1, <2>2 DEF Pairs
<1> QED
  BY <1>1, <1>2, <1>4, <1>5 DEF Effect

(* A frame that comes now answers a trigger sent by now.                   *)
LEMMA PastStep ==
    ASSUME TypeOK, TypeOK', Past, Effect PROVE Past'
<1>0. /\ now \in Nat /\ sent \in Nat
      /\ Len(exposing) \in Nat /\ Len(exposing') \in Nat
      /\ Len(signals) \in Nat /\ Len(signals') \in Nat
      /\ \A k \in 1..Len(exposing) : exposing[k] \in Nat
      /\ \A k \in 1..Len(signals) : signals[k].of \in Triggers \cup {0}
      /\ loop.frame \in Triggers \cup {0} /\ loop.at \in Nat
      /\ \A i \in Triggers : i \in Nat /\ time[i] \in Nat
  BY Places, Bounds
<1>1. ASSUME NEW accepted \in BOOLEAN, Sends(accepted) PROVE Past'
  <2>1. /\ sent' = sent + 1 /\ UNCHANGED <<now, signals, loop>>
        /\ \A i \in Triggers : time'[i] = IF i = sent + 1 THEN now ELSE time[i]
    BY <1>1 DEF Sends
  <2>2. \A k \in 1..Len(exposing') : exposing'[k] <= sent'
    <3>1. CASE exposing' = exposing
      BY <1>0, <2>1, <3>1 DEF Past
    <3>2. CASE Pushed(exposing, exposing', sent + 1)
      <4>1. \A k \in 1..Len(exposing') :
               \/ k \in 1..Len(exposing) /\ exposing'[k] = exposing[k]
               \/ exposing'[k] = sent + 1
        BY <1>0, <3>2, PlacesPushed
      <4> QED
        BY <1>0, <2>1, <4>1 DEF Past
    <3> QED
      BY <1>1, <3>1, <3>2 DEF Sends
  <2>3. \A k \in 1..Len(signals) : signals[k].of <= sent'
    <3>1. SUFFICES ASSUME NEW k \in 1..Len(signals) PROVE signals[k].of <= sent'
      OBVIOUS
    <3>2. signals[k].of <= sent
      BY DEF Past
    <3>3. signals[k].of \in Nat
      BY <1>0 DEF Triggers
    <3> QED
      BY <1>0, <2>1, <3>2, <3>3
  <2>4. \A i \in Triggers : time'[i] <= now /\ (i <= sent => time'[i] = time[i])
    BY <1>0, <2>1 DEF Past
  <2>5. loop.pc # "idle" => loop.frame <= sent'
                            /\ (loop.frame # 0 => time'[loop.frame] <= loop.at)
    BY <1>0, <2>1, <2>4 DEF Past
  <2> QED
    BY <2>1, <2>2, <2>3, <2>4, <2>5 DEF Past
<1>2. CASE Stops \/ Discards \/ Accepts \/ Pairs \/ Passes
  <2>a. CASE Stops \/ Passes \/ Discards
    BY <1>0, <2>a DEF Stops, Passes, Discards, untouched, Past
  <2>b. CASE Accepts
    BY <1>0, <2>b DEF Accepts, untouched, Past
  <2>c. CASE Pairs
    <3>1. /\ UNCHANGED <<now, sent, time, exposing, signals>>
          /\ loop'.pc = "idle" /\ loop'.at = 0
      BY <2>c DEF Pairs, untouched
    <3> QED
      BY <1>0, <3>1 DEF Past
  <2> QED
    BY <1>2, <2>a, <2>b, <2>c
<1>3. CASE Answers \/ Loses \/ Intrudes
  <2>1. UNCHANGED <<now, sent, time, loop>>
    BY <1>3 DEF Answers, Loses, Intrudes, untouched
  <2>2. \A k \in 1..Len(exposing') : exposing'[k] <= sent
    <3>1. CASE exposing' = exposing
      BY <3>1 DEF Past
    <3>2. CASE Popped(exposing, exposing')
      <4>1. \A k \in 1..Len(exposing') :
               k + 1 \in 1..Len(exposing) /\ exposing'[k] = exposing[k + 1]
        BY <1>0, <3>2, PlacesPopped
      <4> QED
        BY <4>1 DEF Past
    <3> QED
      BY <1>3, <3>1, <3>2 DEF Answers, Loses, Intrudes
  <2>3. \A k \in 1..Len(signals') : signals'[k].of <= sent
    <3>1. ASSUME NEW x, Pushed(signals, signals', x), x.of <= sent
          PROVE  \A k \in 1..Len(signals') : signals'[k].of <= sent
      <4>1. \A k \in 1..Len(signals') :
               (k \in 1..Len(signals) /\ signals'[k] = signals[k]) \/ signals'[k] = x
        BY <1>0, <3>1, PlacesPushed
      <4> QED
        BY <3>1, <4>1 DEF Past
    <3>2. CASE Answers
      <4>1. 1 \in 1..Len(exposing)
        BY <1>0, <3>2, PlacesPopped DEF Answers
      <4>2. exposing[1] <= sent
        BY <4>1 DEF Past
      <4> QED
        BY <3>1, <3>2, <4>2 DEF Answers
    <3>3. CASE Loses
      BY <3>3 DEF Loses, Past
    <3>4. CASE Intrudes
      BY <1>0, <3>1, <3>4 DEF Intrudes
    <3> QED
      BY <1>3, <3>2, <3>3, <3>4
  <2> QED
    BY <2>1, <2>2, <2>3 DEF Past
<1>4. CASE Receives \/ Drops
  <2>1. UNCHANGED <<now, sent, time, exposing>> /\ Popped(signals, signals')
    BY <1>4 DEF Receives, Drops, untouched
  <2>2. \A k \in 1..Len(signals') : signals'[k].of <= sent
    <3>1. \A k \in 1..Len(signals') :
             k + 1 \in 1..Len(signals) /\ signals'[k] = signals[k + 1]
      BY <1>0, <2>1, PlacesPopped
    <3> QED
      BY <3>1 DEF Past
  <2>3. signals[1].of <= sent /\ signals[1].of \in Triggers \cup {0}
    BY <1>0, <2>1 DEF Popped, Past
  <2>4. \/ UNCHANGED loop
        \/ loop'.frame = signals[1].of /\ loop'.at = now
    BY <1>4 DEF Receives, Drops
  <2> QED
    BY <1>0, <2>1, <2>2, <2>3, <2>4 DEF Past
<1> QED
  BY <1>1, <1>2, <1>3, <1>4 DEF Effect

(* A stamp that is added while the loop waits for the lock is not too old. *)
LEMMA TimelyStep ==
    ASSUME TypeOK, TypeOK', Ordered, Past, Timely, Effect PROVE Timely'
<1> USE Places DEF untouched
<1>1. ASSUME NEW accepted \in BOOLEAN, Sends(accepted) PROVE Timely'
  <2> SUFFICES ASSUME loop.pc = "dequeue"
               PROVE  loop.at - time'[stamps'[1]] <= MaxLatency
    BY <1>1 DEF Sends, Timely
  <2>0. /\ Len(stamps) \in Nat /\ now \in Nat /\ loop.at \in Nat /\ MaxLatency \in Nat
        /\ sent + 1 \in Triggers /\ sent \in Nat
        /\ \A k \in 1..Len(stamps) : stamps[k] \in Triggers /\ stamps[k] \in Nat
    BY <1>1, Bounds DEF Sends, Triggers
  <2>1. CASE Len(stamps) = 0
    <3>1. stamps'[1] = sent + 1 /\ time'[sent + 1] = now
      BY <1>1, <2>0, <2>1 DEF Sends, Pushed
    <3> QED
      BY <2>0, <3>1 DEF Past
  <2>2. CASE Len(stamps) > 0
    <3>1. stamps'[1] = stamps[1] /\ stamps[1] <= sent /\ stamps[1] \in Triggers
      BY <1>1, <2>0, <2>2 DEF Sends, Pushed, Ordered
    <3>2. time'[stamps[1]] = time[stamps[1]]
      BY <1>1, <2>0, <3>1 DEF Sends
    <3> QED
      BY <2>2, <3>1, <3>2 DEF Timely
  <2> QED
    BY <2>0, <2>1, <2>2
<1>2. CASE Stops \/ Answers \/ Loses \/ Intrudes \/ Passes \/ Accepts
  BY <1>2 DEF Stops, Answers, Loses, Intrudes, Passes, Accepts, Timely
<1>3. CASE Discards \/ Drops \/ Receives \/ Pairs
  BY <1>3 DEF Discards, Drops, Receives, Pairs, Timely
<1> QED
  BY <1>1, <1>2, <1>3 DEF Effect

(* What is recorded is the stamp in front, for the frame at hand.          *)
LEMMA RecordedStep ==
    ASSUME TypeOK, TypeOK', InStep, Ordered, Past, Timely, Recorded, Effect
    PROVE Recorded'
<1> USE Places DEF untouched
<1>1. ASSUME NEW accepted \in BOOLEAN, Sends(accepted) PROVE Recorded'
  <2>1. records' = records
        /\ \A k \in 1..Len(records) : time'[records[k].trigger] = time[records[k].trigger]
    <3>1. \A k \in 1..Len(records) :
             records[k].trigger \in Triggers /\ records[k].trigger # sent + 1
      BY Bounds DEF Ordered
    <3> QED
      BY <1>1, <3>1 DEF Sends
  <2> QED
    BY <2>1 DEF Recorded
<1>2. CASE Stops \/ Answers \/ Loses \/ Intrudes \/ Receives \/ Discards \/ Accepts \/ Drops
           \/ Passes
  BY <1>2
     DEF Stops, Answers, Loses, Intrudes, Receives, Discards, Accepts, Drops,
         Passes, Recorded
<1>3. CASE Pairs
  <2>1. CASE Len(stamps) = 0 /\ UNCHANGED <<stamps, records>>
    BY <1>3, <2>1 DEF Pairs, Recorded
  <2>2. CASE Popped(stamps, stamps') /\ Pushed(records, records', Record(stamps[1]))
    <3>1. ~astray => stamps[1] = loop.frame
      BY <1>3, <2>2 DEF Pairs, Popped, InStep, Due, InHand
    <3>2. loop.at - time[stamps[1]] <= MaxLatency
      BY <1>3, <2>2 DEF Pairs, Popped, Timely
    <3>3. ~astray => loop.at - time[stamps[1]] >= 0
      BY <1>3, <2>2, <3>1 DEF Pairs, Popped, Past
    <3>4. UNCHANGED time
      BY <1>3 DEF Pairs
    <3>5. \A k \in 1..Len(records') :
             \/ k \in 1..Len(records) /\ records'[k] = records[k]
             \/ records'[k] = Record(stamps[1])
      BY <2>2, PlacesPushed
    <3>6. /\ Record(stamps[1]).trigger = stamps[1]
          /\ Record(stamps[1]).frame = loop.frame
          /\ Record(stamps[1]).at = loop.at /\ Record(stamps[1]).astray = astray
      BY DEF Record
    <3> QED
      BY <3>1, <3>2, <3>3, <3>4, <3>5, <3>6 DEF Recorded
  <2> QED
    BY <1>3, <2>1, <2>2 DEF Pairs
<1> QED
  BY <1>1, <1>2, <1>3 DEF Effect

(* Nothing is sent or recorded at the start.                               *)
LEMMA LatencyStart == Init => LatencyInv
<1> SUFFICES ASSUME Init PROVE LatencyInv
  OBVIOUS
<1>1. TypeOK
  BY TypeStart
<1>2. Len(stamps) = 0 /\ Len(exposing) = 0 /\ Len(signals) = 0 /\ Len(records) = 0
  BY DEF Init
<1> QED
  BY <1>1, <1>2, Bounds
     DEF Init, Idle, LatencyInv, InStep, InHand, Ordered, Past, Timely, Recorded

(* The invariant holds in every reachable state.                           *)
LEMMA LatencyInvHolds == Spec => []LatencyInv
<1>1. LatencyInv /\ [Next]_vars => LatencyInv'
  BY TypeStep, Effects, InStepStep, OrderedStep, PastStep, TimelyStep, RecordedStep
     DEF LatencyInv
<1> QED
  BY <1>1, LatencyStart, PTL DEF Spec

(***************************************************************************)
(* The theorems                                                            *)
(***************************************************************************)

(* Every variable has its type.                                            *)
THEOREM TypeCorrect == Spec => []TypeOK
<1>1. LatencyInv => TypeOK
  BY DEF LatencyInv
<1> QED
  BY <1>1, LatencyInvHolds, PTL

(* A frame is recorded with its own trigger's time while stamps and frames *)
(* are in step, and no trigger is recorded twice, whatever is lost         *)
(* (AcquisitionManager.cs, ProcessFrame and the handlers of triggers).     *)
THEOREM OwnTriggers == Spec => []OwnTrigger
<1>1. LatencyInv => OwnTrigger
  BY SeqFacts DEF LatencyInv, TypeOK, Ordered, Recorded, OwnTrigger
<1> QED
  BY <1>1, LatencyInvHolds, PTL

(* A recorded latency is within _maxExpectedLatency, and not negative      *)
(* while stamps and frames are in step, though a trigger's stamp may come  *)
(* between the frame's arrival and its turn at the lock.                   *)
THEOREM LatenciesInRange == Spec => []LatencyInRange
<1>1. LatencyInv => LatencyInRange
  BY SeqFacts DEF LatencyInv, TypeOK, Recorded, LatencyInRange
<1> QED
  BY <1>1, LatencyInvHolds, PTL

===============================================================================
