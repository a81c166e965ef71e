----------------------------- MODULE StoresProofs -----------------------------
(***************************************************************************)
(* Theorems about the parts that MCStores puts side by side, for every     *)
(* value of their constants. The parts share nothing: each has an inductive*)
(* invariant of its own, which the steps of the others leave as it is.     *)
(***************************************************************************)
EXTENDS MCStores, ChannelEventLogProofs, FiniteSetTheorems, FunctionTheorems, TLAPS

mcVars == <<which, logVars, repositoryVars, presetVars, statisticsVars, feedVars, galleryVars>>

(* What the constants are.                                                 *)
LEMMA Bounds ==
    /\ MaxId \in Nat /\ MaxSaves \in Nat /\ MaxTime \in Nat /\ MaxCount \in Nat
    /\ MaxVersion \in Nat /\ MaxStreams \in Nat
    /\ MaxBoots \in Nat /\ MaxBoots >= 1 /\ PageSize \in Nat /\ PageSize >= 1
    /\ MaxImages \in Nat /\ MaxImages >= 1
    /\ Torn \notin [Names -> 0..MaxSaves]
BY StoresAssumption

(***************************************************************************)
(* Sequences and products                                                  *)
(***************************************************************************)

(* A sequence gains a last member or loses its first.                      *)
LEMMA QueueFacts ==
    ASSUME NEW S, NEW q \in Seq(S), NEW x \in S
    PROVE  /\ Append(q, x) \in Seq(S) /\ Len(Append(q, x)) = Len(q) + 1
           /\ Append(q, x)[Len(q) + 1] = x
           /\ q # << >> <=> Len(q) > 0
           /\ Len(q) \in Nat
           /\ Len(q) > 0 =>
                 /\ Head(q) = q[1] /\ Head(q) \in S
                 /\ Tail(q) \in Seq(S) /\ Len(Tail(q)) = Len(q) - 1
                 /\ \A k \in 1..Len(Tail(q)) : Tail(q)[k] = q[k + 1]
OBVIOUS

(* A sequence over a set is one over a larger set.                         *)
LEMMA SeqOfMore ==
    ASSUME NEW S, NEW T, S \subseteq T, NEW q \in Seq(S)
    PROVE  q \in Seq(T)
<1>1. /\ \A k \in 1..Len(q) : q[k] \in S
      /\ q = [k \in 1..Len(q) |-> q[k]] /\ Len(q) \in Nat
  OBVIOUS
<1>2. \A k \in 1..Len(q) : q[k] \in T
  BY <1>1
<1> QED
  BY <1>1, <1>2

(* So is a part of it.                                                     *)
LEMMA PartOfSequence ==
    ASSUME NEW S, NEW q \in Seq(S), NEW m \in Int, NEW n \in Int, m >= 1, n <= Len(q)
    PROVE  SubSeq(q, m, n) \in Seq(S)
OBVIOUS

(* Without its first a longer sequence keeps its last.                     *)
LEMMA TailOfAppend ==
    ASSUME NEW S, NEW q \in Seq(S), NEW x \in S, Len(q) > 0
    PROVE  /\ Tail(Append(q, x)) = Append(Tail(q), x)
           /\ Tail(q) \in Seq(S) /\ Len(Append(Tail(q), x)) = Len(q)
OBVIOUS

(* A common factor keeps an order, one more factor adds a summand.         *)
LEMMA Products ==
    ASSUME NEW a \in Int, NEW b \in Int, NEW n \in Nat, a <= b
    PROVE  a * n <= b * n
OBVIOUS

LEMMA Another ==
    ASSUME NEW a \in Int, NEW n \in Int
    PROVE  a * n = a * (n - 1) + a /\ a * n \in Int /\ a * (n - 1) \in Int
OBVIOUS

(***************************************************************************)
(* The presets                                                             *)
(***************************************************************************)

(* No request is on its way.                                               *)
Quiet == \A w \in Writers : writer[w].pc = "idle"

(* The semaphore is taken by one request, which writes what is in memory;  *)
(* without one it is free.                                                 *)
Guarded ==
    /\ \A w \in Writers :
          writer[w].pc # "idle" =>
              /\ up /\ ~lock /\ writer[w].text = presets
              /\ \A v \in Writers : writer[v].pc # "idle" => v = w
    /\ Quiet => lock

(* What the last successful request left is in the file, and in memory if  *)
(* the process could read it.                                              *)
Stored == Quiet /\ ~spoilt => file = acked /\ (up /\ ~misread => presets = acked)

(* The inductive invariant of the presets.                                 *)
PresetInv == Presets!TypeOK /\ Guarded /\ Stored

(* It holds when the service starts ...                                    *)
LEMMA PresetStart == Presets!Init => PresetInv
<1> SUFFICES ASSUME Presets!Init PROVE PresetInv
  OBVIOUS
<1>1. Presets!NoPreset \in [Names -> 0..MaxSaves]
  BY Bounds DEF Presets!NoPreset
<1>2. Presets!Idle \in [pc : {"idle", "open", "write"}, text : [Names -> 0..MaxSaves]]
  BY <1>1 DEF Presets!Idle
<1>3. Presets!TypeOK
  <2>1. /\ presets \in [Names -> 0..MaxSaves] /\ acked \in [Names -> 0..MaxSaves]
        /\ file \in [Names -> 0..MaxSaves]
        /\ writer \in [Writers -> [pc : {"idle", "open", "write"}, text : [Names -> 0..MaxSaves]]]
        /\ saves \in 0..MaxSaves /\ boots \in 1..MaxBoots
    BY <1>1, <1>2, Bounds DEF Presets!Init
  <2>2. {lock, up, spoilt, misread} \subseteq BOOLEAN
    BY DEF Presets!Init
  <2> QED
    BY <2>1, <2>2 DEF Presets!TypeOK
<1>4. Guarded /\ Stored
  BY DEF Presets!Init, Presets!Idle, Guarded, Stored, Quiet
<1> QED
  BY <1>3, <1>4 DEF PresetInv

(* Every operation on the presets keeps the types.                         *)
LEMMA PresetTypes ==
    ASSUME Presets!TypeOK, Presets!Next PROVE Presets!TypeOK'
<1> USE Bounds DEF Presets!TypeOK
<1>0. Presets!NoPreset \in [Names -> 0..MaxSaves]
  BY DEF Presets!NoPreset
<1>a. ASSUME NEW w \in Writers, NEW text \in [Names -> 0..MaxSaves], Presets!Persist(w, text)
      PROVE  /\ presets' \in [Names -> 0..MaxSaves]
             /\ writer' \in [Writers -> [pc : {"idle", "open", "write"},
                                         text : [Names -> 0..MaxSaves]]]
  BY <1>a DEF Presets!Persist
<1>1. ASSUME NEW w \in Writers, NEW n \in Names, Presets!SaveAsync(w, n)
      PROVE  Presets!TypeOK'
  <2>1. saves + 1 \in 0..MaxSaves /\ [presets EXCEPT ![n] = saves + 1] \in [Names -> 0..MaxSaves]
    BY <1>1 DEF Presets!SaveAsync
  <2> QED
    BY <1>1, <1>a, <2>1 DEF Presets!SaveAsync
<1>2. ASSUME NEW w \in Writers, NEW n \in Names, Presets!DeleteAsync(w, n)
      PROVE  Presets!TypeOK'
  <2>1. [presets EXCEPT ![n] = 0] \in [Names -> 0..MaxSaves]
    OBVIOUS
  <2> QED
    BY <1>2, <1>a, <2>1 DEF Presets!DeleteAsync
<1>3. ASSUME NEW w \in Writers, Presets!OpenFile(w) PROVE Presets!TypeOK'
  BY <1>0, <1>3 DEF Presets!OpenFile
<1>4. ASSUME NEW w \in Writers, Presets!WriteFile(w) PROVE Presets!TypeOK'
  BY <1>0, <1>4 DEF Presets!WriteFile, Presets!Idle
<1>5. ASSUME NEW w \in Writers, Presets!WriteFails(w) PROVE Presets!TypeOK'
  BY <1>0, <1>5 DEF Presets!WriteFails, Presets!Idle
<1>6. CASE Presets!ProcessEnds
  BY <1>0, <1>6 DEF Presets!ProcessEnds, Presets!Idle
<1>7. CASE Presets!Boot
  <2>1. presets' \in [Names -> 0..MaxSaves]
    BY <1>0, <1>7 DEF Presets!Boot, Presets!Load
  <2>2. {lock', up', spoilt', misread'} \subseteq BOOLEAN
    BY <1>7 DEF Presets!Boot, Presets!Load
  <2>3. boots' \in 1..MaxBoots /\ UNCHANGED <<file, writer, saves, acked>>
    BY <1>7 DEF Presets!Boot
  <2> QED
    BY <2>1, <2>2, <2>3
<1> QED
  BY <1>1, <1>2, <1>3, <1>4, <1>5, <1>6, <1>7 DEF Presets!Next

(* ... and every operation keeps it: between the list's change and the end *)
(* of its writing no other request gets in, and a failed or interrupted    *)
(* write is remembered.                                                    *)
LEMMA PresetStep ==
    ASSUME PresetInv, Presets!Next PROVE PresetInv'
<1>0. /\ Presets!TypeOK /\ Guarded /\ Stored /\ Presets!TypeOK'
  BY PresetTypes DEF PresetInv
<1> USE <1>0, Bounds DEF Presets!TypeOK, Guarded, Stored, Quiet
<1>1. ASSUME NEW w \in Writers, NEW n \in Names, Presets!SaveAsync(w, n)
      PROVE  Guarded' /\ Stored'
  BY <1>1 DEF Presets!SaveAsync, Presets!Persist
<1>2. ASSUME NEW w \in Writers, NEW n \in Names, Presets!DeleteAsync(w, n)
      PROVE  Guarded' /\ Stored'
  BY <1>2 DEF Presets!DeleteAsync, Presets!Persist
<1>3. ASSUME NEW w \in Writers, Presets!OpenFile(w) PROVE Guarded' /\ Stored'
  BY <1>3 DEF Presets!OpenFile
<1>4. ASSUME NEW w \in Writers, Presets!WriteFile(w) PROVE Guarded' /\ Stored'
  BY <1>4 DEF Presets!WriteFile, Presets!Idle
<1>5. ASSUME NEW w \in Writers, Presets!WriteFails(w) PROVE Guarded' /\ Stored'
  BY <1>5 DEF Presets!WriteFails, Presets!Idle
<1>6. CASE Presets!ProcessEnds
  <2>1. /\ \A w \in Writers : writer'[w].pc = "idle"
        /\ ~up' /\ lock' /\ UNCHANGED <<presets, file, acked>>
    BY <1>6 DEF Presets!ProcessEnds, Presets!Idle
  <2>2. ~spoilt' => ~spoilt /\ Quiet
    BY <1>6 DEF Presets!ProcessEnds
  <2>3. Guarded'
    BY <2>1
  <2>4. ~spoilt' => file' = acked'
    BY <2>1, <2>2
  <2> QED
    BY <2>1, <2>3, <2>4 DEF PresetInv
<1>7. CASE Presets!Boot
  <2>1. ~up /\ Quiet /\ lock
    BY <1>7 DEF Presets!Boot
  <2>2. ~spoilt /\ ~misread' => presets' = acked
    BY <1>7, <2>1 DEF Presets!Boot, Presets!Load
  <2>3. UNCHANGED <<writer, lock, file, acked, spoilt>>
    BY <1>7 DEF Presets!Boot
  <2>4. Guarded'
    BY <2>1, <2>3
  <2> QED
    BY <2>1, <2>2, <2>3, <2>4 DEF PresetInv
<1> QED
  BY <1>1, <1>2, <1>3, <1>4, <1>5, <1>6, <1>7 DEF Presets!Next, PresetInv

(* So it holds in every reachable state.                                   *)
LEMMA PresetInvHolds == MCSpec => []PresetInv
<1>1. MCInit => PresetInv
  BY PresetStart DEF MCInit
<1>2. PresetInv /\ [MCNext]_mcVars => PresetInv'
  <2> SUFFICES ASSUME PresetInv, [MCNext]_mcVars PROVE PresetInv'
    OBVIOUS
  <2>1. Presets!Next \/ UNCHANGED presetVars
    BY DEF MCNext, mcVars, Unless
  <2>2. CASE UNCHANGED presetVars
    BY <2>2 DEF presetVars, PresetInv, Presets!TypeOK, Guarded, Stored, Quiet
  <2> QED
    BY <2>1, <2>2, PresetStep
<1> QED
  BY <1>1, <1>2, PTL DEF MCSpec, mcVars

(* When no request is on its way the semaphore is free, and what the last  *)
(* successful SaveAsync or DeleteAsync left is in the file, unless a write *)
(* failed or was cut short since, and in memory, also after a restart that *)
(* could read the file (AcquisitionPresetService.cs).                      *)
THEOREM PresetsStored == MCSpec => []AckedIsStored
<1>1. PresetInv => AckedIsStored
  BY DEF PresetInv, Guarded, Stored, Quiet, AckedIsStored, Presets!AckedIsStored
<1> QED
  BY <1>1, PresetInvHolds, PTL

(***************************************************************************)
(* The statistics                                                          *)
(***************************************************************************)

(* The frames recorded lie between the first and now, in order; the        *)
(* intervals add up to no more than the last frame's time.                 *)
InOrder ==
    /\ frames = 0 => first = -1 /\ last = 0 /\ total = 0 /\ shortest = -1 /\ longest = -1
    /\ frames > 0 => 0 <= first /\ first <= last
    /\ frames = 1 => last = first
    /\ last <= clock /\ total <= last

(* No interval before the second frame; from then on the average is not    *)
(* below the shortest.                                                     *)
Averages ==
    frames > 0 /\ first > 0 =>
        /\ total = last - first
        /\ frames = 1 => shortest = -1
        /\ frames > 1 => 0 <= shortest /\ shortest * (frames - 1) <= total

(* It is never above the longest, whenever the first frame came.           *)
Bounded ==
    /\ longest = -1 => total = 0
    /\ longest # -1 => frames > 0 /\ 0 <= longest /\ total <= longest * (frames - 1)

(* The inductive invariant of the statistics.                              *)
StatisticsInv == Statistics!TypeOK /\ InOrder /\ Averages /\ Bounded

(* The types, one by one.                                                  *)
LEMMA StatisticsTypes ==
    Statistics!TypeOK <=>
        /\ clock \in 0..MaxTime /\ ticking \in BOOLEAN
        /\ frames \in 0..MaxCount /\ dropped \in 0..MaxCount /\ errors \in 0..MaxCount
        /\ shortest \in -1..MaxTime /\ longest \in -1..MaxTime /\ first \in -1..MaxTime
        /\ total \in 0..MaxTime /\ last \in 0..MaxTime
BY DEF Statistics!TypeOK, Statistics!None

(* It holds for a new object, ...                                          *)
LEMMA StatisticsStart == Statistics!Init => StatisticsInv
<1> SUFFICES ASSUME Statistics!Init PROVE StatisticsInv
  OBVIOUS
<1>1. Statistics!TypeOK
  <2>1. /\ clock = 0 /\ frames = 0 /\ dropped = 0 /\ errors = 0 /\ total = 0 /\ last = 0
        /\ shortest = -1 /\ longest = -1 /\ first = -1
    BY DEF Statistics!Init, Statistics!None
  <2>2. ticking \in BOOLEAN
    BY DEF Statistics!Init
  <2> QED
    BY <2>1, <2>2, Bounds, StatisticsTypes
<1>2. InOrder /\ Averages /\ Bounded
  BY DEF Statistics!Init, Statistics!None, InOrder, Averages, Bounded
<1> QED
  BY <1>1, <1>2 DEF StatisticsInv

(* ... when a frame is recorded: the new interval is added to the total,   *)
(* and replaces the shortest or the longest if it exceeds it; ...          *)
LEMMA FrameStep ==
    ASSUME StatisticsInv, Statistics!RecordFrame PROVE StatisticsInv'
<1>0. /\ clock \in 0..MaxTime /\ ticking \in BOOLEAN
      /\ frames \in 0..MaxCount /\ dropped \in 0..MaxCount /\ errors \in 0..MaxCount
      /\ shortest \in -1..MaxTime /\ longest \in -1..MaxTime /\ first \in -1..MaxTime
      /\ total \in 0..MaxTime /\ last \in 0..MaxTime
      /\ InOrder /\ Averages /\ Bounded
  BY StatisticsTypes DEF StatisticsInv
<1> USE Bounds
<1>1. /\ frames < MaxCount /\ frames' = frames + 1 /\ last' = clock
      /\ first' = IF frames = 0 THEN clock ELSE first
      /\ UNCHANGED <<clock, ticking, dropped, errors>>
  BY DEF Statistics!RecordFrame, Statistics!counters
<1>2. CASE ~(frames > 0 /\ last > 0)
  <2>1. UNCHANGED <<total, shortest, longest>>
    BY <1>2 DEF Statistics!RecordFrame, Statistics!HasInterval
  <2>2. Statistics!TypeOK'
    BY <1>0, <1>1, <2>1, StatisticsTypes DEF Statistics!TypeOK, Statistics!None
  <2>3. InOrder'
    BY <1>0, <1>1, <2>1 DEF InOrder
  <2>4. Averages'
    <3>1. CASE frames = 0
      <4>1. frames' = 1 /\ first' = clock /\ last' = clock /\ total' = 0
        BY <1>0, <1>1, <2>1, <3>1 DEF InOrder
      <4>2. shortest' = -1
        BY <1>0, <2>1, <3>1 DEF InOrder
      <4> QED
        BY <1>0, <4>1, <4>2 DEF Averages
    <3>2. CASE frames > 0
      <4>1. first' = 0
        BY <1>0, <1>1, <1>2, <3>2 DEF InOrder
      <4> QED
        BY <4>1 DEF Averages
    <3> QED
      BY <1>0, <3>1, <3>2
  <2>5. Bounded'
    <3>1. CASE longest = -1
      BY <1>0, <2>1, <3>1 DEF Bounded
    <3>2. CASE longest # -1
      <4>1. longest \in Nat /\ frames \in Nat /\ frames > 0 /\ total <= longest * (frames - 1)
        BY <1>0, <3>2 DEF Bounded
      <4>2. longest * frames = longest * (frames - 1) + longest /\ longest * (frames - 1) \in Int
        BY <4>1, Another
      <4>3. total <= longest * frames
        BY <1>0, <4>1, <4>2
      <4>4. frames' - 1 = frames /\ frames' > 0
        BY <1>1, <4>1
      <4> QED
        BY <2>1, <3>2, <4>1, <4>3, <4>4 DEF Bounded
    <3> QED
      BY <3>1, <3>2
  <2> QED
    BY <2>2, <2>3, <2>4, <2>5 DEF StatisticsInv
<1>3. CASE frames > 0 /\ last > 0
  <2> DEFINE d == clock - last
  <2>0. d \in 0..MaxTime
    BY <1>0 DEF InOrder
  <2>1. /\ total' = total + d
        /\ shortest' = IF shortest = -1 \/ d < shortest THEN d ELSE shortest
        /\ longest' = IF longest = -1 \/ d > longest THEN d ELSE longest
    BY <1>3 DEF Statistics!RecordFrame, Statistics!HasInterval, Statistics!Smaller,
                Statistics!Larger, Statistics!None
  <2> HIDE DEF d
  <2>2. total' \in 0..MaxTime /\ shortest' \in -1..MaxTime /\ longest' \in -1..MaxTime
    <3>1. d <= clock - last
      BY <1>0 DEF d
    <3> QED
      BY <1>0, <2>0, <2>1, <3>1 DEF InOrder
  <2>3. Statistics!TypeOK'
    BY <1>0, <1>1, <2>2 DEF Statistics!TypeOK, Statistics!None
  <2>4. InOrder'
    BY <1>0, <1>1, <1>3, <2>0, <2>1 DEF InOrder, d
  <2>5. Averages'
    <3> SUFFICES ASSUME first > 0 PROVE Averages'
      BY <1>1, <1>3 DEF Averages
    <3>1. total' = last' - first'
      BY <1>0, <1>1, <1>3, <2>1 DEF Averages, d
    <3>2. CASE frames = 1
      <4>1. total' = d /\ shortest' = d
        BY <1>0, <2>0, <2>1, <3>2 DEF InOrder, Averages
      <4>2. frames' = 2 /\ d * (frames' - 1) = d
        BY <1>1, <2>0, <3>2
      <4> QED
        BY <2>0, <3>1, <4>1, <4>2 DEF Averages
    <3>3. CASE frames > 1
      <4>1. 0 <= shortest /\ shortest * (frames - 1) <= total
        BY <1>0, <3>3 DEF Averages
      <4>2. 0 <= shortest' /\ shortest' <= shortest /\ shortest' <= d /\ shortest' \in Int
        BY <1>0, <2>0, <2>1, <4>1
      <4>3. frames - 1 \in Nat /\ shortest \in Int
        BY <1>0, <3>3
      <4>4. shortest' * (frames - 1) <= shortest * (frames - 1)
        BY <4>2, <4>3, Products
      <4>5. /\ shortest' * frames = shortest' * (frames - 1) + shortest'
            /\ \A x \in {shortest, shortest'} : x * (frames - 1) \in Int
        BY <1>0, <4>2, <4>3, Another
      <4>6. shortest' * frames <= total'
        BY <1>0, <2>0, <2>1, <4>1, <4>2, <4>4, <4>5
      <4>7. frames' - 1 = frames /\ frames' > 1
        BY <1>0, <1>1, <3>3
      <4> QED
        BY <3>1, <4>2, <4>6, <4>7 DEF Averages
    <3> QED
      BY <1>0, <1>3, <3>2, <3>3
  <2>6. Bounded'
    <3>1. frames - 1 \in Nat /\ frames' - 1 = frames /\ frames' > 0 /\ d \in Int
      BY <1>0, <1>1, <1>3, <2>0
    <3>2. CASE longest = -1
      <4>1. total' = d /\ longest' = d /\ longest' # -1
        BY <1>0, <2>0, <2>1, <3>2 DEF Bounded
      <4>2. 0 * (frames - 1) <= d * (frames - 1)
        BY <2>0, <3>1, Products
      <4>3. d * frames = d * (frames - 1) + d /\ d * (frames - 1) \in Int
        BY <1>0, <3>1, Another
      <4>4. d <= d * frames
        BY <3>1, <4>2, <4>3
      <4> QED
        BY <2>0, <3>1, <4>1, <4>4 DEF Bounded
    <3>3. CASE longest # -1
      <4>1. longest \in Int /\ 0 <= longest /\ total <= longest * (frames - 1)
        BY <1>0, <3>3 DEF Bounded
      <4>2. longest <= longest' /\ d <= longest' /\ 0 <= longest' /\ longest' \in Int
        BY <1>0, <2>0, <2>1, <4>1
      <4>3. longest * (frames - 1) <= longest' * (frames - 1)
        BY <3>1, <4>1, <4>2, Products
      <4>4. /\ longest' * frames = longest' * (frames - 1) + longest'
            /\ \A x \in {longest, longest'} : x * (frames - 1) \in Int
        BY <1>0, <4>2, Another
      <4>5. total' <= longest' * frames
        BY <1>0, <2>0, <2>1, <4>1, <4>2, <4>3, <4>4
      <4> QED
        BY <3>1, <4>2, <4>5 DEF Bounded
    <3> QED
      BY <3>2, <3>3
  <2> QED
    BY <2>3, <2>4, <2>5, <2>6 DEF StatisticsInv
<1> QED
  BY <1>2, <1>3

(* ... and in every other step.                                            *)
LEMMA StatisticsStep ==
    ASSUME StatisticsInv, Statistics!Next PROVE StatisticsInv'
<1>0. Statistics!TypeOK /\ InOrder /\ Averages /\ Bounded
  BY DEF StatisticsInv
<1> USE Bounds DEF Statistics!counters, Statistics!intervals
<1>1. CASE Statistics!Start \/ Statistics!Stop
  BY <1>0, <1>1 DEF Statistics!Start, Statistics!Stop, StatisticsInv, Statistics!TypeOK,
                   InOrder, Averages, Bounded
<1>2. CASE Statistics!Tick
  <2>1. Statistics!TypeOK'
    BY <1>0, <1>2 DEF Statistics!Tick, Statistics!TypeOK
  <2>2. InOrder'
    BY <1>0, <1>2, StatisticsTypes DEF Statistics!Tick, InOrder
  <2> QED
    BY <1>0, <1>2, <2>1, <2>2 DEF Statistics!Tick, StatisticsInv, Averages, Bounded
<1>3. CASE Statistics!RecordDroppedFrame \/ Statistics!RecordError
  <2>1. dropped' \in 0..MaxCount /\ errors' \in 0..MaxCount
    BY <1>0, <1>3, StatisticsTypes DEF Statistics!RecordDroppedFrame, Statistics!RecordError
  <2>2. UNCHANGED <<clock, ticking, frames, shortest, longest, total, last, first>>
    BY <1>3 DEF Statistics!RecordDroppedFrame, Statistics!RecordError
  <2>3. Statistics!TypeOK'
    BY <1>0, <2>1, <2>2 DEF Statistics!TypeOK
  <2> QED
    BY <1>0, <2>2, <2>3 DEF StatisticsInv, InOrder, Averages, Bounded
<1>4. CASE Statistics!Reset
  <2>1. Statistics!TypeOK'
    <3>1. /\ clock' = 0 /\ frames' = 0 /\ dropped' = 0 /\ errors' = 0 /\ total' = 0
          /\ last' = 0 /\ shortest' = -1 /\ longest' = -1 /\ first' = -1
      BY <1>4 DEF Statistics!Reset, Statistics!None
    <3>2. ticking' \in BOOLEAN
      BY <1>4 DEF Statistics!Reset
    <3> QED
      BY <3>1, <3>2 DEF Statistics!TypeOK, Statistics!None
  <2> QED
    BY <1>4, <2>1
       DEF Statistics!Reset, Statistics!None, StatisticsInv, InOrder, Averages, Bounded
<1> QED
  BY <1>1, <1>2, <1>3, <1>4, FrameStep DEF Statistics!Next

(* So it holds in every reachable state.                                   *)
LEMMA StatisticsInvHolds == MCSpec => []StatisticsInv
<1>1. MCInit => StatisticsInv
  BY StatisticsStart DEF MCInit
<1>2. StatisticsInv /\ [MCNext]_mcVars => StatisticsInv'
  <2> SUFFICES ASSUME StatisticsInv, [MCNext]_mcVars PROVE StatisticsInv'
    OBVIOUS
  <2>1. Statistics!Next \/ UNCHANGED statisticsVars
    BY DEF MCNext, mcVars, Unless
  <2>2. CASE UNCHANGED statisticsVars
    BY <2>2
       DEF statisticsVars, StatisticsInv, Statistics!TypeOK, InOrder, Averages, Bounded
  <2> QED
    BY <2>1, <2>2, StatisticsStep
<1> QED
  BY <1>1, <1>2, PTL DEF MCSpec, mcVars

(* From the second frame on the average interval of a snapshot is never    *)
(* above its longest, for any clock and any number of frames; it is not    *)
(* below its shortest, and the intervals add up to the time between the    *)
(* first frame and the last, if the first did not come at 0 milliseconds   *)
(* (AcquisitionStatistics.cs, RecordFrame and GetSnapshot).                *)
THEOREM AveragesInRange == MCSpec => []AverageInRange
<1>1. StatisticsInv => AverageInRange
  <2> SUFFICES ASSUME StatisticsInv, frames > 1
               PROVE  /\ total <= Statistics!Reported(longest) * (frames - 1)
                      /\ first > 0 =>
                            /\ Statistics!Reported(shortest) * (frames - 1) <= total
                            /\ total = last - first
    BY DEF AverageInRange, Statistics!AverageInRange
  <2>1. frames \in Nat /\ total \in Nat /\ 0 * (frames - 1) = 0
    BY Bounds, StatisticsTypes DEF StatisticsInv
  <2>2. total <= Statistics!Reported(longest) * (frames - 1)
    <3>1. CASE longest = -1
      BY <2>1, <3>1 DEF StatisticsInv, Bounded, Statistics!Reported, Statistics!None
    <3>2. CASE longest # -1
      BY <3>2 DEF StatisticsInv, Bounded, Statistics!Reported, Statistics!None
    <3> QED
      BY <3>1, <3>2
  <2>3. ASSUME first > 0
        PROVE  Statistics!Reported(shortest) * (frames - 1) <= total /\ total = last - first
    <3>1. 0 <= shortest /\ shortest * (frames - 1) <= total /\ total = last - first
      BY <2>1, <2>3 DEF StatisticsInv, Averages
    <3>2. Statistics!Reported(shortest) = shortest
      BY <3>1 DEF Statistics!Reported, Statistics!None
    <3> QED
      BY <3>1, <3>2
  <2> QED
    BY <2>2, <2>3
<1> QED
  BY <1>1, StatisticsInvHolds, PTL

(***************************************************************************)
(* The status feed                                                         *)
(***************************************************************************)

(* The raiser has a message for the connection at hand.                    *)
Pending(r) == raiser[r].pc = "queue" /\ raiser[r].to = stream.to

(* The connection has its first message.                                   *)
Connected == stream.pc \in {"first", "open"}

(* Unless messages crossed, at most one is built and not queued, ...       *)
Alone ==
    Connected /\ ~crossed =>
        /\ stream.pc = "first" => \A r \in Raisers : ~Pending(r)
        /\ \A q, r \in Raisers : Pending(q) /\ Pending(r) => q = r

(* ... and when every change was told, that one, or without it the last    *)
(* queued, or without any the last received, is as new as the last change. *)
News ==
    Connected /\ ~crossed /\ (\A r \in Raisers : raiser[r].pc # "raise") =>
        /\ stream.pc = "first" => stream.status.version >= announced
        /\ \A r \in Raisers : Pending(r) => raiser[r].status.version >= announced
        /\ stream.pc = "open" /\ (\A r \in Raisers : ~Pending(r)) =>
              /\ Len(queue) > 0 => queue[Len(queue)].version >= announced
              /\ Len(queue) = 0 => live.version >= announced

(* The inductive invariant of the feed.                                    *)
FeedInv == Feed!TypeOK /\ Alone /\ News

(* It holds at the start.                                                  *)
LEMMA FeedStart == Feed!Init => FeedInv
<1> SUFFICES ASSUME Feed!Init PROVE FeedInv
  OBVIOUS
<1>1. Feed!NoStatus \in [active : BOOLEAN, version : 0..MaxVersion]
  BY Bounds DEF Feed!NoStatus
<1>2. Feed!TypeOK
  <2>1. {active, cache, crossed} \subseteq BOOLEAN
    BY DEF Feed!Init
  <2>2. version \in 0..MaxVersion /\ announced \in 0..version
    BY Bounds DEF Feed!Init
  <2>3. raiser \in [Raisers -> [pc : {"idle", "raise", "queue"}, status : Feed!Statuses,
                               to : 0..MaxStreams]]
    BY <1>1, Bounds DEF Feed!Init, Feed!Message, Feed!Statuses
  <2>4. stream \in [pc : {"closed", "subscribed", "first", "open"}, status : Feed!Statuses,
                   to : 0..MaxStreams]
    BY <1>1, Bounds DEF Feed!Init, Feed!Message, Feed!Statuses
  <2>5. queue \in Seq(Feed!Statuses) /\ live \in Feed!Statuses
    BY <1>1 DEF Feed!Init, Feed!Statuses
  <2>6. fetch \in {"none", "sent", "active", "inactive"}
    BY DEF Feed!Init
  <2> QED
    BY <2>1, <2>2, <2>3, <2>4, <2>5, <2>6 DEF Feed!TypeOK
<1>3. stream.pc = "closed"
  BY DEF Feed!Init, Feed!Message
<1> QED
  BY <1>2, <1>3 DEF FeedInv, Alone, News, Connected

(* What a raiser has.                                                      *)
Mailbox == [pc : {"idle", "raise", "queue"}, status : Feed!Statuses, to : 0..MaxStreams]

(* The types, one by one.                                                  *)
LEMMA FeedShapes ==
    ASSUME Feed!TypeOK
    PROVE  /\ active \in BOOLEAN /\ cache \in BOOLEAN /\ crossed \in BOOLEAN
           /\ version \in 0..MaxVersion /\ announced \in 0..version
           /\ version \in Nat /\ announced \in Nat
           /\ raiser \in [Raisers -> Mailbox]
           /\ stream.pc \in {"closed", "subscribed", "first", "open"}
           /\ stream.status \in Feed!Statuses /\ stream.to \in 0..MaxStreams
           /\ \A r \in Raisers : /\ raiser[r].pc \in {"idle", "raise", "queue"}
                                 /\ raiser[r].status \in Feed!Statuses
                                 /\ raiser[r].to \in 0..MaxStreams
           /\ queue \in Seq(Feed!Statuses) /\ live \in Feed!Statuses
           /\ fetch \in {"none", "sent", "active", "inactive"}
BY Bounds DEF Feed!TypeOK, Mailbox

(* A status of this moment.                                                *)
LEMMA StatusNow ==
    ASSUME Feed!TypeOK
    PROVE  Feed!Status \in Feed!Statuses /\ Feed!NoStatus \in Feed!Statuses
           /\ Feed!Status.version = version
BY FeedShapes, Bounds DEF Feed!Status, Feed!NoStatus, Feed!Statuses

(* Every step of the feed keeps the types, ...                             *)
LEMMA FeedTypes ==
    ASSUME Feed!TypeOK, Feed!Next PROVE Feed!TypeOK'
<1>0. /\ active \in BOOLEAN /\ cache \in BOOLEAN /\ crossed \in BOOLEAN
      /\ version \in 0..MaxVersion /\ announced \in 0..version
      /\ raiser \in [Raisers -> Mailbox] /\ stream.to \in 0..MaxStreams
      /\ Feed!Status \in Feed!Statuses /\ Feed!NoStatus \in Feed!Statuses
  BY FeedShapes, StatusNow
<1> DEFINE Browser == /\ cache' \in BOOLEAN /\ live' \in Feed!Statuses
                      /\ fetch' \in {"none", "sent", "active", "inactive"}
           Session == /\ active' \in BOOLEAN /\ version' \in 0..MaxVersion
                      /\ announced' \in 0..version'
           Server == /\ raiser' \in [Raisers -> Mailbox]
                     /\ stream' \in [pc : {"closed", "subscribed", "first", "open"},
                                     status : Feed!Statuses, to : 0..MaxStreams]
                     /\ queue' \in Seq(Feed!Statuses) /\ crossed' \in BOOLEAN
<1>e. /\ stream \in [pc : {"closed", "subscribed", "first", "open"},
                    status : Feed!Statuses, to : 0..MaxStreams]
      /\ queue \in Seq(Feed!Statuses)
  BY DEF Feed!TypeOK
<1>a. UNCHANGED <<live, cache, fetch>> => Browser
  BY FeedShapes DEF Feed!TypeOK
<1>b. UNCHANGED <<active, version, announced>> => Session
  BY FeedShapes DEF Feed!TypeOK
<1>c. UNCHANGED <<raiser, stream, queue, crossed>> => Server
  BY <1>0 DEF Feed!TypeOK
<1>d. Browser /\ Session /\ Server => Feed!TypeOK'
  BY DEF Feed!TypeOK, Mailbox
<1> USE Bounds DEF Feed!session, Feed!server, Feed!browser
<1>1. ASSUME NEW r \in Raisers, NEW to \in BOOLEAN, Feed!Change(r, to)
      PROVE  Browser /\ Session /\ Server
  <2>1. raiser' \in [Raisers -> Mailbox]
    BY <1>0, <1>1 DEF Feed!Change, Mailbox
  <2>2. Session
    <3>1. version + 1 \in 0..MaxVersion
      BY <1>0, <1>1 DEF Feed!Change
    <3> QED
      BY <1>1, <3>1 DEF Feed!Change
  <2>3. Server
    BY <1>1, <2>1, <1>0 DEF Feed!Change, Feed!TypeOK
  <2> QED
    BY <1>1, <1>a, <2>2, <2>3 DEF Feed!Change
<1>2. ASSUME NEW r \in Raisers, Feed!Build(r) PROVE Browser /\ Session /\ Server
  <2>1. /\ Feed!Message("queue", Feed!Status, stream.to) \in Mailbox
        /\ Feed!Message("idle", Feed!NoStatus, 0) \in Mailbox
    BY <1>0 DEF Feed!Message, Mailbox
  <2>2. raiser' \in [Raisers -> Mailbox]
    BY <1>0, <1>2, <2>1 DEF Feed!Build
  <2>3. crossed' \in BOOLEAN
    BY <1>0, <1>2 DEF Feed!Build, Feed!Unqueued
  <2>4. Server
    BY <1>2, <1>e, <2>2, <2>3 DEF Feed!Build
  <2> QED
    BY <1>2, <1>a, <1>b, <2>4 DEF Feed!Build
<1>3. ASSUME NEW r \in Raisers, Feed!Enqueue(r) PROVE Browser /\ Session /\ Server
  <2>1. Feed!Message("idle", Feed!NoStatus, 0) \in Mailbox
    BY <1>0 DEF Feed!Message, Mailbox
  <2>2. raiser' \in [Raisers -> Mailbox]
    BY <1>0, <1>3, <2>1 DEF Feed!Enqueue
  <2>3. raiser[r].status \in Feed!Statuses
    BY FeedShapes
  <2>4. queue' \in Seq(Feed!Statuses)
    BY <1>3, <2>3, FeedShapes, QueueFacts DEF Feed!Enqueue
  <2>5. crossed' \in BOOLEAN /\ stream' = stream
    BY <1>0, <1>3 DEF Feed!Enqueue
  <2>6. Server
    BY <1>e, <2>2, <2>4, <2>5
  <2> QED
    BY <1>3, <1>a, <1>b, <2>6 DEF Feed!Enqueue
<1>4. CASE Feed!ChangeUnannounced
  <2>1. Session
    BY <1>0, <1>4 DEF Feed!ChangeUnannounced
  <2> QED
    BY <1>4, <1>a, <1>c, <1>d, <2>1 DEF Feed!ChangeUnannounced
<1>5. CASE Feed!Connect \/ Feed!BuildFirst \/ Feed!EnqueueFirst \/ Feed!Disconnect
  <2>1. stream' \in [pc : {"closed", "subscribed", "first", "open"},
                    status : Feed!Statuses, to : 0..MaxStreams]
    BY <1>0, <1>5 DEF Feed!Connect, Feed!BuildFirst, Feed!EnqueueFirst, Feed!Disconnect,
                      Feed!Message
  <2>2. queue' \in Seq(Feed!Statuses)
    <3>1. stream.status \in Feed!Statuses
      BY FeedShapes
    <3>2. Append(queue, stream.status) \in Seq(Feed!Statuses) /\ << >> \in Seq(Feed!Statuses)
      BY <3>1, FeedShapes, QueueFacts
    <3> QED
      BY <1>5, <3>2, FeedShapes
         DEF Feed!Connect, Feed!BuildFirst, Feed!EnqueueFirst, Feed!Disconnect
  <2>3. crossed' \in BOOLEAN
    BY <1>0, <1>5 DEF Feed!Connect, Feed!BuildFirst, Feed!EnqueueFirst, Feed!Disconnect,
                     Feed!Unqueued
  <2>4. UNCHANGED <<raiser, active, version, announced, live, cache, fetch>>
    BY <1>5 DEF Feed!Connect, Feed!BuildFirst, Feed!EnqueueFirst, Feed!Disconnect
  <2>5. Server
    BY <1>0, <2>1, <2>2, <2>3, <2>4
  <2>6. Browser /\ Session
    BY <1>a, <1>b, <2>4
  <2> QED
    BY <1>d, <2>5, <2>6
<1>6. CASE Feed!Deliver
  <2>1. Tail(queue) \in Seq(Feed!Statuses) /\ Head(queue) \in Feed!Statuses
    BY <1>6, FeedShapes, QueueFacts DEF Feed!Deliver
  <2>2. Browser
    BY <1>6, <2>1, FeedShapes DEF Feed!Deliver, Feed!Statuses
  <2> QED
    BY <1>0, <1>6, <1>b, <1>d, <2>1, <2>2 DEF Feed!Deliver, Feed!TypeOK
<1>7. CASE \/ Feed!Poll \/ Feed!Invalidate \/ Feed!Answer \/ Feed!FetchFails
           \/ Feed!Receive
  <2>1. Browser
    <3>1. cache' \in BOOLEAN
      BY <1>0, <1>7 DEF Feed!Poll, Feed!Invalidate, Feed!Answer, Feed!FetchFails, Feed!Receive
    <3>2. live' \in Feed!Statuses
      BY <1>7, FeedShapes
         DEF Feed!Poll, Feed!Invalidate, Feed!Answer, Feed!FetchFails, Feed!Receive
    <3>3. fetch' \in {"none", "sent", "active", "inactive"}
      BY <1>7 DEF Feed!Poll, Feed!Invalidate, Feed!Answer, Feed!FetchFails, Feed!Receive
    <3> QED
      BY <3>1, <3>2, <3>3
  <2> QED
    BY <1>7, <1>b, <1>c, <1>d, <2>1
       DEF Feed!Poll, Feed!Invalidate, Feed!Answer, Feed!FetchFails, Feed!Receive
<1> HIDE DEF Browser, Session, Server
<1> QED
  BY <1>1, <1>2, <1>3, <1>4, <1>5, <1>6, <1>7, <1>d DEF Feed!Next

(* ... and what is said of the newest message: only a thread that builds   *)
(* one while no other waits to be queued leaves the messages uncrossed, and*)
(* what it builds is as new as the session.                                *)
LEMMA FeedNews ==
    ASSUME FeedInv, Feed!Next PROVE Alone' /\ News'
<1>0. /\ Feed!TypeOK /\ Alone /\ News
      /\ stream.pc \in {"closed", "subscribed", "first", "open"}
      /\ version \in Nat /\ announced \in 0..version /\ crossed \in BOOLEAN
      /\ \A r \in Raisers : raiser[r].pc \in {"idle", "raise", "queue"}
      /\ raiser \in [Raisers -> Mailbox]
  BY FeedShapes DEF FeedInv
<1> USE DEF Feed!session, Feed!server, Feed!browser
<1>1. ASSUME NEW r \in Raisers, NEW to \in BOOLEAN, Feed!Change(r, to)
      PROVE  Alone' /\ News'
  <2>1. /\ raiser'[r].pc = "raise" /\ \A q \in Raisers : q # r => raiser'[q] = raiser[q]
        /\ UNCHANGED <<stream, queue, crossed, live>>
    BY <1>0, <1>1 DEF Feed!Change, Mailbox
  <2>2. \A q \in Raisers : Pending(q)' => Pending(q)
    BY <2>1 DEF Pending
  <2>3. Alone'
    BY <1>0, <2>1, <2>2 DEF Alone, Connected
  <2> QED
    BY <2>1, <2>3 DEF News
<1>2. ASSUME NEW r \in Raisers, Feed!Build(r) PROVE Alone' /\ News'
  <2>1. /\ raiser[r].pc = "raise" /\ \A q \in Raisers : q # r => raiser'[q] = raiser[q]
        /\ UNCHANGED <<announced, stream, queue, live>>
    BY <1>0, <1>2 DEF Feed!Build
  <2>2. SUFFICES ASSUME Connected, ~crossed' PROVE Alone' /\ News'
    BY <2>1 DEF Alone, News, Connected
  <2>3. /\ raiser'[r] = Feed!Message("queue", Feed!Status, stream.to) /\ ~Feed!Unqueued
    BY <1>0, <1>2, <2>2 DEF Feed!Build, Feed!Subscribed, Connected
  <2>4. /\ stream.pc = "open" /\ Pending(r)' /\ raiser'[r].status.version = version
        /\ \A q \in Raisers : q # r => ~Pending(q)'
    <3>1. stream.pc = "open" /\ \A q \in Raisers : ~Pending(q)
      BY <2>2, <2>3 DEF Feed!Unqueued, Connected, Pending
    <3>2. Feed!Status.version = version
      BY <1>0, StatusNow
    <3> QED
      BY <2>1, <2>3, <3>1, <3>2 DEF Pending, Feed!Message
  <2> QED
    BY <1>0, <2>1, <2>4 DEF Alone, News
<1>3. ASSUME NEW r \in Raisers, Feed!Enqueue(r) PROVE Alone' /\ News'
  <2>1. /\ raiser[r].pc = "queue" /\ raiser'[r].pc = "idle"
        /\ \A q \in Raisers : q # r => raiser'[q] = raiser[q]
        /\ UNCHANGED <<announced, stream, crossed, live>>
    BY <1>0, <1>3 DEF Feed!Enqueue, Feed!Message
  <2>2. \A q \in Raisers : Pending(q)' <=> Pending(q) /\ q # r
    BY <2>1 DEF Pending
  <2>3. Alone'
    BY <1>0, <2>1, <2>2 DEF Alone, Connected
  <2>4. \A q \in Raisers : raiser'[q].pc = "raise" <=> raiser[q].pc = "raise"
    BY <2>1
  <2>5. CASE Connected /\ Pending(r)
    <3>1. queue' = Append(queue, raiser[r].status)
      BY <1>3, <2>5 DEF Feed!Enqueue, Pending, Connected
    <3>2. /\ Len(queue') = Len(queue) + 1 /\ queue'[Len(queue')] = raiser[r].status
          /\ Len(queue) \in Nat
      BY <1>0, <3>1, FeedShapes, QueueFacts
    <3> QED
      BY <1>0, <2>1, <2>2, <2>3, <2>4, <2>5, <3>2 DEF News, Connected
  <2>6. CASE Connected /\ ~Pending(r)
    <3>1. queue' = queue
      BY <1>3, <2>1, <2>6 DEF Feed!Enqueue, Pending
    <3> QED
      BY <1>0, <2>1, <2>2, <2>3, <2>4, <2>6, <3>1 DEF News, Connected
  <2> QED
    BY <2>1, <2>3, <2>5, <2>6 DEF News, Connected
<1>4. CASE \/ Feed!ChangeUnannounced \/ Feed!Poll \/ Feed!Invalidate \/ Feed!Answer
           \/ Feed!FetchFails \/ Feed!Receive
  <2>1. UNCHANGED <<announced, raiser, stream, queue, crossed, live>>
    BY <1>4 DEF Feed!ChangeUnannounced, Feed!Poll, Feed!Invalidate, Feed!Answer,
                Feed!FetchFails, Feed!Receive
  <2> QED
    BY <1>0, <2>1 DEF Alone, News, Connected, Pending
<1>5. CASE Feed!Connect \/ Feed!Disconnect
  <2>1. stream'.pc \in {"subscribed", "closed"}
    BY <1>5 DEF Feed!Connect, Feed!Disconnect, Feed!Message
  <2> QED
    BY <2>1 DEF Alone, News, Connected
<1>6. CASE Feed!BuildFirst
  <2>1. /\ stream.pc = "subscribed" /\ stream'.pc = "first" /\ stream'.to = stream.to
        /\ stream'.status = Feed!Status /\ UNCHANGED <<announced, raiser, queue, live>>
    BY <1>6 DEF Feed!BuildFirst, Feed!Message
  <2>2. ~crossed' => \A q \in Raisers : ~Pending(q)'
    BY <1>6, <2>1 DEF Feed!BuildFirst, Feed!Unqueued, Pending
  <2>3. stream'.status.version = version
    BY <1>0, <2>1, StatusNow
  <2> QED
    BY <1>0, <2>1, <2>2, <2>3 DEF Alone, News, Connected
<1>7. CASE Feed!EnqueueFirst
  <2>1. /\ stream.pc = "first" /\ stream'.pc = "open" /\ stream'.to = stream.to
        /\ queue' = Append(queue, stream.status)
        /\ UNCHANGED <<announced, raiser, crossed, live>>
    BY <1>7 DEF Feed!EnqueueFirst, Feed!Message
  <2>2. /\ Len(queue') = Len(queue) + 1 /\ queue'[Len(queue')] = stream.status
        /\ Len(queue) \in Nat
    BY <1>0, <2>1, FeedShapes, QueueFacts
  <2>3. \A q \in Raisers : Pending(q)' <=> Pending(q)
    BY <2>1 DEF Pending
  <2>4. Alone'
    BY <1>0, <2>1, <2>3 DEF Alone, Connected
  <2>5. News'
    BY <1>0, <2>1, <2>2, <2>3 DEF Alone, News, Connected
  <2> QED
    BY <2>4, <2>5
<1>8. CASE Feed!Deliver
  <2>1. /\ queue # << >> /\ queue' = Tail(queue) /\ live' = Head(queue)
        /\ UNCHANGED <<announced, raiser, stream, crossed>>
    BY <1>8 DEF Feed!Deliver
  <2>2. /\ Len(queue) \in Nat /\ Len(queue) > 0 /\ Len(queue') = Len(queue) - 1
        /\ live' = queue[1] /\ \A k \in 1..Len(queue') : queue'[k] = queue[k + 1]
    BY <1>0, <2>1, FeedShapes, QueueFacts
  <2>3. /\ Len(queue') > 0 => queue'[Len(queue')] = queue[Len(queue)]
        /\ Len(queue') = 0 => live' = queue[Len(queue)]
    BY <2>2
  <2>4. \A q \in Raisers : Pending(q)' <=> Pending(q)
    BY <2>1 DEF Pending
  <2>5. Alone'
    BY <1>0, <2>1, <2>4 DEF Alone, Connected
  <2>6. News'
    BY <1>0, <2>1, <2>2, <2>3, <2>4 DEF News, Connected
  <2> QED
    BY <2>5, <2>6
<1> QED
  BY <1>1, <1>2, <1>3, <1>4, <1>5, <1>6, <1>7, <1>8 DEF Feed!Next

(* So it holds in every reachable state.                                   *)
LEMMA FeedInvHolds == MCSpec => []FeedInv
<1>1. MCInit => FeedInv
  BY FeedStart DEF MCInit
<1>2. FeedInv /\ [MCNext]_mcVars => FeedInv'
  <2> SUFFICES ASSUME FeedInv, [MCNext]_mcVars PROVE FeedInv'
    OBVIOUS
  <2>1. Feed!Next \/ UNCHANGED feedVars
    BY DEF MCNext, mcVars, Unless
  <2>2. CASE UNCHANGED feedVars
    BY <2>2 DEF feedVars, FeedInv, Feed!TypeOK, Alone, News, Connected, Pending
  <2>3. CASE Feed!Next
    BY <2>3, FeedTypes, FeedNews DEF FeedInv
  <2> QED
    BY <2>1, <2>2, <2>3
<1> QED
  BY <1>1, <1>2, PTL DEF MCSpec, mcVars

(* When every message was sent, a connected browser has seen the last      *)
(* change that was announced, also one made while it was connecting, unless*)
(* messages crossed on their way to the queue, for any number of threads   *)
(* and connections (AcquisitionController.cs, GetEvents).                  *)
THEOREM QuietIsCurrent == MCSpec => []QuietMeansCurrent
<1>1. FeedInv => QuietMeansCurrent
  <2> SUFFICES ASSUME FeedInv, stream.pc = "open", queue = << >>, ~crossed,
                      \A r \in Raisers : raiser[r].pc = "idle"
               PROVE  live.version >= announced
    BY DEF QuietMeansCurrent, Feed!QuietMeansCurrent
  <2>1. Len(queue) = 0
    OBVIOUS
  <2> QED
    BY <2>1 DEF FeedInv, News, Connected, Pending
<1> QED
  BY <1>1, FeedInvHolds, PTL

(***************************************************************************)
(* The gallery                                                             *)
(***************************************************************************)

(* The cardinality in Gallery is the library's.                            *)
LEMMA SameCount == \A S : Pictures!Cardinality(S) = Cardinality(S)
BY DEF Pictures!Cardinality, Cardinality

(* NewestFirst enumerates: the k-th image has k - 1 newer ones, and no two *)
(* images have equally many.                                               *)
LEMMA Sorted ==
  ASSUME NEW S, S \subseteq Nat, IsFiniteSet(S)
  PROVE /\ Pictures!NewestFirst(S) \in Seq(S) /\ Len(Pictures!NewestFirst(S)) = Cardinality(S)
        /\ \A k \in 1..Cardinality(S) : Pictures!NewestFirst(S)[k] \in S
<1> DEFINE Above(i) == {j \in S : j > i}
           rank == [i \in S |-> Cardinality(Above(i)) + 1]
           n == Cardinality(S)
<1>0. n \in Nat
  BY FS_CardinalityType
<1>1. \A i \in S : /\ IsFiniteSet(Above(i)) /\ Cardinality(Above(i)) \in Nat
                   /\ Cardinality(Above(i)) < n
  <2> TAKE i \in S
  <2>1. Above(i) \in SUBSET S /\ i \in S /\ i \notin Above(i)
    OBVIOUS
  <2>2. /\ IsFiniteSet(Above(i)) /\ Cardinality(Above(i)) <= n
        /\ n = Cardinality(Above(i)) => S = Above(i)
    BY <2>1, FS_Subset
  <2>3. Cardinality(Above(i)) \in Nat
    BY <2>2, FS_CardinalityType
  <2> HIDE DEF Above, n
  <2> QED
    BY <1>0, <2>1, <2>2, <2>3
<1>2. \A i, j \in S : i < j => Cardinality(Above(j)) < Cardinality(Above(i))
  <2> SUFFICES ASSUME NEW i \in S, NEW j \in S, i < j
               PROVE  Cardinality(Above(j)) < Cardinality(Above(i))
    OBVIOUS
  <2>1. Above(j) \in SUBSET Above(i) /\ j \in Above(i) /\ j \notin Above(j)
    <3>1. j > i /\ ~(j > j) /\ \A k \in S : k > j => k > i
      OBVIOUS
    <3> QED
      BY <3>1, Zenon
  <2>2. /\ Cardinality(Above(j)) <= Cardinality(Above(i))
        /\ Cardinality(Above(i)) = Cardinality(Above(j)) => Above(i) = Above(j)
    BY <1>1, <2>1, FS_Subset
  <2>3. Cardinality(Above(i)) \in Nat /\ Cardinality(Above(j)) \in Nat
    BY <1>1
  <2> HIDE DEF Above
  <2> QED
    BY <2>1, <2>2, <2>3
<1>3. rank \in [S -> 1..n]
  <2> HIDE DEF Above, n
  <2>1. \A i \in S : Cardinality(Above(i)) + 1 \in 1..n
    BY <1>0, <1>1
  <2> QED
    BY <2>1
<1>4. \A i, j \in S : rank[i] = rank[j] => i = j
  <2> SUFFICES ASSUME NEW i \in S, NEW j \in S, rank[i] = rank[j], i # j PROVE FALSE
    OBVIOUS
  <2>1. Cardinality(Above(i)) = Cardinality(Above(j))
    <3>1. Cardinality(Above(i)) \in Nat /\ Cardinality(Above(j)) \in Nat
      BY <1>1
    <3> HIDE DEF Above
    <3> QED
      BY <3>1
  <2>2. i < j \/ j < i
    OBVIOUS
  <2>3. Cardinality(Above(i)) \in Nat /\ Cardinality(Above(j)) \in Nat
    BY <1>1
  <2> HIDE DEF Above
  <2> QED
    BY <1>2, <2>1, <2>2, <2>3
<1>5. rank \in Surjection(S, 1..n)
  <2> HIDE DEF rank
  <2>1. rank \in Injection(S, 1..n)
    BY <1>3, <1>4, Fun_IsInj
  <2>2. IsFiniteSet(1..n) /\ Cardinality(1..n) = n
    BY <1>0, FS_Interval
  <2> QED
    BY <2>1, <2>2, FS_Injection
<1>6. \A k \in 1..n : \E i \in S : Cardinality(Above(i)) = k - 1
  <2> TAKE k \in 1..n
  <2> HIDE DEF rank, n
  <2>1. PICK i \in S : rank[i] = k
    BY <1>5 DEF Surjection
  <2> USE DEF rank
  <2>2. Cardinality(Above(i)) \in Nat /\ Cardinality(Above(i)) + 1 = k
    BY <1>1, <2>1
  <2> HIDE DEF Above
  <2> QED
    BY <2>2
<1>7. /\ Pictures!Cardinality(S) = n
      /\ \A k \in 1..n : \E i \in S : Pictures!Cardinality({j \in S : j > i}) = k - 1
  BY <1>6, SameCount
<1>8. Pictures!NewestFirst(S) \in [1..n -> S]
  <2> HIDE DEF n
  <2>1. \A k \in 1..n :
           (CHOOSE i \in S : Pictures!Cardinality({j \in S : j > i}) = k - 1) \in S
    BY <1>7
  <2> QED
    BY <1>7, <2>1 DEF Pictures!NewestFirst
<1> HIDE DEF n
<1>9. \A f : f \in [1..n -> S] => f \in Seq(S) /\ Len(f) = n /\ \A k \in 1..n : f[k] \in S
  BY <1>0
<1> QED
  BY <1>8, <1>9 DEF n

(* How many pages there are and where a page begins.                       *)
LEMMA PageCount ==
    ASSUME NEW n \in Nat, NEW size \in Nat, size >= 1
    PROVE  (n + size - 1) \div size \in 0..n
OBVIOUS

LEMMA PageBounds ==
    ASSUME NEW size \in Nat, NEW p \in Nat, p >= 1
    PROVE  (p - 1) * size + 1 \in Int /\ (p - 1) * size + 1 >= 1 /\ p * size \in Int
OBVIOUS

(* The smaller of two numbers.                                             *)
LEMMA MinOfTwo ==
    ASSUME NEW a \in Int, NEW b \in Int
    PROVE  Pictures!Min({a, b}) \in Int /\ Pictures!Min({a, b}) <= b
<1>1. \E x \in {a, b} : \A y \in {a, b} : x <= y
  OBVIOUS
<1>2. /\ Pictures!Min({a, b}) \in {a, b}
      /\ \A y \in {a, b} : Pictures!Min({a, b}) <= y
  BY <1>1 DEF Pictures!Min
<1> QED
  BY <1>2

(* Every deletion under way was confirmed, every mark has its row.         *)
Marked ==
    /\ deleted \subseteq confirmed
    /\ \A k \in 1..Len(deleting) : deleting[k] \in confirmed
    /\ selection \subseteq 1..Len(pages[page].items)

(* The inductive invariant of the gallery.                                 *)
GalleryInv == Pictures!TypeOK /\ Marked

(* What GetPage answers.                                                   *)
Answers == [loaded : BOOLEAN, items : Seq(1..MaxImages), totalPages : 0..MaxImages]

(* There are at most as many pages as images.                              *)
LEMMA PageTypes ==
    ASSUME Pictures!TypeOK, NEW p \in 1..MaxImages PROVE Pictures!GetPage(p) \in Answers
<1> USE Bounds
<1> DEFINE newest == Pictures!NewestFirst(catalogue)
           size == Len(newest)
<1>1. catalogue \subseteq 1..captured /\ captured \in 0..MaxImages
  BY DEF Pictures!TypeOK
<1>2. IsFiniteSet(catalogue) /\ Cardinality(catalogue) <= captured /\ catalogue \subseteq Nat
  <2>1. IsFiniteSet(1..captured) /\ Cardinality(1..captured) = captured
    BY <1>1, FS_Interval
  <2>2. catalogue \in SUBSET (1..captured) /\ catalogue \subseteq Nat
    BY <1>1
  <2>3. IsFiniteSet(catalogue) /\ Cardinality(catalogue) <= Cardinality(1..captured)
    BY <2>1, <2>2, FS_Subset
  <2> QED
    BY <2>1, <2>2, <2>3
<1>3. /\ newest \in Seq(catalogue) /\ size = Cardinality(catalogue)
  BY <1>2, Sorted
<1>4. newest \in Seq(1..MaxImages) /\ size \in 0..MaxImages
  <2>1. Cardinality(catalogue) \in Nat
    BY <1>2, FS_CardinalityType
  <2>2. catalogue \subseteq 1..MaxImages
    BY <1>1
  <2> HIDE DEF newest
  <2>3. newest \in Seq(1..MaxImages)
    BY <1>3, <2>2, SeqOfMore
  <2> QED
    BY <1>1, <1>2, <1>3, <2>1, <2>3
<1> HIDE DEF newest
<1>5. SubSeq(newest, (p - 1) * PageSize + 1, Pictures!Min({p * PageSize, size}))
        \in Seq(1..MaxImages)
  <2>1. (p - 1) * PageSize + 1 \in Int /\ (p - 1) * PageSize + 1 >= 1 /\ p * PageSize \in Int
    BY PageBounds
  <2>2. Pictures!Min({p * PageSize, size}) \in Int /\ Pictures!Min({p * PageSize, size}) <= size
    <3>1. size \in Int
      BY <1>4
    <3> HIDE DEF size
    <3> QED
      BY <2>1, <3>1, MinOfTwo
  <2> QED
    BY <1>4, <2>1, <2>2, PartOfSequence
<1>6. (size + PageSize - 1) \div PageSize \in 0..MaxImages
  <2>1. (size + PageSize - 1) \div PageSize \in 0..size
    BY <1>4, PageCount
  <2> HIDE DEF size
  <2> QED
    BY <1>4, <2>1
<1>7. Pictures!GetPage(p) =
        [loaded |-> TRUE,
         items |-> SubSeq(newest, (p - 1) * PageSize + 1, Pictures!Min({p * PageSize, size})),
         totalPages |-> (size + PageSize - 1) \div PageSize]
  BY DEF Pictures!GetPage, newest
<1>8. \A q \in Seq(1..MaxImages), k \in 0..MaxImages :
        [loaded |-> TRUE, items |-> q, totalPages |-> k] \in Answers
  BY DEF Answers
<1> HIDE DEF size
<1> QED
  BY <1>5, <1>6, <1>7, <1>8

(* The invariant holds when the page is opened.                            *)
LEMMA GalleryStart == Pictures!Init => GalleryInv
<1> SUFFICES ASSUME Pictures!Init PROVE GalleryInv
  OBVIOUS
<1> USE Bounds
<1>1. pages \in [1..MaxImages -> Answers] /\ pages[page].items = << >>
  <2>1. Pictures!NotLoaded \in Answers
    BY DEF Pictures!NotLoaded, Answers
  <2> QED
    BY <2>1 DEF Pictures!Init, Pictures!Pages, Pictures!NotLoaded
<1>2. /\ captured \in 0..MaxImages /\ catalogue \subseteq 1..captured
      /\ page \in 1..MaxImages /\ fetching \subseteq 1..MaxImages /\ selection \subseteq 1..PageSize
      /\ deleting \in Seq(1..MaxImages) /\ Len(deleting) = 0
      /\ confirmed = {} /\ deleted = {} /\ selection = {}
  BY DEF Pictures!Init
<1>3. Pictures!TypeOK
  BY <1>1, <1>2 DEF Pictures!TypeOK, Pictures!Pages, Pictures!Images, Answers
<1> QED
  BY <1>2, <1>3 DEF GalleryInv, Marked

(* The types, one by one.                                                  *)
LEMMA GalleryShapes ==
    ASSUME Pictures!TypeOK
    PROVE  /\ captured \in 0..MaxImages /\ catalogue \subseteq 1..captured
           /\ page \in 1..MaxImages /\ pages \in [1..MaxImages -> Answers]
           /\ fetching \subseteq 1..MaxImages /\ selection \subseteq 1..PageSize
           /\ deleting \in Seq(1..MaxImages)
           /\ confirmed \subseteq 1..MaxImages /\ deleted \subseteq 1..MaxImages
           /\ pages[page].items \in Seq(1..MaxImages)
           /\ DOMAIN Pictures!images = 1..Len(pages[page].items)
<1>1. pages \in [1..MaxImages -> Answers] /\ page \in 1..MaxImages
  BY DEF Pictures!TypeOK, Pictures!Pages, Pictures!Images, Answers
<1>2. pages[page].items \in Seq(1..MaxImages)
  BY <1>1 DEF Answers
<1> QED
  BY <1>1, <1>2 DEF Pictures!TypeOK, Pictures!Pages, Pictures!Images, Pictures!images

(* Marks go when the number of rows changes.                               *)
LEMMA MarksCleared ==
    ASSUME selection \subseteq 1..PageSize, selection \subseteq 1..Len(pages[page].items),
           Pictures!ClearMarks
    PROVE  /\ selection' \subseteq 1..PageSize
           /\ selection' \subseteq 1..Len(pages'[page'].items)
BY DEF Pictures!ClearMarks, Pictures!images

(* Every step keeps the invariant: marks become images once, when Delete is*)
(* pressed, and only those images are deleted afterwards.                  *)
LEMMA GalleryStep ==
    ASSUME GalleryInv, Pictures!Next PROVE GalleryInv'
<1>0. /\ captured \in 0..MaxImages /\ catalogue \subseteq 1..captured
      /\ page \in 1..MaxImages /\ pages \in [1..MaxImages -> Answers]
      /\ fetching \subseteq 1..MaxImages /\ selection \subseteq 1..PageSize
      /\ deleting \in Seq(1..MaxImages)
      /\ confirmed \subseteq 1..MaxImages /\ deleted \subseteq 1..MaxImages
      /\ Pictures!TypeOK /\ Marked
  BY GalleryShapes DEF GalleryInv
<1> DEFINE Catalogue == captured' \in 0..MaxImages /\ catalogue' \subseteq 1..captured'
           Screen == /\ page' \in 1..MaxImages /\ pages' \in [1..MaxImages -> Answers]
                     /\ fetching' \subseteq 1..MaxImages
           Marks == /\ selection' \subseteq 1..PageSize
                    /\ selection' \subseteq 1..Len(pages'[page'].items)
           Deletion == /\ deleting' \in Seq(1..MaxImages)
                       /\ confirmed' \subseteq 1..MaxImages /\ deleted' \subseteq confirmed'
                       /\ \A k \in 1..Len(deleting') : deleting'[k] \in confirmed'
<1> USE Bounds DEF Pictures!screen, Pictures!deletion
<1>a. UNCHANGED <<captured, catalogue>> => Catalogue
  BY <1>0
<1>b. UNCHANGED <<page, pages, fetching>> => Screen
  BY <1>0
<1>c. UNCHANGED <<page, pages, selection>> => Marks
  BY <1>0 DEF Marked
<1>d. UNCHANGED <<deleting, confirmed, deleted>> => Deletion
  BY <1>0 DEF Marked
<1>e. Catalogue /\ Screen /\ Marks /\ Deletion => GalleryInv'
  BY DEF GalleryInv, Marked, Pictures!TypeOK, Pictures!Pages, Pictures!Images, Answers
<1> HIDE DEF Catalogue, Screen, Marks, Deletion
<1>1. CASE Pictures!Capture
  <2>1. Catalogue
    BY <1>0, <1>1 DEF Pictures!Capture, Catalogue
  <2> QED
    BY <1>1, <1>b, <1>c, <1>d, <1>e, <2>1 DEF Pictures!Capture
<1>2. ASSUME NEW i \in Pictures!Images, Pictures!DeleteElsewhere(i) PROVE GalleryInv'
  <2>1. Catalogue
    BY <1>0, <1>2 DEF Pictures!DeleteElsewhere, Catalogue
  <2> QED
    BY <1>2, <1>b, <1>c, <1>d, <1>e, <2>1 DEF Pictures!DeleteElsewhere
<1>3. CASE Pictures!Refresh
  <2>1. Screen
    BY <1>0, <1>3 DEF Pictures!Refresh, Screen
  <2> QED
    BY <1>3, <1>a, <1>c, <1>d, <1>e, <2>1 DEF Pictures!Refresh
<1>4. ASSUME NEW p \in Pictures!Pages, Pictures!Fetch(p) PROVE GalleryInv'
  <2>1. p \in 1..MaxImages
    BY <1>4 DEF Pictures!Pages
  <2>2. pages' \in [1..MaxImages -> Answers]
    BY <1>0, <1>4, <2>1, PageTypes DEF Pictures!Fetch
  <2>3. Screen
    BY <1>0, <1>4, <2>2 DEF Pictures!Fetch, Screen
  <2>4. Marks
    BY <1>0, <1>4, MarksCleared DEF Pictures!Fetch, Marked, Marks
  <2> QED
    BY <1>4, <1>a, <1>d, <1>e, <2>3, <2>4 DEF Pictures!Fetch
<1>5. ASSUME NEW p \in Pictures!Pages, Pictures!SetPage(p) PROVE GalleryInv'
  <2>1. p \in 1..MaxImages
    BY <1>5 DEF Pictures!Pages
  <2>2. Screen
    BY <1>0, <1>5, <2>1 DEF Pictures!SetPage, Screen
  <2>3. Marks
    BY <1>0, <1>5, MarksCleared DEF Pictures!SetPage, Marked, Marks
  <2> QED
    BY <1>5, <1>a, <1>d, <1>e, <2>2, <2>3 DEF Pictures!SetPage
<1>6. ASSUME NEW p \in Pictures!Pages, Pictures!Evict(p) PROVE GalleryInv'
  <2>1. Pictures!NotLoaded \in Answers
    BY DEF Pictures!NotLoaded, Answers
  <2>2. /\ pages' \in [1..MaxImages -> Answers] /\ pages'[page] = pages[page]
        /\ UNCHANGED <<page, fetching, selection>>
    BY <1>0, <1>6, <2>1 DEF Pictures!Evict
  <2>3. Screen /\ Marks
    BY <1>0, <2>2 DEF Screen, Marks, Marked
  <2> QED
    BY <1>6, <1>a, <1>d, <1>e, <2>3 DEF Pictures!Evict
<1>7. ASSUME NEW k \in 1..PageSize, Pictures!ToggleRow(k) PROVE GalleryInv'
  <2>1. k \in 1..Len(pages[page].items)
    BY <1>0, <1>7, GalleryShapes DEF Pictures!ToggleRow
  <2>2. Marks
    BY <1>0, <1>7, <2>1 DEF Pictures!ToggleRow, Marks, Marked
  <2> QED
    BY <1>7, <1>a, <1>b, <1>d, <1>e, <2>2 DEF Pictures!ToggleRow
<1>8. CASE Pictures!DeleteSelected
  <2> DEFINE ids == {Pictures!images[k] : k \in selection \cap DOMAIN Pictures!images}
  <2>1. deleting' = Pictures!NewestFirst(ids) /\ confirmed' = confirmed \cup ids
        /\ UNCHANGED <<captured, catalogue, page, pages, fetching, selection, deleted>>
    BY <1>8 DEF Pictures!DeleteSelected
  <2>2. ids \subseteq 1..MaxImages
    BY <1>0, GalleryShapes DEF Pictures!images
  <2> HIDE DEF ids
  <2>3. IsFiniteSet(ids) /\ ids \subseteq Nat
    <3>1. ids \in SUBSET (1..MaxImages) /\ ids \subseteq Nat
      BY <2>2
    <3>2. IsFiniteSet(1..MaxImages)
      BY FS_Interval
    <3> QED
      BY <3>1, <3>2, FS_Subset
  <2>4. /\ deleting' \in Seq(ids)
        /\ \A k \in 1..Len(deleting') : deleting'[k] \in ids
    BY <2>1, <2>3, Sorted
  <2>5. deleting' \in Seq(1..MaxImages)
    BY <2>2, <2>4, SeqOfMore
  <2>6. Deletion
    BY <1>0, <2>1, <2>2, <2>4, <2>5 DEF Deletion, Marked
  <2> QED
    BY <1>a, <1>b, <1>c, <1>e, <2>1, <2>6
<1>9. CASE Pictures!DeleteOne \/ Pictures!DeleteFails
  <2>1. /\ deleting # << >> /\ deleting' = Tail(deleting)
        /\ deleted' = deleted \cup {Head(deleting)} /\ confirmed' = confirmed
        /\ catalogue' \subseteq catalogue /\ UNCHANGED <<captured, page, pages>>
        /\ selection' \subseteq selection /\ fetching' \subseteq fetching \cup {page}
    BY <1>9 DEF Pictures!DeleteOne, Pictures!DeleteFails, Pictures!Advance, Pictures!Target
  <2>2. /\ Len(deleting) > 0 /\ Head(deleting) = deleting[1]
        /\ Tail(deleting) \in Seq(1..MaxImages) /\ Len(deleting') = Len(deleting) - 1
        /\ \A k \in 1..Len(deleting') : deleting'[k] = deleting[k + 1]
        /\ Len(deleting) \in Nat
    BY <1>0, <2>1, QueueFacts
  <2>3. /\ deleting[1] \in confirmed
        /\ \A k \in 1..Len(deleting') : deleting'[k] \in confirmed
    <3>1. \A k \in 1..Len(deleting) : deleting[k] \in confirmed
      BY <1>0 DEF Marked
    <3>2. 1 \in 1..Len(deleting) /\ \A k \in 1..Len(deleting') : k + 1 \in 1..Len(deleting)
      BY <2>2
    <3> QED
      BY <2>2, <3>1, <3>2
  <2>4. Deletion
    BY <1>0, <2>1, <2>2, <2>3 DEF Deletion, Marked
  <2>5. Catalogue /\ Screen /\ Marks
    BY <1>0, <2>1 DEF Catalogue, Screen, Marks, Marked
  <2> QED
    BY <1>e, <2>4, <2>5
<1> QED
  BY <1>1, <1>2, <1>3, <1>4, <1>5, <1>6, <1>7, <1>8, <1>9 DEF Pictures!Next

(* So it holds in every reachable state.                                   *)
LEMMA GalleryInvHolds == MCSpec => []GalleryInv
<1>1. MCInit => GalleryInv
  BY GalleryStart DEF MCInit
<1>2. GalleryInv /\ [MCNext]_mcVars => GalleryInv'
  <2> SUFFICES ASSUME GalleryInv, [MCNext]_mcVars PROVE GalleryInv'
    OBVIOUS
  <2>1. Pictures!Next \/ UNCHANGED galleryVars
    BY DEF MCNext, mcVars, Unless
  <2>2. CASE UNCHANGED galleryVars
    BY <2>2 DEF galleryVars, GalleryInv, Pictures!TypeOK, Marked
  <2> QED
    BY <2>1, <2>2, GalleryStep
<1> QED
  BY <1>1, <1>2, PTL DEF MCSpec, mcVars

(* Only images that were shown as marked when Delete was pressed are       *)
(* deleted, whatever is captured, deleted elsewhere, fetched or evicted in *)
(* between, and every mark belongs to a row on the screen                  *)
(* (ImageGallery/index.tsx, handleDeleteSelected).                         *)
THEOREM DeletionsShown == MCSpec => []DeletesWhatWasShown
<1>1. GalleryInv => DeletesWhatWasShown
  BY GalleryShapes DEF GalleryInv, Marked, DeletesWhatWasShown, Pictures!DeletesWhatWasShown
<1> QED
  BY <1>1, GalleryInvHolds, PTL

(***************************************************************************)
(* The repository                                                          *)
(***************************************************************************)

(* An adder that is not resting has a number.                              *)
Numbered == \A a \in Adders : adder[a].pc # "idle" => adder[a].id \in 1..MaxId

(* The inductive invariant of the repository.                              *)
RepositoryInv == Repository!TypeOK /\ Numbered

(* It holds at the start ...                                               *)
LEMMA RepositoryStart == Repository!Init => RepositoryInv
<1> SUFFICES ASSUME Repository!Init PROVE RepositoryInv
  OBVIOUS
<1>1. records = << >> /\ nextId = 1 /\ adder = [a \in Adders |-> [pc |-> "idle", id |-> 0]]
  BY DEF Repository!Init, Repository!Resting
<1>2. Repository!TypeOK
  BY <1>1, Bounds, EventLogAssumption DEF Repository!TypeOK
<1> QED
  BY <1>1, <1>2 DEF RepositoryInv, Numbered

(* The locked section of Add keeps the last Capacity records.              *)
LEMMA KeepsNewest ==
    ASSUME Repository!TypeOK, NEW x \in 1..MaxId,
           records' = IF Len(Append(records, x)) > Capacity
                        THEN Tail(Append(records, x)) ELSE Append(records, x)
    PROVE  /\ records' \in Seq(1..MaxId) /\ Len(records') <= Capacity
           /\ records' = Append(IF Len(records) < Capacity THEN records ELSE Tail(records), x)
<1>0. /\ records \in Seq(1..MaxId) /\ Len(records) <= Capacity /\ Len(records) \in Nat
      /\ Capacity \in Nat /\ Capacity > 0
  BY EventLogAssumption DEF Repository!TypeOK
<1>1. Append(records, x) \in Seq(1..MaxId) /\ Len(Append(records, x)) = Len(records) + 1
  BY <1>0, QueueFacts
<1>2. CASE Len(records) < Capacity
  <2>1. ~(Len(Append(records, x)) > Capacity) /\ Len(Append(records, x)) <= Capacity
    BY <1>0, <1>1, <1>2
  <2>2. records' = Append(records, x)
    BY <2>1
  <2> QED
    BY <1>1, <1>2, <2>1, <2>2
<1>3. CASE Len(records) = Capacity
  <2>1. /\ Tail(Append(records, x)) = Append(Tail(records), x)
        /\ Tail(records) \in Seq(1..MaxId) /\ Len(Append(Tail(records), x)) = Len(records)
    BY <1>0, <1>3, TailOfAppend
  <2>2. Append(Tail(records), x) \in Seq(1..MaxId)
    BY <2>1, QueueFacts
  <2>3. Len(Append(records, x)) > Capacity /\ ~(Len(records) < Capacity)
    BY <1>0, <1>1, <1>3
  <2>4. records' = Append(Tail(records), x)
    BY <2>1, <2>3
  <2> QED
    BY <1>0, <2>1, <2>2, <2>3, <2>4
<1> QED
  BY <1>0, <1>2, <1>3

(* ... and every step of an adder, and Clear, keep it.                     *)
LEMMA RepositoryStep ==
    ASSUME RepositoryInv, Repository!Next PROVE RepositoryInv'
<1>0. /\ records \in Seq(1..MaxId) /\ Len(records) <= Capacity /\ nextId \in 1..(MaxId + 1)
      /\ adder \in [Adders -> [pc : {"idle", "increment", "enqueue"}, id : 0..MaxId]]
      /\ Repository!TypeOK /\ Numbered
  BY DEF RepositoryInv, Repository!TypeOK
<1> USE Bounds
<1>1. CASE Repository!Clear
  BY <1>0, <1>1, EventLogAssumption DEF Repository!Clear, RepositoryInv, Repository!TypeOK, Numbered
<1>2. ASSUME NEW a \in Adders, Repository!AddRead(a) PROVE RepositoryInv'
  <2>1. nextId \in 1..MaxId
    BY <1>0, <1>2 DEF Repository!AddRead
  <2>2. /\ adder' \in [Adders -> [pc : {"idle", "increment", "enqueue"}, id : 0..MaxId]]
        /\ Numbered'
    BY <1>0, <1>2, <2>1 DEF Repository!AddRead, Numbered
  <2> QED
    BY <1>0, <1>2, <2>2 DEF Repository!AddRead, RepositoryInv, Repository!TypeOK
<1>3. ASSUME NEW a \in Adders, Repository!AddIncrement(a) PROVE RepositoryInv'
  <2>1. adder[a].id \in 1..MaxId
    BY <1>0, <1>3 DEF Repository!AddIncrement, Numbered
  <2>2. /\ adder' \in [Adders -> [pc : {"idle", "increment", "enqueue"}, id : 0..MaxId]]
        /\ Numbered' /\ nextId' \in 1..(MaxId + 1)
    BY <1>0, <1>3, <2>1 DEF Repository!AddIncrement, Numbered
  <2> QED
    BY <1>0, <1>3, <2>2 DEF Repository!AddIncrement, RepositoryInv, Repository!TypeOK
<1>4. ASSUME NEW a \in Adders, Repository!AddEnqueue(a) PROVE RepositoryInv'
  <2>1. adder[a].id \in 1..MaxId
    BY <1>0, <1>4 DEF Repository!AddEnqueue, Numbered
  <2>2. /\ adder' \in [Adders -> [pc : {"idle", "increment", "enqueue"}, id : 0..MaxId]]
        /\ Numbered'
    BY <1>0, <1>4 DEF Repository!AddEnqueue, Repository!Resting, Numbered
  <2>3. records' \in Seq(1..MaxId) /\ Len(records') <= Capacity
    BY <1>0, <1>4, <2>1, KeepsNewest DEF Repository!AddEnqueue
  <2> QED
    BY <1>0, <1>4, <2>2, <2>3 DEF Repository!AddEnqueue, RepositoryInv, Repository!TypeOK
<1> QED
  BY <1>1, <1>2, <1>3, <1>4 DEF Repository!Next

(* A step of MCSpec is one of the repository or leaves it alone.           *)
LEMMA RepositoryMoves ==
    RepositoryInv /\ [MCNext]_mcVars => RepositoryInv' /\ [Repository!Next]_repositoryVars
<1> SUFFICES ASSUME RepositoryInv, [MCNext]_mcVars
             PROVE  RepositoryInv' /\ [Repository!Next]_repositoryVars
  OBVIOUS
<1>1. Repository!Next \/ UNCHANGED repositoryVars
  BY DEF MCNext, mcVars, Unless
<1>2. CASE UNCHANGED repositoryVars
  BY <1>2 DEF repositoryVars, RepositoryInv, Repository!TypeOK, Numbered
<1> QED
  BY <1>1, <1>2, RepositoryStep

(* So it holds in every reachable state.                                   *)
LEMMA RepositoryInvHolds == MCSpec => []RepositoryInv
<1>1. MCInit => RepositoryInv
  BY RepositoryStart DEF MCInit
<1> QED
  BY <1>1, RepositoryMoves, PTL DEF MCSpec, mcVars

(* Each step of the repository is one of RecentHistory or a stutter.       *)
LEMMA RepositoryRefines ==
    ASSUME RepositoryInv, [Repository!Next]_repositoryVars
    PROVE  [Repository!History!Next]_records
<1>1. CASE UNCHANGED repositoryVars
  BY <1>1 DEF repositoryVars
<1>2. CASE Repository!Clear
  BY <1>2 DEF Repository!Clear, Repository!History!Next, Repository!History!Clear
<1>3. ASSUME NEW a \in Adders, Repository!AddRead(a) \/ Repository!AddIncrement(a)
      PROVE  UNCHANGED records
  BY <1>3 DEF Repository!AddRead, Repository!AddIncrement
<1>4. ASSUME NEW a \in Adders, Repository!AddEnqueue(a) PROVE Repository!History!Next
  <2>1. adder[a].id \in 1..MaxId
    BY <1>4 DEF RepositoryInv, Repository!AddEnqueue, Numbered
  <2>2. Repository!History!Add(adder[a].id)
    BY <1>4, <2>1, KeepsNewest
       DEF RepositoryInv, Repository!AddEnqueue, Repository!History!Add
  <2> QED
    BY <2>1, <2>2 DEF Repository!History!Next
<1> QED
  BY <1>1, <1>2, <1>3, <1>4 DEF Repository!Next

(* The repository implements RecentHistory, the history of its last        *)
(* Capacity records, for any capacity and any number of threads in Add and *)
(* Clear (LatencyRepository.cs).                                           *)
THEOREM RepositoryKeepsHistory == MCSpec => RepositoryIsHistory
<1>1. MCInit => Repository!History!Init
  BY DEF MCInit, Repository!Init, Repository!History!Init
<1>2. RepositoryInv /\ [MCNext]_mcVars => [Repository!History!Next]_records
  BY RepositoryMoves, RepositoryRefines
<1> QED
  BY <1>1, <1>2, RepositoryInvHolds, PTL
     DEF MCSpec, mcVars, RepositoryIsHistory, Repository!RepositoryIsHistory,
         Repository!History!Spec

(***************************************************************************)
(* All types                                                               *)
(***************************************************************************)

(* The log has its types among the other parts, too.                       *)
LEMMA LogTyped == MCSpec => []TypeOK
<1>1. MCInit => TypeOK
  BY TypeInit DEF MCInit
<1>2. TypeOK /\ [MCNext]_mcVars => TypeOK'
  <2> SUFFICES ASSUME TypeOK, [MCNext]_mcVars PROVE TypeOK'
    OBVIOUS
  <2>1. Next \/ UNCHANGED logVars
    BY DEF MCNext, mcVars, Unless
  <2> QED
    BY <2>1, TypeStep DEF logVars, vars
<1> QED
  BY <1>1, <1>2, PTL DEF MCSpec, mcVars

(* Every variable of the six parts has its type.                           *)
THEOREM StoresTyped == MCSpec => []TypesOK
<1>1. /\ PresetInv => Presets!TypeOK
      /\ StatisticsInv => Statistics!TypeOK
      /\ FeedInv => Feed!TypeOK
      /\ GalleryInv => Pictures!TypeOK
      /\ RepositoryInv => Repository!TypeOK
  BY DEF PresetInv, StatisticsInv, FeedInv, GalleryInv, RepositoryInv
<1>2. /\ TypeOK /\ PresetInv /\ StatisticsInv /\ FeedInv /\ GalleryInv /\ RepositoryInv
      => TypesOK
  BY <1>1 DEF TypesOK
<1> QED
  BY <1>2, LogTyped, PresetInvHolds, StatisticsInvHolds, FeedInvHolds, GalleryInvHolds,
     RepositoryInvHolds, PTL

===============================================================================
