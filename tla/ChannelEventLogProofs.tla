-------------------------- MODULE ChannelEventLogProofs --------------------------
(***************************************************************************)
(* The ring of ChannelEventLog implements RecentHistory for an array of any*)
(* length and any events. The invariant is the type invariant; the work is *)
(* in where the ring keeps its i-th oldest event before and after a step.  *)
(***************************************************************************)
EXTENDS ChannelEventLog, SequenceTheorems, TLAPS

(* The slot of the i-th oldest event in a ring with head h and count c. *)
Slot(h, c, i) == (h - c + (i - 1) + Capacity) % Capacity

(* The history that a ring with array b, head h and count c stands for. *)
Ring(b, h, c) == [i \in 1..c |-> b[Slot(h, c, i)]]

(* Sums of two positions turn at most once around the ring.              *)
LEMMA Turn ==
    ASSUME NEW x \in 0..(2 * Capacity - 1)
    PROVE  x % Capacity = IF x < Capacity THEN x ELSE x - Capacity
<1>1. Capacity \in Nat /\ Capacity > 0
  BY EventLogAssumption
<1>2. CASE x < Capacity
  BY <1>1, <1>2, SMT
<1>3. CASE x >= Capacity
  BY <1>1, <1>3, SMT
<1> QED
  BY <1>1, <1>2, <1>3

(* The i-th oldest event lies that many slots behind the head.           *)
LEMMA SlotValue ==
    ASSUME NEW h \in Slots, NEW c \in 0..Capacity, NEW i \in 1..c
    PROVE  Slot(h, c, i) = IF h - c + (i - 1) < 0 THEN h - c + (i - 1) + Capacity
                                                  ELSE h - c + (i - 1)
<1>1. Capacity \in Nat /\ Capacity > 0
  BY EventLogAssumption
<1> DEFINE x == h - c + (i - 1) + Capacity
<1>2. x \in 0..(2 * Capacity - 1)
  BY <1>1 DEF Slots
<1>3. x % Capacity = IF x < Capacity THEN x ELSE x - Capacity
  BY <1>2, Turn
<1> HIDE DEF x
<1>4. Slot(h, c, i) = x % Capacity
  BY DEF Slot, x
<1> QED
  BY <1>1, <1>3, <1>4 DEF x, Slots

(* The head moves to the next slot, from the last one to the first.      *)
LEMMA HeadMoves ==
    ASSUME NEW h \in Slots
    PROVE  /\ (h + 1) % Capacity = IF h + 1 < Capacity THEN h + 1 ELSE 0
           /\ (h + 1) % Capacity \in Slots
<1>1. Capacity \in Nat /\ Capacity > 0
  BY EventLogAssumption
<1>2. h + 1 \in 0..(2 * Capacity - 1)
  BY <1>1 DEF Slots
<1>3. (h + 1) % Capacity = IF h + 1 < Capacity THEN h + 1 ELSE (h + 1) - Capacity
  BY <1>2, Turn
<1> QED
  BY <1>1, <1>3 DEF Slots

(* An empty log has its types.                                           *)
LEMMA TypeInit == Init => TypeOK
  BY EventLogAssumption DEF Init, TypeOK, Slots

(* Each operation of the log keeps the types.                            *)
LEMMA TypeStep == TypeOK /\ [Next]_vars => TypeOK'
<1> SUFFICES ASSUME TypeOK, [Next]_vars PROVE TypeOK'
  OBVIOUS
<1> USE EventLogAssumption DEF TypeOK
<1>1. ASSUME NEW e \in Events, Add(e) PROVE TypeOK'
  <2>1. head' \in Slots
    BY <1>1, HeadMoves DEF Add
  <2> QED
    BY <1>1, <2>1 DEF Add
<1>2. CASE Clear
  BY <1>2 DEF Clear, Slots
<1>3. CASE UNCHANGED vars
  BY <1>3 DEF vars
<1> QED
  BY <1>1, <1>2, <1>3 DEF Next

(* The log's variables have their types, for arrays of every length.     *)
THEOREM TypeCorrect == Spec => []TypeOK
<1> QED
  BY TypeInit, TypeStep, PTL DEF Spec

(* It is a sequence of as many events as the ring counts.                *)
LEMMA RingType ==
    ASSUME NEW b \in [Slots -> Events \cup {NoEvent}], NEW h \in Slots,
           NEW c \in 0..Capacity
    PROVE  /\ Ring(b, h, c) \in Seq(Events \cup {NoEvent})
           /\ Len(Ring(b, h, c)) = c
           /\ \A i \in 1..c : Ring(b, h, c)[i] = b[Slot(h, c, i)]
<1>1. c \in Nat /\ Capacity \in Nat /\ Capacity > 0
  BY EventLogAssumption
<1>2. \A i \in 1..c : Slot(h, c, i) \in Slots
  <2> TAKE i \in 1..c
  <2>1. Slot(h, c, i) = IF h - c + (i - 1) < 0 THEN h - c + (i - 1) + Capacity
                                               ELSE h - c + (i - 1)
    BY SlotValue
  <2> QED
    BY <1>1, <2>1 DEF Slots
<1>3. \A i \in 1..c : b[Slot(h, c, i)] \in Events \cup {NoEvent}
  BY <1>2
<1> QED
  BY <1>1, <1>3 DEF Ring

(* The mapping of the log reads its variables as such a ring, before and   *)
(* after a step.                                                           *)
LEMMA UnrolledIsRing ==
    Unrolled = Ring(buffer, head, count) /\ Unrolled' = Ring(buffer', head', count')
  BY DEF Unrolled, Ring, Slot

(* Clearing, like the start, leaves an empty history.                    *)
LEMMA EmptyRing ==
    ASSUME NEW b \in [Slots -> Events \cup {NoEvent}], NEW h \in Slots
    PROVE  Ring(b, h, 0) = << >>
  BY RingType, EmptySeq, EventLogAssumption

(* Adding to a ring with room appends to the history.                    *)
LEMMA AddWithRoom ==
    ASSUME TypeOK, TypeOK', NEW e \in Events, Add(e), count < Capacity
    PROVE  Unrolled' = Append(Unrolled, e)
<1>1. /\ count \in Nat /\ head \in Slots /\ Capacity \in Nat /\ Capacity > 0
      /\ count' = count + 1 /\ head' \in Slots
      /\ head' = IF head + 1 < Capacity THEN head + 1 ELSE 0
      /\ buffer' = [buffer EXCEPT ![head] = e]
      /\ buffer \in [Slots -> Events \cup {NoEvent}]
  BY EventLogAssumption, HeadMoves DEF TypeOK, Add
<1>2. /\ Unrolled' \in Seq(Events \cup {NoEvent})
      /\ Len(Unrolled') = count + 1
      /\ \A i \in 1..(count + 1) : Unrolled'[i] = buffer'[Slot(head', count + 1, i)]
  <2>1. /\ count' \in 0..Capacity /\ head' \in Slots
        /\ buffer' \in [Slots -> Events \cup {NoEvent}]
    BY DEF TypeOK
  <2>2. /\ Ring(buffer', head', count') \in Seq(Events \cup {NoEvent})
        /\ Len(Ring(buffer', head', count')) = count'
        /\ \A i \in 1..count' :
              Ring(buffer', head', count')[i] = buffer'[Slot(head', count', i)]
    BY <2>1, RingType
  <2> QED
    BY <1>1, <2>2, UnrolledIsRing
<1>3. Slot(head', count + 1, count + 1) = head
  <2>1. count + 1 \in 0..Capacity /\ count + 1 \in 1..(count + 1)
    BY <1>1
  <2>2. Slot(head', count + 1, count + 1) =
          IF head' - (count + 1) + ((count + 1) - 1) < 0
            THEN head' - (count + 1) + ((count + 1) - 1) + Capacity
            ELSE head' - (count + 1) + ((count + 1) - 1)
    BY <1>1, <2>1, SlotValue
  <2> QED
    BY <1>1, <2>2 DEF Slots
<1>4. ASSUME NEW i \in 1..count
      PROVE  Slot(head', count + 1, i) = Slot(head, count, i) /\ Slot(head, count, i) # head
             /\ Slot(head, count, i) \in Slots
  <2>1. count + 1 \in 0..Capacity /\ i \in 1..(count + 1) /\ count \in 0..Capacity
    BY <1>1
  <2>2. Slot(head', count + 1, i) =
          IF head' - (count + 1) + (i - 1) < 0
            THEN head' - (count + 1) + (i - 1) + Capacity
            ELSE head' - (count + 1) + (i - 1)
    BY <1>1, <2>1, SlotValue
  <2>3. Slot(head, count, i) = IF head - count + (i - 1) < 0
                                 THEN head - count + (i - 1) + Capacity
                                 ELSE head - count + (i - 1)
    BY <1>1, <2>1, SlotValue
  <2> QED
    BY <1>1, <2>2, <2>3 DEF Slots
<1>5. /\ Unrolled \in Seq(Events \cup {NoEvent}) /\ Len(Unrolled) = count
      /\ \A i \in 1..count : Unrolled[i] = buffer[Slot(head, count, i)]
  BY RingType, UnrolledIsRing DEF TypeOK
<1>6. \A i \in 1..count : Unrolled'[i] = Unrolled[i]
  BY <1>1, <1>2, <1>4, <1>5
<1>7. Unrolled'[count + 1] = e
  BY <1>1, <1>2, <1>3
<1> HIDE DEF Unrolled
<1> QED
  BY <1>1, <1>2, <1>5, <1>6, <1>7

(* Adding to a full ring replaces the oldest event.                      *)
LEMMA AddWhenFull ==
    ASSUME TypeOK, TypeOK', NEW e \in Events, Add(e), count = Capacity
    PROVE  Unrolled' = Append(Tail(Unrolled), e)
<1>1. /\ head \in Slots /\ Capacity \in Nat /\ Capacity > 0
      /\ count' = Capacity /\ head' \in Slots
      /\ head' = IF head + 1 < Capacity THEN head + 1 ELSE 0
      /\ buffer' = [buffer EXCEPT ![head] = e]
      /\ buffer \in [Slots -> Events \cup {NoEvent}]
  BY EventLogAssumption, HeadMoves DEF TypeOK, Add
<1>2. /\ Unrolled' \in Seq(Events \cup {NoEvent})
      /\ Len(Unrolled') = Capacity
      /\ \A i \in 1..Capacity : Unrolled'[i] = buffer'[Slot(head', Capacity, i)]
  <2>1. /\ count' \in 0..Capacity /\ head' \in Slots
        /\ buffer' \in [Slots -> Events \cup {NoEvent}]
    BY DEF TypeOK
  <2>2. /\ Ring(buffer', head', count') \in Seq(Events \cup {NoEvent})
        /\ Len(Ring(buffer', head', count')) = count'
        /\ \A i \in 1..count' :
              Ring(buffer', head', count')[i] = buffer'[Slot(head', count', i)]
    BY <2>1, RingType
  <2> QED
    BY <1>1, <2>2, UnrolledIsRing
<1>3. Slot(head', Capacity, Capacity) = head
  <2>1. Capacity \in 0..Capacity /\ Capacity \in 1..Capacity
    BY <1>1
  <2>2. Slot(head', Capacity, Capacity) =
          IF head' - Capacity + (Capacity - 1) < 0
            THEN head' - Capacity + (Capacity - 1) + Capacity
            ELSE head' - Capacity + (Capacity - 1)
    BY <1>1, <2>1, SlotValue
  <2> QED
    BY <1>1, <2>2 DEF Slots
<1>4. ASSUME NEW i \in 1..(Capacity - 1)
      PROVE  Slot(head', Capacity, i) = Slot(head, Capacity, i + 1)
             /\ Slot(head, Capacity, i + 1) # head
             /\ Slot(head, Capacity, i + 1) \in Slots
  <2>1. Capacity \in 0..Capacity /\ i \in 1..Capacity /\ i + 1 \in 1..Capacity
    BY <1>1
  <2>2. Slot(head', Capacity, i) =
          IF head' - Capacity + (i - 1) < 0
            THEN head' - Capacity + (i - 1) + Capacity
            ELSE head' - Capacity + (i - 1)
    BY <1>1, <2>1, SlotValue
  <2>3. Slot(head, Capacity, i + 1) =
          IF head - Capacity + ((i + 1) - 1) < 0
            THEN head - Capacity + ((i + 1) - 1) + Capacity
            ELSE head - Capacity + ((i + 1) - 1)
    BY <1>1, <2>1, SlotValue
  <2> QED
    BY <1>1, <2>2, <2>3 DEF Slots
<1>5. /\ Unrolled \in Seq(Events \cup {NoEvent}) /\ Len(Unrolled) = Capacity
      /\ \A i \in 1..Capacity : Unrolled[i] = buffer[Slot(head, Capacity, i)]
  BY RingType, UnrolledIsRing DEF TypeOK
<1>6. \A i \in 1..(Capacity - 1) : Unrolled'[i] = Unrolled[i + 1]
  BY <1>1, <1>2, <1>4, <1>5
<1>7. Unrolled'[Capacity] = e
  BY <1>1, <1>2, <1>3
<1> HIDE DEF Unrolled
<1> QED
  BY <1>1, <1>2, <1>5, <1>6, <1>7

(* A step of the log is a step of the history, or changes nothing in it. *)
LEMMA StepRefines ==
    ASSUME TypeOK, TypeOK', [Next]_vars
    PROVE  [History!Next]_Unrolled
<1>1. ASSUME NEW e \in Events, Add(e) PROVE History!Add(e)
  <2>1. Len(Unrolled) = count
    BY RingType, UnrolledIsRing DEF TypeOK
  <2>2. CASE count < Capacity
    BY <1>1, <2>1, <2>2, AddWithRoom DEF History!Add
  <2>3. CASE count = Capacity
    BY <1>1, <2>1, <2>3, AddWhenFull, EventLogAssumption DEF History!Add
  <2> QED
    BY <2>2, <2>3, EventLogAssumption DEF TypeOK
<1>2. CASE Clear
  <2>1. Unrolled' = << >>
    <3>1. count' = 0
      BY <1>2 DEF Clear
    <3> QED
      BY <3>1, EmptyRing, UnrolledIsRing DEF TypeOK
  <2> QED
    BY <2>1 DEF History!Next, History!Clear
<1>3. CASE UNCHANGED vars
  BY <1>3 DEF vars, Unrolled
<1> QED
  BY <1>1, <1>2, <1>3 DEF Next, History!Next

(* The log is a history of its last Capacity events, oldest first, through *)
(* every wrap of the ring and every Clear (ChannelEventLog.cs:29-38, 57-64)*)
THEOREM LogRefines == Spec => LogIsHistory
<1>1. Init => History!Init
  <2> SUFFICES ASSUME Init PROVE Unrolled = << >>
    BY DEF History!Init
  <2>1. TypeOK /\ count = 0
    BY TypeInit DEF Init
  <2> QED
    BY <2>1, EmptyRing, UnrolledIsRing DEF TypeOK
<1>2. TypeOK /\ TypeOK' /\ [Next]_vars => [History!Next]_Unrolled
  BY StepRefines
<1> QED
  BY <1>1, <1>2, TypeCorrect, PTL DEF Spec, LogIsHistory, History!Spec

(* A reader gets the newest events, newest first, whatever number it asks *)
(* for (ChannelEventLog.cs:40-55).                                        *)
THEOREM ReadsCorrect == Spec => []ReadsNewestFirst
<1>1. TypeOK => ReadsNewestFirst
  <2> SUFFICES ASSUME TypeOK, NEW max \in 0..(Capacity + 1)
               PROVE  LET n == IF max < count THEN max ELSE count
                      IN GetRecent(max) = [i \in 1..n |-> Unrolled[count + 1 - i]]
    BY DEF ReadsNewestFirst
  <2> DEFINE n == IF max < count THEN max ELSE count
  <2>1. /\ count \in Nat /\ head \in Int /\ Capacity \in Nat /\ n \in Nat /\ n <= count
    BY EventLogAssumption DEF TypeOK, Slots
  <2>2. ASSUME NEW i \in 1..n
        PROVE  buffer[(head - 1 - (i - 1) + Capacity) % Capacity] = Unrolled[count + 1 - i]
    <3>1. count + 1 - i \in 1..count
      BY <2>1
    <3>2. head - 1 - (i - 1) + Capacity = head - count + ((count + 1 - i) - 1) + Capacity
      BY <2>1
    <3> QED
      BY <3>1, <3>2 DEF Unrolled
  <2> QED
    BY <2>2 DEF GetRecent
<1> QED
  BY <1>1, TypeCorrect, PTL

===============================================================================
