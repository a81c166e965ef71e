----------------------------- MODULE ChannelEventLog -----------------------------
(***************************************************************************)
(* The log of channel events (ChannelEventLog.cs): an array used as a ring,*)
(* read newest first. Each operation runs under the log's lock.            *)
(***************************************************************************)
EXTENDS Integers, Sequences

CONSTANTS
    Capacity,   \* length of the array; 100 in the code
    Events,     \* what may be logged
    NoEvent     \* default(ChannelEvent), of a slot not written yet

ASSUME EventLogAssumption == Capacity \in Nat \ {0} /\ NoEvent \notin Events

VARIABLES
    buffer,     \* _buffer, indexed from 0
    head,       \* _head, the slot of the next event
    count       \* _count

vars == <<buffer, head, count>>

Slots == 0..(Capacity - 1)

Init == buffer = [i \in Slots |-> NoEvent] /\ head = 0 /\ count = 0

(* Mistake: the head stops at the end of the array. *)
AddWithoutWrap(e) ==
    /\ buffer' = [buffer EXCEPT ![head] = e]
    /\ head' = IF head + 1 < Capacity THEN head + 1 ELSE head
    /\ count' = IF count < Capacity THEN count + 1 ELSE count

Add(e) ==
    /\ buffer' = [buffer EXCEPT ![head] = e]
    /\ head' = (head + 1) % Capacity
    /\ count' = IF count < Capacity THEN count + 1 ELSE count

Clear == head' = 0 /\ count' = 0 /\ UNCHANGED buffer

(* Mistake: the slot that is written next is read first. *)
GetRecentFromHead(max) ==
    [i \in 1..(IF max < count THEN max ELSE count) |->
        buffer[(head - (i - 1) + Capacity) % Capacity]]

(* At most max events, the newest first.                                   *)
GetRecent(max) ==
    [i \in 1..(IF max < count THEN max ELSE count) |->
        buffer[(head - 1 - (i - 1) + Capacity) % Capacity]]

Next == Clear \/ \E e \in Events : Add(e)

Spec == Init /\ [][Next]_vars

(***************************************************************************)
(* Properties                                                              *)
(***************************************************************************)

(* Every variable has its type.                                            *)
TypeOK ==
    /\ buffer \in [Slots -> Events \cup {NoEvent}]
    /\ head \in Slots /\ count \in 0..Capacity

(* The ring, read from the oldest event on.                                *)
Unrolled == [i \in 1..count |-> buffer[(head - count + (i - 1) + Capacity) % Capacity]]

(* The ring is a history of its last Capacity events.                      *)
History == INSTANCE RecentHistory WITH Entries <- Events, recent <- Unrolled
LogIsHistory == History!Spec

(* A reader gets the newest events, newest first, also when it asks for    *)
(* more than there are, and never an empty slot or an overwritten event.   *)
ReadsNewestFirst ==
    \A max \in 0..(Capacity + 1) :
        LET n == IF max < count THEN max ELSE count
        IN GetRecent(max) = [i \in 1..n |-> Unrolled[count + 1 - i]]

===============================================================================
