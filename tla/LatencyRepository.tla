---------------------------- MODULE LatencyRepository ----------------------------
(***************************************************************************)
(* The store of latency records (LatencyRepository.cs). Add numbers the    *)
(* record before it takes the lock, in a read and a write of _nextId that  *)
(* nothing protects; the queue is changed under the lock. The threads that *)
(* add are processing loops: one, or two when a loop outlives its session. *)
(***************************************************************************)
EXTENDS Integers, Sequences

CONSTANTS
    Adders,     \* threads that add records
    Capacity,   \* _capacity
    MaxId       \* bound: the numbers given out between two calls of Clear

VARIABLES
    records,    \* _records, by their Id, oldest first
    nextId,     \* _nextId
    adder       \* each thread in Add: position and Id

vars == <<records, nextId, adder>>

Resting == [pc |-> "idle", id |-> 0]

Init ==
    /\ records = << >> /\ nextId = 1
    /\ adder = [a \in Adders |-> Resting]

(* _nextId++ reads ...                                                     *)
AddRead(a) ==
    /\ adder[a].pc = "idle" /\ nextId <= MaxId
    /\ adder' = [adder EXCEPT ![a] = [pc |-> "increment", id |-> nextId]]
    /\ UNCHANGED <<records, nextId>>

(* ... and writes.                                                         *)
AddIncrement(a) ==
    /\ adder[a].pc = "increment"
    /\ adder' = [adder EXCEPT ![a].pc = "enqueue"]
    /\ nextId' = adder[a].id + 1
    /\ UNCHANGED records

(* Mistake: the limit is tested before the record is added. *)
AddEnqueueEarly(a) ==
    /\ adder[a].pc = "enqueue"
    /\ records' = Append(IF Len(records) > Capacity THEN Tail(records) ELSE records,
                         adder[a].id)
    /\ adder' = [adder EXCEPT ![a] = Resting]
    /\ UNCHANGED nextId

(* The locked section of Add.                                              *)
AddEnqueue(a) ==
    /\ adder[a].pc = "enqueue"
    /\ LET longer == Append(records, adder[a].id)
       IN records' = IF Len(longer) > Capacity THEN Tail(longer) ELSE longer
    /\ adder' = [adder EXCEPT ![a] = Resting]
    /\ UNCHANGED nextId

Clear ==
    /\ records' = << >> /\ nextId' = 1
    /\ UNCHANGED adder

Next == Clear \/ \E a \in Adders : AddRead(a) \/ AddIncrement(a) \/ AddEnqueue(a)

Spec == Init /\ [][Next]_vars

(***************************************************************************)
(* Properties                                                              *)
(***************************************************************************)

(* Every variable has its type.                                            *)
TypeOK ==
    /\ records \in Seq(1..MaxId) /\ Len(records) <= Capacity
    /\ nextId \in 1..(MaxId + 1)
    /\ adder \in [Adders -> [pc : {"idle", "increment", "enqueue"}, id : 0..MaxId]]

(* The repository is a history of its last Capacity records, however many  *)
(* threads add to it and clear it. It does not promise that their Ids      *)
(* differ: two threads in Add, or an Add across a Clear, repeat them.      *)
History == INSTANCE RecentHistory WITH Entries <- 1..MaxId, recent <- records
RepositoryIsHistory == History!Spec

===============================================================================
