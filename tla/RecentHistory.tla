----------------------------- MODULE RecentHistory -----------------------------
(***************************************************************************)
(* What the program's in-memory histories promise: the last Capacity       *)
(* entries, in the order they were added, until somebody clears them.      *)
(***************************************************************************)
EXTENDS Naturals, Sequences

CONSTANTS Capacity, Entries

VARIABLE recent     \* oldest first

Init == recent = << >>

Add(x) ==
    recent' = Append(IF Len(recent) < Capacity THEN recent ELSE Tail(recent), x)

Clear == recent' = << >>

Next == Clear \/ \E x \in Entries : Add(x)

Spec == Init /\ [][Next]_recent

===============================================================================
