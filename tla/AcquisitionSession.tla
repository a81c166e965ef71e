--------------------------- MODULE AcquisitionSession ---------------------------
(***************************************************************************)
(* What IAcquisitionSession promises (IAcquisitionSession.cs:5-8): "One    *)
(* session at a time. Start(config) auto-releases any existing idle        *)
(* channel before starting."                                               *)
(***************************************************************************)
EXTENDS Naturals

CONSTANT Channels   \* the channels that sessions can run on

VARIABLES
    state,      \* what GetStatus reports: None, Idle or Active
    current,    \* the channel the session holds; 0 is none
    live        \* the channels whose events reach the session

vars == <<state, current, live>>

Init == state = "None" /\ current = 0 /\ live = {}

(* A session begins on a fresh channel once nothing is left of the last.   *)
Begin(c) ==
    /\ state = "None" /\ live = {}
    /\ state' = "Active" /\ current' = c /\ live' = {c}

(* It ends on request or by itself; its channel falls silent afterwards.   *)
End ==
    /\ state = "Active"
    /\ state' = "Idle" /\ UNCHANGED current
    /\ live' \in {live, {}}

Silence ==
    /\ state = "Idle" /\ live # {}
    /\ live' = {} /\ UNCHANGED <<state, current>>

(* The idle channel is released, by request or before the next session.    *)
Release ==
    /\ state = "Idle" /\ live = {}
    /\ state' = "None" /\ current' = 0 /\ UNCHANGED live

Next == (\E c \in Channels : Begin(c)) \/ End \/ Silence \/ Release

Spec == Init /\ [][Next]_vars

===============================================================================
