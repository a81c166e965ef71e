----------------------------- MODULE PresetService -----------------------------
(***************************************************************************)
(* The named acquisition presets (AcquisitionPresetService.cs): a list in  *)
(* memory, written to a JSON file as a whole after every change, under a   *)
(* semaphore that is held across the awaited write, and read when the      *)
(* process starts. Names that differ in case are one name.                 *)
(***************************************************************************)
EXTENDS Naturals

CONSTANTS
    Names,      \* names of presets
    Writers,    \* requests that save and delete presets
    MaxSaves,   \* bound: SaveAsync calls; each saves a preset of its own
    MaxBoots,   \* bound: times the process runs
    Torn        \* what a file holds whose writing was cut short

VARIABLES
    presets,    \* _presets: the preset of each name, 0 for none
    file,       \* the file: what was written, or Torn
    writer,     \* each request: position, and the text it writes
    lock,       \* _lock is free
    saves,      \* presets saved so far
    up, boots,  \* the process lives; how often it was started
    acked,      \* what the last successful request left in memory
    spoilt,     \* a write failed or was cut short since then
    misread     \* the process could not read what the file held when it started

vars == <<presets, file, writer, lock, saves, up, boots, acked, spoilt, misread>>

NoPreset == [n \in Names |-> 0]
Idle == [pc |-> "idle", text |-> NoPreset]

(* The file does not exist yet, which Load does not tell from an empty one.*)
Init ==
    /\ presets = NoPreset /\ file = NoPreset /\ acked = NoPreset /\ spoilt = FALSE
    /\ misread = FALSE
    /\ writer = [w \in Writers |-> Idle]
    /\ lock = TRUE /\ saves = 0 /\ up = TRUE /\ boots = 1

(* Under the semaphore: change the list and serialize all of it.           *)
Persist(w, changed) ==
    /\ presets' = changed
    /\ writer' = [writer EXCEPT ![w] = [pc |-> "open", text |-> changed]]

(* Mistake: the semaphore guards the list only. *)
SaveUnlocked(w, n) ==
    /\ up /\ lock /\ writer[w].pc = "idle" /\ saves < MaxSaves
    /\ saves' = saves + 1
    /\ Persist(w, [presets EXCEPT ![n] = saves + 1])
    /\ UNCHANGED <<lock, file, up, boots, acked, spoilt, misread>>

SaveAsync(w, n) ==
    /\ up /\ lock /\ writer[w].pc = "idle" /\ saves < MaxSaves
    /\ lock' = FALSE /\ saves' = saves + 1
    /\ Persist(w, [presets EXCEPT ![n] = saves + 1])
    /\ UNCHANGED <<file, up, boots, acked, spoilt, misread>>

(* A name that is not there is an exception, and nothing is written.       *)
DeleteAsync(w, n) ==
    /\ up /\ lock /\ writer[w].pc = "idle" /\ presets[n] # 0
    /\ lock' = FALSE
    /\ Persist(w, [presets EXCEPT ![n] = 0])
    /\ UNCHANGED <<saves, file, up, boots, acked, spoilt, misread>>

(* WriteAllTextAsync empties the file ...                                  *)
OpenFile(w) ==
    /\ up /\ writer[w].pc = "open"
    /\ file' = Torn
    /\ writer' = [writer EXCEPT ![w].pc = "write"]
    /\ UNCHANGED <<presets, lock, saves, up, boots, acked, spoilt, misread>>

(* ... and fills it; the semaphore is released and the request succeeds.   *)
WriteFile(w) ==
    /\ up /\ writer[w].pc = "write"
    /\ file' = writer[w].text
    /\ writer' = [writer EXCEPT ![w] = Idle]
    /\ lock' = TRUE /\ acked' = presets /\ spoilt' = FALSE /\ misread' = FALSE
    /\ UNCHANGED <<presets, saves, up, boots>>

(* Mistake: an exception leaves the semaphore taken. *)
WriteFailsLocked(w) ==
    /\ up /\ writer[w].pc \in {"open", "write"}
    /\ writer' = [writer EXCEPT ![w] = Idle]
    /\ spoilt' = TRUE
    /\ UNCHANGED <<presets, file, lock, saves, up, boots, acked, misread>>

(* Opening or writing throws: the semaphore is released, the list in       *)
(* memory keeps the change.                                                *)
WriteFails(w) ==
    /\ up /\ writer[w].pc \in {"open", "write"}
    /\ writer' = [writer EXCEPT ![w] = Idle]
    /\ lock' = TRUE /\ spoilt' = TRUE
    /\ UNCHANGED <<presets, file, saves, up, boots, acked, misread>>

(* The process ends, perhaps in the middle of a write.                     *)
ProcessEnds ==
    /\ up
    /\ up' = FALSE /\ lock' = TRUE
    /\ writer' = [w \in Writers |-> Idle]
    /\ spoilt' = (spoilt \/ \E w \in Writers : writer[w].pc # "idle")
    /\ UNCHANGED <<presets, file, saves, boots, acked, misread>>

(* A file that cannot be parsed counts as empty; so does one whose reading *)
(* throws, though it is intact, and the next write overwrites it.          *)
Load ==
    \/ presets' = (IF file = Torn THEN NoPreset ELSE file) /\ misread' = FALSE
    \/ file \notin {Torn, NoPreset} /\ presets' = NoPreset /\ misread' = TRUE

Boot ==
    /\ ~up /\ boots < MaxBoots
    /\ Load
    /\ up' = TRUE /\ boots' = boots + 1
    /\ UNCHANGED <<file, writer, lock, saves, acked, spoilt>>

Next ==
    \/ \E w \in Writers :
          \/ \E n \in Names : SaveAsync(w, n) \/ DeleteAsync(w, n)
          \/ OpenFile(w) \/ WriteFile(w) \/ WriteFails(w)
    \/ ProcessEnds \/ Boot

Spec == Init /\ [][Next]_vars

(***************************************************************************)
(* Properties                                                              *)
(***************************************************************************)

(* Every variable has its type.                                            *)
TypeOK ==
    /\ presets \in [Names -> 0..MaxSaves] /\ acked \in [Names -> 0..MaxSaves]
    /\ file \in [Names -> 0..MaxSaves] \cup {Torn}
    /\ writer \in [Writers -> [pc : {"idle", "open", "write"}, text : [Names -> 0..MaxSaves]]]
    /\ {lock, up, spoilt, misread} \subseteq BOOLEAN
    /\ saves \in 0..MaxSaves /\ boots \in 1..MaxBoots

(* Whenever no request is on its way the next one can begin, for no        *)
(* failure keeps the semaphore; and what the last successful request left  *)
(* is in the file, unless a write failed or was cut short since: no        *)
(* concurrent request overwrites it with an older list. It is in memory    *)
(* again after a restart, unless reading the intact file failed then: the  *)
(* process goes on with an empty list, which its next request stores.      *)
AckedIsStored ==
    (\A w \in Writers : writer[w].pc = "idle") =>
        /\ up => lock
        /\ ~spoilt => file = acked /\ (up /\ ~misread => presets = acked)

===============================================================================
