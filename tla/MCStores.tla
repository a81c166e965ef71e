-------------------------------- MODULE MCStores --------------------------------
(***************************************************************************)
(* The small parts of the program for TLC, side by side: the log of        *)
(* channel events, the repository of latency records, the presets, the     *)
(* statistics, the status feed and the gallery. They share nothing, so a   *)
(* behaviour steps only the one that "which" chose.                        *)
(***************************************************************************)
EXTENDS ChannelEventLog

CONSTANTS
    Adders, MaxId,                                  \* LatencyRepository
    Names, Writers, MaxSaves, MaxBoots, Torn,       \* PresetService
    MaxTime, MaxCount,                              \* AcquisitionStatistics
    Raisers, MaxVersion, MaxStreams,                \* StatusFeed
    PageSize, MaxImages                             \* Gallery

ASSUME StoresAssumption ==
    /\ {MaxId, MaxSaves, MaxTime, MaxCount, MaxVersion, MaxStreams} \subseteq Nat
    /\ {MaxBoots, PageSize, MaxImages} \subseteq Nat \ {0}
    /\ Torn \notin [Names -> 0..MaxSaves]

VARIABLES
    which,
    records, nextId, adder,
    presets, file, writer, lock, saves, up, boots, acked, spoilt, misread,
    clock, ticking, frames, dropped, errors, shortest, longest, total, last, first,
    active, version, announced, raiser, stream, queue, crossed, live, cache, fetch,
    catalogue, captured, page, pages, fetching, selection, deleting, confirmed, deleted

Repository == INSTANCE LatencyRepository
Presets == INSTANCE PresetService
Statistics == INSTANCE AcquisitionStatistics
Feed == INSTANCE StatusFeed
Pictures == INSTANCE Gallery

logVars == <<buffer, head, count>>
repositoryVars == <<records, nextId, adder>>
presetVars == <<presets, file, writer, lock, saves, up, boots, acked, spoilt, misread>>
statisticsVars == <<clock, ticking, frames, dropped, errors, shortest, longest, total, last, first>>
feedVars == <<active, version, announced, raiser, stream, queue, crossed, live, cache, fetch>>
galleryVars ==
    <<catalogue, captured, page, pages, fetching, selection, deleting, confirmed, deleted>>

MCInit ==
    /\ which \in {"log", "repository", "presets", "statistics", "feed", "gallery"}
    /\ Init /\ Repository!Init /\ Presets!Init /\ Statistics!Init /\ Feed!Init /\ Pictures!Init

Unless(part, variables) == IF which = part THEN TRUE ELSE UNCHANGED variables

MCNext ==
    /\ \/ which = "log" /\ Next
       \/ which = "repository" /\ Repository!Next
       \/ which = "presets" /\ Presets!Next
       \/ which = "statistics" /\ Statistics!Next
       \/ which = "feed" /\ Feed!Next
       \/ which = "gallery" /\ Pictures!Next
    /\ Unless("log", logVars)
    /\ Unless("repository", repositoryVars)
    /\ Unless("presets", presetVars)
    /\ Unless("statistics", statisticsVars)
    /\ Unless("feed", feedVars)
    /\ Unless("gallery", galleryVars)
    /\ UNCHANGED which

MCSpec ==
    MCInit /\ [][MCNext]_<<which, logVars, repositoryVars, presetVars, statisticsVars,
                           feedVars, galleryVars>>

(* Every variable of the six has its type.                                 *)
TypesOK ==
    /\ TypeOK /\ Repository!TypeOK /\ Presets!TypeOK
    /\ Statistics!TypeOK /\ Feed!TypeOK /\ Pictures!TypeOK

(* The repository keeps the last Capacity records (LatencyRepository.cs:34)*)
RepositoryIsHistory == Repository!RepositoryIsHistory

(* What a request saved is stored, unless writing it failed, and read again*)
(* unless reading it fails; the semaphore comes back                       *)
(* (AcquisitionPresetService.cs:32-85).                                    *)
AckedIsStored == Presets!AckedIsStored

(* The average interval is not above the longest and, if the first frame   *)
(* did not come at 0, not below the shortest                               *)
(* (AcquisitionStatistics.cs:135-156, 217-219).                            *)
AverageInRange == Statistics!AverageInRange

(* The last message that a connected browser was sent is as new as the last*)
(* announced change, unless messages crossed                               *)
(* (AcquisitionController.cs:112-151).                                     *)
QuietMeansCurrent == Feed!QuietMeansCurrent

(* A browser does not show an ended session as active for ever             *)
(* (useAcquisitionSession.ts:18-22).                                       *)
StaleActiveHeals == Feed!StaleActiveHeals

(* Only what was shown as marked is deleted (ImageGallery/index.tsx:92-107)*)
DeletesWhatWasShown == Pictures!DeletesWhatWasShown

===============================================================================
