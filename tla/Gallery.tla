--------------------------------- MODULE Gallery ---------------------------------
(***************************************************************************)
(* The gallery of captured images in a browser (ImageGallery/index.tsx):   *)
(* pages of the catalogue, kept in a query cache; rows marked by their     *)
(* position on the page; the deletion of what is marked, one request after *)
(* the other. Meanwhile images are captured, and other browsers delete.    *)
(*                                                                         *)
(* Images are numbered in the order of their capture. React renders, and   *)
(* runs the component's effects, after every change of its data. The date  *)
(* filter selects other keys of the cache, as pages do, and is left out.   *)
(***************************************************************************)
EXTENDS Integers, Sequences, FiniteSets, FiniteSetsExt

CONSTANTS
    PageSize,       \* 50 in the code
    MaxImages       \* bound: images captured

Images == 1..MaxImages
Pages == 1..MaxImages

VARIABLES
    catalogue,      \* the rows of the database
    captured,       \* how many images were captured
    page,           \* the page shown
    pages,          \* the query cache
    fetching,       \* the pages that are being fetched
    selection,      \* rowSelection: positions on the page
    deleting,       \* what handleDeleteSelected still has to delete
    confirmed,      \* images shown as marked when Delete was pressed
    deleted         \* images whose deletion was requested here

screen   == <<page, pages, fetching, selection>>
deletion == <<deleting, confirmed, deleted>>
vars == <<catalogue, captured, page, pages, fetching, selection, deleting, confirmed, deleted>>

NotLoaded == [loaded |-> FALSE, items |-> << >>, totalPages |-> 1]

Init ==
    /\ catalogue = {} /\ captured = 0
    /\ page = 1 /\ pages = [p \in Pages |-> NotLoaded]
    /\ fetching = {1} /\ selection = {}
    /\ deleting = << >> /\ confirmed = {} /\ deleted = {}

(* Definitions that no action uses are mistakes: the one that follows each *)
(* of them, replaced by it, breaks a property (PROJECT.json, "mutants").   *)

(* What is on the screen, nothing while its page is loading.               *)
images == pages[page].items

(* Mistake: the marks go only with the last image. *)
ClearMarksAtEnd == selection' = IF images' = << >> THEN {} ELSE selection

(* The effect that watches images.length.                                  *)
ClearMarks == selection' = IF Len(images') # Len(images) THEN {} ELSE selection

(***************************************************************************)
(* The catalogue                                                           *)
(***************************************************************************)

(* Images in the order of their capture, the last before the others.       *)
NewestFirst(S) ==
    [k \in 1..Cardinality(S) |-> CHOOSE i \in S : Cardinality({j \in S : j > i}) = k - 1]

(* The newest first; skip, take; and how many pages there are.             *)
GetPage(p) ==
    LET newest == NewestFirst(catalogue)
        total   == Len(newest)
    IN [loaded |-> TRUE,
        items |-> SubSeq(newest, (p - 1) * PageSize + 1, Min({p * PageSize, total})),
        totalPages |-> (total + PageSize - 1) \div PageSize]

Capture ==
    /\ captured < MaxImages
    /\ captured' = captured + 1 /\ catalogue' = catalogue \cup {captured + 1}
    /\ UNCHANGED <<screen, deletion>>

DeleteElsewhere(i) ==
    /\ i \in catalogue
    /\ catalogue' = catalogue \ {i}
    /\ UNCHANGED <<captured, screen, deletion>>

(***************************************************************************)
(* Looking and marking                                                     *)
(***************************************************************************)

(* The answer comes, for the page shown or one left since, or the query    *)
(* fails.                                                                  *)
Fetch(p) ==
    /\ p \in fetching /\ fetching' = fetching \ {p}
    /\ \/ pages' = [pages EXCEPT ![p] = GetPage(p)]
       \/ UNCHANGED pages
    /\ UNCHANGED <<catalogue, captured, page, deletion>>
    /\ ClearMarks

Refresh ==
    /\ fetching' = fetching \cup {page}
    /\ UNCHANGED <<catalogue, captured, page, pages, selection, deletion>>

(* What the cache has of the page is shown while it is fetched again.      *)
SetPage(p) ==
    /\ pages[page].loaded \/ page \notin fetching
    /\ \/ p = page - 1
       \/ p = page + 1 /\ p <= pages[page].totalPages
    /\ page' = p /\ fetching' = fetching \cup {p}
    /\ UNCHANGED <<catalogue, captured, pages, deletion>>
    /\ ClearMarks

(* The cache forgets a page that has not been shown for some time.         *)
Evict(p) ==
    /\ p # page /\ p \notin fetching /\ pages[p].loaded
    /\ pages' = [pages EXCEPT ![p] = NotLoaded]
    /\ UNCHANGED <<catalogue, captured, page, fetching, selection, deletion>>

ToggleRow(k) ==
    /\ k \in DOMAIN images
    /\ selection' = IF k \in selection THEN selection \ {k} ELSE selection \cup {k}
    /\ UNCHANGED <<catalogue, captured, page, pages, fetching, deletion>>

(***************************************************************************)
(* Deleting                                                                *)
(***************************************************************************)

(* The positions become ids now, whatever is on the screen later.          *)
DeleteSelected ==
    /\ deleting = << >> /\ selection # {}
    /\ LET ids == {images[k] : k \in selection \cap DOMAIN images}
       IN deleting' = NewestFirst(ids) /\ confirmed' = confirmed \cup ids
    /\ UNCHANGED <<catalogue, captured, screen, deleted>>

(* Mistake: the marks are looked at again before every request. *)
FirstMarked == IF selection = {} THEN Head(deleting) ELSE images[Min(selection)]

Target == Head(deleting)

(* After the last request the marks go and the pages are fetched again.    *)
Advance(refetch) ==
    /\ deleting' = Tail(deleting)
    /\ selection' = IF Tail(deleting) = << >> THEN {} ELSE selection
    /\ fetching' = IF refetch \/ Tail(deleting) = << >> THEN fetching \cup {page} ELSE fetching
    /\ UNCHANGED <<captured, page, pages, confirmed>>

(* The image is deleted; after each the pages are fetched again.           *)
DeleteOne ==
    /\ deleting # << >>
    /\ Target \in catalogue
    /\ catalogue' = catalogue \ {Target} /\ deleted' = deleted \cup {Target}
    /\ Advance(TRUE)

(* The request fails, or somebody else has deleted the image: go on.       *)
DeleteFails ==
    /\ deleting # << >>
    /\ deleted' = deleted \cup {Target}
    /\ UNCHANGED catalogue
    /\ Advance(FALSE)

(***************************************************************************)
(* The specification                                                       *)
(***************************************************************************)

Next ==
    \/ Capture \/ \E i \in Images : DeleteElsewhere(i)
    \/ Refresh \/ DeleteSelected \/ DeleteOne \/ DeleteFails
    \/ \E p \in Pages : Fetch(p) \/ SetPage(p) \/ Evict(p)
    \/ \E k \in 1..PageSize : ToggleRow(k)

Spec == Init /\ [][Next]_vars

(***************************************************************************)
(* Properties                                                              *)
(***************************************************************************)

(* Every variable has its type.                                            *)
TypeOK ==
    /\ captured \in 0..MaxImages /\ catalogue \subseteq 1..captured
    /\ page \in Pages
    /\ pages \in [Pages -> [loaded : BOOLEAN, items : Seq(Images), totalPages : 0..MaxImages]]
    /\ fetching \subseteq Pages /\ selection \subseteq 1..PageSize
    /\ deleting \in Seq(Images) /\ confirmed \cup deleted \subseteq Images

(* Only images that were shown as marked when Delete was pressed are       *)
(* deleted, though the page is fetched again between the requests and rows *)
(* move up; and every mark belongs to a row, so that the number on the     *)
(* button is the number of images that will go.                            *)
DeletesWhatWasShown ==
    /\ deleted \subseteq confirmed
    /\ selection \subseteq DOMAIN images

(* What the source says and the code does not keep.                        *)

(* "Clear row selection when images list changes (e.g. after delete)"      *)
(* (ImageGallery/index.tsx:78).                                            *)
MarksGoWhenListChanges == [][images' # images => selection' = {}]_vars

===============================================================================
