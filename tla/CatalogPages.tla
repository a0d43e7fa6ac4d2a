----------------------------- MODULE CatalogPages -----------------------------
(***************************************************************************)
(* The pages on which works enter the catalogue, in one tab (app-router):  *)
(* "add", where a provider is searched, leads to "add/manual"; a stored    *)
(* manual work is changed on "items/:itemId/edit".  One page is mounted at *)
(* a time, with a state of its own that goes with it.                      *)
(***************************************************************************)
EXTENDS Integers

CONSTANTS
    Queries, Rows, MaxSearches,
    MaxSeasons, MaxEpisodes, Texts, Collections, MaxReads,
    None

ASSUME BoundsAssumption ==
    /\ MaxSearches \in Nat \ {0}
    /\ MaxSeasons \in Nat /\ MaxEpisodes \in Nat /\ MaxReads \in Nat
    /\ None \notin Nat

VARIABLES
    page, refs, providers, searches, selections, searched,
    kind, ui, call, reads, wanted, agreed,
    route

metadata == <<page, refs, providers, searches, selections, searched>>
manual == <<kind, ui, call, reads, wanted, agreed>>
vars == <<metadata, manual, route>>

Metadata == INSTANCE MetadataPage
Manual == INSTANCE ManualPages

Init ==
    /\ Metadata!Init /\ Manual!Init
    /\ route \in {"add", "items/:itemId/edit"}
    /\ kind = (IF route = "add" THEN "add" ELSE "edit")

OnMetadataPage == route = "add" /\ Metadata!Next /\ UNCHANGED <<manual, route>>

OnManualPage == route # "add" /\ Manual!Next /\ UNCHANGED <<metadata, route>>

\* The link to the manual page is there until a work has been saved.
ChooseManual ==
    /\ route = "add"
    /\ page.mounted /\ (page.mode = "provider" => ~Metadata!FormIsShown /\ page.saved = None)
    /\ route' = "add/manual"
    /\ Metadata!Leave
    /\ UNCHANGED manual

Next == OnMetadataPage \/ OnManualPage \/ ChooseManual

\* Requests and reads end (the fairness of the pages).
Spec == Init /\ [][Next]_vars /\ Metadata!Fairness /\ Manual!Fairness

-------------------------------------------------------------------------------
\* On the page where providers are searched (see MetadataPage): what is on the
\* screen is of one query.
ShownBelongsToTheQuery == Metadata!ShownBelongsToTheQuery

\* On that page, one item is imported at a time, and nothing after it.
ImportedOnce == Metadata!ImportedOnce

\* On the manual pages (see ManualPages): what is being saved, or asked about,
\* is the draft on the screen.
SavedIsWhatIsOnScreen == Manual!SavedIsWhatIsOnScreen

\* On the manual pages, no draft is lost to leaving, saving or a late file
\* without the user's word.
NothingIsDiscardedUnasked == Manual!NothingIsDiscardedUnasked

\* On the manual pages, a review of a removal stays true until it is answered,
\* and a season or an episode leaves the document only when the user answers
\* yes to a review that names it, or gives up the whole draft.
ReviewsStayTrue == Manual!ReviewsStayTrue

\* Every page gets free again of what it waits for.
PagesAreFreed == Metadata!RequestsEnd /\ Manual!PageIsFreed

===============================================================================
