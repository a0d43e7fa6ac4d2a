----------------------------- MODULE MetadataPage -----------------------------
(***************************************************************************)
(* The page on which a work is found at the metadata providers and saved   *)
(* (workflows/metadata-page.tsx).                                          *)
(*                                                                         *)
(* A search and the import of a result are requests whose answers come     *)
(* later; the page must show the results of the query it says they belong  *)
(* to, and ask about similar works only for a result that is on screen.    *)
(* The state of the page is in "page"; the refs by which it keeps requests *)
(* from overlapping are separate, because buttons follow the state of the  *)
(* mutations and not the refs.                                             *)
(***************************************************************************)
EXTENDS Integers, FiniteSets

CONSTANTS
    Queries,        \* what the user may type
    Rows,           \* the results a search may have
    MaxSearches,    \* how many searches the user starts
    None

VARIABLES
    page,           \* what it shows
    refs,           \* searchInFlight, selectionInFlight, providerRetryInFlight
    providers,      \* the query for the providers of this language
    searches,       \* requests under way
    selections,
    searched        \* how many searches were started

vars == <<page, refs, providers, searches, selections, searched>>

\* The results of the n-th search; the token of a confirmation is that of its
\* result, marked.
Results(n) == [search : {n}, row : Rows, confirm : {FALSE}]

InitialPage ==
    [mounted |-> TRUE, mode |-> None, outcome |-> "initial", submitted |-> 0,
     query |-> None, failed |-> None, results |-> {}, feedback |-> FALSE,
     selectionFeedback |-> None, token |-> None, confirmationOpen |-> FALSE,
     saved |-> None]

Init ==
    /\ page = InitialPage
    /\ refs = [search |-> FALSE, selection |-> FALSE, retry |-> FALSE]
    /\ providers = "idle"
    /\ searches = {}
    /\ selections = {}
    /\ searched = 0

-------------------------------------------------------------------------------
(* The providers.  Only the retry button loads them again after a failure.   *)

ChooseProvider ==
    /\ page.mounted /\ page.mode = None
    /\ page' = [page EXCEPT !.mode = "provider"]
    /\ providers' = "pending"
    /\ UNCHANGED <<refs, searches, selections, searched>>

ProvidersFailed == providers = "error" \/ refs.retry

retryProviders ==
    /\ page.mounted /\ page.mode = "provider"
    /\ ProvidersFailed /\ ~refs.retry
    /\ refs' = [refs EXCEPT !.retry = TRUE]
    /\ providers' = "pending"
    /\ UNCHANGED <<page, searches, selections, searched>>

\* The list arrives, is empty or without a searchable provider, or does not.
ProvidersAnswer ==
    /\ providers = "pending"
    /\ providers' \in {"available", "unavailable", "error"}
    /\ refs' = [refs EXCEPT !.retry = FALSE]
    /\ UNCHANGED <<page, searches, selections, searched>>

\* The language of the interface changes.  The list has another key: it is
\* loaded, or known from before and loaded again; a retry under the old key is
\* cancelled.  What the user works on waits behind it.
ProvidersOfAnotherLanguage ==
    /\ page.mounted /\ page.mode = "provider"
    /\ providers' \in {"pending", "available", "unavailable", "error"}
    /\ refs' = [refs EXCEPT !.retry = FALSE]
    /\ UNCHANGED <<page, searches, selections, searched>>

FormIsShown ==
    /\ page.mounted /\ page.mode = "provider"
    /\ providers = "available" /\ ~ProvidersFailed
    /\ page.saved = None

-------------------------------------------------------------------------------
(* Searching.                                                                *)

\* Wrong: only the search under way keeps another from starting.
MaySearchWhileSelecting == FormIsShown /\ ~refs.search

MaySearch == FormIsShown /\ ~refs.search /\ ~refs.selection

\* onMutate
StartSearch(query) ==
    /\ searched < MaxSearches
    /\ searched' = searched + 1
    /\ refs' = [refs EXCEPT !.search = TRUE]
    /\ searches' = searches \cup {[n |-> searched + 1, query |-> query]}
    /\ page' = [page EXCEPT !.outcome = "pending", !.submitted = searched + 1,
                            !.query = query, !.results = {}, !.feedback = FALSE,
                            !.selectionFeedback = None, !.token = None,
                            !.confirmationOpen = FALSE, !.saved = None]
    /\ UNCHANGED <<providers, selections>>

submitSearch(query) == MaySearch /\ StartSearch(query)

\* The button is there only after a failure.
retrySearch ==
    /\ page.outcome = "error" /\ page.feedback
    /\ page.failed # None
    /\ MaySearch /\ StartSearch(page.failed)

SearchSucceeds(s) ==
    /\ \E results \in SUBSET Results(s.n) :
           page' = IF page.mounted
                   THEN [page EXCEPT !.results = results, !.feedback = FALSE,
                                     !.selectionFeedback = None, !.saved = None, !.failed = None,
                                     !.outcome = IF results = {} THEN "empty" ELSE "success"]
                   ELSE page
    /\ searches' = searches \ {s}
    /\ refs' = [refs EXCEPT !.search = FALSE]
    /\ UNCHANGED <<providers, selections, searched>>

SearchFails(s) ==
    /\ page' = IF page.mounted
               THEN [page EXCEPT !.failed = s.query, !.feedback = TRUE, !.outcome = "error"]
               ELSE page
    /\ searches' = searches \ {s}
    /\ refs' = [refs EXCEPT !.search = FALSE]
    /\ UNCHANGED <<providers, selections, searched>>

-------------------------------------------------------------------------------
(* Saving a result.                                                          *)

\* Wrong: only a search keeps another import from starting.
MaySelectWhileSelecting == ~refs.search

MaySelect == ~refs.selection /\ ~refs.search

selectResult(token) ==
    /\ MaySelect
    /\ refs' = [refs EXCEPT !.selection = TRUE]
    /\ page' = [page EXCEPT !.selectionFeedback = None]
    /\ selections' = selections \cup {[token |-> token, saved |-> FALSE]}
    /\ UNCHANGED <<providers, searches, searched>>

SelectResult(token) == FormIsShown /\ token \in page.results /\ selectResult(token)

\* The button of the dialog.
Confirm ==
    /\ FormIsShown /\ page.confirmationOpen /\ page.token # None
    /\ selectResult(page.token)

\* The dialog can be closed at any time, also while its request is under way.
CloseConfirmation ==
    /\ FormIsShown /\ page.confirmationOpen
    /\ page' = [page EXCEPT !.confirmationOpen = FALSE, !.token = None]
    /\ UNCHANGED <<refs, providers, searches, selections, searched>>

\* The item is shown at once; the request ends when the catalogue is loaded.
SelectionSaves(s) ==
    /\ ~s.saved
    /\ selections' = (selections \ {s}) \cup {[s EXCEPT !.saved = TRUE]}
    /\ page' = [page EXCEPT !.confirmationOpen = FALSE, !.saved = s.token, !.feedback = FALSE,
                            !.selectionFeedback = None, !.token = None]
    /\ UNCHANGED <<refs, providers, searches, searched>>

CatalogIsReloaded(s) ==
    /\ s.saved
    /\ selections' = selections \ {s}
    /\ refs' = [refs EXCEPT !.selection = FALSE]
    /\ UNCHANGED <<page, providers, searches, searched>>

NeedsConfirmation(s) ==
    [page EXCEPT !.token = [s.token EXCEPT !.confirm = TRUE], !.confirmationOpen = TRUE]

HasExpired ==
    [page EXCEPT !.feedback = TRUE, !.results = {}, !.selectionFeedback = None,
                 !.token = None, !.confirmationOpen = FALSE]

FailsOtherwise(s) == [page EXCEPT !.selectionFeedback = s.token]

\* Wrong: a request that failed keeps the page.
FreedOnSuccess(r) == r

Freed(r) == [r EXCEPT !.selection = FALSE]

\* A confirmed import is not asked about again.
SelectionFails(s) ==
    /\ ~s.saved
    /\ page' \in {HasExpired, FailsOtherwise(s)}
                 \cup (IF s.token.confirm THEN {} ELSE {NeedsConfirmation(s)})
    /\ selections' = selections \ {s}
    /\ refs' = Freed(refs)
    /\ UNCHANGED <<providers, searches, searched>>

-------------------------------------------------------------------------------
\* The page is left without a question; what is still under way changes nothing
\* that is shown afterwards.
Leave ==
    /\ page.mounted
    /\ page' = [InitialPage EXCEPT !.mounted = FALSE]
    /\ refs' = [search |-> FALSE, selection |-> FALSE, retry |-> FALSE]
    /\ providers' = "idle"
    /\ searches' = {} /\ selections' = {}
    /\ searched' = 0

User ==
    \/ ChooseProvider \/ retryProviders
    \/ (\E query \in Queries : submitSearch(query)) \/ retrySearch
    \/ (\E token \in page.results : SelectResult(token)) \/ Confirm \/ CloseConfirmation

SearchEnds == \E s \in searches : SearchSucceeds(s) \/ SearchFails(s)

SelectionEnds ==
    \E s \in selections : SelectionSaves(s) \/ CatalogIsReloaded(s) \/ SelectionFails(s)

Answer == ProvidersAnswer \/ SearchEnds \/ SelectionEnds

Next == User \/ Answer \/ Leave \/ ProvidersOfAnotherLanguage

Spec == Init /\ [][Next]_vars

\* Requests end; the user is not fair, and may change the language for ever.
Fairness == WF_vars(SearchEnds) /\ WF_vars(SelectionEnds)

-------------------------------------------------------------------------------
\* What is on the screen belongs together: results, and a failure that can be
\* tried again, are of the query that is named above them, and a question about
\* similar works, or the item that was saved, is of a result of that query.
ShownBelongsToTheQuery ==
    /\ \A r \in page.results : r.search = page.submitted
    /\ page.outcome = "error" => page.failed = page.query
    /\ page.token # None => page.token.search = page.submitted
    /\ page.saved # None => page.saved.search = page.submitted

\* A work is not imported twice from one page: once an item is saved no other
\* request to import is under way, and none starts before another search.
ImportedOnce ==
    page.saved # None => \A s \in selections : s.token = page.saved /\ s.saved

\* The search and the import are over at some time, and let the next one start.
RequestsEnd == (refs.search ~> ~refs.search) /\ (refs.selection ~> ~refs.selection)

===============================================================================
