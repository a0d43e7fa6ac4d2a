-------------------------- MODULE CatalogPagesProofs --------------------------
(***************************************************************************)
(* Proofs about CatalogPages for every set of queries, results, texts and  *)
(* collections, and any number of searches, rows and files.                *)
(***************************************************************************)
EXTENDS CatalogPages, FiniteSetTheorems, WellFoundedInduction, TLAPS

(***************************************************************************)
(* The page on which providers are searched.                               *)
(***************************************************************************)

Token == [search : Nat, row : Rows, confirm : BOOLEAN]

PageType ==
    [mounted : BOOLEAN, mode : {None, "provider"},
     outcome : {"initial", "pending", "empty", "success", "error"},
     submitted : Nat, query : Queries \cup {None}, failed : Queries \cup {None},
     results : SUBSET Token, feedback : BOOLEAN, selectionFeedback : Token \cup {None},
     token : Token \cup {None}, confirmationOpen : BOOLEAN, saved : Token \cup {None}]

MetadataTypeOK ==
    /\ page \in PageType
    /\ refs \in [search : BOOLEAN, selection : BOOLEAN, retry : BOOLEAN]
    /\ searches \subseteq [n : Nat, query : Queries \cup {None}]
    /\ selections \subseteq [token : Token, saved : BOOLEAN]
    /\ searched \in Nat

\* The search under way is the one whose query is shown, and nobody can start
\* another meanwhile.
OneSearch ==
    /\ page.submitted = searched
    /\ searches # {} => refs.search
    /\ \A s \in searches : s.n = page.submitted /\ s.query = page.query

\* One result is imported at a time, and it is of the search that is shown.
OneSelection ==
    /\ selections # {} => refs.selection
    /\ \A s, t \in selections : s = t
    /\ \A s \in selections : s.token.search = page.submitted

MetadataInductive ==
    /\ MetadataTypeOK
    /\ OneSearch
    /\ OneSelection
    /\ Metadata!ShownBelongsToTheQuery
    /\ Metadata!ImportedOnce

LEMMA InitialPageType ==
  /\ Metadata!InitialPage \in PageType
  /\ [Metadata!InitialPage EXCEPT !.mounted = FALSE] \in PageType
  BY DEF Metadata!InitialPage, PageType

LEMMA MetadataInit == Init => MetadataInductive
<1> SUFFICES ASSUME Init PROVE MetadataInductive
  OBVIOUS
<1>1. MetadataTypeOK
  BY InitialPageType DEF Init, Metadata!Init, MetadataTypeOK
<1> QED
  BY <1>1 DEF Init, Metadata!Init, Metadata!InitialPage, MetadataInductive, OneSearch,
         OneSelection, Metadata!ShownBelongsToTheQuery, Metadata!ImportedOnce

\* A search starts only when nothing is under way, and clears the screen.
LEMMA StartSearchKeeps ==
  ASSUME MetadataInductive, Metadata!MaySearch, NEW query \in Queries, Metadata!StartSearch(query)
  PROVE  MetadataInductive'
<1>1. page \in PageType /\ searched \in Nat /\ searched + 1 \in Nat
  BY DEF MetadataInductive, MetadataTypeOK
<1>2. searches = {} /\ selections = {}
  BY DEF MetadataInductive, OneSearch, OneSelection, Metadata!MaySearch
<1>3. page' = [page EXCEPT !.outcome = "pending", !.submitted = searched + 1,
                           !.query = query, !.results = {}, !.feedback = FALSE,
                           !.selectionFeedback = None, !.token = None,
                           !.confirmationOpen = FALSE, !.saved = None]
  BY DEF Metadata!StartSearch
<1>4. /\ refs' = [refs EXCEPT !.search = TRUE]
      /\ searches' = {[n |-> searched + 1, query |-> query]}
      /\ selections' = {} /\ searched' = searched + 1
  BY <1>2 DEF Metadata!StartSearch
<1>5. MetadataTypeOK'
  <2>1. page' \in PageType
    BY <1>1, <1>3 DEF PageType
  <2>2. refs' \in [search : BOOLEAN, selection : BOOLEAN, retry : BOOLEAN]
    BY <1>4 DEF MetadataInductive, MetadataTypeOK
  <2>3. [n |-> searched + 1, query |-> query] \in [n : Nat, query : Queries \cup {None}]
    BY <1>1
  <2> QED BY <1>1, <1>4, <2>1, <2>2, <2>3 DEF MetadataTypeOK
<1>6. /\ page'.outcome = "pending" /\ page'.submitted = searched + 1 /\ page'.query = query
      /\ page'.results = {} /\ page'.token = None /\ page'.saved = None
  BY <1>1, <1>3 DEF PageType
<1>7. refs'.search
  BY <1>4 DEF MetadataInductive, MetadataTypeOK
<1> QED
  BY <1>4, <1>6, <1>7, <1>5
  DEF MetadataInductive, OneSearch, OneSelection, Metadata!ShownBelongsToTheQuery,
      Metadata!ImportedOnce

\* The answer of a search replaces what is shown with what it was asked for.
LEMMA SearchEndsKeeps ==
  ASSUME MetadataInductive, NEW s \in searches,
         Metadata!SearchSucceeds(s) \/ Metadata!SearchFails(s)
  PROVE  MetadataInductive'
<1>1. searches' = {} /\ UNCHANGED <<selections, searched>>
      /\ refs' = [refs EXCEPT !.search = FALSE]
  <2>1. \A t \in searches : t = s
    BY DEF MetadataInductive, MetadataTypeOK, OneSearch
  <2> QED BY <2>1 DEF Metadata!SearchSucceeds, Metadata!SearchFails
<1>2. s.n = page.submitted /\ s.query = page.query /\ s.n \in Nat /\ s.query \in Queries \cup {None}
  BY DEF MetadataInductive, MetadataTypeOK, OneSearch
<1>0. page \in PageType
  BY DEF MetadataInductive, MetadataTypeOK
<1>3. CASE ~page.mounted
  BY <1>1, <1>3
  DEF MetadataInductive, MetadataTypeOK, OneSearch, OneSelection, Metadata!ShownBelongsToTheQuery,
      Metadata!ImportedOnce, Metadata!SearchSucceeds, Metadata!SearchFails
<1>4. CASE page.mounted /\ Metadata!SearchFails(s)
  <2>1. page' = [page EXCEPT !.failed = s.query, !.feedback = TRUE, !.outcome = "error"]
    BY <1>4 DEF Metadata!SearchFails
  <2>2. page' \in PageType
    BY <1>2, <1>0, <2>1 DEF PageType
  <2>3. /\ page'.failed = page.query /\ page'.query = page.query
        /\ page'.submitted = page.submitted /\ page'.results = page.results
        /\ page'.token = page.token /\ page'.saved = page.saved
    BY <1>2, <1>0, <2>1 DEF PageType
  <2>4. MetadataTypeOK'
    BY <1>1, <2>2 DEF MetadataInductive, MetadataTypeOK
  <2>5. refs'.selection = refs.selection
    BY <1>1 DEF MetadataInductive, MetadataTypeOK
  <2> QED
    BY <1>1, <2>3, <2>4, <2>5
    DEF MetadataInductive, OneSearch, OneSelection, Metadata!ShownBelongsToTheQuery,
        Metadata!ImportedOnce
<1>5. ASSUME page.mounted, NEW results \in SUBSET Metadata!Results(s.n),
             page' = [page EXCEPT !.results = results, !.feedback = FALSE,
                          !.selectionFeedback = None, !.saved = None, !.failed = None,
                          !.outcome = IF results = {} THEN "empty" ELSE "success"]
      PROVE  MetadataInductive'
  <2>1. results \in SUBSET Token /\ \A r \in results : r.search = s.n
    BY <1>2, <1>5 DEF Metadata!Results, Token
  <2>2. MetadataTypeOK'
    <3>1. page' \in PageType
      BY <1>0, <1>5, <2>1, ZenonT(120) DEF PageType
    <3> QED BY <1>1, <3>1 DEF MetadataInductive, MetadataTypeOK
  <2>3. /\ page'.outcome # "error" /\ page'.submitted = page.submitted
        /\ page'.results = results /\ page'.token = page.token /\ page'.saved = None
    BY <1>0, <1>5 DEF PageType
  <2>4. refs'.selection = refs.selection
    BY <1>1 DEF MetadataInductive, MetadataTypeOK
  <2> QED
    BY <1>1, <1>2, <2>1, <2>2, <2>3, <2>4
    DEF MetadataInductive, OneSearch, OneSelection, Metadata!ShownBelongsToTheQuery,
        Metadata!ImportedOnce
<1> QED BY <1>3, <1>4, <1>5 DEF Metadata!SearchSucceeds

\* An import starts only when no other is under way and nothing is saved.
LEMMA SelectKeeps ==
  ASSUME MetadataInductive, NEW token \in Token, token.search = page.submitted,
         Metadata!FormIsShown, Metadata!selectResult(token)
  PROVE  MetadataInductive'
<1>1. selections = {} /\ page.saved = None
  BY DEF MetadataInductive, OneSelection, Metadata!selectResult, Metadata!MaySelect,
         Metadata!FormIsShown
<1>2. /\ selections' = {[token |-> token, saved |-> FALSE]}
      /\ page' = [page EXCEPT !.selectionFeedback = None]
      /\ refs' = [refs EXCEPT !.selection = TRUE]
      /\ UNCHANGED <<searches, searched>>
  BY <1>1 DEF Metadata!selectResult
<1>3. page \in PageType
  BY DEF MetadataInductive, MetadataTypeOK
<1>4. /\ page' \in PageType
      /\ page'.submitted = page.submitted /\ page'.query = page.query
      /\ page'.results = page.results /\ page'.outcome = page.outcome
      /\ page'.failed = page.failed /\ page'.saved = page.saved /\ page'.token = page.token
  BY <1>2, <1>3 DEF PageType
<1>5. MetadataTypeOK'
  <2>1. refs' \in [search : BOOLEAN, selection : BOOLEAN, retry : BOOLEAN]
    BY <1>2 DEF MetadataInductive, MetadataTypeOK
  <2>2. [token |-> token, saved |-> FALSE] \in [token : Token, saved : BOOLEAN]
    OBVIOUS
  <2> QED BY <1>2, <1>4, <2>1, <2>2 DEF MetadataInductive, MetadataTypeOK
<1>6. refs'.search = refs.search /\ refs'.selection
  BY <1>2 DEF MetadataInductive, MetadataTypeOK
<1> QED
  BY <1>1, <1>2, <1>4, <1>5, <1>6
  DEF MetadataInductive, OneSearch, OneSelection, Metadata!ShownBelongsToTheQuery,
      Metadata!ImportedOnce

\* An import that saves shows its item; one that fails asks, or frees the page.
LEMMA SelectionEndsKeeps ==
  ASSUME MetadataInductive, NEW s \in selections,
         \/ Metadata!SelectionSaves(s)
         \/ Metadata!CatalogIsReloaded(s)
         \/ Metadata!SelectionFails(s)
  PROVE  MetadataInductive'
<1>0. s.token \in Token /\ s.token.search = page.submitted /\ \A t \in selections : t = s
  BY DEF MetadataInductive, MetadataTypeOK, OneSelection
<1>4. page \in PageType
  BY DEF MetadataInductive, MetadataTypeOK
<1>1. CASE Metadata!SelectionSaves(s)
  <2>1. /\ selections' = {[s EXCEPT !.saved = TRUE]}
        /\ page' = [page EXCEPT !.confirmationOpen = FALSE, !.saved = s.token,
                         !.feedback = FALSE, !.selectionFeedback = None, !.token = None]
        /\ UNCHANGED <<refs, searches, searched>>
    BY <1>0, <1>1 DEF Metadata!SelectionSaves
  <2>2. \A t \in selections' : t.token = s.token /\ t.saved /\ t \in [token : Token, saved : BOOLEAN]
    BY <2>1 DEF MetadataInductive, MetadataTypeOK
  <2>3. MetadataTypeOK'
    <3>1. page' \in PageType
      BY <1>0, <1>4, <2>1 DEF PageType
    <3> QED BY <2>1, <2>2, <3>1 DEF MetadataInductive, MetadataTypeOK
  <2>4. /\ page'.saved = s.token /\ page'.token = None /\ page'.submitted = page.submitted
        /\ page'.results = page.results /\ page'.outcome = page.outcome
        /\ page'.failed = page.failed /\ page'.query = page.query
    BY <1>4, <2>1 DEF PageType
  <2> QED
    BY <1>0, <2>1, <2>2, <2>3, <2>4
    DEF MetadataInductive, OneSearch, OneSelection, Metadata!ShownBelongsToTheQuery,
        Metadata!ImportedOnce
<1>2. CASE Metadata!CatalogIsReloaded(s)
  <2>1. selections' = {} /\ refs' = [refs EXCEPT !.selection = FALSE]
        /\ UNCHANGED <<page, searches, searched>>
    BY <1>0, <1>2 DEF Metadata!CatalogIsReloaded
  <2> QED
    BY <2>1
    DEF MetadataInductive, MetadataTypeOK, OneSearch, OneSelection,
        Metadata!ShownBelongsToTheQuery, Metadata!ImportedOnce
<1>3. CASE Metadata!SelectionFails(s)
  <2>1. selections' = {} /\ refs' = [refs EXCEPT !.selection = FALSE]
        /\ UNCHANGED <<searches, searched>>
        /\ ~s.saved
    BY <1>0, <1>3 DEF Metadata!SelectionFails, Metadata!Freed
  <2>2. page.saved = None
    BY <2>1 DEF MetadataInductive, Metadata!ImportedOnce
  <2>3. page' \in {Metadata!HasExpired, Metadata!FailsOtherwise(s), Metadata!NeedsConfirmation(s)}
    BY <1>3 DEF Metadata!SelectionFails
  <2>4. /\ page' \in PageType
        /\ page'.submitted = page.submitted /\ page'.query = page.query
        /\ page'.results \in {{}, page.results} /\ page'.outcome = page.outcome
        /\ page'.failed = page.failed /\ page'.saved = None
        /\ page'.token # None => page'.token.search = page.submitted \/ page'.token = page.token
    <3>1. CASE page' = Metadata!HasExpired
      BY <1>4, <2>2, <3>1, ZenonT(120) DEF PageType, Metadata!HasExpired
    <3>2. CASE page' = Metadata!FailsOtherwise(s)
      BY <1>0, <1>4, <2>2, <3>2 DEF PageType, Metadata!FailsOtherwise
    <3>3. CASE page' = Metadata!NeedsConfirmation(s)
      <4> DEFINE asked == [s.token EXCEPT !.confirm = TRUE]
      <4>1. asked \in Token /\ asked.search = page.submitted
        BY <1>0 DEF Token
      <4>2. page' = [page EXCEPT !.token = asked, !.confirmationOpen = TRUE]
        BY <3>3 DEF Metadata!NeedsConfirmation
      <4> HIDE DEF asked
      <4> QED BY <1>4, <2>2, <4>1, <4>2, ZenonT(120) DEF PageType
    <3> QED BY <2>3, <3>1, <3>2, <3>3
  <2>5. MetadataTypeOK'
    BY <2>1, <2>4 DEF MetadataInductive, MetadataTypeOK
  <2>6. refs'.search = refs.search
    BY <2>1 DEF MetadataInductive, MetadataTypeOK
  <2> QED
    BY <2>1, <2>4, <2>5, <2>6
    DEF MetadataInductive, OneSearch, OneSelection, Metadata!ShownBelongsToTheQuery,
        Metadata!ImportedOnce
<1> QED BY <1>1, <1>2, <1>3

\* What the user does, beside searching and saving, and the list of providers.
LEMMA OthersKeep ==
  ASSUME MetadataInductive,
         \/ Metadata!ChooseProvider \/ Metadata!retryProviders \/ Metadata!ProvidersAnswer
         \/ Metadata!ProvidersOfAnotherLanguage \/ Metadata!CloseConfirmation
  PROVE  MetadataInductive'
<1>1. UNCHANGED <<searches, selections, searched>>
  BY DEF Metadata!ChooseProvider, Metadata!retryProviders, Metadata!ProvidersAnswer,
         Metadata!ProvidersOfAnotherLanguage, Metadata!CloseConfirmation
<1>2. refs' \in {refs, [refs EXCEPT !.retry = TRUE], [refs EXCEPT !.retry = FALSE]}
  BY DEF Metadata!ChooseProvider, Metadata!retryProviders, Metadata!ProvidersAnswer,
         Metadata!ProvidersOfAnotherLanguage, Metadata!CloseConfirmation
<1>3. page' \in {page, [page EXCEPT !.mode = "provider"],
                 [page EXCEPT !.confirmationOpen = FALSE, !.token = None]}
  BY DEF Metadata!ChooseProvider, Metadata!retryProviders, Metadata!ProvidersAnswer,
         Metadata!ProvidersOfAnotherLanguage, Metadata!CloseConfirmation
<1>4. page \in PageType
  BY DEF MetadataInductive, MetadataTypeOK
<1>5. /\ page' \in PageType
      /\ page'.submitted = page.submitted /\ page'.query = page.query
      /\ page'.results = page.results /\ page'.outcome = page.outcome
      /\ page'.failed = page.failed /\ page'.saved = page.saved
      /\ page'.token \in {page.token, None}
  BY <1>3, <1>4, ZenonT(120) DEF PageType
<1>6. /\ MetadataTypeOK'
      /\ refs'.search = refs.search /\ refs'.selection = refs.selection
  BY <1>1, <1>2, <1>5 DEF MetadataInductive, MetadataTypeOK
<1> QED
  BY <1>1, <1>5, <1>6
  DEF MetadataInductive, OneSearch, OneSelection, Metadata!ShownBelongsToTheQuery,
      Metadata!ImportedOnce

LEMMA LeaveKeeps == MetadataInductive /\ Metadata!Leave => MetadataInductive'
<1> SUFFICES ASSUME Metadata!Leave PROVE MetadataInductive'
  OBVIOUS
<1>1. MetadataTypeOK'
  BY InitialPageType DEF Metadata!Leave, MetadataTypeOK
<1>2. /\ page'.submitted = 0 /\ page'.outcome = "initial" /\ page'.results = {}
      /\ page'.token = None /\ page'.saved = None
  BY DEF Metadata!Leave, Metadata!InitialPage
<1> QED
  BY <1>1, <1>2 DEF Metadata!Leave, MetadataInductive, OneSearch,
         OneSelection, Metadata!ShownBelongsToTheQuery, Metadata!ImportedOnce

LEMMA MetadataStep == MetadataInductive /\ [Next]_vars => MetadataInductive'
<1> SUFFICES ASSUME MetadataInductive, [Next]_vars PROVE MetadataInductive'
  OBVIOUS
<1>1. ASSUME NEW query \in Queries, Metadata!submitSearch(query) PROVE MetadataInductive'
  BY <1>1, StartSearchKeeps DEF Metadata!submitSearch
<1>2. CASE Metadata!retrySearch
  <2>1. page.failed \in Queries
    BY <1>2 DEF MetadataInductive, MetadataTypeOK, PageType, Metadata!retrySearch
  <2> QED BY <1>2, <2>1, StartSearchKeeps DEF Metadata!retrySearch
<1>3. ASSUME NEW token \in page.results, Metadata!SelectResult(token) PROVE MetadataInductive'
  <2>1. token \in Token /\ token.search = page.submitted
    BY DEF MetadataInductive, MetadataTypeOK, PageType, Metadata!ShownBelongsToTheQuery
  <2> QED BY <1>3, <2>1, SelectKeeps DEF Metadata!SelectResult
<1>4. CASE Metadata!Confirm
  <2>1. page.token \in Token /\ page.token.search = page.submitted
    BY <1>4 DEF MetadataInductive, MetadataTypeOK, PageType, Metadata!ShownBelongsToTheQuery,
                Metadata!Confirm
  <2> QED BY <1>4, <2>1, SelectKeeps DEF Metadata!Confirm
<1>5. CASE Metadata!SearchEnds
  BY <1>5, SearchEndsKeeps DEF Metadata!SearchEnds
<1>6. CASE Metadata!SelectionEnds
  BY <1>6, SelectionEndsKeeps DEF Metadata!SelectionEnds
<1>7. CASE Metadata!Leave
  BY <1>7, LeaveKeeps
<1>8. CASE UNCHANGED metadata
  BY <1>8 DEF metadata, MetadataInductive, MetadataTypeOK, OneSearch, OneSelection,
         Metadata!ShownBelongsToTheQuery, Metadata!ImportedOnce
<1>9. CASE Metadata!Next
  BY <1>9, <1>1, <1>2, <1>3, <1>4, <1>5, <1>6, <1>7, OthersKeep
  DEF Metadata!Next, Metadata!User, Metadata!Answer
<1> QED BY <1>7, <1>8, <1>9 DEF Next, OnMetadataPage, OnManualPage, ChooseManual, vars

\* What the page for providers shows is of the query it names: late answers,
\* failures and confirmations never mix two searches.
THEOREM ScreenIsOfOneQuery == Spec => []ShownBelongsToTheQuery
<1>1. MetadataInductive => ShownBelongsToTheQuery
  BY DEF MetadataInductive, ShownBelongsToTheQuery
<1> QED BY <1>1, MetadataInit, MetadataStep, PTL DEF Spec

\* A work is never imported twice from one page.
THEOREM ImportsHappenOnce == Spec => []ImportedOnce
<1>1. MetadataInductive => ImportedOnce
  BY DEF MetadataInductive, ImportedOnce
<1> QED BY <1>1, MetadataInit, MetadataStep, PTL DEF Spec

(***************************************************************************)
(* The manual pages.  Nothing is said of a page that has been left.        *)
(***************************************************************************)

UiFields == {"open", "operation", "document", "rawLists", "collection", "mode", "source", "review",
             "draftReview", "token", "reset", "unsaved", "blocked", "shown", "generation"}

DocumentFields == {"kind", "title", "fields", "lists", "rows"}

ManualShape ==
    /\ DOMAIN ui = UiFields
    /\ DOMAIN ui.document = DocumentFields
    /\ IsFiniteSet(reads)
    /\ \A r \in reads : r.n \in 1..MaxReads

\* One thing at a time: what is reviewed, asked, sent or read excludes all
\* others, and "operation" says which it is.
OneOperation ==
    ui.open =>
        /\ call # None => ui.operation \in {"submitting", "confirming"}
        /\ ui.review # None => /\ ui.operation = "reviewing"
                               /\ ui.draftReview = None /\ ui.token = None /\ ~ui.reset
        /\ ui.draftReview # None => /\ ui.operation = "reviewing"
                                    /\ ui.token = None /\ ~ui.reset
        /\ ui.token # None => ui.operation \in {"reviewing", "confirming"} /\ ~ui.reset
        /\ ui.reset => ui.operation = "reviewing"
        /\ ui.generation # 0 => ui.operation = "reading" /\ ui.generation = wanted

\* A request is of the draft on the screen, and once it has been sent the other
\* draft is empty or has been given up.
Faithful(request) ==
    /\ request.draft \in {"structured", "source"}
    /\ Manual!OnScreen(request)

OtherIsFree(request) ==
    IF request.draft = "structured" THEN ui.source # None => "source" \in agreed
    ELSE "structured" \in agreed \/ Manual!DraftEquals(ui.collection)

RequestsAreFaithful ==
    ui.open =>
        /\ ui.draftReview # None => Faithful(ui.draftReview)
        /\ ui.token # None => Faithful(ui.token) /\ OtherIsFree(ui.token)
        /\ call # None => /\ DOMAIN call = {"kind", "request", "saved"}
                          /\ Faithful(call.request) /\ OtherIsFree(call.request)

\* A review names rows that are there, and counts what hangs on them.
ReviewIsTrue ==
    LET s == ui.review.season
        e == ui.review.episode
    IN  IF s = None THEN e = None /\ ui.review.descendantCount = Manual!EpisodeCount
        ELSE /\ s \in DOMAIN ui.document.rows
             /\ IF e = None
                THEN ui.review.descendantCount = Manual!Cardinality(ui.document.rows[s])
                ELSE e \in ui.document.rows[s]

ManualInductive ==
    /\ ManualShape
    /\ OneOperation
    /\ RequestsAreFaithful
    /\ ui.open /\ ui.review # None => ReviewIsTrue

\* Nothing is under way between operations, and while a file is being read.
LEMMA NothingIsPending ==
  ASSUME ManualInductive, ui.open, ui.operation \in {"idle", "reading"}
  PROVE  ui.review = None /\ ui.draftReview = None /\ ui.token = None /\ ~ui.reset /\ call = None
  BY DEF ManualInductive, OneOperation

\* What is on the screen is a matter of four fields.
LEMMA ScreenStays ==
  ASSUME UNCHANGED kind, ui'.document = ui.document, ui'.rawLists = ui.rawLists,
         ui'.collection = ui.collection, ui'.source = ui.source
  PROVE  /\ \A request : Manual!OnScreen(request)' = Manual!OnScreen(request)
         /\ \A request : Faithful(request)' = Faithful(request)
         /\ \A c : Manual!DraftEquals(c)' = Manual!DraftEquals(c)
  <1>1. Manual!StructuredRequest' = Manual!StructuredRequest
    BY DEF Manual!StructuredRequest, Manual!projectManualDocument
  <1>2. Manual!SourceRequest' = Manual!SourceRequest
    BY DEF Manual!SourceRequest
  <1>3. \A request : Manual!OnScreen(request)' = Manual!OnScreen(request)
    BY <1>1, <1>2 DEF Manual!OnScreen
  <1>4. \A c : Manual!DraftEquals(c)' = Manual!DraftEquals(c)
    BY DEF Manual!DraftEquals, Manual!InitialDocument, Manual!createManualDocument, Manual!manualDocumentFromItem
  <1> QED BY <1>3, <1>4 DEF Faithful

\* Steps after which nothing is pending.
LEMMA QuietKeeps ==
  ASSUME ManualShape', call' = None,
         ui'.open =>
             /\ ui'.review = None /\ ui'.draftReview = None /\ ui'.token = None /\ ~ui'.reset
             /\ ui'.generation # 0 => ui'.operation = "reading" /\ ui'.generation = wanted'
  PROVE  ManualInductive'
  BY DEF ManualInductive, OneOperation, RequestsAreFaithful

\* A page that is left is not of interest any more.
LEMMA LeftKeeps ==
  ASSUME ManualShape', ~ui'.open
  PROVE  ManualInductive'
  BY DEF ManualInductive, OneOperation, RequestsAreFaithful

\* The fields of the page that a step leaves alone.
Unchanged(others) ==
    /\ DOMAIN ui' = UiFields
    /\ \A field \in UiFields \ others : ui'[field] = ui[field]

\* Steps by which what is pending is kept, passed on or given up, while the
\* screen stays as it is.
LEMMA PendingKeeps ==
  ASSUME ManualInductive, ui.open, ManualShape', OneOperation', UNCHANGED kind,
         ui'.document = ui.document, ui'.rawLists = ui.rawLists,
         ui'.collection = ui.collection, ui'.source = ui.source,
         ui'.review \in {ui.review, None},
         ui'.draftReview \in {ui.draftReview, None},
         ui'.token # None =>
             agreed' = agreed /\ (ui'.token = ui.token \/ (call # None /\ ui'.token = call.request)),
         call' # None =>
             /\ agreed' = agreed /\ DOMAIN call' = {"kind", "request", "saved"}
             /\ \/ call # None /\ call'.request = call.request
                \/ ui.token # None /\ call'.request = ui.token
  PROVE  ManualInductive'
<1>1. /\ \A request : Faithful(request)' = Faithful(request)
      /\ agreed' = agreed => \A request : OtherIsFree(request)' = OtherIsFree(request)
  BY ScreenStays DEF OtherIsFree
<1>2. RequestsAreFaithful'
  BY <1>1 DEF ManualInductive, RequestsAreFaithful
<1>3. ui'.open /\ ui'.review # None => ReviewIsTrue'
  <2>1. Manual!EpisodeCount' = Manual!EpisodeCount
    BY DEF Manual!EpisodeCount
  <2> QED BY <2>1 DEF ManualInductive, ReviewIsTrue
<1> QED BY <1>2, <1>3 DEF ManualInductive

\* Edits are free only while nothing is pending.
LEMMA EditKeeps ==
  ASSUME ManualInductive, ui.open, ~Manual!Locked,
         UNCHANGED <<call, reads, wanted>>,
         \/ \E d : DOMAIN d = DocumentFields /\ ui' = [ui EXCEPT !.document = d]
         \/ ui' = [ui EXCEPT !.rawLists = "edited"]
         \/ \E c : ui' = [ui EXCEPT !.collection = c]
  PROVE  ManualInductive'
<1>1. /\ ui.operation \in {"idle", "reading"}
      /\ ui.review = None /\ ui.draftReview = None /\ ui.token = None /\ ~ui.reset /\ call = None
  BY NothingIsPending DEF Manual!Locked
<1>2. DOMAIN ui = UiFields /\ DOMAIN ui.document = DocumentFields
  BY DEF ManualInductive, ManualShape
<1>3. /\ DOMAIN ui' = UiFields /\ DOMAIN ui'.document = DocumentFields
      /\ ui'.review = ui.review /\ ui'.draftReview = ui.draftReview /\ ui'.token = ui.token
      /\ ui'.reset = ui.reset /\ ui'.generation = ui.generation /\ ui'.operation = ui.operation
  BY <1>2 DEF UiFields
<1>4. ManualShape'
  BY <1>3 DEF ManualInductive, ManualShape
<1> QED BY <1>1, <1>3, <1>4, QuietKeeps DEF ManualInductive, OneOperation

LEMMA RowEditKeeps ==
  ASSUME ManualInductive,
         \/ Manual!SetTitle \/ Manual!ChangeField \/ Manual!ChangeLists \/ Manual!ChangeCollection
         \/ Manual!addSeason \/ \E s \in 1..MaxSeasons : Manual!addEpisode(s)
  PROVE  ManualInductive'
<1>1. DOMAIN ui.document = DocumentFields
  BY DEF ManualInductive, ManualShape
<1>2. ASSUME NEW d, DOMAIN d = DocumentFields, Manual!updateDocument(d) PROVE ManualInductive'
  BY <1>2, EditKeeps DEF Manual!updateDocument, Manual!CanEdit, Manual!EditorIsShown, Manual!Show
<1>3. CASE Manual!ChangeLists
  BY <1>3, EditKeeps DEF Manual!ChangeLists, Manual!CanEdit, Manual!EditorIsShown, Manual!Show
<1>4. CASE Manual!ChangeCollection
  BY <1>4, EditKeeps DEF Manual!ChangeCollection, Manual!Show
<1>5. CASE Manual!SetTitle
  BY <1>1, <1>2, <1>5 DEF Manual!SetTitle
<1>6. CASE Manual!ChangeField
  BY <1>1, <1>2, <1>6 DEF Manual!ChangeField
<1>7. CASE Manual!addSeason
  BY <1>1, <1>2, <1>7 DEF Manual!addSeason
<1>8. ASSUME NEW s \in 1..MaxSeasons, Manual!addEpisode(s) PROVE ManualInductive'
  BY <1>1, <1>2, <1>8 DEF Manual!addEpisode
<1> QED BY <1>3, <1>4, <1>5, <1>6, <1>7, <1>8

\* A review is opened while nothing else is pending, and tells the truth.
LEMMA OpenReviewKeeps ==
  ASSUME ManualInductive, NEW review, Manual!openReview(review),
         ReviewIsTrue' 
  PROVE  ManualInductive'
<1>1. /\ ui.open /\ ui.operation = "idle"
      /\ ui.draftReview = None /\ ui.token = None /\ ~ui.reset /\ call = None
  BY NothingIsPending
  DEF Manual!openReview, Manual!CanEdit, Manual!EditorIsShown, Manual!Idle
<1>2. DOMAIN ui = UiFields /\ DOMAIN ui.document = DocumentFields
  BY DEF ManualInductive, ManualShape
<1>3. /\ ui' = [ui EXCEPT !.review = review, !.operation = "reviewing"]
      /\ UNCHANGED <<call, reads, wanted>>
  BY DEF Manual!openReview, Manual!Ask
<1>4. /\ DOMAIN ui' = UiFields /\ ui'.document = ui.document /\ ui'.operation = "reviewing"
      /\ ui'.draftReview = None /\ ui'.token = None /\ ~ui'.reset
      /\ ui'.generation = ui.generation
  BY <1>1, <1>2, <1>3 DEF UiFields
<1>5. ui.generation = 0
  BY <1>1 DEF ManualInductive, OneOperation
<1> QED
  BY <1>1, <1>2, <1>3, <1>4, <1>5
  DEF ManualInductive, ManualShape, OneOperation, RequestsAreFaithful

LEMMA RemovalKeeps ==
  ASSUME ManualInductive,
         \/ \E s \in 1..MaxSeasons : Manual!requestSeasonRemoval(s)
         \/ \E s \in 1..MaxSeasons, e \in 1..MaxEpisodes : Manual!requestEpisodeRemoval(s, e)
         \/ \E to \in {"movie", "series"} : Manual!selectKind(to)
  PROVE  ManualInductive'
<1>1. DOMAIN ui = UiFields /\ DOMAIN ui.document = DocumentFields
  BY DEF ManualInductive, ManualShape
<1>2. ASSUME NEW review, Manual!openReview(review)
      PROVE  ui'.review = review /\ ui'.document = ui.document
  BY <1>1, <1>2 DEF Manual!openReview, Manual!Ask, UiFields
<1>3. ASSUME NEW s \in 1..MaxSeasons, Manual!requestSeasonRemoval(s) PROVE ManualInductive'
  <2> DEFINE review == [season |-> s, episode |-> None,
                        descendantCount |-> Manual!Cardinality(ui.document.rows[s])]
  <2>1. Manual!openReview(review) /\ s \in DOMAIN ui.document.rows
    BY <1>3 DEF Manual!requestSeasonRemoval
  <2>2. ui'.review = review /\ ui'.document = ui.document /\ s # None
    BY <1>2, <2>1, BoundsAssumption
  <2>3. ReviewIsTrue'
    BY <2>1, <2>2 DEF ReviewIsTrue
  <2> QED BY <2>1, <2>3, OpenReviewKeeps
<1>4. ASSUME NEW s \in 1..MaxSeasons, NEW e \in 1..MaxEpisodes, Manual!requestEpisodeRemoval(s, e)
      PROVE  ManualInductive'
  <2> DEFINE review == [season |-> s, episode |-> e, descendantCount |-> 1]
  <2>1. /\ Manual!openReview(review)
        /\ s \in DOMAIN ui.document.rows /\ e \in ui.document.rows[s]
    BY <1>4 DEF Manual!requestEpisodeRemoval
  <2>2. ui'.review = review /\ ui'.document = ui.document /\ s # None /\ e # None
    BY <1>2, <2>1, BoundsAssumption
  <2>3. ReviewIsTrue'
    BY <2>1, <2>2 DEF ReviewIsTrue
  <2> QED BY <2>1, <2>3, OpenReviewKeeps
<1>5. ASSUME NEW to \in {"movie", "series"}, Manual!selectKind(to) PROVE ManualInductive'
  <2> DEFINE review == [season |-> None, episode |-> None, descendantCount |-> Manual!EpisodeCount]
  <2>1. CASE Manual!openReview(review)
    <3>1. ui'.review = review /\ ui'.document = ui.document
      BY <1>2, <2>1
    <3>2. Manual!EpisodeCount' = Manual!EpisodeCount
      BY <3>1 DEF Manual!EpisodeCount
    <3>3. ReviewIsTrue'
      BY <3>1, <3>2 DEF ReviewIsTrue
    <3> QED BY <2>1, <3>3, OpenReviewKeeps
  <2>2. CASE Manual!updateDocument([ui.document EXCEPT !.kind = to])
    BY <1>1, <2>2, EditKeeps
    DEF Manual!updateDocument, Manual!CanEdit, Manual!EditorIsShown, Manual!Show
  <2> QED BY <1>5, <2>1, <2>2 DEF Manual!selectKind
<1> QED BY <1>3, <1>4, <1>5

\* A review that is answered, or whose editor goes, leaves nothing pending.
LEMMA CloseReviewKeeps ==
  ASSUME ManualInductive, Manual!cancelReview \/ Manual!confirmReview \/ Manual!CollectionsReload
  PROVE  ManualInductive'
<1>1. DOMAIN ui = UiFields /\ DOMAIN ui.document = DocumentFields
  BY DEF ManualInductive, ManualShape
<1>2. /\ UNCHANGED <<call, reads, wanted, kind>>
      /\ Manual!CollectionsReload => UNCHANGED agreed
  BY DEF Manual!cancelReview, Manual!confirmReview, Manual!CollectionsReload, Manual!Show,
         Manual!AgreeToLoseRows
<1>3. ASSUME ui.review # None, NEW d, DOMAIN d = DocumentFields, NEW shown,
             ui' = [Manual!closeReview(ui) EXCEPT !.document = d, !.shown = shown]
      PROVE  ManualInductive'
  <2>1. /\ DOMAIN ui' = UiFields /\ ui'.document = d /\ ui'.review = None
        /\ ui'.draftReview = ui.draftReview /\ ui'.token = ui.token /\ ui'.reset = ui.reset
        /\ ui'.generation = ui.generation /\ ui'.open = ui.open
    BY <1>1, <1>3 DEF Manual!closeReview, UiFields
  <2>2. ManualShape'
    BY <1>2, <1>3, <2>1 DEF ManualInductive, ManualShape
  <2>3. CASE ~ui.open
    BY <2>1, <2>2, <2>3, LeftKeeps
  <2>4. CASE ui.open
    <3>1. ui.draftReview = None /\ ui.token = None /\ ~ui.reset /\ ui.generation = 0 /\ call = None
      BY <1>3, <2>4 DEF ManualInductive, OneOperation
    <3> QED BY <1>2, <2>1, <2>2, <3>1, QuietKeeps
  <2> QED BY <2>3, <2>4
<1>4. DOMAIN Manual!Pruned = DocumentFields
  <2> DEFINE rows == ui.document.rows
             s == ui.review.season
             fewer == [ui.document EXCEPT !.rows[s] = @ \ {ui.review.episode}]
             without == [ui.document EXCEPT !.rows = [t \in DOMAIN rows \ {s} |-> rows[t]]]
             movie == [ui.document EXCEPT !.kind = "movie", !.rows = [t \in {} |-> {}]]
  <2>1. DOMAIN fewer = DocumentFields /\ DOMAIN without = DocumentFields
        /\ DOMAIN movie = DocumentFields
    BY <1>1
  <2>2. Manual!Pruned \in {fewer, without, movie}
    BY DEF Manual!Pruned
  <2> QED BY <2>1, <2>2
<1>5. CASE Manual!cancelReview
  <2>1. ui' = [Manual!closeReview(ui) EXCEPT !.document = ui.document, !.shown = ui.shown]
    BY <1>1, <1>5 DEF Manual!cancelReview, Manual!Show, Manual!closeReview, UiFields
  <2> QED BY <1>1, <1>3, <1>5, <2>1 DEF Manual!cancelReview
<1>6. CASE Manual!confirmReview
  <2>1. ui' = [Manual!closeReview(ui) EXCEPT !.document = Manual!Pruned, !.shown = ui.shown]
    BY <1>1, <1>6 DEF Manual!confirmReview, Manual!AgreeToLoseRows, Manual!closeReview, UiFields
  <2> QED BY <1>3, <1>4, <1>6, <2>1 DEF Manual!confirmReview
<1>7. CASE Manual!CollectionsReload /\ ui.shown /\ ui.review # None
  <2>1. ui' = [Manual!closeReview(ui) EXCEPT !.document = ui.document, !.shown = FALSE]
    BY <1>1, <1>7 DEF Manual!CollectionsReload, Manual!Show, Manual!closeReview, UiFields
  <2> QED BY <1>1, <1>3, <1>7, <2>1
<1>8. CASE Manual!CollectionsReload /\ ~(ui.shown /\ ui.review # None)
  <2>1. ui.open /\ ui' = [ui EXCEPT !.shown = ~@]
    BY <1>8 DEF Manual!CollectionsReload, Manual!Show
  <2>2. Unchanged({"shown"})
    BY <1>1, <2>1 DEF UiFields, Unchanged
  <2>3. OneOperation' /\ ManualShape'
    BY <1>1, <1>2, <2>2 DEF ManualInductive, OneOperation, ManualShape, Unchanged, UiFields
  <2>4. /\ ui'.document = ui.document /\ ui'.rawLists = ui.rawLists
        /\ ui'.collection = ui.collection /\ ui'.source = ui.source
        /\ ui'.review = ui.review /\ ui'.draftReview = ui.draftReview /\ ui'.token = ui.token
    BY <2>2 DEF Unchanged, UiFields
  <2>5. call' # None => DOMAIN call' = {"kind", "request", "saved"}
    BY <1>2, <2>1 DEF ManualInductive, RequestsAreFaithful
  <2>6. kind' = kind /\ call' = call /\ agreed' = agreed
    BY <1>2, <1>8
  <2> QED BY <2>1, <2>3, <2>4, <2>5, <2>6, PendingKeeps
<1> QED BY <1>5, <1>6, <1>7, <1>8

LEMMA SameCardinality == \A S : Manual!Cardinality(S) = Cardinality(S)
  BY DEF Manual!Cardinality, Cardinality

\* A name for the next read is free.
LEMMA FreeName ==
  ASSUME IsFiniteSet(reads), Cardinality(reads) < MaxReads
  PROVE  \E n \in 1..MaxReads : \A r \in reads : r.n # n
<1> DEFINE names == {r.n : r \in reads}
<1>1. IsFiniteSet(names) /\ Cardinality(names) <= Cardinality(reads)
  <2>1. [r \in reads |-> r.n] \in Surjection(reads, names)
    BY DEF Surjection
  <2> QED BY <2>1, FS_Surjection
<1>2. Cardinality(1..MaxReads) = MaxReads
  BY FS_Interval, BoundsAssumption
<1>3. SUFFICES ASSUME 1..MaxReads \subseteq names PROVE FALSE
  OBVIOUS
<1>4. Cardinality(1..MaxReads) <= Cardinality(names)
  BY <1>1, <1>3, FS_Subset
<1>5. Cardinality(reads) \in Nat /\ Cardinality(names) \in Nat
  BY <1>1, FS_CardinalityType
<1> QED BY <1>1, <1>2, <1>4, <1>5, BoundsAssumption

\* Typing, and everything that stops a read or starts one.
LEMMA SourceKeeps ==
  ASSUME ManualInductive,
         \/ \E text \in Texts \cup {None} : Manual!TypeSource(text)
         \/ \E text \in Texts : Manual!LoadFile(text)
         \/ Manual!NoFile
         \/ \E to \in {"structured", "json"} : Manual!SwitchMode(to)
  PROVE  ManualInductive'
<1>0. DOMAIN ui = UiFields /\ DOMAIN ui.document = DocumentFields
  BY DEF ManualInductive, ManualShape
<1>1. /\ ui.open /\ ui.operation \in {"idle", "reading"} /\ call' = call
      /\ ui.review = None /\ ui.draftReview = None /\ ui.token = None /\ ~ui.reset /\ call = None
  <2>1. ui.open /\ ~Manual!Locked /\ call' = call
    BY DEF Manual!TypeSource, Manual!LoadFile, Manual!NoFile, Manual!SwitchMode,
           Manual!SourceIsFree, Manual!SourceIsShown
  <2> QED BY <2>1, NothingIsPending DEF Manual!Locked
<1>2. ASSUME DOMAIN ui' = UiFields, ui'.document = ui.document,
             ui'.review = ui.review, ui'.draftReview = ui.draftReview, ui'.token = ui.token,
             ui'.reset = ui.reset, reads' = reads,
             \/ ui'.generation = 0
             \/ ui'.generation = ui.generation /\ ui'.operation = ui.operation /\ wanted' = wanted
      PROVE  ManualInductive'
  <2>1. ManualShape'
    BY <1>0, <1>2 DEF ManualInductive, ManualShape
  <2> QED BY <1>1, <1>2, <2>1, QuietKeeps DEF ManualInductive, OneOperation
<1>3. ASSUME NEW text, Manual!TypeSource(text) PROVE ManualInductive'
  BY <1>0, <1>2, <1>3 DEF Manual!TypeSource, Manual!Typed, Manual!NotReading, UiFields
<1>4. ASSUME NEW text, Manual!LoadFile(text) PROVE ManualInductive'
  <2> DEFINE n == CHOOSE n \in 1..MaxReads : \A r \in reads : r.n # n
  <2>1. IsFiniteSet(reads) /\ Cardinality(reads) < MaxReads
    BY <1>4, SameCardinality DEF Manual!LoadFile, ManualInductive, ManualShape
  <2>2. n \in 1..MaxReads
    BY <2>1, FreeName
  <2>3. /\ reads' = reads \cup {[n |-> n, text |-> text]}
        /\ ui' = [ui EXCEPT !.generation = n, !.operation = "reading"]
        /\ wanted' = n
    BY <1>4 DEF Manual!LoadFile
  <2> HIDE DEF n
  <2>4. IsFiniteSet(reads') /\ \A r \in reads' : r.n \in 1..MaxReads
    <3>1. IsFiniteSet(reads \cup {[n |-> n, text |-> text]})
      BY <2>1, FS_AddElement
    <3> QED BY <2>2, <2>3, <3>1 DEF ManualInductive, ManualShape
  <2>5. /\ DOMAIN ui' = UiFields /\ ui'.document = ui.document
        /\ ui'.review = None /\ ui'.draftReview = None /\ ui'.token = None /\ ~ui'.reset
        /\ ui'.generation = n /\ ui'.operation = "reading"
    BY <1>0, <1>1, <2>3 DEF UiFields
  <2>6. ManualShape'
    BY <1>0, <2>4, <2>5 DEF ManualShape
  <2> QED BY <1>1, <2>3, <2>5, <2>6, QuietKeeps
<1>5. CASE Manual!NoFile
  BY <1>0, <1>2, <1>5 DEF Manual!NoFile, Manual!NotReading, UiFields
<1>6. ASSUME NEW to, Manual!SwitchMode(to) PROVE ManualInductive'
  BY <1>0, <1>2, <1>6 DEF Manual!SwitchMode, Manual!NotReading, UiFields
<1> QED BY <1>3, <1>4, <1>5, <1>6

\* The other fields of the page matter to none of this.
LEMMA PageStays ==
  ASSUME ManualInductive, UNCHANGED <<kind, ui, call, wanted, agreed>>,
         IsFiniteSet(reads'), \A r \in reads' : r.n \in 1..MaxReads
  PROVE  ManualInductive'
<1>1. ManualShape' /\ OneOperation'
  BY DEF ManualInductive, ManualShape, OneOperation
<1>2. CASE ~ui.open
  BY <1>1, <1>2, LeftKeeps
<1>3. CASE ui.open
  <2>1. call # None => DOMAIN call = {"kind", "request", "saved"}
    BY <1>3 DEF ManualInductive, RequestsAreFaithful
  <2> QED BY <1>1, <1>3, <2>1, PendingKeeps
<1> QED BY <1>2, <1>3

\* A file that is read late is ignored, unless it is the one that is awaited,
\* and then nothing is pending.
LEMMA FileIsReadKeeps ==
  ASSUME ManualInductive, NEW r \in reads, Manual!FileIsRead(r)
  PROVE  ManualInductive'
<1>1. /\ UNCHANGED <<kind, call, wanted, agreed>>
      /\ IsFiniteSet(reads') /\ \A s \in reads' : s.n \in 1..MaxReads
  BY FS_Subset DEF Manual!FileIsRead, ManualInductive, ManualShape
<1>2. CASE UNCHANGED ui
  BY <1>1, <1>2, PageStays
<1>3. ASSUME ui.open, ui.generation = r.n,
             LET ended == [ui EXCEPT !.operation = "idle", !.generation = 0]
             IN  ui' \in {ended, [ended EXCEPT !.source = r.text, !.unsaved = FALSE]}
      PROVE  ManualInductive'
  <2>0. DOMAIN ui = UiFields /\ DOMAIN ui.document = DocumentFields
    BY DEF ManualInductive, ManualShape
  <2>1. r.n # 0
    BY BoundsAssumption DEF ManualInductive, ManualShape
  <2>2. ui.operation = "reading"
    BY <1>3, <2>1 DEF ManualInductive, OneOperation
  <2>3. /\ ui.review = None /\ ui.draftReview = None /\ ui.token = None /\ ~ui.reset
        /\ call = None
    BY <1>3, <2>2, NothingIsPending
  <2>4. /\ DOMAIN ui' = UiFields /\ ui'.document = ui.document
        /\ ui'.review = None /\ ui'.draftReview = None /\ ui'.token = None /\ ~ui'.reset
        /\ ui'.generation = 0
    BY <1>3, <2>0, <2>3 DEF UiFields
  <2>5. ManualShape'
    BY <1>1, <2>0, <2>4 DEF ManualShape
  <2> QED BY <1>1, <2>3, <2>4, <2>5, QuietKeeps
<1> QED BY <1>2, <1>3 DEF Manual!FileIsRead

(***************************************************************************)
(* Saving.                                                                 *)
(***************************************************************************)

\* A request is made of what is on the screen.
LEMMA RequestsAreMade ==
  /\ Faithful(Manual!StructuredRequest) /\ Manual!StructuredRequest.draft = "structured"
  /\ Faithful(Manual!SourceRequest) /\ Manual!SourceRequest.draft = "source"
  BY DEF Faithful, Manual!OnScreen, Manual!StructuredRequest, Manual!SourceRequest

\* A request is sent when nothing else is pending and the other draft is free.
LEMMA StartKeeps ==
  ASSUME ManualInductive, ui.open, NEW u, NEW request, Manual!start(u, request),
         UNCHANGED <<kind, reads, wanted>>,
         u \in {ui, [ui EXCEPT !.draftReview = None], [ui EXCEPT !.unsaved = FALSE]},
         ui.review = None, ui.token = None, ~ui.reset, ui.generation = 0,
         u.draftReview = None, Faithful(request), OtherIsFree(request)'
  PROVE  ManualInductive'
<1>0. DOMAIN ui = UiFields /\ DOMAIN ui.document = DocumentFields
  BY DEF ManualInductive, ManualShape
<1>1. /\ ui' = [u EXCEPT !.operation = "submitting"]
      /\ call' = [kind |-> "save", request |-> request, saved |-> FALSE]
  BY DEF Manual!start
<1>2. /\ DOMAIN ui' = UiFields /\ ui'.document = ui.document /\ ui'.rawLists = ui.rawLists
      /\ ui'.collection = ui.collection /\ ui'.source = ui.source
      /\ ui'.operation = "submitting" /\ ui'.review = None /\ ui'.draftReview = None
      /\ ui'.token = None /\ ~ui'.reset /\ ui'.generation = 0
  BY <1>0, <1>1 DEF UiFields
<1>3. Faithful(request)'
  BY <1>2, ScreenStays
<1>4. ManualShape'
  BY <1>0, <1>2 DEF ManualInductive, ManualShape
<1>5. OneOperation'
  BY <1>2 DEF OneOperation
<1>6. RequestsAreFaithful'
  BY <1>1, <1>2, <1>3 DEF RequestsAreFaithful
<1> QED BY <1>2, <1>4, <1>5, <1>6 DEF ManualInductive

\* Before a request is sent, the user is asked about the other draft.
LEMMA ReviewKeeps ==
  ASSUME ManualInductive, ui.open, ui.operation = "idle", NEW request, Manual!Review(request),
         UNCHANGED <<kind, reads, wanted, agreed>>, Faithful(request)
  PROVE  ManualInductive'
<1>0. DOMAIN ui = UiFields /\ DOMAIN ui.document = DocumentFields /\ ui.generation = 0
  BY DEF ManualInductive, ManualShape, OneOperation
<1>1. ui.review = None /\ ui.token = None /\ ~ui.reset /\ call = None /\ call' = None
  BY NothingIsPending DEF Manual!Review
<1>2. /\ DOMAIN ui' = UiFields /\ ui'.document = ui.document /\ ui'.rawLists = ui.rawLists
      /\ ui'.collection = ui.collection /\ ui'.source = ui.source
      /\ ui'.operation = "reviewing" /\ ui'.review = None /\ ui'.draftReview = request
      /\ ui'.token = None /\ ~ui'.reset /\ ui'.generation = 0
  BY <1>0, <1>1 DEF UiFields, Manual!Review
<1>3. Faithful(request)'
  BY <1>2, ScreenStays
<1>4. ManualShape'
  BY <1>0, <1>2 DEF ManualInductive, ManualShape
<1>5. OneOperation' /\ RequestsAreFaithful'
  BY <1>1, <1>2, <1>3 DEF OneOperation, RequestsAreFaithful
<1> QED BY <1>2, <1>4, <1>5 DEF ManualInductive

LEMMA SubmitKeeps ==
  ASSUME ManualInductive,
         Manual!submitStructured \/ Manual!submitJson \/ Manual!submitCsv
  PROVE  ManualInductive'
<1>1. ui.open /\ ui.operation = "idle" /\ UNCHANGED <<kind, reads, wanted, agreed>>
  BY DEF Manual!submitStructured, Manual!submitJson, Manual!submitCsv, Manual!Idle,
         Manual!CanEdit, Manual!EditorIsShown, Manual!SourceIsShown
<1>2. /\ ui.review = None /\ ui.draftReview = None /\ ui.token = None /\ ~ui.reset
      /\ call = None /\ ui.generation = 0
  BY <1>1, NothingIsPending DEF ManualInductive, OneOperation
<1>3. DOMAIN ui = UiFields
  BY DEF ManualInductive, ManualShape
<1>4. ASSUME NEW u, NEW request, Manual!start(u, request), u.draftReview = None,
             u \in {ui, [ui EXCEPT !.unsaved = FALSE]}, Faithful(request),
             request.draft = "structured" => ui.source = None,
             request.draft # "structured" => Manual!DraftEquals(ui.collection)
      PROVE  ManualInductive'
  <2>1. /\ ui'.document = ui.document /\ ui'.rawLists = ui.rawLists
        /\ ui'.collection = ui.collection /\ ui'.source = ui.source
    BY <1>3, <1>4 DEF Manual!start, UiFields
  <2>2. Manual!DraftEquals(ui.collection)' = Manual!DraftEquals(ui.collection)
    BY <1>1, <2>1, ScreenStays
  <2>3. OtherIsFree(request)'
    BY <1>1, <1>4, <2>1, <2>2 DEF OtherIsFree
  <2> QED BY <1>1, <1>2, <1>4, <2>3, StartKeeps
<1>5. CASE Manual!submitStructured
  BY <1>1, <1>2, <1>4, <1>5, ReviewKeeps, RequestsAreMade DEF Manual!submitStructured
<1>6. CASE Manual!submitJson
  BY <1>1, <1>2, <1>4, <1>6, ReviewKeeps, RequestsAreMade DEF Manual!submitJson
<1>7. CASE Manual!submitCsv
  <2>1. ASSUME NEW unsaved, ui' = [ui EXCEPT !.unsaved = unsaved], UNCHANGED call
        PROVE  ManualInductive'
    <3>1. /\ DOMAIN ui' = UiFields /\ ui'.document = ui.document
          /\ ui'.review = None /\ ui'.draftReview = None /\ ui'.token = None /\ ~ui'.reset
          /\ ui'.generation = 0
      BY <1>2, <1>3, <2>1 DEF UiFields
    <3>2. ManualShape'
      BY <1>1, <3>1 DEF ManualInductive, ManualShape
    <3> QED BY <1>2, <2>1, <3>1, <3>2, QuietKeeps
  <2>2. ASSUME ~Manual!StructuredDirty,
               Manual!start([ui EXCEPT !.unsaved = FALSE], Manual!SourceRequest)
        PROVE  ManualInductive'
    <3>1. Manual!DraftEquals(ui.collection)
      BY <2>2 DEF Manual!StructuredDirty, Manual!DraftEquals
    <3>2. [ui EXCEPT !.unsaved = FALSE].draftReview = None
      BY <1>2, <1>3 DEF UiFields
    <3> QED BY <1>4, <2>2, <3>1, <3>2, RequestsAreMade
  <2> QED BY <1>7, <2>1, <2>2 DEF Manual!submitCsv
<1> QED BY <1>5, <1>6, <1>7

\* The user agrees to lose the other draft, or keeps both.
LEMMA DraftAnswerKeeps ==
  ASSUME ManualInductive, Manual!ContinueDraft \/ Manual!CancelDraft
  PROVE  ManualInductive'
<1>0. DOMAIN ui = UiFields /\ DOMAIN ui.document = DocumentFields
  BY DEF ManualInductive, ManualShape
<1>1. /\ ui.open /\ ui.draftReview # None /\ ui.operation = "reviewing"
      /\ UNCHANGED <<kind, reads, wanted>>
  BY DEF Manual!ContinueDraft, Manual!CancelDraft, Manual!Show, ManualInductive, OneOperation
<1>2. /\ ui.review = None /\ ui.token = None /\ ~ui.reset /\ ui.generation = 0 /\ call = None
      /\ Faithful(ui.draftReview)
  BY <1>1 DEF ManualInductive, OneOperation, RequestsAreFaithful
<1>3. CASE Manual!ContinueDraft
  <2>1. PICK request : request = ui.draftReview
    OBVIOUS
  <2>2. Manual!start([ui EXCEPT !.draftReview = None], request) /\ Faithful(request)
    BY <1>2, <1>3, <2>1 DEF Manual!ContinueDraft
  <2>3. agreed' = {"structured", "source"} \ {request.draft}
    BY <1>3, <2>1 DEF Manual!ContinueDraft, Manual!OtherDraft
  <2>4. OtherIsFree(request)'
    BY <2>2, <2>3 DEF OtherIsFree, Faithful
  <2>5. [ui EXCEPT !.draftReview = None].draftReview = None
    BY <1>0 DEF UiFields
  <2> QED BY <1>1, <1>2, <2>2, <2>4, <2>5, StartKeeps
<1>4. CASE Manual!CancelDraft
  <2>1. call' = call /\ ui' = [ui EXCEPT !.draftReview = None, !.operation = "idle"]
    BY <1>4 DEF Manual!CancelDraft, Manual!Show
  <2>2. /\ DOMAIN ui' = UiFields /\ ui'.document = ui.document
        /\ ui'.review = None /\ ui'.draftReview = None /\ ui'.token = None /\ ~ui'.reset
        /\ ui'.generation = 0
    BY <1>0, <1>2, <2>1 DEF UiFields
  <2>3. ManualShape'
    BY <1>0, <1>1, <2>2 DEF ManualInductive, ManualShape
  <2> QED BY <1>2, <2>1, <2>2, <2>3, QuietKeeps
<1> QED BY <1>3, <1>4

\* The structured draft is given up for the episodes, or is not.
LEMMA ResetKeeps ==
  ASSUME ManualInductive, Manual!OpenReset \/ Manual!AnswerReset
  PROVE  ManualInductive'
<1>0. DOMAIN ui = UiFields /\ DOMAIN ui.document = DocumentFields
  BY DEF ManualInductive, ManualShape
<1>1. ui.open /\ UNCHANGED <<kind, call, reads, wanted>>
  BY DEF Manual!OpenReset, Manual!AnswerReset, Manual!Show, Manual!Ask, Manual!AgreeToLoseRows
<1>2. CASE Manual!OpenReset
  <2>1. /\ ui.operation = "idle"
        /\ ui' = [ui EXCEPT !.reset = TRUE, !.operation = "reviewing"]
    BY <1>2 DEF Manual!OpenReset, Manual!Idle, Manual!Ask
  <2>2. /\ ui.review = None /\ ui.draftReview = None /\ ui.token = None /\ call = None
        /\ ui.generation = 0
    BY <1>1, <2>1, NothingIsPending DEF ManualInductive, OneOperation
  <2>3. /\ DOMAIN ui' = UiFields /\ ui'.document = ui.document
        /\ ui'.review = None /\ ui'.draftReview = None /\ ui'.token = None
        /\ ui'.generation = 0 /\ ui'.operation = "reviewing"
    BY <1>0, <2>1, <2>2 DEF UiFields
  <2>4. ManualShape'
    BY <1>0, <1>1, <2>3 DEF ManualInductive, ManualShape
  <2> QED BY <1>1, <2>2, <2>3, <2>4
        DEF ManualInductive, OneOperation, RequestsAreFaithful
<1>3. CASE Manual!AnswerReset
  <2>1. ui.reset
    BY <1>3 DEF Manual!AnswerReset
  <2>2. /\ ui.review = None /\ ui.draftReview = None /\ ui.token = None /\ call = None
        /\ ui.generation = 0
    BY <1>1, <2>1 DEF ManualInductive, OneOperation
  <2>3. /\ DOMAIN ui' = UiFields /\ DOMAIN ui'.document = DocumentFields
        /\ ui'.review = None /\ ui'.draftReview = None /\ ui'.token = None /\ ~ui'.reset
        /\ ui'.generation = 0
    <3>1. DOMAIN Manual!InitialDocument = DocumentFields
      BY DEF Manual!InitialDocument, Manual!createManualDocument, Manual!manualDocumentFromItem,
             DocumentFields
    <3> QED
      BY <1>0, <1>3, <2>2, <3>1
      DEF Manual!AnswerReset, Manual!Show, Manual!AgreeToLoseRows, UiFields
  <2>4. ManualShape'
    BY <1>1, <2>3 DEF ManualInductive, ManualShape
  <2> QED BY <1>1, <2>2, <2>3, <2>4, QuietKeeps
<1> QED BY <1>2, <1>3

\* The work is like another: it is saved all the same, or not.
LEMMA SimilarKeeps ==
  ASSUME ManualInductive, Manual!ConfirmSimilar \/ Manual!CancelSimilar
  PROVE  ManualInductive'
<1>0. DOMAIN ui = UiFields /\ DOMAIN ui.document = DocumentFields
  BY DEF ManualInductive, ManualShape
<1>1. /\ ui.open /\ ui.token # None /\ ui.operation = "reviewing"
      /\ UNCHANGED <<kind, reads, wanted>>
  BY DEF Manual!ConfirmSimilar, Manual!CancelSimilar
<1>2. ui.review = None /\ ui.draftReview = None /\ ~ui.reset /\ call = None /\ ui.generation = 0
  BY <1>1 DEF ManualInductive, OneOperation
<1>3. CASE Manual!ConfirmSimilar
  <2>1. /\ ui' = [ui EXCEPT !.operation = "confirming"]
        /\ call' = [kind |-> "confirm", request |-> ui.token, saved |-> FALSE]
        /\ agreed' = agreed
    BY <1>3 DEF Manual!ConfirmSimilar
  <2>2. /\ DOMAIN ui' = UiFields /\ ui'.document = ui.document /\ ui'.rawLists = ui.rawLists
        /\ ui'.collection = ui.collection /\ ui'.source = ui.source
        /\ ui'.review = None /\ ui'.draftReview = None /\ ui'.token = ui.token /\ ~ui'.reset
        /\ ui'.generation = 0 /\ ui'.operation = "confirming"
    BY <1>0, <1>2, <2>1 DEF UiFields
  <2>3. ManualShape' /\ OneOperation'
    BY <1>0, <1>1, <2>2 DEF ManualInductive, ManualShape, OneOperation
  <2>4. DOMAIN call' = {"kind", "request", "saved"} /\ call'.request = ui.token
    BY <2>1
  <2> QED BY <1>1, <2>1, <2>2, <2>3, <2>4, PendingKeeps
<1>4. CASE Manual!CancelSimilar
  <2>1. call' = call /\ ui' = [ui EXCEPT !.token = None, !.operation = "idle"]
    BY <1>4 DEF Manual!CancelSimilar
  <2>2. /\ DOMAIN ui' = UiFields /\ ui'.document = ui.document
        /\ ui'.review = None /\ ui'.draftReview = None /\ ui'.token = None /\ ~ui'.reset
        /\ ui'.generation = 0
    BY <1>0, <1>2, <2>1 DEF UiFields
  <2>3. ManualShape'
    BY <1>0, <1>1, <2>2 DEF ManualInductive, ManualShape
  <2> QED BY <1>2, <2>1, <2>2, <2>3, QuietKeeps
<1> QED BY <1>3, <1>4

(***************************************************************************)
(* Answers, and leaving.                                                   *)
(***************************************************************************)

LEMMA AnswerKeeps == ManualInductive /\ Manual!Answer => ManualInductive'
<1> SUFFICES ASSUME ManualInductive, Manual!Answer PROVE ManualInductive'
  OBVIOUS
<1>0. DOMAIN ui = UiFields /\ DOMAIN ui.document = DocumentFields
  BY DEF ManualInductive, ManualShape
<1>1. call # None /\ UNCHANGED <<kind, reads, wanted>>
  BY DEF Manual!Answer, Manual!Succeeds, Manual!IsSimilar, Manual!Fails, Manual!finish
<1>2. CASE ~ui.open
  <2>1. UNCHANGED ui
    BY <1>2 DEF Manual!Answer, Manual!Succeeds, Manual!IsSimilar, Manual!Fails, Manual!finish
  <2>2. ManualShape'
    BY <1>0, <1>1, <2>1 DEF ManualInductive, ManualShape
  <2> QED BY <1>2, <2>1, <2>2, LeftKeeps
<1>3. CASE ui.open
  <2>1. /\ ui.operation \in {"submitting", "confirming"}
        /\ ui.review = None /\ ui.draftReview = None /\ ~ui.reset /\ ui.generation = 0
        /\ DOMAIN call = {"kind", "request", "saved"}
    BY <1>1, <1>3 DEF ManualInductive, OneOperation, RequestsAreFaithful
  <2>2. CASE Manual!Succeeds
    <3>1. /\ ui' = [ui EXCEPT !.token = None] /\ call' = [call EXCEPT !.saved = TRUE]
          /\ agreed' = agreed
      BY <1>3, <2>2 DEF Manual!Succeeds
    <3>2. /\ DOMAIN ui' = UiFields /\ ui'.document = ui.document /\ ui'.rawLists = ui.rawLists
          /\ ui'.collection = ui.collection /\ ui'.source = ui.source
          /\ ui'.review = None /\ ui'.draftReview = None /\ ui'.token = None /\ ~ui'.reset
          /\ ui'.generation = 0 /\ ui'.operation = ui.operation
      BY <1>0, <2>1, <3>1 DEF UiFields
    <3>3. DOMAIN call' = {"kind", "request", "saved"} /\ call'.request = call.request
      BY <2>1, <3>1
    <3>4. ManualShape' /\ OneOperation'
      BY <1>0, <1>1, <2>1, <3>2 DEF ManualInductive, ManualShape, OneOperation
    <3> QED BY <1>1, <1>3, <3>1, <3>2, <3>3, <3>4, PendingKeeps
  <2>3. CASE Manual!IsSimilar
    <3>1. /\ ui' = [ui EXCEPT !.token = call.request, !.operation = "reviewing"]
          /\ call' = None /\ agreed' = agreed
      BY <1>3, <2>3 DEF Manual!IsSimilar
    <3>2. /\ DOMAIN ui' = UiFields /\ ui'.document = ui.document /\ ui'.rawLists = ui.rawLists
          /\ ui'.collection = ui.collection /\ ui'.source = ui.source
          /\ ui'.review = None /\ ui'.draftReview = None /\ ui'.token = call.request /\ ~ui'.reset
          /\ ui'.generation = 0 /\ ui'.operation = "reviewing"
      BY <1>0, <2>1, <3>1 DEF UiFields
    <3>3. ManualShape' /\ OneOperation'
      BY <1>0, <1>1, <3>1, <3>2 DEF ManualInductive, ManualShape, OneOperation
    <3> QED BY <1>1, <1>3, <3>1, <3>2, <3>3, PendingKeeps
  <2>4. CASE Manual!Fails
    <3>1. ui' = [ui EXCEPT !.token = None, !.operation = "idle"] /\ call' = None
      BY <1>3, <2>4 DEF Manual!Fails, Manual!Failed
    <3>2. /\ DOMAIN ui' = UiFields /\ ui'.document = ui.document
          /\ ui'.review = None /\ ui'.draftReview = None /\ ui'.token = None /\ ~ui'.reset
          /\ ui'.generation = 0
      BY <1>0, <2>1, <3>1 DEF UiFields
    <3>3. ManualShape'
      BY <1>0, <1>1, <3>2 DEF ManualInductive, ManualShape
    <3> QED BY <3>1, <3>2, <3>3, QuietKeeps
  <2>5. CASE Manual!finish
    <3>1. ui' = [ui EXCEPT !.open = FALSE, !.blocked = FALSE]
      BY <1>3, <2>5 DEF Manual!finish, Manual!Closed
    <3>2. DOMAIN ui' = UiFields /\ ui'.document = ui.document /\ ~ui'.open
      BY <1>0, <3>1 DEF UiFields
    <3>3. ManualShape'
      BY <1>0, <1>1, <3>2 DEF ManualInductive, ManualShape
    <3> QED BY <3>2, <3>3, LeftKeeps
  <2> QED BY <2>2, <2>3, <2>4, <2>5 DEF Manual!Answer
<1> QED BY <1>2, <1>3

LEMMA GoAwayKeeps == ManualInductive /\ Manual!GoAway => ManualInductive'
<1> SUFFICES ASSUME ManualInductive, Manual!GoAway PROVE ManualInductive'
  OBVIOUS
<1>0. DOMAIN ui = UiFields /\ DOMAIN ui.document = DocumentFields
  BY DEF ManualInductive, ManualShape
<1>1. ui.open /\ UNCHANGED <<kind, call, reads, wanted>>
  BY DEF Manual!GoAway, Manual!Navigate, Manual!BlockerResets, Manual!Stay, Manual!LeaveAnyway,
         Manual!Unload, Manual!Leaves, Manual!Show
<1>2. CASE ui' = Manual!Closed
  <2>1. DOMAIN ui' = UiFields /\ ui'.document = ui.document /\ ~ui'.open
    BY <1>0, <1>2 DEF UiFields, Manual!Closed
  <2>2. ManualShape'
    BY <1>0, <1>1, <2>1 DEF ManualInductive, ManualShape
  <2> QED BY <2>1, <2>2, LeftKeeps
<1>3. ASSUME NEW blocked, ui' = [ui EXCEPT !.blocked = blocked], agreed' = agreed
      PROVE  ManualInductive'
  <2>1. /\ DOMAIN ui' = UiFields /\ ui'.document = ui.document /\ ui'.rawLists = ui.rawLists
        /\ ui'.collection = ui.collection /\ ui'.source = ui.source
        /\ ui'.review = ui.review /\ ui'.draftReview = ui.draftReview /\ ui'.token = ui.token
        /\ ui'.reset = ui.reset /\ ui'.generation = ui.generation
        /\ ui'.operation = ui.operation /\ ui'.open = ui.open
    BY <1>0, <1>3 DEF UiFields
  <2>2. ManualShape' /\ OneOperation'
    BY <1>0, <1>1, <2>1 DEF ManualInductive, ManualShape, OneOperation
  <2>3. call # None => DOMAIN call = {"kind", "request", "saved"}
    BY <1>1 DEF ManualInductive, RequestsAreFaithful
  <2> QED BY <1>1, <1>3, <2>1, <2>2, <2>3, PendingKeeps
<1> QED
  BY <1>2, <1>3
  DEF Manual!GoAway, Manual!Navigate, Manual!BlockerResets, Manual!Stay, Manual!LeaveAnyway,
      Manual!Unload, Manual!Leaves, Manual!Show

LEMMA ManualInit == Init => ManualInductive
<1> SUFFICES ASSUME Manual!Init PROVE ManualInductive
  BY DEF Init
<1>1. DOMAIN Manual!InitialDocument = DocumentFields
  BY DEF Manual!InitialDocument, Manual!createManualDocument, Manual!manualDocumentFromItem,
         DocumentFields
<1>2. /\ DOMAIN ui = UiFields /\ ui.document = Manual!InitialDocument
      /\ ui.review = None /\ ui.draftReview = None /\ ui.token = None /\ ~ui.reset
      /\ ui.generation = 0
      /\ call = None /\ reads = {}
  BY DEF Manual!Init, UiFields
<1>3. ManualShape
  BY <1>1, <1>2, FS_EmptySet DEF ManualShape
<1> QED BY <1>2, <1>3 DEF ManualInductive, OneOperation, RequestsAreFaithful

LEMMA ManualStep == ManualInductive /\ [Next]_vars => ManualInductive'
<1> SUFFICES ASSUME ManualInductive, [Next]_vars PROVE ManualInductive'
  OBVIOUS
<1>1. CASE Manual!Edit
  <2>1. \A s, e : Manual!updateSeason(s) \/ Manual!updateEpisode(s, e) => Manual!ChangeField
    BY DEF Manual!updateSeason, Manual!updateEpisode
  <2> QED BY <1>1, <2>1, RowEditKeeps, RemovalKeeps, CloseReviewKeeps DEF Manual!Edit
<1>2. CASE Manual!EditSource
  BY <1>2, SourceKeeps DEF Manual!EditSource
<1>3. CASE \E r \in reads : Manual!FileIsRead(r)
  BY <1>3, FileIsReadKeeps
<1>4. CASE Manual!Save
  BY <1>4, SubmitKeeps, DraftAnswerKeeps, ResetKeeps, SimilarKeeps DEF Manual!Save
<1>5. CASE Manual!Answer \/ Manual!GoAway
  BY <1>5, AnswerKeeps, GoAwayKeeps
<1>6. CASE UNCHANGED manual
  BY <1>6, PageStays DEF manual, ManualInductive, ManualShape
<1> QED
  BY <1>1, <1>2, <1>3, <1>4, <1>5, <1>6
  DEF Next, OnMetadataPage, OnManualPage, ChooseManual, Manual!Next, vars

\* What is being saved, or asked about, is the draft on the screen, whatever
\* the user does while it is sent.
THEOREM DraftsAreSavedAsShown == Spec => []SavedIsWhatIsOnScreen
<1>1. ManualInductive => SavedIsWhatIsOnScreen
  BY DEF ManualInductive, RequestsAreFaithful, Faithful, SavedIsWhatIsOnScreen,
         Manual!SavedIsWhatIsOnScreen
<1> QED BY <1>1, ManualInit, ManualStep, PTL DEF Spec

(***************************************************************************)
(* What a step may never do.                                               *)
(***************************************************************************)

\* The page is left by an answer or by the user, and by nothing else.
LEMMA StaysOpen ==
  ASSUME ManualInductive, Manual!Next, ui.open, ~ui'.open
  PROVE  Manual!finish \/ Manual!Navigate \/ Manual!LeaveAnyway \/ Manual!Unload
<1>0. DOMAIN ui = UiFields
  BY DEF ManualInductive, ManualShape
<1>1. CASE Manual!Edit
  <2>1. \A d : [ui EXCEPT !.document = d].open = ui.open
    BY <1>0 DEF UiFields
  <2>2. \A d : ~Manual!updateDocument(d)
    BY <2>1 DEF Manual!updateDocument, Manual!Show
  <2>3. \A r : ~Manual!openReview(r)
    BY <1>0 DEF Manual!openReview, Manual!Ask, UiFields
  <2>4. ~Manual!ChangeLists /\ ~Manual!ChangeCollection
    BY <1>0 DEF Manual!ChangeLists, Manual!ChangeCollection, Manual!Show, UiFields
  <2>5. ~Manual!cancelReview /\ ~Manual!confirmReview /\ ~Manual!CollectionsReload
    BY <1>0 DEF Manual!cancelReview, Manual!confirmReview, Manual!CollectionsReload,
                Manual!closeReview, Manual!Show, Manual!AgreeToLoseRows, UiFields
  <2> QED
    BY <1>1, <2>2, <2>3, <2>4, <2>5
    DEF Manual!Edit, Manual!SetTitle, Manual!ChangeField, Manual!addSeason, Manual!addEpisode,
        Manual!updateSeason, Manual!updateEpisode, Manual!requestSeasonRemoval,
        Manual!requestEpisodeRemoval, Manual!selectKind
<1>2. CASE Manual!EditSource
  BY <1>0, <1>2
  DEF Manual!EditSource, Manual!TypeSource, Manual!Typed, Manual!LoadFile, Manual!NoFile,
      Manual!SwitchMode, Manual!NotReading, UiFields
<1>3. CASE \E r \in reads : Manual!FileIsRead(r)
  BY <1>0, <1>3, ZenonT(120) DEF Manual!FileIsRead, UiFields
<1>4. CASE Manual!Save
  BY <1>0, <1>4
  DEF Manual!Save, Manual!submitStructured, Manual!submitJson, Manual!submitCsv, Manual!start,
      Manual!Review, Manual!ContinueDraft, Manual!CancelDraft, Manual!OpenReset,
      Manual!AnswerReset, Manual!ConfirmSimilar, Manual!CancelSimilar, Manual!Show, Manual!Ask,
      Manual!AgreeToLoseRows, UiFields
<1>5. CASE Manual!Answer
  BY <1>0, <1>5
  DEF Manual!Answer, Manual!Succeeds, Manual!IsSimilar, Manual!Fails, Manual!Failed, UiFields
<1>6. CASE Manual!GoAway
  BY <1>0, <1>6
  DEF Manual!GoAway, Manual!BlockerResets, Manual!Stay, Manual!Show, UiFields
<1> QED BY <1>1, <1>2, <1>3, <1>4, <1>5, <1>6 DEF Manual!Next

\* Files are read by LoadFile and FileIsRead only.
LEMMA ReadsChange ==
  ASSUME ManualInductive, Manual!Next, reads' # reads, ui'.source # ui.source
  PROVE  \E r \in reads : Manual!FileIsRead(r)
<1>0. DOMAIN ui = UiFields
  BY DEF ManualInductive, ManualShape
<1>1. \A u : ~Manual!Show(u) /\ ~Manual!Ask(u) /\ ~Manual!AgreeToLoseRows(u)
  BY DEF Manual!Show, Manual!Ask, Manual!AgreeToLoseRows
<1>2. ~Manual!Edit
  BY <1>1
  DEF Manual!Edit, Manual!SetTitle, Manual!ChangeField, Manual!addSeason, Manual!addEpisode,
      Manual!updateSeason, Manual!updateEpisode, Manual!requestSeasonRemoval,
      Manual!requestEpisodeRemoval, Manual!selectKind, Manual!updateDocument, Manual!openReview,
      Manual!ChangeLists, Manual!ChangeCollection, Manual!cancelReview, Manual!confirmReview,
      Manual!CollectionsReload
<1>3. ~Manual!EditSource
  BY <1>0
  DEF Manual!EditSource, Manual!TypeSource, Manual!LoadFile, Manual!NoFile, Manual!SwitchMode,
      UiFields
<1>4. ~Manual!Save
  BY <1>1
  DEF Manual!Save, Manual!submitStructured, Manual!submitJson, Manual!submitCsv,
      Manual!ContinueDraft, Manual!CancelDraft, Manual!OpenReset, Manual!AnswerReset,
      Manual!ConfirmSimilar, Manual!CancelSimilar
<1>5. ~Manual!Answer /\ ~Manual!GoAway
  BY <1>1
  DEF Manual!Answer, Manual!Succeeds, Manual!IsSimilar, Manual!Fails, Manual!finish,
      Manual!GoAway, Manual!Navigate, Manual!BlockerResets, Manual!Stay, Manual!LeaveAnyway,
      Manual!Unload, Manual!Leaves
<1> QED BY <1>2, <1>3, <1>4, <1>5 DEF Manual!Next

\* No draft is lost unasked: by leaving the page, by saving the other draft, or
\* by a file that is read late.
THEOREM DraftsAreKept == Spec => NothingIsDiscardedUnasked
<1> DEFINE Kept ==
        /\ ui.open /\ ~ui'.open =>
              LET saved == IF call # None /\ call.saved THEN {call.request.draft} ELSE {}
              IN  /\ Manual!StructuredDirty =>
                          \/ "structured" \in agreed' \cup saved
                          \/ saved # {} /\ Manual!DraftEquals(ui.collection)
                  /\ ui.source # None => "source" \in agreed' \cup saved
        /\ reads' # reads /\ ui'.source # ui.source =>
              \E r \in reads \ reads' : r.n = wanted
<1>1. ManualInductive /\ [Next]_vars => [Kept]_Manual!vars
  <2> SUFFICES ASSUME ManualInductive, Manual!Next PROVE Kept
    BY DEF Next, OnMetadataPage, OnManualPage, ChooseManual, vars, manual, Manual!vars
  <2>1. ASSUME ui.open, ~ui'.open
        PROVE  LET saved == IF call # None /\ call.saved THEN {call.request.draft} ELSE {}
               IN  /\ Manual!StructuredDirty =>
                          \/ "structured" \in agreed' \cup saved
                          \/ saved # {} /\ Manual!DraftEquals(ui.collection)
                   /\ ui.source # None => "source" \in agreed' \cup saved
    <3>1. CASE Manual!finish
      <4>1. call # None /\ call.saved /\ agreed' = agreed
        BY <3>1 DEF Manual!finish
      <4>2. Faithful(call.request) /\ OtherIsFree(call.request)
        BY <2>1, <4>1 DEF ManualInductive, RequestsAreFaithful
      <4> QED BY <4>1, <4>2 DEF Faithful, OtherIsFree
    <3>2. CASE Manual!Leaves
      BY <3>2 DEF Manual!Leaves
    <3>3. ~Manual!Dirty => ~Manual!StructuredDirty /\ ui.source = None
      BY DEF Manual!Dirty
    <3>4. CASE ~Manual!Dirty
      BY <3>3, <3>4
    <3>5. ASSUME Manual!Navigate, Manual!Dirty PROVE FALSE
      <4>1. DOMAIN ui = UiFields
        BY DEF ManualInductive, ManualShape
      <4>2. ui' = [ui EXCEPT !.blocked = TRUE]
        BY <3>5 DEF Manual!Navigate, Manual!Blocks, Manual!Show
      <4> QED BY <2>1, <4>1, <4>2 DEF UiFields
    <3> QED
      BY <2>1, <3>1, <3>2, <3>4, <3>5, StaysOpen DEF Manual!LeaveAnyway, Manual!Unload
  <2>2. ASSUME reads' # reads, ui'.source # ui.source
        PROVE  \E r \in reads \ reads' : r.n = wanted
    <3>1. PICK r \in reads : Manual!FileIsRead(r)
      BY <2>2, ReadsChange
    <3>2. ui.open /\ ui.generation = r.n /\ r \notin reads'
      BY <2>2, <3>1 DEF Manual!FileIsRead
    <3>3. r.n # 0
      BY BoundsAssumption DEF ManualInductive, ManualShape
    <3>4. ui.generation = wanted
      BY <3>2, <3>3 DEF ManualInductive, OneOperation
    <3> QED BY <3>2, <3>4
  <2> QED BY <2>1, <2>2
<1> QED
  BY <1>1, ManualInit, ManualStep, PTL
  DEF Spec, NothingIsDiscardedUnasked, Manual!NothingIsDiscardedUnasked

(***************************************************************************)
(* The rows of the document.                                               *)
(***************************************************************************)

SeasonsAreNumbered ==
    IsFiniteSet(DOMAIN ui.document.rows) /\ DOMAIN ui.document.rows \subseteq Nat

\* A finite set of numbers has a greatest: the one with the fewest above it.
LEMMA GreatestNumber ==
  ASSUME NEW S \in SUBSET Nat, IsFiniteSet(S), S # {}
  PROVE  Manual!Max(S) \in S /\ \A y \in S : Manual!Max(S) >= y
<1> DEFINE Above(x) == {y \in S : y > x}
           T == {Above(x) : x \in S}
<1>1. IsWellFoundedOn(StrictSubsetOrdering(S), SUBSET S)
  BY FS_StrictSubsetOrderingWellFounded, FS_FiniteSubsetsOfFinite
<1>2. T \subseteq SUBSET S /\ T # {}
  OBVIOUS
<1>3. PICK t \in T : \A u \in T : ~(<<u, t>> \in StrictSubsetOrdering(S))
  <2> HIDE DEF T
  <2> QED BY <1>1, <1>2, WFMin
<1>4. PICK x \in S : t = Above(x)
  BY <1>3
<1>5. ASSUME NEW y \in S, y > x PROVE FALSE
  <2>1. \A z \in Above(y) : z \in Above(x)
    BY <1>5
  <2>2. y \in Above(x) /\ y \notin Above(y)
    BY <1>5
  <2>3. <<Above(y), Above(x)>> \in StrictSubsetOrdering(S)
    BY <2>1, <2>2 DEF StrictSubsetOrdering
  <2> QED BY <1>3, <1>4, <2>3
<1>6. \A y \in S : x >= y
  BY <1>5
<1> QED BY <1>4, <1>6 DEF Manual!Max

\* A new row takes no other's number.
LEMMA NextNumberIsNew ==
  ASSUME NEW S \in SUBSET Nat, IsFiniteSet(S)
  PROVE  Manual!nextNumber(S) \in Nat \ S
<1>1. IsFiniteSet(S \cup {0})
  BY FS_AddElement
<1>2. PICK greatest : greatest = Manual!Max(S \cup {0})
  OBVIOUS
<1>3. greatest \in Nat /\ \A y \in S : greatest >= y
  <2>1. S \cup {0} \in SUBSET Nat /\ S \cup {0} # {}
    OBVIOUS
  <2>2. greatest \in S \cup {0} /\ \A y \in S \cup {0} : greatest >= y
    BY <1>1, <1>2, <2>1, GreatestNumber
  <2> QED BY <2>1, <2>2
<1>4. Manual!nextNumber(S) = greatest + 1
  BY <1>2 DEF Manual!nextNumber
<1> QED BY <1>3, <1>4

SeasonRows == ui.document.rows

\* SeasonRows come by the buttons that add them, and go by an answer.
LEMMA RowsChange ==
  ASSUME ManualInductive, Manual!Next, SeasonRows' # SeasonRows
  PROVE  \/ SeasonRows' = Manual!WithSeason(Manual!nextNumber(DOMAIN SeasonRows), {})
         \/ \E s \in DOMAIN SeasonRows :
                SeasonRows' = Manual!WithSeason(s, SeasonRows[s] \cup {Manual!nextNumber(SeasonRows[s])})
         \/ Manual!confirmReview \/ Manual!AnswerReset
<1>0. DOMAIN ui = UiFields /\ DOMAIN ui.document = DocumentFields
  BY DEF ManualInductive, ManualShape
<1>1. CASE Manual!Edit
  <2>1. ASSUME NEW d, Manual!updateDocument(d) PROVE SeasonRows' = d.rows
    BY <1>0, <2>1 DEF Manual!updateDocument, Manual!Show, UiFields, SeasonRows
  <2>2. \A title : ~Manual!updateDocument([ui.document EXCEPT !.title = title])
    BY <1>0, <2>1 DEF DocumentFields, SeasonRows
  <2>3. \A to : ~Manual!updateDocument([ui.document EXCEPT !.kind = to])
    BY <1>0, <2>1 DEF DocumentFields, SeasonRows
  <2>4. ~Manual!ChangeField
    BY <1>0, <2>1 DEF Manual!ChangeField, DocumentFields, SeasonRows
  <2>5. ASSUME Manual!addSeason
        PROVE  SeasonRows' = Manual!WithSeason(Manual!nextNumber(DOMAIN SeasonRows), {})
    BY <1>0, <2>1, <2>5 DEF Manual!addSeason, DocumentFields, SeasonRows
  <2>6. ASSUME NEW s, Manual!addEpisode(s)
        PROVE  s \in DOMAIN SeasonRows
               /\ SeasonRows' = Manual!WithSeason(s, SeasonRows[s] \cup {Manual!nextNumber(SeasonRows[s])})
    BY <1>0, <2>1, <2>6 DEF Manual!addEpisode, DocumentFields, SeasonRows
  <2>7. \A review : ~Manual!openReview(review)
    BY <1>0 DEF Manual!openReview, Manual!Ask, UiFields, SeasonRows
  <2>8. ~Manual!ChangeLists /\ ~Manual!ChangeCollection /\ ~Manual!cancelReview
        /\ ~Manual!CollectionsReload
    BY <1>0
    DEF Manual!ChangeLists, Manual!ChangeCollection, Manual!cancelReview,
        Manual!CollectionsReload, Manual!closeReview, Manual!Show, UiFields, SeasonRows
  <2> QED
    BY <1>1, <2>2, <2>3, <2>4, <2>5, <2>6, <2>7, <2>8
    DEF Manual!Edit, Manual!SetTitle, Manual!updateSeason, Manual!updateEpisode,
        Manual!requestSeasonRemoval, Manual!requestEpisodeRemoval, Manual!selectKind
<1>2. ~Manual!EditSource
  BY <1>0
  DEF Manual!EditSource, Manual!TypeSource, Manual!Typed, Manual!LoadFile, Manual!NoFile,
      Manual!SwitchMode, Manual!NotReading, UiFields, SeasonRows
<1>3. \A r \in reads : ~Manual!FileIsRead(r)
  BY <1>0 DEF Manual!FileIsRead, UiFields, SeasonRows
<1>4. Manual!Save => Manual!AnswerReset
  BY <1>0
  DEF Manual!Save, Manual!submitStructured, Manual!submitJson, Manual!submitCsv, Manual!start,
      Manual!Review, Manual!ContinueDraft, Manual!CancelDraft, Manual!OpenReset,
      Manual!ConfirmSimilar, Manual!CancelSimilar, Manual!Show, Manual!Ask, UiFields, SeasonRows
<1>5. ~Manual!Answer
  BY <1>0
  DEF Manual!Answer, Manual!Succeeds, Manual!IsSimilar, Manual!Fails, Manual!Failed,
      Manual!finish, Manual!Closed, UiFields, SeasonRows
<1>6. ~Manual!GoAway
  BY <1>0
  DEF Manual!GoAway, Manual!Navigate, Manual!BlockerResets, Manual!Stay, Manual!LeaveAnyway,
      Manual!Unload, Manual!Leaves, Manual!Closed, Manual!Show, UiFields, SeasonRows
<1> QED BY <1>1, <1>2, <1>3, <1>4, <1>5, <1>6 DEF Manual!Next

\* What is left after a confirmed review.
LEMMA ConfirmedReview ==
  ASSUME ManualInductive, Manual!confirmReview
  PROVE  /\ ui.review # None /\ ReviewIsTrue /\ agreed' = {"rows"}
         /\ \/ /\ ui.review.season \in DOMAIN SeasonRows
               /\ SeasonRows' = [SeasonRows EXCEPT ![ui.review.season] = @ \ {ui.review.episode}]
            \/ /\ ui.review.episode = None
               /\ SeasonRows' = [t \in DOMAIN SeasonRows \ {ui.review.season} |-> SeasonRows[t]]
            \/ /\ ui.review.season = None /\ ui.review.episode = None
               /\ SeasonRows' = [t \in {} |-> {}]
<1>0. DOMAIN ui = UiFields /\ DOMAIN ui.document = DocumentFields
  BY DEF ManualInductive, ManualShape
<1>1. ui.review # None /\ ui'.document = Manual!Pruned /\ agreed' = {"rows"}
  BY <1>0 DEF Manual!confirmReview, Manual!closeReview, Manual!AgreeToLoseRows, UiFields
<1>2. ReviewIsTrue
  BY <1>1 DEF ManualInductive, Manual!confirmReview
<1> DEFINE t == ui.review.season
           fewer == [ui.document EXCEPT !.rows[t] = @ \ {ui.review.episode}]
           without == [ui.document EXCEPT !.rows = [u \in DOMAIN ui.document.rows \ {t} |->
                                                       ui.document.rows[u]]]
           movie == [ui.document EXCEPT !.kind = "movie", !.rows = [u \in {} |-> {}]]
<1>3. \/ ui.review.episode # None /\ Manual!Pruned = fewer
      \/ t # None /\ ui.review.episode = None /\ Manual!Pruned = without
      \/ t = None /\ Manual!Pruned = movie
  BY DEF Manual!Pruned
<1>4. fewer.rows = [SeasonRows EXCEPT ![t] = @ \ {ui.review.episode}]
  BY <1>0 DEF DocumentFields, SeasonRows
<1>5. without.rows = [u \in DOMAIN SeasonRows \ {t} |-> SeasonRows[u]]
  BY <1>0 DEF DocumentFields, SeasonRows
<1>6. movie.rows = [u \in {} |-> {}]
  BY <1>0 DEF DocumentFields
<1>7. /\ t = None => ui.review.episode = None
      /\ t # None => t \in DOMAIN SeasonRows
  BY <1>2 DEF ReviewIsTrue, SeasonRows
<1>8. SeasonRows' = Manual!Pruned.rows
  BY <1>1 DEF SeasonRows
<1> QED BY <1>1, <1>2, <1>3, <1>4, <1>5, <1>6, <1>7, <1>8

\* The draft is given up with a word, or kept.
LEMMA AnsweredReset ==
  ASSUME ManualInductive, Manual!AnswerReset, SeasonRows' # SeasonRows
  PROVE  ui.reset /\ ui'.document = Manual!InitialDocument /\ agreed' = {"rows"}
<1>0. DOMAIN ui = UiFields
  BY DEF ManualInductive, ManualShape
<1> QED
  BY <1>0 DEF Manual!AnswerReset, Manual!Show, Manual!AgreeToLoseRows, UiFields, SeasonRows

\* A new work has no seasons, the stored one of the model has one.
LEMMA InitialNumbers ==
  /\ IsFiniteSet(DOMAIN Manual!InitialDocument.rows)
  /\ DOMAIN Manual!InitialDocument.rows \subseteq Nat
<1>1. PICK numbers : numbers = DOMAIN Manual!InitialDocument.rows
  OBVIOUS
<1>2. numbers = {} \/ numbers = {1}
  BY <1>1
  DEF Manual!InitialDocument, Manual!createManualDocument, Manual!manualDocumentFromItem
<1>3. IsFiniteSet({}) /\ IsFiniteSet({1})
  BY FS_EmptySet, FS_Singleton
<1>4. IsFiniteSet(numbers)
  BY <1>2, <1>3
<1>5. numbers \subseteq Nat
  BY <1>2
<1> QED BY <1>1, <1>4, <1>5

LEMMA NumbersInit == Init => SeasonsAreNumbered
<1> SUFFICES ASSUME Manual!Init PROVE SeasonsAreNumbered
  BY DEF Init
<1>1. ui.document = Manual!InitialDocument
  BY DEF Manual!Init
<1> QED BY <1>1, InitialNumbers DEF SeasonsAreNumbered

LEMMA NumbersStep ==
  ManualInductive /\ SeasonsAreNumbered /\ [Next]_vars => SeasonsAreNumbered'
<1> SUFFICES ASSUME ManualInductive, SeasonsAreNumbered, Manual!Next, SeasonRows' # SeasonRows
             PROVE  SeasonsAreNumbered'
  BY DEF Next, OnMetadataPage, OnManualPage, ChooseManual, vars, manual, SeasonsAreNumbered, SeasonRows
<1>1. IsFiniteSet(DOMAIN SeasonRows) /\ DOMAIN SeasonRows \subseteq Nat
  BY DEF SeasonsAreNumbered, SeasonRows
<1>2. SUFFICES IsFiniteSet(DOMAIN SeasonRows') /\ DOMAIN SeasonRows' \subseteq Nat
  BY DEF SeasonsAreNumbered, SeasonRows
<1>3. ASSUME NEW s \in Nat, NEW episodes, SeasonRows' = Manual!WithSeason(s, episodes)
      PROVE  IsFiniteSet(DOMAIN SeasonRows') /\ DOMAIN SeasonRows' \subseteq Nat
  <2>1. DOMAIN SeasonRows' = DOMAIN SeasonRows \cup {s}
    BY <1>3 DEF Manual!WithSeason, SeasonRows
  <2> QED BY <1>1, <2>1, FS_AddElement
<1>4. Manual!nextNumber(DOMAIN SeasonRows) \in Nat
  BY <1>1, NextNumberIsNew
<1>5. CASE Manual!confirmReview
  <2>1. DOMAIN SeasonRows' \subseteq DOMAIN SeasonRows
    BY <1>5, ConfirmedReview
  <2> QED BY <1>1, <2>1, FS_Subset
<1>6. CASE Manual!AnswerReset
  <2>1. SeasonRows' = Manual!InitialDocument.rows
    BY <1>6, AnsweredReset DEF SeasonRows
  <2> QED BY <2>1, InitialNumbers
<1> QED BY <1>1, <1>3, <1>4, <1>5, <1>6, RowsChange

\* A row is lost to an answer only: adding one takes none away.
LEMMA RowsStay ==
  ASSUME ManualInductive, SeasonsAreNumbered, Manual!Next,
         ~Manual!confirmReview, ~Manual!AnswerReset,
         NEW s \in DOMAIN SeasonRows, NEW e \in SeasonRows[s] \cup {None}
  PROVE  Manual!HasRow(ui'.document, s, e)
<1>1. SUFFICES s \in DOMAIN SeasonRows' /\ (e # None => e \in SeasonRows'[s])
  BY DEF Manual!HasRow, SeasonRows
<1>2. CASE SeasonRows' = SeasonRows
  BY <1>2
<1>3. ASSUME SeasonRows' = Manual!WithSeason(Manual!nextNumber(DOMAIN SeasonRows), {})
      PROVE  s \in DOMAIN SeasonRows' /\ (e # None => e \in SeasonRows'[s])
  <2>1. PICK n : n = Manual!nextNumber(DOMAIN SeasonRows)
    OBVIOUS
  <2>2. n \notin DOMAIN SeasonRows
    BY <2>1, NextNumberIsNew DEF SeasonsAreNumbered, SeasonRows
  <2>3. SeasonRows' = [t \in DOMAIN SeasonRows \cup {n} |-> IF t = n THEN {} ELSE SeasonRows[t]]
    BY <1>3, <2>1 DEF Manual!WithSeason, SeasonRows
  <2> QED BY <2>2, <2>3
<1>4. ASSUME NEW u \in DOMAIN SeasonRows, NEW new, SeasonRows' = Manual!WithSeason(u, SeasonRows[u] \cup {new})
      PROVE  s \in DOMAIN SeasonRows' /\ (e # None => e \in SeasonRows'[s])
  <2>1. SeasonRows' = [t \in DOMAIN SeasonRows \cup {u} |-> IF t = u THEN SeasonRows[u] \cup {new} ELSE SeasonRows[t]]
    BY <1>4 DEF Manual!WithSeason, SeasonRows
  <2> QED BY <2>1
<1> QED BY <1>2, <1>3, <1>4, RowsChange

\* A confirmed review takes what it names: one episode, one season with its
\* episodes, or all of them.
LEMMA ReviewTakesWhatItNames ==
  ASSUME ManualInductive, Manual!confirmReview,
         NEW s \in DOMAIN SeasonRows, NEW e \in SeasonRows[s] \cup {None},
         ~Manual!HasRow(ui'.document, s, e)
  PROVE  /\ "rows" \in agreed' /\ ui.review # None
         /\ ui.review.season \in {s, None} /\ ui.review.episode \in {e, None}
<1>1. ~(s \in DOMAIN SeasonRows' /\ (e # None => e \in SeasonRows'[s]))
  BY DEF Manual!HasRow, SeasonRows
<1>2. PICK t, f : t = ui.review.season /\ f = ui.review.episode
  OBVIOUS
<1>3. /\ "rows" \in agreed' /\ ui.review # None
      /\ \/ t \in DOMAIN SeasonRows /\ SeasonRows' = [SeasonRows EXCEPT ![t] = @ \ {f}]
         \/ f = None /\ SeasonRows' = [u \in DOMAIN SeasonRows \ {t} |-> SeasonRows[u]]
         \/ t = None /\ f = None
  BY <1>2, ConfirmedReview
<1>4. CASE t \in DOMAIN SeasonRows /\ SeasonRows' = [SeasonRows EXCEPT ![t] = @ \ {f}]
  BY <1>1, <1>2, <1>3, <1>4
<1>5. CASE f = None /\ SeasonRows' = [u \in DOMAIN SeasonRows \ {t} |-> SeasonRows[u]]
  BY <1>1, <1>2, <1>3, <1>5
<1> QED BY <1>2, <1>3, <1>4, <1>5

\* A review of a removal stays true until it is answered, and a season or an
\* episode leaves the document only by a review that names it and is confirmed,
\* or with the whole draft when the user gives it up.
THEOREM ReviewsAreTrue == Spec => ReviewsStayTrue
<1> DEFINE True ==
        /\ ui.review # None /\ ui.open =>
              LET s == ui.review.season
                  e == ui.review.episode
              IN  IF s = None THEN ui.review.descendantCount = Manual!EpisodeCount
                  ELSE /\ Manual!HasRow(ui.document, s, e)
                       /\ e = None =>
                             ui.review.descendantCount =
                                 Manual!Cardinality(ui.document.rows[s])
        /\ \A s \in DOMAIN ui.document.rows : \A e \in ui.document.rows[s] \cup {None} :
              ~Manual!HasRow(ui'.document, s, e) =>
                  /\ "rows" \in agreed'
                  /\ \/ ui.reset /\ ui'.document = Manual!InitialDocument
                     \/ /\ ui.review # None
                        /\ ui.review.season \in {s, None}
                        /\ ui.review.episode \in {e, None}
<1>1. ManualInductive /\ SeasonsAreNumbered /\ [Next]_vars => [True]_Manual!vars
  <2> SUFFICES ASSUME ManualInductive, SeasonsAreNumbered, Manual!Next PROVE True
    BY DEF Next, OnMetadataPage, OnManualPage, ChooseManual, vars, manual, Manual!vars
  <2>1. ASSUME NEW s \in DOMAIN ui.document.rows, NEW e \in ui.document.rows[s] \cup {None},
               ~Manual!HasRow(ui'.document, s, e)
        PROVE  /\ "rows" \in agreed'
               /\ \/ ui.reset /\ ui'.document = Manual!InitialDocument
                  \/ /\ ui.review # None
                     /\ ui.review.season \in {s, None}
                     /\ ui.review.episode \in {e, None}
    <3>1. s \in DOMAIN SeasonRows /\ e \in SeasonRows[s] \cup {None} /\ SeasonRows' # SeasonRows
      BY <2>1 DEF SeasonRows, Manual!HasRow
    <3> QED BY <2>1, <3>1, RowsStay, ReviewTakesWhatItNames, AnsweredReset
  <2>2. ui.review # None /\ ui.open => ReviewIsTrue
    BY DEF ManualInductive
  <2> QED BY <2>1, <2>2 DEF ReviewIsTrue, Manual!HasRow
<1> QED
  BY <1>1, ManualInit, ManualStep, NumbersInit, NumbersStep, PTL
  DEF Spec, ReviewsStayTrue, Manual!ReviewsStayTrue

===============================================================================
