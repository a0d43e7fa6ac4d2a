----------------------------- MODULE ManualPages ------------------------------
(***************************************************************************)
(* The two pages on which a work is described by hand: adding one          *)
(* (manual/manual-add-page.tsx) and changing one (manual-edit-page.tsx),   *)
(* with the editor they share (manual-editor.tsx, manual-document.ts).     *)
(*                                                                         *)
(* A page holds two drafts at once: the structured one of the editor, and  *)
(* a source text, JSON on the first page and CSV on the second.  Only one  *)
(* of them is saved, after which the page is left.  Requests and reads of  *)
(* files end later; one "operation" decides what is locked meanwhile.      *)
(***************************************************************************)
EXTENDS Integers, FiniteSets, FiniteSetsExt

CONSTANTS
    MaxSeasons, MaxEpisodes,   \* how many rows a series and a season may have
    Texts,                     \* source texts, other than the empty one
    Collections,
    MaxReads,                  \* how many files may be being read at once
    None

VARIABLES
    kind,     \* "add", "edit": which page it is
    ui,       \* its state and its refs
    call,     \* the request it waits for
    reads,    \* the files being read
    wanted,   \* the file whose text the user wants as the source, if any
    agreed    \* what the user has agreed to lose: drafts, or "rows" of the document

vars == <<kind, ui, call, reads, wanted, agreed>>

-------------------------------------------------------------------------------
(* Drafts.  Of a document its rows matter, whether there is a title, whether *)
(* another field was changed, and the comma-separated lists, which are edited*)
(* as text and read back only when the text was touched.  A row is named by  *)
(* its number: no two rows share one unless the user types it.               *)

createManualDocument ==
    [kind |-> "movie", title |-> FALSE, fields |-> "as created", lists |-> "as created",
     rows |-> [s \in {} |-> {}]]

manualDocumentFromItem ==
    [kind |-> "series", title |-> TRUE, fields |-> "as stored", lists |-> "as stored",
     rows |-> [s \in {1} |-> {}]]

InitialDocument == IF kind = "add" THEN createManualDocument ELSE manualDocumentFromItem

projectManualDocument(document, rawLists) ==
    [document EXCEPT !.lists = IF rawLists = "initial" THEN @ ELSE "parsed"]

DraftEquals(collection) ==
    ui.document = InitialDocument /\ ui.rawLists = "initial" /\ ui.collection = collection

StructuredDirty == ~DraftEquals(None)

Dirty == StructuredDirty \/ ui.source # None

\* The text is a document; an empty one is not.
parseManualJson(text) == text # None

EpisodeCount == Cardinality(UNION {{s} \X ui.document.rows[s] : s \in DOMAIN ui.document.rows})

-------------------------------------------------------------------------------
Init ==
    /\ kind \in {"add", "edit"}
    /\ ui = [open |-> TRUE, operation |-> "idle", document |-> InitialDocument,
             rawLists |-> "initial", collection |-> None, mode |-> "structured",
             source |-> None, review |-> None, draftReview |-> None, token |-> None,
             reset |-> FALSE, unsaved |-> FALSE, blocked |-> FALSE, shown |-> TRUE,
             generation |-> 0]
    /\ call = None
    /\ reads = {}
    /\ wanted = 0
    /\ agreed = {}

Idle == ui.operation = "idle"

NavigationReview == ui.blocked /\ Idle

\* Wrong: a request under way does not lock the page.
LockedByReviewOnly == NavigationReview \/ ui.operation \in {"reviewing", "confirming"}

Locked == NavigationReview \/ ui.operation \notin {"idle", "reading"}

EditorIsShown == ui.open /\ ui.shown /\ ui.mode = "structured"

SourceIsShown ==
    /\ ui.open
    /\ IF kind = "add" THEN ui.shown /\ ui.mode = "json" ELSE InitialDocument.kind = "series"

Show(u) == ui' = u /\ UNCHANGED <<kind, call, reads, wanted, agreed>>

\* A question about losing something is put, or answered with yes.
Ask(u) == ui' = u /\ agreed' = {} /\ UNCHANGED <<kind, call, reads, wanted>>

AgreeToLoseRows(u) == ui' = u /\ agreed' = {"rows"} /\ UNCHANGED <<kind, call, reads, wanted>>

-------------------------------------------------------------------------------
(* The editor.                                                               *)

CanEdit == EditorIsShown /\ ~Locked /\ ui.review = None

updateDocument(document) == CanEdit /\ Show([ui EXCEPT !.document = document])

SetTitle == \E title \in BOOLEAN : updateDocument([ui.document EXCEPT !.title = title])

ChangeField == updateDocument([ui.document EXCEPT !.fields = "changed"])

updateSeason(s) == s \in DOMAIN ui.document.rows /\ ChangeField

updateEpisode(s, e) ==
    /\ s \in DOMAIN ui.document.rows /\ e \in ui.document.rows[s]
    /\ ChangeField

ChangeLists == CanEdit /\ Show([ui EXCEPT !.rawLists = "edited"])

ChangeCollection ==
    /\ kind = "add"
    /\ ui.open /\ ui.shown /\ ~Locked /\ ui.review = None
    /\ \E collection \in Collections \cup {None} : Show([ui EXCEPT !.collection = collection])

WithSeason(s, episodes) ==
    [t \in DOMAIN ui.document.rows \cup {s} |-> IF t = s THEN episodes ELSE ui.document.rows[t]]

\* A new row has the number after the largest.
nextNumber(numbers) == Max(numbers \cup {0}) + 1

addSeason ==
    /\ ui.document.kind = "series"
    /\ nextNumber(DOMAIN ui.document.rows) <= MaxSeasons
    /\ updateDocument([ui.document EXCEPT
                          !.rows = WithSeason(nextNumber(DOMAIN ui.document.rows), {})])

addEpisode(s) ==
    /\ s \in DOMAIN ui.document.rows
    /\ nextNumber(ui.document.rows[s]) <= MaxEpisodes
    /\ updateDocument([ui.document EXCEPT
                          !.rows = WithSeason(s, @[s] \cup {nextNumber(@[s])})])

\* A removal is announced to the page, which may refuse it, and reviewed.
openReview(review) ==
    /\ CanEdit
    /\ Idle /\ ~NavigationReview
    /\ Ask([ui EXCEPT !.review = review, !.operation = "reviewing"])

requestSeasonRemoval(s) ==
    /\ s \in DOMAIN ui.document.rows
    /\ openReview([season |-> s, episode |-> None,
                   descendantCount |-> Cardinality(ui.document.rows[s])])

requestEpisodeRemoval(s, e) ==
    /\ s \in DOMAIN ui.document.rows /\ e \in ui.document.rows[s]
    /\ openReview([season |-> s, episode |-> e, descendantCount |-> 1])

\* A work that is stored keeps its kind; a series loses its rows as a film.
selectKind(to) ==
    /\ kind = "add" /\ CanEdit
    /\ IF to = "movie" /\ DOMAIN ui.document.rows # {}
       THEN openReview([season |-> None, episode |-> None, descendantCount |-> EpisodeCount])
       ELSE updateDocument([ui.document EXCEPT !.kind = to])

\* What is left of the document when the review is confirmed.
Pruned ==
    LET rows == ui.document.rows
        s == ui.review.season
    IN  CASE ui.review.episode # None -> [ui.document EXCEPT !.rows[s] = @ \ {ui.review.episode}]
          [] s # None /\ ui.review.episode = None ->
                 [ui.document EXCEPT !.rows = [t \in DOMAIN rows \ {s} |-> rows[t]]]
          [] s = None -> [ui.document EXCEPT !.kind = "movie", !.rows = [t \in {} |-> {}]]

\* Wrong: closing the review removes what it names, however it is closed.
CloseAndRemove(u) == [u EXCEPT !.review = None, !.operation = "idle", !.document = Pruned]

closeReview(u) == [u EXCEPT !.review = None, !.operation = "idle"]

cancelReview == ui.open /\ ui.review # None /\ Show(closeReview(ui))

confirmReview ==
    /\ ui.open /\ ui.review # None
    /\ AgreeToLoseRows([closeReview(ui) EXCEPT !.document = Pruned])

\* Loading the collections again fails, or succeeds: the page for adding shows
\* its editor only when it has them, and an editor that goes closes its review.
CollectionsReload ==
    /\ kind = "add" /\ ui.open
    /\ IF ui.shown /\ ui.review # None THEN Show([closeReview(ui) EXCEPT !.shown = FALSE])
       ELSE Show([ui EXCEPT !.shown = ~@])

-------------------------------------------------------------------------------
(* The source text.                                                          *)

\* The text area and the file input are free.
SourceIsFree == SourceIsShown /\ ~Locked

NotReading(u) ==
    [u EXCEPT !.generation = 0, !.operation = IF @ = "reading" THEN "idle" ELSE @]

\* Wrong: typing does not stop the file being read.
TypedWhileReading(text) == [ui EXCEPT !.unsaved = FALSE, !.source = text]

Typed(text) == [NotReading(ui) EXCEPT !.unsaved = FALSE, !.source = text]

TypeSource(text) ==
    /\ SourceIsFree
    /\ ui' = Typed(text)
    /\ wanted' = 0
    /\ UNCHANGED <<kind, call, reads, agreed>>

\* The generation is the name of the read it belongs to; 0 when none does.
LoadFile(text) ==
    /\ SourceIsFree
    /\ Cardinality(reads) < MaxReads
    /\ LET n == CHOOSE n \in 1..MaxReads : \A r \in reads : r.n # n
       IN  /\ reads' = reads \cup {[n |-> n, text |-> text]}
           /\ ui' = [ui EXCEPT !.generation = n, !.operation = "reading"]
           /\ wanted' = n
    /\ UNCHANGED <<kind, call, agreed>>

\* The choice of a file is taken back, or the file is too large.  Of these only
\* the message about its size takes the place of the one about unsaved changes.
NoFile ==
    /\ SourceIsFree
    /\ ui' \in {NotReading(ui), [NotReading(ui) EXCEPT !.unsaved = FALSE]}
    /\ wanted' = 0
    /\ UNCHANGED <<kind, call, reads, agreed>>

\* The read ends, well or not; a read of another generation changes nothing.
FileIsRead(r) ==
    /\ reads' = reads \ {r}
    /\ r \in reads
    /\ IF ui.open /\ ui.generation = r.n /\ (kind = "add" => ui.operation = "reading")
       THEN LET ended == [ui EXCEPT !.operation = "idle", !.generation = 0]
            IN  ui' \in {ended, [ended EXCEPT !.source = r.text, !.unsaved = FALSE]}
       ELSE UNCHANGED ui
    /\ UNCHANGED <<kind, call, wanted, agreed>>

SwitchMode(to) ==
    /\ kind = "add" /\ ui.open /\ ~Locked
    /\ IF to = "json" THEN ui' = [ui EXCEPT !.mode = to] /\ UNCHANGED wanted
       ELSE ui' = [NotReading(ui) EXCEPT !.mode = to] /\ wanted' = 0
    /\ UNCHANGED <<kind, call, reads, agreed>>

-------------------------------------------------------------------------------
(* Saving.                                                                   *)

StructuredRequest ==
    [draft |-> "structured", content |-> projectManualDocument(ui.document, ui.rawLists),
     collection |-> ui.collection]

SourceRequest == [draft |-> "source", content |-> ui.source, collection |-> ui.collection]

start(u, request) ==
    /\ ui' = [u EXCEPT !.operation = "submitting"]
    /\ call' = [kind |-> "save", request |-> request, saved |-> FALSE]

\* The other draft would be lost: ask first.
Review(request) ==
    ui' = [ui EXCEPT !.draftReview = request, !.operation = "reviewing"] /\ UNCHANGED call

submitStructured ==
    /\ CanEdit /\ ui.document.title
    /\ Idle /\ ~NavigationReview
    /\ IF ui.source # None THEN Review(StructuredRequest) ELSE start(ui, StructuredRequest)
    /\ UNCHANGED <<kind, reads, wanted, agreed>>

submitJson ==
    /\ kind = "add" /\ SourceIsShown /\ Idle /\ ~NavigationReview
    /\ parseManualJson(ui.source)
    /\ IF DraftEquals(ui.collection) THEN start(ui, SourceRequest) ELSE Review(SourceRequest)
    /\ UNCHANGED <<kind, reads, wanted, agreed>>

\* Episodes are imported only when nothing else is unsaved, and not from a text
\* that is empty or too large.
submitCsv ==
    /\ kind = "edit" /\ SourceIsShown /\ Idle /\ ~NavigationReview
    /\ \/ ui' = [ui EXCEPT !.unsaved = StructuredDirty] /\ UNCHANGED call
       \/ ~StructuredDirty /\ ui.source # None
            /\ start([ui EXCEPT !.unsaved = FALSE], SourceRequest)
    /\ UNCHANGED <<kind, reads, wanted, agreed>>

OtherDraft(request) == {"structured", "source"} \ {request.draft}

ContinueDraft ==
    /\ ui.open /\ ui.draftReview # None /\ ui.operation = "reviewing"
    /\ start([ui EXCEPT !.draftReview = None], ui.draftReview)
    /\ agreed' = OtherDraft(ui.draftReview)
    /\ UNCHANGED <<kind, reads, wanted>>

CancelDraft ==
    /\ ui.open /\ ui.draftReview # None
    /\ Show([ui EXCEPT !.draftReview = None, !.operation = "idle"])

\* The structured draft is given up for the episodes, after a question.
OpenReset ==
    /\ kind = "edit" /\ ui.open /\ ui.unsaved /\ StructuredDirty /\ Idle
    /\ Ask([ui EXCEPT !.reset = TRUE, !.operation = "reviewing"])

AnswerReset ==
    /\ ui.open /\ ui.reset
    /\ \/ Show([ui EXCEPT !.reset = FALSE, !.operation = "idle"])
       \/ AgreeToLoseRows([ui EXCEPT !.reset = FALSE, !.operation = "idle", !.unsaved = FALSE,
                                      !.document = InitialDocument, !.rawLists = "initial",
                                      !.collection = None])

\* The server knows a similar work; it keeps the request under a token.
ConfirmSimilar ==
    /\ ui.open /\ ui.token # None /\ ui.operation = "reviewing"
    /\ ui' = [ui EXCEPT !.operation = "confirming"]
    /\ call' = [kind |-> "confirm", request |-> ui.token, saved |-> FALSE]
    /\ UNCHANGED <<kind, reads, wanted, agreed>>

CancelSimilar ==
    /\ ui.open /\ ui.token # None /\ ui.operation = "reviewing"
    /\ ui' = [ui EXCEPT !.token = None, !.operation = "idle"]
    /\ agreed' = {}
    /\ UNCHANGED <<kind, call, reads, wanted>>

-------------------------------------------------------------------------------
(* Answers.  A page that has been left ignores them.                         *)

Succeeds ==
    /\ call # None /\ ~call.saved
    /\ call' = [call EXCEPT !.saved = TRUE]
    /\ IF ui.open THEN ui' = [ui EXCEPT !.token = None] ELSE UNCHANGED ui
    /\ UNCHANGED <<kind, reads, wanted, agreed>>

IsSimilar ==
    /\ call # None /\ ~call.saved /\ call.kind = "save"
    /\ kind = "add" \/ call.request.draft = "structured"
    /\ IF ui.open THEN ui' = [ui EXCEPT !.token = call.request, !.operation = "reviewing"]
       ELSE UNCHANGED ui
    /\ call' = None
    /\ UNCHANGED <<kind, reads, wanted, agreed>>

\* Wrong: a failure leaves the page as it was while it waited.
FailedStillWaiting(u) == [u EXCEPT !.token = None]

Failed(u) == [u EXCEPT !.token = None, !.operation = "idle"]

\* An error, or no answer at all, or the confirmation has expired.
Fails ==
    /\ call # None /\ ~call.saved
    /\ ui' = IF ui.open THEN Failed(ui) ELSE ui
    /\ call' = None
    /\ agreed' = {}
    /\ UNCHANGED <<kind, reads, wanted>>

Closed == [ui EXCEPT !.open = FALSE, !.blocked = FALSE]

\* finish(): the catalogue is invalidated, and the page moves on to the item;
\* its own blocker lets this navigation pass.
finish ==
    /\ call # None /\ call.saved
    /\ ui' = IF ui.open THEN Closed ELSE ui
    /\ call' = None
    /\ UNCHANGED <<kind, reads, wanted, agreed>>

-------------------------------------------------------------------------------
(* Leaving.                                                                  *)

Blocks == ~Idle \/ Dirty

Navigate ==
    /\ ui.open /\ ~ui.blocked
    /\ Show(IF Blocks THEN [ui EXCEPT !.blocked = TRUE] ELSE Closed)

\* During an operation the navigation is dropped.
BlockerResets == ui.open /\ ui.blocked /\ ~Idle /\ Show([ui EXCEPT !.blocked = FALSE])

Stay == ui.open /\ NavigationReview /\ Show([ui EXCEPT !.blocked = FALSE])

Leaves == ui' = Closed /\ agreed' = {"structured", "source"} /\ UNCHANGED <<kind, call, reads, wanted>>

LeaveAnyway == ui.open /\ NavigationReview /\ Leaves

\* The tab is closed; the browser asks when the page tells it to.
Unload ==
    /\ ui.open
    /\ IF Dirty \/ ~Idle THEN Leaves ELSE Show(Closed)

-------------------------------------------------------------------------------
Edit ==
    \/ SetTitle \/ ChangeField \/ ChangeLists \/ ChangeCollection
    \/ addSeason
    \/ \E s \in 1..MaxSeasons : updateSeason(s) \/ addEpisode(s) \/ requestSeasonRemoval(s)
    \/ \E s \in 1..MaxSeasons, e \in 1..MaxEpisodes :
           updateEpisode(s, e) \/ requestEpisodeRemoval(s, e)
    \/ \E to \in {"movie", "series"} : selectKind(to)
    \/ cancelReview \/ confirmReview \/ CollectionsReload

EditSource ==
    \/ \E text \in Texts \cup {None} : TypeSource(text)
    \/ \E text \in Texts : LoadFile(text)
    \/ NoFile
    \/ \E to \in {"structured", "json"} : SwitchMode(to)

Save ==
    \/ submitStructured \/ submitJson \/ submitCsv \/ ContinueDraft \/ CancelDraft
    \/ OpenReset \/ AnswerReset \/ ConfirmSimilar \/ CancelSimilar

Answer == Succeeds \/ IsSimilar \/ Fails \/ finish

GoAway == Navigate \/ BlockerResets \/ Stay \/ LeaveAnyway \/ Unload

Next == Edit \/ EditSource \/ (\E r \in reads : FileIsRead(r)) \/ Save \/ Answer \/ GoAway

Spec == Init /\ [][Next]_vars

\* Requests and reads end; the user is not fair.
Fairness ==
    /\ WF_vars(Answer)
    /\ \A n \in 1..MaxReads : WF_vars(\E r \in reads : r.n = n /\ FileIsRead(r))

FairSpec == Spec /\ Fairness

-------------------------------------------------------------------------------
OnScreen(request) ==
    request = IF request.draft = "structured" THEN StructuredRequest ELSE SourceRequest

\* What is being saved is what is on the screen: while a request is under way,
\* or waits for an answer about the other draft or a similar work, the draft it
\* was made of does not change.
SavedIsWhatIsOnScreen ==
    ui.open => \A request \in {ui.draftReview, ui.token}
                              \cup (IF call = None THEN {} ELSE {call.request}) :
                   request # None => OnScreen(request)

\* No draft is lost without a question: the page is left with an unsaved draft
\* only when the user has agreed to lose this draft, and a file that is read
\* late replaces the source only while the user still wants it.
NothingIsDiscardedUnasked ==
    [][ /\ ui.open /\ ~ui'.open =>
              LET saved == IF call # None /\ call.saved THEN {call.request.draft} ELSE {}
              IN  /\ StructuredDirty =>
                          \/ "structured" \in agreed' \cup saved
                          \/ saved # {} /\ DraftEquals(ui.collection)
                  /\ ui.source # None => "source" \in agreed' \cup saved
        /\ reads' # reads /\ ui'.source # ui.source =>
              \E r \in reads \ reads' : r.n = wanted ]_vars

\* The document has this season or, when there is an episode, this episode of it.
HasRow(document, s, e) ==
    s \in DOMAIN document.rows /\ (e # None => e \in document.rows[s])

\* A review tells the truth until it is answered: it names rows that are there
\* and counts what hangs on them.  A season or an episode leaves the document
\* only when the user answers yes: to a review that names it, or to giving up
\* the whole draft.
ReviewsStayTrue ==
    [][ /\ ui.review # None /\ ui.open =>
              LET s == ui.review.season
                  e == ui.review.episode
              IN  IF s = None THEN ui.review.descendantCount = EpisodeCount
                  ELSE /\ HasRow(ui.document, s, e)
                       /\ e = None =>
                             ui.review.descendantCount = Cardinality(ui.document.rows[s])
        /\ \A s \in DOMAIN ui.document.rows : \A e \in ui.document.rows[s] \cup {None} :
              ~HasRow(ui'.document, s, e) =>
                  /\ "rows" \in agreed'
                  /\ \/ ui.reset /\ ui'.document = InitialDocument
                     \/ /\ ui.review # None
                        /\ ui.review.season \in {s, None}
                        /\ ui.review.episode \in {e, None} ]_vars

Waits == ui.open /\ ui.operation \in {"submitting", "confirming"}

Reads(n) == ui.open /\ ui.operation = "reading" /\ wanted = n

\* Whatever fails or ends late, the page is freed: of a request, and of a file
\* unless the user chooses another one meanwhile.
PageIsFreed == (Waits ~> ~Waits) /\ (\A n \in 1..MaxReads : Reads(n) ~> ~Reads(n))

===============================================================================
