--------------------------------- MODULE Catalog ---------------------------------
(******************************************************************************)
(* The media catalog: items by provider identity, their append-only revision  *)
(* histories, collections, and the requests that change them.                 *)
(*                                                                            *)
(* A request runs in a worker thread: it reads, talks to a metadata module,   *)
(* and writes in one transaction (BEGIN IMMEDIATE: writers exclude each       *)
(* other); other requests run between those steps.  A transaction is one      *)
(* action; one that raises leaves nothing behind.  What a metadata document   *)
(* says is abstracted to its title (and year), all that similarity looks at.  *)
(******************************************************************************)
EXTENDS Naturals, Sequences

CONSTANTS
    Threads,       \* worker threads
    Identities,    \* (provider, external id) pairs
    Edited,        \* the identities of the one module that has an editor
    Provider,      \* the provider of each identity
    Items,         \* row ids of media_items
    Titles,        \* titles, with the year
    Collections,   \* row ids of collections
    Tokens,        \* opaque tokens of metadata selections and manual drafts
    None,          \* "no value"
    MaxRevisions   \* bound: revisions of one item

ASSUME EditedAssumption == Edited \subseteq Identities
ASSUME NoneAssumption == None \notin Identities \cup Items \cup Titles \cup Collections \cup Tokens
ASSUME BoundAssumption == MaxRevisions \in Nat \ {0}

VARIABLES
    identity,    \* the identity of each item, None before its row exists
    revisions,   \* the revisions of each item, by revision_number
    current,     \* current_revision_id of each item: a revision_number, 0 for null
    title,       \* normalized_title and year of each item
    placed,      \* collection_id of each item
    archived,    \* items with archived_at
    shelf,       \* "none", "active" or "archived" for each collection
    selections,  \* metadata selections: the identity behind each live token
    drafts,      \* manual drafts: the request behind each live token
    issued,      \* tokens handed out so far
    pc,          \* where each thread is
    job          \* the request each thread works on

itemVars    == <<identity, revisions, current, title, placed, archived>>
tokenVars   == <<selections, drafts, issued>>
threadVars  == <<pc, job>>
vars == <<itemVars, shelf, tokenVars, threadVars>>

\* A request: "shown" is the revision it was made for, "draft" the token that
\* was confirmed, "item" the row that was read.
Jobs == [op : {"select", "import", "edit", "episodes", "refresh"},
         identity : Identities, item : Items \cup {None}, title : Titles \cup {None},
         shown : Nat, confirmed : BOOLEAN, collection : Collections \cup {None},
         draft : Tokens \cup {None}]

\* A revision: its title, whether its payload was purged, and, for the
\* properties, what the request that wrote it was.
Revisions == [title : Titles, purged : BOOLEAN,
              op : {"select", "import", "edit", "episodes", "refresh"}, shown : Nat,
              confirmed : BOOLEAN, draft : Tokens \cup {None}]

Revision(request, name) ==
    [title |-> name, purged |-> FALSE, op |-> request.op, shown |-> request.shown,
     confirmed |-> request.confirmed, draft |-> request.draft]

States == {"idle", "lookup", "fetch", "confirm", "recheck", "commit"}

TypeOK ==
    /\ identity \in [Items -> Identities \cup {None}]
    /\ revisions \in [Items -> Seq(Revisions)]
    /\ current \in [Items -> Nat]
    /\ title \in [Items -> Titles \cup {None}]
    /\ placed \in [Items -> Collections \cup {None}]
    /\ archived \in SUBSET Items
    /\ shelf \in [Collections -> {"none", "active", "archived"}]
    /\ selections \in [Tokens -> Identities \cup {None}]
    /\ drafts \in [Tokens -> Jobs \cup {None}]
    /\ issued \in SUBSET Tokens
    /\ pc \in [Threads -> States]
    /\ job \in [Threads -> Jobs \cup {None}]
    /\ \A t \in Threads : pc[t] # "idle" => job[t] \in Jobs

Init ==
    /\ identity = [i \in Items |-> None]
    /\ revisions = [i \in Items |-> <<>>]
    /\ current = [i \in Items |-> 0]
    /\ title = [i \in Items |-> None]
    /\ placed = [i \in Items |-> None]
    /\ archived = {}
    /\ shelf = [c \in Collections |-> "none"]
    /\ selections = [k \in Tokens |-> None]
    /\ drafts = [k \in Tokens |-> None]
    /\ issued = {}
    /\ pc = [t \in Threads |-> "idle"]
    /\ job = [t \in Threads |-> None]

Exists(i) == identity[i] # None

\* find_item_by_identity
ItemOf(k) == {i \in Items : identity[i] = k}

\* find_similar: active items of other providers with this title.
Similar(name, k) ==
    {i \in Items : /\ Exists(i)
                   /\ title[i] = name
                   /\ Provider[identity[i]] # Provider[k]
                   /\ i \notin archived}

Goto(t, state) == pc' = [pc EXCEPT ![t] = state]

\* The request is answered, with whatever result or error.
Answer(t) ==
    /\ Goto(t, "idle")
    /\ job' = [job EXCEPT ![t] = None]

\* The thread takes up a request, or continues it.
Work(t, state, request) ==
    /\ Goto(t, state)
    /\ job' = [job EXCEPT ![t] = request]

\* put() of a selection, or of a draft.
PutSelection(k) ==
    \E token \in Tokens \ issued :
        /\ selections' = [selections EXCEPT ![token] = k]
        /\ issued' = issued \cup {token}
        /\ UNCHANGED drafts

PutDraft(request) ==
    \E token \in Tokens \ issued :
        /\ drafts' = [drafts EXCEPT ![token] = [request EXCEPT !.draft = token]]
        /\ issued' = issued \cup {token}
        /\ UNCHANGED selections

\* CatalogCommands.move_item accepts no collection, or an active one.
CanHold(c) == c = None \/ (c \in Collections /\ shelf[c] = "active")

\* The row of a new item with its first revision, and its place.
Create(i, request, name) ==
    /\ ~Exists(i)
    /\ identity' = [identity EXCEPT ![i] = request.identity]
    /\ revisions' = [revisions EXCEPT ![i] = <<Revision(request, name)>>]
    /\ current' = [current EXCEPT ![i] = 1]
    /\ title' = [title EXCEPT ![i] = name]
    /\ placed' = [placed EXCEPT ![i] = request.collection]
    /\ UNCHANGED archived

\* append_revision: the new revision gets the next number and becomes current.
AppendRevision(i, request, name) ==
    /\ Len(revisions[i]) < MaxRevisions
    /\ revisions' = [revisions EXCEPT ![i] = Append(@, Revision(request, name))]
    /\ current' = [current EXCEPT ![i] = Len(revisions[i]) + 1]
    /\ title' = [title EXCEPT ![i] = name]
    /\ UNCHANGED <<identity, archived>>

(******************************************************************************)
(* Wrong versions of actions below (and of two definitions above), used to    *)
(* show that the properties can fail.  Each differs in the way its comment    *)
(* says.                                                                      *)
(******************************************************************************)

\* Trusts the lookup made before the fetch.
CommitSelectBlind(t) ==
    /\ pc[t] = "commit"
    /\ job[t].op = "select"
    /\ Answer(t)
    /\ IF CanHold(job[t].collection)
       THEN \E i \in Items : Create(i, job[t], job[t].title)
       ELSE UNCHANGED itemVars
    /\ UNCHANGED <<shelf, tokenVars>>

\* Trusts the comparison made before the transaction.
CommitSelectTrusting(t) ==
    /\ pc[t] = "commit"
    /\ job[t].op = "select"
    /\ Answer(t)
    /\ IF ItemOf(job[t].identity) = {} /\ CanHold(job[t].collection)
       THEN \E i \in Items : Create(i, job[t], job[t].title)
       ELSE UNCHANGED itemVars
    /\ UNCHANGED <<shelf, tokenVars>>

\* Reads the draft and leaves it in the cache.
StartConfirmKeepsDraft(t, token) ==
    /\ pc[t] = "idle"
    /\ drafts[token] # None
    /\ Work(t, "confirm", [drafts[token] EXCEPT !.confirmed = TRUE])
    /\ UNCHANGED <<itemVars, shelf, tokenVars>>

\* Writes without comparing the current revision.
CommitAmendmentBlind(t) ==
    /\ pc[t] = "commit"
    /\ job[t].op \in {"edit", "episodes", "refresh"}
    /\ Answer(t)
    /\ AppendRevision(job[t].item, job[t], job[t].title)
    /\ UNCHANGED <<placed, shelf, tokenVars>>

(******************************************************************************)
(* Metadata search and selection.                                             *)
(******************************************************************************)

\* A search result of some provider becomes a token.
Search(k) ==
    /\ PutSelection(k)
    /\ UNCHANGED <<itemVars, shelf, threadVars>>

\* The token is consumed before anything else happens.
StartSelect(t, token, confirm, c) ==
    /\ pc[t] = "idle"
    /\ selections[token] # None
    /\ selections' = [selections EXCEPT ![token] = None]
    /\ Work(t, "lookup", [op |-> "select", identity |-> selections[token], item |-> None,
                          title |-> None, shown |-> 0, confirmed |-> confirm,
                          collection |-> c, draft |-> None])
    /\ UNCHANGED <<itemVars, shelf, drafts, issued>>

\* An item that is there is the answer.
LookupSelect(t) ==
    /\ pc[t] = "lookup"
    /\ job[t].op = "select"
    /\ IF ItemOf(job[t].identity) # {}
       THEN Answer(t)
       ELSE Goto(t, "fetch") /\ UNCHANGED job
    /\ UNCHANGED <<itemVars, shelf, tokenVars>>

\* The provider's document arrives and is compared with the catalog.  A
\* similar item needs a confirmation, with a new token.
FetchSelect(t, name) ==
    /\ pc[t] = "fetch"
    /\ job[t].op = "select"
    /\ \/ /\ Similar(name, job[t].identity) # {}
          /\ ~job[t].confirmed
          /\ PutSelection(job[t].identity)
          /\ Answer(t)
       \/ /\ Similar(name, job[t].identity) = {} \/ job[t].confirmed
          /\ Work(t, "commit", [job[t] EXCEPT !.title = name])
          /\ UNCHANGED tokenVars
    /\ UNCHANGED <<itemVars, shelf>>

\* The transaction compares and looks again before it writes.
CommitSelect(t) ==
    /\ pc[t] = "commit"
    /\ job[t].op = "select"
    /\ Answer(t)
    /\ \/ /\ Similar(job[t].title, job[t].identity) # {}
          /\ ~job[t].confirmed
          /\ PutSelection(job[t].identity)
          /\ UNCHANGED itemVars
       \/ /\ Similar(job[t].title, job[t].identity) = {} \/ job[t].confirmed
          /\ IF ItemOf(job[t].identity) = {} /\ CanHold(job[t].collection)
             THEN \E i \in Items : Create(i, job[t], job[t].title)
             ELSE UNCHANGED itemVars
          /\ UNCHANGED tokenVars
    /\ UNCHANGED shelf

(******************************************************************************)
(* Manual import, confirmation, edit and episode tables.                      *)
(******************************************************************************)

StartImport(t, k, name, c) ==
    /\ pc[t] = "idle"
    /\ Work(t, "lookup", [op |-> "import", identity |-> k, item |-> None,
                          title |-> name, shown |-> 0, confirmed |-> FALSE,
                          collection |-> c, draft |-> None])
    /\ UNCHANGED <<itemVars, shelf, tokenVars>>

\* An existing item needs a confirmation.
LookupImport(t) ==
    LET found == ItemOf(job[t].identity) IN
    /\ pc[t] = "lookup"
    /\ job[t].op = "import"
    /\ \/ /\ found # {}
          /\ ~job[t].confirmed
          /\ PutDraft(job[t])
          /\ Answer(t)
       \/ /\ found = {} \/ job[t].confirmed
          /\ Work(t, "commit", [job[t] EXCEPT !.item = IF found = {} THEN None
                                                       ELSE CHOOSE i \in found : TRUE])
          /\ UNCHANGED tokenVars
    /\ UNCHANGED <<itemVars, shelf>>

\* The transaction looks again; an item that appeared meanwhile was not
\* confirmed either.
CommitImport(t) ==
    LET found == ItemOf(job[t].identity) IN
    /\ pc[t] = "commit"
    /\ job[t].op = "import"
    /\ Answer(t)
    /\ \/ /\ found = {}
          /\ IF CanHold(job[t].collection)
             THEN \E i \in Items : Create(i, job[t], job[t].title)
             ELSE UNCHANGED itemVars
          /\ UNCHANGED tokenVars
       \/ /\ found # {}
          /\ job[t].item = None
          /\ UNCHANGED itemVars
          /\ IF job[t].confirmed THEN UNCHANGED tokenVars ELSE PutDraft(job[t])
       \/ /\ job[t].item \in found
          /\ IF CanHold(job[t].collection)
             THEN /\ AppendRevision(job[t].item, job[t], job[t].title)
                  /\ placed' = IF job[t].collection = None THEN placed
                               ELSE [placed EXCEPT ![job[t].item] = job[t].collection]
             ELSE UNCHANGED itemVars
          /\ UNCHANGED tokenVars
    /\ UNCHANGED shelf

\* An edit is first shown to the user; the draft holds the revision that was
\* current then.
StartEdit(i, name) ==
    /\ identity[i] \in Edited
    /\ PutDraft([op |-> "edit", identity |-> identity[i], item |-> i, title |-> name,
                 shown |-> current[i], confirmed |-> FALSE, collection |-> None,
                 draft |-> None])
    /\ UNCHANGED <<itemVars, shelf, threadVars>>

\* The confirmation takes the draft out of the cache.
StartConfirm(t, token) ==
    /\ pc[t] = "idle"
    /\ drafts[token] # None
    /\ drafts' = [drafts EXCEPT ![token] = None]
    /\ Work(t, "confirm", [drafts[token] EXCEPT !.confirmed = TRUE])
    /\ UNCHANGED <<itemVars, shelf, selections, issued>>

\* The draft goes back under a token nobody is told, and is taken out again; in
\* between, other drafts can push it out, and the request is refused (GiveUp).
Confirm(t) ==
    /\ pc[t] = "confirm"
    /\ Goto(t, IF job[t].op = "import" THEN "lookup" ELSE "commit")
    /\ UNCHANGED <<job, itemVars, shelf, tokenVars>>

\* An episode table is for the revision that is current when it arrives.
StartEpisodes(t, i) ==
    /\ pc[t] = "idle"
    /\ Exists(i)
    /\ current[i] # 0
    /\ Work(t, "recheck", [op |-> "episodes", identity |-> identity[i], item |-> i,
                           title |-> None, shown |-> current[i], confirmed |-> FALSE,
                           collection |-> None, draft |-> None])
    /\ UNCHANGED <<itemVars, shelf, tokenVars>>

\* The service reads the item again and merges the table into the revision it
\* finds, unless its payload was purged or it is another revision by now.
MergeEpisodes(t) ==
    LET i == job[t].item IN
    /\ pc[t] = "recheck"
    /\ IF current[i] = job[t].shown /\ identity[i] \in Edited /\ ~revisions[i][current[i]].purged
       THEN Work(t, "commit", [job[t] EXCEPT !.title = revisions[i][current[i]].title])
       ELSE Answer(t)
    /\ UNCHANGED <<itemVars, shelf, tokenVars>>

(******************************************************************************)
(* Retention maintenance, as far as the catalog sees it.                      *)
(******************************************************************************)

\* A revision, current or not, whose provider wants it refreshed.
StartRefresh(t, i, n) ==
    /\ pc[t] = "idle"
    /\ n \in 1 .. Len(revisions[i])
    /\ identity[i] \notin Edited
    /\ ~revisions[i][n].purged
    /\ Work(t, "fetch", [op |-> "refresh", identity |-> identity[i], item |-> i,
                         title |-> None, shown |-> n, confirmed |-> FALSE,
                         collection |-> None, draft |-> None])
    /\ UNCHANGED <<itemVars, shelf, tokenVars>>

FetchRefresh(t, name) ==
    /\ pc[t] = "fetch"
    /\ job[t].op = "refresh"
    /\ Work(t, "commit", [job[t] EXCEPT !.title = name])
    /\ UNCHANGED <<itemVars, shelf, tokenVars>>

\* The payload of an expired revision goes; the catalog forgets the title it
\* took from it.
Purge(i, n) ==
    /\ n \in 1 .. Len(revisions[i])
    /\ identity[i] \notin Edited
    /\ ~revisions[i][n].purged
    /\ revisions' = [revisions EXCEPT ![i][n].purged = TRUE]
    /\ title' = IF current[i] = n THEN [title EXCEPT ![i] = None] ELSE title
    /\ UNCHANGED <<identity, current, placed, archived, shelf, tokenVars, threadVars>>

\* Edits, episode tables and refreshes are written only if the revision they
\* were made for is still the current one.
CommitAmendment(t) ==
    LET i == job[t].item IN
    /\ pc[t] = "commit"
    /\ job[t].op \in {"edit", "episodes", "refresh"}
    /\ Answer(t)
    /\ IF current[i] = job[t].shown
       THEN AppendRevision(i, job[t], job[t].title) /\ UNCHANGED placed
       ELSE UNCHANGED itemVars
    /\ UNCHANGED <<shelf, tokenVars>>

(******************************************************************************)
(* Collections, the failure of a request, and the end of a process.           *)
(******************************************************************************)

CreateCollection(c) ==
    /\ shelf[c] = "none"
    /\ shelf' = [shelf EXCEPT ![c] = "active"]
    /\ UNCHANGED <<itemVars, tokenVars, threadVars>>

\* Archives or restores.
ChangeCollection(c, state) ==
    /\ shelf[c] \notin {"none", state}
    /\ shelf' = [shelf EXCEPT ![c] = state]
    /\ UNCHANGED <<itemVars, tokenVars, threadVars>>

\* One transaction moves the item and archives or restores it, or neither.
ChangeItem(i, c, archive) ==
    /\ Exists(i)
    /\ CanHold(c)
    /\ placed' = [placed EXCEPT ![i] = c]
    /\ archived' = CASE archive = "yes" -> archived \cup {i}
                     [] archive = "no" -> archived \ {i}
                     [] OTHER -> archived
    /\ UNCHANGED <<identity, revisions, current, title, shelf, tokenVars, threadVars>>

\* A module raises, a document is refused, the database stays busy: the
\* request ends with an error, and with it the token it consumed.
GiveUp(t) ==
    /\ pc[t] # "idle"
    /\ Answer(t)
    /\ UNCHANGED <<itemVars, shelf, tokenVars>>

\* A token expires or is evicted.
Forget(token) ==
    /\ selections[token] # None \/ drafts[token] # None
    /\ selections' = [selections EXCEPT ![token] = None]
    /\ drafts' = [drafts EXCEPT ![token] = None]
    /\ UNCHANGED <<itemVars, shelf, issued, threadVars>>

\* The process ends; threads and tokens go with it.
Restart ==
    /\ pc' = [t \in Threads |-> "idle"]
    /\ job' = [t \in Threads |-> None]
    /\ selections' = [k \in Tokens |-> None]
    /\ drafts' = [k \in Tokens |-> None]
    /\ UNCHANGED <<itemVars, shelf, issued>>

Requests(t) ==
    \/ \E token \in Tokens, confirm \in BOOLEAN, c \in Collections \cup {None} :
           StartSelect(t, token, confirm, c)
    \/ \E k \in Edited, name \in Titles, c \in Collections \cup {None} :
           StartImport(t, k, name, c)
    \/ \E token \in Tokens : StartConfirm(t, token)
    \/ \E i \in Items : StartEpisodes(t, i)
    \/ \E i \in Items, n \in 1 .. MaxRevisions : StartRefresh(t, i, n)

Steps(t) ==
    \/ LookupSelect(t) \/ LookupImport(t) \/ Confirm(t) \/ MergeEpisodes(t)
    \/ \E name \in Titles : FetchSelect(t, name) \/ FetchRefresh(t, name)
    \/ CommitSelect(t) \/ CommitImport(t) \/ CommitAmendment(t)
    \/ GiveUp(t)

Next ==
    \/ \E t \in Threads : Requests(t) \/ Steps(t)
    \/ \E k \in Identities : Search(k)
    \/ \E i \in Items, name \in Titles : StartEdit(i, name)
    \/ \E i \in Items, n \in 1 .. MaxRevisions : Purge(i, n)
    \/ \E c \in Collections : CreateCollection(c)
    \/ \E c \in Collections, state \in {"active", "archived"} : ChangeCollection(c, state)
    \/ \E i \in Items, c \in Collections \cup {None}, archive \in {"yes", "no", "keep"} :
           ChangeItem(i, c, archive)
    \/ \E token \in Tokens : Forget(token)
    \/ Restart

Spec == Init /\ [][Next]_vars

(******************************************************************************)
(* Properties.                                                                *)
(******************************************************************************)

\* Two requests for the same identity, of whatever kind and however they
\* interleave, never create two items.
OneItemPerIdentity ==
    \A i, j \in Items : Exists(i) /\ identity[i] = identity[j] => i = j

\* No failure, refusal or race leaves an item without metadata, or with a
\* current revision that is not its latest.
CurrentIsLatest ==
    \A i \in Items :
        /\ current[i] = Len(revisions[i])
        /\ Exists(i) <=> revisions[i] # <<>>

\* An edit, an episode table or a refresh directly follows the revision it was
\* made for: no revision that came in between is overwritten unseen.
AmendsWhatWasShown ==
    \A i \in Items : \A n \in 1 .. Len(revisions[i]) :
        revisions[i][n].op \in {"edit", "episodes", "refresh"} =>
            n = revisions[i][n].shown + 1

\* Importing a document for an existing item needs a confirmation, even when
\* the item appears while the import is under way.
ImportsAreConfirmed ==
    \A i \in Items : \A n \in 2 .. Len(revisions[i]) : revisions[i][n].confirmed \/
        revisions[i][n].op \in {"episodes", "refresh"}

\* A confirmation token writes at most one revision.
DraftsApplyOnce ==
    \A i, j \in Items : \A m \in 1 .. Len(revisions[i]), n \in 1 .. Len(revisions[j]) :
        /\ revisions[i][m].draft # None
        /\ revisions[i][m].draft = revisions[j][n].draft
        => i = j /\ m = n

\* A selection that was not confirmed never creates an item beside a similar
\* one of another provider, even one that appeared during the fetch.
NoUnconfirmedTwin ==
    [][\A i \in Items :
           ~Exists(i) /\ identity'[i] # None =>
               LET first == revisions'[i][1] IN
               first.op = "select" /\ ~first.confirmed =>
                   Similar(first.title, identity'[i]) = {}]_vars

\* Nothing is put into an archived collection, even one that is archived while
\* the request is under way.
ArchivedStaysClosed ==
    [][\A i \in Items : placed'[i] # placed[i] /\ placed'[i] # None =>
           shelf[placed'[i]] = "active"]_vars

\* A merged episode table carries on the title of the revision it was merged into.
EpisodesKeepTitle ==
    \A i \in Items : \A n \in 2 .. Len(revisions[i]) :
        revisions[i][n].op = "episodes" => revisions[i][n].title = revisions[i][n - 1].title

(******************************************************************************)
(* The inductive invariant.                                                   *)
(******************************************************************************)

Busy(t) == pc[t] # "idle"

\* The revision a request was made for exists, and it is one of the item the
\* request names.
MadeFor(request) ==
    /\ request.item \in Items
    /\ identity[request.item] = request.identity
    /\ request.shown \in 1 .. Len(revisions[request.item])

\* Which steps a request goes through, and what it has found on the way: a
\* merged episode table carries the title of the revision it was merged into.
Sensible(request, state) ==
    \/ /\ request.op = "select"
       /\ state \in {"lookup", "fetch", "commit"}
       /\ state = "commit" => request.title \in Titles
    \/ /\ request.op = "import"
       /\ state \in {"confirm", "lookup", "commit"}
       /\ request.title \in Titles
       /\ request.item # None => request.confirmed /\ identity[request.item] = request.identity
    \/ /\ request.op = "edit"
       /\ state \in {"confirm", "commit"}
       /\ request.title \in Titles
       /\ request.confirmed
       /\ MadeFor(request)
    \/ /\ request.op = "episodes"
       /\ state \in {"recheck", "commit"}
       /\ MadeFor(request)
       /\ state = "commit" => request.title = revisions[request.item][request.shown].title
    \/ /\ request.op = "refresh"
       /\ state \in {"fetch", "commit"}
       /\ MadeFor(request)
       /\ state = "commit" => request.title \in Titles

RequestsMakeSense == \A t \in Threads : Busy(t) => Sensible(job[t], pc[t])

DraftsMakeSense ==
    \A k \in Tokens : drafts[k] # None =>
        /\ drafts[k].draft = k
        /\ drafts[k].title \in Titles
        /\ \/ drafts[k].op = "import" /\ drafts[k].item = None
           \/ drafts[k].op = "edit" /\ MadeFor(drafts[k])

\* Only confirmed requests carry a draft's token, and the token of a draft is
\* in one place: the cache, one thread, or one revision.
HeldByThread(k, t) == Busy(t) /\ job[t].draft = k
WrittenBy(k, i, n) == n \in 1 .. Len(revisions[i]) /\ revisions[i][n].draft = k

DraftInOnePlace ==
    \A k \in Tokens :
        /\ k \notin issued => drafts[k] = None
        /\ \A t \in Threads : HeldByThread(k, t) =>
               /\ k \in issued
               /\ drafts[k] = None
               /\ job[t].confirmed
               /\ \A u \in Threads : HeldByThread(k, u) => t = u
        /\ \A i \in Items, n \in 1 .. MaxRevisions : WrittenBy(k, i, n) =>
               /\ k \in issued
               /\ drafts[k] = None
               /\ \A t \in Threads : ~HeldByThread(k, t)
               /\ \A j \in Items, m \in 1 .. MaxRevisions : WrittenBy(k, j, m) => i = j /\ m = n

RevisionsBounded == \A i \in Items : Len(revisions[i]) <= MaxRevisions

Inductive ==
    /\ TypeOK
    /\ OneItemPerIdentity
    /\ CurrentIsLatest
    /\ RevisionsBounded
    /\ RequestsMakeSense
    /\ DraftsMakeSense
    /\ DraftInOnePlace
    /\ AmendsWhatWasShown
    /\ ImportsAreConfirmed
    /\ EpisodesKeepTitle
================================================================================
