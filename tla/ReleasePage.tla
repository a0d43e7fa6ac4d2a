----------------------------- MODULE ReleasePage ------------------------------
(***************************************************************************)
(* The release page of the browser (workflows/release-page.tsx) together   *)
(* with the part of the server it talks to: search for releases, choose    *)
(* one and a destination, review, confirm, and learn what became of it.    *)
(*                                                                         *)
(* Everything the page waits for is a closure that outlives it: it is kept *)
(* in "work" (or "posts") with the visit it belongs to, and when it goes   *)
(* on the page may have been left, or left and opened again.  An answer of *)
(* the server may be lost while the server goes on working.                *)
(***************************************************************************)
EXTENDS Integers, Sequences, FiniteSets

CONSTANTS
    Titles,        \* the releases a search can find
    Destinations,  \* the destinations of the download client
    MaxSearches, MaxVisits, MaxKeys, MaxPosts,   \* bounds
    MaxMishaps,    \* how often something goes wrong or changes by itself
    None

ASSUME BoundsAssumption ==
    {MaxSearches, MaxVisits, MaxKeys, MaxPosts, MaxMishaps} \subseteq Nat

VARIABLES
    visit,   \* how often the page has been opened
    page,    \* the state and the refs of the page that is open
    asked,   \* searches and idempotency keys handed out so far
    mishaps, \* what has gone wrong so far
    work,    \* closures that wait for a search or for the destinations
    posts,   \* the submissions sent, what the server and their senders know
    cache,   \* the release tokens the server still honours
    rows,    \* the acquisitions of the server: key -> attempt
    live,    \* the destinations that exist now
    heard    \* the keys whose acquisition a page has shown

vars == <<visit, page, asked, mishaps, work, posts, cache, rows, live, heard>>
server == <<cache, rows, live>>

-------------------------------------------------------------------------------
NoList == [state |-> "none", keys |-> {}]

\* What a page starts with; up is the ref "mounted", busy the ref
\* "acquisitionInFlight", searching the ref "searchInFlight".
Closed ==
    [up |-> FALSE, ready |-> FALSE, search |-> "initial", active |-> 0,
     searching |-> FALSE, results |-> {}, token |-> None, destination |-> None,
     list |-> NoList, review |-> None, phase |-> "idle", busy |-> FALSE,
     retained |-> None, outcome |-> None]

\* A token stands for one title in the results of one search.
Token(no, title) == <<no, title>>

Mounted(v) == page.up /\ visit = v

Pending == page.search = "pending"

\* Wrong: the page is free again as soon as nothing is under way.
WorkflowLockedWhileBusy == page.review # None \/ page.phase \in {"preflight", "submitting"}

WorkflowLocked == page.review # None \/ page.phase # "idle"

SelectionLocked == WorkflowLocked \/ page.outcome # None

Init ==
    /\ visit = 0
    /\ page = Closed
    /\ asked = [searches |-> 0, keys |-> 0]
    /\ mishaps = 0
    /\ work = {}
    /\ posts = <<>>
    /\ cache = {}
    /\ rows = <<>>
    /\ live = Destinations
    /\ heard = {}

Mishap == mishaps < MaxMishaps /\ mishaps' = mishaps + 1

AsPlanned == UNCHANGED mishaps

-------------------------------------------------------------------------------
(* The page and its context.                                                 *)

Open ==
    /\ ~page.up /\ visit < MaxVisits
    /\ visit' = visit + 1
    /\ page' = [Closed EXCEPT !.up = TRUE]
    /\ UNCHANGED <<asked, mishaps, work, posts, server, heard>>

\* The link to the item, the browser's own buttons, or a reload.
Leave ==
    /\ page.up
    /\ page' = Closed
    /\ UNCHANGED <<visit, asked, mishaps, work, posts, server, heard>>

\* The item is loaded, at first or by its retry button.
ContextLoads ==
    /\ page.up /\ ~page.ready
    /\ page' = [page EXCEPT !.ready = TRUE]
    /\ UNCHANGED <<visit, asked, mishaps, work, posts, server, heard>>

-------------------------------------------------------------------------------
(* Searching.                                                                *)

MaySearch ==
    /\ page.up /\ page.ready
    /\ ~page.searching /\ ~page.busy
    /\ page.retained = None /\ page.review = None /\ page.phase = "idle"

\* The form and the retry button are enabled.
SearchIsOffered == page.up /\ page.ready /\ ~Pending /\ ~WorkflowLocked

\* The form, or the retry of a search that failed.
StartSearch ==
    /\ SearchIsOffered /\ MaySearch
    /\ asked.searches < MaxSearches
    /\ asked' = [asked EXCEPT !.searches = @ + 1]
    /\ page' = [page EXCEPT !.searching = TRUE, !.active = asked'.searches,
                            !.search = "pending", !.results = {}, !.token = None,
                            !.destination = None, !.list = NoList,
                            !.outcome = None]
    /\ work' = work \cup {[kind |-> "search", visit |-> visit, of |-> asked'.searches]}
    /\ UNCHANGED <<visit, mishaps, posts, server, heard>>

\* The answer of a search; the page takes the answer of its active search only.
SearchEnds(w) ==
    /\ w.kind = "search"
    /\ work' = work \ {w}
    /\ LET mine == Mounted(w.visit) /\ page.active = w.of
           Shown(kind, tokens) ==
               IF mine THEN [page EXCEPT !.searching = FALSE, !.search = kind, !.results = tokens,
                                         !.outcome = None]
               ELSE page
       IN  \/ \E found \in {Titles, {}} :
                  LET tokens == {Token(w.of, title) : title \in found}
                  IN  /\ AsPlanned
                      /\ page' = Shown(IF found = {} THEN "empty" ELSE "complete", tokens)
                      /\ cache' = cache \cup tokens
           \/ /\ Mishap
              /\ page' = Shown("failed", page.results)
              /\ UNCHANGED cache
    /\ UNCHANGED <<visit, asked, posts, rows, live, heard>>

-------------------------------------------------------------------------------
(* Choosing a release and a destination.                                     *)

\* What the query for the destinations yields: the list, or an error, which
\* also clears the destination that was chosen.
Listed(p, state) ==
    IF state = "ready" THEN [p EXCEPT !.list = [state |-> "ready", keys |-> live]]
    ELSE [p EXCEPT !.list.state = "failed", !.destination = None]

ListIs(state) ==
    \/ state = "ready" /\ AsPlanned
    \/ state = "failed" /\ Mishap

\* Wrong: the radio buttons stay enabled while a review is open.
MaySelectUnlessSubmitting == ~Pending /\ page.phase = "idle" /\ page.outcome = None

MaySelect == ~Pending /\ ~SelectionLocked

SelectRelease(token) ==
    /\ MaySelect
    /\ token \in page.results \ {page.token}
    /\ page' = [page EXCEPT !.token = token, !.destination = None,
                            !.list = [state |-> "loading", keys |-> {}]]
    /\ work' = work \cup {[kind |-> "load", visit |-> visit, of |-> token]}
    /\ UNCHANGED <<visit, asked, mishaps, posts, server, heard>>

\* The list that belongs to the token that is chosen.
LoadEnds(w) ==
    /\ w.kind = "load"
    /\ work' = work \ {w}
    /\ IF Mounted(w.visit) /\ page.token = w.of
       THEN \E state \in {"ready", "failed"} : ListIs(state) /\ page' = Listed(page, state)
       ELSE UNCHANGED <<page, mishaps>>
    /\ UNCHANGED <<visit, asked, posts, server, heard>>

\* The window gets the focus back: item and list are loaded again.
FocusReloads ==
    /\ page.up /\ page.list.state \in {"ready", "failed"} /\ ~page.busy
    /\ Mishap
    /\ \E state \in {"ready", "failed"}, ready \in BOOLEAN :
           page' = [Listed(page, state) EXCEPT !.ready = ready]
    /\ UNCHANGED <<visit, asked, work, posts, server, heard>>

SelectDestination(key) ==
    /\ MaySelect
    /\ page.token # None /\ page.list.state = "ready"
    /\ key \in page.list.keys \cup {None}
    /\ page' = [page EXCEPT !.destination = key]
    /\ UNCHANGED <<visit, asked, mishaps, work, posts, server, heard>>

\* Wrong: the page is not given back when the list has been loaded.
RefreshedStillBusy(state) == [Listed(page, state) EXCEPT !.phase = "idle"]

Refreshed(state) == [Listed(page, state) EXCEPT !.busy = FALSE, !.phase = "idle"]

\* The button beside a list that could not be loaded is enabled.
RefreshIsOffered == page.up /\ page.list.state = "failed" /\ ~WorkflowLocked

RefreshDestinations ==
    /\ RefreshIsOffered /\ ~page.busy
    /\ page' = [page EXCEPT !.busy = TRUE, !.phase = "preflight",
                            !.list.state = "loading"]
    /\ work' = work \cup {[kind |-> "refresh", visit |-> visit, of |-> None]}
    /\ UNCHANGED <<visit, asked, mishaps, posts, server, heard>>

RefreshEnds(w) ==
    /\ w.kind = "refresh"
    /\ work' = work \ {w}
    /\ IF Mounted(w.visit)
       THEN \E state \in {"ready", "failed"} : ListIs(state) /\ page' = Refreshed(state)
       ELSE UNCHANGED <<page, mishaps>>
    /\ UNCHANGED <<visit, asked, posts, server, heard>>

-------------------------------------------------------------------------------
(* Review and confirmation.                                                  *)

\* The button that opens the review is enabled.
ReviewIsOffered ==
    /\ page.ready /\ ~Pending /\ ~SelectionLocked
    /\ page.token # None /\ page.destination # None /\ page.list.state # "failed"

\* The review names the release and the destination that are on the screen.
OpenReview ==
    /\ ReviewIsOffered
    /\ page.list.state = "ready"
    /\ page.token \in page.results
    /\ page.destination \in page.list.keys
    /\ page' = [page EXCEPT !.review = [title |-> page.token[2], destination |-> page.destination]]
    /\ UNCHANGED <<visit, asked, mishaps, work, posts, server, heard>>

CancelReview ==
    /\ page.review # None /\ page.phase = "idle"
    /\ page' = [page EXCEPT !.review = None]
    /\ UNCHANGED <<visit, asked, mishaps, work, posts, server, heard>>

\* The bound on submissions, those that are not sent yet included.
PostsAreLeft == Len(posts) + Cardinality({w \in work : w.kind = "preflight"}) < MaxPosts

\* The intent is frozen with a new key before anything is awaited; the title
\* and the destination are the review's, the token is the page's.
Attempt == [visit |-> visit, key |-> asked.keys + 1, token |-> page.token,
            title |-> page.review.title, destination |-> page.review.destination]

ConfirmReview ==
    /\ page.review # None /\ page.phase = "idle"
    /\ ~page.busy /\ page.token # None /\ page.ready
    /\ asked.keys < MaxKeys /\ PostsAreLeft
    /\ asked' = [asked EXCEPT !.keys = @ + 1]
    /\ page' = [page EXCEPT !.busy = TRUE, !.review = None, !.phase = "preflight"]
    /\ work' = work \cup {[kind |-> "preflight", visit |-> visit, of |-> Attempt]}
    /\ UNCHANGED <<visit, mishaps, posts, server, heard>>

\* finishDefinitiveFailure: the intent is over; a selection that has expired
\* cannot be used again.
Refusal(p, code) ==
    LET over == [p EXCEPT !.busy = FALSE, !.phase = "idle", !.retained = None,
                          !.review = None]
    IN  IF code # "selection_expired" THEN over
        ELSE [over EXCEPT !.results = {}, !.token = None, !.destination = None,
                          !.list = NoList]

Post(attempt) ==
    posts' = Append(posts,
        [attempt |-> attempt, at |-> "sent", answer |-> None, client |-> "waits",
         alone |-> \A i \in DOMAIN posts :
                       posts[i].attempt.key = attempt.key => posts[i].at = "answered"])

\* Wrong: the POST is sent although the page has been left meanwhile.
PreflightOfAnyPage(w, state) ==
    /\ state = "ready" /\ w.of.destination \in live
    /\ Post(w.of)
    /\ page' = IF Mounted(w.visit) THEN [Listed(page, state) EXCEPT !.phase = "submitting"] ELSE page

\* The page is still there and the reviewed destination exists: send it.
PreflightPasses(w, state) ==
    /\ Mounted(w.visit)
    /\ state = "ready" /\ w.of.destination \in live
    /\ Post(w.of)
    /\ page' = [Listed(page, state) EXCEPT !.phase = "submitting"]

\* Otherwise nothing is sent; an error is shown by the list itself.
PreflightRefuses(w, state) ==
    /\ Mounted(w.visit)
    /\ \/ state = "failed"
       \/ w.of.destination \notin live
    /\ page' = [Refusal(Listed(page, state), "download_destination_unavailable")
                EXCEPT !.destination = None]
    /\ UNCHANGED posts

PreflightIsAbandoned(w) == ~Mounted(w.visit) /\ UNCHANGED <<posts, page, mishaps>>

PreflightEnds(w) ==
    /\ w.kind = "preflight"
    /\ work' = work \ {w}
    /\ \/ \E state \in {"ready", "failed"} :
              ListIs(state) /\ (PreflightPasses(w, state) \/ PreflightRefuses(w, state))
       \/ PreflightIsAbandoned(w)
    /\ UNCHANGED <<visit, asked, server, heard>>

-------------------------------------------------------------------------------
(* Submission.                                                               *)

\* The retry runs the very closure that was retained: same payload, same key.
Retried == page.retained

\* The retry is on the screen while an attempt is retained.
RetryIsOffered == page.retained # None /\ page.phase # "submitting"

RetryUncertain ==
    /\ RetryIsOffered
    /\ page.phase = "uncertain" /\ ~page.busy
    /\ PostsAreLeft
    /\ Post(Retried)
    /\ page' = [page EXCEPT !.busy = TRUE, !.phase = "submitting"]
    /\ UNCHANGED <<visit, asked, mishaps, work, server, heard>>

Succeeded(p, status) ==
    [p EXCEPT !.busy = FALSE, !.outcome = status, !.retained = None,
              !.review = None, !.phase = "idle", !.results = {}, !.token = None,
              !.destination = None, !.list = NoList]

\* A refusal the page knows to be one: the table of codes and statuses.
Definitive == {"download_destination_unavailable", "selection_expired", "media_item_not_found"}

\* handleSubmissionError, for a refusal that is definitive.  When the
\* destination is gone the token is kept and the list is loaded again, under
\* the same admission.
Refused(p, code) ==
    IF code # "download_destination_unavailable" THEN Refusal(p, code)
    ELSE [p EXCEPT !.retained = None, !.review = None, !.destination = None,
                   !.phase = "preflight", !.list.state = "loading"]

\* Wrong: whatever is not an answer is taken for a refusal.
UncertainIsRefused(p, attempt) == Refusal(p, "unexpected_response")

\* Anything else leaves acceptance uncertain.
Uncertain(p, attempt) ==
    [p EXCEPT !.busy = FALSE, !.phase = "uncertain", !.retained = attempt]

Reaction(p, answer) ==
    IF answer \in Definitive THEN Refused(p, answer) ELSE Succeeded(p, answer)

\* The page shows what became of the acquisition, whatever its status.
IsShown(answer) == answer \notin Definitive

\* The answer arrives; a page that has been left takes no notice.
Answered(i) ==
    /\ posts[i].client = "waits" /\ posts[i].at = "answered"
    /\ posts' = [posts EXCEPT ![i].client = "told"]
    /\ LET attempt == posts[i].attempt
           answer == posts[i].answer
           here == Mounted(attempt.visit)
       IN  /\ page' = IF here THEN Reaction(page, answer) ELSE page
           /\ heard' = IF here /\ IsShown(answer) THEN heard \cup {attempt.key} ELSE heard
           /\ work' = IF here /\ answer = "download_destination_unavailable"
                      THEN work \cup {[kind |-> "refresh", visit |-> visit, of |-> None]}
                      ELSE work
    /\ UNCHANGED <<visit, asked, mishaps, server>>

\* The connection breaks, or the answer says nothing definitive (a 5xx); the
\* server may not have the request yet, may be at work on it, or be done.
AnswerIsLost(i) ==
    /\ Mishap
    /\ posts[i].client = "waits"
    /\ posts' = [posts EXCEPT ![i].client = "lost"]
    /\ page' = IF Mounted(posts[i].attempt.visit)
               THEN Uncertain(page, posts[i].attempt) ELSE page
    /\ UNCHANGED <<visit, asked, work, server, heard>>

-------------------------------------------------------------------------------
(* The server: an acquisition is looked up under its key and, when there is  *)
(* none, begun if the destination, the token and the item still exist.       *)

Row(key) == {i \in DOMAIN rows : rows[i].key = key}

Reply(i, answer) == posts' = [posts EXCEPT ![i].at = "answered", ![i].answer = answer]

FindByIdempotency(i) ==
    /\ posts[i].at = "sent"
    /\ \/ Row(posts[i].attempt.key) # {} /\ Reply(i, "acquisition")
       \/ /\ Row(posts[i].attempt.key) = {}
          /\ posts' = [posts EXCEPT ![i].at = "admitted"]
    /\ UNCHANGED <<visit, page, asked, mishaps, work, server, heard>>

Refuse(i) ==
    /\ posts[i].at = "admitted"
    /\ \/ /\ posts[i].attempt.destination \notin live
          /\ Reply(i, "download_destination_unavailable")
          /\ AsPlanned
       \/ /\ posts[i].attempt.token \notin cache
          /\ Reply(i, "selection_expired")
          /\ AsPlanned
       \/ Reply(i, "media_item_not_found") /\ Mishap
    /\ UNCHANGED <<visit, page, asked, work, server, heard>>

Accept(i) ==
    /\ posts[i].at = "admitted"
    /\ posts[i].attempt.destination \in live
    /\ posts[i].attempt.token \in cache
    /\ Row(posts[i].attempt.key) = {}
    /\ rows' = Append(rows, posts[i].attempt)
    /\ Reply(i, "acquisition")
    /\ cache' = cache \ {posts[i].attempt.token}
    /\ UNCHANGED <<visit, page, asked, mishaps, work, live, heard>>

\* The tokens of one search expire together, or a restart forgets them.
DropTokens(no) ==
    /\ Mishap
    /\ \E token \in cache : token[1] = no
    /\ cache' = {token \in cache : token[1] # no}
    /\ UNCHANGED <<visit, page, asked, work, posts, rows, live, heard>>

\* A destination appears or disappears in the download client.
DestinationsChange(key) ==
    /\ Mishap
    /\ live' = IF key \in live THEN live \ {key} ELSE live \cup {key}
    /\ UNCHANGED <<visit, page, asked, work, posts, cache, rows, heard>>

-------------------------------------------------------------------------------
Serve == \E i \in DOMAIN posts : FindByIdempotency(i) \/ Refuse(i) \/ Accept(i)

Continue == \E w \in work : SearchEnds(w) \/ LoadEnds(w) \/ RefreshEnds(w) \/ PreflightEnds(w)

Learn == \E i \in DOMAIN posts : Answered(i) \/ AnswerIsLost(i)

Next ==
    \/ Open \/ Leave \/ ContextLoads \/ StartSearch \/ FocusReloads \/ RefreshDestinations
    \/ \E token \in page.results : SelectRelease(token)
    \/ \E key \in page.list.keys \cup {None} : SelectDestination(key)
    \/ OpenReview \/ CancelReview \/ ConfirmReview \/ RetryUncertain
    \/ Continue \/ Learn \/ Serve
    \/ \E no \in 1..MaxSearches : DropTokens(no)
    \/ \E key \in Destinations : DestinationsChange(key)

Spec == Init /\ [][Next]_vars

\* What was started is answered, unless the answer is lost, and closures go
\* on; the user is not fair.
FairSpec ==
    /\ Spec
    /\ \A v \in 1..MaxVisits :
           WF_vars(\E w \in work : w.visit = v /\ (SearchEnds(w) \/ LoadEnds(w)
                                                   \/ RefreshEnds(w) \/ PreflightEnds(w)))
    /\ \A i \in 1..MaxPosts :
           /\ WF_vars(i \in DOMAIN posts /\ Answered(i))
           /\ WF_vars(i \in DOMAIN posts /\ (FindByIdempotency(i) \/ Refuse(i) \/ Accept(i)))

-------------------------------------------------------------------------------
\* The submissions whose sender does not know what became of them: it waits,
\* or has given up and has not learned it from a retry.
Unresolved ==
    {i \in DOMAIN posts :
        /\ posts[i].client # "told"
        /\ \A j \in DOMAIN posts :
               j > i /\ posts[j].attempt.key = posts[i].attempt.key => posts[j].client # "told"}

\* What is sent is what the user has seen in the review: the token is a token
\* of the title that was reviewed, whatever was searched, selected, reloaded
\* or refused between.
ReviewedIsSent ==
    \A i \in DOMAIN posts : posts[i].attempt.token[2] = posts[i].attempt.title

\* While a submission of this page is unresolved the page offers nothing else:
\* no search runs, no release is chosen, no review is open, and every
\* unresolved submission has the one key (bilingual-web-ui/spec.md, "Explicit
\* acquisition request recovery").
UnresolvedBlocksNewIntent ==
    LET mine == {i \in Unresolved : Mounted(posts[i].attempt.visit)}
    IN  /\ Cardinality({posts[i].attempt.key : i \in mine}) <= 1
        /\ mine # {} => page.phase \in {"submitting", "uncertain"} /\ page.review = None
                        /\ ~Pending

\* A page sends a first POST only while it is on the screen, and only to a
\* destination that exists in the list it has just loaded.
FirstPostIsChecked ==
    [][ Len(posts') > Len(posts) =>
            LET sent == posts'[Len(posts')].attempt
            IN  /\ Mounted(sent.visit)
                /\ (\A i \in DOMAIN posts : posts[i].attempt.key # sent.key)
                       => sent.destination \in page'.list.keys ]_vars

\* No second download by accident: within one visit a second acquisition
\* is accepted only when the page has shown the first, or when the server was
\* at work on two submissions of the first at once.
SecondOnlyAfterFirstIsKnown ==
    \A r, s \in DOMAIN rows :
        LET first == rows[r]
            second == rows[s]
        IN  first.key < second.key /\ first.visit = second.visit =>
                \/ first.key \in heard
                \/ \E i \in DOMAIN posts : posts[i].attempt.key = first.key /\ ~posts[i].alone

\* Whatever is answered, lost or left, a page that has taken the admission
\* gives it back: it never stays locked.
PageIsFreed == page.busy ~> ~page.busy

===============================================================================
