# Media Finder: a verification project

TLA+ models of Media Finder, the TLC configurations that check them on small
instances, and TLAPS proofs of the properties that matter most. Every action is
a translation of the Python (and, where named, TypeScript) source of this
repository; `PROJECT.json` gives the source lines of every definition.

## 1. The system

Media Finder is one server process (FastAPI, one uvicorn worker, SQLite in WAL
mode) with a browser UI. A user keeps a catalog of media items with immutable
metadata revisions, searches releases through a *release provider* module,
submits one of them to a *download client* module, and other tools read naming
and NFO documents for what was acquired. All control requests run in worker
threads (`asyncio.to_thread` in `control/security.py`), so every command
interleaves with every other; the only serialisation is the SQLite write lock
and a handful of in-memory locks.

`C` stands for `src/packages/core/src/media_finder_core`.

| Component | State it keeps | Operations | Correct when | Hard because |
| --- | --- | --- | --- | --- |
| Acquisition (`C/acquisition`, `C/control/acquisition.py`) | table `acquisitions`: status, pinned revision, module identity, correlation | submit, reconcile, compare-and-set transition | one acquisition and one client task per idempotency key; tokens one-use; settled rows final; nothing lost by a crash | racing duplicates, timeouts with late acceptance, crash between row and task, reconcile racing submit |
| Token caches (`ReleaseSelectionCache`, `C/platform/cache.py`) | ordered dictionary token → value with expiry | put, get, take/pop, purge, clear | bounded, never serves an expired or consumed token, evicts the least recently used | expiry order differs from use order |
| Module runtime (`C/module_runtime`) | caches of built capabilities, list of owned instances, closed flag | five accessors, adopt, close | one live instance per capability, every built instance closed exactly once | builds run outside the lock and race each other and close |
| Catalog (`C/catalog`) | collections, media items, numbered immutable revisions, current pointers | create, append, move, archive, restore, page | no lost update, history append-only, current revision always of the item | optimistic concurrency with stale drafts |
| Metadata selection and manual editing (`C/catalog/metadata.py`, `manual.py`, `C/control/metadata.py`) | token caches for candidates and drafts | search, select, confirm, import, edit, confirm edit | a confirmed edit is applied to the revision it was made from | fetches outside transactions; tokens popped before the work |
| Retention (`C/catalog/retention.py`) | expiry, purge and refresh markers on revisions | list and prepare outside, apply in one transaction with savepoints | expired provider data is purged, a revision is refreshed once | prepared against state that changes before it is applied; one revision of many fails |
| Maintenance and lifespan (`C/platform/maintenance.py`, `apps/server/.../runtime.py`) | last completed time, published resources, cleanup stack | run at startup, run daily, publish, unpublish, close | a completion is recorded only for what was done; resources closed once, in reverse order, after maintenance | the process ends between two transactions; shutdown racing maintenance and requests |
| Exports (`C/exports`, `processor_api.py`) | none | current and pinned metadata, names, NFO | expired provider data is never exported | clock read after the revision |
| Transactions (`C/platform/transactions.py`) | context-local session | write, savepoint | all or nothing, one writer | nested writes, savepoint failure |
| Pagination (`C/catalog/persistence.py`, `C/control/catalog.py`) | none; the position is in a signed cursor | list collections, list items | every item that stays is shown once | names and titles, the sort keys, change between two pages |
| Modules (`packages/modules/*`) | HTTP clients | search, fetch, resolve, submit, find by correlation | errors classified as definitive or uncertain | timeouts and unreadable answers after the request was sent |
| Release page (`packages/builtin-ui/web/src/workflows/release-page.tsx`) | search, selection, review, attempt retained for a retry, refs that admit one request | search, select, review, confirm, retry | what is sent is what was reviewed, one idempotency key per attempt, nothing new while one is unresolved | closures that outlive the page, late and lost answers, lists that reload by themselves |
| Metadata page (`workflows/metadata-page.tsx`) | results of one query, feedback, a confirmation, refs | search, retry, import, confirm | what is shown is of the query named, one import at a time | buttons follow the mutations' state, refs follow the requests |
| Manual pages and editor (`manual/*.tsx`) | a structured draft and a source text, reviews, a navigation blocker | edit, read a file, save, confirm, leave | no draft is lost unasked, what is saved is on the screen, reviews stay true | late files, two drafts, navigation let through once |
| Release controller (`scripts/release-automation.mjs`) | nothing of its own: checkpoints in immutable artifacts, branch, pull request, release at the host | request: resolve, prepare, execute | released is what was prepared and checked, no mutation issued twice blindly | lost answers, a base that moves, people, a job that ends anywhere |
| Image publication (`scripts/release-publication.mjs`) | immutable and moving image tags | inspect, build, adopt, retag, verify | an immutable tag never changes, a moving tag never goes back | pushes that time out or land late, reruns |
| Release preparation and other scripts (`scripts/*`) | a checkout | transform, validate | all or nothing | rollback |

Interaction: the control gateway calls the services in worker threads; the
services call module instances from the module runtime (remote HTTP outside any
lock) and the unit of work (SQLite, `BEGIN IMMEDIATE`); the browser retries
through idempotency keys and opaque tokens; the lifespan builds all of it and
closes it in reverse order. The browser pages share nothing but the server and
the route. The release controller and the publisher run in GitHub workflows, one
run of each at a time; the controller meets the publisher only through the
release it publishes and the evidence it then waits for.

## 2. Modules

| Module | Models |
| --- | --- |
| `Acquisition` | submit and reconcile threads, token cache (as a set), acquisitions table, external client, restarts |
| `AcquisitionLedger` | the promise of the component: a ledger of idempotent entries |
| `AcquisitionProofs` | inductive invariant, safety theorems, refinement of the ledger; then the same of the cache behind the tokens: its invariant, its theorems, refinement of the pool |
| `ModuleRuntime` | accessors that build outside the lock, adoption, discarding, `close()` |
| `ModulePool` | its promise: one instance per capability, disposed of once, never while in service |
| `ModuleRuntimeProofs` | inductive invariant, safety theorems, refinement of the pool |
| `SelectionCache` | `EphemeralCache` and `ReleaseSelectionCache`: expiry, recency, eviction, a clock that is set |
| `TokenPool` | their promise: bounded, one-use tokens |
| `Catalog` | items, revision histories, collections, metadata and manual workflows, refreshes and purges as the catalog sees them |
| `CatalogProofs` | inductive invariant, safety theorems |
| `Retention` | the maintenance loop and its durable cadence, a run step by step, exports meanwhile |
| `RetentionProofs` | inductive invariant, safety theorems |
| `ReleaseOperation` | the release controller, its host, the workflows and the people at it |
| `ReleaseOperationProofs` | inductive invariant, safety theorems |
| `ReleasePublication` | the publisher and its registry, and `ReleasePublicationProofs` |
| `ReleasePage` | the release page with the closures that outlive it, and the server's side of a submission |
| `ReleasePageProofs` | inductive invariant, safety theorems |
| `MetadataPage`, `ManualPages` | the pages on which works enter the catalog |
| `CatalogPages` | the two of them in one tab, with the route between them, and `CatalogPagesProofs` |
| `MC...` | the constants, symmetry and bounds of the instances TLC checks |

A module comes with "wrong versions" of some of its actions: the mistakes each
property is there to catch (a dropped guard, a lookup that is not repeated, a
reset that is missing). They are used by no specification; with one of them in
the place of its action, the property it is named for fails.

How the modules are cut: `Acquisition` has the token cache as a set with a
nondeterministic `DropToken`, and `Catalog` has its two caches as functions with
`Forget`; that a real cache is no more than that, a bounded pool of one-use
tokens that may forget, is the refinement `SelectionCache` => `TokenPool`.
`Catalog` has `StartRefresh`, `FetchRefresh` and `Purge` at any time on any
revision of a provider that expires, which is all that `Retention` may do to the
catalog; `Retention` says when it is done and that it is done. In both, an
acquisition pins a revision and nothing else.

### 2.1 Acquisition

State: `pc`, `key`, `token`, `target`, `verdict`, `reply` are the local
variables of the threads; `issued` and `cache` the release selection cache;
`status`, `failure`, `module` the columns of the acquisitions table that change
or decide something; `selected` the client module of the running build; `wire`
what the external client did with the add request of an acquisition.

A call of `submit()` is identified with the UUID it draws, so call `c` can file
acquisition `c` only. The steps follow the code: the unlocked lookup by key
(`FindByIdempotency`), the prerequisites, the look at the token
(`InspectToken`), the one write transaction (`CreatePendingIfAbsent`), consuming
the token (`TakeToken`) *before* resolving it, the client call (`PostToClient`
and one of `ReadAnswer`, `TimeOut`, `LoseAnswer`), the lookup by correlation
(`LookUp`, shared with manual reconciliation) and the compare-and-set
(`Transition`). A database transaction is one action because SQLite admits one
writer (`BEGIN IMMEDIATE`); a remote call is split into sending and answering,
because the client acts in between, and may act after the caller is gone.

Abstractions: the release, the item, the pinned revision and the destination are
opaque; a missing revision, an unreachable client and a vanished destination are
one nondeterministic refusal. Expiry and eviction of tokens are a
nondeterministic `DropToken`.

Faults (constant `Faults`): `timeout` (httpx gives up waiting), `broken` (any
other transport error after sending), `busy` (the write lock is not had within
the busy timeout), `restart` (the process dies; the next one may be built with
another client module).

### 2.2 Module runtime

A *slot* is one capability of one module; the five dictionaries of
`lifecycle.py` are one function `cache` over slots. A thread in an accessor is
`idle`, `building` and `validating` (both outside the lock), `adopting`, or
`discarding` what it built because a sibling or `close()` was faster. `owned` is
the list in order of adoption, `retiring` what `close()` took out of it, `left`
how much of that it has yet to close. Every build returns a new instance, so the
number of `Instances` bounds the builds. A failed validation and a build that
raises are nondeterministic. Calling `close()` again, also while the first call
still closes, is part of the model.

### 2.3 Opaque-token caches

The order of the `OrderedDict` is a stamp per entry: appending and
`move_to_end` give the largest, `popitem(last=False)` takes the smallest.
Operations hold the lock and are atomic, but `put` reads the clock twice (purge,
expiry), so `Put` has both readings; the clock is the wall clock and may be set
(`Tick`). Bounds: `MaxNow`, `MaxStamp`, and finitely many tokens, because a token
is never issued again.

### 2.4 Catalog

A request is a `job` that goes through the steps of its operation: the token is
consumed, the identity looked up, the provider asked (outside any transaction),
and one write transaction looks again and commits or refuses. A revision keeps,
beside its title and whether its payload was purged, which request wrote it and
what that request had been shown; only the properties read those. `MaxRevisions`
bounds the history of an item. Titles stand for everything similarity compares.
`GiveUp` is every failure between two steps, `Forget` expiry and eviction,
`Restart` the end of the process.

### 2.5 Retention and exports

Time is kept as ages, so that the state space is finite: `age` of each revision,
`completed` and `started` of runs, `listed` of the list under way; an age stops
where it decides nothing any more (a completion at `Day`, a revision at
`ExpiresAfter + Day`). One unit is the hour the loop sleeps. The loop is
`startup`, `asleep`, `awake`, or in a run: `list` (revisions read, policies and
providers asked, nothing locked), `apply` (one transaction, one savepoint per
revision), `record` (a second transaction). `Tick` may happen in any of them. A
provider belongs to one item, so that the sets of items without a policy and
without a provider are the missing or raising modules. An export reads a
revision (`Read`), and reads the clock when it answers (`Answer`).

Faults (constant `Faults`): `policy` (missing or raising), `provider` (missing,
raising, or an invalid document), `savepoint` (one revision), `database` (a
transaction), `stop` (the process ends). `Settle` is the end of faults; only
liveness needs it. A refresh needs a free row id: with none left, it fails
(`Full`), which is a bound of the model and takes the path of a failed savepoint.

### 2.6 The release controller

A run of the controller is `job`: where it is (`at`, one place per request to the
host or decision about its answer), and the local values it has found (candidate,
pull request, merge commit, how often it has tried). Everything durable is at the
host: `main` (its commits, and of each the pull request that was squashed into
it, whether the tree is exactly the prepared one, and its verification and edge
publication), `prep` (the preparation artifacts, which are the candidates),
`records` (the checkpoint artifacts in order of upload), `branch`, `prs`,
`protected`, `release`, `tag`, and `image` (the publisher's evidence). A
candidate is a version and an attempt; its branch is named after both.

Checkpoints are found as the code finds them (`Recorded`): by kind and attempt
number, over the checkpoints of all versions. `collectPreparationCandidates`
filters preparations by version and checkpoints not, and
`selectAttemptCheckpoints` looks at the attempt only. Two checkpoints of one kind
and attempt are ambiguous, and checkpoints of two versions are a duplicate
(`ChainIsBroken`); either ends every run that reads the chain. While only one
version has checkpoints the chain is whole, and a run of the other adopts what it
finds there for its attempt number: a pull request that is not its own (`IsMine`)
fails the identity check, and a stale-base disposition is taken for its own and
not written again. Only the
properties look checkpoints up by candidate (`Written`).

The workflow's concurrency group admits one run at a time; `Dispatch` starts one
when none runs. A mutation whose answer is lost (`AnswerIsLost`) was done or was
not; the run then looks at the host, as `reconcileMutation` and its callers do,
and asks again once (branch, pull request, merge) or stops (close, draft,
publish). `JobEnds` is every end the run does not choose. The workflows of the
host decide checks, edge publication and image publication, and a failed one can
be run again. People push to main, edit a head, close, reopen, object, merge, tag
and lift the protection (constant `Meddling`).

Abstracted: the JSON of evidence and checkpoints and its authentication (a record
is found or not), the App token, texts, and polling (a wait is an action that
becomes possible). Bounds: `MaxAttempts` (3 in the code, 2 in the runs),
`MaxPushes`, and `MaxTroubles`, which lost answers, ended runs, failed checks and
meddling share.

### 2.7 Image publication

An image is a version label and the build it came from; two builds of one source
differ. `tag` is the registry; `run` is the publication under way: the digest it
knows, the image a moving tag still names (`adopted`), the moving tags it has to
move. It inspects the immutable tag, plans both moving tags, builds, adopts or
reuses, reads back, plans again, moves, and verifies all three tags, each a step.
`pushing` is a push whose client has given up and that may land later. Faults
(constant `Faults`): `registry` (an inspection fails), `push` (a push or retag
fails, done or not), `job` (the runner is lost), `lost` (somebody deletes an
immutable tag).

Assumed: such a push can land only until the next publication starts, because
the runner that holds it is gone by then; an immutable tag is lost only while a
moving tag still names its image (otherwise nothing could restore it, and the
code refuses to rebuild in a rerun for just that reason); an image of an earlier
publisher is found under `latest` only.

### 2.8 The release page

`page` holds the React state and the refs of the page that is open; everything
it awaits is a closure that outlives it, kept in `work` (searches, lists of
destinations, the check before a submission) or `posts` (submissions), with the
visit it belongs to. A closure of a visit that is over changes nothing on the
screen, but a POST that was sent stays sent. The server looks a key up, then
refuses or accepts, in separate steps, so that two submissions of one key can be
at work at once. `mishaps` counts lost answers, failed lists, expired tokens,
destinations that change, and reloads by focus.

### 2.9 The pages of the catalog

`MetadataPage` keeps the refs (`searchInFlight`, `selectionInFlight`,
`providerRetryInFlight`) apart from what is shown, because handlers test the
refs and buttons the state of the mutations. An import is over only when the
catalog has been reloaded, after the item is shown. The providers' query and a
change of the interface language run beside it.

`ManualPages` has both pages (`kind`) over one editor: the structured draft
(which of its rows exist, whether there is a title, whether fields and comma
lists were touched), the source text (JSON on one page, CSV on the other), the
files being read with their generation, the one `operation` that locks the page,
reviews of removals and of the other draft, the confirmation of a similar work,
and the blocker of the router. `wanted` and `agreed` are for the properties only:
the file the user still wants, and what the user has agreed to lose: the other
draft, the drafts of a page that is left, or rows of the document (a review that
was confirmed, or a structured draft that was given up). Asking about rows takes
an earlier agreement back, so that cancelling a review, or an editor that goes
under it, is told apart from confirming it.

`CatalogPages` is the tab: one page is mounted, and the metadata page's state
goes when it is left.

## 3. What the runs check

| Run | Instance | States | Shows |
| --- | --- | --- | --- |
| `acquisition` | 2 submissions, 2 keys, 1 token, 1 reconciler, 2 client modules, all faults, fairness | 127,410 | `AcquisitionLedger` is implemented (one acquisition and one client request per key), a token reaches the client once, failures that blame the token or the release are definitive, submitted means accepted, abandoned rows change only by a reconciliation and are never condemned while the client has the task, every submission answers |
| `acquisition_reconcile_race` | 1 submission, 1 reconciler, no fault | | finding 1, a counterexample |
| `module_runtime` | 2 threads, 2 closers, 2 slots (one validated), 3 instances, fairness | 152,832 | `ModulePool` is implemented, every instance is closed in the end |
| `selection_cache` | 4 tokens, capacity 2, time to live 2 | 330,740 | live tokens stay, `TokenPool` is implemented |
| `catalog` | 2 threads, a manual and a provider identity, 2 item rows, 2 tokens, 3 revisions, 1 collection | 891,194 | one item per identity, nothing overwritten unseen, drafts apply once, no look-alike is created without a confirmation |
| `retention` | 1 item, 2 rows, 1 export, refresh at 2, expiry at 3, cadence 2, all faults until they stop, fairness | 97,992 | completions are true, skipped runs leave nothing behind, exports are in time, what expires is purged in the end |
| `retention_again` | 1 item, 2 rows, a policy that is missing once | | finding 2, a counterexample |
| `release_operation` | 2 versions, 2 attempts each, 1 other push, 3 mishaps, or 2 troubles of any kind once people meddle, fairness | 185,251 | what is released is what was prepared and verified, the run merges only what it checked and closes only what is stale and written down, checkpoints are unique, one candidate is open at a time, a merged candidate is finished unless the chain of checkpoints is broken |
| `release_resume` | 1 version, 1 push, 1 trouble | | finding 3, a counterexample |
| `release_publication` | 3 versions on 2 minor lines, 2 builds of each, all faults until they stop, fairness | 320,276 | one image per version, evidence stays true, moving tags only advance, publishing the newest release again completes it |
| `release_page` | 2 titles, 1 destination, 2 searches, 2 visits, 2 keys, 3 submissions, 2 mishaps, fairness | 615,061 | what is sent was reviewed, an unresolved submission blocks any other, no second acquisition before the first is known, a first POST is checked, the page is freed |
| `catalog_pages` | 3 searches of 2 queries with 2 results, 2 seasons, 1 episode each, 1 text, 1 collection, 2 files at once, fairness | 248,777 | what is shown belongs to the query, one import at a time, what is saved is on the screen, no draft is lost unasked, reviews stay true and rows go only by a confirmed one, the pages are freed |

*Why the bounds are enough.* Every race in `Acquisition` is between two calls
that share a key or a token, or a call and a reconciliation; two calls, one
reconciler and two of each value give every sharing pattern, and the theorems
cover the rest. Three instances let two threads race for a slot and one of them
try again after a failure. Four tokens on a cache of two make eviction, expiry
and reuse compete. Three revisions let two requests race on top of a first one;
beside a collection, histories are one revision long (the constraint
`ShortHistories`: what a collection decides is whether an item may be placed, not
how long its history is). An expiry of 3 with a refresh at 2 and a cadence of 2
lets a revision expire before, between and after the runs that would refresh and
purge it. For the controller, two attempts give every replacement of a candidate
and the end of attempts, one push makes a candidate stale at any point, two
troubles let one failure meet another (a lost answer whose rerun ends, a head
edited after an ended run), and a third mishap leaves checkpoints of two versions
beside a merged candidate; the safety properties were also explored with two
pushes and three troubles of any kind, 7.2 million states. Three versions on two lines are
the least on which an older patch, an older line and a newer version compete for
both moving tags. Two searches, two visits and two keys let every closure of the
release page meet a later state of its own kind; a third submission is a retry
beside another intent. Two seasons with an episode each tell a row that is named
from one that is not; that a removed episode leaves those beside it in its season
was explored with two episodes (692,937 states) and is proved for any number. Symmetry is used over tokens (`selection_cache`) and over
threads, items, tokens and titles (`catalog`), never in a run that checks
liveness.

*Deadlock* is not checked where the system may rest: when all submissions have
answered, when the runtime is closed, when all tokens are used up, when the users
of a page or the people at a release do nothing more (or the bounds on what they
do are reached). Retention and publication have no such rest, and their runs
check it.

*Fairness.* A thread that serves a request is run by the executor, and every
remote call ends, in an answer or in httpx's timeout: weak fairness of the steps
of a thread, without its faults (`SubmitOn` leaves out a broken connection and a
busy database, so that no property holds thanks to a fault). Users, searches and
the client owe nothing: the client may never answer. For `module_runtime`, builds
and validations are bounded in the same way. For `retention`, time passes, the
loop goes on (asyncio schedules it, a cycle that raises is caught), a server that
ended is started again, and there is a last fault. For `release_operation`, a run
that can go on goes on (each place of it waits for one answer), workflows are run
again until they pass, and who asked for a version asks again until it is
reported complete: strong fairness, because a run that ends frees the concurrency
group again and again. For `release_publication`, a job runs to its end, there is
a last fault, and the operator publishes the newest release again by the manual
entry point. On the pages, requests and file reads end, with an answer or an
error; users owe nothing.

## 4. Findings

1. *A reconciliation fails an acquisition that the client is about to accept*
   (`acquisition_reconcile_race`). `reconcile()` accepts any pending row, also
   one whose `submit()` is still on its way to the client. It finds no task,
   writes `failed`, the client accepts a moment later, and the compare-and-set of
   `submit()` finds a settled row. The specification of torrent acquisition says
   that an accepted artifact becomes submitted. The same disagreement has a
   second way, which is not a run of its own: with the fault `broken`, an answer
   that is lost after the client accepted (`client.py`, the `except Exception` of
   `submit`) is filed as a failure although the task exists.
2. *A refreshed revision is fetched again* (`retention_again`). A run that finds
   no policy records `failed` over `refreshed`; the next run with the policy asks
   the provider again, and so does every run after it, until the revision
   expires.
3. *A resumed release refuses itself* (`release_resume`). `executePhase` looks
   for other open release pull requests before it reads its own checkpoints; a
   request that resumes on an unmoved main does not know its pull request yet and
   takes it for a duplicate, although docs/release-automation.md says that it
   resumes. Only when main moves on is the pull request looked at again, and then
   it is closed as stale and an attempt is used up.

Met while modelling, without a run of their own:

- `assertNoConflictingVersionState` is called only when a version has no
  preparation. A higher version whose preparation was uploaded before its run
  ended can therefore be prepared again, merged and published while a lower one
  that was merged before it still waits for its publication; the lower one is
  then published after it. The comment at release-automation.mjs:2041-2046 says
  "so out-of-order publication cannot be started".
- The same function looks at pull requests in every state and at every branch, so
  that after one completed release the first request for any other version is
  refused as `concurrent_release` until somebody deletes the branch.
- Checkpoints of two versions stop both. `discoverCheckpointChain` says "Multiple
  authenticated release operations claim checkpoint records for this version",
  but nothing filters the records by version: once two operations have any
  checkpoint within the retention of 90 days, every later request fails with
  `duplicate_release_state`, that of a version without a preparation at the latest
  before it opens a pull request. A candidate
  whose run ended after its merge is then never finished, until the records expire
  or somebody deletes them; so `MergedIsFinished` speaks of unbroken chains
  (`Undisturbed`). Without this condition, TLC finds it violated with three
  mishaps and nobody meddling; the broken chain itself takes two.
- A pull request closed by hand before its checkpoint says why, or a second pull
  request for one branch, ends an operation for good (`candidate_closed`,
  `mutation_ambiguous`).
- Release page: when the server is at work on two submissions of one key at once
  (the first answer was lost, the user retried), the retry may be refused
  definitively while the first is still accepted later. The page discards the
  intent and offers a fresh search, so the user may file a second acquisition;
  `SecondOnlyAfterFirstIsKnown` excuses exactly these submissions (`alone`).
  openspec/specs/bilingual-web-ui/spec.md: "While that request is unresolved, the
  page SHALL NOT offer a fresh search".
- Metadata page: when the *confirmation* of a similar work fails, the feedback is
  kept under the confirmation's token, which no row of the results has, so that
  no message is shown.

## 5. What is proved

The theorems hold for every value of the constants, under the named assumptions
of each module (disjoint sets of threads, a `None` that is no value, positive
bounds, finitely many versions and at least one attempt of each, at least one
build and, for retention, `1 < RefreshAfter < ExpiresAfter`; `ReleasePage` needs
none).

Each `...Proofs` module has one inductive invariant, `Inductive` (one for each
page in `CatalogPagesProofs`: `MetadataInductive`, `ManualInductive`, and one for
the cache in `AcquisitionProofs`: `CacheInductive`), checked by
TLC while it was found, and proved by one lemma per action (or family of actions
that leave the same things alone). It is stronger than the properties for these
reasons:

- *Acquisition*: that a token reaches the client once needs that a token in use
  is not in the cache and has one user (`TokensTakenOnce`); that `submitted` is
  true needs that a verdict not yet written is justified (`VerdictsJustified`);
  that a definitive failure sent nothing needs that it is the last act of the call
  (`UnsentFailuresAreOver`).
- *Module runtime*: that nothing leaks or is closed twice needs that every open
  instance is in exactly one pair of hands: a thread's, `owned`, or the rest of
  `retiring` (`HoldersApart`, `NothingLost`); that callers agree needs that what
  a loser is about to return is what the cache serves (`OffersAgree`).
- *Caches* (in `AcquisitionProofs`, where the cache is the instance `Cache` with
  the tokens of the searches and the constants of its own under
  `CacheAssumption`, which is what `SelectionCache` assumes of them): stamps are
  distinct and below the next one, so that the oldest entry exists and is unique.
- *Catalog*: that no draft applies twice needs that its token is in one place at
  a time: the cache, one thread, or one revision (`DraftInOnePlace`); that nothing
  is overwritten unseen needs that requests and drafts name a revision that exists
  (`RequestsMakeSense`, `DraftsMakeSense`).
- *Retention*: that a completion is true needs the chain of a run: a plan covers
  all that had expired when the list was read (`SweptSoFar`), the list was read
  after the run began (`TimesInOrder`), and a plan is for revisions that still
  are what they were (`PlanIsSound`).
- *Publication*: that a version has one image needs that what a plan has found
  stays true until it is acted on (`PlanHolds`: nothing above the version on a
  moving tag, its own tag missing, what names it adopted), and that an image that
  was once reported, or is about to be, can be found from the tags for as long as
  somebody could build its version again (`ReportsAreFound`: a moving tag at or
  past the version either names the image or forbids the publication). All
  versions are compared by the order of their parts (`NewerIsAnOrder`).
- *Release controller*: a run reads the host at one place and acts on it at a
  later one, while main moves, people edit and other runs are long over. The
  invariant says of the host what stays true whatever happens (merged pull
  requests are what main got, `MergesAreOnMain`; checkpoints are
  unique over all versions, `RecordedOnce`, and each is true of the candidate it
  was written for, `RecordsAreTrue`; a recorded pull
  request and a stale-base disposition of one attempt number are of one candidate,
  `DispositionsAreOwn`; preparations and releases are of commits of main,
  `PreparationsAreOfMain`, `ReleasesAreOfMain`), and of the run, by the place it
  has reached, that what it holds is of its own candidate and has passed the
  earlier checks (`IsSound`), and that nothing else is open unless people meddled
  (`IsAlone`). Since the host only grows (`Grows`), a run stays sound while others
  act (`RunStays`), which leaves its own steps.
- *Release page*: closures that outlive the page, searches that are superseded
  and answers that come late meet at one place of state. Nothing is sent but what was
  reviewed because the chosen token stays the one that the review names
  (`IntentsAreReviewed`, `ReviewsFollowTheSearch`). Nothing new is offered because
  one operation is under way at a time, whose phase is shown (`OneOperation`), and
  because what a page may still have to learn is of one intent, the newest, and is
  shown too (`OneIntent`). That a second download is no accident needs that every
  earlier key of a visit is settled: its acquisition was shown, or two of its
  submissions overlapped at the server, or all of them are answered and there is
  no acquisition (`RowsAreOfPosts`), and that a refusal means no acquisition
  unless it overlapped (`LookupsAreTrue`).
- *Catalog pages*: on the metadata page, that every late answer is either of the
  search that is shown or of none (`OneSearch`, `OneSelection`). On the manual
  pages, that an operation, its request and its review exist together or not at
  all (`OneOperation`), and that the request holds the draft as it is on the
  screen (`RequestsAreFaithful`); nothing may be typed meanwhile, so it stays. That
  no row is lost by the way needs that a new season takes no other's number
  (`SeasonsAreNumbered`, `NextNumberIsNew`): what a confirmed review takes
  (`ConfirmedReview`) is then all that ever goes.

`PROJECT.json` lists the theorems with the property each one states. Action
properties (`LiveTokensStay`, `NoUnconfirmedTwin`, `ArchivedStaysClosed`,
`RecoverableStaysRecoverable`, `ServedInTime`, `SkipsOnlyWhenSwept`,
`MovingTagsOnlyAdvance`, `MergesWhatItChecked`, `ClosesOnlyTheStale`, `FirstPostIsChecked`,
`NothingIsDiscardedUnasked` and others)
follow from the same invariants, step by step. Three refinements are proved:
`Acquisition` implements `AcquisitionLedger`, `ModuleRuntime` implements
`ModulePool`, `SelectionCache` implements `TokenPool`.

Theorems without a run: the properties that follow from a refinement or another
property that a run checks (`OneSubmissionPerKey`, `AnswersAgree`,
`QuiescentMeansClosed`, `ReverseOrder`, `ConsumedOnce`, `RefreshedOnce`,
`ImportsAreConfirmed`, `ArchivedStaysClosed`) are proved and no longer checked
by TLC; `PreparedOnce` of the controller, which the invariant gives for nothing
more, is stated beside its theorem.

*Only model-checked*: the liveness properties (`SubmitAnswers`,
`EveryInstanceIsClosed`, `EventuallyPurged`, `EventuallyPublished`,
`MergedIsFinished`, `PageIsFreed`, `PagesAreFreed`: liveness under fairness is out
of the prover's reach). Every safety property that a run checks and that holds is
stated by a theorem. The three findings are counterexamples, nothing to prove.

## 6. What is not modelled, and why

- *Control API, gateway, security, diagnostics, configuration, registry*:
  translation and validation without state of their own; every route starts one
  worker thread, which is how the other modules begin.
- *Module SDK and contracts*: interfaces and value types.
- *Names and NFO documents*: pure functions of a revision (planned in part).
- *Database and migration*: SQLite's transactions are taken as they are
  documented: one writer, all or nothing, a busy timeout.
- *The wall clock* is not set back in `Retention` (it is in `SelectionCache`): a
  completion in the future holds runs back until the clock has caught up, and
  nothing says what should happen.
- *Release controller*: a mutation that timed out and lands after the run has
  looked again; the expiry of artifacts after 90 days; the phases `prepare`,
  `execute` and `resume`, which are the same operations with a state handed in.
- *Pages*: a request whose answer was lost and that the server carries out later
  (except on the release page, where it is modelled); the text of queries and
  fields, focus, layout.
- *Catalog and detail pages, the shell, release preparation, delivery checks*: see
  the notes of the components in `PROJECT.json`. The delivery checks
  (`validate-delivery.mjs`) and the generated client types are a large part of the
  JavaScript and have no behaviour over time.

## 7. Plan

In this order; a module that replaces a part of the abstraction of another one
comes with the run that composes them.

1. `Lifespan` (`runtime.py`): startup that fails half way, cancellation while a
   maintenance cycle runs in its thread, requests during shutdown; closing in
   reverse order through `ModulePool`.
2. `Paging`: keyset pages over a table whose sort keys change, by operators over
   small tables, and the cursor's binding to its filters.
3. `TransactionOwner`: nested writes refused, savepoints, context variables.
4. Naming (`exports/naming.py`) as an operator against a reference definition.

Bounds to begin with: three resources for 1, four rows and pages of two for 2.
The catalog and detail pages would join `CatalogPages`, as two more routes.

Theorems worth proving next: `ReleasePage` by an abstract specification of an
intent (reviewed, sent, known or unresolved) that it implements; the cache as a
component of `Acquisition`, in the place of its set of tokens; `CatalogProofs` and `RetentionProofs` joined by an abstract specification of a
revision's life (written, current, superseded, purged) that both implement.
