--------------------------- MODULE ReleaseOperation ---------------------------
(***************************************************************************)
(* One stable release, from the request to the published release           *)
(* (scripts/release-automation.mjs, phase "request").                      *)
(*                                                                         *)
(* The controller keeps nothing of its own: a run of it works out where    *)
(* the operation stands from what it finds at the host (main, branches,    *)
(* pull requests, releases, tags) and from records it uploads there and    *)
(* can never change.  The workflow runs one controller at a time.  Each    *)
(* request to the host is a step of its own; between any two the run may   *)
(* end, an answer may be lost, and people push, edit, close and tag.       *)
(***************************************************************************)
EXTENDS Integers, Sequences, FiniteSetsExt

CONSTANTS
    Versions,     \* the versions somebody asks for, greater than those released
    MaxAttempts,  \* MAX_CANDIDATE_ATTEMPTS: the candidates of one version
    MaxPushes,    \* bound: other changes of main
    MaxMishaps,   \* bound: lost answers, ended runs and failed checks
    MaxTroubles,  \* bound: these and the meddling of people, once they meddle
    Meddling,     \* what people may do to the operation's things: "edit", ...
    None

ASSUME OperationAssumption ==
    /\ Versions \subseteq Nat \ {0} /\ IsFiniteSet(Versions)
    /\ {MaxAttempts, MaxPushes, MaxMishaps, MaxTroubles} \subseteq Nat /\ MaxAttempts > 0
    /\ Meddling \subseteq {"edit", "close", "reopen", "dispute", "merge", "tag", "unprotect"}
    /\ None \notin Nat

VARIABLES
    main,       \* the commits of main: the pull request squashed into each (0
                \* for any other change), whether its tree is the prepared one,
                \* and how the verification and edge publication of it went
    prep,       \* candidate -> the commit of main it was prepared on
    records,    \* the checkpoints, in the order they were uploaded
    branch,     \* candidate -> its branch: none, at the prepared commit, edited
    prs,        \* the pull requests of candidates, by number
    protected,  \* whether main has the approved protection
    release,    \* version -> its release at the host
    tag,        \* version -> the commit its tag names, 0 when there is none
    image,      \* version -> how the publication of its images went
    job,        \* the run of the controller
    done,       \* the versions a run has reported complete
    mishaps, meddled

host == <<main, branch, prs, protected, release, tag, image>>
durable == <<prep, records>>
counts == <<mishaps, meddled>>
vars == <<main, prep, records, branch, prs, protected, release, tag, image,
          job, done, mishaps, meddled>>

-------------------------------------------------------------------------------
(* A candidate is an attempt at a version; its branch is named after both.   *)

Candidates == Versions \X (1..MaxAttempts)
Version(cand) == cand[1]
Attempt(cand) == cand[2]

Tip == Len(main)
Cand == <<job.version, job.attempt>>
Base == prep[Cand]

Idle == [at |-> "idle", version |-> None, attempt |-> 0, sha |-> 0, pr |-> 0,
         merged |-> 0, tries |-> 0, tagged |-> FALSE, resolving |-> TRUE]

\* The commit of main that pull request i was squashed into.
MergeOf(i) == CHOOSE n \in 1..Tip : main[n].pr = i

\* The number of the pull request a checkpoint of this kind holds.  Checkpoints are
\* found by the number of the attempt, whichever version they were uploaded for.
Recorded(kind, attempt) ==
    {r.pr : r \in {s \in Range(records) : s.kind = kind /\ Attempt(s.cand) = attempt}}
RecordedPr ==
    IF Recorded("merged", job.attempt) # {}
    THEN Recorded("merged", job.attempt)
    ELSE Recorded("pr-created", job.attempt)

\* What no run goes past: two checkpoints of one kind and attempt, or checkpoints
\* of two versions.
CheckpointsAreAmbiguous ==
    \E i, j \in DOMAIN records :
        /\ i # j /\ records[i].kind = records[j].kind
        /\ Attempt(records[i].cand) = Attempt(records[j].cand)
ChainIsBroken ==
    \/ CheckpointsAreAmbiguous
    \/ \E r, s \in Range(records) : Version(r.cand) # Version(s.cand)

OpenPrs == {i \in DOMAIN prs : prs[i].state = "open"}
PrsOf(cand) == {i \in DOMAIN prs : prs[i].cand = cand}

\* The pull request is still what was prepared: nobody has pushed to its head.
IsOwn(i) == branch[prs[i].cand] = "prepared"

\* The pull request that a record names is the one of this candidate, at that.
IsMine(i) == prs[i].cand = Cand /\ IsOwn(i)

\* The version that the workspace of commit n declares.
CurrentVersion(n) == Max({0} \cup {Version(prs[main[k].pr].cand) : k \in {k \in 1..n : main[k].pr # 0}})
LatestStable == Max({0} \cup {v \in Versions : release[v].state = "published"})

Init ==
    /\ main = << >> /\ prep = [c \in Candidates |-> None] /\ records = << >>
    /\ branch = [c \in Candidates |-> "none"] /\ prs = << >> /\ protected = TRUE
    /\ release = [v \in Versions |-> [state |-> "none", target |-> 0]]
    /\ tag = [v \in Versions |-> 0] /\ image = [v \in Versions |-> "none"]
    /\ job = Idle /\ done = {} /\ mishaps = 0 /\ meddled = 0

-------------------------------------------------------------------------------
(* What a step of the run does with the run itself.                          *)

At(place) == job.at = place
Go(place) == job' = [job EXCEPT !.at = place, !.tries = 0]
Fail == job' = Idle
Reads == UNCHANGED <<host, durable, done, counts>>

Mishap ==
    /\ mishaps < MaxMishaps /\ (meddled > 0 => mishaps + meddled < MaxTroubles)
    /\ mishaps' = mishaps + 1 /\ UNCHANGED meddled

\* A request whose answer is lost, after it was done or not (effect): the run
\* looks at the host before it does anything else.
AnswerIsLost ==
    /\ Mishap
    /\ job' = [job EXCEPT !.tries = @ + 1]
Answered(place) == Go(place) /\ UNCHANGED counts

-------------------------------------------------------------------------------
(* Resolving the request: where does this version stand?                     *)

Dispatch(v) ==
    /\ At("idle")
    /\ job' = [Idle EXCEPT !.at = "resolve", !.version = v, !.sha = Tip]
    /\ Reads

Attempts == {a \in 1..MaxAttempts : prep[<<job.version, a>>] # None}

Resolve ==
    /\ At("resolve")
    /\ \/ /\ Attempts = {}
          /\ Go("fresh")
       \/ \E a \in Attempts :
              /\ prep[<<job.version, a>>] = Tip
              /\ job' = [job EXCEPT !.at = "conflict", !.attempt = a]
       \/ /\ Attempts # {} /\ \A a \in Attempts : prep[<<job.version, a>>] # Tip
          /\ job' = [job EXCEPT !.at = "live", !.attempt = Max(Attempts)]
    /\ Reads

\* A version nothing was prepared for starts only when the host holds nothing
\* that looks like a release: no pull request in any state, no branch.
Fresh ==
    /\ At("fresh")
    /\ IF prs = << >> /\ \A c \in Candidates : branch[c] = "none"
       THEN job' = [job EXCEPT !.at = "prepare", !.attempt = 1]
       ELSE Fail
    /\ Reads

\* The next candidate, while there is one.
Replace ==
    IF job.attempt >= MaxAttempts
    THEN Fail
    ELSE job' = [job EXCEPT !.at = "prepare", !.attempt = @ + 1, !.pr = 0, !.tries = 0]

\* The pull request of the last candidate: the recorded one, else any of the branch.
LivePrs == IF RecordedPr # {} THEN RecordedPr ELSE PrsOf(Cand)

\* Wrong: only an open pull request is looked at; a merged one is taken for closed.
LiveUnlessMerged ==
    /\ At("live")
    /\ \/ ChainIsBroken /\ Fail
       \/ ~ChainIsBroken /\ LivePrs \cap OpenPrs = {} /\ Replace
       \/ ~ChainIsBroken /\ \E i \in LivePrs \cap OpenPrs :
              IF IsMine(i) THEN job' = [job EXCEPT !.at = "stale", !.pr = i] ELSE Fail
    /\ Reads

\* Main has moved on from the last candidate: finish it if it was merged, give
\* it up for the next one if not, and stop at anything nobody wrote down.
Live ==
    /\ At("live")
    /\ \/ ChainIsBroken /\ Fail
       \/ ~ChainIsBroken /\ LivePrs = {} /\ Replace
       \/ ~ChainIsBroken /\ Cardinality(LivePrs) > 1 /\ Fail
       \/ ~ChainIsBroken /\ \E i \in LivePrs :
              /\ LivePrs = {i}
              /\ \/ ~IsMine(i) /\ Fail
                 \/ /\ IsMine(i) /\ prs[i].state = "merged"
                    /\ job' = [job EXCEPT !.at = "conflict", !.pr = i, !.merged = MergeOf(i)]
                 \/ /\ IsMine(i) /\ prs[i].state = "closed"
                    /\ IF \/ Recorded("merged", job.attempt) # {}
                          \/ Recorded("stale-base", job.attempt) = {} /\ RecordedPr # {}
                       THEN Fail
                       ELSE Replace
                 \/ /\ IsMine(i) /\ prs[i].state = "open"
                    /\ IF Recorded("merged", job.attempt) # {}
                       THEN Fail
                       ELSE job' = [job EXCEPT !.at = "stale", !.pr = i]
    /\ Reads

Record(kind) == records' = Append(records, [kind |-> kind, cand |-> Cand, pr |-> job.pr])

\* Wrong: the disposition is written again after a crash.
PersistStaleAgain ==
    /\ At("stale")
    /\ Record("stale-base")
    /\ Go("close")
    /\ UNCHANGED <<host, prep, done, counts>>

\* That an attempt of this number is given up is written before its pull request is
\* closed, and only once.
PersistStaleDisposition ==
    /\ At("stale")
    /\ IF Recorded("stale-base", job.attempt) = {} THEN Record("stale-base") ELSE UNCHANGED records
    /\ Go("close")
    /\ UNCHANGED <<host, prep, done, counts>>

\* Closed: the next candidate when the request is being resolved; else it fails.
GiveUp == IF job.resolving THEN Replace ELSE Fail

\* Closing a pull request that is not open changes nothing.
Close ==
    /\ At("close")
    /\ \/ /\ job.tries = 0
          /\ prs' = [prs EXCEPT ![job.pr].state = IF @ = "open" THEN "closed" ELSE @]
          /\ GiveUp /\ UNCHANGED counts
       \/ /\ job.tries = 0 /\ AnswerIsLost
          /\ prs' \in {prs, [prs EXCEPT ![job.pr].state = IF @ = "open" THEN "closed" ELSE @]}
       \/ /\ job.tries > 0 /\ UNCHANGED <<prs, counts>>
          /\ IF job.pr \in OpenPrs THEN Fail ELSE GiveUp
    /\ UNCHANGED <<main, branch, protected, release, tag, image, durable, done>>

-------------------------------------------------------------------------------
(* Preparing a candidate.                                                    *)

\* Only upwards.
ValidateRequestedVersion ==
    job.version > LatestStable /\ job.version > CurrentVersion(job.sha)

\* Only on the commit the workflow runs.  Blobs, tree and commit are made, and
\* nothing names them yet.
Prepare ==
    /\ At("prepare")
    /\ IF job.sha = Tip /\ ValidateRequestedVersion THEN Go("upload") ELSE Fail
    /\ Reads

\* The candidate is recorded, once and for all, and read back.
UploadPreparation ==
    /\ At("upload")
    /\ prep' = [prep EXCEPT ![Cand] = job.sha]
    /\ Go("conflict")
    /\ UNCHANGED <<host, records, done, counts>>

-------------------------------------------------------------------------------
(* Executing: from a recorded candidate to a pull request.                   *)

\* Wrong: the open pull requests of other versions are not looked at.
SameVersionConflictOnly ==
    /\ At("conflict")
    /\ IF \E i \in OpenPrs \ {job.pr} : Version(prs[i].cand) = job.version
       THEN Fail
       ELSE Go("adopt")
    /\ Reads

\* No other release may be open.  The pull request of the run is not known yet
\* unless resolving the request found it merged.
EnsureSameVersionConflict ==
    /\ At("conflict")
    /\ IF OpenPrs \ {job.pr} # {} THEN Fail ELSE Go("adopt")
    /\ Reads

\* What the checkpoints say of this attempt, compared with the host.
ReconcileRecordedCheckpoints ==
    /\ At("adopt")
    /\ \/ ChainIsBroken /\ Fail
       \/ ~ChainIsBroken /\ \E i \in RecordedPr :
              \/ /\ IsMine(i) /\ prs[i].state = "merged"
                 /\ job' = [job EXCEPT !.at = "gates", !.pr = i, !.merged = MergeOf(i)]
              \/ /\ IsMine(i) /\ prs[i].state = "open" /\ Recorded("merged", job.attempt) = {}
                 /\ job' = [job EXCEPT !.at = "gates", !.pr = i]
              \/ /\ \/ ~IsMine(i) \/ prs[i].state = "closed"
                    \/ prs[i].state = "open" /\ Recorded("merged", job.attempt) # {}
                 /\ Fail
       \/ /\ ~ChainIsBroken /\ RecordedPr = {}
          /\ IF Recorded("stale-base", job.attempt) # {} THEN Fail
             ELSE IF job.pr # 0 THEN Go("gates") ELSE Go("protection")
    /\ Reads

ValidateProtection(place, next) ==
    /\ At(place)
    /\ IF protected THEN Go(next) ELSE Fail
    /\ Reads

MainIsTheBase ==
    /\ At("base")
    /\ IF Tip = Base THEN Go("expose") ELSE Fail
    /\ Reads

\* The branch: one that is there is reused, or in conflict; one that is not is
\* created, and asked for at most twice.
ExposeCandidateRef ==
    /\ At("expose")
    /\ \/ branch[Cand] = "prepared" /\ Answered("pull request") /\ UNCHANGED branch
       \/ /\ branch[Cand] = "edited" \/ (branch[Cand] = "none" /\ job.tries = 2)
          /\ Fail /\ UNCHANGED <<branch, counts>>
       \/ /\ branch[Cand] = "none" /\ job.tries < 2
          /\ \/ branch' = [branch EXCEPT ![Cand] = "prepared"] /\ Answered("pull request")
             \/ branch' \in {branch, [branch EXCEPT ![Cand] = "prepared"]} /\ AnswerIsLost
    /\ UNCHANGED <<main, prs, protected, release, tag, image, durable, done>>

\* The host may already say that the base of the pull request has moved on.
BaseIsSeenToMove == Tip # Base

\* The open pull request of the branch, which may be the run's own.
MatchingPrs == OpenPrs \cap PrsOf(Cand)

\* An open pull request is adopted when it is the run's own; else one is created,
\* and asked for at most twice.
CreatePullRequest ==
    LET created == Append(prs, [cand |-> Cand, state |-> "open", disputed |-> FALSE,
                                checks |-> "none"])
    IN  /\ At("pull request")
        /\ \/ \E i \in MatchingPrs :
                 /\ IsOwn(i)
                 /\ job' = [job EXCEPT !.at = "pr-created", !.pr = i, !.tries = 0]
                 /\ UNCHANGED <<prs, counts>>
           \/ /\ \/ \E i \in MatchingPrs : ~IsOwn(i) \/ BaseIsSeenToMove
                 \/ MatchingPrs = {} /\ job.tries = 2
              /\ Fail /\ UNCHANGED <<prs, counts>>
           \/ /\ MatchingPrs = {} /\ job.tries < 2
              /\ \/ /\ prs' = created /\ UNCHANGED counts
                    /\ IF branch[Cand] = "prepared" /\ ~BaseIsSeenToMove
                       THEN job' = [job EXCEPT !.at = "pr-created", !.pr = Len(created), !.tries = 0]
                       ELSE Fail
                 \/ prs' \in {prs, created} /\ AnswerIsLost
        /\ UNCHANGED <<main, branch, protected, release, tag, image, durable, done>>

PersistPrCreated ==
    /\ At("pr-created")
    /\ Record("pr-created")
    /\ Go("gates")
    /\ UNCHANGED <<host, prep, done, counts>>

-------------------------------------------------------------------------------
(* Executing: from a pull request to a merge.                                *)

\* Still the run's own, still open, and nobody objects; a merge is adopted.
ValidatePullRequestGates(place, next) ==
    /\ At(place)
    /\ \/ /\ ~IsOwn(job.pr) \/ prs[job.pr].state = "closed"
          /\ Fail
       \/ /\ IsOwn(job.pr) /\ prs[job.pr].state = "merged"
          /\ job' = [job EXCEPT !.at = "merged", !.merged = MergeOf(job.pr)]
       \/ /\ prs[job.pr].state = "open" /\ (prs[job.pr].disputed \/ BaseIsSeenToMove)
          /\ Fail
       \/ /\ IsOwn(job.pr) /\ prs[job.pr].state = "open" /\ ~prs[job.pr].disputed
          /\ Go(next)
    /\ Reads

\* The checks of the prepared commit, waited for until they are decided.
WaitForPullRequestChecks ==
    /\ At("checks")
    /\ \/ prs[job.pr].checks = "passed" /\ Go("main")
       \/ prs[job.pr].checks = "failed" /\ Fail
    /\ Reads

\* Main again.  Hours may have passed.
RereadMain ==
    /\ At("main")
    /\ IF Tip = Base THEN Go("reproduce") ELSE Go("refresh")
    /\ Reads

\* Wrong: the candidate is closed, and nothing says why.
RefreshAndClose ==
    /\ At("refresh")
    /\ \/ /\ prs[job.pr].state = "merged"
          /\ job' = [job EXCEPT !.at = "merged", !.merged = MergeOf(job.pr)]
       \/ /\ prs[job.pr].state # "merged" /\ IsOwn(job.pr)
          /\ job' = [job EXCEPT !.at = "close", !.resolving = FALSE]
       \/ /\ prs[job.pr].state # "merged" /\ ~IsOwn(job.pr)
          /\ Fail
    /\ Reads

\* Main has moved: the candidate is merged already, or is given up.
Refresh ==
    /\ At("refresh")
    /\ \/ /\ prs[job.pr].state = "merged"
          /\ job' = [job EXCEPT !.at = "merged", !.merged = MergeOf(job.pr)]
       \/ /\ prs[job.pr].state # "merged" /\ IsOwn(job.pr)
          /\ job' = [job EXCEPT !.at = "stale", !.resolving = FALSE]
       \/ /\ prs[job.pr].state # "merged" /\ ~IsOwn(job.pr)
          /\ Fail
    /\ Reads

\* A clean checkout of the base prepares the candidate again: the same tree.
ReproduceCandidateTree ==
    /\ At("reproduce")
    /\ Go("gates again")
    /\ Reads

\* Wrong: whatever the head of the pull request is by now is merged.
AcceptsAnyHead(i) ==
    /\ prs[i].state = "open"
    /\ protected => /\ Tip = prep[prs[i].cand]
                    /\ ~prs[i].disputed
                    /\ prs[i].checks = "passed"

\* The host merges the expected head, and under the protection only a head that
\* is up to date, whose checks passed and whose discussions are resolved.
Accepts(i) ==
    /\ prs[i].state = "open"
    /\ IsOwn(i)
    /\ protected => /\ Tip = prep[prs[i].cand]
                    /\ ~prs[i].disputed
                    /\ prs[i].checks = "passed"

Squash(i) ==
    /\ main' = Append(main, [pr |-> i, edge |-> "none",
                             exact |-> IsOwn(i) /\ Tip = prep[prs[i].cand]])
    /\ prs' = [prs EXCEPT ![i].state = "merged"]

MergePullRequest ==
    /\ At("merge")
    /\ \/ /\ job.tries > 0 /\ prs[job.pr].state = "merged"
          /\ job' = [job EXCEPT !.at = "merged", !.merged = MergeOf(job.pr), !.tries = 0]
          /\ UNCHANGED <<main, prs, counts>>
       \/ /\ \/ job.tries > 0 /\ prs[job.pr].state = "closed"
             \/ job.tries = 2 /\ prs[job.pr].state = "open"
             \/ job.tries < 2 /\ prs[job.pr].state # "merged" /\ ~Accepts(job.pr)
             \/ job.tries = 0 /\ prs[job.pr].state = "merged"
          /\ Fail /\ UNCHANGED <<main, prs, counts>>
       \/ /\ job.tries < 2 /\ Accepts(job.pr)
          /\ \/ /\ Squash(job.pr) /\ UNCHANGED counts
                /\ job' = [job EXCEPT !.at = "merged", !.merged = Tip + 1, !.tries = 0]
             \/ Squash(job.pr) /\ AnswerIsLost
             \/ UNCHANGED <<main, prs>> /\ AnswerIsLost
    /\ UNCHANGED <<branch, protected, release, tag, image, durable, done>>

PersistMerged ==
    /\ At("merged")
    /\ IF Recorded("merged", job.attempt) = {} THEN Record("merged") ELSE UNCHANGED records
    /\ Go("tree")
    /\ UNCHANGED <<host, prep, done, counts>>

-------------------------------------------------------------------------------
(* Executing: from a merge to a published release.                           *)

\* Wrong: the tree that was merged is not compared with the prepared one.
TrustTheMerge ==
    /\ At("tree")
    /\ Go("edge")
    /\ Reads

\* The tree on main is exactly the prepared one.
VerifyCandidateTree ==
    /\ At("tree")
    /\ IF main[job.merged].exact THEN Go("edge") ELSE Fail
    /\ Reads

CheckMainPublication ==
    /\ At("edge")
    /\ \/ main[job.merged].edge = "passed" /\ Go("tag")
       \/ main[job.merged].edge = "failed" /\ Fail
    /\ Reads

ReconcileExistingTag ==
    /\ At("tag")
    /\ IF tag[job.version] \in {0, job.merged}
       THEN job' = [job EXCEPT !.at = "release", !.tagged = tag[job.version] # 0]
       ELSE Fail
    /\ Reads

\* The target, the notes and the flags of the release are those intended.
IsIntended(found) == found.target = job.merged

\* The release is found, as it should be, or drafted; a tag without a release is
\* somebody else's.
CreateRelease ==
    LET found == release[job.version]
        draft == [release EXCEPT ![job.version] = [state |-> "draft", target |-> job.merged]]
    IN  /\ At("release")
        /\ \/ /\ found.state # "none" /\ UNCHANGED <<release, counts>>
              /\ IF IsIntended(found) THEN Go("read back") ELSE Fail
           \/ /\ found.state = "none" /\ (job.tagged \/ job.tries > 0)
              /\ Fail /\ UNCHANGED <<release, counts>>
           \/ /\ found.state = "none" /\ ~job.tagged /\ job.tries = 0
              /\ \/ release' = draft /\ Answered("read back")
                 \/ release' \in {release, draft} /\ AnswerIsLost
        /\ UNCHANGED <<main, branch, prs, protected, tag, image, durable, done>>

ReadBack ==
    LET draft == release[job.version].state = "draft"
    IN  /\ At("read back")
        /\ IF tag[job.version] = job.merged \/ (draft /\ tag[job.version] = 0)
           THEN Go(IF draft THEN "publish" ELSE "publication")
           ELSE Fail
        /\ Reads

\* Publishing makes the tag, unless it exists.
PublishRelease ==
    LET published == [release EXCEPT ![job.version].state = "published"]
        named == [tag EXCEPT ![job.version] = IF @ = 0 THEN job.merged ELSE @]
    IN  /\ At("publish")
        /\ \/ /\ job.tries = 0 /\ release' = published /\ tag' = named
              /\ Answered("check tag")
           \/ /\ job.tries = 0 /\ AnswerIsLost
              /\ \/ release' = published /\ tag' = named
                 \/ UNCHANGED <<release, tag>>
           \/ /\ job.tries > 0 /\ UNCHANGED <<release, tag, counts>>
              /\ IF release[job.version].state = "published" THEN Go("check tag") ELSE Fail
        /\ UNCHANGED <<main, branch, prs, protected, image, durable, done>>

CheckTag ==
    /\ At("check tag")
    /\ IF tag[job.version] = job.merged THEN Go("publication") ELSE Fail
    /\ Reads

\* The evidence of the publisher, and the operation is complete.
WaitForPublication ==
    /\ At("publication")
    /\ \/ image[job.version] = "passed" /\ done' = done \cup {job.version}
       \/ image[job.version] = "failed" /\ UNCHANGED done
    /\ Fail
    /\ UNCHANGED <<host, durable, counts>>

-------------------------------------------------------------------------------
(* The run ends: cancelled, past its deadline, without a token or a runner,  *)
(* or at any other answer it does not expect.                                *)

JobEnds ==
    /\ ~At("idle") /\ Mishap
    /\ Fail
    /\ UNCHANGED <<host, durable, done>>

(* The workflows of the host.                                                *)

\* A check that failed can be run again; one that passed is not.
Outcome(old, new) ==
    \/ old # "passed" /\ new = "passed" /\ UNCHANGED counts
    \/ old = "none" /\ new = "failed" /\ Mishap

PullRequestChecks(i) ==
    /\ i \in OpenPrs /\ IsOwn(i)
    /\ \E result \in {"passed", "failed"} :
           /\ Outcome(prs[i].checks, result)
           /\ prs' = [prs EXCEPT ![i].checks = result]
    /\ UNCHANGED <<main, branch, protected, release, tag, image, durable, job, done>>

EdgePublication(n) ==
    /\ n \in 1..Tip /\ main[n].pr # 0
    /\ \E result \in {"passed", "failed"} :
           /\ Outcome(main[n].edge, result)
           /\ main' = [main EXCEPT ![n].edge = result]
    /\ UNCHANGED <<branch, prs, protected, release, tag, image, durable, job, done>>

ImagePublication(v) ==
    /\ release[v].state = "published"
    /\ \E result \in {"passed", "failed"} :
           /\ Outcome(image[v], result)
           /\ image' = [image EXCEPT ![v] = result]
    /\ UNCHANGED <<main, branch, prs, protected, release, tag, durable, job, done>>

(* People.                                                                   *)

Meddles(what) ==
    /\ what \in Meddling /\ mishaps + meddled < MaxTroubles
    /\ meddled' = meddled + 1 /\ UNCHANGED mishaps

\* Other work is merged into main.
Push ==
    /\ Cardinality({n \in 1..Tip : main[n].pr = 0}) < MaxPushes
    /\ main' = Append(main, [pr |-> 0, edge |-> "none", exact |-> FALSE])
    /\ UNCHANGED <<branch, prs, protected, release, tag, image, durable, job, done, counts>>

Edit(c) ==
    /\ Meddles("edit")
    /\ branch[c] = "prepared" /\ PrsOf(c) \subseteq OpenPrs
    /\ branch' = [branch EXCEPT ![c] = "edited"]
    /\ UNCHANGED <<main, prs, protected, release, tag, image, durable, job, done>>

CloseByHand(i) ==
    /\ Meddles("close") /\ i \in OpenPrs
    /\ prs' = [prs EXCEPT ![i].state = "closed"]
    /\ UNCHANGED <<main, branch, protected, release, tag, image, durable, job, done>>

\* The host keeps one open pull request for a branch.
Reopen(i) ==
    /\ Meddles("reopen")
    /\ i \in DOMAIN prs /\ prs[i].state = "closed" /\ OpenPrs \cap PrsOf(prs[i].cand) = {}
    /\ prs' = [prs EXCEPT ![i].state = "open"]
    /\ UNCHANGED <<main, branch, protected, release, tag, image, durable, job, done>>

\* Somebody objects, or the objection is resolved.
Dispute(i) ==
    /\ i \in OpenPrs
    /\ IF prs[i].disputed THEN UNCHANGED counts ELSE Meddles("dispute")
    /\ prs' = [prs EXCEPT ![i].disputed = ~@]
    /\ UNCHANGED <<main, branch, protected, release, tag, image, durable, job, done>>

\* A writer merges what the protection lets through; whether the checks of a
\* head somebody has edited passed, nothing here says.
MergeByHand(i) ==
    /\ Meddles("merge") /\ i \in OpenPrs
    /\ protected /\ Tip = prep[prs[i].cand] /\ ~prs[i].disputed
    /\ IsOwn(i) => prs[i].checks = "passed"
    /\ Squash(i)
    /\ UNCHANGED <<branch, protected, release, tag, image, durable, job, done>>

TagByHand(v, n) ==
    /\ Meddles("tag") /\ tag[v] = 0
    /\ tag' = [tag EXCEPT ![v] = n]
    /\ UNCHANGED <<main, branch, prs, protected, release, image, durable, job, done>>

\* The owner changes the protection, and puts it back.
Protection ==
    /\ IF protected THEN Meddles("unprotect") ELSE UNCHANGED counts
    /\ protected' = ~protected
    /\ UNCHANGED <<main, branch, prs, release, tag, image, durable, job, done>>

-------------------------------------------------------------------------------
Controller ==
    \/ Resolve \/ Fresh \/ Live \/ PersistStaleDisposition \/ Close
    \/ Prepare \/ UploadPreparation
    \/ EnsureSameVersionConflict \/ ReconcileRecordedCheckpoints
    \/ ValidateProtection("protection", "base") \/ MainIsTheBase
    \/ ExposeCandidateRef \/ CreatePullRequest \/ PersistPrCreated
    \/ ValidatePullRequestGates("gates", "checks") \/ WaitForPullRequestChecks
    \/ RereadMain \/ Refresh \/ ReproduceCandidateTree
    \/ ValidatePullRequestGates("gates again", "protection again")
    \/ ValidateProtection("protection again", "merge") \/ MergePullRequest
    \/ PersistMerged \/ VerifyCandidateTree \/ CheckMainPublication
    \/ ReconcileExistingTag \/ CreateRelease \/ ReadBack \/ PublishRelease \/ CheckTag
    \/ WaitForPublication

Workflows ==
    \/ \E i \in DOMAIN prs : PullRequestChecks(i)
    \/ \E n \in 1..Tip : EdgePublication(n)
    \/ \E v \in Versions : ImagePublication(v)

People ==
    \/ \E v \in Versions : Dispatch(v)
    \/ Push
    \/ \E c \in Candidates : Edit(c)
    \/ \E i \in DOMAIN prs : CloseByHand(i) \/ Reopen(i) \/ Dispute(i) \/ MergeByHand(i)
    \/ \E v \in Versions, n \in DOMAIN main : TagByHand(v, n)
    \/ Protection

Next == Controller \/ JobEnds \/ Workflows \/ People

Spec == Init /\ [][Next]_vars

\* The run goes on, checks are run again until they pass, and who asked for a
\* version asks again until it is reported complete.
Fairness ==
    /\ WF_vars(Controller) /\ WF_vars(Workflows)
    /\ \A v \in Versions : SF_vars(v \notin done /\ Dispatch(v))

FairSpec == Spec /\ Fairness

-------------------------------------------------------------------------------
(* Properties.                                                               *)

\* The number of the pull request that a checkpoint of this very candidate holds.
Written(kind, cand) == {r.pr : r \in {s \in Range(records) : s.kind = kind /\ s.cand = cand}}

\* What is released, drafts included, is the prepared candidate of that version
\* and nothing else: main got exactly its tree, and the verification and edge
\* publication of that commit passed, however often runs ended, heads were
\* edited, protection was lifted and people merged by hand
\* (release-automation.mjs:4478-4517).
ReleasedIsPrepared ==
    \A v \in Versions : release[v].state # "none" =>
        LET commit == main[release[v].target]
        IN  /\ commit.pr # 0 /\ Version(prs[commit.pr].cand) = v
            /\ commit.exact
            /\ commit.edge = "passed"

\* The controller never merges a pull request somebody has pushed to, even
\* between its last look at it and the merge, nor one without passed checks, nor
\* one it has not recorded as its own (release-automation.mjs:4412-4455).
MergesWhatItChecked ==
    [][\A i \in OpenPrs :
          prs'[i].state = "merged" /\ job' # job =>
              /\ IsOwn(i) /\ prs[i].checks = "passed"
              /\ i \in Written("pr-created", prs[i].cand)]_vars

\* The controller closes a pull request only when main has moved on from its
\* base, and after a run has written down why, so that one that ends in between is
\* understood by the next.  A pull request it has recorded has a disposition of its
\* own; for one it has not, another version's of that attempt number will do
\* (release-automation.mjs:1500-1528, 2440-2502, 4374-4397).
ClosesOnlyTheStale ==
    [][\A i \in OpenPrs :
          prs'[i].state = "closed" /\ job' # job =>
              /\ Tip # prep[prs[i].cand]
              /\ Recorded("stale-base", Attempt(prs[i].cand)) # {}
              /\ i \in Written("pr-created", prs[i].cand) =>
                     Written("stale-base", prs[i].cand) # {}]_vars

\* No checkpoint is uploaded twice, whichever runs upload it and for whichever
\* version: two of one kind and attempt stop every later run for good, of all
\* versions (release-automation.mjs:2267-2282, 2297-2300).
RecordedOnce == ~CheckpointsAreAmbiguous

\* Unless people meddle, the controller has one candidate open at a time, of all
\* versions and attempts (release-automation.mjs:4156-4166).
OneOpenCandidate == meddled = 0 => Cardinality(OpenPrs) <= 1

\* A candidate that was merged is released and published in the end, by the run
\* that merged it or by those asked for afterwards, unless people meddle, the
\* other version is in the way or has left checkpoints beside those of this one:
\* then the chain is refused, for good (release-automation.mjs:2301-2307,
\* 2451-2456, 4457-4575).
Merged(v) == \E i \in DOMAIN prs : Version(prs[i].cand) = v /\ prs[i].state = "merged"
Undisturbed == meddled = 0 /\ OpenPrs = {} /\ ~ChainIsBroken

MergedIsFinished == \A v \in Versions : Merged(v) /\ Undisturbed ~> v \in done \/ ~Undisturbed

\* A run never refuses an operation as a conflict because of the open, recorded,
\* unedited pull request of that operation: it resumes (docs/release-automation.md:180-186).
ResumesItsOwn ==
    [][At("conflict") /\ job'.at = "idle" /\ mishaps' = mishaps =>
           \E i \in OpenPrs \ {job.pr} :
               ~(IsOwn(i) /\ i \in Written("pr-created", Cand))]_vars

===============================================================================
