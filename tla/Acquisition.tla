------------------------------ MODULE Acquisition ------------------------------
(******************************************************************************)
(* The acquisition core of Media Finder: what happens between the browser's   *)
(* "submit this release" and the row that says the download client took it.   *)
(*                                                                            *)
(* Every control request runs in a worker thread of one server process, so    *)
(* any number of submit() and reconcile() calls interleave.  They share the   *)
(* in-memory cache of release tokens, the acquisitions table (SQLite, one     *)
(* writer at a time) and the external download client, which keeps running    *)
(* when the server does not.  A call of submit() is identified with the UUID  *)
(* it draws: call c can file the acquisition c and no other.                  *)
(******************************************************************************)

CONSTANTS
    Calls,        \* executions of AcquisitionCommands.submit, each with its uuid4
    Reconcilers,  \* threads that serve "reconcile" requests, one after another
    Keys,         \* idempotency keys chosen by browsers
    Tokens,       \* opaque release tokens; secrets.token_urlsafe repeats none
    Modules,      \* download-client module identities a deployment may select
    Faults,       \* what may go wrong in this model, a subset of AllFaults
    None          \* "no value"

AllFaults == {"timeout", "broken", "busy", "restart"}

ASSUME FaultsAssumption == Faults \subseteq AllFaults
ASSUME ThreadsAssumption == Calls \cap Reconcilers = {}
ASSUME NoneAssumption ==
    /\ None \notin Calls
    /\ None \notin Keys
    /\ None \notin Tokens
    /\ None \notin Modules

VARIABLES
    pc,        \* where each thread is
    key,       \* the idempotency key of each call's request
    token,     \* the release token of each call's request
    target,    \* the acquisition each reconciler was asked about
    verdict,   \* the transition a thread has decided on and not yet written
    reply,     \* what the last answer of each thread said
    issued,    \* tokens that searches have handed out
    cache,     \* tokens the release selection cache still holds
    status,    \* acquisitions.status, "absent" while there is no row
    failure,   \* acquisitions.failure_code
    module,    \* acquisitions.download_client_module_id
    selected,  \* the download-client module of the running process
    wire       \* what became of the "add torrent" request of each acquisition

threadVars == <<pc, key, token, target, verdict, reply>>
cacheVars  == <<issued, cache>>
rowVars    == <<status, failure, module>>
vars == <<threadVars, cacheVars, rowVars, selected, wire>>

Threads == Calls \cup Reconcilers

(******************************************************************************)
(* Values.                                                                    *)
(******************************************************************************)

Settled  == {"submitted", "failed"}
Statuses == {"absent", "pending"} \cup Settled

\* Failures before anything was sent, and failures of or after the sending.
\* "download_client_submission_failed" stands for every code of the second
\* kind that submit itself writes (correlation mismatch and rejection too).
UnsentFailures == {"release_search_token_expired", "release_unresolved",
                   "download_client_not_ready"}
SentFailures   == {"download_client_submission_failed",
                   "submission_timeout_not_found", "manual_reconcile_not_found"}
FailureCodes == UnsentFailures \cup SentFailures

Verdicts == {"submitted"} \cup FailureCodes

ASSUME NoneIsNoVerdict == None \notin Verdicts

\* A call walks through submit() in this order.
Waiting   == {"idle", "finding", "preparing", "inspecting", "creating"}
Unposted  == {"taking", "resolving", "posting"}
Submitting == {"taking", "resolving", "posting", "awaiting", "looking", "settling"}
CallStates == Waiting \cup Submitting \cup {"ended", "dead"}
ReconcilerStates == {"idle", "looking", "settling"}

Replies == [id : Calls \cup {None}, status : Statuses]
NoReply == [id |-> None, status |-> "absent"]

Filed(a)  == status[a] # "absent"
Posted(a) == wire[a] # "unsent"
RowsWithKey(k) == {a \in Calls : Filed(a) /\ key[a] = k}

\* The acquisition a thread works on: its own, or the one it reconciles.
Subject(p) == IF p \in Calls THEN p ELSE target[p]

PcTypeOK ==
    /\ pc \in [Threads -> CallStates \cup ReconcilerStates]
    /\ \A c \in Calls : pc[c] \in CallStates
    /\ \A r \in Reconcilers : pc[r] \in ReconcilerStates

AnswerTypeOK ==
    /\ target \in [Reconcilers -> Calls \cup {None}]
    /\ reply \in [Threads -> Replies]

TypeOK ==
    /\ PcTypeOK
    /\ AnswerTypeOK
    /\ key \in [Calls -> Keys \cup {None}]
    /\ token \in [Calls -> Tokens \cup {None}]
    /\ verdict \in [Threads -> Verdicts \cup {None}]
    /\ issued \in SUBSET Tokens
    /\ cache \in SUBSET issued
    /\ status \in [Calls -> Statuses]
    /\ failure \in [Calls -> FailureCodes \cup {None}]
    /\ module \in [Calls -> Modules \cup {None}]
    /\ selected \in Modules
    /\ wire \in [Calls -> {"unsent", "sent", "accepted", "refused", "removed"}]

Init ==
    /\ pc = [p \in Threads |-> "idle"]
    /\ key = [c \in Calls |-> None]
    /\ token = [c \in Calls |-> None]
    /\ target = [r \in Reconcilers |-> None]
    /\ verdict = [p \in Threads |-> None]
    /\ reply = [p \in Threads |-> NoReply]
    /\ issued = {}
    /\ cache = {}
    /\ status = [c \in Calls |-> "absent"]
    /\ failure = [c \in Calls |-> None]
    /\ module = [c \in Calls |-> None]
    /\ selected \in Modules
    /\ wire = [c \in Calls |-> "unsent"]

(******************************************************************************)
(* Moving a thread.                                                           *)
(******************************************************************************)

Goto(p, state) == pc' = [pc EXCEPT ![p] = state]

Decide(p, v) ==
    /\ Goto(p, "settling")
    /\ verdict' = [verdict EXCEPT ![p] = v]

\* The thread answers its request: an answer names an acquisition, or none
\* when the request is refused with an error.
Answer(p, id, s) ==
    /\ Goto(p, IF p \in Calls THEN "ended" ELSE "idle")
    /\ reply' = [reply EXCEPT ![p] = [id |-> id, status |-> s]]
    /\ target' = [r \in Reconcilers |-> IF r = p THEN None ELSE target[r]]

(******************************************************************************)
(* Wrong versions of actions below, used to show that the properties can      *)
(* fail.  Each differs from its action in the way its comment says.           *)
(******************************************************************************)

\* Inserts without looking the key up again.
CreateWithoutLookup(c) ==
    /\ pc[c] = "creating"
    /\ status' = [status EXCEPT ![c] = "pending"]
    /\ module' = [module EXCEPT ![c] = selected]
    /\ Goto(c, "taking")
    /\ UNCHANGED <<key, token, target, verdict, reply, cacheVars, failure, selected, wire>>

\* Reads the token where it should consume it.
TakeLeavesToken(c) ==
    /\ pc[c] = "taking"
    /\ \/ token[c] \in cache /\ Goto(c, "resolving") /\ UNCHANGED verdict
       \/ token[c] \notin cache /\ Decide(c, "release_search_token_expired")
    /\ UNCHANGED <<key, token, target, reply, cacheVars, rowVars, selected, wire>>

\* Takes a timeout for an acceptance.
TimeOutOptimistic(c) ==
    /\ "timeout" \in Faults
    /\ pc[c] = "awaiting"
    /\ Decide(c, "submitted")
    /\ UNCHANGED <<key, token, target, reply, cacheVars, rowVars, selected, wire>>

\* Waits without a timeout for a client that has not answered.
TimeOutNever(c) ==
    /\ "timeout" \in Faults
    /\ pc[c] = "awaiting"
    /\ wire[c] # "sent"
    /\ Goto(c, "looking")
    /\ UNCHANGED <<key, token, target, verdict, reply, cacheVars, rowVars, selected, wire>>

\* Files a broken connection under "the client is not ready".
LoseAnswerAsNotReady(c) ==
    /\ "broken" \in Faults
    /\ pc[c] = "awaiting"
    /\ Decide(c, "download_client_not_ready")
    /\ UNCHANGED <<key, token, target, reply, cacheVars, rowVars, selected, wire>>

\* Looks a row up through a client module that never had it.
ReconcileForeign(r, a) ==
    /\ pc[r] = "idle"
    /\ status[a] = "pending"
    /\ Goto(r, "looking")
    /\ target' = [target EXCEPT ![r] = a]
    /\ UNCHANGED <<key, token, verdict, reply, cacheVars, rowVars, selected, wire>>

\* Fails every pending row at startup.
RestartFailsPending(m) ==
    /\ "restart" \in Faults
    /\ pc' = [p \in Threads |-> IF pc[p] \in {"idle", "ended", "dead"} THEN pc[p]
                                ELSE IF p \in Calls THEN "dead" ELSE "idle"]
    /\ status' = [a \in Calls |-> IF status[a] = "pending" THEN "failed" ELSE status[a]]
    /\ verdict' = [p \in Threads |-> None]
    /\ target' = [r \in Reconcilers |-> None]
    /\ cache' = {}
    /\ selected' = m
    /\ UNCHANGED <<key, token, reply, issued, failure, module, wire>>

(******************************************************************************)
(* The release selection cache.                                               *)
(******************************************************************************)

\* A search hands out fresh tokens.
SearchReleases(t) ==
    /\ t \notin issued
    /\ issued' = issued \cup {t}
    /\ cache' = cache \cup {t}
    /\ UNCHANGED <<threadVars, rowVars, selected, wire>>

\* A token outlives its ten minutes, or newer results push it out.
DropToken(t) ==
    /\ t \in cache
    /\ cache' = cache \ {t}
    /\ UNCHANGED <<threadVars, issued, rowVars, selected, wire>>

(******************************************************************************)
(* submit(), up to the row.                                                   *)
(******************************************************************************)

\* A browser holds tokens it was given; nothing stops two requests from
\* carrying the same token, or the same key.
ReceiveSubmit(c, k, t) ==
    /\ pc[c] = "idle"
    /\ t \in issued
    /\ Goto(c, "finding")
    /\ key' = [key EXCEPT ![c] = k]
    /\ token' = [token EXCEPT ![c] = t]
    /\ UNCHANGED <<target, verdict, reply, cacheVars, rowVars, selected, wire>>

\* The first, unlocked look for an acquisition with this key.
FindByIdempotency(c) ==
    /\ pc[c] = "finding"
    /\ \/ \E a \in RowsWithKey(key[c]) : Answer(c, a, status[a])
       \/ /\ RowsWithKey(key[c]) = {}
          /\ Goto(c, "preparing")
          /\ UNCHANGED <<reply, target>>
    /\ UNCHANGED <<key, token, verdict, cacheVars, rowVars, selected, wire>>

\* Pinned revision, module capabilities and live destinations, which all have
\* to be there; otherwise the request is refused and leaves nothing behind.
CheckPrerequisites(c) ==
    /\ pc[c] = "preparing"
    /\ \/ Answer(c, None, "absent")
       \/ Goto(c, "inspecting") /\ UNCHANGED <<reply, target>>
    /\ UNCHANGED <<key, token, verdict, cacheVars, rowVars, selected, wire>>

\* The token is looked at, not consumed.
InspectToken(c) ==
    /\ pc[c] = "inspecting"
    /\ \/ token[c] \notin cache /\ Answer(c, None, "absent")
       \/ token[c] \in cache /\ Goto(c, "creating") /\ UNCHANGED <<reply, target>>
    /\ UNCHANGED <<key, token, verdict, cacheVars, rowVars, selected, wire>>

\* One write transaction: the key is looked up again under the write lock, and
\* the pending row inserted only if no acquisition has it.
CreatePendingIfAbsent(c) ==
    /\ pc[c] = "creating"
    /\ \/ /\ \E a \in RowsWithKey(key[c]) : Answer(c, a, status[a])
          /\ UNCHANGED <<status, module>>
       \/ /\ RowsWithKey(key[c]) = {}
          /\ status' = [status EXCEPT ![c] = "pending"]
          /\ module' = [module EXCEPT ![c] = selected]
          /\ Goto(c, "taking")
          /\ UNCHANGED <<reply, target>>
    /\ UNCHANGED <<key, token, verdict, cacheVars, failure, selected, wire>>

\* The write lock is not had within the busy timeout: no row, an error.
CreateIsBusy(c) ==
    /\ "busy" \in Faults
    /\ pc[c] = "creating"
    /\ Answer(c, None, "absent")
    /\ UNCHANGED <<key, token, verdict, cacheVars, rowVars, selected, wire>>

(******************************************************************************)
(* submit(), from the row to the client.                                      *)
(******************************************************************************)

\* resolve() consumes the token first ...
TakeToken(c) ==
    /\ pc[c] = "taking"
    /\ \/ /\ token[c] \in cache
          /\ cache' = cache \ {token[c]}
          /\ Goto(c, "resolving")
          /\ UNCHANGED verdict
       \/ /\ token[c] \notin cache
          /\ Decide(c, "release_search_token_expired")
          /\ UNCHANGED cache
    /\ UNCHANGED <<key, token, target, reply, issued, rowVars, selected, wire>>

\* ... and then asks the release provider for the artifact.
ResolveArtifact(c) ==
    /\ pc[c] = "resolving"
    /\ \/ Goto(c, "posting") /\ UNCHANGED verdict
       \/ Decide(c, "release_unresolved")
    /\ UNCHANGED <<key, token, target, reply, cacheVars, rowVars, selected, wire>>

\* The client logs in and reloads its categories; only when the destination is
\* among them does it send the torrent, tagged with the correlation.
PostToClient(c) ==
    /\ pc[c] = "posting"
    /\ \/ /\ wire' = [wire EXCEPT ![c] = "sent"]
          /\ Goto(c, "awaiting")
          /\ UNCHANGED verdict
       \/ /\ Decide(c, "download_client_not_ready")
          /\ UNCHANGED wire
    /\ UNCHANGED <<key, token, target, reply, cacheVars, rowVars, selected>>

\* The answer of the client arrives.
ReadAnswer(c) ==
    /\ pc[c] = "awaiting"
    /\ \/ wire[c] \in {"accepted", "removed"} /\ Decide(c, "submitted")
       \/ wire[c] = "refused" /\ Decide(c, "download_client_submission_failed")
    /\ UNCHANGED <<key, token, target, reply, cacheVars, rowVars, selected, wire>>

\* httpx gives up waiting, whatever has become of the request.
TimeOut(c) ==
    /\ "timeout" \in Faults
    /\ pc[c] = "awaiting"
    /\ Goto(c, "looking")
    /\ UNCHANGED <<key, token, target, verdict, reply, cacheVars, rowVars, selected, wire>>

\* The connection breaks, or the answer is unreadable: any other exception.
LoseAnswer(c) ==
    /\ "broken" \in Faults
    /\ pc[c] = "awaiting"
    /\ Decide(c, "download_client_submission_failed")
    /\ UNCHANGED <<key, token, target, reply, cacheVars, rowVars, selected, wire>>

(******************************************************************************)
(* Reconciliation, and the transition every path ends in.                     *)
(******************************************************************************)

\* Manual reconciliation of a row.  A row of another client module is refused
\* before any lookup; a row that is no longer pending is returned as it is.
Reconcile(r, a) ==
    /\ pc[r] = "idle"
    /\ Filed(a)
    /\ module[a] = selected
    /\ \/ /\ status[a] # "pending"
          /\ Answer(r, a, status[a])
       \/ /\ status[a] = "pending"
          /\ Goto(r, "looking")
          /\ target' = [target EXCEPT ![r] = a]
          /\ UNCHANGED reply
    /\ UNCHANGED <<key, token, verdict, cacheVars, rowVars, selected, wire>>

\* The client lists a task with the exact correlation; only the client of the
\* module that the row names can have it.
Listed(a) == wire[a] = "accepted" /\ module[a] = selected

\* find_by_correlation, after a timeout or on behalf of a user.  An
\* inconclusive answer leaves the acquisition as it was read: pending.
LookUp(p) ==
    /\ pc[p] = "looking"
    /\ LET a == Subject(p) IN
       \/ /\ Answer(p, a, "pending")
          /\ UNCHANGED verdict
       \/ /\ Listed(a)
          /\ Decide(p, "submitted")
          /\ UNCHANGED <<reply, target>>
       \/ /\ ~Listed(a)
          /\ Decide(p, IF p \in Calls THEN "submission_timeout_not_found"
                                      ELSE "manual_reconcile_not_found")
          /\ UNCHANGED <<reply, target>>
    /\ UNCHANGED <<key, token, cacheVars, rowVars, selected, wire>>

\* UPDATE ... WHERE id = a AND status = 'pending'; the answer is what the row
\* says afterwards, whoever wrote it.
Transition(p) ==
    /\ pc[p] = "settling"
    /\ LET a == Subject(p)
           to == IF verdict[p] = "submitted" THEN "submitted" ELSE "failed"
       IN \/ /\ status[a] = "pending"
             /\ status' = [status EXCEPT ![a] = to]
             /\ failure' = [failure EXCEPT ![a] =
                              IF to = "failed" THEN verdict[p] ELSE None]
             /\ Answer(p, a, to)
          \/ /\ status[a] # "pending"
             /\ UNCHANGED <<status, failure>>
             /\ Answer(p, a, status[a])
    /\ verdict' = [verdict EXCEPT ![p] = None]
    /\ UNCHANGED <<key, token, cacheVars, module, selected, wire>>

\* The write lock is not had in time: the verdict is lost, the row pending.
TransitionIsBusy(p) ==
    /\ "busy" \in Faults
    /\ pc[p] = "settling"
    /\ verdict' = [verdict EXCEPT ![p] = None]
    /\ Answer(p, None, "absent")
    /\ UNCHANGED <<key, token, cacheVars, rowVars, selected, wire>>

(******************************************************************************)
(* The world around the threads.                                              *)
(******************************************************************************)

\* The download client handles an add request, however late, even when the
\* thread that sent it is gone.
ClientHandles(a) ==
    /\ wire[a] = "sent"
    /\ \E outcome \in {"accepted", "refused"} : wire' = [wire EXCEPT ![a] = outcome]
    /\ UNCHANGED <<threadVars, cacheVars, rowVars, selected>>

\* The user deletes the task in the download client.
ClientRemoves(a) ==
    /\ wire[a] = "accepted"
    /\ wire' = [wire EXCEPT ![a] = "removed"]
    /\ UNCHANGED <<threadVars, cacheVars, rowVars, selected>>

\* The process dies and comes back, perhaps with another client module built
\* in.  Threads and cache are gone, the table and the client are not.
Restart(m) ==
    /\ "restart" \in Faults
    /\ pc' = [p \in Threads |-> IF pc[p] \in {"idle", "ended", "dead"} THEN pc[p]
                                ELSE IF p \in Calls THEN "dead" ELSE "idle"]
    /\ verdict' = [p \in Threads |-> None]
    /\ target' = [r \in Reconcilers |-> None]
    /\ cache' = {}
    /\ selected' = m
    /\ UNCHANGED <<key, token, reply, issued, rowVars, wire>>

(******************************************************************************)
(* The specification.                                                         *)
(******************************************************************************)

\* A thread that meets no fault but a client that does not answer in time.
SubmitOn(c) ==
    \/ FindByIdempotency(c) \/ CheckPrerequisites(c) \/ InspectToken(c)
    \/ CreatePendingIfAbsent(c)
    \/ TakeToken(c) \/ ResolveArtifact(c) \/ PostToClient(c)
    \/ ReadAnswer(c) \/ TimeOut(c)

SubmitStep(c) == SubmitOn(c) \/ CreateIsBusy(c) \/ LoseAnswer(c)

SettleStep(p) == LookUp(p) \/ Transition(p) \/ TransitionIsBusy(p)

Next ==
    \/ \E t \in Tokens : SearchReleases(t) \/ DropToken(t)
    \/ \E c \in Calls, k \in Keys, t \in Tokens : ReceiveSubmit(c, k, t)
    \/ \E c \in Calls : SubmitStep(c)
    \/ \E r \in Reconcilers, a \in Calls : Reconcile(r, a)
    \/ \E p \in Threads : SettleStep(p)
    \/ \E a \in Calls : ClientHandles(a) \/ ClientRemoves(a)
    \/ \E m \in Modules : Restart(m)

Spec == Init /\ [][Next]_vars

\* A started thread runs on without the help of a fault: the executor schedules
\* it, and a client that does not answer is given up on.  Users, searches, the
\* client and crashes owe nothing.
ThreadFairness ==
    /\ \A c \in Calls : WF_vars(SubmitOn(c))
    /\ \A p \in Threads : WF_vars(LookUp(p) \/ Transition(p))

FairSpec == Spec /\ ThreadFairness

(******************************************************************************)
(* Safety.                                                                    *)
(******************************************************************************)

\* However many requests race with one idempotency key, at most one of them
\* files an acquisition (create_pending_if_absent and its unique key).
OneAcquisitionPerKey ==
    \A a, b \in Calls : Filed(a) /\ Filed(b) /\ key[a] = key[b] => a = b

\* "At most one client task is created": one key sends at most one request to
\* the client, across duplicates, retries and restarts.
OneSubmissionPerKey ==
    \A a, b \in Calls : Posted(a) /\ Posted(b) /\ key[a] = key[b] => a = b

\* A release token is one-use: whatever keys the requests carry, one token is
\* resolved and sent to the client at most once (take() under the cache lock).
OneSubmissionPerToken ==
    \A a, b \in Calls : Posted(a) /\ Posted(b) /\ token[a] = token[b] => a = b

\* The row is written before the client is called, so a crash at any moment
\* leaves no task at the client that no acquisition knows.
NoTaskWithoutAcquisition == \A a \in Calls : Posted(a) => Filed(a)

\* An acquisition says "submitted" only of a task the client really accepted,
\* whichever thread drew that conclusion.
SubmittedWasAccepted ==
    \A a \in Calls : status[a] = "submitted" => wire[a] \in {"accepted", "removed"}

\* A failure that blames the token, the release or the destination is
\* definitive: nothing was sent, so a fresh attempt cannot duplicate a task.
UnsentFailureSentNothing ==
    \A a \in Calls : failure[a] \in UnsentFailures => ~Posted(a)

\* All answers for one key that name an acquisition name the same one.
AnswersAgree ==
    \A c, d \in Calls :
        /\ reply[c].id # None
        /\ reply[d].id # None
        /\ key[c] = key[d]
        => reply[c].id = reply[d].id

\* An answer that reports a settled acquisition stays true: a thread that
\* lost the race for the row reports the winner's outcome, not its own.
SettledAnswersHold ==
    \A p \in Threads :
        reply[p].status \in Settled => status[reply[p].id] = reply[p].status

(******************************************************************************)
(* The inductive invariant the safety properties follow from.                 *)
(******************************************************************************)

\* A call that has started carries a key and a token some search issued.
RequestsKnown ==
    \A c \in Calls : pc[c] # "idle" => key[c] \in Keys /\ token[c] \in issued

\* The row of a call exists from "creating" on, and nothing is sent without it.
RowsFollowThreads ==
    \A c \in Calls :
        /\ pc[c] \in Waiting => ~Filed(c)
        /\ pc[c] \in Submitting => Filed(c)
        /\ pc[c] \in Waiting \cup Unposted => ~Posted(c)
        /\ Posted(c) => Filed(c)

\* A token belongs to the one call that took it.
Holds(c) == pc[c] \in {"resolving", "posting"} \/ Posted(c)

TokensTakenOnce ==
    /\ \A c \in Calls : Holds(c) => token[c] \notin cache
    /\ \A a, b \in Calls : Holds(a) /\ Holds(b) /\ token[a] = token[b] => a = b

\* A reconciler works on a row of the module that is selected.
ReconcilersOnOwnRows ==
    \A r \in Reconcilers :
        pc[r] # "idle" => /\ target[r] \in Calls
                          /\ Filed(target[r])
                          /\ pc[r] = "looking" => module[target[r]] = selected

\* What a thread has decided is justified by what it saw.
VerdictsJustified ==
    \A p \in Threads :
        pc[p] = "settling" =>
            /\ verdict[p] # None
            /\ verdict[p] = "submitted" => wire[Subject(p)] \in {"accepted", "removed"}
            /\ verdict[p] \in UnsentFailures => p \in Calls /\ ~Posted(p)

\* A definitive failure was written by the call itself, as its last act.
UnsentFailuresAreOver ==
    \A a \in Calls :
        failure[a] \in UnsentFailures => ~Posted(a) /\ pc[a] \in {"ended", "dead"}

\* An answer names a row with the key that was asked for.
AnswersNameRows ==
    /\ \A p \in Threads : reply[p].id # None => Filed(reply[p].id)
    /\ \A p \in Threads : reply[p].id = None => reply[p].status = "absent"
    /\ \A c \in Calls :
           reply[c].id # None => pc[c] = "ended" /\ key[reply[c].id] = key[c]

Inductive ==
    /\ TypeOK
    /\ RequestsKnown
    /\ RowsFollowThreads
    /\ OneAcquisitionPerKey
    /\ TokensTakenOnce
    /\ ReconcilersOnOwnRows
    /\ VerdictsJustified
    /\ SubmittedWasAccepted
    /\ UnsentFailuresAreOver
    /\ AnswersNameRows
    /\ SettledAnswersHold

(******************************************************************************)
(* What a step may never do.                                                  *)
(******************************************************************************)

\* A settled row is history: no late answer, lookup or restart changes it.
SettledIsFinal ==
    [][\A a \in Calls : status[a] \in Settled =>
           status'[a] = status[a] /\ failure'[a] = failure[a]]_vars

Abandoned(a) == status[a] = "pending" /\ pc[a] \in {"ended", "dead"}

\* A pending row whose submit() is over (crash, inconclusive lookup, database
\* error) changes only by the verdict of a reconciliation a user asked for.
AbandonedChangesOnlyByReconcile ==
    [][\A a \in Calls :
           Abandoned(a) /\ status'[a] # status[a] =>
               \E r \in Reconcilers : target[r] = a /\ pc[r] = "settling"]_vars

Condemned(a) ==
    \E p \in Threads : /\ pc[p] = "settling"
                       /\ Subject(p) = a
                       /\ verdict[p] # "submitted"

\* An abandoned acquisition whose task the client has.
Recoverable(a) == Abandoned(a) /\ wire[a] = "accepted" /\ ~Condemned(a)

\* As long as the client keeps that task, no reconciliation condemns the
\* acquisition: not after restarts, not with another client module built in.
RecoverableStaysRecoverable ==
    [][\A a \in Calls : Recoverable(a) =>
           \/ Recoverable(a)'
           \/ status'[a] = "submitted"
           \/ wire'[a] = "removed"]_vars

(******************************************************************************)
(* Liveness.                                                                  *)
(******************************************************************************)

\* Every submit() that was received answers, unless its process dies.
SubmitAnswers ==
    \A c \in Calls : pc[c] = "finding" ~> pc[c] \in {"ended", "dead"}

(******************************************************************************)
(* What the documents promise and the code does not keep.                     *)
(******************************************************************************)

\* "WHEN qBittorrent accepts a selected artifact THEN ... the Acquisition
\* becomes submitted": when its submit() is over, an acquisition whose task the
\* client has is not failed.
AcceptedNeverFails ==
    \A a \in Calls : wire[a] = "accepted" /\ pc[a] = "ended" => status[a] # "failed"

(******************************************************************************)
(* Refinement.                                                                *)
(******************************************************************************)

\* The ledger is the table: the key of an entry counts from its insertion on,
\* and a request is sent when it leaves for the client.
Ledger == INSTANCE AcquisitionLedger WITH
    entry <- status,
    owner <- [c \in Calls |-> IF Filed(c) THEN key[c] ELSE None],
    sent  <- {c \in Calls : Posted(c)}

\* Threads, caches, crashes and lost answers implement the ledger.
ImplementsLedger == Ledger!Spec

================================================================================
