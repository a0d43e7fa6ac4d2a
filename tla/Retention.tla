--------------------------------- MODULE Retention ---------------------------------
(******************************************************************************)
(* Retention of provider metadata: the maintenance loop of the server, its    *)
(* runs (list, plan outside any transaction, apply in one transaction with a  *)
(* savepoint per revision, record the completion), and the exports that other *)
(* tools read while revisions expire and are refreshed and purged.            *)
(*                                                                            *)
(* Time is kept as ages: of every revision, of the last completed run, of the *)
(* run under way.  An age stops where it no longer decides anything.  The     *)
(* wall clock is not set back.  One unit is the hour the loop sleeps.         *)
(******************************************************************************)
EXTENDS Naturals, FiniteSets

CONSTANTS
    Items,         \* media items, each of a provider of its own
    Ids,           \* row ids of metadata_revisions
    Readers,       \* export requests
    None,          \* "no value"
    RefreshAfter,  \* the age at which a policy wants a refresh
    ExpiresAfter,  \* the age at which it wants a purge
    Day,           \* the daily cadence
    Faults         \* what can go wrong, see Trouble

ASSUME NoneAssumption == None \notin Items \cup Ids \cup Nat
ASSUME TimeAssumption ==
    /\ RefreshAfter \in Nat /\ ExpiresAfter \in Nat /\ Day \in Nat
    /\ 1 < RefreshAfter /\ RefreshAfter < ExpiresAfter
    /\ 0 < Day
ASSUME FaultsAssumption ==
    Faults \subseteq {"policy", "provider", "savepoint", "database", "stop"}
ASSUME IdsAssumption == IsFiniteSet(Ids) /\ IsFiniteSet(Items)

VARIABLES
    owner,       \* the item of each revision, None before its row exists
    age,         \* now - created_at
    kept,        \* revisions with their payload; the others have expired_at
    status,      \* maintenance_status
    refreshOf,   \* the revision a revision was made to refresh
    current,     \* current_revision_id of each item
    phase,       \* where the maintenance loop is
    completed,   \* now - last_completed_at, None before the first completion
    started,     \* now - the time the runner read
    listed,      \* now - the time the service read
    plan,        \* what the run wants to do with each revision
    reading,     \* the revision each reader has read, with or without payload
    served,      \* the revision whose metadata each reader was given
    settled      \* nothing goes wrong any more

rowVars    == <<owner, age, kept, status, refreshOf, current>>
loopVars   == <<phase, completed, started, listed, plan>>
readerVars == <<reading, served>>
vars == <<rowVars, loopVars, readerVars, settled>>

OldAge == ExpiresAfter + Day
Kinds == {"none", "purge", "refresh", "failed"}

TypeOK ==
    /\ owner \in [Ids -> Items \cup {None}]
    /\ age \in [Ids -> 0 .. OldAge]
    /\ kept \in SUBSET Ids
    /\ status \in [Ids -> {"none", "refreshed", "failed", "purged"}]
    /\ refreshOf \in [Ids -> Ids \cup {None}]
    /\ current \in [Items -> Ids \cup {None}]
    /\ phase \in {"down", "startup", "asleep", "awake", "list", "apply", "record"}
    /\ completed \in (0 .. Day) \cup {None}
    /\ started \in 0 .. Day
    /\ listed \in 0 .. OldAge
    /\ plan \in [Ids -> Kinds]
    /\ reading \in [Readers -> [id : Ids, payload : BOOLEAN] \cup {None}]
    /\ served \in [Readers -> Ids \cup {None}]
    /\ settled \in BOOLEAN

NoPlan == [r \in Ids |-> "none"]

Init ==
    /\ owner = [r \in Ids |-> None]
    /\ age = [r \in Ids |-> 0]
    /\ kept = {}
    /\ status = [r \in Ids |-> "none"]
    /\ refreshOf = [r \in Ids |-> None]
    /\ current = [i \in Items |-> None]
    /\ phase = "down"
    /\ completed = None
    /\ started = 0
    /\ listed = 0
    /\ plan = NoPlan
    /\ reading = [q \in Readers |-> None]
    /\ served = [q \in Readers |-> None]
    /\ settled = FALSE

Written == {r \in Ids : owner[r] # None}
Expired(r) == age[r] >= ExpiresAfter
Due(r) == age[r] >= RefreshAfter

\* Something goes wrong: a policy is missing or raises ("policy"), a provider
\* is missing or raises or returns something invalid ("provider"), one
\* revision's savepoint fails ("savepoint"), a transaction fails ("database"),
\* the process ends ("stop").
Trouble(fault) == fault \in Faults /\ ~settled

Older(a, limit) == IF a < limit THEN a + 1 ELSE limit

(******************************************************************************)
(* Wrong versions of actions below, used to show that the properties can      *)
(* fail.  Each differs in the way its comment says.                           *)
(******************************************************************************)

\* Answers from what was read, without looking at the clock.
AnswerLate(q) ==
    /\ reading[q] # None
    /\ reading' = [reading EXCEPT ![q] = None]
    /\ served' = [served EXCEPT ![q] = IF reading[q].payload THEN reading[q].id ELSE None]
    /\ UNCHANGED <<rowVars, loopVars, settled>>

\* A transaction that fails counts as a completed run.
ApplyFailsSilently ==
    /\ phase = "apply"
    /\ Trouble("database")
    /\ phase' = "record"
    /\ plan' = NoPlan
    /\ UNCHANGED <<rowVars, readerVars, settled, completed, started, listed>>

\* Goes back to sleep though a run is due.
CheckLazily ==
    /\ phase = "awake"
    /\ phase' = "asleep"
    /\ UNCHANGED <<rowVars, readerVars, settled, completed, started, listed, plan>>

\* Does not ask again about a revision that failed once.
PlannedOnce(r, orphans, offline) ==
    CASE r \notin kept -> "none"
      [] r \in kept /\ status[r] = "failed" -> "none"
      [] r \in kept /\ status[r] # "failed" /\ owner[r] \in orphans -> "failed"
      [] r \in kept /\ status[r] # "failed" /\ owner[r] \notin orphans /\ Expired(r) -> "purge"
      [] r \in kept /\ status[r] = "none" /\ owner[r] \notin orphans /\ ~Expired(r) /\ Due(r) ->
             IF owner[r] \in offline THEN "failed" ELSE "refresh"
      [] OTHER -> "none"

(******************************************************************************)
(* Time, faults, and the catalog.                                             *)
(******************************************************************************)

\* An hour passes, however slow the loop is meanwhile.
Tick ==
    /\ age' = [r \in Ids |-> IF owner[r] = None THEN 0 ELSE Older(age[r], OldAge)]
    /\ completed' = IF completed = None THEN None ELSE Older(completed, Day)
    /\ started' = Older(started, Day)
    /\ listed' = Older(listed, OldAge)
    /\ phase' = IF phase = "asleep" THEN "awake" ELSE phase
    /\ UNCHANGED <<owner, kept, status, refreshOf, current, plan, readerVars, settled>>

Settle ==
    /\ ~settled
    /\ settled' = TRUE
    /\ UNCHANGED <<rowVars, loopVars, readerVars>>

\* A work is selected: its dates count from before the provider was asked.
Select(i, r, late) ==
    /\ phase # "down"
    /\ current[i] = None
    /\ r \notin Written
    /\ owner' = [owner EXCEPT ![r] = i]
    /\ age' = [age EXCEPT ![r] = late]
    /\ kept' = kept \cup {r}
    /\ current' = [current EXCEPT ![i] = r]
    /\ UNCHANGED <<status, refreshOf, loopVars, readerVars, settled>>

(******************************************************************************)
(* The maintenance loop.                                                      *)
(******************************************************************************)

Start ==
    /\ phase = "down"
    /\ phase' = "startup"
    /\ UNCHANGED <<rowVars, readerVars, settled, completed, started, listed, plan>>

\* Requests and the run under way end with the process.
Stop ==
    /\ Trouble("stop")
    /\ phase # "down"
    /\ phase' = "down"
    /\ plan' = NoPlan
    /\ reading' = [q \in Readers |-> None]
    /\ served' = [q \in Readers |-> None]
    /\ UNCHANGED <<rowVars, settled, completed, started, listed>>

\* run_at_startup, or run_if_daily_due when it is due: the runner reads the clock.
Begin ==
    /\ \/ phase = "startup"
       \/ phase = "awake" /\ completed \in {None, Day}
    /\ phase' = "list"
    /\ started' = 0
    /\ UNCHANGED <<rowVars, readerVars, settled, completed, listed, plan>>

\* Not due yet.
Check ==
    /\ phase = "awake"
    /\ completed \notin {None, Day}
    /\ phase' = "asleep"
    /\ UNCHANGED <<rowVars, readerVars, settled, completed, started, listed, plan>>

\* What is planned for a revision, when these items have no policy, and those
\* no provider.  A missing policy, too, becomes a failure of the revision.
Planned(r, orphans, offline) ==
    CASE r \notin kept -> "none"
      [] r \in kept /\ owner[r] \in orphans -> "failed"
      [] r \in kept /\ owner[r] \notin orphans /\ Expired(r) -> "purge"
      [] r \in kept /\ owner[r] \notin orphans /\ ~Expired(r) /\ Due(r) ->
             IF status[r] = "refreshed" THEN "none"
             ELSE IF owner[r] \in offline THEN "failed" ELSE "refresh"
      [] OTHER -> "none"

\* The service reads the clock and the revisions that are not purged, and asks
\* policies and providers; nothing is locked meanwhile.
List ==
    /\ phase = "list"
    /\ phase' = "apply"
    /\ listed' = 0
    /\ \E orphans \in SUBSET Items, offline \in SUBSET Items :
           /\ orphans # {} => Trouble("policy")
           /\ offline # {} => Trouble("provider")
           /\ plan' = [r \in Ids |-> Planned(r, orphans, offline)]
    /\ UNCHANGED <<rowVars, readerVars, settled, completed, started>>

Wanted(kind) == {r \in Ids : plan[r] = kind}

\* The refreshes that find their revision still current.
Timely == {r \in Wanted("refresh") : current[owner[r]] = r}

\* Bound: without row ids for all of them, refreshes fail.
Full == Cardinality(Ids \ Written) < Cardinality(Timely)

\* One savepoint per revision.  A refresh appends a revision dated when the
\* service read the clock, makes it current, and marks the old one.
Apply ==
    /\ phase = "apply"
    /\ phase' = "record"
    /\ \E unlucky \in SUBSET Ids :
           /\ unlucky \subseteq Wanted("purge") \cup Timely
           /\ Wanted("purge") \cap unlucky # {} => Trouble("savepoint")
           /\ Timely \cap unlucky # {} => Trouble("savepoint") \/ Full
           /\ LET purged == Wanted("purge") \ unlucky
                  refreshed == Timely \ unlucky
                  failed == {r \in Ids : plan[r] # "none"} \ (purged \cup refreshed)
              IN \E heir \in [refreshed -> Ids \ Written] :
                 /\ \A r, s \in refreshed : heir[r] = heir[s] => r = s
                 /\ LET Old(s) == {r \in refreshed : heir[r] = s} IN
                    /\ owner' = [s \in Ids |->
                           IF Old(s) = {} THEN owner[s] ELSE owner[CHOOSE r \in Old(s) : TRUE]]
                    /\ refreshOf' = [s \in Ids |->
                           IF Old(s) = {} THEN refreshOf[s] ELSE CHOOSE r \in Old(s) : TRUE]
                    /\ age' = [s \in Ids |-> IF Old(s) = {} THEN age[s] ELSE listed]
                    /\ kept' = (kept \ purged) \cup {s \in Ids : Old(s) # {}}
                 /\ current' = [i \in Items |->
                        IF current[i] \in refreshed THEN heir[current[i]] ELSE current[i]]
                 /\ status' = [r \in Ids |->
                        IF r \in purged THEN "purged"
                        ELSE IF r \in refreshed THEN "refreshed"
                        ELSE IF r \in failed THEN "failed" ELSE status[r]]
    /\ plan' = NoPlan
    /\ UNCHANGED <<readerVars, settled, completed, started, listed>>

\* The transaction fails, and nothing is recorded; the loop goes on.
ApplyFails ==
    /\ phase \in {"list", "apply"}
    /\ Trouble("database")
    /\ phase' = "asleep"
    /\ plan' = NoPlan
    /\ UNCHANGED <<rowVars, readerVars, settled, completed, started, listed>>

Record ==
    /\ phase = "record"
    /\ phase' = "asleep"
    /\ completed' = started
    /\ UNCHANGED <<rowVars, readerVars, settled, started, listed, plan>>

RecordFails ==
    /\ phase = "record"
    /\ Trouble("database")
    /\ phase' = "asleep"
    /\ UNCHANGED <<rowVars, readerVars, settled, completed, started, listed, plan>>

(******************************************************************************)
(* Exports of the current revision of an item, or of the one an acquisition   *)
(* pinned, which may be any that was current once.                            *)
(******************************************************************************)

Read(q, r) ==
    /\ phase # "down"
    /\ reading[q] = None
    /\ r \in Written
    /\ reading' = [reading EXCEPT ![q] = [id |-> r, payload |-> r \in kept]]
    /\ served' = [served EXCEPT ![q] = None]
    /\ UNCHANGED <<rowVars, loopVars, settled>>

\* Only now the clock is read.
Answer(q) ==
    /\ reading[q] # None
    /\ reading' = [reading EXCEPT ![q] = None]
    /\ served' = [served EXCEPT ![q] =
           IF reading[q].payload /\ ~Expired(reading[q].id) THEN reading[q].id ELSE None]
    /\ UNCHANGED <<rowVars, loopVars, settled>>

Maintenance ==
    Begin \/ Check \/ List \/ Apply \/ ApplyFails \/ Record \/ RecordFails

Next ==
    \/ Tick \/ Settle \/ Start \/ Stop
    \/ Maintenance
    \/ \E i \in Items, r \in Ids, late \in 0 .. 1 : Select(i, r, late)
    \/ \E q \in Readers, r \in Ids : Read(q, r)
    \/ \E q \in Readers : Answer(q)

Spec == Init /\ [][Next]_vars

\* Time passes, the server is started again when it ended, its loop goes on,
\* and there is a last fault.
Fairness ==
    /\ WF_vars(Tick)
    /\ WF_vars(Start)
    /\ WF_vars(Maintenance)
    /\ WF_vars(Settle)

FairSpec == Spec /\ Fairness

(******************************************************************************)
(* Properties.                                                                *)
(******************************************************************************)

\* No export gives out metadata that has expired, or that maintenance purged
\* while the export was under way.
ServedInTime ==
    [][\A q \in Readers : served'[q] # None /\ reading[q] # None =>
           served'[q] \in kept /\ ~Expired(served'[q])]_vars

\* A recorded completion says the truth: whatever had expired when that run
\* started is gone or has failed, though providers fail, transactions roll back
\* and the process ends at any point.
GoneOrFailed(r, since) == age[r] < ExpiresAfter + since \/ status[r] = "failed"

Swept == completed \notin {None, Day} => \A r \in kept : GoneOrFailed(r, completed)

\* The loop skips a run only when all that expired a day ago is gone or has
\* failed, restarts in any step included.
SkipsOnlyWhenSwept ==
    [][phase = "awake" /\ phase' = "asleep" => \A r \in kept : GoneOrFailed(r, Day)]_vars

\* However runs fail in part, a revision is refreshed once, and nothing that
\* was refreshed is current.
RefreshedOnce ==
    \A r, s \in Ids : refreshOf[r] # None =>
        /\ refreshOf[r] = refreshOf[s] => r = s
        /\ \A i \in Items : current[i] # refreshOf[r]

\* A revision that was refreshed is left alone until it expires: its provider
\* is not asked again.
LeftAlone ==
    \A r, s \in Ids : refreshOf[s] = r => plan[r] # "refresh"

\* What expires is purged in the end.
EventuallyPurged == \A r \in Ids : r \in kept /\ Expired(r) ~> r \notin kept

(******************************************************************************)
(* The inductive invariant.                                                   *)
(******************************************************************************)

\* Rows belong together, and only what has expired is purged.
RowsAgree ==
    /\ kept \subseteq Written
    /\ \A r \in Written : r \notin kept => Expired(r)
    /\ \A i \in Items : current[i] # None => owner[current[i]] = i
    /\ \A r \in Ids : refreshOf[r] # None => r \in Written /\ refreshOf[r] \in Written
    /\ \A q \in Readers : reading[q] # None => reading[q].id \in Written /\ served[q] = None

\* A plan is for revisions that are still as they were when it was made.
PlanIsSound ==
    /\ phase # "apply" => plan = NoPlan
    /\ \A r \in Ids : plan[r] # "none" => r \in kept
    /\ \A r \in Ids : plan[r] = "purge" => Expired(r)

Running == phase \in {"list", "apply", "record"}

\* The times a run has read follow each other, and the last completion.
TimesInOrder ==
    /\ Running /\ completed \notin {None, Day} => started <= completed
    /\ phase \in {"apply", "record"} /\ started < Day => listed <= started

\* What had expired when the run read the clock is planned to go, and then gone.
SweptSoFar ==
    /\ phase = "apply" => \A r \in kept : plan[r] \in {"purge", "failed"} \/ age[r] < ExpiresAfter + listed
    /\ phase = "record" => \A r \in kept : GoneOrFailed(r, listed)

Inductive ==
    /\ TypeOK
    /\ RowsAgree
    /\ RefreshedOnce
    /\ PlanIsSound
    /\ TimesInOrder
    /\ SweptSoFar
    /\ Swept
================================================================================
