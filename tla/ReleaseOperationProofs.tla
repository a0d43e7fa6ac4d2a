------------------------ MODULE ReleaseOperationProofs ------------------------
(***************************************************************************)
(* Proofs about the release controller, for every set of versions, every   *)
(* number of candidates, every number of other commits, lost answers and   *)
(* ended runs, and everything people may do meanwhile.                     *)
(*                                                                         *)
(* The controller starts every run knowing nothing, so what it releases    *)
(* rests on two things: what it has written or found at the host stays     *)
(* true there (HostIsSound, and Grows of every step), and at each place of *)
(* a run what it holds in hand is of its own candidate and has passed what *)
(* the places before asked of it (IsSound).  A run in hand is compared     *)
(* with the host by predicates of a record r, so that a step that only     *)
(* looks is proved by what has to hold of the run it leaves, of the same   *)
(* host.                                                                   *)
(***************************************************************************)
EXTENDS ReleaseOperation, FiniteSetTheorems, SequenceTheorems, WellFoundedInduction, TLAPS

(***************************************************************************)
(* The invariant.                                                          *)
(***************************************************************************)

Finding == {"resolve", "fresh", "live", "prepare", "upload"}
Exposing == {"protection", "base", "expose", "pull request"}
Deciding == {"gates", "checks", "main", "refresh", "reproduce", "gates again",
             "protection again", "merge"}
Checked == Deciding \ {"gates", "checks"}
Publishing == {"tag", "release", "read back", "publish", "check tag", "publication"}
Finishing == {"merged", "tree", "edge"} \cup Publishing
Places == {"idle", "conflict", "adopt", "stale", "close", "pr-created"}
          \cup Finding \cup Exposing \cup Deciding \cup Finishing

Kinds == {"stale-base", "pr-created", "merged"}
Results == {"none", "passed", "failed"}
Commit == [pr : Nat, edge : Results, exact : BOOLEAN]
PullRequest == [cand : Candidates, state : {"open", "closed", "merged"},
                disputed : BOOLEAN, checks : Results]
Checkpoint == [kind : Kinds, cand : Candidates, pr : Nat]
Job == [at : Places, version : Versions \cup {None}, attempt : Nat, sha : Nat, pr : Nat,
        merged : Nat, tries : Nat, tagged : BOOLEAN, resolving : BOOLEAN]

HostTypes ==
    /\ main \in Seq(Commit)
    /\ prep \in [Candidates -> Nat \cup {None}]
    /\ records \in Seq(Checkpoint)
    /\ branch \in [Candidates -> {"none", "prepared", "edited"}]
    /\ prs \in Seq(PullRequest)
    /\ protected \in BOOLEAN
    /\ release \in [Versions -> [state : {"none", "draft", "published"}, target : Nat]]
    /\ tag \in [Versions -> Nat]
    /\ image \in [Versions -> Results]
    /\ done \subseteq Versions
    /\ mishaps \in Nat /\ meddled \in Nat

\* A commit of main is of one merged pull request, and every merged one is there.
MergesAreOnMain ==
    /\ \A n \in DOMAIN main : main[n].pr # 0 =>
           main[n].pr \in DOMAIN prs /\ prs[main[n].pr].state = "merged"
    /\ \A m, n \in DOMAIN main : main[m].pr = main[n].pr /\ main[m].pr # 0 => m = n
    /\ \A i \in DOMAIN prs : prs[i].state = "merged" => \E n \in DOMAIN main : main[n].pr = i

\* Checkpoints name pull requests of their candidate, and say what is so.
RecordsAreTrue ==
    \A k \in DOMAIN records :
        /\ records[k].pr \in DOMAIN prs
        /\ prs[records[k].pr].cand = records[k].cand
        /\ records[k].kind = "merged" => prs[records[k].pr].state = "merged"

\* A recorded pull request and the disposition of its attempt are of one candidate:
\* the two are compared by the number of the attempt, and could be of two versions.
DispositionsAreOwn ==
    \A k, l \in DOMAIN records :
        /\ records[k].kind = "pr-created" /\ records[l].kind = "stale-base"
        /\ Attempt(records[k].cand) = Attempt(records[l].cand)
        => records[k].cand = records[l].cand

PreparationsAreOfMain == \A c \in Candidates : prep[c] # None => prep[c] <= Tip

\* What is released is a commit of main that has gone through all of it.
ReleasesAreOfMain ==
    \A v \in Versions : release[v].state # "none" =>
        LET commit == main[release[v].target]
        IN  /\ release[v].target \in DOMAIN main
            /\ commit.pr # 0 /\ Version(prs[commit.pr].cand) = v
            /\ commit.exact
            /\ commit.edge = "passed"

\* What holds at the host whether a controller runs or not.
HostIsSound ==
    /\ HostTypes
    /\ MergesAreOnMain
    /\ RecordsAreTrue
    /\ RecordedOnce
    /\ DispositionsAreOwn
    /\ PreparationsAreOfMain
    /\ ReleasesAreOfMain

\* A run r knows its version, its candidate and what that was prepared on.
CandOf(r) == <<r.version, r.attempt>>

IsNamed(r) ==
    /\ r \in Job
    /\ r.at # "idle" => r.version \in Versions
    /\ r.at \notin {"idle", "resolve", "fresh"} => r.attempt \in 1..MaxAttempts
    /\ r.at \notin {"idle", "resolve", "fresh", "prepare", "upload"} => prep[CandOf(r)] # None
    /\ r.sha <= Tip

\* A candidate is prepared once, and given up only when main has moved on.
Prepares(r) ==
    /\ r.at \in {"prepare", "upload"} => prep[CandOf(r)] = None
    /\ r.at = "fresh" => \A a \in 1..MaxAttempts : prep[<<r.version, a>>] = None
    /\ r.at = "live" \/ (r.at \in {"stale", "close"} /\ r.resolving) =>
           \A a \in 1..MaxAttempts : a > r.attempt => prep[<<r.version, a>>] = None
    /\ r.at \in {"live", "stale", "close", "refresh"} => prep[CandOf(r)] < Tip

\* The pull request of the run is of its candidate.
HasItsPullRequest(r) ==
    /\ r.at \in {"idle"} \cup Finding \cup Exposing => r.pr = 0
    /\ r.at \in {"stale", "close", "pr-created"} \cup Deciding \cup Finishing => r.pr # 0
    /\ r.pr # 0 => r.pr \in DOMAIN prs /\ prs[r.pr].cand = CandOf(r)
    /\ r.at \in {"conflict", "adopt"} /\ r.pr # 0 => prs[r.pr].state = "merged"

\* No other candidate has a checkpoint of this kind for an attempt of this number.
OnlyOf(kind, cand) ==
    \A k \in DOMAIN records :
        records[k].kind = kind /\ Attempt(records[k].cand) = Attempt(cand) => records[k].cand = cand

\* What the run decides, it decides about what it has recorded and checked.
HasChecked(r) ==
    /\ r.at \in Exposing \cup {"pr-created"} =>
           Recorded("pr-created", r.attempt) = {} /\ Recorded("stale-base", r.attempt) = {}
    /\ r.at \in Deciding =>
           prs[r.pr].state = "merged" \/ r.pr \in Written("pr-created", CandOf(r))
    /\ r.at \in Checked => prs[r.pr].checks = "passed"
    /\ r.at = "stale" => OnlyOf("pr-created", CandOf(r))
    /\ r.at = "close" => Recorded("stale-base", r.attempt) # {}

\* The commit the run releases.
HasItsMerge(r) ==
    /\ r.at \in Finishing => r.merged \in DOMAIN main /\ main[r.merged].pr = r.pr
    /\ r.at \in {"edge"} \cup Publishing => main[r.merged].exact
    /\ r.at \in Publishing => main[r.merged].edge = "passed"
    /\ r.at \in Publishing \ {"tag", "release"} => release[r.version].state # "none"

IsSound(r) ==
    /\ IsNamed(r)
    /\ Prepares(r)
    /\ HasItsPullRequest(r)
    /\ HasChecked(r)
    /\ HasItsMerge(r)

\* Without meddling, what the run has found closed stays closed.
IsAlone(r) ==
    meddled = 0 =>
        /\ \A i, j \in OpenPrs : i = j
        /\ r.at \in {"adopt", "protection", "base", "expose"} => OpenPrs = {}
        /\ r.at = "pull request" => OpenPrs \subseteq PrsOf(CandOf(r))

Inductive == HostIsSound /\ IsSound(job) /\ IsAlone(job)

(***************************************************************************)
(* Operators.                                                              *)
(***************************************************************************)

\* A finite set of numbers has a greatest: the one with nothing above it.
LEMMA MaxIsGreatest ==
  ASSUME NEW S \in SUBSET Nat, IsFiniteSet(S), S # {}
  PROVE  Max(S) \in S /\ \A x \in S : x <= Max(S)
<1> DEFINE Above(x) == {y \in S : y > x}
           T == {Above(x) : x \in S}
<1>1. IsWellFoundedOn(StrictSubsetOrdering(S), SUBSET S)
  BY FS_StrictSubsetOrderingWellFounded, FS_FiniteSubsetsOfFinite
<1>2. T \subseteq SUBSET S /\ T # {}
  OBVIOUS
<1>3. PICK t \in T : \A u \in T : ~(<<u, t>> \in StrictSubsetOrdering(S))
  <2> HIDE DEF T
  <2> QED BY <1>1, <1>2, WFMin
<1>4. PICK x \in S : t = Above(x)
  BY <1>3
<1>5. \A y \in S : y <= x
  <2> SUFFICES ASSUME NEW y \in S, y > x PROVE FALSE
    OBVIOUS
  <2>1. Above(y) \subseteq Above(x) /\ Above(y) # Above(x)
    <3>1. y \in Above(x) /\ y \notin Above(y)
      OBVIOUS
    <3>2. ASSUME NEW z \in Above(y) PROVE z \in Above(x)
      <4>1. z \in S /\ z > y
        BY <3>2
      <4>2. x \in Nat /\ y \in Nat /\ z \in Nat
        BY <4>1
      <4> QED BY <4>1, <4>2
    <3> QED BY <3>1, <3>2
  <2>2. <<Above(y), Above(x)>> \in StrictSubsetOrdering(S)
    BY <2>1 DEF StrictSubsetOrdering
  <2> QED BY <1>3, <1>4, <2>2
<1>6. \E z \in S : \A y \in S : z >= y
  BY <1>4, <1>5
<1>7. Max(S) \in S /\ \A y \in S : Max(S) >= y
  BY <1>6 DEF Max
<1> QED BY <1>7

(***************************************************************************)
(* The host.                                                               *)
(***************************************************************************)

\* What happens at the host takes back no merge, no passed check and no name.
Grows ==
    /\ Tip <= Tip'
    /\ \A n \in DOMAIN main :
           /\ n \in DOMAIN main' /\ main'[n].pr = main[n].pr /\ main'[n].exact = main[n].exact
           /\ main[n].edge = "passed" => main'[n].edge = "passed"
    /\ \A i \in DOMAIN prs :
           /\ i \in DOMAIN prs' /\ prs'[i].cand = prs[i].cand
           /\ prs[i].state = "merged" => prs'[i].state = "merged"
           /\ prs[i].checks = "passed" => prs'[i].checks = "passed"
    /\ \A v \in Versions : release[v].state # "none" => release'[v].state # "none"

LEMMA Standing ==
  ASSUME HostTypes, UNCHANGED <<main, prs, release>>
  PROVE  Grows
  BY DEF Grows, HostTypes, Tip

\* A pull request changes, and is merged as little or as much as before.
LEMMA PullRequestChanges ==
  ASSUME HostTypes, MergesAreOnMain, UNCHANGED <<main, release>>,
         NEW i \in DOMAIN prs, NEW p \in PullRequest, prs' = [prs EXCEPT ![i] = p],
         p.cand = prs[i].cand, p.state = "merged" <=> prs[i].state = "merged",
         prs[i].checks = "passed" => p.checks = "passed"
  PROVE  /\ Grows /\ MergesAreOnMain' /\ prs' \in Seq(PullRequest)
         /\ DOMAIN prs' = DOMAIN prs
         /\ \A j \in DOMAIN prs : prs'[j] = IF j = i THEN p ELSE prs[j]
<1>1. /\ prs' \in Seq(PullRequest) /\ DOMAIN prs' = DOMAIN prs
      /\ \A j \in DOMAIN prs : prs'[j] = IF j = i THEN p ELSE prs[j]
  BY DEF HostTypes
<1>2. Grows
  BY <1>1 DEF Grows, HostTypes, Tip
<1>3. MergesAreOnMain'
  BY <1>1 DEF MergesAreOnMain
<1> QED BY <1>1, <1>2, <1>3

LEMMA PullRequestOpens ==
  ASSUME HostTypes, MergesAreOnMain, UNCHANGED <<main, release>>,
         NEW p \in PullRequest, p.state = "open", prs' = Append(prs, p)
  PROVE  /\ Grows /\ MergesAreOnMain' /\ prs' \in Seq(PullRequest)
         /\ Len(prs') = Len(prs) + 1 /\ DOMAIN prs' = DOMAIN prs \cup {Len(prs')}
         /\ prs'[Len(prs')] = p
         /\ \A j \in DOMAIN prs : prs'[j] = prs[j]
<1>1. /\ prs' \in Seq(PullRequest) /\ Len(prs') = Len(prs) + 1
      /\ DOMAIN prs' = DOMAIN prs \cup {Len(prs')}
      /\ prs'[Len(prs')] = p /\ \A j \in DOMAIN prs : prs'[j] = prs[j]
  BY DEF HostTypes
<1>2. Grows
  BY <1>1 DEF Grows, HostTypes, Tip
<1>3. MergesAreOnMain'
  BY <1>1 DEF MergesAreOnMain
<1> QED BY <1>1, <1>2, <1>3

\* Main gets a commit that is of no candidate.
LEMMA MainMoves ==
  ASSUME HostTypes, MergesAreOnMain, UNCHANGED <<prs, release>>,
         NEW commit \in Commit, commit.pr = 0, main' = Append(main, commit)
  PROVE  Grows /\ MergesAreOnMain' /\ main' \in Seq(Commit)
<1>1. /\ main' \in Seq(Commit) /\ Len(main') = Len(main) + 1
      /\ DOMAIN main' = DOMAIN main \cup {Len(main')}
      /\ main'[Len(main')] = commit /\ \A j \in DOMAIN main : main'[j] = main[j]
  BY DEF HostTypes
<1>2. Grows
  BY <1>1 DEF Grows, HostTypes, Tip
<1>3. MergesAreOnMain'
  BY <1>1 DEF MergesAreOnMain
<1> QED BY <1>1, <1>2, <1>3

\* The verification and publication of a commit of main go on.
LEMMA MainIsChecked ==
  ASSUME HostTypes, MergesAreOnMain, UNCHANGED <<prs, release>>,
         NEW n \in DOMAIN main, NEW result \in Results, main[n].edge # "passed",
         main' = [main EXCEPT ![n].edge = result]
  PROVE  Grows /\ MergesAreOnMain' /\ main' \in Seq(Commit)
<1>0. PICK commit : commit = [main[n] EXCEPT !.edge = result]
  OBVIOUS
<1>a. main \in Seq(Commit)
  BY DEF HostTypes
<1>b. main[n] \in Commit
  BY <1>a
<1>1. commit \in Commit /\ commit.pr = main[n].pr /\ commit.exact = main[n].exact
  BY <1>0, <1>b DEF Commit
<1>2. main' = [main EXCEPT ![n] = commit]
  BY <1>0
<1>3. /\ main' \in Seq(Commit) /\ DOMAIN main' = DOMAIN main /\ Len(main') = Len(main)
      /\ \A m \in DOMAIN main : main'[m] = IF m = n THEN commit ELSE main[m]
  BY <1>1, <1>2, <1>a
<1>4. Grows
  BY <1>1, <1>3, <1>a DEF Grows, Tip
<1>5. MergesAreOnMain'
  BY <1>1, <1>3 DEF MergesAreOnMain
<1> QED BY <1>3, <1>4, <1>5

\* An open pull request is squashed into main.
LEMMA PullRequestIsMerged ==
  ASSUME HostTypes, MergesAreOnMain, NEW i \in OpenPrs, Squash(i), UNCHANGED release
  PROVE  /\ Grows /\ MergesAreOnMain' /\ main' \in Seq(Commit) /\ prs' \in Seq(PullRequest)
         /\ Tip' = Tip + 1 /\ main'[Tip'].pr = i
         /\ prs'[i].state = "merged"
         /\ OpenPrs' = OpenPrs \ {i}
<1>0. PICK p : p = [prs[i] EXCEPT !.state = "merged"]
  OBVIOUS
<1>1. PICK commit : commit = [pr |-> i, edge |-> "none",
                              exact |-> IsOwn(i) /\ Tip = prep[prs[i].cand]]
  OBVIOUS
<1>a. main \in Seq(Commit) /\ prs \in Seq(PullRequest)
  BY DEF HostTypes
<1>b. i \in DOMAIN prs /\ i \in Nat \ {0} /\ prs[i].state = "open" /\ prs[i] \in PullRequest
  BY <1>a DEF OpenPrs
<1>c. p \in PullRequest /\ p.state = "merged" /\ p.cand = prs[i].cand /\ p.checks = prs[i].checks
  BY <1>0, <1>b DEF PullRequest
<1>d. (IsOwn(i) /\ Tip = prep[prs[i].cand]) \in BOOLEAN
  OBVIOUS
<1>e. commit \in Commit /\ commit.pr = i
  <2> HIDE DEF IsOwn
  <2> QED BY <1>1, <1>b, <1>d DEF Commit, Results
<1>2. /\ i \in DOMAIN prs /\ i \in Nat \ {0} /\ prs[i].state = "open"
      /\ p.state = "merged" /\ p.cand = prs[i].cand /\ p.checks = prs[i].checks
      /\ commit.pr = i
  BY <1>b, <1>c, <1>e
<1>3. /\ prs' = [prs EXCEPT ![i] = p] /\ main' = Append(main, commit)
  BY <1>0, <1>1 DEF Squash
<1>4. /\ main' \in Seq(Commit) /\ Len(main') = Len(main) + 1
      /\ DOMAIN main' = DOMAIN main \cup {Len(main')}
      /\ main'[Len(main')] = commit /\ \A j \in DOMAIN main : main'[j] = main[j]
  BY <1>e, <1>3, <1>a
<1>5. /\ prs' \in Seq(PullRequest) /\ DOMAIN prs' = DOMAIN prs
      /\ \A j \in DOMAIN prs : prs'[j] = IF j = i THEN p ELSE prs[j]
  BY <1>b, <1>c, <1>3, <1>a
<1>6. Grows
  <2>1. Tip <= Tip'
    BY <1>4, <1>a DEF Tip
  <2> QED BY <1>2, <1>4, <1>5, <2>1 DEF Grows
<1>7. MergesAreOnMain'
  <2>1. \A n \in DOMAIN main : main[n].pr # i
    BY <1>2 DEF MergesAreOnMain
  <2>2. \A n \in DOMAIN main : n # Len(main')
    BY <1>4, <1>a
  <2>3. ASSUME NEW n \in DOMAIN main', main'[n].pr # 0
        PROVE  main'[n].pr \in DOMAIN prs' /\ prs'[main'[n].pr].state = "merged"
    BY <1>2, <1>4, <1>5, <2>3, SMTT(20) DEF MergesAreOnMain
  <2>4. ASSUME NEW m \in DOMAIN main', NEW n \in DOMAIN main',
               main'[m].pr = main'[n].pr, main'[m].pr # 0
        PROVE  m = n
    BY <1>2, <1>4, <2>1, <2>2, <2>4 DEF MergesAreOnMain
  <2>5. ASSUME NEW j \in DOMAIN prs', prs'[j].state = "merged"
        PROVE  \E n \in DOMAIN main' : main'[n].pr = j
    BY <1>2, <1>4, <1>5, <2>5 DEF MergesAreOnMain
  <2> QED BY <2>3, <2>4, <2>5 DEF MergesAreOnMain
<1>8. OpenPrs' = OpenPrs \ {i}
  BY <1>2, <1>5 DEF OpenPrs
<1> QED BY <1>2, <1>4, <1>5, <1>6, <1>7, <1>8 DEF Tip

\* What the records say of an attempt does not change unless they do.
LEMMA RecordedStays ==
  ASSUME UNCHANGED records
  PROVE  /\ \A kind, attempt : Recorded(kind, attempt)' = Recorded(kind, attempt)
         /\ \A kind, cand : Written(kind, cand)' = Written(kind, cand)
         /\ \A kind, cand : OnlyOf(kind, cand)' <=> OnlyOf(kind, cand)
  BY DEF Recorded, Written, OnlyOf

LEMMA HostStays ==
  ASSUME HostIsSound, Grows, HostTypes', MergesAreOnMain', UNCHANGED <<prep, records, release>>
  PROVE  HostIsSound'
<1>1. RecordsAreTrue'
  BY DEF HostIsSound, RecordsAreTrue, Grows
<1>2. RecordedOnce' /\ DispositionsAreOwn'
  BY DEF HostIsSound, RecordedOnce, CheckpointsAreAmbiguous, DispositionsAreOwn
<1>3. PreparationsAreOfMain'
  <2> SUFFICES ASSUME NEW c \in Candidates, prep[c] # None PROVE prep[c] <= Tip'
    BY DEF PreparationsAreOfMain
  <2>1. prep[c] \in Nat /\ prep[c] <= Tip
    BY DEF HostIsSound, PreparationsAreOfMain, HostTypes
  <2>2. Tip \in Nat /\ Tip' \in Nat /\ Tip <= Tip'
    BY DEF HostIsSound, HostTypes, Grows, Tip
  <2> QED BY <2>1, <2>2
<1>4. ReleasesAreOfMain'
  <2> SUFFICES ASSUME NEW v \in Versions, release[v].state # "none"
               PROVE  LET commit == main'[release[v].target]
                      IN  /\ release[v].target \in DOMAIN main'
                          /\ commit.pr # 0 /\ Version(prs'[commit.pr].cand) = v
                          /\ commit.exact
                          /\ commit.edge = "passed"
    BY DEF ReleasesAreOfMain
  <2>1. PICK n : n = release[v].target
    OBVIOUS
  <2>2. /\ n \in DOMAIN main /\ main[n].pr # 0 /\ Version(prs[main[n].pr].cand) = v
        /\ main[n].exact /\ main[n].edge = "passed"
    BY <2>1 DEF HostIsSound, ReleasesAreOfMain
  <2>3. main[n].pr \in DOMAIN prs
    BY <2>2 DEF HostIsSound, MergesAreOnMain
  <2> QED BY <2>1, <2>2, <2>3 DEF Grows, Version
<1> QED BY <1>1, <1>2, <1>3, <1>4 DEF HostIsSound

(***************************************************************************)
(* The run.                                                                *)
(***************************************************************************)

\* What the run is about, while it has a candidate.
LEMMA RunHasItsBase ==
  ASSUME HostIsSound, NEW r, IsNamed(r)
  PROVE  /\ Tip \in Nat
         /\ r.at \notin {"idle", "resolve", "fresh"} => CandOf(r) \in Candidates
         /\ r.at \notin {"idle", "prepare", "upload", "resolve", "fresh"} =>
                prep[CandOf(r)] \in Nat /\ prep[CandOf(r)] <= Tip
<1>1. Tip \in Nat
  BY DEF HostIsSound, HostTypes, Tip
<1>2. r.at \notin {"idle", "resolve", "fresh"} => CandOf(r) \in Candidates
  BY DEF IsNamed, Candidates, CandOf
<1>3. prep \in [Candidates -> Nat \cup {None}] /\ \A c \in Candidates : prep[c] # None => prep[c] <= Tip
  BY DEF HostIsSound, HostTypes, PreparationsAreOfMain
<1>4. r.at \notin {"idle", "prepare", "upload", "resolve", "fresh"} => prep[CandOf(r)] # None
  BY DEF IsNamed
<1> HIDE DEF Tip
<1>5. r.at \notin {"idle", "prepare", "upload", "resolve", "fresh"} =>
         prep[CandOf(r)] \in Nat /\ prep[CandOf(r)] <= Tip
  BY <1>2, <1>3, <1>4
<1> QED BY <1>1, <1>2, <1>5

LEMMA BaseIsBehind ==
  ASSUME HostIsSound, IsNamed(job), job.at = "main", Tip # Base
  PROVE  prep[CandOf(job)] < Tip
<1>1. prep[CandOf(job)] \in Nat /\ prep[CandOf(job)] <= Tip /\ Tip \in Nat
  BY RunHasItsBase
<1>2. Base = prep[CandOf(job)]
  BY DEF Base, Cand, CandOf
<1> QED BY <1>1, <1>2

LEMMA NumbersArePositive ==
  ASSUME HostIsSound
  PROVE  \A i \in DOMAIN prs : i \in Nat /\ i # 0
<1>1. prs \in Seq(PullRequest)
  BY DEF HostIsSound, HostTypes
<1> QED BY <1>1

\* Run r is the run, gone to a place with what it has.
Continues(r, place) ==
    /\ r \in Job /\ r.at = place /\ r.version = job.version
    /\ r.attempt = job.attempt /\ r.sha = job.sha /\ r.pr = job.pr
    /\ r.merged = job.merged /\ r.resolving = job.resolving
    /\ CandOf(r) = CandOf(job)

LEMMA RunGoes ==
  ASSUME job \in Job, NEW place \in Places, NEW r, r = [job EXCEPT !.at = place, !.tries = 0]
  PROVE  Continues(r, place)
  BY DEF Job, CandOf, Continues

\* One that has lost an answer is where it was.
LEMMA RunTriesAgain ==
  ASSUME HostIsSound, IsSound(job), NEW r, r = [job EXCEPT !.tries = @ + 1]
  PROVE  IsSound(r) /\ (IsAlone(job) => IsAlone(r))
<1>1. job \in Job
  BY DEF IsSound, IsNamed
<1>2. /\ r \in Job /\ r.at = job.at /\ r.version = job.version
      /\ r.attempt = job.attempt /\ r.sha = job.sha /\ r.pr = job.pr
      /\ r.merged = job.merged /\ r.resolving = job.resolving
      /\ CandOf(r) = CandOf(job)
  BY <1>1 DEF Job, CandOf
<1>3. IsNamed(r) /\ Prepares(r) /\ HasItsPullRequest(r)
  BY <1>2 DEF IsSound, IsNamed, Prepares, HasItsPullRequest
<1>4. HasChecked(r) /\ HasItsMerge(r)
  BY <1>2 DEF IsSound, HasChecked, HasItsMerge
<1> QED BY <1>2, <1>3, <1>4 DEF IsSound, IsAlone

LEMMA IdleIsSound ==
  ASSUME HostIsSound
  PROVE  IsSound(Idle) /\ (IsAlone(job) => IsAlone(Idle))
<1>1. Idle.at = "idle" /\ Idle.pr = 0 /\ Idle.sha = 0 /\ Idle \in Job
  BY OperationAssumption DEF Idle, Job, Places
<1>2. Tip \in Nat
  BY DEF HostIsSound, HostTypes, Tip
<1>3. IsNamed(Idle) /\ Prepares(Idle)
  BY <1>1, <1>2 DEF IsNamed, Prepares
<1>4. HasItsPullRequest(Idle) /\ HasChecked(Idle) /\ HasItsMerge(Idle)
  BY <1>1 DEF HasItsPullRequest, HasChecked, HasItsMerge,
              Finding, Exposing, Deciding, Checked, Publishing, Finishing
<1> QED BY <1>1, <1>3, <1>4 DEF IsSound, IsAlone

\* What a run stands on stays when the host grows.
LEMMA RunStays ==
  ASSUME HostIsSound, HostIsSound', Grows, UNCHANGED <<prep, records>>, NEW r, IsSound(r)
  PROVE  IsSound(r)'
<1>1. /\ \A kind, attempt : Recorded(kind, attempt)' = Recorded(kind, attempt)
      /\ \A kind, cand : Written(kind, cand)' = Written(kind, cand)
      /\ \A kind, cand : OnlyOf(kind, cand)' <=> OnlyOf(kind, cand)
  BY RecordedStays
<1>2. IsNamed(r)'
  <2>1. r \in Job /\ r.sha \in Nat /\ r.sha <= Tip
    BY DEF IsSound, IsNamed, Job
  <2>2. Tip \in Nat /\ Tip' \in Nat /\ Tip <= Tip'
    BY DEF HostIsSound, HostTypes, Tip, Grows
  <2>3. r.sha <= Tip'
    BY <2>1, <2>2
  <2> QED BY <2>3 DEF IsSound, IsNamed
<1>3. Prepares(r)'
  <2>1. r.at \in {"live", "stale", "close", "refresh"} => prep[CandOf(r)] < Tip'
    <3>1. Tip \in Nat /\ Tip' \in Nat /\ Tip <= Tip'
      BY DEF HostIsSound, HostTypes, Tip, Grows
    <3>2. r.at \in {"live", "stale", "close", "refresh"} =>
             prep[CandOf(r)] < Tip /\ prep[CandOf(r)] \in Nat
      BY RunHasItsBase DEF IsSound, Prepares
    <3> QED BY <3>1, <3>2
  <2> QED BY <2>1 DEF IsSound, Prepares
<1>4. HasItsPullRequest(r)'
  BY DEF IsSound, HasItsPullRequest, Grows
<1>5. HasChecked(r)'
  <2>1. r.at \in Deciding => r.pr \in DOMAIN prs
    BY DEF IsSound, HasItsPullRequest
  <2>2. Checked \subseteq Deciding
    BY DEF Checked
  <2> QED BY <1>1, <2>1, <2>2 DEF IsSound, HasChecked, Grows
<1>6. HasItsMerge(r)'
  <2>1. r.at \in Finishing => r.version \in Versions
    BY DEF IsSound, IsNamed, Finishing, Publishing
  <2> QED BY <2>1 DEF IsSound, HasItsMerge, Grows, Finishing, Publishing
<1> QED BY <1>2, <1>3, <1>4, <1>5, <1>6 DEF IsSound

LEMMA RunBecomes ==
  ASSUME NEW r, job' = r
  PROVE  (IsSound(r)' => IsSound(job)') /\ (IsAlone(r)' => IsAlone(job)')
<1>1. (IsNamed(r)' => IsNamed(job)') /\ (Prepares(r)' => Prepares(job)')
  BY DEF IsNamed, Prepares, CandOf
<1>2. HasItsPullRequest(r)' => HasItsPullRequest(job)'
  BY DEF HasItsPullRequest, CandOf
<1>3. HasChecked(r)' => HasChecked(job)'
  BY DEF HasChecked, Recorded, Written, OnlyOf, CandOf
<1>4. HasItsMerge(r)' => HasItsMerge(job)'
  BY DEF HasItsMerge
<1>5. IsAlone(r)' => IsAlone(job)'
  BY DEF IsAlone, PrsOf, CandOf
<1> QED BY <1>1, <1>2, <1>3, <1>4, <1>5 DEF IsSound

\* A run that only looks: the host is as it was, so what has to hold of what it
\* has become, has to hold now.
LEMMA RunLooks ==
  ASSUME Inductive, Reads, NEW r, job' = r, IsSound(r), IsAlone(r)
  PROVE  Inductive'
<1> USE DEF Reads, host, durable, counts
<1>1. HostTypes' /\ MergesAreOnMain' /\ Grows
  BY Standing DEF Inductive, HostIsSound, HostTypes, MergesAreOnMain
<1>2. HostIsSound'
  BY <1>1, HostStays DEF Inductive
<1>3. IsSound(r)'
  BY <1>1, <1>2, RunStays DEF Inductive
<1>4. IsAlone(r)'
  BY DEF IsAlone, OpenPrs, PrsOf
<1>5. IsSound(job)' /\ IsAlone(job)'
  BY <1>3, <1>4, RunBecomes
<1> QED BY <1>2, <1>5 DEF Inductive

LEMMA RunFails ==
  ASSUME Inductive, Reads, Fail
  PROVE  Inductive'
  BY IdleIsSound, RunLooks DEF Inductive, Fail

\* A run that only looks, and goes on with what it has.
LEMMA RunGoesOn ==
  ASSUME Inductive, Reads, NEW place \in Places, Go(place),
         \A r : Continues(r, place) => IsSound(r) /\ IsAlone(r)
  PROVE  Inductive'
<1>1. PICK r : r = job'
  OBVIOUS
<1>2. Continues(r, place)
  BY <1>1, RunGoes DEF Inductive, IsSound, IsNamed, Go
<1> QED BY <1>1, <1>2, RunLooks

\* The commit a pull request was merged in is found.
LEMMA MergeIsFound ==
  ASSUME HostIsSound, NEW i \in DOMAIN prs, prs[i].state = "merged"
  PROVE  MergeOf(i) \in DOMAIN main /\ MergeOf(i) \in Nat /\ main[MergeOf(i)].pr = i
<1>1. DOMAIN main = 1..Tip
  BY DEF HostIsSound, HostTypes, Tip
<1>2. \E n \in 1..Tip : main[n].pr = i
  BY <1>1 DEF HostIsSound, MergesAreOnMain
<1> QED BY <1>1, <1>2 DEF MergeOf

(***************************************************************************)
(* The steps of the run that only look, and go on with what the run has.   *)
(***************************************************************************)

LEMMA LooksOn ==
  ASSUME Inductive,
         \/ Prepare \/ EnsureSameVersionConflict
         \/ ValidateProtection("protection", "base") \/ MainIsTheBase
         \/ WaitForPullRequestChecks \/ RereadMain \/ ReproduceCandidateTree
         \/ ValidateProtection("protection again", "merge")
         \/ VerifyCandidateTree \/ CheckMainPublication \/ ReadBack \/ CheckTag
  PROVE  Inductive'
<1> USE DEF At
<1>0. /\ HostIsSound /\ IsNamed(job) /\ Prepares(job) /\ HasItsPullRequest(job) /\ HasChecked(job)
      /\ HasItsMerge(job) /\ IsAlone(job)
  BY DEF Inductive, IsSound
<1>1. CASE Prepare
  <2>1. Reads /\ job.at = "prepare"
    BY <1>1 DEF Prepare
  <2>2. ASSUME Go("upload") PROVE Inductive'
    <3>1. "upload" \in Places
      BY DEF Places, Finding, Exposing, Deciding, Finishing, Publishing
    <3>2. ASSUME NEW r, Continues(r, "upload") PROVE IsSound(r) /\ IsAlone(r)
      BY <1>0, <2>1, <2>2, <3>2, RunHasItsBase
         DEF Continues, IsSound, IsNamed, Prepares, HasItsPullRequest, HasChecked, HasItsMerge, IsAlone,
             Finding, Exposing, Deciding, Checked, Publishing, Finishing, Base, Cand, CandOf
    <3> QED BY <2>1, <2>2, <3>1, <3>2, RunGoesOn
  <2> QED BY <1>1, <2>1, <2>2, RunFails DEF Prepare
<1>2. CASE EnsureSameVersionConflict
  <2>1. Reads /\ job.at = "conflict"
    BY <1>2 DEF EnsureSameVersionConflict
  <2>2. ASSUME OpenPrs \ {job.pr} = {}, Go("adopt") PROVE Inductive'
    <3>1. "adopt" \in Places
      BY DEF Places, Finding, Exposing, Deciding, Finishing, Publishing
    <3>a. OpenPrs = {}
      <4>1. 0 \notin DOMAIN prs
        BY <1>0, NumbersArePositive
      <4>2. job.pr \notin OpenPrs
        BY <1>0, <2>1, <4>1 DEF HasItsPullRequest, OpenPrs
      <4> QED BY <2>2, <4>2
    <3>2. ASSUME NEW r, Continues(r, "adopt") PROVE IsSound(r) /\ IsAlone(r)
      BY <1>0, <2>1, <2>2, <3>a, <3>2, RunHasItsBase
         DEF Continues, IsSound, IsNamed, Prepares, HasItsPullRequest, HasChecked, HasItsMerge, IsAlone,
             Finding, Exposing, Deciding, Checked, Publishing, Finishing, Base, Cand, CandOf
    <3> QED BY <2>1, <2>2, <3>1, <3>2, RunGoesOn
  <2> QED BY <1>2, <2>1, <2>2, RunFails DEF EnsureSameVersionConflict
<1>3. CASE ValidateProtection("protection", "base")
  <2>1. Reads /\ job.at = "protection"
    BY <1>3 DEF ValidateProtection
  <2>2. ASSUME Go("base") PROVE Inductive'
    <3>1. "base" \in Places
      BY DEF Places, Finding, Exposing, Deciding, Finishing, Publishing
    <3>2. ASSUME NEW r, Continues(r, "base") PROVE IsSound(r) /\ IsAlone(r)
      BY <1>0, <2>1, <2>2, <3>2, RunHasItsBase
         DEF Continues, IsSound, IsNamed, Prepares, HasItsPullRequest, HasChecked, HasItsMerge, IsAlone,
             Finding, Exposing, Deciding, Checked, Publishing, Finishing, Base, Cand, CandOf
    <3> QED BY <2>1, <2>2, <3>1, <3>2, RunGoesOn
  <2> QED BY <1>3, <2>1, <2>2, RunFails DEF ValidateProtection
<1>4. CASE MainIsTheBase
  <2>1. Reads /\ job.at = "base"
    BY <1>4 DEF MainIsTheBase
  <2>2. ASSUME Go("expose") PROVE Inductive'
    <3>1. "expose" \in Places
      BY DEF Places, Finding, Exposing, Deciding, Finishing, Publishing
    <3>2. ASSUME NEW r, Continues(r, "expose") PROVE IsSound(r) /\ IsAlone(r)
      BY <1>0, <2>1, <2>2, <3>2, RunHasItsBase
         DEF Continues, IsSound, IsNamed, Prepares, HasItsPullRequest, HasChecked, HasItsMerge, IsAlone,
             Finding, Exposing, Deciding, Checked, Publishing, Finishing, Base, Cand, CandOf
    <3> QED BY <2>1, <2>2, <3>1, <3>2, RunGoesOn
  <2> QED BY <1>4, <2>1, <2>2, RunFails DEF MainIsTheBase
<1>5. CASE WaitForPullRequestChecks
  <2>1. Reads /\ job.at = "checks"
    BY <1>5 DEF WaitForPullRequestChecks
  <2>2. ASSUME prs[job.pr].checks = "passed", Go("main") PROVE Inductive'
    <3>1. "main" \in Places
      BY DEF Places, Finding, Exposing, Deciding, Finishing, Publishing
    <3>2. ASSUME NEW r, Continues(r, "main") PROVE IsSound(r) /\ IsAlone(r)
      BY <1>0, <2>1, <2>2, <3>2, RunHasItsBase
         DEF Continues, IsSound, IsNamed, Prepares, HasItsPullRequest, HasChecked, HasItsMerge, IsAlone,
             Finding, Exposing, Deciding, Checked, Publishing, Finishing, Base, Cand, CandOf
    <3> QED BY <2>1, <2>2, <3>1, <3>2, RunGoesOn
  <2> QED BY <1>5, <2>1, <2>2, RunFails DEF WaitForPullRequestChecks
<1>6. CASE RereadMain
  <2>1. Reads /\ job.at = "main"
    BY <1>6 DEF RereadMain
  <2>2. ASSUME Go("reproduce") PROVE Inductive'
    <3>1. "reproduce" \in Places
      BY DEF Places, Finding, Exposing, Deciding, Finishing, Publishing
    <3>2. ASSUME NEW r, Continues(r, "reproduce") PROVE IsSound(r) /\ IsAlone(r)
      BY <1>0, <2>1, <2>2, <3>2, RunHasItsBase
         DEF Continues, IsSound, IsNamed, Prepares, HasItsPullRequest, HasChecked, HasItsMerge, IsAlone,
             Finding, Exposing, Deciding, Checked, Publishing, Finishing, Base, Cand, CandOf
    <3> QED BY <2>1, <2>2, <3>1, <3>2, RunGoesOn
  <2>3. ASSUME Tip # Base, Go("refresh") PROVE Inductive'
    <3>1. "refresh" \in Places
      BY DEF Places, Finding, Exposing, Deciding, Finishing, Publishing
    <3>a. prep[CandOf(job)] < Tip
      BY <1>0, <2>1, <2>3, BaseIsBehind
    <3>2. ASSUME NEW r, Continues(r, "refresh") PROVE IsSound(r) /\ IsAlone(r)
      BY <1>0, <2>1, <2>3, <3>a, <3>2, RunHasItsBase
         DEF Continues, IsSound, IsNamed, Prepares, HasItsPullRequest, HasChecked, HasItsMerge, IsAlone,
             Finding, Exposing, Deciding, Checked, Publishing, Finishing, Base, Cand, CandOf
    <3> QED BY <2>1, <2>3, <3>1, <3>2, RunGoesOn
  <2> QED BY <1>6, <2>1, <2>2, <2>3, RunFails DEF RereadMain
<1>7. CASE ReproduceCandidateTree
  <2>1. Reads /\ job.at = "reproduce"
    BY <1>7 DEF ReproduceCandidateTree
  <2>2. ASSUME Go("gates again") PROVE Inductive'
    <3>1. "gates again" \in Places
      BY DEF Places, Finding, Exposing, Deciding, Finishing, Publishing
    <3>2. ASSUME NEW r, Continues(r, "gates again") PROVE IsSound(r) /\ IsAlone(r)
      BY <1>0, <2>1, <2>2, <3>2, RunHasItsBase
         DEF Continues, IsSound, IsNamed, Prepares, HasItsPullRequest, HasChecked, HasItsMerge, IsAlone,
             Finding, Exposing, Deciding, Checked, Publishing, Finishing, Base, Cand, CandOf
    <3> QED BY <2>1, <2>2, <3>1, <3>2, RunGoesOn
  <2> QED BY <1>7, <2>1, <2>2, RunFails DEF ReproduceCandidateTree
<1>8. CASE ValidateProtection("protection again", "merge")
  <2>1. Reads /\ job.at = "protection again"
    BY <1>8 DEF ValidateProtection
  <2>2. ASSUME Go("merge") PROVE Inductive'
    <3>1. "merge" \in Places
      BY DEF Places, Finding, Exposing, Deciding, Finishing, Publishing
    <3>2. ASSUME NEW r, Continues(r, "merge") PROVE IsSound(r) /\ IsAlone(r)
      BY <1>0, <2>1, <2>2, <3>2, RunHasItsBase
         DEF Continues, IsSound, IsNamed, Prepares, HasItsPullRequest, HasChecked, HasItsMerge, IsAlone,
             Finding, Exposing, Deciding, Checked, Publishing, Finishing, Base, Cand, CandOf
    <3> QED BY <2>1, <2>2, <3>1, <3>2, RunGoesOn
  <2> QED BY <1>8, <2>1, <2>2, RunFails DEF ValidateProtection
<1>9. CASE VerifyCandidateTree
  <2>1. Reads /\ job.at = "tree"
    BY <1>9 DEF VerifyCandidateTree
  <2>2. ASSUME main[job.merged].exact, Go("edge") PROVE Inductive'
    <3>1. "edge" \in Places
      BY DEF Places, Finding, Exposing, Deciding, Finishing, Publishing
    <3>2. ASSUME NEW r, Continues(r, "edge") PROVE IsSound(r) /\ IsAlone(r)
      BY <1>0, <2>1, <2>2, <3>2, RunHasItsBase
         DEF Continues, IsSound, IsNamed, Prepares, HasItsPullRequest, HasChecked, HasItsMerge, IsAlone,
             Finding, Exposing, Deciding, Checked, Publishing, Finishing, Base, Cand, CandOf
    <3> QED BY <2>1, <2>2, <3>1, <3>2, RunGoesOn
  <2> QED BY <1>9, <2>1, <2>2, RunFails DEF VerifyCandidateTree
<1>10. CASE CheckMainPublication
  <2>1. Reads /\ job.at = "edge"
    BY <1>10 DEF CheckMainPublication
  <2>2. ASSUME main[job.merged].edge = "passed", Go("tag") PROVE Inductive'
    <3>1. "tag" \in Places
      BY DEF Places, Finding, Exposing, Deciding, Finishing, Publishing
    <3>2. ASSUME NEW r, Continues(r, "tag") PROVE IsSound(r) /\ IsAlone(r)
      BY <1>0, <2>1, <2>2, <3>2, RunHasItsBase
         DEF Continues, IsSound, IsNamed, Prepares, HasItsPullRequest, HasChecked, HasItsMerge, IsAlone,
             Finding, Exposing, Deciding, Checked, Publishing, Finishing, Base, Cand, CandOf
    <3> QED BY <2>1, <2>2, <3>1, <3>2, RunGoesOn
  <2> QED BY <1>10, <2>1, <2>2, RunFails DEF CheckMainPublication
<1>11. CASE ReadBack
  <2>1. Reads /\ job.at = "read back"
    BY <1>11 DEF ReadBack
  <2>2. ASSUME Go("publish") PROVE Inductive'
    <3>1. "publish" \in Places
      BY DEF Places, Finding, Exposing, Deciding, Finishing, Publishing
    <3>2. ASSUME NEW r, Continues(r, "publish") PROVE IsSound(r) /\ IsAlone(r)
      BY <1>0, <2>1, <2>2, <3>2, RunHasItsBase
         DEF Continues, IsSound, IsNamed, Prepares, HasItsPullRequest, HasChecked, HasItsMerge, IsAlone,
             Finding, Exposing, Deciding, Checked, Publishing, Finishing, Base, Cand, CandOf
    <3> QED BY <2>1, <2>2, <3>1, <3>2, RunGoesOn
  <2>3. ASSUME Go("publication") PROVE Inductive'
    <3>1. "publication" \in Places
      BY DEF Places, Finding, Exposing, Deciding, Finishing, Publishing
    <3>2. ASSUME NEW r, Continues(r, "publication") PROVE IsSound(r) /\ IsAlone(r)
      BY <1>0, <2>1, <2>3, <3>2, RunHasItsBase
         DEF Continues, IsSound, IsNamed, Prepares, HasItsPullRequest, HasChecked, HasItsMerge, IsAlone,
             Finding, Exposing, Deciding, Checked, Publishing, Finishing, Base, Cand, CandOf
    <3> QED BY <2>1, <2>3, <3>1, <3>2, RunGoesOn
  <2> QED BY <1>11, <2>1, <2>2, <2>3, RunFails DEF ReadBack
<1>12. CASE CheckTag
  <2>1. Reads /\ job.at = "check tag"
    BY <1>12 DEF CheckTag
  <2>2. ASSUME Go("publication") PROVE Inductive'
    <3>1. "publication" \in Places
      BY DEF Places, Finding, Exposing, Deciding, Finishing, Publishing
    <3>2. ASSUME NEW r, Continues(r, "publication") PROVE IsSound(r) /\ IsAlone(r)
      BY <1>0, <2>1, <2>2, <3>2, RunHasItsBase
         DEF Continues, IsSound, IsNamed, Prepares, HasItsPullRequest, HasChecked, HasItsMerge, IsAlone,
             Finding, Exposing, Deciding, Checked, Publishing, Finishing, Base, Cand, CandOf
    <3> QED BY <2>1, <2>2, <3>1, <3>2, RunGoesOn
  <2> QED BY <1>12, <2>1, <2>2, RunFails DEF CheckTag
<1> QED BY <1>1, <1>2, <1>3, <1>4, <1>5, <1>6, <1>7, <1>8, <1>9, <1>10, <1>11, <1>12

(***************************************************************************)
(* The other steps that only look.                                         *)
(***************************************************************************)

\* The run takes up a pull request of its candidate that was merged.
LEMMA RunFindsItsMerge ==
  ASSUME Inductive, Reads, NEW i \in DOMAIN prs, prs[i].state = "merged", prs[i].cand = CandOf(job),
         job.at \notin {"idle", "resolve", "fresh", "prepare", "upload"},
         NEW place \in {"conflict", "gates", "merged"}, NEW r, job' = r,
         r \in Job, r.at = place, r.version = job.version, r.attempt = job.attempt,
         r.sha = job.sha, r.pr = i, r.merged = MergeOf(i)
  PROVE  Inductive'
<1>1. HostIsSound /\ IsNamed(job) /\ IsAlone(job) /\ i # 0 /\ CandOf(r) = CandOf(job)
  BY DEF Inductive, IsSound, HostIsSound, HostTypes, CandOf
<1>2. MergeOf(i) \in DOMAIN main /\ main[MergeOf(i)].pr = i
  BY <1>1, MergeIsFound
<1>3. IsSound(r) /\ IsAlone(r)
  BY <1>1, <1>2 DEF IsSound, IsNamed, Prepares, HasItsPullRequest, HasChecked, HasItsMerge, IsAlone,
      Finding, Exposing, Deciding, Checked, Publishing, Finishing
<1> QED BY <1>3, RunLooks

\* The pull request a checkpoint names is of a candidate of that attempt number.
LEMMA RecordedIsOfCandidate ==
  ASSUME HostIsSound, NEW kind, NEW attempt, NEW i \in Recorded(kind, attempt)
  PROVE  /\ i \in DOMAIN prs /\ (kind = "merged" => prs[i].state = "merged")
         /\ Attempt(prs[i].cand) = attempt /\ i \in Written(kind, prs[i].cand)
<1>1. PICK k \in DOMAIN records :
          /\ records[k].kind = kind /\ Attempt(records[k].cand) = attempt /\ i = records[k].pr
  BY DEF Recorded, Range
<1>2. i \in DOMAIN prs /\ prs[i].cand = records[k].cand /\ (kind = "merged" => prs[i].state = "merged")
  BY <1>1 DEF HostIsSound, RecordsAreTrue
<1> QED BY <1>1, <1>2 DEF Written, Range

\* There is one checkpoint of a kind and attempt: nobody else has another.
LEMMA WrittenIsOnly ==
  ASSUME HostIsSound, NEW kind, NEW cand, Written(kind, cand) # {}
  PROVE  OnlyOf(kind, cand)
<1>1. PICK k \in DOMAIN records : records[k].kind = kind /\ records[k].cand = cand
  BY DEF Written, Range
<1> QED BY <1>1 DEF HostIsSound, RecordedOnce, CheckpointsAreAmbiguous, OnlyOf

LEMMA NoneIsOnly ==
  ASSUME NEW kind, NEW cand, Recorded(kind, Attempt(cand)) = {}
  PROVE  OnlyOf(kind, cand)
  BY DEF Recorded, Range, OnlyOf

LEMMA Reconciles ==
  ASSUME Inductive, ReconcileRecordedCheckpoints
  PROVE  Inductive'
<1>0. /\ HostIsSound /\ IsNamed(job) /\ Prepares(job) /\ HasItsPullRequest(job) /\ HasChecked(job)
      /\ HasItsMerge(job) /\ IsAlone(job) /\ job \in Job
  BY DEF Inductive, IsSound, IsNamed
<1>1. Reads /\ job.at = "adopt"
  BY DEF ReconcileRecordedCheckpoints, At
<1>2. ASSUME NEW i \in RecordedPr, IsMine(i), prs[i].state = "merged",
             job' = [job EXCEPT !.at = "gates", !.pr = i, !.merged = MergeOf(i)]
      PROVE  Inductive'
  <2>1. i \in DOMAIN prs /\ prs[i].cand = CandOf(job) /\ i \in Nat
    BY <1>0, <1>2, RecordedIsOfCandidate DEF HostIsSound, HostTypes, RecordedPr, IsMine, Cand, CandOf
  <2>2. MergeOf(i) \in Nat
    BY <1>0, <1>2, <2>1, MergeIsFound
  <2>3. "gates" \in Places
    BY DEF Places, Deciding
  <2>4. PICK r : r = job'
    OBVIOUS
  <2>5. /\ r \in Job /\ r.at = "gates" /\ r.version = job.version /\ r.attempt = job.attempt
        /\ r.sha = job.sha /\ r.pr = i /\ r.merged = MergeOf(i)
    BY <1>0, <1>2, <2>1, <2>2, <2>3, <2>4 DEF Job
  <2> QED BY <1>1, <1>2, <2>1, <2>4, <2>5, RunFindsItsMerge
<1>3. ASSUME NEW i \in RecordedPr, IsMine(i), prs[i].state = "open",
             job' = [job EXCEPT !.at = "gates", !.pr = i]
      PROVE  Inductive'
  <2>1. /\ i \in DOMAIN prs /\ prs[i].cand = CandOf(job) /\ i \in Nat /\ i # 0
        /\ i \in Written("pr-created", CandOf(job))
    <3>1. i \in Recorded("pr-created", job.attempt)
      BY <1>0, <1>3, RecordedIsOfCandidate DEF RecordedPr
    <3>2. prs[i].cand = CandOf(job)
      BY <1>3 DEF IsMine, Cand, CandOf
    <3>3. i \in DOMAIN prs /\ i \in Written("pr-created", CandOf(job))
      BY <1>0, <3>1, <3>2, RecordedIsOfCandidate
    <3> QED BY <1>0, <3>2, <3>3, NumbersArePositive
  <2>2. "gates" \in Places
    BY DEF Places, Deciding
  <2>3. PICK r : r = job'
    OBVIOUS
  <2>4. /\ r \in Job /\ r.at = "gates" /\ r.version = job.version /\ r.attempt = job.attempt
        /\ r.sha = job.sha /\ r.pr = i /\ CandOf(r) = CandOf(job)
    BY <1>0, <1>3, <2>1, <2>2, <2>3 DEF Job, CandOf
  <2>5. IsSound(r) /\ IsAlone(r)
    BY <1>0, <1>1, <2>1, <2>4
       DEF IsSound, IsNamed, Prepares, HasItsPullRequest, HasChecked, HasItsMerge, IsAlone,
           Finding, Exposing, Deciding, Checked, Publishing, Finishing
  <2> QED BY <1>1, <2>3, <2>5, RunLooks
<1>4. ASSUME job.pr # 0, Go("gates") PROVE Inductive'
  <2>1. "gates" \in Places
    BY DEF Places, Deciding
  <2>2. ASSUME NEW r, Continues(r, "gates") PROVE IsSound(r) /\ IsAlone(r)
    BY <1>0, <1>1, <1>4, <2>2
       DEF Continues, IsSound, IsNamed, Prepares, HasItsPullRequest, HasChecked, HasItsMerge, IsAlone,
           Finding, Exposing, Deciding, Checked, Publishing, Finishing
  <2> QED BY <1>1, <1>4, <2>1, <2>2, RunGoesOn
<1>5. ASSUME job.pr = 0, RecordedPr = {}, Recorded("stale-base", job.attempt) = {}, Go("protection")
      PROVE  Inductive'
  <2>1. "protection" \in Places
    BY DEF Places, Exposing
  <2>2. ASSUME NEW r, Continues(r, "protection") PROVE IsSound(r) /\ IsAlone(r)
    BY <1>0, <1>1, <1>5, <2>2
       DEF Continues, IsSound, IsNamed, Prepares, HasItsPullRequest, HasChecked, HasItsMerge, IsAlone,
           RecordedPr, Finding, Exposing, Deciding, Checked, Publishing, Finishing
  <2> QED BY <1>1, <1>5, <2>1, <2>2, RunGoesOn
<1> QED BY <1>1, <1>2, <1>3, <1>4, <1>5, RunFails DEF ReconcileRecordedCheckpoints

LEMMA PassesGates ==
  ASSUME Inductive, NEW place, NEW next, ValidatePullRequestGates(place, next),
         \/ place = "gates" /\ next = "checks"
         \/ place = "gates again" /\ next = "protection again"
  PROVE  Inductive'
<1>0. /\ HostIsSound /\ IsNamed(job) /\ Prepares(job) /\ HasItsPullRequest(job) /\ HasChecked(job)
      /\ HasItsMerge(job) /\ IsAlone(job) /\ job \in Job
  BY DEF Inductive, IsSound, IsNamed
<1>1. Reads /\ job.at = place
  BY DEF ValidatePullRequestGates, At
<1>2. job.pr \in DOMAIN prs /\ prs[job.pr].cand = CandOf(job) /\ job.pr # 0
  BY <1>0, <1>1 DEF HasItsPullRequest, Deciding
<1>3. ASSUME prs[job.pr].state = "merged",
             job' = [job EXCEPT !.at = "merged", !.merged = MergeOf(job.pr)]
      PROVE  Inductive'
  <2>2. MergeOf(job.pr) \in Nat
    BY <1>0, <1>2, <1>3, MergeIsFound
  <2>3. "merged" \in Places
    BY DEF Places, Finishing
  <2>4. PICK r : r = job'
    OBVIOUS
  <2>5. /\ r \in Job /\ r.at = "merged" /\ r.version = job.version /\ r.attempt = job.attempt
        /\ r.sha = job.sha /\ r.pr = job.pr /\ r.merged = MergeOf(job.pr)
    BY <1>0, <1>3, <2>2, <2>3, <2>4 DEF Job
  <2> QED BY <1>1, <1>2, <1>3, <2>4, <2>5, RunFindsItsMerge
<1>4. ASSUME Go(next) PROVE Inductive'
  <2>1. next \in Places
    BY DEF Places, Deciding
  <2>2. ASSUME NEW r, Continues(r, next) PROVE IsSound(r) /\ IsAlone(r)
    BY <1>0, <1>1, <1>2, <1>4, <2>2
       DEF Continues, IsSound, IsNamed, Prepares, HasItsPullRequest, HasChecked, HasItsMerge, IsAlone,
           Finding, Exposing, Deciding, Checked, Publishing, Finishing
  <2> QED BY <1>1, <1>4, <2>1, <2>2, RunGoesOn
<1> QED BY <1>1, <1>3, <1>4, RunFails DEF ValidatePullRequestGates

LEMMA Refreshes ==
  ASSUME Inductive, Refresh
  PROVE  Inductive'
<1>0. /\ HostIsSound /\ IsNamed(job) /\ Prepares(job) /\ HasItsPullRequest(job) /\ HasChecked(job)
      /\ HasItsMerge(job) /\ IsAlone(job) /\ job \in Job
  BY DEF Inductive, IsSound, IsNamed
<1>1. Reads /\ job.at = "refresh"
  BY DEF Refresh, At
<1>2. job.pr \in DOMAIN prs /\ prs[job.pr].cand = CandOf(job) /\ job.pr # 0
  BY <1>0, <1>1 DEF HasItsPullRequest, Deciding
<1>3. ASSUME prs[job.pr].state = "merged",
             job' = [job EXCEPT !.at = "merged", !.merged = MergeOf(job.pr)]
      PROVE  Inductive'
  <2>2. MergeOf(job.pr) \in Nat
    BY <1>0, <1>2, <1>3, MergeIsFound
  <2>3. "merged" \in Places
    BY DEF Places, Finishing
  <2>4. PICK r : r = job'
    OBVIOUS
  <2>5. /\ r \in Job /\ r.at = "merged" /\ r.version = job.version /\ r.attempt = job.attempt
        /\ r.sha = job.sha /\ r.pr = job.pr /\ r.merged = MergeOf(job.pr)
    BY <1>0, <1>3, <2>2, <2>3, <2>4 DEF Job
  <2> QED BY <1>1, <1>2, <1>3, <2>4, <2>5, RunFindsItsMerge
<1>4. ASSUME prs[job.pr].state # "merged", job' = [job EXCEPT !.at = "stale", !.resolving = FALSE]
      PROVE  Inductive'
  <2>1. "stale" \in Places
    BY DEF Places
  <2>2. PICK r : r = job'
    OBVIOUS
  <2>3. /\ r \in Job /\ r.at = "stale" /\ r.version = job.version /\ r.attempt = job.attempt
        /\ r.sha = job.sha /\ r.pr = job.pr /\ ~r.resolving /\ CandOf(r) = CandOf(job)
    BY <1>0, <1>4, <2>1, <2>2 DEF Job, CandOf
  <2>5. OnlyOf("pr-created", CandOf(job))
    BY <1>0, <1>1, <1>4, WrittenIsOnly DEF HasChecked, Deciding
  <2>4. IsSound(r) /\ IsAlone(r)
    BY <1>0, <1>1, <1>2, <2>3, <2>5
       DEF IsSound, IsNamed, Prepares, HasItsPullRequest, HasChecked, HasItsMerge, IsAlone,
           Finding, Exposing, Deciding, Checked, Publishing, Finishing
  <2> QED BY <1>1, <2>2, <2>4, RunLooks
<1> QED BY <1>1, <1>3, <1>4, RunFails DEF Refresh

LEMMA ReconcilesTag ==
  ASSUME Inductive, ReconcileExistingTag
  PROVE  Inductive'
<1>0. /\ HostIsSound /\ IsNamed(job) /\ Prepares(job) /\ HasItsPullRequest(job) /\ HasChecked(job)
      /\ HasItsMerge(job) /\ IsAlone(job) /\ job \in Job
  BY DEF Inductive, IsSound, IsNamed
<1>1. Reads /\ job.at = "tag"
  BY DEF ReconcileExistingTag, At
<1>2. ASSUME job' = [job EXCEPT !.at = "release", !.tagged = tag[job.version] # 0] PROVE Inductive'
  <2>1. "release" \in Places
    BY DEF Places, Finishing, Publishing
  <2>2. PICK r : r = job'
    OBVIOUS
  <2>3. PICK tagged \in BOOLEAN : tagged = (tag[job.version] # 0)
    OBVIOUS
  <2>4. /\ r \in Job /\ r.at = "release" /\ r.version = job.version /\ r.attempt = job.attempt
        /\ r.sha = job.sha /\ r.pr = job.pr /\ r.merged = job.merged /\ CandOf(r) = CandOf(job)
    BY <1>0, <1>2, <2>1, <2>2, <2>3 DEF Job, CandOf
  <2>5. IsSound(r) /\ IsAlone(r)
    BY <1>0, <1>1, <2>4
       DEF IsSound, IsNamed, Prepares, HasItsPullRequest, HasChecked, HasItsMerge, IsAlone,
           Finding, Exposing, Deciding, Checked, Publishing, Finishing
  <2> QED BY <1>1, <2>2, <2>5, RunLooks
<1> QED BY <1>1, <1>2, RunFails DEF ReconcileExistingTag

LEMMA RunTurns ==
  ASSUME job \in Job, "prepare" \in Places, NEW next \in Nat, NEW r,
         r = [job EXCEPT !.at = "prepare", !.attempt = next, !.pr = 0, !.tries = 0]
  PROVE  /\ r \in Job /\ r.at = "prepare" /\ r.version = job.version /\ r.attempt = next
         /\ r.sha = job.sha /\ r.pr = 0
  BY DEF Job

\* The next candidate of a version is one nothing was prepared for.
LEMMA RunReplaces ==
  ASSUME HostIsSound, IsSound(job), IsAlone(job), job.at = "live" \/ (job.at = "close" /\ job.resolving),
         job.attempt < MaxAttempts, NEW r,
         r = [job EXCEPT !.at = "prepare", !.attempt = @ + 1, !.pr = 0, !.tries = 0]
  PROVE  IsSound(r) /\ IsAlone(r)
<1>1. /\ IsNamed(job) /\ job \in Job /\ job.attempt \in 1..MaxAttempts /\ MaxAttempts \in Nat
      /\ job.version \in Versions
  BY OperationAssumption DEF IsSound, IsNamed
<1>2. "prepare" \in Places
  BY DEF Places, Finding
<1>a. PICK next \in Nat : next = job.attempt + 1
  BY <1>1
<1>b. r = [job EXCEPT !.at = "prepare", !.attempt = next, !.pr = 0, !.tries = 0]
  BY <1>a
<1>c. /\ r \in Job /\ r.at = "prepare" /\ r.version = job.version /\ r.attempt = next
      /\ r.sha = job.sha /\ r.pr = 0
  BY <1>1, <1>2, <1>b, RunTurns, ZenonT(40)
<1>3. /\ r \in Job /\ r.at = "prepare" /\ r.version = job.version /\ r.attempt = job.attempt + 1
      /\ r.sha = job.sha /\ r.pr = 0
  BY <1>a, <1>c
<1>4. r.attempt \in 1..MaxAttempts /\ r.attempt > job.attempt
  BY <1>1, <1>3
<1>5. prep[CandOf(r)] = None
  BY <1>3, <1>4 DEF IsSound, Prepares, CandOf
<1>6. IsNamed(r) /\ Prepares(r)
  BY <1>1, <1>3, <1>4, <1>5 DEF IsNamed, Prepares
<1>7. HasItsPullRequest(r) /\ HasChecked(r) /\ HasItsMerge(r) /\ IsAlone(r)
  BY <1>3 DEF HasItsPullRequest, HasChecked, HasItsMerge, IsAlone,
              Finding, Exposing, Deciding, Checked, Publishing, Finishing
<1> QED BY <1>6, <1>7 DEF IsSound

LEMMA Lives ==
  ASSUME Inductive, Live
  PROVE  Inductive'
<1>0. /\ HostIsSound /\ IsSound(job) /\ IsNamed(job) /\ Prepares(job) /\ HasItsPullRequest(job)
      /\ IsAlone(job) /\ job \in Job
  BY DEF Inductive, IsSound, IsNamed
<1>1. Reads /\ job.at = "live"
  BY DEF Live, At
<1>2. ASSUME Replace PROVE Inductive'
  <2>1. CASE job.attempt >= MaxAttempts
    BY <1>1, <1>2, <2>1, RunFails DEF Replace
  <2>2. CASE ~(job.attempt >= MaxAttempts)
    <3>1. job.attempt < MaxAttempts
      BY <1>0, <1>1, <2>2, OperationAssumption DEF IsNamed
    <3>2. PICK r : r = job'
      OBVIOUS
    <3>3. IsSound(r) /\ IsAlone(r)
      BY <1>0, <1>1, <1>2, <2>2, <3>1, <3>2, RunReplaces DEF Replace
    <3> QED BY <1>1, <3>2, <3>3, RunLooks
  <2> QED BY <2>1, <2>2
<1>3. ASSUME NEW i \in LivePrs, IsMine(i)
      PROVE  i \in DOMAIN prs /\ prs[i].cand = CandOf(job) /\ i \in Nat /\ i # 0
  <2>1. i \in DOMAIN prs /\ prs[i].cand = CandOf(job)
    BY <1>0, <1>3, RecordedIsOfCandidate DEF LivePrs, RecordedPr, PrsOf, IsMine, Cand, CandOf
  <2> QED BY <1>0, <2>1 DEF HostIsSound, HostTypes
<1>4. ASSUME NEW i \in LivePrs, IsMine(i), prs[i].state = "merged",
             job' = [job EXCEPT !.at = "conflict", !.pr = i, !.merged = MergeOf(i)]
      PROVE  Inductive'
  <2>1. MergeOf(i) \in Nat
    BY <1>0, <1>3, <1>4, MergeIsFound
  <2>2. "conflict" \in Places
    BY DEF Places
  <2>3. PICK r : r = job'
    OBVIOUS
  <2>4. /\ r \in Job /\ r.at = "conflict" /\ r.version = job.version /\ r.attempt = job.attempt
        /\ r.sha = job.sha /\ r.pr = i /\ r.merged = MergeOf(i)
    BY <1>0, <1>3, <1>4, <2>1, <2>2, <2>3 DEF Job
  <2> QED BY <1>1, <1>3, <1>4, <2>3, <2>4, RunFindsItsMerge
<1>5. ASSUME NEW i \in LivePrs, IsMine(i), Recorded("merged", job.attempt) = {},
             job' = [job EXCEPT !.at = "stale", !.pr = i]
      PROVE  Inductive'
  <2>1. "stale" \in Places
    BY DEF Places
  <2>2. PICK r : r = job'
    OBVIOUS
  <2>3. /\ r \in Job /\ r.at = "stale" /\ r.version = job.version /\ r.attempt = job.attempt
        /\ r.sha = job.sha /\ r.pr = i /\ CandOf(r) = CandOf(job)
    BY <1>0, <1>3, <1>5, <2>1, <2>2 DEF Job, CandOf
  <2>5. OnlyOf("pr-created", CandOf(job))
    <3>1. CASE RecordedPr = {}
      <4>1. Recorded("pr-created", job.attempt) = {} /\ Attempt(CandOf(job)) = job.attempt
        BY <3>1 DEF RecordedPr, Attempt, CandOf
      <4> QED BY <4>1, NoneIsOnly
    <3>2. CASE RecordedPr # {}
      <4>1. i \in Recorded("pr-created", job.attempt) /\ prs[i].cand = CandOf(job)
        BY <1>3, <1>5, <3>2 DEF LivePrs, RecordedPr
      <4> QED BY <1>0, <4>1, RecordedIsOfCandidate, WrittenIsOnly
    <3> QED BY <3>1, <3>2
  <2>4. IsSound(r) /\ IsAlone(r)
    BY <1>0, <1>1, <1>3, <1>5, <2>3, <2>5
       DEF IsSound, IsNamed, Prepares, HasItsPullRequest, HasChecked, HasItsMerge, IsAlone,
           Finding, Exposing, Deciding, Checked, Publishing, Finishing
  <2> QED BY <1>1, <2>2, <2>4, RunLooks
<1> QED BY <1>1, <1>2, <1>4, <1>5, RunFails DEF Live

LEMMA Starts ==
  ASSUME Inductive, Fresh
  PROVE  Inductive'
<1>0. /\ HostIsSound /\ IsNamed(job) /\ Prepares(job) /\ HasItsPullRequest(job)
      /\ IsAlone(job) /\ job \in Job
  BY DEF Inductive, IsSound, IsNamed
<1>1. Reads /\ job.at = "fresh"
  BY DEF Fresh, At
<1>2. ASSUME job' = [job EXCEPT !.at = "prepare", !.attempt = 1] PROVE Inductive'
  <2>1. "prepare" \in Places /\ 1 \in 1..MaxAttempts
    BY OperationAssumption DEF Places, Finding
  <2>2. PICK r : r = job'
    OBVIOUS
  <2>3. /\ r \in Job /\ r.at = "prepare" /\ r.version = job.version /\ r.attempt = 1
        /\ r.sha = job.sha /\ r.pr = job.pr /\ CandOf(r) = <<job.version, 1>>
    BY <1>0, <1>2, <2>1, <2>2 DEF Job, CandOf
  <2>4. prep[CandOf(r)] = None
    BY <1>0, <1>1, <2>1, <2>3 DEF Prepares
  <2>5. IsSound(r) /\ IsAlone(r)
    BY <1>0, <1>1, <2>1, <2>3, <2>4
       DEF IsSound, IsNamed, Prepares, HasItsPullRequest, HasChecked, HasItsMerge, IsAlone,
           Finding, Exposing, Deciding, Checked, Publishing, Finishing
  <2> QED BY <1>1, <2>2, <2>5, RunLooks
<1> QED BY <1>1, <1>2, RunFails DEF Fresh

LEMMA Resolves ==
  ASSUME Inductive, Resolve
  PROVE  Inductive'
<1>0. /\ HostIsSound /\ IsNamed(job) /\ Prepares(job) /\ HasItsPullRequest(job)
      /\ IsAlone(job) /\ job \in Job /\ job.version \in Versions
  BY DEF Inductive, IsSound, IsNamed, Resolve, At
<1>1. Reads /\ job.at = "resolve" /\ job.pr = 0
  BY <1>0 DEF Resolve, At, HasItsPullRequest, Finding
<1>2. CASE Attempts = {} /\ Go("fresh")
  <2>1. "fresh" \in Places
    BY DEF Places, Finding
  <2>2. \A a \in 1..MaxAttempts : prep[<<job.version, a>>] = None
    BY <1>2 DEF Attempts
  <2>3. ASSUME NEW r, Continues(r, "fresh") PROVE IsSound(r) /\ IsAlone(r)
    BY <1>0, <1>1, <2>2, <2>3
       DEF Continues, IsSound, IsNamed, Prepares, HasItsPullRequest, HasChecked, HasItsMerge, IsAlone,
           Finding, Exposing, Deciding, Checked, Publishing, Finishing
  <2> QED BY <1>1, <1>2, <2>1, <2>3, RunGoesOn
<1>3. ASSUME NEW a \in Attempts, job' = [job EXCEPT !.at = "conflict", !.attempt = a] PROVE Inductive'
  <2>1. "conflict" \in Places /\ a \in Nat /\ a \in 1..MaxAttempts /\ prep[<<job.version, a>>] # None
    BY DEF Places, Attempts
  <2>2. PICK r : r = job'
    OBVIOUS
  <2>3. /\ r \in Job /\ r.at = "conflict" /\ r.version = job.version /\ r.attempt = a
        /\ r.sha = job.sha /\ r.pr = 0 /\ CandOf(r) = <<job.version, a>>
    BY <1>0, <1>1, <1>3, <2>1, <2>2 DEF Job, CandOf
  <2>4. IsSound(r) /\ IsAlone(r)
    BY <1>0, <1>1, <2>1, <2>3
       DEF IsSound, IsNamed, Prepares, HasItsPullRequest, HasChecked, HasItsMerge, IsAlone,
           Finding, Exposing, Deciding, Checked, Publishing, Finishing
  <2> QED BY <1>1, <2>2, <2>4, RunLooks
<1>4. ASSUME Attempts # {}, \A a \in Attempts : prep[<<job.version, a>>] # Tip,
             job' = [job EXCEPT !.at = "live", !.attempt = Max(Attempts)]
      PROVE  Inductive'
  <2>1. Attempts \in SUBSET Nat /\ IsFiniteSet(Attempts) /\ Attempts \subseteq 1..MaxAttempts
    <3>1. IsFiniteSet(1..MaxAttempts)
      BY OperationAssumption, FS_Interval
    <3>2. Attempts \subseteq 1..MaxAttempts
      BY DEF Attempts
    <3>3. IsFiniteSet(Attempts)
      BY <3>1, <3>2, FS_Subset
    <3> QED BY <3>2, <3>3
  <2>2. PICK last : last = Max(Attempts)
    OBVIOUS
  <2>3. last \in Attempts /\ \A a \in Attempts : a <= last
    BY <1>4, <2>1, <2>2, MaxIsGreatest
  <2>4. "live" \in Places /\ last \in Nat /\ last \in 1..MaxAttempts /\ prep[<<job.version, last>>] # None
    BY <2>1, <2>3 DEF Places, Finding, Attempts
  <2>5. PICK r : r = job'
    OBVIOUS
  <2>6. /\ r \in Job /\ r.at = "live" /\ r.version = job.version /\ r.attempt = last
        /\ r.sha = job.sha /\ r.pr = 0 /\ CandOf(r) = <<job.version, last>>
    BY <1>0, <1>1, <1>4, <2>2, <2>4, <2>5 DEF Job, CandOf
  <2>7. IsNamed(r)
    BY <1>0, <2>4, <2>6 DEF IsNamed
  <2>8. \A a \in 1..MaxAttempts : a > last => prep[<<job.version, a>>] = None
    <3> SUFFICES ASSUME NEW a \in 1..MaxAttempts, a > last, prep[<<job.version, a>>] # None
                 PROVE  FALSE
      OBVIOUS
    <3>1. a \in Attempts
      BY DEF Attempts
    <3>2. a <= last /\ a \in Nat /\ last \in Nat
      BY <2>3, <2>4, <3>1
    <3> QED BY <3>2
  <2>9. prep[CandOf(r)] < Tip
    <3>1. prep[CandOf(r)] \in Nat /\ prep[CandOf(r)] <= Tip /\ Tip \in Nat
      BY <1>0, <2>6, <2>7, RunHasItsBase
    <3>2. prep[CandOf(r)] # Tip
      BY <1>4, <2>3, <2>6
    <3> QED BY <3>1, <3>2
  <2>10. Prepares(r)
    BY <2>6, <2>8, <2>9 DEF Prepares
  <2>11. HasItsPullRequest(r) /\ HasChecked(r) /\ HasItsMerge(r) /\ IsAlone(r)
    BY <1>0, <2>6 DEF HasItsPullRequest, HasChecked, HasItsMerge, IsAlone,
                Finding, Exposing, Deciding, Checked, Publishing, Finishing
  <2> QED BY <1>1, <2>5, <2>7, <2>10, <2>11, RunLooks DEF IsSound
<1> QED BY <1>2, <1>3, <1>4 DEF Resolve

(***************************************************************************)
(* The steps of the run that change something.                             *)
(***************************************************************************)

LEMMA RunActs ==
  ASSUME HostIsSound', NEW r, job' = r, IsSound(r)', IsAlone(r)'
  PROVE  Inductive'
  BY RunBecomes DEF Inductive

\* A run that ends, or asks again, while the host grows.
LEMMA RunStandsOn ==
  ASSUME Inductive, HostIsSound', Grows, UNCHANGED <<prep, records>>,
         NEW r, job' = r, IsSound(r), IsAlone(r)'
  PROVE  Inductive'
  BY RunActs, RunStays DEF Inductive

\* A checkpoint is written, which is not there yet.
LEMMA RecordIsWritten ==
  ASSUME HostIsSound, NEW kind \in Kinds, NEW i \in DOMAIN prs, NEW cand \in Candidates, cand = Cand,
         Record(kind), job.pr = i, prs[i].cand = Cand, Recorded(kind, Attempt(cand)) = {},
         kind = "merged" => prs[i].state = "merged",
         kind = "stale-base" => OnlyOf("pr-created", cand),
         kind = "pr-created" => OnlyOf("stale-base", cand),
         UNCHANGED <<host, prep, done, counts>>
  PROVE  HostIsSound' /\ i \in Written(kind, cand)' /\ i \in Recorded(kind, Attempt(cand))'
<1> USE DEF host, counts
<1>1. PICK rec : rec = [kind |-> kind, cand |-> Cand, pr |-> job.pr]
  OBVIOUS
<1>2. i \in Nat
  BY NumbersArePositive
<1>3. rec \in Checkpoint /\ rec.kind = kind /\ rec.cand = Cand /\ rec.pr = i
  BY <1>1, <1>2 DEF Checkpoint
<1>4. records \in Seq(Checkpoint)
  BY DEF HostIsSound, HostTypes
<1>5. /\ records' \in Seq(Checkpoint) /\ Len(records') = Len(records) + 1
      /\ DOMAIN records' = DOMAIN records \cup {Len(records')} /\ Len(records') \notin DOMAIN records
      /\ records'[Len(records')] = rec /\ \A k \in DOMAIN records : records'[k] = records[k]
  BY <1>1, <1>3, <1>4 DEF Record
<1>6. \A k \in DOMAIN records : ~(records[k].kind = kind /\ Attempt(records[k].cand) = Attempt(cand))
  BY DEF Recorded, Range
<1>7. HostTypes' /\ MergesAreOnMain' /\ PreparationsAreOfMain' /\ ReleasesAreOfMain'
  BY <1>5 DEF HostIsSound, HostTypes, MergesAreOnMain, PreparationsAreOfMain, ReleasesAreOfMain, Tip
<1>8. RecordsAreTrue'
  BY <1>3, <1>5 DEF HostIsSound, RecordsAreTrue
<1>9. RecordedOnce'
  BY <1>3, <1>5, <1>6 DEF HostIsSound, RecordedOnce, CheckpointsAreAmbiguous
<1>10. DispositionsAreOwn'
  BY <1>3, <1>5 DEF HostIsSound, DispositionsAreOwn, OnlyOf
<1>11. i \in Written(kind, cand)' /\ i \in Recorded(kind, Attempt(cand))'
  BY <1>3, <1>5 DEF Written, Recorded, Range
<1> QED BY <1>7, <1>8, <1>9, <1>10, <1>11 DEF HostIsSound

LEMMA PersistsStale ==
  ASSUME Inductive, PersistStaleDisposition
  PROVE  Inductive'
<1>0. /\ HostIsSound /\ IsSound(job) /\ IsNamed(job) /\ Prepares(job) /\ HasItsPullRequest(job)
      /\ HasChecked(job) /\ IsAlone(job) /\ job \in Job
  BY DEF Inductive, IsSound, IsNamed
<1>1. /\ job.at = "stale" /\ UNCHANGED <<host, prep, done, counts>> /\ Go("close")
      /\ UNCHANGED <<main, prs, release, meddled>>
  BY DEF PersistStaleDisposition, At, host, counts
<1>2. job.pr \in DOMAIN prs /\ prs[job.pr].cand = CandOf(job) /\ job.pr # 0
  BY <1>0, <1>1 DEF HasItsPullRequest
<1>3. PICK cand \in Candidates : cand = CandOf(job) /\ cand = Cand
  BY <1>0, <1>1, RunHasItsBase DEF Cand, CandOf
<1>4. PICK r : r = job'
  OBVIOUS
<1>5. "close" \in Places
  BY DEF Places
<1>6. Continues(r, "close")
  BY <1>0, <1>1, <1>4, <1>5, RunGoes DEF Go
<1>a. Attempt(cand) = job.attempt /\ OnlyOf("pr-created", cand)
  BY <1>0, <1>1, <1>3 DEF HasChecked, Attempt, CandOf
<1>7. HostIsSound' /\ Recorded("stale-base", Attempt(cand))' # {}
  <2>1. CASE Recorded("stale-base", job.attempt) = {}
    <3>1. PICK i \in DOMAIN prs : job.pr = i
      BY <1>2
    <3> QED BY <1>0, <1>1, <1>2, <1>3, <1>a, <2>1, <3>1, RecordIsWritten DEF PersistStaleDisposition, Kinds
  <2>2. CASE Recorded("stale-base", job.attempt) # {}
    <3>1. UNCHANGED <<main, prep, records, prs, release>> /\ HostTypes' /\ MergesAreOnMain'
      BY <1>0, <1>1, <2>2 DEF PersistStaleDisposition, HostIsSound, HostTypes, MergesAreOnMain, host, counts
    <3>2. HostIsSound'
      BY <1>0, <3>1, Standing, HostStays DEF HostIsSound
    <3> QED BY <1>a, <2>2, <3>1, <3>2, RecordedStays
  <2> QED BY <2>1, <2>2
<1>8. IsNamed(r)' /\ Prepares(r)'
  BY <1>0, <1>1, <1>6 DEF IsNamed, Prepares, Continues, Tip
<1>9. HasItsPullRequest(r)'
  BY <1>0, <1>1, <1>2, <1>6 DEF HasItsPullRequest, Continues, Finding, Exposing, Deciding,
                                 Finishing, Publishing
<1>10. HasChecked(r)'
  BY <1>6, <1>7, <1>a DEF HasChecked, Continues, Exposing, Deciding, Checked
<1>11. HasItsMerge(r)' /\ IsAlone(r)'
  BY <1>0, <1>1, <1>6 DEF HasItsMerge, IsAlone, OpenPrs, Continues, Finishing, Publishing
<1> QED BY <1>4, <1>7, <1>8, <1>9, <1>10, <1>11, RunActs DEF IsSound

LEMMA PersistsPrCreated ==
  ASSUME Inductive, PersistPrCreated
  PROVE  Inductive'
<1>0. /\ HostIsSound /\ IsSound(job) /\ IsNamed(job) /\ HasItsPullRequest(job) /\ HasChecked(job)
      /\ IsAlone(job) /\ job \in Job
  BY DEF Inductive, IsSound, IsNamed
<1>1. /\ job.at = "pr-created" /\ UNCHANGED <<host, prep, done, counts>> /\ Go("gates")
      /\ UNCHANGED <<main, prs, release, meddled>> /\ Record("pr-created")
  BY DEF PersistPrCreated, At, host, counts
<1>2. job.pr \in DOMAIN prs /\ prs[job.pr].cand = CandOf(job) /\ job.pr # 0
  BY <1>0, <1>1 DEF HasItsPullRequest
<1>3. PICK cand \in Candidates : cand = CandOf(job) /\ cand = Cand
  BY <1>0, <1>1, RunHasItsBase DEF Cand, CandOf
<1>4. PICK i \in DOMAIN prs : job.pr = i
  BY <1>2
<1>5. Recorded("pr-created", Attempt(cand)) = {} /\ OnlyOf("stale-base", cand)
  <2>1. Attempt(cand) = job.attempt
    BY <1>3 DEF Attempt, CandOf
  <2> QED BY <1>0, <1>1, <2>1, NoneIsOnly DEF HasChecked
<1>6. HostIsSound' /\ i \in Written("pr-created", cand)'
  BY <1>0, <1>1, <1>2, <1>3, <1>4, <1>5, RecordIsWritten DEF Kinds
<1>7. PICK r : r = job'
  OBVIOUS
<1>8. "gates" \in Places
  BY DEF Places, Deciding
<1>9. Continues(r, "gates")
  BY <1>0, <1>1, <1>7, <1>8, RunGoes DEF Go
<1>10. IsNamed(r)' /\ Prepares(r)'
  BY <1>0, <1>1, <1>9 DEF IsNamed, Prepares, Continues, Tip
<1>11. HasItsPullRequest(r)'
  BY <1>0, <1>1, <1>2, <1>9 DEF HasItsPullRequest, Continues, Finding, Exposing, Deciding,
                                 Finishing, Publishing
<1>12. HasChecked(r)'
  BY <1>3, <1>4, <1>6, <1>9 DEF HasChecked, Continues, Exposing, Deciding, Checked
<1>13. HasItsMerge(r)' /\ IsAlone(r)'
  BY <1>0, <1>1, <1>9 DEF HasItsMerge, IsAlone, OpenPrs, Continues, Finishing, Publishing
<1> QED BY <1>6, <1>7, <1>10, <1>11, <1>12, <1>13, RunActs DEF IsSound

LEMMA PersistsMerged ==
  ASSUME Inductive, PersistMerged
  PROVE  Inductive'
<1>0. /\ HostIsSound /\ IsSound(job) /\ IsNamed(job) /\ HasItsPullRequest(job) /\ HasItsMerge(job)
      /\ IsAlone(job) /\ job \in Job
  BY DEF Inductive, IsSound, IsNamed
<1>1. /\ job.at = "merged" /\ UNCHANGED <<host, prep, done, counts>> /\ Go("tree")
      /\ UNCHANGED <<main, prs, release, meddled>>
  BY DEF PersistMerged, At, host, counts
<1>2. /\ job.pr \in DOMAIN prs /\ prs[job.pr].cand = CandOf(job) /\ job.pr # 0
      /\ job.merged \in DOMAIN main /\ main[job.merged].pr = job.pr
  BY <1>0, <1>1 DEF HasItsPullRequest, HasItsMerge, Finishing
<1>3. prs[job.pr].state = "merged"
  BY <1>0, <1>2 DEF HostIsSound, MergesAreOnMain
<1>4. PICK cand \in Candidates : cand = CandOf(job) /\ cand = Cand
  BY <1>0, <1>1, RunHasItsBase DEF Cand, CandOf
<1>5. PICK r : r = job'
  OBVIOUS
<1>6. "tree" \in Places
  BY DEF Places, Finishing
<1>7. Continues(r, "tree")
  BY <1>0, <1>1, <1>5, <1>6, RunGoes DEF Go
<1>8. HostIsSound'
  <2>1. CASE Recorded("merged", job.attempt) = {}
    <3>1. PICK i \in DOMAIN prs : job.pr = i
      BY <1>2
    <3>2. Attempt(cand) = job.attempt
      BY <1>4 DEF Attempt, CandOf
    <3> QED BY <1>0, <1>1, <1>2, <1>3, <1>4, <2>1, <3>1, <3>2, RecordIsWritten DEF PersistMerged, Kinds
  <2>2. CASE Recorded("merged", job.attempt) # {}
    <3>1. UNCHANGED <<main, prep, records, prs, release>> /\ HostTypes' /\ MergesAreOnMain'
      BY <1>0, <1>1, <2>2 DEF PersistMerged, HostIsSound, HostTypes, MergesAreOnMain, host, counts
    <3> QED BY <1>0, <3>1, Standing, HostStays DEF HostIsSound
  <2> QED BY <2>1, <2>2
<1>9. IsNamed(r)' /\ Prepares(r)'
  BY <1>0, <1>1, <1>7 DEF IsNamed, Prepares, Continues, Tip
<1>10. HasItsPullRequest(r)'
  BY <1>0, <1>1, <1>2, <1>7 DEF HasItsPullRequest, Continues, Finding, Exposing, Deciding,
                                 Finishing, Publishing
<1>11. HasChecked(r)' /\ HasItsMerge(r)' /\ IsAlone(r)'
  BY <1>0, <1>1, <1>2, <1>7 DEF HasChecked, HasItsMerge, IsAlone, OpenPrs, Continues,
                                 Exposing, Deciding, Checked, Finishing, Publishing
<1> QED BY <1>5, <1>8, <1>9, <1>10, <1>11, RunActs DEF IsSound

LEMMA Uploads ==
  ASSUME Inductive, UploadPreparation
  PROVE  Inductive' /\ prep[CandOf(job)] = None
<1>0. /\ HostIsSound /\ IsSound(job) /\ IsNamed(job) /\ HasItsPullRequest(job) /\ Prepares(job)
      /\ IsAlone(job) /\ job \in Job
  BY DEF Inductive, IsSound, IsNamed
<1>1. /\ job.at = "upload" /\ Go("conflict") /\ UNCHANGED <<main, prs, release, meddled, records>>
      /\ UNCHANGED <<host, done, counts>>
  BY DEF UploadPreparation, At, host, counts
<1>2. PICK cand \in Candidates : cand = CandOf(job) /\ cand = Cand
  BY <1>0, <1>1, RunHasItsBase DEF Cand, CandOf
<1>3. PICK sha \in Nat : sha = job.sha /\ sha <= Tip
  BY <1>0 DEF IsNamed, Job
<1>4. prep' = [prep EXCEPT ![cand] = sha]
  BY <1>2, <1>3 DEF UploadPreparation
<1>5. prep \in [Candidates -> Nat \cup {None}] /\ sha # None
  BY <1>0, OperationAssumption DEF HostIsSound, HostTypes
<1>6. /\ prep' \in [Candidates -> Nat \cup {None}] /\ prep'[cand] = sha
      /\ \A c \in Candidates : c # cand => prep'[c] = prep[c]
  BY <1>4, <1>5
<1>7. HostIsSound'
  <2>1. /\ HostTypes' /\ MergesAreOnMain' /\ RecordsAreTrue' /\ RecordedOnce' /\ ReleasesAreOfMain'
        /\ DispositionsAreOwn'
    BY <1>0, <1>1, <1>6 DEF HostIsSound, HostTypes, MergesAreOnMain, RecordsAreTrue, RecordedOnce,
                            CheckpointsAreAmbiguous, DispositionsAreOwn, ReleasesAreOfMain, host, counts
  <2>2. PreparationsAreOfMain'
    BY <1>0, <1>1, <1>3, <1>6 DEF HostIsSound, PreparationsAreOfMain, Tip
  <2> QED BY <2>1, <2>2 DEF HostIsSound
<1>8. PICK r : r = job'
  OBVIOUS
<1>9. "conflict" \in Places
  BY DEF Places
<1>10. Continues(r, "conflict") /\ r.pr = 0
  BY <1>0, <1>1, <1>8, <1>9, RunGoes, ZenonT(40) DEF Go, HasItsPullRequest, Finding, Continues
<1>11. IsNamed(r)' /\ Prepares(r)'
  BY <1>0, <1>1, <1>2, <1>5, <1>6, <1>10 DEF IsNamed, Prepares, Continues, Tip
<1>12. HasItsPullRequest(r)' /\ HasChecked(r)' /\ HasItsMerge(r)' /\ IsAlone(r)'
  BY <1>0, <1>1, <1>10 DEF HasItsPullRequest, HasChecked, HasItsMerge, IsAlone, OpenPrs, Continues,
     Finding, Exposing, Deciding, Checked, Finishing, Publishing
<1>13. prep[CandOf(job)] = None
  BY <1>0, <1>1 DEF Prepares
<1> QED BY <1>7, <1>8, <1>11, <1>12, <1>13, RunActs DEF IsSound

\* Nothing the run stands on changes.
LEMMA RunStandsStill ==
  ASSUME Inductive, HostTypes', UNCHANGED <<main, prep, records, prs, release, meddled>>,
         NEW r, job' = r, IsSound(r), IsAlone(r)
  PROVE  Inductive'
<1>1. MergesAreOnMain' /\ Grows
  BY Standing DEF Inductive, HostIsSound, MergesAreOnMain
<1>2. HostIsSound'
  BY <1>1, HostStays DEF Inductive
<1>3. IsAlone(r)'
  BY DEF IsAlone, OpenPrs, PrsOf
<1> QED BY <1>1, <1>2, <1>3, RunStandsOn

LEMMA LosesAnswer ==
  ASSUME Inductive, AnswerIsLost, HostTypes', UNCHANGED <<main, prep, records, prs, release>>
  PROVE  Inductive'
<1>1. PICK r : r = job'
  OBVIOUS
<1>2. r = [job EXCEPT !.tries = @ + 1] /\ meddled' = meddled
  BY <1>1 DEF AnswerIsLost, Mishap
<1>3. IsSound(r) /\ IsAlone(r)
  BY <1>2, RunTriesAgain DEF Inductive
<1> QED BY <1>1, <1>2, <1>3, RunStandsStill

LEMMA Ends ==
  ASSUME Inductive, Fail, HostTypes', UNCHANGED <<main, prep, records, prs, release, meddled>>
  PROVE  Inductive'
  BY IdleIsSound, RunStandsStill DEF Inductive, Fail

LEMMA JobIsOver ==
  ASSUME Inductive, JobEnds
  PROVE  Inductive'
<1>1. HostTypes'
  BY DEF JobEnds, Mishap, Inductive, HostIsSound, HostTypes, host, durable
<1> QED BY <1>1, Ends DEF JobEnds, Mishap, host, durable

LEMMA WaitsForPublication ==
  ASSUME Inductive, WaitForPublication
  PROVE  Inductive'
<1>1. job.version \in Versions
  BY DEF WaitForPublication, At, Inductive, IsSound, IsNamed
<1>2. HostTypes'
  BY <1>1 DEF WaitForPublication, Inductive, HostIsSound, HostTypes, host, durable, counts
<1> QED BY <1>2, Ends DEF WaitForPublication, host, durable, counts

LEMMA Exposes ==
  ASSUME Inductive, ExposeCandidateRef
  PROVE  Inductive'
<1>0. /\ HostIsSound /\ HostTypes /\ IsSound(job) /\ IsNamed(job) /\ HasItsPullRequest(job) /\ HasChecked(job)
      /\ IsAlone(job) /\ job \in Job
  BY DEF Inductive, HostIsSound, IsSound, IsNamed
<1>1. /\ job.at = "expose" /\ UNCHANGED <<main, prs, protected, release, tag, image, prep, records, done>>
  BY DEF ExposeCandidateRef, At, durable
<1>2. branch' \in {branch, [branch EXCEPT ![Cand] = "prepared"]}
  BY DEF ExposeCandidateRef
<1>3. ASSUME UNCHANGED counts \/ AnswerIsLost PROVE HostTypes' /\ meddled' = meddled
  <2>1. branch' \in [Candidates -> {"none", "prepared", "edited"}]
    BY <1>0, <1>2 DEF HostTypes
  <2>2. mishaps' \in Nat /\ meddled' = meddled
    BY <1>0, <1>3 DEF HostTypes, counts, AnswerIsLost, Mishap
  <2> QED BY <1>0, <1>1, <2>1, <2>2 DEF HostTypes
<1>4. ASSUME Go("pull request"), UNCHANGED counts PROVE Inductive'
  <2>1. "pull request" \in Places
    BY DEF Places, Exposing
  <2>2. PICK r : r = job'
    OBVIOUS
  <2>3. Continues(r, "pull request")
    BY <1>0, <1>4, <2>1, <2>2, RunGoes DEF Go
  <2>4. IsSound(r) /\ IsAlone(r)
    BY <1>0, <1>1, <2>3
       DEF Continues, IsSound, IsNamed, Prepares, HasItsPullRequest, HasChecked, HasItsMerge, IsAlone,
           Finding, Exposing, Deciding, Checked, Publishing, Finishing
  <2> QED BY <1>1, <1>3, <1>4, <2>2, <2>4, RunStandsStill
<1>5. ASSUME Fail, UNCHANGED counts PROVE Inductive'
  BY <1>1, <1>3, <1>5, Ends
<1>6. ASSUME AnswerIsLost PROVE Inductive'
  BY <1>1, <1>3, <1>6, LosesAnswer
<1> QED BY <1>4, <1>5, <1>6 DEF ExposeCandidateRef, Answered

\* The release of a version becomes one of a commit that has gone through it all.
LEMMA ReleaseChanges ==
  ASSUME HostIsSound, HostTypes', UNCHANGED <<main, prep, records, prs>>, NEW v \in Versions,
         NEW rel, rel.state # "none", rel.target \in DOMAIN main,
         main[rel.target].pr # 0, Version(prs[main[rel.target].pr].cand) = v,
         main[rel.target].exact, main[rel.target].edge = "passed",
         release' = [release EXCEPT ![v] = rel]
  PROVE  HostIsSound' /\ Grows
<1>1. /\ release'[v] = rel
      /\ \A w \in Versions : w # v => release'[w] = release[w]
  BY DEF HostIsSound, HostTypes
<1>2. Grows
  BY <1>1 DEF Grows, Tip, HostIsSound, HostTypes
<1>3. /\ MergesAreOnMain' /\ RecordsAreTrue' /\ RecordedOnce' /\ PreparationsAreOfMain'
      /\ DispositionsAreOwn'
  BY DEF HostIsSound, MergesAreOnMain, RecordsAreTrue, RecordedOnce, CheckpointsAreAmbiguous,
         DispositionsAreOwn, PreparationsAreOfMain, Tip
<1>4. ReleasesAreOfMain'
  <2> SUFFICES ASSUME NEW w \in Versions, release'[w].state # "none"
               PROVE  LET commit == main[release'[w].target]
                      IN  /\ release'[w].target \in DOMAIN main
                          /\ commit.pr # 0 /\ Version(prs[commit.pr].cand) = w
                          /\ commit.exact
                          /\ commit.edge = "passed"
    BY DEF ReleasesAreOfMain
  <2>1. CASE w = v
    BY <1>1, <2>1
  <2>2. CASE w # v
    BY <1>1, <2>2 DEF HostIsSound, ReleasesAreOfMain
  <2> QED BY <2>1, <2>2
<1> QED BY <1>2, <1>3, <1>4 DEF HostIsSound

\* What the run releases is the commit its pull request was merged in.
LEMMA RunReleases ==
  ASSUME Inductive, job.at \in Publishing
  PROVE  /\ job.version \in Versions /\ job.merged \in DOMAIN main /\ job.merged \in Nat
         /\ main[job.merged].pr # 0 /\ Version(prs[main[job.merged].pr].cand) = job.version
         /\ main[job.merged].exact /\ main[job.merged].edge = "passed"
<1>1. HostIsSound /\ IsNamed(job) /\ HasItsPullRequest(job) /\ HasItsMerge(job)
  BY DEF Inductive, IsSound
<1>2. job.version \in Versions /\ job.merged \in Nat
  BY <1>1 DEF IsNamed, Publishing, Job
<1>3. job.merged \in DOMAIN main /\ main[job.merged].pr = job.pr /\ main[job.merged].exact
      /\ main[job.merged].edge = "passed"
  BY <1>1 DEF HasItsMerge, Finishing
<1>4. job.pr # 0 /\ prs[job.pr].cand = CandOf(job)
  BY <1>1 DEF HasItsPullRequest, Finishing
<1>5. CandOf(job)[1] = job.version
  BY DEF CandOf
<1> QED BY <1>2, <1>3, <1>4, <1>5 DEF Version

LEMMA Drafts ==
  ASSUME Inductive, CreateRelease
  PROVE  Inductive'
<1>0. /\ HostIsSound /\ HostTypes /\ IsSound(job) /\ IsNamed(job) /\ HasItsPullRequest(job) /\ HasChecked(job)
      /\ HasItsMerge(job) /\ IsAlone(job) /\ job \in Job /\ Prepares(job)
  BY DEF Inductive, HostIsSound, IsSound, IsNamed
<1>1. /\ job.at = "release"
      /\ UNCHANGED <<main, branch, prs, protected, tag, image, prep, records, done>>
  BY DEF CreateRelease, At, durable
<1>2. PICK draft : draft = [state |-> "draft", target |-> job.merged]
  OBVIOUS
<1>3. /\ draft.state = "draft" /\ draft.target = job.merged
      /\ draft \in [state : {"none", "draft", "published"}, target : Nat]
  BY <1>0, <1>2 DEF Job
<1>4. release' \in {release, [release EXCEPT ![job.version] = draft]}
  BY <1>2 DEF CreateRelease
<1>5. ASSUME UNCHANGED counts \/ AnswerIsLost PROVE HostTypes' /\ meddled' = meddled
  <2>1. release' \in [Versions -> [state : {"none", "draft", "published"}, target : Nat]]
    BY <1>0, <1>3, <1>4 DEF HostTypes
  <2>2. mishaps' \in Nat /\ meddled' = meddled
    BY <1>0, <1>5 DEF HostTypes, counts, AnswerIsLost, Mishap
  <2> QED BY <1>0, <1>1, <2>1, <2>2 DEF HostTypes
<1>6. ASSUME UNCHANGED counts \/ AnswerIsLost PROVE HostIsSound' /\ Grows
  <2>1. CASE UNCHANGED release
    BY <1>0, <1>1, <1>5, <1>6, <2>1, Standing, HostStays DEF HostIsSound, MergesAreOnMain
  <2>2. CASE release' = [release EXCEPT ![job.version] = draft]
    BY <1>0, <1>1, <1>3, <1>5, <1>6, <2>2, RunReleases, ReleaseChanges DEF Publishing
  <2> QED BY <1>4, <2>1, <2>2
<1>7. ASSUME Go("read back"), UNCHANGED counts, release'[job.version].state # "none" PROVE Inductive'
  <2>1. "read back" \in Places
    BY DEF Places, Finishing, Publishing
  <2>2. PICK r : r = job'
    OBVIOUS
  <2>3. Continues(r, "read back")
    BY <1>0, <1>7, <2>1, <2>2, RunGoes DEF Go
  <2>4. IsNamed(r)' /\ Prepares(r)'
    BY <1>0, <1>1, <2>3 DEF IsNamed, Prepares, Continues, Tip
  <2>5. HasItsPullRequest(r)' /\ HasChecked(r)'
    BY <1>0, <1>1, <2>3 DEF HasItsPullRequest, HasChecked, Continues,
       Finding, Exposing, Deciding, Checked, Finishing, Publishing
  <2>6. HasItsMerge(r)'
    BY <1>0, <1>1, <1>7, <2>3 DEF HasItsMerge, Continues, Finishing, Publishing
  <2>7. IsAlone(r)'
    <3>1. OpenPrs' = OpenPrs /\ meddled' = meddled /\ r.at = "read back"
      BY <1>1, <1>5, <1>7, <2>3 DEF OpenPrs, Continues
    <3> QED BY <1>0, <3>1 DEF IsAlone
  <2> QED BY <1>6, <1>7, <2>2, <2>4, <2>5, <2>6, <2>7, RunActs DEF IsSound
<1>8. ASSUME Fail, UNCHANGED counts, UNCHANGED release PROVE Inductive'
  BY <1>1, <1>5, <1>8, Ends
<1>9. ASSUME AnswerIsLost PROVE Inductive'
  <2>1. PICK r : r = job'
    OBVIOUS
  <2>2. r = [job EXCEPT !.tries = @ + 1]
    BY <1>9, <2>1 DEF AnswerIsLost
  <2>3. IsSound(r) /\ IsAlone(r)
    BY <1>0, <2>2, RunTriesAgain
  <2>4. IsAlone(r)'
    BY <1>1, <1>5, <1>9, <2>3 DEF IsAlone, OpenPrs, PrsOf
  <2> QED BY <1>1, <1>6, <1>9, <2>1, <2>3, <2>4, RunStandsOn
<1>10. job.version \in Versions
  BY <1>1, RunReleases DEF Publishing
<1>11. release' = [release EXCEPT ![job.version] = draft] => release'[job.version].state # "none"
  BY <1>0, <1>3, <1>10 DEF HostTypes
<1> QED BY <1>2, <1>7, <1>8, <1>9, <1>11 DEF CreateRelease, Answered

LEMMA Publishes ==
  ASSUME Inductive, PublishRelease
  PROVE  Inductive'
<1>0. /\ HostIsSound /\ HostTypes /\ IsSound(job) /\ IsNamed(job) /\ HasItsPullRequest(job) /\ HasChecked(job)
      /\ HasItsMerge(job) /\ IsAlone(job) /\ job \in Job /\ Prepares(job)
  BY DEF Inductive, HostIsSound, IsSound, IsNamed
<1>1. /\ job.at = "publish"
      /\ UNCHANGED <<main, branch, prs, protected, image, prep, records, done>>
  BY DEF PublishRelease, At, durable
<1>2. job.version \in Versions /\ job.merged \in Nat
  BY <1>1, RunReleases DEF Publishing
<1>3. PICK v \in Versions : v = job.version
  BY <1>2
<1>4. PICK rel : rel = [release[v] EXCEPT !.state = "published"]
  OBVIOUS
<1>5. release[v] \in [state : {"none", "draft", "published"}, target : Nat] /\ release[v].state # "none"
  BY <1>0, <1>1, <1>3 DEF HostTypes, HasItsMerge, Publishing
<1>6. /\ rel \in [state : {"none", "draft", "published"}, target : Nat]
      /\ rel.state = "published" /\ rel.target = release[v].target
  BY <1>4, <1>5
<1>7. /\ release' \in {release, [release EXCEPT ![v] = rel]}
      /\ tag' \in {tag, [tag EXCEPT ![v] = IF @ = 0 THEN job.merged ELSE @]}
  BY <1>3, <1>4 DEF PublishRelease
<1>8. ASSUME UNCHANGED counts \/ AnswerIsLost PROVE HostTypes' /\ meddled' = meddled
  <2>1. release' \in [Versions -> [state : {"none", "draft", "published"}, target : Nat]]
    BY <1>0, <1>6, <1>7 DEF HostTypes
  <2>2. tag' \in [Versions -> Nat]
    BY <1>0, <1>2, <1>7 DEF HostTypes
  <2>3. mishaps' \in Nat /\ meddled' = meddled
    BY <1>0, <1>8 DEF HostTypes, counts, AnswerIsLost, Mishap
  <2> QED BY <1>0, <1>1, <2>1, <2>2, <2>3 DEF HostTypes
<1>9. ASSUME UNCHANGED counts \/ AnswerIsLost PROVE HostIsSound' /\ Grows
  <2>1. CASE UNCHANGED release
    BY <1>0, <1>1, <1>8, <1>9, <2>1, Standing, HostStays DEF HostIsSound, MergesAreOnMain
  <2>2. CASE release' = [release EXCEPT ![v] = rel]
    <3>1. PICK n : n = release[v].target
      OBVIOUS
    <3>2. /\ n \in DOMAIN main /\ main[n].pr # 0 /\ Version(prs[main[n].pr].cand) = v
          /\ main[n].exact /\ main[n].edge = "passed"
      BY <1>0, <1>5, <3>1 DEF HostIsSound, ReleasesAreOfMain
    <3> QED BY <1>0, <1>1, <1>6, <1>8, <1>9, <2>2, <3>1, <3>2, ReleaseChanges
  <2> QED BY <1>7, <2>1, <2>2
<1>10. ASSUME Go("check tag"), UNCHANGED counts PROVE Inductive'
  <2>1. "check tag" \in Places
    BY DEF Places, Finishing, Publishing
  <2>2. PICK r : r = job'
    OBVIOUS
  <2>3. Continues(r, "check tag")
    BY <1>0, <1>10, <2>1, <2>2, RunGoes DEF Go
  <2>4. IsSound(r) /\ IsAlone(r)
    BY <1>0, <1>1, <2>3
       DEF Continues, IsSound, IsNamed, Prepares, HasItsPullRequest, HasChecked, HasItsMerge, IsAlone,
           Finding, Exposing, Deciding, Checked, Publishing, Finishing
  <2>5. IsAlone(r)'
    BY <1>1, <1>8, <1>10, <2>4 DEF IsAlone, OpenPrs, PrsOf
  <2> QED BY <1>1, <1>9, <1>10, <2>2, <2>4, <2>5, RunStandsOn
<1>11. ASSUME Fail, UNCHANGED counts, UNCHANGED release PROVE Inductive'
  BY <1>1, <1>8, <1>11, Ends
<1>12. ASSUME AnswerIsLost PROVE Inductive'
  <2>1. PICK r : r = job'
    OBVIOUS
  <2>2. r = [job EXCEPT !.tries = @ + 1]
    BY <1>12, <2>1 DEF AnswerIsLost
  <2>3. IsSound(r) /\ IsAlone(r)
    BY <1>0, <2>2, RunTriesAgain
  <2>4. IsAlone(r)'
    BY <1>1, <1>8, <1>12, <2>3 DEF IsAlone, OpenPrs, PrsOf
  <2> QED BY <1>1, <1>9, <1>12, <2>1, <2>3, <2>4, RunStandsOn
<1> QED BY <1>10, <1>11, <1>12 DEF PublishRelease, Answered

LEMMA Closes ==
  ASSUME Inductive, Close
  PROVE  Inductive'
<1>0. /\ HostIsSound /\ HostTypes /\ IsSound(job) /\ IsNamed(job) /\ HasItsPullRequest(job) /\ HasChecked(job)
      /\ IsAlone(job) /\ job \in Job /\ Prepares(job)
  BY DEF Inductive, HostIsSound, IsSound, IsNamed
<1>1. /\ job.at = "close"
      /\ UNCHANGED <<main, branch, protected, release, tag, image, prep, records, done>>
  BY DEF Close, At, durable
<1>2. PICK i \in DOMAIN prs : i = job.pr
  BY <1>0, <1>1 DEF HasItsPullRequest
<1>3. prs[i] \in PullRequest /\ prs \in Seq(PullRequest)
  BY <1>0 DEF HostTypes
<1>4. PICK p : p = [prs[i] EXCEPT !.state = IF @ = "open" THEN "closed" ELSE @]
  OBVIOUS
<1>5. /\ p \in PullRequest /\ p.cand = prs[i].cand /\ (p.state = "merged" <=> prs[i].state = "merged")
      /\ p.checks = prs[i].checks /\ (p.state = "open" => prs[i].state = "open")
  BY <1>3, <1>4 DEF PullRequest
<1>6. prs' \in {prs, [prs EXCEPT ![i] = p]}
  BY <1>2, <1>4 DEF Close
<1>7. ASSUME UNCHANGED counts \/ AnswerIsLost
      PROVE  HostIsSound' /\ Grows /\ meddled' = meddled /\ OpenPrs' \subseteq OpenPrs
  <2>1. mishaps' \in Nat /\ meddled' \in Nat /\ meddled' = meddled
    BY <1>0, <1>7 DEF HostTypes, counts, AnswerIsLost, Mishap
  <2>2. Grows /\ MergesAreOnMain' /\ prs' \in Seq(PullRequest) /\ OpenPrs' \subseteq OpenPrs
    <3>1. CASE UNCHANGED prs
      BY <1>0, <1>1, <1>3, <3>1, Standing DEF HostIsSound, MergesAreOnMain, OpenPrs
    <3>2. CASE prs' = [prs EXCEPT ![i] = p]
      BY <1>0, <1>1, <1>5, <3>2, PullRequestChanges DEF HostIsSound, OpenPrs
    <3> QED BY <1>6, <3>1, <3>2
  <2>3. HostTypes'
    BY <1>0, <1>1, <2>1, <2>2 DEF HostTypes
  <2> QED BY <1>0, <1>1, <2>1, <2>2, <2>3, HostStays
<1>8. ASSUME UNCHANGED counts \/ AnswerIsLost, NEW r, job' = r, IsSound(r),
             r.at \notin {"adopt", "protection", "base", "expose", "pull request"}
      PROVE  Inductive'
  <2>1. IsAlone(r)'
    BY <1>0, <1>7, <1>8 DEF IsAlone
  <2> QED BY <1>1, <1>7, <1>8, <2>1, RunStandsOn
<1>9. ASSUME Fail, UNCHANGED counts PROVE Inductive'
  <2>1. Idle.at = "idle"
    BY DEF Idle
  <2> QED BY <1>0, <1>8, <1>9, <2>1, IdleIsSound DEF Fail
<1>10. ASSUME AnswerIsLost PROVE Inductive'
  <2>1. PICK r : r = job'
    OBVIOUS
  <2>2. r = [job EXCEPT !.tries = @ + 1]
    BY <1>10, <2>1 DEF AnswerIsLost
  <2>3. IsSound(r) /\ r.at = "close"
    BY <1>0, <1>1, <2>2, RunTriesAgain DEF Job
  <2> QED BY <1>8, <1>10, <2>1, <2>3
<1>11. ASSUME job.resolving, Replace, UNCHANGED counts PROVE Inductive'
  <2>1. CASE job.attempt >= MaxAttempts
    BY <1>9, <1>11, <2>1 DEF Replace
  <2>2. CASE ~(job.attempt >= MaxAttempts)
    <3>1. job.attempt < MaxAttempts
      BY <1>0, <1>1, <2>2, OperationAssumption DEF IsNamed
    <3>2. PICK r : r = job'
      OBVIOUS
    <3>3. r = [job EXCEPT !.at = "prepare", !.attempt = @ + 1, !.pr = 0, !.tries = 0]
      BY <1>11, <2>2, <3>2 DEF Replace
    <3>4. IsSound(r) /\ r.at = "prepare"
      BY <1>0, <1>1, <1>11, <3>1, <3>3, RunReplaces DEF Job
    <3> QED BY <1>8, <1>11, <3>2, <3>4
  <2> QED BY <2>1, <2>2
<1> QED BY <1>9, <1>10, <1>11 DEF Close, GiveUp

LEMMA Creates ==
  ASSUME Inductive, CreatePullRequest
  PROVE  Inductive'
<1>0. /\ HostIsSound /\ HostTypes /\ MergesAreOnMain /\ IsSound(job) /\ IsNamed(job) /\ HasItsPullRequest(job)
      /\ HasChecked(job) /\ IsAlone(job) /\ job \in Job /\ Prepares(job)
  BY DEF Inductive, HostIsSound, IsSound, IsNamed
<1>1. /\ job.at = "pull request"
      /\ UNCHANGED <<main, branch, protected, release, tag, image, prep, records, done>>
  BY DEF CreatePullRequest, At, durable
<1>2. PICK cand \in Candidates : cand = CandOf(job) /\ cand = Cand
  BY <1>0, <1>1, RunHasItsBase DEF Cand, CandOf
<1>3. PICK p : p = [cand |-> Cand, state |-> "open", disputed |-> FALSE, checks |-> "none"]
  OBVIOUS
<1>4. p \in PullRequest /\ p.cand = cand /\ p.state = "open"
  BY <1>2, <1>3 DEF PullRequest, Results
<1>5. "pr-created" \in Places
  BY DEF Places
<1>6. Recorded("pr-created", job.attempt) = {} /\ Recorded("stale-base", job.attempt) = {}
  BY <1>0, <1>1, <1>2 DEF HasChecked, Exposing
<1>7. ASSUME NEW i \in MatchingPrs, UNCHANGED <<prs, counts>>,
             job' = [job EXCEPT !.at = "pr-created", !.pr = i, !.tries = 0]
      PROVE  Inductive'
  <2>1. i \in DOMAIN prs /\ i \in Nat /\ i # 0 /\ prs[i].cand = cand
    BY <1>0, <1>2, NumbersArePositive DEF MatchingPrs, PrsOf
  <2>2. PICK r : r = job'
    OBVIOUS
  <2>3. /\ r \in Job /\ r.at = "pr-created" /\ r.version = job.version /\ r.attempt = job.attempt
        /\ r.sha = job.sha /\ r.pr = i /\ CandOf(r) = CandOf(job)
    BY <1>0, <1>5, <1>7, <2>1, <2>2 DEF Job, CandOf
  <2>4. IsSound(r) /\ IsAlone(r)
    BY <1>0, <1>1, <1>2, <1>6, <2>1, <2>3
       DEF IsSound, IsNamed, Prepares, HasItsPullRequest, HasChecked, HasItsMerge, IsAlone,
           Finding, Exposing, Deciding, Checked, Publishing, Finishing
  <2>5. HostTypes'
    BY <1>0, <1>1, <1>7 DEF HostTypes, counts
  <2> QED BY <1>1, <1>7, <2>2, <2>4, <2>5, RunStandsStill DEF counts
<1>8. ASSUME Fail, UNCHANGED <<prs, counts>> PROVE Inductive'
  <2>1. HostTypes'
    BY <1>0, <1>1, <1>8 DEF HostTypes, counts
  <2> QED BY <1>1, <1>8, <2>1, Ends DEF counts
<1>9. ASSUME AnswerIsLost, UNCHANGED prs PROVE Inductive'
  <2>0. mishaps' \in Nat /\ UNCHANGED meddled
    BY <1>0, <1>9 DEF HostTypes, AnswerIsLost, Mishap
  <2>1. HostTypes'
    BY <1>0, <1>1, <1>9, <2>0 DEF HostTypes
  <2> QED BY <1>1, <1>9, <2>1, LosesAnswer
<1>10. ASSUME MatchingPrs = {}, prs' = Append(prs, p), UNCHANGED counts \/ AnswerIsLost
       PROVE  /\ HostIsSound' /\ Grows /\ meddled' = meddled
              /\ Len(prs') \in Nat /\ Len(prs') # 0
              /\ Len(prs') \in DOMAIN prs' /\ prs'[Len(prs')].cand = cand
              /\ meddled = 0 => OpenPrs' = {Len(prs')}
              /\ PrsOf(cand)' = PrsOf(cand) \cup {Len(prs')}
  <2>1. mishaps' \in Nat /\ meddled' \in Nat /\ meddled' = meddled
    BY <1>0, <1>10 DEF HostTypes, counts, AnswerIsLost, Mishap
  <2>2. /\ Grows /\ MergesAreOnMain' /\ prs' \in Seq(PullRequest)
        /\ Len(prs') = Len(prs) + 1 /\ DOMAIN prs' = DOMAIN prs \cup {Len(prs')}
        /\ prs'[Len(prs')] = p
        /\ \A j \in DOMAIN prs : prs'[j] = prs[j]
    BY <1>0, <1>1, <1>4, <1>10, PullRequestOpens
  <2>3. HostTypes'
    BY <1>0, <1>1, <2>1, <2>2 DEF HostTypes
  <2>4. HostIsSound'
    BY <1>0, <1>1, <2>2, <2>3, HostStays
  <2>5. Len(prs') \in Nat /\ Len(prs') # 0
    BY <1>0, <2>2 DEF HostTypes
  <2>6. OpenPrs' = OpenPrs \cup {Len(prs')} /\ PrsOf(cand)' = PrsOf(cand) \cup {Len(prs')}
    BY <1>4, <2>2 DEF OpenPrs, PrsOf
  <2>7. meddled = 0 => OpenPrs = {}
    BY <1>0, <1>1, <1>2, <1>10 DEF IsAlone, MatchingPrs
  <2> QED BY <1>4, <2>1, <2>2, <2>4, <2>5, <2>6, <2>7
<1>11. ASSUME MatchingPrs = {}, prs' = Append(prs, p), UNCHANGED counts,
              job' = [job EXCEPT !.at = "pr-created", !.pr = Len(prs'), !.tries = 0]
       PROVE  Inductive'
  <2>1. PICK i : i = Len(prs')
    OBVIOUS
  <2>2. PICK r : r = job'
    OBVIOUS
  <2>3. /\ HostIsSound' /\ meddled' = meddled /\ i \in Nat /\ i # 0
        /\ i \in DOMAIN prs' /\ prs'[i].cand = cand
        /\ meddled = 0 => OpenPrs' = {i}
    BY <1>10, <1>11, <2>1
  <2>4. /\ r \in Job /\ r.at = "pr-created" /\ r.version = job.version /\ r.attempt = job.attempt
        /\ r.sha = job.sha /\ r.pr = i /\ CandOf(r) = CandOf(job)
    BY <1>0, <1>5, <1>11, <2>1, <2>2, <2>3 DEF Job, CandOf
  <2>5. IsNamed(r)' /\ Prepares(r)'
    BY <1>0, <1>1, <2>4 DEF IsNamed, Prepares, Tip
  <2>6. HasItsPullRequest(r)' /\ HasItsMerge(r)'
    BY <1>2, <2>3, <2>4 DEF HasItsPullRequest, HasItsMerge, Finding, Exposing, Deciding, Finishing, Publishing
  <2>7. HasChecked(r)'
    BY <1>1, <1>2, <1>6, <2>4, RecordedStays DEF HasChecked, Exposing, Deciding, Checked
  <2>8. IsAlone(r)'
    BY <2>3, <2>4 DEF IsAlone
  <2> QED BY <2>2, <2>3, <2>5, <2>6, <2>7, <2>8, RunActs DEF IsSound
<1>12. ASSUME MatchingPrs = {}, prs' = Append(prs, p), UNCHANGED counts, Fail PROVE Inductive'
  <2>1. HostIsSound' /\ Grows /\ meddled' = meddled /\ (meddled = 0 => OpenPrs' = {Len(prs')})
    BY <1>10, <1>12
  <2>2. IsSound(Idle) /\ Idle.at = "idle"
    BY <1>0, IdleIsSound DEF Idle
  <2>3. IsAlone(Idle)'
    BY <2>1, <2>2 DEF IsAlone
  <2> QED BY <1>1, <1>12, <2>1, <2>2, <2>3, RunStandsOn DEF Fail
<1>13. ASSUME MatchingPrs = {}, prs' = Append(prs, p), AnswerIsLost PROVE Inductive'
  <2>1. /\ HostIsSound' /\ Grows /\ meddled' = meddled /\ (meddled = 0 => OpenPrs' = {Len(prs')})
        /\ Len(prs') \in PrsOf(cand)'
    BY <1>10, <1>13
  <2>2. PICK r : r = job'
    OBVIOUS
  <2>3. r = [job EXCEPT !.tries = @ + 1]
    BY <1>13, <2>2 DEF AnswerIsLost
  <2>4. IsSound(r) /\ r.at = "pull request" /\ CandOf(r) = cand
    BY <1>0, <1>1, <1>2, <2>3, RunTriesAgain DEF Job, CandOf
  <2>5. IsAlone(r)'
    BY <2>1, <2>4 DEF IsAlone
  <2> QED BY <1>1, <1>13, <2>1, <2>2, <2>4, <2>5, RunStandsOn
<1>14. prs' = Append(prs, p) => Len(prs') = Len(Append(prs, p))
  OBVIOUS
<1> QED BY <1>3, <1>7, <1>8, <1>9, <1>11, <1>12, <1>13, <1>14 DEF CreatePullRequest

LEMMA RunMerges ==
  ASSUME job \in Job, "merged" \in Places, NEW n \in Nat, NEW r,
         r = [job EXCEPT !.at = "merged", !.merged = n, !.tries = 0]
  PROVE  /\ r \in Job /\ r.at = "merged" /\ r.version = job.version /\ r.attempt = job.attempt
         /\ r.sha = job.sha /\ r.pr = job.pr /\ r.merged = n /\ CandOf(r) = CandOf(job)
  BY DEF Job, CandOf

LEMMA Merges ==
  ASSUME Inductive, MergePullRequest
  PROVE  Inductive'
<1>0. /\ HostIsSound /\ HostTypes /\ MergesAreOnMain /\ IsSound(job) /\ IsNamed(job) /\ HasItsPullRequest(job)
      /\ HasChecked(job) /\ IsAlone(job) /\ job \in Job /\ Prepares(job)
  BY DEF Inductive, HostIsSound, IsSound, IsNamed
<1>1. /\ job.at = "merge"
      /\ UNCHANGED <<branch, protected, release, tag, image, prep, records, done>>
  BY DEF MergePullRequest, At, durable
<1>2. PICK i \in DOMAIN prs : i = job.pr /\ i # 0 /\ prs[i].cand = CandOf(job) /\ i \in Nat
  BY <1>0, <1>1, NumbersArePositive DEF HasItsPullRequest, Deciding
<1>3. "merged" \in Places
  BY DEF Places, Finishing
<1>4. ASSUME prs[i].state = "merged", UNCHANGED <<main, prs, counts>>,
             job' = [job EXCEPT !.at = "merged", !.merged = MergeOf(i), !.tries = 0]
      PROVE  Inductive'
  <2>1. MergeOf(i) \in Nat
    BY <1>0, <1>2, <1>4, MergeIsFound
  <2>2. PICK r : r = job'
    OBVIOUS
  <2>3. /\ r \in Job /\ r.at = "merged" /\ r.version = job.version /\ r.attempt = job.attempt
        /\ r.sha = job.sha /\ r.pr = i /\ r.merged = MergeOf(i)
    BY <1>0, <1>2, <1>3, <1>4, <2>1, <2>2 DEF Job
  <2>4. Reads
    BY <1>1, <1>4 DEF Reads, host, durable, counts
  <2> QED BY <1>1, <1>2, <1>4, <2>2, <2>3, <2>4, RunFindsItsMerge
<1>5. ASSUME Fail, UNCHANGED <<main, prs, counts>> PROVE Inductive'
  <2>1. Reads
    BY <1>1, <1>5 DEF Reads, host, durable, counts
  <2> QED BY <1>5, <2>1, RunFails
<1>6. ASSUME AnswerIsLost, UNCHANGED <<main, prs>> PROVE Inductive'
  <2>1. HostTypes'
    BY <1>0, <1>1, <1>6 DEF HostTypes, AnswerIsLost, Mishap
  <2> QED BY <1>1, <1>6, <2>1, LosesAnswer
<1>7. ASSUME i \in OpenPrs, Squash(i), UNCHANGED counts \/ AnswerIsLost
      PROVE  /\ HostIsSound' /\ Grows /\ meddled' = meddled /\ OpenPrs' \subseteq OpenPrs
             /\ Tip' = Tip + 1 /\ main'[Tip'].pr = i /\ Tip' \in DOMAIN main' /\ Tip' \in Nat
  <2>1. mishaps' \in Nat /\ meddled' \in Nat /\ meddled' = meddled
    BY <1>0, <1>7 DEF HostTypes, counts, AnswerIsLost, Mishap
  <2>2. /\ Grows /\ MergesAreOnMain' /\ main' \in Seq(Commit) /\ prs' \in Seq(PullRequest)
        /\ Tip' = Tip + 1 /\ main'[Tip'].pr = i /\ OpenPrs' = OpenPrs \ {i}
    BY <1>0, <1>1, <1>7, PullRequestIsMerged
  <2>3. HostTypes'
    BY <1>0, <1>1, <2>1, <2>2 DEF HostTypes
  <2>4. Tip' \in DOMAIN main' /\ Tip' \in Nat
    BY <1>0, <2>2 DEF Tip, HostTypes
  <2> QED BY <1>0, <1>1, <2>1, <2>2, <2>3, <2>4, HostStays
<1>8. ASSUME i \in OpenPrs, Squash(i), UNCHANGED counts,
             job' = [job EXCEPT !.at = "merged", !.merged = Tip + 1, !.tries = 0]
      PROVE  Inductive'
  <2>1. PICK n : n = Tip'
    OBVIOUS
  <2>2. /\ HostIsSound' /\ Grows /\ meddled' = meddled /\ OpenPrs' \subseteq OpenPrs
        /\ n = Tip + 1 /\ main'[n].pr = i /\ n \in DOMAIN main' /\ n \in Nat
    BY <1>7, <1>8, <2>1
  <2>3. PICK r : r = job'
    OBVIOUS
  <2>4. r = [job EXCEPT !.at = "merged", !.merged = n, !.tries = 0]
    BY <1>8, <2>2, <2>3
  <2>5. /\ r \in Job /\ r.at = "merged" /\ r.version = job.version /\ r.attempt = job.attempt
        /\ r.sha = job.sha /\ r.pr = job.pr /\ r.merged = n /\ CandOf(r) = CandOf(job)
    BY <1>0, <1>3, <2>2, <2>4, RunMerges, ZenonT(40)
  <2>6. IsNamed(r)' /\ Prepares(r)'
    <3>1. r.sha <= Tip'
      BY <1>0, <2>1, <2>2, <2>5, RunHasItsBase DEF IsNamed, Job
    <3> QED BY <1>0, <1>1, <2>5, <3>1 DEF IsNamed, Prepares
  <2>7. HasItsPullRequest(r)'
    BY <1>2, <2>2, <2>5 DEF HasItsPullRequest, Grows, Finding, Exposing, Deciding, Finishing, Publishing
  <2>8. HasChecked(r)' /\ HasItsMerge(r)'
    BY <1>2, <2>2, <2>5 DEF HasChecked, HasItsMerge, Exposing, Deciding, Checked, Finishing, Publishing
  <2>9. IsAlone(r)'
    BY <1>0, <2>2, <2>5 DEF IsAlone
  <2> QED BY <2>2, <2>3, <2>6, <2>7, <2>8, <2>9, RunActs DEF IsSound
<1>9. ASSUME i \in OpenPrs, Squash(i), AnswerIsLost PROVE Inductive'
  <2>1. HostIsSound' /\ Grows /\ meddled' = meddled /\ OpenPrs' \subseteq OpenPrs
    BY <1>7, <1>9
  <2>2. PICK r : r = job'
    OBVIOUS
  <2>3. r = [job EXCEPT !.tries = @ + 1]
    BY <1>9, <2>2 DEF AnswerIsLost
  <2>4. IsSound(r) /\ r.at = "merge"
    BY <1>0, <1>1, <2>3, RunTriesAgain DEF Job
  <2>5. IsAlone(r)'
    BY <1>0, <2>1, <2>4 DEF IsAlone
  <2> QED BY <1>1, <1>9, <2>1, <2>2, <2>4, <2>5, RunStandsOn
<1>10. Accepts(i) => i \in OpenPrs
  BY DEF Accepts, OpenPrs
<1> QED BY <1>2, <1>4, <1>5, <1>6, <1>8, <1>9, <1>10 DEF MergePullRequest

(***************************************************************************)
(* The workflows and people.                                               *)
(***************************************************************************)

\* The host grows under a run that does nothing, or under none.
LEMMA RunIsLeft ==
  ASSUME Inductive, HostTypes', MergesAreOnMain', Grows, UNCHANGED <<job, prep, records, release>>,
         IsAlone(job)'
  PROVE  Inductive'
<1>1. HostIsSound'
  BY HostStays DEF Inductive
<1>2. PICK r : r = job
  OBVIOUS
<1>3. IsSound(r)
  BY <1>2 DEF Inductive
<1>4. IsSound(r)'
  BY <1>1, <1>3, RunStays DEF Inductive
<1>5. IsSound(job)'
  BY <1>2, <1>4, RunBecomes
<1> QED BY <1>1, <1>5 DEF Inductive

\* Whoever meddles has meddled.
LEMMA MeddlingShows ==
  ASSUME HostTypes, NEW what, Meddles(what)
  PROVE  mishaps' \in Nat /\ meddled' \in Nat /\ IsAlone(job)'
<1>1. mishaps' = mishaps /\ meddled' = meddled + 1 /\ mishaps \in Nat /\ meddled \in Nat
  BY DEF Meddles, HostTypes
<1>2. meddled' # 0 /\ mishaps' \in Nat /\ meddled' \in Nat
  BY <1>1
<1>3. IsAlone(job)'
  BY <1>2, Zenon DEF IsAlone
<1> QED BY <1>2, <1>3

LEMMA AloneStays ==
  ASSUME IsAlone(job), UNCHANGED <<job, prs, meddled>>
  PROVE  IsAlone(job)'
  BY DEF IsAlone, OpenPrs, PrsOf, CandOf

LEMMA Outcomes ==
  ASSUME HostTypes, NEW old, NEW result, Outcome(old, result)
  PROVE  mishaps' \in Nat /\ meddled' \in Nat /\ meddled' = meddled /\ old # "passed"
  BY DEF Outcome, Mishap, counts, HostTypes

LEMMA ChecksRun ==
  ASSUME Inductive, NEW i \in DOMAIN prs, PullRequestChecks(i)
  PROVE  Inductive'
<1>0. HostIsSound /\ HostTypes /\ MergesAreOnMain /\ IsAlone(job)
  BY DEF Inductive, HostIsSound
<1>1. PICK result \in {"passed", "failed"} :
         Outcome(prs[i].checks, result) /\ prs' = [prs EXCEPT ![i].checks = result]
  BY DEF PullRequestChecks
<1>2. /\ UNCHANGED <<main, branch, protected, release, tag, image, prep, records, job, done>>
  BY DEF PullRequestChecks, durable
<1>3. PICK p : p = [prs[i] EXCEPT !.checks = result]
  OBVIOUS
<1>4. prs[i] \in PullRequest /\ prs \in Seq(PullRequest)
  BY <1>0 DEF HostTypes
<1>5. p \in PullRequest /\ p.cand = prs[i].cand /\ p.state = prs[i].state
  BY <1>3, <1>4 DEF PullRequest, Results
<1>6. prs' = [prs EXCEPT ![i] = p]
  BY <1>1, <1>3
<1>7. mishaps' \in Nat /\ meddled' \in Nat /\ meddled' = meddled /\ prs[i].checks # "passed"
  BY <1>0, <1>1, Outcomes
<1>8. /\ Grows /\ MergesAreOnMain' /\ prs' \in Seq(PullRequest)
      /\ DOMAIN prs' = DOMAIN prs
      /\ \A j \in DOMAIN prs : prs'[j] = IF j = i THEN p ELSE prs[j]
  BY <1>0, <1>2, <1>5, <1>6, <1>7, PullRequestChanges
<1>9. HostTypes'
  BY <1>0, <1>2, <1>7, <1>8 DEF HostTypes
<1>10. OpenPrs' = OpenPrs /\ \A c : PrsOf(c)' = PrsOf(c)
  BY <1>5, <1>8 DEF OpenPrs, PrsOf
<1>11. IsAlone(job)'
  <2>1. PICK r : r = job
    OBVIOUS
  <2>2. IsAlone(r)'
    BY <1>0, <1>7, <1>10, <2>1 DEF IsAlone
  <2> QED BY <1>2, <2>1, <2>2, RunBecomes
<1> QED BY <1>2, <1>8, <1>9, <1>11, RunIsLeft

LEMMA EdgeRuns ==
  ASSUME Inductive, NEW n \in 1..Tip, EdgePublication(n)
  PROVE  Inductive'
<1>0. HostIsSound /\ HostTypes /\ MergesAreOnMain /\ IsAlone(job)
  BY DEF Inductive, HostIsSound
<1>1. PICK result \in Results :
         Outcome(main[n].edge, result) /\ main' = [main EXCEPT ![n].edge = result]
  BY DEF EdgePublication, Results
<1>2. UNCHANGED <<branch, prs, protected, release, tag, image, prep, records, job, done>>
  BY DEF EdgePublication, durable
<1>3. mishaps' \in Nat /\ meddled' \in Nat /\ meddled' = meddled /\ main[n].edge # "passed"
  BY <1>0, <1>1, Outcomes
<1>4. n \in DOMAIN main
  BY <1>0 DEF HostTypes, Tip
<1>5. Grows /\ MergesAreOnMain' /\ main' \in Seq(Commit)
  BY <1>0, <1>1, <1>2, <1>3, <1>4, MainIsChecked
<1>6. HostTypes'
  BY <1>0, <1>2, <1>3, <1>5 DEF HostTypes
<1>7. IsAlone(job)'
  BY <1>0, <1>2, <1>3, AloneStays
<1> QED BY <1>2, <1>5, <1>6, <1>7, RunIsLeft

LEMMA ImagesRun ==
  ASSUME Inductive, NEW v \in Versions, ImagePublication(v)
  PROVE  Inductive'
<1>0. HostIsSound /\ HostTypes /\ MergesAreOnMain /\ IsAlone(job)
  BY DEF Inductive, HostIsSound
<1>1. PICK result \in Results :
         Outcome(image[v], result) /\ image' = [image EXCEPT ![v] = result]
  BY DEF ImagePublication, Results
<1>2. UNCHANGED <<main, branch, prs, protected, release, tag, prep, records, job, done>>
  BY DEF ImagePublication, durable
<1>3. mishaps' \in Nat /\ meddled' \in Nat /\ meddled' = meddled
  BY <1>0, <1>1, Outcomes
<1>4. HostTypes' /\ MergesAreOnMain' /\ Grows
  BY <1>0, <1>1, <1>2, <1>3, Standing DEF HostTypes, MergesAreOnMain
<1>5. IsAlone(job)'
  BY <1>0, <1>2, <1>3, AloneStays
<1> QED BY <1>2, <1>4, <1>5, RunIsLeft

LEMMA MainIsPushed ==
  ASSUME Inductive, Push
  PROVE  Inductive'
<1>0. HostIsSound /\ HostTypes /\ MergesAreOnMain /\ IsAlone(job)
  BY DEF Inductive, HostIsSound
<1>1. PICK commit : commit = [pr |-> 0, edge |-> "none", exact |-> FALSE]
  OBVIOUS
<1>2. commit \in Commit /\ commit.pr = 0
  BY <1>1 DEF Commit, Results
<1>3. main' = Append(main, commit)
  BY <1>1 DEF Push
<1>4. UNCHANGED <<branch, prs, protected, release, tag, image, prep, records, job, done, mishaps, meddled>>
  BY DEF Push, durable, counts
<1>5. Grows /\ MergesAreOnMain' /\ main' \in Seq(Commit)
  BY <1>0, <1>2, <1>3, <1>4, MainMoves
<1>6. HostTypes'
  BY <1>0, <1>4, <1>5 DEF HostTypes
<1>7. IsAlone(job)'
  BY <1>0, <1>4, AloneStays
<1> QED BY <1>4, <1>5, <1>6, <1>7, RunIsLeft

LEMMA BranchIsEdited ==
  ASSUME Inductive, NEW c \in Candidates, Edit(c)
  PROVE  Inductive'
<1>0. HostIsSound /\ HostTypes /\ MergesAreOnMain
  BY DEF Inductive, HostIsSound
<1>1. /\ UNCHANGED <<main, prs, protected, release, tag, image, prep, records, job, done>>
      /\ branch' = [branch EXCEPT ![c] = "edited"]
  BY DEF Edit, durable
<1>2. mishaps' \in Nat /\ meddled' \in Nat /\ IsAlone(job)'
  BY <1>0, MeddlingShows DEF Edit
<1>3. HostTypes' /\ MergesAreOnMain' /\ Grows
  BY <1>0, <1>1, <1>2, Standing DEF HostTypes, MergesAreOnMain
<1> QED BY <1>1, <1>2, <1>3, RunIsLeft

LEMMA ProtectionChanges ==
  ASSUME Inductive, Protection
  PROVE  Inductive'
<1>0. HostIsSound /\ HostTypes /\ MergesAreOnMain /\ IsAlone(job)
  BY DEF Inductive, HostIsSound
<1>1. UNCHANGED <<main, branch, prs, release, tag, image, prep, records, job, done>> /\ protected' \in BOOLEAN
  BY <1>0 DEF Protection, durable, HostTypes
<1>2. mishaps' \in Nat /\ meddled' \in Nat /\ IsAlone(job)'
  <2>1. CASE UNCHANGED counts
    <3>1. mishaps' \in Nat /\ meddled' \in Nat /\ meddled' = meddled
      BY <1>0, <2>1 DEF HostTypes, counts
    <3> QED BY <1>0, <1>1, <3>1, AloneStays
  <2>2. CASE Meddles("unprotect")
    BY <1>0, <2>2, MeddlingShows
  <2> QED BY <2>1, <2>2 DEF Protection
<1>3. HostTypes' /\ MergesAreOnMain' /\ Grows
  BY <1>0, <1>1, <1>2, Standing DEF HostTypes, MergesAreOnMain
<1> QED BY <1>1, <1>2, <1>3, RunIsLeft

LEMMA TagIsMade ==
  ASSUME Inductive, NEW v \in Versions, NEW n \in DOMAIN main, TagByHand(v, n)
  PROVE  Inductive'
<1>0. HostIsSound /\ HostTypes /\ MergesAreOnMain /\ n \in Nat
  BY DEF Inductive, HostIsSound, HostTypes
<1>1. /\ UNCHANGED <<main, branch, prs, protected, release, image, prep, records, job, done>>
      /\ tag' = [tag EXCEPT ![v] = n]
  BY DEF TagByHand, durable
<1>2. mishaps' \in Nat /\ meddled' \in Nat /\ IsAlone(job)'
  BY <1>0, MeddlingShows DEF TagByHand
<1>3. HostTypes' /\ MergesAreOnMain' /\ Grows
  BY <1>0, <1>1, <1>2, Standing DEF HostTypes, MergesAreOnMain
<1> QED BY <1>1, <1>2, <1>3, RunIsLeft

LEMMA PullRequestIsHandled ==
  ASSUME Inductive, NEW i \in DOMAIN prs, CloseByHand(i) \/ Reopen(i) \/ Dispute(i)
  PROVE  Inductive'
<1>0. HostIsSound /\ HostTypes /\ MergesAreOnMain /\ IsAlone(job) /\ prs \in Seq(PullRequest)
      /\ prs[i] \in PullRequest
  BY DEF Inductive, HostIsSound, HostTypes
<1>1. UNCHANGED <<main, branch, protected, release, tag, image, prep, records, job, done>>
  BY DEF CloseByHand, Reopen, Dispute, durable
<1>2. ASSUME NEW p \in PullRequest, prs' = [prs EXCEPT ![i] = p], p.cand = prs[i].cand,
             p.state = "merged" <=> prs[i].state = "merged", p.checks = prs[i].checks,
             mishaps' \in Nat, meddled' \in Nat,
             IsAlone(job)' \/ (meddled' = meddled /\ (p.state = "open" <=> prs[i].state = "open"))
      PROVE  Inductive'
  <2>1. /\ Grows /\ MergesAreOnMain' /\ prs' \in Seq(PullRequest)
        /\ DOMAIN prs' = DOMAIN prs
        /\ \A j \in DOMAIN prs : prs'[j] = IF j = i THEN p ELSE prs[j]
    BY <1>0, <1>1, <1>2, PullRequestChanges
  <2>2. HostTypes'
    BY <1>0, <1>1, <1>2, <2>1 DEF HostTypes
  <2>3. ASSUME meddled' = meddled, p.state = "open" <=> prs[i].state = "open" PROVE IsAlone(job)'
    <3>1. OpenPrs' = OpenPrs /\ \A c : PrsOf(c)' = PrsOf(c)
      BY <1>2, <2>1, <2>3 DEF OpenPrs, PrsOf
    <3>2. PICK r : r = job
      OBVIOUS
    <3>3. IsAlone(r)'
      BY <1>0, <2>3, <3>1, <3>2 DEF IsAlone
    <3> QED BY <1>1, <3>2, <3>3, RunBecomes
  <2> QED BY <1>1, <1>2, <2>1, <2>2, <2>3, RunIsLeft
<1>3. CASE CloseByHand(i)
  <2>1. PICK p : p = [prs[i] EXCEPT !.state = "closed"]
    OBVIOUS
  <2>2. /\ p \in PullRequest /\ p.cand = prs[i].cand /\ p.checks = prs[i].checks /\ p.state = "closed"
        /\ prs[i].state = "open"
    BY <1>0, <1>3, <2>1 DEF PullRequest, CloseByHand, OpenPrs
  <2>3. prs' = [prs EXCEPT ![i] = p]
    BY <1>3, <2>1 DEF CloseByHand
  <2>4. mishaps' \in Nat /\ meddled' \in Nat /\ IsAlone(job)'
    BY <1>0, <1>3, MeddlingShows DEF CloseByHand
  <2> QED BY <1>2, <2>2, <2>3, <2>4
<1>4. CASE Reopen(i)
  <2>1. PICK p : p = [prs[i] EXCEPT !.state = "open"]
    OBVIOUS
  <2>2. /\ p \in PullRequest /\ p.cand = prs[i].cand /\ p.checks = prs[i].checks /\ p.state = "open"
        /\ prs[i].state = "closed"
    BY <1>0, <1>4, <2>1 DEF PullRequest, Reopen
  <2>3. prs' = [prs EXCEPT ![i] = p]
    BY <1>4, <2>1 DEF Reopen
  <2>4. mishaps' \in Nat /\ meddled' \in Nat /\ IsAlone(job)'
    BY <1>0, <1>4, MeddlingShows DEF Reopen
  <2> QED BY <1>2, <2>2, <2>3, <2>4
<1>5. CASE Dispute(i)
  <2>1. PICK p : p = [prs[i] EXCEPT !.disputed = ~@]
    OBVIOUS
  <2>2. p \in PullRequest /\ p.cand = prs[i].cand /\ p.checks = prs[i].checks /\ p.state = prs[i].state
    <3>1. PICK disputed \in BOOLEAN : disputed = ~prs[i].disputed
      BY <1>0 DEF PullRequest
    <3>2. p = [prs[i] EXCEPT !.disputed = disputed]
      BY <2>1, <3>1
    <3> QED BY <1>0, <3>2 DEF PullRequest
  <2>3. prs' = [prs EXCEPT ![i] = p]
    BY <1>5, <2>1 DEF Dispute
  <2>4. mishaps' \in Nat /\ meddled' \in Nat /\ (IsAlone(job)' \/ meddled' = meddled)
    <3>1. CASE UNCHANGED counts
      BY <1>0, <3>1 DEF HostTypes, counts
    <3>2. CASE Meddles("dispute")
      BY <1>0, <3>2, MeddlingShows
    <3> QED BY <1>5, <3>1, <3>2 DEF Dispute
  <2> QED BY <1>2, <2>2, <2>3, <2>4
<1> QED BY <1>3, <1>4, <1>5

LEMMA MergedByHand ==
  ASSUME Inductive, NEW i \in DOMAIN prs, MergeByHand(i)
  PROVE  Inductive'
<1>0. HostIsSound /\ HostTypes /\ MergesAreOnMain
  BY DEF Inductive, HostIsSound
<1>1. /\ UNCHANGED <<branch, protected, release, tag, image, prep, records, job, done>>
      /\ i \in OpenPrs /\ Squash(i)
  BY DEF MergeByHand, durable
<1>2. mishaps' \in Nat /\ meddled' \in Nat /\ IsAlone(job)'
  BY <1>0, MeddlingShows DEF MergeByHand
<1>3. Grows /\ MergesAreOnMain' /\ main' \in Seq(Commit) /\ prs' \in Seq(PullRequest)
  BY <1>0, <1>1, PullRequestIsMerged
<1>4. HostTypes'
  BY <1>0, <1>1, <1>2, <1>3 DEF HostTypes
<1> QED BY <1>1, <1>2, <1>3, <1>4, RunIsLeft

LEMMA RunIsDispatched ==
  ASSUME Inductive, NEW v \in Versions, Dispatch(v)
  PROVE  Inductive'
<1>0. HostIsSound /\ HostTypes /\ IsAlone(job)
  BY DEF Inductive, HostIsSound
<1>1. Reads
  BY DEF Dispatch
<1>2. Tip \in Nat
  BY <1>0 DEF HostTypes, Tip
<1>3. PICK r : r = job'
  OBVIOUS
<1>4. /\ r \in Job /\ r.at = "resolve" /\ r.version = v /\ r.pr = 0 /\ r.sha = Tip
  BY <1>2, <1>3 DEF Dispatch, Idle, Job, Places, Finding
<1>5. IsNamed(r) /\ Prepares(r)
  BY <1>2, <1>4 DEF IsNamed, Prepares
<1>6. HasItsPullRequest(r) /\ HasChecked(r) /\ HasItsMerge(r) /\ IsAlone(r)
  BY <1>0, <1>4
     DEF HasItsPullRequest, HasChecked, HasItsMerge, IsAlone,
         Finding, Exposing, Deciding, Checked, Publishing, Finishing
<1> QED BY <1>1, <1>3, <1>5, <1>6, RunLooks DEF IsSound

(***************************************************************************)
(* The theorems.                                                           *)
(***************************************************************************)

LEMMA Initially ==
  ASSUME Init
  PROVE  Inductive
<1> USE DEF Init
<1>1. main \in Seq(Commit) /\ records \in Seq(Checkpoint) /\ prs \in Seq(PullRequest)
  OBVIOUS
<1>2. DOMAIN main = {} /\ DOMAIN records = {} /\ DOMAIN prs = {}
  OBVIOUS
<1>3. HostTypes
  BY <1>1 DEF HostTypes, Results
<1>4. /\ MergesAreOnMain /\ RecordsAreTrue /\ RecordedOnce /\ PreparationsAreOfMain
      /\ DispositionsAreOwn
  BY <1>2 DEF MergesAreOnMain, RecordsAreTrue, RecordedOnce, CheckpointsAreAmbiguous,
              DispositionsAreOwn, PreparationsAreOfMain
<1>5. ReleasesAreOfMain
  BY DEF ReleasesAreOfMain
<1>6. HostIsSound
  BY <1>3, <1>4, <1>5 DEF HostIsSound
<1>7. IsAlone(job)
  BY <1>2 DEF IsAlone, OpenPrs, Idle
<1> QED BY <1>6, <1>7, IdleIsSound DEF Inductive

LEMMA ControllerKeeps ==
  ASSUME Inductive, Controller
  PROVE  Inductive'
<1>1. CASE Prepare \/ EnsureSameVersionConflict \/ ValidateProtection("protection", "base") \/ MainIsTheBase
  BY <1>1, LooksOn
<1>2. CASE \/ WaitForPullRequestChecks \/ RereadMain \/ ReproduceCandidateTree
           \/ ValidateProtection("protection again", "merge")
  BY <1>2, LooksOn
<1>3. CASE VerifyCandidateTree \/ CheckMainPublication \/ ReadBack \/ CheckTag
  BY <1>3, LooksOn
<1>4. CASE ValidatePullRequestGates("gates", "checks")
  BY <1>4, PassesGates
<1>5. CASE ValidatePullRequestGates("gates again", "protection again")
  BY <1>5, PassesGates
<1>6. CASE Resolve \/ Fresh \/ Live
  BY <1>6, Resolves, Starts, Lives
<1>7. CASE PersistStaleDisposition \/ Close \/ UploadPreparation
  BY <1>7, PersistsStale, Closes, Uploads
<1>8. CASE ReconcileRecordedCheckpoints \/ ExposeCandidateRef \/ CreatePullRequest \/ PersistPrCreated
  BY <1>8, Reconciles, Exposes, Creates, PersistsPrCreated
<1>9. CASE Refresh \/ MergePullRequest \/ PersistMerged \/ ReconcileExistingTag
  BY <1>9, Refreshes, Merges, PersistsMerged, ReconcilesTag
<1>10. CASE CreateRelease \/ PublishRelease \/ WaitForPublication
  BY <1>10, Drafts, Publishes, WaitsForPublication
<1> QED BY <1>1, <1>2, <1>3, <1>4, <1>5, <1>6, <1>7, <1>8, <1>9, <1>10 DEF Controller

LEMMA NextKeeps ==
  ASSUME Inductive, [Next]_vars
  PROVE  Inductive'
<1>1. CASE Controller
  BY <1>1, ControllerKeeps
<1>2. CASE JobEnds
  BY <1>2, JobIsOver
<1>3. CASE Workflows
  BY <1>3, ChecksRun, EdgeRuns, ImagesRun DEF Workflows
<1>4. CASE People
  BY <1>4, RunIsDispatched, MainIsPushed, BranchIsEdited, PullRequestIsHandled, MergedByHand, TagIsMade,
     ProtectionChanges DEF People
<1>5. CASE UNCHANGED vars
  <2>1. Reads /\ job' = job
    BY <1>5 DEF vars, Reads, host, durable, counts
  <2>2. PICK r : r = job
    OBVIOUS
  <2> QED BY <2>1, <2>2, RunLooks DEF Inductive
<1> QED BY <1>1, <1>2, <1>3, <1>4, <1>5 DEF Next

\* The invariant holds of every reachable state, whatever runs end, answers are
\* lost and people do.
THEOREM Invariance == Spec => []Inductive
<1>1. Init => Inductive
  BY Initially
<1>2. Inductive /\ [Next]_vars => Inductive'
  BY NextKeeps
<1> QED BY <1>1, <1>2, PTL DEF Spec

\* What is released, drafts included, is the prepared candidate of its version,
\* with its verification and edge publication passed
\* (release-automation.mjs:4478-4517).
THEOREM ReleasesWhatWasPrepared == Spec => []ReleasedIsPrepared
<1>1. Inductive => ReleasedIsPrepared
  BY DEF Inductive, HostIsSound, ReleasesAreOfMain, ReleasedIsPrepared
<1> QED BY <1>1, Invariance, PTL

\* No run uploads a checkpoint of a kind that a run has uploaded for an attempt of
\* that number, of whichever version: what stops every later run as ambiguous is
\* never there (release-automation.mjs:2267-2282, 2297-2300).
THEOREM RecordsOnce == Spec => []RecordedOnce
<1>1. Inductive => RecordedOnce
  BY DEF Inductive, HostIsSound
<1> QED BY <1>1, Invariance, PTL

\* As long as nobody meddles, one pull request of the controller is open at most
\* (release-automation.mjs:4156-4166).
THEOREM OpensOneCandidate == Spec => []OneOpenCandidate
<1>1. ASSUME Inductive PROVE OneOpenCandidate
  <2> SUFFICES ASSUME meddled = 0 PROVE Cardinality(OpenPrs) <= 1
    BY DEF OneOpenCandidate
  <2>1. \A i, j \in OpenPrs : i = j
    BY <1>1 DEF Inductive, IsAlone
  <2>2. CASE OpenPrs = {}
    BY <2>2, FS_EmptySet
  <2>3. CASE OpenPrs # {}
    <3>1. PICK i \in OpenPrs : TRUE
      BY <2>3
    <3>2. OpenPrs = {i}
      BY <2>1, <3>1
    <3>3. Cardinality({i}) = 1
      BY FS_Singleton
    <3> QED BY <3>2, <3>3
  <2> QED BY <2>2, <2>3
<1> QED BY <1>1, Invariance, PTL

\* Only three steps of the run change a pull request.
LEMMA FewTouchPullRequests ==
  ASSUME Controller \/ JobEnds, ~Close, ~CreatePullRequest, ~MergePullRequest
  PROVE  UNCHANGED prs
<1> USE DEF host, Reads
<1>1. CASE JobEnds
  BY <1>1 DEF JobEnds
<1>2. CASE Resolve \/ Fresh \/ Live \/ Prepare \/ EnsureSameVersionConflict \/ ReconcileRecordedCheckpoints
  BY <1>2 DEF Resolve, Fresh, Live, Prepare, EnsureSameVersionConflict, ReconcileRecordedCheckpoints
<1>3. CASE PersistStaleDisposition \/ UploadPreparation \/ PersistPrCreated \/ PersistMerged
  BY <1>3 DEF PersistStaleDisposition, UploadPreparation, PersistPrCreated, PersistMerged
<1>4. CASE ValidateProtection("protection", "base") \/ ValidateProtection("protection again", "merge")
  BY <1>4 DEF ValidateProtection
<1>5. CASE \/ ValidatePullRequestGates("gates", "checks")
           \/ ValidatePullRequestGates("gates again", "protection again")
  BY <1>5 DEF ValidatePullRequestGates
<1>6. CASE \/ MainIsTheBase \/ ExposeCandidateRef \/ WaitForPullRequestChecks \/ RereadMain \/ Refresh
           \/ ReproduceCandidateTree
  BY <1>6 DEF MainIsTheBase, ExposeCandidateRef, WaitForPullRequestChecks, RereadMain, Refresh,
              ReproduceCandidateTree
<1>7. CASE VerifyCandidateTree \/ CheckMainPublication \/ ReconcileExistingTag \/ CreateRelease \/ ReadBack
  BY <1>7 DEF VerifyCandidateTree, CheckMainPublication, ReconcileExistingTag, CreateRelease, ReadBack
<1>8. CASE PublishRelease \/ CheckTag \/ WaitForPublication
  BY <1>8 DEF PublishRelease, CheckTag, WaitForPublication
<1> QED BY <1>1, <1>2, <1>3, <1>4, <1>5, <1>6, <1>7, <1>8 DEF Controller

\* The host and people leave the run alone.
LEMMA OthersLeaveTheRun ==
  ASSUME Workflows \/ People \/ UNCHANGED vars, \A v \in Versions : ~Dispatch(v)
  PROVE  UNCHANGED job
<1>1. CASE Workflows
  BY <1>1 DEF Workflows, PullRequestChecks, EdgePublication, ImagePublication
<1>2. CASE Push \/ Protection \/ \E c \in Candidates : Edit(c)
  BY <1>2 DEF Push, Protection, Edit
<1>3. CASE \/ \E i \in DOMAIN prs : CloseByHand(i) \/ Reopen(i) \/ Dispute(i) \/ MergeByHand(i)
           \/ \E v \in Versions, n \in DOMAIN main : TagByHand(v, n)
  BY <1>3 DEF CloseByHand, Reopen, Dispute, MergeByHand, TagByHand
<1>4. CASE UNCHANGED vars
  BY <1>4 DEF vars
<1> QED BY <1>1, <1>2, <1>3, <1>4 DEF People

\* What a step of the run does to an open pull request.
LEMMA RunDecides ==
  ASSUME Inductive, [Next]_vars, NEW i \in OpenPrs, job' # job, prs'[i].state # "open"
  PROVE  /\ i = job.pr /\ prs[i].cand = CandOf(job)
         /\ \/ job.at = "merge" /\ Accepts(i) /\ prs'[i].state = "merged"
            \/ job.at = "close" /\ prs'[i].state = "closed"
<1>0. /\ HostIsSound /\ HostTypes /\ HasItsPullRequest(job) /\ i \in DOMAIN prs /\ prs[i].state = "open"
      /\ prs \in Seq(PullRequest)
  BY DEF Inductive, HostIsSound, HostTypes, IsSound, OpenPrs
<1>1. prs' # prs
  BY <1>0
<1>2. \A v \in Versions : ~Dispatch(v)
  BY <1>1 DEF Dispatch, Reads, host
<1>3. Controller \/ JobEnds
  BY <1>2, OthersLeaveTheRun DEF Next
<1>4. CASE CreatePullRequest
  <2>1. PICK p : p = [cand |-> Cand, state |-> "open", disputed |-> FALSE, checks |-> "none"]
    OBVIOUS
  <2>2. prs' = Append(prs, p)
    BY <1>1, <1>4, <2>1 DEF CreatePullRequest
  <2>3. prs'[i] = prs[i]
    BY <1>0, <2>2
  <2> QED BY <1>0, <2>3
<1>5. CASE Close
  <2>1. job.at = "close"
    BY <1>5 DEF Close, At
  <2>2. job.pr \in DOMAIN prs /\ prs[job.pr].cand = CandOf(job)
    BY <1>0, <2>1 DEF HasItsPullRequest
  <2>3. PICK p : p = [prs[job.pr] EXCEPT !.state = IF @ = "open" THEN "closed" ELSE @]
    OBVIOUS
  <2>4. prs' = [prs EXCEPT ![job.pr] = p]
    BY <1>1, <1>5, <2>3 DEF Close
  <2>5. i = job.pr
    BY <1>0, <2>2, <2>4
  <2>6. p.state = "closed"
    <3>1. prs[job.pr] \in PullRequest
      BY <1>0, <2>2
    <3> QED BY <1>0, <2>3, <2>5, <3>1 DEF PullRequest
  <2>7. prs'[i] = p
    BY <1>0, <2>4, <2>5
  <2> QED BY <2>1, <2>2, <2>5, <2>6, <2>7
<1>6. CASE MergePullRequest
  <2>1. job.at = "merge"
    BY <1>6 DEF MergePullRequest, At
  <2>2. job.pr \in DOMAIN prs /\ prs[job.pr].cand = CandOf(job)
    BY <1>0, <2>1 DEF HasItsPullRequest, Deciding
  <2>3. Accepts(job.pr) /\ Squash(job.pr)
    BY <1>1, <1>6 DEF MergePullRequest
  <2>4. PICK p : p = [prs[job.pr] EXCEPT !.state = "merged"]
    OBVIOUS
  <2>5. prs' = [prs EXCEPT ![job.pr] = p]
    BY <2>3, <2>4 DEF Squash
  <2>6. i = job.pr
    BY <1>0, <2>2, <2>5
  <2>7. prs'[i] = p /\ p.state = "merged"
    <3>1. prs[job.pr] \in PullRequest
      BY <1>0, <2>2
    <3> QED BY <1>0, <2>4, <2>5, <2>6, <3>1 DEF PullRequest
  <2> QED BY <2>1, <2>2, <2>3, <2>6, <2>7
<1> QED BY <1>1, <1>3, <1>4, <1>5, <1>6, FewTouchPullRequests

\* What the controller merges is its own unedited candidate, which it recorded,
\* with its checks passed (release-automation.mjs:4412-4455).
THEOREM MergesOnlyWhatItChecked == Spec => MergesWhatItChecked
<1>1. ASSUME Inductive, [Next]_vars, NEW i \in OpenPrs, prs'[i].state = "merged", job' # job
      PROVE  /\ IsOwn(i) /\ prs[i].checks = "passed"
             /\ i \in Written("pr-created", prs[i].cand)
  <2>1. i = job.pr /\ prs[i].cand = CandOf(job) /\ job.at = "merge" /\ Accepts(i)
    BY <1>1, RunDecides
  <2>2. HasChecked(job) /\ prs[i].state = "open"
    BY <1>1 DEF Inductive, IsSound, OpenPrs
  <2>3. i \in Written("pr-created", CandOf(job)) /\ prs[i].checks = "passed"
    BY <2>1, <2>2 DEF HasChecked, Deciding, Checked
  <2> QED BY <2>1, <2>3 DEF Accepts
<1>2. Inductive /\ [Next]_vars =>
        [\A i \in OpenPrs :
           prs'[i].state = "merged" /\ job' # job =>
               /\ IsOwn(i) /\ prs[i].checks = "passed"
               /\ i \in Written("pr-created", prs[i].cand)]_vars
  BY <1>1
<1> QED BY <1>2, Invariance, PTL DEF Spec, MergesWhatItChecked

\* What the controller closes is behind main, an attempt of its number is written
\* down as given up, and it is that very candidate if the pull request was recorded
\* (release-automation.mjs:1500-1528, 2440-2502, 4374-4397).
THEOREM ClosesOnlyWhatIsStale == Spec => ClosesOnlyTheStale
<1>1. ASSUME Inductive, [Next]_vars, NEW i \in OpenPrs, prs'[i].state = "closed", job' # job
      PROVE  /\ Tip # prep[prs[i].cand]
             /\ Recorded("stale-base", Attempt(prs[i].cand)) # {}
             /\ i \in Written("pr-created", prs[i].cand) => Written("stale-base", prs[i].cand) # {}
  <2>1. prs[i].cand = CandOf(job) /\ job.at = "close"
    BY <1>1, RunDecides
  <2>2. HostIsSound /\ IsNamed(job) /\ Prepares(job) /\ HasChecked(job)
    BY <1>1 DEF Inductive, IsSound
  <2>3. Attempt(prs[i].cand) = job.attempt
    BY <2>1 DEF Attempt, CandOf
  <2>4. Recorded("stale-base", Attempt(prs[i].cand)) # {}
    BY <2>1, <2>2, <2>3 DEF HasChecked
  <2>5. prep[CandOf(job)] < Tip /\ prep[CandOf(job)] \in Nat /\ Tip \in Nat
    BY <2>1, <2>2, RunHasItsBase DEF Prepares
  <2>6. ASSUME i \in Written("pr-created", prs[i].cand) PROVE Written("stale-base", prs[i].cand) # {}
    <3>1. PICK k \in DOMAIN records : records[k].kind = "pr-created" /\ records[k].cand = prs[i].cand
      BY <2>6 DEF Written, Range
    <3>2. PICK l \in DOMAIN records :
              records[l].kind = "stale-base" /\ Attempt(records[l].cand) = Attempt(prs[i].cand)
      BY <2>4 DEF Recorded, Range
    <3>3. records[l].cand = prs[i].cand
      BY <2>2, <3>1, <3>2 DEF HostIsSound, DispositionsAreOwn
    <3> QED BY <3>2, <3>3 DEF Written, Range
  <2> QED BY <2>1, <2>4, <2>5, <2>6
<1>2. Inductive /\ [Next]_vars =>
        [\A i \in OpenPrs :
           prs'[i].state = "closed" /\ job' # job =>
               /\ Tip # prep[prs[i].cand]
               /\ Recorded("stale-base", Attempt(prs[i].cand)) # {}
               /\ i \in Written("pr-created", prs[i].cand) =>
                      Written("stale-base", prs[i].cand) # {}]_vars
  BY <1>1
<1> QED BY <1>2, Invariance, PTL DEF Spec, ClosesOnlyTheStale

\* What a candidate was prepared on is written once.  The host would take another
\* artifact of that name from a later run (overwrite: false is about one run), so
\* it is the resolution of the request that must lead to an attempt that nothing
\* was prepared for (release-automation.mjs:4038-4045).
PreparedOnce == [][\A c \in Candidates : prep[c] # None => prep'[c] = prep[c]]_vars

LEMMA OneStepPrepares ==
  ASSUME [Next]_vars, ~UploadPreparation
  PROVE  UNCHANGED prep
<1> USE DEF durable, Reads
<1>1. CASE JobEnds
  BY <1>1 DEF JobEnds
<1>2. CASE Resolve \/ Fresh \/ Live \/ Prepare \/ EnsureSameVersionConflict \/ ReconcileRecordedCheckpoints
  BY <1>2 DEF Resolve, Fresh, Live, Prepare, EnsureSameVersionConflict, ReconcileRecordedCheckpoints
<1>3. CASE PersistStaleDisposition \/ PersistPrCreated \/ PersistMerged
  BY <1>3 DEF PersistStaleDisposition, PersistPrCreated, PersistMerged
<1>4. CASE ValidateProtection("protection", "base") \/ ValidateProtection("protection again", "merge")
  BY <1>4 DEF ValidateProtection
<1>5. CASE \/ ValidatePullRequestGates("gates", "checks")
           \/ ValidatePullRequestGates("gates again", "protection again")
  BY <1>5 DEF ValidatePullRequestGates
<1>6. CASE \/ MainIsTheBase \/ ExposeCandidateRef \/ WaitForPullRequestChecks \/ RereadMain \/ Refresh
           \/ ReproduceCandidateTree
  BY <1>6 DEF MainIsTheBase, ExposeCandidateRef, WaitForPullRequestChecks, RereadMain, Refresh,
              ReproduceCandidateTree
<1>7. CASE VerifyCandidateTree \/ CheckMainPublication \/ ReconcileExistingTag \/ CreateRelease \/ ReadBack
  BY <1>7 DEF VerifyCandidateTree, CheckMainPublication, ReconcileExistingTag, CreateRelease, ReadBack
<1>8. CASE PublishRelease \/ CheckTag \/ WaitForPublication \/ Close \/ CreatePullRequest \/ MergePullRequest
  BY <1>8 DEF PublishRelease, CheckTag, WaitForPublication, Close, CreatePullRequest, MergePullRequest
<1>9. CASE Workflows
  BY <1>9 DEF Workflows, PullRequestChecks, EdgePublication, ImagePublication
<1>10. CASE \/ \E v \in Versions : Dispatch(v)
            \/ Push \/ Protection \/ \E c \in Candidates : Edit(c)
  BY <1>10 DEF Dispatch, Push, Protection, Edit
<1>11. CASE \/ \E i \in DOMAIN prs : CloseByHand(i) \/ Reopen(i) \/ Dispute(i) \/ MergeByHand(i)
            \/ \E v \in Versions, n \in DOMAIN main : TagByHand(v, n)
  BY <1>11 DEF CloseByHand, Reopen, Dispute, MergeByHand, TagByHand
<1>12. CASE UNCHANGED vars
  BY <1>12 DEF vars
<1> QED BY <1>1, <1>2, <1>3, <1>4, <1>5, <1>6, <1>7, <1>8, <1>9, <1>10, <1>11, <1>12
       DEF Next, Controller, People

\* No run prepares an attempt at a version that was prepared before.
THEOREM PreparesOnce == Spec => PreparedOnce
<1>1. ASSUME Inductive, [Next]_vars, NEW c \in Candidates, prep[c] # None PROVE prep'[c] = prep[c]
  <2>1. CASE UploadPreparation
    <3>1. prep[CandOf(job)] = None
      BY <1>1, <2>1, Uploads
    <3>2. c # Cand
      BY <1>1, <3>1 DEF Cand, CandOf
    <3>3. prep \in [Candidates -> Nat \cup {None}]
      BY <1>1 DEF Inductive, HostIsSound, HostTypes
    <3> QED BY <2>1, <3>2, <3>3 DEF UploadPreparation
  <2>2. CASE ~UploadPreparation
    BY <1>1, <2>2, OneStepPrepares
  <2> QED BY <2>1, <2>2
<1>2. Inductive /\ [Next]_vars => [\A c \in Candidates : prep[c] # None => prep'[c] = prep[c]]_vars
  BY <1>1
<1> QED BY <1>2, Invariance, PTL DEF Spec, PreparedOnce

===============================================================================
