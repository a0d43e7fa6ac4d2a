-------------------------- MODULE ReleasePublication --------------------------
(***************************************************************************)
(* The publication of stable images (scripts/release-publication.mjs): one *)
(* immutable tag per version, a moving tag per minor line, and "latest".   *)
(*                                                                         *)
(* The workflow runs one publication at a time (concurrency group, no      *)
(* cancellation), for any released version in any order, again and again.  *)
(* Every call of the registry is a step of its own: the registry may       *)
(* refuse it, may do it and not say so, may do it late, and the job may    *)
(* end between any two of them.                                            *)
(***************************************************************************)
EXTENDS Integers, FiniteSets

CONSTANTS
    Versions,   \* the released versions, <<major, minor, patch>>
    Legacy,     \* a version whose image an earlier publisher left behind
    Builds,     \* tells the images of one version apart
    Faults,     \* what may go wrong: "registry", "push", "job", "lost"
    None

ASSUME VersionsAssumption ==
    /\ Versions \subseteq Nat \X Nat \X Nat
    /\ Legacy \in (Nat \X Nat \X Nat) \ Versions
    /\ Faults \subseteq {"registry", "push", "job", "lost"}
    /\ Builds # {}
    /\ None \notin (Versions \cup {Legacy}) \cup [version : Versions \cup {Legacy}, build : Builds]

VARIABLES
    tag,        \* tag -> the image it names, None when it does not exist
    pushing,    \* a push whose client has given up and that may still land
    run,        \* the publication that is running
    evidence,   \* what the evidence files say: published, or blocked and how far
    calm        \* TRUE when nothing goes wrong any more

vars == <<tag, pushing, run, evidence, calm>>

-------------------------------------------------------------------------------
(* Versions, images and tags.  A digest names the content of an image, and   *)
(* two builds of one source differ; so an image is its version label and the *)
(* build it comes from.                                                      *)

Image == [version : Versions \cup {Legacy}, build : Builds]

Newer(a, b) ==
    \E i \in 1..3 : a[i] > b[i] /\ \A j \in 1..(i - 1) : a[j] = b[j]

Immutable(v) == <<"immutable", v>>
Minor(v) == <<"minor", <<v[1], v[2]>>>>
Latest == <<"latest", <<>>>>

Tags == {Latest} \cup {Immutable(v) : v \in Versions} \cup {Minor(v) : v \in Versions}

\* The tags of one release, in the order of expectedImageTags.
TagOf(key, v) ==
    CASE key = "immutable" -> Immutable(v)
      [] key = "minor"     -> Minor(v)
      [] key = "latest"    -> Latest

\* What a publication is doing, in the order it does it.
Idle == [at |-> "idle", version |-> None, first |-> FALSE, digest |-> None,
         adopted |-> None, moves |-> {}]

-------------------------------------------------------------------------------
\* What the registry tool says of a tag: raw bytes and their formatted reading
\* agree on the digest; only its own words for a missing manifest mean absence.
Inspect(t) == tag[t]

\* The labels of both platforms, when they agree.
InspectionVersion(image) == image.version

\* Labels and digest agree with the release (and with the digest known).
Verifies(image, v) ==
    /\ image # None
    /\ image.version = v
    /\ run.digest \in {None, image}

\* Wrong: any verifiable image may be replaced, whatever its version.
MayMoveBack(image) ==
    \/ image = None
    \/ image.version # run.version
    \/ Verifies(image, run.version) /\ run.adopted \in {None, image}

\* Wrong: a moving tag of this version conflicts while the digest is unknown.
MayMoveUnlessAdopting(image) ==
    \/ image = None
    \/ Newer(run.version, InspectionVersion(image))
    \/ run.digest # None /\ Verifies(image, run.version)

\* A moving tag that may be kept, adopted or moved on to version v.
MayMove(image) ==
    \/ image = None
    \/ Newer(run.version, InspectionVersion(image))
    \/ Verifies(image, run.version) /\ run.adopted \in {None, image}

Init ==
    /\ \E old \in {None} \cup {[version |-> Legacy, build |-> b] : b \in Builds} :
           tag = [t \in Tags |-> IF t = Latest THEN old ELSE None]
    /\ pushing = None
    /\ run = Idle
    /\ evidence = {}
    /\ calm = (Faults = {})

MayFail(fault) == fault \in Faults /\ ~calm

At(place) == run.at = place

\* Publications of one image wait for each other, in the process by a queue of
\* promises and across runs by the concurrency group of the workflow.
QueueIsFree == At("idle")

\* The event of a release, the manual entry point (first attempts), or the
\* rerun of a failed run (not first).  The runner of the run before is gone,
\* and with it any push it had under way.
Start(v, first) ==
    /\ QueueIsFree
    /\ run' = [Idle EXCEPT !.at = "immutable", !.version = v, !.first = first]
    /\ pushing' = None
    /\ UNCHANGED <<tag, evidence, calm>>

\* The image a blocked publication can name: the one it found, adopted or
\* verified after it was written.
Known == IF run.digest = None /\ At("decide") THEN run.adopted ELSE run.digest

BlockedEvidence(image) ==
    evidence' = evidence \cup ({[state |-> "blocked", image |-> image]}
                               \ {[state |-> "blocked", image |-> None]})

\* Any error ends the publication; the evidence says what was found.
Block ==
    /\ run' = Idle
    /\ BlockedEvidence(Known)
    /\ UNCHANGED <<tag, pushing, calm>>

\* The registry cannot be read, or what it answers cannot be verified.
InspectionFails ==
    /\ MayFail("registry")
    /\ run.at \in {"immutable", "plan minor", "plan latest", "built", "adopted",
                   "replan minor", "replan latest", "verify immutable",
                   "verify minor", "verify latest"}
    /\ Block

\* The runner is lost, or the job is cancelled.
JobEnds ==
    /\ MayFail("job")
    /\ ~At("idle")
    /\ run' = Idle
    /\ UNCHANGED <<tag, pushing, evidence, calm>>

\* Wrong: an inspection that fails is taken for the absence of the tag.
InspectImmutableOrAssumeAbsent ==
    /\ At("immutable")
    /\ \E image \in {tag[Immutable(run.version)]} \cup {None} :
           /\ image = None => MayFail("registry") \/ tag[Immutable(run.version)] = None
           /\ run' = [run EXCEPT !.at = "plan minor", !.digest = image]
    /\ UNCHANGED <<tag, pushing, evidence, calm>>

InspectImmutable ==
    /\ At("immutable")
    /\ LET image == Inspect(Immutable(run.version))
       IN  IF image = None \/ Verifies(image, run.version)
           THEN /\ run' = [run EXCEPT !.at = "plan minor", !.digest = image]
                /\ UNCHANGED <<tag, pushing, evidence, calm>>
           ELSE Block

\* planMovingTags, one tag at a time; it is done once before anything is
\* written and once more when the digest is known.
PlanMovingTag(key, here, next) ==
    /\ At(here)
    /\ LET image == Inspect(TagOf(key, run.version))
       IN  IF MayMove(image)
           THEN /\ run' = [run EXCEPT
                     !.at = next,
                     !.adopted = IF run.digest = None /\ image # None
                                    /\ InspectionVersion(image) = run.version
                                 THEN image ELSE @,
                     !.moves = IF run.digest # None /\ image = run.digest
                               THEN @ \ {key} ELSE @ \cup {key}]
                /\ UNCHANGED <<tag, pushing, evidence, calm>>
           ELSE Block

Plan ==
    \/ PlanMovingTag("minor", "plan minor", "plan latest")
    \/ PlanMovingTag("latest", "plan latest", "decide")

Replan ==
    \/ PlanMovingTag("minor", "replan minor", "replan latest")
    \/ PlanMovingTag("latest", "replan latest", "move minor")

\* The immutable tag exists: nothing to build.
Reuse ==
    /\ At("decide")
    /\ run.digest # None
    /\ run' = [run EXCEPT !.at = "replan minor"]
    /\ UNCHANGED <<tag, pushing, evidence, calm>>

\* A rerun that finds no image does not build one: the run before may have.
RefuseToRebuild ==
    /\ At("decide")
    /\ run.digest = None /\ run.adopted = None /\ ~run.first
    /\ Block

\* A digest nothing refers to.
Fresh == CHOOSE image \in [version : {run.version}, build : Builds] :
            image \notin {tag[t] : t \in Tags} \cup {pushing} \cup {e.image : e \in evidence}

\* Wrong: builds although a moving tag still names the image.
BuildingWithoutAdopting ==
    /\ At("decide")
    /\ run.digest = None /\ run.first

Building ==
    /\ At("decide")
    /\ run.digest = None /\ run.adopted = None /\ run.first

\* docker buildx build --push
Build ==
    /\ Building
    /\ tag' = [tag EXCEPT ![Immutable(run.version)] = Fresh]
    /\ run' = [run EXCEPT !.at = "built"]
    /\ UNCHANGED <<pushing, evidence, calm>>

\* The client reports a failure; the push may have been done, may be done
\* later, or never.
BuildFails ==
    /\ MayFail("push")
    /\ Building
    /\ \/ tag' = [tag EXCEPT ![Immutable(run.version)] = Fresh] /\ UNCHANGED pushing
       \/ pushing' = Fresh /\ UNCHANGED tag
       \/ UNCHANGED <<tag, pushing>>
    /\ run' = [run EXCEPT !.at = "recover"]
    /\ UNCHANGED <<evidence, calm>>

\* The tag is read once more for the evidence; the failure stands.
Recover ==
    /\ At("recover")
    /\ run' = Idle
    /\ BlockedEvidence(Inspect(Immutable(run.version)))
    /\ UNCHANGED <<tag, pushing, calm>>

PushLands ==
    /\ pushing # None
    /\ tag' = [tag EXCEPT ![Immutable(pushing.version)] = pushing]
    /\ pushing' = None
    /\ UNCHANGED <<run, evidence, calm>>

\* A moving tag still names the image of this version: give it back its tag.
Adopt ==
    /\ At("decide")
    /\ run.digest = None /\ run.adopted # None
    /\ tag' = [tag EXCEPT ![Immutable(run.version)] = run.adopted]
    /\ run' = [run EXCEPT !.at = "adopted", !.digest = run.adopted]
    /\ UNCHANGED <<pushing, evidence, calm>>

\* What was written is read back and verified.
InspectWritten ==
    /\ run.at \in {"built", "adopted"}
    /\ LET image == Inspect(Immutable(run.version))
       IN  IF Verifies(image, run.version)
           THEN /\ run' = [run EXCEPT !.at = "replan minor", !.digest = image]
                /\ UNCHANGED <<tag, pushing, evidence, calm>>
           ELSE Block

MoveTag(key, here, next) ==
    /\ At(here)
    /\ tag' = IF key \in run.moves
              THEN [tag EXCEPT ![TagOf(key, run.version)] = run.digest]
              ELSE tag
    /\ run' = [run EXCEPT !.at = next]
    /\ UNCHANGED <<pushing, evidence, calm>>

MoveTags ==
    \/ MoveTag("minor", "move minor", "move latest")
    \/ MoveTag("latest", "move latest", "verify immutable")

\* The retag is refused, or done and reported as refused.
RetagFails ==
    /\ MayFail("push")
    /\ \/ At("move minor") /\ "minor" \in run.moves
            /\ tag' \in {tag, [tag EXCEPT ![Minor(run.version)] = run.digest]}
       \/ At("move latest") /\ "latest" \in run.moves
            /\ tag' \in {tag, [tag EXCEPT ![Latest] = run.digest]}
       \/ At("decide") /\ run.digest = None /\ run.adopted # None
            /\ tag' \in {tag, [tag EXCEPT ![Immutable(run.version)] = run.adopted]}
    /\ run' = Idle
    /\ BlockedEvidence(Known)
    /\ UNCHANGED <<pushing, calm>>

\* All three tags are read back before success is reported.
VerifyTag(key, here, next) ==
    /\ At(here)
    /\ Verifies(Inspect(TagOf(key, run.version)), run.version)
    /\ run' = IF key = "latest" THEN Idle ELSE [run EXCEPT !.at = next]
    /\ evidence' = IF key = "latest"
                   THEN evidence \cup {[state |-> "published", image |-> run.digest]}
                   ELSE evidence
    /\ UNCHANGED <<tag, pushing, calm>>

VerifyTags ==
    \/ VerifyTag("immutable", "verify immutable", "verify minor")
    \/ VerifyTag("minor", "verify minor", "verify latest")
    \/ VerifyTag("latest", "verify latest", "idle")

\* A tag that was deleted meanwhile does not verify.
VerificationFails ==
    /\ At("verify immutable")
    /\ ~Verifies(Inspect(Immutable(run.version)), run.version)
    /\ Block

\* Someone deletes an immutable tag whose image a moving tag still names.
Lose(v) ==
    /\ MayFail("lost")
    /\ tag[Immutable(v)] # None
    /\ tag[Immutable(v)] \in {tag[Minor(v)], tag[Latest]}
    /\ tag' = [tag EXCEPT ![Immutable(v)] = None]
    /\ UNCHANGED <<pushing, run, evidence, calm>>

\* The last fault has happened.
Settle ==
    /\ ~calm
    /\ calm' = TRUE
    /\ UNCHANGED <<tag, pushing, run, evidence>>

-------------------------------------------------------------------------------
Publish ==
    \/ InspectImmutable \/ Plan \/ Reuse \/ RefuseToRebuild \/ Build \/ Recover
    \/ Adopt \/ InspectWritten \/ Replan \/ MoveTags \/ VerifyTags \/ VerificationFails

Next ==
    \/ \E v \in Versions, first \in BOOLEAN : Start(v, first)
    \/ Publish
    \/ InspectionFails
    \/ JobEnds
    \/ BuildFails
    \/ RetagFails
    \/ PushLands
    \/ \E v \in Versions : Lose(v)
    \/ Settle

Spec == Init /\ [][Next]_vars

Newest == CHOOSE v \in Versions : \A w \in Versions \ {v} : Newer(v, w)

\* A job runs to its end, faults end, and the operator comes back for the
\* newest release, by the manual entry point (a first attempt).
FairSpec ==
    /\ Spec
    /\ WF_vars(Publish)
    /\ WF_vars(Settle)
    /\ SF_vars(Start(Newest, TRUE))

-------------------------------------------------------------------------------
TypeOK ==
    /\ tag \in [Tags -> Image \cup {None}]
    /\ pushing \in Image \cup {None}
    /\ run.version \in Versions \cup {None}
    /\ run.digest \in Image \cup {None}
    /\ run.adopted \in Image \cup {None}
    /\ run.moves \subseteq {"minor", "latest"}
    /\ evidence \subseteq [state : {"published", "blocked"}, image : Image]
    /\ calm \in BOOLEAN

\* A version never has two images: whatever fails, lands late or is run again,
\* all tags that name an image of a version name the same one, also the tag a
\* push that is still under way will write (publishStableImageUnchecked builds
\* only what it found nowhere).
OneImagePerVersion ==
    \A i, j \in {tag[t] : t \in Tags} \cup {pushing} :
        i # None /\ j # None /\ i.version = j.version => i = j

\* Evidence stays true: the immutable tag of an image that a publication has
\* reported, as published or as what a blocked run left behind, names it, or
\* nothing (somebody deleted the tag), and never something else.
EvidenceStaysTrue ==
    \A e \in evidence : tag[Immutable(e.image.version)] \in {e.image, None}

\* A moving tag never goes back to an older version, and a publication writes
\* nothing at all for a version that is older than what "latest" names: the
\* moving tags are examined before anything is built or moved.
MovingTagsOnlyAdvance ==
    [][ /\ \A t \in Tags \ {Immutable(v) : v \in Versions} :
             tag[t] # None =>
                 tag'[t] # None /\ ~Newer(tag[t].version, tag'[t].version)
        /\ \A t \in Tags :
             tag'[t] \notin {tag[t], None, pushing} /\ tag[Latest] # None =>
                 ~Newer(tag[Latest].version, tag'[t].version) ]_vars

\* When faults end, publishing the newest release again completes it: no state
\* that a failure leaves behind needs anything but another run.
EventuallyPublished ==
    <>[](/\ tag[Latest] # None
         /\ tag[Latest].version = Newest
         /\ \A t \in {Immutable(Newest), Minor(Newest)} : tag[t] = tag[Latest])

===============================================================================
