---------------------- MODULE ReleasePublicationProofs ----------------------
(***************************************************************************)
(* Proofs about the publication of stable images, for every set of         *)
(* versions, every number of builds and every set of faults.               *)
(*                                                                         *)
(* That a version has one image rests on what a plan has seen staying true *)
(* until it is acted on (PlanHolds), and on every image that was ever      *)
(* reported being findable from the tags for as long as it could be built  *)
(* again (ReportsAreFound): a moving tag that is at least at its version   *)
(* either names it, so that it is adopted, or forbids the publication.     *)
(***************************************************************************)
EXTENDS ReleasePublication, TLAPS

(***************************************************************************)
(* The invariant.                                                          *)
(***************************************************************************)

Places == {"idle", "immutable", "plan minor", "plan latest", "decide", "built", "recover",
           "adopted", "replan minor", "replan latest", "move minor", "move latest",
           "verify immutable", "verify minor", "verify latest"}

Types ==
    /\ tag \in [Tags -> Image \cup {None}]
    /\ pushing \in Image \cup {None}
    /\ run \in [at : Places, version : Versions \cup {None}, first : BOOLEAN,
                digest : Image \cup {None}, adopted : Image \cup {None},
                moves : SUBSET {"minor", "latest"}]
    /\ evidence \subseteq [state : {"published", "blocked"}, image : Image]
    /\ calm \in BOOLEAN
    /\ run.at # "idle" => run.version \in Versions

\* Tags name images of their version, or of their minor line.
TagsAreTrue ==
    /\ \A v \in Versions : tag[Immutable(v)] # None => tag[Immutable(v)].version = v
    /\ \A v \in Versions : tag[Minor(v)] # None => Minor(tag[Minor(v)].version) = Minor(v)
    /\ pushing # None => pushing.version \in Versions

\* What the publication knows is of its version; a push is left behind only by
\* the publication that has given it up.
RunIsTrue ==
    /\ run.digest # None => run.digest.version = run.version
    /\ run.adopted # None => run.adopted.version = run.version
    /\ pushing # None => run.at \in {"recover", "idle"}
    /\ run.at = "idle" => run.digest = None /\ run.adopted = None
    /\ run.at \in {"replan minor", "replan latest", "move minor", "move latest",
                   "verify immutable", "verify minor", "verify latest"} => run.digest # None

\* Everything that names an image, now or later.
References == {tag[t] : t \in Tags} \cup {pushing, run.digest, run.adopted}
              \cup {e.image : e \in evidence}

OneImage ==
    \A i, j \in References : i # None /\ j # None /\ i.version = j.version => i = j

\* A moving tag that has come at least to version v, or has not gone past it.
AtLeast(image, v) == image # None /\ (image.version = v \/ Newer(image.version, v))

NotAbove(image, v) == image = None \/ image.version = v \/ Newer(v, image.version)

\* An image that a publication has reported or is about to report can be found
\* again, by its own tag or by a moving tag, or an image has gone past it.
Found(image) ==
    LET v == image.version
    IN  /\ v \in Versions
        /\ \/ tag[Immutable(v)] # None
           \/ AtLeast(tag[Minor(v)], v)
           \/ AtLeast(tag[Latest], v)

ReportsAreFound ==
    \A image \in {e.image : e \in evidence} \cup ({run.digest, run.adopted} \ {None}) :
        Found(image)

AfterMinor == {"plan latest", "decide", "built", "adopted", "replan minor", "replan latest",
               "move minor", "move latest"}

AfterLatest == AfterMinor \ {"plan latest"}

\* What a plan has found stays so until the tags are moved: nothing is above
\* the version, and an image of this version has been adopted.
PlanHolds ==
    /\ run.at \in AfterMinor => NotAbove(tag[Minor(run.version)], run.version)
    /\ run.at \in AfterLatest => NotAbove(tag[Latest], run.version)
    /\ run.digest = None =>
           /\ run.at \in {"plan minor", "plan latest", "decide"} =>
                  tag[Immutable(run.version)] = None
           /\ run.at \in {"plan latest", "decide"} /\ AtLeast(tag[Minor(run.version)], run.version) =>
                  run.adopted # None
           /\ run.at = "decide" /\ AtLeast(tag[Latest], run.version) =>
                  run.adopted # None

Inductive ==
    /\ Types
    /\ TagsAreTrue
    /\ RunIsTrue
    /\ OneImage
    /\ ReportsAreFound
    /\ PlanHolds

(***************************************************************************)
(* Versions and tags.                                                      *)
(***************************************************************************)

AnyVersion == Versions \cup {Legacy}

LEMMA NewerIs ==
  ASSUME NEW a \in Nat \X Nat \X Nat, NEW b \in Nat \X Nat \X Nat
  PROVE  Newer(a, b) <=> \/ a[1] > b[1]
                         \/ a[1] = b[1] /\ a[2] > b[2]
                         \/ a[1] = b[1] /\ a[2] = b[2] /\ a[3] > b[3]
<1>1. /\ 1..3 = {1, 2, 3} /\ 1..(1 - 1) = {} /\ 1..(2 - 1) = {1} /\ 1..(3 - 1) = {1, 2}
  OBVIOUS
<1> QED BY <1>1 DEF Newer

LEMMA NewerIsAnOrder ==
  ASSUME NEW a \in AnyVersion, NEW b \in AnyVersion, NEW c \in AnyVersion
  PROVE  /\ ~Newer(a, a)
         /\ Newer(a, b) => ~Newer(b, a)
         /\ Newer(a, b) /\ Newer(b, c) => Newer(a, c)
<1>1. /\ a \in Nat \X Nat \X Nat /\ b \in Nat \X Nat \X Nat /\ c \in Nat \X Nat \X Nat
  BY VersionsAssumption DEF AnyVersion
<1> QED BY <1>1, NewerIs

LEMMA TagsDiffer ==
  /\ \A v, w \in Versions : Immutable(v) = Immutable(w) => v = w
  /\ \A v, w \in Versions : Immutable(v) # Minor(w)
  /\ \A v \in Versions : Immutable(v) # Latest /\ Minor(v) # Latest
  /\ \A v \in Versions : Immutable(v) \in Tags /\ Minor(v) \in Tags
  /\ Latest \in Tags
  BY DEF Immutable, Minor, Latest, Tags

LEMMA Naming ==
  ASSUME NEW t \in Tags
  PROVE  t = Latest \/ \E v \in Versions : t = Immutable(v) \/ t = Minor(v)
  BY DEF Tags

LEMMA ImagesHaveVersions ==
  /\ None \notin Image
  /\ \A image \in Image : image.version \in AnyVersion
  /\ None \notin Versions
  BY VersionsAssumption DEF Image, AnyVersion

\* Steps after which no image is named that was not named before.
LEMMA NothingNew ==
  ASSUME OneImage, References' \subseteq References \cup {None}
  PROVE  OneImage'
  BY DEF OneImage

LEMMA AtLeastStays ==
  ASSUME NEW v \in AnyVersion, NEW old \in Image, NEW image \in Image, AtLeast(old, v),
         NotAbove(old, image.version)
  PROVE  AtLeast(image, v)
<1>1. old.version \in AnyVersion /\ image.version \in AnyVersion /\ image # None
  BY ImagesHaveVersions
<1> QED BY <1>1, NewerIsAnOrder DEF AtLeast, NotAbove

LEMMA BothMeansEqual ==
  ASSUME NEW v \in AnyVersion, NEW image \in Image, AtLeast(image, v), NotAbove(image, v)
  PROVE  image.version = v
  BY ImagesHaveVersions, NewerIsAnOrder DEF AtLeast, NotAbove

(***************************************************************************)
(* The initial states.                                                     *)
(***************************************************************************)

LEMMA InitInductive == Init => Inductive
<1> SUFFICES ASSUME Init PROVE Inductive
  OBVIOUS
<1>1. /\ tag \in [Tags -> Image \cup {None}]
      /\ \A t \in Tags : t # Latest => tag[t] = None
      /\ pushing = None /\ run = Idle /\ evidence = {} /\ calm \in BOOLEAN
  BY TagsDiffer DEF Init, Image
<1>2. run.at = "idle" /\ run.digest = None /\ run.adopted = None
  BY <1>1 DEF Idle
<1>3. Types
  BY <1>1 DEF Types, Idle, Places
<1>4. TagsAreTrue
  BY <1>1, TagsDiffer DEF TagsAreTrue
<1>5. RunIsTrue
  BY <1>1, <1>2 DEF RunIsTrue
<1>6. OneImage
  BY <1>1, <1>2 DEF OneImage, References
<1>7. ReportsAreFound
  BY <1>1, <1>2 DEF ReportsAreFound
<1>8. PlanHolds
  BY <1>2 DEF PlanHolds, AfterMinor, AfterLatest
<1> QED BY <1>3, <1>4, <1>5, <1>6, <1>7, <1>8 DEF Inductive

(***************************************************************************)
(* Steps that write no tag.                                                *)
(***************************************************************************)

\* Finding depends on the tags only.
LEMMA FoundStays ==
  ASSUME UNCHANGED tag
  PROVE  \A image : Found(image)' = Found(image)
  BY DEF Found, AtLeast

\* The publication takes note of an image that is named somewhere.
LEMMA NoteKeeps ==
  ASSUME Inductive, UNCHANGED <<tag, pushing, evidence, calm>>, Types', RunIsTrue', PlanHolds',
         run'.digest \in References \cup {None}, run'.adopted \in References \cup {None},
         run'.digest # None => Found(run'.digest),
         run'.adopted # None => Found(run'.adopted)
  PROVE  Inductive'
<1>1. TagsAreTrue'
  BY DEF Inductive, TagsAreTrue
<1>2. OneImage'
  <2>1. References' \subseteq References \cup {None}
    BY DEF References
  <2> QED BY <2>1, NothingNew DEF Inductive
<1>3. ReportsAreFound'
  BY FoundStays DEF Inductive, ReportsAreFound
<1> QED BY <1>1, <1>2, <1>3 DEF Inductive

\* The publication ends; what it reports is named somewhere, and can be found.
LEMMA EndKeeps ==
  ASSUME Inductive, run' = Idle, UNCHANGED <<tag, calm>>, pushing' = pushing,
         evidence' \subseteq [state : {"published", "blocked"}, image : Image],
         \A e \in evidence' :
             e \in evidence \/ (e.image \in References /\ Found(e.image))
  PROVE  Inductive'
<1>0. run'.at = "idle" /\ run'.digest = None /\ run'.adopted = None
  BY DEF Idle
<1>1. Types'
  BY DEF Inductive, Types, Idle, Places
<1>2. TagsAreTrue'
  BY DEF Inductive, TagsAreTrue
<1>3. RunIsTrue'
  BY <1>0 DEF RunIsTrue
<1>4. OneImage'
  <2>1. References' \subseteq References \cup {None}
    BY <1>0 DEF References
  <2> QED BY <2>1, NothingNew DEF Inductive
<1>5. ReportsAreFound'
  BY <1>0, FoundStays DEF Inductive, ReportsAreFound
<1>6. PlanHolds'
  BY <1>0 DEF PlanHolds, AfterMinor, AfterLatest
<1> QED BY <1>1, <1>2, <1>3, <1>4, <1>5, <1>6 DEF Inductive

\* What a blocked publication reports is what it knows.
LEMMA BlockKeeps == Inductive /\ Block => Inductive'
<1> SUFFICES ASSUME Inductive, Block PROVE Inductive'
  OBVIOUS
<1>1. Known \in {run.digest, run.adopted} /\ Known \in Image \cup {None}
  BY DEF Inductive, Types, Known
<1>2. Known # None => Known \in References /\ Found(Known)
  BY <1>1 DEF Inductive, ReportsAreFound, References
<1>3. \A e \in evidence' : e \in evidence \/
          (e.image = Known /\ Known # None /\ e \in [state : {"published", "blocked"}, image : Image])
  BY <1>1 DEF Block, BlockedEvidence
<1>4. evidence' \subseteq [state : {"published", "blocked"}, image : Image]
  BY <1>3 DEF Inductive, Types
<1> QED BY <1>2, <1>3, <1>4, EndKeeps DEF Block

LEMMA StartKeeps ==
  ASSUME Inductive, NEW v \in Versions, NEW first \in BOOLEAN, Start(v, first)
  PROVE  Inductive'
<1>0. /\ run'.at = "immutable" /\ run'.digest = None /\ run'.adopted = None
      /\ pushing' = None /\ UNCHANGED <<tag, evidence, calm>>
  BY DEF Start, Idle
<1>1. Types'
  BY DEF Start, Idle, Inductive, Types, Places
<1>2. TagsAreTrue' /\ RunIsTrue'
  BY <1>0 DEF Inductive, TagsAreTrue, RunIsTrue
<1>3. OneImage'
  <2>1. References' \subseteq References \cup {None}
    BY <1>0 DEF References
  <2> QED BY <2>1, NothingNew DEF Inductive
<1>4. ReportsAreFound'
  BY <1>0, FoundStays DEF Inductive, ReportsAreFound
<1>5. PlanHolds'
  BY <1>0 DEF PlanHolds, AfterMinor, AfterLatest
<1> QED BY <1>1, <1>2, <1>3, <1>4, <1>5 DEF Inductive

LEMMA InspectImmutableKeeps == Inductive /\ InspectImmutable => Inductive'
<1> SUFFICES ASSUME Inductive, InspectImmutable PROVE Inductive'
  OBVIOUS
<1> DEFINE image == tag[Immutable(run.version)]
<1>0. run.at = "immutable" /\ run.version \in Versions
  BY DEF Inductive, Types, InspectImmutable, At
<1>1. image \in Image \cup {None} /\ image \in References
  BY <1>0, TagsDiffer DEF Inductive, Types, References
<1>2. CASE Block
  BY <1>2, BlockKeeps
<1>3. CASE /\ image = None \/ Verifies(image, run.version)
           /\ run' = [run EXCEPT !.at = "plan minor", !.digest = image]
           /\ UNCHANGED <<tag, pushing, evidence, calm>>
  <2>1. /\ run'.at = "plan minor" /\ run'.digest = image /\ run'.adopted = run.adopted
        /\ run'.version = run.version
    BY <1>3 DEF Inductive, Types
  <2>2. Types'
    BY <1>0, <1>1, <1>3 DEF Inductive, Types, Places
  <2>3. image # None => image.version = run.version
    BY <1>3 DEF Verifies
  <2>4. pushing = None
    BY <1>0 DEF Inductive, RunIsTrue
  <2>5. RunIsTrue'
    BY <1>3, <2>1, <2>3, <2>4 DEF Inductive, RunIsTrue
  <2>6. PlanHolds'
    BY <1>3, <2>1 DEF PlanHolds, AfterMinor, AfterLatest
  <2>7. image # None => Found(image)
    BY <1>0, <2>3 DEF Found
  <2>8. run.adopted \in References /\ (run.adopted # None => Found(run.adopted))
    BY DEF Inductive, ReportsAreFound, References
  <2> QED BY <1>1, <1>3, <2>1, <2>2, <2>5, <2>6, <2>7, <2>8, NoteKeeps
<1> QED BY <1>2, <1>3 DEF InspectImmutable, Inspect

LEMMA MovingTagsOf ==
  ASSUME Inductive, run.version \in Versions, NEW key \in {"minor", "latest"}
  PROVE  /\ TagOf(key, run.version) = IF key = "minor" THEN Minor(run.version) ELSE Latest
         /\ TagOf(key, run.version) \in Tags
         /\ tag[TagOf(key, run.version)] \in Image \cup {None}
         /\ tag[TagOf(key, run.version)] \in References
<1>1. TagOf(key, run.version) = IF key = "minor" THEN Minor(run.version) ELSE Latest
  BY DEF TagOf
<1>2. TagOf(key, run.version) \in Tags
  BY <1>1, TagsDiffer
<1> QED BY <1>1, <1>2 DEF Inductive, Types, References

\* A plan may adopt what it examines, or stop.
LEMMA PlanKeeps ==
  ASSUME Inductive, NEW key \in {"minor", "latest"}, NEW here, NEW next,
         PlanMovingTag(key, here, next),
         \/ key = "minor" /\ here = "plan minor" /\ next = "plan latest"
         \/ key = "latest" /\ here = "plan latest" /\ next = "decide"
         \/ key = "minor" /\ here = "replan minor" /\ next = "replan latest"
         \/ key = "latest" /\ here = "replan latest" /\ next = "move minor"
  PROVE  Inductive'
<1> DEFINE v == run.version
           image == tag[TagOf(key, run.version)]
           adopted == IF run.digest = None /\ image # None /\ image.version = run.version
                      THEN image ELSE run.adopted
           moves == IF run.digest # None /\ image = run.digest
                    THEN run.moves \ {key} ELSE run.moves \cup {key}
<1>0. run.at = here /\ v \in Versions /\ v \in AnyVersion
  BY DEF Inductive, Types, PlanMovingTag, At, AnyVersion
<1>1. /\ TagOf(key, v) = IF key = "minor" THEN Minor(v) ELSE Latest
      /\ image \in Image \cup {None} /\ image \in References
  BY <1>0, MovingTagsOf
<1>2. CASE Block
  BY <1>2, BlockKeeps
<1>3. CASE /\ MayMove(image)
           /\ run' = [run EXCEPT !.at = next, !.adopted = adopted, !.moves = moves]
           /\ UNCHANGED <<tag, pushing, evidence, calm>>
  <2>1. /\ run'.at = next /\ run'.version = v /\ run'.digest = run.digest
        /\ run'.adopted = adopted
    BY <1>3 DEF Inductive, Types
  <2>2. adopted \in Image \cup {None}
    BY <1>1 DEF Inductive, Types
  <2>3. Types'
    <3>1. moves \in SUBSET {"minor", "latest"} /\ next \in Places
      BY DEF Inductive, Types, Places
    <3> HIDE DEF moves, adopted
    <3> QED BY <1>0, <1>3, <2>2, <3>1 DEF Inductive, Types
  <2>4. NotAbove(image, v)
    BY <1>3 DEF MayMove, NotAbove, InspectionVersion, Verifies
  <2>5. run.digest = None /\ AtLeast(image, v) => adopted # None
    BY <1>0, <1>1, <2>4, BothMeansEqual DEF AtLeast
  <2>6. RunIsTrue'
    BY <1>0, <1>3, <2>1 DEF Inductive, RunIsTrue
  <2>7. PlanHolds'
    BY <1>0, <1>1, <1>3, <2>1, <2>4, <2>5
    DEF Inductive, PlanHolds, AfterMinor, AfterLatest, AtLeast, NotAbove
  <2>8. adopted \in References \cup {None} /\ run.digest \in References
    BY <1>1 DEF References
  <2>9. adopted # None => Found(adopted)
    <3>1. CASE adopted = run.adopted
      BY <3>1 DEF Inductive, ReportsAreFound
    <3>2. CASE adopted = image /\ image # None /\ image.version = v
      BY <1>0, <1>1, <3>2 DEF Found, AtLeast
    <3> QED BY <3>1, <3>2
  <2>10. run.digest # None => Found(run.digest)
    BY DEF Inductive, ReportsAreFound
  <2> HIDE DEF adopted
  <2> QED BY <1>3, <2>1, <2>3, <2>6, <2>7, <2>8, <2>9, <2>10, NoteKeeps
<1> QED
  <2>1. MayMove(image) \/ Block
    BY DEF PlanMovingTag, Inspect
  <2>2. MayMove(image) => run' = [run EXCEPT !.at = next, !.adopted = adopted, !.moves = moves]
                          /\ UNCHANGED <<tag, pushing, evidence, calm>>
    BY DEF PlanMovingTag, Inspect, InspectionVersion
  <2> QED BY <1>2, <1>3, <2>1, <2>2

LEMMA ReuseKeeps == Inductive /\ Reuse => Inductive'
<1> SUFFICES ASSUME Inductive, Reuse PROVE Inductive'
  OBVIOUS
<1>1. /\ run.at = "decide" /\ run.digest # None
      /\ run' = [run EXCEPT !.at = "replan minor"]
      /\ UNCHANGED <<tag, pushing, evidence, calm>>
  BY DEF Reuse, At
<1>2. /\ run'.at = "replan minor" /\ run'.version = run.version
      /\ run'.digest = run.digest /\ run'.adopted = run.adopted
  BY <1>1 DEF Inductive, Types
<1>3. Types'
  BY <1>1 DEF Inductive, Types, Places
<1>4. RunIsTrue' /\ PlanHolds'
  BY <1>1, <1>2 DEF Inductive, RunIsTrue, PlanHolds, AfterMinor, AfterLatest, NotAbove
<1>5. /\ run.digest \in References /\ run.adopted \in References
      /\ run.digest # None => Found(run.digest)
      /\ run.adopted # None => Found(run.adopted)
  BY DEF Inductive, ReportsAreFound, References
<1> QED BY <1>1, <1>2, <1>3, <1>4, <1>5, NoteKeeps

LEMMA InspectWrittenKeeps == Inductive /\ InspectWritten => Inductive'
<1> SUFFICES ASSUME Inductive, InspectWritten PROVE Inductive'
  OBVIOUS
<1> DEFINE image == tag[Immutable(run.version)]
<1>0. run.at \in {"built", "adopted"} /\ run.version \in Versions
  BY DEF Inductive, Types, InspectWritten
<1>1. image \in Image \cup {None} /\ image \in References
  BY <1>0, TagsDiffer DEF Inductive, Types, References
<1>2. CASE Block
  BY <1>2, BlockKeeps
<1>3. CASE /\ Verifies(image, run.version)
           /\ run' = [run EXCEPT !.at = "replan minor", !.digest = image]
           /\ UNCHANGED <<tag, pushing, evidence, calm>>
  <2>1. /\ run'.at = "replan minor" /\ run'.digest = image /\ run'.adopted = run.adopted
        /\ run'.version = run.version
    BY <1>3 DEF Inductive, Types
  <2>2. Types'
    BY <1>0, <1>1, <1>3 DEF Inductive, Types, Places
  <2>3. image # None /\ image.version = run.version
    BY <1>3 DEF Verifies
  <2>4. pushing = None
    BY <1>0 DEF Inductive, RunIsTrue
  <2>5. RunIsTrue'
    BY <1>3, <2>1, <2>3, <2>4 DEF Inductive, RunIsTrue
  <2>6. PlanHolds'
    BY <1>0, <1>3, <2>1, <2>3 DEF Inductive, PlanHolds, AfterMinor, AfterLatest, NotAbove
  <2>7. Found(image)
    BY <1>0, <2>3 DEF Found
  <2>8. run.adopted \in References /\ (run.adopted # None => Found(run.adopted))
    BY DEF Inductive, ReportsAreFound, References
  <2> QED BY <1>1, <1>3, <2>1, <2>2, <2>5, <2>6, <2>7, <2>8, NoteKeeps
<1> QED BY <1>2, <1>3 DEF InspectWritten, Inspect

\* What is published has been verified.
LEMMA VerifyKeeps ==
  ASSUME Inductive, NEW key, NEW here, NEW next, VerifyTag(key, here, next),
         \/ key = "immutable" /\ here = "verify immutable" /\ next = "verify minor"
         \/ key = "minor" /\ here = "verify minor" /\ next = "verify latest"
         \/ key = "latest" /\ here = "verify latest"
  PROVE  Inductive'
<1>0. run.at = here /\ UNCHANGED <<tag, pushing, calm>>
  BY DEF VerifyTag, At
<1>1. /\ run.digest \in Image /\ run.digest \in References /\ run.adopted \in References
      /\ Found(run.digest) /\ (run.adopted # None => Found(run.adopted))
  BY <1>0 DEF Inductive, Types, RunIsTrue, ReportsAreFound, References
<1>2. CASE key = "latest"
  <2>1. run' = Idle /\ evidence' = evidence \cup {[state |-> "published", image |-> run.digest]}
    BY <1>2 DEF VerifyTag
  <2>2. [state |-> "published", image |-> run.digest] \in
            [state : {"published", "blocked"}, image : Image]
    BY <1>1
  <2>3. evidence' \subseteq [state : {"published", "blocked"}, image : Image]
    BY <2>1, <2>2 DEF Inductive, Types
  <2>4. \A e \in evidence' : e \in evidence \/ e.image = run.digest
    <3>1. PICK published : published = [state |-> "published", image |-> run.digest]
      OBVIOUS
    <3>2. evidence' = evidence \cup {published}
      BY <2>1, <3>1
    <3>3. published.image = run.digest
      BY <3>1
    <3> QED BY <3>2, <3>3
  <2>5. \A e \in evidence' : e \in evidence \/ (e.image \in References /\ Found(e.image))
    BY <1>1, <2>4
  <2> QED BY <1>0, <2>1, <2>3, <2>5, EndKeeps
<1>3. CASE key # "latest"
  <2>1. run' = [run EXCEPT !.at = next] /\ evidence' = evidence
    BY <1>3 DEF VerifyTag
  <2>2. /\ run'.at = next /\ run'.version = run.version
        /\ run'.digest = run.digest /\ run'.adopted = run.adopted
    BY <2>1 DEF Inductive, Types
  <2>3. Types'
    BY <1>0, <1>3, <2>1 DEF Inductive, Types, Places
  <2>4. RunIsTrue' /\ PlanHolds'
    BY <1>0, <1>3, <2>2 DEF Inductive, RunIsTrue, PlanHolds, AfterMinor, AfterLatest
  <2> QED BY <1>0, <1>1, <2>1, <2>2, <2>3, <2>4, NoteKeeps
<1> QED BY <1>2, <1>3

LEMMA RecoverKeeps == Inductive /\ Recover => Inductive'
<1> SUFFICES ASSUME Inductive, Recover PROVE Inductive'
  OBVIOUS
<1> DEFINE image == tag[Immutable(run.version)]
<1>0. run.version \in Versions /\ run' = Idle /\ UNCHANGED <<tag, pushing, calm>>
  BY DEF Inductive, Types, Recover, At
<1>1. image \in Image \cup {None} /\ image \in References
  BY <1>0, TagsDiffer DEF Inductive, Types, References
<1>2. image # None => image.version = run.version
  BY <1>0 DEF Inductive, TagsAreTrue
<1>3. image # None => Found(image)
  BY <1>0, <1>2 DEF Found
<1>4. \A e \in evidence' : e \in evidence \/
          (e.image = image /\ image # None /\ e \in [state : {"published", "blocked"}, image : Image])
  BY <1>1 DEF Recover, BlockedEvidence, Inspect
<1>5. evidence' \subseteq [state : {"published", "blocked"}, image : Image]
  BY <1>4 DEF Inductive, Types
<1> HIDE DEF image
<1> QED BY <1>0, <1>1, <1>3, <1>4, <1>5, EndKeeps


(***************************************************************************)
(* Steps that write a tag.                                                 *)
(***************************************************************************)

\* What every writing step has to show.
LEMMA WriteKeeps ==
  ASSUME Inductive, NEW image \in Image \cup {None},
         Types', TagsAreTrue', RunIsTrue', PlanHolds',
         References' \subseteq References \cup {None, image},
         image # None => \A i \in References : i # None /\ i.version = image.version => i = image,
         \A i \in Image : Found(i) => Found(i)',
         \A i \in {e.image : e \in evidence}' \cup ({run'.digest, run'.adopted} \ {None}) :
             i \in Image /\ (Found(i) \/ Found(i)')
  PROVE  Inductive'
<1>1. OneImage'
  BY DEF Inductive, OneImage
<1>2. ReportsAreFound'
  BY DEF ReportsAreFound
<1> QED BY <1>1, <1>2 DEF Inductive

\* A version's own tag is written.
LEMMA ImmutableWritten ==
  ASSUME Inductive, NEW v \in Versions, NEW image \in Image, image.version = v,
         tag' = [tag EXCEPT ![Immutable(v)] = image],
         pushing' # None => pushing'.version \in Versions
  PROVE  /\ tag' \in [Tags -> Image \cup {None}]
         /\ \A t \in Tags : tag'[t] = IF t = Immutable(v) THEN image ELSE tag[t]
         /\ \A w \in Versions : tag'[Minor(w)] = tag[Minor(w)]
         /\ tag'[Latest] = tag[Latest]
         /\ TagsAreTrue'
         /\ \A i \in Image : Found(i) => Found(i)'
<1>1. tag \in [Tags -> Image \cup {None}]
  BY DEF Inductive, Types
<1>2. /\ tag' \in [Tags -> Image \cup {None}]
      /\ \A t \in Tags : tag'[t] = IF t = Immutable(v) THEN image ELSE tag[t]
  BY <1>1, TagsDiffer
<1>3. /\ \A w \in Versions : tag'[Minor(w)] = tag[Minor(w)]
      /\ tag'[Latest] = tag[Latest]
      /\ \A w \in Versions : tag'[Immutable(w)] = IF w = v THEN image ELSE tag[Immutable(w)]
  BY <1>2, TagsDiffer
<1>4. image # None
  BY ImagesHaveVersions
<1>5. TagsAreTrue'
  BY <1>3 DEF Inductive, TagsAreTrue
<1>6. ASSUME NEW i \in Image, Found(i) PROVE Found(i)'
  BY <1>3, <1>4, <1>6 DEF Found, AtLeast
<1> QED BY <1>2, <1>3, <1>5, <1>6

\* A moving tag is written, and what it names is not above the version.
LEMMA MovingWritten ==
  ASSUME Inductive, NEW v \in Versions, NEW image \in Image, image.version = v,
         NEW target \in {Minor(v), Latest}, NotAbove(tag[target], v),
         tag' = [tag EXCEPT ![target] = image], pushing' = pushing
  PROVE  /\ tag' \in [Tags -> Image \cup {None}]
         /\ \A t \in Tags : tag'[t] = IF t = target THEN image ELSE tag[t]
         /\ \A w \in Versions : tag'[Immutable(w)] = tag[Immutable(w)]
         /\ TagsAreTrue'
         /\ \A i \in Image : Found(i) => Found(i)'
<1>1. tag \in [Tags -> Image \cup {None}] /\ target \in Tags
  BY TagsDiffer DEF Inductive, Types
<1>2. /\ tag' \in [Tags -> Image \cup {None}]
      /\ \A t \in Tags : tag'[t] = IF t = target THEN image ELSE tag[t]
  BY <1>1
<1>3. /\ \A w \in Versions : tag'[Immutable(w)] = tag[Immutable(w)]
      /\ \A w \in Versions : tag'[Minor(w)] = IF target = Minor(w) THEN image ELSE tag[Minor(w)]
      /\ tag'[Latest] = IF target = Latest THEN image ELSE tag[Latest]
  BY <1>2, TagsDiffer
<1>4. \A w \in Versions : target = Minor(w) => Minor(v) = Minor(w)
  BY TagsDiffer
<1>5. TagsAreTrue'
  BY <1>3, <1>4 DEF Inductive, TagsAreTrue
<1>6. ASSUME NEW i \in Image, Found(i) PROVE Found(i)'
  <2> DEFINE w == i.version
  <2>1. w \in Versions /\ w \in AnyVersion
    BY <1>6 DEF Found, AnyVersion
  <2>2. AtLeast(tag[target], w) => AtLeast(image, w)
    <3>1. tag[target] \in Image \cup {None}
      BY <1>1
    <3> QED BY <2>1, <3>1, AtLeastStays DEF AtLeast
  <2>3. AtLeast(tag[Minor(w)], w) => AtLeast(tag'[Minor(w)], w)
    BY <1>3, <2>1, <2>2
  <2>4. AtLeast(tag[Latest], w) => AtLeast(tag'[Latest], w)
    BY <1>3, <2>2
  <2> QED BY <1>3, <1>6, <2>1, <2>3, <2>4 DEF Found, AtLeast
<1> QED BY <1>2, <1>3, <1>5, <1>6

\* When a build begins, nothing names an image of its version.
LEMMA BuildsAreFresh ==
  ASSUME Inductive, Building
  PROVE  /\ \A i \in References : i # None => i.version # run.version
         /\ Fresh \in Image /\ Fresh.version = run.version
<1> DEFINE v == run.version
<1>0. /\ run.at = "decide" /\ v \in Versions /\ run.digest = None /\ run.adopted = None
      /\ pushing = None
  BY DEF Inductive, Types, RunIsTrue, Building, At
<1>1. /\ tag[Immutable(v)] = None /\ ~AtLeast(tag[Minor(v)], v) /\ ~AtLeast(tag[Latest], v)
  BY <1>0 DEF Inductive, PlanHolds
<1>2. ASSUME NEW t \in Tags, tag[t] # None PROVE tag[t].version # v
  <2>1. CASE t = Latest
    BY <1>1, <1>2, <2>1 DEF AtLeast
  <2>2. ASSUME NEW w \in Versions, t = Immutable(w) PROVE tag[t].version # v
    BY <1>1, <1>2, <2>2 DEF Inductive, TagsAreTrue
  <2>3. ASSUME NEW w \in Versions, t = Minor(w) PROVE tag[t].version # v
    <3>1. Minor(tag[t].version) = t
      BY <1>2, <2>3 DEF Inductive, TagsAreTrue
    <3> QED BY <1>1, <1>2, <3>1 DEF AtLeast
  <2> QED BY <2>1, <2>2, <2>3, Naming
<1>3. ASSUME NEW e \in evidence PROVE e.image.version # v
  <2>1. Found(e.image)
    BY DEF Inductive, ReportsAreFound
  <2> QED BY <1>1, <2>1 DEF Found
<1>4. \A i \in References : i # None => i.version # v
  BY <1>0, <1>2, <1>3 DEF References
<1>5. /\ Fresh \in [version : {v}, build : Builds]
  <2>1. PICK b \in Builds : TRUE
    BY VersionsAssumption
  <2> DEFINE image == [version |-> v, build |-> b]
  <2>2. image \in [version : {v}, build : Builds] /\ image.version = v /\ image \in Image
    BY <1>0 DEF Image
  <2>3. image # None
    BY <2>2, ImagesHaveVersions
  <2>4. image \notin References
    BY <1>4, <2>2, <2>3
  <2>5. image \notin {tag[t] : t \in Tags} \cup {pushing} \cup {e.image : e \in evidence}
    BY <2>4 DEF References
  <2> HIDE DEF image
  <2> QED BY <2>2, <2>5 DEF Fresh
<1>6. Fresh \in Image /\ Fresh.version = v
  <2> DEFINE fresh == Fresh
  <2> HIDE DEF fresh
  <2>1. fresh \in [version : {v}, build : Builds]
    BY <1>5 DEF fresh
  <2>2. fresh \in Image /\ fresh.version = v
    BY <1>0, <2>1 DEF Image
  <2> QED BY <2>2 DEF fresh
<1> QED BY <1>4, <1>6

\* A publication that has ended knows nothing and plans nothing.
LEMMA Ended ==
  ASSUME run' = Idle
  PROVE  /\ RunIsTrue' /\ PlanHolds'
         /\ run'.digest = None /\ run'.adopted = None
         /\ run'.at = "idle"
         /\ run' \in [at : Places, version : Versions \cup {None}, first : BOOLEAN,
                      digest : Image \cup {None}, adopted : Image \cup {None},
                      moves : SUBSET {"minor", "latest"}]
<1>1. run'.at = "idle" /\ run'.digest = None /\ run'.adopted = None
  BY DEF Idle
<1>2. RunIsTrue' /\ PlanHolds'
  BY <1>1 DEF RunIsTrue, PlanHolds, AfterMinor, AfterLatest
<1> QED BY <1>1, <1>2 DEF Idle, Places

\* What the running publication knows.
LEMMA WhatIsKnown ==
  ASSUME Inductive
  PROVE  /\ tag \in [Tags -> Image \cup {None}]
         /\ \A i \in {run.digest, run.adopted} :
                /\ i \in References /\ i \in Image \cup {None}
                /\ i # None => Found(i) /\ i.version = run.version
         /\ \A e \in evidence : e.image \in Image /\ e.image \in References /\ Found(e.image)
         /\ run.at # "idle" => run.version \in Versions
         /\ run.at \notin {"recover", "idle"} => pushing = None
<1>1. \A e \in evidence : e.image \in Image
  BY DEF Inductive, Types
<1> QED BY <1>1 DEF Inductive, Types, RunIsTrue, ReportsAreFound, References

\* An image that is known is named by one more tag.
LEMMA KnownIsOne ==
  ASSUME Inductive, NEW image \in References, image # None
  PROVE  \A i \in References : i # None /\ i.version = image.version => i = image
  BY DEF Inductive, OneImage

LEMMA BuildKeeps == Inductive /\ Build => Inductive'
<1> SUFFICES ASSUME Inductive, Build PROVE Inductive'
  OBVIOUS
<1>0. PICK image : image = Fresh
  OBVIOUS
<1>1. /\ Building /\ run.at = "decide" /\ run.digest = None /\ run.adopted = None
      /\ tag' = [tag EXCEPT ![Immutable(run.version)] = image]
      /\ run' = [run EXCEPT !.at = "built"]
      /\ UNCHANGED <<pushing, evidence, calm>>
  BY <1>0 DEF Build, Building, At
<1>2. /\ \A i \in References : i # None => i.version # run.version
      /\ image \in Image /\ image.version = run.version
  BY <1>0, <1>1, BuildsAreFresh
<1>3. run.version \in Versions /\ pushing = None
  BY <1>1, WhatIsKnown
<1>4. /\ tag' \in [Tags -> Image \cup {None}]
      /\ \A t \in Tags : tag'[t] = IF t = Immutable(run.version) THEN image ELSE tag[t]
      /\ \A w \in Versions : tag'[Minor(w)] = tag[Minor(w)]
      /\ tag'[Latest] = tag[Latest]
      /\ TagsAreTrue'
      /\ \A i \in Image : Found(i) => Found(i)'
  BY <1>1, <1>2, <1>3, ImmutableWritten
<1>5. /\ run'.at = "built" /\ run'.version = run.version
      /\ run'.digest = None /\ run'.adopted = None
  BY <1>1 DEF Inductive, Types
<1>6. Types'
  BY <1>1, <1>4 DEF Inductive, Types, Places
<1>7. RunIsTrue' /\ PlanHolds'
  BY <1>1, <1>3, <1>4, <1>5 DEF Inductive, RunIsTrue, PlanHolds, AfterMinor, AfterLatest, NotAbove
<1>8. References' \subseteq References \cup {None, image}
  BY <1>1, <1>4, <1>5 DEF References
<1>9. \A i \in {e.image : e \in evidence}' \cup ({run'.digest, run'.adopted} \ {None}) :
          i \in Image /\ Found(i)
  BY <1>1, <1>5, WhatIsKnown
<1> QED BY <1>2, <1>4, <1>6, <1>7, <1>8, <1>9, WriteKeeps

LEMMA BuildFailsKeeps == Inductive /\ BuildFails => Inductive'
<1> SUFFICES ASSUME Inductive, BuildFails PROVE Inductive'
  OBVIOUS
<1>0. PICK image : image = Fresh
  OBVIOUS
<1>1. /\ Building /\ run.at = "decide" /\ run.digest = None /\ run.adopted = None
      /\ run' = [run EXCEPT !.at = "recover"]
      /\ UNCHANGED <<evidence, calm>>
  BY DEF BuildFails, Building, At
<1>2. /\ \A i \in References : i # None => i.version # run.version
      /\ image \in Image /\ image.version = run.version
  BY <1>0, <1>1, BuildsAreFresh
<1>3. run.version \in Versions /\ pushing = None
  BY <1>1, WhatIsKnown
<1>4. /\ run'.at = "recover" /\ run'.version = run.version
      /\ run'.digest = None /\ run'.adopted = None
  BY <1>1 DEF Inductive, Types
<1>5. /\ tag' \in [Tags -> Image \cup {None}]
      /\ \A t \in Tags : tag'[t] \in {tag[t], image}
      /\ pushing' \in {None, image}
      /\ TagsAreTrue'
      /\ \A i \in Image : Found(i) => Found(i)'
  <2>1. CASE tag' = [tag EXCEPT ![Immutable(run.version)] = image] /\ pushing' = pushing
    BY <1>2, <1>3, <2>1, ImmutableWritten
  <2>2. CASE UNCHANGED tag /\ pushing' \in {pushing, image}
    <3>1. TagsAreTrue'
      BY <1>2, <1>3, <2>2 DEF Inductive, TagsAreTrue
    <3> QED BY <1>2, <1>3, <2>2, <3>1, FoundStays, WhatIsKnown
  <2> QED BY <1>0, <2>1, <2>2 DEF BuildFails
<1>6. Types'
  BY <1>1, <1>2, <1>5 DEF Inductive, Types, Places
<1>7. RunIsTrue' /\ PlanHolds'
  BY <1>4 DEF RunIsTrue, PlanHolds, AfterMinor, AfterLatest
<1>8. References' \subseteq References \cup {None, image}
  BY <1>1, <1>4, <1>5 DEF References
<1>9. \A i \in {e.image : e \in evidence}' \cup ({run'.digest, run'.adopted} \ {None}) :
          i \in Image /\ Found(i)
  BY <1>1, <1>4, WhatIsKnown
<1> QED BY <1>2, <1>5, <1>6, <1>7, <1>8, <1>9, WriteKeeps

LEMMA PushLandsKeeps == Inductive /\ PushLands => Inductive'
<1> SUFFICES ASSUME Inductive, PushLands PROVE Inductive'
  OBVIOUS
<1>1. /\ pushing # None /\ pushing' = None /\ UNCHANGED <<run, evidence, calm>>
      /\ tag' = [tag EXCEPT ![Immutable(pushing.version)] = pushing]
  BY DEF PushLands
<1>2. /\ pushing \in Image /\ pushing.version \in Versions /\ pushing \in References
      /\ run.at \in {"recover", "idle"}
  BY <1>1 DEF Inductive, Types, TagsAreTrue, RunIsTrue, References
<1>4. /\ tag' \in [Tags -> Image \cup {None}]
      /\ \A t \in Tags : tag'[t] = IF t = Immutable(pushing.version) THEN pushing ELSE tag[t]
      /\ TagsAreTrue'
      /\ \A i \in Image : Found(i) => Found(i)'
  BY <1>1, <1>2, ImmutableWritten
<1>6. Types'
  BY <1>1, <1>4 DEF Inductive, Types
<1>7. RunIsTrue' /\ PlanHolds'
  BY <1>1, <1>2 DEF Inductive, RunIsTrue, PlanHolds, AfterMinor, AfterLatest
<1>8. References' \subseteq References \cup {None, pushing}
  BY <1>1, <1>4 DEF References
<1>9. \A i \in {e.image : e \in evidence}' \cup ({run'.digest, run'.adopted} \ {None}) :
          i \in Image /\ Found(i)
  BY <1>1, WhatIsKnown
<1>10. \A i \in References : i # None /\ i.version = pushing.version => i = pushing
  BY <1>1, <1>2, KnownIsOne
<1>11. PICK image \in Image : image = pushing
  BY <1>2
<1> QED BY <1>4, <1>6, <1>7, <1>8, <1>9, <1>10, <1>11, WriteKeeps

LEMMA AdoptKeeps == Inductive /\ Adopt => Inductive'
<1> SUFFICES ASSUME Inductive, Adopt PROVE Inductive'
  OBVIOUS
<1>0. PICK image : image = run.adopted
  OBVIOUS
<1>1. /\ run.at = "decide" /\ image # None
      /\ tag' = [tag EXCEPT ![Immutable(run.version)] = image]
      /\ run' = [run EXCEPT !.at = "adopted", !.digest = image]
      /\ UNCHANGED <<pushing, evidence, calm>>
  BY <1>0 DEF Adopt, At
<1>2. image \in References /\ image \in Image /\ Found(image) /\ image.version = run.version
  BY <1>0, <1>1, WhatIsKnown
<1>3. run.version \in Versions /\ pushing = None
  BY <1>1, WhatIsKnown
<1>4. /\ tag' \in [Tags -> Image \cup {None}]
      /\ \A t \in Tags : tag'[t] = IF t = Immutable(run.version) THEN image ELSE tag[t]
      /\ \A w \in Versions : tag'[Minor(w)] = tag[Minor(w)]
      /\ tag'[Latest] = tag[Latest]
      /\ TagsAreTrue'
      /\ \A i \in Image : Found(i) => Found(i)'
  BY <1>1, <1>2, <1>3, ImmutableWritten
<1>5. /\ run'.at = "adopted" /\ run'.version = run.version
      /\ run'.digest = image /\ run'.adopted = image
  BY <1>0, <1>1 DEF Inductive, Types
<1>6. Types'
  BY <1>1, <1>2, <1>4 DEF Inductive, Types, Places
<1>7. RunIsTrue' /\ PlanHolds'
  BY <1>1, <1>2, <1>3, <1>4, <1>5
  DEF Inductive, RunIsTrue, PlanHolds, AfterMinor, AfterLatest, NotAbove
<1>8. References' \subseteq References \cup {None, image}
  BY <1>1, <1>4, <1>5 DEF References
<1>9. \A i \in {e.image : e \in evidence}' \cup ({run'.digest, run'.adopted} \ {None}) :
          i \in Image /\ Found(i)
  BY <1>1, <1>2, <1>5, WhatIsKnown
<1>10. \A i \in References : i # None /\ i.version = image.version => i = image
  BY <1>1, <1>2, KnownIsOne
<1> QED BY <1>2, <1>4, <1>6, <1>7, <1>8, <1>9, <1>10, WriteKeeps

LEMMA MoveTagKeeps ==
  ASSUME Inductive, NEW key \in {"minor", "latest"}, NEW here, NEW next,
         MoveTag(key, here, next),
         \/ key = "minor" /\ here = "move minor" /\ next = "move latest"
         \/ key = "latest" /\ here = "move latest" /\ next = "verify immutable"
  PROVE  Inductive'
<1>0. PICK image : image = run.digest
  OBVIOUS
<1>1. /\ run.at = here /\ run.version \in Versions /\ pushing = None
      /\ run' = [run EXCEPT !.at = next]
      /\ UNCHANGED <<pushing, evidence, calm>>
  BY WhatIsKnown DEF MoveTag, At
<1>2. image # None /\ image \in References /\ image \in Image /\ image.version = run.version
  BY <1>0, <1>1, WhatIsKnown DEF Inductive, RunIsTrue
<1>3. /\ run'.at = next /\ run'.version = run.version
      /\ run'.digest = run.digest /\ run'.adopted = run.adopted
  BY <1>1 DEF Inductive, Types
<1>4. /\ NotAbove(tag[Minor(run.version)], run.version)
      /\ NotAbove(tag[Latest], run.version)
  BY <1>1 DEF Inductive, PlanHolds, AfterMinor, AfterLatest
<1>5. PICK target : target = TagOf(key, run.version)
  OBVIOUS
<1>6. /\ target = IF key = "minor" THEN Minor(run.version) ELSE Latest
      /\ target \in Tags
  BY <1>1, <1>5, MovingTagsOf
<1>7. /\ tag' \in [Tags -> Image \cup {None}]
      /\ \A t \in Tags : tag'[t] \in {tag[t], image}
      /\ TagsAreTrue'
      /\ \A i \in Image : Found(i) => Found(i)'
  <2>1. CASE tag' = [tag EXCEPT ![target] = image]
    BY <1>1, <1>2, <1>4, <1>6, <2>1, MovingWritten
  <2>2. CASE tag' = tag
    <3>1. TagsAreTrue'
      BY <1>1, <2>2 DEF Inductive, TagsAreTrue
    <3> QED BY <2>2, <3>1, FoundStays, WhatIsKnown
  <2> QED BY <1>0, <1>5, <2>1, <2>2 DEF MoveTag
<1>8. Types'
  BY <1>1, <1>7 DEF Inductive, Types, Places
<1>9. RunIsTrue'
  BY <1>1, <1>3 DEF Inductive, RunIsTrue
<1>10. PlanHolds'
  <2>1. /\ NotAbove(tag'[Minor(run.version)], run.version)
        /\ NotAbove(tag'[Latest], run.version)
    BY <1>1, <1>2, <1>4, <1>7, TagsDiffer DEF NotAbove
  <2> QED BY <1>1, <1>2, <1>0, <1>3, <2>1 DEF PlanHolds, NotAbove
<1>11. References' \subseteq References \cup {None, image}
  BY <1>1, <1>3, <1>7 DEF References
<1>12. \A i \in {e.image : e \in evidence}' \cup ({run'.digest, run'.adopted} \ {None}) :
          i \in Image /\ Found(i)
  BY <1>1, <1>3, WhatIsKnown
<1>13. \A i \in References : i # None /\ i.version = image.version => i = image
  BY <1>2, KnownIsOne
<1> QED BY <1>2, <1>7, <1>8, <1>9, <1>10, <1>11, <1>12, <1>13, WriteKeeps

\* A retag that is reported as refused has been done, or has not.
LEMMA RetagWrites ==
  ASSUME Inductive, RetagFails
  PROVE  \/ UNCHANGED tag
         \/ \E image \in {run.digest, run.adopted} :
                /\ image # None /\ run.version \in Versions
                /\ run.at \in {"decide", "move minor", "move latest"}
                /\ \/ tag' = [tag EXCEPT ![Immutable(run.version)] = image]
                   \/ /\ tag' = [tag EXCEPT ![Minor(run.version)] = image]
                      /\ NotAbove(tag[Minor(run.version)], run.version)
                   \/ /\ tag' = [tag EXCEPT ![Latest] = image]
                      /\ NotAbove(tag[Latest], run.version)
<1>1. CASE /\ At("decide") /\ run.adopted # None
           /\ tag' \in {tag, [tag EXCEPT ![Immutable(run.version)] = run.adopted]}
  BY <1>1, WhatIsKnown DEF At
<1>2. CASE At("move minor") /\ tag' \in {tag, [tag EXCEPT ![Minor(run.version)] = run.digest]}
  <2>1. run.digest # None /\ NotAbove(tag[Minor(run.version)], run.version)
    BY <1>2 DEF At, Inductive, RunIsTrue, PlanHolds, AfterMinor
  <2> QED BY <1>2, <2>1, WhatIsKnown DEF At
<1>3. CASE At("move latest") /\ tag' \in {tag, [tag EXCEPT ![Latest] = run.digest]}
  <2>1. run.digest # None /\ NotAbove(tag[Latest], run.version)
    BY <1>3 DEF At, Inductive, RunIsTrue, PlanHolds, AfterLatest, AfterMinor
  <2> QED BY <1>3, <2>1, WhatIsKnown DEF At
<1> QED BY <1>1, <1>2, <1>3 DEF RetagFails

LEMMA RetagFailsKeeps == Inductive /\ RetagFails => Inductive'
<1> SUFFICES ASSUME Inductive, RetagFails PROVE Inductive'
  OBVIOUS
<1>1. CASE UNCHANGED tag
  BY <1>1, BlockKeeps DEF RetagFails, Block
<1>2. ASSUME NEW image \in {run.digest, run.adopted},
             image # None, run.version \in Versions,
             \/ tag' = [tag EXCEPT ![Immutable(run.version)] = image]
             \/ /\ tag' = [tag EXCEPT ![Minor(run.version)] = image]
                /\ NotAbove(tag[Minor(run.version)], run.version)
             \/ /\ tag' = [tag EXCEPT ![Latest] = image]
                /\ NotAbove(tag[Latest], run.version)
      PROVE  Inductive'
  <2>1. /\ run' = Idle /\ UNCHANGED <<pushing, calm>>
        /\ pushing' # None => pushing'.version \in Versions
    BY DEF RetagFails, Inductive, TagsAreTrue
  <2>2. image \in References /\ image \in Image /\ image.version = run.version
    BY <1>2, WhatIsKnown
  <2>3. /\ tag' \in [Tags -> Image \cup {None}]
        /\ \A t \in Tags : tag'[t] \in {tag[t], image}
        /\ TagsAreTrue'
        /\ \A i \in Image : Found(i) => Found(i)'
    <3>1. CASE tag' = [tag EXCEPT ![Immutable(run.version)] = image]
      BY <1>2, <2>1, <2>2, <3>1, ImmutableWritten
    <3>2. CASE /\ tag' = [tag EXCEPT ![Minor(run.version)] = image]
               /\ NotAbove(tag[Minor(run.version)], run.version)
      BY <1>2, <2>1, <2>2, <3>2, MovingWritten
    <3>3. CASE /\ tag' = [tag EXCEPT ![Latest] = image]
               /\ NotAbove(tag[Latest], run.version)
      BY <1>2, <2>1, <2>2, <3>3, MovingWritten
    <3> QED BY <1>2, <3>1, <3>2, <3>3
  <2>4. Known \in {run.digest, run.adopted} /\ Known \in Image \cup {None}
    BY WhatIsKnown DEF Known
  <2>5. \A e \in evidence' : e \in evidence \/
            (e.image = Known /\ Known # None /\ e \in [state : {"published", "blocked"}, image : Image])
    <3>1. BlockedEvidence(Known)
      BY DEF RetagFails
    <3> QED BY <2>4, <3>1 DEF BlockedEvidence
  <2>6. evidence' \subseteq [state : {"published", "blocked"}, image : Image]
    BY <2>5 DEF Inductive, Types
  <2>7. \A e \in evidence' : e.image \in Image /\ e.image \in References /\ Found(e.image)
    BY <2>4, <2>5, WhatIsKnown
  <2>8. Types' /\ RunIsTrue' /\ PlanHolds'
    BY <2>1, <2>3, <2>6, Ended DEF Inductive, Types
  <2>9. References' \subseteq References \cup {None, image}
    BY <2>1, <2>3, <2>7, Ended DEF References
  <2>10. \A i \in {e.image : e \in evidence}' \cup ({run'.digest, run'.adopted} \ {None}) :
            i \in Image /\ Found(i)
    BY <2>1, <2>7, Ended
  <2>11. \A i \in References : i # None /\ i.version = image.version => i = image
    BY <1>2, <2>2, KnownIsOne
  <2>12. PICK j \in Image : j = image
    BY <2>2
  <2> QED BY <2>3, <2>8, <2>9, <2>10, <2>11, <2>12, WriteKeeps
<1> QED BY <1>1, <1>2, RetagWrites

\* A deleted tag can be written again from the moving tag that names its image.
LEMMA LoseKeeps ==
  ASSUME Inductive, NEW v \in Versions, Lose(v)
  PROVE  Inductive'
<1>1. /\ tag[Immutable(v)] # None /\ tag[Immutable(v)] \in {tag[Minor(v)], tag[Latest]}
      /\ tag' = [tag EXCEPT ![Immutable(v)] = None]
      /\ UNCHANGED <<pushing, run, evidence, calm>>
  BY DEF Lose
<1>2. /\ tag' \in [Tags -> Image \cup {None}]
      /\ \A t \in Tags : tag'[t] = IF t = Immutable(v) THEN None ELSE tag[t]
  BY <1>1, WhatIsKnown
<1>3. /\ \A w \in Versions : tag'[Minor(w)] = tag[Minor(w)]
      /\ tag'[Latest] = tag[Latest]
      /\ \A w \in Versions : tag'[Immutable(w)] = IF w = v THEN None ELSE tag[Immutable(w)]
  BY <1>2, TagsDiffer
<1>4. TagsAreTrue'
  BY <1>1, <1>3 DEF Inductive, TagsAreTrue
<1>5. AtLeast(tag[Minor(v)], v) \/ AtLeast(tag[Latest], v)
  BY <1>1 DEF AtLeast, Inductive, TagsAreTrue
<1>6. ASSUME NEW i \in Image, Found(i) PROVE Found(i)'
  BY <1>3, <1>5, <1>6 DEF Found, AtLeast
<1>7. Types'
  BY <1>1, <1>2 DEF Inductive, Types
<1>8. RunIsTrue' /\ PlanHolds'
  <2>1. RunIsTrue'
    BY <1>1, <1>3, ImagesHaveVersions, Zenon DEF Inductive, Types, RunIsTrue
  <2>2. PlanHolds'
    BY <1>1, <1>3, ImagesHaveVersions, ZenonT(40)
    DEF Inductive, Types, PlanHolds, AfterMinor, AfterLatest, NotAbove, AtLeast
  <2> QED BY <2>1, <2>2
<1>9. References' \subseteq References \cup {None}
  BY <1>1, <1>2 DEF References
<1>10. \A i \in {e.image : e \in evidence}' \cup ({run'.digest, run'.adopted} \ {None}) :
          i \in Image /\ Found(i)
  BY <1>1, WhatIsKnown
<1> QED BY <1>4, <1>6, <1>7, <1>8, <1>9, <1>10, WriteKeeps

LEMMA StepKeeps == Inductive /\ [Next]_vars => Inductive'
<1> SUFFICES ASSUME Inductive, [Next]_vars PROVE Inductive'
  OBVIOUS
<1>1. ASSUME NEW v \in Versions, NEW first \in BOOLEAN, Start(v, first) PROVE Inductive'
  BY <1>1, StartKeeps
<1>2. CASE Plan \/ Replan
  BY <1>2, PlanKeeps DEF Plan, Replan
<1>3. CASE InspectImmutable \/ Reuse \/ InspectWritten \/ Recover
  BY <1>3, InspectImmutableKeeps, ReuseKeeps, InspectWrittenKeeps, RecoverKeeps
<1>4. CASE Build \/ BuildFails \/ Adopt \/ PushLands \/ RetagFails
  BY <1>4, BuildKeeps, BuildFailsKeeps, AdoptKeeps, PushLandsKeeps, RetagFailsKeeps
<1>5. CASE MoveTags
  BY <1>5, MoveTagKeeps DEF MoveTags
<1>6. CASE VerifyTags
  BY <1>6, VerifyKeeps DEF VerifyTags
<1>7. CASE RefuseToRebuild \/ VerificationFails \/ InspectionFails
  BY <1>7, BlockKeeps DEF RefuseToRebuild, VerificationFails, InspectionFails
<1>8. CASE JobEnds
  BY <1>8, EndKeeps DEF JobEnds, Inductive, Types
<1>9. ASSUME NEW v \in Versions, Lose(v) PROVE Inductive'
  BY <1>9, LoseKeeps
<1>10. CASE Settle \/ UNCHANGED vars
  <2>1. UNCHANGED <<tag, pushing, run, evidence>> /\ calm' \in BOOLEAN
    BY <1>10 DEF Settle, vars, Inductive, Types
  <2>2. Types' /\ TagsAreTrue' /\ RunIsTrue'
    BY <2>1 DEF Inductive, Types, TagsAreTrue, RunIsTrue
  <2>5. PlanHolds'
    BY <2>1 DEF Inductive, PlanHolds, AtLeast, NotAbove
  <2>3. OneImage'
    BY <2>1 DEF Inductive, OneImage, References
  <2>4. ReportsAreFound'
    BY <2>1, FoundStays DEF Inductive, ReportsAreFound
  <2> QED BY <2>2, <2>3, <2>4, <2>5 DEF Inductive
<1> QED BY <1>1, <1>2, <1>3, <1>4, <1>5, <1>6, <1>7, <1>8, <1>9, <1>10 DEF Next, Publish

LEMMA AlwaysInductive == Spec => []Inductive
<1>1. Init => Inductive
  BY InitInductive
<1>2. Inductive /\ [Next]_vars => Inductive'
  BY StepKeeps
<1> QED BY <1>1, <1>2, PTL DEF Spec

(***************************************************************************)
(* The theorems.                                                           *)
(***************************************************************************)

\* Every variable keeps its type (the state of publishStableImageUnchecked).
THEOREM Typed == Spec => []TypeOK
<1>1. Inductive => TypeOK
  BY DEF Inductive, Types, TypeOK
<1> QED BY <1>1, AlwaysInductive, PTL

\* A version never has two images, whatever fails, lands late or is run again
\* (publishStableImageUnchecked builds only what it found nowhere).
THEOREM VersionsHaveOneImage == Spec => []OneImagePerVersion
<1>1. Inductive => OneImagePerVersion
  BY DEF Inductive, OneImage, OneImagePerVersion, References
<1> QED BY <1>1, AlwaysInductive, PTL

\* What the evidence of a publication says of an image stays true: the tag of
\* its version names that image, or nothing (writeEvidence).
THEOREM EvidenceIsTrue == Spec => []EvidenceStaysTrue
<1>1. ASSUME Inductive, NEW e \in evidence
      PROVE  tag[Immutable(e.image.version)] \in {e.image, None}
  <2> DEFINE v == e.image.version
  <2>1. e.image \in Image /\ e.image \in References /\ v \in Versions
    BY <1>1, WhatIsKnown DEF Found
  <2>2. tag[Immutable(v)] \in References
    BY <2>1, TagsDiffer DEF References
  <2>3. tag[Immutable(v)] # None => tag[Immutable(v)].version = v
    BY <1>1, <2>1 DEF Inductive, TagsAreTrue
  <2>4. e.image # None
    BY <2>1, ImagesHaveVersions
  <2> QED BY <1>1, <2>1, <2>2, <2>3, <2>4 DEF Inductive, OneImage
<1>2. Inductive => EvidenceStaysTrue
  BY <1>1 DEF EvidenceStaysTrue
<1> QED BY <1>2, AlwaysInductive, PTL

\* Every write of a tag is a deletion, a push that lands, or a write of the
\* running publication's version, with nothing above it on the moving tags.
LEMMA Writings ==
  ASSUME Inductive, [Next]_vars
  PROVE  \/ UNCHANGED tag
         \/ \E v \in Versions : tag' = [tag EXCEPT ![Immutable(v)] = None]
         \/ \E v \in Versions : pushing # None /\ tag' = [tag EXCEPT ![Immutable(v)] = pushing]
         \/ \E image \in Image :
                /\ image.version = run.version /\ run.version \in Versions
                /\ NotAbove(tag[Latest], run.version)
                /\ \/ tag' = [tag EXCEPT ![Immutable(run.version)] = image]
                   \/ /\ tag' = [tag EXCEPT ![Minor(run.version)] = image]
                      /\ NotAbove(tag[Minor(run.version)], run.version)
                   \/ tag' = [tag EXCEPT ![Latest] = image]
<1> DEFINE Written(image) ==
        \/ tag' = [tag EXCEPT ![Immutable(run.version)] = image]
        \/ /\ tag' = [tag EXCEPT ![Minor(run.version)] = image]
           /\ NotAbove(tag[Minor(run.version)], run.version)
        \/ tag' = [tag EXCEPT ![Latest] = image]
<1>1. run.at \in AfterLatest => /\ NotAbove(tag[Latest], run.version)
                                /\ NotAbove(tag[Minor(run.version)], run.version)
                                /\ run.version \in Versions
  BY WhatIsKnown DEF Inductive, PlanHolds, AfterLatest, AfterMinor
<1>2. CASE Build \/ BuildFails
  <2>1. Building /\ run.at \in AfterLatest
    BY <1>2 DEF Build, BuildFails, Building, At, AfterLatest, AfterMinor
  <2>2. Fresh \in Image /\ Fresh.version = run.version
    BY <2>1, BuildsAreFresh
  <2>3. UNCHANGED tag \/ tag' = [tag EXCEPT ![Immutable(run.version)] = Fresh]
    BY <1>2 DEF Build, BuildFails
  <2> QED BY <1>1, <2>1, <2>2, <2>3
<1>3. CASE Adopt
  <2>1. /\ run.at \in AfterLatest /\ run.adopted # None
        /\ tag' = [tag EXCEPT ![Immutable(run.version)] = run.adopted]
    BY <1>3 DEF Adopt, At, AfterLatest, AfterMinor
  <2>2. run.adopted \in Image /\ run.adopted.version = run.version
    BY <2>1, WhatIsKnown
  <2> QED BY <1>1, <2>1, <2>2
<1>4. CASE RetagFails
  <2>1. UNCHANGED tag \/ \E image \in {run.digest, run.adopted} :
            image # None /\ run.at \in AfterLatest /\ Written(image)
    BY <1>4, RetagWrites DEF AfterLatest, AfterMinor
  <2>2. \A image \in {run.digest, run.adopted} : image # None =>
            image \in Image /\ image.version = run.version
    BY WhatIsKnown
  <2> QED BY <1>1, <2>1, <2>2
<1>5. ASSUME NEW key \in {"minor", "latest"}, NEW here, NEW next, MoveTag(key, here, next),
             here \in {"move minor", "move latest"}
      PROVE  UNCHANGED tag \/ \E image \in Image :
                /\ image.version = run.version /\ run.at \in AfterLatest
                /\ Written(image)
  <2>1. run.at \in AfterLatest /\ run.digest # None
    BY <1>5 DEF MoveTag, At, AfterLatest, AfterMinor, Inductive, RunIsTrue
  <2>2. run.digest \in Image /\ run.digest.version = run.version
    BY <2>1, WhatIsKnown
  <2>3. TagOf(key, run.version) = IF key = "minor" THEN Minor(run.version) ELSE Latest
    BY <1>1, <2>1, MovingTagsOf
  <2>4. UNCHANGED tag \/ Written(run.digest)
    BY <1>1, <1>5, <2>1, <2>3 DEF MoveTag
  <2> QED BY <2>1, <2>2, <2>4
<1>6. CASE MoveTags
  BY <1>1, <1>5, <1>6 DEF MoveTags
<1>7. CASE PushLands
  BY <1>7 DEF PushLands, Inductive, TagsAreTrue
<1>8. ASSUME NEW v \in Versions, Lose(v) PROVE tag' = [tag EXCEPT ![Immutable(v)] = None]
  BY <1>8 DEF Lose
<1>9. ASSUME NEW v \in Versions, NEW first \in BOOLEAN, Start(v, first) PROVE UNCHANGED tag
  BY <1>9 DEF Start
<1>10. CASE InspectImmutable \/ Reuse \/ InspectWritten \/ Recover \/ RefuseToRebuild
            \/ VerificationFails \/ InspectionFails \/ JobEnds \/ Settle \/ UNCHANGED vars
  BY <1>10 DEF InspectImmutable, Reuse, InspectWritten, Recover, RefuseToRebuild,
               VerificationFails, InspectionFails, JobEnds, Settle, vars, Block
<1>11. CASE Plan \/ Replan \/ VerifyTags
  BY <1>11 DEF Plan, Replan, VerifyTags, PlanMovingTag, VerifyTag, Block
<1> QED BY <1>2, <1>3, <1>4, <1>6, <1>7, <1>8, <1>9, <1>10, <1>11 DEF Next, Publish

\* A moving tag never goes back, and nothing is written for a version older
\* than what "latest" names (planMovingTags, before and after the build).
THEOREM MovingTagsAdvance == Spec => MovingTagsOnlyAdvance
<1> DEFINE Advance ==
        /\ \A t \in Tags \ {Immutable(v) : v \in Versions} :
             tag[t] # None =>
                 tag'[t] # None /\ ~Newer(tag[t].version, tag'[t].version)
        /\ \A t \in Tags :
             tag'[t] \notin {tag[t], None, pushing} /\ tag[Latest] # None =>
                 ~Newer(tag[Latest].version, tag'[t].version)
<1>1. ASSUME Inductive, [Next]_vars PROVE Advance \/ UNCHANGED vars
  <2>1. tag \in [Tags -> Image \cup {None}]
    BY <1>1, WhatIsKnown
  <2>2. \A t \in Tags : tag[t] # None => ~Newer(tag[t].version, tag[t].version)
    BY <2>1, ImagesHaveVersions, NewerIsAnOrder
  <2>3. CASE UNCHANGED tag
    BY <2>2, <2>3
  <2>4. ASSUME NEW v \in Versions, NEW image, image \in {None, pushing},
               tag' = [tag EXCEPT ![Immutable(v)] = image]
        PROVE  Advance
    <3>1. \A t \in Tags : tag'[t] = IF t = Immutable(v) THEN image ELSE tag[t]
      BY <2>1, <2>4
    <3> QED BY <2>2, <2>4, <3>1
  <2>5. ASSUME NEW image \in Image, image.version = run.version, run.version \in Versions,
               NotAbove(tag[Latest], run.version), NEW target \in Tags,
               \/ target = Immutable(run.version)
               \/ target = Minor(run.version) /\ NotAbove(tag[target], run.version)
               \/ target = Latest,
               tag' = [tag EXCEPT ![target] = image]
        PROVE  Advance
    <3>1. \A t \in Tags : tag'[t] = IF t = target THEN image ELSE tag[t]
      BY <2>1, <2>5
    <3>2. image # None
      BY ImagesHaveVersions
    <3>3. \A t \in Tags : tag[t] # None /\ NotAbove(tag[t], run.version) =>
              ~Newer(tag[t].version, image.version)
      BY <2>1, <2>5, ImagesHaveVersions, NewerIsAnOrder DEF NotAbove
    <3> QED BY <2>2, <2>5, <3>1, <3>2, <3>3, TagsDiffer
  <2> HIDE DEF Advance
  <2>6. CASE \E v \in Versions : tag' = [tag EXCEPT ![Immutable(v)] = None]
    BY <2>4, <2>6
  <2>7. CASE \E v \in Versions : tag' = [tag EXCEPT ![Immutable(v)] = pushing]
    BY <2>4, <2>7
  <2>8. CASE \E image \in Image :
                /\ image.version = run.version /\ run.version \in Versions
                /\ NotAbove(tag[Latest], run.version)
                /\ \/ tag' = [tag EXCEPT ![Immutable(run.version)] = image]
                   \/ /\ tag' = [tag EXCEPT ![Minor(run.version)] = image]
                      /\ NotAbove(tag[Minor(run.version)], run.version)
                   \/ tag' = [tag EXCEPT ![Latest] = image]
    BY <2>5, <2>8, TagsDiffer
  <2> QED BY <1>1, <2>3, <2>6, <2>7, <2>8, Writings
<1>2. Inductive /\ [Next]_vars => [Advance]_vars
  BY <1>1
<1> QED BY <1>2, AlwaysInductive, PTL DEF Spec, MovingTagsOnlyAdvance

=============================================================================
