----------------------------- MODULE CatalogProofs -----------------------------
(******************************************************************************)
(* Proofs about Catalog for every set of threads, identities, items, titles,  *)
(* collections and tokens.  What a transaction does to the tables is shown    *)
(* once for a new item, for an appended revision and for a purge; what a      *)
(* request thread holds, once for every step that only moves a request.       *)
(******************************************************************************)
EXTENDS Catalog, TLAPS

\* What the properties say of the tables alone.
ItemsOK ==
    /\ OneItemPerIdentity
    /\ CurrentIsLatest
    /\ RevisionsBounded
    /\ AmendsWhatWasShown
    /\ ImportsAreConfirmed
    /\ EpisodesKeepTitle

ItemTypes ==
    /\ identity \in [Items -> Identities \cup {None}]
    /\ revisions \in [Items -> Seq(Revisions)]
    /\ current \in [Items -> Nat]
    /\ title \in [Items -> Titles \cup {None}]
    /\ placed \in [Items -> Collections \cup {None}]
    /\ archived \in SUBSET Items

TokenTypes ==
    /\ selections \in [Tokens -> Identities \cup {None}]
    /\ drafts \in [Tokens -> Jobs \cup {None}]
    /\ issued \in SUBSET Tokens

ThreadTypes ==
    /\ pc \in [Threads -> States]
    /\ job \in [Threads -> Jobs \cup {None}]
    /\ \A t \in Threads : pc[t] # "idle" => job[t] \in Jobs

\* Rows stay, and so does what was written in a revision.
Grows ==
    \A i \in Items :
        /\ Exists(i) => identity'[i] = identity[i]
        /\ Len(revisions[i]) <= Len(revisions'[i])
        /\ \A n \in 1 .. Len(revisions[i]) :
               /\ revisions'[i][n].draft = revisions[i][n].draft
               /\ revisions'[i][n].title = revisions[i][n].title

\* No draft's token is written into a revision by this step.
WritesNoDraft ==
    \A k \in Tokens, i \in Items, n \in 1 .. MaxRevisions :
        WrittenBy(k, i, n)' => WrittenBy(k, i, n)

LEMMA TypeSplit == TypeOK <=> ItemTypes /\ TokenTypes /\ ThreadTypes
                              /\ shelf \in [Collections -> {"none", "active", "archived"}]
  BY DEF TypeOK, ItemTypes, TokenTypes, ThreadTypes

LEMMA InitInductive == Init => Inductive
<1> SUFFICES ASSUME Init PROVE Inductive
  OBVIOUS
<1>1. TypeOK BY DEF Init, TypeOK, States
<1>2. \A i \in Items : identity[i] = None /\ revisions[i] = <<>> /\ current[i] = 0
  BY DEF Init
<1>3. OneItemPerIdentity /\ CurrentIsLatest /\ RevisionsBounded
  BY <1>2, BoundAssumption DEF OneItemPerIdentity, CurrentIsLatest, RevisionsBounded, Exists
<1>4. AmendsWhatWasShown /\ ImportsAreConfirmed /\ EpisodesKeepTitle
  BY <1>2 DEF AmendsWhatWasShown, ImportsAreConfirmed, EpisodesKeepTitle
<1>5. RequestsMakeSense /\ DraftsMakeSense
  BY DEF Init, RequestsMakeSense, DraftsMakeSense, Busy
<1>6. DraftInOnePlace
  BY <1>2 DEF Init, DraftInOnePlace, HeldByThread, WrittenBy, Busy
<1> QED BY <1>1, <1>3, <1>4, <1>5, <1>6 DEF Inductive

(******************************************************************************)
(* What happens to the tables.                                                *)
(******************************************************************************)

\* A new row and its first revision.
LEMMA CreateKeepsItems ==
  ASSUME ItemTypes, ItemsOK, NEW i \in Items, NEW request \in Jobs, NEW name \in Titles,
         ItemOf(request.identity) = {}, Create(i, request, name), 1 <= MaxRevisions,
         request.op \in {"select", "import"}
  PROVE  ItemTypes' /\ ItemsOK' /\ Grows
<1>1. ItemTypes'
  <2>1. Revision(request, name) \in Revisions BY DEF Revision, Revisions, Jobs
  <2>2. <<Revision(request, name)>> \in Seq(Revisions) BY <2>1
  <2>3. request.identity \in Identities /\ request.collection \in Collections \cup {None}
    BY DEF Jobs
  <2> QED BY <2>2, <2>3 DEF Create, ItemTypes
<1>2. /\ revisions[i] = <<>>
      /\ revisions'[i] = <<Revision(request, name)>>
      /\ Len(revisions'[i]) = 1
      /\ revisions'[i][1] = Revision(request, name)
      /\ current'[i] = 1
      /\ identity'[i] = request.identity
      /\ request.identity \in Identities
  BY DEF Create, ItemTypes, ItemsOK, CurrentIsLatest, Jobs
<1>3. \A j \in Items : j # i => /\ revisions'[j] = revisions[j]
                                /\ current'[j] = current[j]
                                /\ identity'[j] = identity[j]
  BY DEF Create, ItemTypes
<1>4. OneItemPerIdentity' /\ CurrentIsLatest' /\ RevisionsBounded'
  <2>1. \A j \in Items : identity[j] # request.identity BY DEF ItemOf
  <2>2. OneItemPerIdentity'
    BY <1>2, <1>3, <2>1, NoneAssumption DEF ItemsOK, OneItemPerIdentity, Exists
  <2>3. revisions'[i] # <<>> /\ identity'[i] # None BY <1>2, NoneAssumption
  <2>4. CurrentIsLatest'
    BY <1>2, <1>3, <2>3 DEF ItemsOK, CurrentIsLatest, Exists
  <2>5. RevisionsBounded'
    BY <1>2, <1>3 DEF ItemsOK, RevisionsBounded
  <2> QED BY <2>2, <2>4, <2>5
<1>5. AmendsWhatWasShown' /\ ImportsAreConfirmed' /\ EpisodesKeepTitle'
  BY <1>2, <1>3
  DEF ItemsOK, AmendsWhatWasShown, ImportsAreConfirmed, EpisodesKeepTitle, Revision
<1>6. Grows
  <2>1. \A j \in Items : Len(revisions[j]) \in Nat BY DEF ItemTypes
  <2>2. Len(revisions[i]) = 0 /\ ~Exists(i) BY <1>2 DEF Create
  <2> QED BY <1>2, <1>3, <2>1, <2>2 DEF Grows
<1> QED BY <1>1, <1>4, <1>5, <1>6 DEF ItemsOK

\* An appended revision, of a confirmed import or edit, or of an episode table
\* or refresh for the revision that is current.
LEMMA AppendKeepsItems ==
  ASSUME ItemTypes, ItemsOK, NEW i \in Items, NEW request \in Jobs, NEW name \in Titles,
         Exists(i), AppendRevision(i, request, name), placed' \in [Items -> Collections \cup {None}],
         request.op \in {"edit", "episodes", "refresh"} => current[i] = request.shown,
         request.confirmed \/ request.op \in {"episodes", "refresh"},
         request.op = "episodes" => name = revisions[i][request.shown].title
  PROVE  ItemTypes' /\ ItemsOK' /\ Grows
<1>1. Revision(request, name) \in Revisions BY DEF Revision, Revisions, Jobs
<1>2. revisions[i] \in Seq(Revisions) /\ Len(revisions[i]) \in Nat BY DEF ItemTypes
<1>3. /\ revisions'[i] = Append(revisions[i], Revision(request, name))
      /\ Len(revisions'[i]) = Len(revisions[i]) + 1
      /\ \A n \in 1 .. Len(revisions[i]) : revisions'[i][n] = revisions[i][n]
      /\ revisions'[i][Len(revisions[i]) + 1] = Revision(request, name)
      /\ revisions'[i] \in Seq(Revisions)
      /\ current'[i] = Len(revisions[i]) + 1
  BY <1>1, <1>2 DEF AppendRevision, ItemTypes
<1>4. \A j \in Items : j # i => revisions'[j] = revisions[j] /\ current'[j] = current[j]
  BY DEF AppendRevision, ItemTypes
<1>5. ItemTypes'
  <2>1. revisions' \in [Items -> Seq(Revisions)]
    BY <1>3 DEF AppendRevision, ItemTypes
  <2>2. current' \in [Items -> Nat] /\ title' \in [Items -> Titles \cup {None}]
    BY <1>2 DEF AppendRevision, ItemTypes
  <2> QED BY <2>1, <2>2 DEF AppendRevision, ItemTypes
<1>6. current[i] = Len(revisions[i]) BY DEF ItemsOK, CurrentIsLatest
<1>7. OneItemPerIdentity' /\ CurrentIsLatest' /\ RevisionsBounded'
  <2>1. OneItemPerIdentity' BY DEF AppendRevision, ItemsOK, OneItemPerIdentity, Exists
  <2>2. CurrentIsLatest'
    <3>1. revisions'[i] # <<>>
      <4>1. Len(revisions'[i]) # 0 BY <1>2, <1>3
      <4> QED BY <4>1
    <3> QED BY <1>3, <1>4, <3>1 DEF AppendRevision, ItemsOK, CurrentIsLatest, Exists
  <2>3. RevisionsBounded'
    BY <1>2, <1>3, <1>4, BoundAssumption DEF AppendRevision, ItemsOK, RevisionsBounded
  <2> QED BY <2>1, <2>2, <2>3
<1>8. \A j \in Items, n \in Nat :
          /\ n \in 1 .. Len(revisions'[j])
          => \/ /\ n \in 1 .. Len(revisions[j])
                /\ revisions'[j][n] = revisions[j][n]
             \/ /\ j = i
                /\ n = Len(revisions[i]) + 1
                /\ revisions'[j][n] = Revision(request, name)
  <2> SUFFICES ASSUME NEW j \in Items, NEW n \in Nat, n \in 1 .. Len(revisions'[j])
               PROVE  \/ /\ n \in 1 .. Len(revisions[j])
                         /\ revisions'[j][n] = revisions[j][n]
                      \/ /\ j = i
                         /\ n = Len(revisions[i]) + 1
                         /\ revisions'[j][n] = Revision(request, name)
    OBVIOUS
  <2>1. CASE j # i BY <1>4, <2>1
  <2>2. CASE j = i
    <3>1. n <= Len(revisions[i]) + 1 /\ n >= 1 BY <1>2, <1>3, <2>2
    <3> QED BY <1>2, <1>3, <2>2, <3>1
  <2> QED BY <2>1, <2>2
<1>9. \A j \in Items, n \in Nat :
          n \in 2 .. Len(revisions'[j]) => revisions'[j][n - 1] = revisions[j][n - 1]
  <2> SUFFICES ASSUME NEW j \in Items, NEW n \in Nat, n \in 2 .. Len(revisions'[j])
               PROVE  revisions'[j][n - 1] = revisions[j][n - 1]
    OBVIOUS
  <2>1. CASE j # i BY <1>4, <2>1
  <2>2. CASE j = i
    <3>1. n - 1 \in 1 .. Len(revisions[i]) BY <1>2, <1>3, <2>2
    <3> QED BY <1>3, <2>2, <3>1
  <2> QED BY <2>1, <2>2
<1>10. AmendsWhatWasShown'
  BY <1>6, <1>8 DEF ItemsOK, AmendsWhatWasShown, Revision
<1>11. ImportsAreConfirmed'
  BY <1>8 DEF ItemsOK, ImportsAreConfirmed, Revision
<1>12. EpisodesKeepTitle'
  <2> SUFFICES ASSUME NEW j \in Items, NEW n \in 2 .. Len(revisions'[j]),
                      revisions'[j][n].op = "episodes"
               PROVE  revisions'[j][n].title = revisions'[j][n - 1].title
    BY DEF EpisodesKeepTitle
  <2>1. revisions'[j][n - 1] = revisions[j][n - 1] BY <1>9
  <2>2. CASE n \in 1 .. Len(revisions[j]) /\ revisions'[j][n] = revisions[j][n]
    BY <2>1, <2>2 DEF ItemsOK, EpisodesKeepTitle
  <2>3. CASE j = i /\ n = Len(revisions[i]) + 1 /\ revisions'[j][n] = Revision(request, name)
    <3>1. request.op = "episodes" /\ revisions'[j][n].title = name BY <2>3 DEF Revision
    <3>2. n - 1 = request.shown BY <1>2, <1>6, <2>3, <3>1
    <3> QED BY <2>1, <2>3, <3>1, <3>2
  <2> QED BY <1>8, <2>2, <2>3
<1>13. Grows
  <2>1. \A j \in Items : Len(revisions[j]) \in Nat BY DEF ItemTypes
  <2> QED BY <1>3, <1>4, <2>1 DEF Grows, AppendRevision
<1> QED BY <1>5, <1>7, <1>10, <1>11, <1>12, <1>13 DEF ItemsOK

\* A purge takes the payload of one revision, and nothing else.
LEMMA PurgeKeepsItems ==
  ASSUME ItemTypes, ItemsOK, NEW i \in Items, NEW n \in 1 .. MaxRevisions, Purge(i, n)
  PROVE  ItemTypes' /\ ItemsOK' /\ Grows
<1>1. n \in 1 .. Len(revisions[i]) BY DEF Purge
<1>2. revisions[i] \in Seq(Revisions) /\ revisions[i][n] \in Revisions
  BY <1>1 DEF ItemTypes
<1> DEFINE old == revisions[i][n]
           new == [old EXCEPT !.purged = TRUE]
<1>3. /\ revisions'[i] = [revisions[i] EXCEPT ![n] = new]
      /\ revisions' \in [Items -> Seq(Revisions)]
      /\ \A j \in Items : j # i => revisions'[j] = revisions[j]
  <2>1. new \in Revisions BY <1>2 DEF Revisions
  <2>2. revisions' = [revisions EXCEPT ![i] = [revisions[i] EXCEPT ![n] = new]]
    BY DEF Purge
  <2> HIDE DEF new
  <2>3. [revisions[i] EXCEPT ![n] = new] \in Seq(Revisions)
    BY <1>1, <1>2, <2>1
  <2> QED BY <2>2, <2>3 DEF ItemTypes
<1>0. /\ new.op = old.op /\ new.shown = old.shown /\ new.confirmed = old.confirmed
      /\ new.draft = old.draft /\ new.title = old.title
  BY <1>2 DEF Revisions
<1> HIDE DEF new
<1>4. \A j \in Items :
          /\ Len(revisions'[j]) = Len(revisions[j])
          /\ Len(revisions[j]) \in Nat
          /\ \A m \in 1 .. Len(revisions[j]) :
                 /\ revisions'[j][m].op = revisions[j][m].op
                 /\ revisions'[j][m].shown = revisions[j][m].shown
                 /\ revisions'[j][m].confirmed = revisions[j][m].confirmed
                 /\ revisions'[j][m].draft = revisions[j][m].draft
                 /\ revisions'[j][m].title = revisions[j][m].title
  <2> SUFFICES ASSUME NEW j \in Items
      PROVE  /\ Len(revisions'[j]) = Len(revisions[j])
             /\ Len(revisions[j]) \in Nat
             /\ \A m \in 1 .. Len(revisions[j]) :
                    /\ revisions'[j][m].op = revisions[j][m].op
                    /\ revisions'[j][m].shown = revisions[j][m].shown
                    /\ revisions'[j][m].confirmed = revisions[j][m].confirmed
                    /\ revisions'[j][m].draft = revisions[j][m].draft
                    /\ revisions'[j][m].title = revisions[j][m].title
    OBVIOUS
  <2>1. CASE j # i BY <1>3, <2>1 DEF ItemTypes
  <2>2. CASE j = i
    <3>1. /\ Len(revisions'[i]) = Len(revisions[i])
          /\ Len(revisions[i]) \in Nat
          /\ \A m \in 1 .. Len(revisions[i]) :
                revisions'[i][m] = IF m = n THEN new ELSE revisions[i][m]
      BY <1>1, <1>2, <1>3
    <3> QED BY <1>0, <2>2, <3>1
  <2> QED BY <2>1, <2>2
<1>5. ItemTypes' BY <1>3 DEF Purge, ItemTypes
<1>6. CurrentIsLatest'
  <2>1. \A j \in Items : revisions[j] \in Seq(Revisions) /\ revisions'[j] \in Seq(Revisions)
    BY <1>3 DEF ItemTypes
  <2>2. \A j \in Items : revisions[j] = <<>> <=> revisions'[j] = <<>>
    BY <1>4, <2>1
  <2> QED BY <1>4, <2>2 DEF Purge, ItemsOK, CurrentIsLatest, Exists
<1>7. OneItemPerIdentity' /\ RevisionsBounded'
  BY <1>4 DEF Purge, ItemsOK, OneItemPerIdentity, RevisionsBounded, Exists
<1>8. ASSUME NEW j \in Items, NEW m \in 1 .. Len(revisions'[j])
      PROVE  /\ m \in 1 .. Len(revisions[j])
             /\ revisions'[j][m].op = revisions[j][m].op
             /\ revisions'[j][m].shown = revisions[j][m].shown
             /\ revisions'[j][m].confirmed = revisions[j][m].confirmed
             /\ revisions'[j][m].title = revisions[j][m].title
  BY <1>4
<1>9. AmendsWhatWasShown' /\ ImportsAreConfirmed' /\ EpisodesKeepTitle'
  <2>1. AmendsWhatWasShown'
    BY <1>8 DEF ItemsOK, AmendsWhatWasShown
  <2>2. ImportsAreConfirmed'
    <3> SUFFICES ASSUME NEW j \in Items, NEW m \in 2 .. Len(revisions'[j])
                 PROVE  \/ revisions'[j][m].confirmed
                        \/ revisions'[j][m].op \in {"episodes", "refresh"}
      BY DEF ImportsAreConfirmed
    <3>1. m \in 1 .. Len(revisions'[j]) /\ m \in 2 .. Len(revisions[j]) BY <1>4
    <3> QED BY <1>8, <3>1 DEF ItemsOK, ImportsAreConfirmed
  <2>3. EpisodesKeepTitle'
    <3> SUFFICES ASSUME NEW j \in Items, NEW m \in 2 .. Len(revisions'[j]),
                        revisions'[j][m].op = "episodes"
                 PROVE  revisions'[j][m].title = revisions'[j][m - 1].title
      BY DEF EpisodesKeepTitle
    <3>1. /\ m \in 1 .. Len(revisions'[j]) /\ m \in 2 .. Len(revisions[j])
          /\ m - 1 \in 1 .. Len(revisions'[j])
      BY <1>4
    <3>2. revisions'[j][m].title = revisions[j][m].title
          /\ revisions[j][m].op = "episodes"
          /\ revisions'[j][m - 1].title = revisions[j][m - 1].title
      BY <1>8, <3>1
    <3> QED BY <3>1, <3>2 DEF ItemsOK, EpisodesKeepTitle
  <2> QED BY <2>1, <2>2, <2>3
<1>10. Grows BY <1>4 DEF Grows, Purge
<1> QED BY <1>5, <1>6, <1>7, <1>9, <1>10 DEF ItemsOK

\* A step that leaves the tables alone keeps what is said of them.
LEMMA SameItems ==
  ASSUME ItemTypes, ItemsOK, UNCHANGED <<identity, revisions, current>>
  PROVE  /\ ItemsOK'
         /\ Grows
         /\ WritesNoDraft
<1>1. \A i \in Items : Len(revisions[i]) \in Nat BY DEF ItemTypes
<1> QED
  BY <1>1 DEF ItemsOK, Grows, WritesNoDraft, WrittenBy, OneItemPerIdentity, CurrentIsLatest,
     RevisionsBounded, AmendsWhatWasShown, ImportsAreConfirmed, EpisodesKeepTitle, Exists

(******************************************************************************)
(* What happens to the requests.                                              *)
(******************************************************************************)

\* What a request knows stays true while the tables grow.
LEMMA SensibleStays ==
  ASSUME TypeOK, ItemsOK, Grows, NEW request \in Jobs, NEW state \in States,
         Sensible(request, state)
  PROVE  Sensible(request, state)'
<1>1. \A i \in Items : /\ Len(revisions[i]) <= Len(revisions'[i])
                       /\ Len(revisions[i]) \in Nat
  BY DEF Grows, TypeOK
<1>2. \A i \in Items : identity[i] = request.identity => identity'[i] = request.identity
  BY NoneAssumption DEF Grows, Exists, Jobs
<1>3. request.item \in Items \cup {None} /\ None \notin Items BY NoneAssumption DEF Jobs
<1>4. MadeFor(request) =>
          /\ MadeFor(request)'
          /\ revisions'[request.item][request.shown].title
                 = revisions[request.item][request.shown].title
  BY <1>1, <1>2 DEF MadeFor, Grows, Jobs
<1> QED BY <1>2, <1>3, <1>4 DEF Sensible

\* The other threads' requests stay sensible.
LEMMA RequestsStay ==
  ASSUME TypeOK, ItemsOK, RequestsMakeSense, Grows, NEW t \in Threads,
         \A u \in Threads \ {t} : pc'[u] = pc[u] /\ job'[u] = job[u],
         Busy(t)' => Sensible(job[t], pc[t])'
  PROVE  RequestsMakeSense'
<1> SUFFICES ASSUME NEW u \in Threads, Busy(u)', u # t PROVE Sensible(job[u], pc[u])'
  BY DEF RequestsMakeSense
<1>1. pc'[u] = pc[u] /\ job'[u] = job[u] /\ pc[u] \in States /\ job[u] \in Jobs /\ Busy(u)
  BY DEF TypeOK, Busy
<1>2. Sensible(job[u], pc[u]) BY <1>1 DEF RequestsMakeSense
<1>3. ASSUME NEW request \in Jobs, NEW state \in States, Sensible(request, state)
      PROVE  Sensible(request, state)'
  BY <1>3, SensibleStays
<1>4. PICK request \in Jobs, state \in States : request = job[u] /\ state = pc[u]
  BY <1>1
<1>5. Sensible(request, state)'
  BY <1>2, <1>3, <1>4
<1>6. job'[u] = request /\ pc'[u] = state
  BY <1>1, <1>4
<1> QED BY <1>5, <1>6, ZenonT(40) DEF Sensible, MadeFor

\* So do the drafts.
LEMMA DraftsStay ==
  ASSUME TypeOK, ItemsOK, DraftsMakeSense, Grows,
         \A k \in Tokens : drafts'[k] \in {drafts[k], None}
  PROVE  DraftsMakeSense'
<1> SUFFICES ASSUME NEW k \in Tokens, drafts'[k] # None, drafts'[k] = drafts[k]
             PROVE  /\ drafts'[k].draft = k
                    /\ drafts'[k].title \in Titles
                    /\ \/ drafts'[k].op = "import" /\ drafts'[k].item = None
                       \/ drafts'[k].op = "edit" /\ MadeFor(drafts[k])'
  BY DEF DraftsMakeSense
<1>1. drafts[k] \in Jobs BY DEF TypeOK
<1>2. \A i \in Items : /\ Len(revisions[i]) <= Len(revisions'[i])
                       /\ Len(revisions[i]) \in Nat
  BY DEF Grows, TypeOK
<1>3. \A i \in Items : identity[i] = drafts[k].identity => identity'[i] = drafts[k].identity
  BY <1>1, NoneAssumption DEF Grows, Exists, Jobs
<1>4. MadeFor(drafts[k]) => MadeFor(drafts[k])'
  BY <1>1, <1>2, <1>3 DEF MadeFor, Jobs
<1> QED BY <1>4 DEF DraftsMakeSense

\* A draft's token stays where it is, or moves with the request, as long as no
\* revision is written for it.
LEMMA PlacesStay ==
  ASSUME TypeOK, DraftInOnePlace, WritesNoDraft, issued \subseteq issued',
         \A k \in Tokens : drafts'[k] \in {drafts[k], None},
         \A t \in Threads, k \in Tokens : HeldByThread(k, t)' =>
             HeldByThread(k, t) /\ (job'[t].confirmed = job[t].confirmed)
  PROVE  DraftInOnePlace'
<1>1. \A k \in Tokens : k \notin issued' => drafts'[k] = None
  BY DEF DraftInOnePlace
<1>2. ASSUME NEW k \in Tokens, NEW t \in Threads, HeldByThread(k, t)'
      PROVE  /\ k \in issued'
             /\ drafts'[k] = None
             /\ job'[t].confirmed
             /\ \A u \in Threads : HeldByThread(k, u)' => t = u
  BY <1>2 DEF DraftInOnePlace
<1>3. ASSUME NEW k \in Tokens, NEW i \in Items, NEW n \in 1 .. MaxRevisions, WrittenBy(k, i, n)'
      PROVE  /\ k \in issued'
             /\ drafts'[k] = None
             /\ \A t \in Threads : ~HeldByThread(k, t)'
             /\ \A j \in Items, m \in 1 .. MaxRevisions : WrittenBy(k, j, m)' => i = j /\ m = n
  BY <1>3 DEF DraftInOnePlace, WritesNoDraft
<1> QED BY <1>1, <1>2, <1>3 DEF DraftInOnePlace

\* A new draft under a fresh token.
LEMMA PutDraftKeeps ==
  ASSUME TypeOK, ItemsOK, DraftsMakeSense, DraftInOnePlace,
         NEW request \in Jobs, request.title \in Titles,
         \/ request.op = "import" /\ request.item = None
         \/ request.op = "edit" /\ MadeFor(request),
         PutDraft(request), UNCHANGED <<identity, revisions, current>>,
         \A t \in Threads, k \in Tokens : HeldByThread(k, t)' =>
             HeldByThread(k, t) /\ (job'[t].confirmed = job[t].confirmed)
  PROVE  TokenTypes' /\ DraftsMakeSense' /\ DraftInOnePlace'
<1>1. PICK token \in Tokens \ issued :
          /\ drafts' = [drafts EXCEPT ![token] = [request EXCEPT !.draft = token]]
          /\ issued' = issued \cup {token}
          /\ UNCHANGED selections
  BY DEF PutDraft
<1> DEFINE filed == [request EXCEPT !.draft = token]
<1>2. /\ filed \in Jobs
      /\ filed.draft = token
      /\ filed.op = request.op
      /\ filed.title = request.title
      /\ filed.item = request.item
      /\ filed.shown = request.shown
      /\ filed.identity = request.identity
  BY DEF Jobs
<1> HIDE DEF filed
<1>3. /\ drafts'[token] = filed
      /\ \A k \in Tokens : k # token => drafts'[k] = drafts[k]
      /\ drafts' = [drafts EXCEPT ![token] = filed]
  BY <1>1 DEF TypeOK, filed
<1>4. TokenTypes' BY <1>1, <1>2, <1>3, ZenonT(40) DEF TypeOK, TokenTypes
<1>5. DraftsMakeSense'
  <2>1. ASSUME NEW k \in Tokens, k # token, drafts'[k] # None
        PROVE  /\ drafts'[k].draft = k
               /\ drafts'[k].title \in Titles
               /\ \/ drafts'[k].op = "import" /\ drafts'[k].item = None
                  \/ drafts'[k].op = "edit" /\ MadeFor(drafts[k])'
    BY <1>3, <2>1 DEF DraftsMakeSense, MadeFor
  <2>2. /\ drafts'[token].draft = token
        /\ drafts'[token].title \in Titles
        /\ \/ drafts'[token].op = "import" /\ drafts'[token].item = None
           \/ drafts'[token].op = "edit" /\ MadeFor(drafts[token])'
    BY <1>2, <1>3 DEF MadeFor
  <2> QED BY <2>1, <2>2 DEF DraftsMakeSense
<1>6. DraftInOnePlace'
  <2>1. \A t \in Threads : ~HeldByThread(token, t) BY DEF DraftInOnePlace
  <2>2. \A i \in Items, n \in 1 .. MaxRevisions : ~WrittenBy(token, i, n)
    BY DEF DraftInOnePlace
  <2>3. \A k \in Tokens, i \in Items, n \in 1 .. MaxRevisions :
            WrittenBy(k, i, n)' <=> WrittenBy(k, i, n)
    BY DEF WrittenBy
  <2>4. ASSUME NEW k \in Tokens PROVE k \notin issued' => drafts'[k] = None
    BY <1>1, <1>3 DEF DraftInOnePlace
  <2>5. ASSUME NEW k \in Tokens, NEW t \in Threads, HeldByThread(k, t)'
        PROVE  /\ k \in issued'
               /\ drafts'[k] = None
               /\ job'[t].confirmed
               /\ \A u \in Threads : HeldByThread(k, u)' => t = u
    BY <1>1, <1>3, <2>1, <2>5 DEF DraftInOnePlace
  <2>6. ASSUME NEW k \in Tokens, NEW i \in Items, NEW n \in 1 .. MaxRevisions, WrittenBy(k, i, n)'
        PROVE  /\ k \in issued'
               /\ drafts'[k] = None
               /\ \A t \in Threads : ~HeldByThread(k, t)'
               /\ \A j \in Items, m \in 1 .. MaxRevisions : WrittenBy(k, j, m)' => i = j /\ m = n
    BY <1>1, <1>3, <2>2, <2>3, <2>6 DEF DraftInOnePlace
  <2> QED BY <2>4, <2>5, <2>6 DEF DraftInOnePlace
<1> QED BY <1>4, <1>5, <1>6

\* A draft's token moves from the thread that confirmed it into the revision
\* that thread writes.
LEMMA WriteKeepsPlaces ==
  ASSUME TypeOK, ItemsOK, DraftInOnePlace, Grows, UNCHANGED <<drafts, issued>>,
         NEW t \in Threads, Answer(t), NEW i \in Items,
         Len(revisions'[i]) = Len(revisions[i]) + 1,
         revisions'[i][Len(revisions[i]) + 1].draft = job[t].draft,
         \A j \in Items : j # i => revisions'[j] = revisions[j],
         Busy(t)
  PROVE  DraftInOnePlace'
<1>0. \A j \in Items : Len(revisions[j]) \in Nat BY DEF TypeOK
<1>1. ASSUME NEW k \in Tokens, NEW j \in Items, NEW n \in 1 .. MaxRevisions, WrittenBy(k, j, n)'
      PROVE  \/ WrittenBy(k, j, n)
             \/ HeldByThread(k, t) /\ j = i /\ n = Len(revisions[i]) + 1
  <2>1. CASE j = i
    <3>1. n \in 1 .. Len(revisions[i]) \/ n = Len(revisions[i]) + 1
      BY <1>0, <1>1, <2>1 DEF WrittenBy
    <3> QED BY <1>1, <2>1, <3>1 DEF WrittenBy, HeldByThread, Grows
  <2>2. CASE j # i BY <1>1, <2>2 DEF WrittenBy
  <2> QED BY <2>1, <2>2
<1>2. ASSUME NEW k \in Tokens, NEW u \in Threads, HeldByThread(k, u)'
      PROVE  HeldByThread(k, u) /\ u # t /\ job'[u] = job[u]
  BY <1>2 DEF HeldByThread, Busy, Answer, Goto, TypeOK
<1>3. ASSUME NEW k \in Tokens, NEW u \in Threads, HeldByThread(k, u)'
      PROVE  /\ k \in issued'
             /\ drafts'[k] = None
             /\ job'[u].confirmed
             /\ \A v \in Threads : HeldByThread(k, v)' => u = v
  BY <1>2, <1>3 DEF DraftInOnePlace
<1>4. ASSUME NEW k \in Tokens, NEW j \in Items, NEW n \in 1 .. MaxRevisions, WrittenBy(k, j, n)'
      PROVE  /\ k \in issued'
             /\ drafts'[k] = None
             /\ \A u \in Threads : ~HeldByThread(k, u)'
             /\ \A l \in Items, m \in 1 .. MaxRevisions : WrittenBy(k, l, m)' => j = l /\ m = n
  <2>1. CASE WrittenBy(k, j, n)
    <3>1. /\ k \in issued
          /\ drafts[k] = None
          /\ \A u \in Threads : ~HeldByThread(k, u)
          /\ \A l \in Items, m \in 1 .. MaxRevisions : WrittenBy(k, l, m) => j = l /\ m = n
      BY <2>1 DEF DraftInOnePlace
    <3> QED BY <1>1, <1>2, <3>1
  <2>2. CASE HeldByThread(k, t) /\ j = i /\ n = Len(revisions[i]) + 1
    <3>1. /\ k \in issued
          /\ drafts[k] = None
          /\ \A u \in Threads : HeldByThread(k, u) => t = u
          /\ \A l \in Items, m \in 1 .. MaxRevisions : ~WrittenBy(k, l, m)
      BY <2>2 DEF DraftInOnePlace
    <3> QED BY <1>1, <1>2, <2>2, <3>1
  <2> QED BY <1>1, <1>4, <2>1, <2>2
<1> QED BY <1>3, <1>4 DEF DraftInOnePlace

ShelfType == shelf \in [Collections -> {"none", "active", "archived"}]

\* The parts together.
LEMMA Assemble ==
  ASSUME ItemTypes', TokenTypes', ThreadTypes', ShelfType', ItemsOK', RequestsMakeSense',
         DraftsMakeSense', DraftInOnePlace'
  PROVE  Inductive'
  BY TypeSplit DEF Inductive, ItemsOK, ShelfType, ItemTypes, TokenTypes, ThreadTypes, TypeOK

LEMMA Parts ==
  ASSUME Inductive
  PROVE  /\ TypeOK /\ ItemTypes /\ TokenTypes /\ ThreadTypes /\ ShelfType
         /\ ItemsOK /\ RequestsMakeSense /\ DraftsMakeSense /\ DraftInOnePlace
  BY DEF Inductive, ItemsOK, ShelfType, ItemTypes, TokenTypes, ThreadTypes, TypeOK

\* A thread takes up a request or goes on with it; tokens may be consumed.
LEMMA ThreadMoves ==
  ASSUME Inductive, UNCHANGED <<identity, revisions, current>>, ItemTypes', TokenTypes', ShelfType',
         \A k \in Tokens : drafts'[k] \in {drafts[k], None}, issued \subseteq issued',
         NEW t \in Threads, NEW state \in States \ {"idle"}, NEW request \in Jobs,
         Work(t, state, request), Sensible(request, state),
         \/ request.draft = None
         \/ Busy(t) /\ request.draft = job[t].draft /\ request.confirmed = job[t].confirmed
  PROVE  Inductive'
<1>1. /\ TypeOK /\ ItemTypes /\ TokenTypes /\ ThreadTypes
      /\ ItemsOK /\ RequestsMakeSense /\ DraftsMakeSense /\ DraftInOnePlace
  BY Parts
<1>2. ItemsOK' /\ Grows /\ WritesNoDraft BY <1>1, SameItems
<1>3. /\ \A u \in Threads \ {t} : pc'[u] = pc[u] /\ job'[u] = job[u]
      /\ pc'[t] = state /\ job'[t] = request
      /\ ThreadTypes'
  BY <1>1 DEF Work, Goto, ThreadTypes
<1>4. RequestsMakeSense'
  <2>1. Sensible(job[t], pc[t])' BY <1>3 DEF Sensible, MadeFor
  <2> QED BY <1>1, <1>2, <1>3, <2>1, RequestsStay
<1>5. DraftsMakeSense' BY <1>1, <1>2, DraftsStay
<1>6. DraftInOnePlace'
  <2>1. ASSUME NEW u \in Threads, NEW k \in Tokens, HeldByThread(k, u)'
        PROVE  HeldByThread(k, u) /\ job'[u].confirmed = job[u].confirmed
    BY <1>3, <2>1, NoneAssumption DEF HeldByThread, Busy
  <2> QED BY <1>1, <1>2, <2>1, PlacesStay
<1> QED BY <1>2, <1>3, <1>4, <1>5, <1>6, Assemble

\* A request is answered, and nothing is written.
LEMMA ThreadAnswers ==
  ASSUME Inductive, UNCHANGED <<identity, revisions, current>>, ItemTypes', TokenTypes', ShelfType',
         \A k \in Tokens : drafts'[k] \in {drafts[k], None}, issued \subseteq issued',
         NEW t \in Threads, Answer(t)
  PROVE  Inductive'
<1>1. /\ TypeOK /\ ItemTypes /\ TokenTypes /\ ThreadTypes
      /\ ItemsOK /\ RequestsMakeSense /\ DraftsMakeSense /\ DraftInOnePlace
  BY Parts
<1>2. ItemsOK' /\ Grows /\ WritesNoDraft BY <1>1, SameItems
<1>3. /\ \A u \in Threads \ {t} : pc'[u] = pc[u] /\ job'[u] = job[u]
      /\ pc'[t] = "idle"
      /\ ThreadTypes'
  BY <1>1 DEF Answer, Goto, ThreadTypes, States
<1>4. RequestsMakeSense' BY <1>1, <1>2, <1>3, RequestsStay DEF Busy
<1>5. DraftsMakeSense' BY <1>1, <1>2, DraftsStay
<1>6. DraftInOnePlace'
  <2>1. ASSUME NEW u \in Threads, NEW k \in Tokens, HeldByThread(k, u)'
        PROVE  HeldByThread(k, u) /\ job'[u].confirmed = job[u].confirmed
    BY <1>3, <2>1 DEF HeldByThread, Busy
  <2> QED BY <1>1, <1>2, <2>1, PlacesStay
<1> QED BY <1>2, <1>3, <1>4, <1>5, <1>6, Assemble

\* A step of no thread that at most drops tokens, moves items or purges.
LEMMA ThreadsRest ==
  ASSUME Inductive, ItemTypes', ItemsOK', Grows, WritesNoDraft, TokenTypes', ShelfType',
         \A k \in Tokens : drafts'[k] \in {drafts[k], None}, issued \subseteq issued',
         UNCHANGED <<pc, job>>
  PROVE  Inductive'
<1>1. /\ TypeOK /\ ItemTypes /\ TokenTypes /\ ThreadTypes
      /\ ItemsOK /\ RequestsMakeSense /\ DraftsMakeSense /\ DraftInOnePlace
  BY Parts
<1>2. RequestsMakeSense'
  <2> SUFFICES ASSUME NEW u \in Threads, Busy(u)' PROVE Sensible(job[u], pc[u])'
    BY DEF RequestsMakeSense
  <2>1. pc[u] \in States /\ job[u] \in Jobs /\ Busy(u)
    BY <1>1 DEF TypeOK, Busy
  <2>2. Sensible(job[u], pc[u]) BY <1>1, <2>1 DEF RequestsMakeSense
  <2>3. ASSUME NEW request \in Jobs, NEW state \in States, Sensible(request, state)
        PROVE  Sensible(request, state)'
    BY <1>1, <2>3, SensibleStays
  <2> QED BY <2>1, <2>2, <2>3 DEF Sensible, MadeFor
<1>3. DraftsMakeSense' BY <1>1, DraftsStay
<1>4. DraftInOnePlace'
  <2>1. ASSUME NEW u \in Threads, NEW k \in Tokens, HeldByThread(k, u)'
        PROVE  HeldByThread(k, u) /\ job'[u].confirmed = job[u].confirmed
    BY <2>1 DEF HeldByThread, Busy
  <2> QED BY <1>1, <2>1, PlacesStay
<1>5. ThreadTypes' BY <1>1 DEF ThreadTypes
<1> QED BY <1>2, <1>3, <1>4, <1>5, Assemble

(******************************************************************************)
(* The actions.                                                               *)
(******************************************************************************)

\* A selection under a fresh token.
LEMMA PutSelectionTypes ==
  ASSUME TokenTypes, NEW k \in Identities, PutSelection(k)
  PROVE  TokenTypes' /\ UNCHANGED drafts /\ issued \subseteq issued'
<1>1. PICK token \in Tokens \ issued :
          /\ selections' = [selections EXCEPT ![token] = k]
          /\ issued' = issued \cup {token}
          /\ UNCHANGED drafts
  BY DEF PutSelection
<1> QED BY <1>1 DEF TokenTypes

LEMMA SearchKeeps ==
  ASSUME Inductive, NEW k \in Identities, Search(k)
  PROVE  Inductive'
<1>1. TokenTypes' /\ UNCHANGED drafts /\ issued \subseteq issued'
  BY Parts, PutSelectionTypes DEF Search
<1>2. UNCHANGED <<identity, revisions, current, pc, job>> /\ ItemTypes' /\ ShelfType'
  BY Parts DEF Search, itemVars, threadVars, ItemTypes, ShelfType
<1>3. ItemsOK' /\ Grows /\ WritesNoDraft BY <1>2, Parts, SameItems
<1> QED BY <1>1, <1>2, <1>3, ThreadsRest

LEMMA StartSelectKeeps ==
  ASSUME Inductive, NEW t \in Threads, NEW token \in Tokens, NEW confirm \in BOOLEAN,
         NEW c \in Collections \cup {None}, StartSelect(t, token, confirm, c)
  PROVE  Inductive'
<1> DEFINE request == [op |-> "select", identity |-> selections[token], item |-> None,
                       title |-> None, shown |-> 0, confirmed |-> confirm,
                       collection |-> c, draft |-> None]
<1>1. /\ request \in Jobs
      /\ Work(t, "lookup", request)
      /\ Sensible(request, "lookup")
      /\ request.draft = None
  <2>1. selections[token] \in Identities BY Parts DEF StartSelect, TokenTypes
  <2> QED BY <2>1 DEF StartSelect, Jobs, Sensible
<1>2. /\ UNCHANGED <<identity, revisions, current, drafts, issued>>
      /\ ItemTypes' /\ TokenTypes' /\ ShelfType'
  BY Parts DEF StartSelect, itemVars, ItemTypes, TokenTypes, ShelfType
<1> HIDE DEF request
<1> QED BY <1>1, <1>2, ThreadMoves DEF States

LEMMA StartImportKeeps ==
  ASSUME Inductive, NEW t \in Threads, NEW k \in Edited, NEW name \in Titles,
         NEW c \in Collections \cup {None}, StartImport(t, k, name, c)
  PROVE  Inductive'
<1> DEFINE request == [op |-> "import", identity |-> k, item |-> None,
                       title |-> name, shown |-> 0, confirmed |-> FALSE,
                       collection |-> c, draft |-> None]
<1>1. /\ request \in Jobs
      /\ Work(t, "lookup", request)
      /\ Sensible(request, "lookup")
      /\ request.draft = None
  BY EditedAssumption DEF StartImport, Jobs, Sensible
<1>2. /\ UNCHANGED <<identity, revisions, current, drafts, issued>>
      /\ ItemTypes' /\ TokenTypes' /\ ShelfType'
  BY Parts DEF StartImport, itemVars, tokenVars, ItemTypes, TokenTypes, ShelfType
<1> HIDE DEF request
<1> QED BY <1>1, <1>2, ThreadMoves DEF States

LEMMA StartEpisodesKeeps ==
  ASSUME Inductive, NEW t \in Threads, NEW i \in Items, StartEpisodes(t, i)
  PROVE  Inductive'
<1> DEFINE request == [op |-> "episodes", identity |-> identity[i], item |-> i,
                       title |-> None, shown |-> current[i], confirmed |-> FALSE,
                       collection |-> None, draft |-> None]
<1>1. /\ request \in Jobs
      /\ Work(t, "recheck", request)
      /\ Sensible(request, "recheck")
      /\ request.draft = None
  <2>1. identity[i] \in Identities /\ current[i] \in 1 .. Len(revisions[i])
    BY Parts DEF StartEpisodes, Exists, ItemTypes, ItemsOK, CurrentIsLatest
  <2> QED BY <2>1, Parts DEF StartEpisodes, Jobs, Sensible, MadeFor, ItemTypes
<1>2. /\ UNCHANGED <<identity, revisions, current, drafts, issued>>
      /\ ItemTypes' /\ TokenTypes' /\ ShelfType'
  BY Parts DEF StartEpisodes, itemVars, tokenVars, ItemTypes, TokenTypes, ShelfType
<1> HIDE DEF request
<1> QED BY <1>1, <1>2, ThreadMoves DEF States

LEMMA StartRefreshKeeps ==
  ASSUME Inductive, NEW t \in Threads, NEW i \in Items, NEW n \in 1 .. MaxRevisions,
         StartRefresh(t, i, n)
  PROVE  Inductive'
<1> DEFINE request == [op |-> "refresh", identity |-> identity[i], item |-> i,
                       title |-> None, shown |-> n, confirmed |-> FALSE,
                       collection |-> None, draft |-> None]
<1>1. /\ request \in Jobs
      /\ Work(t, "fetch", request)
      /\ Sensible(request, "fetch")
      /\ request.draft = None
  <2>1. n \in 1 .. Len(revisions[i]) /\ revisions[i] # <<>> /\ n \in Nat
    BY Parts, BoundAssumption DEF StartRefresh, ItemTypes
  <2>2. identity[i] \in Identities
    BY <2>1, Parts DEF ItemTypes, ItemsOK, CurrentIsLatest, Exists
  <2> QED BY <2>1, <2>2 DEF StartRefresh, Jobs, Sensible, MadeFor
<1>2. /\ UNCHANGED <<identity, revisions, current, drafts, issued>>
      /\ ItemTypes' /\ TokenTypes' /\ ShelfType'
  BY Parts DEF StartRefresh, itemVars, tokenVars, ItemTypes, TokenTypes, ShelfType
<1> HIDE DEF request
<1> QED BY <1>1, <1>2, ThreadMoves DEF States

\* The draft's token leaves the cache with the request.
LEMMA StartConfirmKeeps ==
  ASSUME Inductive, NEW t \in Threads, NEW token \in Tokens, StartConfirm(t, token)
  PROVE  Inductive'
<1> DEFINE request == [drafts[token] EXCEPT !.confirmed = TRUE]
<1>0. /\ TypeOK /\ ItemTypes /\ TokenTypes /\ ThreadTypes /\ ShelfType
      /\ ItemsOK /\ RequestsMakeSense /\ DraftsMakeSense /\ DraftInOnePlace
  BY Parts
<1>1. drafts[token] \in Jobs /\ drafts[token] # None /\ pc[t] = "idle"
  BY <1>0 DEF StartConfirm, TokenTypes
<1>2. /\ request \in Jobs
      /\ request.confirmed = TRUE
      /\ request.op = drafts[token].op
      /\ request.identity = drafts[token].identity
      /\ request.item = drafts[token].item
      /\ request.title = drafts[token].title
      /\ request.shown = drafts[token].shown
      /\ request.draft = token
  BY <1>0, <1>1 DEF Jobs, DraftsMakeSense
<1>3. Work(t, "confirm", request) BY DEF StartConfirm
<1> HIDE DEF request
<1>4. Sensible(request, "confirm")
  BY <1>0, <1>1, <1>2 DEF DraftsMakeSense, Sensible, MadeFor
<1>5. /\ \A u \in Threads \ {t} : pc'[u] = pc[u] /\ job'[u] = job[u]
      /\ pc'[t] = "confirm" /\ job'[t] = request
      /\ ThreadTypes'
  BY <1>0, <1>2, <1>3 DEF Work, Goto, ThreadTypes, States
<1>6. /\ UNCHANGED <<identity, revisions, current, issued>>
      /\ drafts'[token] = None
      /\ \A k \in Tokens : k # token => drafts'[k] = drafts[k]
      /\ ItemTypes' /\ TokenTypes' /\ ShelfType'
  BY <1>0 DEF StartConfirm, itemVars, ItemTypes, TokenTypes, ShelfType
<1>7. ItemsOK' /\ Grows /\ WritesNoDraft BY <1>0, <1>6, SameItems
<1>8. RequestsMakeSense'
  <2>1. Sensible(job[t], pc[t])' BY <1>4, <1>5, <1>6 DEF Sensible, MadeFor
  <2> QED BY <1>0, <1>5, <1>7, <2>1, RequestsStay
<1>9. DraftsMakeSense' BY <1>0, <1>6, <1>7, DraftsStay
<1>10. DraftInOnePlace'
  <2>1. \A u \in Threads : ~HeldByThread(token, u) BY <1>0, <1>1 DEF DraftInOnePlace
  <2>2. \A i \in Items, n \in 1 .. MaxRevisions : ~WrittenBy(token, i, n)
    BY <1>0, <1>1 DEF DraftInOnePlace
  <2>3. ASSUME NEW k \in Tokens, NEW u \in Threads, HeldByThread(k, u)'
        PROVE  \/ u = t /\ k = token
               \/ u # t /\ HeldByThread(k, u) /\ k # token /\ job'[u] = job[u]
    BY <1>2, <1>5, <2>1, <2>3 DEF HeldByThread, Busy
  <2>4. token \in issued BY <1>0, <1>1 DEF DraftInOnePlace
  <2>5. ASSUME NEW k \in Tokens PROVE k \notin issued' => drafts'[k] = None
    BY <1>0, <1>6 DEF DraftInOnePlace
  <2>6. ASSUME NEW k \in Tokens, NEW u \in Threads, HeldByThread(k, u)'
        PROVE  /\ k \in issued'
               /\ drafts'[k] = None
               /\ job'[u].confirmed
               /\ \A v \in Threads : HeldByThread(k, v)' => u = v
    <3>1. CASE u = t /\ k = token BY <1>2, <1>5, <1>6, <2>3, <2>4, <3>1
    <3>2. CASE u # t /\ HeldByThread(k, u) /\ k # token /\ job'[u] = job[u]
      <4>1. /\ k \in issued
            /\ drafts[k] = None
            /\ job[u].confirmed
            /\ \A v \in Threads : HeldByThread(k, v) => u = v
        BY <1>0, <3>2 DEF DraftInOnePlace
      <4> QED BY <1>6, <2>3, <3>2, <4>1
    <3> QED BY <2>3, <2>6, <3>1, <3>2
  <2>7. ASSUME NEW k \in Tokens, NEW i \in Items, NEW n \in 1 .. MaxRevisions, WrittenBy(k, i, n)'
        PROVE  /\ k \in issued'
               /\ drafts'[k] = None
               /\ \A u \in Threads : ~HeldByThread(k, u)'
               /\ \A j \in Items, m \in 1 .. MaxRevisions : WrittenBy(k, j, m)' => i = j /\ m = n
    <3>1. WrittenBy(k, i, n) /\ k # token BY <1>7, <2>2, <2>7 DEF WritesNoDraft
    <3>2. /\ k \in issued
          /\ drafts[k] = None
          /\ \A u \in Threads : ~HeldByThread(k, u)
          /\ \A j \in Items, m \in 1 .. MaxRevisions : WrittenBy(k, j, m) => i = j /\ m = n
      BY <1>0, <3>1 DEF DraftInOnePlace
    <3> QED BY <1>6, <1>7, <2>3, <3>1, <3>2 DEF WritesNoDraft
  <2> QED BY <2>5, <2>6, <2>7 DEF DraftInOnePlace
<1> QED BY <1>5, <1>6, <1>7, <1>8, <1>9, <1>10, Assemble

\* A request is answered with a new draft.
LEMMA AnswersWithDraft ==
  ASSUME Inductive, UNCHANGED itemVars, UNCHANGED shelf, NEW t \in Threads, Answer(t),
         NEW request \in Jobs, request.title \in Titles,
         \/ request.op = "import" /\ request.item = None
         \/ request.op = "edit" /\ MadeFor(request),
         PutDraft(request)
  PROVE  Inductive'
<1>1. /\ TypeOK /\ ItemTypes /\ TokenTypes /\ ThreadTypes /\ ShelfType
      /\ ItemsOK /\ RequestsMakeSense /\ DraftsMakeSense /\ DraftInOnePlace
  BY Parts
<1>2. UNCHANGED <<identity, revisions, current>> /\ ItemTypes' /\ ShelfType'
  BY <1>1 DEF itemVars, ItemTypes, ShelfType
<1>3. ItemsOK' /\ Grows BY <1>1, <1>2, SameItems
<1>4. /\ \A u \in Threads \ {t} : pc'[u] = pc[u] /\ job'[u] = job[u]
      /\ pc'[t] = "idle"
      /\ ThreadTypes'
  BY <1>1 DEF Answer, Goto, ThreadTypes, States
<1>5. RequestsMakeSense' BY <1>1, <1>3, <1>4, RequestsStay DEF Busy
<1>6. ASSUME NEW u \in Threads, NEW k \in Tokens, HeldByThread(k, u)'
      PROVE  HeldByThread(k, u) /\ job'[u].confirmed = job[u].confirmed
  BY <1>4, <1>6 DEF HeldByThread, Busy
<1>7. TokenTypes' /\ DraftsMakeSense' /\ DraftInOnePlace'
  BY <1>1, <1>2, <1>6, PutDraftKeeps
<1> QED BY <1>2, <1>3, <1>4, <1>5, <1>7, Assemble

\* A request is answered, and its revision is written.
LEMMA AnswersWithRevision ==
  ASSUME Inductive, UNCHANGED <<tokenVars, shelf>>, ItemTypes', ItemsOK', Grows,
         NEW t \in Threads, Busy(t), Answer(t), NEW i \in Items,
         Len(revisions'[i]) = Len(revisions[i]) + 1,
         revisions'[i][Len(revisions[i]) + 1].draft = job[t].draft,
         \A j \in Items : j # i => revisions'[j] = revisions[j]
  PROVE  Inductive'
<1>1. /\ TypeOK /\ ItemTypes /\ TokenTypes /\ ThreadTypes /\ ShelfType
      /\ ItemsOK /\ RequestsMakeSense /\ DraftsMakeSense /\ DraftInOnePlace
  BY Parts
<1>2. TokenTypes' /\ ShelfType' /\ UNCHANGED <<drafts, issued>>
  BY <1>1 DEF tokenVars, TokenTypes, ShelfType
<1>3. /\ \A u \in Threads \ {t} : pc'[u] = pc[u] /\ job'[u] = job[u]
      /\ pc'[t] = "idle"
      /\ ThreadTypes'
  BY <1>1 DEF Answer, Goto, ThreadTypes, States
<1>4. RequestsMakeSense' BY <1>1, <1>3, RequestsStay DEF Busy
<1>5. DraftsMakeSense' BY <1>1, <1>2, DraftsStay
<1>6. DraftInOnePlace' BY <1>1, <1>2, WriteKeepsPlaces
<1> QED BY <1>2, <1>3, <1>4, <1>5, <1>6, Assemble

LEMMA CreateAnswers ==
  ASSUME Inductive, NEW t \in Threads, Busy(t), Answer(t), UNCHANGED <<tokenVars, shelf>>,
         job[t].op \in {"select", "import"}, job[t].title \in Titles,
         ItemOf(job[t].identity) = {}, NEW i \in Items, Create(i, job[t], job[t].title)
  PROVE  Inductive'
<1>1. job[t] \in Jobs /\ ItemTypes /\ ItemsOK BY Parts DEF Busy, ThreadTypes
<1>2. 1 <= MaxRevisions BY BoundAssumption
<1>3. ItemTypes' /\ ItemsOK' /\ Grows BY <1>1, <1>2, CreateKeepsItems
<1>4. /\ revisions[i] = <<>>
      /\ revisions'[i] = <<Revision(job[t], job[t].title)>>
      /\ \A j \in Items : j # i => revisions'[j] = revisions[j]
  BY <1>1 DEF Create, ItemTypes, ItemsOK, CurrentIsLatest
<1>5. /\ Len(revisions'[i]) = Len(revisions[i]) + 1
      /\ revisions'[i][Len(revisions[i]) + 1].draft = job[t].draft
  <2>1. Len(revisions[i]) = 0 /\ Len(revisions'[i]) = 1 BY <1>4
  <2>2. revisions'[i][1].draft = job[t].draft BY <1>4 DEF Revision
  <2> QED BY <2>1, <2>2
<1> QED BY <1>3, <1>4, <1>5, AnswersWithRevision

LEMMA AppendAnswers ==
  ASSUME Inductive, NEW t \in Threads, Busy(t), Answer(t), UNCHANGED <<tokenVars, shelf>>,
         job[t].title \in Titles, NEW i \in Items, Exists(i),
         AppendRevision(i, job[t], job[t].title), placed' \in [Items -> Collections \cup {None}],
         job[t].op \in {"edit", "episodes", "refresh"} => current[i] = job[t].shown,
         job[t].confirmed \/ job[t].op \in {"episodes", "refresh"},
         job[t].op = "episodes" => job[t].title = revisions[i][job[t].shown].title
  PROVE  Inductive'
<1>1. job[t] \in Jobs /\ ItemTypes /\ ItemsOK BY Parts DEF Busy, ThreadTypes
<1>2. ItemTypes' /\ ItemsOK' /\ Grows BY <1>1, AppendKeepsItems
<1>3. /\ revisions[i] \in Seq(Revisions)
      /\ revisions'[i] = Append(revisions[i], Revision(job[t], job[t].title))
      /\ \A j \in Items : j # i => revisions'[j] = revisions[j]
  BY <1>1 DEF AppendRevision, ItemTypes
<1>4. Revision(job[t], job[t].title) \in Revisions
  BY <1>1 DEF Revision, Revisions, Jobs
<1>5. /\ Len(revisions'[i]) = Len(revisions[i]) + 1
      /\ revisions'[i][Len(revisions[i]) + 1] = Revision(job[t], job[t].title)
  BY <1>3, <1>4
<1>6. revisions'[i][Len(revisions[i]) + 1].draft = job[t].draft BY <1>5 DEF Revision
<1> QED BY <1>2, <1>3, <1>5, <1>6, AnswersWithRevision

LEMMA LookupSelectKeeps ==
  ASSUME Inductive, NEW t \in Threads, LookupSelect(t)
  PROVE  Inductive'
<1>1. /\ UNCHANGED <<identity, revisions, current, drafts, issued>>
      /\ ItemTypes' /\ TokenTypes' /\ ShelfType'
  BY Parts DEF LookupSelect, itemVars, tokenVars, ItemTypes, TokenTypes, ShelfType
<1>2. CASE ItemOf(job[t].identity) # {}
  BY <1>1, <1>2, ThreadAnswers DEF LookupSelect
<1>3. CASE ItemOf(job[t].identity) = {}
  <2>1. /\ job[t] \in Jobs
        /\ Work(t, "fetch", job[t])
        /\ Sensible(job[t], "fetch")
    BY <1>3, Parts DEF LookupSelect, Work, ThreadTypes, Sensible
  <2>2. Busy(t) BY DEF LookupSelect, Busy
  <2> QED BY <1>1, <2>1, <2>2, ThreadMoves DEF States
<1> QED BY <1>2, <1>3

LEMMA FetchSelectKeeps ==
  ASSUME Inductive, NEW t \in Threads, NEW name \in Titles, FetchSelect(t, name)
  PROVE  Inductive'
<1>1. UNCHANGED <<identity, revisions, current>> /\ ItemTypes' /\ ShelfType'
  BY Parts DEF FetchSelect, itemVars, ItemTypes, ShelfType
<1>2. Busy(t) /\ job[t] \in Jobs /\ pc[t] = "fetch" /\ job[t].op = "select"
  BY Parts DEF FetchSelect, Busy, ThreadTypes
<1>3. CASE PutSelection(job[t].identity) /\ Answer(t)
  <2>1. job[t].identity \in Identities BY <1>2 DEF Jobs
  <2>2. TokenTypes' /\ UNCHANGED drafts /\ issued \subseteq issued'
    BY <1>3, <2>1, Parts, PutSelectionTypes
  <2> QED BY <1>1, <1>3, <2>2, ThreadAnswers
<1>4. CASE Work(t, "commit", [job[t] EXCEPT !.title = name]) /\ UNCHANGED tokenVars
  <2> DEFINE request == [job[t] EXCEPT !.title = name]
  <2>1. /\ request \in Jobs
        /\ Sensible(request, "commit")
        /\ request.draft = job[t].draft
        /\ request.confirmed = job[t].confirmed
    BY <1>2 DEF Jobs, Sensible
  <2>2. UNCHANGED <<drafts, issued>> /\ TokenTypes' BY <1>4, Parts DEF tokenVars, TokenTypes
  <2> HIDE DEF request
  <2>3. Work(t, "commit", request) BY <1>4 DEF request
  <2> QED BY <1>1, <1>2, <2>1, <2>2, <2>3, ThreadMoves DEF States
<1> QED BY <1>3, <1>4 DEF FetchSelect

LEMMA CommitSelectKeeps ==
  ASSUME Inductive, NEW t \in Threads, CommitSelect(t)
  PROVE  Inductive'
<1>1. /\ Busy(t) /\ job[t] \in Jobs /\ pc[t] = "commit" /\ job[t].op = "select"
      /\ job[t].title \in Titles /\ Answer(t) /\ UNCHANGED shelf /\ ShelfType'
  BY Parts DEF CommitSelect, Busy, ThreadTypes, RequestsMakeSense, Sensible, ShelfType
<1>2. CASE PutSelection(job[t].identity) /\ UNCHANGED itemVars
  <2>1. job[t].identity \in Identities BY <1>1 DEF Jobs
  <2>2. TokenTypes' /\ UNCHANGED drafts /\ issued \subseteq issued'
    BY <1>2, <2>1, Parts, PutSelectionTypes
  <2>3. UNCHANGED <<identity, revisions, current>> /\ ItemTypes'
    BY <1>2, Parts DEF itemVars, ItemTypes
  <2> QED BY <1>1, <2>2, <2>3, ThreadAnswers
<1>3. CASE UNCHANGED <<itemVars, tokenVars>>
  <2>1. /\ UNCHANGED <<identity, revisions, current, drafts, issued>>
        /\ ItemTypes' /\ TokenTypes'
    BY <1>3, Parts DEF itemVars, tokenVars, ItemTypes, TokenTypes
  <2> QED BY <1>1, <2>1, ThreadAnswers
<1>4. CASE /\ ItemOf(job[t].identity) = {}
           /\ \E i \in Items : Create(i, job[t], job[t].title)
           /\ UNCHANGED tokenVars
  BY <1>1, <1>4, CreateAnswers
<1> QED BY <1>2, <1>3, <1>4 DEF CommitSelect

LEMMA LookupImportKeeps ==
  ASSUME Inductive, NEW t \in Threads, LookupImport(t)
  PROVE  Inductive'
<1> DEFINE found == ItemOf(job[t].identity)
           read == IF found = {} THEN None ELSE CHOOSE i \in found : TRUE
           request == [job[t] EXCEPT !.item = read]
<1>1. UNCHANGED <<identity, revisions, current>> /\ ItemTypes' /\ ShelfType'
  BY Parts DEF LookupImport, itemVars, ItemTypes, ShelfType
<1>2. /\ Busy(t) /\ job[t] \in Jobs /\ pc[t] = "lookup" /\ job[t].op = "import"
      /\ Sensible(job[t], "lookup")
      /\ job[t].title \in Titles
      /\ UNCHANGED itemVars /\ UNCHANGED shelf
  BY Parts DEF LookupImport, Busy, ThreadTypes, RequestsMakeSense, Sensible
<1>3. CASE ~job[t].confirmed /\ PutDraft(job[t]) /\ Answer(t)
  <2>1. job[t].item = None
    BY <1>2, <1>3 DEF Sensible
  <2> QED BY <1>2, <1>3, <2>1, AnswersWithDraft
<1>4. CASE /\ found = {} \/ job[t].confirmed
           /\ Work(t, "commit", request)
           /\ UNCHANGED tokenVars
  <2>1. read \in found \cup {None} /\ (found = {} => read = None)
    OBVIOUS
  <2>2. read \in Items \cup {None} /\ (read # None => identity[read] = job[t].identity)
    BY <2>1 DEF ItemOf
  <2> HIDE DEF read
  <2>3. /\ request \in Jobs
        /\ request.op = "import"
        /\ request.item = read
        /\ request.title = job[t].title
        /\ request.identity = job[t].identity
        /\ request.draft = job[t].draft
        /\ request.confirmed = job[t].confirmed
    BY <1>2, <2>2 DEF Jobs
  <2> HIDE DEF request
  <2>4. Sensible(request, "commit")
    BY <1>2, <1>4, <2>1, <2>2, <2>3 DEF Sensible
  <2>5. UNCHANGED <<drafts, issued>> /\ TokenTypes' BY <1>4, Parts DEF tokenVars, TokenTypes
  <2> QED BY <1>1, <1>2, <1>4, <2>3, <2>4, <2>5, ThreadMoves DEF States
<1> QED BY <1>3, <1>4 DEF LookupImport

LEMMA CommitImportKeeps ==
  ASSUME Inductive, NEW t \in Threads, CommitImport(t)
  PROVE  Inductive'
<1> DEFINE found == ItemOf(job[t].identity)
<1>0. Sensible(job[t], pc[t])
  BY Parts DEF CommitImport, Busy, RequestsMakeSense
<1>1. /\ Busy(t) /\ job[t] \in Jobs /\ pc[t] = "commit" /\ job[t].op = "import"
      /\ job[t].title \in Titles
      /\ job[t].item # None => job[t].confirmed
      /\ Answer(t) /\ UNCHANGED shelf /\ ShelfType'
  BY <1>0, Parts DEF CommitImport, Busy, ThreadTypes, Sensible, ShelfType
<1>2. CASE UNCHANGED <<itemVars, tokenVars>>
  <2>1. /\ UNCHANGED <<identity, revisions, current, drafts, issued>>
        /\ ItemTypes' /\ TokenTypes'
    BY <1>2, Parts DEF itemVars, tokenVars, ItemTypes, TokenTypes
  <2> QED BY <1>1, <2>1, ThreadAnswers
<1>3. CASE found = {} /\ (\E i \in Items : Create(i, job[t], job[t].title)) /\ UNCHANGED tokenVars
  BY <1>1, <1>3, CreateAnswers
<1>4. CASE job[t].item = None /\ UNCHANGED itemVars /\ PutDraft(job[t])
  BY <1>1, <1>4, AnswersWithDraft
<1>5. CASE /\ job[t].item \in found
           /\ CanHold(job[t].collection)
           /\ AppendRevision(job[t].item, job[t], job[t].title)
           /\ placed' = IF job[t].collection = None THEN placed
                        ELSE [placed EXCEPT ![job[t].item] = job[t].collection]
           /\ UNCHANGED tokenVars
  <2>1. job[t].item \in Items /\ Exists(job[t].item) /\ job[t].item # None
    BY <1>1, <1>5, NoneAssumption DEF ItemOf, Exists, Jobs
  <2>2. placed' \in [Items -> Collections \cup {None}]
    BY <1>1, <1>5, Parts DEF ItemTypes, Jobs
  <2> QED BY <1>1, <1>5, <2>1, <2>2, AppendAnswers
<1> QED BY <1>2, <1>3, <1>4, <1>5 DEF CommitImport

LEMMA StartEditKeeps ==
  ASSUME Inductive, NEW i \in Items, NEW name \in Titles, StartEdit(i, name)
  PROVE  Inductive'
<1> DEFINE request == [op |-> "edit", identity |-> identity[i], item |-> i, title |-> name,
                       shown |-> current[i], confirmed |-> FALSE, collection |-> None,
                       draft |-> None]
<1>0. /\ TypeOK /\ ItemTypes /\ TokenTypes /\ ThreadTypes /\ ShelfType
      /\ ItemsOK /\ RequestsMakeSense /\ DraftsMakeSense /\ DraftInOnePlace
  BY Parts
<1>1. identity[i] \in Identities /\ Exists(i)
  BY EditedAssumption, NoneAssumption DEF StartEdit, Exists
<1>2. current[i] = Len(revisions[i]) /\ current[i] \in 1 .. Len(revisions[i])
  BY <1>0, <1>1 DEF ItemsOK, CurrentIsLatest, ItemTypes
<1>3. /\ request \in Jobs
      /\ request.title \in Titles
      /\ request.op = "edit"
      /\ MadeFor(request)
      /\ PutDraft(request)
  BY <1>1, <1>2 DEF StartEdit, Jobs, MadeFor
<1> HIDE DEF request
<1>4. /\ UNCHANGED <<identity, revisions, current, pc, job>> /\ ItemTypes' /\ ShelfType' /\ ThreadTypes'
  BY <1>0 DEF StartEdit, itemVars, threadVars, ItemTypes, ShelfType, ThreadTypes
<1>5. ItemsOK' BY <1>0, <1>4, SameItems
<1>6. ASSUME NEW u \in Threads, NEW k \in Tokens, HeldByThread(k, u)'
      PROVE  HeldByThread(k, u) /\ job'[u].confirmed = job[u].confirmed
  BY <1>4, <1>6 DEF HeldByThread, Busy
<1>7. TokenTypes' /\ DraftsMakeSense' /\ DraftInOnePlace'
  BY <1>0, <1>3, <1>4, <1>6, PutDraftKeeps
<1>8. RequestsMakeSense'
  BY <1>0, <1>4 DEF RequestsMakeSense, Sensible, MadeFor, Busy
<1> QED BY <1>4, <1>5, <1>7, <1>8, Assemble

LEMMA ConfirmKeeps ==
  ASSUME Inductive, NEW t \in Threads, Confirm(t)
  PROVE  Inductive'
<1> DEFINE next == IF job[t].op = "import" THEN "lookup" ELSE "commit"
<1>1. /\ Busy(t) /\ job[t] \in Jobs /\ pc[t] = "confirm"
      /\ Sensible(job[t], "confirm")
      /\ Work(t, next, job[t])
  BY Parts DEF Confirm, Busy, ThreadTypes, RequestsMakeSense, Work
<1>2. Sensible(job[t], next) BY <1>1 DEF Sensible
<1>3. /\ UNCHANGED <<identity, revisions, current, drafts, issued>>
      /\ ItemTypes' /\ TokenTypes' /\ ShelfType'
  BY Parts DEF Confirm, itemVars, tokenVars, ItemTypes, TokenTypes, ShelfType
<1>4. next \in States \ {"idle"} BY DEF States
<1> HIDE DEF next
<1> QED BY <1>1, <1>2, <1>3, <1>4, ThreadMoves

LEMMA MergeEpisodesKeeps ==
  ASSUME Inductive, NEW t \in Threads, MergeEpisodes(t)
  PROVE  Inductive'
<1> DEFINE i == job[t].item
           request == [job[t] EXCEPT !.title = revisions[i][current[i]].title]
<1>1. /\ UNCHANGED <<identity, revisions, current, drafts, issued>>
      /\ ItemTypes' /\ TokenTypes' /\ ShelfType'
  BY Parts DEF MergeEpisodes, itemVars, tokenVars, ItemTypes, TokenTypes, ShelfType
<1>2. /\ Busy(t) /\ job[t] \in Jobs /\ pc[t] = "recheck"
      /\ Sensible(job[t], "recheck")
  BY Parts DEF MergeEpisodes, Busy, ThreadTypes, RequestsMakeSense
<1>3. CASE Answer(t) BY <1>1, <1>3, ThreadAnswers
<1>4. CASE current[i] = job[t].shown /\ Work(t, "commit", request)
  <2>1. /\ i \in Items
        /\ job[t].op = "episodes"
        /\ MadeFor(job[t])
        /\ revisions[i] \in Seq(Revisions)
        /\ current[i] \in 1 .. Len(revisions[i])
    BY <1>2, <1>4, Parts DEF Sensible, MadeFor, ItemTypes
  <2>2. revisions[i][current[i]] \in Revisions BY <2>1
  <2>3. revisions[i][current[i]].title \in Titles BY <2>2 DEF Revisions
  <2>4. /\ request \in Jobs
        /\ request.op = "episodes"
        /\ request.item = i
        /\ request.shown = job[t].shown
        /\ request.identity = job[t].identity
        /\ request.draft = job[t].draft
        /\ request.confirmed = job[t].confirmed
        /\ request.title = revisions[i][current[i]].title
    BY <1>2, <2>1, <2>3 DEF Jobs
  <2>5. Sensible(request, "commit") BY <1>4, <2>1, <2>4 DEF Sensible, MadeFor
  <2> HIDE DEF request
  <2> QED BY <1>1, <1>2, <1>4, <2>4, <2>5, ThreadMoves DEF States
<1> QED BY <1>3, <1>4 DEF MergeEpisodes

LEMMA FetchRefreshKeeps ==
  ASSUME Inductive, NEW t \in Threads, NEW name \in Titles, FetchRefresh(t, name)
  PROVE  Inductive'
<1> DEFINE request == [job[t] EXCEPT !.title = name]
<1>1. /\ UNCHANGED <<identity, revisions, current, drafts, issued>>
      /\ ItemTypes' /\ TokenTypes' /\ ShelfType'
  BY Parts DEF FetchRefresh, itemVars, tokenVars, ItemTypes, TokenTypes, ShelfType
<1>2. /\ Busy(t) /\ job[t] \in Jobs /\ pc[t] = "fetch"
      /\ job[t].op = "refresh"
      /\ Sensible(job[t], "fetch")
  BY Parts DEF FetchRefresh, Busy, ThreadTypes, RequestsMakeSense
<1>3. /\ request \in Jobs
      /\ Sensible(request, "commit")
      /\ request.draft = job[t].draft
      /\ request.confirmed = job[t].confirmed
      /\ Work(t, "commit", request)
  BY <1>2 DEF FetchRefresh, Jobs, Sensible, MadeFor
<1> HIDE DEF request
<1> QED BY <1>1, <1>2, <1>3, ThreadMoves DEF States

LEMMA PurgeKeeps ==
  ASSUME Inductive, NEW i \in Items, NEW n \in 1 .. MaxRevisions, Purge(i, n)
  PROVE  Inductive'
<1>1. ItemTypes' /\ ItemsOK' /\ Grows BY Parts, PurgeKeepsItems
<1>2. UNCHANGED <<drafts, issued, pc, job>> /\ TokenTypes' /\ ShelfType'
  BY Parts DEF Purge, tokenVars, threadVars, TokenTypes, ShelfType
<1>3. \A j \in Items : /\ Len(revisions'[j]) = Len(revisions[j])
                       /\ Len(revisions[j]) \in Nat
  <2>1. \A j \in Items : revisions[j] \in Seq(Revisions) BY Parts DEF ItemTypes
  <2> QED BY <2>1, Parts DEF Purge, ItemTypes
<1>4. WritesNoDraft BY <1>1, <1>3 DEF WritesNoDraft, WrittenBy, Grows
<1> QED BY <1>1, <1>2, <1>4, ThreadsRest

LEMMA CommitAmendmentKeeps ==
  ASSUME Inductive, NEW t \in Threads, CommitAmendment(t)
  PROVE  Inductive'
<1> DEFINE i == job[t].item
<1>1. /\ Busy(t) /\ job[t] \in Jobs /\ pc[t] = "commit"
      /\ job[t].op \in {"edit", "episodes", "refresh"}
      /\ Sensible(job[t], "commit")
      /\ Answer(t) /\ UNCHANGED shelf /\ UNCHANGED tokenVars
  BY Parts DEF CommitAmendment, Busy, ThreadTypes, RequestsMakeSense
<1>2. CASE UNCHANGED itemVars
  <2>1. /\ UNCHANGED <<identity, revisions, current, drafts, issued>>
        /\ ItemTypes' /\ TokenTypes' /\ ShelfType'
    BY <1>1, <1>2, Parts DEF itemVars, tokenVars, ItemTypes, TokenTypes, ShelfType
  <2> QED BY <1>1, <2>1, ThreadAnswers
<1>3. CASE /\ current[i] = job[t].shown
           /\ AppendRevision(i, job[t], job[t].title)
           /\ UNCHANGED placed
  <2>1. MadeFor(job[t]) BY <1>1 DEF Sensible
  <2>2. /\ i \in Items /\ Exists(i)
        /\ job[t].shown \in 1 .. Len(revisions[i])
        /\ revisions[i] \in Seq(Revisions)
    BY <1>1, <2>1, NoneAssumption, Parts DEF MadeFor, Exists, Jobs, ItemTypes
  <2>3. revisions[i][job[t].shown] \in Revisions BY <2>2
  <2>4. job[t].title \in Titles BY <1>1, <2>3 DEF Sensible, Revisions
  <2>5. /\ job[t].confirmed \/ job[t].op \in {"episodes", "refresh"}
        /\ job[t].op = "episodes" => job[t].title = revisions[i][job[t].shown].title
    BY <1>1 DEF Sensible
  <2>6. placed' \in [Items -> Collections \cup {None}] BY <1>3, Parts DEF ItemTypes
  <2> QED BY <1>1, <1>3, <2>2, <2>4, <2>5, <2>6, AppendAnswers
<1> QED BY <1>2, <1>3 DEF CommitAmendment

\* Steps that leave revisions, tokens and threads alone.
LEMMA ShelvesKeep ==
  ASSUME Inductive, UNCHANGED <<identity, revisions, current, title, tokenVars, threadVars>>,
         placed' \in [Items -> Collections \cup {None}], archived' \in SUBSET Items, ShelfType'
  PROVE  Inductive'
<1>1. ItemsOK' /\ Grows /\ WritesNoDraft BY Parts, SameItems
<1>2. ItemTypes' /\ TokenTypes' /\ UNCHANGED <<drafts, issued, pc, job>>
  BY Parts DEF ItemTypes, TokenTypes, tokenVars, threadVars
<1> QED BY <1>1, <1>2, ThreadsRest

LEMMA CreateCollectionKeeps ==
  ASSUME Inductive, NEW c \in Collections, CreateCollection(c)
  PROVE  Inductive'
<1>1. ShelfType' BY Parts DEF CreateCollection, ShelfType
<1> QED BY <1>1, ShelvesKeep, Parts DEF CreateCollection, itemVars, ItemTypes

LEMMA ChangeCollectionKeeps ==
  ASSUME Inductive, NEW c \in Collections, NEW state \in {"active", "archived"},
         ChangeCollection(c, state)
  PROVE  Inductive'
<1>1. ShelfType' BY Parts DEF ChangeCollection, ShelfType
<1> QED BY <1>1, ShelvesKeep, Parts DEF ChangeCollection, itemVars, ItemTypes

LEMMA ChangeItemKeeps ==
  ASSUME Inductive, NEW i \in Items, NEW c \in Collections \cup {None},
         NEW archive \in {"yes", "no", "keep"}, ChangeItem(i, c, archive)
  PROVE  Inductive'
<1>1. placed' \in [Items -> Collections \cup {None}] /\ ShelfType'
  BY Parts DEF ChangeItem, ItemTypes, ShelfType
<1>2. archived' \in SUBSET Items
  BY Parts DEF ChangeItem, ItemTypes
<1> QED BY <1>1, <1>2, ShelvesKeep DEF ChangeItem

LEMMA GiveUpKeeps ==
  ASSUME Inductive, NEW t \in Threads, GiveUp(t)
  PROVE  Inductive'
<1>1. /\ UNCHANGED <<identity, revisions, current, drafts, issued>>
      /\ ItemTypes' /\ TokenTypes' /\ ShelfType'
  BY Parts DEF GiveUp, itemVars, tokenVars, ItemTypes, TokenTypes, ShelfType
<1> QED BY <1>1, ThreadAnswers DEF GiveUp

LEMMA ForgetKeeps ==
  ASSUME Inductive, NEW token \in Tokens, Forget(token)
  PROVE  Inductive'
<1>1. /\ UNCHANGED <<identity, revisions, current, issued, pc, job>>
      /\ ItemTypes' /\ TokenTypes' /\ ShelfType'
      /\ \A k \in Tokens : drafts'[k] \in {drafts[k], None}
  BY Parts DEF Forget, itemVars, threadVars, ItemTypes, TokenTypes, ShelfType
<1>2. ItemsOK' /\ Grows /\ WritesNoDraft BY <1>1, Parts, SameItems
<1> QED BY <1>1, <1>2, ThreadsRest

LEMMA RestartKeeps ==
  ASSUME Inductive, Restart
  PROVE  Inductive'
<1>1. /\ UNCHANGED <<identity, revisions, current, issued>>
      /\ ItemTypes' /\ TokenTypes' /\ ShelfType' /\ ThreadTypes'
      /\ \A k \in Tokens : drafts'[k] \in {drafts[k], None}
      /\ \A t \in Threads : ~Busy(t)'
  BY Parts DEF Restart, itemVars, ItemTypes, TokenTypes, ShelfType, ThreadTypes, States, Busy
<1>2. ItemsOK' /\ Grows /\ WritesNoDraft BY <1>1, Parts, SameItems
<1>3. RequestsMakeSense' BY <1>1 DEF RequestsMakeSense
<1>4. DraftsMakeSense' BY <1>1, <1>2, Parts, DraftsStay
<1>5. DraftInOnePlace'
  <2>1. \A k \in Tokens, u \in Threads : ~HeldByThread(k, u)' BY <1>1 DEF HeldByThread
  <2> QED BY <1>1, <1>2, <2>1, Parts, PlacesStay
<1> QED BY <1>1, <1>2, <1>3, <1>4, <1>5, Assemble

(******************************************************************************)
(* The theorems.                                                              *)
(******************************************************************************)

LEMMA StepInductive == Inductive /\ [Next]_vars => Inductive'
<1> SUFFICES ASSUME Inductive, [Next]_vars PROVE Inductive'
  OBVIOUS
<1>1. CASE UNCHANGED vars
  <2>1. UNCHANGED <<itemVars, shelf, tokenVars, threadVars>> BY <1>1 DEF vars
  <2>2. /\ placed' \in [Items -> Collections \cup {None}]
        /\ archived' \in SUBSET Items
        /\ ShelfType'
        /\ UNCHANGED <<identity, revisions, current, title>>
    BY <2>1, Parts DEF itemVars, ItemTypes, ShelfType
  <2> QED BY <2>1, <2>2, ShelvesKeep
<1>2. ASSUME NEW t \in Threads, Requests(t) PROVE Inductive'
  BY <1>2, StartSelectKeeps, StartImportKeeps, StartConfirmKeeps, StartEpisodesKeeps,
     StartRefreshKeeps DEF Requests
<1>3. ASSUME NEW t \in Threads, Steps(t) PROVE Inductive'
  BY <1>3, LookupSelectKeeps, LookupImportKeeps, ConfirmKeeps, MergeEpisodesKeeps,
     FetchSelectKeeps, FetchRefreshKeeps, CommitSelectKeeps, CommitImportKeeps,
     CommitAmendmentKeeps, GiveUpKeeps DEF Steps
<1>4. ASSUME NEW k \in Identities, Search(k) PROVE Inductive'
  BY <1>4, SearchKeeps
<1>5. ASSUME NEW i \in Items, NEW name \in Titles, StartEdit(i, name) PROVE Inductive'
  BY <1>5, StartEditKeeps
<1>6. ASSUME NEW i \in Items, NEW n \in 1 .. MaxRevisions, Purge(i, n) PROVE Inductive'
  BY <1>6, PurgeKeeps
<1>7. ASSUME NEW c \in Collections, CreateCollection(c) PROVE Inductive'
  BY <1>7, CreateCollectionKeeps
<1>8. ASSUME NEW c \in Collections, NEW state \in {"active", "archived"},
             ChangeCollection(c, state) PROVE Inductive'
  BY <1>8, ChangeCollectionKeeps
<1>9. ASSUME NEW i \in Items, NEW c \in Collections \cup {None},
             NEW archive \in {"yes", "no", "keep"}, ChangeItem(i, c, archive) PROVE Inductive'
  BY <1>9, ChangeItemKeeps
<1>10. ASSUME NEW token \in Tokens, Forget(token) PROVE Inductive'
  BY <1>10, ForgetKeeps
<1>11. CASE Restart BY <1>11, RestartKeeps
<1> QED
  BY <1>1, <1>2, <1>3, <1>4, <1>5, <1>6, <1>7, <1>8, <1>9, <1>10, <1>11 DEF Next

\* The inductive invariant holds in every reachable state.
THEOREM Invariance == Spec => []Inductive
  BY InitInductive, StepInductive, PTL DEF Spec

\* No interleaving of selections and imports creates two items for an identity.
THEOREM IdentitiesAreUnique == Spec => []OneItemPerIdentity
<1>1. Inductive => OneItemPerIdentity BY DEF Inductive
<1> QED BY <1>1, Invariance, PTL

\* The current revision is the latest, and no item is without one.
THEOREM LatestIsCurrent == Spec => []CurrentIsLatest
<1>1. Inductive => CurrentIsLatest BY DEF Inductive
<1> QED BY <1>1, Invariance, PTL

\* No edit, episode table or refresh overwrites a revision it was not made for.
THEOREM NothingIsOverwrittenUnseen == Spec => [](AmendsWhatWasShown /\ EpisodesKeepTitle)
<1>1. Inductive => AmendsWhatWasShown /\ EpisodesKeepTitle BY DEF Inductive
<1> QED BY <1>1, Invariance, PTL

\* No import changes an existing item without a confirmation.
THEOREM ImportsNeedConfirmation == Spec => []ImportsAreConfirmed
<1>1. Inductive => ImportsAreConfirmed BY DEF Inductive
<1> QED BY <1>1, Invariance, PTL

\* A confirmation token writes one revision at most.
THEOREM DraftsAreOneUse == Spec => []DraftsApplyOnce
<1>1. Inductive => DraftsApplyOnce
  <2> SUFFICES ASSUME Inductive,
                      NEW i \in Items, NEW j \in Items,
                      NEW m \in 1 .. Len(revisions[i]), NEW n \in 1 .. Len(revisions[j]),
                      revisions[i][m].draft # None,
                      revisions[i][m].draft = revisions[j][n].draft
               PROVE  i = j /\ m = n
    BY DEF DraftsApplyOnce
  <2>1. revisions[i] \in Seq(Revisions) /\ revisions[j] \in Seq(Revisions)
    BY Parts DEF ItemTypes
  <2>2. /\ revisions[i][m] \in Revisions
        /\ Len(revisions[i]) \in Nat /\ Len(revisions[j]) \in Nat
    BY <2>1
  <2>3. revisions[i][m].draft \in Tokens BY <2>2 DEF Revisions
  <2>4. m \in 1 .. MaxRevisions /\ n \in 1 .. MaxRevisions
    BY <2>2, BoundAssumption, Parts DEF ItemsOK, RevisionsBounded
  <2>5. WrittenBy(revisions[i][m].draft, i, m) /\ WrittenBy(revisions[i][m].draft, j, n)
    BY DEF WrittenBy
  <2> QED BY <2>3, <2>4, <2>5, Parts DEF DraftInOnePlace
<1> QED BY <1>1, Invariance, PTL

\* What a step that makes a new row looks like.
LEMMA NewRows ==
  ASSUME Inductive, Next, NEW i \in Items, ~Exists(i), identity'[i] # None
  PROVE  \E t \in Threads : /\ CommitSelect(t) \/ CommitImport(t)
                            /\ Create(i, job[t], job[t].title)
<1>1. identity \in [Items -> Identities \cup {None}] BY Parts DEF ItemTypes
<1>2. identity' # identity BY DEF Exists
<1>3. PICK t \in Threads : Requests(t) \/ Steps(t)
  BY <1>2 DEF Next, Search, StartEdit, Purge, CreateCollection, ChangeCollection, ChangeItem,
     Forget, Restart, itemVars
<1>4. CommitSelect(t) \/ CommitImport(t)
  BY <1>2, <1>3 DEF Requests, Steps, StartSelect, StartImport, StartConfirm, StartEpisodes,
     StartRefresh, LookupSelect, LookupImport, Confirm, MergeEpisodes, FetchSelect, FetchRefresh,
     CommitAmendment, AppendRevision, GiveUp, itemVars
<1>5. PICK j \in Items : Create(j, job[t], job[t].title)
  BY <1>2, <1>4 DEF CommitSelect, CommitImport, AppendRevision, itemVars
<1>6. j = i BY <1>1, <1>5 DEF Create, Exists
<1> QED BY <1>4, <1>5, <1>6

\* A selection nobody confirmed creates no item beside a similar one.
THEOREM TwinsAreConfirmed == Spec => NoUnconfirmedTwin
<1> DEFINE Step == \A i \in Items : ~Exists(i) /\ identity'[i] # None =>
                       LET first == revisions'[i][1] IN
                       first.op = "select" /\ ~first.confirmed =>
                           Similar(first.title, identity'[i]) = {}
<1>1. Inductive /\ [Next]_vars => [Step]_vars
  <2> SUFFICES ASSUME Inductive, Next, NEW i \in Items, ~Exists(i), identity'[i] # None,
                      revisions'[i][1].op = "select", ~revisions'[i][1].confirmed
               PROVE  Similar(revisions'[i][1].title, identity'[i]) = {}
    OBVIOUS
  <2>1. PICK t \in Threads : /\ CommitSelect(t) \/ CommitImport(t)
                             /\ Create(i, job[t], job[t].title)
    BY NewRows
  <2>2. revisions' [i] = <<Revision(job[t], job[t].title)>> /\ identity'[i] = job[t].identity
    BY <2>1, Parts DEF Create, ItemTypes
  <2>3. /\ revisions'[i][1].op = job[t].op
        /\ revisions'[i][1].confirmed = job[t].confirmed
        /\ revisions'[i][1].title = job[t].title
    BY <2>2 DEF Revision
  <2>4. CommitSelect(t) BY <2>1, <2>3 DEF CommitImport
  <2>5. Similar(job[t].title, job[t].identity) = {} \/ UNCHANGED itemVars
    BY <2>3, <2>4 DEF CommitSelect
  <2> QED BY <2>2, <2>3, <2>5 DEF itemVars, Exists
<1> HIDE DEF Step
<1>2. Spec => [][Step]_vars BY <1>1, Invariance, PTL DEF Spec
<1> QED BY <1>2 DEF NoUnconfirmedTwin, Step

\* Nothing is put into a collection that is archived.
THEOREM ArchivesStayClosed == Spec => ArchivedStaysClosed
<1> DEFINE Step == \A i \in Items : placed'[i] # placed[i] /\ placed'[i] # None =>
                       shelf[placed'[i]] = "active"
<1>1. Inductive /\ [Next]_vars => [Step]_vars
  <2> SUFFICES ASSUME Inductive, Next, NEW i \in Items,
                      placed'[i] # placed[i], placed'[i] # None
               PROVE  shelf[placed'[i]] = "active"
    OBVIOUS
  <2>0. placed \in [Items -> Collections \cup {None}] BY Parts DEF ItemTypes
  <2>1. CASE \E j \in Items, c \in Collections \cup {None}, archive \in {"yes", "no", "keep"} :
                 ChangeItem(j, c, archive)
    BY <2>0, <2>1 DEF ChangeItem, CanHold
  <2>2. CASE \E t \in Threads : CommitSelect(t) \/ CommitImport(t)
    <3>1. PICK t \in Threads : CommitSelect(t) \/ CommitImport(t) BY <2>2
    <3>2. \A j \in Items : Create(j, job[t], job[t].title) =>
              placed' = [placed EXCEPT ![j] = job[t].collection]
      BY DEF Create
    <3>3. CASE CommitSelect(t) BY <2>0, <3>2, <3>3 DEF CommitSelect, CanHold, itemVars
    <3>4. CASE CommitImport(t) BY <2>0, <3>2, <3>4 DEF CommitImport, CanHold, itemVars
    <3> QED BY <3>1, <3>3, <3>4
  <2>3. CASE UNCHANGED placed BY <2>3
  <2> QED
    BY <2>1, <2>2, <2>3, ZenonT(40) DEF Next, Requests, Steps, Search, StartEdit, Purge, CreateCollection,
       ChangeCollection, Forget, Restart, StartSelect, StartImport, StartConfirm, StartEpisodes,
       StartRefresh, LookupSelect, LookupImport, Confirm, MergeEpisodes, FetchSelect, FetchRefresh,
       CommitAmendment, AppendRevision, GiveUp, itemVars
<1> HIDE DEF Step
<1>2. Spec => [][Step]_vars BY <1>1, Invariance, PTL DEF Spec
<1> QED BY <1>2 DEF ArchivedStaysClosed, Step
================================================================================
