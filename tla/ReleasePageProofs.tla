--------------------------- MODULE ReleasePageProofs ---------------------------
(***************************************************************************)
(* Proofs about ReleasePage for every set of releases and destinations and *)
(* any number of searches, visits, submissions and mishaps.                *)
(***************************************************************************)
EXTENDS ReleasePage, FiniteSetTheorems, SequenceTheorems, TLAPS

(***************************************************************************)
(* The invariant.                                                          *)
(***************************************************************************)

Tokens == Nat \X Titles

Attempts ==
    [visit : Nat, key : Nat, token : Tokens, title : Titles, destination : Destinations]

Answers == {None, "acquisition"} \cup Definitive

Submissions ==
    [attempt : Attempts, at : {"sent", "admitted", "answered"}, answer : Answers,
     client : {"waits", "told", "lost"}, alone : BOOLEAN]

Lists == [state : {"none", "loading", "ready", "failed"}, keys : SUBSET Destinations]

Pages ==
    [up : BOOLEAN, ready : BOOLEAN,
     search : {"initial", "pending", "empty", "complete", "failed"}, active : Nat,
     searching : BOOLEAN, results : SUBSET Tokens, token : Tokens \cup {None},
     destination : Destinations \cup {None}, list : Lists,
     review : [title : Titles, destination : Destinations] \cup {None},
     phase : {"idle", "preflight", "submitting", "uncertain"}, busy : BOOLEAN,
     retained : Attempts \cup {None}, outcome : Answers]

\* What a closure that waits was started for.
Work(w) ==
    /\ w.visit \in Nat
    /\ w.kind = "search" => w.of \in Nat
    /\ w.kind = "preflight" => w.of \in Attempts

TypeOK ==
    /\ visit \in Nat
    /\ asked \in [searches : Nat, keys : Nat]
    /\ page \in Pages
    /\ \A w \in work : Work(w)
    /\ posts \in Seq(Submissions)
    /\ rows \in Seq(Attempts)
    /\ live \in SUBSET Destinations

Key(i) == posts[i].attempt.key

Mine(i) == posts[i].attempt.visit = visit

IsPreflight(w) == w.kind = "preflight"

\* The server was at work on two submissions of the key at once.
Overlapping(k) == \E i \in DOMAIN posts : Key(i) = k /\ ~posts[i].alone

\* Nothing more can come of the key without somebody knowing.
Settled(k) ==
    \/ k \in heard
    \/ Overlapping(k)
    \/ /\ Row(k) = {}
       /\ \A i \in DOMAIN posts : Key(i) = k => posts[i].at = "answered"

\* The page that sent it has done with the submission.
Over(i) == posts[i].client # "waits" /\ i \notin Unresolved /\ Settled(Key(i))

\* A key is given out once, and stands for one intent.
KeysAreOfOneIntent ==
    /\ \A i \in DOMAIN posts : Key(i) <= asked.keys
    /\ \A i, j \in DOMAIN posts : Key(i) = Key(j) => posts[i].attempt = posts[j].attempt
    /\ \A w \in work : IsPreflight(w) =>
           /\ w.of.key <= asked.keys
           /\ \A i \in DOMAIN posts : Key(i) # w.of.key
           /\ \A x \in work : IsPreflight(x) /\ x.of.key = w.of.key => x = w

\* Whatever is on its way is of a visit that was paid, and a preflight is of
\* the visit in which it was confirmed.
VisitsWerePaid ==
    /\ \A i \in DOMAIN posts : posts[i].attempt.visit <= visit
    /\ \A w \in work : w.visit <= visit
    /\ \A w \in work : IsPreflight(w) => w.of.visit = w.visit

\* The token that is chosen stays the one the review names, and so does the
\* token of what was confirmed.
IntentsAreReviewed ==
    /\ page.review # None => page.token[2] = page.review.title
    /\ \A w \in work : IsPreflight(w) => w.of.token[2] = w.of.title
    /\ ReviewedIsSent

\* A review, and what follows it, is of a search that is over.
ReviewsFollowTheSearch ==
    /\ page.phase # "idle" => page.review = None
    /\ page.review # None => ~Pending
    /\ page.phase \in {"submitting", "uncertain"} => ~Pending

\* The closures of this visit that end with giving the page back.
Operations == {w \in work : w.visit = visit /\ w.kind \in {"preflight", "refresh"}}

\* One operation of the page is under way, whose phase is shown; the intent of a
\* preflight is the newest.
OneOperation ==
    page.up =>
        \A w \in Operations :
            /\ page.phase = "preflight"
            /\ \A x \in Operations : x = w
            /\ IsPreflight(w) =>
                   ~Pending /\ \A i \in DOMAIN posts : Mine(i) => Key(i) < w.of.key

\* What the page may still have to learn is of one intent, the last one, and
\* is shown.
IsCurrent(i) ==
    /\ posts[i].client = "waits"
    /\ \A j \in DOMAIN posts : Mine(j) =>
           /\ j <= i
           /\ posts[j].client = "waits" => j = i
           /\ Key(j) = Key(i) \/ (Key(j) < Key(i) /\ Over(j))

IsRetained(i) ==
    /\ page.retained = posts[i].attempt
    /\ \A j \in DOMAIN posts : Mine(j) =>
           /\ posts[j].client # "waits"
           /\ Key(j) = Key(i) \/ (Key(j) < Key(i) /\ Over(j))

OneIntent ==
    page.up =>
        /\ page.phase \in {"idle", "preflight"} => \A i \in DOMAIN posts : Mine(i) => Over(i)
        /\ page.phase = "submitting" => \E i \in DOMAIN posts : Mine(i) /\ IsCurrent(i)
        /\ page.phase = "uncertain" => \E i \in DOMAIN posts : Mine(i) /\ IsRetained(i)

\* What the server has seen when it goes on with a submission, or refuses it.
LookupsAreTrue ==
    /\ \A i, j \in DOMAIN posts :
           i < j /\ Key(i) = Key(j) /\ posts[j].alone => posts[i].at = "answered"
    /\ \A i \in DOMAIN posts :
           posts[i].at = "admitted" => Row(Key(i)) = {} \/ Overlapping(Key(i))
    /\ \A i \in DOMAIN posts :
           posts[i].at = "answered" /\ posts[i].answer \in Definitive =>
               \/ \E j \in DOMAIN posts : j > i /\ Key(j) = Key(i)
               \/ Row(Key(i)) = {} \/ Overlapping(Key(i))

\* An acquisition is of a submission, and of those of a visit all but the last
\* are settled.
RowsAreOfPosts ==
    /\ \A r \in DOMAIN rows : \E i \in DOMAIN posts : posts[i].attempt = rows[r]
    /\ \A i, j \in DOMAIN posts :
           posts[i].attempt.visit = posts[j].attempt.visit /\ Key(i) < Key(j) => Settled(Key(i))

Inductive ==
    /\ TypeOK
    /\ ~page.up => page = Closed
    /\ KeysAreOfOneIntent
    /\ VisitsWerePaid
    /\ IntentsAreReviewed
    /\ ReviewsFollowTheSearch
    /\ OneOperation
    /\ OneIntent
    /\ LookupsAreTrue
    /\ RowsAreOfPosts

(***************************************************************************)
(* Lemmas about pages and submissions.                                     *)
(***************************************************************************)

\* What the type says of one submission.
LEMMA PostsAreTyped ==
  ASSUME TypeOK, NEW i \in DOMAIN posts
  PROVE  /\ i \in Nat /\ posts[i] \in Submissions /\ posts[i].attempt \in Attempts
         /\ Key(i) \in Nat /\ posts[i].attempt.visit \in Nat
<1>1. posts \in Seq(Submissions)
  BY DEF TypeOK
<1>2. i \in Nat /\ posts[i] \in Submissions
  BY <1>1
<1>3. posts[i].attempt \in Attempts
  BY <1>2 DEF Submissions
<1> QED BY <1>2, <1>3 DEF Attempts, Key

LEMMA ClosedIsAPage == Closed \in Pages
  BY DEF Closed, NoList, Pages, Lists, Answers

\* Lists that were loaded, or could not be.
LEMMA ListedIsAPage ==
  ASSUME NEW p \in Pages, NEW state, live \in SUBSET Destinations
  PROVE  /\ Listed(p, state) \in Pages
         /\ \A f \in {"up", "ready", "search", "active", "searching", "results", "token",
                      "review", "phase", "busy", "retained", "outcome"} :
                Listed(p, state)[f] = p[f]
         /\ state = "ready" => Listed(p, state).list.keys = live
  BY DEF Listed, Pages, Lists

\* What the submissions say with another answer of the server to one of them.
LEMMA ReplyChangesOne ==
  ASSUME posts \in Seq(Submissions), NEW i \in DOMAIN posts, NEW a \in Answers, Reply(i, a)
  PROVE  /\ posts' \in Seq(Submissions)
         /\ DOMAIN posts' = DOMAIN posts
         /\ \A j \in DOMAIN posts : j # i => posts'[j] = posts[j]
         /\ posts'[i].attempt = posts[i].attempt
         /\ posts'[i].client = posts[i].client
         /\ posts'[i].alone = posts[i].alone
         /\ posts'[i].at = "answered"
         /\ posts'[i].answer = a
<1>1. PICK s : s = posts[i]
  OBVIOUS
<1>2. s \in Submissions
  BY <1>1
<1>3. PICK t : t = [s EXCEPT !.at = "answered", !.answer = a]
  OBVIOUS
<1>4. t \in Submissions /\ t.attempt = s.attempt /\ t.client = s.client /\ t.alone = s.alone
      /\ t.at = "answered" /\ t.answer = a
  BY <1>2, <1>3 DEF Submissions
<1>5. posts' = [posts EXCEPT ![i] = t]
  BY <1>1, <1>3 DEF Reply
<1>6. posts' \in Seq(Submissions) /\ DOMAIN posts' = DOMAIN posts
  BY <1>4, <1>5
<1> QED BY <1>1, <1>4, <1>5, <1>6

\* The same for the other changes of one submission.
LEMMA AdmissionChangesOne ==
  ASSUME posts \in Seq(Submissions), NEW i \in DOMAIN posts,
         posts' = [posts EXCEPT ![i].at = "admitted"]
  PROVE  /\ posts' \in Seq(Submissions)
         /\ DOMAIN posts' = DOMAIN posts
         /\ \A j \in DOMAIN posts : j # i => posts'[j] = posts[j]
         /\ posts'[i].attempt = posts[i].attempt
         /\ posts'[i].client = posts[i].client
         /\ posts'[i].alone = posts[i].alone
         /\ posts'[i].at = "admitted"
<1>1. posts[i] \in Submissions
  OBVIOUS
<1> QED BY <1>1 DEF Submissions

LEMMA LearningChangesOne ==
  ASSUME posts \in Seq(Submissions), NEW i \in DOMAIN posts, NEW c \in {"told", "lost"},
         posts' = [posts EXCEPT ![i].client = c]
  PROVE  /\ posts' \in Seq(Submissions)
         /\ DOMAIN posts' = DOMAIN posts
         /\ \A j \in DOMAIN posts : j # i => posts'[j] = posts[j]
         /\ posts'[i].attempt = posts[i].attempt
         /\ posts'[i].at = posts[i].at
         /\ posts'[i].answer = posts[i].answer
         /\ posts'[i].alone = posts[i].alone
         /\ posts'[i].client = c
<1>1. posts[i] \in Submissions
  OBVIOUS
<1> QED BY <1>1 DEF Submissions

\* What a page sends.
LEMMA PostAddsOne ==
  ASSUME posts \in Seq(Submissions), NEW attempt \in Attempts, Post(attempt)
  PROVE  /\ posts' \in Seq(Submissions)
         /\ Len(posts') = Len(posts) + 1
         /\ DOMAIN posts' = DOMAIN posts \cup {Len(posts')}
         /\ \A j \in DOMAIN posts : j \in Nat /\ j < Len(posts') /\ posts'[j] = posts[j]
         /\ posts'[Len(posts')].attempt = attempt
         /\ posts'[Len(posts')].at = "sent"
         /\ posts'[Len(posts')].client = "waits"
         /\ posts'[Len(posts')].alone =>
                \A i \in DOMAIN posts : Key(i) = attempt.key => posts[i].at = "answered"
<1>1. PICK b : b = \A i \in DOMAIN posts :
                       posts[i].attempt.key = attempt.key => posts[i].at = "answered"
  OBVIOUS
<1>2. b \in BOOLEAN
  BY <1>1
<1>3. PICK s : s = [attempt |-> attempt, at |-> "sent", answer |-> None, client |-> "waits",
                    alone |-> b]
  OBVIOUS
<1>4. s \in Submissions /\ s.attempt = attempt /\ s.at = "sent" /\ s.client = "waits" /\ s.alone = b
  BY <1>2, <1>3 DEF Submissions, Answers
<1>5. posts' = Append(posts, s)
  BY <1>1, <1>3 DEF Post
<1>6. /\ posts' \in Seq(Submissions)
      /\ Len(posts') = Len(posts) + 1
      /\ DOMAIN posts' = DOMAIN posts \cup {Len(posts')}
      /\ \A j \in DOMAIN posts : j \in Nat /\ j < Len(posts') /\ posts'[j] = posts[j]
      /\ posts'[Len(posts')] = s
  BY <1>4, <1>5
<1> QED BY <1>1, <1>4, <1>6 DEF Key

(***************************************************************************)
(* Steps that touch neither a submission nor an acquisition.               *)
(***************************************************************************)

Quiet == UNCHANGED <<visit, posts, rows, heard>>

\* They leave what is known of the submissions.
LEMMA QuietKeepsKnowledge ==
  ASSUME Quiet
  PROVE  /\ \A i : Over(i)' <=> Over(i)
         /\ \A k : Settled(k)' <=> Settled(k)
         /\ LookupsAreTrue => LookupsAreTrue'
         /\ RowsAreOfPosts => RowsAreOfPosts'
<1>1. Unresolved' = Unresolved
  BY DEF Quiet, Unresolved
<1>2. \A k : (Settled(k)' <=> Settled(k)) /\ (Overlapping(k)' <=> Overlapping(k)) /\ Row(k)' = Row(k)
  BY DEF Quiet, Settled, Overlapping, Row, Key
<1>3. \A i : Over(i)' <=> Over(i)
  BY <1>1, <1>2 DEF Quiet, Over, Key
<1>4. LookupsAreTrue => LookupsAreTrue'
  BY <1>2 DEF Quiet, LookupsAreTrue, Key
<1>5. RowsAreOfPosts => RowsAreOfPosts'
  BY <1>2 DEF Quiet, RowsAreOfPosts, Key
<1> QED BY <1>2, <1>3, <1>4, <1>5

\* The intent is shown as before; a page that waits for nobody may also begin
\* or end a preflight.
LEMMA IntentRests ==
  ASSUME Inductive, Quiet, page'.up => page.up,
         \/ page'.phase = page.phase
         \/ page'.phase \in {"idle", "preflight"} /\ page.phase \in {"idle", "preflight"},
         page'.phase = "uncertain" => page'.retained = page.retained
  PROVE  OneIntent'
<1>1. OneIntent
  BY DEF Inductive
<1>2. \A i : Over(i)' <=> Over(i)
  BY QuietKeepsKnowledge
<1>3. ASSUME NEW i PROVE IsCurrent(i) => IsCurrent(i)'
  BY <1>2 DEF Quiet, IsCurrent, Mine, Key
<1>4. ASSUME NEW i, page'.retained = page.retained PROVE IsRetained(i) => IsRetained(i)'
  BY <1>2, <1>4 DEF Quiet, IsRetained, Mine, Key
<1>5. \A i : (Mine(i)' <=> Mine(i)) /\ DOMAIN posts' = DOMAIN posts
  BY DEF Quiet, Mine
<1> QED BY <1>1, <1>2, <1>3, <1>4, <1>5 DEF OneIntent

\* No operation is added.
LEMMA OperationsRest ==
  ASSUME Inductive, Quiet, page'.up => page.up, page'.phase = page.phase,
         Operations' \subseteq Operations,
         page'.search = "pending" => page.search = "pending" \/ page.phase # "preflight"
  PROVE  OneOperation'
<1>1. OneOperation
  BY DEF Inductive
<1>2. \A i : (Mine(i)' <=> Mine(i)) /\ Key(i)' = Key(i) /\ DOMAIN posts' = DOMAIN posts
  BY DEF Quiet, Mine, Key
<1> QED BY <1>1, <1>2 DEF OneOperation, Pending

\* The page has none, and gets one.
LEMMA OperationStarts ==
  ASSUME Inductive, page.up, page.phase # "preflight", NEW w,
         Operations' \subseteq Operations \cup {w}, page'.phase = "preflight",
         IsPreflight(w) => ~Pending' /\ \A i \in DOMAIN posts' : Mine(i)' => Key(i)' < w.of.key
  PROVE  OneOperation'
<1>1. Operations = {}
  BY DEF Inductive, OneOperation
<1>2. \A x \in Operations' : x = w
  BY <1>1
<1> QED BY <1>2 DEF OneOperation, IsPreflight

\* Its operation ends.
LEMMA OperationEnds ==
  ASSUME Inductive, NEW w \in work, Mounted(w.visit), w.kind \in {"preflight", "refresh"},
         Operations' \subseteq Operations \ {w}
  PROVE  /\ OneOperation'
         /\ page.up /\ page.phase = "preflight"
<1>1. page.up /\ w \in Operations
  BY DEF Operations, Mounted
<1>2. page.phase = "preflight" /\ \A x \in Operations : x = w
  BY <1>1 DEF Inductive, OneOperation
<1>3. Operations' = {}
  BY <1>2
<1> QED BY <1>1, <1>2, <1>3 DEF OneOperation

\* What a quiet step has to keep; closures of other kinds may be added.
LEMMA PageSteps ==
  ASSUME Inductive, Quiet, page' \in Pages, ~page'.up => page' = Closed,
         asked' \in [searches : Nat, keys : Nat], asked'.keys = asked.keys,
         live' \in SUBSET Destinations,
         \A w \in work' : w \in work \/ (Work(w) /\ w.visit = visit /\ ~IsPreflight(w)),
         page'.review # None => page'.token[2] = page'.review.title /\ ~Pending',
         page'.phase # "idle" => page'.review = None,
         page'.phase \in {"submitting", "uncertain"} => ~Pending',
         OneOperation', OneIntent'
  PROVE  Inductive'
<1>1. TypeOK'
  BY DEF Inductive, TypeOK, Quiet, Work
<1>2. KeysAreOfOneIntent'
  BY DEF Inductive, KeysAreOfOneIntent, Quiet, Key, IsPreflight
<1>3. VisitsWerePaid'
  BY DEF Inductive, TypeOK, VisitsWerePaid, Quiet, IsPreflight
<1>4. ReviewedIsSent'
  BY DEF Inductive, IntentsAreReviewed, ReviewedIsSent, Quiet
<1>5. IntentsAreReviewed'
  BY <1>4 DEF Inductive, IntentsAreReviewed, IsPreflight
<1>6. ReviewsFollowTheSearch'
  BY DEF ReviewsFollowTheSearch
<1>7. LookupsAreTrue' /\ RowsAreOfPosts'
  BY QuietKeepsKnowledge DEF Inductive
<1> QED BY <1>1, <1>2, <1>3, <1>5, <1>6, <1>7 DEF Inductive

\* Such steps that change no more than what is offered.
LEMMA ListSteps ==
  ASSUME Inductive, Quiet, page' \in Pages, UNCHANGED asked, live' \in SUBSET Destinations,
         work' \subseteq work, page' = page \/ page.up,
         \A f \in {"up", "search", "token", "review", "phase", "retained"} : page'[f] = page[f]
  PROVE  Inductive'
<1>1. /\ page'.up = page.up /\ page'.search = page.search /\ page'.token = page.token
      /\ page'.review = page.review /\ page'.phase = page.phase
      /\ page'.retained = page.retained
  OBVIOUS
<1>2. Operations' \subseteq Operations
  BY DEF Operations, Quiet
<1>3. OneOperation' /\ OneIntent'
  BY <1>1, <1>2, OperationsRest, IntentRests
<1>4. asked' \in [searches : Nat, keys : Nat]
  BY DEF Inductive, TypeOK
<1>5. /\ page'.review # None => page'.token[2] = page'.review.title /\ ~Pending'
      /\ page'.phase # "idle" => page'.review = None
      /\ page'.phase \in {"submitting", "uncertain"} => ~Pending'
  BY <1>1 DEF Inductive, IntentsAreReviewed, ReviewsFollowTheSearch, Pending
<1>6. ~page'.up => page' = Closed
  BY <1>1 DEF Inductive
<1> QED BY <1>3, <1>4, <1>5, <1>6, PageSteps

\* A new page is closed, and so is the one before the first.
LEMMA Initially == Init => Inductive
<1> SUFFICES ASSUME Init PROVE Inductive
  OBVIOUS
<1>1. /\ posts = <<>> /\ rows = <<>> /\ work = {} /\ page = Closed /\ live = Destinations
      /\ visit = 0 /\ asked = [searches |-> 0, keys |-> 0]
  BY DEF Init
<1>2. ~Closed.up /\ Closed.review = None /\ Closed.phase = "idle"
  BY DEF Closed
<1>3. TypeOK
  BY <1>1, ClosedIsAPage DEF TypeOK
<1>4. KeysAreOfOneIntent /\ VisitsWerePaid /\ LookupsAreTrue /\ RowsAreOfPosts
  BY <1>1 DEF KeysAreOfOneIntent, VisitsWerePaid, LookupsAreTrue, RowsAreOfPosts
<1>5. IntentsAreReviewed /\ ReviewsFollowTheSearch
  BY <1>1, <1>2 DEF IntentsAreReviewed, ReviewedIsSent, ReviewsFollowTheSearch
<1>6. OneOperation /\ OneIntent
  BY <1>1, <1>2 DEF OneOperation, OneIntent
<1> QED BY <1>1, <1>3, <1>4, <1>5, <1>6 DEF Inductive

\* A visit has nothing to do with what earlier ones have left behind.
LEMMA OpenKeeps ==
  ASSUME Inductive, Open
  PROVE  Inductive'
<1>1. /\ visit \in Nat /\ visit' = visit + 1
      /\ UNCHANGED <<asked, work, posts, rows, live, heard>>
  BY DEF Inductive, TypeOK, Open, server
<1>2. PICK p : p = page'
  OBVIOUS
<1>3. /\ p \in Pages /\ p.up /\ p.review = None /\ p.phase = "idle"
  BY <1>2, ClosedIsAPage DEF Open, Pages, Closed
<1>4. TypeOK'
  BY <1>1, <1>2, <1>3 DEF Inductive, TypeOK, Work
<1>5. KeysAreOfOneIntent'
  BY <1>1 DEF Inductive, KeysAreOfOneIntent, Key, IsPreflight
<1>6. VisitsWerePaid'
  <2>1. \A i \in DOMAIN posts : posts[i].attempt.visit \in Nat
    BY PostsAreTyped DEF Inductive
  <2> QED BY <1>1, <2>1 DEF Inductive, TypeOK, VisitsWerePaid, IsPreflight, Work
<1>7. IntentsAreReviewed' /\ ReviewsFollowTheSearch'
  <2>1. ReviewedIsSent'
    BY <1>1 DEF Inductive, IntentsAreReviewed, ReviewedIsSent
  <2> QED BY <1>1, <1>2, <1>3, <2>1
          DEF Inductive, IntentsAreReviewed, IsPreflight, ReviewsFollowTheSearch
<1>8. \A i \in DOMAIN posts : posts[i].attempt.visit # visit'
  <2>1. \A i \in DOMAIN posts : posts[i].attempt.visit \in Nat
    BY PostsAreTyped DEF Inductive
  <2> QED BY <1>1, <2>1 DEF Inductive, VisitsWerePaid
<1>9. OneOperation'
  <2>1. \A w \in work : w.visit # visit'
    BY <1>1 DEF Inductive, TypeOK, VisitsWerePaid, Work
  <2>2. Operations' = {}
    BY <1>1, <2>1 DEF Operations
  <2> QED BY <2>2 DEF OneOperation
<1>10. OneIntent'
  BY <1>1, <1>2, <1>3, <1>8 DEF OneIntent, Mine
<1>11. LookupsAreTrue' /\ RowsAreOfPosts'
  <2>1. \A k : (Settled(k)' <=> Settled(k)) /\ (Overlapping(k)' <=> Overlapping(k)) /\ Row(k)' = Row(k)
    BY <1>1 DEF Settled, Overlapping, Row, Key
  <2>2. LookupsAreTrue'
    BY <1>1, <2>1 DEF Inductive, LookupsAreTrue, Key
  <2> QED BY <1>1, <2>1, <2>2 DEF Inductive, RowsAreOfPosts, Key
<1> QED BY <1>2, <1>3, <1>4, <1>5, <1>6, <1>7, <1>9, <1>10, <1>11 DEF Inductive

\* A page that is left takes nothing with it.
LEMMA LeaveKeeps ==
  ASSUME Inductive, Leave
  PROVE  Inductive'
<1>1. page' = Closed /\ Quiet /\ UNCHANGED <<asked, work, live>>
  BY DEF Leave, Quiet, server
<1>2. PICK p : p = page'
  OBVIOUS
<1>3. p \in Pages /\ ~p.up /\ p.review = None /\ p.phase = "idle"
  BY <1>1, <1>2, ClosedIsAPage DEF Closed
<1>4. OneOperation' /\ OneIntent'
  BY <1>2, <1>3 DEF OneOperation, OneIntent
<1>5. asked' \in [searches : Nat, keys : Nat] /\ asked'.keys = asked.keys /\ live' \in SUBSET Destinations
  BY <1>1 DEF Inductive, TypeOK
<1> QED BY <1>1, <1>2, <1>3, <1>4, <1>5, PageSteps

\* Loading the item.
LEMMA ContextLoadsKeeps ==
  ASSUME Inductive, ContextLoads
  PROVE  Inductive'
<1>1. page \in Pages /\ live \in SUBSET Destinations
  BY DEF Inductive, TypeOK
<1>2. page' \in Pages /\ page.up
      /\ \A f \in {"up", "search", "token", "review", "phase", "retained"} : page'[f] = page[f]
  BY <1>1 DEF ContextLoads, Pages
<1>3. Quiet /\ UNCHANGED <<asked, work, live>>
  BY DEF ContextLoads, Quiet, server
<1> QED BY <1>1, <1>2, <1>3, ListSteps

\* A search begins where nothing is reviewed or under way.
LEMMA StartSearchKeeps ==
  ASSUME Inductive, StartSearch
  PROVE  Inductive'
<1>1. page \in Pages /\ live \in SUBSET Destinations /\ asked \in [searches : Nat, keys : Nat]
      /\ visit \in Nat
  BY DEF Inductive, TypeOK
<1>2. page.up /\ page.review = None /\ page.phase = "idle"
  BY DEF StartSearch, SearchIsOffered, MaySearch
<1>3. asked' \in [searches : Nat, keys : Nat] /\ asked'.keys = asked.keys
  BY <1>1 DEF StartSearch
<1>4. asked'.searches \in Nat
  BY <1>3
<1>5. page' \in Pages
  BY <1>1, <1>4 DEF StartSearch, Pages, NoList, Lists, Answers
<1>6. page'.up /\ page'.review = None /\ page'.phase = "idle"
  BY <1>1, <1>2 DEF StartSearch, Pages
<1>7. Quiet /\ UNCHANGED live
  BY DEF StartSearch, Quiet, server
<1>8. PICK w : w = [kind |-> "search", visit |-> visit, of |-> asked'.searches]
  OBVIOUS
<1>9. work' = work \cup {w} /\ w.kind = "search" /\ w.visit = visit /\ w.of = asked'.searches
  BY <1>8 DEF StartSearch
<1>10. Work(w) /\ ~IsPreflight(w)
  BY <1>1, <1>4, <1>9 DEF Work, IsPreflight
<1>11. OneOperation'
  <2>1. Operations' \subseteq Operations
    BY <1>7, <1>9 DEF Operations, Quiet
  <2> QED BY <1>2, <1>6, <1>7, <2>1, OperationsRest
<1>12. OneIntent'
  BY <1>2, <1>6, <1>7, IntentRests
<1> QED BY <1>1, <1>3, <1>5, <1>6, <1>7, <1>9, <1>10, <1>11, <1>12, PageSteps

\* The answer of a search, of this page or another.
LEMMA SearchEndsKeeps ==
  ASSUME Inductive, NEW w \in work, SearchEnds(w)
  PROVE  Inductive'
<1>1. page \in Pages /\ live \in SUBSET Destinations /\ asked \in [searches : Nat, keys : Nat]
      /\ w.of \in Nat
  BY DEF Inductive, TypeOK, Work, SearchEnds
<1>2. Quiet /\ UNCHANGED <<asked, live>> /\ work' \subseteq work
  BY DEF SearchEnds, Quiet
<1>3. \/ page' = page
      \/ /\ page.up
         /\ \E tokens \in SUBSET Tokens, kind \in {"empty", "complete", "failed"} :
                page' = [page EXCEPT !.searching = FALSE, !.search = kind, !.results = tokens,
                                     !.outcome = None]
  <2>1. \A found \in {Titles, {}} : {Token(w.of, title) : title \in found} \in SUBSET Tokens
    BY <1>1 DEF Tokens, Token
  <2>2. page.results \in SUBSET Tokens
    BY <1>1 DEF Pages
  <2>3. CASE ~(Mounted(w.visit) /\ page.active = w.of)
    BY <2>3 DEF SearchEnds
  <2>4. CASE Mounted(w.visit) /\ page.active = w.of
    BY <2>1, <2>2, <2>4 DEF SearchEnds, Mounted
  <2> QED BY <2>3, <2>4
<1>4. CASE page' = page
  BY <1>1, <1>2, <1>4, ListSteps
<1>5. ASSUME page.up, NEW tokens \in SUBSET Tokens, NEW kind \in {"empty", "complete", "failed"},
             page' = [page EXCEPT !.searching = FALSE, !.search = kind, !.results = tokens,
                                  !.outcome = None]
      PROVE  Inductive'
  <2>1. page' \in Pages
    BY <1>1, <1>5 DEF Pages, Answers
  <2>2. /\ page'.up = page.up /\ page'.search # "pending" /\ page'.token = page.token
        /\ page'.review = page.review /\ page'.phase = page.phase
        /\ page'.retained = page.retained
    BY <1>1, <1>5 DEF Pages
  <2>3. Operations' \subseteq Operations
    BY <1>2 DEF Operations, Quiet
  <2>4. OneOperation' /\ OneIntent'
    BY <1>2, <2>2, <2>3, OperationsRest, IntentRests
  <2>5. ~Pending' /\ (page'.review # None => page'.token[2] = page'.review.title)
        /\ (page'.phase # "idle" => page'.review = None)
    BY <2>2 DEF Inductive, Pending, IntentsAreReviewed, ReviewsFollowTheSearch
  <2> QED BY <1>1, <1>2, <1>5, <2>1, <2>2, <2>4, <2>5, PageSteps
<1> QED BY <1>3, <1>4, <1>5

\* Another release is chosen; no review is open.
LEMMA SelectReleaseKeeps ==
  ASSUME Inductive, NEW token \in page.results, SelectRelease(token)
  PROVE  Inductive'
<1>1. page \in Pages /\ live \in SUBSET Destinations /\ asked \in [searches : Nat, keys : Nat]
  BY DEF Inductive, TypeOK
<1>2. page.review = None /\ page.phase = "idle" /\ ~Pending
  BY DEF SelectRelease, MaySelect, SelectionLocked, WorkflowLocked
<1>3. page.up
  BY DEF Inductive, Closed
<1>4. token \in Tokens
  BY <1>1 DEF Pages
<1>5. page' \in Pages
  BY <1>1, <1>4 DEF SelectRelease, Pages, Lists
<1>6. /\ page'.up /\ page'.review = None /\ page'.phase = "idle" /\ page'.search = page.search
  BY <1>1, <1>2, <1>3 DEF SelectRelease, Pages
<1>7. Quiet /\ UNCHANGED <<asked, live>>
  BY DEF SelectRelease, Quiet, server
<1>8. PICK w : w = [kind |-> "load", visit |-> visit, of |-> token]
  OBVIOUS
<1>9. work' = work \cup {w} /\ w.kind = "load" /\ w.visit = visit
  BY <1>8 DEF SelectRelease
<1>10. Work(w) /\ ~IsPreflight(w)
  BY <1>9 DEF Inductive, TypeOK, Work, IsPreflight
<1>11. Operations' \subseteq Operations
  BY <1>7, <1>9 DEF Operations, Quiet
<1>12. OneOperation' /\ OneIntent'
  BY <1>2, <1>3, <1>6, <1>7, <1>11, OperationsRest, IntentRests
<1> QED BY <1>1, <1>6, <1>5, <1>7, <1>9, <1>10, <1>12, PageSteps

\* The destinations arrive, or do not.
LEMMA LoadEndsKeeps ==
  ASSUME Inductive, NEW w \in work, LoadEnds(w)
  PROVE  Inductive'
<1>1. page \in Pages /\ live \in SUBSET Destinations
  BY DEF Inductive, TypeOK
<1>2. Quiet /\ UNCHANGED <<asked, live>> /\ work' \subseteq work
  BY DEF LoadEnds, Quiet, server
<1>3. CASE page' = page
  BY <1>1, <1>2, <1>3, ListSteps
<1>4. ASSUME page.up, NEW state \in {"ready", "failed"}, page' = Listed(page, state)
      PROVE  Inductive'
  BY <1>1, <1>2, <1>4, ListSteps, ListedIsAPage
<1> QED BY <1>3, <1>4 DEF LoadEnds, Mounted

LEMMA FocusReloadsKeeps ==
  ASSUME Inductive, FocusReloads
  PROVE  Inductive'
<1>1. page \in Pages /\ live \in SUBSET Destinations
  BY DEF Inductive, TypeOK
<1>2. Quiet /\ UNCHANGED <<asked, live, work>> /\ page.up
  BY DEF FocusReloads, Quiet, server
<1>3. PICK state \in {"ready", "failed"}, ready \in BOOLEAN :
          page' = [Listed(page, state) EXCEPT !.ready = ready]
  BY DEF FocusReloads
<1>4. PICK p : p = Listed(page, state)
  OBVIOUS
<1>5. p \in Pages /\ \A f \in {"up", "search", "token", "review", "phase", "retained"} : p[f] = page[f]
  BY <1>1, <1>4, ListedIsAPage
<1>6. page' \in Pages /\ \A f \in {"up", "search", "token", "review", "phase", "retained"} :
                             page'[f] = p[f]
  BY <1>3, <1>4, <1>5 DEF Pages
<1> QED BY <1>1, <1>2, <1>5, <1>6, ListSteps

LEMMA SelectDestinationKeeps ==
  ASSUME Inductive, NEW key \in page.list.keys \cup {None}, SelectDestination(key)
  PROVE  Inductive'
<1>1. page \in Pages /\ live \in SUBSET Destinations
  BY DEF Inductive, TypeOK
<1>2. Quiet /\ UNCHANGED <<asked, live, work>>
  BY DEF SelectDestination, Quiet, server
<1>3. page.up
  BY DEF SelectDestination, Inductive, Closed, NoList
<1>4. key \in Destinations \cup {None}
  <2>1. page.list \in Lists
    BY <1>1 DEF Pages
  <2> QED BY <2>1 DEF Lists
<1>5. page' \in Pages /\ \A f \in {"up", "search", "token", "review", "phase", "retained"} :
                             page'[f] = page[f]
  BY <1>1, <1>4 DEF SelectDestination, Pages
<1> QED BY <1>1, <1>2, <1>3, <1>5, ListSteps

\* The cache of tokens and the download client change by themselves.
LEMMA WorldKeeps ==
  ASSUME Inductive,
         \/ \E no \in 1 .. MaxSearches : DropTokens(no)
         \/ \E key \in Destinations : DestinationsChange(key)
  PROVE  Inductive'
<1>1. page \in Pages /\ live \in SUBSET Destinations
  BY DEF Inductive, TypeOK
<1>2. Quiet /\ UNCHANGED <<asked, work, page>>
  BY DEF DropTokens, DestinationsChange, Quiet
<1>3. live' \in SUBSET Destinations
  BY <1>1 DEF DropTokens, DestinationsChange
<1> QED BY <1>1, <1>2, <1>3, ListSteps

\* A list is loaded again under the admission of the page.
LEMMA RefreshDestinationsKeeps ==
  ASSUME Inductive, RefreshDestinations
  PROVE  Inductive'
<1>1. page \in Pages /\ live \in SUBSET Destinations /\ asked \in [searches : Nat, keys : Nat]
  BY DEF Inductive, TypeOK
<1>2. page.up /\ page.review = None /\ page.phase = "idle"
  BY DEF RefreshDestinations, RefreshIsOffered, WorkflowLocked
<1>3. page' \in Pages
  BY <1>1 DEF RefreshDestinations, Pages, Lists
<1>4. page'.up /\ page'.review = None /\ page'.phase = "preflight"
  BY <1>1, <1>2 DEF RefreshDestinations, Pages
<1>5. Quiet /\ UNCHANGED <<asked, live>>
  BY DEF RefreshDestinations, Quiet, server
<1>6. PICK w : w = [kind |-> "refresh", visit |-> visit, of |-> None]
  OBVIOUS
<1>7. work' = work \cup {w} /\ w.kind = "refresh" /\ w.visit = visit
  BY <1>6 DEF RefreshDestinations
<1>8. Work(w) /\ ~IsPreflight(w)
  BY <1>7 DEF Inductive, TypeOK, Work, IsPreflight
<1>9. Operations' \subseteq Operations \cup {w}
  BY <1>5, <1>7 DEF Operations, Quiet
<1>10. OneOperation'
  BY <1>2, <1>4, <1>8, <1>9, OperationStarts
<1>11. OneIntent'
  BY <1>2, <1>4, <1>5, IntentRests
<1> QED BY <1>1, <1>3, <1>4, <1>5, <1>7, <1>8, <1>10, <1>11, PageSteps

\* And the admission is given back.
LEMMA RefreshEndsKeeps ==
  ASSUME Inductive, NEW w \in work, RefreshEnds(w)
  PROVE  Inductive'
<1>1. page \in Pages /\ live \in SUBSET Destinations /\ asked \in [searches : Nat, keys : Nat]
  BY DEF Inductive, TypeOK
<1>2. Quiet /\ UNCHANGED <<asked, live>> /\ work' = work \ {w} /\ w.kind = "refresh"
  BY DEF RefreshEnds, Quiet, server
<1>3. CASE page' = page
  BY <1>1, <1>2, <1>3, ListSteps
<1>4. ASSUME Mounted(w.visit), NEW state \in {"ready", "failed"}, page' = Refreshed(state)
      PROVE  Inductive'
  <2>1. Operations' \subseteq Operations \ {w}
    BY <1>2 DEF Operations, Quiet
  <2>2. OneOperation' /\ page.up /\ page.phase = "preflight"
    BY <1>2, <1>4, <2>1, OperationEnds
  <2>3. PICK p : p = Listed(page, state)
    OBVIOUS
  <2>4. p \in Pages /\ p.up = page.up /\ p.review = page.review
    BY <1>1, <2>3, ListedIsAPage
  <2>5. page' = [p EXCEPT !.busy = FALSE, !.phase = "idle"]
    BY <1>4, <2>3 DEF Refreshed
  <2>6. page' \in Pages /\ page'.up = p.up /\ page'.review = p.review /\ page'.phase = "idle"
    BY <2>4, <2>5 DEF Pages
  <2>7. page'.review = None
    BY <2>2, <2>4, <2>6 DEF Inductive, ReviewsFollowTheSearch
  <2>8. OneIntent'
    BY <1>2, <2>2, <2>6, IntentRests
  <2> QED BY <1>1, <1>2, <2>2, <2>4, <2>6, <2>7, <2>8, PageSteps
<1> QED BY <1>3, <1>4 DEF RefreshEnds

\* A review names what is chosen.
LEMMA OpenReviewKeeps ==
  ASSUME Inductive, OpenReview
  PROVE  Inductive'
<1>1. page \in Pages /\ live \in SUBSET Destinations /\ asked \in [searches : Nat, keys : Nat]
  BY DEF Inductive, TypeOK
<1>2. page.phase = "idle" /\ ~Pending /\ page.token # None /\ page.destination # None
  BY DEF OpenReview, ReviewIsOffered, SelectionLocked, WorkflowLocked
<1>3. page.up
  BY DEF OpenReview, ReviewIsOffered, Inductive, Closed
<1>4. page.token \in Tokens /\ page.destination \in Destinations
  BY <1>1, <1>2 DEF Pages
<1>5. PICK r : r = [title |-> page.token[2], destination |-> page.destination]
  OBVIOUS
<1>6. r \in [title : Titles, destination : Destinations] /\ r.title = page.token[2]
  BY <1>4, <1>5 DEF Tokens
<1>7. page' = [page EXCEPT !.review = r]
  BY <1>5 DEF OpenReview
<1>8. page' \in Pages
  BY <1>1, <1>6, <1>7 DEF Pages
<1>9. /\ page'.up /\ page'.review = r /\ page'.phase = "idle" /\ page'.search = page.search
      /\ page'.token = page.token
  BY <1>1, <1>2, <1>3, <1>7 DEF Pages
<1>10. Quiet /\ UNCHANGED <<asked, live, work>>
  BY DEF OpenReview, Quiet, server
<1>11. Operations' \subseteq Operations
  BY <1>10 DEF Operations, Quiet
<1>12. OneOperation' /\ OneIntent'
  BY <1>2, <1>3, <1>9, <1>10, <1>11, OperationsRest, IntentRests
<1>13. ~Pending'
  BY <1>2, <1>9 DEF Pending
<1> QED BY <1>1, <1>6, <1>8, <1>9, <1>10, <1>12, <1>13, PageSteps

LEMMA CancelReviewKeeps ==
  ASSUME Inductive, CancelReview
  PROVE  Inductive'
<1>1. page \in Pages /\ live \in SUBSET Destinations /\ asked \in [searches : Nat, keys : Nat]
  BY DEF Inductive, TypeOK
<1>2. page.phase = "idle" /\ page.review # None /\ page.up
  BY DEF CancelReview, Inductive, Closed
<1>3. page' \in Pages
  BY <1>1 DEF CancelReview, Pages
<1>4. page'.up /\ page'.review = None /\ page'.phase = "idle" /\ page'.search = page.search
  BY <1>1, <1>2 DEF CancelReview, Pages
<1>5. Quiet /\ UNCHANGED <<asked, live, work>>
  BY DEF CancelReview, Quiet, server
<1>6. Operations' \subseteq Operations
  BY <1>5 DEF Operations, Quiet
<1>7. OneOperation' /\ OneIntent'
  BY <1>2, <1>4, <1>5, <1>6, OperationsRest, IntentRests
<1> QED BY <1>1, <1>3, <1>4, <1>5, <1>7, PageSteps

(***************************************************************************)
(* From the review to the submission.                                      *)
(***************************************************************************)

\* What is confirmed is what was reviewed, under a key nobody has.
LEMMA ConfirmReviewKeeps ==
  ASSUME Inductive, ConfirmReview
  PROVE  Inductive'
<1>1. page \in Pages /\ asked \in [searches : Nat, keys : Nat] /\ asked.keys \in Nat /\ visit \in Nat
  BY DEF Inductive, TypeOK
<1>2. page.review # None /\ page.phase = "idle" /\ page.token # None /\ page.up
  BY DEF ConfirmReview, Inductive, Closed
<1>3. ~Pending /\ page.token[2] = page.review.title
  BY <1>2 DEF Inductive, ReviewsFollowTheSearch, IntentsAreReviewed
<1>4. Attempt \in Attempts /\ Attempt.key = asked.keys + 1 /\ Attempt.visit = visit
      /\ Attempt.token[2] = Attempt.title
  <2>1. page.token \in Tokens /\ page.review \in [title : Titles, destination : Destinations]
    BY <1>1, <1>2 DEF Pages
  <2> QED BY <1>1, <1>3, <2>1 DEF Attempt, Attempts
<1>5. PICK w : w = [kind |-> "preflight", visit |-> visit, of |-> Attempt]
  OBVIOUS
<1>6. work' = work \cup {w} /\ w.kind = "preflight" /\ w.visit = visit /\ w.of = Attempt
  BY <1>5 DEF ConfirmReview
<1>7. Quiet /\ UNCHANGED live
  BY DEF ConfirmReview, Quiet, server
<1>8. asked' \in [searches : Nat, keys : Nat] /\ asked'.keys = asked.keys + 1
  BY <1>1 DEF ConfirmReview
<1>9. page' \in Pages /\ page'.up /\ page'.review = None /\ page'.phase = "preflight"
      /\ page'.search = page.search
  BY <1>1, <1>2 DEF ConfirmReview, Pages
<1>10. \A i \in DOMAIN posts : Key(i) \in Nat /\ Key(i) < asked.keys + 1
  BY <1>1, PostsAreTyped DEF Inductive, KeysAreOfOneIntent
<1>11. \A x \in work : IsPreflight(x) => x.of.key \in Nat /\ x.of.key < asked.keys + 1
  <2>1. ASSUME NEW x \in work, IsPreflight(x) PROVE x.of.key \in Nat /\ x.of.key <= asked.keys
    BY <2>1 DEF Inductive, TypeOK, Work, IsPreflight, Attempts, KeysAreOfOneIntent
  <2> QED BY <1>1, <2>1
<1>12. TypeOK'
  BY <1>4, <1>6, <1>7, <1>8, <1>9 DEF Inductive, TypeOK, Quiet, Work
<1>13. KeysAreOfOneIntent'
  <2>1. \A i \in DOMAIN posts' : Key(i)' = Key(i)
    BY <1>7 DEF Quiet, Key
  <2>2. \A i \in DOMAIN posts' : Key(i)' <= asked'.keys
    BY <1>1, <1>7, <1>8, <1>10, <2>1 DEF Quiet
  <2>3. \A i, j \in DOMAIN posts' : Key(i)' = Key(j)' => posts'[i].attempt = posts'[j].attempt
    BY <1>7, <2>1 DEF Quiet, Inductive, KeysAreOfOneIntent
  <2>4. ASSUME NEW x \in work', IsPreflight(x)
        PROVE  /\ x.of.key <= asked'.keys
               /\ \A i \in DOMAIN posts' : Key(i)' # x.of.key
               /\ \A y \in work' : IsPreflight(y) /\ y.of.key = x.of.key => y = x
    <3>1. CASE x = w
      BY <1>1, <1>4, <1>6, <1>7, <1>8, <1>10, <1>11, <2>1, <3>1 DEF Quiet
    <3>2. CASE x \in work
      <4>1. x.of.key \in Nat /\ x.of.key < asked.keys + 1
        BY <1>11, <2>4, <3>2
      <4>2. /\ \A i \in DOMAIN posts' : Key(i)' # x.of.key
            /\ \A y \in work : IsPreflight(y) /\ y.of.key = x.of.key => y = x
        BY <1>7, <2>1, <2>4, <3>2 DEF Quiet, Inductive, KeysAreOfOneIntent
      <4> QED BY <1>1, <1>4, <1>6, <1>8, <4>1, <4>2
    <3> QED BY <1>6, <2>4, <3>1, <3>2
  <2> QED BY <2>2, <2>3, <2>4 DEF KeysAreOfOneIntent, IsPreflight
<1>14. VisitsWerePaid'
  BY <1>1, <1>4, <1>6, <1>7 DEF Quiet, Inductive, VisitsWerePaid, IsPreflight
<1>15. IntentsAreReviewed'
  <2>1. ReviewedIsSent'
    BY <1>7 DEF Quiet, Inductive, IntentsAreReviewed, ReviewedIsSent
  <2> QED BY <1>4, <1>6, <1>9, <2>1 DEF Inductive, IntentsAreReviewed, IsPreflight
<1>16. ReviewsFollowTheSearch'
  BY <1>9 DEF ReviewsFollowTheSearch
<1>17. OneOperation'
  <2>1. Operations' \subseteq Operations \cup {w}
    BY <1>6, <1>7 DEF Operations, Quiet
  <2>2. ~Pending' /\ \A i \in DOMAIN posts' : Mine(i)' => Key(i)' < w.of.key
    BY <1>3, <1>4, <1>6, <1>7, <1>9, <1>10 DEF Pending, Quiet, Key
  <2> QED BY <1>2, <1>9, <2>1, <2>2, OperationStarts
<1>18. OneIntent'
  BY <1>2, <1>7, <1>9, IntentRests
<1>19. LookupsAreTrue' /\ RowsAreOfPosts'
  BY <1>7, QuietKeepsKnowledge DEF Inductive
<1> QED BY <1>9, <1>12, <1>13, <1>14, <1>15, <1>16, <1>17, <1>18, <1>19 DEF Inductive

\* Another submission leaves what is known of other keys, and the server has not
\* looked at it yet.
LEMMA PostKeepsKnowledge ==
  ASSUME Inductive, NEW attempt \in Attempts, Post(attempt), UNCHANGED <<rows, heard>>
  PROVE  /\ \A i \in DOMAIN posts : Key(i)' = Key(i)
         /\ \A k : k # attempt.key /\ Settled(k) => Settled(k)'
         /\ \A i \in DOMAIN posts : Over(i) /\ Key(i) # attempt.key => Over(i)'
         /\ LookupsAreTrue'
<1>1. posts \in Seq(Submissions)
  BY DEF Inductive, TypeOK
<1>2. PICK n : n = Len(posts')
  OBVIOUS
<1>3. /\ DOMAIN posts' = DOMAIN posts \cup {n}
      /\ \A j \in DOMAIN posts : j \in Nat /\ j < n /\ posts'[j] = posts[j]
      /\ posts'[n].attempt = attempt
      /\ posts'[n].at = "sent"
      /\ posts'[n].alone => \A i \in DOMAIN posts : Key(i) = attempt.key => posts[i].at = "answered"
      /\ n \in Nat
  BY <1>1, <1>2, PostAddsOne
<1>4. (\A i \in DOMAIN posts : Key(i)' = Key(i)) /\ Key(n)' = attempt.key
  BY <1>3 DEF Key
<1>5. \A k : Row(k)' = Row(k) /\ (Overlapping(k) => Overlapping(k)')
  BY <1>3, <1>4 DEF Row, Overlapping
<1>6. ASSUME NEW k, k # attempt.key, Settled(k) PROVE Settled(k)'
  <2>1. CASE k \in heard
    BY <2>1 DEF Settled
  <2>2. CASE Overlapping(k)
    BY <1>5, <2>2 DEF Settled
  <2>3. CASE Row(k) = {} /\ \A i \in DOMAIN posts : Key(i) = k => posts[i].at = "answered"
    BY <1>3, <1>4, <1>5, <1>6, <2>3 DEF Settled
  <2> QED BY <1>6, <2>1, <2>2, <2>3 DEF Settled
<1>7. ASSUME NEW i \in DOMAIN posts, i \notin Unresolved PROVE i \notin Unresolved'
  <2>1. CASE posts[i].client = "told"
    BY <1>3, <2>1 DEF Unresolved
  <2>2. ASSUME NEW j \in DOMAIN posts, j > i, posts[j].attempt.key = posts[i].attempt.key,
               posts[j].client = "told"
        PROVE  i \notin Unresolved'
    BY <1>3, <2>2 DEF Unresolved
  <2> QED BY <1>7, <2>1, <2>2 DEF Unresolved
<1>8. \A i \in DOMAIN posts : Over(i) /\ Key(i) # attempt.key => Over(i)'
  BY <1>3, <1>4, <1>6, <1>7 DEF Over
<1>9. LookupsAreTrue'
  <2>1. ASSUME NEW i \in DOMAIN posts', NEW j \in DOMAIN posts', i < j, Key(i)' = Key(j)',
               posts'[j].alone
        PROVE  posts'[i].at = "answered"
    <3>1. i \in DOMAIN posts
      BY <1>3, <2>1
    <3>2. CASE j = n
      BY <1>3, <1>4, <2>1, <3>1, <3>2
    <3>3. CASE j \in DOMAIN posts
      BY <1>3, <1>4, <2>1, <3>1, <3>3 DEF Inductive, LookupsAreTrue
    <3> QED BY <1>3, <3>2, <3>3
  <2>2. ASSUME NEW i \in DOMAIN posts', posts'[i].at = "admitted"
        PROVE  Row(Key(i))' = {} \/ Overlapping(Key(i))'
    BY <1>3, <1>4, <1>5, <2>2 DEF Inductive, LookupsAreTrue
  <2>3. ASSUME NEW i \in DOMAIN posts', posts'[i].at = "answered", posts'[i].answer \in Definitive
        PROVE  \/ \E j \in DOMAIN posts' : j > i /\ Key(j)' = Key(i)'
               \/ Row(Key(i))' = {} \/ Overlapping(Key(i))'
    BY <1>3, <1>4, <1>5, <2>3 DEF Inductive, LookupsAreTrue
  <2> QED BY <2>1, <2>2, <2>3 DEF LookupsAreTrue
<1> QED BY <1>4, <1>6, <1>8, <1>9

\* What a page has to be sure of when it sends: that the submission is of its
\* newest intent, and that nothing else of its visit is still open.
LEMMA SendKeeps ==
  ASSUME Inductive, NEW attempt \in Attempts, Post(attempt),
         UNCHANGED <<visit, asked, rows, live, heard>>,
         attempt.visit = visit, attempt.token[2] = attempt.title, attempt.key <= asked.keys,
         page' \in Pages, page'.up, page'.phase = "submitting", page'.review = None, ~Pending',
         work' \subseteq work, Operations' = {},
         \A x \in work' : IsPreflight(x) => x.of.key # attempt.key,
         \A j \in DOMAIN posts : Key(j) = attempt.key => posts[j].attempt = attempt,
         \A j \in DOMAIN posts : Mine(j) =>
             /\ posts[j].client # "waits"
             /\ Key(j) = attempt.key \/ (Key(j) < attempt.key /\ Over(j))
  PROVE  Inductive'
<1>1. posts \in Seq(Submissions) /\ attempt.key \in Nat
  BY DEF Inductive, TypeOK, Attempts
<1>2. PICK n : n = Len(posts')
  OBVIOUS
<1>3. /\ posts' \in Seq(Submissions)
      /\ DOMAIN posts' = DOMAIN posts \cup {n}
      /\ \A j \in DOMAIN posts : j \in Nat /\ j < n /\ posts'[j] = posts[j]
      /\ posts'[n].attempt = attempt
      /\ posts'[n].client = "waits"
      /\ n \in Nat
  BY <1>1, <1>2, PostAddsOne
<1>4. /\ \A i \in DOMAIN posts : Key(i)' = Key(i)
      /\ \A k : k # attempt.key /\ Settled(k) => Settled(k)'
      /\ \A i \in DOMAIN posts : Over(i) /\ Key(i) # attempt.key => Over(i)'
      /\ LookupsAreTrue'
  BY PostKeepsKnowledge
<1>5. \A i \in DOMAIN posts : Key(i) \in Nat
  BY PostsAreTyped DEF Inductive
<1>6. Key(n)' = attempt.key
  BY <1>3 DEF Key
<1>7. TypeOK'
  BY <1>3 DEF Inductive, TypeOK, Work
<1>8. KeysAreOfOneIntent'
  <2>1. \A i \in DOMAIN posts' : Key(i)' <= asked'.keys
    BY <1>3, <1>4, <1>6 DEF Inductive, KeysAreOfOneIntent
  <2>2. \A i, j \in DOMAIN posts' : Key(i)' = Key(j)' => posts'[i].attempt = posts'[j].attempt
    BY <1>3, <1>4, <1>6 DEF Inductive, KeysAreOfOneIntent
  <2>3. \A w \in work' : IsPreflight(w) =>
            /\ w.of.key <= asked'.keys
            /\ \A i \in DOMAIN posts' : Key(i)' # w.of.key
            /\ \A x \in work' : IsPreflight(x) /\ x.of.key = w.of.key => x = w
    BY <1>3, <1>4, <1>6 DEF Inductive, KeysAreOfOneIntent
  <2> QED BY <2>1, <2>2, <2>3 DEF KeysAreOfOneIntent, IsPreflight
<1>9. VisitsWerePaid'
  <2>1. \A i \in DOMAIN posts' : posts'[i].attempt.visit <= visit'
    BY <1>3 DEF Inductive, TypeOK, VisitsWerePaid
  <2> QED BY <2>1 DEF Inductive, VisitsWerePaid, IsPreflight
<1>10. IntentsAreReviewed'
  <2>1. ReviewedIsSent'
    BY <1>3 DEF Inductive, IntentsAreReviewed, ReviewedIsSent
  <2> QED BY <2>1 DEF Inductive, IntentsAreReviewed, IsPreflight
<1>11. ReviewsFollowTheSearch' /\ OneOperation'
  BY DEF ReviewsFollowTheSearch, OneOperation
<1>12. OneIntent'
  <2>1. Mine(n)'
    BY <1>3 DEF Mine
  <2>2. ASSUME NEW j \in DOMAIN posts', Mine(j)'
        PROVE  /\ j <= n
               /\ posts'[j].client = "waits" => j = n
               /\ Key(j)' = Key(n)' \/ (Key(j)' < Key(n)' /\ Over(j)')
    <3>1. CASE j = n
      BY <1>3, <3>1
    <3>2. CASE j \in DOMAIN posts
      <4>1. Mine(j) /\ posts'[j] = posts[j] /\ Key(j)' = Key(j) /\ j < n /\ j \in Nat
        BY <1>3, <1>4, <2>2, <3>2 DEF Mine
      <4>2. posts[j].client # "waits" /\ (Key(j) = attempt.key \/ (Key(j) < attempt.key /\ Over(j)))
        BY <3>2, <4>1
      <4>3. Key(j) < attempt.key /\ Over(j) => Over(j)'
        BY <1>1, <1>4, <1>5, <3>2
      <4> QED BY <1>3, <1>6, <4>1, <4>2, <4>3
    <3> QED BY <1>3, <3>1, <3>2
  <2>3. IsCurrent(n)'
    BY <1>3, <2>2 DEF IsCurrent
  <2> QED BY <1>3, <2>1, <2>3 DEF OneIntent
<1>13. RowsAreOfPosts'
  <2>1. \A r \in DOMAIN rows' : \E i \in DOMAIN posts' : posts'[i].attempt = rows'[r]
    BY <1>3 DEF Inductive, RowsAreOfPosts
  <2>2. ASSUME NEW i \in DOMAIN posts', NEW j \in DOMAIN posts',
               posts'[i].attempt.visit = posts'[j].attempt.visit, Key(i)' < Key(j)'
        PROVE  Settled(Key(i))'
    <3>1. CASE i \in DOMAIN posts /\ j \in DOMAIN posts
      <4>1. Settled(Key(i)) /\ Key(i) < Key(j)
        BY <1>3, <1>4, <2>2, <3>1 DEF Inductive, RowsAreOfPosts
      <4>2. Key(i) # attempt.key
        <5> SUFFICES ASSUME Key(i) = attempt.key PROVE FALSE
          OBVIOUS
        <5>1. posts[i].attempt = attempt
          BY <3>1
        <5>2. Mine(j)
          BY <1>3, <2>2, <3>1, <5>1 DEF Mine
        <5>3. Key(j) = attempt.key \/ Key(j) < attempt.key
          BY <3>1, <5>2
        <5> QED BY <1>1, <1>5, <3>1, <4>1, <5>3
      <4> QED BY <1>4, <3>1, <4>1, <4>2
    <3>2. CASE i \in DOMAIN posts /\ j = n
      <4>1. Mine(i) /\ Key(i) < attempt.key
        BY <1>3, <1>4, <1>6, <2>2, <3>2 DEF Mine
      <4>2. Over(i) /\ Key(i) # attempt.key
        BY <1>1, <1>5, <3>2, <4>1
      <4> QED BY <1>4, <3>2, <4>2 DEF Over
    <3>3. CASE i = n /\ j \in DOMAIN posts
      <4>1. Mine(j) /\ attempt.key < Key(j)
        BY <1>3, <1>4, <1>6, <2>2, <3>3 DEF Mine
      <4> QED BY <1>1, <1>5, <3>3, <4>1
    <3>4. CASE i = n /\ j = n
      BY <1>1, <1>6, <2>2, <3>4
    <3> QED BY <1>3, <3>1, <3>2, <3>3, <3>4
  <2> QED BY <2>1, <2>2 DEF RowsAreOfPosts
<1> QED BY <1>4, <1>7, <1>8, <1>9, <1>10, <1>11, <1>12, <1>13 DEF Inductive

\* The preflight of the page that is open passes.
LEMMA PreflightPassesKeeps ==
  ASSUME Inductive, NEW w \in work, w.kind = "preflight", work' = work \ {w},
         NEW state, PreflightPasses(w, state), UNCHANGED <<visit, asked, rows, live, heard>>
  PROVE  Inductive'
<1>1. page \in Pages /\ live \in SUBSET Destinations /\ w.of \in Attempts /\ w.of.visit = visit
      /\ Mounted(w.visit) /\ Post(w.of)
  BY DEF Inductive, TypeOK, Work, PreflightPasses, VisitsWerePaid, IsPreflight, Mounted
<1>2. w.of.token[2] = w.of.title /\ w.of.key <= asked.keys
  BY DEF Inductive, IntentsAreReviewed, KeysAreOfOneIntent, IsPreflight
<1>3. page.up /\ w \in Operations
  BY <1>1 DEF Operations, Mounted
<1>4. /\ page.phase = "preflight" /\ ~Pending
      /\ \A x \in Operations : x = w
      /\ \A i \in DOMAIN posts : Mine(i) => Key(i) < w.of.key
  BY <1>3 DEF Inductive, OneOperation, IsPreflight
<1>5. \A i \in DOMAIN posts : Mine(i) => Over(i)
  BY <1>3, <1>4 DEF Inductive, OneIntent
<1>6. PICK p : p = Listed(page, state)
  OBVIOUS
<1>7. p \in Pages /\ p.up = page.up /\ p.review = page.review /\ p.search = page.search
  BY <1>1, <1>6, ListedIsAPage
<1>8. page' = [p EXCEPT !.phase = "submitting"]
  BY <1>6 DEF PreflightPasses
<1>9. page' \in Pages /\ page'.phase = "submitting" /\ page'.up = p.up /\ page'.review = p.review
      /\ page'.search = p.search
  BY <1>7, <1>8 DEF Pages
<1>10. page'.review = None /\ ~Pending'
  BY <1>4, <1>7, <1>9 DEF Inductive, ReviewsFollowTheSearch, Pending
<1>11. Operations' = {}
  <2>1. Operations' \subseteq Operations \ {w}
    BY DEF Operations
  <2> QED BY <1>4, <2>1
<1>12. \A x \in work' : IsPreflight(x) => x.of.key # w.of.key
  BY DEF Inductive, KeysAreOfOneIntent, IsPreflight
<1>13. \A j \in DOMAIN posts : Key(j) # w.of.key
  BY DEF Inductive, KeysAreOfOneIntent, IsPreflight
<1>14. \A j \in DOMAIN posts : Mine(j) =>
           posts[j].client # "waits" /\ Key(j) < w.of.key /\ Over(j)
  BY <1>4, <1>5 DEF Over
<1> QED BY <1>1, <1>2, <1>3, <1>7, <1>9, <1>10, <1>11, <1>12, <1>13, <1>14, SendKeeps

\* A page that was refused is free, and has no review.
LEMMA RefusalIsAPage ==
  ASSUME NEW p \in Pages, NEW code
  PROVE  /\ Refusal(p, code) \in Pages
         /\ Refusal(p, code).up = p.up
         /\ Refusal(p, code).review = None
         /\ Refusal(p, code).phase = "idle"
<1> DEFINE over == [p EXCEPT !.busy = FALSE, !.phase = "idle", !.retained = None,
                             !.review = None]
           bare == [over EXCEPT !.results = {}, !.token = None, !.destination = None,
                                !.list = NoList]
<1>1. over \in Pages
  BY DEF Pages
<1>2. over.up = p.up /\ over.review = None /\ over.phase = "idle"
  BY DEF Pages
<1> HIDE DEF over
<1>3. NoList \in Lists
  BY DEF NoList, Lists
<1>4. bare \in Pages
  BY <1>1, <1>3 DEF Pages
<1>5. bare.up = over.up /\ bare.review = over.review /\ bare.phase = over.phase
  BY <1>1 DEF Pages
<1> HIDE DEF bare
<1>6. Refusal(p, code) = IF code # "selection_expired" THEN over ELSE bare
  BY DEF Refusal, over, bare
<1> QED BY <1>1, <1>2, <1>4, <1>5, <1>6

\* A page whose destination is gone loads the list again.
LEMMA RefusedIsAPage ==
  ASSUME NEW p \in Pages
  PROVE  LET q == Refused(p, "download_destination_unavailable")
         IN  q \in Pages /\ q.up = p.up /\ q.review = None /\ q.phase = "preflight"
<1> DEFINE kept == [p EXCEPT !.retained = None, !.review = None, !.destination = None,
                             !.phase = "preflight"]
           loads == [p.list EXCEPT !.state = "loading"]
<1>1. kept \in Pages
  BY DEF Pages
<1>2. kept.up = p.up /\ kept.review = None /\ kept.phase = "preflight" /\ kept.list = p.list
  BY DEF Pages
<1> HIDE DEF kept
<1>3. p.list \in Lists
  BY DEF Pages
<1>4. loads \in Lists
  BY <1>3 DEF Lists
<1> HIDE DEF loads
<1>5. [kept EXCEPT !.list = loads] \in Pages
  BY <1>1, <1>4 DEF Pages
<1>6. /\ [kept EXCEPT !.list = loads].up = kept.up
      /\ [kept EXCEPT !.list = loads].review = kept.review
      /\ [kept EXCEPT !.list = loads].phase = kept.phase
  BY <1>1 DEF Pages
<1>7. Refused(p, "download_destination_unavailable") = [kept EXCEPT !.list = loads]
  BY DEF Refused, kept, loads, Pages
<1> QED BY <1>2, <1>5, <1>6, <1>7

\* It is refused: nothing was sent.
LEMMA PreflightRefusesKeeps ==
  ASSUME Inductive, NEW w \in work, w.kind = "preflight", work' = work \ {w},
         NEW state, PreflightRefuses(w, state), UNCHANGED <<visit, asked, rows, live, heard>>
  PROVE  Inductive'
<1>1. page \in Pages /\ live \in SUBSET Destinations /\ asked \in [searches : Nat, keys : Nat]
      /\ Mounted(w.visit)
  BY DEF Inductive, TypeOK, PreflightRefuses
<1>2. Quiet
  BY DEF PreflightRefuses, Quiet
<1>3. OneOperation' /\ page.up /\ page.phase = "preflight"
  <2>1. Operations' \subseteq Operations \ {w}
    BY DEF Operations
  <2> QED BY <1>1, <2>1, OperationEnds
<1>4. PICK p : p = Listed(page, state)
  OBVIOUS
<1>5. p \in Pages /\ p.up = page.up
  BY <1>1, <1>4, ListedIsAPage
<1>6. PICK q : q = Refusal(p, "download_destination_unavailable")
  OBVIOUS
<1>7. q \in Pages /\ q.up = p.up /\ q.review = None /\ q.phase = "idle"
  BY <1>5, <1>6, RefusalIsAPage
<1>8. page' = [q EXCEPT !.destination = None]
  BY <1>4, <1>6 DEF PreflightRefuses
<1>9. page' \in Pages /\ page'.up /\ page'.review = None /\ page'.phase = "idle"
  <2>1. page' \in Pages
    BY <1>7, <1>8, SMTT(20) DEF Pages
  <2>2. page'.up = q.up /\ page'.review = q.review /\ page'.phase = q.phase
    BY <1>7, <1>8, SMTT(20) DEF Pages
  <2> QED BY <1>3, <1>5, <1>7, <2>1, <2>2
<1>10. OneIntent'
  BY <1>2, <1>3, <1>9, IntentRests
<1> QED BY <1>1, <1>2, <1>3, <1>9, <1>10, PageSteps

LEMMA PreflightEndsKeeps ==
  ASSUME Inductive, NEW w \in work, PreflightEnds(w)
  PROVE  Inductive'
<1>1. /\ w.kind = "preflight" /\ work' = work \ {w}
      /\ UNCHANGED <<visit, asked, rows, live, heard>>
  BY DEF PreflightEnds, server
<1>2. ASSUME NEW state, PreflightPasses(w, state) PROVE Inductive'
  BY <1>1, <1>2, PreflightPassesKeeps
<1>3. ASSUME NEW state, PreflightRefuses(w, state) PROVE Inductive'
  BY <1>1, <1>3, PreflightRefusesKeeps
<1>4. CASE PreflightIsAbandoned(w)
  <2>1. page \in Pages /\ live \in SUBSET Destinations
    BY DEF Inductive, TypeOK
  <2>2. Quiet /\ UNCHANGED <<asked, live, page>> /\ work' \subseteq work
    BY <1>1, <1>4 DEF PreflightIsAbandoned, Quiet
  <2> QED BY <2>1, <2>2, ListSteps
<1> QED BY <1>2, <1>3, <1>4 DEF PreflightEnds

\* A retry is of the intent that is uncertain.
LEMMA RetryUncertainKeeps ==
  ASSUME Inductive, RetryUncertain
  PROVE  Inductive'
<1>1. page \in Pages
  BY DEF Inductive, TypeOK
<1>2. page.phase = "uncertain" /\ Post(page.retained)
      /\ UNCHANGED <<visit, asked, work, rows, live, heard>>
  BY DEF RetryUncertain, Retried, server
<1>3. page.up
  BY <1>2 DEF Inductive, Closed
<1>4. PICK m \in DOMAIN posts : Mine(m) /\ IsRetained(m)
  BY <1>2, <1>3 DEF Inductive, OneIntent
<1>5. PICK attempt : attempt = page.retained
  OBVIOUS
<1>6. attempt = posts[m].attempt /\ attempt \in Attempts /\ attempt.visit = visit /\ attempt.key = Key(m)
  BY <1>4, <1>5, PostsAreTyped DEF Inductive, IsRetained, Mine, Key
<1>7. attempt.token[2] = attempt.title /\ attempt.key <= asked.keys
  BY <1>4, <1>6 DEF Inductive, IntentsAreReviewed, ReviewedIsSent, KeysAreOfOneIntent
<1>8. page' \in Pages /\ page'.up = page.up /\ page'.phase = "submitting"
      /\ page'.review = page.review /\ page'.search = page.search
  BY <1>1 DEF RetryUncertain, Pages
<1>9. page'.review = None /\ ~Pending'
  BY <1>2, <1>8 DEF Inductive, ReviewsFollowTheSearch, Pending
<1>10. Operations' = {}
  <2>1. Operations' = Operations
    BY <1>2 DEF Operations
  <2> QED BY <1>2, <1>3, <2>1 DEF Inductive, OneOperation
<1>11. \A x \in work' : IsPreflight(x) => x.of.key # attempt.key
  BY <1>2, <1>4, <1>6 DEF Inductive, KeysAreOfOneIntent
<1>12. \A j \in DOMAIN posts : Key(j) = attempt.key => posts[j].attempt = attempt
  BY <1>4, <1>6 DEF Inductive, KeysAreOfOneIntent
<1>13. \A j \in DOMAIN posts : Mine(j) =>
           /\ posts[j].client # "waits"
           /\ Key(j) = attempt.key \/ (Key(j) < attempt.key /\ Over(j))
  BY <1>4, <1>6 DEF IsRetained
<1> QED BY <1>2, <1>3, <1>5, <1>6, <1>7, <1>8, <1>9, <1>10, <1>11, <1>12, <1>13, SendKeeps

(***************************************************************************)
(* Answers, and answers that are lost.                                     *)
(***************************************************************************)

\* Whoever learns of a submission knows of the others what was known.
LEMMA LearningKeepsKnowledge ==
  ASSUME Inductive, NEW i \in DOMAIN posts, NEW c \in {"told", "lost"},
         posts[i].client = "waits", posts' = [posts EXCEPT ![i].client = c],
         UNCHANGED <<visit, rows>>, heard \subseteq heard'
  PROVE  /\ \A k : Settled(k) => Settled(k)'
         /\ \A j \in DOMAIN posts : j # i /\ Over(j) => Over(j)'
         /\ LookupsAreTrue'
         /\ RowsAreOfPosts'
<1>1. /\ posts \in Seq(Submissions)
      /\ DOMAIN posts' = DOMAIN posts
      /\ \A j \in DOMAIN posts : j # i => posts'[j] = posts[j]
      /\ posts'[i].attempt = posts[i].attempt
      /\ posts'[i].at = posts[i].at
      /\ posts'[i].answer = posts[i].answer
      /\ posts'[i].alone = posts[i].alone
      /\ posts'[i].client = c
  BY LearningChangesOne DEF Inductive, TypeOK
<1>2. \A j \in DOMAIN posts : /\ posts'[j].attempt = posts[j].attempt /\ posts'[j].at = posts[j].at
                              /\ posts'[j].answer = posts[j].answer
                              /\ posts'[j].alone = posts[j].alone
  BY <1>1
<1>3. \A j \in DOMAIN posts : Key(j)' = Key(j)
  BY <1>2 DEF Key
<1>4. \A k : Row(k)' = Row(k) /\ (Overlapping(k)' <=> Overlapping(k))
  BY <1>1, <1>2, <1>3 DEF Row, Overlapping
<1>5. \A k : Settled(k) => Settled(k)'
  BY <1>1, <1>2, <1>3, <1>4 DEF Settled
<1>6. ASSUME NEW j \in DOMAIN posts, j \notin Unresolved PROVE j \notin Unresolved'
  <2>1. CASE posts[j].client = "told"
    BY <1>1, <2>1 DEF Unresolved
  <2>2. ASSUME NEW l \in DOMAIN posts, l > j, posts[l].attempt.key = posts[j].attempt.key,
               posts[l].client = "told"
        PROVE  j \notin Unresolved'
    <3>1. posts'[l].client = "told"
      BY <1>1, <2>2
    <3> QED BY <1>1, <1>2, <2>2, <3>1 DEF Unresolved
  <2> QED BY <1>6, <2>1, <2>2 DEF Unresolved
<1>7. \A j \in DOMAIN posts : j # i /\ Over(j) => Over(j)'
  BY <1>1, <1>3, <1>5, <1>6 DEF Over
<1>8. LookupsAreTrue'
  BY <1>1, <1>2, <1>3, <1>4 DEF Inductive, LookupsAreTrue
<1>9. RowsAreOfPosts'
  BY <1>1, <1>2, <1>3, <1>5 DEF Inductive, RowsAreOfPosts
<1> QED BY <1>5, <1>7, <1>8, <1>9

\* What such a step has to keep.
LEMMA LearnSteps ==
  ASSUME Inductive, NEW i \in DOMAIN posts, NEW c \in {"told", "lost"},
         posts[i].client = "waits", posts' = [posts EXCEPT ![i].client = c],
         UNCHANGED <<visit, asked, rows, live>>, heard \subseteq heard',
         page' \in Pages, ~page'.up => page' = Closed,
         \A w \in work' : w \in work \/ (Work(w) /\ w.visit = visit /\ ~IsPreflight(w)),
         page'.review # None => page'.token[2] = page'.review.title /\ ~Pending',
         page'.phase # "idle" => page'.review = None,
         page'.phase \in {"submitting", "uncertain"} => ~Pending',
         OneOperation', OneIntent'
  PROVE  Inductive'
<1>1. /\ posts' \in Seq(Submissions)
      /\ DOMAIN posts' = DOMAIN posts
      /\ \A j \in DOMAIN posts : j # i => posts'[j] = posts[j]
      /\ posts'[i].attempt = posts[i].attempt
  BY LearningChangesOne DEF Inductive, TypeOK
<1>2. \A j \in DOMAIN posts : posts'[j].attempt = posts[j].attempt
  BY <1>1
<1>3. \A j \in DOMAIN posts : Key(j)' = Key(j)
  BY <1>2 DEF Key
<1>4. TypeOK'
  BY <1>1 DEF Inductive, TypeOK, Work
<1>5. KeysAreOfOneIntent'
  BY <1>1, <1>2, <1>3 DEF Inductive, KeysAreOfOneIntent, IsPreflight
<1>6. VisitsWerePaid'
  BY <1>1, <1>2 DEF Inductive, TypeOK, VisitsWerePaid, IsPreflight
<1>7. ReviewedIsSent'
  BY <1>1, <1>2 DEF Inductive, IntentsAreReviewed, ReviewedIsSent
<1>8. IntentsAreReviewed'
  BY <1>7 DEF Inductive, IntentsAreReviewed, IsPreflight
<1>9. ReviewsFollowTheSearch'
  BY DEF ReviewsFollowTheSearch
<1>10. LookupsAreTrue' /\ RowsAreOfPosts'
  BY LearningKeepsKnowledge
<1> QED BY <1>4, <1>5, <1>6, <1>8, <1>9, <1>10 DEF Inductive

\* The page that is open waits for one submission, of its newest intent.
LEMMA WaitingIsCurrent ==
  ASSUME Inductive, NEW i \in DOMAIN posts, Mounted(posts[i].attempt.visit),
         posts[i].client = "waits"
  PROVE  /\ page.up /\ Mine(i) /\ page.phase = "submitting" /\ IsCurrent(i)
         /\ page.review = None /\ ~Pending /\ Operations = {}
<1>1. page.up /\ Mine(i)
  BY DEF Mounted, Mine
<1>2. page.phase \in {"idle", "preflight", "submitting", "uncertain"}
  BY DEF Inductive, TypeOK, Pages
<1>3. page.phase # "idle" /\ page.phase # "preflight"
  BY <1>1 DEF Inductive, OneIntent, Over
<1>4. page.phase # "uncertain"
  BY <1>1 DEF Inductive, OneIntent, IsRetained
<1>5. page.phase = "submitting"
  BY <1>2, <1>3, <1>4
<1>6. PICK j \in DOMAIN posts : Mine(j) /\ IsCurrent(j)
  BY <1>1, <1>5 DEF Inductive, OneIntent
<1>7. IsCurrent(i)
  BY <1>1, <1>6 DEF IsCurrent
<1>8. page.review = None /\ ~Pending
  BY <1>5 DEF Inductive, ReviewsFollowTheSearch
<1>9. Operations = {}
  BY <1>1, <1>5 DEF Inductive, OneOperation
<1> QED BY <1>1, <1>5, <1>7, <1>8, <1>9

\* A page that has been left takes no notice.
LEMMA UnnoticedKeeps ==
  ASSUME Inductive, NEW i \in DOMAIN posts, NEW c \in {"told", "lost"},
         posts[i].client = "waits", posts' = [posts EXCEPT ![i].client = c],
         ~Mounted(posts[i].attempt.visit),
         UNCHANGED <<visit, asked, rows, live, heard, page, work>>
  PROVE  Inductive'
<1>1. /\ DOMAIN posts' = DOMAIN posts
      /\ \A j \in DOMAIN posts : j # i => posts'[j] = posts[j]
      /\ posts'[i].attempt = posts[i].attempt
  BY LearningChangesOne DEF Inductive, TypeOK
<1>2. \A j \in DOMAIN posts : Key(j)' = Key(j) /\ (Mine(j)' <=> Mine(j))
  BY <1>1 DEF Key, Mine
<1>3. page.up => ~Mine(i)
  BY DEF Mounted, Mine
<1>4. OneOperation'
  <2>1. Operations' = Operations
    BY DEF Operations
  <2> QED BY <1>1, <1>2, <2>1 DEF Inductive, OneOperation, Pending
<1>5. OneIntent'
  <2> SUFFICES ASSUME page.up PROVE OneIntent'
    BY DEF OneIntent
  <2>1. \A j \in DOMAIN posts : Mine(j) => j # i /\ posts'[j] = posts[j] /\ (Over(j) => Over(j)')
    BY <1>1, <1>3, LearningKeepsKnowledge
  <2>2. ASSUME NEW j \in DOMAIN posts, Mine(j) PROVE IsCurrent(j) => IsCurrent(j)'
    BY <1>1, <1>2, <2>1, <2>2 DEF IsCurrent
  <2>3. ASSUME NEW j \in DOMAIN posts, Mine(j) PROVE IsRetained(j) => IsRetained(j)'
    BY <1>1, <1>2, <2>1, <2>3 DEF IsRetained
  <2> QED BY <1>1, <1>2, <2>1, <2>2, <2>3 DEF Inductive, OneIntent
<1>6. page' \in Pages
  BY DEF Inductive, TypeOK
<1>7. /\ ~page'.up => page' = Closed
      /\ page'.review # None => page'.token[2] = page'.review.title /\ ~Pending'
      /\ page'.phase # "idle" => page'.review = None
      /\ page'.phase \in {"submitting", "uncertain"} => ~Pending'
  BY DEF Inductive, IntentsAreReviewed, ReviewsFollowTheSearch, Pending
<1> QED BY <1>4, <1>5, <1>6, <1>7, LearnSteps

\* The page does not learn what became of its submission, and keeps the intent.
LEMMA AnswerIsLostKeeps ==
  ASSUME Inductive, NEW i \in DOMAIN posts, AnswerIsLost(i)
  PROVE  Inductive'
<1>1. /\ posts[i].client = "waits" /\ posts' = [posts EXCEPT ![i].client = "lost"]
      /\ UNCHANGED <<visit, asked, rows, live, heard, work>>
  BY DEF AnswerIsLost, server
<1>2. CASE ~Mounted(posts[i].attempt.visit)
  BY <1>1, <1>2, UnnoticedKeeps DEF AnswerIsLost
<1>3. CASE Mounted(posts[i].attempt.visit)
  <2>1. /\ page.up /\ Mine(i) /\ page.phase = "submitting" /\ IsCurrent(i)
        /\ page.review = None /\ ~Pending /\ Operations = {}
    BY <1>1, <1>3, WaitingIsCurrent
  <2>2. page \in Pages /\ posts[i].attempt \in Attempts
    BY PostsAreTyped DEF Inductive, TypeOK
  <2>3. page' = Uncertain(page, posts[i].attempt)
    BY <1>3 DEF AnswerIsLost
  <2>4. page' \in Pages /\ page'.up = page.up /\ page'.phase = "uncertain"
        /\ page'.review = page.review /\ page'.search = page.search
        /\ page'.retained = posts[i].attempt
    BY <2>2, <2>3 DEF Uncertain, Pages
  <2>5. /\ DOMAIN posts' = DOMAIN posts
        /\ \A j \in DOMAIN posts : j # i => posts'[j] = posts[j]
        /\ posts'[i].attempt = posts[i].attempt
        /\ posts'[i].client = "lost"
    BY <1>1, LearningChangesOne DEF Inductive, TypeOK
  <2>6. \A j \in DOMAIN posts : Key(j)' = Key(j) /\ (Mine(j)' <=> Mine(j))
    BY <1>1, <2>5 DEF Key, Mine
  <2>7. ASSUME NEW j \in DOMAIN posts, Mine(j)
        PROVE  /\ posts'[j].client # "waits"
               /\ Key(j) = Key(i) \/ (Key(j) < Key(i) /\ Over(j)')
    <3>1. /\ posts[j].client = "waits" => j = i
          /\ Key(j) = Key(i) \/ (Key(j) < Key(i) /\ Over(j))
      BY <2>1, <2>7 DEF IsCurrent
    <3>2. Over(j) => Over(j)'
      BY <1>1, LearningKeepsKnowledge DEF Over
    <3> QED BY <2>5, <3>1, <3>2
  <2>8. IsRetained(i)'
    BY <2>4, <2>5, <2>6, <2>7 DEF IsRetained
  <2>9. OneIntent'
    BY <2>1, <2>4, <2>5, <2>6, <2>8 DEF OneIntent
  <2>10. OneOperation'
    <3>1. Operations' = Operations
      BY <1>1 DEF Operations
    <3> QED BY <2>1, <3>1 DEF OneOperation
  <2>11. ~Pending'
    BY <2>1, <2>4 DEF Pending
  <2> QED BY <1>1, <2>1, <2>4, <2>9, <2>10, <2>11, LearnSteps
<1> QED BY <1>2, <1>3

\* When the page learns of its submission nothing more can come of its key.
LEMMA ToldIsSettled ==
  ASSUME Inductive, NEW i \in DOMAIN posts, Mine(i), IsCurrent(i), posts[i].at = "answered",
         IsShown(posts[i].answer) => Key(i) \in heard'
  PROVE  Settled(Key(i)) \/ Key(i) \in heard'
<1> SUFFICES ASSUME posts[i].answer \in Definitive, ~Overlapping(Key(i)) PROVE Settled(Key(i))
  BY DEF IsShown, Settled
<1>1. \A j \in DOMAIN posts : j \in Nat
  BY PostsAreTyped DEF Inductive
<1>2. \A j \in DOMAIN posts : Key(j) = Key(i) => j <= i
  BY DEF Inductive, KeysAreOfOneIntent, IsCurrent, Mine
<1>3. Row(Key(i)) = {}
  BY <1>1, <1>2 DEF Inductive, LookupsAreTrue
<1>4. posts[i].alone
  BY DEF Overlapping
<1>5. ASSUME NEW j \in DOMAIN posts, Key(j) = Key(i) PROVE posts[j].at = "answered"
  <2>1. CASE j = i
    BY <2>1
  <2>2. CASE j < i
    BY <1>4, <1>5, <2>2 DEF Inductive, LookupsAreTrue
  <2> QED BY <1>1, <1>2, <1>5, <2>1, <2>2
<1> QED BY <1>3, <1>5 DEF Settled

\* The page takes an answer: the intent is over, whatever became of it.
LEMMA AnsweredKeeps ==
  ASSUME Inductive, NEW i \in DOMAIN posts, Answered(i)
  PROVE  Inductive'
<1>1. /\ posts[i].client = "waits" /\ posts' = [posts EXCEPT ![i].client = "told"]
      /\ posts[i].at = "answered"
      /\ UNCHANGED <<visit, asked, rows, live>>
  BY DEF Answered, server
<1>2. CASE ~Mounted(posts[i].attempt.visit)
  BY <1>1, <1>2, UnnoticedKeeps DEF Answered
<1>3. CASE Mounted(posts[i].attempt.visit)
  <2>1. /\ page.up /\ Mine(i) /\ page.phase = "submitting" /\ IsCurrent(i)
        /\ page.review = None /\ ~Pending /\ Operations = {}
    BY <1>1, <1>3, WaitingIsCurrent
  <2>2. page \in Pages /\ posts[i] \in Submissions
    BY PostsAreTyped DEF Inductive, TypeOK
  <2>3. PICK answer : answer = posts[i].answer
    OBVIOUS
  <2>4. answer \in Answers
    BY <2>2, <2>3 DEF Submissions
  <2>5. page' = Reaction(page, answer)
    BY <1>3, <2>3 DEF Answered
  <2>6. page' \in Pages /\ page'.up /\ page'.review = None
        /\ page'.phase = IF answer = "download_destination_unavailable" THEN "preflight" ELSE "idle"
    <3>1. CASE answer \notin Definitive
      <4>1. answer # "download_destination_unavailable"
        BY <3>1 DEF Definitive
      <4>2. page' = Succeeded(page, answer)
        BY <2>5, <3>1 DEF Reaction
      <4>3. page' \in Pages
        BY <2>2, <2>4, <4>2 DEF Succeeded, Pages, NoList, Lists
      <4>4. page'.up = page.up /\ page'.review = None /\ page'.phase = "idle"
        BY <2>2, <4>2 DEF Succeeded, Pages
      <4> QED BY <2>1, <4>1, <4>3, <4>4
    <3>2. CASE answer = "download_destination_unavailable"
      <4>1. page' = Refused(page, answer)
        BY <2>5, <3>2 DEF Reaction, Definitive
      <4> QED BY <2>1, <2>2, <3>2, <4>1, RefusedIsAPage
    <3>3. CASE answer \in Definitive /\ answer # "download_destination_unavailable"
      <4>1. page' = Refusal(page, answer)
        BY <2>5, <3>3 DEF Reaction, Refused
      <4> QED BY <2>1, <2>2, <3>3, <4>1, RefusalIsAPage
    <3> QED BY <3>1, <3>2, <3>3
  <2>7. heard \subseteq heard' /\ (IsShown(answer) => Key(i) \in heard')
    BY <1>3, <2>3 DEF Answered, Key
  <2>8. /\ DOMAIN posts' = DOMAIN posts
        /\ \A j \in DOMAIN posts : j # i => posts'[j] = posts[j]
        /\ posts'[i].attempt = posts[i].attempt
        /\ posts'[i].client = "told"
    BY <1>1, LearningChangesOne DEF Inductive, TypeOK
  <2>9. \A j \in DOMAIN posts : Key(j)' = Key(j) /\ (Mine(j)' <=> Mine(j))
    BY <1>1, <2>8 DEF Key, Mine
  <2>10. Settled(Key(i))'
    <3>1. PICK k : k = Key(i)
      OBVIOUS
    <3>2. Settled(k) \/ k \in heard'
      BY <1>1, <2>1, <2>3, <2>7, <3>1, ToldIsSettled
    <3>3. Settled(k)'
      BY <1>1, <2>7, <3>2, LearningKeepsKnowledge DEF Settled
    <3> QED BY <2>9, <3>1, <3>3
  <2>11. ASSUME NEW j \in DOMAIN posts, Mine(j) PROVE Over(j)'
    <3>1. /\ j <= i
          /\ posts[j].client = "waits" => j = i
          /\ Key(j) = Key(i) \/ (Key(j) < Key(i) /\ Over(j))
      BY <2>1, <2>11 DEF IsCurrent
    <3>2. Over(j) => Over(j)'
      BY <1>1, <2>7, LearningKeepsKnowledge DEF Over
    <3>3. CASE Key(j) = Key(i)
      <4>1. posts'[j].client # "waits"
        BY <2>8, <3>1
      <4>2. j \notin Unresolved'
        <5>1. CASE j = i
          BY <2>8, <5>1 DEF Unresolved
        <5>2. CASE j # i
          <6>1. i \in Nat /\ j \in Nat
            BY PostsAreTyped DEF Inductive
          <6>2. i > j
            BY <3>1, <5>2, <6>1
          <6> QED BY <2>8, <3>3, <5>2, <6>2 DEF Unresolved, Key
        <5> QED BY <5>1, <5>2
      <4>3. Settled(Key(j))'
        BY <2>9, <2>10, <3>3
      <4> QED BY <4>1, <4>2, <4>3 DEF Over
    <3> QED BY <3>1, <3>2, <3>3
  <2>12. OneIntent'
    BY <2>6, <2>8, <2>9, <2>11 DEF OneIntent
  <2>13. PICK w : w = [kind |-> "refresh", visit |-> visit, of |-> None]
    OBVIOUS
  <2>14. /\ work' = IF answer = "download_destination_unavailable" THEN work \cup {w} ELSE work
         /\ w.kind = "refresh" /\ w.visit = visit
    BY <1>3, <2>3, <2>13 DEF Answered
  <2>15. Work(w) /\ ~IsPreflight(w)
    BY <2>14 DEF Inductive, TypeOK, Work, IsPreflight
  <2>16. OneOperation'
    <3>1. CASE answer = "download_destination_unavailable"
      <4>1. Operations' \subseteq Operations \cup {w}
        BY <1>1, <2>14, <3>1 DEF Operations
      <4> QED BY <2>1, <2>6, <2>15, <3>1, <4>1, OperationStarts
    <3>2. CASE answer # "download_destination_unavailable"
      <4>1. Operations' = Operations
        BY <1>1, <2>14, <3>2 DEF Operations
      <4> QED BY <2>1, <4>1 DEF OneOperation
    <3> QED BY <3>1, <3>2
  <2> QED BY <1>1, <2>6, <2>7, <2>12, <2>14, <2>15, <2>16, LearnSteps
<1> QED BY <1>2, <1>3

(***************************************************************************)
(* The server.                                                             *)
(***************************************************************************)

\* What a step of the server has to keep: no page sees it.
LEMMA ServerSteps ==
  ASSUME Inductive, posts' \in Seq(Submissions), DOMAIN posts' = DOMAIN posts,
         \A j \in DOMAIN posts : /\ posts'[j].attempt = posts[j].attempt
                                 /\ posts'[j].client = posts[j].client,
         UNCHANGED <<visit, page, asked, work, live, heard>>,
         rows' \in Seq(Attempts),
         \A r \in DOMAIN rows' : \E j \in DOMAIN posts : posts[j].attempt = rows'[r],
         \A k : Settled(k) => Settled(k)',
         LookupsAreTrue'
  PROVE  Inductive'
<1>1. \A j \in DOMAIN posts : Key(j)' = Key(j) /\ (Mine(j)' <=> Mine(j))
  BY DEF Key, Mine
<1>2. Unresolved' = Unresolved
  BY DEF Unresolved
<1>3. \A j \in DOMAIN posts : Over(j) => Over(j)'
  BY <1>1, <1>2 DEF Over
<1>4. TypeOK'
  BY DEF Inductive, TypeOK, Work
<1>5. KeysAreOfOneIntent'
  BY <1>1 DEF Inductive, KeysAreOfOneIntent, IsPreflight
<1>6. VisitsWerePaid'
  BY DEF Inductive, VisitsWerePaid, IsPreflight
<1>7. ReviewedIsSent'
  BY DEF Inductive, IntentsAreReviewed, ReviewedIsSent
<1>8. IntentsAreReviewed'
  BY <1>7 DEF Inductive, IntentsAreReviewed, IsPreflight
<1>9. ReviewsFollowTheSearch'
  BY DEF Inductive, ReviewsFollowTheSearch, Pending
<1>10. OneOperation'
  <2>1. Operations' = Operations
    BY DEF Operations
  <2> QED BY <1>1, <2>1 DEF Inductive, OneOperation, Pending
<1>11. OneIntent'
  <2>1. ASSUME NEW j \in DOMAIN posts PROVE IsCurrent(j) => IsCurrent(j)'
    BY <1>1, <1>3 DEF IsCurrent
  <2>2. ASSUME NEW j \in DOMAIN posts PROVE IsRetained(j) => IsRetained(j)'
    BY <1>1, <1>3 DEF IsRetained
  <2> QED BY <1>1, <1>3, <2>1, <2>2, SMTT(20) DEF Inductive, OneIntent
<1>12. RowsAreOfPosts'
  BY <1>1 DEF Inductive, RowsAreOfPosts
<1>13. ~page'.up => page' = Closed
  BY DEF Inductive
<1> QED BY <1>4, <1>5, <1>6, <1>8, <1>9, <1>10, <1>11, <1>12, <1>13 DEF Inductive

\* A submission whose key is known is answered with the acquisition, another one
\* is admitted.
LEMMA FindByIdempotencyKeeps ==
  ASSUME Inductive, NEW i \in DOMAIN posts, FindByIdempotency(i)
  PROVE  Inductive'
<1>1. posts \in Seq(Submissions) /\ rows \in Seq(Attempts)
  BY DEF Inductive, TypeOK
<1>2. posts[i].at = "sent" /\ UNCHANGED <<visit, page, asked, work, live, heard, rows>>
  BY DEF FindByIdempotency, server
<1>3. /\ posts' \in Seq(Submissions)
      /\ DOMAIN posts' = DOMAIN posts
      /\ \A j \in DOMAIN posts : j # i => posts'[j] = posts[j]
      /\ posts'[i].attempt = posts[i].attempt
      /\ posts'[i].client = posts[i].client
      /\ posts'[i].alone = posts[i].alone
      /\ \/ posts'[i].at = "answered" /\ posts'[i].answer = "acquisition"
         \/ posts'[i].at = "admitted" /\ Row(Key(i)) = {}
  <2>1. CASE Reply(i, "acquisition")
    BY <1>1, <2>1, ReplyChangesOne DEF Answers
  <2>2. CASE Row(Key(i)) = {} /\ posts' = [posts EXCEPT ![i].at = "admitted"]
    BY <1>1, <2>2, AdmissionChangesOne
  <2> QED BY <2>1, <2>2 DEF FindByIdempotency, Key
<1>4. \A j \in DOMAIN posts : /\ posts'[j].attempt = posts[j].attempt
                              /\ posts'[j].client = posts[j].client
                              /\ posts'[j].alone = posts[j].alone
                              /\ posts[j].at = "answered" => posts'[j] = posts[j]
  BY <1>2, <1>3
<1>5. \A j \in DOMAIN posts : Key(j)' = Key(j)
  BY <1>4 DEF Key
<1>6. \A k : Row(k)' = Row(k) /\ (Overlapping(k)' <=> Overlapping(k))
  BY <1>2, <1>3, <1>4, <1>5 DEF Row, Overlapping
<1>7. \A k : Settled(k) => Settled(k)'
  BY <1>2, <1>3, <1>4, <1>5, <1>6 DEF Settled
<1>8. LookupsAreTrue'
  <2>1. ASSUME NEW j \in DOMAIN posts, NEW l \in DOMAIN posts, j < l, Key(j) = Key(l),
               posts[l].alone
        PROVE  posts'[j].at = "answered"
    BY <1>4, <2>1 DEF Inductive, LookupsAreTrue
  <2>2. ASSUME NEW j \in DOMAIN posts, posts'[j].at = "admitted"
        PROVE  Row(Key(j)) = {} \/ Overlapping(Key(j))
    BY <1>3, <2>2 DEF Inductive, LookupsAreTrue
  <2>3. ASSUME NEW j \in DOMAIN posts, posts'[j].at = "answered", posts'[j].answer \in Definitive
        PROVE  \/ \E l \in DOMAIN posts : l > j /\ Key(l) = Key(j)
               \/ Row(Key(j)) = {} \/ Overlapping(Key(j))
    <3>1. j # i
      BY <1>3, <2>3 DEF Definitive
    <3> QED BY <1>3, <2>3, <3>1 DEF Inductive, LookupsAreTrue
  <2> QED BY <1>3, <1>4, <1>5, <1>6, <2>1, <2>2, <2>3 DEF LookupsAreTrue
<1>9. \A r \in DOMAIN rows' : \E j \in DOMAIN posts : posts[j].attempt = rows'[r]
  BY <1>2 DEF Inductive, RowsAreOfPosts
<1> QED BY <1>1, <1>2, <1>3, <1>4, <1>7, <1>8, <1>9, ServerSteps

\* What is refused was looked up, and not found.
LEMMA RefuseKeeps ==
  ASSUME Inductive, NEW i \in DOMAIN posts, Refuse(i)
  PROVE  Inductive'
<1>1. posts \in Seq(Submissions) /\ rows \in Seq(Attempts)
  BY DEF Inductive, TypeOK
<1>2. posts[i].at = "admitted" /\ UNCHANGED <<visit, page, asked, work, live, heard, rows>>
  BY DEF Refuse, server
<1>3. PICK answer \in Definitive : Reply(i, answer)
  BY DEF Refuse, Definitive
<1>4. /\ posts' \in Seq(Submissions)
      /\ DOMAIN posts' = DOMAIN posts
      /\ \A j \in DOMAIN posts : j # i => posts'[j] = posts[j]
      /\ posts'[i].attempt = posts[i].attempt
      /\ posts'[i].client = posts[i].client
      /\ posts'[i].alone = posts[i].alone
      /\ posts'[i].at = "answered"
  BY <1>1, <1>3, ReplyChangesOne DEF Answers
<1>5. \A j \in DOMAIN posts : /\ posts'[j].attempt = posts[j].attempt
                              /\ posts'[j].client = posts[j].client
                              /\ posts'[j].alone = posts[j].alone
                              /\ posts[j].at = "answered" => posts'[j].at = "answered"
  BY <1>4
<1>6. \A j \in DOMAIN posts : Key(j)' = Key(j)
  BY <1>5 DEF Key
<1>7. \A k : Row(k)' = Row(k) /\ (Overlapping(k)' <=> Overlapping(k))
  BY <1>2, <1>4, <1>5, <1>6 DEF Row, Overlapping
<1>8. \A k : Settled(k) => Settled(k)'
  BY <1>2, <1>4, <1>5, <1>6, <1>7 DEF Settled
<1>9. LookupsAreTrue'
  <2>1. ASSUME NEW j \in DOMAIN posts, NEW l \in DOMAIN posts, j < l, Key(j) = Key(l),
               posts[l].alone
        PROVE  posts'[j].at = "answered"
    BY <1>5, <2>1 DEF Inductive, LookupsAreTrue
  <2>2. ASSUME NEW j \in DOMAIN posts, posts'[j].at = "admitted"
        PROVE  Row(Key(j)) = {} \/ Overlapping(Key(j))
    BY <1>4, <2>2 DEF Inductive, LookupsAreTrue
  <2>3. ASSUME NEW j \in DOMAIN posts, posts'[j].at = "answered", posts'[j].answer \in Definitive
        PROVE  \/ \E l \in DOMAIN posts : l > j /\ Key(l) = Key(j)
               \/ Row(Key(j)) = {} \/ Overlapping(Key(j))
    <3>1. CASE j = i
      BY <1>2, <3>1 DEF Inductive, LookupsAreTrue
    <3>2. CASE j # i
      BY <1>4, <2>3, <3>2 DEF Inductive, LookupsAreTrue
    <3> QED BY <3>1, <3>2
  <2> QED BY <1>4, <1>5, <1>6, <1>7, <2>1, <2>2, <2>3 DEF LookupsAreTrue
<1>10. \A r \in DOMAIN rows' : \E j \in DOMAIN posts : posts[j].attempt = rows'[r]
  BY <1>2 DEF Inductive, RowsAreOfPosts
<1> QED BY <1>1, <1>2, <1>4, <1>5, <1>8, <1>9, <1>10, ServerSteps

\* An acquisition begins; whoever else has the key is at work at the same time,
\* or has been answered before.
LEMMA AcceptKeeps ==
  ASSUME Inductive, NEW i \in DOMAIN posts, Accept(i)
  PROVE  Inductive'
<1>1. posts \in Seq(Submissions) /\ rows \in Seq(Attempts) /\ posts[i].attempt \in Attempts
  BY PostsAreTyped DEF Inductive, TypeOK
<1>2. posts[i].at = "admitted" /\ UNCHANGED <<visit, page, asked, work, live, heard>>
  BY DEF Accept
<1>3. /\ posts' \in Seq(Submissions)
      /\ DOMAIN posts' = DOMAIN posts
      /\ \A j \in DOMAIN posts : j # i => posts'[j] = posts[j]
      /\ posts'[i].attempt = posts[i].attempt
      /\ posts'[i].client = posts[i].client
      /\ posts'[i].alone = posts[i].alone
      /\ posts'[i].at = "answered" /\ posts'[i].answer = "acquisition"
  <2>1. Reply(i, "acquisition")
    BY DEF Accept
  <2> QED BY <1>1, <2>1, ReplyChangesOne DEF Answers
<1>4. \A j \in DOMAIN posts : /\ posts'[j].attempt = posts[j].attempt
                              /\ posts'[j].client = posts[j].client
                              /\ posts'[j].alone = posts[j].alone
                              /\ posts[j].at = "answered" => posts'[j].at = "answered"
  BY <1>3
<1>5. \A j \in DOMAIN posts : Key(j)' = Key(j)
  BY <1>4 DEF Key
<1>6. \A k : Overlapping(k)' <=> Overlapping(k)
  BY <1>3, <1>4, <1>5 DEF Overlapping
<1>7. /\ rows' \in Seq(Attempts)
      /\ \A r \in DOMAIN rows' :
             (r \in DOMAIN rows /\ rows'[r] = rows[r]) \/ rows'[r] = posts[i].attempt
      /\ \A r \in DOMAIN rows : r \in DOMAIN rows' /\ rows'[r] = rows[r]
  <2>1. PICK a : a = posts[i].attempt
    OBVIOUS
  <2>2. rows' = Append(rows, a)
    BY <2>1 DEF Accept
  <2> QED BY <1>1, <2>1, <2>2
<1>8. \A k : k # Key(i) => Row(k)' = Row(k)
  BY <1>7 DEF Row, Key
<1>9. ASSUME NEW k, Settled(k) PROVE Settled(k)'
  <2>1. CASE k \in heard \/ Overlapping(k)
    BY <1>2, <1>6, <2>1 DEF Settled
  <2>2. CASE Row(k) = {} /\ \A j \in DOMAIN posts : Key(j) = k => posts[j].at = "answered"
    <3>1. k # Key(i)
      BY <1>2, <2>2
    <3> QED BY <1>3, <1>4, <1>5, <1>8, <2>2, <3>1 DEF Settled
  <2> QED BY <1>9, <2>1, <2>2 DEF Settled
<1>10. LookupsAreTrue'
  <2>0. \A j \in DOMAIN posts : j \in Nat
    BY PostsAreTyped DEF Inductive
  <2>1. ASSUME NEW j \in DOMAIN posts, NEW l \in DOMAIN posts, j < l, Key(j) = Key(l),
               posts[l].alone
        PROVE  posts'[j].at = "answered"
    BY <1>4, <2>1 DEF Inductive, LookupsAreTrue
  <2>2. ASSUME NEW j \in DOMAIN posts, posts[j].at # "answered", j # i, Key(j) = Key(i)
        PROVE  Overlapping(Key(j))
    <3>1. CASE j < i
      BY <2>2, <3>1 DEF Inductive, LookupsAreTrue, Overlapping
    <3>2. CASE i < j
      BY <1>2, <2>2, <3>2 DEF Inductive, LookupsAreTrue, Overlapping
    <3> QED BY <2>0, <2>2, <3>1, <3>2
  <2>3. ASSUME NEW j \in DOMAIN posts, posts'[j].at = "admitted"
        PROVE  Row(Key(j))' = {} \/ Overlapping(Key(j))
    <3>1. j # i /\ posts[j].at = "admitted"
      BY <1>3, <2>3
    <3>2. CASE Key(j) = Key(i)
      BY <2>2, <3>1, <3>2
    <3>3. CASE Key(j) # Key(i)
      <4>1. Row(Key(j)) = {} \/ Overlapping(Key(j))
        BY <3>1 DEF Inductive, LookupsAreTrue
      <4> QED BY <1>5, <1>8, <3>3, <4>1
    <3> QED BY <3>2, <3>3
  <2>4. ASSUME NEW j \in DOMAIN posts, posts'[j].at = "answered", posts'[j].answer \in Definitive
        PROVE  \/ \E l \in DOMAIN posts : l > j /\ Key(l) = Key(j)
               \/ Row(Key(j))' = {} \/ Overlapping(Key(j))
    <3>1. j # i /\ posts'[j] = posts[j]
      BY <1>3, <2>4 DEF Definitive
    <3>2. CASE Key(j) = Key(i) /\ j < i
      BY <3>2
    <3>3. CASE Key(j) = Key(i) /\ i < j
      BY <1>2, <3>3 DEF Inductive, LookupsAreTrue, Overlapping
    <3>4. CASE Key(j) # Key(i)
      <4>1. \/ \E l \in DOMAIN posts : l > j /\ Key(l) = Key(j)
            \/ Row(Key(j)) = {} \/ Overlapping(Key(j))
        BY <2>4, <3>1 DEF Inductive, LookupsAreTrue
      <4> QED BY <1>5, <1>8, <3>4, <4>1
    <3> QED BY <2>0, <3>1, <3>2, <3>3, <3>4
  <2> QED BY <1>3, <1>4, <1>5, <1>6, <2>1, <2>3, <2>4 DEF LookupsAreTrue
<1>11. \A r \in DOMAIN rows' : \E j \in DOMAIN posts : posts[j].attempt = rows'[r]
  BY <1>7 DEF Inductive, RowsAreOfPosts
<1> QED BY <1>2, <1>3, <1>4, <1>7, <1>9, <1>10, <1>11, ServerSteps

(***************************************************************************)
(* Every step, and what follows.                                           *)
(***************************************************************************)

LEMMA StutterKeeps ==
  ASSUME Inductive, UNCHANGED vars
  PROVE  Inductive'
<1>1. Quiet /\ UNCHANGED <<asked, live, page, work>>
  BY DEF vars, Quiet
<1> QED BY <1>1, ListSteps DEF Inductive, TypeOK

LEMMA StepKeeps == Inductive /\ [Next]_vars => Inductive'
<1> SUFFICES ASSUME Inductive, [Next]_vars PROVE Inductive'
  OBVIOUS
<1>1. CASE Open \/ Leave \/ ContextLoads
  BY <1>1, OpenKeeps, LeaveKeeps, ContextLoadsKeeps
<1>2. CASE StartSearch \/ FocusReloads \/ RefreshDestinations
  BY <1>2, StartSearchKeeps, FocusReloadsKeeps, RefreshDestinationsKeeps
<1>3. ASSUME NEW token \in page.results, SelectRelease(token) PROVE Inductive'
  BY <1>3, SelectReleaseKeeps
<1>4. ASSUME NEW key \in page.list.keys \cup {None}, SelectDestination(key) PROVE Inductive'
  BY <1>4, SelectDestinationKeeps
<1>5. CASE OpenReview \/ CancelReview \/ ConfirmReview \/ RetryUncertain
  BY <1>5, OpenReviewKeeps, CancelReviewKeeps, ConfirmReviewKeeps, RetryUncertainKeeps
<1>6. CASE Continue
  BY <1>6, SearchEndsKeeps, LoadEndsKeeps, RefreshEndsKeeps, PreflightEndsKeeps DEF Continue
<1>7. CASE Learn
  BY <1>7, AnsweredKeeps, AnswerIsLostKeeps DEF Learn
<1>8. CASE Serve
  BY <1>8, FindByIdempotencyKeeps, RefuseKeeps, AcceptKeeps DEF Serve
<1>9. CASE (\E no \in 1 .. MaxSearches : DropTokens(no))
           \/ (\E key \in Destinations : DestinationsChange(key))
  BY <1>9, WorldKeeps
<1>10. CASE UNCHANGED vars
  BY <1>10, StutterKeeps
<1> QED BY <1>1, <1>2, <1>3, <1>4, <1>5, <1>6, <1>7, <1>8, <1>9, <1>10 DEF Next

\* The invariant holds of every reachable state, in whatever order searches, lists
\* and answers come back, and whenever the page is left and opened again.
THEOREM Invariance == Spec => []Inductive
  BY Initially, StepKeeps, PTL DEF Spec

\* What is sent is what the user has seen in the review
\* (release-page.tsx, confirmReview).
THEOREM SendsWhatWasReviewed == Spec => []ReviewedIsSent
<1>1. Inductive => ReviewedIsSent
  BY DEF Inductive, IntentsAreReviewed
<1> QED BY <1>1, Invariance, PTL

\* While a submission of the page is unresolved the page offers nothing else
\* (release-page.tsx, the locks of the workflow).
THEOREM UnresolvedBlocks == Spec => []UnresolvedBlocksNewIntent
<1> DEFINE mine == {i \in Unresolved : Mounted(posts[i].attempt.visit)}
           keys == {posts[i].attempt.key : i \in mine}
<1>1. ASSUME Inductive, NEW m \in mine
      PROVE  /\ page.phase \in {"submitting", "uncertain"}
             /\ \E k : \A i \in mine : posts[i].attempt.key = k
  <2>1. /\ mine \subseteq DOMAIN posts
        /\ \A i \in mine : Mine(i) /\ i \in Unresolved
        /\ page.up
    BY <1>1 DEF Unresolved, Mounted, Mine
  <2>2. \A i \in mine : ~Over(i)
    BY <2>1 DEF Over
  <2>3. page.phase \in {"idle", "preflight", "submitting", "uncertain"}
    BY <1>1 DEF Inductive, TypeOK, Pages
  <2>4. page.phase \in {"submitting", "uncertain"}
    BY <1>1, <2>1, <2>2, <2>3 DEF Inductive, OneIntent
  <2>5. PICK c \in DOMAIN posts : IsCurrent(c) \/ IsRetained(c)
    BY <1>1, <2>1, <2>4 DEF Inductive, OneIntent
  <2>6. \A i \in mine : Key(i) = Key(c)
    BY <2>1, <2>2, <2>5 DEF IsCurrent, IsRetained
  <2> QED BY <2>4, <2>6 DEF Key
<1>2. ASSUME NEW k, \A i \in mine : posts[i].attempt.key = k PROVE Cardinality(keys) <= 1
  <2>1. keys \subseteq {k}
    BY <1>2
  <2>2. IsFiniteSet({k}) /\ Cardinality({k}) = 1
    BY FS_Singleton
  <2>3. IsFiniteSet(keys) /\ Cardinality(keys) <= Cardinality({k})
    BY <2>1, <2>2, FS_Subset
  <2>4. Cardinality(keys) \in Nat
    BY <2>3, FS_CardinalityType
  <2> QED BY <2>2, <2>3, <2>4
<1>3. ASSUME mine = {} PROVE Cardinality(keys) <= 1
  <2>1. \A i \in mine : posts[i].attempt.key = 0
    BY <1>3
  <2> QED BY <1>2, <2>1
<1>4. Inductive => UnresolvedBlocksNewIntent
  <2> SUFFICES ASSUME Inductive PROVE UnresolvedBlocksNewIntent
    OBVIOUS
  <2>1. Cardinality(keys) <= 1
    BY <1>1, <1>2, <1>3
  <2>2. mine # {} => page.phase \in {"submitting", "uncertain"} /\ page.review = None /\ ~Pending
    BY <1>1 DEF Inductive, ReviewsFollowTheSearch
  <2> QED BY <2>1, <2>2 DEF UnresolvedBlocksNewIntent
<1> QED BY <1>4, Invariance, PTL

\* Within a visit, a second acquisition is accepted only when the page has shown
\* the first, or when the server was at work on two submissions of the first.
THEOREM SecondIsNoAccident == Spec => []SecondOnlyAfterFirstIsKnown
<1>1. Inductive => SecondOnlyAfterFirstIsKnown
  <2> SUFFICES ASSUME Inductive, NEW r \in DOMAIN rows, NEW s \in DOMAIN rows,
                      rows[r].key < rows[s].key, rows[r].visit = rows[s].visit
               PROVE  \/ rows[r].key \in heard
                      \/ \E i \in DOMAIN posts :
                             posts[i].attempt.key = rows[r].key /\ ~posts[i].alone
    BY DEF SecondOnlyAfterFirstIsKnown
  <2>1. PICK i \in DOMAIN posts : posts[i].attempt = rows[r]
    BY DEF Inductive, RowsAreOfPosts
  <2>2. PICK j \in DOMAIN posts : posts[j].attempt = rows[s]
    BY DEF Inductive, RowsAreOfPosts
  <2>3. Settled(Key(i))
    BY <2>1, <2>2 DEF Inductive, RowsAreOfPosts, Key
  <2>4. Row(Key(i)) # {}
    BY <2>1 DEF Row, Key
  <2> QED BY <2>1, <2>3, <2>4 DEF Settled, Overlapping, Key
<1> QED BY <1>1, Invariance, PTL

\* A page sends only while it is open, and the first time only to a destination of
\* the list it has just loaded (release-page.tsx, the preflight of a submission).
THEOREM FirstPostsAreChecked == Spec => FirstPostIsChecked
<1> DEFINE sent == posts'[Len(posts')].attempt
           Checked == /\ Mounted(sent.visit)
                      /\ (\A i \in DOMAIN posts : posts[i].attempt.key # sent.key)
                             => sent.destination \in page'.list.keys
<1>1. ASSUME Inductive, [Next]_vars, Len(posts') > Len(posts) PROVE Checked
  <2>1. posts \in Seq(Submissions) /\ page \in Pages /\ live \in SUBSET Destinations
    BY <1>1 DEF Inductive, TypeOK
  <2>2. ASSUME DOMAIN posts' = DOMAIN posts, posts' \in Seq(Submissions) PROVE FALSE
    <3>1. Len(posts') = Len(posts)
      BY <2>1, <2>2
    <3> QED BY <1>1, <2>1, <3>1
  <2>3. ASSUME UNCHANGED posts PROVE FALSE
    BY <2>1, <2>2, <2>3
  <2>4. ASSUME NEW w \in work, PreflightEnds(w) PROVE Checked
    <3>1. PICK state : PreflightPasses(w, state)
      BY <2>3, <2>4 DEF PreflightEnds, PreflightRefuses, PreflightIsAbandoned
    <3>2. w.of \in Attempts /\ w.of.visit = w.visit
      BY <1>1, <2>4 DEF Inductive, TypeOK, Work, VisitsWerePaid, IsPreflight, PreflightEnds
    <3>3. sent = w.of
      BY <2>1, <3>1, <3>2, PostAddsOne DEF PreflightPasses
    <3>4. Mounted(w.visit) /\ state = "ready" /\ w.of.destination \in live
      BY <3>1 DEF PreflightPasses
    <3>5. PICK p : p = Listed(page, state)
      OBVIOUS
    <3>6. p \in Pages /\ p.list.keys = live
      BY <2>1, <3>4, <3>5, ListedIsAPage
    <3>7. page' = [p EXCEPT !.phase = "submitting"]
      BY <3>1, <3>5 DEF PreflightPasses
    <3>8. page'.list.keys = live
      BY <3>6, <3>7 DEF Pages
    <3> QED BY <3>2, <3>3, <3>4, <3>8
  <2>5. CASE RetryUncertain
    <3>1. page.up
      BY <1>1, <2>5 DEF RetryUncertain, Inductive, Closed
    <3>2. PICK m \in DOMAIN posts : Mine(m) /\ IsRetained(m)
      BY <1>1, <2>5, <3>1 DEF RetryUncertain, Inductive, OneIntent
    <3>3. PICK attempt : attempt = page.retained
      OBVIOUS
    <3>4. attempt = posts[m].attempt /\ attempt \in Attempts
      BY <1>1, <3>2, <3>3, PostsAreTyped DEF Inductive, IsRetained
    <3>5. sent = attempt
      BY <2>1, <2>5, <3>3, <3>4, PostAddsOne DEF RetryUncertain, Retried
    <3> QED BY <3>1, <3>2, <3>4, <3>5 DEF Mounted, Mine
  <2>6. CASE Open \/ Leave \/ ContextLoads \/ StartSearch \/ FocusReloads \/ RefreshDestinations
    BY <2>3, <2>6 DEF Open, Leave, ContextLoads, StartSearch, FocusReloads, RefreshDestinations
  <2>7. ASSUME NEW token, SelectRelease(token) PROVE Checked
    BY <2>3, <2>7 DEF SelectRelease
  <2>8. ASSUME NEW key, SelectDestination(key) PROVE Checked
    BY <2>3, <2>8 DEF SelectDestination
  <2>9. CASE OpenReview \/ CancelReview \/ ConfirmReview
    BY <2>3, <2>9 DEF OpenReview, CancelReview, ConfirmReview
  <2>10. ASSUME NEW w \in work, SearchEnds(w) \/ LoadEnds(w) \/ RefreshEnds(w) PROVE Checked
    BY <2>3, <2>10 DEF SearchEnds, LoadEnds, RefreshEnds
  <2>11. CASE Learn
    <3>1. PICK i \in DOMAIN posts, c \in {"told", "lost"} : posts' = [posts EXCEPT ![i].client = c]
      BY <2>11 DEF Learn, Answered, AnswerIsLost
    <3> QED BY <2>1, <2>2, <3>1, LearningChangesOne
  <2>12. CASE Serve
    <3>1. PICK i \in DOMAIN posts : FindByIdempotency(i) \/ Refuse(i) \/ Accept(i)
      BY <2>12 DEF Serve
    <3>2. CASE posts' = [posts EXCEPT ![i].at = "admitted"]
      BY <2>1, <2>2, <3>2, AdmissionChangesOne
    <3>3. ASSUME NEW a \in Answers, Reply(i, a) PROVE FALSE
      BY <2>1, <2>2, <3>3, ReplyChangesOne
    <3> QED BY <3>1, <3>2, <3>3 DEF FindByIdempotency, Refuse, Accept, Answers, Definitive
  <2>13. CASE (\E no \in 1 .. MaxSearches : DropTokens(no))
              \/ (\E key \in Destinations : DestinationsChange(key))
    BY <2>3, <2>13 DEF DropTokens, DestinationsChange
  <2>14. CASE UNCHANGED vars
    BY <2>3, <2>14 DEF vars
  <2> QED BY <1>1, <2>4, <2>5, <2>6, <2>7, <2>8, <2>9, <2>10, <2>11, <2>12, <2>13, <2>14
          DEF Next, Continue
<1>2. Inductive /\ [Next]_vars => [Len(posts') > Len(posts) => Checked]_vars
  BY <1>1
<1> QED BY <1>2, Invariance, PTL DEF Spec, FirstPostIsChecked
===============================================================================
