------------------------------ MODULE ModuleRuntime ------------------------------
(******************************************************************************)
(* Construction, caching and closing of module capabilities.                  *)
(*                                                                            *)
(* Worker threads ask the runtime for capabilities; the five accessors share  *)
(* one shape: look into the cache under the lock, build and validate outside  *)
(* it (remote hosts are contacted there), then offer the instance for         *)
(* adoption under the lock again.  Other builders of the same capability and  *)
(* close() run in between.  A capability of a module is a slot here; the five *)
(* dictionaries of the code are one cache over slots.                         *)
(******************************************************************************)
EXTENDS Naturals, Sequences

CONSTANTS
    Threads,    \* worker threads
    Closers,    \* callers of close()
    Slots,      \* capabilities of registered modules
    Validated,  \* the slots whose accessor validates what it built
    Instances,  \* what builders return; every build returns a new one
    None        \* "no value"

ASSUME SlotsAssumption == Validated \subseteq Slots
ASSUME RolesAssumption == Threads \cap Closers = {}
ASSUME NoInstance == None \notin Instances \cup Slots

VARIABLES
    pc,        \* where each thread is
    slot,      \* the capability each thread is after
    instance,  \* what each thread has built and not yet given away
    selected,  \* the sibling instance a thread that lost the race will return
    answer,    \* the last instance each thread returned, with its slot
    built,     \* the instances that exist
    cache,     \* the five dictionaries
    owned,     \* ModuleRuntime._owned, in order of adoption
    closed,    \* ModuleRuntime._closed
    retiring,  \* what close() took out of _owned
    left,      \* how many of those it has yet to close, from the end
    closes     \* how often close() of each instance was called

threadVars  == <<slot, instance, selected, answer>>
runtimeVars == <<cache, owned, closed>>
closeVars   == <<retiring, left>>
vars == <<pc, threadVars, built, runtimeVars, closeVars, closes>>

In(i, s) == \E n \in 1 .. Len(s) : s[n] = i

Answers == [slot : Slots \cup {None}, instance : Instances \cup {None}]
NoAnswer == [slot |-> None, instance |-> None]

ThreadStates == {"idle", "building", "validating", "adopting", "discarding"}
CloserStates == {"idle", "closing"}

Holding(t) == pc[t] \in {"validating", "adopting", "discarding"}

PcTypeOK ==
    /\ pc \in [Threads \cup Closers -> ThreadStates \cup CloserStates]
    /\ \A t \in Threads : pc[t] \in ThreadStates
    /\ \A c \in Closers : pc[c] \in CloserStates

TypeOK ==
    /\ PcTypeOK
    /\ slot \in [Threads -> Slots \cup {None}]
    /\ instance \in [Threads -> Instances \cup {None}]
    /\ selected \in [Threads -> Instances \cup {None}]
    /\ answer \in [Threads -> Answers]
    /\ built \in SUBSET Instances
    /\ cache \in [Slots -> Instances \cup {None}]
    /\ owned \in Seq(Instances)
    /\ closed \in BOOLEAN
    /\ retiring \in Seq(Instances)
    /\ left \in 0 .. Len(retiring)
    /\ closes \in [Instances -> Nat]

Init ==
    /\ pc = [p \in Threads \cup Closers |-> "idle"]
    /\ slot = [t \in Threads |-> None]
    /\ instance = [t \in Threads |-> None]
    /\ selected = [t \in Threads |-> None]
    /\ answer = [t \in Threads |-> NoAnswer]
    /\ built = {}
    /\ cache = [s \in Slots |-> None]
    /\ owned = <<>>
    /\ closed = FALSE
    /\ retiring = <<>>
    /\ left = 0
    /\ closes = [i \in Instances |-> 0]

Goto(p, state) == pc' = [pc EXCEPT ![p] = state]

\* The accessor returns i; None stands for any exception.
Return(t, s, i) ==
    /\ Goto(t, "idle")
    /\ answer' = [answer EXCEPT ![t] = [slot |-> s, instance |-> i]]

Close(i) == closes' = [closes EXCEPT ![i] = @ + 1]

(******************************************************************************)
(* Wrong versions of actions below, used to show that the properties can      *)
(* fail.  Each differs from its action in the way its comment says.           *)
(******************************************************************************)

\* Adopts without asking again whether a sibling was faster.
AdoptBlindly(t) ==
    /\ pc[t] = "adopting"
    /\ ~closed
    /\ cache' = [cache EXCEPT ![slot[t]] = instance[t]]
    /\ owned' = Append(owned, instance[t])
    /\ Return(t, slot[t], instance[t])
    /\ instance' = [instance EXCEPT ![t] = None]
    /\ UNCHANGED <<slot, selected, built, closed, closeVars, closes>>

\* The first error ends the loop.
CloseNextOrGiveUp(c) ==
    /\ pc[c] = "closing"
    /\ left > 0
    /\ Close(retiring[left])
    /\ \E rest \in {0, left - 1} : left' = rest
    /\ UNCHANGED <<pc, threadVars, built, runtimeVars, retiring>>

(******************************************************************************)
(* The accessors.                                                             *)
(******************************************************************************)

\* Under the lock: refused when closed, served from the cache, or sent to
\* build.  (What is not a slot, an unknown module or an editor it lacks, is
\* refused here as well and changes nothing.)
Access(t, s) ==
    /\ pc[t] = "idle"
    /\ \/ /\ closed \/ cache[s] # None
          /\ Return(t, s, cache[s])
          /\ UNCHANGED slot
       \/ /\ ~closed
          /\ cache[s] = None
          /\ slot' = [slot EXCEPT ![t] = s]
          /\ Goto(t, "building")
          /\ UNCHANGED answer
    /\ UNCHANGED <<instance, selected, built, runtimeVars, closeVars, closes>>

\* Outside the lock; resolving the environment or the builder may raise, and
\* then nothing was built.
Build(t) ==
    /\ pc[t] = "building"
    /\ \/ \E i \in Instances \ built :
              /\ built' = built \cup {i}
              /\ instance' = [instance EXCEPT ![t] = i]
              /\ Goto(t, IF slot[t] \in Validated THEN "validating" ELSE "adopting")
              /\ UNCHANGED answer
       \/ /\ Return(t, slot[t], None)
          /\ UNCHANGED <<instance, built>>
    /\ UNCHANGED <<slot, selected, runtimeVars, closeVars, closes>>

\* validate() may raise; the attempt is then closed and the error raised.
Validate(t) ==
    /\ pc[t] = "validating"
    /\ Goto(t, "adopting") \/ Goto(t, "discarding")
    /\ UNCHANGED <<threadVars, built, runtimeVars, closeVars, closes>>

\* _adopt, under the lock: the first instance stays, unless the runtime was
\* closed in the meantime.
Adopt(t) ==
    /\ pc[t] = "adopting"
    /\ \/ /\ ~closed
          /\ cache[slot[t]] = None
          /\ cache' = [cache EXCEPT ![slot[t]] = instance[t]]
          /\ owned' = Append(owned, instance[t])
          /\ Return(t, slot[t], instance[t])
          /\ instance' = [instance EXCEPT ![t] = None]
          /\ UNCHANGED selected
       \/ /\ closed \/ cache[slot[t]] # None
          /\ selected' = [selected EXCEPT ![t] = cache[slot[t]]]
          /\ Goto(t, "discarding")
          /\ UNCHANGED <<cache, owned, instance, answer>>
    /\ UNCHANGED <<slot, built, closed, closeVars, closes>>

\* _close_failed_attempt, outside the lock; errors are suppressed.  A thread
\* that lost to a sibling returns the sibling's instance, any other raises.
Discard(t) ==
    /\ pc[t] = "discarding"
    /\ Close(instance[t])
    /\ Return(t, slot[t], selected[t])
    /\ instance' = [instance EXCEPT ![t] = None]
    /\ selected' = [selected EXCEPT ![t] = None]
    /\ UNCHANGED <<slot, built, runtimeVars, closeVars>>

(******************************************************************************)
(* close().                                                                   *)
(******************************************************************************)

\* The first caller takes everything out of service under the lock; a later
\* caller returns at once, also while the first is still busy.
CloseBegin(c) ==
    /\ pc[c] = "idle"
    /\ ~closed
    /\ closed' = TRUE
    /\ retiring' = owned
    /\ left' = Len(owned)
    /\ owned' = <<>>
    /\ cache' = [s \in Slots |-> None]
    /\ Goto(c, "closing")
    /\ UNCHANGED <<threadVars, built, closes>>

\* One instance after the other, the youngest first, outside the lock; an
\* exception is remembered, to be raised at the end, and the loop goes on.
CloseNext(c) ==
    /\ pc[c] = "closing"
    /\ left > 0
    /\ Close(retiring[left])
    /\ left' = left - 1
    /\ UNCHANGED <<pc, threadVars, built, runtimeVars, retiring>>

CloseEnd(c) ==
    /\ pc[c] = "closing"
    /\ left = 0
    /\ Goto(c, "idle")
    /\ UNCHANGED <<threadVars, built, runtimeVars, closeVars, closes>>

(******************************************************************************)
(* The specification.                                                         *)
(******************************************************************************)

ThreadStep(t) == Build(t) \/ Validate(t) \/ Adopt(t) \/ Discard(t)
CloserStep(c) == CloseNext(c) \/ CloseEnd(c)

Next ==
    \/ \E t \in Threads, s \in Slots : Access(t, s)
    \/ \E t \in Threads : ThreadStep(t)
    \/ \E c \in Closers : CloseBegin(c) \/ CloserStep(c)

Spec == Init /\ [][Next]_vars

\* A thread inside an accessor and a caller inside close() run on.  Nobody has
\* to ask for a capability, or to close the runtime.
FairSpec ==
    /\ Spec
    /\ \A t \in Threads : WF_vars(ThreadStep(t))
    /\ \A c \in Closers : WF_vars(CloserStep(c))

(******************************************************************************)
(* Properties.                                                                *)
(******************************************************************************)

\* No instance is closed twice, whether its builder discards it, loses the
\* race for the slot, or close() finds it.
ClosedAtMostOnce == \A i \in Instances : closes[i] <= 1

\* What the cache serves has been built, has not been closed, and is known to
\* close(): a builder that loses against close() cannot repopulate the cache.
CachedIsOwned ==
    \A s \in Slots :
        cache[s] # None =>
            /\ ~closed
            /\ cache[s] \in built
            /\ closes[cache[s]] = 0
            /\ In(cache[s], owned)

\* All callers of one capability get the same instance, also those that were
\* in the middle of building when a sibling, or close(), was faster.
AnswersAgree ==
    \A t, u \in Threads :
        /\ answer[t].instance # None
        /\ answer[u].instance # None
        /\ answer[t].slot = answer[u].slot
        => answer[t].instance = answer[u].instance

\* Nothing leaks: when the runtime is closed and nobody is inside it, every
\* instance that was ever built has been closed.
QuiescentMeansClosed ==
    closed /\ (\A p \in Threads \cup Closers : pc[p] = "idle") =>
        \A i \in built : closes[i] = 1

\* close() works through the owned instances in reverse order of adoption:
\* an instance is closed only after all that were adopted later.
ReverseOrder ==
    \A m, n \in 1 .. Len(retiring) :
        m < n /\ closes[retiring[m]] > 0 => closes[retiring[n]] > 0

\* Once close() was called every instance is eventually closed, even one whose
\* build was still under way, and even if closing another one fails.
EveryInstanceIsClosed ==
    \A i \in Instances : closed /\ i \in built ~> closes[i] = 1

(******************************************************************************)
(* The inductive invariant.                                                   *)
(******************************************************************************)

\* An instance has one owner: the thread that built it, _owned, or close().
HoldersApart ==
    /\ \A t \in Threads :
           Holding(t) => /\ instance[t] \in built
                         /\ closes[instance[t]] = 0
                         /\ ~In(instance[t], owned)
                         /\ ~In(instance[t], retiring)
    /\ \A t, u \in Threads :
           Holding(t) /\ Holding(u) /\ instance[t] = instance[u] => t = u

\* A busy thread works for a slot, and has a sibling's instance to return only
\* after it lost the race for it; what it returned was for a slot.
ThreadLocals ==
    \A t \in Threads :
        /\ pc[t] # "idle" => slot[t] \in Slots
        /\ pc[t] # "discarding" => selected[t] = None
        /\ answer[t].instance # None => answer[t].slot \in Slots

OwnedOnce ==
    /\ \A n \in 1 .. Len(owned) : owned[n] \in built /\ closes[owned[n]] = 0
    /\ \A m, n \in 1 .. Len(owned) : owned[m] = owned[n] => m = n

RetiringOnce ==
    /\ \A n \in 1 .. Len(retiring) :
           retiring[n] \in built /\ closes[retiring[n]] = IF n <= left THEN 0 ELSE 1
    /\ \A m, n \in 1 .. Len(retiring) : retiring[m] = retiring[n] => m = n

\* The cache and _owned hold the same instances, each in one slot.
CacheMatchesOwned ==
    /\ \A s \in Slots : cache[s] # None => In(cache[s], owned)
    /\ \A r, s \in Slots : cache[r] # None /\ cache[r] = cache[s] => r = s

ClosingPhases ==
    /\ closed => owned = <<>> /\ cache = [s \in Slots |-> None]
    /\ ~closed => retiring = <<>>
    /\ left > 0 => \E c \in Closers : pc[c] = "closing"

\* An open instance is in somebody's hands.
NothingLost ==
    \A i \in built :
        closes[i] = 0 =>
            \/ \E t \in Threads : Holding(t) /\ instance[t] = i
            \/ In(i, owned)
            \/ \E n \in 1 .. left : retiring[n] = i

NotBuiltNotClosed ==
    \A i \in Instances : /\ closes[i] <= 1
                         /\ i \notin built => closes[i] = 0

\* What a thread has returned, or is about to return, for a slot.
Offers(t, s, i) ==
    \/ answer[t].slot = s /\ answer[t].instance = i
    \/ pc[t] = "discarding" /\ slot[t] = s /\ selected[t] = i

OffersAgree ==
    \A t \in Threads, s \in Slots, i \in Instances :
        Offers(t, s, i) =>
            /\ ~closed => cache[s] = i
            /\ \A u \in Threads, j \in Instances : Offers(u, s, j) => i = j

Inductive ==
    /\ TypeOK
    /\ HoldersApart
    /\ ThreadLocals
    /\ OwnedOnce
    /\ RetiringOnce
    /\ CacheMatchesOwned
    /\ ClosingPhases
    /\ NothingLost
    /\ NotBuiltNotClosed
    /\ OffersAgree

(******************************************************************************)
(* Refinement.                                                                *)
(******************************************************************************)

Pool == INSTANCE ModulePool WITH open <- ~closed, serving <- cache

\* Threads racing to build, adopt, discard and close implement the pool.
ImplementsPool == Pool!Spec

================================================================================
