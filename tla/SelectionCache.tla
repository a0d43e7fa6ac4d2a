----------------------------- MODULE SelectionCache -----------------------------
(******************************************************************************)
(* The caches behind the opaque tokens of the control API: EphemeralCache     *)
(* (metadata selections, manual drafts) and its twin ReleaseSelectionCache    *)
(* (release selections).  Both are an OrderedDict under a lock, so operations *)
(* are atomic; only the clock, the wall clock of the host, moves meanwhile,   *)
(* and not only forwards.                                                     *)
(*                                                                            *)
(* The position of a token in the OrderedDict is a stamp: appending it and    *)
(* move_to_end give it the largest, popitem(last=False) drops the smallest.   *)
(******************************************************************************)
EXTENDS Naturals, FiniteSets

CONSTANTS
    Tokens,      \* what secrets.token_urlsafe(32) may return
    MaxEntries,  \* capacity, 512 in production
    Ttl,         \* time to live in ticks
    MaxNow,      \* bound: the clock stops here
    MaxStamp     \* bound: positions given out

ASSUME CapacityAssumption == MaxEntries \in Nat /\ MaxEntries >= 1
ASSUME TtlAssumption == Ttl \in Nat /\ Ttl >= 1
ASSUME BoundsAssumption == MaxNow \in Nat /\ MaxStamp \in Nat

VARIABLES
    now,       \* the clock
    entries,   \* the keys of the dictionary
    expires,   \* expires_at of each entry
    stamp,     \* the position of each entry
    nextStamp, \* the next position
    issued,    \* tokens that put() has returned
    taken      \* tokens that pop() or take() has consumed

vars == <<now, entries, expires, stamp, nextStamp, issued, taken>>

TypeOK ==
    /\ now \in Nat
    /\ entries \in SUBSET Tokens
    /\ expires \in [Tokens -> Nat]
    /\ stamp \in [Tokens -> Nat]
    /\ nextStamp \in Nat
    /\ issued \in SUBSET Tokens
    /\ taken \in SUBSET Tokens

Init ==
    /\ now = 0
    /\ entries = {}
    /\ expires = [t \in Tokens |-> 0]
    /\ stamp = [t \in Tokens |-> 0]
    /\ nextStamp = 1
    /\ issued = {}
    /\ taken = {}

Live(t) == t \in entries /\ expires[t] > now

\* Append, or move_to_end.
ToEnd(t) ==
    /\ nextStamp <= MaxStamp
    /\ stamp' = [stamp EXCEPT ![t] = nextStamp]
    /\ nextStamp' = nextStamp + 1

IsOldest(t, S) == t \in S /\ \A u \in S : stamp[t] <= stamp[u]

\* The new entry: its token is fresh, its expiry counts from the second look
\* at the clock.
Insert(t, later) ==
    /\ t \notin issued
    /\ ToEnd(t)
    /\ now' = later
    /\ issued' = issued \cup {t}
    /\ expires' = [expires EXCEPT ![t] = later + Ttl]
    /\ UNCHANGED taken

(******************************************************************************)
(* Wrong versions of actions below, used to show that the properties can      *)
(* fail.  Each differs from its action in the way its comment says.           *)
(******************************************************************************)

\* Evicts the entry that was used last.
PutEvictsNewest(t, later) ==
    LET kept == {u \in entries : expires[u] > now} IN
    /\ Insert(t, later)
    /\ \/ /\ Cardinality(kept) < MaxEntries
          /\ entries' = kept \cup {t}
       \/ /\ Cardinality(kept) >= MaxEntries
          /\ \E newest \in kept : /\ \A u \in kept : stamp[newest] >= stamp[u]
                                  /\ entries' = (kept \ {newest}) \cup {t}

\* Leaves the entry in the dictionary.
TakeLeavesEntry(t) ==
    /\ Live(t)
    /\ ToEnd(t)
    /\ taken' = taken \cup {t}
    /\ UNCHANGED <<now, entries, expires, issued>>

(******************************************************************************)
(* Operations.                                                                *)
(******************************************************************************)

\* Expired entries are purged at one reading of the clock, the new entry's
\* expiry is computed from a later one; then the oldest entry goes if the
\* dictionary is over its capacity.
Put(t, later) ==
    LET kept == {u \in entries : expires[u] > now} IN
    /\ Insert(t, later)
    /\ \/ /\ Cardinality(kept) < MaxEntries
          /\ entries' = kept \cup {t}
       \/ /\ Cardinality(kept) >= MaxEntries
          /\ \E oldest \in kept :
                IsOldest(oldest, kept) /\ entries' = (kept \ {oldest}) \cup {t}

\* get() of a live token moves it to the end.
Hit(t) ==
    /\ Live(t)
    /\ ToEnd(t)
    /\ UNCHANGED <<now, entries, expires, issued, taken>>

\* pop() and take() are get() and a deletion under one lock.
Take(t) ==
    /\ Live(t)
    /\ ToEnd(t)
    /\ entries' = entries \ {t}
    /\ taken' = taken \cup {t}
    /\ UNCHANGED <<now, expires, issued>>

\* get(), pop() or take() of an expired token drops it and raises.  (A token
\* that is not there raises and changes nothing.)
Miss(t) ==
    /\ t \in entries
    /\ expires[t] <= now
    /\ entries' = entries \ {t}
    /\ UNCHANGED <<now, expires, stamp, nextStamp, issued, taken>>

\* At shutdown.
Clear ==
    /\ entries # {}
    /\ entries' = {}
    /\ UNCHANGED <<now, expires, stamp, nextStamp, issued, taken>>

\* Time passes, or the host's clock is set.
Tick ==
    /\ now' \in 0 .. MaxNow
    /\ now' # now
    /\ UNCHANGED <<entries, expires, stamp, nextStamp, issued, taken>>

Next ==
    \/ \E t \in Tokens : \E later \in 0 .. MaxNow : Put(t, later)
    \/ \E t \in Tokens : Hit(t) \/ Take(t) \/ Miss(t)
    \/ Clear
    \/ Tick

Spec == Init /\ [][Next]_vars

(******************************************************************************)
(* Properties.                                                                *)
(******************************************************************************)

\* "Bounded process-memory TTL stores": no sequence of puts outgrows the
\* capacity, whatever expired, was touched or consumed in between.
Bounded == Cardinality(entries) <= MaxEntries

\* A consumed token is gone for good: no later put, get or clock reading
\* brings it back ("consumed ... SHALL return selection_expired").
ConsumedOnce == taken \cap entries = {}

\* A live token disappears only because it was consumed, because of a clear,
\* or because a put found the cache full of live tokens used more recently.
LiveTokensStay ==
    [][\A t \in Tokens :
           Live(t) /\ t \notin entries' =>
               \/ t \in taken'
               \/ entries' = {}
               \/ /\ Cardinality(entries') = MaxEntries
                  /\ \A u \in entries' : u \in entries => Live(u) /\ stamp[t] <= stamp[u]]_vars

\* Positions are distinct, and what is in the dictionary was issued.
Inductive ==
    /\ TypeOK
    /\ entries \subseteq issued
    /\ taken \subseteq issued
    /\ ConsumedOnce
    /\ IsFiniteSet(entries)
    /\ Bounded
    /\ \A t \in entries : stamp[t] < nextStamp
    /\ \A t, u \in entries : stamp[t] = stamp[u] => t = u

(******************************************************************************)
(* Refinement.                                                                *)
(******************************************************************************)

Pool == INSTANCE TokenPool WITH Capacity <- MaxEntries, usable <- entries

\* Expiry, recency and eviction implement a pool of one-use tokens.
ImplementsPool == Pool!Spec

================================================================================
