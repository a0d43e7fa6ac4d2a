-------------------------- MODULE ModuleRuntimeProofs --------------------------
(******************************************************************************)
(* Proofs about ModuleRuntime for every set of threads, closers, slots and    *)
(* instances.  One lemma per action shows that it keeps the inductive         *)
(* invariant; the theorems at the end read the properties off it.             *)
(******************************************************************************)
EXTENDS ModuleRuntime, TLAPS

\* A fresh runtime owns nothing.
LEMMA InitInductive == Init => Inductive
<1> SUFFICES ASSUME Init PROVE Inductive
  OBVIOUS
<1>1. TypeOK
  <2>1. PcTypeOK BY RolesAssumption DEF Init, PcTypeOK, ThreadStates, CloserStates
  <2>2. answer \in [Threads -> Answers] BY DEF Init, Answers, NoAnswer
  <2>3. owned \in Seq(Instances) /\ retiring \in Seq(Instances) /\ left \in 0 .. Len(retiring)
    BY DEF Init
  <2> QED BY <2>1, <2>2, <2>3 DEF Init, TypeOK
<1>2. HoldersApart /\ ThreadLocals /\ NothingLost /\ NotBuiltNotClosed
  BY DEF Init, NoAnswer, HoldersApart, ThreadLocals, NothingLost, NotBuiltNotClosed, Holding
<1>3. OwnedOnce /\ RetiringOnce /\ CacheMatchesOwned /\ ClosingPhases
  BY DEF Init, OwnedOnce, RetiringOnce, CacheMatchesOwned, ClosingPhases
<1>4. OffersAgree
  BY NoInstance DEF Init, OffersAgree, Offers, NoAnswer
<1> QED BY <1>1, <1>2, <1>3, <1>4 DEF Inductive

\* Moving a thread, or a closer, keeps every program counter in its range.
LEMMA GotoThreadType ==
  ASSUME PcTypeOK, NEW t \in Threads, NEW state \in ThreadStates, Goto(t, state)
  PROVE  PcTypeOK'
  BY RolesAssumption DEF PcTypeOK, Goto

\* The same for the callers of close().
LEMMA GotoCloserType ==
  ASSUME PcTypeOK, NEW c \in Closers, NEW state \in CloserStates, Goto(c, state)
  PROVE  PcTypeOK'
  BY RolesAssumption DEF PcTypeOK, Goto

\* Goto moves one process.
LEMMA GotoMoves ==
  ASSUME PcTypeOK, NEW p \in Threads \cup Closers, NEW state, Goto(p, state)
  PROVE  /\ pc'[p] = state
         /\ \A q \in Threads \cup Closers : q # p => pc'[q] = pc[q]
  BY DEF PcTypeOK, Goto

\* Return moves one thread and changes one answer.
LEMMA ReturnType ==
  ASSUME TypeOK, NEW t \in Threads, NEW s \in Slots, NEW i \in Instances \cup {None}, Return(t, s, i)
  PROVE  /\ PcTypeOK'
         /\ answer' \in [Threads -> Answers]
         /\ answer'[t].slot = s
         /\ answer'[t].instance = i
         /\ \A u \in Threads : u # t => answer'[u] = answer[u]
<1>1. PcTypeOK' BY GotoThreadType DEF Return, TypeOK, ThreadStates
<1>2. [slot |-> s, instance |-> i] \in Answers BY DEF Answers
<1> QED BY <1>1, <1>2 DEF Return, TypeOK

\* Close counts for one instance.
LEMMA CloseType ==
  ASSUME TypeOK, NEW i \in Instances, Close(i)
  PROVE  /\ closes' \in [Instances -> Nat]
         /\ closes'[i] = closes[i] + 1
         /\ \A j \in Instances : j # i => closes'[j] = closes[j]
  BY DEF TypeOK, Close

\* Asking for a capability keeps the types.
LEMMA AccessType ==
  ASSUME Inductive, NEW t \in Threads, NEW s \in Slots, Access(t, s)
  PROVE  TypeOK'
<1>1. CASE Return(t, s, cache[s]) /\ UNCHANGED slot
  <2>1. cache[s] \in Instances \cup {None} BY DEF Inductive, TypeOK
  <2>2. PcTypeOK' /\ answer' \in [Threads -> Answers]
    BY <1>1, <2>1, ReturnType DEF Inductive
  <2> QED BY <1>1, <2>2 DEF Access, Inductive, TypeOK, runtimeVars, closeVars
<1>2. CASE slot' = [slot EXCEPT ![t] = s] /\ Goto(t, "building") /\ UNCHANGED answer
  <2>1. PcTypeOK' BY <1>2, GotoThreadType DEF Inductive, TypeOK, ThreadStates
  <2> QED BY <1>2, <2>1 DEF Access, Inductive, TypeOK, runtimeVars, closeVars
<1> QED BY <1>1, <1>2 DEF Access

\* A cached instance is offered again; nothing changes hands.
LEMMA AccessKeeps ==
  ASSUME Inductive, NEW t \in Threads, NEW s \in Slots, Access(t, s)
  PROVE  Inductive'
<1>0. TypeOK' BY AccessType
<1>t. TypeOK /\ PcTypeOK BY DEF Inductive, TypeOK
<1>a. UNCHANGED <<instance, selected, built, cache, owned, closed, retiring, left, closes>>
  BY DEF Access, runtimeVars, closeVars
<1>b. /\ pc[t] = "idle"
      /\ pc'[t] \in {"idle", "building"}
      /\ \A q \in Threads \cup Closers : q # t => pc'[q] = pc[q]
  BY <1>t, GotoMoves DEF Access, Return
<1>c. \A u \in Threads : Holding(u)' <=> Holding(u)
  BY <1>b DEF Holding
<1>1. HoldersApart' /\ ThreadLocals'
  <2>1. \A u \in Threads : u # t => slot'[u] = slot[u] BY <1>t DEF Access, TypeOK
  <2>2. pc'[t] # "idle" => slot'[t] \in Slots
    BY <1>t, <1>b DEF Access, TypeOK, Return, Goto, PcTypeOK
  <2>3. HoldersApart' BY <1>a, <1>c DEF Inductive, HoldersApart, In
  <2>4. /\ \A u \in Threads : u # t => answer'[u] = answer[u]
        /\ UNCHANGED answer \/ answer'[t].slot = s
    <3>1. cache[s] \in Instances \cup {None} BY <1>t DEF TypeOK
    <3> QED BY <1>t, <3>1, ReturnType DEF Access
  <2> QED BY <1>a, <1>b, <2>1, <2>2, <2>3, <2>4 DEF Inductive, ThreadLocals
<1>2. OwnedOnce' /\ RetiringOnce' /\ CacheMatchesOwned' /\ NotBuiltNotClosed'
  BY <1>a DEF Inductive, OwnedOnce, RetiringOnce, CacheMatchesOwned, NotBuiltNotClosed, In
<1>3. ClosingPhases'
  BY <1>a, <1>b, RolesAssumption DEF Inductive, ClosingPhases
<1>4. NothingLost'
  BY <1>a, <1>c DEF Inductive, NothingLost, In
<1>5. OffersAgree'
  <2>1. \A u \in Threads, r \in Slots, i \in Instances :
           Offers(u, r, i)' => Offers(u, r, i) \/ (~closed /\ cache[r] = i)
    <3>1. ASSUME NEW u \in Threads, NEW r \in Slots, NEW i \in Instances, Offers(u, r, i)'
          PROVE  Offers(u, r, i) \/ (~closed /\ cache[r] = i)
      <4>1. CASE u # t
        BY <1>a, <1>b, <1>t, <3>1, <4>1 DEF Offers, Access, Return, TypeOK
      <4>2. CASE u = t /\ UNCHANGED answer
        BY <1>a, <1>b, <3>1, <4>2 DEF Offers
      <4>3. CASE u = t /\ Return(t, s, cache[s]) /\ (closed \/ cache[s] # None)
        <5>1. cache[s] \in Instances \cup {None} BY <1>t DEF TypeOK
        <5>2. answer'[t].slot = s /\ answer'[t].instance = cache[s]
          BY <1>t, <4>3, <5>1, ReturnType
        <5>3. r = s /\ cache[s] = i BY <1>b, <3>1, <4>3, <5>2 DEF Offers
        <5>4. ~closed BY <5>3, NoInstance DEF Inductive, ClosingPhases
        <5> QED BY <5>3, <5>4
      <4> QED BY <4>1, <4>2, <4>3 DEF Access
    <3> QED BY <3>1
  <2> QED BY <1>a, <2>1 DEF Inductive, OffersAgree
<1> QED BY <1>0, <1>1, <1>2, <1>3, <1>4, <1>5 DEF Inductive

\* A new instance was in nobody's hands before.
LEMMA BuildKeeps ==
  ASSUME Inductive, NEW t \in Threads, Build(t)
  PROVE  Inductive'
<1>t. TypeOK /\ PcTypeOK BY DEF Inductive, TypeOK
<1>a. UNCHANGED <<slot, selected, cache, owned, closed, retiring, left, closes>>
  BY DEF Build, runtimeVars, closeVars
<1>s. pc[t] = "building" /\ slot[t] \in Slots /\ ~Holding(t)
  BY DEF Build, Inductive, ThreadLocals, Holding
<1>1. CASE Return(t, slot[t], None) /\ UNCHANGED <<instance, built>>
  <2>1. /\ PcTypeOK'
        /\ answer' \in [Threads -> Answers]
        /\ answer'[t].slot = slot[t]
        /\ answer'[t].instance = None
        /\ \A u \in Threads : u # t => answer'[u] = answer[u]
    BY <1>t, <1>s, <1>1, ReturnType
  <2>2. TypeOK' BY <1>a, <1>1, <2>1 DEF Inductive, TypeOK
  <2>3. /\ pc'[t] = "idle"
        /\ \A q \in Threads \cup Closers : q # t => pc'[q] = pc[q]
    BY <1>t, <1>1, GotoMoves DEF Return
  <2>4. \A u \in Threads : Holding(u)' <=> Holding(u)
    BY <1>s, <2>3 DEF Holding
  <2>5. HoldersApart' /\ ThreadLocals'
    BY <1>a, <1>s, <1>1, <2>1, <2>3, <2>4 DEF Inductive, HoldersApart, ThreadLocals, In
  <2>6. OwnedOnce' /\ RetiringOnce' /\ CacheMatchesOwned' /\ NotBuiltNotClosed'
    BY <1>a, <1>1 DEF Inductive, OwnedOnce, RetiringOnce, CacheMatchesOwned, NotBuiltNotClosed, In
  <2>7. ClosingPhases'
    BY <1>a, <2>3, RolesAssumption DEF Inductive, ClosingPhases
  <2>8. NothingLost'
    BY <1>a, <1>1, <2>4 DEF Inductive, NothingLost, In
  <2>9. OffersAgree'
    <3>1. \A u \in Threads, r \in Slots, i \in Instances : Offers(u, r, i)' => Offers(u, r, i)
      BY <1>a, <2>1, <2>3, NoInstance DEF Offers
    <3> QED BY <1>a, <3>1 DEF Inductive, OffersAgree
  <2> QED BY <2>2, <2>5, <2>6, <2>7, <2>8, <2>9 DEF Inductive
<1>2. ASSUME NEW i \in Instances \ built,
             built' = built \cup {i},
             instance' = [instance EXCEPT ![t] = i],
             Goto(t, IF slot[t] \in Validated THEN "validating" ELSE "adopting"),
             UNCHANGED answer
      PROVE  Inductive'
  <2>1. PcTypeOK'
    BY <1>t, <1>2, GotoThreadType DEF ThreadStates
  <2>2. TypeOK' BY <1>a, <1>2, <2>1 DEF Inductive, TypeOK
  <2>3. /\ pc'[t] \in {"validating", "adopting"}
        /\ \A q \in Threads \cup Closers : q # t => pc'[q] = pc[q]
    BY <1>t, <1>2, GotoMoves
  <2>4. /\ Holding(t)' /\ instance'[t] = i
        /\ \A u \in Threads : u # t => (Holding(u)' <=> Holding(u)) /\ instance'[u] = instance[u]
    BY <1>t, <1>2, <2>3 DEF Holding, TypeOK
  <2>5. HoldersApart' /\ ThreadLocals'
    <3>1. closes[i] = 0 /\ ~In(i, owned) /\ ~In(i, retiring)
      BY <1>2 DEF Inductive, NotBuiltNotClosed, In, OwnedOnce, RetiringOnce
    <3>2. \A u \in Threads : Holding(u) => instance[u] # i
      BY <1>2 DEF Inductive, HoldersApart
    <3>3. HoldersApart' BY <1>a, <1>2, <2>4, <3>1, <3>2 DEF Inductive, HoldersApart, In
    <3> QED BY <1>a, <1>s, <1>2, <2>3, <3>3 DEF Inductive, ThreadLocals
  <2>6. OwnedOnce' /\ RetiringOnce' /\ CacheMatchesOwned' /\ NotBuiltNotClosed'
    BY <1>a, <1>2 DEF Inductive, OwnedOnce, RetiringOnce, CacheMatchesOwned, NotBuiltNotClosed, In
  <2>7. ClosingPhases'
    BY <1>a, <2>3, RolesAssumption DEF Inductive, ClosingPhases
  <2>8. NothingLost'
    BY <1>a, <1>s, <1>2, <2>4 DEF Inductive, NothingLost, In
  <2>9. OffersAgree'
    <3>1. \A u \in Threads, r \in Slots, j \in Instances : Offers(u, r, j)' => Offers(u, r, j)
      BY <1>a, <1>2, <2>3 DEF Offers
    <3> QED BY <1>a, <3>1 DEF Inductive, OffersAgree
  <2> QED BY <2>2, <2>5, <2>6, <2>7, <2>8, <2>9 DEF Inductive
<1> QED BY <1>1, <1>2 DEF Build

\* Validating moves a thread that keeps what it holds; one that failed has
\* nothing to return.
LEMMA ValidateKeeps ==
  ASSUME Inductive, NEW t \in Threads, Validate(t)
  PROVE  Inductive'
<1>t. TypeOK /\ PcTypeOK BY DEF Inductive, TypeOK
<1>a. UNCHANGED <<slot, instance, selected, answer, built, cache, owned, closed, retiring, left, closes>>
  BY DEF Validate, threadVars, runtimeVars, closeVars
<1>1. PcTypeOK' BY <1>t, GotoThreadType DEF Validate, ThreadStates
<1>2. TypeOK' BY <1>a, <1>1 DEF Inductive, TypeOK
<1>3. /\ pc[t] = "validating"
      /\ pc'[t] \in {"adopting", "discarding"}
      /\ \A q \in Threads \cup Closers : q # t => pc'[q] = pc[q]
  BY <1>t, GotoMoves DEF Validate
<1>4. \A u \in Threads : Holding(u)' <=> Holding(u)
  BY <1>3 DEF Holding
<1>5. HoldersApart'
  BY <1>a, <1>3, <1>4 DEF Inductive, HoldersApart, In
<1>6. OwnedOnce' /\ RetiringOnce' /\ CacheMatchesOwned' /\ NotBuiltNotClosed'
  BY <1>a DEF Inductive, OwnedOnce, RetiringOnce, CacheMatchesOwned, NotBuiltNotClosed, In
<1>7. ClosingPhases'
  BY <1>a, <1>3, RolesAssumption DEF Inductive, ClosingPhases
<1>8. NothingLost'
  BY <1>a, <1>4 DEF Inductive, NothingLost, In
<1>9. OffersAgree' /\ ThreadLocals'
  <2>1. \A u \in Threads, r \in Slots, i \in Instances : Offers(u, r, i)' => Offers(u, r, i)
    BY <1>a, <1>3, NoInstance DEF Offers, Inductive, ThreadLocals
  <2> QED BY <1>a, <1>3, <2>1 DEF Inductive, OffersAgree, ThreadLocals
<1> QED BY <1>2, <1>5, <1>6, <1>7, <1>8, <1>9 DEF Inductive

\* What it means to append to a sequence.
LEMMA AppendFacts ==
  ASSUME NEW S, NEW q \in Seq(S), NEW e \in S
  PROVE  /\ Append(q, e) \in Seq(S)
         /\ Len(Append(q, e)) = Len(q) + 1
         /\ \A n \in 1 .. Len(q) : Append(q, e)[n] = q[n]
         /\ Append(q, e)[Len(q) + 1] = e
  OBVIOUS

\* Appending adds one member.
LEMMA AppendIn ==
  ASSUME NEW S, NEW q \in Seq(S), NEW e \in S, NEW i
  PROVE  In(i, Append(q, e)) <=> In(i, q) \/ i = e
<1>1. Len(q) \in Nat OBVIOUS
<1> QED BY <1>1, AppendFacts DEF In

\* The instance passes from its builder to _owned, or its builder has lost.
LEMMA AdoptKeeps ==
  ASSUME Inductive, NEW t \in Threads, Adopt(t)
  PROVE  Inductive'
<1>t. TypeOK /\ PcTypeOK BY DEF Inductive, TypeOK
<1>a. UNCHANGED <<slot, built, closed, retiring, left, closes>>
  BY DEF Adopt, closeVars
<1>s. /\ pc[t] = "adopting"
      /\ Holding(t)
      /\ slot[t] \in Slots
      /\ instance[t] \in Instances
      /\ instance[t] \in built
      /\ closes[instance[t]] = 0
      /\ ~In(instance[t], owned)
      /\ ~In(instance[t], retiring)
      /\ \A u \in Threads : u # t /\ Holding(u) => instance[u] # instance[t]
  BY <1>t DEF Adopt, Inductive, HoldersApart, ThreadLocals, Holding, TypeOK
<1>1. CASE /\ ~closed
           /\ cache[slot[t]] = None
           /\ cache' = [cache EXCEPT ![slot[t]] = instance[t]]
           /\ owned' = Append(owned, instance[t])
           /\ Return(t, slot[t], instance[t])
           /\ instance' = [instance EXCEPT ![t] = None]
           /\ UNCHANGED selected
  <2>1. /\ PcTypeOK'
        /\ answer' \in [Threads -> Answers]
        /\ answer'[t].slot = slot[t]
        /\ answer'[t].instance = instance[t]
        /\ \A u \in Threads : u # t => answer'[u] = answer[u]
    BY <1>t, <1>s, <1>1, ReturnType
  <2>2. /\ owned \in Seq(Instances)
        /\ owned' \in Seq(Instances)
        /\ Len(owned) \in Nat
        /\ Len(owned') = Len(owned) + 1
        /\ \A n \in 1 .. Len(owned) : owned'[n] = owned[n]
        /\ owned'[Len(owned) + 1] = instance[t]
    BY <1>t, <1>s, <1>1, AppendFacts DEF TypeOK
  <2>3. \A i : In(i, owned)' <=> In(i, owned) \/ i = instance[t]
    BY <1>s, <1>1, <2>2, AppendIn DEF In
  <2>4. TypeOK' BY <1>a, <1>s, <1>1, <2>1, <2>2 DEF Inductive, TypeOK
  <2>5. /\ pc'[t] = "idle"
        /\ \A q \in Threads \cup Closers : q # t => pc'[q] = pc[q]
    BY <1>t, <1>1, GotoMoves DEF Return
  <2>6. /\ ~Holding(t)'
        /\ \A u \in Threads : u # t => (Holding(u)' <=> Holding(u)) /\ instance'[u] = instance[u]
    BY <1>t, <1>1, <2>5 DEF Holding, TypeOK
  <2>7. HoldersApart' /\ ThreadLocals'
    <3>1. \A i : In(i, retiring)' <=> In(i, retiring) BY <1>a DEF In
    <3>2. HoldersApart'
      BY <1>a, <1>s, <2>3, <2>6, <3>1 DEF Inductive, HoldersApart
    <3> QED BY <1>a, <1>s, <1>1, <2>1, <2>5, <3>2 DEF Inductive, ThreadLocals
  <2>8. OwnedOnce'
    <3>1. \A n \in 1 .. Len(owned) : owned[n] # instance[t] BY <1>s DEF In
    <3>2. \A n \in 1 .. Len(owned)' : n \in 1 .. Len(owned) \/ n = Len(owned) + 1
      BY <2>2
    <3> QED BY <1>a, <1>s, <2>2, <3>1, <3>2 DEF Inductive, OwnedOnce
  <2>9. RetiringOnce' /\ NotBuiltNotClosed'
    BY <1>a DEF Inductive, RetiringOnce, NotBuiltNotClosed
  <2>10. /\ cache'[slot[t]] = instance[t]
         /\ \A s \in Slots : s # slot[t] => cache'[s] = cache[s]
    BY <1>t, <1>1, <1>s DEF TypeOK
  <2>11. CacheMatchesOwned'
    <3>1. \A s \in Slots : cache[s] # instance[t]
      BY <1>s, NoInstance DEF Inductive, CacheMatchesOwned
    <3> QED BY <1>s, <2>3, <2>10, <3>1 DEF Inductive, CacheMatchesOwned
  <2>12. ClosingPhases'
    BY <1>a, <1>1, <2>5, RolesAssumption DEF Inductive, ClosingPhases
  <2>13. NothingLost'
    BY <1>a, <2>3, <2>6 DEF Inductive, NothingLost
  <2>14. OffersAgree'
    <3>1. \A u \in Threads, r \in Slots, i \in Instances :
             Offers(u, r, i)' => Offers(u, r, i) \/ (r = slot[t] /\ i = instance[t])
      BY <1>a, <1>1, <2>1, <2>5 DEF Offers
    <3>2. \A u \in Threads, i \in Instances : ~Offers(u, slot[t], i)
      BY <1>1, <1>s, NoInstance DEF Inductive, OffersAgree
    <3> QED BY <1>a, <2>10, <3>1, <3>2 DEF Inductive, OffersAgree
  <2> QED BY <2>4, <2>7, <2>8, <2>9, <2>11, <2>12, <2>13, <2>14 DEF Inductive
<1>2. CASE /\ closed \/ cache[slot[t]] # None
           /\ selected' = [selected EXCEPT ![t] = cache[slot[t]]]
           /\ Goto(t, "discarding")
           /\ UNCHANGED <<cache, owned, instance, answer>>
  <2>1. PcTypeOK' BY <1>t, <1>2, GotoThreadType DEF ThreadStates
  <2>2. TypeOK' BY <1>a, <1>s, <1>2, <2>1 DEF Inductive, TypeOK
  <2>3. /\ pc'[t] = "discarding"
        /\ \A q \in Threads \cup Closers : q # t => pc'[q] = pc[q]
    BY <1>t, <1>2, GotoMoves
  <2>4. \A u \in Threads : Holding(u)' <=> Holding(u)
    BY <1>s, <2>3 DEF Holding
  <2>5. /\ selected'[t] = cache[slot[t]]
        /\ \A u \in Threads : u # t => selected'[u] = selected[u]
    BY <1>t, <1>2 DEF TypeOK
  <2>6. HoldersApart' /\ ThreadLocals'
    <3>1. HoldersApart'
      BY <1>a, <1>2, <2>4 DEF Inductive, HoldersApart, In
    <3> QED BY <1>a, <1>s, <1>2, <2>3, <2>5, <3>1 DEF Inductive, ThreadLocals
  <2>7. OwnedOnce' /\ RetiringOnce' /\ CacheMatchesOwned' /\ NotBuiltNotClosed'
    BY <1>a, <1>2 DEF Inductive, OwnedOnce, RetiringOnce, CacheMatchesOwned, NotBuiltNotClosed, In
  <2>8. ClosingPhases'
    BY <1>a, <1>2, <2>3, RolesAssumption DEF Inductive, ClosingPhases
  <2>9. NothingLost'
    BY <1>a, <1>2, <2>4 DEF Inductive, NothingLost, In
  <2>10. OffersAgree'
    <3>1. \A u \in Threads, r \in Slots, i \in Instances :
             Offers(u, r, i)' => Offers(u, r, i) \/ (~closed /\ r = slot[t] /\ cache[r] = i)
      <4>1. closed => cache[slot[t]] = None BY <1>s DEF Inductive, ClosingPhases
      <4> QED BY <1>a, <1>2, <2>3, <2>5, <4>1, NoInstance DEF Offers
    <3> QED BY <1>a, <1>2, <3>1 DEF Inductive, OffersAgree
  <2> QED BY <2>2, <2>6, <2>7, <2>8, <2>9, <2>10 DEF Inductive
<1> QED BY <1>1, <1>2 DEF Adopt

\* The builder closes what it holds and no longer holds it.
LEMMA DiscardKeeps ==
  ASSUME Inductive, NEW t \in Threads, Discard(t)
  PROVE  Inductive'
<1>t. TypeOK /\ PcTypeOK BY DEF Inductive, TypeOK
<1>a. UNCHANGED <<slot, built, cache, owned, closed, retiring, left>>
  BY DEF Discard, runtimeVars, closeVars
<1>s. /\ pc[t] = "discarding"
      /\ Holding(t)
      /\ slot[t] \in Slots
      /\ selected[t] \in Instances \cup {None}
      /\ instance[t] \in Instances
      /\ instance[t] \in built
      /\ closes[instance[t]] = 0
      /\ ~In(instance[t], owned)
      /\ ~In(instance[t], retiring)
      /\ \A u \in Threads : u # t /\ Holding(u) => instance[u] # instance[t]
  BY <1>t DEF Discard, Inductive, HoldersApart, ThreadLocals, Holding, TypeOK
<1>c. /\ closes' \in [Instances -> Nat]
      /\ closes'[instance[t]] = 1
      /\ \A i \in Instances : i # instance[t] => closes'[i] = closes[i]
  BY <1>t, <1>s, CloseType DEF Discard
<1>1. /\ PcTypeOK'
      /\ answer' \in [Threads -> Answers]
      /\ answer'[t].slot = slot[t]
      /\ answer'[t].instance = selected[t]
      /\ \A u \in Threads : u # t => answer'[u] = answer[u]
  BY <1>t, <1>s, ReturnType DEF Discard
<1>2. TypeOK' BY <1>a, <1>c, <1>1 DEF Inductive, TypeOK, Discard
<1>3. /\ pc'[t] = "idle"
      /\ \A q \in Threads \cup Closers : q # t => pc'[q] = pc[q]
  BY <1>t, GotoMoves DEF Return, Discard
<1>4. /\ ~Holding(t)'
      /\ selected'[t] = None
      /\ \A u \in Threads : u # t => /\ Holding(u)' <=> Holding(u)
                                     /\ instance'[u] = instance[u]
                                     /\ selected'[u] = selected[u]
  BY <1>t, <1>3 DEF Holding, TypeOK, Discard
<1>5. HoldersApart' /\ ThreadLocals'
  <2>1. \A u \in Threads : instance[u] \in built => instance[u] \in Instances
    BY <1>t DEF TypeOK
  <2>2. HoldersApart'
    BY <1>a, <1>c, <1>4, <1>s, <2>1 DEF Inductive, HoldersApart, In
  <2> QED BY <1>a, <1>s, <1>1, <1>3, <1>4, <2>2 DEF Inductive, ThreadLocals
<1>6. OwnedOnce' /\ RetiringOnce'
  <2>1. \A n \in 1 .. Len(owned) : owned[n] \in Instances /\ owned[n] # instance[t]
    BY <1>t, <1>s DEF TypeOK, In
  <2>2. \A n \in 1 .. Len(retiring) : retiring[n] \in Instances /\ retiring[n] # instance[t]
    BY <1>t, <1>s DEF TypeOK, In
  <2> QED BY <1>a, <1>c, <2>1, <2>2 DEF Inductive, OwnedOnce, RetiringOnce
<1>7. CacheMatchesOwned' /\ NotBuiltNotClosed'
  BY <1>a, <1>c, <1>s DEF Inductive, CacheMatchesOwned, NotBuiltNotClosed, In
<1>8. ClosingPhases'
  BY <1>a, <1>3, RolesAssumption DEF Inductive, ClosingPhases
<1>9. NothingLost'
  <2>1. built \subseteq Instances BY <1>t DEF TypeOK
  <2> QED BY <1>a, <1>c, <1>4, <2>1 DEF Inductive, NothingLost, In
<1>10. OffersAgree'
  <2>1. \A u \in Threads, r \in Slots, i \in Instances : Offers(u, r, i)' => Offers(u, r, i)
    BY <1>a, <1>s, <1>1, <1>3, <1>4 DEF Offers
  <2> QED BY <1>a, <2>1 DEF Inductive, OffersAgree
<1> QED BY <1>2, <1>5, <1>6, <1>7, <1>8, <1>9, <1>10 DEF Inductive

\* Everything owned passes to close().
LEMMA CloseBeginKeeps ==
  ASSUME Inductive, NEW c \in Closers, CloseBegin(c)
  PROVE  Inductive'
<1>t. TypeOK /\ PcTypeOK BY DEF Inductive, TypeOK
<1>a. /\ UNCHANGED <<slot, instance, selected, answer, built, closes>>
      /\ ~closed /\ closed'
      /\ retiring' = owned /\ left' = Len(owned) /\ owned' = <<>>
      /\ cache' = [s \in Slots |-> None]
      /\ retiring = <<>>
  BY DEF CloseBegin, threadVars, Inductive, ClosingPhases
<1>1. PcTypeOK' BY <1>t, GotoCloserType DEF CloseBegin, CloserStates
<1>2. TypeOK'
  <2>1. owned \in Seq(Instances) /\ Len(owned) \in 0 .. Len(owned) /\ <<>> \in Seq(Instances)
    BY <1>t DEF TypeOK
  <2> QED BY <1>a, <1>1, <2>1 DEF Inductive, TypeOK
<1>3. /\ pc'[c] = "closing"
      /\ \A q \in Threads \cup Closers : q # c => pc'[q] = pc[q]
  BY <1>t, GotoMoves DEF CloseBegin
<1>4. \A u \in Threads : pc'[u] = pc[u] /\ (Holding(u)' <=> Holding(u))
  BY <1>3, RolesAssumption DEF Holding
<1>5. \A i : (In(i, retiring)' <=> In(i, owned)) /\ ~In(i, owned)'
  BY <1>a DEF In
<1>6. HoldersApart' /\ ThreadLocals'
  BY <1>a, <1>4, <1>5 DEF Inductive, HoldersApart, ThreadLocals
<1>7. OwnedOnce' /\ RetiringOnce'
  <2>1. Len(owned) \in Nat BY <1>t DEF TypeOK
  <2> QED BY <1>a, <2>1 DEF Inductive, OwnedOnce, RetiringOnce
<1>8. CacheMatchesOwned' /\ NotBuiltNotClosed'
  BY <1>a DEF Inductive, CacheMatchesOwned, NotBuiltNotClosed
<1>9. ClosingPhases' BY <1>a, <1>3 DEF ClosingPhases
<1>10. NothingLost'
  <2>1. left = 0 BY <1>t, <1>a DEF TypeOK
  <2> QED BY <1>a, <1>4, <2>1 DEF Inductive, NothingLost, In
<1>11. OffersAgree'
  <2>1. \A u \in Threads, r \in Slots, i \in Instances : Offers(u, r, i)' => Offers(u, r, i)
    BY <1>a, <1>4 DEF Offers
  <2> QED BY <1>a, <2>1 DEF Inductive, OffersAgree
<1> QED BY <1>2, <1>6, <1>7, <1>8, <1>9, <1>10, <1>11 DEF Inductive

\* The youngest open instance of close() is closed.
LEMMA CloseNextKeeps ==
  ASSUME Inductive, NEW c \in Closers, CloseNext(c)
  PROVE  Inductive'
<1>t. TypeOK /\ PcTypeOK BY DEF Inductive, TypeOK
<1>a. /\ UNCHANGED <<pc, slot, instance, selected, answer, built, cache, owned, closed, retiring>>
      /\ left > 0 /\ left' = left - 1
  BY DEF CloseNext, threadVars, runtimeVars
<1>s. /\ left \in 1 .. Len(retiring)
      /\ Len(retiring) \in Nat
      /\ \A n \in 1 .. Len(retiring) : retiring[n] \in Instances
      /\ retiring[left] \in Instances
      /\ closes[retiring[left]] = 0
      /\ retiring[left] \in built
  BY <1>t, <1>a DEF TypeOK, Inductive, RetiringOnce
<1>c. /\ closes' \in [Instances -> Nat]
      /\ closes'[retiring[left]] = 1
      /\ \A i \in Instances : i # retiring[left] => closes'[i] = closes[i]
  BY <1>t, <1>s, CloseType DEF CloseNext
<1>1. TypeOK' BY <1>a, <1>c, <1>s DEF Inductive, TypeOK, PcTypeOK
<1>2. \A u \in Threads : Holding(u)' <=> Holding(u) BY <1>a DEF Holding
<1>3. HoldersApart' /\ ThreadLocals'
  <2>1. \A u \in Threads : Holding(u) => instance[u] # retiring[left]
    BY <1>s DEF Inductive, HoldersApart, In
  <2>2. \A u \in Threads : Holding(u) => instance[u] \in Instances
    BY <1>t DEF Inductive, HoldersApart, TypeOK
  <2>3. HoldersApart'
    BY <1>a, <1>c, <1>2, <2>1, <2>2 DEF Inductive, HoldersApart, In
  <2> QED BY <1>a, <2>3 DEF Inductive, ThreadLocals
<1>4. owned = <<>> /\ closed
  BY <1>s DEF Inductive, ClosingPhases
<1>5. OwnedOnce' BY <1>a, <1>4 DEF OwnedOnce
<1>6. RetiringOnce'
  <2>1. \A n \in 1 .. Len(retiring) : n # left => retiring[n] # retiring[left]
    BY <1>s DEF Inductive, RetiringOnce
  <2> QED BY <1>a, <1>s, <1>c, <2>1 DEF Inductive, RetiringOnce
<1>7. CacheMatchesOwned' /\ NotBuiltNotClosed'
  BY <1>a, <1>c, <1>s DEF Inductive, CacheMatchesOwned, NotBuiltNotClosed, In
<1>8. ClosingPhases'
  BY <1>a, <1>s DEF Inductive, ClosingPhases, CloseNext
<1>9. NothingLost'
  <2>1. built \subseteq Instances BY <1>t DEF TypeOK
  <2>2. ASSUME NEW i \in built, closes'[i] = 0,
               NEW n \in 1 .. left, retiring[n] = i
        PROVE  n \in 1 .. left'
    BY <1>a, <1>c, <1>s, <2>1, <2>2
  <2>3. \A i \in built : closes'[i] = 0 => closes[i] = 0
    BY <1>c, <1>s, <2>1
  <2> QED BY <1>a, <1>2, <2>2, <2>3 DEF Inductive, NothingLost, In
<1>10. OffersAgree'
  <2>1. \A u \in Threads, r \in Slots, i \in Instances : Offers(u, r, i)' => Offers(u, r, i)
    BY <1>a DEF Offers
  <2> QED BY <1>a, <2>1 DEF Inductive, OffersAgree
<1> QED BY <1>1, <1>3, <1>5, <1>6, <1>7, <1>8, <1>9, <1>10 DEF Inductive

\* close() returns when nothing is left.
LEMMA CloseEndKeeps ==
  ASSUME Inductive, NEW c \in Closers, CloseEnd(c)
  PROVE  Inductive'
<1>t. TypeOK /\ PcTypeOK BY DEF Inductive, TypeOK
<1>a. UNCHANGED <<slot, instance, selected, answer, built, cache, owned, closed, retiring, left, closes>>
  BY DEF CloseEnd, threadVars, runtimeVars, closeVars
<1>1. PcTypeOK' BY <1>t, GotoCloserType DEF CloseEnd, CloserStates
<1>2. TypeOK' BY <1>a, <1>1 DEF Inductive, TypeOK
<1>3. \A u \in Threads : pc'[u] = pc[u] /\ (Holding(u)' <=> Holding(u))
  BY <1>t, GotoMoves, RolesAssumption DEF CloseEnd, Holding
<1>4. HoldersApart' /\ ThreadLocals'
  BY <1>a, <1>3 DEF Inductive, HoldersApart, ThreadLocals, In
<1>5. OwnedOnce' /\ RetiringOnce' /\ CacheMatchesOwned' /\ NotBuiltNotClosed'
  BY <1>a DEF Inductive, OwnedOnce, RetiringOnce, CacheMatchesOwned, NotBuiltNotClosed, In
<1>6. ClosingPhases'
  BY <1>a DEF Inductive, ClosingPhases, CloseEnd
<1>7. NothingLost'
  BY <1>a, <1>3 DEF Inductive, NothingLost, In
<1>8. OffersAgree'
  <2>1. \A u \in Threads, r \in Slots, i \in Instances : Offers(u, r, i)' => Offers(u, r, i)
    BY <1>a, <1>3 DEF Offers
  <2> QED BY <1>a, <2>1 DEF Inductive, OffersAgree
<1> QED BY <1>2, <1>4, <1>5, <1>6, <1>7, <1>8 DEF Inductive

\* Every step keeps the invariant.
LEMMA StepInductive == Inductive /\ [Next]_vars => Inductive'
<1> SUFFICES ASSUME Inductive, [Next]_vars PROVE Inductive'
  OBVIOUS
<1>1. CASE Next
  BY <1>1, AccessKeeps, BuildKeeps, ValidateKeeps, AdoptKeeps, DiscardKeeps,
     CloseBeginKeeps, CloseNextKeeps, CloseEndKeeps
  DEF Next, ThreadStep, CloserStep
<1>2. CASE UNCHANGED vars
  BY <1>2 DEF vars, threadVars, runtimeVars, closeVars, Inductive, TypeOK, PcTypeOK, HoldersApart,
     ThreadLocals, OwnedOnce, RetiringOnce, CacheMatchesOwned, ClosingPhases, NothingLost,
     NotBuiltNotClosed, OffersAgree, Offers, Holding, In
<1> QED BY <1>1, <1>2

\* Everything below follows from this one invariant.
THEOREM Invariance == Spec => []Inductive
  BY InitInductive, StepInductive, PTL DEF Spec

\* Every variable keeps to its type.
THEOREM TypeCorrect == Spec => []TypeOK
  BY Invariance, PTL DEF Inductive

\* No interleaving of builders, losers and close() closes an instance twice,
\* and close() goes through them in reverse order.
THEOREM ClosedOnceInOrder == Spec => [](ClosedAtMostOnce /\ ReverseOrder)
<1>1. Inductive => ClosedAtMostOnce
  BY DEF Inductive, NotBuiltNotClosed, ClosedAtMostOnce
<1>2. Inductive => ReverseOrder
  BY DEF Inductive, TypeOK, RetiringOnce, ReverseOrder
<1> QED BY Invariance, <1>1, <1>2, PTL

\* The cache serves open, owned instances only, and only while the runtime is
\* open: a late builder cannot repopulate it.
THEOREM CacheIsLive == Spec => []CachedIsOwned
<1>1. Inductive => CachedIsOwned
  <2> SUFFICES ASSUME Inductive, NEW s \in Slots, cache[s] # None
               PROVE  /\ ~closed
                      /\ cache[s] \in built
                      /\ closes[cache[s]] = 0
                      /\ In(cache[s], owned)
    BY DEF CachedIsOwned
  <2>1. ~closed BY DEF Inductive, ClosingPhases
  <2>2. In(cache[s], owned) BY DEF Inductive, CacheMatchesOwned
  <2> QED BY <2>1, <2>2 DEF Inductive, OwnedOnce, In
<1> QED BY Invariance, <1>1, PTL

\* All callers of a capability get the same instance.
THEOREM CallersAgree == Spec => []AnswersAgree
<1>1. Inductive => AnswersAgree
  <2> SUFFICES ASSUME Inductive, NEW t \in Threads, NEW u \in Threads,
                      answer[t].instance # None, answer[u].instance # None,
                      answer[t].slot = answer[u].slot
               PROVE  answer[t].instance = answer[u].instance
    BY DEF AnswersAgree
  <2>1. /\ answer[t].slot \in Slots
        /\ answer[t].instance \in Instances
        /\ answer[u].instance \in Instances
    BY DEF Inductive, ThreadLocals, TypeOK, Answers
  <2>2. /\ Offers(t, answer[t].slot, answer[t].instance)
        /\ Offers(u, answer[t].slot, answer[u].instance)
    BY DEF Offers
  <2> QED BY <2>1, <2>2 DEF Inductive, OffersAgree
<1> QED BY Invariance, <1>1, PTL

\* When the runtime is closed and quiet, everything that was built is closed.
THEOREM NothingLeaks == Spec => []QuiescentMeansClosed
<1>1. Inductive => QuiescentMeansClosed
  <2> SUFFICES ASSUME Inductive, closed,
                      \A p \in Threads \cup Closers : pc[p] = "idle",
                      NEW i \in built
               PROVE  closes[i] = 1
    BY DEF QuiescentMeansClosed
  <2>1. \A t \in Threads : ~Holding(t) BY DEF Holding
  <2>2. ~In(i, owned) BY DEF Inductive, ClosingPhases, In
  <2>3. left = 0 BY DEF Inductive, ClosingPhases, TypeOK
  <2>4. closes[i] # 0 BY <2>1, <2>2, <2>3 DEF Inductive, NothingLost
  <2>5. i \in Instances /\ closes[i] \in Nat BY DEF Inductive, TypeOK
  <2> QED BY <2>4, <2>5 DEF Inductive, NotBuiltNotClosed
<1> QED BY Invariance, <1>1, PTL

\* A fresh runtime is a fresh pool.
LEMMA InitPool == Init => Pool!Init
  BY DEF Init, Pool!Init

\* Adopting installs; discarding and close() dispose; taking everything out of
\* service shuts; every other step is invisible.
LEMMA StepPool == Inductive /\ [Next]_vars => [Pool!Next]_Pool!vars
<1> SUFFICES ASSUME Inductive, [Next]_vars PROVE [Pool!Next]_Pool!vars
  OBVIOUS
<1> USE DEF Pool!vars
<1>1. ASSUME NEW t \in Threads, NEW s \in Slots, Access(t, s) PROVE [Pool!Next]_Pool!vars
  BY <1>1 DEF Access, runtimeVars
<1>2. ASSUME NEW t \in Threads, Build(t) \/ Validate(t) PROVE [Pool!Next]_Pool!vars
  BY <1>2 DEF Build, Validate, runtimeVars
<1>3. ASSUME NEW t \in Threads, Adopt(t) PROVE [Pool!Next]_Pool!vars
  <2>1. CASE UNCHANGED cache
    BY <1>3, <2>1 DEF Adopt
  <2>2. CASE ~closed /\ cache[slot[t]] = None /\ cache' = [cache EXCEPT ![slot[t]] = instance[t]]
    <3>1. /\ slot[t] \in Slots
          /\ instance[t] \in Instances
          /\ closes[instance[t]] = 0
          /\ ~In(instance[t], owned)
      BY <1>3 DEF Adopt, Inductive, ThreadLocals, HoldersApart, Holding, TypeOK
    <3>2. \A r \in Slots : cache[r] # instance[t]
      BY <3>1, NoInstance DEF Inductive, CacheMatchesOwned
    <3>3. Pool!Install(slot[t], instance[t])
      BY <1>3, <2>2, <3>1, <3>2 DEF Adopt, Pool!Install
    <3> QED BY <3>1, <3>3 DEF Pool!Next
  <2> QED BY <1>3, <2>1, <2>2 DEF Adopt
<1>4. ASSUME NEW i \in Instances, Close(i), closes[i] = 0,
             \A s \in Slots : cache[s] # i, UNCHANGED <<closed, cache>>
      PROVE  [Pool!Next]_Pool!vars
  <2>1. Pool!Dispose(i) BY <1>4 DEF Pool!Dispose, Close, Inductive, TypeOK
  <2> QED BY <2>1 DEF Pool!Next
<1>5. ASSUME NEW t \in Threads, Discard(t) PROVE [Pool!Next]_Pool!vars
  <2>1. /\ instance[t] \in Instances
        /\ closes[instance[t]] = 0
        /\ ~In(instance[t], owned)
    BY <1>5 DEF Discard, Inductive, HoldersApart, Holding, TypeOK
  <2>2. \A s \in Slots : cache[s] # instance[t]
    BY <2>1, NoInstance DEF Inductive, CacheMatchesOwned
  <2> QED BY <1>4, <1>5, <2>1, <2>2 DEF Discard, runtimeVars
<1>6. ASSUME NEW c \in Closers, CloseBegin(c) PROVE [Pool!Next]_Pool!vars
  BY <1>6 DEF CloseBegin, Pool!Next, Pool!Shut
<1>7. ASSUME NEW c \in Closers, CloseNext(c) PROVE [Pool!Next]_Pool!vars
  <2>1. retiring[left] \in Instances /\ closes[retiring[left]] = 0 /\ left \in 1 .. Len(retiring)
    BY <1>7 DEF CloseNext, Inductive, TypeOK, RetiringOnce
  <2>2. closed BY <2>1 DEF Inductive, ClosingPhases
  <2>3. \A s \in Slots : cache[s] # retiring[left]
    BY <2>1, <2>2, NoInstance DEF Inductive, ClosingPhases
  <2> QED BY <1>4, <1>7, <2>1, <2>3 DEF CloseNext, runtimeVars
<1>8. ASSUME NEW c \in Closers, CloseEnd(c) PROVE [Pool!Next]_Pool!vars
  BY <1>8 DEF CloseEnd, runtimeVars
<1>9. CASE UNCHANGED vars
  BY <1>9 DEF vars, runtimeVars
<1> QED BY <1>1, <1>2, <1>3, <1>5, <1>6, <1>7, <1>8, <1>9
        DEF Next, ThreadStep, CloserStep

\* The racing accessors and close() implement the pool.
THEOREM Refinement == Spec => ImplementsPool
  BY InitPool, StepPool, Invariance, PTL DEF Spec, ImplementsPool, Pool!Spec
================================================================================
