----------------------------- MODULE RetentionProofs -----------------------------
(******************************************************************************)
(* Proofs about Retention for all sets of items, rows and readers, all        *)
(* policies, cadences and faults.                                             *)
(******************************************************************************)
EXTENDS Retention, TLAPS

LEMMA InitInductive == Init => Inductive
<1> SUFFICES ASSUME Init PROVE Inductive
  OBVIOUS
<1>1. TypeOK
  <2>1. 0 \in 0 .. Day /\ 0 \in 0 .. OldAge BY TimeAssumption DEF OldAge
  <2>2. owner \in [Ids -> Items \cup {None}] /\ age \in [Ids -> 0 .. OldAge]
    BY <2>1 DEF Init
  <2>3. /\ status \in [Ids -> {"none", "refreshed", "failed", "purged"}]
        /\ refreshOf \in [Ids -> Ids \cup {None}]
        /\ current \in [Items -> Ids \cup {None}]
        /\ plan \in [Ids -> Kinds]
    BY DEF Init, NoPlan, Kinds
  <2>4. /\ reading \in [Readers -> [id : Ids, payload : BOOLEAN] \cup {None}]
        /\ served \in [Readers -> Ids \cup {None}]
    BY DEF Init
  <2> QED BY <2>1, <2>2, <2>3, <2>4 DEF Init, TypeOK
<1>2. RowsAgree /\ RefreshedOnce BY NoneAssumption DEF Init, RowsAgree, RefreshedOnce, Written
<1>3. PlanIsSound /\ TimesInOrder /\ SweptSoFar /\ Swept
  BY DEF Init, PlanIsSound, TimesInOrder, SweptSoFar, Swept, GoneOrFailed, Running, NoPlan
<1> QED BY <1>1, <1>2, <1>3 DEF Inductive

(******************************************************************************)
(* The actions.                                                               *)
(******************************************************************************)

\* Ages go up together, up to their limits.
LEMMA TickKeeps == Inductive /\ Tick => Inductive'
<1> SUFFICES ASSUME Inductive, Tick PROVE Inductive'
  OBVIOUS
<1>0. UNCHANGED <<owner, kept, status, refreshOf, current, plan, reading, served, settled>>
  BY DEF Tick, readerVars
<1>1. TypeOK'
  BY <1>0, TimeAssumption DEF Inductive, TypeOK, Tick, Older, OldAge
<1>2. \A r \in Written : Expired(r) => Expired(r)'
  BY TimeAssumption DEF Inductive, TypeOK, Tick, Older, OldAge, Expired, RowsAgree, Written
<1>3. RowsAgree' /\ RefreshedOnce'
  BY <1>0, <1>2 DEF Inductive, RowsAgree, RefreshedOnce, Written
<1>4. PlanIsSound' BY <1>0, <1>2 DEF Inductive, PlanIsSound, RowsAgree, Tick, NoPlan
<1>5. TimesInOrder'
  BY TimeAssumption DEF Inductive, TypeOK, Tick, Older, OldAge, TimesInOrder, Running
<1>6. \A r \in kept : r \in Ids /\ age'[r] = Older(age[r], OldAge)
  BY DEF Inductive, TypeOK, Tick, RowsAgree, Written
<1>7. SweptSoFar' /\ Swept'
  BY <1>0, <1>6, TimeAssumption DEF Inductive, TypeOK, Tick, Older, OldAge, SweptSoFar, Swept,
      GoneOrFailed
<1> QED BY <1>1, <1>3, <1>4, <1>5, <1>7 DEF Inductive

LEMMA SelectKeeps ==
  ASSUME Inductive, NEW i \in Items, NEW r \in Ids, NEW late \in 0 .. 1, Select(i, r, late)
  PROVE  Inductive'
<1>0. UNCHANGED <<status, refreshOf, phase, completed, started, listed, plan, reading, served, settled>>
  BY DEF Select, loopVars, readerVars
<1>1. TypeOK' BY <1>0, TimeAssumption DEF Inductive, TypeOK, Select, OldAge
<1>2. /\ owner'[r] = i /\ age'[r] = late /\ current'[i] = r
      /\ \A s \in Ids : s # r => owner'[s] = owner[s] /\ age'[s] = age[s]
      /\ \A j \in Items : j # i => current'[j] = current[j]
      /\ kept' = kept \cup {r}
      /\ owner[r] = None /\ current[i] = None
  BY DEF Inductive, TypeOK, Select, Written
<1>3. Written' = Written \cup {r} /\ r \notin Written
  BY <1>2, NoneAssumption DEF Written
<1>4. RowsAgree'
  BY <1>0, <1>2, <1>3, NoneAssumption DEF Inductive, TypeOK, RowsAgree, Written, Expired
<1>5. RefreshedOnce'
  BY <1>0, <1>2, <1>3, NoneAssumption DEF Inductive, TypeOK, RefreshedOnce, RowsAgree
<1>6. PlanIsSound'
  BY <1>0, <1>2, <1>3 DEF Inductive, PlanIsSound, NoPlan, Expired, RowsAgree
<1>7. TimesInOrder'
  BY <1>0 DEF Inductive, TimesInOrder, Running
<1>8. SweptSoFar' /\ Swept'
  BY <1>0, <1>2, TimeAssumption DEF Inductive, TypeOK, SweptSoFar, Swept, GoneOrFailed, PlanIsSound, RowsAgree, Written, OldAge
<1> QED BY <1>1, <1>4, <1>5, <1>6, <1>7, <1>8 DEF Inductive

\* Steps that leave the rows alone.
LEMMA RowsStay ==
  ASSUME Inductive, UNCHANGED rowVars, TypeOK',
         \A q \in Readers : reading'[q] # None => reading'[q].id \in Written /\ served'[q] = None
  PROVE  RowsAgree' /\ RefreshedOnce'
  BY DEF Inductive, rowVars, RowsAgree, RefreshedOnce, Written, Expired

LEMMA LoopKeeps ==
  ASSUME Inductive, Start \/ Settle \/ Begin \/ Check \/ ApplyFails \/ Record \/ RecordFails
  PROVE  Inductive'
<1>0. UNCHANGED <<owner, age, kept, status, refreshOf, current, reading, served>>
  BY DEF Start, Settle, Begin, Check, ApplyFails, Record, RecordFails, rowVars, readerVars
<1>1. TypeOK'
  <2>1. plan' \in [Ids -> Kinds]
    BY DEF Inductive, TypeOK, Start, Settle, Begin, Check, ApplyFails, Record, RecordFails,
           loopVars, NoPlan, Kinds
  <2>2. /\ phase' \in {"down", "startup", "asleep", "awake", "list", "apply", "record"}
        /\ settled' \in BOOLEAN
        /\ listed' = listed
    BY DEF Inductive, TypeOK, Start, Settle, Begin, Check, ApplyFails, Record, RecordFails, loopVars
  <2>3. /\ completed' \in {completed, started}
        /\ started' \in {started, 0}
    BY DEF Start, Settle, Begin, Check, ApplyFails, Record, RecordFails, loopVars
  <2>4. /\ completed' \in (0 .. Day) \cup {None}
        /\ started' \in 0 .. Day /\ listed' \in 0 .. OldAge
    BY <2>2, <2>3, TimeAssumption DEF Inductive, TypeOK
  <2> QED BY <1>0, <2>1, <2>2, <2>4 DEF Inductive, TypeOK
<1>2. RowsAgree' /\ RefreshedOnce'
  BY <1>0, <1>1, RowsStay DEF rowVars, Inductive, RowsAgree
<1>3. PlanIsSound'
  BY <1>0
  DEF Inductive, PlanIsSound, Start, Settle, Begin, Check, ApplyFails, Record, RecordFails,
      loopVars, NoPlan, Expired
<1>4. TimesInOrder'
  BY TimeAssumption
  DEF Inductive, TypeOK, TimesInOrder, Running, Start, Settle, Begin, Check, ApplyFails, Record,
      RecordFails, loopVars
<1>5. SweptSoFar'
  BY <1>0
  DEF Inductive, SweptSoFar, GoneOrFailed, Start, Settle, Begin, Check, ApplyFails, Record,
      RecordFails, loopVars
<1>6. Swept'
  <2>1. CASE Record
    BY <1>0, <2>1, TimeAssumption
    DEF Inductive, TypeOK, Swept, SweptSoFar, GoneOrFailed, TimesInOrder, Running, Record, OldAge
  <2>2. CASE UNCHANGED completed BY <1>0, <2>2 DEF Inductive, Swept, GoneOrFailed
  <2> QED
    BY <2>1, <2>2 DEF Start, Settle, Begin, Check, ApplyFails, RecordFails, loopVars
<1> QED BY <1>1, <1>2, <1>3, <1>4, <1>5, <1>6 DEF Inductive

LEMMA StopKeeps == Inductive /\ Stop => Inductive'
<1> SUFFICES ASSUME Inductive, Stop PROVE Inductive'
  OBVIOUS
<1>0. UNCHANGED <<owner, age, kept, status, refreshOf, current, completed>> /\ UNCHANGED rowVars
  BY DEF Stop, rowVars
<1>1. TypeOK' BY <1>0 DEF Inductive, TypeOK, Stop, NoPlan, Kinds
<1>2. RowsAgree' /\ RefreshedOnce' BY <1>0, <1>1, RowsStay DEF Stop
<1>3. PlanIsSound' /\ TimesInOrder' /\ SweptSoFar'
  BY DEF Stop, PlanIsSound, TimesInOrder, SweptSoFar, Running, NoPlan
<1>4. Swept' BY <1>0 DEF Inductive, Swept, GoneOrFailed
<1> QED BY <1>1, <1>2, <1>3, <1>4 DEF Inductive

LEMMA ReadersKeep ==
  ASSUME Inductive, NEW q \in Readers, Answer(q) \/ \E r \in Ids : Read(q, r)
  PROVE  Inductive'
<1>0. UNCHANGED <<rowVars, loopVars, settled>> BY DEF Answer, Read
<1>1. TypeOK'
  <2>1. /\ reading' \in [Readers -> [id : Ids, payload : BOOLEAN] \cup {None}]
        /\ served' \in [Readers -> Ids \cup {None}]
    <3>1. CASE \E r \in Ids : Read(q, r)
      BY <3>1 DEF Inductive, TypeOK, Read
    <3>2. CASE Answer(q)
      <4>1. reading[q] \in [id : Ids, payload : BOOLEAN]
        BY <3>2 DEF Inductive, TypeOK, Answer
      <4> QED BY <3>2, <4>1 DEF Inductive, TypeOK, Answer
    <3> QED BY <3>1, <3>2
  <2> QED BY <1>0, <2>1 DEF Inductive, TypeOK, rowVars, loopVars
<1>2. \A p \in Readers : reading'[p] # None => reading'[p].id \in Written /\ served'[p] = None
  BY DEF Inductive, TypeOK, RowsAgree, Answer, Read
<1>3. RowsAgree' /\ RefreshedOnce' BY <1>0, <1>1, <1>2, RowsStay
<1>4. PlanIsSound' /\ TimesInOrder' /\ SweptSoFar' /\ Swept'
  BY <1>0
  DEF Inductive, rowVars, loopVars, PlanIsSound, TimesInOrder, SweptSoFar, Swept,
      GoneOrFailed, Running, NoPlan, Expired
<1> QED BY <1>1, <1>3, <1>4 DEF Inductive

LEMMA ListKeeps == Inductive /\ List => Inductive'
<1> SUFFICES ASSUME Inductive, List PROVE Inductive'
  OBVIOUS
<1>0. /\ UNCHANGED rowVars
      /\ UNCHANGED <<owner, age, kept, status, refreshOf, current, reading, served, settled,
                     completed, started>>
      /\ phase = "list" /\ phase' = "apply" /\ listed' = 0
  BY DEF List, rowVars, readerVars
<1>1. PICK orphans \in SUBSET Items, offline \in SUBSET Items :
          plan' = [r \in Ids |-> Planned(r, orphans, offline)]
  BY DEF List
<1>2. \A r \in Ids : /\ Planned(r, orphans, offline) \in Kinds
                     /\ Planned(r, orphans, offline) # "none" => r \in kept
                     /\ Planned(r, orphans, offline) = "purge" => Expired(r)
                     /\ r \in kept /\ Expired(r) =>
                            Planned(r, orphans, offline) \in {"purge", "failed"}
  BY DEF Planned, Kinds
<1>3. TypeOK' BY <1>0, <1>1, <1>2, TimeAssumption DEF Inductive, TypeOK, OldAge
<1>4. RowsAgree' /\ RefreshedOnce' BY <1>0, <1>3, RowsStay DEF Inductive, RowsAgree
<1>5. PlanIsSound' BY <1>0, <1>1, <1>2 DEF PlanIsSound, Expired
<1>6. TimesInOrder' /\ Swept'
  BY <1>0 DEF Inductive, TypeOK, TimesInOrder, Swept, GoneOrFailed, Running
<1>7. SweptSoFar'
  <2> SUFFICES ASSUME NEW r \in kept
               PROVE  plan'[r] \in {"purge", "failed"} \/ age'[r] < ExpiresAfter + listed'
    BY <1>0 DEF SweptSoFar
  <2>1. r \in Ids BY DEF Inductive, TypeOK
  <2>2. CASE Expired(r) BY <1>1, <1>2, <2>1, <2>2
  <2>3. CASE ~Expired(r)
    BY <1>0, <2>1, <2>3, TimeAssumption DEF Expired, Inductive, TypeOK, OldAge
  <2> QED BY <2>2, <2>3
<1> QED BY <1>3, <1>4, <1>5, <1>6, <1>7 DEF Inductive

\* What applying a plan does: the purged rows lose their payload, every
\* refreshed row has an heir of its own, what failed is marked, and everything
\* else stays.
AppliedAs(purged, refreshed, heir) ==
    /\ purged \subseteq Wanted("purge") /\ refreshed \subseteq Timely
    /\ heir \in [refreshed -> Ids \ Written]
    /\ \A r, s \in refreshed : heir[r] = heir[s] => r = s
    /\ \A r \in refreshed :
           owner'[heir[r]] = owner[r] /\ refreshOf'[heir[r]] = r /\ age'[heir[r]] = listed
    /\ \A s \in Ids : (\A r \in refreshed : heir[r] # s) =>
           owner'[s] = owner[s] /\ refreshOf'[s] = refreshOf[s] /\ age'[s] = age[s]
    /\ kept' = (kept \ purged) \cup {s \in Ids : \E r \in refreshed : heir[r] = s}
    /\ \A i \in Items :
           current'[i] = IF current[i] \in refreshed THEN heir[current[i]] ELSE current[i]
    /\ \A r \in Ids : r \notin purged /\ r \notin refreshed =>
           status'[r] = IF plan[r] # "none" THEN "failed" ELSE status[r]

LEMMA ApplyEffect ==
  ASSUME Apply
  PROVE  /\ \E purged, refreshed \in SUBSET Ids :
                \E heir \in [refreshed -> Ids \ Written] : AppliedAs(purged, refreshed, heir)
         /\ owner' = [s \in Ids |-> owner'[s]]
         /\ refreshOf' = [s \in Ids |-> refreshOf'[s]]
         /\ age' = [s \in Ids |-> age'[s]]
         /\ current' = [i \in Items |-> current'[i]]
         /\ status \in [Ids -> {"none", "refreshed", "failed", "purged"}] =>
                status' \in [Ids -> {"none", "refreshed", "failed", "purged"}]
<1>1. PICK unlucky \in SUBSET Ids :
          LET purged == Wanted("purge") \ unlucky
              refreshed == Timely \ unlucky
              failed == {r \in Ids : plan[r] # "none"} \ (purged \cup refreshed)
          IN \E heir \in [refreshed -> Ids \ Written] :
             /\ \A r, s \in refreshed : heir[r] = heir[s] => r = s
             /\ LET Old(s) == {r \in refreshed : heir[r] = s} IN
                /\ owner' = [s \in Ids |->
                       IF Old(s) = {} THEN owner[s] ELSE owner[CHOOSE r \in Old(s) : TRUE]]
                /\ refreshOf' = [s \in Ids |->
                       IF Old(s) = {} THEN refreshOf[s] ELSE CHOOSE r \in Old(s) : TRUE]
                /\ age' = [s \in Ids |-> IF Old(s) = {} THEN age[s] ELSE listed]
                /\ kept' = (kept \ purged) \cup {s \in Ids : Old(s) # {}}
             /\ current' = [i \in Items |->
                    IF current[i] \in refreshed THEN heir[current[i]] ELSE current[i]]
             /\ status' = [r \in Ids |->
                    IF r \in purged THEN "purged"
                    ELSE IF r \in refreshed THEN "refreshed"
                    ELSE IF r \in failed THEN "failed" ELSE status[r]]
  BY DEF Apply
<1> DEFINE purged == Wanted("purge") \ unlucky
           refreshed == Timely \ unlucky
           failed == {r \in Ids : plan[r] # "none"} \ (purged \cup refreshed)
<1>2. PICK heir \in [refreshed -> Ids \ Written] :
          /\ \A r, s \in refreshed : heir[r] = heir[s] => r = s
          /\ LET Old(s) == {r \in refreshed : heir[r] = s} IN
             /\ owner' = [s \in Ids |->
                    IF Old(s) = {} THEN owner[s] ELSE owner[CHOOSE r \in Old(s) : TRUE]]
             /\ refreshOf' = [s \in Ids |->
                    IF Old(s) = {} THEN refreshOf[s] ELSE CHOOSE r \in Old(s) : TRUE]
             /\ age' = [s \in Ids |-> IF Old(s) = {} THEN age[s] ELSE listed]
             /\ kept' = (kept \ purged) \cup {s \in Ids : Old(s) # {}}
          /\ current' = [i \in Items |->
                 IF current[i] \in refreshed THEN heir[current[i]] ELSE current[i]]
          /\ status' = [r \in Ids |->
                 IF r \in purged THEN "purged"
                 ELSE IF r \in refreshed THEN "refreshed"
                 ELSE IF r \in failed THEN "failed" ELSE status[r]]
  BY <1>1
<1> DEFINE Old(s) == {r \in refreshed : heir[r] = s}
<1>3. purged \in SUBSET Ids /\ refreshed \in SUBSET Ids BY DEF Wanted, Timely
<1>4. ASSUME NEW r \in refreshed
      PROVE  heir[r] \in Ids /\ Old(heir[r]) # {} /\ (CHOOSE x \in Old(heir[r]) : TRUE) = r
  <2>1. Old(heir[r]) = {r} BY <1>2
  <2> QED BY <2>1, <1>2
<1>5. \A s \in Ids : (\A r \in refreshed : heir[r] # s) <=> Old(s) = {}
  OBVIOUS
<1> HIDE DEF purged, refreshed, failed
<1>6. \A r \in refreshed :
          owner'[heir[r]] = owner[r] /\ refreshOf'[heir[r]] = r /\ age'[heir[r]] = listed
  BY <1>2, <1>4
<1>7. \A s \in Ids : (\A r \in refreshed : heir[r] # s) =>
          owner'[s] = owner[s] /\ refreshOf'[s] = refreshOf[s] /\ age'[s] = age[s]
  BY <1>2, <1>5
<1>8. kept' = (kept \ purged) \cup {s \in Ids : \E r \in refreshed : heir[r] = s}
  BY <1>2
<1>9. \A r \in Ids : r \notin purged /\ r \notin refreshed =>
          status'[r] = IF plan[r] # "none" THEN "failed" ELSE status[r]
  BY <1>2 DEF failed
<1>10. AppliedAs(purged, refreshed, heir)
  <2>1. purged \subseteq Wanted("purge") /\ refreshed \subseteq Timely BY DEF purged, refreshed
  <2> QED BY <1>2, <1>6, <1>7, <1>8, <1>9, <2>1 DEF AppliedAs
<1>11. status \in [Ids -> {"none", "refreshed", "failed", "purged"}] =>
           status' \in [Ids -> {"none", "refreshed", "failed", "purged"}]
  BY <1>2
<1>12. /\ owner' = [s \in Ids |-> owner'[s]]
       /\ refreshOf' = [s \in Ids |-> refreshOf'[s]]
       /\ age' = [s \in Ids |-> age'[s]]
       /\ current' = [i \in Items |-> current'[i]]
  BY <1>2
<1>13. \E P, R \in SUBSET Ids : \E h \in [R -> Ids \ Written] : AppliedAs(P, R, h)
  <2> HIDE DEF Old
  <2> QED BY <1>3, <1>10
<1> QED BY <1>11, <1>12, <1>13

LEMMA ApplyKeeps == Inductive /\ Apply => Inductive'
<1> SUFFICES ASSUME Inductive, Apply PROVE Inductive'
  OBVIOUS
<1>0. /\ UNCHANGED <<reading, served, settled, completed, started, listed>>
      /\ phase = "apply" /\ phase' = "record" /\ plan' = NoPlan
  BY DEF Apply, readerVars
<1>1. PICK purged \in SUBSET Ids, refreshed \in SUBSET Ids :
          \E heir \in [refreshed -> Ids \ Written] : AppliedAs(purged, refreshed, heir)
  BY ApplyEffect
<1>2. PICK heir \in [refreshed -> Ids \ Written] : AppliedAs(purged, refreshed, heir)
  BY <1>1
<1> DEFINE Heirs == {s \in Ids : \E r \in refreshed : heir[r] = s}
\* What is refreshed is written and current, what is purged has expired, and
\* heirs are new.
<1>3. /\ \A r \in refreshed : r \in Ids /\ r \in Written /\ owner[r] \in Items
                              /\ current[owner[r]] = r
                              /\ heir[r] \in Ids /\ heir[r] \notin Written
      /\ \A r \in purged : r \in Ids /\ plan[r] = "purge" /\ Expired(r) /\ r \in kept
      /\ \A s \in Heirs : s \in Ids /\ s \notin Written
  BY <1>2 DEF AppliedAs, Timely, Wanted, Inductive, TypeOK, PlanIsSound, RowsAgree, Written
<1>4. \A s \in Ids : s \notin Heirs =>
          owner'[s] = owner[s] /\ refreshOf'[s] = refreshOf[s] /\ age'[s] = age[s]
  BY <1>2 DEF AppliedAs
<1>5. \A r \in refreshed :
          /\ heir[r] \in Heirs
          /\ owner'[heir[r]] = owner[r] /\ refreshOf'[heir[r]] = r /\ age'[heir[r]] = listed
  BY <1>2, <1>3 DEF AppliedAs
<1>6. \A s \in Heirs : \E r \in refreshed : s = heir[r]
  OBVIOUS
<1>7. kept' = (kept \ purged) \cup Heirs
  BY <1>2 DEF AppliedAs
<1>8. \A i \in Items :
          current'[i] = IF current[i] \in refreshed THEN heir[current[i]] ELSE current[i]
  BY <1>2 DEF AppliedAs
<1>9. \A r, s \in refreshed : heir[r] = heir[s] => r = s
  BY <1>2 DEF AppliedAs
<1> HIDE DEF Heirs
<1>10. TypeOK'
  <2>1. \A s \in Ids : /\ owner'[s] \in Items \cup {None}
                       /\ refreshOf'[s] \in Ids \cup {None}
                       /\ age'[s] \in 0 .. OldAge
    BY <1>3, <1>4, <1>5, <1>6 DEF Inductive, TypeOK
  <2>2. \A i \in Items : current'[i] \in Ids \cup {None}
    BY <1>3, <1>8 DEF Inductive, TypeOK
  <2>3. /\ owner' \in [Ids -> Items \cup {None}]
        /\ refreshOf' \in [Ids -> Ids \cup {None}]
        /\ age' \in [Ids -> 0 .. OldAge]
        /\ current' \in [Items -> Ids \cup {None}]
        /\ status' \in [Ids -> {"none", "refreshed", "failed", "purged"}]
    BY <2>1, <2>2, ApplyEffect DEF Inductive, TypeOK
  <2>4. kept' \in SUBSET Ids BY <1>3, <1>7 DEF Inductive, TypeOK
  <2>5. plan' \in [Ids -> Kinds] BY <1>0 DEF NoPlan, Kinds
  <2> QED BY <1>0, <2>3, <2>4, <2>5 DEF Inductive, TypeOK
<1>11. Written' = Written \cup Heirs
  BY <1>3, <1>4, <1>5, <1>6, NoneAssumption DEF Written
<1>12. RowsAgree'
  <2>1. kept' \subseteq Written' BY <1>7, <1>11 DEF Inductive, RowsAgree
  <2>2. ASSUME NEW r \in Written', r \notin kept' PROVE Expired(r)'
    <3>1. r \in Written /\ r \notin Heirs /\ r \in Ids BY <1>7, <1>11, <2>2 DEF Written
    <3>2. Expired(r) BY <1>3, <1>7, <2>2, <3>1 DEF Inductive, RowsAgree
    <3> QED BY <1>4, <3>1, <3>2 DEF Expired
  <2>3. ASSUME NEW i \in Items, current'[i] # None PROVE owner'[current'[i]] = i
    <3>1. CASE current[i] \in refreshed
      BY <1>3, <1>5, <1>8, <3>1, NoneAssumption DEF Inductive, RowsAgree
    <3>2. CASE current[i] \notin refreshed
      <4>1. current'[i] = current[i] /\ current[i] \in Ids /\ owner[current[i]] = i
        BY <1>8, <2>3, <3>2 DEF Inductive, TypeOK, RowsAgree
      <4>2. current[i] \notin Heirs BY <1>3, <4>1, NoneAssumption DEF Written
      <4> QED BY <1>4, <4>1, <4>2
    <3> QED BY <3>1, <3>2
  <2>4. ASSUME NEW r \in Ids, refreshOf'[r] # None
        PROVE  r \in Written' /\ refreshOf'[r] \in Written'
    <3>1. CASE r \in Heirs BY <1>3, <1>5, <1>6, <1>11, <3>1
    <3>2. CASE r \notin Heirs BY <1>4, <1>11, <2>4, <3>2 DEF Inductive, RowsAgree
    <3> QED BY <3>1, <3>2
  <2>5. \A q \in Readers : reading'[q] # None => reading'[q].id \in Written' /\ served'[q] = None
    BY <1>0, <1>11 DEF Inductive, RowsAgree
  <2> QED BY <2>1, <2>2, <2>3, <2>4, <2>5 DEF RowsAgree
<1>13. RefreshedOnce'
  \* A row that is refreshed now was not refreshed before.
  <2>1. ASSUME NEW r \in Ids, NEW x \in refreshed PROVE refreshOf[r] # x
    BY <1>3, NoneAssumption DEF Inductive, RefreshedOnce
  <2>2. ASSUME NEW r \in Ids, NEW s \in Ids, refreshOf'[r] # None, refreshOf'[r] = refreshOf'[s]
        PROVE  r = s
    <3>1. CASE r \in Heirs /\ s \in Heirs BY <1>5, <1>6, <2>2, <3>1
    <3>2. CASE r \in Heirs /\ s \notin Heirs BY <1>4, <1>5, <1>6, <2>1, <2>2, <3>2
    <3>3. CASE r \notin Heirs /\ s \in Heirs BY <1>4, <1>5, <1>6, <2>1, <2>2, <3>3
    <3>4. CASE r \notin Heirs /\ s \notin Heirs
      BY <1>4, <2>2, <3>4 DEF Inductive, RefreshedOnce
    <3> QED BY <3>1, <3>2, <3>3, <3>4
  <2>3. ASSUME NEW r \in Ids, refreshOf'[r] # None, NEW i \in Items
        PROVE  current'[i] # refreshOf'[r]
    <3>1. refreshOf'[r] \in Written
      <4>1. CASE r \in Heirs BY <1>3, <1>5, <1>6, <4>1
      <4>2. CASE r \notin Heirs BY <1>4, <2>3, <4>2 DEF Inductive, RowsAgree
      <4> QED BY <4>1, <4>2
    <3>2. CASE current[i] \in refreshed BY <1>3, <1>8, <3>1, <3>2
    <3>3. CASE current[i] \notin refreshed
      <4>1. current'[i] = current[i] BY <1>8, <3>3
      <4>2. CASE r \in Heirs BY <1>5, <1>6, <3>3, <4>1, <4>2
      <4>3. CASE r \notin Heirs BY <1>4, <2>3, <4>1, <4>3 DEF Inductive, RefreshedOnce
      <4> QED BY <4>2, <4>3
    <3> QED BY <3>2, <3>3
  <2> QED BY <2>2, <2>3 DEF RefreshedOnce
<1>14. PlanIsSound' BY <1>0 DEF PlanIsSound, NoPlan
<1>15. TimesInOrder' BY <1>0 DEF Inductive, TimesInOrder, Running
<1>16. ASSUME NEW r \in kept'
       PROVE  \/ r \in Heirs /\ age'[r] = listed
              \/ r \in kept /\ r \notin purged /\ age'[r] = age[r] /\ r \in Ids
  BY <1>3, <1>4, <1>5, <1>6, <1>7 DEF Inductive, TypeOK, RowsAgree
\* What was refreshed had not expired, and what else was planned and stays is
\* marked.
<1>17. ASSUME NEW r \in kept, r \in Ids, r \notin purged, age'[r] = age[r]
       PROVE  /\ age'[r] < ExpiresAfter + listed \/ status'[r] = "failed"
              /\ status[r] = "failed" => status'[r] = "failed" \/ age'[r] < ExpiresAfter + listed
  <2>1. CASE r \in refreshed
    <3>1. plan[r] = "refresh" BY <1>2, <2>1 DEF AppliedAs, Timely, Wanted
    <3> QED BY <1>0, <1>17, <3>1 DEF Inductive, SweptSoFar
  <2>2. CASE r \notin refreshed
    <3>1. status'[r] = IF plan[r] # "none" THEN "failed" ELSE status[r]
      BY <1>2, <1>17, <2>2 DEF AppliedAs
    <3> QED BY <1>0, <1>17, <3>1 DEF Inductive, SweptSoFar
  <2> QED BY <2>1, <2>2
<1>18. SweptSoFar'
  <2> SUFFICES ASSUME NEW r \in kept'
               PROVE  age'[r] < ExpiresAfter + listed \/ status'[r] = "failed"
    BY <1>0 DEF SweptSoFar, GoneOrFailed
  <2>1. CASE age'[r] = listed BY <2>1, TimeAssumption DEF Inductive, TypeOK, OldAge
  <2>2. CASE r \in kept /\ r \notin purged /\ age'[r] = age[r] /\ r \in Ids
    BY <1>17, <2>2
  <2> QED BY <1>16, <2>1, <2>2
<1>19. Swept'
  <2> SUFFICES ASSUME completed \notin {None, Day}, NEW r \in kept'
               PROVE  age'[r] < ExpiresAfter + completed \/ status'[r] = "failed"
    BY <1>0 DEF Swept, GoneOrFailed
  <2>1. listed <= completed /\ completed \in Nat /\ listed \in Nat
    BY <1>0, TimeAssumption DEF Inductive, TypeOK, TimesInOrder, Running, OldAge
  <2>2. CASE age'[r] = listed BY <2>1, <2>2, TimeAssumption
  <2>3. CASE r \in kept /\ r \notin purged /\ age'[r] = age[r] /\ r \in Ids
    <3>1. age[r] \in Nat BY <2>3 DEF Inductive, TypeOK, OldAge
    <3> QED BY <1>17, <2>1, <2>3, <3>1, TimeAssumption
  <2> QED BY <1>16, <2>2, <2>3
<1> QED
  BY <1>10, <1>12, <1>13, <1>14, <1>15, <1>18, <1>19 DEF Inductive

(******************************************************************************)
(* The theorems.                                                              *)
(******************************************************************************)

LEMMA StepInductive == Inductive /\ [Next]_vars => Inductive'
<1> SUFFICES ASSUME Inductive, [Next]_vars PROVE Inductive'
  OBVIOUS
<1>1. CASE Tick BY <1>1, TickKeeps
<1>2. CASE Stop BY <1>2, StopKeeps
<1>3. CASE Start \/ Settle \/ Begin \/ Check \/ ApplyFails \/ Record \/ RecordFails
  BY <1>3, LoopKeeps
<1>4. CASE List BY <1>4, ListKeeps
<1>5. CASE Apply BY <1>5, ApplyKeeps
<1>6. CASE \E i \in Items, r \in Ids, late \in 0 .. 1 : Select(i, r, late)
  BY <1>6, SelectKeeps
<1>7. CASE (\E q \in Readers, r \in Ids : Read(q, r)) \/ \E q \in Readers : Answer(q)
  BY <1>7, ReadersKeep
<1>8. CASE UNCHANGED vars
  BY <1>8
  DEF vars, rowVars, loopVars, readerVars, Inductive, TypeOK, RowsAgree, RefreshedOnce, PlanIsSound,
      TimesInOrder, SweptSoFar, Swept, GoneOrFailed, Written, Expired, Running, NoPlan
<1> QED BY <1>1, <1>2, <1>3, <1>4, <1>5, <1>6, <1>7, <1>8 DEF Next, Maintenance

\* Every part of the inductive invariant, types included, holds of every state
\* the loop, its faults and the requests reach.
THEOREM Invariance == Spec => []Inductive
<1> QED BY InitInductive, StepInductive, PTL DEF Spec

\* A revision is refreshed once, whatever part of a run fails, and what was
\* refreshed is not current (catalog/commands.py compares the current revision
\* before it appends).
THEOREM RefreshesHappenOnce == Spec => []RefreshedOnce
<1>1. Inductive => RefreshedOnce BY DEF Inductive
<1> QED BY <1>1, Invariance, PTL

\* When a completion is recorded (platform/maintenance.py), everything that had
\* expired when the run began has lost its payload or is marked as failed.
THEOREM CompletionsAreTrue == Spec => []Swept
<1>1. Inductive => Swept BY DEF Inductive
<1> QED BY <1>1, Invariance, PTL

\* Whatever the faults, and wherever the process ends and starts again, a run is
\* skipped (run_if_daily_due) only when every payload that expired a day ago is
\* gone or marked as failed.
THEOREM SkipsAreSafe == Spec => SkipsOnlyWhenSwept
<1> DEFINE Step == phase = "awake" /\ phase' = "asleep" => \A r \in kept : GoneOrFailed(r, Day)
<1>1. Inductive /\ [Next]_vars => [Step]_vars
  <2> SUFFICES ASSUME Inductive, Next, phase = "awake", phase' = "asleep", NEW r \in kept
               PROVE  GoneOrFailed(r, Day)
    OBVIOUS
  <2>1. Check
    BY DEF Next, Maintenance, Tick, Settle, Start, Stop, Begin, List, Apply, ApplyFails, Record,
           RecordFails, Select, Read, Answer, loopVars
  <2>2. completed \notin {None, Day} BY <2>1 DEF Check
  <2>3. GoneOrFailed(r, completed) BY <2>2 DEF Inductive, Swept
  <2>4. /\ completed \in Nat /\ completed < Day /\ Day \in Nat
        /\ ExpiresAfter \in Nat /\ age[r] \in Nat
    BY <2>2, TimeAssumption DEF Inductive, TypeOK, OldAge
  <2> QED BY <2>3, <2>4 DEF GoneOrFailed
<1> HIDE DEF Step
<1>2. Spec => [][Step]_vars BY <1>1, Invariance, PTL DEF Spec
<1> QED BY <1>2 DEF SkipsOnlyWhenSwept, Step

\* No export answers with metadata that has expired or that was purged after
\* the export had read it (exports/metadata.py).
THEOREM ExportsAreInTime == Spec => ServedInTime
<1> DEFINE Step == \A q \in Readers : served'[q] # None /\ reading[q] # None =>
                       served'[q] \in kept /\ ~Expired(served'[q])
<1>1. Inductive /\ [Next]_vars => [Step]_vars
  <2> SUFFICES ASSUME Inductive, Next, NEW q \in Readers, served'[q] # None, reading[q] # None
               PROVE  served'[q] \in kept /\ ~Expired(served'[q])
    OBVIOUS
  <2>1. Answer(q)
    BY NoneAssumption
    DEF Inductive, RowsAgree, TypeOK, Next, Maintenance, Tick, Settle, Start, Stop, Begin, Check, List,
        Apply, ApplyFails, Record, RecordFails, Select, Read, Answer, readerVars
  <2>2. /\ reading[q].payload /\ ~Expired(reading[q].id)
        /\ served'[q] = reading[q].id
    BY <2>1 DEF Answer, Inductive, TypeOK
  <2>3. reading[q].id \in Written BY DEF Inductive, RowsAgree
  <2> QED BY <2>2, <2>3 DEF Inductive, RowsAgree
<1> HIDE DEF Step
<1>2. Spec => [][Step]_vars BY <1>1, Invariance, PTL DEF Spec
<1> QED BY <1>2 DEF ServedInTime, Step
================================================================================
