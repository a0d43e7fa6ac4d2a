--------------------------- MODULE AcquisitionProofs ---------------------------
(******************************************************************************)
(* Proofs about Acquisition for every set of calls, reconcilers, keys,        *)
(* tokens, modules and every choice of faults.                                *)
(******************************************************************************)
EXTENDS Acquisition, FiniteSetTheorems, TLAPS

(******************************************************************************)
(* Type correctness.                                                          *)
(******************************************************************************)

LEMMA InitTypeOK == Init => TypeOK
  BY NoneAssumption
  DEF Init, TypeOK, PcTypeOK, AnswerTypeOK, Threads, CallStates,
      ReconcilerStates, Waiting, Submitting, Verdicts, Replies, NoReply,
      Statuses, Settled

\* Moving a thread keeps every program counter in its range.
LEMMA GotoCallType ==
  ASSUME PcTypeOK, NEW c \in Calls, NEW s \in CallStates, Goto(c, s)
  PROVE  PcTypeOK'
  BY ThreadsAssumption DEF PcTypeOK, Goto, Threads

LEMMA GotoReconcilerType ==
  ASSUME PcTypeOK, NEW r \in Reconcilers, NEW s \in ReconcilerStates, Goto(r, s)
  PROVE  PcTypeOK'
  BY ThreadsAssumption DEF PcTypeOK, Goto, Threads

LEMMA DecideType ==
  ASSUME TypeOK, NEW p \in Threads, NEW v \in Verdicts, Decide(p, v)
  PROVE  PcTypeOK' /\ verdict' \in [Threads -> Verdicts \cup {None}]
<1>1. Goto(p, "settling") BY DEF Decide
<1>2. PcTypeOK'
  <2>1. CASE p \in Calls
    BY <1>1, <2>1, GotoCallType DEF TypeOK, CallStates, Submitting
  <2>2. CASE p \in Reconcilers
    BY <1>1, <2>2, GotoReconcilerType DEF TypeOK, ReconcilerStates
  <2> QED BY <2>1, <2>2 DEF Threads
<1>3. verdict' \in [Threads -> Verdicts \cup {None}] BY DEF Decide, TypeOK
<1> QED BY <1>2, <1>3

LEMMA AnswerType ==
  ASSUME TypeOK, NEW p \in Threads, NEW id \in Calls \cup {None},
         NEW s \in Statuses, Answer(p, id, s)
  PROVE  PcTypeOK' /\ AnswerTypeOK'
<1>1. PcTypeOK'
  <2>1. CASE p \in Calls
    BY <2>1, GotoCallType DEF Answer, TypeOK, CallStates
  <2>2. CASE p \in Reconcilers
    <3>1. p \notin Calls BY <2>2, ThreadsAssumption
    <3> QED BY <2>2, <3>1, GotoReconcilerType DEF Answer, TypeOK, ReconcilerStates
  <2> QED BY <2>1, <2>2 DEF Threads
<1>2. [id |-> id, status |-> s] \in Replies BY DEF Replies
<1>3. AnswerTypeOK' BY <1>2 DEF Answer, TypeOK, AnswerTypeOK
<1> QED BY <1>1, <1>3

LEMMA StepTypeOK == TypeOK /\ ReconcilersOnOwnRows /\ [Next]_vars => TypeOK'
<1> SUFFICES ASSUME TypeOK, ReconcilersOnOwnRows, [Next]_vars PROVE TypeOK'
  OBVIOUS
<1> USE DEF threadVars, cacheVars, rowVars
<1>a. Calls \subseteq Threads /\ Reconcilers \subseteq Threads BY DEF Threads
<1>b. /\ "absent" \in Statuses /\ "pending" \in Statuses
      /\ "submitted" \in Statuses /\ "failed" \in Statuses
  BY DEF Statuses, Settled
<1>c. \A c \in Calls : status[c] \in Statuses BY DEF TypeOK
<1>d. FailureCodes \subseteq Verdicts /\ "submitted" \in Verdicts
  BY DEF Verdicts
<1>1. ASSUME NEW t \in Tokens, SearchReleases(t) \/ DropToken(t) PROVE TypeOK'
  BY <1>1 DEF SearchReleases, DropToken, TypeOK, PcTypeOK, AnswerTypeOK
<1>2. ASSUME NEW c \in Calls, NEW k \in Keys, NEW t \in Tokens, ReceiveSubmit(c, k, t)
      PROVE  TypeOK'
  <2>1. PcTypeOK'
    BY <1>2, GotoCallType DEF ReceiveSubmit, TypeOK, CallStates, Waiting
  <2> QED BY <1>2, <2>1 DEF ReceiveSubmit, TypeOK, AnswerTypeOK
<1>3. ASSUME NEW c \in Calls, SubmitStep(c) PROVE TypeOK'
  <2> USE GotoCallType, AnswerType, DecideType, <1>a, <1>b, <1>c, <1>d
  <2>1. CASE FindByIdempotency(c)
    <3>1. PcTypeOK' /\ AnswerTypeOK'
      BY <2>1 DEF FindByIdempotency, RowsWithKey, CallStates, Waiting, TypeOK, AnswerTypeOK
    <3> QED BY <2>1, <3>1 DEF FindByIdempotency, TypeOK
  <2>2. CASE CheckPrerequisites(c)
    <3>1. PcTypeOK' /\ AnswerTypeOK'
      BY <2>2 DEF CheckPrerequisites, CallStates, Waiting, TypeOK, AnswerTypeOK
    <3> QED BY <2>2, <3>1 DEF CheckPrerequisites, TypeOK
  <2>3. CASE InspectToken(c)
    <3>1. PcTypeOK' /\ AnswerTypeOK'
      BY <2>3 DEF InspectToken, CallStates, Waiting, TypeOK, AnswerTypeOK
    <3> QED BY <2>3, <3>1 DEF InspectToken, TypeOK
  <2>4. CASE CreatePendingIfAbsent(c)
    <3>1. PcTypeOK' /\ AnswerTypeOK'
      BY <2>4 DEF CreatePendingIfAbsent, RowsWithKey, CallStates, Submitting, TypeOK, AnswerTypeOK
    <3> QED BY <2>4, <3>1 DEF CreatePendingIfAbsent, TypeOK
  <2>5. CASE CreateIsBusy(c)
    <3>1. PcTypeOK' /\ AnswerTypeOK' BY <2>5 DEF CreateIsBusy
    <3> QED BY <2>5, <3>1 DEF CreateIsBusy, TypeOK
  <2>6. CASE TakeToken(c)
    <3>1. "release_search_token_expired" \in Verdicts
      BY DEF Verdicts, FailureCodes, UnsentFailures
    <3>2. PcTypeOK' /\ verdict' \in [Threads -> Verdicts \cup {None}]
      BY <2>6, <3>1 DEF TakeToken, CallStates, Submitting, TypeOK
    <3> QED BY <2>6, <3>2 DEF TakeToken, TypeOK, AnswerTypeOK
  <2>7. CASE ResolveArtifact(c)
    <3>1. "release_unresolved" \in Verdicts BY DEF Verdicts, FailureCodes, UnsentFailures
    <3>2. PcTypeOK' /\ verdict' \in [Threads -> Verdicts \cup {None}]
      BY <2>7, <3>1 DEF ResolveArtifact, CallStates, Submitting, TypeOK
    <3> QED BY <2>7, <3>2 DEF ResolveArtifact, TypeOK, AnswerTypeOK
  <2>8. CASE PostToClient(c)
    <3>1. "download_client_not_ready" \in Verdicts
      BY DEF Verdicts, FailureCodes, UnsentFailures
    <3>2. PcTypeOK' /\ verdict' \in [Threads -> Verdicts \cup {None}]
      BY <2>8, <3>1 DEF PostToClient, CallStates, Submitting, TypeOK
    <3> QED BY <2>8, <3>2 DEF PostToClient, TypeOK, AnswerTypeOK
  <2>9. CASE ReadAnswer(c)
    <3>1. "download_client_submission_failed" \in Verdicts
      BY DEF Verdicts, FailureCodes, SentFailures
    <3>2. PcTypeOK' /\ verdict' \in [Threads -> Verdicts \cup {None}]
      BY <2>9, <3>1 DEF ReadAnswer
    <3> QED BY <2>9, <3>2 DEF ReadAnswer, TypeOK, AnswerTypeOK
  <2>10. CASE TimeOut(c)
    <3>1. PcTypeOK' BY <2>10 DEF TimeOut, CallStates, Submitting, TypeOK
    <3> QED BY <2>10, <3>1 DEF TimeOut, TypeOK, AnswerTypeOK
  <2>11. CASE LoseAnswer(c)
    <3>1. "download_client_submission_failed" \in Verdicts
      BY DEF Verdicts, FailureCodes, SentFailures
    <3>2. PcTypeOK' /\ verdict' \in [Threads -> Verdicts \cup {None}]
      BY <2>11, <3>1 DEF LoseAnswer
    <3> QED BY <2>11, <3>2 DEF LoseAnswer, TypeOK, AnswerTypeOK
  <2> QED
    BY <1>3, <2>1, <2>2, <2>3, <2>4, <2>5, <2>6, <2>7, <2>8, <2>9, <2>10, <2>11
    DEF SubmitStep, SubmitOn
<1>4. ASSUME NEW r \in Reconcilers, NEW a \in Calls, Reconcile(r, a) PROVE TypeOK'
  <2>1. CASE Answer(r, a, status[a])
    BY <1>4, <2>1, <1>a, <1>c, AnswerType DEF Reconcile, TypeOK
  <2>2. CASE Goto(r, "looking") /\ target' = [target EXCEPT ![r] = a] /\ UNCHANGED reply
    <3>1. PcTypeOK' BY <2>2, GotoReconcilerType DEF TypeOK, ReconcilerStates
    <3> QED BY <1>4, <2>2, <3>1 DEF Reconcile, TypeOK, AnswerTypeOK
  <2> QED BY <1>4, <2>1, <2>2 DEF Reconcile
<1>5. ASSUME NEW p \in Threads, SettleStep(p) PROVE TypeOK'
  <2>0. Subject(p) \in Calls \cup {None}
    BY DEF Subject, Threads, TypeOK, AnswerTypeOK
  <2>1. CASE LookUp(p)
    <3>1. "submission_timeout_not_found" \in Verdicts /\ "manual_reconcile_not_found" \in Verdicts
      BY DEF Verdicts, FailureCodes, SentFailures
    <3>2. PcTypeOK' /\ AnswerTypeOK' /\ verdict' \in [Threads -> Verdicts \cup {None}]
      BY <2>0, <2>1, <3>1, <1>b, <1>d, AnswerType, DecideType
      DEF LookUp, TypeOK, AnswerTypeOK
    <3> QED BY <2>1, <3>2 DEF LookUp, TypeOK
  <2>2. CASE Transition(p)
    <3> DEFINE to == IF verdict[p] = "submitted" THEN "submitted" ELSE "failed"
    <3>1. verdict' \in [Threads -> Verdicts \cup {None}] BY <2>2 DEF Transition, TypeOK
    <3>2. CASE /\ status[Subject(p)] = "pending"
               /\ status' = [status EXCEPT ![Subject(p)] = to]
               /\ failure' = [failure EXCEPT ![Subject(p)] =
                                IF to = "failed" THEN verdict[p] ELSE None]
               /\ Answer(p, Subject(p), to)
      <4>1. PcTypeOK' /\ AnswerTypeOK' BY <3>2, <2>0, <1>b, AnswerType
      <4>2. status' \in [Calls -> Statuses] BY <3>2, <1>b DEF TypeOK
      <4>3. failure' \in [Calls -> FailureCodes \cup {None}]
        <5>1. to = "failed" => verdict[p] \in FailureCodes \cup {None}
          BY DEF TypeOK, Verdicts
        <5> QED BY <3>2, <5>1 DEF TypeOK
      <4> QED BY <2>2, <3>1, <4>1, <4>2, <4>3 DEF Transition, TypeOK
    <3>3. CASE /\ UNCHANGED <<status, failure>>
               /\ Answer(p, Subject(p), status[Subject(p)])
      <4>1. Subject(p) \in Calls
        BY <2>2 DEF Transition, Subject, Threads, ReconcilersOnOwnRows
      <4>2. PcTypeOK' /\ AnswerTypeOK' BY <3>3, <4>1, <1>c, AnswerType
      <4> QED BY <2>2, <3>1, <3>3, <4>2 DEF Transition, TypeOK
    <3> QED BY <2>2, <3>2, <3>3 DEF Transition
  <2>3. CASE TransitionIsBusy(p)
    BY <2>3, <1>b, AnswerType DEF TransitionIsBusy, TypeOK
  <2> QED BY <1>5, <2>1, <2>2, <2>3 DEF SettleStep
<1>6. ASSUME NEW a \in Calls, ClientHandles(a) \/ ClientRemoves(a) PROVE TypeOK'
  BY <1>6 DEF ClientHandles, ClientRemoves, TypeOK, PcTypeOK, AnswerTypeOK
<1>7. ASSUME NEW m \in Modules, Restart(m) PROVE TypeOK'
  BY <1>7, ThreadsAssumption
  DEF Restart, TypeOK, PcTypeOK, AnswerTypeOK, Threads, CallStates, ReconcilerStates
<1>8. CASE UNCHANGED vars BY <1>8 DEF vars, TypeOK, PcTypeOK, AnswerTypeOK
<1> QED BY <1>1, <1>2, <1>3, <1>4, <1>5, <1>6, <1>7, <1>8 DEF Next

(******************************************************************************)
(* The inductive invariant.                                                   *)
(******************************************************************************)

LEMMA InitInductive == Init => Inductive
<1> SUFFICES ASSUME Init PROVE Inductive
  OBVIOUS
<1>1. TypeOK BY InitTypeOK
<1>2. \A c \in Calls : /\ pc[c] = "idle" /\ ~Filed(c) /\ ~Posted(c)
                      /\ failure[c] = None /\ ~Holds(c)
  BY DEF Init, Filed, Posted, Holds, Threads
<1>3. \A p \in Threads : pc[p] = "idle" /\ reply[p].id = None /\ reply[p].status = "absent"
  BY DEF Init, NoReply
<1> QED
  BY <1>1, <1>2, <1>3, NoneIsNoVerdict
  DEF Inductive, RequestsKnown, RowsFollowThreads, OneAcquisitionPerKey,
      TokensTakenOnce, ReconcilersOnOwnRows, VerdictsJustified,
      SubmittedWasAccepted, UnsentFailuresAreOver, AnswersNameRows,
      SettledAnswersHold, Waiting, Submitting, Settled, Verdicts, FailureCodes,
      Threads, Filed

\* What an answer does to the replies.
LEMMA AnswerShape ==
  ASSUME TypeOK, NEW p \in Threads, NEW id, NEW s, Answer(p, id, s)
  PROVE  /\ reply'[p].id = id
         /\ reply'[p].status = s
         /\ \A q \in Threads : q # p => reply'[q] = reply[q]
  BY DEF Answer, TypeOK, AnswerTypeOK

\* A thread that answers with a filed row, saying of it what the row says, keeps
\* the answers right as long as rows stay filed and settled rows stay as they are.
LEMMA AnswersStayRight ==
  ASSUME Inductive, NEW p \in Threads, NEW id \in Calls, NEW s \in Statuses,
         Answer(p, id, s), s \in Settled => s = status'[id], Filed(id)', key' = key,
         p \in Calls => key[id] = key[p],
         \A a \in Calls : Filed(a) => Filed(a)',
         \A a \in Calls : status[a] \in Settled => status'[a] = status[a]
  PROVE  AnswersNameRows' /\ SettledAnswersHold'
<1>1. \A q \in Threads : reply[q].id \in Calls \cup {None} /\ reply[q].status \in Statuses
  BY DEF Inductive, TypeOK, AnswerTypeOK, Replies
<1>2. /\ reply'[p].id = id
      /\ reply'[p].status = s
      /\ \A q \in Threads : q # p => reply'[q] = reply[q]
  BY AnswerShape DEF Inductive
<1>3. \A c \in Calls : IF c = p THEN pc'[c] = "ended" ELSE pc'[c] = pc[c]
  BY DEF Inductive, TypeOK, PcTypeOK, Answer, Goto, Threads
<1>4. AnswersNameRows'
  BY <1>1, <1>2, <1>3, NoneAssumption DEF Inductive, AnswersNameRows, Filed, Threads
<1>5. SettledAnswersHold'
  BY <1>1, <1>2, NoneAssumption
  DEF Inductive, SettledAnswersHold, AnswersNameRows, Settled
<1> QED BY <1>4, <1>5

\* So do threads that answer nothing, and those that refuse a request.
LEMMA RepliesStayRight ==
  ASSUME Inductive, reply' = reply,
         \A c \in Calls : pc[c] = "ended" => pc'[c] = "ended" /\ key'[c] = key[c],
         \A a \in Calls : Filed(a) => key'[a] = key[a] /\ status'[a] = status[a]
  PROVE  AnswersNameRows' /\ SettledAnswersHold'
<1>1. \A q \in Threads : reply[q].id \in Calls \cup {None}
  BY DEF Inductive, TypeOK, AnswerTypeOK, Replies
<1>2. AnswersNameRows'
  BY <1>1 DEF Inductive, AnswersNameRows, Filed, Threads
<1>3. SettledAnswersHold'
  BY <1>1 DEF Inductive, SettledAnswersHold, AnswersNameRows, Settled, Filed
<1> QED BY <1>2, <1>3

LEMMA RefusalsStayRight ==
  ASSUME Inductive, NEW p \in Threads, Answer(p, None, "absent"),
         key' = key, status' = status
  PROVE  AnswersNameRows' /\ SettledAnswersHold'
<1>1. \A q \in Threads : reply[q].id \in Calls \cup {None}
  BY DEF Inductive, TypeOK, AnswerTypeOK, Replies
<1>2. /\ reply'[p].id = None
      /\ reply'[p].status = "absent"
      /\ \A q \in Threads : q # p => reply'[q] = reply[q]
  BY AnswerShape DEF Inductive
<1>3. \A c \in Calls : IF c = p THEN pc'[c] = "ended" ELSE pc'[c] = pc[c]
  BY DEF Inductive, TypeOK, PcTypeOK, Answer, Goto, Threads
<1>4. AnswersNameRows'
  BY <1>1, <1>2, <1>3 DEF Inductive, AnswersNameRows, Filed, Threads
<1>5. SettledAnswersHold'
  BY <1>1, <1>2 DEF Inductive, SettledAnswersHold, AnswersNameRows, Settled
<1> QED BY <1>4, <1>5

\* Where the threads are agrees with the requests, the rows and the client.
LEMMA StepThreads == Inductive /\ [Next]_vars => RequestsKnown' /\ RowsFollowThreads' /\ ReconcilersOnOwnRows'
<1> SUFFICES ASSUME Inductive, [Next]_vars PROVE RequestsKnown' /\ RowsFollowThreads' /\ ReconcilersOnOwnRows'
  OBVIOUS
<1> USE ThreadsAssumption, NoneAssumption, NoneIsNoVerdict
    DEF Inductive, TypeOK, PcTypeOK, AnswerTypeOK, Goto, Decide, Answer,
        threadVars, cacheVars, rowVars, Threads, Filed, Posted, Holds, Waiting,
        Unposted, Submitting, Subject, CallStates, ReconcilerStates, Settled,
        RequestsKnown, RowsFollowThreads
<1>1. ASSUME NEW t \in Tokens, SearchReleases(t) \/ DropToken(t)
      PROVE  RequestsKnown' /\ RowsFollowThreads' /\ ReconcilersOnOwnRows'
  BY <1>1 DEF SearchReleases, DropToken, ReconcilersOnOwnRows
<1>2. ASSUME NEW c \in Calls, NEW k \in Keys, NEW t \in Tokens, ReceiveSubmit(c, k, t)
      PROVE  RequestsKnown' /\ RowsFollowThreads' /\ ReconcilersOnOwnRows'
  BY <1>2 DEF ReceiveSubmit, ReconcilersOnOwnRows
<1>3. ASSUME NEW c \in Calls, FindByIdempotency(c)
      PROVE  RequestsKnown' /\ RowsFollowThreads' /\ ReconcilersOnOwnRows'
  BY <1>3 DEF FindByIdempotency, ReconcilersOnOwnRows, RowsWithKey
<1>4. ASSUME NEW c \in Calls, CheckPrerequisites(c)
      PROVE  RequestsKnown' /\ RowsFollowThreads' /\ ReconcilersOnOwnRows'
  BY <1>4 DEF CheckPrerequisites, ReconcilersOnOwnRows
<1>5. ASSUME NEW c \in Calls, InspectToken(c)
      PROVE  RequestsKnown' /\ RowsFollowThreads' /\ ReconcilersOnOwnRows'
  BY <1>5 DEF InspectToken, ReconcilersOnOwnRows
<1>6. ASSUME NEW c \in Calls, CreatePendingIfAbsent(c)
      PROVE  RequestsKnown' /\ RowsFollowThreads' /\ ReconcilersOnOwnRows'
  BY <1>6 DEF CreatePendingIfAbsent, ReconcilersOnOwnRows, RowsWithKey
<1>7. ASSUME NEW c \in Calls, CreateIsBusy(c)
      PROVE  RequestsKnown' /\ RowsFollowThreads' /\ ReconcilersOnOwnRows'
  BY <1>7 DEF CreateIsBusy, ReconcilersOnOwnRows
<1>8. ASSUME NEW c \in Calls, TakeToken(c)
      PROVE  RequestsKnown' /\ RowsFollowThreads' /\ ReconcilersOnOwnRows'
  BY <1>8 DEF TakeToken, ReconcilersOnOwnRows
<1>9. ASSUME NEW c \in Calls, ResolveArtifact(c)
      PROVE  RequestsKnown' /\ RowsFollowThreads' /\ ReconcilersOnOwnRows'
  BY <1>9 DEF ResolveArtifact, ReconcilersOnOwnRows
<1>10. ASSUME NEW c \in Calls, PostToClient(c)
      PROVE  RequestsKnown' /\ RowsFollowThreads' /\ ReconcilersOnOwnRows'
  BY <1>10 DEF PostToClient, ReconcilersOnOwnRows
<1>11. ASSUME NEW c \in Calls, ReadAnswer(c)
      PROVE  RequestsKnown' /\ RowsFollowThreads' /\ ReconcilersOnOwnRows'
  BY <1>11 DEF ReadAnswer, ReconcilersOnOwnRows
<1>12. ASSUME NEW c \in Calls, TimeOut(c)
      PROVE  RequestsKnown' /\ RowsFollowThreads' /\ ReconcilersOnOwnRows'
  BY <1>12 DEF TimeOut, ReconcilersOnOwnRows
<1>13. ASSUME NEW c \in Calls, LoseAnswer(c)
      PROVE  RequestsKnown' /\ RowsFollowThreads' /\ ReconcilersOnOwnRows'
  BY <1>13 DEF LoseAnswer, ReconcilersOnOwnRows
<1>14. ASSUME NEW r \in Reconcilers, NEW a \in Calls, Reconcile(r, a)
      PROVE  RequestsKnown' /\ RowsFollowThreads' /\ ReconcilersOnOwnRows'
  BY <1>14 DEF Reconcile, ReconcilersOnOwnRows
<1>15. ASSUME NEW p \in Threads, LookUp(p)
      PROVE  RequestsKnown' /\ RowsFollowThreads' /\ ReconcilersOnOwnRows'
  BY <1>15 DEF LookUp, ReconcilersOnOwnRows
<1>16. ASSUME NEW p \in Threads, Transition(p)
      PROVE  RequestsKnown' /\ RowsFollowThreads' /\ ReconcilersOnOwnRows'
  BY <1>16 DEF Transition, ReconcilersOnOwnRows
<1>17. ASSUME NEW p \in Threads, TransitionIsBusy(p)
      PROVE  RequestsKnown' /\ RowsFollowThreads' /\ ReconcilersOnOwnRows'
  BY <1>17 DEF TransitionIsBusy, ReconcilersOnOwnRows
<1>18. ASSUME NEW a \in Calls, ClientHandles(a) \/ ClientRemoves(a)
      PROVE  RequestsKnown' /\ RowsFollowThreads' /\ ReconcilersOnOwnRows'
  BY <1>18 DEF ClientHandles, ClientRemoves, ReconcilersOnOwnRows
<1>19. ASSUME NEW m \in Modules, Restart(m)
      PROVE  RequestsKnown' /\ RowsFollowThreads' /\ ReconcilersOnOwnRows'
  BY <1>19 DEF Restart, ReconcilersOnOwnRows
<1>20. CASE UNCHANGED vars
  BY <1>20 DEF vars, ReconcilersOnOwnRows
<1> QED
  BY <1>1, <1>2, <1>3, <1>4, <1>5, <1>6, <1>7, <1>8, <1>9, <1>10, <1>11, <1>12, <1>13, <1>14, <1>15, <1>16, <1>17, <1>18, <1>19, <1>20
  DEF Next, SubmitStep, SubmitOn, SettleStep

\* Keys and tokens are not shared.
LEMMA StepExclusive == Inductive /\ [Next]_vars => OneAcquisitionPerKey' /\ TokensTakenOnce'
<1> SUFFICES ASSUME Inductive, [Next]_vars PROVE OneAcquisitionPerKey' /\ TokensTakenOnce'
  OBVIOUS
<1> USE ThreadsAssumption, NoneAssumption, NoneIsNoVerdict
    DEF Inductive, TypeOK, PcTypeOK, AnswerTypeOK, Goto, Decide, Answer,
        threadVars, cacheVars, rowVars, Threads, Filed, Posted, Holds, Waiting,
        Unposted, Submitting, Subject, CallStates, ReconcilerStates, Settled,
        RequestsKnown, RowsFollowThreads
<1>1. ASSUME NEW t \in Tokens, SearchReleases(t) \/ DropToken(t)
      PROVE  OneAcquisitionPerKey' /\ TokensTakenOnce'
  BY <1>1 DEF SearchReleases, DropToken, OneAcquisitionPerKey, TokensTakenOnce
<1>2. ASSUME NEW c \in Calls, NEW k \in Keys, NEW t \in Tokens, ReceiveSubmit(c, k, t)
      PROVE  OneAcquisitionPerKey' /\ TokensTakenOnce'
  BY <1>2 DEF ReceiveSubmit, OneAcquisitionPerKey, TokensTakenOnce
<1>3. ASSUME NEW c \in Calls, FindByIdempotency(c)
      PROVE  OneAcquisitionPerKey' /\ TokensTakenOnce'
  BY <1>3 DEF FindByIdempotency, OneAcquisitionPerKey, TokensTakenOnce, RowsWithKey
<1>4. ASSUME NEW c \in Calls, CheckPrerequisites(c)
      PROVE  OneAcquisitionPerKey' /\ TokensTakenOnce'
  BY <1>4 DEF CheckPrerequisites, OneAcquisitionPerKey, TokensTakenOnce
<1>5. ASSUME NEW c \in Calls, InspectToken(c)
      PROVE  OneAcquisitionPerKey' /\ TokensTakenOnce'
  BY <1>5 DEF InspectToken, OneAcquisitionPerKey, TokensTakenOnce
<1>6. ASSUME NEW c \in Calls, CreatePendingIfAbsent(c)
      PROVE  OneAcquisitionPerKey' /\ TokensTakenOnce'
  BY <1>6 DEF CreatePendingIfAbsent, OneAcquisitionPerKey, TokensTakenOnce, RowsWithKey
<1>7. ASSUME NEW c \in Calls, CreateIsBusy(c)
      PROVE  OneAcquisitionPerKey' /\ TokensTakenOnce'
  BY <1>7 DEF CreateIsBusy, OneAcquisitionPerKey, TokensTakenOnce
<1>8. ASSUME NEW c \in Calls, TakeToken(c)
      PROVE  OneAcquisitionPerKey' /\ TokensTakenOnce'
  BY <1>8 DEF TakeToken, OneAcquisitionPerKey, TokensTakenOnce
<1>9. ASSUME NEW c \in Calls, ResolveArtifact(c)
      PROVE  OneAcquisitionPerKey' /\ TokensTakenOnce'
  BY <1>9 DEF ResolveArtifact, OneAcquisitionPerKey, TokensTakenOnce
<1>10. ASSUME NEW c \in Calls, PostToClient(c)
      PROVE  OneAcquisitionPerKey' /\ TokensTakenOnce'
  BY <1>10 DEF PostToClient, OneAcquisitionPerKey, TokensTakenOnce
<1>11. ASSUME NEW c \in Calls, ReadAnswer(c)
      PROVE  OneAcquisitionPerKey' /\ TokensTakenOnce'
  BY <1>11 DEF ReadAnswer, OneAcquisitionPerKey, TokensTakenOnce
<1>12. ASSUME NEW c \in Calls, TimeOut(c)
      PROVE  OneAcquisitionPerKey' /\ TokensTakenOnce'
  BY <1>12 DEF TimeOut, OneAcquisitionPerKey, TokensTakenOnce
<1>13. ASSUME NEW c \in Calls, LoseAnswer(c)
      PROVE  OneAcquisitionPerKey' /\ TokensTakenOnce'
  BY <1>13 DEF LoseAnswer, OneAcquisitionPerKey, TokensTakenOnce
<1>14. ASSUME NEW r \in Reconcilers, NEW a \in Calls, Reconcile(r, a)
      PROVE  OneAcquisitionPerKey' /\ TokensTakenOnce'
  BY <1>14 DEF Reconcile, OneAcquisitionPerKey, TokensTakenOnce
<1>15. ASSUME NEW p \in Threads, LookUp(p)
      PROVE  OneAcquisitionPerKey' /\ TokensTakenOnce'
  BY <1>15 DEF LookUp, OneAcquisitionPerKey, TokensTakenOnce
<1>16. ASSUME NEW p \in Threads, Transition(p)
      PROVE  OneAcquisitionPerKey' /\ TokensTakenOnce'
  BY <1>16 DEF Transition, OneAcquisitionPerKey, TokensTakenOnce
<1>17. ASSUME NEW p \in Threads, TransitionIsBusy(p)
      PROVE  OneAcquisitionPerKey' /\ TokensTakenOnce'
  BY <1>17 DEF TransitionIsBusy, OneAcquisitionPerKey, TokensTakenOnce
<1>18. ASSUME NEW a \in Calls, ClientHandles(a) \/ ClientRemoves(a)
      PROVE  OneAcquisitionPerKey' /\ TokensTakenOnce'
  BY <1>18 DEF ClientHandles, ClientRemoves, OneAcquisitionPerKey, TokensTakenOnce
<1>19. ASSUME NEW m \in Modules, Restart(m)
      PROVE  OneAcquisitionPerKey' /\ TokensTakenOnce'
  BY <1>19 DEF Restart, OneAcquisitionPerKey, TokensTakenOnce
<1>20. CASE UNCHANGED vars
  BY <1>20 DEF vars, OneAcquisitionPerKey, TokensTakenOnce
<1> QED
  BY <1>1, <1>2, <1>3, <1>4, <1>5, <1>6, <1>7, <1>8, <1>9, <1>10, <1>11, <1>12, <1>13, <1>14, <1>15, <1>16, <1>17, <1>18, <1>19, <1>20
  DEF Next, SubmitStep, SubmitOn, SettleStep

\* Verdicts, and the rows they end up in, are justified.
LEMMA StepVerdicts == Inductive /\ [Next]_vars => VerdictsJustified' /\ SubmittedWasAccepted' /\ UnsentFailuresAreOver'
<1> SUFFICES ASSUME Inductive, [Next]_vars PROVE VerdictsJustified' /\ SubmittedWasAccepted' /\ UnsentFailuresAreOver'
  OBVIOUS
<1> USE ThreadsAssumption, NoneAssumption, NoneIsNoVerdict
    DEF Inductive, TypeOK, PcTypeOK, AnswerTypeOK, Goto, Decide, Answer,
        threadVars, cacheVars, rowVars, Threads, Filed, Posted, Holds, Waiting,
        Unposted, Submitting, Subject, CallStates, ReconcilerStates, Settled,
        RequestsKnown, RowsFollowThreads
<1>1. ASSUME NEW t \in Tokens, SearchReleases(t) \/ DropToken(t)
      PROVE  VerdictsJustified' /\ SubmittedWasAccepted' /\ UnsentFailuresAreOver'
  BY <1>1 DEF SearchReleases, DropToken, VerdictsJustified, SubmittedWasAccepted, UnsentFailuresAreOver,
     Verdicts, UnsentFailures, SentFailures, FailureCodes
<1>2. ASSUME NEW c \in Calls, NEW k \in Keys, NEW t \in Tokens, ReceiveSubmit(c, k, t)
      PROVE  VerdictsJustified' /\ SubmittedWasAccepted' /\ UnsentFailuresAreOver'
  BY <1>2 DEF ReceiveSubmit, VerdictsJustified, SubmittedWasAccepted, UnsentFailuresAreOver,
     Verdicts, UnsentFailures, SentFailures, FailureCodes
<1>3. ASSUME NEW c \in Calls, FindByIdempotency(c)
      PROVE  VerdictsJustified' /\ SubmittedWasAccepted' /\ UnsentFailuresAreOver'
  BY <1>3 DEF FindByIdempotency, VerdictsJustified, SubmittedWasAccepted, UnsentFailuresAreOver,
     Verdicts, UnsentFailures, SentFailures, FailureCodes, RowsWithKey
<1>4. ASSUME NEW c \in Calls, CheckPrerequisites(c)
      PROVE  VerdictsJustified' /\ SubmittedWasAccepted' /\ UnsentFailuresAreOver'
  BY <1>4 DEF CheckPrerequisites, VerdictsJustified, SubmittedWasAccepted, UnsentFailuresAreOver,
     Verdicts, UnsentFailures, SentFailures, FailureCodes
<1>5. ASSUME NEW c \in Calls, InspectToken(c)
      PROVE  VerdictsJustified' /\ SubmittedWasAccepted' /\ UnsentFailuresAreOver'
  BY <1>5 DEF InspectToken, VerdictsJustified, SubmittedWasAccepted, UnsentFailuresAreOver,
     Verdicts, UnsentFailures, SentFailures, FailureCodes
<1>6. ASSUME NEW c \in Calls, CreatePendingIfAbsent(c)
      PROVE  VerdictsJustified' /\ SubmittedWasAccepted' /\ UnsentFailuresAreOver'
  BY <1>6 DEF CreatePendingIfAbsent, VerdictsJustified, SubmittedWasAccepted, UnsentFailuresAreOver,
     Verdicts, UnsentFailures, SentFailures, FailureCodes, RowsWithKey
<1>7. ASSUME NEW c \in Calls, CreateIsBusy(c)
      PROVE  VerdictsJustified' /\ SubmittedWasAccepted' /\ UnsentFailuresAreOver'
  BY <1>7 DEF CreateIsBusy, VerdictsJustified, SubmittedWasAccepted, UnsentFailuresAreOver,
     Verdicts, UnsentFailures, SentFailures, FailureCodes
<1>8. ASSUME NEW c \in Calls, TakeToken(c)
      PROVE  VerdictsJustified' /\ SubmittedWasAccepted' /\ UnsentFailuresAreOver'
  BY <1>8 DEF TakeToken, VerdictsJustified, SubmittedWasAccepted, UnsentFailuresAreOver,
     Verdicts, UnsentFailures, SentFailures, FailureCodes
<1>9. ASSUME NEW c \in Calls, ResolveArtifact(c)
      PROVE  VerdictsJustified' /\ SubmittedWasAccepted' /\ UnsentFailuresAreOver'
  BY <1>9 DEF ResolveArtifact, VerdictsJustified, SubmittedWasAccepted, UnsentFailuresAreOver,
     Verdicts, UnsentFailures, SentFailures, FailureCodes
<1>10. ASSUME NEW c \in Calls, PostToClient(c)
      PROVE  VerdictsJustified' /\ SubmittedWasAccepted' /\ UnsentFailuresAreOver'
  <2>1. UnsentFailuresAreOver' /\ SubmittedWasAccepted'
    BY <1>10 DEF PostToClient, SubmittedWasAccepted, UnsentFailuresAreOver
  <2>2. VerdictsJustified'
    <3>1. \A p \in Threads \ {c} :
             pc'[p] = pc[p] /\ verdict'[p] = verdict[p] /\ Subject(p)' = Subject(p)
      BY <1>10 DEF PostToClient
    <3>2. \A r \in Reconcilers : pc[r] # "idle" => Subject(r) \in Calls
      BY DEF ReconcilersOnOwnRows
    <3>3. \A a \in Calls : wire[a] \in {"accepted", "removed"} => wire'[a] = wire[a]
      BY <1>10 DEF PostToClient
    <3> QED
      BY <1>10, <3>1, <3>2, <3>3
      DEF PostToClient, VerdictsJustified, Verdicts, UnsentFailures, SentFailures,
          FailureCodes
  <2> QED BY <2>1, <2>2
<1>11. ASSUME NEW c \in Calls, ReadAnswer(c)
      PROVE  VerdictsJustified' /\ SubmittedWasAccepted' /\ UnsentFailuresAreOver'
  BY <1>11 DEF ReadAnswer, VerdictsJustified, SubmittedWasAccepted, UnsentFailuresAreOver,
     Verdicts, UnsentFailures, SentFailures, FailureCodes
<1>12. ASSUME NEW c \in Calls, TimeOut(c)
      PROVE  VerdictsJustified' /\ SubmittedWasAccepted' /\ UnsentFailuresAreOver'
  BY <1>12 DEF TimeOut, VerdictsJustified, SubmittedWasAccepted, UnsentFailuresAreOver,
     Verdicts, UnsentFailures, SentFailures, FailureCodes
<1>13. ASSUME NEW c \in Calls, LoseAnswer(c)
      PROVE  VerdictsJustified' /\ SubmittedWasAccepted' /\ UnsentFailuresAreOver'
  BY <1>13 DEF LoseAnswer, VerdictsJustified, SubmittedWasAccepted, UnsentFailuresAreOver,
     Verdicts, UnsentFailures, SentFailures, FailureCodes
<1>14. ASSUME NEW r \in Reconcilers, NEW a \in Calls, Reconcile(r, a)
      PROVE  VerdictsJustified' /\ SubmittedWasAccepted' /\ UnsentFailuresAreOver'
  BY <1>14 DEF Reconcile, VerdictsJustified, SubmittedWasAccepted, UnsentFailuresAreOver,
     Verdicts, UnsentFailures, SentFailures, FailureCodes
<1>15. ASSUME NEW p \in Threads, LookUp(p)
      PROVE  VerdictsJustified' /\ SubmittedWasAccepted' /\ UnsentFailuresAreOver'
  BY <1>15 DEF LookUp, VerdictsJustified, SubmittedWasAccepted, UnsentFailuresAreOver,
     Verdicts, UnsentFailures, SentFailures, FailureCodes, Listed
<1>16. ASSUME NEW p \in Threads, Transition(p)
      PROVE  VerdictsJustified' /\ SubmittedWasAccepted' /\ UnsentFailuresAreOver'
  BY <1>16 DEF Transition, VerdictsJustified, SubmittedWasAccepted, UnsentFailuresAreOver,
     Verdicts, UnsentFailures, SentFailures, FailureCodes
<1>17. ASSUME NEW p \in Threads, TransitionIsBusy(p)
      PROVE  VerdictsJustified' /\ SubmittedWasAccepted' /\ UnsentFailuresAreOver'
  BY <1>17 DEF TransitionIsBusy, VerdictsJustified, SubmittedWasAccepted, UnsentFailuresAreOver,
     Verdicts, UnsentFailures, SentFailures, FailureCodes
<1>18. ASSUME NEW a \in Calls, ClientHandles(a) \/ ClientRemoves(a)
      PROVE  VerdictsJustified' /\ SubmittedWasAccepted' /\ UnsentFailuresAreOver'
  <2>1. UnsentFailuresAreOver' /\ SubmittedWasAccepted'
    BY <1>18 DEF ClientHandles, ClientRemoves, SubmittedWasAccepted, UnsentFailuresAreOver
  <2>2. VerdictsJustified'
    <3>1. \A b \in Calls : wire[b] \in {"accepted", "removed"} =>
                              wire'[b] \in {"accepted", "removed"}
      BY <1>18 DEF ClientHandles, ClientRemoves
    <3>2. \A b \in Calls : ~Posted(b) => ~Posted(b)'
      BY <1>18 DEF ClientHandles, ClientRemoves
    <3>3. \A p \in Threads : pc[p] = "settling" => Subject(p) \in Calls
      BY DEF ReconcilersOnOwnRows
    <3> QED
      BY <1>18, <3>1, <3>2, <3>3 DEF ClientHandles, ClientRemoves, VerdictsJustified
  <2> QED BY <2>1, <2>2
<1>19. ASSUME NEW m \in Modules, Restart(m)
      PROVE  VerdictsJustified' /\ SubmittedWasAccepted' /\ UnsentFailuresAreOver'
  BY <1>19 DEF Restart, VerdictsJustified, SubmittedWasAccepted, UnsentFailuresAreOver,
     Verdicts, UnsentFailures, SentFailures, FailureCodes
<1>20. CASE UNCHANGED vars
  BY <1>20 DEF vars, VerdictsJustified, SubmittedWasAccepted, UnsentFailuresAreOver,
     Verdicts, UnsentFailures, SentFailures, FailureCodes
<1> QED
  BY <1>1, <1>2, <1>3, <1>4, <1>5, <1>6, <1>7, <1>8, <1>9, <1>10, <1>11, <1>12, <1>13, <1>14, <1>15, <1>16, <1>17, <1>18, <1>19, <1>20
  DEF Next, SubmitStep, SubmitOn, SettleStep

\* Answers stay right.
LEMMA StepAnswers == Inductive /\ [Next]_vars => AnswersNameRows' /\ SettledAnswersHold'
<1> SUFFICES ASSUME Inductive, [Next]_vars PROVE AnswersNameRows' /\ SettledAnswersHold'
  OBVIOUS
<1>1. ASSUME NEW t \in Tokens, SearchReleases(t) \/ DropToken(t)
      PROVE  AnswersNameRows' /\ SettledAnswersHold'
  <2>1. UNCHANGED <<reply, key, status>> BY <1>1 DEF SearchReleases, DropToken, threadVars, rowVars
  <2>2. \A d \in Calls : pc[d] = "ended" => pc'[d] = "ended"
    BY <1>1 DEF SearchReleases, DropToken, threadVars, Decide, Goto, Inductive, TypeOK, PcTypeOK, Threads
  <2> QED BY <2>1, <2>2, RepliesStayRight
<1>2. ASSUME NEW c \in Calls, NEW k \in Keys, NEW t \in Tokens, ReceiveSubmit(c, k, t)
      PROVE  AnswersNameRows' /\ SettledAnswersHold'
  <2>1. UNCHANGED <<reply, status>> BY <1>2 DEF ReceiveSubmit, rowVars
  <2>2. \A d \in Calls : pc[d] = "ended" => pc'[d] = "ended" /\ key'[d] = key[d]
    BY <1>2 DEF ReceiveSubmit, Goto, Inductive, TypeOK, PcTypeOK, Threads
  <2>3. \A a \in Calls : Filed(a) => key'[a] = key[a]
    BY <1>2 DEF ReceiveSubmit, Inductive, RowsFollowThreads, Waiting, TypeOK
  <2> QED BY <2>1, <2>2, <2>3, RepliesStayRight
<1>3. ASSUME NEW c \in Calls, FindByIdempotency(c)
      PROVE  AnswersNameRows' /\ SettledAnswersHold'
  <2>1. CASE \E a \in RowsWithKey(key[c]) : Answer(c, a, status[a]) /\ UNCHANGED status
    <3>1. PICK a \in RowsWithKey(key[c]) : Answer(c, a, status[a]) /\ UNCHANGED status
      BY <2>1
    <3>2. a \in Calls /\ Filed(a) /\ key[a] = key[c] /\ status[a] \in Statuses
      BY DEF RowsWithKey, Inductive, TypeOK
    <3>3. key' = key BY <1>3 DEF FindByIdempotency
    <3> QED BY <3>1, <3>2, <3>3, AnswersStayRight DEF Threads, Filed
  <2>2. CASE Goto(c, "preparing") /\ UNCHANGED reply
    <3>1. UNCHANGED key BY <1>3 DEF FindByIdempotency
    <3>2. \A d \in Calls : pc[d] = "ended" => pc'[d] = "ended"
      BY <1>3, <2>2 DEF FindByIdempotency, Goto, Inductive, TypeOK, PcTypeOK, Threads
    <3>3. \A a \in Calls : Filed(a) => status'[a] = status[a]
      BY <1>3, <2>2 DEF FindByIdempotency, Inductive, TypeOK, RowsFollowThreads, Waiting, Filed, rowVars, Goto, Answer, PcTypeOK, Threads
    <3> QED BY <2>2, <3>1, <3>2, <3>3, RepliesStayRight
  <2> QED BY <1>3, <2>1, <2>2 DEF FindByIdempotency, rowVars
<1>4. ASSUME NEW c \in Calls, CheckPrerequisites(c)
      PROVE  AnswersNameRows' /\ SettledAnswersHold'
  <2>1. UNCHANGED <<key, status>> BY <1>4 DEF CheckPrerequisites, rowVars
  <2>2. CASE Answer(c, None, "absent") BY <2>1, <2>2, RefusalsStayRight DEF Threads
  <2>3. CASE UNCHANGED reply /\ \E state \in {"inspecting", "creating"} : Goto(c, state)
    <3>1. \A d \in Calls : pc[d] = "ended" => pc'[d] = "ended"
      BY <1>4, <2>3 DEF CheckPrerequisites, Goto, Inductive, TypeOK, PcTypeOK, Threads
    <3> QED BY <2>1, <2>3, <3>1, RepliesStayRight
  <2> QED BY <1>4, <2>2, <2>3 DEF CheckPrerequisites
<1>5. ASSUME NEW c \in Calls, InspectToken(c)
      PROVE  AnswersNameRows' /\ SettledAnswersHold'
  <2>1. UNCHANGED <<key, status>> BY <1>5 DEF InspectToken, rowVars
  <2>2. CASE Answer(c, None, "absent") BY <2>1, <2>2, RefusalsStayRight DEF Threads
  <2>3. CASE UNCHANGED reply /\ \E state \in {"inspecting", "creating"} : Goto(c, state)
    <3>1. \A d \in Calls : pc[d] = "ended" => pc'[d] = "ended"
      BY <1>5, <2>3 DEF InspectToken, Goto, Inductive, TypeOK, PcTypeOK, Threads
    <3> QED BY <2>1, <2>3, <3>1, RepliesStayRight
  <2> QED BY <1>5, <2>2, <2>3 DEF InspectToken
<1>6. ASSUME NEW c \in Calls, CreatePendingIfAbsent(c)
      PROVE  AnswersNameRows' /\ SettledAnswersHold'
  <2>1. CASE \E a \in RowsWithKey(key[c]) : Answer(c, a, status[a]) /\ UNCHANGED status
    <3>1. PICK a \in RowsWithKey(key[c]) : Answer(c, a, status[a]) /\ UNCHANGED status
      BY <2>1
    <3>2. a \in Calls /\ Filed(a) /\ key[a] = key[c] /\ status[a] \in Statuses
      BY DEF RowsWithKey, Inductive, TypeOK
    <3>3. key' = key BY <1>6 DEF CreatePendingIfAbsent
    <3> QED BY <3>1, <3>2, <3>3, AnswersStayRight DEF Threads, Filed
  <2>2. CASE Goto(c, "taking") /\ UNCHANGED reply
    <3>1. UNCHANGED key BY <1>6 DEF CreatePendingIfAbsent
    <3>2. \A d \in Calls : pc[d] = "ended" => pc'[d] = "ended"
      BY <1>6, <2>2 DEF CreatePendingIfAbsent, Goto, Inductive, TypeOK, PcTypeOK, Threads
    <3>3. \A a \in Calls : Filed(a) => status'[a] = status[a]
      BY <1>6, <2>2 DEF CreatePendingIfAbsent, Inductive, TypeOK, RowsFollowThreads, Waiting, Filed, rowVars, Goto, Answer, PcTypeOK, Threads
    <3> QED BY <2>2, <3>1, <3>2, <3>3, RepliesStayRight
  <2> QED BY <1>6, <2>1, <2>2 DEF CreatePendingIfAbsent, rowVars
<1>7. ASSUME NEW c \in Calls, CreateIsBusy(c)
      PROVE  AnswersNameRows' /\ SettledAnswersHold'
  BY <1>7, RefusalsStayRight DEF CreateIsBusy, rowVars, Threads
<1>8. ASSUME NEW c \in Calls, TakeToken(c)
      PROVE  AnswersNameRows' /\ SettledAnswersHold'
  <2>1. UNCHANGED <<reply, key, status>> BY <1>8 DEF TakeToken, threadVars, rowVars
  <2>2. \A d \in Calls : pc[d] = "ended" => pc'[d] = "ended"
    BY <1>8 DEF TakeToken, threadVars, Decide, Goto, Inductive, TypeOK, PcTypeOK, Threads
  <2> QED BY <2>1, <2>2, RepliesStayRight
<1>9. ASSUME NEW c \in Calls, ResolveArtifact(c)
      PROVE  AnswersNameRows' /\ SettledAnswersHold'
  <2>1. UNCHANGED <<reply, key, status>> BY <1>9 DEF ResolveArtifact, threadVars, rowVars
  <2>2. \A d \in Calls : pc[d] = "ended" => pc'[d] = "ended"
    BY <1>9 DEF ResolveArtifact, threadVars, Decide, Goto, Inductive, TypeOK, PcTypeOK, Threads
  <2> QED BY <2>1, <2>2, RepliesStayRight
<1>10. ASSUME NEW c \in Calls, PostToClient(c)
      PROVE  AnswersNameRows' /\ SettledAnswersHold'
  <2>1. UNCHANGED <<reply, key, status>> BY <1>10 DEF PostToClient, threadVars, rowVars
  <2>2. \A d \in Calls : pc[d] = "ended" => pc'[d] = "ended"
    BY <1>10 DEF PostToClient, threadVars, Decide, Goto, Inductive, TypeOK, PcTypeOK, Threads
  <2> QED BY <2>1, <2>2, RepliesStayRight
<1>11. ASSUME NEW c \in Calls, ReadAnswer(c)
      PROVE  AnswersNameRows' /\ SettledAnswersHold'
  <2>1. UNCHANGED <<reply, key, status>> BY <1>11 DEF ReadAnswer, threadVars, rowVars
  <2>2. \A d \in Calls : pc[d] = "ended" => pc'[d] = "ended"
    BY <1>11 DEF ReadAnswer, threadVars, Decide, Goto, Inductive, TypeOK, PcTypeOK, Threads
  <2> QED BY <2>1, <2>2, RepliesStayRight
<1>12. ASSUME NEW c \in Calls, TimeOut(c)
      PROVE  AnswersNameRows' /\ SettledAnswersHold'
  <2>1. UNCHANGED <<reply, key, status>> BY <1>12 DEF TimeOut, threadVars, rowVars
  <2>2. \A d \in Calls : pc[d] = "ended" => pc'[d] = "ended"
    BY <1>12 DEF TimeOut, threadVars, Decide, Goto, Inductive, TypeOK, PcTypeOK, Threads
  <2> QED BY <2>1, <2>2, RepliesStayRight
<1>13. ASSUME NEW c \in Calls, LoseAnswer(c)
      PROVE  AnswersNameRows' /\ SettledAnswersHold'
  <2>1. UNCHANGED <<reply, key, status>> BY <1>13 DEF LoseAnswer, threadVars, rowVars
  <2>2. \A d \in Calls : pc[d] = "ended" => pc'[d] = "ended"
    BY <1>13 DEF LoseAnswer, threadVars, Decide, Goto, Inductive, TypeOK, PcTypeOK, Threads
  <2> QED BY <2>1, <2>2, RepliesStayRight
<1>14. ASSUME NEW r \in Reconcilers, NEW a \in Calls, Reconcile(r, a)
      PROVE  AnswersNameRows' /\ SettledAnswersHold'
  <2>1. UNCHANGED <<key, status>> BY <1>14 DEF Reconcile, rowVars
  <2>2. status[a] \in Statuses /\ Filed(a) /\ r \notin Calls /\ r \in Threads
    BY <1>14, ThreadsAssumption DEF Reconcile, Inductive, TypeOK, Threads
  <2>3. CASE Answer(r, a, status[a])
    BY <2>1, <2>2, <2>3, AnswersStayRight DEF Filed
  <2>4. CASE Goto(r, "looking") /\ UNCHANGED reply
    <3>1. \A d \in Calls : pc[d] = "ended" => pc'[d] = "ended"
      BY <2>2, <2>4 DEF Goto, Inductive, TypeOK, PcTypeOK, Threads
    <3> QED BY <2>1, <2>4, <3>1, RepliesStayRight
  <2> QED BY <1>14, <2>3, <2>4 DEF Reconcile
<1>15. ASSUME NEW p \in Threads, LookUp(p)
      PROVE  AnswersNameRows' /\ SettledAnswersHold'
  <2>1. UNCHANGED <<key, status>> BY <1>15 DEF LookUp, rowVars
  <2>2. Subject(p) \in Calls /\ Filed(Subject(p)) /\ (p \in Calls => Subject(p) = p)
    BY <1>15 DEF LookUp, Subject, Threads, Inductive, RowsFollowThreads,
        ReconcilersOnOwnRows, Submitting
  <2>3. CASE Answer(p, Subject(p), "pending")
    BY <2>1, <2>2, <2>3, AnswersStayRight DEF Filed, Statuses, Settled
  <2>4. CASE UNCHANGED reply /\ \E v \in Verdicts : Decide(p, v)
    <3>1. \A d \in Calls : pc[d] = "ended" => pc'[d] = "ended"
      BY <1>15, <2>4 DEF LookUp, Decide, Goto, Inductive, TypeOK, PcTypeOK, Threads
    <3> QED BY <2>1, <2>4, <3>1, RepliesStayRight
  <2> QED BY <1>15, <2>3, <2>4 DEF LookUp, Verdicts, FailureCodes, SentFailures
<1>16. ASSUME NEW p \in Threads, Transition(p)
      PROVE  AnswersNameRows' /\ SettledAnswersHold'
  <2> DEFINE to == IF verdict[p] = "submitted" THEN "submitted" ELSE "failed"
  <2>1. Subject(p) \in Calls /\ Filed(Subject(p)) /\ (p \in Calls => Subject(p) = p)
    BY <1>16 DEF Transition, Subject, Threads, Inductive, RowsFollowThreads,
        ReconcilersOnOwnRows, Submitting
  <2>2. key' = key BY <1>16 DEF Transition
  <2>3. CASE /\ status[Subject(p)] = "pending"
             /\ status' = [status EXCEPT ![Subject(p)] = to]
             /\ Answer(p, Subject(p), to)
    <3>1. /\ to \in Statuses /\ to = status'[Subject(p)] /\ to # "absent"
          /\ \A a \in Calls : a # Subject(p) => status'[a] = status[a]
      BY <2>1, <2>3 DEF Inductive, TypeOK, Statuses, Settled
    <3>2. /\ \A a \in Calls : Filed(a) => Filed(a)'
          /\ \A a \in Calls : status[a] \in Settled => status'[a] = status[a]
      BY <2>1, <2>3, <3>1 DEF Filed, Settled
    <3> QED BY <2>1, <2>2, <2>3, <3>1, <3>2, AnswersStayRight
  <2>4. CASE status' = status /\ Answer(p, Subject(p), status[Subject(p)])
    <3>1. status[Subject(p)] \in Statuses BY <2>1 DEF Inductive, TypeOK
    <3> QED BY <2>1, <2>2, <2>4, <3>1, AnswersStayRight DEF Filed
  <2> QED BY <1>16, <2>3, <2>4 DEF Transition
<1>17. ASSUME NEW p \in Threads, TransitionIsBusy(p)
      PROVE  AnswersNameRows' /\ SettledAnswersHold'
  BY <1>17, RefusalsStayRight DEF TransitionIsBusy, rowVars
<1>18. ASSUME NEW a \in Calls, ClientHandles(a) \/ ClientRemoves(a)
      PROVE  AnswersNameRows' /\ SettledAnswersHold'
  <2>1. UNCHANGED <<reply, key, status>> BY <1>18 DEF ClientHandles, ClientRemoves, threadVars, rowVars
  <2>2. \A d \in Calls : pc[d] = "ended" => pc'[d] = "ended"
    BY <1>18 DEF ClientHandles, ClientRemoves, threadVars, Decide, Goto, Inductive, TypeOK, PcTypeOK, Threads
  <2> QED BY <2>1, <2>2, RepliesStayRight
<1>19. ASSUME NEW m \in Modules, Restart(m)
      PROVE  AnswersNameRows' /\ SettledAnswersHold'
  <2>1. UNCHANGED <<reply, key, status>> BY <1>19 DEF Restart, threadVars, rowVars
  <2>2. \A d \in Calls : pc[d] = "ended" => pc'[d] = "ended"
    BY <1>19 DEF Restart, threadVars, Decide, Goto, Inductive, TypeOK, PcTypeOK, Threads
  <2> QED BY <2>1, <2>2, RepliesStayRight
<1>20. CASE UNCHANGED vars
  BY <1>20, RepliesStayRight DEF vars, threadVars, rowVars
<1> QED
  BY <1>1, <1>2, <1>3, <1>4, <1>5, <1>6, <1>7, <1>8, <1>9, <1>10, <1>11, <1>12, <1>13, <1>14, <1>15, <1>16, <1>17, <1>18, <1>19, <1>20
  DEF Next, SubmitStep, SubmitOn, SettleStep

LEMMA StepInductive == Inductive /\ [Next]_vars => Inductive'
  BY StepTypeOK, StepThreads, StepExclusive, StepVerdicts, StepAnswers DEF Inductive

\* The conjunction of facts about threads, rows, tokens, verdicts and answers
\* holds in every state, for any number of concurrent submissions and
\* reconciliations and any faults.
THEOREM Invariance == Spec => []Inductive
<1>1. Init => Inductive BY InitInductive
<1>2. Inductive /\ [Next]_vars => Inductive' BY StepInductive
<1> QED BY <1>1, <1>2, PTL DEF Spec

(******************************************************************************)
(* The safety properties.                                                     *)
(******************************************************************************)

\* Every variable keeps its type, whatever the threads, the client and the
\* restarts do.
THEOREM TypeCorrect == Spec => []TypeOK
<1>1. Inductive => TypeOK BY DEF Inductive
<1> QED BY <1>1, Invariance, PTL

\* Concurrent requests with one idempotency key file at most one acquisition
\* and send the client at most one request.
THEOREM KeysAreIdempotent == Spec => [](OneAcquisitionPerKey /\ OneSubmissionPerKey)
<1>1. Inductive => OneAcquisitionPerKey /\ OneSubmissionPerKey
  BY DEF Inductive, RowsFollowThreads, OneAcquisitionPerKey, OneSubmissionPerKey
<1> QED BY <1>1, Invariance, PTL

\* A release token reaches the client at most once, whatever keys carry it.
THEOREM TokensAreOneUse == Spec => []OneSubmissionPerToken
<1>1. Inductive => OneSubmissionPerToken
  BY DEF Inductive, TokensTakenOnce, Holds, OneSubmissionPerToken
<1> QED BY <1>1, Invariance, PTL

\* No task without a row, and "submitted" only after the client accepted.
THEOREM RowsTellTheTruth ==
    Spec => [](NoTaskWithoutAcquisition /\ SubmittedWasAccepted)
<1>1. Inductive => NoTaskWithoutAcquisition /\ SubmittedWasAccepted
  BY DEF Inductive, RowsFollowThreads, NoTaskWithoutAcquisition
<1> QED BY <1>1, Invariance, PTL

\* A failure that is called definitive is of a submission that was never sent
\* to the client and never will be: its thread is past the last place where it
\* could (UnsentFailuresAreOver).
THEOREM UnsentFailuresAreTrue == Spec => []UnsentFailureSentNothing
<1>1. Inductive => UnsentFailureSentNothing
  BY DEF Inductive, UnsentFailuresAreOver, UnsentFailureSentNothing
<1> QED BY <1>1, Invariance, PTL

\* Answers for one key name one acquisition, and what they say of a settled
\* acquisition stays true.
THEOREM AnswersAreRight == Spec => [](AnswersAgree /\ SettledAnswersHold)
<1>1. Inductive => AnswersAgree
  <2> SUFFICES ASSUME Inductive, NEW c \in Calls, NEW d \in Calls,
                      reply[c].id # None, reply[d].id # None, key[c] = key[d]
               PROVE  reply[c].id = reply[d].id
    BY DEF AnswersAgree
  <2>1. reply[c].id \in Calls /\ reply[d].id \in Calls
    BY DEF Inductive, TypeOK, AnswerTypeOK, Replies, Threads
  <2> QED BY <2>1 DEF Inductive, AnswersNameRows, OneAcquisitionPerKey, Threads
<1>2. Inductive => SettledAnswersHold BY DEF Inductive
<1> QED BY <1>1, <1>2, Invariance, PTL

(******************************************************************************)
(* What a step may never do.                                                  *)
(******************************************************************************)

\* Only a transition changes the status of a row, and only from pending; the
\* other actions leave status and failure alone, or insert a row.
LEMMA OnlyTransitionSettles ==
  ASSUME Inductive, Next, NEW a \in Calls, Filed(a),
         status'[a] # status[a] \/ failure'[a] # failure[a]
  PROVE  /\ status[a] = "pending"
         /\ \E p \in Threads :
               /\ pc[p] = "settling" /\ Subject(p) = a
               /\ status'[a] = IF verdict[p] = "submitted" THEN "submitted" ELSE "failed"
<1> USE DEF rowVars
<1>1. \A c \in Calls : CreatePendingIfAbsent(c) => status'[a] = status[a] /\ failure'[a] = failure[a]
  BY DEF CreatePendingIfAbsent, Inductive, TypeOK, RowsFollowThreads, Waiting
<1>2. \A c \in Calls : SubmitStep(c) => status'[a] = status[a] /\ failure'[a] = failure[a]
  BY <1>1 DEF SubmitStep, SubmitOn, FindByIdempotency, CheckPrerequisites, InspectToken,
     CreateIsBusy, TakeToken, ResolveArtifact, PostToClient, ReadAnswer, TimeOut, LoseAnswer
<1>3. PICK p \in Threads : Transition(p)
  BY <1>2 DEF Next, SettleStep, SearchReleases, DropToken, ReceiveSubmit, Reconcile,
     LookUp, TransitionIsBusy, ClientHandles, ClientRemoves, Restart
<1> QED BY <1>3 DEF Transition, Inductive, TypeOK

\* A settled row is final, whatever arrives later.
THEOREM SettledRowsAreFinal == Spec => SettledIsFinal
<1>1. Inductive /\ [Next]_vars =>
        [\A a \in Calls : status[a] \in Settled =>
             status'[a] = status[a] /\ failure'[a] = failure[a]]_vars
  <2> SUFFICES ASSUME Inductive, Next, NEW a \in Calls, status[a] \in Settled
               PROVE  status'[a] = status[a] /\ failure'[a] = failure[a]
    OBVIOUS
  <2> QED BY OnlyTransitionSettles DEF Filed, Settled
<1> QED BY <1>1, Invariance, PTL DEF Spec, SettledIsFinal

\* A pending row left behind by a crash or an inconclusive lookup changes only
\* by a reconciliation.
THEOREM AbandonedRowsWait == Spec => AbandonedChangesOnlyByReconcile
<1>1. Inductive /\ [Next]_vars =>
        [\A a \in Calls : Abandoned(a) /\ status'[a] # status[a] =>
             \E r \in Reconcilers : target[r] = a /\ pc[r] = "settling"]_vars
  <2> SUFFICES ASSUME Inductive, Next, NEW a \in Calls, Abandoned(a), status'[a] # status[a]
               PROVE  \E r \in Reconcilers : target[r] = a /\ pc[r] = "settling"
    OBVIOUS
  <2>1. PICK p \in Threads : pc[p] = "settling" /\ Subject(p) = a
    BY OnlyTransitionSettles DEF Abandoned, Filed
  <2> QED BY <2>1 DEF Subject, Threads, Abandoned
<1> QED BY <1>1, Invariance, PTL DEF Spec, AbandonedChangesOnlyByReconcile

\* While the client keeps the task of an abandoned acquisition, the acquisition
\* can only become submitted: no lookup, not even by another client module
\* after an upgrade, condemns it.
THEOREM RecoverableRowsAreNotLost == Spec => RecoverableStaysRecoverable
<1>1. Inductive /\ [Next]_vars =>
        [\A a \in Calls : Recoverable(a) =>
             \/ Recoverable(a)'
             \/ status'[a] = "submitted"
             \/ wire'[a] = "removed"]_vars
  <2> SUFFICES ASSUME Inductive, Next, NEW a \in Calls, Recoverable(a),
                      status'[a] # "submitted", wire'[a] # "removed"
               PROVE  Recoverable(a)'
    OBVIOUS
  <2> USE DEF threadVars, cacheVars, rowVars
  <2>1. Filed(a) /\ status[a] = "pending" /\ pc[a] \in {"ended", "dead"} /\ wire[a] = "accepted"
    BY DEF Recoverable, Abandoned, Filed
  <2>2. status'[a] = "pending"
    BY <2>1, OnlyTransitionSettles DEF Recoverable, Condemned
  <2>3. pc'[a] = pc[a]
    <3> USE <2>1 DEF Inductive, TypeOK, PcTypeOK, Goto, Decide, Answer, Threads
    <3>1. ASSUME NEW c \in Calls, SubmitStep(c) PROVE pc'[a] = pc[a]
      BY <3>1 DEF SubmitStep, SubmitOn, FindByIdempotency, CheckPrerequisites, InspectToken,
         CreatePendingIfAbsent, CreateIsBusy, TakeToken, ResolveArtifact, PostToClient,
         ReadAnswer, TimeOut, LoseAnswer
    <3>2. ASSUME NEW p \in Threads, SettleStep(p) PROVE pc'[a] = pc[a]
      BY <3>2 DEF SettleStep, LookUp, Transition, TransitionIsBusy
    <3>3. ASSUME NEW r \in Reconcilers, NEW b \in Calls, Reconcile(r, b)
          PROVE  pc'[a] = pc[a]
      BY <3>3, ThreadsAssumption DEF Reconcile
    <3> QED
      BY <3>1, <3>2, <3>3 DEF Next, SearchReleases, DropToken, ReceiveSubmit,
         ClientHandles, ClientRemoves, Restart
  <2>4. wire'[a] = "accepted"
    <3>1. ASSUME NEW c \in Calls, SubmitStep(c) PROVE wire'[a] = "accepted"
      BY <2>1, <3>1 DEF SubmitStep, SubmitOn, FindByIdempotency, CheckPrerequisites, InspectToken,
         CreatePendingIfAbsent, CreateIsBusy, TakeToken, ResolveArtifact, PostToClient,
         ReadAnswer, TimeOut, LoseAnswer, Inductive, TypeOK
    <3> QED
      BY <2>1, <3>1 DEF Next, SearchReleases, DropToken, ReceiveSubmit, Reconcile,
         SettleStep, LookUp, Transition, TransitionIsBusy, ClientHandles,
         ClientRemoves, Restart, Inductive, TypeOK
  <2>5. ~Condemned(a)'
    <3> SUFFICES ASSUME NEW p \in Threads, pc'[p] = "settling", Subject(p)' = a,
                        verdict'[p] # "submitted"
                 PROVE  FALSE
      BY DEF Condemned
    <3>1. p \notin Calls BY <2>1, <2>3 DEF Subject
    <3>2. p \in Reconcilers BY <3>1 DEF Threads
    <3>3. ~(pc[p] = "settling" /\ target[p] = a /\ verdict[p] # "submitted")
      BY <3>1 DEF Recoverable, Condemned, Subject
    <3>4. target'[p] = a BY <3>1 DEF Subject
    <3> USE <3>1, <3>2, <3>3, <3>4, ThreadsAssumption, NoneAssumption
        DEF Inductive, TypeOK, PcTypeOK, AnswerTypeOK, Goto, Decide, Answer, Threads
    <3>5. ASSUME NEW c \in Calls, SubmitStep(c) PROVE FALSE
      BY <3>5 DEF SubmitStep, SubmitOn, FindByIdempotency, CheckPrerequisites, InspectToken,
         CreatePendingIfAbsent, CreateIsBusy, TakeToken, ResolveArtifact, PostToClient,
         ReadAnswer, TimeOut, LoseAnswer
    <3>6. ASSUME NEW q \in Threads, LookUp(q) PROVE FALSE
      <4>1. CASE q = p
        <5>1. Listed(a) BY <2>1, <3>6, <4>1 DEF LookUp, Listed, ReconcilersOnOwnRows
        <5> QED BY <3>6, <4>1, <5>1 DEF LookUp, Subject
      <4>2. CASE q # p BY <3>6, <4>2 DEF LookUp
      <4> QED BY <4>1, <4>2
    <3>7. ASSUME NEW q \in Threads, Transition(q) \/ TransitionIsBusy(q) PROVE FALSE
      BY <3>7 DEF Transition, TransitionIsBusy
    <3> QED
      BY <3>5, <3>6, <3>7 DEF Next, SearchReleases, DropToken, ReceiveSubmit, Reconcile,
         SettleStep, ClientHandles, ClientRemoves, Restart
  <2> QED BY <2>2, <2>3, <2>4, <2>5, <2>1 DEF Recoverable, Abandoned
<1> QED BY <1>1, Invariance, PTL DEF Spec, RecoverableStaysRecoverable

(******************************************************************************)
(* Refinement.                                                                *)
(******************************************************************************)

LEMMA RefinementInit == Init => Ledger!Init
  BY DEF Init, Ledger!Init, Filed, Posted

LEMMA RefinementStep == Inductive /\ [Next]_vars => [Ledger!Next]_(Ledger!vars)
<1> SUFFICES ASSUME Inductive, [Next]_vars PROVE [Ledger!Next]_(Ledger!vars)
  OBVIOUS
<1> DEFINE owner == [c \in Calls |-> IF Filed(c) THEN key[c] ELSE None]
           sent  == {c \in Calls : Posted(c)}
<1> USE DEF threadVars, cacheVars, rowVars
<1>1. ASSUME UNCHANGED <<status, wire>>, \A c \in Calls : Filed(c) => key'[c] = key[c]
      PROVE  UNCHANGED Ledger!vars
  BY <1>1 DEF Ledger!vars, Filed, Posted
<1>2. ASSUME NEW c \in Calls, SubmitStep(c) PROVE [Ledger!Next]_(Ledger!vars)
  <2>1. CASE CreatePendingIfAbsent(c) /\ status' # status
    <3>1. /\ RowsWithKey(key[c]) = {} /\ pc[c] = "creating"
          /\ status' = [status EXCEPT ![c] = "pending"]
          /\ UNCHANGED <<key, wire>>
      BY <2>1 DEF CreatePendingIfAbsent
    <3>2. status[c] = "absent" /\ key[c] \in Keys /\ status' \in [Calls -> Statuses]
      BY <3>1 DEF Inductive, RowsFollowThreads, RequestsKnown, Waiting, Filed, TypeOK, Statuses
    <3>3. PICK k \in Keys : k = key[c] BY <3>2
    <3>4. \A a \in Calls : owner[a] # k
      BY <3>1, <3>2, <3>3, NoneAssumption DEF RowsWithKey
    <3>5. owner' = [owner EXCEPT ![c] = k]
      BY <3>1, <3>2, <3>3 DEF Filed, Inductive, TypeOK
    <3>6. sent' = sent BY <3>1 DEF Posted
    <3>7. Ledger!Register(c, k)
      BY <3>1, <3>2, <3>4, <3>5, <3>6 DEF Ledger!Register
    <3> QED BY <3>7 DEF Ledger!Next
  <2>2. CASE PostToClient(c) /\ wire' # wire
    <3>1. /\ pc[c] = "posting" /\ UNCHANGED <<key, status>>
          /\ wire' = [wire EXCEPT ![c] = "sent"]
      BY <2>2 DEF PostToClient
    <3>2. Filed(c) /\ ~Posted(c)
      BY <3>1 DEF Inductive, RowsFollowThreads, Submitting, Unposted
    <3>3. sent' = sent \cup {c} BY <3>1, <3>2 DEF Posted, Inductive, TypeOK
    <3>4. owner' = owner BY <3>1 DEF Filed
    <3>5. Ledger!Send(c) BY <3>1, <3>2, <3>3, <3>4 DEF Ledger!Send, Filed
    <3> QED BY <3>5 DEF Ledger!Next
  <2>3. CASE UNCHANGED <<status, wire>>
    <3>1. key' = key
      BY <1>2 DEF SubmitStep, SubmitOn, FindByIdempotency, CheckPrerequisites, InspectToken,
         CreatePendingIfAbsent, CreateIsBusy, TakeToken, ResolveArtifact, PostToClient,
         ReadAnswer, TimeOut, LoseAnswer
    <3> QED BY <1>1, <2>3, <3>1
  <2> QED
    BY <1>2, <2>1, <2>2, <2>3 DEF SubmitStep, SubmitOn, FindByIdempotency, CheckPrerequisites,
       InspectToken, CreatePendingIfAbsent, CreateIsBusy, TakeToken, ResolveArtifact,
       PostToClient, ReadAnswer, TimeOut, LoseAnswer
<1>3. ASSUME NEW p \in Threads, Transition(p) PROVE [Ledger!Next]_(Ledger!vars)
  <2> DEFINE to == IF verdict[p] = "submitted" THEN "submitted" ELSE "failed"
  <2>1. UNCHANGED <<key, wire>> /\ pc[p] = "settling" BY <1>3 DEF Transition
  <2>2. CASE status' = status BY <1>1, <2>1, <2>2
  <2>3. CASE status' # status
    <3>1. /\ status[Subject(p)] = "pending"
          /\ status' = [status EXCEPT ![Subject(p)] = to]
      BY <1>3, <2>3 DEF Transition
    <3>2. Subject(p) \in Calls
      BY <2>1 DEF Inductive, ReconcilersOnOwnRows, Subject, Threads
    <3>3. to = "submitted" => Subject(p) \in sent
      BY <2>1, <3>2 DEF Inductive, VerdictsJustified, Posted
    <3>4. owner' = owner
      BY <2>1, <3>1, <3>2 DEF Filed, Inductive, TypeOK
    <3>5. sent' = sent BY <2>1 DEF Posted
    <3>6. Ledger!Settle(Subject(p), to)
      BY <3>1, <3>3, <3>4, <3>5 DEF Ledger!Settle
    <3> QED BY <3>2, <3>6 DEF Ledger!Next
  <2> QED BY <2>2, <2>3
<1>4. ASSUME NEW a \in Calls, ClientHandles(a) \/ ClientRemoves(a)
      PROVE  UNCHANGED Ledger!vars
  <2>1. UNCHANGED <<key, status>> BY <1>4 DEF ClientHandles, ClientRemoves
  <2>2. sent' = sent BY <1>4 DEF ClientHandles, ClientRemoves, Posted, Inductive, TypeOK
  <2>3. owner' = owner BY <2>1 DEF Filed
  <2> QED BY <2>1, <2>2, <2>3 DEF Ledger!vars
<1>5. ASSUME NEW c \in Calls, NEW k \in Keys, NEW t \in Tokens, ReceiveSubmit(c, k, t)
      PROVE  UNCHANGED Ledger!vars
  BY <1>1, <1>5 DEF ReceiveSubmit, Inductive, RowsFollowThreads, Waiting, TypeOK
<1>6. ASSUME \/ \E t \in Tokens : SearchReleases(t) \/ DropToken(t)
             \/ \E r \in Reconcilers, a \in Calls : Reconcile(r, a)
             \/ \E p \in Threads : LookUp(p) \/ TransitionIsBusy(p)
             \/ \E m \in Modules : Restart(m)
             \/ UNCHANGED vars
      PROVE  UNCHANGED Ledger!vars
  BY <1>1, <1>6 DEF SearchReleases, DropToken, Reconcile, LookUp, TransitionIsBusy,
     Restart, vars
<1> QED BY <1>2, <1>3, <1>4, <1>5, <1>6 DEF Next, SettleStep

\* The threads, the cache, the table and the network implement the ledger.
THEOREM Refinement == Spec => ImplementsLedger
<1>1. Init => Ledger!Init BY RefinementInit
<1>2. Inductive /\ [Next]_vars => [Ledger!Next]_(Ledger!vars) BY RefinementStep
<1> QED BY <1>1, <1>2, Invariance, PTL DEF Spec, ImplementsLedger, Ledger!Spec

(******************************************************************************)
(* The cache behind the tokens of searches: what SelectionCache says of the   *)
(* tokens that are issued here.  The cache is bounded, a consumed token stays *)
(* consumed, a put evicts what it must, and TokenPool is implemented.         *)
(******************************************************************************)

CONSTANTS MaxEntries, Ttl, MaxNow, MaxStamp

VARIABLES now, entries, expires, stamp, nextStamp, taken

Cache == INSTANCE SelectionCache

\* What SelectionCache assumes of its constants.
CacheAssumption ==
    /\ MaxEntries \in Nat /\ MaxEntries >= 1
    /\ Ttl \in Nat /\ Ttl >= 1
    /\ MaxNow \in Nat /\ MaxStamp \in Nat

CacheInductive == CacheAssumption /\ Cache!Inductive

\* The instances count with the same operators.
LEMMA SameCardinality ==
  \A S : /\ Cache!IsFiniteSet(S) <=> IsFiniteSet(S)
         /\ Cache!Cardinality(S) = Cardinality(S)
         /\ Cache!Pool!Cardinality(S) = Cardinality(S)
  BY DEF IsFiniteSet, Cardinality, Cache!IsFiniteSet, Cache!Cardinality, Cache!Pool!Cardinality

\* Appending a token, or moving it to the end, keeps positions distinct.
LEMMA ToEndKeepsOrder ==
  ASSUME CacheInductive, NEW t \in Tokens, Cache!ToEnd(t)
  PROVE  /\ stamp' \in [Tokens -> Nat]
         /\ nextStamp' \in Nat
         /\ \A u \in entries \cup {t} : stamp'[u] < nextStamp'
         /\ \A u, v \in entries \cup {t} : stamp'[u] = stamp'[v] => u = v
  BY DEF Cache!ToEnd, CacheInductive, Cache!Inductive, Cache!TypeOK

\* Taking entries out keeps whatever is said about all of them.
LEMMA FewerEntries ==
  ASSUME CacheInductive, NEW S \in SUBSET entries
  PROVE  /\ IsFiniteSet(S)
         /\ Cardinality(S) <= MaxEntries
  <1>1. IsFiniteSet(entries) /\ Cardinality(entries) <= MaxEntries
    BY SameCardinality DEF CacheInductive, Cache!Inductive, Cache!Bounded
  <1>2. IsFiniteSet(S) /\ Cardinality(S) <= Cardinality(entries)
    BY <1>1, FS_Subset
  <1>3. Cardinality(S) \in Nat /\ Cardinality(entries) \in Nat
    BY <1>1, <1>2, FS_CardinalityType
  <1> QED BY <1>1, <1>2, <1>3 DEF CacheInductive, CacheAssumption

\* One more element adds at most one.
LEMMA OneMore ==
  ASSUME NEW S, NEW x, IsFiniteSet(S), NEW n \in Nat, Cardinality(S) < n
  PROVE  IsFiniteSet(S \cup {x}) /\ Cardinality(S \cup {x}) <= n
  <1>1. Cardinality(S) \in Nat
    BY FS_CardinalityType
  <1>2. /\ IsFiniteSet(S \cup {x})
        /\ Cardinality(S \cup {x}) = IF x \in S THEN Cardinality(S) ELSE Cardinality(S) + 1
    BY FS_AddElement
  <1> QED BY <1>1, <1>2

\* put(): whether or not something has to go, the new token fits.
LEMMA PutFits ==
  ASSUME CacheInductive, NEW t \in Tokens, NEW later \in 0 .. MaxNow, Cache!Put(t, later)
  PROVE  /\ entries' \in SUBSET (entries \cup {t})
         /\ t \in entries'
         /\ IsFiniteSet(entries')
         /\ Cardinality(entries') <= MaxEntries
  <1> DEFINE kept == {u \in entries : expires[u] > now}
  <1>1. IsFiniteSet(kept) /\ Cardinality(kept) <= MaxEntries /\ Cardinality(kept) \in Nat
    BY FewerEntries, FS_CardinalityType
  <1>2. CASE Cardinality(kept) < MaxEntries /\ entries' = kept \cup {t}
    <2>1. IsFiniteSet(kept \cup {t}) /\ Cardinality(kept \cup {t}) <= MaxEntries
      BY <1>1, <1>2, OneMore DEF CacheInductive, CacheAssumption
    <2> QED BY <1>2, <2>1
  <1>3. ASSUME NEW oldest \in kept, entries' = (kept \ {oldest}) \cup {t}
        PROVE  /\ entries' \in SUBSET (entries \cup {t})
               /\ t \in entries'
               /\ IsFiniteSet(entries')
               /\ Cardinality(entries') <= MaxEntries
    <2> DEFINE rest == kept \ {oldest}
    <2>1. IsFiniteSet(rest) /\ Cardinality(rest) = Cardinality(kept) - 1
      BY <1>1, FS_RemoveElement
    <2>2. Cardinality(rest) < MaxEntries
      BY <1>1, <2>1 DEF CacheInductive, CacheAssumption
    <2> HIDE DEF rest
    <2>3. IsFiniteSet(rest \cup {t}) /\ Cardinality(rest \cup {t}) <= MaxEntries
      BY <2>1, <2>2, OneMore DEF CacheInductive, CacheAssumption
    <2> QED BY <1>3, <2>3 DEF rest
  <1> QED BY <1>2, <1>3, SameCardinality DEF Cache!Put

\* A new cache is empty.
LEMMA CacheBegins == CacheAssumption /\ Cache!Init => CacheInductive
  BY FS_EmptySet, SameCardinality
  DEF Cache!Init, CacheInductive, CacheAssumption, Cache!Inductive, Cache!TypeOK, Cache!ConsumedOnce, Cache!Bounded

\* put() keeps the invariant.
LEMMA PutKeeps ==
  ASSUME CacheInductive, NEW t \in Tokens, NEW later \in 0 .. MaxNow, Cache!Put(t, later)
  PROVE  CacheInductive'
  <1>1. /\ entries' \in SUBSET (entries \cup {t})
        /\ IsFiniteSet(entries') /\ Cardinality(entries') <= MaxEntries
    BY PutFits
  <1>2. Cache!Insert(t, later) BY DEF Cache!Put
  <1>3. /\ stamp' \in [Tokens -> Nat]
        /\ nextStamp' \in Nat
        /\ \A u \in entries' : stamp'[u] < nextStamp'
        /\ \A u, v \in entries' : stamp'[u] = stamp'[v] => u = v
    BY <1>1, <1>2, ToEndKeepsOrder DEF Cache!Insert
  <1>4. Cache!TypeOK'
    <2>1. later \in Nat /\ later + Ttl \in Nat
      BY DEF CacheInductive, CacheAssumption
    <2>2. expires' \in [Tokens -> Nat] /\ now' \in Nat
      BY <1>2, <2>1 DEF Cache!Insert, CacheInductive, Cache!Inductive, Cache!TypeOK
    <2>3. entries' \in SUBSET Tokens /\ issued' \in SUBSET Tokens /\ taken' \in SUBSET Tokens
      BY <1>1, <1>2 DEF Cache!Insert, CacheInductive, Cache!Inductive, Cache!TypeOK
    <2> QED BY <1>3, <2>2, <2>3 DEF Cache!TypeOK
  <1>5. entries' \subseteq issued' /\ taken' \subseteq issued' /\ Cache!ConsumedOnce'
    BY <1>1, <1>2 DEF Cache!Insert, CacheInductive, Cache!Inductive, Cache!ConsumedOnce
  <1> QED BY <1>1, <1>3, <1>4, <1>5, SameCardinality DEF CacheInductive, CacheAssumption, Cache!Inductive, Cache!Bounded

\* A token that is used, consumed or not, keeps the invariant.
LEMMA UseKeeps ==
  ASSUME CacheInductive, NEW t \in Tokens, Cache!Hit(t) \/ Cache!Take(t)
  PROVE  CacheInductive'
  <1>1. t \in entries /\ Cache!ToEnd(t) /\ entries' \in SUBSET entries /\ UNCHANGED <<now, expires, issued>>
    BY DEF Cache!Hit, Cache!Take, Cache!Live
  <1>2. /\ stamp' \in [Tokens -> Nat]
        /\ nextStamp' \in Nat
        /\ \A u \in entries' : stamp'[u] < nextStamp'
        /\ \A u, v \in entries' : stamp'[u] = stamp'[v] => u = v
    BY <1>1, ToEndKeepsOrder
  <1>3. taken' \subseteq issued' /\ Cache!ConsumedOnce'
    BY <1>1 DEF Cache!Hit, Cache!Take, CacheInductive, Cache!Inductive, Cache!ConsumedOnce
  <1>4. IsFiniteSet(entries') /\ Cardinality(entries') <= MaxEntries
    BY <1>1, FewerEntries
  <1>5. Cache!TypeOK' BY <1>1, <1>2, <1>3 DEF CacheInductive, Cache!Inductive, Cache!TypeOK
  <1> QED BY <1>1, <1>2, <1>3, <1>4, <1>5, SameCardinality
      DEF CacheInductive, CacheAssumption, Cache!Inductive, Cache!Bounded

\* Dropping entries, and the clock, keep the invariant.
LEMMA DropKeeps ==
  ASSUME CacheInductive, entries' \in SUBSET entries, now' \in Nat,
         UNCHANGED <<expires, stamp, nextStamp, issued, taken>>
  PROVE  CacheInductive'
  <1>1. IsFiniteSet(entries') /\ Cardinality(entries') <= MaxEntries
    BY FewerEntries
  <1> QED BY <1>1, SameCardinality
      DEF CacheInductive, CacheAssumption, Cache!Inductive, Cache!TypeOK, Cache!ConsumedOnce, Cache!Bounded

LEMMA CacheSteps == CacheInductive /\ [Cache!Next]_Cache!vars => CacheInductive'
<1> SUFFICES ASSUME CacheInductive, [Cache!Next]_Cache!vars PROVE CacheInductive'
  OBVIOUS
<1>0. now \in Nat BY DEF CacheInductive, Cache!Inductive, Cache!TypeOK
<1>1. ASSUME NEW t \in Tokens, NEW later \in 0 .. MaxNow, Cache!Put(t, later) PROVE CacheInductive'
  BY <1>1, PutKeeps
<1>2. ASSUME NEW t \in Tokens, Cache!Hit(t) \/ Cache!Take(t) PROVE CacheInductive'
  BY <1>2, UseKeeps
<1>3. ASSUME NEW t \in Tokens, Cache!Miss(t) PROVE CacheInductive'
  BY <1>0, <1>3, DropKeeps DEF Cache!Miss
<1>4. CASE Cache!Clear \/ Cache!Tick
  BY <1>0, <1>4, DropKeeps DEF CacheInductive, CacheAssumption, Cache!Clear, Cache!Tick
<1>5. CASE UNCHANGED Cache!vars
  BY <1>0, <1>5, DropKeeps DEF Cache!vars
<1> QED BY <1>1, <1>2, <1>3, <1>4, <1>5 DEF Cache!Next

\* The inductive invariant holds in every reachable state.
THEOREM CacheInvariance == CacheAssumption /\ Cache!Spec => []CacheInductive
  BY CacheBegins, CacheSteps, PTL DEF Cache!Spec

\* No sequence of operations outgrows the capacity.
THEOREM CapacityHolds == CacheAssumption /\ Cache!Spec => []Cache!Bounded
<1>1. CacheInductive => Cache!Bounded BY DEF CacheInductive, Cache!Inductive
<1> QED BY <1>1, CacheInvariance, PTL

\* A consumed token is never found again.
THEOREM ConsumedTokensAreGone == CacheAssumption /\ Cache!Spec => []Cache!ConsumedOnce
<1>1. CacheInductive => Cache!ConsumedOnce BY DEF CacheInductive, Cache!Inductive
<1> QED BY <1>1, CacheInvariance, PTL

\* put() sacrifices a live token only to keep the capacity, and then the one
\* that was used least recently.
LEMMA PutSparesRecent ==
  ASSUME CacheInductive, NEW t \in Tokens, NEW later \in 0 .. MaxNow, Cache!Put(t, later),
         NEW lost \in Tokens, Cache!Live(lost), lost \notin entries'
  PROVE  /\ Cardinality(entries') = MaxEntries
         /\ \A u \in entries' : u \in entries => Cache!Live(u) /\ stamp[lost] <= stamp[u]
  <1> DEFINE kept == {u \in entries : expires[u] > now}
             rest == kept \ {lost}
  <1>1. IsFiniteSet(kept) /\ Cardinality(kept) <= MaxEntries /\ Cardinality(kept) \in Nat
    BY FewerEntries, FS_CardinalityType
  <1>2. lost \in kept BY DEF Cache!Live
  <1>3. t \notin entries BY DEF Cache!Put, Cache!Insert, CacheInductive, Cache!Inductive
  <1>4. /\ Cardinality(kept) >= MaxEntries
        /\ Cache!IsOldest(lost, kept)
        /\ entries' = rest \cup {t}
    BY <1>2, SameCardinality DEF Cache!Put
  <1>5. \A u \in entries' : u \in entries => Cache!Live(u) /\ stamp[lost] <= stamp[u]
    BY <1>3, <1>4 DEF Cache!IsOldest, Cache!Live
  <1>6. IsFiniteSet(rest) /\ Cardinality(rest) = Cardinality(kept) - 1
    BY <1>1, <1>2, FS_RemoveElement
  <1>7. t \notin rest BY <1>3
  <1> HIDE DEF kept, rest
  <1>8. Cardinality(rest \cup {t}) = Cardinality(rest) + 1
    BY <1>6, <1>7, FS_AddElement
  <1> QED BY <1>1, <1>4, <1>5, <1>6, <1>8 DEF CacheInductive, CacheAssumption

\* A live token disappears only by being consumed, by a clear, or as the least
\* recently used one of a full cache.
THEOREM LiveTokensAreKept == CacheAssumption /\ Cache!Spec => Cache!LiveTokensStay
<1> DEFINE Stays == \A t \in Tokens :
               Cache!Live(t) /\ t \notin entries' =>
                   \/ t \in taken'
                   \/ entries' = {}
                   \/ /\ Cache!Cardinality(entries') = MaxEntries
                      /\ \A u \in entries' : u \in entries => Cache!Live(u) /\ stamp[t] <= stamp[u]
<1>1. CacheInductive /\ [Cache!Next]_Cache!vars => [Stays]_Cache!vars
  <2> SUFFICES ASSUME CacheInductive, Cache!Next, NEW lost \in Tokens, Cache!Live(lost), lost \notin entries'
               PROVE  \/ lost \in taken'
                      \/ entries' = {}
                      \/ /\ Cache!Cardinality(entries') = MaxEntries
                         /\ \A u \in entries' :
                               u \in entries => Cache!Live(u) /\ stamp[lost] <= stamp[u]
    OBVIOUS
  <2>0. lost \in entries /\ expires[lost] > now /\ now \in Nat /\ expires[lost] \in Nat
    BY DEF Cache!Live, CacheInductive, Cache!Inductive, Cache!TypeOK
  <2>1. ASSUME NEW t \in Tokens, NEW later \in 0 .. MaxNow, Cache!Put(t, later)
        PROVE  /\ Cache!Cardinality(entries') = MaxEntries
               /\ \A u \in entries' : u \in entries => Cache!Live(u) /\ stamp[lost] <= stamp[u]
    BY <2>1, PutSparesRecent, SameCardinality
  <2>2. ASSUME NEW t \in Tokens, Cache!Hit(t) \/ Cache!Take(t) \/ Cache!Miss(t) PROVE lost \in taken'
    BY <2>0, <2>2 DEF Cache!Hit, Cache!Take, Cache!Miss
  <2>3. CASE Cache!Clear \/ Cache!Tick
    BY <2>0, <2>3 DEF Cache!Clear, Cache!Tick
  <2> QED BY <2>1, <2>2, <2>3 DEF Cache!Next
<1> QED BY <1>1, CacheInvariance, PTL DEF Cache!Spec, Cache!LiveTokensStay

LEMMA CacheBeginsAsPool == Cache!Init => Cache!Pool!Init
  BY DEF Cache!Init, Cache!Pool!Init

\* put() issues, take() consumes, whatever else drops entries forgets, and
\* recency and the clock are invisible.
LEMMA CacheStepsAsPool == CacheInductive /\ [Cache!Next]_Cache!vars => [Cache!Pool!Next]_Cache!Pool!vars
<1> SUFFICES ASSUME CacheInductive, [Cache!Next]_Cache!vars PROVE [Cache!Pool!Next]_Cache!Pool!vars
  OBVIOUS
<1> USE DEF Cache!Pool!vars
<1>1. ASSUME NEW t \in Tokens, NEW later \in 0 .. MaxNow, Cache!Put(t, later)
      PROVE  [Cache!Pool!Next]_Cache!Pool!vars
  <2>1. Cache!Pool!Issue(t) BY <1>1, PutFits, SameCardinality DEF Cache!Put, Cache!Insert, Cache!Pool!Issue
  <2> QED BY <2>1 DEF Cache!Pool!Next
<1>2. ASSUME NEW t \in Tokens, Cache!Hit(t) PROVE [Cache!Pool!Next]_Cache!Pool!vars
  BY <1>2 DEF Cache!Hit
<1>3. ASSUME NEW t \in Tokens, Cache!Take(t) PROVE [Cache!Pool!Next]_Cache!Pool!vars
  <2>1. Cache!Pool!Consume(t) BY <1>3 DEF Cache!Take, Cache!Live, Cache!Pool!Consume
  <2> QED BY <2>1 DEF Cache!Pool!Next
<1>4. ASSUME NEW t \in Tokens, Cache!Miss(t) PROVE [Cache!Pool!Next]_Cache!Pool!vars
  BY <1>4 DEF Cache!Miss, Cache!Pool!Next, Cache!Pool!Forget
<1>5. CASE Cache!Clear
  BY <1>5 DEF Cache!Clear, Cache!Pool!Next, Cache!Pool!Forget
<1>6. CASE Cache!Tick
  BY <1>6 DEF Cache!Tick
<1>7. CASE UNCHANGED Cache!vars
  BY <1>7 DEF Cache!vars
<1> QED BY <1>1, <1>2, <1>3, <1>4, <1>5, <1>6, <1>7 DEF Cache!Next

\* Expiry, recency and eviction implement the pool of one-use tokens.
THEOREM CacheImplementsPool == CacheAssumption /\ Cache!Spec => Cache!ImplementsPool
  BY CacheBeginsAsPool, CacheStepsAsPool, CacheInvariance, PTL DEF Cache!Spec, Cache!ImplementsPool, Cache!Pool!Spec
================================================================================
