\* Two submissions, one reconciler, every fault, a changing client module.  The
\* client may never answer, so only the timeout frees a thread that waits.
\* Liveness is checked too: no symmetry.
SPECIFICATION FairSpec
CONSTANTS
    Calls = {c1, c2}
    Reconcilers = {r1}
    Keys = {k1, k2}
    Tokens = {t1}
    Modules = {m1, m2}
    Faults = {"timeout", "broken", "busy", "restart"}
    None = None
INVARIANTS
    OneSubmissionPerToken
    UnsentFailureSentNothing
    SubmittedWasAccepted
PROPERTIES
    AbandonedChangesOnlyByReconcile
    RecoverableStaysRecoverable
    ImplementsLedger
    SubmitAnswers
\* The browser may send nothing more.
CHECK_DEADLOCK FALSE
