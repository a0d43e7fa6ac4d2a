------------------------------- MODULE ModulePool -------------------------------
(******************************************************************************)
(* What ModuleRuntime promises to the rest of the server ("Build, validate,   *)
(* cache, and close module capabilities exactly once"): while the pool is     *)
(* open a capability has at most one instance in service, installed once; an  *)
(* instance is closed at most once, and never while it is in service.         *)
(******************************************************************************)
EXTENDS Naturals

CONSTANTS Slots, Instances, None

VARIABLES
    open,     \* the pool serves instances
    serving,  \* the instance in service for each capability, or None
    closes    \* how often each instance was closed

vars == <<open, serving, closes>>

Init ==
    /\ open = TRUE
    /\ serving = [s \in Slots |-> None]
    /\ closes = [i \in Instances |-> 0]

\* A capability gets its instance; there is no replacing it.
Install(s, i) ==
    /\ open
    /\ serving[s] = None
    /\ closes[i] = 0
    /\ \A r \in Slots : serving[r] # i
    /\ serving' = [serving EXCEPT ![s] = i]
    /\ UNCHANGED <<open, closes>>

\* The pool goes out of service, all capabilities at once and for good.
Shut ==
    /\ open
    /\ open' = FALSE
    /\ serving' = [s \in Slots |-> None]
    /\ UNCHANGED closes

\* An instance that is not in service is closed.
Dispose(i) ==
    /\ closes[i] = 0
    /\ \A s \in Slots : serving[s] # i
    /\ closes' = [closes EXCEPT ![i] = 1]
    /\ UNCHANGED <<open, serving>>

Next ==
    \/ \E s \in Slots, i \in Instances : Install(s, i)
    \/ Shut
    \/ \E i \in Instances : Dispose(i)

Spec == Init /\ [][Next]_vars

================================================================================
