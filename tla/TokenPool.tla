------------------------------- MODULE TokenPool --------------------------------
(******************************************************************************)
(* What the opaque-token caches promise the workflows that use them: a token  *)
(* is usable from its issue on, until it is consumed, and then never again;   *)
(* the pool may forget tokens, but never holds more than its capacity.        *)
(******************************************************************************)
EXTENDS FiniteSets, Naturals

CONSTANTS Tokens, Capacity

VARIABLES
    issued,  \* tokens that were handed out
    usable,  \* tokens the pool still knows
    taken    \* tokens that were consumed

vars == <<issued, usable, taken>>

Init ==
    /\ issued = {}
    /\ usable = {}
    /\ taken = {}

\* A new token; the pool may forget others to make room.
Issue(t) ==
    /\ t \notin issued
    /\ issued' = issued \cup {t}
    /\ usable' \subseteq usable \cup {t}
    /\ t \in usable'
    /\ Cardinality(usable') <= Capacity
    /\ UNCHANGED taken

Consume(t) ==
    /\ t \in usable
    /\ usable' = usable \ {t}
    /\ taken' = taken \cup {t}
    /\ UNCHANGED issued

Forget ==
    /\ usable' \subseteq usable
    /\ UNCHANGED <<issued, taken>>

Next ==
    \/ \E t \in Tokens : Issue(t) \/ Consume(t)
    \/ Forget

Spec == Init /\ [][Next]_vars

================================================================================
