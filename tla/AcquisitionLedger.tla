--------------------------- MODULE AcquisitionLedger ---------------------------
(******************************************************************************)
(* What the acquisition component promises, without threads, cache, table or  *)
(* network: a ledger.  An entry is registered under an idempotency key that   *)
(* no other entry has; at most one request goes to the download client for    *)
(* it, after it was registered; and it is settled once, as submitted only if  *)
(* a request went out.                                                        *)
(******************************************************************************)

CONSTANTS Calls, Keys, None

VARIABLES
    entry,   \* the state of each entry: absent, pending, submitted or failed
    owner,   \* the idempotency key an entry is registered under
    sent     \* the entries for which the client has been asked

vars == <<entry, owner, sent>>

Init ==
    /\ entry = [c \in Calls |-> "absent"]
    /\ owner = [c \in Calls |-> None]
    /\ sent = {}

Register(c, k) ==
    /\ entry[c] = "absent"
    /\ \A a \in Calls : owner[a] # k
    /\ entry' = [entry EXCEPT ![c] = "pending"]
    /\ owner' = [owner EXCEPT ![c] = k]
    /\ UNCHANGED sent

Send(c) ==
    /\ entry[c] # "absent"
    /\ c \notin sent
    /\ sent' = sent \cup {c}
    /\ UNCHANGED <<entry, owner>>

Settle(c, outcome) ==
    /\ entry[c] = "pending"
    /\ outcome = "submitted" => c \in sent
    /\ entry' = [entry EXCEPT ![c] = outcome]
    /\ UNCHANGED <<owner, sent>>

Next ==
    \/ \E c \in Calls, k \in Keys : Register(c, k)
    \/ \E c \in Calls : Send(c)
    \/ \E c \in Calls, outcome \in {"submitted", "failed"} : Settle(c, outcome)

Spec == Init /\ [][Next]_vars
================================================================================
