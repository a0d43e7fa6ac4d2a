\* Faults of every kind until they stop, beside one export; one more row than
\* items, so that a refresh has a row to write.  Liveness is checked too: no
\* symmetry.
SPECIFICATION FairSpec
CONSTANTS
    Items = {i1}
    Ids = {r1, r2}
    Readers = {q1}
    None = None
    RefreshAfter = 2
    ExpiresAfter = 3
    Day = 2
    Faults = {"policy", "provider", "savepoint", "database", "stop"}
INVARIANTS
    Swept
PROPERTIES
    ServedInTime
    SkipsOnlyWhenSwept
    EventuallyPurged
