\* Two requests of any kind about a manual item and its look-alike of another
\* provider: selections, imports, confirmations, edits, refreshes and purges
\* that overtake each other, and a collection that is archived and restored.
\* What decides here is which revision, not which title.
SPECIFICATION Spec
CONSTANTS
    manual = manual
    film = film
    Threads = {t1, t2}
    Identities = {manual, film}
    Edited = {manual}
    Provider <- MCProvider
    Items = {i1, i2}
    Titles = {a}
    Collections = {c}
    Tokens = {k1, k2}
    None = None
    MaxRevisions = 3
SYMMETRY Symmetry
CONSTRAINT ShortHistories
INVARIANTS
    OneItemPerIdentity
    AmendsWhatWasShown
    DraftsApplyOnce
PROPERTIES
    NoUnconfirmedTwin
\* The bounds end what can be written: the model may stop.
CHECK_DEADLOCK FALSE
