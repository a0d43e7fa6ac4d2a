SPECIFICATION Spec
CONSTANTS
    Queries = {q1, q2}
    Rows = {r1, r2}
    MaxSearches = 3
    MaxSeasons = 2
    MaxEpisodes = 1
    Texts = {x}
    Collections = {c1}
    MaxReads = 2
    None = None
INVARIANTS
    ShownBelongsToTheQuery
    ImportedOnce
    SavedIsWhatIsOnScreen
PROPERTIES
    NothingIsDiscardedUnasked
    ReviewsStayTrue
    PagesAreFreed
\* The user may stop anywhere, and a tab may be closed.
CHECK_DEADLOCK FALSE
