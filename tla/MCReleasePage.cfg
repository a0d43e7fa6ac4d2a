\* Two searches of two releases, two visits, three submissions, two mishaps.
\* The bounds exhaust what the user can do: the model may stop.
SPECIFICATION FairSpec
CONSTANTS
    Titles = {ta, tb}
    Destinations = {d1}
    MaxSearches = 2
    MaxVisits = 2
    MaxKeys = 2
    MaxPosts = 3
    MaxMishaps = 2
    None = None
INVARIANTS
    ReviewedIsSent
    UnresolvedBlocksNewIntent
    SecondOnlyAfterFirstIsKnown
PROPERTIES
    FirstPostIsChecked
    PageIsFreed
CHECK_DEADLOCK FALSE
