\* Three releases on two minor lines, every fault until they stop; fairness.
SPECIFICATION FairSpec
CONSTANTS
    Versions <- MCVersions
    Legacy <- MCLegacy
    Builds = {b1, b2}
    Faults = {"registry", "push", "job", "lost"}
    None = None
INVARIANTS
    OneImagePerVersion
    EvidenceStaysTrue
PROPERTIES
    MovingTagsOnlyAdvance
    EventuallyPublished
