\* Twice as many tokens as the cache holds, and a clock that can pass the
\* expiry of an entry before, while and after another is put.
SPECIFICATION Spec
CONSTANTS
    Tokens = {a, b, c, d}
    MaxEntries = 2
    Ttl = 2
    MaxNow = 3
    MaxStamp = 6
SYMMETRY Symmetry
CHECK_DEADLOCK FALSE
PROPERTIES
    LiveTokensStay
    ImplementsPool
