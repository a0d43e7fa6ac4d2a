\* Two threads race for two capabilities, one of them validated, and two
\* callers close the runtime.  Liveness is checked too: no symmetry.
SPECIFICATION FairSpec
CONSTANTS
    Threads = {t1, t2}
    Closers = {c1, c2}
    Slots = {provider, editor}
    Validated = {provider}
    Instances = {i1, i2, i3}
    None = None
CHECK_DEADLOCK FALSE
PROPERTIES
    ImplementsPool
    EveryInstanceIsClosed
