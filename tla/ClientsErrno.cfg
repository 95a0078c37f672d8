CONSTANTS
    PoolSize = 11
    Sizes = {1, 2, 4}
    Tags = {t1, t2, t3}
    Junk = Junk
    Hdr = Hdr
    nscount = 1
    retry = 2
    Domains = 2
    Begin <- MCBegin
    Refusing = {1}
    Records <- MCRecords
    Long = {2}
    MaxLookups = 2
    MaxTroubles = 1
    None = None
SPECIFICATION MCSpec
INVARIANT NoServerPresent
CHECK_DEADLOCK FALSE
