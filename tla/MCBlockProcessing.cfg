CONSTANTS
    g = g
    s = s
    f = f
    t = t
    r = r
    A = A
    Zero = Zero
    live = live
    unchecked = unchecked
    forced = forced
    Hash = {g, s, f, t, r}
    genesis = g
    Stored = {g, s}
    Origins <- MCOrigins
    Priority <- MCPriority
    MaxSize <- MCMaxSize
    Previous <- MCPrevious
    Source <- MCSource
    Destination <- MCDestination
    QualifiedRoot <- MCQualifiedRoot
    max_unchecked_blocks = 1
    max_ledger_notifications = 1
    batch_size = 2
    Arriving = {t, r}
    Winners = {s, f}
    MaxArrivals = 2
    MaxForced = 2
    MaxCemented = 2
SPECIFICATION FairSpec
INVARIANTS
    GapsAreKept
    
    
PROPERTIES
    ToldAfterCommit
    
CHECK_DEADLOCK FALSE
