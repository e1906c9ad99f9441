SPECIFICATION CSFairSpec
CONSTANTS
    b0 = b0
    a1 = a1
    a2 = a2
    x1 = x1
    slot = slot
    genesis = b0
    Hash = {b0, a1, a2}
    Dependencies <- MCDependencies
    QualifiedRoot <- MCQualifiedRoot
    BatchSize = 2
    MaxBlocks = 1
    MaxDeferred = 1
    MaxQueuedNotifications = 1
    MaxLedgerNotifications = 1
INVARIANTS
    ContainsUntilCommitted
    DeferredIsRequeued
    AnnouncedIsCommitted
    AnnouncedInOrder
    ResultsBounded
PROPERTIES
    CementedIsAnnounced
    AddedIsResolved
