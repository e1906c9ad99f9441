CONSTANTS
    G = G
    A = A
    B = B
    epoch1 = epoch1
    epoch_key = epoch_key
    b0 = b0
    s1 = s1
    s1f = s1f
    oA = oA
    cA = cA
    s2 = s2
    r2 = r2
    cG = cG
    eA = eA
    stA = stA
    eO = eO
    oB = oB
    rO = rO
    rdup = rdup
    greedy = greedy
    unsigned = unsigned
    astray = astray
    Zero = Zero
    Account <- MCAccount
    Hash <- MCHash
    EpochLink = {epoch1}
    Block <- MCBlock
    Epochs <- MCEpochs
    genesis = b0
    MaxRollbackDepth = 1
    MaxBlocks = 2
    Pruning = TRUE
    min_weight = 2
SPECIFICATION FairSpec
INVARIANTS
    TypeOK
    RestartPasses
    WeightsMatchDelegations
    ChainsIntact
    FrontierOnChain
    PendingUntilReceived
    EpochsFollowBlocks
    LatticeClosed
    CementsLedgerBlocks
    RollbackAllOrNothing
    RollbackOnlyDependents
    ForkHasCompetitor
    PrunesCementedBlocks
PROPERTIES
    LatticeSpec
    CementProgresses
    OperationsEnd
