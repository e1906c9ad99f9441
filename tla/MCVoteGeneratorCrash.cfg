SPECIFICATION VGSpec
CONSTANTS
    g = g
    p = p
    x = x
    y = y
    slot = slot
    None = None
    Hash = {g, p, x, y}
    Elected <- MCElected
    genesis = g
    Dependencies <- MCDependencies
    QualifiedRoot <- MCQualifiedRoot
    MaxQueue = 2
    BatchSize = 2
    BatchThreshold = 1
    MaxCrashes = 1
INVARIANT FinalVotesUnique
