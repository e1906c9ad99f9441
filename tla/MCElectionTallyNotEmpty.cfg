SPECIFICATION Spec
CONSTANTS
    n1 = n1
    n2 = n2
    r1 = r1
    r2 = r2
    Node = {n1}
    Rep = {r1, r2}
    Candidate = {1, 2, 3}
    Weight <- MCHeavy
    Delta = 2
    MaxBlocks = 2
    MaxTimestamp = 1
    MaxRouted = 1
    Event = {}
    Voter <- MCVoter
    None = None
PROPERTIES
    TallyNotEmpty
CHECK_DEADLOCK FALSE
