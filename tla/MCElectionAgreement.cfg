SPECIFICATION Spec
CONSTANTS
    n1 = n1
    n2 = n2
    r1 = r1
    r2 = r2
    Node = {n1, n2}
    Rep = {r1, r2}
    Candidate = {1, 2}
    Weight <- MCEqual
    Delta = 2
    MaxBlocks = 2
    MaxTimestamp = 1
    MaxRouted = 1
    Event = {"expired_confirmed", "cancelled"}
    Voter <- MCVoter
    None = None
INVARIANTS
    Agreement
PROPERTIES
    ConsensusSpec
    
CHECK_DEADLOCK FALSE
