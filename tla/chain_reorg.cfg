SPECIFICATION FairSpec
CONSTANTS
    g = g  a1 = a1  a2 = a2  a3 = a3  b1 = b1  b2 = b2  c2 = c2
    Blocks = {g, a1, a2, a3, b1, b2, c2}
    Genesis = g
    None = None
    Parent <- MCParent
    Number <- MCNumber
    TD <- EqualTD
    ProofOfStake = FALSE
    BatchSize = 2
    Configs <- Deployments
INVARIANTS TypeOK CanonicalLinked HeadsOnChain SavedHeadsStored HeaviestHead ExecutedToHead
PROPERTIES RunReachesHead ImplementsForkChoice OnlyInvalidDeleted
CHECK_DEADLOCK FALSE
