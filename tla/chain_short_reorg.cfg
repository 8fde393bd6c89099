SPECIFICATION Spec
CONSTANTS
    g = g  a1 = a1  a2 = a2  a3 = a3  b1 = b1  b2 = b2  c2 = c2
    Blocks = {g, a1, a2, a3, b1, b2, c2}
    Genesis = g
    None = None
    Parent <- MCParent
    Number <- MCNumber
    TD <- UnevenTD
    ProofOfStake = FALSE
    BatchSize = 2
    Configs <- ClientOnly
INVARIANT ExecutedToHead
CHECK_DEADLOCK FALSE
