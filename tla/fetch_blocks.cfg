SPECIFICATION FairSpec
CONSTANTS
    peer1 = peer1
    peer2 = peer2
    Peers = {peer1, peer2}
    Configs <- BehindAndForked
    safeReorgDistance = 1
    maxPerRequest = 2
    maxFetcherJobs = 2
    maxQueue = 0
INVARIANTS TypeOK JobsAccounted InOrder
PROPERTIES FetchCompletes
CHECK_DEADLOCK FALSE
