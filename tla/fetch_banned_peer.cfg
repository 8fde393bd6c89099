SPECIFICATION QuietSpec
CONSTANTS
    peer1 = peer1
    peer2 = peer2
    Peers = {peer1}
    Configs <- Behind
    safeReorgDistance = 1
    maxPerRequest = 2
    maxFetcherJobs = 2
    maxQueue = 0
PROPERTIES PoolServes
CHECK_DEADLOCK FALSE
