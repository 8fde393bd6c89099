CONSTANTS
    A = A
    B = B
    t1 = t1
    t2 = t2
    t3 = t3
    t4 = t4
    t5 = t5
    t6 = t6
    t7 = t7
    mineCall = mineCall
    mineCall2 = mineCall2
    snap = snap
    rev = rev
    snap2 = snap2
    rev2 = rev2
    stop = stop
    start = start
    timer = timer
    None = None
    Origins = {A, B}
    Txs = {t1, t2, t3, t4, t5, t6, t7}
    Calls = {mineCall, mineCall2, snap, snap2, rev, rev2, stop, start, timer}
    From <- MCFrom
    NonceField <- MCNonce
    Price <- MCPrice
    Gas <- MCGas
    Failing = {t5}
    Kind <- MCKind
    BlockGasLimit = 9
    TxGas = 2
    Configs <- PriceConfigs
    MaxBlocks = 5
SPECIFICATION Spec
INVARIANT ExecutingIsBest
CHECK_DEADLOCK FALSE
