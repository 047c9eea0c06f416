SPECIFICATION Spec
CONSTANTS
    n0 = n0
    lat = lat
    bw = bw
    sl = sl
    rst = rst
    Noop = n0
    Toxics = {n0, lat, bw, sl}
    Kind <- MCKind
    BufferSize <- MCBufferSize
    Partial = {}
    RateStep = 1
    InitialChains <- BandwidthThenLatency
    DatagramSize = 2
    MaxDatagrams = 1
    MaxStubs = 4
    MaxOps = 3
    DestFails = FALSE
INVARIANT
    NoIndexPanic
CHECK_DEADLOCK FALSE
