SPECIFICATION FairSpec
CONSTANTS
    n0 = n0
    lat = lat
    bw = bw
    sl = sl
    rst = rst
    Noop = n0
    Toxics = {n0, lat, rst}
    Kind <- MCKind
    BufferSize <- MCBufferSize
    Partial = {}
    RateStep = 1
    InitialChains <- LatencyThenReset
    DatagramSize = 1
    MaxDatagrams = 2
    MaxStubs = 3
    MaxOps = 1
    DestFails = FALSE
PROPERTY
    OpCompletes
CHECK_DEADLOCK FALSE
