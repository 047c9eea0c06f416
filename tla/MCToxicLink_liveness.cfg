SPECIFICATION FairSpec
CONSTANTS
    n0 = n0
    lat = lat
    bw = bw
    sl = sl
    rst = rst
    Noop = n0
    Toxics = {n0, lat, bw, sl}
    Kind <- MCKind
    BufferSize <- MCBufferSize
    Partial = {bw}
    RateStep = 1
    InitialChains <- LatencyThenBandwidth
    DatagramSize = 2
    MaxDatagrams = 1
    MaxStubs = 4
    MaxOps = 2
    DestFails = FALSE
INVARIANTS
    EndAfterData
PROPERTIES
    OpCompletes
    BytesLeave
    EndedLinkRemoved
CHECK_DEADLOCK FALSE
