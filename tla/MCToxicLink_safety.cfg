SPECIFICATION Spec
CONSTANTS
    n0 = n0
    lat = lat
    bw = bw
    sl = sl
    rst = rst
    Noop = n0
    Toxics = {n0, lat, bw, sl, rst}
    Kind <- MCKind
    BufferSize <- MCBufferSize
    Partial = {bw}
    RateStep = 1
    InitialChains <- LatencyThenBandwidth
    DatagramSize = 2
    MaxDatagrams = 2
    MaxStubs = 4
    MaxOps = 2
    DestFails = TRUE
INVARIANTS
    TypeOK
    NoChannelPanic
    OpenLinkFollowsChain
    StubsCoverChain
PROPERTIES
    ImplementsPipe
CHECK_DEADLOCK FALSE
