SPECIFICATION Spec
CONSTANTS
    SlicerAttrs <- MCSlicerAttrs
    MaxDepth = 5
    Rates <- MCRates
    Interval = 2
    BufferSizes = {2}
    Lengths = {4}
    MaxDatagrams = 1
    MaxUpdates = 1
    MaxTime = 5
INVARIANTS TypeOK ChunksTile BytesIntact SlicerSafe BandwidthSafe RateRespected
CHECK_DEADLOCK FALSE
