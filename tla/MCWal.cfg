SPECIFICATION FairSpec
CONSTANTS
    Thread = {t1, t2}
    MaxLsn = 4
    BufferCapacity = 2
    SegmentSize = 2
INVARIANTS
    OneOrder
    FlushedIsDurable
    EmptyMeansFlushed
PROPERTIES
    DurableForGood
    FlushReturns
