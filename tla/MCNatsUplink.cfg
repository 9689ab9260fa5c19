CONSTANTS
    QueueLen = 2
    BatchMax = 3
    MaxPackets = 6
SPECIFICATION FairSpec
INVARIANTS TypeOK FifoOrder BatchFits BatchHasSocket
PROPERTIES BatchFlushed FifoSpec
