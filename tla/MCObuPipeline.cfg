CONSTANTS
    CanQueueLen = 2
    XbeeQueueLen = 1
    QueueLen = 1
    BatchMax = 2
    RingSize = 4
    SyncSize = 1
    PacketSize = 2
    MaxFrames = 4
SPECIFICATION FairSpec
INVARIANTS TypeOK OneSequenceOneFrame UartHasRoom
PROPERTIES CaptureGoesOn XbeeFifoSpec UplinkSpec
