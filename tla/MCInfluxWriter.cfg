CONSTANTS
    PointIds = {p1, p2}
    Malformed = Malformed
    BatchSize = 2
    MaxAckPending = 2
    Prefetch = 1
    MaxMessages = 2
    MaxExits = 1
SPECIFICATION FairSpec
INVARIANTS TypeOK SettledIsStored
PROPERTY EveryRecordSettled
