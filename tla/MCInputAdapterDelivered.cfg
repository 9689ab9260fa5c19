CONSTANTS
    Devices = {d1}
    MaxSeq = 1
    Window = 2
    MaxTime = 2
    SweepEvery = 1
    PublishTime = 1
    ChanLen = 1
    Payloads <- MCPayloads
    MaxMessages = 2
    MaxBoots = 0
SPECIFICATION Spec
INVARIANT DuplicateWasDelivered
