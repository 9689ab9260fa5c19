CONSTANTS
    Devices = {d1}
    MaxSeq = 1
    Window = 2
    MaxTime = 3
    SweepEvery = 1
    PublishTime = 1
    ChanLen = 1
    Payloads <- MCPayloads
    MaxMessages = 3
    MaxBoots = 1
SPECIFICATION FairSpec
INVARIANTS TypeOK StreamsFollow OnceInWindow
PROPERTIES DedupSpec MessagesHandled
