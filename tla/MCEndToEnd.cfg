CONSTANTS
    Devices <- MCDevices
    CanFrame <- MCCanFrame
    Damages <- MCDamages
    MaxSeq = 2
    Window = 2
    MaxTime = 4
    MaxDelay = 2
    MaxFlight = 2
SPECIFICATION ESpec
INVARIANTS TypeOK SeenIsRecentlyAccepted NoSilentGap EveryArrivalOnce StoredAsCaptured
CHECK_DEADLOCK FALSE
