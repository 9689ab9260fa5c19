CONSTANTS
    Benches <- MCBenches
    Places <- MCPlaces
    Slots <- MCSlots
    QueueDepth = 2
SPECIFICATION MCSpec
INVARIANTS FramesIntact NeverOlder SignalsDecode OneWalkPerCycle
PROPERTY RoundsEnd
