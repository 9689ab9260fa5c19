CONSTANTS
    Messages = {front, rear}
    Garbage = Garbage
    Stack = Stack
    Slots <- MCSlots
    QueueDepth = 2
    EspQueueLen = 2
    MaxReadings = 3
SPECIFICATION Spec
INVARIANT FramesIntact
