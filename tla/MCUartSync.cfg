CONSTANTS
    Marker <- MCMarker
    Bodies <- PlainBodies
    BodyLen = 3
    Noises <- MCNoises
    Timeout = 2
    TickMod = 4
    RingLen = 2
    MaxFrames = 3
SPECIFICATION Spec
INVARIANTS LossContained
PROPERTY FifoSpec
