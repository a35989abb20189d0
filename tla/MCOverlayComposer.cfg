\* Two layers, two buffers, two prepares before a set, one failed call at a time,
\* the delay of the code.
CONSTANTS
    b1 = b1
    b2 = b2
    Layer <- SomeLayers
    Buffer = {b1, b2}
    NoBuffer = NoBuffer
    MaxLayers = 2
    MaxPrepares = 2
    MaxFailed = 1
    Delay = 2
SPECIFICATION Spec
SYMMETRY SameBuffers
INVARIANTS
    NoLayerLost
    HandOver
    NothingOverOverlay
    ScreenReleased
