\* Video and plain layers only, on a core with multi-source blit.
CONSTANTS
    LayerCount = 5
    LayerKind <- VideoKinds
    Device <- SmallDevice
    EigenD = 0
SPECIFICATION ComposeSpec
INVARIANTS
    OneYuvPerBlit
CHECK_DEADLOCK FALSE
