\* Five layers: one more than the sources of a blit on most cores, and than
\* the room of sourceIndices on all.
CONSTANTS
    LayerCount = 5
    LayerKind <- AllKinds
    Device <- AllDevices
    EigenD = 0
SPECIFICATION ComposeSpec
INVARIANTS
    PictureRight
    SourcesFit
    BatchAligned
CHECK_DEADLOCK FALSE
