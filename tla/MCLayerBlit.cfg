\* Surfaces and frames of a few pixels, up to two DIM layers.
CONSTANTS
    Stack <- SomeStacks
    TargetBytes = 4
SPECIFICATION BlitSpec
INVARIANTS
    SinglePicture
    MultiSourcePicture
    MultiSourceAligned
    DimmedRight
