\* Lists of three areas span two pools of two.
CONSTANTS
    Layer <- AllLayers
    MaxLayers = 2
    PoolSize = 2
    MaxAreas = 3
SPECIFICATION Spec
INVARIANTS
    LayersCurrent
    DrawnOnce
    AreasAccounted
