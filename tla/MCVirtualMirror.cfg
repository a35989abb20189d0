\* Two addresses of the target layer, two transforms, two buffers.
CONSTANTS
    l1 = l1
    l2 = l2
    upright = upright
    turned = turned
    b1 = b1
    b2 = b2
    Layer = {l1, l2}
    Params = {upright, turned}
    Buffer = {b1, b2}
    Others = Others
SPECIFICATION Spec
SYMMETRY Alike
INVARIANTS
    ClearedIsClean
    LeftToBase
    TakenIsDrawn
