\* A 3 x 2 screen and two calls after the first area.
CONSTANTS
    Width = 3
    Height = 2
    MaxCalls = 3
    Owner = {l1, l2}
    Request <- GridRequest
    Column <- GridColumn
    Row <- GridRow
SPECIFICATION Spec
SYMMETRY OwnerSymmetry
CONSTRAINT BoundedCalls
INVARIANTS
    AreasDisjoint
    OwnersExact
    CoverageExact
