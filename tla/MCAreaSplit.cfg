\* Three rectangles, each any of a 3 x 3 screen.
CONSTANTS
    Width = 3
    Height = 3
    MaxCalls = 4
    Owner <- TwoOwners
    FirstArea <- GridFirst
    Request <- GridRequest
    Column <- GridColumn
    Row <- GridRow
SPECIFICATION Spec
INVARIANTS
    SuspendedAreaUntouched
PROPERTIES
    ImplementsPartition
    CallReturns
CHECK_DEADLOCK FALSE
