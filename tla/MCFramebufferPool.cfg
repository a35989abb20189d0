\* Three threads, screens of one buffer and of two.
CONSTANTS
    Thread = {t1, t2, t3}
    NoOwner = NoOwner
    Mode <- SmallModes
    MaxBuffers = 2
    MaxHandles = 2
SPECIFICATION Spec
SYMMETRY ThreadSymmetry
INVARIANTS
    TypeOK
    SlotsDistinct
    MaskExact
    LockReturned
    ShownRowsExist
\* An out-of-buffers error keeps the lock, and every caller waits for it.
CHECK_DEADLOCK FALSE
