\* Four buffers, one more than NUM_BUFFERS, so that a buffer may be misplaced
\* among others that are not; two cells, one a frame draws and one it does not.
CONSTANTS
    BufferCount = 4
    Cell = {c1, c2}
SPECIFICATION Spec
INVARIANTS
    DisplayedFrameComplete
    MissingIsTracked
PROPERTIES
    CopiesFromFront
