------------------------------ MODULE SwapRing ------------------------------
(***************************************************************************)
(* The swap rectangle optimisation of hwcSet and hwcCompose: a 2D frame    *)
(* composes only the dirty part of the back buffer and copies what the     *)
(* other buffers drew since from the previous buffer in the ring.  Buffers *)
(* are numbered by their physical address and used in turn; a frame        *)
(* composed by 3D goes past hwcSet.  A rectangle is the set of cells of    *)
(* the screen it covers, as AreaPartition shows it may be taken to be.     *)
(***************************************************************************)
EXTENDS Integers, SequencesExt

CONSTANTS
    BufferCount,        \* buffers the native window rotates
    Cell                \* the screen, framebuffer->res

Buffer == 1..BufferCount

ASSUME RingAssumption == BufferCount \in Nat \ {0}

VARIABLES
    ring,       \* detected buffers in the order of hwcBuffer.next, from head
    target,     \* framebuffer->target, 0 before the first 2D frame
    swapRect,   \* hwcBuffer.swapRect
    valid,      \* framebuffer->valid
    back,       \* the back buffer the framework hands out next
    fresh,      \* for each buffer the cells that show the current scene
    lost,       \* history: cells a frame has missed and none has drawn since
    misplaced   \* history: buffers whose place in the ring was never looked at

vars == <<ring, target, swapRect, valid, back, fresh, lost, misplaced>>

OnScreen == IF back = 1 THEN BufferCount ELSE back - 1

Init ==
    /\ ring = <<>> /\ target = 0
    /\ swapRect = [b \in Buffer |-> {}]
    /\ valid = FALSE
    /\ back \in Buffer
    /\ fresh = [b \in Buffer |-> {}]
    /\ lost = {}
    /\ misplaced = {}

\* Mutant of Inserted: a new buffer always goes before the head, as the last.
InsertedAtEnd(b) == Append(ring, b)

\* Where a buffer hwcSet has not seen yet goes: before the head if it is the
\* lowest, else behind the first node after the head it fits behind.  The
\* search starts at head->next and gives up when it is back at the head.
Inserted(b) ==
    IF ring = <<>> \/ b < ring[1] THEN <<b>> \o ring
    ELSE LET fits == {k \in 2..(Len(ring) - 1) : ring[k] < b /\ b < ring[k + 1]}
             place == IF fits = {} THEN Len(ring)
                      ELSE CHOOSE k \in fits : \A j \in fits : k <= j
         IN  InsertAt(ring, place + 1, b)

Detected == IF back \in ToSet(ring) THEN ring ELSE Inserted(back)

\* A new buffer between the head and head->next: the search passes over the
\* one place it belongs to.
Skipped(b) ==
    /\ b \notin ToSet(ring)
    /\ Len(ring) >= 2 /\ ring[1] < b /\ b < ring[2]

\* target->prev
Previous(nodes, b) ==
    LET k == CHOOSE i \in DOMAIN nodes : nodes[i] = b
    IN  IF k = 1 THEN Last(nodes) ELSE nodes[k - 1]

\* Mutant of Copied: only the rectangle of the previous buffer is split in.
CopiedFromPrevious(nodes, dirty) ==
    IF dirty = Cell \/ Len(nodes) = 1 THEN {}
    ELSE swapRect[Previous(nodes, back)] \ dirty

\* The areas of swapArea without owner: what other buffers of the ring drew
\* outside the target's own rectangle.  There is no swap area for a full
\* frame or for a ring of one buffer.
Copied(nodes, dirty) ==
    IF dirty = Cell \/ Len(nodes) = 1 THEN {}
    ELSE (UNION {swapRect[b] : b \in ToSet(nodes) \ {back}}) \ dirty

\* _SwapRectangle: the given cells as the target gets them from the buffer
\* before it.
SwapRectangle(nodes, cells) == fresh[Previous(nodes, back)] \intersect cells

Swap == back' = IF back = BufferCount THEN 1 ELSE back + 1

\* Cells a frame may miss: those it does not come to draw, those it copies from
\* another buffer than the one on the screen, and, after 3D frames, all outside
\* its own rectangle, for the rectangles of the others are not reset to the
\* full screen.
Missed(dirty, drawn) ==
    LET copied == Copied(ring', dirty)
    IN  ((copied \union dirty) \ drawn)
            \union (IF Previous(ring', back) = OnScreen THEN {} ELSE copied)
            \union (IF valid THEN {} ELSE Cell \ dirty)

\* Mutant of Frame2D: the rectangle of the target is not recorded.
Frame2DUnrecorded(dirty, drawn) ==
    /\ ring' = Detected
    /\ target' = back
    /\ valid' = TRUE
    /\ LET copied == Copied(ring', dirty)
       IN  /\ drawn = copied \union dirty
           /\ fresh' = [b \in Buffer |->
                IF b = back THEN dirty \union SwapRectangle(ring', copied) \union (fresh[b] \ copied)
                ELSE fresh[b] \ dirty]
    /\ lost' = (lost \ dirty) \union Missed(dirty, drawn)
    /\ misplaced' = misplaced \union {b \in {back} : Skipped(b)}
    /\ Swap
    /\ UNCHANGED swapRect

(***************************************************************************)
(* hwcSet with composition, then eglSwapBuffers.  The scene changed inside *)
(* the rectangle "dirty", which comes with the buffer.  The frame copies   *)
(* first and composes then; a 2D call that fails stops it when only the    *)
(* cells "drawn" are done, and the buffer is swapped all the same.  The    *)
(* loop under "Reset swap rectangles of other buffers" starts at the       *)
(* target and runs while it is not at the target, so it changes nothing.   *)
(***************************************************************************)
Frame2D(dirty, drawn) ==
    /\ ring' = Detected
    /\ target' = back
    /\ swapRect' = [swapRect EXCEPT ![back] = dirty]
    /\ valid' = TRUE
    /\ LET copied == Copied(ring', dirty)
       IN  /\ drawn \subseteq copied \union dirty
           /\ drawn \subseteq copied \/ copied \subseteq drawn
           /\ fresh' = [b \in Buffer |->
                IF b = back
                THEN (drawn \intersect dirty) \union SwapRectangle(ring', copied \intersect drawn)
                         \union ((fresh[b] \ dirty) \ (copied \intersect drawn))
                ELSE fresh[b] \ dirty]
    /\ lost' = (lost \ dirty) \union Missed(dirty, drawn)
    /\ misplaced' = misplaced \union {b \in {back} : Skipped(b)}
    /\ Swap

\* hwcSet without composition: OpenGL draws the whole back buffer.
Frame3D(dirty) ==
    /\ valid' = FALSE
    /\ fresh' = [b \in Buffer |-> IF b = back THEN Cell ELSE fresh[b] \ dirty]
    /\ Swap
    /\ UNCHANGED <<ring, target, swapRect, lost, misplaced>>

Next == \E dirty \in SUBSET Cell \ {{}} :
            Frame3D(dirty) \/ \E drawn \in SUBSET Cell : Frame2D(dirty, drawn)

Spec == Init /\ [][Next]_vars

----------------------------------------------------------------------------
TypeOK ==
    /\ ring \in Seq(Buffer)
    /\ target \in Buffer \union {0}
    /\ swapRect \in [Buffer -> SUBSET Cell]
    /\ valid \in BOOLEAN
    /\ back \in Buffer
    /\ fresh \in [Buffer -> SUBSET Cell]
    /\ lost \subseteq Cell
    /\ misplaced \subseteq Buffer

\* The buffer on the screen shows the current scene, although only part of it
\* was composed in its frame.  Cells it may lack are those a frame has missed:
\* because it failed, because it was partial and the first after 3D frames, or
\* because it copied from another buffer than the one on the screen; and they
\* are lacked only until a frame draws them.
DisplayedFrameComplete ==
    ring # <<>> => Cell \ lost \subseteq fresh[OnScreen]

\* What a buffer misses, even one hwcSet has not seen, is in the rectangles of
\* the others in the ring, so that its next frame copies it, but for what a
\* frame has lost.
MissingIsTracked ==
    valid => \A b \in Buffer :
        (Cell \ fresh[b]) \ lost \subseteq UNION {swapRect[c] : c \in ToSet(ring) \ {b}}

\* "No owner means we need copy area from front buffer to current": a frame
\* after a 2D frame copies from the buffer that is on the screen, in whatever
\* order the buffers were first seen, unless one of the two or the one copied
\* from is a buffer that was first seen when only buffers on both sides of it
\* were in the ring, the lower one as its head.
CopiesFromFront ==
    [][valid /\ valid' /\ Copied(ring', swapRect'[target']) # {} =>
            \/ Previous(ring', target') = OnScreen
            \/ {target', OnScreen, Previous(ring', target')} \intersect misplaced' # {}]_vars

=============================================================================
