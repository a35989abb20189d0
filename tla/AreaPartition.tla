---------------------------- MODULE AreaPartition ----------------------------
(***************************************************************************)
(* What splitting an area list promises, whatever the order of the list:   *)
(* the screen stays cut into disjoint rectangles, and each one is tagged   *)
(* with exactly the layers that cover it.  One call adds one rectangle     *)
(* with its owners; pieces of it that have not reached their place yet     *)
(* are pending.                                                            *)
(***************************************************************************)
EXTENDS AreaGeometry

CONSTANTS
    Owner,      \* layers, the bits of hwcArea.owners
    Request,    \* the calls made: records of a rectangle and owner bits
    Column, Row \* the pixels the properties speak of

Area == [rect: Rect, owners: SUBSET Owner]

ASSUME RequestAssumption == Request \subseteq Area
ASSUME PixelAssumption == Column \subseteq Int /\ Row \subseteq Int

VARIABLES
    areas,      \* the list of areas, as a set
    pending,    \* pieces of the current call's rectangle still to place
    call,       \* the current call, or the last one if nothing is pending
    done        \* the calls before it, the first area among them

vars == <<areas, pending, call, done>>

\* The first area of a list is allocated, not split in.
Init ==
    /\ call \in Request
    /\ areas = {call}
    /\ pending = {}
    /\ done = {}

Call(c) ==
    /\ pending = {}
    /\ call' = c
    /\ done' = done \union {call}
    /\ pending' = {c.rect}
    /\ UNCHANGED areas

\* A piece that meets no area becomes an area of its own.
Extend(r) ==
    /\ \A a \in areas : ~Overlaps(r, a.rect)
    /\ areas' = areas \union {[rect |-> r, owners |-> call.owners]}
    /\ pending' = pending \ {r}
    /\ UNCHANGED <<call, done>>

\* A piece that meets an area is cut; what is outside the area stays pending.
Split(r, a) ==
    /\ Overlaps(r, a.rect)
    /\ areas' = (areas \ {a}) \union Pieces(a, r, call.owners)
    /\ pending' = (pending \ {r}) \union Strips(r, a.rect)
    /\ UNCHANGED <<call, done>>

Next ==
    \/ \E c \in Request : Call(c)
    \/ \E r \in pending : Extend(r) \/ \E a \in areas : Split(r, a)

Spec == Init /\ [][Next]_vars

----------------------------------------------------------------------------
TypeOK ==
    /\ areas \subseteq Area
    /\ pending \subseteq Rect
    /\ call \in Area
    /\ done \subseteq Area

\* No two areas share a pixel, and no two pieces on their way do, so no pixel
\* is composed twice: hwcCompose draws every area on its own.
AreasDisjoint ==
    /\ \A a, b \in areas : a # b => ~Overlaps(a.rect, b.rect)
    /\ \A r, s \in pending : r # s => ~Overlaps(r, s)

OwnedBy(o, x, y, calls) == \E c \in calls : In(x, y, c.rect) /\ o \in c.owners
IsPending(x, y) == \E r \in pending : In(x, y, r)
IsPlaced(x, y) == \E a \in areas : In(x, y, a.rect)

\* An area has exactly the owners whose rectangles were split in over it: no
\* pixel loses a layer that covers it, and none gains a layer it is not under.
\* While a piece of the current call is pending its owners are not counted yet.
OwnersExact ==
    \A a \in areas : \A x \in Column, y \in Row : In(x, y, a.rect) =>
        \A o \in Owner :
            o \in a.owners <=>
                \/ OwnedBy(o, x, y, done)
                \/ ~IsPending(x, y) /\ OwnedBy(o, x, y, {call})

\* The areas and the pending pieces cover what was ever split in, and nothing
\* else: no pixel is forgotten, and none outside the layers is drawn.
CoverageExact ==
    \A x \in Column, y \in Row :
        IsPlaced(x, y) \/ IsPending(x, y)
            <=> \E c \in done \union {call} : In(x, y, c.rect)

=============================================================================
