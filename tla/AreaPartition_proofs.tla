------------------------ MODULE AreaPartition_proofs ------------------------
(***************************************************************************)
(* AreaPartition keeps the screen partitioned for any rectangles, any      *)
(* owners, any number of calls and any order of the pieces.                *)
(***************************************************************************)
EXTENDS AreaPartition, TLAPS

\* p lies within q.
Within(p, q) == /\ q.left <= p.left /\ p.right <= q.right
                /\ q.top <= p.top /\ p.bottom <= q.bottom

----------------------------------------------------------------------------
(***************************************************************************)
(* Geometry of one cut.                                                    *)
(***************************************************************************)

\* The four strips, one by one: a strip that exists is a non-empty rectangle
\* inside the rectangle it was cut from and clear of the other one.
LEMMA StripsShape ==
    ASSUME NEW p \in Rect, NEW q \in Rect, Overlaps(p, q), NEW s \in Strips(p, q)
    PROVE  s \in Rect /\ Within(s, p) /\ ~Overlaps(s, q)
<1>1. CASE s = LeftOf(p, q) /\ p.left < q.left
  BY <1>1 DEF LeftOf, Rect, Overlaps, Within
<1>2. CASE s = Above(p, q) /\ p.top < q.top
  BY <1>2 DEF Above, Rect, Overlaps, Within, Larger, Smaller
<1>3. CASE s = RightOf(p, q) /\ p.right > q.right
  BY <1>3 DEF RightOf, Rect, Overlaps, Within
<1>4. CASE s = Below(p, q) /\ p.bottom > q.bottom
  BY <1>4 DEF Below, Rect, Overlaps, Within, Larger, Smaller
<1> QED
  BY <1>1, <1>2, <1>3, <1>4 DEF Strips

\* The part that both rectangles have.
LEMMA ClipShape ==
    ASSUME NEW p \in Rect, NEW q \in Rect, Overlaps(p, q)
    PROVE  Clip(p, q) \in Rect /\ Within(Clip(p, q), p) /\ Within(Clip(p, q), q)
  BY DEF Clip, Rect, Overlaps, Within, Larger, Smaller

\* Pieces of one cut never overlap each other.
LEMMA StripsApart ==
    ASSUME NEW p \in Rect, NEW q \in Rect, Overlaps(p, q),
           NEW s \in Strips(p, q), NEW t \in Strips(p, q), s # t
    PROVE  ~Overlaps(s, t)
  BY DEF Strips, LeftOf, RightOf, Above, Below, Rect, Overlaps, Larger, Smaller

\* A part of a rectangle meets no more than the rectangle does.
LEMMA WithinMeetsLess ==
    ASSUME NEW p \in Rect, NEW q \in Rect, NEW s \in Rect, Within(s, p), ~Overlaps(p, q)
    PROVE  ~Overlaps(s, q) /\ ~Overlaps(q, s)
  BY DEF Rect, Overlaps, Within

LEMMA OverlapsSymmetric ==
    ASSUME NEW p \in Rect, NEW q \in Rect
    PROVE  Overlaps(p, q) <=> Overlaps(q, p)
  BY DEF Rect, Overlaps

\* Rectangles that share a pixel overlap.
LEMMA SharedPixel ==
    ASSUME NEW p \in Rect, NEW q \in Rect, NEW x \in Int, NEW y \in Int,
           In(x, y, p), In(x, y, q)
    PROVE  Overlaps(p, q)
  BY DEF Rect, Overlaps, In

\* The pixels of Clip(p, q) are those of p that are in q ...
LEMMA ClipPixels ==
    ASSUME NEW p \in Rect, NEW q \in Rect, NEW x \in Int, NEW y \in Int
    PROVE  In(x, y, Clip(p, q)) <=> In(x, y, p) /\ In(x, y, q)
  BY DEF Rect, In, Clip, Larger, Smaller

\* ... and the strips hold the others: a cut loses no pixel and adds none.
LEMMA StripsPixels ==
    ASSUME NEW p \in Rect, NEW q \in Rect, Overlaps(p, q), NEW x \in Int, NEW y \in Int
    PROVE  (\E s \in Strips(p, q) : In(x, y, s)) <=> In(x, y, p) /\ ~In(x, y, q)
<1>1. ASSUME NEW s \in Strips(p, q), In(x, y, s)
      PROVE  In(x, y, p) /\ ~In(x, y, q)
  <2>1. s \in Rect /\ Within(s, p) /\ ~Overlaps(s, q)
    BY StripsShape
  <2> QED
    BY <1>1, <2>1, SharedPixel DEF Rect, In, Within
<1>2. ASSUME In(x, y, p), ~In(x, y, q)
      PROVE  \E s \in Strips(p, q) : In(x, y, s)
  <2>1. CASE x < q.left
    <3>1. In(x, y, LeftOf(p, q)) /\ p.left < q.left
      BY <1>2, <2>1 DEF In, LeftOf, Rect
    <3> QED
      BY <3>1 DEF Strips
  <2>2. CASE q.right <= x
    <3>1. In(x, y, RightOf(p, q)) /\ p.right > q.right
      BY <1>2, <2>2 DEF In, RightOf, Rect
    <3> QED
      BY <3>1 DEF Strips
  <2>3. CASE q.left <= x /\ x < q.right /\ y < q.top
    <3>1. In(x, y, Above(p, q)) /\ p.top < q.top
      BY <1>2, <2>3 DEF In, Above, Rect, Larger, Smaller
    <3> QED
      BY <3>1 DEF Strips
  <2>4. CASE q.left <= x /\ x < q.right /\ q.bottom <= y
    <3>1. In(x, y, Below(p, q)) /\ p.bottom > q.bottom
      BY <1>2, <2>4 DEF In, Below, Rect, Larger, Smaller
    <3> QED
      BY <3>1 DEF Strips
  <2> QED
    BY <1>2, <2>1, <2>2, <2>3, <2>4 DEF In, Rect
<1> QED
  BY <1>1, <1>2

----------------------------------------------------------------------------
(***************************************************************************)
(* The inductive invariant.  OwnersExact and CoverageExact are not         *)
(* inductive: a pending piece may become an area with the owners of its    *)
(* call only because it lies in the call's rectangle and no earlier call   *)
(* reached its pixels.                                                     *)
(***************************************************************************)
PendingInCall ==
    \A x \in Column, y \in Row : IsPending(x, y) => In(x, y, call.rect)

DonePlaced ==
    \A x \in Column, y \in Row :
        (\E c \in done : In(x, y, c.rect)) => IsPlaced(x, y)

IInv == /\ TypeOK
        /\ AreasDisjoint
        /\ PendingInCall
        /\ DonePlaced
        /\ OwnersExact
        /\ CoverageExact

USE RequestAssumption, PixelAssumption

LEMMA InitIInv == Init => IInv
<1> SUFFICES ASSUME Init PROVE IInv
  OBVIOUS
<1>1. TypeOK /\ AreasDisjoint /\ PendingInCall /\ DonePlaced
  BY DEF Init, TypeOK, AreasDisjoint, PendingInCall, DonePlaced, IsPending, Area
<1>2. OwnersExact
  BY DEF Init, OwnersExact, OwnedBy, IsPending
<1>3. CoverageExact
  BY DEF Init, CoverageExact, IsPlaced, IsPending
<1> QED
  BY <1>1, <1>2, <1>3 DEF IInv

\* A new call takes over when the one before it is placed entirely.
LEMMA CallKeepsIInv ==
    ASSUME IInv, NEW c \in Request, Call(c)
    PROVE  IInv'
<1> USE DEF IInv, Call
<1>1. TypeOK'
  BY DEF TypeOK, Area
<1>2. AreasDisjoint'
  BY DEF AreasDisjoint
<1>3. PendingInCall'
  BY DEF PendingInCall, IsPending
<1>4. DonePlaced'
  BY DEF CoverageExact, DonePlaced, IsPlaced, IsPending
<1>5. OwnersExact'
  BY DEF OwnersExact, OwnedBy, IsPending
<1>6. CoverageExact'
  BY DEF CoverageExact, IsPlaced, IsPending
<1> QED
  BY <1>1, <1>2, <1>3, <1>4, <1>5, <1>6

\* A piece that meets no area has pixels no earlier call reached.
LEMMA ExtendKeepsIInv ==
    ASSUME IInv, NEW r \in pending, Extend(r)
    PROVE  IInv'
<1> USE DEF IInv, Extend
<1> DEFINE new == [rect |-> r, owners |-> call.owners]
<1>1. TypeOK'
  BY DEF TypeOK, Area
<1>2. AreasDisjoint'
  <2>1. \A a \in areas : ~Overlaps(r, a.rect) /\ ~Overlaps(a.rect, r)
    BY OverlapsSymmetric DEF TypeOK, Area
  <2> QED
    BY <2>1 DEF AreasDisjoint
<1>3. PendingInCall'
  BY DEF PendingInCall, IsPending
<1>4. DonePlaced'
  BY DEF DonePlaced, IsPlaced
<1>5. ASSUME NEW x \in Column, NEW y \in Row
      PROVE  /\ In(x, y, r) => ~IsPending(x, y)' /\ ~IsPlaced(x, y)
             /\ ~In(x, y, r) => (IsPending(x, y)' <=> IsPending(x, y))
  BY SharedPixel DEF TypeOK, Area, AreasDisjoint, IsPending, IsPlaced
<1>6. OwnersExact'
  <2> SUFFICES ASSUME NEW a \in areas', NEW x \in Column, NEW y \in Row,
                      In(x, y, a.rect), NEW o \in Owner
               PROVE  o \in a.owners <=> \/ OwnedBy(o, x, y, done)
                                         \/ ~IsPending(x, y)' /\ OwnedBy(o, x, y, {call})
    BY DEF OwnersExact, OwnedBy
  <2>1. CASE a = new
    <3>1. In(x, y, call.rect) /\ ~IsPending(x, y)' /\ ~OwnedBy(o, x, y, done)
      BY <2>1, <1>5 DEF PendingInCall, DonePlaced, IsPending, OwnedBy
    <3> QED
      BY <2>1, <3>1 DEF OwnedBy
  <2>2. CASE a \in areas
    <3>1. ~In(x, y, r)
      BY <2>2, <1>5 DEF IsPlaced
    <3> QED
      BY <2>2, <3>1, <1>5 DEF OwnersExact
  <2> QED
    BY <2>1, <2>2
<1>7. CoverageExact'
  <2>1. ASSUME NEW x \in Column, NEW y \in Row
        PROVE  IsPlaced(x, y)' \/ IsPending(x, y)' <=> IsPlaced(x, y) \/ IsPending(x, y)
    <3>1. IsPlaced(x, y)' <=> IsPlaced(x, y) \/ In(x, y, r)
      <4>1. new.rect = r /\ areas' = areas \union {new}
        OBVIOUS
      <4> HIDE DEF new
      <4> QED
        BY <4>1 DEF IsPlaced
    <3>2. IsPending(x, y) <=> IsPending(x, y)' \/ In(x, y, r)
      BY DEF IsPending
    <3> QED
      BY <3>1, <3>2
  <2> QED
    BY <2>1 DEF CoverageExact
<1> QED
  BY <1>1, <1>2, <1>3, <1>4, <1>6, <1>7

\* A piece that meets an area shares its pixels there and keeps the others.
LEMMA SplitKeepsIInv ==
    ASSUME IInv, NEW r \in pending, NEW a \in areas, Split(r, a)
    PROVE  IInv'
<1> USE DEF IInv, Split
<1> DEFINE inner == Clip(a.rect, r)
           shared == [rect |-> inner, owners |-> a.owners \union call.owners]
           Kept(s) == [rect |-> s, owners |-> a.owners]
<1>1. r \in Rect /\ a.rect \in Rect /\ Overlaps(r, a.rect) /\ Overlaps(a.rect, r)
  BY OverlapsSymmetric DEF TypeOK, Area
<1>2. \A b \in areas' : \/ b \in areas \ {a}
                        \/ b = shared
                        \/ \E s \in Strips(a.rect, r) : b = Kept(s)
  BY DEF Pieces
<1>3. \A s \in pending' : \/ s \in pending \ {r}
                          \/ s \in Strips(r, a.rect)
  OBVIOUS
<1>4. inner \in Rect /\ Within(inner, a.rect) /\ Within(inner, r)
  BY <1>1, ClipShape
<1>5. \A s \in Strips(a.rect, r) :
         s \in Rect /\ Within(s, a.rect) /\ ~Overlaps(s, r) /\ ~Overlaps(s, inner)
             /\ ~Overlaps(inner, s)
  BY <1>1, <1>4, StripsShape, WithinMeetsLess, OverlapsSymmetric
<1>6. \A s \in Strips(r, a.rect) :
         s \in Rect /\ Within(s, r) /\ ~Overlaps(s, a.rect)
  BY <1>1, StripsShape
<1>7. TypeOK'
  <2>1. areas' \subseteq Area
    BY <1>2, <1>4, <1>5 DEF TypeOK, Area
  <2> QED
    BY <2>1, <1>3, <1>6 DEF TypeOK
<1>8. AreasDisjoint'
  <2>1. ASSUME NEW b \in areas', NEW c \in areas', b # c
        PROVE  ~Overlaps(b.rect, c.rect)
    <3>1. \A d \in areas \ {a} : /\ d.rect \in Rect
                                 /\ ~Overlaps(d.rect, a.rect)
                                 /\ ~Overlaps(a.rect, d.rect)
      BY DEF AreasDisjoint, TypeOK, Area
    <3>2. \A d \in areas \ {a}, s \in Rect :
             Within(s, a.rect) => ~Overlaps(d.rect, s) /\ ~Overlaps(s, d.rect)
      BY <3>1, <1>1, WithinMeetsLess
    <3>3. CASE b \in areas \ {a}
      BY <3>3, <3>2, <1>2, <1>4, <1>5, <2>1 DEF AreasDisjoint
    <3>4. CASE b = shared
      BY <3>4, <3>2, <1>2, <1>4, <1>5, <2>1
    <3>5. CASE \E s \in Strips(a.rect, r) : b = Kept(s)
      BY <3>5, <3>2, <1>1, <1>2, <1>4, <1>5, <2>1, StripsApart
    <3> QED
      BY <3>3, <3>4, <3>5, <1>2
  <2>2. ASSUME NEW s \in pending', NEW t \in pending', s # t
        PROVE  ~Overlaps(s, t)
    <3>1. \A u \in pending \ {r}, v \in Strips(r, a.rect) :
             ~Overlaps(u, v) /\ ~Overlaps(v, u)
      BY <1>1, <1>6, WithinMeetsLess DEF AreasDisjoint, TypeOK
    <3> QED
      BY <3>1, <1>1, <1>3, <2>2, StripsApart DEF AreasDisjoint
  <2> QED
    BY <2>1, <2>2 DEF AreasDisjoint
\* What the cut does to one pixel.
<1>9. ASSUME NEW x \in Column, NEW y \in Row
      PROVE  /\ In(x, y, r) /\ In(x, y, a.rect) => ~IsPending(x, y)'
             /\ ~(In(x, y, r) /\ In(x, y, a.rect)) =>
                    (IsPending(x, y)' <=> IsPending(x, y))
             /\ IsPlaced(x, y)' <=> IsPlaced(x, y)
  <2>1. x \in Int /\ y \in Int
    OBVIOUS
  <2>2. (\E s \in Strips(r, a.rect) : In(x, y, s)) <=> In(x, y, r) /\ ~In(x, y, a.rect)
    BY <1>1, <2>1, StripsPixels
  <2>3. (\E s \in Strips(a.rect, r) : In(x, y, s)) <=> In(x, y, a.rect) /\ ~In(x, y, r)
    BY <1>1, <2>1, StripsPixels
  <2>4. In(x, y, inner) <=> In(x, y, a.rect) /\ In(x, y, r)
    BY <1>1, <2>1, ClipPixels
  <2>5. In(x, y, r) => \A s \in pending \ {r} : ~In(x, y, s)
    BY <2>1, SharedPixel DEF AreasDisjoint, TypeOK
  <2>6. IsPending(x, y)' <=> \/ \E s \in pending \ {r} : In(x, y, s)
                             \/ \E s \in Strips(r, a.rect) : In(x, y, s)
    BY DEF IsPending
  <2>7. IsPlaced(x, y)' <=> \/ \E b \in areas \ {a} : In(x, y, b.rect)
                            \/ \E s \in Strips(a.rect, r) : In(x, y, s)
                            \/ In(x, y, inner)
    <3>1. areas' = (areas \ {a}) \union {Kept(s) : s \in Strips(a.rect, r)} \union {shared}
      BY DEF Pieces
    <3>2. shared.rect = inner /\ \A s : Kept(s).rect = s
      OBVIOUS
    <3> HIDE DEF shared, Kept, inner
    <3> QED
      BY <3>1, <3>2 DEF IsPlaced
  <2>8. IsPending(x, y) <=> In(x, y, r) \/ \E s \in pending \ {r} : In(x, y, s)
    BY DEF IsPending
  <2>9. IsPlaced(x, y) <=> In(x, y, a.rect) \/ \E b \in areas \ {a} : In(x, y, b.rect)
    BY DEF IsPlaced
  <2> QED
    BY <2>2, <2>3, <2>4, <2>5, <2>6, <2>7, <2>8, <2>9
<1>10. PendingInCall'
  BY <1>9 DEF PendingInCall
<1>11. DonePlaced'
  BY <1>9 DEF DonePlaced
<1>12. OwnersExact'
  <2> SUFFICES ASSUME NEW b \in areas', NEW x \in Column, NEW y \in Row,
                      In(x, y, b.rect), NEW o \in Owner
               PROVE  o \in b.owners <=> \/ OwnedBy(o, x, y, done)
                                         \/ ~IsPending(x, y)' /\ OwnedBy(o, x, y, {call})
    BY DEF OwnersExact, OwnedBy
  <2>1. x \in Int /\ y \in Int
    OBVIOUS
  <2>2. CASE b \in areas \ {a}
    <3>1. ~In(x, y, a.rect)
      BY <2>1, <2>2, SharedPixel DEF AreasDisjoint, TypeOK, Area
    <3> QED
      BY <2>2, <3>1, <1>9 DEF OwnersExact
  <2>3. CASE b = shared
    <3>1. In(x, y, a.rect) /\ In(x, y, r)
      BY <1>1, <2>1, <2>3, ClipPixels
    <3>2. IsPending(x, y) /\ ~IsPending(x, y)' /\ In(x, y, call.rect)
      BY <3>1, <1>9 DEF IsPending, PendingInCall
    <3> QED
      BY <2>3, <3>1, <3>2 DEF OwnersExact, OwnedBy
  <2>4. CASE \E s \in Strips(a.rect, r) : b = Kept(s)
    <3>1. In(x, y, a.rect) /\ ~In(x, y, r) /\ b.owners = a.owners
      BY <1>1, <2>1, <2>4, StripsPixels
    <3>2. IsPending(x, y)' <=> IsPending(x, y)
      BY <3>1, <1>9
    <3> QED
      BY <3>1, <3>2 DEF OwnersExact
  <2> QED
    BY <2>2, <2>3, <2>4, <1>2
<1>13. CoverageExact'
  BY <1>9 DEF CoverageExact, IsPending, IsPlaced
<1> QED
  BY <1>7, <1>8, <1>10, <1>11, <1>12, <1>13

LEMMA StutterKeepsIInv == IInv /\ UNCHANGED vars => IInv'
  BY DEF IInv, vars, TypeOK, AreasDisjoint, PendingInCall, DonePlaced, OwnersExact,
         CoverageExact, IsPending, IsPlaced, OwnedBy

LEMMA NextKeepsIInv == IInv /\ [Next]_vars => IInv'
  BY CallKeepsIInv, ExtendKeepsIInv, SplitKeepsIInv, StutterKeepsIInv DEF Next

\* IInv holds in every reachable state.
THEOREM AlwaysIInv == Spec => []IInv
  BY InitIInv, NextKeepsIInv, PTL DEF Spec

\* The area list is always made of non-empty rectangles with known owners.
THEOREM TypeCorrect == Spec => []TypeOK
  BY AlwaysIInv, PTL DEF IInv

\* No pixel is ever in two areas, whatever _SplitArea is asked to split.
THEOREM NoPixelTwice == Spec => []AreasDisjoint
  BY AlwaysIInv, PTL DEF IInv

\* Every area always carries exactly the layers that cover its pixels.
THEOREM EveryAreaExact == Spec => []OwnersExact
  BY AlwaysIInv, PTL DEF IInv

\* Splitting never loses a pixel of a rectangle and never adds one.
THEOREM NoPixelLost == Spec => []CoverageExact
  BY AlwaysIInv, PTL DEF IInv

=============================================================================
