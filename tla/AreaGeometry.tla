---------------------------- MODULE AreaGeometry ----------------------------
(***************************************************************************)
(* Rectangles of the area splitter of libHWComposerGC (gc_hwc_set.cpp).    *)
(* A gcsRECT is half open: it holds the points with left <= x < right and  *)
(* top <= y < bottom.                                                      *)
(***************************************************************************)
EXTENDS Integers, Sequences

\* Every non-empty gcsRECT.
Rect == {r \in [left: Int, top: Int, right: Int, bottom: Int] :
            r.left < r.right /\ r.top < r.bottom}

In(x, y, r) == r.left <= x /\ x < r.right /\ r.top <= y /\ y < r.bottom

\* The overlap test of the walk in _SplitArea.
Overlaps(p, q) == /\ p.left < q.right
                  /\ p.top < q.bottom
                  /\ p.right > q.left
                  /\ p.bottom > q.top

Larger(a, b) == IF a < b THEN b ELSE a
Smaller(a, b) == IF a < b THEN a ELSE b

\* "Update overlapped area": what is left of p once it is cut down to q.
Clip(p, q) == [left   |-> Larger(p.left, q.left),
               top    |-> Larger(p.top, q.top),
               right  |-> Smaller(p.right, q.right),
               bottom |-> Smaller(p.bottom, q.bottom)]

(***************************************************************************)
(* The pieces of p outside q, for overlapping p and q.  The four cases of  *)
(* _SplitArea compute the same thing: full-height strips at the left and   *)
(* at the right of q, and strips above and below q between them, in the    *)
(* order left, top, right, bottom.  r1 is the pieces of the new rectangle  *)
(* outside the area, r0 the pieces of the area outside the new rectangle.  *)
(***************************************************************************)
LeftOf(p, q)  == [p EXCEPT !.right = q.left]
RightOf(p, q) == [p EXCEPT !.left = q.right]
\* Mutant of Above: the strip is as wide as p, over the corners of the others.
AboveWide(p, q) == [p EXCEPT !.bottom = q.top]

Above(p, q)   == [left   |-> Larger(p.left, q.left),
                  top    |-> p.top,
                  right  |-> Smaller(p.right, q.right),
                  bottom |-> q.top]
Below(p, q)   == [left   |-> Larger(p.left, q.left),
                  top    |-> q.bottom,
                  right  |-> Smaller(p.right, q.right),
                  bottom |-> p.bottom]

StripSeq(p, q) ==
    LET If(cond, s) == IF cond THEN <<s>> ELSE <<>>
    IN  If(p.left < q.left, LeftOf(p, q)) \o If(p.top < q.top, Above(p, q))
            \o If(p.right > q.right, RightOf(p, q)) \o If(p.bottom > q.bottom, Below(p, q))

\* Mutant of Strips: the piece below is forgotten.
StripsWithoutBelow(p, q) ==
    {s \in {LeftOf(p, q)}  : p.left < q.left} \union
    {s \in {Above(p, q)}   : p.top < q.top} \union
    {s \in {RightOf(p, q)} : p.right > q.right}

\* The same pieces as a set.
Strips(p, q) ==
    {s \in {LeftOf(p, q)}  : p.left < q.left} \union
    {s \in {Above(p, q)}   : p.top < q.top} \union
    {s \in {RightOf(p, q)} : p.right > q.right} \union
    {s \in {Below(p, q)}   : p.bottom > q.bottom}

\* Mutant of Pieces: the owners are updated before the outside is saved.
PiecesUpdatedFirst(area, rect, owners) ==
    {[rect |-> s, owners |-> area.owners \union owners] :
        s \in Strips(area.rect, rect) \union {Clip(area.rect, rect)}}

\* What becomes of an area when a rectangle is split into it.
Pieces(area, rect, owners) ==
    {[rect |-> s, owners |-> area.owners] : s \in Strips(area.rect, rect)}
        \union {[rect |-> Clip(area.rect, rect), owners |-> area.owners \union owners]}

=============================================================================
