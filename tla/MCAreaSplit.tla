---------------------------- MODULE MCAreaSplit ----------------------------
(***************************************************************************)
(* AreaSplit on a small screen.  The first area is the whole screen, as    *)
(* for composition areas, or one pixel in the middle, as for a swap        *)
(* rectangle the other dirty rectangles may reach around.                  *)
(***************************************************************************)
EXTENDS AreaSplit

CONSTANTS Width, Height

GridColumn == 0..(Width - 1)
GridRow == 0..(Height - 1)

Grid == {r \in [left: 0..Width, top: 0..Height, right: 0..Width, bottom: 0..Height] :
            r.left < r.right /\ r.top < r.bottom}

ScreenArea(rect) == [rect |-> rect, owners |-> {}]

GridFirst ==
    {ScreenArea([left |-> 0, top |-> 0, right |-> Width, bottom |-> Height]),
     ScreenArea([left |-> 1, top |-> 1, right |-> 2, bottom |-> 2])}

\* Two layers.  To keep the calls few, one has the rectangles at the left edge
\* and the other the rest, so that rectangles of both still meet in every way.
LeftEdge == "left edge"
Elsewhere == "elsewhere"
TwoOwners == {LeftEdge, Elsewhere}

GridRequest ==
    {[rect |-> r, owners |-> {IF r.left = 0 THEN LeftEdge ELSE Elsewhere}] : r \in Grid}

=============================================================================
