------------------------------- MODULE LayerBlit -------------------------------
(***************************************************************************)
(* Where the pixels of one layer go: hwcSet turns a layer of the list into *)
(* source rectangle, rotation, mirrors and alpha modes (gc_hwc_set.cpp);   *)
(* hwcCompose blits an area of it, alone (_Blit) or as a source of a       *)
(* multi-source blit, for which source and target surface are moved until  *)
(* their addresses are aligned and both rectangles are the same            *)
(* (_MultiSourceBlit).  The rectangles of the 2D core are modelled as the  *)
(* comments there describe them.                                           *)
(*                                                                         *)
(* Floating point is exact here, and of the addresses only the first plane *)
(* is followed.                                                            *)
(***************************************************************************)
EXTENDS Integers, SequencesExt

CONSTANTS
    Stack,          \* a layer of the list (hw), with what is asked of its
                    \*   surface, and the alphas of DIM layers above it (dims)
    TargetBytes     \* framebuffer->bytesPerPixel

Transform == [flipH : BOOLEAN, flipV : BOOLEAN, rot90 : BOOLEAN]
Rect == [left : Int, top : Int, right : Int, bottom : Int]
Blending == {"none", "premult", "coverage"}

HwLayer ==
    [transform : Transform, topBottom : BOOLEAN, width : Nat, height : Nat,
     crop : Rect, frame : Rect, bytes : {1, 2, 4}, yuv : BOOLEAN,
     alpha : BOOLEAN, blending : Blending, plane : 0..255]

ASSUME BlitAssumption ==
    /\ Stack \subseteq [hw : HwLayer, dims : Seq(0..254)]
    /\ TargetBytes \in {2, 4}

VARIABLES
    stage,          \* "idle", "set", "compose" or "done"
    given,          \* the layer in the list, the DIM layers, the area, and
                    \*   whether nothing lies below the layer there (ground)
    layer,          \* hwcLayer
    blit            \* what the 2D core was told

blitVars == <<stage, given, layer, blit>>

None == <<>>

BlitInit == stage = "idle" /\ given = None /\ layer = None /\ blit = None

RectOf(l, t, r, b) == [left |-> l, top |-> t, right |-> r, bottom |-> b]
WidthOf(r) == r.right - r.left
HeightOf(r) == r.bottom - r.top

----------------------------------------------------------------------------
(* hwcSet: the layer in the coordinate system of the rotated source. *)

\* The rotation of the source is the inverse of the layer's.
Rotation(t) ==
    CASE ~t.rot90 /\ ~(t.flipH /\ t.flipV) -> 0
      [] ~t.rot90 /\ t.flipH /\ t.flipV -> 180
      [] t.rot90 /\ t.flipH /\ t.flipV -> 90
      [] OTHER -> 270

\* Bottom-top surfaces hold the picture upside down.
Rows(hw) == IF hw.topBottom THEN <<hw.crop.top, hw.crop.bottom>>
            ELSE <<hw.height - hw.crop.bottom, hw.height - hw.crop.top>>

SrcRect(hw) ==
    LET top == Rows(hw)[1]
        bottom == Rows(hw)[2]
        c == hw.crop
    IN  CASE Rotation(hw.transform) = 0   -> RectOf(c.left, top, c.right, bottom)
          [] Rotation(hw.transform) = 180 -> RectOf(hw.width - c.right, top, hw.width - c.left, bottom)
          [] Rotation(hw.transform) = 270 -> RectOf(hw.height - bottom, c.left, hw.height - top, c.right)
          [] OTHER -> RectOf(top, hw.width - c.right, bottom, hw.width - c.left)

HMirror(hw) ==
    LET t == hw.transform IN
    CASE ~t.rot90 -> t.flipH /\ ~t.flipV
      [] t.rot90 /\ t.flipV /\ ~t.flipH -> hw.topBottom
      [] OTHER -> ~hw.topBottom

VMirror(hw) ==
    LET t == hw.transform IN
    CASE ~t.rot90 /\ t.flipV /\ ~t.flipH -> hw.topBottom
      [] ~t.rot90 /\ ~(t.flipV /\ ~t.flipH) -> ~hw.topBottom
      [] OTHER -> t.flipH /\ ~t.flipV

\* How the pixel's alpha and the global alpha make up the alpha of a layer that
\* is blended ("off", "scale", "on"), and whether its color is multiplied by
\* the global alpha.
AlphaMode(hw) ==
    CASE hw.blending = "none" -> [opaque |-> TRUE, mode |-> "off", multiply |-> FALSE, global |-> 255]
      [] hw.blending = "premult" /\ hw.alpha /\ hw.plane < 255 ->
            [opaque |-> FALSE, mode |-> "scale", multiply |-> TRUE, global |-> hw.plane]
      [] hw.blending = "premult" /\ hw.alpha /\ hw.plane = 255 ->
            [opaque |-> FALSE, mode |-> "off", multiply |-> FALSE, global |-> 255]
      [] OTHER -> [opaque |-> FALSE, mode |-> "on", multiply |-> TRUE, global |-> hw.plane]

Stretched(hw) ==
    \/ WidthOf(SrcRect(hw)) # WidthOf(hw.frame)
    \/ HeightOf(SrcRect(hw)) # HeightOf(hw.frame)

Generated(hw) ==
    [srcRect |-> SrcRect(hw), dstRect |-> hw.frame, orgRect |-> hw.crop,
     rotation |-> Rotation(hw.transform), hMirror |-> HMirror(hw), vMirror |-> VMirror(hw),
     stretch |-> Stretched(hw),
     alpha |-> AlphaMode(hw)]

----------------------------------------------------------------------------
(* Alpha, for both blits. *)

\* Mutant of AlphaDim: the layers are dimmed by the alpha and not by its rest.
AlphaDimInverted(dims) ==
    LET after[n \in 0..Len(dims)] == IF n = 0 THEN 255 ELSE (after[n - 1] * dims[n]) \div 256
    IN  after[Len(dims)]

\* Each DIM layer above leaves its share of the light, with 8 bits.
AlphaDim(dims) ==
    LET after[n \in 0..Len(dims)] ==
            IF n = 0 THEN 255 ELSE (after[n - 1] * (255 - dims[n])) \div 256
    IN  after[Len(dims)]

DimmedAlpha(l, dims) ==
    IF dims = <<>> THEN l.alpha
    ELSE [l.alpha EXCEPT !.multiply = TRUE, !.global = (@ * AlphaDim(dims)) \div 256]

\* A layer at the very bottom of its area is copied, as an opaque one is.
Registers(l, dims, ground) == [DimmedAlpha(l, dims) EXCEPT !.opaque = @ \/ ground]

----------------------------------------------------------------------------
(* _Blit *)

\* A blit takes pixel (x, y) of "to" from pixel (x, y) of "from", scaled, in a
\* surface of the given size and moved from the layer's buffer by (dx, dy),
\* rotated and mirrored; "to" is moved from the screen by (ddx, ddy).
Request(single, from, to, size, moved, target, registers) ==
    [single |-> single, from |-> from, to |-> to, size |-> size, moved |-> moved, target |-> target,
     rotation |-> layer.rotation, hMirror |-> layer.hMirror, vMirror |-> layer.vMirror,
     registers |-> registers]

\* Scales a distance on the screen to the source and rounds the sum down.
Moved(from, distance, source, dest) == (from * dest - distance * source) \div dest

\* Mutant of SourceOf: the mirrors do not swap the sides.
SourceOfUnmirrored(l, area) ==
    LET s == l.srcRect
        d == l.dstRect
        dl == d.left - area.left
        dt == d.top - area.top
        dr == d.right - area.right
        db == d.bottom - area.bottom
    IN  RectOf(Moved(s.left, dl, WidthOf(s), WidthOf(d)), Moved(s.top, dt, HeightOf(s), HeightOf(d)),
               Moved(s.right, dr, WidthOf(s), WidthOf(d)), Moved(s.bottom, db, HeightOf(s), HeightOf(d)))

\* The part of the source that belongs to the area.
SourceOf(l, area) ==
    LET s == l.srcRect
        d == l.dstRect
        dl == IF l.hMirror THEN area.right - d.right ELSE d.left - area.left
        dt == IF l.vMirror THEN area.bottom - d.bottom ELSE d.top - area.top
        dr == IF l.hMirror THEN area.left - d.left ELSE d.right - area.right
        db == IF l.vMirror THEN area.top - d.top ELSE d.bottom - area.bottom
    IN  RectOf(Moved(s.left, dl, WidthOf(s), WidthOf(d)), Moved(s.top, dt, HeightOf(s), HeightOf(d)),
               Moved(s.right, dr, WidthOf(s), WidthOf(d)), Moved(s.bottom, db, HeightOf(s), HeightOf(d)))

BlitLayer ==
    /\ stage = "compose"
    /\ stage' = "done"
    /\ blit' = Request(TRUE, SourceOf(layer, given.area), given.area,
                       <<given.hw.width, given.hw.height>>, <<0, 0>>, <<0, 0>>,
                       Registers(layer, given.dims, given.ground))
    /\ UNCHANGED <<given, layer>>

----------------------------------------------------------------------------
(* _MultiSourceBlit *)

EigenDOf(area) == area.left % (16 \div TargetBytes)

SourceAlignment == (IF given.hw.yuv THEN 64 ELSE 16) \div given.hw.bytes

\* Left coordinate of the area in the source, by the rotation alone.
SourceLeft(l, area) ==
    CASE l.rotation = 0   -> l.orgRect.left - (l.dstRect.left - area.left)
      [] l.rotation = 90  -> l.orgRect.left + (l.dstRect.bottom - area.bottom)
      [] l.rotation = 180 -> l.orgRect.left + (l.dstRect.right - area.right)
      [] OTHER            -> l.orgRect.left - (l.dstRect.top - area.top)

\* Mutant of EigenL: taken from the layer and not from the area.
EigenLOfLayer(l, area) == l.orgRect.left % SourceAlignment

EigenL(l, area) == SourceLeft(l, area) % SourceAlignment

\* Mutant of Layout: a source turned by 180 degrees gets no room on the right.
LayoutNarrow(rotation, area, eigenL, eigenD) ==
    LET w == WidthOf(area)
        h == HeightOf(area)
        down == IF rotation = 270 THEN eigenL ELSE 0
    IN  [rect |-> RectOf(eigenD, down, eigenD + w, down + h),
         org  |-> <<eigenL, IF rotation = 90 THEN eigenD ELSE 0>>,
         size |-> <<eigenD + w,
                    h + (IF rotation \in {90, 270} THEN eigenL ELSE 0)>>]

\* Blit rectangle, surface size and the rectangle's corner before rotation.
Layout(rotation, area, eigenL, eigenD) ==
    LET w == WidthOf(area)
        h == HeightOf(area)
        down == IF rotation = 270 THEN eigenL ELSE 0
    IN  [rect |-> RectOf(eigenD, down, eigenD + w, down + h),
         org  |-> <<eigenL, IF rotation = 90 THEN eigenD ELSE 0>>,
         size |-> <<eigenD + w + (IF rotation = 180 THEN eigenL ELSE 0),
                    h + (IF rotation \in {90, 270} THEN eigenL ELSE 0)>>]

\* The area's corner in the original coordinate system.
OrgCorner(l, topBottom, area) ==
    LET dl == l.dstRect.left - area.left
        dr == l.dstRect.right - area.right
        dt == IF topBottom THEN l.dstRect.top - area.top ELSE area.bottom - l.dstRect.bottom
        db == IF topBottom THEN l.dstRect.bottom - area.bottom ELSE area.top - l.dstRect.top
    IN  CASE l.rotation = 0   -> <<l.orgRect.left - dl, l.orgRect.top - dt>>
          [] l.rotation = 90  -> <<l.orgRect.left + db, l.orgRect.top - dl>>
          [] l.rotation = 180 -> <<l.orgRect.left + dr, l.orgRect.top + db>>
          [] OTHER            -> <<l.orgRect.left - dt, l.orgRect.top + dr>>

\* Only a layer of its size, and in line with the target, is in such a blit.
MayShareBlit ==
    /\ ~layer.stretch
    /\ layer.rotation # 0 \/ EigenL(layer, given.area) = EigenDOf(given.area)

MultiSourceBlitLayer ==
    /\ stage = "compose"
    /\ MayShareBlit
    /\ LET area == given.area
           lay == Layout(layer.rotation, area, EigenL(layer, area), EigenDOf(area))
           org == OrgCorner(layer, given.hw.topBottom, area)
       IN  blit' = Request(FALSE, lay.rect, lay.rect,
                           IF layer.rotation \in {90, 270} THEN <<lay.size[2], lay.size[1]>> ELSE lay.size,
                           <<org[1] - lay.org[1], org[2] - lay.org[2]>>,
                           <<area.left - lay.rect.left, area.top - lay.rect.top>>,
                           Registers(layer, given.dims, given.ground))
    /\ stage' = "done"
    /\ UNCHANGED <<given, layer>>

----------------------------------------------------------------------------
\* A layer of the list, the DIM layers above it and an area of its frame, with
\* or without other layers below.
Give(stack, area, ground) ==
    /\ stage = "idle"
    /\ WidthOf(area) > 0 /\ HeightOf(area) > 0
    /\ stage' = "set"
    /\ given' = [hw |-> stack.hw, dims |-> stack.dims, area |-> area, ground |-> ground]
    /\ UNCHANGED <<layer, blit>>

Generate ==
    /\ stage = "set"
    /\ stage' = "compose"
    /\ layer' = Generated(given.hw)
    /\ UNCHANGED <<given, blit>>

LayerDone ==
    /\ stage = "done"
    /\ stage' = "idle"
    /\ given' = None /\ layer' = None /\ blit' = None

BlitNext ==
    \/ \E stack \in Stack :
          LET f == stack.hw.frame IN
          \E l, r \in f.left..f.right, t, b \in f.top..f.bottom, ground \in BOOLEAN :
              Give(stack, RectOf(l, t, r, b), ground)
    \/ Generate \/ BlitLayer \/ MultiSourceBlitLayer \/ LayerDone

BlitSpec == BlitInit /\ [][BlitNext]_blitVars

----------------------------------------------------------------------------
BlitTypeOK ==
    /\ stage \in {"idle", "set", "compose", "done"}
    /\ stage # "idle" => given \in [hw : HwLayer, dims : Seq(0..254), area : Rect, ground : BOOLEAN]
    /\ stage \in {"compose", "done"} => layer = Generated(given.hw)
    /\ stage = "done" => blit.from \in Rect /\ blit.to \in Rect

(***************************************************************************)
(* The pixel of the buffer the 2D core reads for pixel (x, y) of the area, *)
(* counted from its corner: mirrored within the source rectangle, then     *)
(* rotated back in the surface, then moved to the buffer.                  *)
(***************************************************************************)
Scaled(n, source, dest) == (n * source) \div dest

PixelRead(x, y) ==
    LET sx == Scaled(x, WidthOf(layer.srcRect), WidthOf(layer.dstRect))
        sy == Scaled(y, HeightOf(layer.srcRect), HeightOf(layer.dstRect))
        u == IF blit.hMirror THEN blit.from.right - 1 - sx ELSE blit.from.left + sx
        v == IF blit.vMirror THEN blit.from.bottom - 1 - sy ELSE blit.from.top + sy
        w == blit.size[1]
        h == blit.size[2]
        unrotated == CASE blit.rotation = 0   -> <<u, v>>
                       [] blit.rotation = 90  -> <<w - 1 - v, u>>
                       [] blit.rotation = 180 -> <<w - 1 - u, h - 1 - v>>
                       [] OTHER               -> <<v, h - 1 - u>>
    IN  <<unrotated[1] + blit.moved[1], unrotated[2] + blit.moved[2]>>

(***************************************************************************)
(* The pixel it should read: the frame shows the crop flipped, then turned *)
(* clockwise, then scaled; a bottom-top buffer has its rows reversed.      *)
(***************************************************************************)
PixelWanted(x, y) ==
    LET hw == given.hw
        t == hw.transform
        cw == WidthOf(hw.crop)
        ch == HeightOf(hw.crop)
        fx == x + given.area.left - hw.frame.left
        fy == y + given.area.top - hw.frame.top
        sx == Scaled(fx, IF t.rot90 THEN ch ELSE cw, WidthOf(hw.frame))
        sy == Scaled(fy, IF t.rot90 THEN cw ELSE ch, HeightOf(hw.frame))
        column == IF t.rot90 THEN sy ELSE sx
        row == IF t.rot90 THEN ch - 1 - sx ELSE sy
        c == hw.crop.left + (IF t.flipH THEN cw - 1 - column ELSE column)
        r == hw.crop.top + (IF t.flipV THEN ch - 1 - row ELSE row)
    IN  <<c, IF hw.topBottom THEN r ELSE hw.height - 1 - r>>

Near(m, n, distance) == m - n \in -distance..distance

\* A scaled layer may be one pixel off where its frame is cut into areas.
InPlace ==
    \A x \in 0..(WidthOf(given.area) - 1), y \in 0..(HeightOf(given.area) - 1) :
        LET read == PixelRead(x, y)
            wanted == PixelWanted(x, y)
            slack == IF layer.stretch THEN 1 ELSE 0
        IN  Near(read[1], wanted[1], slack) /\ Near(read[2], wanted[2], slack)

\* The crop has as many rows above it as below.
CropCentred == given.hw.crop.top = given.hw.height - given.hw.crop.bottom

\* The area is in the middle of the layer's frame.
AreaCentred ==
    LET a == given.area
        f == given.hw.frame
    IN  a.left - f.left = f.right - a.right /\ a.top - f.top = f.bottom - a.bottom

\* Whatever the transform, the orientation of the surface, the crop and the
\* scale, _Blit shows in each area of a layer the part of the picture that
\* belongs there.  A layer turned by 180 degrees has its rows counted from the
\* wrong end (gc_hwc_set.cpp:549), which its crop hides if it is centred.
SinglePicture ==
    stage = "done" /\ blit.single =>
        InPlace \/ (Rotation(given.hw.transform) = 180 /\ ~CropCentred)

\* And so does a source of a multi-source blit, after surfaces and rectangles
\* were moved.  "Transform Area->rect to original coord sys" leaves mirrors out,
\* so that a flipped layer shows the opposite part in an area off its middle.  Of
\* a bottom-top surface it takes the crop from the wrong end, and, turned on its
\* side, swaps top and bottom instead of left and right.
MultiSourcePicture ==
    stage = "done" /\ ~blit.single =>
        LET hw == given.hw IN
        \/ InPlace
        \/ hw.transform.flipH # hw.transform.flipV /\ ~AreaCentred
        \/ ~hw.topBottom /\ (~CropCentred \/ (hw.transform.rot90 /\ ~AreaCentred))

\* "physical address of the surfaces(source and dest) MUST be 8 pixel aligned",
\* with surfaces that hold the rectangle.  The eigenvalue ignores the
\* orientation, so a bottom-top surface turned on its side may be off.
MultiSourceAligned ==
    stage = "done" /\ ~blit.single =>
        /\ blit.target[1] % (16 \div TargetBytes) = 0
        /\ \/ blit.moved[1] % SourceAlignment = 0
           \/ ~given.hw.topBottom /\ layer.rotation \in {90, 270}
        /\ LET onSide == layer.rotation \in {90, 270}
               w == blit.size[IF onSide THEN 2 ELSE 1]
               h == blit.size[IF onSide THEN 1 ELSE 2]
           IN  0 <= blit.to.left /\ blit.to.right <= w /\ 0 <= blit.to.top /\ blit.to.bottom <= h

Product(factors) ==
    LET upTo[n \in 0..Len(factors)] == IF n = 0 THEN 1 ELSE upTo[n - 1] * factors[n]
    IN  upTo[Len(factors)]

\* What DIM layers leave of light as bright as Light(dims).
LightLeft(dims) == Product([n \in DOMAIN dims |-> 255 - dims[n]])

Light(dims) == Product([n \in DOMAIN dims |-> 255])

\* "can easily 'premultiply' a (1 - alpha) value for each layers before this
\* DIM layer": the color of a layer is what its plane alpha and all DIM layers
\* above leave of it, never more, and less by at most two steps of 255 for each
\* product (>> 8 stands for / 255).  It is blended unless it is opaque or nothing
\* lies below it, and then its own alpha is not to change; it does for layers
\* whose alpha comes from the plane.  (Coverage is marked as "may be incorrect".)
DimmedRight ==
    stage = "done" =>
        LET hw == given.hw
            set == blit.registers
            plane == IF hw.blending = "none" THEN 255 ELSE hw.plane
            color == IF set.multiply THEN set.global ELSE 255
            whole == Light(given.dims)
        IN  /\ color * whole \in
                  (plane * LightLeft(given.dims) - 2 * (Len(given.dims) + 1) * whole)..(plane * LightLeft(given.dims))
            /\ set.opaque <=> hw.blending = "none" \/ given.ground
            /\ \/ set.opaque \/ hw.blending = "coverage"
               \/ set.mode = "off" /\ hw.alpha /\ plane = 255
               \/ set.mode = (IF hw.alpha THEN "scale" ELSE "on") /\ (set.global = plane \/ given.dims # <<>>)

=============================================================================
