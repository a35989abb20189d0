------------------------------ MODULE MCLayerBlit ------------------------------
(***************************************************************************)
(* LayerBlit on surfaces and frames of a few pixels: each transform and    *)
(* orientation with a crop off the middle and with the whole surface,      *)
(* scaled layers, formats with other alignments, and alphas.               *)
(***************************************************************************)
EXTENDS LayerBlit

Some(width, height, crop, fw, fh) ==
    [transform |-> [flipH |-> FALSE, flipV |-> FALSE, rot90 |-> FALSE], topBottom |-> TRUE,
     width |-> width, height |-> height, crop |-> crop, frame |-> RectOf(5, 2, 5 + fw, 2 + fh),
     bytes |-> 4, yuv |-> FALSE, alpha |-> TRUE, blending |-> "premult", plane |-> 255]

\* Turned by t, the frame follows the crop if the layer is not scaled.
Turned(l, t, topBottom) ==
    [l EXCEPT !.transform = t, !.topBottom = topBottom,
              !.frame = IF t.rot90 THEN RectOf(5, 2, 5 + HeightOf(@), 2 + WidthOf(@)) ELSE @]

Offset == Some(9, 5, RectOf(1, 1, 4, 3), 3, 2)
Whole == Some(4, 3, RectOf(0, 0, 4, 3), 4, 3)
Larger == Some(6, 5, RectOf(1, 1, 4, 3), 5, 3)
Smaller == Some(9, 5, RectOf(1, 0, 8, 4), 3, 3)

Shapes ==
    {Turned(l, t, o) : l \in {Offset, Whole}, t \in Transform, o \in BOOLEAN} \union
    {Turned(l, t, TRUE) : l \in {Larger, Smaller}, t \in Transform}

\* Two bytes to a pixel, and video, whose addresses go in steps of 64 bytes.
Formats ==
    {[Turned(Some(80, 5, RectOf(left, 1, left + 2, 3), 2, 2), t, TRUE)
         EXCEPT !.bytes = bytes, !.yuv = yuv] :
        left \in {13, 17, 33, 65}, t \in Transform, bytes \in {1, 2}, yuv \in BOOLEAN}

Alphas ==
    {[Some(1, 1, RectOf(0, 0, 1, 1), 1, 1) EXCEPT !.alpha = alpha, !.blending = b, !.plane = plane] :
        alpha \in BOOLEAN, b \in Blending, plane \in {0, 1, 100, 254, 255}}

SomeDims == {<<a>> : a \in {0, 1, 127, 128, 254}} \union
            {<<a, b>> : a \in {0, 1, 100}, b \in {0, 77, 200}}

SomeStacks ==
    {[hw |-> l, dims |-> <<>>] : l \in Shapes \union Formats \union Alphas} \union
    {[hw |-> l, dims |-> d] : l \in Alphas, d \in SomeDims}

=============================================================================
