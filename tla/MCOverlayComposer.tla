--------------------------- MODULE MCOverlayComposer ---------------------------
(***************************************************************************)
(* OverlayComposer on a screen of two cells, with the kinds of layers that *)
(* the order and the overlap test of traverse tell apart.                  *)
(***************************************************************************)
EXTENDS OverlayComposer, TLC

CONSTANTS b1, b2

Video(format, frame) == [video |-> TRUE, format |-> format, frame |-> frame]
Normal(frame) == [video |-> FALSE, format |-> 0, frame |-> frame]

\* Videos of two formats, on half of the screen and on all of it, and a bar.
SomeLayers ==
    {Video(1, {1}), Video(2, {1, 2}), Normal({2})}

SameBuffers == Permutations({b1, b2})

=============================================================================
