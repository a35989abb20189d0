--------------------------- MODULE MCAreaCompose ---------------------------
(***************************************************************************)
(* AreaCompose for five layers of every kind that takes its own path.      *)
(***************************************************************************)
EXTENDS AreaCompose

Plain == [present |-> TRUE, type |-> "BLITTER", opaque |-> TRUE, yuv |-> FALSE,
          stretch |-> FALSE, rotation |-> "0", eigen |-> 0]

Absent     == [Plain EXCEPT !.present = FALSE]
Blended    == [Plain EXCEPT !.opaque = FALSE]
Video      == [Plain EXCEPT !.yuv = TRUE]
Stretched  == [Plain EXCEPT !.stretch = TRUE]
Misaligned == [Plain EXCEPT !.eigen = 1]
Rotated    == [Plain EXCEPT !.rotation = "90", !.eigen = 1]
Dim        == [Plain EXCEPT !.type = "DIM", !.opaque = FALSE]
SolidDim   == [Plain EXCEPT !.type = "DIM"]
Overlay    == [Plain EXCEPT !.type = "OVERLAY"]

AllKinds == {Absent, Plain, Blended, Video, Stretched, Misaligned, Rotated,
             Dim, SolidDim, Overlay}
VideoKinds == {Plain, Blended, Video}

SmallCore == [multiSourceBlt |-> TRUE, maxSource |-> 4]
OldCore == [multiSourceBlt |-> FALSE, maxSource |-> 4]
ExtendedCore == [multiSourceBlt |-> TRUE, maxSource |-> 8]
AllDevices == {SmallCore, ExtendedCore, OldCore}
SmallDevice == {SmallCore}

=============================================================================
