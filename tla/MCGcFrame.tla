----------------------------- MODULE MCGcFrame -----------------------------
(***************************************************************************)
(* GcFrame with two layers of every class, pools of two areas and lists of *)
(* up to three.                                                            *)
(***************************************************************************)
EXTENDS GcFrame

Blitter == [skip |-> FALSE, dim |-> FALSE, overlay |-> FALSE, blitter |-> TRUE,
            transform |-> "known"]
Unknown == [Blitter EXCEPT !.transform = "unknown"]
Skipped == [Blitter EXCEPT !.skip = TRUE]
Dim     == [Blitter EXCEPT !.dim = TRUE]
Overlay == [Blitter EXCEPT !.overlay = TRUE, !.blitter = FALSE]
Foreign == [Blitter EXCEPT !.blitter = FALSE]

AllLayers == {Blitter, Unknown, Skipped, Dim, Overlay, Foreign}

=============================================================================
