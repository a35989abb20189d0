----------------------------- MODULE MCSwapRing -----------------------------
(***************************************************************************)
(* SwapRing for four buffers, one more than NUM_BUFFERS, seen in any order *)
(* from any of them on.                                                    *)
(***************************************************************************)
EXTENDS SwapRing

=============================================================================
