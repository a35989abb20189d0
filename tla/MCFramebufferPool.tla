------------------------- MODULE MCFramebufferPool -------------------------
(***************************************************************************)
(* FramebufferPool for screens that divide evenly, that do not, and that   *)
(* have no second buffer.                                                  *)
(***************************************************************************)
EXTENDS FramebufferPool, TLC

SmallModes == {[line_length |-> 4, yres |-> 3, yres_virtual |-> v] : v \in {3, 6, 8}}

\* Threads are alike, and the run checks invariants only.
ThreadSymmetry == Permutations(Thread)

=============================================================================
