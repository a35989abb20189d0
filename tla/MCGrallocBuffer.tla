-------------------------- MODULE MCGrallocBuffer --------------------------
(***************************************************************************)
(* GrallocBuffer with two clients that no definition tells apart.          *)
(***************************************************************************)
EXTENDS GrallocBuffer, TLC

CONSTANTS p1, p2, p3

Clients == Permutations({p2, p3})

=============================================================================
