-------------------------- MODULE MCVirtualMirror --------------------------
(***************************************************************************)
(* VirtualMirror with parameters and buffers that no definition tells     *)
(* apart.                                                                  *)
(***************************************************************************)
EXTENDS VirtualMirror, TLC

CONSTANTS l1, l2, upright, turned, b1, b2

Alike == Permutations({l1, l2}) \union Permutations({upright, turned})
         \union Permutations({b1, b2})

=============================================================================
