---------------------------- MODULE MCDisplayEvents ----------------------------
(***************************************************************************)
(* DisplayEvents with the threads of the framework as model values.        *)
(***************************************************************************)
EXTENDS DisplayEvents
=============================================================================
