-------------------------- MODULE MCAreaPartition --------------------------
(***************************************************************************)
(* AreaPartition on a small screen: every rectangle of a grid, asked for   *)
(* by either of two layers or by nobody (the swap area splits in the dirty *)
(* rectangles of other buffers with owner 0).                              *)
(***************************************************************************)
EXTENDS AreaPartition, FiniteSets, TLC

CONSTANTS Width, Height, MaxCalls

GridColumn == 0..(Width - 1)
GridRow == 0..(Height - 1)

Grid == {r \in [left: 0..Width, top: 0..Height, right: 0..Width, bottom: 0..Height] :
            r.left < r.right /\ r.top < r.bottom}

GridRequest == {[rect |-> r, owners |-> o] : r \in Grid, o \in {{}} \union {{l} : l \in Owner}}

\* The layers are interchangeable.
OwnerSymmetry == Permutations(Owner)

BoundedCalls == Cardinality(done) < MaxCalls

=============================================================================
