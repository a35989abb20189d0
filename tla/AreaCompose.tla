---------------------------- MODULE AreaCompose ----------------------------
(***************************************************************************)
(* How hwcSet and hwcCompose draw one area: the owners are corrected for   *)
(* solid DIM and OVERLAY layers (gc_hwc_set.cpp), then the layers are gone *)
(* through from the bottom and gathered into multi-source blits            *)
(* (gc_hwc_compose.cpp).  Layers are 1 .. LayerCount, the bottom first.    *)
(***************************************************************************)
EXTENDS Integers, SequencesExt, FiniteSetsExt

CONSTANTS
    LayerCount,     \* Context->layerCount
    LayerKind,      \* the layers the area may have
    Device,         \* multiSourceBlt and maxSource of the 2D core
    EigenD          \* alignment of the area in the target

Index == 1..LayerCount

\* gctUINT32 sourceIndices[4], also where the core takes eight sources.
IndexSlots == 4

Kind == [present: BOOLEAN,      \* the area is in the layer's visible region
         type: {"BLITTER", "DIM", "OVERLAY"},
         opaque: BOOLEAN, yuv: BOOLEAN, stretch: BOOLEAN,
         rotation: {"0", "90", "180", "270"},
         eigen: Nat]            \* alignment of the area in the source

ASSUME ComposeAssumption ==
    /\ LayerCount \in Nat \ {0}
    /\ LayerKind \subseteq Kind
    /\ Device \subseteq [multiSourceBlt: BOOLEAN, maxSource: {4, 8}]

VARIABLES
    device,
    layers,         \* Context->layers
    owners,         \* area->owners
    pc,             \* "correct", "hole", "layers", "done" or "overflow"
    next,           \* the layer the loop looks at
    batch,          \* sourceIndices[0 .. sourceCount - 1]
    determined, eigenL, rotation, hasYuv,
    blits           \* the blits issued for this area

context == <<device, layers>>
batchVars == <<batch, determined, eigenL, rotation, hasYuv>>
composeVars == <<context, owners, pc, next, batchVars, blits>>

HasSource(i) == layers[i].type = "BLITTER"
Bottom(i) == \A j \in owners : i <= j
MultiSource == device.multiSourceBlt /\ Cardinality(owners) > 1

\* DIM layers above i are folded into it as a global alpha.
DimsAbove(i) == {j \in owners : j > i /\ layers[j].type = "DIM" /\ ~layers[j].opaque}

----------------------------------------------------------------------------
ComposeInit ==
    /\ device \in Device
    /\ layers \in [Index -> LayerKind]
    /\ owners = {i \in Index : layers[i].present}
    /\ pc = "correct"
    /\ next = 1
    /\ batch = <<>>
    /\ determined = FALSE /\ hasYuv = FALSE
    /\ eigenL = 0 /\ rotation = "0"
    /\ blits = <<>>

\* "DIM Optimization": nothing below a solid DIM needs to be drawn.
DimCorrected ==
    LET after[i \in 0..LayerCount] ==
            IF i = 0 THEN owners
            ELSE IF layers[i].type = "DIM" /\ layers[i].opaque /\ i \in after[i - 1]
            THEN {j \in after[i - 1] : j >= i}
            ELSE after[i - 1]
    IN  after[LayerCount]

\* "'CLEAR_FB' Detection": an overlay is cleared only where nothing else is.
OverlayCorrected(given) ==
    LET after[i \in 0..LayerCount] ==
            IF i = 0 THEN given
            ELSE IF layers[i].type = "OVERLAY" /\ after[i - 1] # {i}
            THEN after[i - 1] \ {i}
            ELSE after[i - 1]
    IN  after[LayerCount]

Correct ==
    /\ pc = "correct"
    /\ owners' = OverlayCorrected(DimCorrected)
    /\ pc' = IF owners' = {} THEN "hole" ELSE "layers"
    /\ UNCHANGED <<context, next, batchVars, blits>>

----------------------------------------------------------------------------
(***************************************************************************)
(* Blits.  A multi-source blit does not blend its first source with the    *)
(* target, so the target is added as a source where that is needed.        *)
(***************************************************************************)
Blit(i) == [layers |-> <<i>>, dims |-> <<DimsAbove(i)>>, target |-> FALSE]

MultiSourceBlit(b) ==
    [layers |-> b,
     dims   |-> [n \in DOMAIN b |-> DimsAbove(b[n])],
     target |-> ~layers[b[1]].opaque /\ ~Bottom(b[1])]

\* Blits a batch that cannot grow any more.
Flushed(b) ==
    IF Len(b) = 0 THEN blits
    ELSE Append(blits, IF Len(b) > 1 THEN MultiSourceBlit(b) ELSE Blit(b[1]))

\* "Check worm hole first": an area without owners is cleared.
Clear == [layers |-> <<>>, dims |-> <<>>, target |-> FALSE]

WormHole ==
    /\ pc = "hole"
    /\ pc' = "done"
    /\ blits' = <<Clear>>
    /\ UNCHANGED <<context, owners, next, batchVars>>

\* Mutant of Compatible: the rotation of the batch is not compared.
CompatibleAnyRotation(i) ==
    /\ determined
    /\ layers[i].eigen = eigenL
    /\ ~layers[i].stretch
    /\ ~(hasYuv /\ layers[i].yuv)

\* Joins layer i to a batch whose alignment is determined.
Compatible(i) ==
    /\ determined
    /\ layers[i].eigen = eigenL
    /\ ~layers[i].stretch
    /\ layers[i].rotation = rotation
    /\ ~(hasYuv /\ layers[i].yuv)

\* Can layer i be the first source layer of a batch?
CanStart(i) ==
    /\ ~layers[i].stretch
    /\ layers[i].rotation # "0" \/ layers[i].eigen = EigenD

\* Mutant of BatchFull: no room is kept for the target as a source.
BatchFullWithoutTarget(b) == Len(b) >= device.maxSource

BatchFull(b) ==
    \/ ~layers[b[1]].opaque /\ Len(b) >= device.maxSource - 1
    \/ Len(b) >= device.maxSource

AtLayer(i) == pc = "layers" /\ next = i /\ i \in Index
Advance == next' = next + 1 /\ UNCHANGED <<context, owners, pc>>

\* "No such layer, go to next."
NotOwned(i) ==
    /\ AtLayer(i)
    /\ i \notin owners
    /\ Advance
    /\ UNCHANGED <<batchVars, blits>>

\* A layer without source is drawn only at the very bottom.
NoSource(i) ==
    /\ AtLayer(i)
    /\ i \in owners /\ MultiSource /\ ~HasSource(i)
    /\ batch' = IF Bottom(i) THEN Append(batch, i) ELSE batch
    /\ Advance
    /\ UNCHANGED <<determined, eigenL, rotation, hasYuv, blits>>

\* The layer goes with the previous ones; a full batch is blitted.
Join(i) ==
    /\ AtLayer(i)
    /\ i \in owners /\ MultiSource /\ HasSource(i)
    /\ Compatible(i)
    /\ Len(batch) < IndexSlots
    /\ LET b == Append(batch, i) IN
       IF BatchFull(b)
       THEN /\ blits' = Append(blits, MultiSourceBlit(b))
            /\ batch' = <<>>
            /\ hasYuv' = FALSE
            /\ determined' = FALSE
       ELSE /\ batch' = b
            /\ hasYuv' = layers[i].yuv
            /\ UNCHANGED <<determined, blits>>
    /\ Advance
    /\ UNCHANGED <<eigenL, rotation>>

\* The layer goes with the previous ones, but sourceIndices has no room for it:
\* it is written behind the array, and what follows is not modelled.
Overflow(i) ==
    /\ AtLayer(i)
    /\ i \in owners /\ MultiSource /\ HasSource(i)
    /\ Compatible(i)
    /\ Len(batch) >= IndexSlots
    /\ pc' = "overflow"
    /\ UNCHANGED <<context, owners, next, batchVars, blits>>

\* The layer cannot go with the previous ones but can start a batch.  A DIM
\* at the bottom waits for it in the batch.
Start(i) ==
    /\ AtLayer(i)
    /\ i \in owners /\ MultiSource /\ HasSource(i)
    /\ ~Compatible(i)
    /\ CanStart(i)
    /\ IF determined
       THEN blits' = Flushed(batch) /\ batch' = <<i>>
       ELSE batch' = Append(batch, i) /\ UNCHANGED blits
    /\ determined' = TRUE
    /\ eigenL' = layers[i].eigen
    /\ rotation' = layers[i].rotation
    /\ hasYuv' = layers[i].yuv
    /\ Advance

\* Mutant of Alone: the layer is blitted before what was gathered below it.
AloneFirst(i) ==
    /\ AtLayer(i)
    /\ i \in owners /\ MultiSource /\ HasSource(i)
    /\ ~Compatible(i)
    /\ ~CanStart(i)
    /\ blits' = Append(blits, Blit(i))
                   \o IF batch = <<>> THEN <<>> ELSE <<MultiSourceBlit(batch)>>
    /\ batch' = <<>>
    /\ hasYuv' = FALSE
    /\ determined' = FALSE
    /\ Advance
    /\ UNCHANGED <<eigenL, rotation>>

\* The layer must be blitted alone, after what was gathered below it.
Alone(i) ==
    /\ AtLayer(i)
    /\ i \in owners /\ MultiSource /\ HasSource(i)
    /\ ~Compatible(i)
    /\ ~CanStart(i)
    /\ LET below == IF determined \/ batch = <<>> THEN Flushed(batch)
                    ELSE Append(blits, Blit(batch[1]))
       IN  blits' = Append(below, Blit(i))
    /\ batch' = <<>>
    /\ hasYuv' = IF determined THEN FALSE ELSE hasYuv
    /\ determined' = FALSE
    /\ Advance
    /\ UNCHANGED <<eigenL, rotation>>

\* One layer only, or a core without multi-source blit.
SingleSource(i) ==
    /\ AtLayer(i)
    /\ i \in owners /\ ~MultiSource
    /\ blits' = IF HasSource(i) \/ Bottom(i) THEN Append(blits, Blit(i)) ELSE blits
    /\ Advance
    /\ UNCHANGED batchVars

\* "Start multi-source blit for accumulated layers if any."
Finish ==
    /\ pc = "layers"
    /\ next > LayerCount
    /\ pc' = "done"
    /\ blits' = IF device.multiSourceBlt THEN Flushed(batch) ELSE blits
    /\ UNCHANGED <<context, owners, next, batchVars>>

ComposeNext ==
    \/ Correct \/ WormHole
    \/ \E i \in Index : \/ NotOwned(i) \/ NoSource(i) \/ Join(i) \/ Overflow(i)
                        \/ Start(i) \/ Alone(i) \/ SingleSource(i)
    \/ Finish

ComposeSpec == ComposeInit /\ [][ComposeNext]_composeVars

----------------------------------------------------------------------------
ComposeTypeOK ==
    /\ device \in Device
    /\ layers \in [Index -> LayerKind]
    /\ owners \subseteq Index
    /\ pc \in {"correct", "hole", "layers", "done", "overflow"}
    /\ next \in 1..(LayerCount + 1)
    /\ batch \in Seq(Index)
    /\ determined \in BOOLEAN /\ hasYuv \in BOOLEAN
    /\ eigenL \in Nat /\ rotation \in {"0", "90", "180", "270"}
    /\ \A n \in DOMAIN blits :
          blits[n] \in [layers: Seq(Index), dims: Seq(SUBSET Index), target: BOOLEAN]

(***************************************************************************)
(* What the area should show, from the layers alone: nothing below a solid *)
(* DIM; the overlay's hole only where no other layer is.                   *)
(***************************************************************************)
Shown ==
    LET given   == {i \in Index : layers[i].present}
        visible == {i \in given : \A j \in given :
                        layers[j].type = "DIM" /\ layers[j].opaque => j <= i}
        drawn   == {i \in visible : layers[i].type # "OVERLAY"}
    IN  IF drawn = {} THEN {CHOOSE i \in visible : \A j \in visible : j <= i} ELSE drawn

\* Every layer that shows is drawn exactly once and from the bottom to the
\* top, whatever the batches; a DIM above others is not drawn but dims exactly
\* the layers below it.  An area without layers is cleared.
PictureRight ==
    pc = "done" =>
        IF \A i \in Index : ~layers[i].present THEN blits = <<Clear>> ELSE
        LET bottom == CHOOSE i \in Shown : \A j \in Shown : i <= j
            drawn  == {i \in Shown : HasSource(i) \/ i = bottom}
            dims(i) == {j \in Shown : j > i /\ layers[j].type = "DIM" /\ ~layers[j].opaque}
            order  == FlattenSeq([n \in DOMAIN blits |-> blits[n].layers])
        IN  /\ ToSet(order) = drawn
            /\ \A j, k \in DOMAIN order : j < k => order[j] < order[k]
            /\ FlattenSeq([n \in DOMAIN blits |-> blits[n].dims])
                   = [n \in DOMAIN order |-> dims(order[n])]

\* No blit has more sources than the 2D core takes, the target included, and
\* sourceIndices overflows on no core but those that take more sources than
\* the array has room for.
SourcesFit ==
    /\ \A n \in DOMAIN blits :
          Len(blits[n].layers) + (IF blits[n].target THEN 1 ELSE 0) <= device.maxSource
    /\ pc = "overflow" => device.maxSource > IndexSlots

\* "source rectangle and dest rectangle must be the same": source layers of
\* one blit agree on alignment and rotation, with the target too if unrotated.
BatchAligned ==
    \A n \in DOMAIN blits :
        LET sources == {i \in ToSet(blits[n].layers) : HasSource(i)} IN
        Len(blits[n].layers) > 1 =>
            /\ \A i, j \in sources : /\ layers[i].eigen = layers[j].eigen
                                     /\ layers[i].rotation = layers[j].rotation
            /\ \A i \in sources : CanStart(i)

\* "Multi-source blit can only support one YUV input."
OneYuvPerBlit ==
    \A n \in DOMAIN blits :
        Len(blits[n].layers) > 1 =>
            Cardinality({k \in DOMAIN blits[n].layers : layers[blits[n].layers[k]].yuv}) <= 1

=============================================================================
