------------------------------ MODULE GcFrame ------------------------------
(***************************************************************************)
(* One frame of libHWComposerGC: the framework calls hwc_prepare, any      *)
(* number of times, and then hwc_set (gc_hwc.cpp, gc_hwc_prepare.cpp,      *)
(* gc_hwc_set.cpp).  What hwc_set keeps between frames, the layers and the *)
(* area lists of the last geometry, comes from a pool that is freed from   *)
(* the head of a list upwards.  How areas are split and composed is left   *)
(* to AreaSplit and AreaCompose, the swap rectangles to SwapRing.          *)
(*                                                                         *)
(* Calls without layers and a missing back buffer return before they       *)
(* change anything, and are left out.                                      *)
(***************************************************************************)
EXTENDS Integers, SequencesExt, FiniteSetsExt

CONSTANTS
    Layer,          \* layers the framework may present
    MaxLayers,      \* bound on numHwLayers
    PoolSize,       \* POOL_SIZE
    MaxAreas        \* bound on the areas of a list

\* What the checks of hwcPrepare find out about a layer.
LayerType == [skip: BOOLEAN, dim: BOOLEAN, overlay: BOOLEAN, blitter: BOOLEAN,
              transform: {"known", "unknown"}]

ASSUME FrameAssumption ==
    /\ Layer \subseteq LayerType
    /\ MaxLayers \in Nat \ {0} /\ PoolSize \in Nat \ {0} /\ MaxAreas \in Nat \ {0}

VARIABLES
    pc,                 \* "idle" between calls, else a stage of hwc_set
    list,               \* List->hwLayers
    types,              \* their compositionType
    clearFb,            \* layers with HWC_HINT_CLEAR_FB
    geometryChanged, hasComposition, hasDim, hasOverlay,
    layers,             \* compositionType of Context->layers, layerCount of them
    framebuffer,        \* "none", or its valid flag
    freeNodes,          \* freeNodes - areas of each pool in the chain
    compositionArea,    \* the areas of each list by place in the pools, in the
    swapArea,           \*   order of allocation: the head of a list is its oldest
    hardware            \* current hardware type of a core with separate 2D

listVars == <<list, types, clearFb>>
flags == <<geometryChanged, hasComposition, hasDim, hasOverlay>>
pool == <<freeNodes, compositionArea, swapArea>>
vars == <<pc, listVars, flags, layers, framebuffer, pool, hardware>>

Init ==
    /\ pc = "idle"
    /\ list = <<>> /\ types = <<>> /\ clearFb = {}
    /\ geometryChanged = FALSE /\ hasComposition = FALSE
    /\ hasDim = FALSE /\ hasOverlay = FALSE
    /\ layers = <<>>
    /\ framebuffer = "none"
    /\ freeNodes = <<>> /\ compositionArea = <<>> /\ swapArea = <<>>
    /\ hardware = "3D"

----------------------------------------------------------------------------
(* hwc_prepare *)

Classified(layer) ==
    CASE layer.skip    -> "FRAMEBUFFER"
      [] ~layer.skip /\ layer.dim -> "DIM"
      [] ~layer.skip /\ ~layer.dim /\ layer.overlay -> "OVERLAY"
      [] ~layer.skip /\ ~layer.dim /\ ~layer.overlay /\ layer.blitter -> "BLITTER"
      [] OTHER -> "FRAMEBUFFER"

\* Mutant of Prepare: only BLITTER layers are rolled back.
PrepareKeepsDim(new) ==
    /\ pc = "idle"
    /\ LET given == [i \in DOMAIN new |-> Classified(new[i])]
           all2D == \A i \in DOMAIN new : given[i] # "FRAMEBUFFER"
       IN  /\ hasComposition' = all2D
           /\ types' = [i \in DOMAIN new |->
                  IF ~all2D /\ given[i] = "BLITTER" THEN "FRAMEBUFFER" ELSE given[i]]
    /\ list' = new
    /\ geometryChanged' = TRUE
    /\ UNCHANGED <<pc, clearFb, hasDim, hasOverlay, layers, framebuffer, pool, hardware>>

\* A new list.  One layer that 2D cannot compose sends all but the overlays
\* back to 3D.
Prepare(new) ==
    /\ pc = "idle"
    /\ LET given == [i \in DOMAIN new |-> Classified(new[i])]
           all2D == \A i \in DOMAIN new : given[i] # "FRAMEBUFFER"
       IN  /\ hasComposition' = all2D
           /\ hasDim' = (all2D /\ \E i \in DOMAIN new : given[i] = "DIM")
           /\ hasOverlay' = \E i \in DOMAIN new : given[i] = "OVERLAY"
           /\ types' = [i \in DOMAIN new |->
                  IF ~all2D /\ given[i] # "OVERLAY" THEN "FRAMEBUFFER" ELSE given[i]]
           /\ clearFb' = IF all2D THEN {} ELSE {i \in DOMAIN new : given[i] = "OVERLAY"}
    /\ list' = new
    /\ geometryChanged' = TRUE
    /\ UNCHANGED <<pc, layers, framebuffer, pool, hardware>>

----------------------------------------------------------------------------
(***************************************************************************)
(* The area pool.  Pools are filled in the order of the chain; an area is  *)
(* its pool and its offset there.                                          *)
(***************************************************************************)

\* The first pool with room, or the one allocated behind the last.
PoolWithRoom(nodes) ==
    LET roomy == {k \in DOMAIN nodes : nodes[k] < PoolSize}
    IN  IF roomy = {} THEN Len(nodes) + 1 ELSE CHOOSE k \in roomy : \A j \in roomy : k <= j

AllocatedArea(nodes) ==
    LET k == PoolWithRoom(nodes)
    IN  <<k, IF k \in DOMAIN nodes THEN nodes[k] ELSE 0>>

AfterAllocate(nodes) ==
    LET k == PoolWithRoom(nodes)
    IN  IF k \in DOMAIN nodes THEN [nodes EXCEPT ![k] = @ + 1] ELSE Append(nodes, 1)

\* Mutant of AfterFree: later pools are not reset.
AfterFreeOnePool(nodes, head) ==
    IF head[2] < nodes[head[1]] THEN [nodes EXCEPT ![head[1]] = head[2]] ELSE nodes

\* "Free the first node is enough": all that was allocated after it goes too,
\* unless a pool with room shows that it was freed before.
AfterFree(nodes, head) ==
    IF \A k \in 1..(head[1] - 1) : nodes[k] = PoolSize
    THEN IF head[2] < nodes[head[1]]
         THEN [k \in DOMAIN nodes |->
                  IF k < head[1] THEN nodes[k] ELSE IF k = head[1] THEN head[2] ELSE 0]
         ELSE nodes
    ELSE nodes

FreedList(nodes, areas) == IF areas = <<>> THEN nodes ELSE AfterFree(nodes, Head(areas))

----------------------------------------------------------------------------
(* hwc_set *)

Stage(from, to) == pc = from /\ pc' = to

\* Without composition only the overlays are set and the buffers swapped.
Set3D ==
    /\ pc = "idle" /\ list # <<>>
    /\ ~hasComposition
    /\ framebuffer' = IF framebuffer = "none" THEN "none" ELSE "invalid"
    /\ UNCHANGED <<pc, listVars, flags, layers, pool, hardware>>

\* The back buffer is there: switch to 2D and find the target buffer.
Set2D ==
    /\ Stage("idle", IF geometryChanged THEN "layers" ELSE "sources")
    /\ hasComposition
    /\ hardware' = "2D"
    /\ framebuffer' = "valid"
    /\ UNCHANGED <<listVars, flags, layers, pool>>

\* A transform hwcSet does not know stops the generation of layers.
Generates(i) == types[i] # "BLITTER" \/ list[i].transform = "known"

GenerateLayers ==
    /\ Stage("layers", "areas")
    /\ \A i \in DOMAIN list : Generates(i)
    /\ layers' = types
    /\ UNCHANGED <<listVars, flags, framebuffer, pool, hardware>>

\* Mutant of GenerateFails: the flag is taken before the layers are generated.
GenerateFailsTaken ==
    /\ Stage("layers", "swap")
    /\ \E i \in DOMAIN list : ~Generates(i)
    /\ geometryChanged' = FALSE
    /\ UNCHANGED <<listVars, hasComposition, hasDim, hasOverlay, layers, framebuffer,
                   pool, hardware>>

\* layerCount and the layers up to the bad one are new already.
GenerateFails ==
    /\ Stage("layers", "swap")
    /\ \E i \in DOMAIN list :
          /\ ~Generates(i)
          /\ \A j \in 1..(i - 1) : Generates(j)
          /\ layers' = [j \in DOMAIN list |->
                IF j <= i THEN types[j] ELSE IF j \in DOMAIN layers THEN layers[j] ELSE "stale"]
    /\ UNCHANGED <<listVars, flags, framebuffer, pool, hardware>>

\* "Reset allocated areas", then "put a no-owner area with screen size".
ResetAreas ==
    /\ Stage("areas", "split")
    /\ LET nodes == FreedList(freeNodes, compositionArea) IN
       /\ compositionArea' = <<AllocatedArea(nodes)>>
       /\ freeNodes' = AfterAllocate(nodes)
    /\ swapArea' = <<>>
    /\ UNCHANGED <<listVars, flags, layers, framebuffer, hardware>>

\* _SplitArea adds an area to the composition areas.
SplitComposition ==
    /\ pc = "split"
    /\ Len(compositionArea) < MaxAreas
    /\ compositionArea' = Append(compositionArea, AllocatedArea(freeNodes))
    /\ freeNodes' = AfterAllocate(freeNodes)
    /\ UNCHANGED <<pc, listVars, flags, layers, framebuffer, swapArea, hardware>>

\* The regions of all layers are split in.
SplitDone ==
    /\ Stage("split", "sources")
    /\ UNCHANGED <<listVars, flags, layers, framebuffer, pool, hardware>>

\* Source buffers are updated; the geometry is done.  The swap areas of the
\* frame before are freed, and for a partial frame a first one is allocated.
UpdateSources(partial) ==
    /\ Stage("sources", IF partial THEN "splitSwap" ELSE "compose")
    /\ geometryChanged' = FALSE
    /\ LET nodes == FreedList(freeNodes, swapArea) IN
       IF partial
       THEN /\ swapArea' = <<AllocatedArea(nodes)>>
            /\ freeNodes' = AfterAllocate(nodes)
       ELSE /\ swapArea' = <<>>
            /\ freeNodes' = nodes
    /\ UNCHANGED <<listVars, hasComposition, hasDim, hasOverlay, layers, framebuffer,
                   compositionArea, hardware>>

\* _SplitArea adds an area to the swap areas.
SplitSwap ==
    /\ pc = "splitSwap"
    /\ Len(swapArea) < MaxAreas
    /\ swapArea' = Append(swapArea, AllocatedArea(freeNodes))
    /\ freeNodes' = AfterAllocate(freeNodes)
    /\ UNCHANGED <<pc, listVars, flags, layers, framebuffer, compositionArea, hardware>>

SplitSwapDone ==
    /\ Stage("splitSwap", "compose")
    /\ UNCHANGED <<listVars, flags, layers, framebuffer, pool, hardware>>

\* hwcCompose, whether it succeeds or not.
Compose ==
    /\ Stage("compose", "swap")
    /\ UNCHANGED <<listVars, flags, layers, framebuffer, pool, hardware>>

\* "Must call eglSwapBuffers to queue buffer", also after an error.
SwapBuffers ==
    /\ Stage("swap", "idle")
    /\ hardware' = "3D"
    /\ UNCHANGED <<listVars, flags, layers, framebuffer, pool>>

NewList == UNION {[1..n -> Layer] : n \in 1..MaxLayers}

Next ==
    \/ \E new \in NewList : Prepare(new)
    \/ Set3D \/ Set2D \/ GenerateLayers \/ GenerateFails
    \/ ResetAreas \/ SplitComposition \/ SplitDone
    \/ \E partial \in BOOLEAN : UpdateSources(partial)
    \/ SplitSwap \/ SplitSwapDone \/ Compose \/ SwapBuffers

Spec == Init /\ [][Next]_vars

----------------------------------------------------------------------------
CompositionType == {"FRAMEBUFFER", "OVERLAY", "BLITTER", "DIM"}
Stages == {"idle", "layers", "areas", "split", "sources", "splitSwap", "compose", "swap"}
Node == (Nat \ {0}) \X (0..(PoolSize - 1))

TypeOK ==
    /\ pc \in Stages
    /\ list \in Seq(Layer) /\ types \in Seq(CompositionType)
    /\ clearFb \subseteq DOMAIN list
    /\ geometryChanged \in BOOLEAN /\ hasComposition \in BOOLEAN
    /\ hasDim \in BOOLEAN /\ hasOverlay \in BOOLEAN
    /\ layers \in Seq(CompositionType \union {"stale"})
    /\ framebuffer \in {"none", "valid", "invalid"}
    /\ freeNodes \in Seq(0..PoolSize)
    /\ compositionArea \in Seq(Node) /\ swapArea \in Seq(Node)
    /\ hardware \in {"2D", "3D"}

\* Whenever layers are composed, they and the areas are those of the list the
\* framework has now, whatever prepares, 3D frames and failed frames came in
\* between and although the flag was raised by one call and is taken by another.
LayersCurrent ==
    pc = "compose" => layers = types /\ compositionArea # <<>>

\* The framework and hwc_set agree who draws: the framework draws exactly the
\* FRAMEBUFFER layers, so either it draws none and hwc_set composes, or hwc_set
\* leaves every layer but the overlays to it.  No skipped layer is composed.
DrawnOnce ==
    /\ \A i \in DOMAIN list : list[i].skip => types[i] = "FRAMEBUFFER"
    /\ hasComposition => \A i \in DOMAIN list : types[i] # "FRAMEBUFFER"
    /\ ~hasComposition => \A i \in DOMAIN list : types[i] \in {"FRAMEBUFFER", "OVERLAY"}

InUse(nodes, area) == area[1] \in DOMAIN nodes /\ area[2] < nodes[area[1]]
AreasHeld == ToSet(compositionArea) \union ToSet(swapArea)

NoAreaReused ==
    /\ \A area \in AreasHeld : InUse(freeNodes, area)
    /\ IsInjective(compositionArea) /\ IsInjective(swapArea)
    /\ ToSet(compositionArea) \intersect ToSet(swapArea) = {}
NoAreaLost ==
    \A area \in (DOMAIN freeNodes) \X (0..(PoolSize - 1)) :
        InUse(freeNodes, area) => area \in AreasHeld

\* The pool holds the areas of the two lists hwc_set still reads, each in one
\* place, and no other: freeing from the head of a list never hands out an area
\* again that the other list needs, and dropping swapArea together with
\* compositionArea loses nothing.
AreasAccounted == NoAreaReused /\ NoAreaLost

=============================================================================
