---------------------------- MODULE OverlayComposer ----------------------------
(***************************************************************************)
(* HWOverlayComposer over its OverlayDevice and the frame buffer engine it *)
(* drives (HWOverlayComposer.cpp, OverlayDevice.h, FramebufferOverlay.h),  *)
(* beside the base composer, as hwc_prepare and hwc_set of the shell call  *)
(* them: of the layers of the primary display one video layer may be taken *)
(* off the base and flipped to the overlay DMA.  The first frames go to    *)
(* both; the composition types written in prepare stay in the list until   *)
(* the framework presents a new one.                                       *)
(*                                                                         *)
(* The partial display region, which the base engine ignores, and the      *)
(* blits that clear the frame buffer, which nothing calls, are left out.   *)
(***************************************************************************)
EXTENDS Integers, Sequences, FiniteSets

CONSTANTS
    Layer,          \* layers the framework may present
    Buffer,         \* physical addresses of video buffers
    NoBuffer,       \* the null address
    MaxLayers,      \* bound on the layers of a list
    MaxPrepares,    \* bound on the calls of hwc_prepare before hwc_set
    MaxFailed,      \* bound on the calls of the engine that failed the last time
    Delay           \* DMA_DELAY_FRAME_NUM

\* What prepare looks at: whether isOverlayCandidate accepts the layer, its
\* format and the cells of the screen it covers.
LayerType == [video : BOOLEAN, format : Nat, frame : SUBSET Nat]

ASSUME OverlayAssumption ==
    /\ Layer \subseteq LayerType
    /\ \A l \in Layer : l.frame # {} /\ IsFiniteSet(l.frame)
    /\ NoBuffer \notin Buffer
    /\ MaxLayers \in Nat /\ MaxPrepares \in Nat \ {0} /\ MaxFailed \in Nat /\ Delay \in Nat

Composition == {"FRAMEBUFFER", "BLITTER", "OVERLAY"}

\* A pointer to a layer of a list that has been replaced.
Stale == 0

VARIABLES
    phase,          \* "idle" after hwc_set, "prepared" after hwc_prepare
    list,           \* hwLayers of the primary display without its target
    types,          \* their compositionType
    buffers,        \* the buffers its video layers had in hwc_set, empty before
    base,           \* the base composer: loaded, twoD (hasComposition),
                    \*   pending (geometryChanged), copied (the types in
                    \*   Context->layers, once they are of this list)
    running,        \* m_bRunning
    current,        \* m_vCurrentOverlay, as places in the list
    drawing,        \* m_vDrawingOverlay
    device,         \* m_bOpen, m_nFrameCount (up to Delay + 1), m_pShadowAddr
                    \*   and the saved color key of the device, with what the
                    \*   display has: color key, DMA, address and window
    mismarked,      \* pointers of an earlier list led into this one
    failed,         \* calls of the engine that failed the last time
    skipped         \* the commit of this frame found its address already shown

lists == <<list, types, buffers, mismarked>>
composer == <<running, current, drawing>>
vars == <<phase, lists, base, composer, device, failed, skipped>>

Init ==
    /\ phase = "idle"
    /\ list = <<>> /\ types = <<>> /\ buffers = <<>> /\ mismarked = FALSE
    /\ base \in [loaded : BOOLEAN, twoD : {FALSE}, pending : {FALSE}, copied : {<<>>}]
    /\ running = FALSE /\ current = <<>> /\ drawing = <<>>
    /\ device = [open |-> FALSE, count |-> 0, shadow |-> NoBuffer, saved |-> FALSE,
                 key |-> FALSE, dma |-> FALSE, image |-> NoBuffer, window |-> {}]
    /\ failed = {} /\ skipped = FALSE

----------------------------------------------------------------------------
(* traverse *)

\* The order of the sorted vector: by format, then the larger frame first.
Before(l, m) ==
    \/ l.format < m.format
    \/ l.format = m.format /\ Cardinality(l.frame) > Cardinality(m.frame)

Twins(l, m) == ~Before(l, m) /\ ~Before(m, l)

Candidates(new) == {i \in DOMAIN new : new[i].video}

\* A sorted vector holds one of several equal items, the one added last.
Sorted(new) == {i \in Candidates(new) : \A j \in Candidates(new) : j > i => ~Twins(new[i], new[j])}

First(new) == LET sorted == Sorted(new) IN {i \in sorted : \A j \in sorted \ {i} : Before(new[i], new[j])}

\* Mutant of NormalRegion: candidates for which there is no device are not
\* counted to the rest of the screen.
NormalRegionOfOthers(new) == UNION {new[i].frame : i \in DOMAIN new \ Candidates(new)}

\* What is left to the base, as traverse sees it.
NormalRegion(new) ==
    UNION {new[i].frame : i \in (DOMAIN new \ Candidates(new)) \union (Sorted(new) \ First(new))}

\* The layer for the overlay, if there is one.
Taken(new) == LET region == NormalRegion(new) IN {i \in First(new) : new[i].frame \intersect region = {}}

----------------------------------------------------------------------------
(* hwc_prepare *)

\* OverlayDevice::open.
Opened == IF device.open THEN device
          ELSE [device EXCEPT !.open = TRUE, !.shadow = NoBuffer, !.count = 0]

\* Mutant of ReadyDrawOverlay: the delay is left out.
ReadyDrawOverlayAtOnce(d) == d.count >= 0

ReadyDrawOverlay(d) == d.count > Delay

\* Mutant of Marked: the layers above the one taken are marked as well.
MarkedAbove(given, overlays, d) ==
    [i \in DOMAIN given |->
        IF i >= Head(overlays) /\ ReadyDrawOverlay(d) THEN "OVERLAY" ELSE given[i]]

\* allocateOverlay writes the composition type through the first pointer.
Marked(given, overlays, d) ==
    [i \in DOMAIN given |->
        IF i = Head(overlays) /\ ReadyDrawOverlay(d) THEN "OVERLAY" ELSE given[i]]

\* m_vCurrentOverlay after prepare; it is cleared where traverse finds nothing,
\* and left alone where readyToRun says no.
Overlays(new, kept, ready) ==
    CASE ~ready -> kept
      [] ready /\ Taken(new) = {} -> <<>>
      [] OTHER -> Append(kept, CHOOSE i \in Taken(new) : TRUE)

\* HWOverlayComposer::prepare, called before the base composer's.
OverlayPrepare(new, kept, ready) ==
    /\ running' = (ready /\ Taken(new) # {})
    /\ current' = Overlays(new, kept, ready)
    /\ device' = IF running' THEN Opened ELSE device

OverlayTypes(given) == IF running' THEN Marked(given, current', device') ELSE given

\* Every video layer has a buffer; those of others do not matter here.
Handles(new) ==
    {h \in [DOMAIN new -> Buffer \union {NoBuffer}] :
        \A i \in DOMAIN new : new[i].video <=> h[i] # NoBuffer}

\* The types the base composer gives to a list.
BaseTypes(n, twoD) == [i \in 1..n |-> IF twoD THEN "BLITTER" ELSE "FRAMEBUFFER"]

\* A new list, whose types are reset; hwc_prepare "could be called multiple
\* times" before hwc_set, and then m_vCurrentOverlay has pointers into the list
\* before it.  They lead nowhere the composers look, or, if the framework has
\* "reused" the memory, to the same places of the new list.  "allowed" stands
\* for the conditions of readyToRun: no virtual display, a frame buffer target
\* at the end, the property is set.  A base composer writes over what the
\* overlay wrote.
PrepareNew ==
    /\ Len(current) < MaxPrepares
    /\ phase' = "prepared"
    /\ \E n \in 0..MaxLayers, allowed \in BOOLEAN, twoD \in {FALSE, base.loaded}, reused \in {FALSE, current # <<>>} :
          /\ list' \in [1..n -> Layer]
          /\ OverlayPrepare(list', [k \in DOMAIN current |-> IF reused THEN current[k] ELSE Stale], allowed)
          /\ mismarked' = (running' /\ reused /\ \E k \in DOMAIN current : current[k] # Stale)
          /\ types' = IF base.loaded THEN BaseTypes(n, twoD) ELSE OverlayTypes(BaseTypes(n, twoD))
          /\ base' = IF base.loaded
                   THEN [base EXCEPT !.twoD = twoD, !.pending = TRUE, !.copied = <<>>]
                   ELSE base
    /\ buffers' = <<>>
    /\ skipped' = FALSE
    /\ UNCHANGED <<drawing, failed>>

\* The same list again; "missing" is a call without a list for
\* the primary display.  The base composer returns at once.
PrepareSame ==
    /\ Len(current) < MaxPrepares
    /\ phase' = "prepared"
    /\ \E missing \in BOOLEAN : OverlayPrepare(list, current, running /\ ~missing)
    /\ types' = OverlayTypes(types)
    /\ buffers' = <<>>
    /\ skipped' = FALSE
    /\ UNCHANGED <<list, mismarked, base, drawing, failed>>

----------------------------------------------------------------------------
(* hwc_set *)

Failures == {"key", "flip", "on", "off"}

\* What is known of the calls just made.
Report(tried, failing) ==
    /\ failed' = (failed \ tried) \union failing
    /\ Cardinality(failed') <= MaxFailed

\* drawImage with the settings made before it; the DMA goes on with the first
\* frame.  The address is recorded, and the frame counted, even if the flip
\* failed.
Flipped(d, b, frame, failing) ==
    [d EXCEPT !.count = IF @ > Delay THEN @ ELSE @ + 1,
              !.shadow = b,
              !.dma = @ \/ (d.count = 0 /\ "on" \notin failing),
              !.image = IF "flip" \in failing THEN @ ELSE b,
              !.window = IF "flip" \in failing THEN @ ELSE frame]

\* setOverlayAlphaMode: the values are static and tried once.
Keyed(failing) ==
    IF device.saved THEN device
    ELSE [device EXCEPT !.saved = TRUE, !.key = "key" \notin failing]

\* The calls commit makes.
Tried(b) ==
    (IF device.saved THEN {} ELSE {"key"}) \union
    (IF device.shadow = b THEN {} ELSE {"flip"}) \union
    (IF device.shadow # b /\ device.count = 0 THEN {"on"} ELSE {})

\* commit of a layer with buffer b and a frame, at once done if the device
\* shows that address.
Commit(b, frame) ==
    \E failing \in SUBSET Tried(b) :
        /\ skipped' = (device.shadow = b)
        /\ device' = IF device.shadow = b THEN Keyed(failing)
                     ELSE Flipped(Keyed(failing), b, frame, failing)
        /\ Report(Tried(b), failing)

\* Mutant of Closed: the DMA is left to the next layer.
ClosedDevice(failing) == [device EXCEPT !.open = FALSE, !.shadow = NoBuffer, !.count = 0]

\* OverlayDevice::close, deferred to finishCompose.
Closed(failing) ==
    [device EXCEPT !.open = FALSE, !.shadow = NoBuffer, !.count = 0,
                   !.dma = @ /\ "off" \in failing]

\* What commit finds where a pointer leads: a video layer of the list, or
\* whatever is there.
Pointed(k) ==
    IF k \in DOMAIN list /\ list[k].video THEN {<<buffers'[k], list[k].frame>>}
    ELSE {<<b, l.frame>> : b \in Buffer, l \in Layer}

\* The overlay composer's part of hwc_set, finishCompose included.
OverlaySet ==
    CASE current # <<>> -> \E p \in Pointed(Head(current)) : Commit(p[1], p[2])
      [] current = <<>> /\ device.open ->
            \E failing \in SUBSET {"off"} :
                device' = Closed(failing) /\ Report({"off"}, failing) /\ UNCHANGED skipped
      [] OTHER -> UNCHANGED <<device, failed, skipped>>

\* m_vCurrentOverlay after finishCompose.
Cleared(overlays) == <<>>

\* hwc_set with the buffers the list holds now; prepare looks at no address.
\* The base composer draws its layers, and takes over the types of a new list
\* if it draws any.
Set ==
    /\ phase = "prepared"
    /\ phase' = "idle"
    /\ buffers' \in Handles(list)
    /\ base' = IF base.twoD /\ base.pending
               THEN [base EXCEPT !.pending = FALSE, !.copied = types] ELSE base
    /\ OverlaySet
    /\ drawing' = current
    /\ current' = Cleared(current)
    /\ UNCHANGED <<list, types, mismarked, running>>

Next == PrepareNew \/ PrepareSame \/ Set

Spec == Init /\ [][Next]_vars

----------------------------------------------------------------------------
TypeOK ==
    /\ phase \in {"idle", "prepared"}
    /\ list \in Seq(Layer)
    /\ types \in [DOMAIN list -> Composition]
    /\ phase = "idle" => buffers \in Handles(list)
    /\ base \in [loaded : BOOLEAN, twoD : BOOLEAN, pending : BOOLEAN, copied : Seq(Composition)]
    /\ running \in BOOLEAN /\ mismarked \in BOOLEAN
    /\ current \in Seq(Nat) /\ drawing \in Seq(Nat)
    /\ device \in [open : BOOLEAN, count : 0..(Delay + 1), shadow : Buffer \union {NoBuffer},
                   saved : BOOLEAN, key : BOOLEAN, dma : BOOLEAN,
                   image : Buffer \union {NoBuffer}, window : SUBSET Nat]
    /\ failed \subseteq Failures
    /\ skipped \in BOOLEAN

\* Who draws a layer in the frame just set: a base composer that composes in
\* 2D goes by the types it took over, the GPU by those of the list.
DrawnByBase(i) ==
    IF base.loaded /\ base.twoD THEN base.copied[i] # "OVERLAY" ELSE types[i] # "OVERLAY"

\* The overlay shows the layer's picture in its place, as far as the driver
\* let it; a layer that moved without a new buffer keeps its old window.
DeviceShows(i) ==
    /\ device.open
    /\ device.dma \/ "on" \in failed
    /\ device.key \/ "key" \in failed
    /\ "flip" \in failed \/ device.image = buffers[i]
    /\ "flip" \in failed \/ skipped \/ device.window = list[i].frame

\* No layer is left to an overlay that does not show it, over new lists, frames
\* that change nothing, types overwritten by the base composer, the overlay
\* closed and opened again.  (Without a list for the primary display the
\* composer stops and leaves the types in the list as they are.)  The exception
\* is a list that pointers of an earlier one lead into: what is written through
\* the first of them stays in a layer that the next frame does not commit.
NoLayerLost ==
    phase = "idle" /\ running /\ ~mismarked =>
        \A i \in DOMAIN list : ~DrawnByBase(i) => drawing # <<>> /\ Head(drawing) = i /\ DeviceShows(i)

\* The base stops drawing a layer only when the overlay is on the screen
\* already: "let the first several frames go to both".
HandOver ==
    phase = "prepared" /\ running =>
        \A i \in DOMAIN list : types[i] = "OVERLAY" =>
            device.open /\ device.count > Delay /\ (device.dma \/ "on" \in failed)

\* No other layer meets the one taken by the overlay: with "no overlap between
\* on-screen layer & overlay layer" it does not matter which is above.  Layers of
\* the same format and size are told apart by nothing; the sorted vector keeps
\* the last of them, and the frames of the others are not looked at.
NothingOverOverlay ==
    phase = "prepared" /\ running =>
        LET k == current[Len(current)]
        IN  \A i \in DOMAIN list \ {k} :
                \/ list[i].frame \intersect list[k].frame = {}
                \/ /\ list[i].video
                   /\ \E j \in DOMAIN list : j > i /\ list[j].video /\ Twins(list[i], list[j])

\* With the last overlay layer the overlay leaves the screen, in the same
\* frame; it is open exactly while it has a layer.
ScreenReleased ==
    phase = "idle" =>
        /\ device.open <=> drawing # <<>>
        /\ device.dma => device.open \/ "off" \in failed

=============================================================================
