---------------------------- MODULE VirtualMirror ----------------------------
(***************************************************************************)
(* HWVirtualComposer between hwc_prepare and hwc_set of the shell          *)
(* (HWVirtualComposer.cpp, hwcomposer.cpp): a virtual display that mirrors *)
(* the primary one is taken from the base composer, and every buffer of    *)
(* its window is filled with black once before pictures are blitted into   *)
(* it.  Which buffers are clean is remembered over frames in which the     *)
(* mirror stops, restarts, turns, or fails to blit.                        *)
(***************************************************************************)
CONSTANTS
    Layer,      \* addresses the target layer of the virtual display may have
    Params,     \* what from() compares: transform and handle of that layer
    Buffer,     \* buffers of the window of the virtual display
    Others      \* a picture drawn by the base composer or the GPU

ASSUME MirrorAssumption == Layer # {} /\ Others \notin Params

Mode == {"unknown", "mirror", "unique"}

VARIABLES
    base,           \* the shell has a base composer: its open did not fail
    phase,          \* of a frame: "idle", "given" (lists made), "prepared"
    empty,          \* the primary display has no list or no layers
    geometry,       \* HWC_GEOMETRY_CHANGED of the primary display
    primary,        \* "disabled", "few" (turned, but few layers) or "ready"
    target,         \* target layer of the virtual display: address, params, mode
    shown,          \* the virtual display has a list
    claimed,        \* its layers are HWC_2D_TARGET
    running,        \* m_bRunning
    clearBuffer,    \* m_bClearBuffer
    previousMode,   \* m_previousDisplayMode
    data,           \* its HwcDisplayData, if m_displays has one
    pictures,       \* what was drawn into each buffer since it was filled
    missed          \* a restart or new params went unnoticed since the last reset

lists == <<empty, geometry, primary, target, shown>>
composer == <<running, clearBuffer, previousMode, data>>
vars == <<base, phase, lists, claimed, composer, pictures, missed>>

Target == [layer : Layer, params : Params, mode : Mode]
Data == [known : BOOLEAN, layer : Layer, params : Params, mode : Mode, cleared : SUBSET Buffer]

Init ==
    /\ base \in BOOLEAN
    /\ phase = "idle"
    /\ empty = TRUE /\ geometry = FALSE /\ primary = "disabled" /\ shown = FALSE
    /\ target \in Target
    /\ claimed = FALSE
    /\ running = FALSE /\ clearBuffer = FALSE /\ previousMode = "unknown"
    /\ data = [known |-> FALSE, layer |-> target.layer, params |-> target.params,
               mode |-> target.mode, cleared |-> {}]
    /\ pictures = [b \in Buffer |-> {Others}]
    /\ missed = FALSE

----------------------------------------------------------------------------
(* The framework.  "disabled" stands for whatever makes readyToRun fail     *)
(* before it looks at modes: the property is off, there is no slot for a    *)
(* second display, or the last primary layer is no framebuffer target.      *)

NewLists ==
    /\ phase = "idle"
    /\ phase' = "given"
    /\ geometry' = TRUE
    /\ empty' \in BOOLEAN
    /\ primary' \in {"disabled", "few", "ready"}
    /\ shown' \in BOOLEAN
    /\ target' \in Target
    /\ claimed' = FALSE
    /\ UNCHANGED <<base, composer, pictures, missed>>

\* Without a change of geometry the lists keep what the composers wrote.
SameLists ==
    /\ phase = "idle"
    /\ phase' = "given"
    /\ geometry' = FALSE
    /\ empty' \in BOOLEAN
    /\ UNCHANGED <<base, primary, target, shown, claimed, composer, pictures, missed>>

----------------------------------------------------------------------------
\* readyToRun looks at the mode of the virtual display.
LooksAtMode == ~empty /\ geometry /\ primary # "disabled" /\ shown

\* Mutant of MirrorWanted: the mode of the display is not tested.
MirrorWantedAny == LooksAtMode /\ primary = "ready"

MirrorWanted == LooksAtMode /\ primary = "ready" /\ target.mode = "mirror"

\* What readyToRun returns.
ReadyToRun == ~empty /\ (IF geometry THEN MirrorWanted ELSE running)

\* The mode before was neither unknown nor mirror.
ClearPending == clearBuffer \/ (MirrorWanted /\ previousMode = "unique")

\* Mutant of ResetsCleared: a restart keeps what was cleared before.
ResetsClearedRunning == ClearPending \/ data.params # target.params

\* HwcDisplayData::from clears m_vBuffer.
ResetsCleared == ~running \/ ClearPending \/ data.params # target.params

\* A new display, and one whose target layer moved; else nothing is looked at.
NewDisplay ==
    /\ ~data.known
    /\ data' = [known |-> TRUE, layer |-> target.layer, params |-> target.params,
                mode |-> target.mode, cleared |-> {}]
    /\ clearBuffer' = ClearPending
    /\ UNCHANGED missed

MovedDisplay ==
    /\ data.known
    /\ data.layer # target.layer
    /\ data' = [data EXCEPT !.layer = target.layer, !.params = target.params,
                            !.cleared = IF ResetsCleared THEN {} ELSE @]
    /\ clearBuffer' = FALSE
    /\ missed' = (missed /\ ~ResetsCleared)

SameDisplay ==
    /\ data.known
    /\ data.layer = target.layer
    /\ clearBuffer' = ClearPending
    /\ missed' = (missed \/ ~running \/ data.params # target.params)
    /\ UNCHANGED data

\* prepare of a mirrored display.
PrepareMirror ==
    /\ phase = "given"
    /\ ReadyToRun
    /\ phase' = "prepared"
    /\ IF shown THEN NewDisplay \/ MovedDisplay \/ SameDisplay
                ELSE clearBuffer' = ClearPending /\ UNCHANGED <<data, missed>>
    /\ claimed' = shown
    /\ running' = TRUE
    /\ previousMode' = IF LooksAtMode THEN target.mode ELSE previousMode
    /\ UNCHANGED <<base, lists, pictures>>

\* Mutant of Notified: the other composers are not told of a stop.
NotifiedByFramework == geometry

\* The list of the virtual display has HWC_GEOMETRY_CHANGED when the base
\* composer prepares it.
Notified == geometry \/ running

\* prepare otherwise; the base composer, if there is one, gets all displays
\* and makes new composition types for a list that changed.
PrepareOthers ==
    /\ phase = "given"
    /\ ~ReadyToRun
    /\ phase' = "prepared"
    /\ claimed' = (claimed /\ ~(base /\ Notified))
    /\ running' = FALSE
    /\ previousMode' = IF LooksAtMode THEN target.mode ELSE previousMode
    /\ UNCHANGED <<base, lists, clearBuffer, data, pictures, missed>>

----------------------------------------------------------------------------
\* set does not refuse the display.
Accepts ==
    /\ claimed /\ data.known
    /\ data.layer = target.layer
    /\ data.mode = "mirror"

\* blit into buffer b: filled once, then the picture.  If a fill or a picture
\* fails the buffer is queued as it is then; "dequeue" gets no buffer or one
\* without a handle.
Filled(b) == IF b \in data.cleared THEN pictures[b] ELSE {}

Blit(b, failing) ==
    CASE failing = "dequeue" \/ (failing = "fill" /\ b \notin data.cleared) ->
            UNCHANGED <<pictures, data>>
      [] failing = "filter" ->
            /\ pictures' = [pictures EXCEPT ![b] = Filled(b)]
            /\ data' = [data EXCEPT !.cleared = @ \union {b}]
      [] OTHER ->
            /\ pictures' = [pictures EXCEPT ![b] = Filled(b) \union {target.params}]
            /\ data' = [data EXCEPT !.cleared = @ \union {b}]

SetMirror ==
    /\ phase = "prepared"
    /\ running
    /\ phase' = "idle"
    /\ IF shown /\ Accepts
       THEN \E b \in Buffer, failing \in {"dequeue", "fill", "filter", "none"} : Blit(b, failing)
       ELSE UNCHANGED <<pictures, data>>
    /\ UNCHANGED <<base, lists, claimed, running, clearBuffer, previousMode, missed>>

\* The base composer or the GPU draw into some buffer of the window; without a
\* base composer, nobody draws layers that still count as the mirror's.
SetOthers ==
    /\ phase = "prepared"
    /\ ~running
    /\ phase' = "idle"
    /\ IF shown /\ ~claimed
       THEN \E b \in Buffer : pictures' = [pictures EXCEPT ![b] = {Others}]
       ELSE UNCHANGED pictures
    /\ UNCHANGED <<base, lists, claimed, composer, missed>>

Next ==
    \/ NewLists \/ SameLists
    \/ PrepareMirror \/ PrepareOthers
    \/ SetMirror \/ SetOthers

Spec == Init /\ [][Next]_vars

----------------------------------------------------------------------------
TypeOK ==
    /\ base \in BOOLEAN
    /\ phase \in {"idle", "given", "prepared"}
    /\ empty \in BOOLEAN /\ geometry \in BOOLEAN /\ shown \in BOOLEAN
    /\ primary \in {"disabled", "few", "ready"}
    /\ target \in Target
    /\ claimed \in BOOLEAN /\ running \in BOOLEAN /\ clearBuffer \in BOOLEAN
    /\ previousMode \in Mode
    /\ data \in Data
    /\ pictures \in [Buffer -> SUBSET (Params \union {Others})]
    /\ missed \in BOOLEAN

\* A buffer taken for clean holds nothing outside the present picture, while
\* the mirror runs: not what others drew between a stop and a restart, nor a
\* picture turned the other way.  The exception is a restart, or a turn, with
\* which the target layer kept its address; prepare does not see that.
ClearedIsClean ==
    phase # "given" /\ running /\ ~missed =>
        \A b \in data.cleared : pictures[b] \subseteq {target.params}

\* A display the mirror leaves to the base composer has no layers that still
\* count as composed by the mirror, even if it stopped without a new list.
\* The exception is a shell whose base composer did not open: nothing else in
\* it resets the types of an old list.
LeftToBase == base /\ phase = "prepared" /\ ~running => ~claimed

\* A display the mirror took from the base composer in prepare is not refused
\* in set: nobody would draw it.
TakenIsDrawn == phase = "prepared" /\ running => shown /\ Accepts

=============================================================================
