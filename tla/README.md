# Verification of the Marvell display stack

TLA+ models, TLC checks and TLAPS proofs for `android_hardware_marvell_display`,
the gralloc and hardware composer libraries of the PXA1908. All paths below are
relative to `src/pxa1908/`.

## 1. The system

```
 SurfaceFlinger ──prepare/set──▶ libhwcomposer (hwcomposer.cpp, the shell)
                                   │  virtual composer ─▶ GCU engine
                                   │  overlay composer ─▶ OverlayDevice ─▶ FBOverlayRef (overlay DMA)
                                   │  base composer ────▶ libHWComposerGC (hwc_prepare, hwc_set)
                                   └  display event monitor (vsync thread)
 OpenGL / SurfaceFlinger ──alloc, lock, post──▶ libgralloc ─▶ framebuffer, GC HAL surfaces
```

| Component | State it keeps | Operations | What makes it correct |
|---|---|---|---|
| Area splitting (`_SplitArea`, `libHWComposerGC/gc_hwc_set.cpp`) | linked list of `hwcArea` (rectangle, owner bits) | split a rectangle into a list | areas disjoint, cover exactly the layers, know exactly their owners; the recursion ends |
| Area composition (`hwcCompose`, `gc_hwc_compose.cpp`) | batch of source layers, alignment, rotation, YUV flag | correct owners, clear, gather, blit | each visible layer once and in order, dimmed rightly; the limits of the 2D core respected |
| Layers and their blits (`hwcSet`, `_Blit`, `_MultiSourceBlit`) | source and target rectangle, rotation, mirrors, alpha of a layer | turn a layer of the list into 2D core terms, cut out an area | each pixel of an area is the one the layer's transform asks for; addresses are aligned |
| Swap rectangles and buffer ring (`hwcSet`) | ring of buffers by physical address, a rectangle each, valid flag | detect a buffer, record, copy, swap | the displayed buffer is complete although only its dirty part was composed |
| Prepare and set (`gc_hwc.cpp`, `gc_hwc_prepare.cpp`, `gc_hwc_set.cpp`) | flags and layers of the last geometry, area lists, pool of areas, current hardware core | `hwc_prepare`, `hwc_set` | composes the current list, agrees with the framework who draws, leaves the 3D core current, does not lose or reuse areas |
| gralloc framebuffer (`gralloc.cpp`, `gc_gralloc_fb.cpp`) | mapping, lock, `bufferMask`, mode | open, allocate, free, post | no buffer has two handles, none is lost, the screen shows rows that exist, the lock comes back |
| gralloc buffers (`gc_gralloc_alloc.cpp`, `gc_gralloc_map.cpp`) | surfaces, maps and locks per process and handle | alloc, free, register, unregister, lock, unlock | every lock, map and descriptor is given back once; caches are cleaned after software writes |
| Shell (`libhwcomposer/hwcomposer.cpp`) | composers, displays handed on | prepare, set, blank, event control | every display is composed by exactly one composer |
| Virtual composer (`HWVirtualComposer.cpp`) | running flag, cleared buffers, destination layer | start, stop, mirror | no stale border is shown after a restart |
| Overlay composer and device (`HWOverlayComposer.cpp`, `OverlayDevice.h`, `FramebufferOverlay.h`) | running flag, layers committed and to commit, device: open, frames, address shown | choose a layer, mark it, commit, close | no layer is taken off the base before the overlay shows it or left to nobody after |
| V4L2 engine (`OverlayDisplayEngine/V4L2Overlay.cpp`) | queue slots, stream state, settings | - | reached by no caller: the factory that names it is under `#if 0` |
| Display event monitor (`HWCDisplayEventMonitor.cpp`) | enable flag, thread | eventControl, uevent loop | at most one late callback; the interrupt follows the flag; callbacks keep coming |
| Fence manager, base composer, GCU engine, display helpers, debug dumps, `libmemtrack` | none that matters to the others | forward, translate, print | - |

How they interact: the framework's composition thread calls the shell, which
calls the composers one after the other in `prepare` and in the reverse order
of responsibility in `set`; a composer leaves marks in the layer list for the
next one: a composition type written by the overlay composer is what the base
composer leaves out. Inside `libHWComposerGC` prepare and set share `hwcContext`: one
raises `geometryChanged`, the other takes it, frames later. `libgralloc` is
called by any thread of a client through the module; its framebuffer is shared
state under `Module->lock`, apart from the free path. Displayed buffers come from
the EGL window, whose buffers in turn are the gralloc framebuffer's.

What is hard about it: the composer is single-threaded but keeps state over
frames whose kinds (2D, 3D, failed, partial) come in any order; `_SplitArea`
mutates a list its own callers walk;
composition types outlive the frame they were made for; the vsync thread shares a
flag with its callers and no lock; the batching of blits depends on every
layer seen so far; allocator and ring rely on an order of calls no assertion
states; the framebuffer is used by several threads. Each such place is a
hazard in `PROJECT.json`, at its line, with the properties aimed at it.

## 2. Modules

| Module | Models | Uses |
|---|---|---|
| `AreaGeometry` | the rectangle arithmetic of `_SplitArea`: overlap, the shared part, the up to four strips of a cut and their order | |
| `AreaPartition` | abstract specification of splitting: a set of areas, pending pieces, one `Extend` or `Split` at a time in any order | `AreaGeometry` |
| `AreaPartition_proofs` | its theorems | `AreaPartition` |
| `AreaSplit` | `_SplitArea` as it runs: list, stack of suspended calls, walk, recursion | refines `AreaPartition` |
| `AreaSplit_proofs` | its theorems, and those of `AreaPartition` carried over to the list | `AreaSplit`, `AreaPartition_proofs` |
| `AreaCompose` | owner corrections of `hwcSet`, worm holes and the layer loop of `hwcCompose` for one area | an area as splitting leaves it |
| `LayerBlit` | what `hwcSet` makes of one layer, and what `_Blit` and `_MultiSourceBlit` tell the 2D core for an area of it | one layer of a batch |
| `SwapRing` | detection of buffers, ring, swap rectangles, copies, 3D and failed frames | splitting as set union, which `AreaPartition` justifies |
| `GcDraw_proofs` | the theorems of the three modules about drawing | `SwapRing`, `AreaCompose`, `LayerBlit` |
| `GcFrame` | `hwc_prepare`, the stages of `hwc_set`, and the area pool they allocate from | splitting and composing as stages |
| `GcFrame_proofs` | its theorems | `GcFrame` |
| `FramebufferPool` | mapping, allocation, free and post of the framebuffer, one step per access to shared state | |
| `FramebufferPool_proofs` | its theorems | `FramebufferPool` |
| `GrallocBuffer` | one buffer from allocation to free, its handles in other processes, and what each process holds for it | |
| `GrallocBuffer_proofs` | its theorems | `GrallocBuffer` |
| `VirtualMirror` | the shell's `prepare` and `set` with the virtual composer: who has the virtual display, and which of its buffers count as cleared | |
| `OverlayComposer` | `prepare` and `set` of the overlay composer over its device and the frame buffer engine, beside the base composer | |
| `DisplayEvents` | `eventControl` step by step in several threads, and `threadLoop` | |
| `OverlayComposer_proofs` | its theorems | `OverlayComposer` |
| `Shell_proofs` | the theorems of the two modules the shell feeds | `VirtualMirror`, `DisplayEvents` |
| `MC*` | instances for TLC: grids of rectangles, kinds of layers, screens | |

Definitions named "Mutant of X" are forms of `X` with a plausible bug in them;
nothing uses them in a specification. `PROJECT.json` lists for each property the
mutant that TLC finds to violate it, and `map` the source lines each definition
stands for.

### How state and actions correspond to the code

* **AreaGeometry / AreaPartition / AreaSplit.** `areas` is the list from
  `Context->compositionArea` or `swapArea`; `call` the rectangle and owner bits
  given to `_SplitArea`; `pending` the rectangles still held by suspended calls.
  In `AreaSplit` a frame of `stack` is a C stack frame: `at` is the parameter
  `Area` (a position, since nodes are only inserted behind it), `r0` and `r1`
  are the arrays of pieces, computed in `Meet`, before the recursion. `Meet`,
  `Recurse`, `SaveOutside` and `Finish` follow the order of the code. The pieces
  are computed by the four cases and their sub-cases in the source;
  `StripSeq` gives their order, `Strips` their set.
* **AreaCompose.** One action per way through the body of the layer loop;
  `batch` is `sourceIndices`, and `determined`, `eigenL`, `rotation`, `hasYuv`
  have the names of the locals. `WormHole` is the area without owners. A layer's eigen position stands for the
  alignment of its source address, the only thing the loop compares. The added
  target source in `MultiSourceBlit` is the condition of `_MultiSourceBlit`. `IndexSlots` is
  the length of `sourceIndices`; `Overflow` is a layer that joins a batch for which the array
  has no room left, and ends the behaviour, since what is written behind the array is undefined.
* **LayerBlit.** `Generate` is the part of `hwcSet` that fills `hwcLayer`;
  `SrcRect`, `Rotation`, `HMirror`, `VMirror` and `AlphaMode` are its fields.
  `BlitLayer` and `MultiSourceBlitLayer` record in `blit` the rectangles, the size of the surface, how far it
  was moved in memory, and the alpha registers; `ground` says that nothing lies below the layer in
  this area, which turns blending off. `PixelRead` says which pixel of the
  buffer the core then reads (after the comments of the code on how it mirrors and
  rotates), `PixelWanted` which one the transform of the hardware composer
  interface asks for; the two are independent.
* **SwapRing.** `ring` is the circular list from `framebuffer->head`; `Inserted`
  is the search of `hwcSet`, including that it starts behind the head. A
  rectangle is the set of cells it covers, and `SwapRectangle` is
  `_SwapRectangle`. `fresh` is what each buffer
  would show, `lost` the history of cells a frame missed and none has drawn since, `misplaced` that
  of buffers the search passed over; they have no counterpart in the code.
* **GcFrame.** `pc` is the stage of `hwcSet`. Areas are (pool, offset);
  `freeNodes` keeps the allocated number of each pool of the chain, where the
  code keeps a pointer to the first free node. `_FreeArea` takes only the head
  of a list and resets the pools from there on.
* **FramebufferPool.** Each thread takes the steps of its call one by one.
  `bufferMask |= ...` and `&= ...` are a load and a store, and a free takes them without the lock,
  whatever the others do. `live` counts
  the handles clients have; `forgotten` and `revived` record which bits the store of a stale mask
  has wiped and which it has set again, so that the properties can say what such a store costs.
* **GrallocBuffer.** One action per entry point, and one for its failure where
  it has an error path. The parameter `F` of an action is the set of its calls that fail on the
  way back: `gcoSURF_Unlock` (for a VG surface on either core), `gcoSURF_Destroy`, `mvmem_munmap`.
  `failures` counts them. What an error exit gives back is derived from where the
  call failed: `HasSurface`, `LocksAtRegister` and `HasVaddr` say what
  `gc_gralloc_register_buffer` has by then, and `ON_ERROR` destroys the surface if there is one and
  unmaps if there is a `Vaddr`. `left` counts the locks nobody will give back any more. `locks` counts `gcoSURF_Lock` and
  `gcoSURF_Unlock` of a process's surface on the core current at the call;
  `maps` counts `mvmem_mmap`; `fds` the open descriptors `fd` and `master`.
  `surface` and `base` are the pointers in the handle: a client's copy holds
  the owner's (`foreign`) until it registers. `cache` is what the CPU caches
  hold and the memory does not.
* **VirtualMirror.** A frame is `NewLists` or `SameLists`, then one of the two
  `Prepare` actions, then one of the two `Set` actions. `running`, `clearBuffer`
  and `previousMode` are the members with those names, `data` the
  `HwcDisplayData` of the virtual display. `claimed` stands for the composition
  type `HWC_2D_TARGET` in its list. `pictures` is what a buffer shows and `missed` the
  history of restarts `prepare` did not see; the code has neither. `base` says whether the
  base composer could be opened; without one nothing in the repository resets `claimed`.
* **OverlayComposer.** `PrepareNew` and `PrepareSame` are `hwc_prepare` with and
  without `HWC_GEOMETRY_CHANGED`, overlay composer first, base composer after it;
  `Set` is `hwc_set`, `finishCompose` included. `current` and `drawing` are the
  vectors `m_vCurrentOverlay` and `m_vDrawingOverlay` with places in the list for pointers. A list may be
  replaced between two calls of `hwc_prepare`: a pointer into the old one becomes `Stale`, or keeps its
  place if the framework has reused the memory, and `mismarked` remembers that.
  The addresses of the buffers are read in `Set`, as `commit` does.
  `Sorted`, `First`, `NormalRegion` and `Taken` are `traverse` with its sorted vector.
  `device` joins the members of `OverlayDevice` and, as `key`, `dma`, `image` and
  `window`, what the driver was told; a failed call leaves the latter alone. `failed`
  and `skipped` name what the properties except.
* **DisplayEvents.** `Check`, `Assign` and `Write` are the three accesses of
  `eventControl`, `Start` to `Fire` the steps of `threadLoop`; `hardware` and `news` are
  the driver's. `late`, `event` and `apart` only record what happened, for the properties.

## 3. Runs

| Run | Instance | Shows |
|---|---|---|
| `area_partition` | 3 x 2 screen, a first area and two splits, each any rectangle with either of two owners or none | areas stay disjoint, exact in owners and coverage, in every order of the pieces |
| `area_split` | 3 x 3 screen, three splits; the list starts with the screen or with the middle pixel | the recursion implements `AreaPartition` under the mapping in the module, suspended calls find their area unchanged, and every call returns |
| `area_compose` | five layers of ten kinds, cores with four sources, with eight, and without multi-source blit | the picture is right whatever the batches, an empty area is cleared; the limit of the core holds, and that of `sourceIndices` on every core with four sources |
| `area_compose_yuv` | as above, video and plain layers | the finding of section 5 |
| `swap_ring` | four buffers seen in any order, two cells, 2D and 3D frames of every dirty set, 2D frames that stop anywhere | the displayed buffer shows the scene except in cells some frame has missed and none has drawn since; copies come from it except around a buffer that stands at the wrong place of the ring |
| `gc_frame` | lists of one or two layers of six kinds, pools of two areas, lists of up to three areas | the layers composed are current, nobody draws twice, areas are neither reused nor lost |
| `fb_pool` | three threads, screens of one buffer and of two, one with rows left over, frees at any moment | handles and `bufferMask` agree except on the bits an unlocked free has wiped or set again; the lock returns, shown rows exist |
| `gralloc_buffer` | an owner and two clients, five kinds of buffer, each call fails once, those that give back included, up to two readers per process | a failed call costs one lock, mapping or descriptor at most, and three error paths cost one without such a failure; whoever may lock has the memory; an unlock of `pmem` memory leaves the caches clean |
| `virtual_mirror` | two addresses, two sets of parameters, two buffers, with and without a base composer | the virtual display is drawn by one composer if there is a base composer; buffers taken for clean are, with one exception |
| `overlay` | two layers out of two videos and a bar, two buffers, the delay of the code, one driver call at a time failed, lists replaced between two `prepare`s | a layer leaves the base when the overlay shows it and not before, is drawn by one of the two in every frame, meets no other layer, and the overlay goes with it |
| `layer_blit` | every transform and orientation of small layers with crops, scales and formats, and every area of them; all blendings with up to two DIM layers | each pixel is the right one, with the exceptions of section 5; addresses are aligned; dimming is right up to rounding |
| `display_events` | two threads that switch events, the monitor thread, reads, writes and opens that fail | at most one late callback, with an old timestamp; interrupt and flag agree; callbacks keep coming |

### Bounds

* Coordinates: two rectangles have sixteen relative positions per pair of axes;
  a 3 x 3 grid holds all of them, with touching and coinciding edges. Three
  rectangles are needed for a piece of one to meet an area cut by another.
  `MaxCalls` counts the first area.
* `LayerCount` 5 is one more than the sources of a blit and the elements of `sourceIndices`, so
  full batches, batches that reserve a source for the target, what follows them, and the overflow
  on a core with eight sources occur.
* `BufferCount` 4 is one more than `NUM_BUFFERS`: of three buffers, the target, the one on the
  screen and another one copied from are all there are, so one misplaced buffer would excuse every
  copy in `CopiesFromFront`. Two cells are enough for a frame to draw one and not the other, in its copies or
  in its composition; the proofs are for any cells.
* `PoolSize` 2 with `MaxAreas` 3 makes each list span two pools and both
  together three. `MaxLayers` 2 makes one layer roll back another. 
* Three threads: one at the lock, one in the section, one freeing or posting. `MaxHandles` 2 lets a
  buffer be handed out twice; no allocation starts while one has two handles.
  `yres_virtual` 3, 6 and 8 with `yres` 3 are one buffer, two, and two with rows
  left over. `line_length` only scales.

* `MaxFailures` 1 lets each call of `GrallocBuffer` whose failure may lose something fail once, in every
  combination; the counts only add up after that. Two clients, besides the owner, let one
  fail or unregister while the other writes; `MaxReaders` 2 lets one reader's
  unlock clear the flag another still relies on.

* `VirtualMirror` has no counters: its state space is finite as it stands. Two
  addresses let a list move and move back; of two buffers, one is clean and
  one is not.

* `OverlayComposer`: `MaxPrepares` 2 allows the second `prepare` without a `set` that
  appends to a vector already filled. Two layers and three kinds give each outcome of
  `traverse`: none taken, one taken, two candidates, a candidate under a bar. `Delay` 2 is
  `DMA_DELAY_FRAME_NUM`. `MaxFailed` 1 means that of the kinds of driver calls
  one at a time is in the state of having failed; the proofs are for any number.
* `LayerBlit`: a layer has at most 9 x 5 pixels, which leaves a crop off the middle in both
  directions, and its frame has at most 5 pixels a side, so that every area
  of it can be tried. Wider surfaces, of 80 pixels, are there for the steps of 16 and 64 bytes.
  Each layer is independent of the others, so one at a time is enough.
* `DisplayEvents`: two threads are the least that overlap. `late` stops counting at 2, one more
  than the property allows.

Deadlock is checked except where the system stops: `AreaSplit` after
`MaxCalls`, `AreaCompose` when the area is done, and `FramebufferPool`, where
an allocation that finds no buffer returns with the lock held and all others
wait (section 5).

`area_partition` uses symmetry of the two owners, which no definition tells
apart, `fb_pool` that of its threads, `gralloc_buffer` that of the two clients, `virtual_mirror` those of its
addresses, parameters and buffers, and `overlay` that of its buffers; none of them checks liveness.

### Fairness

`AreaSplit` assumes `WF_vars(Step)`, since a call of `_SplitArea` runs
on the caller's thread, waits for nothing, and so goes on until it returns.
`CallReturns` says that it does return.

`DisplayEvents` assumes weak fairness of each step of the monitor's thread and
of the calls under way, which run on threads of their own and block on nothing but
`poll`, and of `Vsync`, since a display whose interrupt is on goes on refreshing. No fairness
makes a thread switch events. `EventsArrive` says that from every state with flag and
interrupt on the thread comes to another callback, unless events are switched off, a read
fails, or the timestamps cannot be opened at all, after which the thread ends.

The other modules state safety only; in particular nothing entitles a thread to get
`Module->lock`.

## 4. Proofs

**`AreaPartition_proofs`** proves, for every set of owners, every set of
requests of any integer rectangles, any number of calls and any order of
placing pieces: `TypeCorrect`, `NoPixelTwice` (`AreasDisjoint`), `EveryAreaExact`
(`OwnersExact`) and `NoPixelLost` (`CoverageExact`). The assumptions are
`RequestAssumption` (requests are non-empty rectangles with owners) and
`PixelAssumption` (pixels have integer coordinates). The properties are not
inductive: a pending piece becomes an area with the owners of its call alone,
which is exact only if the piece lies in the call's rectangle and no earlier
call covered its pixels. `IInv` adds `PendingInCall` and `DonePlaced`. The argument rests on lemmas about
one cut: the strips are rectangles within the one cut and clear of the other
(`StripsShape`), clear of each other (`StripsApart`), and with the shared part
they hold exactly its pixels (`StripsPixels`, `ClipPixels`).

**`FramebufferPool_proofs`** proves, for any threads, modes and number of
buffers, `TypeCorrect`, `NoBufferTwice` (`SlotsDistinct`), `NoBufferLost`
(`MaskExact`), `LockComesBack` (`LockReturned`) and `PostInScreen`
(`ShownRowsExist`), from `PoolAssumption` alone (a screen has between one and
`MaxBuffers` buffers), with frees at any moment. `IInv` adds that only
the owner of the lock maps or allocates (`LockHeld`), and, of every buffer whose bit no store of a stale
mask has wiped, what each thread between a load and a store of `bufferMask` still knows of it
(`Remembered`): its bit is set while it has a handle or one is on its way back, one thread at most gives it back,
and the thread that allocates has it in the mask it loaded. So a stale store costs
the buffers it names and no other. The
arithmetic lemma `IndexOfBase` shows that a free finds the buffer of its
handle although it divides by `line_length * yres` what the allocation
multiplied by `line_length * (yres_virtual / numBuffers)`: the rows left over never add up
to another buffer. `RowsOfBase` does the same for `fb_post`.

**`GrallocBuffer_proofs`** proves, for any processes, any number of readers and of failures,
`TypeCorrect`, `NoLockLost` (`LocksGivenBack`), `NothingElseLost`
(`ResourcesAccounted`), `LockedMemoryIsThere` (`LockableIsMapped`) and
`WritesFlushed` (`WritesReachMemory`), from `BufferAssumption` alone. `IInv` ties
what each process holds to the state of its handle (`HandleOf`, `LocksOf`: a VG
surface of the owner has a lock on either core, a registered one two on its
own), and says that whoever has `pmem` memory locked, but for a write with
`GRALLOC_USAGE_PRIVATE_2`, has the flag set while the caches hold something (`AccessMarked`), which is why the
flush happens although unlocks of other readers clear the flag. Around it, `LeftByRegisterError` and `LeftByAllocError`
follow every error exit and every set of failed calls to the number of locks it leaves; `WritesFlushed` is an
action property, about every unlock. What gcoSURF_Construct and
gcoSURF_Destroy do with locks is not in the repository: that constructing a
surface in video memory takes a lock and destroying a surface gives one back is inferred from the
VG branch of `gc_gralloc_alloc`, which unlocks a surface nobody else locked, and
from the registration, which locks one twice and unlocks it once.

**`AreaSplit_proofs`** proves, for any integer rectangles, owners and number of calls, and
whatever the depth of the recursion: `TypeCorrect`, `AreaPointerSafe` (`SuspendedAreaUntouched`)
and the refinement, `ListIsPartition` (`ImplementsPartition`). The assumptions are those of
`AreaPartition`. Neither property is inductive: that a suspended call finds its area unchanged
depends on where every deeper call may be. `IInv` says that the calls are nested along the list
(`Nesting`: the waiting ones are at areas with a successor, the deeper ones not before them),
that a call met nothing in front of its position (`Passed`), that what a deeper call
places meets neither the areas the waiting ones hold nor the pieces they have left
(`DeeperOutside`), that these pieces are the strips of the cut (`PiecesOfCut`), and
that pieces saved behind the last area meet nothing at all (`TailOutside`), which is why
the code may append them without another walk. There is a lemma for each action that
keeps `IInv` and gives the step of `AreaPartition`: `Meet` is its `Split`, `AppendNew` and
`SaveOutside` are its `Extend`, `Walk`, `Recurse` and `Finish` are stutters. All
changes of the list are instances of one operator, `Spliced`, with its
lemmas. The theorems of `AreaPartition_proofs` are then used through the refinement:
`ListIsExact` says of the list itself, whenever no call runs on it, that no pixel is in it twice,
that it covers what was split in, and that each area has exactly its owners, which is what `hwcCompose`
relies on.

**`GcDraw_proofs`** is about three modules that share no variable. Of `SwapRing` it proves,
for any number of buffers and any cells, `RingTypeCorrect`, `ScreenComplete`
(`DisplayedFrameComplete`), `NothingMissed` (`MissingIsTracked`) and the action property
`FrontIsSource` (`CopiesFromFront`), from `RingAssumption` alone: buffers may be seen in any order, 3D frames
come at any time, and no frame has to be a full one. `RingInv` adds to the first of
these that the ring starts with the lowest address and is in the order of addresses but for the
buffers in `misplaced` (`RingShape`),
and that what a buffer misses and no frame has lost is in the rectangles of those shown since it was
(`Tracked`), which is stronger than `MissingIsTracked`: without the order, a rectangle could be
taken for that of a later frame.

Of `AreaCompose`, whose specification is `ComposeSpec`, it proves, for lists of any length, any kinds of
layers and any devices, `ComposeTypeCorrect`, `AreaDrawnRight` (`PictureRight`), `BatchesAligned`
(`BatchAligned`) and `SourcesFitCore` (`SourcesFit`), the last with its exception for cores that take
more sources than `sourceIndices` has elements. `ComposeInv` says that the layers already drawn,
followed by those in `batch`, are what shows of the layers passed so far, from the bottom to the top, each once and
with its DIM layers (`Gathered`); that the notes on the batch are true of every layer
in it (`InLine`) and that it has room for one more layer, and for the target if its first
layer needs it (`BatchGood`); and that the owners are what shows once they are corrected
(`OwnersInv`). `DimCorrected` and `OverlayCorrected` are recursive functions, walks over the
layers. That the walk exists and does what it says at each layer (`LoopExists`), and that it ends
with the owners that show (`DimCorrection`, `OverlayCorrection`), is proved from
the least layer at which it would not (`LeastNatural`), since the induction theorems of the library
cannot be used here; so is what `FlattenSeq` makes of a blit more (`FlattenAppend`).

Of `LayerBlit`, whose specification is `BlitSpec`, it proves, for layers of any size, crop, scale and
transform, any area of the frame and any DIM layers above, `BlitTypeCorrect`, `SingleBlitRight`
(`SinglePicture`), `SharedBlitRight` (`MultiSourcePicture`), `SharedBlitAligned` (`MultiSourceAligned`)
and `LayersDimmedRight` (`DimmedRight`), from `BlitAssumption` alone. `BlitInv` is short: the area lies
in the layer's frame, and what the core was told is one of the two requests for it, the
second only if the layer may share a blit. The rest is arithmetic. `SourceShows`
goes through the transforms: what `hwcSet` computes, turned back in the surface, is the pixel
of the picture. `FromLow` and `FromHigh` are about one axis of `_Blit`: rounding the
source rectangle down and then the pixel's distance from its side is at most one off from
rounding once, and exact if nothing is scaled. `SharedShows` is about the moves of `_MultiSourceBlit`, one case
for each rotation, and `EigenRange` about what makes them aligned. `DimBounds`
follows the eight bits of `AlphaDim` through the DIM layers, beside the exact products.

**`GcFrame_proofs`** proves, for lists of any length, any layers, any pool size, and any order of
2D, 3D and failed frames, `TypeCorrect`, `ComposesCurrentLayers` (`LayersCurrent`),
`EveryLayerDrawnOnce` (`DrawnOnce`) and `PoolAccounted` (`AreasAccounted`), from
`FrameAssumption` alone. The part of `IInv` about areas (`PoolInv`) says that the pools are
filled in order, that the lists are in the order in which their areas were allocated, and that an
area is in use exactly if it is held. That is what makes `_FreeArea` right, which
resets the pools from the head of a list on and so frees whatever was allocated later.

**`OverlayComposer_proofs`** proves, for lists of any length, any frames of layers, any buffers, any
delay and any failures of the driver, `TypeCorrect`, `EveryLayerDrawn` (`NoLayerLost`),
`OverlayLeavesScreen` (`ScreenReleased`), `BaseHandsOver` (`HandOver`) and `OverlayAlone`
(`NothingOverOverlay`), with lists that are replaced between two `prepare`s. `IInv` ties what the device
notes to what the driver was told, up to
calls that failed (`DeviceInv`), the two vectors to the list they point into or once did
(`PointerInv`), and the types in the list to the vectors and the phase (`MarkInv`).
`NothingOverOverlay` excepts the twins of the layer taken, which the sorted vector drops.

**`Shell_proofs`** is about two modules that share no variable. Of `VirtualMirror` it proves,
for any addresses, parameters and buffers, `TypeCorrect`, `CleanBuffers`
(`ClearedIsClean`), `NoneLeftClaimed` (`LeftToBase`)
and `NoneRefused` (`TakenIsDrawn`). `IInv` says that a running mirror accepts the
display as long as the lists are those of the last `prepare`, and, where there is a base composer, that
a claimed display has a running mirror (`Claims`), and that
what is cleared is clean for the parameters `prepare` saw last (`Clean`).
The proof needs that the base composer, if there is one, makes new composition types for a
list with `HWC_GEOMETRY_CHANGED`, as the GC composer does
(`gc_hwc_prepare.cpp:125`), and that the framework changes modes, parameters and
addresses only together with that flag. Of `DisplayEvents`, whose specification is `MonitorSpec`, it
proves, for any threads of the framework, `MonitorTypeCorrect`, `AtMostOneLate`
(`OneLateEvent`) and `InterruptAsFlag` (`HardwareFollows`); the assumption on
`Caller` is not needed. `OneLateEvent` is inductive with the types: a thread
that passed the test is caught by `Assign`, which makes its timestamp an old one, and cannot pass it
again. For the other `MonitorInv` adds `CallsApart`: while nothing came between flag and interrupt,
one call is under way at most, and it is about to write what the flag says.

Model-checked only: the two liveness properties, `CallReturns` and `EventsArrive`, since liveness under
fairness and `ENABLED` are beyond the prover. Every other property of a passing run is
a theorem. Induction over data is not to be had from the theorems of the library; where a proof
needs it, for the walks of `hwcSet`, the joined blits and the products of `LayerBlit`,
it is done from the least number at which the claim would fail. No module uses `RECURSIVE`.

## 5. Findings and observations

The finding, shown by a run that TLC ends with a counterexample
(`area_compose_yuv`): `gc_hwc_compose.cpp:302` assigns `hasYuv` when a layer joins a
batch, so video, plain, video end up in one blit with two YUV inputs, which lines 200-201 say
the core cannot do.

Two disagreements between comments and code that the models contain as they are,
without a run of their own:

* `gc_hwc_set.cpp:339`: the loop under "Reset swap rectangles of other buffers"
  starts at the target and runs while it is not at the target; it never runs.
* `gc_gralloc_fb.cpp:551`: after a failed `mmap` the framebuffer counts as
  mapped, and allocations hand out addresses without memory; `gralloc.cpp:232-233`
  says it is mapped once and forever.

What the models depend on, where the code does not enforce it:

* `DisplayedFrameComplete` and `MissingIsTracked` are about cells no frame has `lost`. Since the loop of
  `gc_hwc_set.cpp:339` never runs, a partial 2D frame right after 3D ones takes the rectangles of the other
  buffers from before them: whatever else changed meanwhile is lost until a frame draws it. The other losses are those of a
  failed frame, and of one that copies from another buffer than the one on the screen.
* The search for the place of a new buffer starts behind the head (`gc_hwc_set.cpp:251-289`), so it passes over the
  place between the head and the next node. A buffer that belongs there is put at the
  end and stays there; copies for it, for the buffer shown after it, or from it may come from a buffer that is not on the
  screen. This needs buffers not seen in turn, as with 3D frames before all of them are known, and
  `CopiesFromFront` names it.
* `gralloc_free_framebuffer` changes `bufferMask` without the lock (`gralloc.cpp:288`). A store of its stale mask
  wipes the bit of a buffer allocated since the load, which may then be handed out again, and
  sets the bit of one freed since, which no client then gets any more; the store of an allocation
  may do the latter as well. `SlotsDistinct` and `MaskExact` say that nothing
  else makes a buffer shared or lost.
* `LockReturned` says that the lock is kept on one way out only, the return of
  `gralloc.cpp:246` when no buffer is left. It is kept there, for good.
* `gc_hwc.cpp:351` sets `maxSource` to 8 on some cores, and a fifth compatible layer is then
  written behind the four entries of `sourceIndices` (`gc_hwc_compose.cpp:190`). `SourcesFit` says that no
  other core comes to that.
* `LocksGivenBack` and `ResourcesAccounted` name what error paths of
  `gc_gralloc_alloc` lose: a VG surface's lock on the 3D core after any error
  behind line 604; the descriptor if the memory cannot be mapped or its size
  not be asked, as `fd` is set to -1 first; the mapping if
  `gcoSURF_MapUserSurface` fails. Besides these, a call of `gcoSURF_Unlock`, `gcoSURF_Destroy` or
  `mvmem_munmap` that fails is not repeated, and costs one lock or mapping at most. After a failed unlock in
  `gc_gralloc_unmap` the base stays in the handle (`gc_gralloc_map.cpp:169-173`).
* A registration that failed leaves a handle without surface, and a retry then
  succeeds without doing anything. `LockableIsMapped` holds because
  `gc_gralloc_lock` refuses such a handle.
* `gc_gralloc_map.cpp:460` stores the usage of a lock in `lockAddr`; `lockUsage`, which
  `gc_gralloc_unlock` tests, is always 0, so only the flag makes it flush, and the flag is set for memory of
  kind `pmem` alone, and not by a lock with `GRALLOC_USAGE_PRIVATE_2`. `WritesReachMemory` is therefore about `pmem`
  memory: what was written to `adsp` memory, which is ION memory too, is never flushed, nor is a write with
  `GRALLOC_USAGE_PRIVATE_2` by its own unlock.
* New ION memory is filled with zeros after `_MapBuffer` flushed it
  (`gc_gralloc_alloc.cpp:715`); until the first lock and unlock the zeros may be in the caches only.
* `HWVirtualComposer.cpp:146-150`: "STOP -> START, we should update the clear
  status", but this is done only if the target layer has a new address. With
  the same address, what others drew between stop and restart stays on the
  borders. `ClearedIsClean` without `~missed` fails.
* `readyToRun` looks at one virtual display (its TODO says so): a second one is
  claimed whatever its mode and then refused by `set`.
* Without a base composer (`hwcomposer.cpp:511-515`) nothing resets the types of a new list (lines 141-144): a
  display the mirror no longer takes keeps the marks of the last one it took, unless the framework rewrites them, and nobody draws it.
  `LeftToBase` is about shells that have one.
* `SinglePicture`: a layer turned by 180 degrees has the rows of its source counted
  from the wrong end (`gc_hwc_set.cpp:549`), so another part of its buffer is shown
  unless the crop has as many rows above it as below.
* `MultiSourcePicture`: the original coordinates in `_MultiSourceBlit` leave
  mirrors out, so in an area off the middle of its frame a flipped layer shows the opposite part; of
  surfaces stored bottom to top it takes the crop from the wrong end and, if they
  are turned on their side, swaps top and bottom instead of left and right. The eigenvalue ignores the
  orientation as well (`MultiSourceAligned`).
* `DimmedRight`: under a DIM layer a layer whose alpha comes from its plane has
  that alpha scaled with its color; `>> 8` stands for `/ 255` in each product. The code
  marks coverage blending as possibly incorrect, and the property leaves its alpha out.
* The overlay composer keeps pointers into the list from `prepare` to `set`, and `hwc_prepare` may be called
  several times before `set` (`gc_hwc_prepare.cpp:104`). The first pointer is the one that is marked and committed. If the
  list was replaced in between, it leads into freed memory, and the overlay may show anything for a frame; if the new list
  has the memory of the old, the mark is written to whatever layer is there, and stays in the list. `NoLayerLost` excepts
  the lists this happens to (`mismarked`); the other properties hold for them as well.
* Overlay layers of one format and size are equal to the sorted vector, which keeps the one added
  last. The others are drawn by the base, and their frames are not tested against the overlay's,
  neither when their twin is taken nor when another layer is (`NothingOverOverlay` says so).
* A base composer that has been loaded overwrites `HWC_OVERLAY` on each new list; the layer
  is marked again in the next frame, too late for the types a base in 2D copied with
  the list: both draw the layer, until a list gets a second `prepare` before its `set`.
  Without a list for the primary display the overlay composer stops and leaves its types in
  the list (`HWOverlayComposer.cpp:117-121`); `NoLayerLost` is about frames in which it runs.
* `OverlayDevice.h:153`: a layer that moves without a new buffer keeps its old window.
  Lines 122-135 save alpha and color key before the call that sets them, so a
  failed call is not repeated; nor is switching the stream on, tried with the first frame only.
* `HWOverlayComposer.cpp:536` (dump) reads `m_vCurrentOverlay` at indices of
  `m_vDrawingOverlay`; between frames the former is empty.
* The vsync thread tests `mVsyncOn` without a lock: a callback may come after
  `eventControl` returned. A write to the driver that fails is not repeated, as the flag
  tells the next call that nothing is to be done; calls that overlap may leave flag and interrupt
  different for good (`HardwareFollows` excepts both). The thread ends for ever if `vsync_ts`
  cannot be opened. A second `registerProcs` keeps the first callbacks, and closing
  the device frees the context without stopping the thread.
* Clients keep the contract of gralloc: one writer or any number of readers, and
  no unregister or free while they have the buffer locked. `LockForRead`,
  `LockForWrite`, `Free` and `Unregister` have it as guards.

## 6. What is not modelled

Of the blits: clip rectangles, planes after the first, the kernels of the filter blit,
the rounding of floating point. The hole clearing of `hwcSet` and `hwcPrepare` under
`ENABLE_CLEAR_HOLE`, which is 0; opening and closing of the devices; calls
without layers. Lists longer than the 32 bits of `owners`. The hardware type of a
thread, addresses, signals and the names of video memory in gralloc;
`gc_gralloc_register_wrap`, which nobody calls. Of the overlay: the V4L2 engine, which
no caller reaches; the partial display region, which the frame buffer engine
ignores; the fills of the frame buffer, which nobody calls; dumps. Of the shell: queries and blanking, which
are forwarded as they come. The fence manager is used by a test program alone; the base composer, the GCU
engine, the display helpers and `libmemtrack` keep no state of a protocol.

## 7. Plan

Modelled, in this order: splitting, composition, ring, frame, framebuffer; the
buffers of gralloc and the virtual display; the overlay, the blits of a layer, the
vsync events. The safety properties of all of these are proved. What is left:

1. `SourcesFit`, `CopiesFromFront`, `SlotsDistinct`, `MaskExact`, `DisplayedFrameComplete` and `NoLayerLost` without
   their exceptions, each of which would need a change of the code first: a longer `sourceIndices`, a search that
   starts at the head, a free under the lock, a reset that runs, no pointers kept over lists.
2. The planes of planar video after the first in `LayerBlit`: `_MultiSourceBlit` moves them by as many
   rows and pixels as the first (`gc_hwc_compose.cpp:1518-1522`), although they have fewer in some formats.
3. What is outside of the models: section 6.
