-------------------------- MODULE FramebufferPool --------------------------
(***************************************************************************)
(* The framebuffer of libgralloc: mapped by the first caller that needs    *)
(* it, divided into buffers that are handed out under a lock and given     *)
(* back without it, and flipped to the screen (gralloc.cpp,                *)
(* gc_gralloc_fb.cpp, private_module_t).                                   *)
(***************************************************************************)
EXTENDS Integers

CONSTANTS
    Thread,         \* callers of the gralloc and framebuffer devices
    NoOwner,
    Mode,           \* screens the driver may report, as mapFrameBufferLocked reads them
    MaxBuffers,     \* bound on the buffers of a screen
    MaxHandles      \* bound: no allocation starts while one buffer has as many handles

Slot == 0..(MaxBuffers - 1)

ModeType == [line_length: Nat \ {0}, yres: Nat \ {0}, yres_virtual: Nat \ {0}]

\* Module->numBuffers of a mode.
Count(m) == m.yres_virtual \div m.yres

ASSUME PoolAssumption ==
    /\ NoOwner \notin Thread
    /\ MaxBuffers \in Nat /\ MaxHandles \in Nat
    /\ Mode \subseteq ModeType
    /\ \A m \in Mode : 1 <= Count(m) /\ Count(m) <= MaxBuffers

VARIABLES
    pc,             \* where each thread is in its call
    lock,           \* Module->lock
    framebuffer,    \* Module->framebuffer: none, mapped, or a handle without base
    mode,           \* Module->info and finfo
    bufferMask,     \* the bits set in Module->bufferMask
    seen,           \* the bufferMask a thread has loaded, for as long as it matters
    slot,           \* the buffer a thread takes or frees
    live,           \* how many handles to each buffer the clients have
    yoffset,        \* info.yoffset of the last fb_post
    refused,        \* an allocation has found every buffer taken
    forgotten,      \* history: buffers whose bit the store of another buffer's free wiped
    revived         \* history: buffers whose bit a store of a stale mask set again

module == <<lock, framebuffer, mode, bufferMask>>
local == <<pc, seen, slot>>
history == <<refused, forgotten, revived>>
vars == <<module, local, live, yoffset, history>>

\* Size of one buffer, and where buffer i starts in the framebuffer.
BufferSize == mode.line_length * (mode.yres_virtual \div Count(mode))
\* Mutant of Base: buffers are counted from one.
BaseFromOne(i) == (i + 1) * BufferSize

Base(i) == i * BufferSize

\* Mutant of IndexOf: the size of the whole framebuffer instead of a buffer's.
IndexOfWhole(base) == base \div (mode.line_length * mode.yres_virtual)

\* The buffer gralloc_free_framebuffer takes a handle for.
IndexOf(base) == base \div (mode.line_length * mode.yres)

\* Mutant of Buffers: one bit too many.
BuffersOneMore == 0..Count(mode)

Buffers == 0..(Count(mode) - 1)
OutOfBuffers == Buffers \subseteq bufferMask

Init ==
    /\ pc = [t \in Thread |-> "idle"]
    /\ lock = NoOwner
    /\ framebuffer = "none"
    /\ mode \in Mode
    /\ bufferMask = {}
    /\ seen = [t \in Thread |-> {}]
    /\ slot = [t \in Thread |-> 0]
    /\ live = [i \in Slot |-> 0]
    /\ yoffset = 0
    /\ refused = FALSE
    /\ forgotten = {}
    /\ revived = {}

Goto(t, label) == pc' = [pc EXCEPT ![t] = label]

----------------------------------------------------------------------------
\* fb_device_open, up to the lock in mapFrameBuffer.
Open(t) ==
    /\ pc[t] = "idle"
    /\ Goto(t, "open")
    /\ UNCHANGED <<module, seen, slot, live, yoffset, history>>

\* gralloc_alloc_framebuffer, up to the lock.
Alloc(t) ==
    /\ pc[t] = "idle"
    /\ \A i \in Slot : live[i] < MaxHandles
    /\ Goto(t, "alloc")
    /\ UNCHANGED <<module, seen, slot, live, yoffset, history>>

Lock(t) ==
    /\ pc[t] \in {"open", "alloc"}
    /\ lock = NoOwner
    /\ lock' = t
    /\ Goto(t, IF pc[t] = "open" THEN "openLocked" ELSE "allocLocked")
    /\ UNCHANGED <<framebuffer, mode, bufferMask, seen, slot, live, yoffset, history>>

\* What follows a successful mapping: fb_device_open unlocks and returns, the
\* allocation goes on.
Mapped(t) ==
    IF pc[t] = "openLocked"
    THEN lock' = NoOwner /\ Goto(t, "idle")
    ELSE UNCHANGED lock /\ Goto(t, "check")

\* mapFrameBufferLocked: "already initialized..."
AlreadyMapped(t) ==
    /\ pc[t] \in {"openLocked", "allocLocked"}
    /\ framebuffer # "none"
    /\ Mapped(t)
    /\ UNCHANGED <<framebuffer, mode, bufferMask, seen, slot, live, yoffset, history>>

\* Mutant of MapFails: the error path forgets the lock.
MapFailsLocked(t) ==
    /\ pc[t] \in {"openLocked", "allocLocked"}
    /\ framebuffer = "none"
    /\ Goto(t, "idle")
    /\ UNCHANGED <<module, seen, slot, live, yoffset, history>>

\* mapFrameBufferLocked finds no usable device and changes nothing.
MapFails(t) ==
    /\ pc[t] \in {"openLocked", "allocLocked"}
    /\ framebuffer = "none"
    /\ lock' = NoOwner
    /\ Goto(t, "idle")
    /\ UNCHANGED <<framebuffer, mode, bufferMask, seen, slot, live, yoffset, history>>

\* mapFrameBufferLocked fails in mmap, with Module->framebuffer already set.
MmapFails(t, m) ==
    /\ pc[t] \in {"openLocked", "allocLocked"}
    /\ framebuffer = "none"
    /\ framebuffer' = "baseless"
    /\ mode' = m
    /\ bufferMask' = {}
    /\ lock' = NoOwner
    /\ Goto(t, "idle")
    /\ UNCHANGED <<seen, slot, live, yoffset, history>>

\* mapFrameBufferLocked succeeds.
MapFramebuffer(t, m) ==
    /\ pc[t] \in {"openLocked", "allocLocked"}
    /\ framebuffer = "none"
    /\ framebuffer' = "mapped"
    /\ mode' = m
    /\ bufferMask' = {}
    /\ Mapped(t)
    /\ UNCHANGED <<seen, slot, live, yoffset, history>>

\* "We ran out of buffers.": the call returns and keeps the lock.
Refuse(t) ==
    /\ pc[t] = "check"
    /\ OutOfBuffers
    /\ refused' = TRUE
    /\ Goto(t, "idle")
    /\ UNCHANGED <<module, seen, slot, live, yoffset, forgotten, revived>>

\* The lowest buffer whose bit is clear; bufferMask |= 1<<i loads the mask ...
Choose(t) ==
    /\ pc[t] = "check"
    /\ ~OutOfBuffers
    /\ \E i \in Buffers \ bufferMask :
          /\ \A j \in Buffers \ bufferMask : i <= j
          /\ slot' = [slot EXCEPT ![t] = i]
    /\ seen' = [seen EXCEPT ![t] = bufferMask]
    /\ Goto(t, "store")
    /\ UNCHANGED <<module, live, yoffset, history>>

\* Mutant of Take: the bit is not set.
TakeUnmarked(t) ==
    /\ pc[t] = "store"
    /\ live' = [live EXCEPT ![slot[t]] = @ + 1]
    /\ lock' = NoOwner
    /\ Goto(t, "idle")
    /\ seen' = [seen EXCEPT ![t] = {}]
    /\ UNCHANGED <<framebuffer, mode, bufferMask, slot, yoffset, history>>

\* ... and stores it; the lock is released and the handle returned.
Take(t) ==
    /\ pc[t] = "store"
    /\ bufferMask' = seen[t] \union {slot[t]}
    /\ revived' = revived \union (seen[t] \ bufferMask)
    /\ live' = [live EXCEPT ![slot[t]] = @ + 1]
    /\ lock' = NoOwner
    /\ Goto(t, "idle")
    /\ seen' = [seen EXCEPT ![t] = {}]
    /\ UNCHANGED <<framebuffer, mode, slot, yoffset, refused, forgotten>>

\* gralloc_free_framebuffer has no lock: it loads bufferMask ...
Free(t, i) ==
    /\ pc[t] = "idle"
    /\ live[i] > 0
    /\ live' = [live EXCEPT ![i] = @ - 1]
    /\ slot' = [slot EXCEPT ![t] = IndexOf(Base(i))]
    /\ seen' = [seen EXCEPT ![t] = bufferMask]
    /\ Goto(t, "free")
    /\ UNCHANGED <<module, yoffset, history>>

\* ... and stores it without the bit.  Bits set since the load are wiped, bits
\* cleared since come back.
GiveBack(t) ==
    /\ pc[t] = "free"
    /\ bufferMask' = seen[t] \ {slot[t]}
    /\ forgotten' = forgotten \union (bufferMask \ (seen[t] \union {slot[t]}))
    /\ revived' = revived \union (bufferMask' \ bufferMask)
    /\ Goto(t, "idle")
    /\ seen' = [seen EXCEPT ![t] = {}]
    /\ UNCHANGED <<lock, framebuffer, mode, slot, live, yoffset, refused>>

\* fb_post sets the row to show from the handle before it flips to it; a
\* failed flip leaves it there.
Post(t, i) ==
    /\ pc[t] = "idle"
    /\ live[i] > 0
    /\ yoffset' = Base(i) \div mode.line_length
    /\ UNCHANGED <<module, local, live, history>>

ThreadNext(t) ==
    \/ Open(t) \/ Alloc(t) \/ Lock(t) \/ AlreadyMapped(t) \/ MapFails(t)
    \/ \E m \in Mode : MmapFails(t, m) \/ MapFramebuffer(t, m)
    \/ Refuse(t) \/ Choose(t) \/ Take(t) \/ GiveBack(t)
    \/ \E i \in Slot : Free(t, i) \/ Post(t, i)

Next == \E t \in Thread : ThreadNext(t)

Spec == Init /\ [][Next]_vars

----------------------------------------------------------------------------
Label == {"idle", "open", "openLocked", "alloc", "allocLocked", "check", "store", "free"}

TypeOK ==
    /\ pc \in [Thread -> Label]
    /\ lock \in Thread \union {NoOwner}
    /\ framebuffer \in {"none", "mapped", "baseless"}
    /\ mode \in Mode
    /\ bufferMask \subseteq Slot
    /\ seen \in [Thread -> SUBSET Slot]
    /\ slot \in [Thread -> Slot]
    /\ live \in [Slot -> Nat]
    /\ yoffset \in Nat
    /\ refused \in BOOLEAN
    /\ forgotten \subseteq Slot
    /\ revived \subseteq Slot

\* A buffer of the framebuffer has two handles only after the unlocked store
\* of another buffer's free has wiped its bit: whatever else threads do at the
\* same time, two producers never draw into the same memory.
SlotsDistinct == \A i \in Slot : live[i] <= 1 \/ i \in forgotten

\* While no thread is between a load and a store of bufferMask, a buffer with
\* a handle has its bit unless a free has wiped it, and a bit without a handle,
\* a buffer lost to all clients, was set again by the store of a stale mask.
MaskExact ==
    (\A t \in Thread : pc[t] \notin {"store", "free"}) =>
        \A i \in Slot : /\ live[i] > 0 => i \in bufferMask \union forgotten
                        /\ i \in bufferMask => live[i] > 0 \/ i \in revived

\* The lock is released on every way out but one: a thread that is out of the
\* library has it only if an allocation was refused.
LockReturned ==
    \A t \in Thread :
        lock = t /\ pc[t] \in {"idle", "open", "alloc", "free"} => refused

\* fb_post never shows rows beyond the virtual screen, whatever remains when
\* the screen is divided into buffers.
ShownRowsExist == yoffset + mode.yres <= mode.yres_virtual

=============================================================================
