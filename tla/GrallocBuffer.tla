---------------------------- MODULE GrallocBuffer ----------------------------
(***************************************************************************)
(* One buffer of libgralloc, from its allocation in one process through    *)
(* the handles other processes get of it (gc_gralloc_alloc.cpp,            *)
(* gc_gralloc_map.cpp).  What a process holds for a buffer is counted: the *)
(* locks its surface has on each core, its mappings of the memory and the  *)
(* descriptors of the allocation.  Every call the code checks may fail,    *)
(* and of those it does not check the ones that give something back.       *)
(***************************************************************************)
EXTENDS Integers

CONSTANTS
    Proc,           \* processes
    Owner,          \* the one that allocates
    NoWriter,
    MaxFailures,    \* bound: how often each call that loses something may fail
    MaxReaders      \* bound: software reads of one process at a time

ASSUME BufferAssumption ==
    /\ Owner \in Proc
    /\ NoWriter \notin Proc
    /\ MaxFailures \in Nat
    /\ MaxReaders \in Nat

\* What Usage makes of a buffer: ION memory for software ("pmem") or for a
\* video encoder ("adsp"), video memory of the 3D core or of the VG core, or
\* memory of the framebuffer wrapped into a surface.
Kind == {"pmem", "adsp", "video", "vg", "fb"}
IonKind == {"pmem", "adsp"}
Core == {"3D", "VG"}
CoreOf(k) == IF k = "vg" THEN "VG" ELSE "3D"

\* The calls a failure of which may lose something, and is counted: four of
\* gc_gralloc_alloc, and those that give back.
AllocCall == {"construct", "relock", "shBuffer", "size", "map", "mapUser"}
GiveBack == {"unlock", "unlock3D", "destroy", "munmap"}
Call == (AllocCall \ {"construct", "relock"}) \union GiveBack

VARIABLES
    kind,           \* flags and allocUsage of the buffer
    status,         \* what each process has done with its handle
    surface,        \* hnd->surface: null, its own, foreign, or given up
    base,           \* hnd->base: null, its own or foreign
    needsFlush,     \* PRIV_FLAGS_NEEDS_FLUSH
    locks,          \* locks of the surface of each process, by core
    left,           \* locks left on surfaces nobody will unlock any more
    maps,           \* mappings of the memory a process has
    fds,            \* descriptors the allocations of the owner have open
    readers,        \* software reads under way
    writer,         \* the software write under way
    cache,          \* what the CPU caches hold that the memory does not
    failures        \* how often each such call has failed

handle == <<status, surface, base, needsFlush>>
resources == <<locks, left, maps, fds>>
access == <<readers, writer, cache>>
vars == <<kind, handle, resources, access, failures>>

NoLocks == [c \in Core |-> 0]
Plus(l, c) == [l EXCEPT ![c] = @ + 1]
Minus(l, c) == IF l[c] > 0 THEN [l EXCEPT ![c] = @ - 1] ELSE l

Count(l) == l["3D"] + l["VG"]

\* The calls of F fail in this step.
Failing(F) ==
    /\ \A call \in F : failures[call] < MaxFailures
    /\ failures' = [call \in Call |-> failures[call] + IF call \in F THEN 1 ELSE 0]

\* The calls that give back what a buffer of this kind has.
GiveBackCalls ==
    {"destroy"} \union
    (CASE kind \in IonKind -> {"munmap"}
       [] kind = "vg" -> {"unlock", "unlock3D"}
       [] OTHER -> {"unlock"})

\* gcoSURF_Unlock of a surface with locks l, if it does not fail.
Unlocked(l, c, call, F) == IF call \in F THEN l ELSE Minus(l, c)

\* Locks left when a surface with locks l is given to gcoSURF_Destroy, which
\* gives back one of them: that of gcoSURF_Construct, or the gcoSURF_Lock that
\* stands for it.
LeftBy(l, F) == Count(Unlocked(l, CoreOf(kind), "destroy", F))

Init ==
    /\ kind \in Kind
    /\ status = [p \in Proc |-> "none"]
    /\ surface = [p \in Proc |-> "null"]
    /\ base = [p \in Proc |-> "null"]
    /\ needsFlush = [p \in Proc |-> FALSE]
    /\ locks = [p \in Proc |-> NoLocks]
    /\ left = 0
    /\ maps = [p \in Proc |-> 0]
    /\ fds = 0
    /\ readers = [p \in Proc |-> 0]
    /\ writer = NoWriter
    /\ cache = "clean"
    /\ failures = [c \in Call |-> 0]

----------------------------------------------------------------------------
\* A new surface: gcoSURF_Construct locks video memory on its core.
Constructed == IF kind \in IonKind THEN NoLocks ELSE Plus(NoLocks, CoreOf(kind))

\* The lock of a VG surface is moved to the 3D core.
Relocked == IF kind = "vg" THEN Plus(Minus(Constructed, "VG"), "3D") ELSE Constructed

\* gc_gralloc_map and gc_gralloc_unmap: ION memory is mapped, the surface of
\* video memory is locked.
MappedLocks(l) == IF kind \in IonKind THEN l ELSE Plus(l, CoreOf(kind))
MappedMaps(n) == IF kind \in IonKind THEN n + 1 ELSE n
UnmappedLocks(l, F) ==
    IF kind \in IonKind THEN l ELSE Unlocked(l, CoreOf(kind), "unlock", F)

\* Mutant of UnmappedMaps: the flag of ION memory is not tested.
UnmappedMapsAll(n, F) == n - 1

\* A failed mvmem_munmap is only logged.
UnmappedMaps(n, F) == IF kind \in IonKind /\ "munmap" \notin F THEN n - 1 ELSE n

\* The base stays if the surface could not be unlocked.
UnmappedBase(b, F) == IF kind \notin IonKind /\ "unlock" \in F THEN b ELSE "null"

NoHandle == \A p \in Proc : status[p] = "none"

\* memset writes zeros after the flush in _MapBuffer, unless the usage has
\* GRALLOC_USAGE_HW_RENDER, as that of video memory and perhaps an encoder's.
Erased ==
    (IF kind \in IonKind THEN {"zeros"} ELSE {})
    \union (IF kind # "pmem" THEN {"clean"} ELSE {})

\* gc_gralloc_alloc.
Alloc ==
    /\ kind # "fb"
    /\ NoHandle
    /\ status' = [status EXCEPT ![Owner] = "allocated"]
    /\ surface' = [surface EXCEPT ![Owner] = "own"]
    /\ base' = [base EXCEPT ![Owner] = "own"]
    /\ needsFlush' = [needsFlush EXCEPT ![Owner] = FALSE]
    /\ locks' = [locks EXCEPT ![Owner] = MappedLocks(Relocked)]
    /\ maps' = [maps EXCEPT ![Owner] = MappedMaps(@)]
    /\ fds' = fds + 2
    /\ cache' \in Erased
    /\ UNCHANGED <<kind, left, readers, writer, failures>>

\* The calls an allocation can fail in, in their order.  "construct" stands
\* for all before the lock is moved, "shBuffer" for those up to
\* gcoSURF_AllocShBuffer, "size" for the second gcoSURF_GetAlignedSize.
CallsOf ==
    IF kind = "fb" THEN {}
    ELSE {"construct", "shBuffer", "map"}
         \union (IF kind \in IonKind THEN {"mapUser"} ELSE {"size"})
         \union (IF kind = "vg" THEN {"relock"} ELSE {})

\* Locks of the surface when OnError destroys it.
LocksAtError(call) ==
    IF call = "construct" THEN NoLocks
    ELSE IF call = "relock" THEN Minus(Constructed, CoreOf(kind))
    ELSE Relocked

\* Mutant of KeepsDescriptor: fd is -1 on every error.
KeepsDescriptorAlways(call) == TRUE

\* The errors that set fd to -1 and so do not close it.
KeepsDescriptor(call) == call \in {"size", "map"}

\* OnError of gc_gralloc_alloc: destroys the surface, closes fd and master, and
\* forgets the mapping.
AllocFails(call, F) ==
    /\ NoHandle
    /\ call \in CallsOf
    /\ F \subseteq {"destroy"}
    /\ Failing((F \union {call}) \intersect Call)
    /\ left' = left + LeftBy(LocksAtError(call), F)
    /\ maps' = [maps EXCEPT ![Owner] = IF call = "mapUser" THEN @ + 1 ELSE @]
    /\ fds' = IF KeepsDescriptor(call) THEN fds + 1 ELSE fds
    /\ UNCHANGED <<kind, handle, locks, access>>

\* Mutant of FreedLocks: the lock on the 3D core is forgotten.
FreedLocksVG(l, F) == UnmappedLocks(l, F)

\* gc_gralloc_free up to gcoSURF_Destroy: unmaps, and unlocks a VG surface on
\* the 3D core.
FreedLocks(l, F) ==
    IF kind = "vg" THEN Unlocked(UnmappedLocks(l, F), "3D", "unlock3D", F)
    ELSE UnmappedLocks(l, F)

\* gc_gralloc_free looks at the result of no call.
Free(F) ==
    /\ status[Owner] = "allocated"
    /\ kind # "fb"
    /\ readers[Owner] = 0 /\ writer # Owner
    /\ F \subseteq GiveBackCalls
    /\ Failing(F)
    /\ left' = left + LeftBy(FreedLocks(locks[Owner], F), F)
    /\ locks' = [locks EXCEPT ![Owner] = NoLocks]
    /\ maps' = [maps EXCEPT ![Owner] = UnmappedMaps(@, F)]
    /\ fds' = fds - 2
    /\ status' = [status EXCEPT ![Owner] = "none"]
    /\ surface' = [surface EXCEPT ![Owner] = "null"]
    /\ base' = [base EXCEPT ![Owner] = "null"]
    /\ needsFlush' = [needsFlush EXCEPT ![Owner] = FALSE]
    /\ UNCHANGED <<kind, access>>

----------------------------------------------------------------------------
(* The framebuffer's buffers and the processes that get a handle.          *)

\* gralloc_alloc_framebuffer with gc_gralloc_wrap: the surface has no memory
\* of its own and is locked once.
Wrap ==
    /\ kind = "fb"
    /\ NoHandle
    /\ status' = [status EXCEPT ![Owner] = "allocated"]
    /\ surface' = [surface EXCEPT ![Owner] = "own"]
    /\ base' = [base EXCEPT ![Owner] = "own"]
    /\ locks' = [locks EXCEPT ![Owner] = Plus(NoLocks, "3D")]
    /\ fds' = fds + 1
    /\ UNCHANGED <<kind, needsFlush, left, maps, access, failures>>

\* gc_gralloc_wrap fails; gralloc_alloc_framebuffer only logs it.  With its one
\* lock or without, the surface is destroyed.
WrapFails(l, F) ==
    /\ kind = "fb"
    /\ NoHandle
    /\ l \in {NoLocks, Plus(NoLocks, "3D")}
    /\ F \subseteq {"destroy"}
    /\ Failing(F)
    /\ left' = left + LeftBy(l, F)
    /\ status' = [status EXCEPT ![Owner] = "allocated"]
    /\ surface' = [surface EXCEPT ![Owner] = "null"]
    /\ base' = [base EXCEPT ![Owner] = "own"]
    /\ fds' = fds + 1
    /\ UNCHANGED <<kind, needsFlush, locks, maps, access>>

\* gralloc_free_framebuffer with gc_gralloc_unwrap.
Unwrap(F) ==
    /\ kind = "fb"
    /\ status[Owner] = "allocated"
    /\ F \subseteq GiveBackCalls
    /\ Failing(F)
    /\ left' = left + LeftBy(Unlocked(locks[Owner], "3D", "unlock", F), F)
    /\ locks' = [locks EXCEPT ![Owner] = NoLocks]
    /\ fds' = fds - 1
    /\ status' = [status EXCEPT ![Owner] = "none"]
    /\ surface' = [surface EXCEPT ![Owner] = "null"]
    /\ base' = [base EXCEPT ![Owner] = "null"]
    /\ UNCHANGED <<kind, needsFlush, maps, access>>

\* The framework hands a copy of the owner's handle to another process, which
\* shares its descriptors and copies its fields.
Share(p) ==
    /\ status[p] = "none"
    /\ status[Owner] = "allocated"
    /\ p # Owner
    /\ kind # "fb"
    /\ status' = [status EXCEPT ![p] = "fresh"]
    /\ surface' = [surface EXCEPT ![p] = "foreign"]
    /\ base' = [base EXCEPT ![p] = "foreign"]
    /\ needsFlush' = [needsFlush EXCEPT ![p] = needsFlush[Owner]]
    /\ UNCHANGED <<kind, resources, access, failures>>

\* The framework closes the handle.
Close(p) ==
    /\ status[p] \in {"fresh", "refused", "unregistered"}
    /\ status' = [status EXCEPT ![p] = "none"]
    /\ surface' = [surface EXCEPT ![p] = "null"]
    /\ base' = [base EXCEPT ![p] = "null"]
    /\ needsFlush' = [needsFlush EXCEPT ![p] = FALSE]
    /\ UNCHANGED <<kind, resources, access, failures>>

\* A registered surface has no memory of its own (gcvSURF_NO_VIDMEM); it is
\* locked in gc_gralloc_register_buffer and again in gc_gralloc_map.
RegisteredLocks(l) == IF kind \in IonKind THEN l ELSE MappedLocks(Plus(l, CoreOf(kind)))

\* gc_gralloc_register_buffer of a handle with some surface.
Register(p) ==
    /\ status[p] \in {"fresh", "unregistered"}
    /\ surface[p] # "null"
    /\ status' = [status EXCEPT ![p] = "registered"]
    /\ surface' = [surface EXCEPT ![p] = "own"]
    /\ base' = [base EXCEPT ![p] = "own"]
    /\ locks' = [locks EXCEPT ![p] = RegisteredLocks(NoLocks)]
    /\ maps' = [maps EXCEPT ![p] = MappedMaps(@)]
    /\ UNCHANGED <<kind, needsFlush, left, fds, access, failures>>

\* The calls gc_gralloc_register_buffer jumps to ON_ERROR from, in their order;
\* with no surface in the handle only the first is made.
RegisterCalls(p) ==
    {"module"} \union
    (IF surface[p] = "null" THEN {}
     ELSE IF kind \in IonKind THEN {"construct", "map", "mapUser"}
     ELSE {"construct", "samples", "lock", "flags", "map"})

\* What there is when a call fails: the new surface, its lock, and Vaddr.
HasSurface(call) == call \notin {"module", "construct"}
LocksAtRegister(call) ==
    IF kind \notin IonKind /\ call \in {"flags", "map"} THEN Plus(NoLocks, CoreOf(kind)) ELSE NoLocks
HasVaddr(call) == call = "mapUser"

\* Mutant of LeftByRegister: the surface is not destroyed.
LeftUndestroyed(call, F) == Count(LocksAtRegister(call))

\* ON_ERROR destroys the surface if there is one, and unmaps if there is a
\* Vaddr.
LeftByRegister(call, F) == IF HasSurface(call) THEN LeftBy(LocksAtRegister(call), F) ELSE 0
MapsAfterRegister(n, call, F) == IF HasVaddr(call) THEN UnmappedMaps(MappedMaps(n), F) ELSE n

\* Afterwards the handle has neither surface nor base, whatever it had.
RegisterFails(p, call, F) ==
    /\ status[p] \in {"fresh", "refused", "unregistered"}
    /\ call \in RegisterCalls(p)
    /\ F \subseteq (IF HasSurface(call) THEN {"destroy"} ELSE {})
                        \union (IF HasVaddr(call) THEN {"munmap"} ELSE {})
    /\ Failing(F)
    /\ left' = left + LeftByRegister(call, F)
    /\ maps' = [maps EXCEPT ![p] = MapsAfterRegister(@, call, F)]
    /\ status' = [status EXCEPT ![p] = "refused"]
    /\ surface' = [surface EXCEPT ![p] = "null"]
    /\ base' = [base EXCEPT ![p] = "null"]
    /\ UNCHANGED <<kind, needsFlush, locks, fds, access>>

\* A retry finds no surface and succeeds without doing anything.
RegisterEmpty(p) ==
    /\ status[p] \in {"refused", "unregistered"}
    /\ surface[p] = "null"
    /\ status' = [status EXCEPT ![p] = "retried"]
    /\ UNCHANGED <<kind, surface, base, needsFlush, resources, access, failures>>

\* gc_gralloc_unregister_buffer: unmaps if there is a base, whether that fails
\* or not, destroys the surface if there is one, and leaves the pointer to it
\* in the handle.  If gcoSURF_Destroy fails, or gcoHAL_Commit after it, the
\* caller gets an error, but the framework does not call again: a surface that
\* is still there keeps its locks.
Unregister(p, F) ==
    /\ status[p] \in {"registered", "retried"}
    /\ readers[p] = 0 /\ writer # p
    /\ LET mapped == base[p] # "null"
           unmapped == IF mapped THEN UnmappedLocks(locks[p], F) ELSE locks[p]
       IN /\ F \subseteq (IF mapped THEN GiveBackCalls \ {"destroy", "unlock3D"} ELSE {})
                              \union (IF surface[p] # "null" THEN {"destroy"} ELSE {})
          /\ maps' = [maps EXCEPT ![p] = IF mapped THEN UnmappedMaps(@, F) ELSE @]
          /\ base' = [base EXCEPT ![p] = IF mapped THEN UnmappedBase(@, F) ELSE @]
          /\ left' = left + IF surface[p] = "null" THEN Count(unmapped) ELSE LeftBy(unmapped, F)
    /\ Failing(F)
    /\ locks' = [locks EXCEPT ![p] = NoLocks]
    /\ surface' = [surface EXCEPT ![p] = IF @ = "null" THEN @ ELSE "givenUp"]
    /\ status' = [status EXCEPT ![p] = "unregistered"]
    /\ UNCHANGED <<kind, needsFlush, fds, access>>

----------------------------------------------------------------------------
(* Software access.  Clients keep the contract of gralloc: one writer, or  *)
(* any number of readers.                                                  *)

\* Mutant of MayLock: the surface is not tested.
MayLockAny(p) ==
    /\ status[p] \in {"allocated", "registered", "retried"}
    /\ kind # "fb"

MayLock(p) ==
    /\ status[p] \in {"allocated", "registered", "retried"}
    /\ kind # "fb"
    /\ surface[p] # "null"

\* Mutant of Marked: the flag is set by readers only.
MarkedByReader(p, usage) ==
    IF kind = "pmem" /\ usage = "read" THEN [needsFlush EXCEPT ![p] = TRUE] ELSE needsFlush

\* gc_gralloc_lock marks ION memory that no encoder reads; "private" is
\* GRALLOC_USAGE_PRIVATE_2.  The lock gc_gralloc_lock_ycbcr adds to find the
\* planes is taken back at once.
Marked(p, usage) ==
    IF kind = "pmem" /\ usage # "private" THEN [needsFlush EXCEPT ![p] = TRUE] ELSE needsFlush

LockForRead(p) ==
    /\ MayLock(p)
    /\ writer = NoWriter
    /\ readers[p] < MaxReaders
    /\ needsFlush' = Marked(p, "read")
    /\ readers' = [readers EXCEPT ![p] = @ + 1]
    /\ UNCHANGED <<kind, status, surface, base, resources, writer, cache, failures>>

LockForWrite(p, usage) ==
    /\ MayLock(p)
    /\ writer = NoWriter
    /\ \A q \in Proc : readers[q] = 0
    /\ needsFlush' = Marked(p, usage)
    /\ writer' = p
    /\ cache' = IF usage = "private" THEN "private" ELSE "data"
    /\ UNCHANGED <<kind, status, surface, base, resources, readers, failures>>

\* gc_gralloc_unlock.  lockUsage is zero, so only the flag makes it flush.
FlushOf(p) ==
    IF kind = "pmem" /\ needsFlush[p]
    THEN cache' = "clean" /\ needsFlush' = [needsFlush EXCEPT ![p] = FALSE]
    ELSE UNCHANGED <<cache, needsFlush>>

Unlock(p) ==
    /\ \/ /\ readers[p] > 0
          /\ readers' = [readers EXCEPT ![p] = @ - 1]
          /\ UNCHANGED writer
       \/ /\ writer = p
          /\ writer' = NoWriter
          /\ UNCHANGED readers
    /\ FlushOf(p)
    /\ UNCHANGED <<kind, status, surface, base, resources, failures>>

Next ==
    \/ Alloc \/ Wrap
    \/ \E F \in SUBSET GiveBack :
          \/ Free(F) \/ Unwrap(F)
          \/ \E l \in {NoLocks, Plus(NoLocks, "3D")} : WrapFails(l, F)
          \/ \E call \in AllocCall : AllocFails(call, F)
          \/ \E p \in Proc : \/ Unregister(p, F)
                            \/ \E call \in RegisterCalls(p) : RegisterFails(p, call, F)
    \/ \E p \in Proc :
          \/ Share(p) \/ Close(p) \/ Register(p) \/ RegisterEmpty(p)
          \/ LockForRead(p) \/ Unlock(p)
          \/ \E usage \in {"write", "private"} : LockForWrite(p, usage)

Spec == Init /\ [][Next]_vars

----------------------------------------------------------------------------
Status == {"none", "allocated", "fresh", "refused", "registered", "retried", "unregistered"}
Pointer == {"null", "own", "foreign", "givenUp"}

TypeOK ==
    /\ kind \in Kind
    /\ status \in [Proc -> Status]
    /\ surface \in [Proc -> Pointer]
    /\ base \in [Proc -> Pointer \ {"givenUp"}]
    /\ needsFlush \in [Proc -> BOOLEAN]
    /\ locks \in [Proc -> [Core -> Nat]]
    /\ left \in Nat
    /\ maps \in [Proc -> Nat]
    /\ fds \in Nat
    /\ readers \in [Proc -> 0..MaxReaders]
    /\ writer \in Proc \union {NoWriter}
    /\ cache \in {"clean", "zeros", "data", "private"}
    /\ failures \in [Call -> 0..MaxFailures]

\* The locks of gc_gralloc_alloc, gc_gralloc_map, gc_gralloc_wrap and the
\* registration are those gc_gralloc_unmap, gc_gralloc_free, gc_gralloc_unwrap,
\* gcoSURF_Destroy and the error paths give back, on the core where they were
\* taken: each call of gcoSURF_Unlock or gcoSURF_Destroy that fails costs one
\* lock at most.  The one other loss: an allocation of a VG surface that fails
\* after its lock was moved to the 3D core.
LocksGivenBack ==
    left <= failures["unlock"] + failures["unlock3D"] + failures["destroy"]
              + IF kind = "vg" THEN failures["shBuffer"] + failures["size"] + failures["map"] ELSE 0

\* Mappings and descriptors are those of the handles that are in use and what
\* errors lose: a mapping if mvmem_munmap fails or gcoSURF_MapUserSurface in
\* gc_gralloc_alloc does, a descriptor if the memory cannot be mapped there or
\* its size not be asked.
ResourcesAccounted ==
    /\ \A p \in Proc :
          LET used == IF kind \in IonKind /\ base[p] = "own" THEN 1 ELSE 0
              lost == failures["munmap"] + IF p = Owner THEN failures["mapUser"] ELSE 0
          IN  used <= maps[p] /\ maps[p] <= used + lost
    /\ fds = (IF status[Owner] # "allocated" THEN 0 ELSE IF kind = "fb" THEN 1 ELSE 2)
             + failures["size"] + failures["map"]

\* Whoever gc_gralloc_lock lets in gets an address of its own process, and its
\* memory is mapped or its surface locked there, whatever registrations failed,
\* were repeated or were undone before.
LockableIsMapped ==
    \A p \in Proc : MayLock(p) =>
        /\ surface[p] = "own" /\ base[p] = "own"
        /\ IF kind \in IonKind THEN maps[p] > 0 ELSE locks[p][CoreOf(kind)] > 0

\* Whoever unlocks ION memory that no encoder reads leaves nothing in the CPU
\* caches, neither what was written under the lock nor what was left there
\* before, in whichever process and however often the flag that asks for the
\* flush was set and cleared before; unless the lock was a write lock with
\* GRALLOC_USAGE_PRIVATE_2.  Neither that nor a lock of memory an encoder reads
\* ("adsp") is ever followed by a flush.
WritesReachMemory ==
    [][\A p \in Proc :
          /\ kind = "pmem"
          /\ \/ readers'[p] < readers[p]
             \/ writer = p /\ writer' # p /\ cache = "data"
          => cache' = "clean"]_vars

=============================================================================
