------------------------ MODULE GrallocBuffer_proofs ------------------------
(***************************************************************************)
(* Gralloc buffers for any number of processes, failures and readers.      *)
(***************************************************************************)
EXTENDS GrallocBuffer, TLAPS

----------------------------------------------------------------------------
(***************************************************************************)
(* The locks of a surface.                                                 *)
(***************************************************************************)
L(a, b) == [c \in Core |-> IF c = "3D" THEN a ELSE b]

LEMMA LockSteps ==
    ASSUME NEW a \in Nat, NEW b \in Nat
    PROVE  /\ NoLocks = L(0, 0)
           /\ L(a, b) \in [Core -> Nat]
           /\ Plus(L(a, b), "3D") = L(a + 1, b)
           /\ Plus(L(a, b), "VG") = L(a, b + 1)
           /\ Minus(L(a, b), "3D") = IF a > 0 THEN L(a - 1, b) ELSE L(a, b)
           /\ Minus(L(a, b), "VG") = IF b > 0 THEN L(a, b - 1) ELSE L(a, b)
           /\ L(a, b)["3D"] = a /\ L(a, b)["VG"] = b
           /\ Count(L(a, b)) = a + b
  BY DEF L, NoLocks, Core, Plus, Minus, Count

\* What gc_gralloc_alloc and gc_gralloc_register_buffer leave locked.
LEMMA LocksTaken ==
    ASSUME kind \in Kind, kind # "fb"
    PROVE  /\ MappedLocks(Relocked) =
                 IF kind \in IonKind THEN L(0, 0) ELSE IF kind = "vg" THEN L(1, 1) ELSE L(2, 0)
           /\ RegisteredLocks(NoLocks) =
                 IF kind \in IonKind THEN L(0, 0) ELSE IF kind = "vg" THEN L(0, 2) ELSE L(2, 0)
<1>1. CASE kind \in IonKind
  BY <1>1, LockSteps DEF IonKind, MappedLocks, Relocked, Constructed, RegisteredLocks
<1>2. CASE kind = "vg"
  <2>1. Relocked = L(1, 0)
    BY <1>2, LockSteps DEF IonKind, Relocked, Constructed, CoreOf
  <2> QED
    BY <1>2, <2>1, LockSteps DEF IonKind, MappedLocks, RegisteredLocks, CoreOf
<1>3. CASE kind = "video"
  <2>1. Relocked = L(1, 0)
    BY <1>3, LockSteps DEF IonKind, Relocked, Constructed, CoreOf
  <2> QED
    BY <1>3, <2>1, LockSteps DEF IonKind, MappedLocks, RegisteredLocks, CoreOf
<1> QED
  BY <1>1, <1>2, <1>3 DEF Kind, IonKind

\* What the failed calls of F may cost in locks.
Once(call, F) == IF call \in F THEN 1 ELSE 0
Cost(F) == Once("unlock", F) + Once("unlock3D", F) + Once("destroy", F)
LateCost(F) ==
    IF kind = "vg" THEN Once("shBuffer", F) + Once("size", F) + Once("map", F) ELSE 0

LEMMA CostParts ==
    ASSUME NEW F
    PROVE  /\ Cost(F) \in Nat
           /\ Once("destroy", F) = 0 \/ Once("destroy", F) = 1
           /\ Once("destroy", F) <= Cost(F)
           /\ "destroy" \in F <=> Once("destroy", F) = 1
           /\ "unlock" \in F => Once("destroy", F) + 1 <= Cost(F)
           /\ "unlock3D" \in F => Once("destroy", F) + 1 <= Cost(F)
<1>1. /\ Once("destroy", F) \in {0, 1} /\ Once("unlock", F) \in {0, 1} /\ Once("unlock3D", F) \in {0, 1}
      /\ "unlock" \in F => Once("unlock", F) = 1
      /\ "unlock3D" \in F => Once("unlock3D", F) = 1
      /\ "destroy" \in F <=> Once("destroy", F) = 1
  BY DEF Once
<1> QED
  BY <1>1 DEF Cost

\* What gcoSURF_Destroy leaves of the locks that are taken.
LEMMA LeftByValues ==
    ASSUME NEW F
    PROVE  /\ LeftBy(L(0, 0), F) = 0
           /\ kind = "vg" => /\ LeftBy(L(0, 1), F) = Once("destroy", F)
                             /\ LeftBy(L(1, 0), F) = 1
                             /\ LeftBy(L(1, 1), F) = 1 + Once("destroy", F)
                             /\ LeftBy(L(0, 2), F) = 1 + Once("destroy", F)
           /\ kind # "vg" => /\ LeftBy(L(1, 0), F) = Once("destroy", F)
                             /\ LeftBy(L(2, 0), F) = 1 + Once("destroy", F)
<1>1. /\ Minus(L(0, 0), "3D") = L(0, 0) /\ Minus(L(0, 0), "VG") = L(0, 0)
      /\ Minus(L(0, 1), "VG") = L(0, 0) /\ Minus(L(1, 0), "VG") = L(1, 0)
      /\ Minus(L(1, 1), "VG") = L(1, 0) /\ Minus(L(0, 2), "VG") = L(0, 1)
      /\ Minus(L(1, 0), "3D") = L(0, 0) /\ Minus(L(2, 0), "3D") = L(1, 0)
  BY LockSteps
<1>2. /\ Count(L(0, 0)) = 0 /\ Count(L(1, 0)) = 1 /\ Count(L(0, 1)) = 1
      /\ Count(L(1, 1)) = 2 /\ Count(L(2, 0)) = 2 /\ Count(L(0, 2)) = 2
  BY LockSteps
<1>3. CASE "destroy" \in F
  BY <1>1, <1>2, <1>3 DEF LeftBy, Unlocked, CoreOf, Once
<1>4. CASE "destroy" \notin F
  BY <1>1, <1>2, <1>4 DEF LeftBy, Unlocked, CoreOf, Once
<1> QED
  BY <1>3, <1>4

\* The steps of gcoSURF_Unlock from the locks that are taken.
LEMMA UnlockSteps ==
    ASSUME NEW F, NEW call
    PROVE  /\ Unlocked(L(2, 0), "3D", call, F) = IF call \in F THEN L(2, 0) ELSE L(1, 0)
           /\ Unlocked(L(1, 0), "3D", call, F) = IF call \in F THEN L(1, 0) ELSE L(0, 0)
           /\ Unlocked(L(1, 1), "3D", call, F) = IF call \in F THEN L(1, 1) ELSE L(0, 1)
           /\ Unlocked(L(0, 0), "3D", call, F) = L(0, 0)
           /\ Unlocked(L(1, 1), "VG", call, F) = IF call \in F THEN L(1, 1) ELSE L(1, 0)
           /\ Unlocked(L(0, 2), "VG", call, F) = IF call \in F THEN L(0, 2) ELSE L(0, 1)
<1>1. /\ Minus(L(2, 0), "3D") = L(1, 0) /\ Minus(L(1, 0), "3D") = L(0, 0)
      /\ Minus(L(1, 1), "3D") = L(0, 1) /\ Minus(L(0, 0), "3D") = L(0, 0)
      /\ Minus(L(1, 1), "VG") = L(1, 0) /\ Minus(L(0, 2), "VG") = L(0, 1)
  BY LockSteps
<1> QED
  BY <1>1, Zenon DEF Unlocked

\* gc_gralloc_free leaves as many locks as calls fail in it, at most.
LEMMA LeftByFree ==
    ASSUME kind \in Kind, kind # "fb", NEW F
    PROVE  /\ LeftBy(FreedLocks(MappedLocks(Relocked), F), F) \in Nat
           /\ LeftBy(FreedLocks(MappedLocks(Relocked), F), F) <= Cost(F)
<1> DEFINE l == FreedLocks(MappedLocks(Relocked), F)
<1>1. CASE kind \in IonKind
  <2>1. l = L(0, 0) /\ kind # "vg"
    BY <1>1, LocksTaken DEF IonKind, FreedLocks, UnmappedLocks
  <2> QED
    BY <2>1, LeftByValues, CostParts
<1>2. CASE kind = "vg"
  <2>1. UnmappedLocks(L(1, 1), F) = IF "unlock" \in F THEN L(1, 1) ELSE L(1, 0)
    BY <1>2, UnlockSteps DEF UnmappedLocks, IonKind, CoreOf
  <2>2. l = IF "unlock3D" \in F THEN IF "unlock" \in F THEN L(1, 1) ELSE L(1, 0)
            ELSE IF "unlock" \in F THEN L(0, 1) ELSE L(0, 0)
    BY <1>2, <2>1, UnlockSteps, LocksTaken DEF FreedLocks, IonKind
  <2>3. \/ "unlock3D" \in F /\ l \in {L(1, 1), L(1, 0)}
        \/ l \in {L(0, 1), L(0, 0)}
    BY <2>2
  <2> HIDE DEF l
  <2>5. \/ "unlock3D" \in F /\ LeftBy(l, F) \in Nat /\ LeftBy(l, F) <= 1 + Once("destroy", F)
        \/ LeftBy(l, F) \in Nat /\ LeftBy(l, F) <= Once("destroy", F)
    BY <1>2, <2>3, LeftByValues, CostParts
  <2>6. LeftBy(l, F) \in Nat /\ LeftBy(l, F) <= Cost(F)
    BY <2>5, CostParts
  <2> QED
    BY <2>6 DEF l
<1>3. CASE kind = "video"
  <2>1. l = IF "unlock" \in F THEN L(2, 0) ELSE L(1, 0)
    BY <1>3, UnlockSteps, LocksTaken DEF FreedLocks, UnmappedLocks, IonKind, CoreOf
  <2>2. LeftBy(L(2, 0), F) = 1 + Once("destroy", F)
    BY <1>3, LeftByValues
  <2>3. LeftBy(L(1, 0), F) = Once("destroy", F)
    BY <1>3, LeftByValues
  <2>4. CASE "unlock" \in F
    BY <2>1, <2>2, <2>4, CostParts
  <2>5. CASE "unlock" \notin F
    BY <2>1, <2>3, <2>5, CostParts
  <2> QED
    BY <2>4, <2>5
<1> QED
  BY <1>1, <1>2, <1>3 DEF Kind, IonKind

\* So does gc_gralloc_unregister_buffer.
LEMMA LeftByUnregister ==
    ASSUME kind \in Kind, kind # "fb", NEW F
    PROVE  /\ LeftBy(UnmappedLocks(RegisteredLocks(NoLocks), F), F) \in Nat
           /\ LeftBy(UnmappedLocks(RegisteredLocks(NoLocks), F), F) <= Cost(F)
<1> DEFINE l == UnmappedLocks(RegisteredLocks(NoLocks), F)
<1>1. CASE kind \in IonKind
  <2>1. l = L(0, 0) /\ kind # "vg"
    BY <1>1, LocksTaken DEF IonKind, UnmappedLocks
  <2> QED
    BY <2>1, LeftByValues, CostParts
<1>2. CASE kind = "vg"
  <2>1. l = IF "unlock" \in F THEN L(0, 2) ELSE L(0, 1)
    BY <1>2, UnlockSteps, LocksTaken DEF UnmappedLocks, IonKind, CoreOf
  <2>2. LeftBy(L(0, 2), F) = 1 + Once("destroy", F)
    BY <1>2, LeftByValues
  <2>3. LeftBy(L(0, 1), F) = Once("destroy", F)
    BY <1>2, LeftByValues
  <2>4. CASE "unlock" \in F
    BY <2>1, <2>2, <2>4, CostParts
  <2>5. CASE "unlock" \notin F
    BY <2>1, <2>3, <2>5, CostParts
  <2> QED
    BY <2>4, <2>5
<1>3. CASE kind = "video"
  <2>1. l = IF "unlock" \in F THEN L(2, 0) ELSE L(1, 0)
    BY <1>3, UnlockSteps, LocksTaken DEF UnmappedLocks, IonKind, CoreOf
  <2>2. LeftBy(L(2, 0), F) = 1 + Once("destroy", F)
    BY <1>3, LeftByValues
  <2>3. LeftBy(L(1, 0), F) = Once("destroy", F)
    BY <1>3, LeftByValues
  <2>4. CASE "unlock" \in F
    BY <2>1, <2>2, <2>4, CostParts
  <2>5. CASE "unlock" \notin F
    BY <2>1, <2>3, <2>5, CostParts
  <2> QED
    BY <2>4, <2>5
<1> QED
  BY <1>1, <1>2, <1>3 DEF Kind, IonKind

\* So does ON_ERROR of gc_gralloc_register_buffer, from wherever it is reached.
LEMMA LeftByRegisterError ==
    ASSUME kind \in Kind, kind # "fb", NEW F, NEW call
    PROVE  LeftByRegister(call, F) \in Nat /\ LeftByRegister(call, F) <= Cost(F)
<1> DEFINE l == LocksAtRegister(call)
<1>1. l = L(0, 0) \/ (kind = "vg" /\ l = L(0, 1)) \/ (kind # "vg" /\ l = L(1, 0))
  BY LockSteps DEF LocksAtRegister, CoreOf
<1>2. LeftBy(l, F) \in Nat /\ LeftBy(l, F) <= Once("destroy", F)
  BY <1>1, LeftByValues, CostParts
<1>3. Once("destroy", F) <= Cost(F)
  BY CostParts
<1>4. Cost(F) \in Nat /\ Once("destroy", F) \in Nat
  BY CostParts
<1> HIDE DEF l
<1>5. LeftBy(l, F) <= Cost(F)
  BY <1>2, <1>3, <1>4
<1> QED
  BY <1>2, <1>4, <1>5 DEF LeftByRegister, l

\* OnError of gc_gralloc_alloc leaves a lock of a VG surface besides.
LEMMA LeftByAllocError ==
    ASSUME kind \in Kind, NEW call \in CallsOf, NEW F
    PROVE  /\ LeftBy(LocksAtError(call), F) \in Nat
           /\ LeftBy(LocksAtError(call), F) <= Once("destroy", F)
                + IF kind = "vg" /\ call \in {"shBuffer", "size", "map"} THEN 1 ELSE 0
<1> DEFINE l == LocksAtError(call)
<1>1. kind # "fb" /\ kind \in Kind
  BY DEF CallsOf, IonKind
<1>2. CASE kind # "vg"
  <2>1. l = L(0, 0) \/ l = L(1, 0)
    <3>1. Constructed = L(0, 0) \/ Constructed = L(1, 0)
      BY <1>2, LockSteps DEF Constructed, CoreOf
    <3>2. Relocked = Constructed
      BY <1>2 DEF Relocked
    <3>3. call # "relock"
      BY <1>1, <1>2 DEF CallsOf
    <3> QED
      BY <3>1, <3>2, <3>3, LockSteps DEF LocksAtError
  <2> QED
    BY <1>2, <2>1, LeftByValues, CostParts
<1>3. CASE kind = "vg"
  <2>1. Constructed = L(0, 1) /\ Relocked = L(1, 0)
    BY <1>3, LockSteps DEF Constructed, Relocked, IonKind, CoreOf
  <2>2. CASE call \in {"construct", "relock"}
    <3>1. l = L(0, 0)
      BY <1>3, <2>1, <2>2, LockSteps DEF LocksAtError, CoreOf
    <3> QED
      BY <1>3, <2>2, <3>1, LeftByValues, CostParts
  <2>3. CASE call \notin {"construct", "relock"}
    <3>1. l = L(1, 0) /\ call \in {"shBuffer", "size", "map"}
      BY <1>3, <2>1, <2>3 DEF LocksAtError, CallsOf, IonKind
    <3> QED
      BY <1>3, <3>1, LeftByValues, CostParts
  <2> QED
    BY <2>2, <2>3
<1> QED
  BY <1>2, <1>3

----------------------------------------------------------------------------
(***************************************************************************)
(* The inductive invariant.                                                *)
(***************************************************************************)

\* What a handle points to follows from what its process has done with it.
HandleOf(p) ==
    /\ p = Owner => status[p] \in {"none", "allocated"}
    /\ p # Owner => status[p] # "allocated"
    /\ p # Owner /\ kind = "fb" => status[p] = "none"
    /\ status[p] = "none" => surface[p] = "null" /\ base[p] = "null"
    /\ status[p] = "allocated" =>
          /\ base[p] = "own"
          /\ surface[p] = "own" \/ (kind = "fb" /\ surface[p] = "null")
    /\ status[p] = "registered" => surface[p] = "own" /\ base[p] = "own"
    /\ status[p] \in {"refused", "retried"} => base[p] = "null" /\ surface[p] = "null"
    /\ status[p] \in {"fresh", "unregistered"} => surface[p] # "own"
    /\ status[p] = "fresh" => base[p] # "own"
    /\ status[p] = "unregistered" /\ surface[p] = "null" => base[p] = "null"
    /\ status[p] = "unregistered" /\ kind \in IonKind => base[p] = "null"

\* The locks of a surface are those its process took for it.
LocksOf(p) ==
    locks[p] = IF surface[p] # "own" THEN NoLocks
               ELSE IF kind = "fb" THEN Plus(NoLocks, "3D")
               ELSE IF p = Owner THEN MappedLocks(Relocked)
               ELSE RegisteredLocks(NoLocks)

\* p has the buffer locked, and not for a write with GRALLOC_USAGE_PRIVATE_2.
WillFlush(p) == readers[p] > 0 \/ (writer = p /\ cache = "data")

\* Whoever has the buffer locked has a handle that can be locked, and while the
\* caches hold something, one that will be flushed.
AccessMarked ==
    \A p \in Proc :
        /\ readers[p] > 0 \/ writer = p => status[p] \in {"allocated", "registered", "retried"} /\ kind # "fb"
        /\ kind = "pmem" /\ cache # "clean" /\ WillFlush(p) => needsFlush[p] = TRUE

IInv ==
    /\ TypeOK
    /\ \A p \in Proc : HandleOf(p) /\ LocksOf(p)
    /\ LocksGivenBack
    /\ ResourcesAccounted
    /\ AccessMarked

LEMMA InitIInv == Init => IInv
<1> SUFFICES ASSUME Init PROVE IInv
  OBVIOUS
<1>1. TypeOK
  BY BufferAssumption, LockSteps
  DEF Init, TypeOK, Status, Pointer, Call, AllocCall, GiveBack
<1>2. \A p \in Proc : HandleOf(p) /\ LocksOf(p)
  BY DEF Init, HandleOf, LocksOf
<1>3. LocksGivenBack
  BY DEF Init, LocksGivenBack, Call, AllocCall, GiveBack
<1>4. AccessMarked
  <2>1. /\ \A p \in Proc : readers[p] = 0 /\ writer # p
        /\ cache = "clean"
    BY BufferAssumption DEF Init
  <2>2. ~(0 > 0)
    OBVIOUS
  <2> QED
    BY <2>1, <2>2, Zenon DEF AccessMarked, WillFlush
<1>5. ResourcesAccounted
  BY BufferAssumption DEF Init, ResourcesAccounted, Call, AllocCall, GiveBack
<1> QED
  BY <1>1, <1>2, <1>3, <1>4, <1>5 DEF IInv

\* The locks of surfaces are counted by core.
LEMMA LockTypes ==
    ASSUME kind \in Kind
    PROVE  /\ NoLocks \in [Core -> Nat]
           /\ Plus(NoLocks, "3D") \in [Core -> Nat]
           /\ kind # "fb" => /\ MappedLocks(Relocked) \in [Core -> Nat]
                             /\ RegisteredLocks(NoLocks) \in [Core -> Nat]
<1>1. /\ L(0, 0) \in [Core -> Nat] /\ L(2, 0) \in [Core -> Nat]
      /\ L(1, 1) \in [Core -> Nat] /\ L(0, 2) \in [Core -> Nat]
      /\ L(1, 0) \in [Core -> Nat]
  BY LockSteps
<1>2. NoLocks = L(0, 0) /\ Plus(NoLocks, "3D") = L(1, 0)
  BY LockSteps
<1>3. kind # "fb" => /\ MappedLocks(Relocked) \in [Core -> Nat]
                    /\ RegisteredLocks(NoLocks) \in [Core -> Nat]
  BY <1>1, LocksTaken
<1> QED
  BY <1>1, <1>2, <1>3

\* The kind of a buffer never changes, nor what its surfaces have to hold.
LEMMA KindKept ==
    ASSUME kind' = kind
    PROVE  MappedLocks(Relocked)' = MappedLocks(Relocked)
           /\ RegisteredLocks(NoLocks)' = RegisteredLocks(NoLocks)
           /\ NoLocks' = NoLocks /\ Plus(NoLocks, "3D")' = Plus(NoLocks, "3D")
  BY DEF NoLocks, MappedLocks, Relocked, Constructed, Plus, Minus, RegisteredLocks

\* Failed calls are counted.
LEMMA FailuresCounted ==
    ASSUME TypeOK, NEW F \in SUBSET Call, Failing(F)
    PROVE  /\ failures' \in [Call -> 0..MaxFailures]
           /\ \A call \in Call : /\ failures[call] \in Nat
                                 /\ failures'[call] = failures[call] + Once(call, F)
                                 /\ Once(call, F) \in {0, 1}
<1>1. failures \in [Call -> 0..MaxFailures] /\ MaxFailures \in Nat
  BY BufferAssumption DEF TypeOK
<1>2. \A call \in Call : /\ failures'[call] = failures[call] + Once(call, F)
                         /\ Once(call, F) \in {0, 1}
                         /\ Once(call, F) = 1 => failures[call] < MaxFailures
  BY DEF Failing, Once
<1>3. \A call \in Call : failures[call] \in Nat /\ failures'[call] \in 0..MaxFailures
  BY <1>1, <1>2
<1>4. failures' = [call \in Call |-> failures'[call]]
  BY DEF Failing
<1> QED
  BY <1>2, <1>3, <1>4

\* If a step leaves no more locks than its failures cost, the account holds.
LEMMA LeftKept ==
    ASSUME TypeOK, LocksGivenBack, kind' = kind, NEW F \in SUBSET Call, Failing(F),
           NEW n \in Nat, left' = left + n, n <= Cost(F) + LateCost(F)
    PROVE  LocksGivenBack' /\ left' \in Nat
<1>1. \A call \in {"unlock", "unlock3D", "destroy", "shBuffer", "size", "map"} :
          /\ failures[call] \in Nat
          /\ failures'[call] = failures[call] + Once(call, F)
          /\ Once(call, F) \in Nat
  BY FailuresCounted DEF Call, AllocCall, GiveBack
<1>2. left \in Nat
  BY DEF TypeOK
<1>3. CASE kind = "vg"
  BY <1>1, <1>2, <1>3 DEF LocksGivenBack, Cost, LateCost
<1>4. CASE kind # "vg"
  BY <1>1, <1>2, <1>4 DEF LocksGivenBack, Cost, LateCost
<1> QED
  BY <1>3, <1>4

\* No failure, no lock left, no change.
LEMMA LeftUnchanged ==
    ASSUME LocksGivenBack, UNCHANGED <<kind, left, failures>>
    PROVE  LocksGivenBack'
  BY DEF LocksGivenBack

----------------------------------------------------------------------------
(***************************************************************************)
(* Each action keeps the invariant.                                        *)
(***************************************************************************)
LEMMA AllocKeepsIInv ==
    ASSUME IInv, Alloc
    PROVE  IInv'
<1> USE BufferAssumption DEF IInv, Alloc, Erased, NoHandle
<1>1. TypeOK'
  BY LockTypes DEF TypeOK, Status, Pointer, MappedMaps
<1>2. \A p \in Proc : HandleOf(p)' /\ LocksOf(p)'
  BY DEF TypeOK, HandleOf, LocksOf, NoLocks, MappedLocks, Relocked, Constructed, Plus, Minus,
     RegisteredLocks
<1>3. LocksGivenBack'
  BY LeftUnchanged
<1>4. ResourcesAccounted'
  BY DEF ResourcesAccounted, HandleOf, TypeOK, MappedMaps, Call, AllocCall, GiveBack
<1>5. AccessMarked'
  <2>1. \A p \in Proc : ~(readers[p] > 0) /\ writer # p
    BY DEF AccessMarked
  <2> QED
    BY <2>1 DEF AccessMarked, WillFlush
<1> QED
  BY <1>1, <1>2, <1>3, <1>4, <1>5

LEMMA AllocFailsKeepsIInv ==
    ASSUME IInv, NEW call \in AllocCall, NEW F, AllocFails(call, F)
    PROVE  IInv'
<1> USE BufferAssumption DEF IInv, AllocFails, NoHandle, handle, access
<1> DEFINE G == (F \union {call}) \intersect Call
           n == LeftBy(LocksAtError(call), F)
<1>1. G \in SUBSET Call /\ Failing(G) /\ kind' = kind /\ left' = left + n
  OBVIOUS
<1>2. kind \in Kind /\ call \in CallsOf
  BY DEF TypeOK
<1>3. n \in Nat /\ n <= Cost(G) + LateCost(G)
  <2>1. /\ n \in Nat
        /\ n <= Once("destroy", F) + IF kind = "vg" /\ call \in {"shBuffer", "size", "map"} THEN 1 ELSE 0
    BY <1>2, LeftByAllocError
  <2>2. Once("destroy", F) = Once("destroy", G)
    BY DEF Once, Call, GiveBack, AllocCall
  <2>3. kind = "vg" /\ call \in {"shBuffer", "size", "map"} => LateCost(G) >= 1
    BY DEF LateCost, Once, Call, AllocCall
  <2>4. LateCost(G) \in Nat
    BY DEF LateCost, Once
  <2> HIDE DEF G, n
  <2> QED
    BY <2>1, <2>2, <2>3, <2>4, CostParts
<1>4. call \in Call <=> call \notin {"construct", "relock"}
  BY DEF Call, AllocCall, GiveBack
<1> HIDE DEF G, n
<1>5. /\ LocksGivenBack' /\ left' \in Nat
      /\ failures' \in [Call -> 0..MaxFailures]
      /\ \A c \in Call : failures'[c] = failures[c] + Once(c, G) /\ failures[c] \in Nat
  BY <1>1, <1>3, LeftKept, FailuresCounted
<1>6. TypeOK'
  BY <1>5 DEF TypeOK, Status, Pointer
<1>7. \A p \in Proc : HandleOf(p)' /\ LocksOf(p)'
  BY KindKept DEF TypeOK, HandleOf, LocksOf
<1>8. ResourcesAccounted'
  <2>1. \A p \in Proc : base'[p] = "null" /\ base[p] = "null"
    BY DEF HandleOf
  <2>2. /\ Once("munmap", G) = 0
        /\ Once("mapUser", G) = IF call = "mapUser" THEN 1 ELSE 0
        /\ Once("size", G) = IF call = "size" THEN 1 ELSE 0
        /\ Once("map", G) = IF call = "map" THEN 1 ELSE 0
    BY DEF Once, G, Call, AllocCall, GiveBack
  <2>3. \A c \in {"munmap", "mapUser", "size", "map"} :
            failures'[c] = failures[c] + Once(c, G) /\ failures[c] \in Nat
    BY <1>5 DEF Call, AllocCall, GiveBack
  <2> QED
    BY <2>1, <2>2, <2>3 DEF ResourcesAccounted, TypeOK, KeepsDescriptor
<1>9. AccessMarked'
  BY DEF AccessMarked, WillFlush
<1> QED
  BY <1>5, <1>6, <1>7, <1>8, <1>9

LEMMA FreeKeepsIInv ==
    ASSUME IInv, NEW F, Free(F)
    PROVE  IInv'
<1> USE BufferAssumption DEF IInv, Free
<1>1. /\ surface[Owner] = "own" /\ base[Owner] = "own"
      /\ locks[Owner] = MappedLocks(Relocked)
  BY DEF HandleOf, LocksOf
<1>2. F \in SUBSET Call /\ Failing(F) /\ kind \in Kind /\ kind # "fb" /\ F \subseteq GiveBack
  BY DEF GiveBackCalls, GiveBack, Call, TypeOK
<1> DEFINE n == LeftBy(FreedLocks(locks[Owner], F), F)
<1>3. n \in Nat /\ n <= Cost(F) + LateCost(F)
  <2>1. n \in Nat /\ n <= Cost(F)
    BY <1>1, <1>2, LeftByFree
  <2>2. LateCost(F) \in Nat
    BY DEF LateCost, Once
  <2> HIDE DEF n
  <2> QED
    BY <2>1, <2>2, CostParts
<1>4. left' = left + n /\ kind' = kind
  OBVIOUS
<1> HIDE DEF n
<1>5. /\ LocksGivenBack' /\ left' \in Nat
      /\ failures' \in [Call -> 0..MaxFailures]
      /\ \A c \in Call : failures'[c] = failures[c] + Once(c, F) /\ failures[c] \in Nat
  BY <1>2, <1>3, <1>4, LeftKept, FailuresCounted
<1>6. \A c \in {"munmap", "mapUser", "size", "map"} :
            /\ failures'[c] = failures[c] + Once(c, F) /\ failures[c] \in Nat
            /\ c # "munmap" => Once(c, F) = 0
  BY <1>2, <1>5 DEF Call, AllocCall, GiveBack, Once
<1>7. maps'[Owner] \in Nat /\ fds' \in Nat
  BY <1>1, <1>6 DEF ResourcesAccounted, TypeOK, UnmappedMaps
<1>8. TypeOK'
  BY <1>5, <1>7, LockTypes DEF TypeOK, Status, Pointer, access
<1>9. \A p \in Proc : HandleOf(p)' /\ LocksOf(p)'
  BY <1>1, KindKept DEF TypeOK, HandleOf, LocksOf
<1>10. ResourcesAccounted'
  <2>1. Once("munmap", F) = IF "munmap" \in F THEN 1 ELSE 0
    BY DEF Once
  <2>2. base' = [base EXCEPT ![Owner] = "null"] /\ base'[Owner] = "null"
    BY DEF TypeOK
  <2>3. PICK m \in Nat : m = maps[Owner]
    BY DEF TypeOK
  <2>4. PICK gone \in Nat : gone = failures["munmap"] + failures["mapUser"]
    BY <1>6
  <2>5. /\ (IF kind \in IonKind THEN 1 ELSE 0) <= m
        /\ m <= (IF kind \in IonKind THEN 1 ELSE 0) + gone
    BY <1>1, <2>3, <2>4 DEF ResourcesAccounted
  <2>6. maps'[Owner] = (IF kind \in IonKind /\ "munmap" \notin F THEN m - 1 ELSE m)
    BY <2>3 DEF UnmappedMaps, TypeOK
  <2>7. failures'["munmap"] + failures'["mapUser"] = gone + Once("munmap", F)
    BY <1>6, <2>1, <2>4
  <2>8. 0 <= maps'[Owner] /\ maps'[Owner] <= 0 + (failures'["munmap"] + failures'["mapUser"])
    BY <2>1, <2>5, <2>6, <2>7
  <2>9. \A p \in Proc \ {Owner} : maps'[p] = maps[p] /\ base'[p] = base[p] /\ maps[p] \in Nat
    BY <2>2 DEF TypeOK
  <2>10. \A p \in Proc \ {Owner} :
            /\ (IF kind \in IonKind /\ base'[p] = "own" THEN 1 ELSE 0) <= maps'[p]
            /\ maps'[p] <= (IF kind \in IonKind /\ base'[p] = "own" THEN 1 ELSE 0)
                             + (failures'["munmap"] + 0)
    BY <1>6, <2>1, <2>9 DEF ResourcesAccounted
  <2>11. fds' = 0 + failures'["size"] + failures'["map"] /\ status'[Owner] = "none"
    <3>1. failures'["size"] = failures["size"] /\ failures'["map"] = failures["map"]
      BY <1>6
    <3>2. fds = 2 + failures["size"] + failures["map"]
      BY DEF ResourcesAccounted
    <3> QED
      BY <1>6, <3>1, <3>2 DEF TypeOK
  <2>12. ASSUME NEW p \in Proc
         PROVE  LET used == IF kind' \in IonKind /\ base'[p] = "own" THEN 1 ELSE 0
                    lost == failures'["munmap"] + IF p = Owner THEN failures'["mapUser"] ELSE 0
                IN  used <= maps'[p] /\ maps'[p] <= used + lost
    <3>1. CASE p = Owner
      BY <2>2, <2>8, <3>1
    <3>2. CASE p # Owner
      BY <2>10, <3>2
    <3> QED
      BY <3>1, <3>2
  <2>13. fds' = (IF status'[Owner] # "allocated" THEN 0 ELSE IF kind' = "fb" THEN 1 ELSE 2)
                + failures'["size"] + failures'["map"]
    BY <2>11
  <2> QED
    BY <2>12, <2>13 DEF ResourcesAccounted
<1>11. AccessMarked'
  BY DEF AccessMarked, WillFlush, TypeOK, access
<1> QED
  BY <1>5, <1>8, <1>9, <1>10, <1>11

\* Mappings and descriptors, counted apart.
MapsAccounted ==
    \A p \in Proc :
        LET used == IF kind \in IonKind /\ base[p] = "own" THEN 1 ELSE 0
            lost == failures["munmap"] + IF p = Owner THEN failures["mapUser"] ELSE 0
        IN  used <= maps[p] /\ maps[p] <= used + lost
FdsAccounted ==
    fds = (IF status[Owner] # "allocated" THEN 0 ELSE IF kind = "fb" THEN 1 ELSE 2)
            + failures["size"] + failures["map"]

LEMMA AccountedApart ==
    /\ ResourcesAccounted <=> MapsAccounted /\ FdsAccounted
    /\ ResourcesAccounted' <=> MapsAccounted' /\ FdsAccounted'
  BY DEF ResourcesAccounted, MapsAccounted, FdsAccounted

\* The calls of F that fail lose neither a mapping nor a descriptor.
Harmless(F) == \A call \in {"munmap", "mapUser", "size", "map"} : call \notin F

LEMMA HarmlessFailures ==
    ASSUME TypeOK, NEW F \in SUBSET Call, Failing(F), Harmless(F)
    PROVE  \A call \in {"munmap", "mapUser", "size", "map"} :
              failures'[call] = failures[call] /\ failures[call] \in Nat
<1>1. \A call \in Call : failures'[call] = failures[call] + Once(call, F) /\ failures[call] \in Nat
  BY FailuresCounted
<1>2. \A call \in {"munmap", "mapUser", "size", "map"} : call \in Call /\ Once(call, F) = 0
  BY DEF Harmless, Once, Call, AllocCall, GiveBack
<1> QED
  BY <1>1, <1>2

\* A step that maps and unmaps nothing keeps the count of mappings.
LEMMA MapsKept ==
    ASSUME MapsAccounted, UNCHANGED <<kind, maps>>,
           \A call \in {"munmap", "mapUser", "size", "map"} : failures'[call] = failures[call],
           \A p \in Proc : kind \in IonKind => (base'[p] = "own" <=> base[p] = "own")
    PROVE  MapsAccounted'
  BY DEF MapsAccounted

\* A buffer nobody has a handle of is not locked.
LEMMA NobodyHasAccess ==
    ASSUME AccessMarked, NoHandle
    PROVE  \A p \in Proc : ~(readers[p] > 0) /\ writer # p
  BY DEF AccessMarked, NoHandle

\* A wrapped surface is locked once, or not at all.
LEMMA WrapLocks == NoLocks = L(0, 0) /\ Plus(NoLocks, "3D") = L(1, 0)
<1>1. NoLocks = L(0, 0) /\ Plus(L(0, 0), "3D") = L(1, 0)
  BY LockSteps
<1> QED
  BY <1>1

\* gc_gralloc_wrap.
LEMMA WrapKeepsIInv ==
    ASSUME IInv, Wrap
    PROVE  IInv'
<1> USE BufferAssumption DEF IInv, Wrap, access
<1>1. TypeOK'
  BY LockTypes DEF TypeOK, Status, Pointer
<1>2. \A p \in Proc : HandleOf(p)' /\ LocksOf(p)'
  BY KindKept DEF TypeOK, HandleOf, LocksOf, NoHandle
<1>3. LocksGivenBack'
  BY LeftUnchanged
<1>4. ResourcesAccounted'
  <2>1. MapsAccounted'
    BY MapsKept, AccountedApart DEF IonKind
  <2>2. FdsAccounted'
    <3>0. failures["size"] \in Nat /\ failures["map"] \in Nat
      <4>1. failures \in [Call -> 0..MaxFailures] /\ "size" \in Call /\ "map" \in Call
        BY DEF TypeOK, Call, AllocCall
      <4>2. failures["size"] \in 0..MaxFailures /\ failures["map"] \in 0..MaxFailures
        BY <4>1
      <4> QED
        BY <4>2
    <3>1. PICK m \in Nat, n \in Nat : m = failures["size"] /\ n = failures["map"]
      BY <3>0
    <3>2. fds = 0 + m + n
      BY <3>1 DEF ResourcesAccounted, NoHandle
    <3>3. fds' = 1 + m + n
      BY <3>2
    <3>4. status'[Owner] = "allocated"
      BY DEF TypeOK
    <3> QED
      BY <3>1, <3>3, <3>4 DEF FdsAccounted
  <2> QED
    BY <2>1, <2>2, AccountedApart
<1>5. AccessMarked'
  BY NobodyHasAccess DEF AccessMarked, WillFlush
<1> QED
  BY <1>1, <1>2, <1>3, <1>4, <1>5

LEMMA WrapFailsKeepsIInv ==
    ASSUME IInv, NEW l, NEW F, WrapFails(l, F)
    PROVE  IInv'
<1> USE BufferAssumption DEF IInv, WrapFails, access
<1> DEFINE n == LeftBy(l, F)
<1>1. F \in SUBSET Call /\ Failing(F) /\ Harmless(F)
  BY DEF Call, GiveBack, Harmless
<1>2. n \in Nat /\ n <= Cost(F) + LateCost(F)
  <2>1. n = 0 \/ n = Once("destroy", F)
    BY WrapLocks, LeftByValues
  <2>2. LateCost(F) \in Nat
    BY DEF LateCost, Once
  <2> HIDE DEF n
  <2> QED
    BY <2>1, <2>2, CostParts
<1>3. left' = left + n /\ kind' = kind
  OBVIOUS
<1> HIDE DEF n
<1>4. /\ LocksGivenBack' /\ left' \in Nat
      /\ failures' \in [Call -> 0..MaxFailures]
  BY <1>1, <1>2, <1>3, LeftKept, FailuresCounted
<1>5. TypeOK'
  BY <1>4 DEF TypeOK, Status, Pointer
<1>6. \A p \in Proc : HandleOf(p)' /\ LocksOf(p)'
  BY KindKept DEF TypeOK, HandleOf, LocksOf, NoHandle
<1>7. ResourcesAccounted'
  <2>1. \A c \in {"munmap", "mapUser", "size", "map"} : failures'[c] = failures[c] /\ failures[c] \in Nat
    BY <1>1, HarmlessFailures
  <2>2. MapsAccounted'
    BY <2>1, MapsKept, AccountedApart DEF IonKind
  <2>3. FdsAccounted'
    <3>1. fds = 0 + failures["size"] + failures["map"]
      BY DEF ResourcesAccounted, NoHandle
    <3>2. fds' = 1 + failures'["size"] + failures'["map"] /\ status'[Owner] = "allocated"
      BY <2>1, <3>1 DEF TypeOK
    <3> QED
      BY <3>2 DEF FdsAccounted
  <2> QED
    BY <2>2, <2>3, AccountedApart
<1>8. AccessMarked'
  BY NobodyHasAccess DEF AccessMarked, WillFlush
<1> QED
  BY <1>4, <1>5, <1>6, <1>7, <1>8

\* gc_gralloc_unwrap.
LEMMA UnwrapKeepsIInv ==
    ASSUME IInv, NEW F, Unwrap(F)
    PROVE  IInv'
<1> USE BufferAssumption DEF IInv, Unwrap, access
<1> DEFINE n == LeftBy(Unlocked(locks[Owner], "3D", "unlock", F), F)
<1>1. F \in SUBSET Call /\ Failing(F) /\ Harmless(F)
  BY DEF GiveBackCalls, IonKind, Call, GiveBack, Harmless
<1>2. n \in Nat /\ n <= Cost(F) + LateCost(F)
  <2>1. locks[Owner] = L(0, 0) \/ locks[Owner] = L(1, 0)
    BY WrapLocks DEF LocksOf
  <2>2. \/ Unlocked(locks[Owner], "3D", "unlock", F) = L(0, 0)
        \/ Unlocked(locks[Owner], "3D", "unlock", F) = L(1, 0)
    BY <2>1, UnlockSteps
  <2>3. n = 0 \/ n = Once("destroy", F)
    BY <2>2, LeftByValues
  <2>4. LateCost(F) \in Nat
    BY DEF LateCost, Once
  <2> HIDE DEF n
  <2> QED
    BY <2>3, <2>4, CostParts
<1>3. left' = left + n /\ kind' = kind
  OBVIOUS
<1> HIDE DEF n
<1>4. /\ LocksGivenBack' /\ left' \in Nat
      /\ failures' \in [Call -> 0..MaxFailures]
  BY <1>1, <1>2, <1>3, LeftKept, FailuresCounted
<1>5. \A c \in {"munmap", "mapUser", "size", "map"} : failures'[c] = failures[c] /\ failures[c] \in Nat
  BY <1>1, HarmlessFailures
<1>6. fds' = 0 + failures'["size"] + failures'["map"] /\ status'[Owner] = "none" /\ fds' \in Nat
  <2>1. fds = 1 + failures["size"] + failures["map"]
    BY DEF ResourcesAccounted
  <2>2. PICK m \in Nat, n1 \in Nat : m = failures["size"] /\ n1 = failures["map"]
    BY <1>5
  <2>3. fds = 1 + m + n1 /\ fds' = fds - 1
    BY <2>1, <2>2
  <2>4. fds' = 0 + m + n1
    BY <2>3
  <2>5. failures'["size"] = m /\ failures'["map"] = n1
    BY <1>5, <2>2
  <2>6. status'[Owner] = "none"
    BY DEF TypeOK
  <2> QED
    BY <2>4, <2>5, <2>6
<1>7. TypeOK'
  BY <1>4, <1>6, LockTypes DEF TypeOK, Status, Pointer
<1>8. \A p \in Proc : HandleOf(p)' /\ LocksOf(p)'
  BY KindKept DEF TypeOK, HandleOf, LocksOf
<1>9. ResourcesAccounted'
  <2>1. MapsAccounted'
    BY <1>5, MapsKept, AccountedApart DEF IonKind
  <2>2. FdsAccounted'
    BY <1>6 DEF FdsAccounted
  <2> QED
    BY <2>1, <2>2, AccountedApart
<1>10. AccessMarked'
  BY DEF AccessMarked, WillFlush
<1> QED
  BY <1>4, <1>7, <1>8, <1>9, <1>10

\* The framework hands handles on and closes them.
LEMMA HandOnKeepsIInv ==
    ASSUME IInv, NEW p \in Proc, Share(p) \/ Close(p)
    PROVE  IInv'
<1> USE BufferAssumption DEF IInv, Share, Close, resources, access
<1>1. TypeOK'
  <2>1. CASE Share(p)
    BY <2>1 DEF TypeOK, Status, Pointer
  <2>2. CASE Close(p)
    BY <2>2 DEF TypeOK, Status, Pointer
  <2> QED
    BY <2>1, <2>2
<1>2. \A q \in Proc : HandleOf(q)' /\ LocksOf(q)'
  BY KindKept DEF TypeOK, HandleOf, LocksOf
<1>3. LocksGivenBack'
  BY LeftUnchanged
<1>4. p # Owner
  BY DEF HandleOf
<1>5. ResourcesAccounted'
  <2>1. kind \in IonKind => base[p] # "own" /\ base'[p] # "own"
    BY <1>4 DEF HandleOf, TypeOK
  <2>2. MapsAccounted'
    <3>1. \A q \in Proc : kind \in IonKind => (base'[q] = "own" <=> base[q] = "own")
      BY <2>1 DEF TypeOK
    <3> QED
      BY <3>1, MapsKept, AccountedApart
  <2>3. FdsAccounted'
    BY <1>4, AccountedApart DEF FdsAccounted, TypeOK
  <2> QED
    BY <2>2, <2>3, AccountedApart
<1>6. AccessMarked'
  <2>1. ~(readers[p] > 0) /\ writer # p
    BY DEF AccessMarked
  <2> QED
    BY <2>1 DEF AccessMarked, WillFlush, TypeOK
<1> QED
  BY <1>1, <1>2, <1>3, <1>5, <1>6

\* gc_gralloc_register_buffer.
LEMMA RegisterKeepsIInv ==
    ASSUME IInv, NEW p \in Proc, Register(p)
    PROVE  IInv'
<1> USE BufferAssumption DEF IInv, Register, access
<1>1. p # Owner /\ kind # "fb" /\ surface[p] # "own"
  BY DEF HandleOf
<1>2. TypeOK'
  BY <1>1, LockTypes DEF TypeOK, Status, Pointer, MappedMaps
<1>3. \A q \in Proc : HandleOf(q)' /\ LocksOf(q)'
  BY <1>1, KindKept DEF TypeOK, HandleOf, LocksOf
<1>4. LocksGivenBack'
  BY LeftUnchanged
<1>5. ResourcesAccounted'
  <2>1. kind \in IonKind => base[p] # "own"
    BY <1>1 DEF HandleOf
  <2>2. MapsAccounted'
    <3>1. PICK m \in Nat, lost \in Nat : m = maps[p] /\ lost = failures["munmap"]
      BY DEF TypeOK, Call, GiveBack
    <3>2. 0 <= m /\ m <= 0 + (lost + 0)
      BY <1>1, <2>1, <3>1 DEF ResourcesAccounted
    <3>3. base'[p] = "own" /\ maps'[p] = IF kind \in IonKind THEN m + 1 ELSE m
      BY <3>1 DEF TypeOK, MappedMaps
    <3>4. /\ (IF kind \in IonKind THEN 1 ELSE 0) <= maps'[p]
          /\ maps'[p] <= (IF kind \in IonKind THEN 1 ELSE 0) + (lost + 0)
      BY <3>2, <3>3
    <3>5. \A q \in Proc \ {p} : maps'[q] = maps[q] /\ base'[q] = base[q]
      BY DEF TypeOK
    <3>6. MapsAccounted
      BY AccountedApart
    <3> QED
      BY <1>1, <3>1, <3>3, <3>4, <3>5, <3>6 DEF MapsAccounted
  <2>3. FdsAccounted'
    BY <1>1, AccountedApart DEF FdsAccounted, TypeOK
  <2> QED
    BY <2>2, <2>3, AccountedApart
<1>6. AccessMarked'
  <2>1. ~(readers[p] > 0) /\ writer # p
    BY DEF AccessMarked
  <2> QED
    BY <2>1 DEF AccessMarked, WillFlush, TypeOK
<1> QED
  BY <1>2, <1>3, <1>4, <1>5, <1>6

\* Registrations, failed or not, lose descriptors nowhere and mappings only if
\* mvmem_munmap fails.
LEMMA MapsAfterErrors ==
    ASSUME TypeOK, MapsAccounted, kind' = kind, NEW p \in Proc \ {Owner},
           NEW F \in SUBSET Call, Failing(F), "mapUser" \notin F,
           \A q \in Proc \ {p} : maps'[q] = maps[q] /\ base'[q] = base[q],
           kind \in IonKind => base'[p] # "own",
           NEW used \in {0, 1},
           used = (IF kind \in IonKind /\ base[p] = "own" THEN 1 ELSE 0),
           maps'[p] = maps[p] \/ ("munmap" \notin F /\ maps'[p] = maps[p] - used)
                      \/ ("munmap" \in F /\ maps'[p] = maps[p] + 1 /\ used = 0),
           used = 1 /\ "munmap" \notin F => maps'[p] = maps[p] - used
    PROVE  MapsAccounted' /\ maps'[p] \in Nat
<1>1. PICK lost \in Nat, own \in Nat : lost = failures["munmap"] /\ own = failures["mapUser"]
  BY DEF TypeOK, Call, AllocCall, GiveBack
<1>2. /\ failures'["munmap"] = lost + Once("munmap", F)
      /\ failures'["mapUser"] = own + Once("mapUser", F)
      /\ Once("mapUser", F) = 0
      /\ Once("munmap", F) = IF "munmap" \in F THEN 1 ELSE 0
  <2>1. \A call \in Call : failures'[call] = failures[call] + Once(call, F)
    BY FailuresCounted
  <2>2. "munmap" \in Call /\ "mapUser" \in Call
    BY DEF Call, AllocCall, GiveBack
  <2> QED
    BY <1>1, <2>1, <2>2 DEF Once
<1>3. PICK m \in Nat : m = maps[p]
  BY DEF TypeOK
<1>4. used <= m /\ m <= used + (lost + 0)
  BY <1>1, <1>3 DEF MapsAccounted
<1>5. 0 <= maps'[p] /\ maps'[p] <= 0 + (failures'["munmap"] + 0) /\ maps'[p] \in Nat
  <2>1. CASE "munmap" \in F
    BY <1>2, <1>3, <1>4, <2>1
  <2>2. CASE "munmap" \notin F
    BY <1>2, <1>3, <1>4, <2>2
  <2> QED
    BY <2>1, <2>2
<1>6. ASSUME NEW q \in Proc
      PROVE  LET u == IF kind' \in IonKind /\ base'[q] = "own" THEN 1 ELSE 0
                 l == failures'["munmap"] + IF q = Owner THEN failures'["mapUser"] ELSE 0
             IN  u <= maps'[q] /\ maps'[q] <= u + l
  <2>1. CASE q = p
    BY <1>5, <2>1
  <2>2. CASE q # p
    <3>1. PICK n \in Nat : n = maps[q]
      BY DEF TypeOK
    <3>2. PICK u \in {0, 1} : u = IF kind \in IonKind /\ base[q] = "own" THEN 1 ELSE 0
      OBVIOUS
    <3>3. u <= n /\ n <= u + (lost + IF q = Owner THEN own ELSE 0)
      BY <1>1, <3>1, <3>2 DEF MapsAccounted
    <3>4. u <= n /\ n <= u + (failures'["munmap"] + IF q = Owner THEN failures'["mapUser"] ELSE 0)
      BY <1>2, <3>3
    <3>5. maps'[q] = n /\ u = IF kind' \in IonKind /\ base'[q] = "own" THEN 1 ELSE 0
      BY <2>2, <3>1, <3>2
    <3> QED
      BY <3>4, <3>5
  <2> QED
    BY <2>1, <2>2
<1> QED
  BY <1>5, <1>6 DEF MapsAccounted

\* A registration that fails, wherever it does.
LEMMA RegisterFailsKeepsIInv ==
    ASSUME IInv, NEW p \in Proc, NEW call \in RegisterCalls(p), NEW F, RegisterFails(p, call, F)
    PROVE  IInv'
<1> USE BufferAssumption DEF IInv, RegisterFails, access
<1> DEFINE n == LeftByRegister(call, F)
<1>1. p # Owner /\ kind # "fb" /\ surface[p] # "own" /\ kind \in Kind
  BY DEF HandleOf, TypeOK
<1>2. F \in SUBSET Call /\ Failing(F) /\ F \subseteq {"destroy", "munmap"}
  BY DEF Call, GiveBack
<1>3. n \in Nat /\ n <= Cost(F) + LateCost(F)
  <2>1. n \in Nat /\ n <= Cost(F)
    BY <1>1, LeftByRegisterError
  <2>2. LateCost(F) \in Nat
    BY DEF LateCost, Once
  <2> HIDE DEF n
  <2> QED
    BY <2>1, <2>2, CostParts
<1>4. left' = left + n /\ kind' = kind
  OBVIOUS
<1> HIDE DEF n
<1>5. /\ LocksGivenBack' /\ left' \in Nat
      /\ failures' \in [Call -> 0..MaxFailures]
  BY <1>2, <1>3, <1>4, LeftKept, FailuresCounted
<1>6. kind \in IonKind => base[p] # "own"
  BY <1>1 DEF HandleOf
<1>7. /\ maps' = [maps EXCEPT ![p] = MapsAfterRegister(@, call, F)]
      /\ base' = [base EXCEPT ![p] = "null"]
      /\ maps \in [Proc -> Nat] /\ base \in [Proc -> Pointer \ {"givenUp"}]
  BY DEF TypeOK
<1>8. MapsAccounted' /\ maps'[p] \in Nat
  <2>1. maps'[p] = maps[p] \/ ("munmap" \in F /\ maps'[p] = maps[p] + 1)
    <3>1. PICK m \in Nat : m = maps[p]
      BY <1>7
    <3>2. maps'[p] = MapsAfterRegister(m, call, F)
      BY <1>7, <3>1
    <3>3. HasVaddr(call) => kind \in IonKind
      BY DEF RegisterCalls, HasVaddr
    <3>4. HasVaddr(call) => MapsAfterRegister(m, call, F) = IF "munmap" \in F THEN m + 1 ELSE m
      BY <3>3 DEF MapsAfterRegister, MappedMaps, UnmappedMaps
    <3>5. ~HasVaddr(call) => MapsAfterRegister(m, call, F) = m
      BY DEF MapsAfterRegister
    <3> QED
      BY <3>1, <3>2, <3>4, <3>5
  <2>2. 0 = IF kind \in IonKind /\ base[p] = "own" THEN 1 ELSE 0
    BY <1>6
  <2>3. \A q \in Proc \ {p} : maps'[q] = maps[q] /\ base'[q] = base[q]
    BY <1>7
  <2>4. base'[p] # "own"
    BY <1>7
  <2>5. MapsAccounted /\ p \in Proc \ {Owner} /\ "mapUser" \notin F
    BY <1>1, <1>2, AccountedApart
  <2> QED
    BY <1>2, <1>4, <2>1, <2>2, <2>3, <2>4, <2>5, MapsAfterErrors
<1>9. TypeOK'
  BY <1>5, <1>7, <1>8 DEF TypeOK, Status, Pointer
<1>10. \A q \in Proc : HandleOf(q)' /\ LocksOf(q)'
  BY <1>1, KindKept DEF TypeOK, HandleOf, LocksOf
<1>11. ResourcesAccounted'
  <2>1. failures'["size"] = failures["size"] /\ failures'["map"] = failures["map"]
    <3>1. \A c \in Call : failures'[c] = failures[c] + Once(c, F) /\ failures[c] \in Nat
      BY <1>2, FailuresCounted
    <3>2. \A c \in {"size", "map"} : c \in Call /\ Once(c, F) = 0
      BY <1>2 DEF Once, Call, AllocCall
    <3> QED
      BY <3>1, <3>2
  <2>2. FdsAccounted'
    BY <1>1, <2>1, AccountedApart DEF FdsAccounted, TypeOK
  <2> QED
    BY <1>8, <2>2, AccountedApart
<1>12. AccessMarked'
  <2>1. ~(readers[p] > 0) /\ writer # p
    BY DEF AccessMarked
  <2> QED
    BY <2>1 DEF AccessMarked, WillFlush, TypeOK
<1> QED
  BY <1>5, <1>9, <1>10, <1>11, <1>12

\* The retry that does nothing.
LEMMA RegisterEmptyKeepsIInv ==
    ASSUME IInv, NEW p \in Proc, RegisterEmpty(p)
    PROVE  IInv'
<1> USE BufferAssumption DEF IInv, RegisterEmpty, access, resources
<1>1. p # Owner /\ kind # "fb" /\ base[p] = "null"
  BY DEF HandleOf
<1>2. TypeOK'
  BY DEF TypeOK, Status, Pointer
<1>3. \A q \in Proc : HandleOf(q)' /\ LocksOf(q)'
  BY <1>1, KindKept DEF TypeOK, HandleOf, LocksOf
<1>4. LocksGivenBack'
  BY LeftUnchanged
<1>5. ResourcesAccounted'
  BY <1>1 DEF ResourcesAccounted, TypeOK
<1>6. AccessMarked'
  BY <1>1 DEF AccessMarked, WillFlush, TypeOK
<1> QED
  BY <1>2, <1>3, <1>4, <1>5, <1>6

\* gc_gralloc_unregister_buffer.
LEMMA UnregisterKeepsIInv ==
    ASSUME IInv, NEW p \in Proc, NEW F \in SUBSET GiveBack, Unregister(p, F)
    PROVE  IInv'
<1> USE BufferAssumption DEF IInv, Unregister, access
<1>1. p # Owner /\ kind # "fb" /\ kind \in Kind
  BY DEF HandleOf, TypeOK
<1>2. \/ surface[p] = "own" /\ base[p] = "own" /\ locks[p] = RegisteredLocks(NoLocks)
      \/ surface[p] = "null" /\ base[p] = "null" /\ locks[p] = NoLocks
  BY <1>1 DEF HandleOf, LocksOf
<1>3. F \in SUBSET Call /\ Failing(F) /\ kind' = kind
  BY DEF Call
<1>4. PICK n \in Nat : left' = left + n /\ n <= Cost(F) + LateCost(F)
  <2>1. LateCost(F) \in Nat /\ Cost(F) \in Nat
    BY CostParts DEF LateCost, Once
  <2>2. CASE surface[p] = "own" /\ base[p] = "own" /\ locks[p] = RegisteredLocks(NoLocks)
    <3> DEFINE k == LeftBy(UnmappedLocks(RegisteredLocks(NoLocks), F), F)
    <3>1. k \in Nat /\ k <= Cost(F)
      BY <1>1, LeftByUnregister
    <3>2. left' = left + k
      BY <2>2
    <3> HIDE DEF k
    <3> QED
      BY <2>1, <3>1, <3>2
  <2>3. CASE surface[p] = "null" /\ base[p] = "null" /\ locks[p] = NoLocks
    <3>1. Count(NoLocks) = 0
      BY DEF Count, NoLocks, Core
    <3>2. left' = left + 0
      BY <2>3, <3>1
    <3> QED
      BY <2>1, <3>2
  <2> QED
    BY <1>2, <2>2, <2>3
<1>5. /\ LocksGivenBack' /\ left' \in Nat
      /\ failures' \in [Call -> 0..MaxFailures]
  BY <1>3, <1>4, LeftKept, FailuresCounted
<1>6. /\ surface' \in [Proc -> Pointer] /\ surface'[p] \in {"null", "givenUp"}
      /\ \A q \in Proc \ {p} : surface'[q] = surface[q]
      /\ surface[p] = "null" => surface'[p] = "null"
      /\ surface[p] # "null" => surface'[p] = "givenUp"
  BY <1>2 DEF TypeOK, Pointer
<1>7. /\ base' \in [Proc -> Pointer \ {"givenUp"}]
      /\ \A q \in Proc \ {p} : base'[q] = base[q]
      /\ kind \in IonKind => base'[p] = "null"
      /\ base[p] = "null" => base'[p] = "null"
  BY DEF TypeOK, Pointer, UnmappedBase
<1>8. MapsAccounted' /\ maps'[p] \in Nat /\ maps' \in [Proc -> Int]
  <2>1. PICK m \in Nat : m = maps[p]
    BY DEF TypeOK
  <2>2. maps' = [maps EXCEPT ![p] = IF base[p] # "null" THEN UnmappedMaps(m, F) ELSE m]
    BY <2>1 DEF TypeOK
  <2>3. maps'[p] = (IF base[p] # "null" THEN UnmappedMaps(m, F) ELSE m) /\ maps \in [Proc -> Nat]
    BY <2>2 DEF TypeOK
  <2>4. PICK used \in {0, 1} : used = IF kind \in IonKind /\ base[p] = "own" THEN 1 ELSE 0
    OBVIOUS
  <2>5. /\ maps'[p] = m \/ ("munmap" \notin F /\ maps'[p] = m - used)
        /\ used = 1 /\ "munmap" \notin F => maps'[p] = m - used
    BY <1>2, <2>3, <2>4 DEF UnmappedMaps
  <2>6. /\ maps'[p] = maps[p] \/ ("munmap" \notin F /\ maps'[p] = maps[p] - used)
                      \/ ("munmap" \in F /\ maps'[p] = maps[p] + 1 /\ used = 0)
        /\ used = 1 /\ "munmap" \notin F => maps'[p] = maps[p] - used
    BY <2>1, <2>5
  <2>7. \A q \in Proc \ {p} : maps'[q] = maps[q] /\ base'[q] = base[q]
    BY <1>7, <2>2, <2>3
  <2>8. kind \in IonKind => base'[p] # "own"
    BY <1>7
  <2>9. MapsAccounted /\ p \in Proc \ {Owner} /\ "mapUser" \notin F
    BY <1>1, AccountedApart DEF GiveBack
  <2>10. MapsAccounted' /\ maps'[p] \in Nat
    BY <1>3, <2>4, <2>6, <2>7, <2>8, <2>9, MapsAfterErrors
  <2> QED
    BY <2>2, <2>3, <2>10
<1>9. maps' \in [Proc -> Nat]
  BY <1>8 DEF TypeOK
<1>10. TypeOK'
  BY <1>5, <1>6, <1>7, <1>9, LockTypes DEF TypeOK, Status
<1>11. \A q \in Proc : HandleOf(q)' /\ LocksOf(q)'
  <2>1. status'[p] = "unregistered" /\ \A q \in Proc \ {p} : status'[q] = status[q]
    BY DEF TypeOK
  <2>2. HandleOf(p)'
    BY <1>1, <1>2, <1>6, <1>7, <2>1 DEF HandleOf
  <2>3. LocksOf(p)'
    BY <1>6, KindKept DEF LocksOf, TypeOK
  <2>4. \A q \in Proc \ {p} : HandleOf(q)'
    BY <1>3, <1>6, <1>7, <2>1 DEF HandleOf
  <2>5. \A q \in Proc \ {p} : LocksOf(q)'
    BY <1>6, KindKept DEF LocksOf, TypeOK
  <2> QED
    BY <2>2, <2>3, <2>4, <2>5
<1>12. ResourcesAccounted'
  <2>1. failures'["size"] = failures["size"] /\ failures'["map"] = failures["map"]
    <3>1. \A c \in Call : failures'[c] = failures[c] + Once(c, F) /\ failures[c] \in Nat
      BY <1>3, FailuresCounted
    <3>2. \A c \in {"size", "map"} : c \in Call /\ Once(c, F) = 0
      BY DEF Once, Call, AllocCall, GiveBack
    <3> QED
      BY <3>1, <3>2
  <2>2. FdsAccounted'
    BY <1>1, <2>1, AccountedApart DEF FdsAccounted, TypeOK
  <2> QED
    BY <1>8, <2>2, AccountedApart
<1>13. AccessMarked'
  BY DEF AccessMarked, WillFlush, TypeOK
<1> QED
  BY <1>5, <1>10, <1>11, <1>12, <1>13

\* Software access changes the flag, the cache and nothing else of a handle.
LEMMA AccessKeepsIInv ==
    ASSUME IInv, NEW p \in Proc, NEW usage \in {"write", "private"},
           LockForRead(p) \/ LockForWrite(p, usage) \/ Unlock(p)
    PROVE  IInv'
<1> USE BufferAssumption DEF IInv, resources
<1>1. UNCHANGED <<kind, status, surface, base, locks, left, maps, fds, failures>>
  BY DEF LockForRead, LockForWrite, Unlock
<1>2. TypeOK'
  <2>1. needsFlush' \in [Proc -> BOOLEAN] /\ cache' \in {"clean", "zeros", "data", "private"}
    BY DEF LockForRead, LockForWrite, Unlock, Marked, FlushOf, TypeOK
  <2>2. writer' \in Proc \union {NoWriter}
    BY DEF LockForRead, LockForWrite, Unlock, TypeOK
  <2>3. CASE LockForRead(p)
    <3>1. readers[p] \in 0..MaxReaders /\ readers[p] < MaxReaders /\ readers' = [readers EXCEPT ![p] = @ + 1]
      BY <2>3 DEF LockForRead, TypeOK
    <3>2. readers' \in [Proc -> 0..MaxReaders]
      BY <3>1 DEF TypeOK
    <3> QED
      BY <1>1, <2>1, <2>2, <3>2 DEF TypeOK
  <2>4. CASE LockForWrite(p, usage)
    BY <1>1, <2>1, <2>2, <2>4 DEF LockForWrite, TypeOK
  <2>5. CASE Unlock(p)
    <3>1. readers' = readers \/ (readers[p] > 0 /\ readers' = [readers EXCEPT ![p] = @ - 1])
      BY <2>5 DEF Unlock
    <3>2. readers' \in [Proc -> 0..MaxReaders]
      BY <3>1 DEF TypeOK
    <3> QED
      BY <1>1, <2>1, <2>2, <3>2 DEF TypeOK
  <2> QED
    BY <2>3, <2>4, <2>5
<1>3. \A q \in Proc : HandleOf(q)' /\ LocksOf(q)'
  BY <1>1, KindKept DEF HandleOf, LocksOf
<1>4. LocksGivenBack' /\ ResourcesAccounted'
  BY <1>1 DEF LocksGivenBack, ResourcesAccounted
<1>5. AccessMarked'
  <2>1. CASE LockForRead(p)
    <3>1. /\ MayLock(p) /\ writer' = NoWriter /\ cache' = cache /\ writer = NoWriter
          /\ \A q \in Proc \ {p} : readers'[q] = readers[q] /\ needsFlush'[q] = needsFlush[q]
          /\ kind = "pmem" => needsFlush'[p] = TRUE
      BY <2>1 DEF LockForRead, Marked, TypeOK
    <3> QED
      BY <1>1, <3>1 DEF AccessMarked, WillFlush, MayLock
  <2>2. CASE LockForWrite(p, usage)
    <3>1. /\ MayLock(p) /\ writer' = p
          /\ \A q \in Proc : readers'[q] = 0
          /\ cache' = "data" /\ kind = "pmem" => needsFlush'[p] = TRUE
      BY <2>2 DEF LockForWrite, Marked, TypeOK
    <3>2. \A q \in Proc : ~(readers'[q] > 0)
      BY <3>1
    <3> QED
      BY <1>1, <3>1, <3>2 DEF AccessMarked, WillFlush, MayLock
  <2>3. CASE Unlock(p)
    <3>1. /\ \A q \in Proc : readers'[q] > 0 => readers[q] > 0
          /\ writer' = writer \/ writer' = NoWriter
      BY <2>3 DEF Unlock, TypeOK
    <3>2. cache' = "clean" \/ UNCHANGED <<cache, needsFlush>>
      BY <2>3 DEF Unlock, FlushOf
    <3> QED
      BY <1>1, <3>1, <3>2 DEF AccessMarked, WillFlush
  <2> QED
    BY <2>1, <2>2, <2>3
<1> QED
  BY <1>2, <1>3, <1>4, <1>5

LEMMA NextKeepsIInv == IInv /\ [Next]_vars => IInv'
<1> SUFFICES ASSUME IInv, [Next]_vars PROVE IInv'
  OBVIOUS
<1>1. CASE Alloc \/ Wrap
  BY <1>1, AllocKeepsIInv, WrapKeepsIInv
<1>2. ASSUME NEW F \in SUBSET GiveBack,
             \/ Free(F) \/ Unwrap(F)
             \/ \E l \in {NoLocks, Plus(NoLocks, "3D")} : WrapFails(l, F)
             \/ \E call \in AllocCall : AllocFails(call, F)
             \/ \E p \in Proc : \/ Unregister(p, F)
                               \/ \E call \in RegisterCalls(p) : RegisterFails(p, call, F)
      PROVE  IInv'
  BY <1>2, FreeKeepsIInv, UnwrapKeepsIInv, WrapFailsKeepsIInv, AllocFailsKeepsIInv,
     UnregisterKeepsIInv, RegisterFailsKeepsIInv
<1>3. ASSUME NEW p \in Proc,
             \/ Share(p) \/ Close(p) \/ Register(p) \/ RegisterEmpty(p)
             \/ LockForRead(p) \/ Unlock(p)
             \/ \E usage \in {"write", "private"} : LockForWrite(p, usage)
      PROVE  IInv'
  BY <1>3, HandOnKeepsIInv, RegisterKeepsIInv, RegisterEmptyKeepsIInv, AccessKeepsIInv
<1>4. CASE UNCHANGED vars
  <2>1. kind' = kind
    BY <1>4 DEF vars
  <2> QED
    BY <1>4, <2>1, KindKept DEF vars, handle, resources, access, IInv, TypeOK, HandleOf, LocksOf,
       LocksGivenBack, ResourcesAccounted, AccessMarked, WillFlush
<1> QED
  BY <1>1, <1>2, <1>3, <1>4 DEF Next

\* IInv holds in every reachable state.
THEOREM AlwaysIInv == Spec => []IInv
  BY InitIInv, NextKeepsIInv, PTL DEF Spec

\* The variables keep their types; in particular no count of mappings or
\* descriptors ever falls below zero.
THEOREM TypeCorrect == Spec => []TypeOK
  BY AlwaysIInv, PTL DEF IInv

\* Whatever calls fail in gc_gralloc_alloc, gc_gralloc_free, gc_gralloc_wrap,
\* gc_gralloc_unwrap, gc_gralloc_register_buffer and
\* gc_gralloc_unregister_buffer, each failed gcoSURF_Unlock or gcoSURF_Destroy
\* costs one lock at most, and nothing else costs one but late failures of the
\* allocation of a VG surface.
THEOREM NoLockLost == Spec => []LocksGivenBack
  BY AlwaysIInv, PTL DEF IInv

\* Mappings and descriptors are accounted for, whatever calls fail.
THEOREM NothingElseLost == Spec => []ResourcesAccounted
  BY AlwaysIInv, PTL DEF IInv

\* gc_gralloc_lock lets in only who has the memory mapped or locked.
THEOREM LockedMemoryIsThere == Spec => []LockableIsMapped
<1>1. ASSUME IInv PROVE LockableIsMapped
  <2> USE <1>1 DEF IInv
  <2> SUFFICES ASSUME NEW p \in Proc, MayLock(p)
               PROVE  /\ surface[p] = "own" /\ base[p] = "own"
                      /\ IF kind \in IonKind THEN maps[p] > 0 ELSE locks[p][CoreOf(kind)] > 0
    BY DEF LockableIsMapped
  <2>1. surface[p] = "own" /\ base[p] = "own"
    BY DEF HandleOf, MayLock
  <2>2. kind \in IonKind => maps[p] > 0
    <3>1. PICK m \in Nat : m = maps[p]
      BY DEF TypeOK
    <3>2. kind \in IonKind => 1 <= m
      BY <2>1, <3>1 DEF ResourcesAccounted
    <3> QED
      BY <3>1, <3>2
  <2>3. kind \notin IonKind => locks[p][CoreOf(kind)] > 0
    <3>1. kind \in Kind /\ kind # "fb"
      BY DEF MayLock, TypeOK
    <3>2. locks[p] = MappedLocks(Relocked) \/ locks[p] = RegisteredLocks(NoLocks)
      BY <2>1, <3>1 DEF LocksOf
    <3>3. kind \notin IonKind => IF kind = "vg" THEN locks[p] = L(1, 1) \/ locks[p] = L(0, 2)
                                             ELSE locks[p] = L(2, 0)
      BY <3>1, <3>2, LocksTaken
    <3>4. L(1, 1)["VG"] = 1 /\ L(0, 2)["VG"] = 2 /\ L(2, 0)["3D"] = 2
      BY LockSteps
    <3> QED
      BY <3>3, <3>4 DEF CoreOf
  <2> QED
    BY <2>1, <2>2, <2>3
<1> QED
  BY <1>1, AlwaysIInv, PTL

\* gc_gralloc_unlock of memory no encoder reads leaves nothing in the CPU
\* caches, unless it ends a write lock with GRALLOC_USAGE_PRIVATE_2.
THEOREM WritesFlushed == Spec => WritesReachMemory
<1> DEFINE Flushed ==
        \A p \in Proc :
          /\ kind = "pmem"
          /\ \/ readers'[p] < readers[p]
             \/ writer = p /\ writer' # p /\ cache = "data"
          => cache' = "clean"
<1>1. ASSUME IInv, [Next]_vars PROVE [Flushed]_vars
  <2> USE <1>1 DEF IInv
  <2> SUFFICES ASSUME NEW p \in Proc, kind = "pmem",
                      \/ readers'[p] < readers[p]
                      \/ writer = p /\ writer' # p /\ cache = "data",
                      cache' # "clean"
               PROVE  FALSE
    OBVIOUS
  <2>1. readers[p] \in Nat /\ readers \in [Proc -> 0..MaxReaders] /\ NoWriter \notin Proc
    BY BufferAssumption DEF TypeOK
  <2>2. ~UNCHANGED <<readers, writer>>
    BY <2>1
  <2>3. \E q \in Proc : \/ LockForRead(q) \/ Unlock(q)
                        \/ \E usage \in {"write", "private"} : LockForWrite(q, usage)
    <3>1. CASE UNCHANGED vars
      BY <2>2, <3>1 DEF vars, access
    <3>2. CASE Next
      BY <2>2, <3>2 DEF Next, Alloc, Wrap, Free, Unwrap, WrapFails, AllocFails, Unregister,
         RegisterFails, Share, Close, Register, RegisterEmpty, access
    <3> QED
      BY <3>1, <3>2
  <2>4. PICK q \in Proc : \/ LockForRead(q) \/ Unlock(q)
                          \/ \E usage \in {"write", "private"} : LockForWrite(q, usage)
    BY <2>3
  <2>5. ~LockForRead(q)
    <3> SUFFICES ASSUME LockForRead(q) PROVE FALSE
      OBVIOUS
    <3>1. writer' = writer /\ readers' = [readers EXCEPT ![q] = @ + 1]
      BY DEF LockForRead
    <3>2. ~(readers'[p] < readers[p])
      BY <2>1, <3>1
    <3> QED
      BY <3>1, <3>2
  <2>6. ASSUME NEW usage \in {"write", "private"}, LockForWrite(q, usage) PROVE FALSE
    <3>1. writer = NoWriter /\ readers' = readers
      BY <2>6 DEF LockForWrite
    <3> QED
      BY <2>1, <3>1
  <2>7. Unlock(q)
    BY <2>4, <2>5, <2>6
  <2>8. q = p /\ WillFlush(p)
    <3>1. CASE readers[q] > 0 /\ readers' = [readers EXCEPT ![q] = @ - 1] /\ writer' = writer
      <4>1. readers'[p] < readers[p]
        BY <3>1
      <4>2. q = p
        BY <2>1, <3>1, <4>1
      <4> QED
        BY <3>1, <4>2 DEF WillFlush
    <3>2. CASE writer = q /\ writer' = NoWriter /\ readers' = readers
      BY <2>1, <3>2 DEF WillFlush
    <3> QED
      BY <2>7, <3>1, <3>2 DEF Unlock
  <2>9. FlushOf(p)
    BY <2>7, <2>8 DEF Unlock
  <2>10. cache # "clean"
    BY <2>9 DEF FlushOf
  <2>11. needsFlush[p] = TRUE
    BY <2>8, <2>10 DEF AccessMarked
  <2> QED
    BY <2>9, <2>11 DEF FlushOf
<1>2. Spec => [][Flushed]_vars
  <2> HIDE DEF Flushed
  <2> QED
    BY <1>1, AlwaysIInv, PTL DEF Spec
<1> QED
  BY <1>2 DEF WritesReachMemory
=============================================================================
