----------------------- MODULE FramebufferPool_proofs -----------------------
(***************************************************************************)
(* The framebuffer pool for any threads, any screen and any number of      *)
(* buffers.                                                                *)
(***************************************************************************)
EXTENDS FramebufferPool, TLAPS

----------------------------------------------------------------------------
(***************************************************************************)
(* Dividing the virtual screen into buffers.                               *)
(***************************************************************************)

LEMMA DivBounds ==
    ASSUME NEW a \in Nat, NEW b \in Nat \ {0}
    PROVE  a \div b \in Nat /\ b * (a \div b) <= a /\ a < b * ((a \div b) + 1)
  BY Z3

LEMMA ProductOrder ==
    ASSUME NEW b \in Nat \ {0}, NEW u \in Nat, NEW v \in Nat
    PROVE  /\ b * u < b * v => u < v
           /\ u <= v => b * u <= b * v
  BY Z3

LEMMA ProductSum ==
    ASSUME NEW b \in Nat, NEW u \in Nat, NEW v \in Nat
    PROVE  b * (u + v) = b * u + b * v
  OBVIOUS

\* The quotient is the only number between its bounds.
LEMMA DivUnique ==
    ASSUME NEW a \in Nat, NEW b \in Nat \ {0}, NEW q \in Nat, b * q <= a, a < b * (q + 1)
    PROVE  a \div b = q
<1> DEFINE d == a \div b
<1>1. d \in Nat /\ b * d <= a /\ a < b * (d + 1)
  BY DivBounds
<1> HIDE DEF d
<1>2. b * d < b * (q + 1) /\ b * q < b * (d + 1)
  BY <1>1
<1>3. d < q + 1 /\ q < d + 1
  BY <1>1, <1>2, ProductOrder
<1>4. d = q
  BY <1>1, <1>3
<1> QED
  BY <1>4 DEF d

\* With a virtual screen of V rows and buffers of Y visible rows there are
\* N == V \div Y buffers of Q == V \div N rows: at least Y, and the rows left
\* over never add up to another buffer.
LEMMA RowsPerBuffer ==
    ASSUME NEW V \in Nat \ {0}, NEW Y \in Nat \ {0},
           NEW N \in Nat \ {0}, N = V \div Y, NEW i \in 0..(N - 1)
    PROVE  /\ V \div N \in Nat
           /\ i * Y <= i * (V \div N)
           /\ i * (V \div N) < (i + 1) * Y
           /\ i * (V \div N) + Y <= V
<1> DEFINE Q == V \div N
<1>1. Q \in Nat /\ N * Q <= V /\ V < N * (Q + 1)
  BY DivBounds
<1>2. Y * N <= V /\ V < Y * (N + 1)
  BY DivBounds
<1> HIDE DEF Q
<1>3. N * Y < N * (Q + 1)
  BY <1>1, <1>2
<1>4. Y <= Q
  <2>1. Y < Q + 1
    BY <1>1, <1>3, ProductOrder
  <2> QED
    BY <1>1, <2>1
<1>5. PICK e \in Nat : Q = Y + e
  <2>1. Q - Y \in Nat /\ Q = Y + (Q - Y)
    BY <1>1, <1>4
  <2> QED
    BY <2>1
<1>6. N * e < Y
  <2>1. N * Q = N * Y + N * e
    <3>1. N * (Y + e) = N * Y + N * e
      BY ProductSum
    <3> QED
      BY <3>1, <1>5
  <2>2. N * Y + N * e <= V /\ V < N * Y + Y
    <3>1. Y * N = N * Y /\ Y * (N + 1) = N * Y + Y
      BY Z3
    <3> QED
      BY <3>1, <1>1, <1>2, <2>1
  <2>3. N * Y \in Nat /\ N * e \in Nat
    OBVIOUS
  <2> QED
    BY <2>2, <2>3
<1>7. i * e <= N * e /\ i * e >= 0
  BY Z3
<1>8. i * Q = i * Y + i * e
  BY <1>5
<1>9. i * Q + Y <= V
  <2>1. i + 1 <= N
    OBVIOUS
  <2>2. (i + 1) * Q <= N * Q
    BY <2>1, <1>1, Z3
  <2>3. i * Q + Q <= V
    <3>1. (i + 1) * Q = i * Q + Q
      BY <1>1
    <3> QED
      BY <3>1, <2>2, <1>1
  <2> QED
    BY <2>3, <1>4, <1>1
<1>10. i * Y <= i * Q /\ i * Q < (i + 1) * Y
  <2>1. i * Y \in Nat /\ i * e \in Nat /\ (i + 1) * Y = i * Y + Y /\ N * e \in Nat
    OBVIOUS
  <2> QED
    BY <1>6, <1>7, <1>8, <2>1
<1> QED
  BY <1>1, <1>9, <1>10 DEF Q


\* A handle is freed for the buffer it was allocated for, although allocation
\* multiplies by the rows per buffer and freeing divides by the visible rows.
LEMMA IndexOfBase ==
    ASSUME mode \in ModeType, 1 <= Count(mode), NEW i \in 0..(Count(mode) - 1)
    PROVE  IndexOf(Base(i)) = i
<1> DEFINE L == mode.line_length
           Y == mode.yres
           V == mode.yres_virtual
           N == Count(mode)
           Q == V \div N
<1>1. L \in Nat \ {0} /\ Y \in Nat \ {0} /\ V \in Nat \ {0} /\ N = V \div Y
  BY DEF ModeType, Count
<1>2. N \in Nat \ {0} /\ i \in Nat
  BY <1>1, DivBounds
<1>3. Q \in Nat /\ i * Y <= i * Q /\ i * Q < (i + 1) * Y
  BY <1>1, <1>2, RowsPerBuffer
<1>4. IndexOf(Base(i)) = (i * (L * Q)) \div (L * Y)
  BY DEF IndexOf, Base, BufferSize
<1> HIDE DEF L, Y, V, N, Q
<1>5. i * (L * Q) = L * (i * Q) /\ (L * Y) * i = L * (i * Y) /\ (L * Y) * (i + 1) = L * ((i + 1) * Y)
  BY <1>1, <1>2, <1>3, Z3
<1>6. L * (i * Y) <= L * (i * Q) /\ L * (i * Q) < L * ((i + 1) * Y)
  <2>1. i * Y \in Nat /\ i * Q \in Nat /\ (i + 1) * Y \in Nat
    BY <1>1, <1>2, <1>3
  <2>2. i * Q + 1 <= (i + 1) * Y
    BY <1>3, <2>1
  <2>3. L * (i * Q) + L <= L * ((i + 1) * Y)
    <3>1. L * (i * Q + 1) <= L * ((i + 1) * Y)
      BY <1>1, <2>1, <2>2, ProductOrder
    <3>2. L * (i * Q + 1) = L * (i * Q) + L
      BY <1>1, <2>1
    <3> QED
      BY <3>1, <3>2
  <2>4. L * (i * Q) \in Nat /\ L * ((i + 1) * Y) \in Nat
    BY <1>1, <2>1
  <2> QED
    BY <1>1, <1>3, <2>1, <2>3, <2>4, ProductOrder
<1>7. i * (L * Q) \in Nat /\ L * Y \in Nat \ {0}
  BY <1>1, <1>2, <1>3, Z3
<1> QED
  BY <1>2, <1>4, <1>5, <1>6, <1>7, DivUnique

\* fb_post shows the rows at the base of the buffer, and they exist.
LEMMA RowsOfBase ==
    ASSUME mode \in ModeType, 1 <= Count(mode), NEW i \in 0..(Count(mode) - 1)
    PROVE  /\ Base(i) \div mode.line_length \in Nat
           /\ Base(i) \div mode.line_length + mode.yres <= mode.yres_virtual
<1> DEFINE L == mode.line_length
           Y == mode.yres
           V == mode.yres_virtual
           N == Count(mode)
           Q == V \div N
<1>1. L \in Nat \ {0} /\ Y \in Nat \ {0} /\ V \in Nat \ {0} /\ N = V \div Y
  BY DEF ModeType, Count
<1>2. N \in Nat \ {0} /\ i \in Nat
  BY <1>1, DivBounds
<1>3. Q \in Nat /\ i * Q + Y <= V
  BY <1>1, <1>2, RowsPerBuffer
<1>4. Base(i) = i * (L * Q)
  BY DEF Base, BufferSize
<1> HIDE DEF L, Y, V, N, Q
<1>5. i * (L * Q) = L * (i * Q) /\ i * Q \in Nat
  BY <1>1, <1>2, <1>3, Z3
<1>6. L * (i * Q) \in Nat /\ L * (i * Q) < L * (i * Q + 1)
  <2>1. L * (i * Q + 1) = L * (i * Q) + L /\ L * (i * Q) \in Nat
    BY <1>1, <1>5
  <2> QED
    BY <1>1, <2>1
<1>7. Base(i) \div L = i * Q
  BY <1>1, <1>4, <1>5, <1>6, DivUnique
<1> QED
  BY <1>3, <1>5, <1>7 DEF L, Y, V

----------------------------------------------------------------------------
(***************************************************************************)
(* The inductive invariant.  SlotsDistinct is not inductive: a stale mask  *)
(* in the hands of some thread could hand a taken buffer out again, so the *)
(* invariant says what every thread between a load and a store still knows *)
(* of the buffers whose bit was never wiped.                               *)
(***************************************************************************)
Critical == {"openLocked", "allocLocked", "check", "store"}

\* Only the owner of the lock maps the framebuffer or allocates.
LockHeld == \A t \in Thread : pc[t] \in Critical => lock = t

\* Before the framebuffer exists nothing was handed out and no row was shown.
NothingBefore ==
    framebuffer = "none" =>
        /\ bufferMask = {} /\ yoffset = 0
        /\ \A i \in Slot : live[i] = 0
        /\ \A t \in Thread : pc[t] \notin {"check", "store", "free"}

\* Buffers handed out are buffers of the screen.
InScreen ==
    /\ bufferMask \subseteq Buffers
    /\ \A i \in Slot : live[i] > 0 => i \in Buffers
    /\ \A t \in Thread : /\ pc[t] \in {"store", "free"} => seen[t] \subseteq Buffers
                         /\ pc[t] = "store" => slot[t] \in Buffers

\* The handle to buffer i is on its way back, in the hands of t.
Freeing(t, i) == pc[t] = "free" /\ slot[t] = i

\* Buffer i has a handle, or its handle is on its way back.
Held(i) == live[i] > 0 \/ \E t \in Thread : Freeing(t, i)

\* What is known of a buffer whose bit no stale store has wiped: it has one
\* handle or none, its bit is set while it is held, one thread at most gives
\* it back, and the thread that allocates knows whether it is held.
Remembered(i) ==
    /\ live[i] \in {0, 1}
    /\ Held(i) => i \in bufferMask
    /\ \A t \in Thread : Freeing(t, i) => live[i] = 0
    /\ \A t, u \in Thread : Freeing(t, i) /\ Freeing(u, i) => t = u
    /\ \A t \in Thread : pc[t] = "store" /\ Held(i) => i \in seen[t] /\ slot[t] # i

AllRemembered == \A i \in Slot \ forgotten : Remembered(i)

\* A bit that is set belongs to a held buffer, or came back from a stale mask.
BitsHeld == \A i \in bufferMask : Held(i) \/ i \in revived

IInv == /\ TypeOK /\ LockHeld /\ LockReturned
        /\ NothingBefore /\ InScreen /\ ShownRowsExist
        /\ AllRemembered /\ BitsHeld

----------------------------------------------------------------------------
USE PoolAssumption

LEMMA ModeShape ==
    ASSUME NEW m \in Mode
    PROVE  /\ m \in ModeType /\ Count(m) \in Nat \ {0} /\ Count(m) <= MaxBuffers
           /\ m.yres <= m.yres_virtual
           /\ m.yres \in Nat
<1>1. m \in ModeType /\ 1 <= Count(m) /\ Count(m) <= MaxBuffers
  OBVIOUS
<1>2. m.yres \in Nat \ {0} /\ m.yres_virtual \in Nat
  BY <1>1 DEF ModeType
<1>3. Count(m) \in Nat /\ m.yres * Count(m) <= m.yres_virtual
  BY <1>2, DivBounds DEF Count
<1>4. m.yres * 1 <= m.yres * Count(m) /\ m.yres * Count(m) \in Nat
  BY <1>1, <1>2, <1>3, ProductOrder
<1> QED
  BY <1>1, <1>2, <1>3, <1>4

LEMMA InitIInv == Init => IInv
<1> SUFFICES ASSUME Init PROVE IInv
  OBVIOUS
<1>1. mode \in Mode /\ mode.yres <= mode.yres_virtual /\ mode.yres \in Nat
  BY ModeShape DEF Init
<1>2. 0 \in Slot
  BY <1>1, ModeShape DEF Slot
<1>3. TypeOK
  BY <1>2 DEF Init, TypeOK, Label
<1>4. ShownRowsExist
  BY <1>1 DEF Init, ShownRowsExist
<1> QED
  BY <1>3, <1>4 DEF Init, IInv, LockHeld, LockReturned, NothingBefore, InScreen,
       AllRemembered, Remembered, Held, Freeing, BitsHeld, Critical

\* Steps that leave the buffers, the handles and the threads that store or free alone.
LEMMA UntouchedStaysRemembered ==
    ASSUME IInv,
           bufferMask' = bufferMask, mode' = mode, live' = live,
           forgotten' = forgotten, revived' = revived,
           \A u \in Thread : /\ seen'[u] = seen[u] /\ slot'[u] = slot[u]
                             /\ pc'[u] = pc[u] \/ {pc[u], pc'[u]} \cap {"store", "free"} = {}
    PROVE  AllRemembered' /\ BitsHeld' /\ InScreen'
<1>1. \A u \in Thread, i \in Slot : Freeing(u, i)' <=> Freeing(u, i)
  BY DEF Freeing
<1>2. \A i \in Slot : Held(i)' <=> Held(i)
  BY <1>1 DEF Held
<1>3. \A u \in Thread : pc'[u] \in {"store", "free"} => pc[u] = pc'[u]
  OBVIOUS
<1>4. AllRemembered'
  BY <1>1, <1>2, <1>3 DEF IInv, AllRemembered, Remembered
<1>5. BitsHeld'
  BY <1>2 DEF IInv, TypeOK, BitsHeld
<1>6. InScreen'
  BY <1>3 DEF IInv, InScreen, Buffers
<1> QED
  BY <1>4, <1>5, <1>6

\* Steps that take, keep or give up the lock, and no more.
LEMMA LockStepsKeepIInv ==
    ASSUME IInv, NEW t \in Thread,
           Open(t) \/ Alloc(t) \/ Lock(t) \/ AlreadyMapped(t) \/ MapFails(t) \/ Refuse(t)
    PROVE  IInv'
<1> USE DEF TypeOK, Goto, Label
<1>1. /\ framebuffer' = framebuffer /\ mode' = mode /\ bufferMask' = bufferMask
      /\ seen' = seen /\ slot' = slot /\ live' = live /\ yoffset' = yoffset
      /\ forgotten' = forgotten /\ revived' = revived
  BY DEF Open, Alloc, Lock, AlreadyMapped, MapFails, Refuse, module, history
<1>2. \A u \in Thread \ {t} : pc'[u] = pc[u]
  BY DEF IInv, Open, Alloc, Lock, AlreadyMapped, MapFails, Refuse, Mapped
<1>3. /\ pc'[t] \in {"idle", "open", "alloc", "openLocked", "allocLocked", "check"}
      /\ pc[t] \notin {"store", "free"}
      /\ pc'[t] = "check" => framebuffer # "none" /\ pc[t] = "allocLocked"
  BY DEF IInv, Open, Alloc, Lock, AlreadyMapped, MapFails, Refuse, Mapped
<1>4. TypeOK'
  BY <1>1 DEF IInv, Open, Alloc, Lock, AlreadyMapped, MapFails, Refuse, Mapped, module, history
<1>5. LockHeld' /\ LockReturned'
  <2> USE DEF IInv, LockHeld, LockReturned, Critical
  <2>1. CASE Open(t) \/ Alloc(t)
    BY <2>1 DEF Open, Alloc, module, history
  <2>2. CASE Lock(t)
    BY <2>2 DEF Lock, history
  <2>3. CASE AlreadyMapped(t)
    BY <2>3 DEF AlreadyMapped, Mapped, history
  <2>4. CASE MapFails(t)
    BY <2>4 DEF MapFails, history
  <2>5. CASE Refuse(t)
    BY <2>5 DEF Refuse, module
  <2> QED
    BY <2>1, <2>2, <2>3, <2>4, <2>5
<1>6. NothingBefore'
  BY <1>1, <1>2, <1>3 DEF IInv, NothingBefore
<1>7. ShownRowsExist'
  BY <1>1 DEF IInv, ShownRowsExist
<1>8. AllRemembered' /\ BitsHeld' /\ InScreen'
  BY <1>1, <1>2, <1>3, UntouchedStaysRemembered
<1> QED
  BY <1>4, <1>5, <1>6, <1>7, <1>8 DEF IInv

\* Mapping starts from an empty mask, with no handle and no other thread
\* between a load and a store.
LEMMA MapKeepsIInv ==
    ASSUME IInv, NEW t \in Thread, NEW m \in Mode,
           MmapFails(t, m) \/ MapFramebuffer(t, m)
    PROVE  IInv'
<1> USE DEF IInv, TypeOK, Goto, Label
<1>1. /\ framebuffer = "none" /\ framebuffer' # "none" /\ mode' = m /\ bufferMask' = {}
      /\ seen' = seen /\ slot' = slot /\ live' = live /\ yoffset' = yoffset
      /\ refused' = refused
      /\ pc[t] \in {"openLocked", "allocLocked"}
  BY DEF MmapFails, MapFramebuffer, history
<1>2. \A u \in Thread \ {t} : pc'[u] = pc[u]
  BY DEF MmapFails, MapFramebuffer, Mapped
<1>3. \/ pc'[t] = "idle" /\ lock' = NoOwner
      \/ pc'[t] = "check" /\ lock' = lock /\ pc[t] = "allocLocked"
  BY DEF MmapFails, MapFramebuffer, Mapped
<1>4. TypeOK'
  BY <1>1, <1>3 DEF MmapFails, MapFramebuffer, Mapped, history
<1>5. LockHeld' /\ LockReturned'
  BY <1>1, <1>2, <1>3 DEF LockHeld, LockReturned, Critical
<1>6. \A u \in Thread : pc'[u] \notin {"store", "free"}
  BY <1>1, <1>2, <1>3 DEF NothingBefore
<1>7. \A i \in Slot : live'[i] = 0
  BY <1>1 DEF NothingBefore
<1>8. NothingBefore' /\ InScreen'
  BY <1>1, <1>6, <1>7 DEF NothingBefore, InScreen
<1>9. ShownRowsExist'
  BY <1>1, ModeShape DEF NothingBefore, ShownRowsExist
<1>10. AllRemembered' /\ BitsHeld'
  BY <1>1, <1>6, <1>7 DEF AllRemembered, Remembered, Held, Freeing, BitsHeld
<1> QED
  BY <1>4, <1>5, <1>8, <1>9, <1>10

\* The thread that chooses has read the mask it chooses by: a buffer that is
\* remembered and held is in it.
LEMMA ChooseKeepsIInv ==
    ASSUME IInv, NEW t \in Thread, Choose(t)
    PROVE  IInv'
<1> USE DEF TypeOK, Goto, Label, Choose, module, history
<1>1. PICK i \in Buffers \ bufferMask : slot' = [slot EXCEPT ![t] = i]
  OBVIOUS
<1>2. i \in Slot
  BY ModeShape DEF IInv, Buffers, Slot
<1>3. TypeOK'
  BY <1>1, <1>2 DEF IInv
<1>4. LockHeld' /\ LockReturned'
  BY DEF IInv, LockHeld, LockReturned, Critical
<1>5. NothingBefore' /\ ShownRowsExist'
  BY DEF IInv, NothingBefore, ShownRowsExist
<1>6. \A u \in Thread \ {t} : pc'[u] = pc[u] /\ seen'[u] = seen[u] /\ slot'[u] = slot[u]
  BY <1>1 DEF IInv
<1>7. pc[t] = "check" /\ pc'[t] = "store" /\ seen'[t] = bufferMask /\ slot'[t] = i
  BY <1>1 DEF IInv
<1>8. InScreen'
  BY <1>6, <1>7, <1>1 DEF IInv, InScreen, Buffers
<1>9. \A u \in Thread, j \in Slot : Freeing(u, j)' <=> Freeing(u, j)
  BY <1>6, <1>7 DEF Freeing
<1>10. \A j \in Slot : Held(j)' <=> Held(j)
  BY <1>9 DEF Held
<1>11. BitsHeld'
  BY <1>10 DEF IInv, BitsHeld
<1>12. ASSUME NEW j \in Slot \ forgotten PROVE Remembered(j)'
  <2>1. Remembered(j)
    BY DEF IInv, AllRemembered
  <2> QED
    BY <2>1, <1>1, <1>6, <1>7, <1>9, <1>10 DEF Remembered
<1>13. AllRemembered'
  BY <1>12 DEF AllRemembered
<1> QED
  BY <1>3, <1>4, <1>5, <1>8, <1>11, <1>13 DEF IInv

\* Frees may have come between the load and the store, but only the owner of
\* the lock takes: what it has seen still holds every buffer that is held.
LEMMA TakeKeepsIInv ==
    ASSUME IInv, NEW t \in Thread, Take(t)
    PROVE  IInv'
<1> USE DEF TypeOK, Goto, Label, Take
<1> DEFINE i == slot[t]
<1>1. /\ bufferMask' = seen[t] \union {i} /\ seen[t] \subseteq Buffers
      /\ i \in Buffers /\ i \in Slot /\ live'[i] = live[i] + 1
      /\ pc[t] = "store" /\ pc'[t] = "idle"
      /\ \A j \in Slot \ {i} : live'[j] = live[j]
  <2>1. pc[t] = "store" /\ seen[t] \subseteq Buffers /\ i \in Buffers /\ i \in Slot
    BY DEF IInv, InScreen
  <2>2. live'[i] = live[i] + 1 /\ \A j \in Slot \ {i} : live'[j] = live[j]
    BY <2>1 DEF IInv
  <2>3. pc'[t] = "idle" /\ bufferMask' = seen[t] \union {i}
    BY DEF IInv
  <2> QED
    BY <2>1, <2>2, <2>3
<1>2. \A u \in Thread \ {t} : pc'[u] = pc[u] /\ pc'[u] # "store" /\ seen'[u] = seen[u]
  BY DEF IInv, LockHeld, Critical
<1>3. TypeOK'
  <2>1. live' \in [Slot -> Nat]
    BY <1>1 DEF IInv
  <2> QED
    BY <1>1, <2>1 DEF IInv
<1>4. LockHeld' /\ LockReturned'
  BY DEF IInv, LockHeld, LockReturned, Critical
<1>5. NothingBefore' /\ ShownRowsExist'
  BY DEF IInv, NothingBefore, ShownRowsExist
<1>6. InScreen'
  BY <1>1, <1>2 DEF IInv, InScreen, Buffers
<1>7. \A u \in Thread, j \in Slot : Freeing(u, j)' <=> Freeing(u, j)
  BY <1>1, <1>2 DEF Freeing
<1>8. \A j \in Slot \ {i} : Held(j)' <=> Held(j)
  BY <1>1, <1>7 DEF Held
<1>9. Held(i)'
  BY <1>1 DEF IInv, Held
<1> HIDE DEF i
<1>10. BitsHeld'
  <2> SUFFICES ASSUME NEW j \in bufferMask' PROVE Held(j)' \/ j \in revived'
    BY DEF BitsHeld
  <2>1. j = i \/ j \in seen[t]
    BY <1>1
  <2>2. j \in Slot
    BY <1>3, <1>1
  <2>3. CASE j \in bufferMask
    <3>1. Held(j) \/ j \in revived
      BY <2>3 DEF IInv, BitsHeld
    <3>2. revived \subseteq revived'
      OBVIOUS
    <3>3. Held(j) => live'[j] > 0 \/ \E u \in Thread : Freeing(u, j)'
      BY <2>2, <1>1, <1>7 DEF IInv, Held
    <3> QED
      BY <3>1, <3>2, <3>3 DEF Held
  <2>4. CASE j \in seen[t] \ bufferMask
    <3>1. revived' = revived \union (seen[t] \ bufferMask)
      OBVIOUS
    <3> QED
      BY <2>4, <3>1
  <2>5. CASE j = i
    BY <2>5, <1>1 DEF IInv, Held
  <2> QED
    BY <2>1, <2>3, <2>4, <2>5
<1>11. ASSUME NEW j \in Slot \ forgotten PROVE Remembered(j)'
  <2>1. Remembered(j)
    BY DEF IInv, AllRemembered
  <2>2. CASE j = i
    <3>1. ~Held(j)
      BY <2>1, <2>2, <1>1 DEF Remembered, i
    <3>2. live[j] = 0 /\ \A u \in Thread : ~Freeing(u, j)'
      BY <3>1, <2>1, <1>7 DEF Held, Remembered
    <3> QED
      BY <2>2, <3>2, <1>1, <1>2 DEF Remembered
  <2>3. CASE j # i
    <3>1. Held(j) => j \in seen[t]
      BY <2>1, <1>1 DEF Remembered
    <3>2. live'[j] = live[j]
      BY <2>3, <1>1
    <3>3. Held(j)' <=> Held(j)
      BY <2>3, <1>8
    <3> QED
      BY <2>1, <3>1, <3>2, <3>3, <1>1, <1>2, <1>7 DEF Remembered
  <2> QED
    BY <2>2, <2>3
<1>12. AllRemembered'
  BY <1>11 DEF AllRemembered
<1> QED
  BY <1>3, <1>4, <1>5, <1>6, <1>10, <1>12 DEF IInv

\* The bit that is cleared is the bit of the handle that is freed.
LEMMA FreeKeepsIInv ==
    ASSUME IInv, NEW t \in Thread, NEW i \in Slot, Free(t, i)
    PROVE  IInv'
<1> USE DEF TypeOK, Goto, Label, Free, module, history
<1>1. i \in Buffers /\ live[i] > 0 /\ mode' = mode
  BY DEF IInv, InScreen
<1>2. IndexOf(Base(i)) = i
  BY <1>1, ModeShape, IndexOfBase DEF IInv, Buffers
<1>3. /\ pc[t] = "idle" /\ pc'[t] = "free" /\ slot'[t] = i /\ seen'[t] = bufferMask
      /\ \A u \in Thread \ {t} : pc'[u] = pc[u] /\ slot'[u] = slot[u] /\ seen'[u] = seen[u]
  BY <1>2 DEF IInv
<1>4. live'[i] = live[i] - 1 /\ \A j \in Slot \ {i} : live'[j] = live[j]
  BY DEF IInv
<1>5. TypeOK'
  <2>1. live' \in [Slot -> Nat]
    BY <1>1 DEF IInv
  <2> QED
    BY <1>1, <1>2, <2>1 DEF IInv
<1>6. LockHeld' /\ LockReturned'
  BY DEF IInv, LockHeld, LockReturned, Critical
<1>7. NothingBefore' /\ ShownRowsExist'
  BY <1>1 DEF IInv, NothingBefore, ShownRowsExist
<1>8. InScreen'
  <2>1. \A j \in Slot : live'[j] > 0 => live[j] > 0
    BY <1>1, <1>4 DEF IInv
  <2> QED
    BY <1>1, <1>3, <2>1 DEF IInv, InScreen, Buffers
<1>9. \A u \in Thread, j \in Slot : Freeing(u, j)' <=> Freeing(u, j) \/ (u = t /\ j = i)
  BY <1>3 DEF Freeing
<1>10. \A j \in Slot \ {i} : Held(j)' <=> Held(j)
  BY <1>4, <1>9 DEF Held
<1>11. Held(i) /\ Held(i)'
  BY <1>1, <1>9 DEF Held
<1>12. BitsHeld'
  BY <1>10, <1>11 DEF IInv, BitsHeld
<1>13. ASSUME NEW j \in Slot \ forgotten PROVE Remembered(j)'
  <2>1. Remembered(j)
    BY DEF IInv, AllRemembered
  <2>2. CASE j = i
    <3>1. live[j] = 1 /\ live'[j] = 0
      BY <2>1, <2>2, <1>1, <1>4 DEF Remembered
    <3>2. \A u \in Thread : ~Freeing(u, j)
      BY <3>1, <2>1 DEF Remembered
    <3>3. \A u \in Thread : Freeing(u, j)' => u = t
      BY <3>2, <1>9
    <3>4. \A u \in Thread : pc'[u] = "store" => pc[u] = "store" /\ u # t
      BY <1>3
    <3> QED
      BY <2>1, <2>2, <3>1, <3>3, <3>4, <1>3, <1>11 DEF Remembered
  <2>3. CASE j # i
    <3>1. live'[j] = live[j] /\ (Held(j)' <=> Held(j))
      BY <2>3, <1>4, <1>10
    <3>2. \A u \in Thread : Freeing(u, j)' <=> Freeing(u, j)
      BY <2>3, <1>9
    <3> QED
      BY <2>1, <3>1, <3>2, <1>3 DEF Remembered
  <2> QED
    BY <2>2, <2>3
<1>14. AllRemembered'
  BY <1>13 DEF AllRemembered
<1> QED
  BY <1>5, <1>6, <1>7, <1>8, <1>12, <1>14 DEF IInv

\* The store of a stale mask wipes bits and sets others: the first are
\* forgotten, the second revived, and the rest is as before.
LEMMA GiveBackKeepsIInv ==
    ASSUME IInv, NEW t \in Thread, GiveBack(t)
    PROVE  IInv'
<1> USE DEF TypeOK, Goto, Label, GiveBack
<1>1. /\ bufferMask' = seen[t] \ {slot[t]} /\ seen[t] \subseteq Buffers
      /\ slot[t] \in Slot /\ mode' = mode /\ live' = live
      /\ pc[t] = "free" /\ pc'[t] = "idle"
  <2>1. pc[t] = "free" /\ seen[t] \subseteq Buffers /\ slot[t] \in Slot
    BY DEF IInv, InScreen
  <2> QED
    BY <2>1 DEF IInv
<1>2. \A u \in Thread \ {t} : pc'[u] = pc[u] /\ seen'[u] = seen[u] /\ slot'[u] = slot[u]
  BY DEF IInv
<1>3. TypeOK'
  BY <1>1 DEF IInv
<1>4. LockHeld' /\ LockReturned'
  BY DEF IInv, LockHeld, LockReturned, Critical
<1>5. NothingBefore' /\ ShownRowsExist'
  BY DEF IInv, NothingBefore, ShownRowsExist
<1>6. InScreen'
  BY <1>1, <1>2 DEF IInv, InScreen, Buffers
<1>7. \A u \in Thread, j \in Slot : Freeing(u, j)' <=> Freeing(u, j) /\ u # t
  BY <1>1, <1>2 DEF Freeing
<1>8. Freeing(t, slot[t])
  BY <1>1 DEF Freeing
<1>9. \A j \in Slot \ {slot[t]} : Held(j)' <=> Held(j)
  BY <1>1, <1>7 DEF Held, Freeing
<1>10. BitsHeld'
  BY <1>1, <1>3, <1>9 DEF IInv, BitsHeld
<1>11. ASSUME NEW j \in Slot \ forgotten' PROVE Remembered(j)'
  <2>1. Remembered(j)
    BY DEF IInv, AllRemembered
  <2>2. CASE j = slot[t]
    <3>1. live'[j] = 0
      BY <2>1, <2>2, <1>1, <1>8 DEF Remembered
    <3>2. \A u \in Thread : ~Freeing(u, j)'
      BY <2>1, <2>2, <1>7, <1>8 DEF Remembered
    <3>3. ~Held(j)'
      BY <3>1, <3>2 DEF Held
    <3> QED
      BY <3>1, <3>2, <3>3 DEF Remembered
  <2>3. CASE j # slot[t]
    <3>1. j \in bufferMask => j \in bufferMask'
      BY <2>3, <1>1
    <3>2. Held(j)' <=> Held(j)
      BY <2>3, <1>9
    <3> QED
      BY <2>1, <3>1, <3>2, <1>1, <1>2, <1>7 DEF Remembered
  <2> QED
    BY <2>2, <2>3
<1>12. AllRemembered'
  BY <1>11 DEF AllRemembered
<1> QED
  BY <1>3, <1>4, <1>5, <1>6, <1>10, <1>12 DEF IInv

LEMMA PostKeepsIInv ==
    ASSUME IInv, NEW t \in Thread, NEW i \in Slot, Post(t, i)
    PROVE  IInv'
<1> USE DEF TypeOK, Post, module, local, history
<1>1. i \in Buffers /\ framebuffer # "none"
  BY DEF IInv, InScreen, NothingBefore
<1>2. yoffset' \in Nat /\ yoffset' + mode.yres <= mode.yres_virtual
  BY <1>1, ModeShape, RowsOfBase DEF IInv, Buffers
<1>3. TypeOK' /\ ShownRowsExist'
  BY <1>2 DEF IInv, ShownRowsExist
<1>4. NothingBefore'
  BY <1>1 DEF NothingBefore
<1>5. LockHeld' /\ LockReturned'
  BY DEF IInv, LockHeld, LockReturned
<1>6. AllRemembered' /\ BitsHeld' /\ InScreen'
  BY UntouchedStaysRemembered
<1> QED
  BY <1>3, <1>4, <1>5, <1>6 DEF IInv

LEMMA NextKeepsIInv == IInv /\ [Next]_vars => IInv'
<1> SUFFICES ASSUME IInv, [Next]_vars PROVE IInv'
  OBVIOUS
<1>1. ASSUME NEW t \in Thread, ThreadNext(t) PROVE IInv'
  BY <1>1, LockStepsKeepIInv, MapKeepsIInv, ChooseKeepsIInv, TakeKeepsIInv, FreeKeepsIInv,
     GiveBackKeepsIInv, PostKeepsIInv DEF ThreadNext
<1>2. CASE UNCHANGED vars
  <2> USE <1>2 DEF vars, module, local, history
  <2>1. AllRemembered' /\ BitsHeld' /\ InScreen'
    BY UntouchedStaysRemembered
  <2> QED
    BY <2>1 DEF IInv, TypeOK, LockHeld, LockReturned, NothingBefore, ShownRowsExist
<1> QED
  BY <1>1, <1>2 DEF Next

\* IInv holds in every reachable state.
THEOREM AlwaysIInv == Spec => []IInv
  BY InitIInv, NextKeepsIInv, PTL DEF Spec

THEOREM TypeCorrect == Spec => []TypeOK
  BY AlwaysIInv, PTL DEF IInv

\* A buffer of the framebuffer has two handles only after the stale store of
\* another buffer's free has wiped its bit.
THEOREM NoBufferTwice == Spec => []SlotsDistinct
<1>1. IInv => SlotsDistinct
  BY DEF IInv, AllRemembered, Remembered, SlotsDistinct
<1> QED
  BY <1>1, AlwaysIInv, PTL

\* With no thread between a load and a store, bufferMask has exactly the bits
\* of the buffers with handles, but for bits that stale stores wiped or set.
THEOREM NoBufferLost == Spec => []MaskExact
<1>1. IInv => MaskExact
  BY DEF IInv, TypeOK, AllRemembered, Remembered, BitsHeld, Held, Freeing, MaskExact
<1> QED
  BY <1>1, AlwaysIInv, PTL

\* Whoever leaves the library without an out-of-buffers error left the lock.
THEOREM LockComesBack == Spec => []LockReturned
  BY AlwaysIInv, PTL DEF IInv

\* fb_post stays within the virtual screen.
THEOREM PostInScreen == Spec => []ShownRowsExist
  BY AlwaysIInv, PTL DEF IInv

=============================================================================
