----------------------------- MODULE GcDraw_proofs -----------------------------
(***************************************************************************)
(* What hwcSet draws: theorems about the buffers it draws to, SwapRing,    *)
(* for any number of buffers and any screen, and about the blits it draws  *)
(* an area with: which layers take part, AreaCompose, for any number of    *)
(* layers of any kind, and which pixels of a layer each blit takes,        *)
(* LayerBlit, for any layer and any area of its frame.                     *)
(***************************************************************************)
EXTENDS SwapRing, AreaCompose, LayerBlit, SequenceTheorems, WellFoundedInduction, TLAPS

----------------------------------------------------------------------------
(***************************************************************************)
(* The least member of a set of numbers, which several searches find.      *)
(***************************************************************************)
LEMMA LeastNatural ==
    ASSUME NEW T \in SUBSET Nat, T # {}
    PROVE  \E x \in T : \A y \in T : x <= y
<1> DEFINE R == OpToRel(<, Nat)
<1>1. IsWellFoundedOn(R, Nat)
  BY NatLessThanWellFounded
<1>2. \A x, y \in Nat : <<y, x>> \in R <=> y < x
  BY DEF OpToRel
<1> HIDE DEF R
<1>3. PICK x \in T : \A y \in T : ~(<<y, x>> \in R)
  BY <1>1, WFMin
<1>4. \A y \in T : y \in Nat /\ x \in Nat /\ ~(y < x)
  BY <1>2, <1>3
<1>5. \A y \in T : x <= y
  BY <1>4
<1> QED
  BY <1>5

----------------------------------------------------------------------------
(***************************************************************************)
(* SwapRing.                                                               *)
(***************************************************************************)

\* The ring is a ring of distinct buffers with the lowest at its head; one that
\* stands behind a higher one is a buffer whose place was never looked at.
RingShape ==
    /\ \A j, k \in 1..Len(ring) : ring[j] = ring[k] => j = k
    /\ \A k \in 1..Len(ring) : ring[1] <= ring[k]
    /\ \A j, k \in 1..Len(ring) : j < k /\ ring[k] < ring[j] => ring[k] \in misplaced

\* After a 2D frame, the buffer on the screen is in the ring.
ScreenInRing == valid => OnScreen \in ToSet(ring)

\* Only buffers in the ring have a rectangle.
RectsInRing == \A c \in Buffer : swapRect[c] # {} => c \in ToSet(ring)

\* The buffers handed out after b, the one on the screen the last of them.
Since(b) ==
    {c \in Buffer : IF b <= OnScreen THEN b < c /\ c <= OnScreen ELSE b < c \/ c <= OnScreen}

\* What a buffer misses was drawn by one handed out since.
Tracked ==
    valid => \A b \in Buffer : \A x \in Cell :
        x \notin fresh[b] /\ x \notin lost => \E c \in Since(b) : x \in swapRect[c]

RingInv ==
    /\ TypeOK /\ RingShape /\ ScreenInRing /\ RectsInRing
    /\ DisplayedFrameComplete /\ Tracked

LEMMA InitRingInv == Init => RingInv
<1> SUFFICES ASSUME Init
             PROVE  RingInv
  OBVIOUS
<1> USE RingAssumption DEF Init, Buffer
<1>1. ring \in Seq(Buffer) /\ Len(ring) = 0
  BY EmptySeq
<1>2. TypeOK
  <2>1. valid \in BOOLEAN
    BY Zenon
  <2>2. /\ target \in Buffer \union {0} /\ back \in Buffer /\ lost \subseteq Cell
        /\ swapRect \in [Buffer -> SUBSET Cell] /\ fresh \in [Buffer -> SUBSET Cell]
        /\ misplaced \subseteq Buffer
    OBVIOUS
  <2> QED
    BY <1>1, <2>1, <2>2, Zenon DEF TypeOK
<1>3. RingShape
  BY <1>1 DEF RingShape
<1>4. ScreenInRing /\ RectsInRing /\ DisplayedFrameComplete /\ Tracked
  BY DEF ScreenInRing, RectsInRing, DisplayedFrameComplete, Tracked
<1> QED
  BY <1>2, <1>3, <1>4 DEF RingInv

----------------------------------------------------------------------------
(* The order in which buffers are handed out. *)

\* Handing out one more buffer puts it on the screen.
LEMMA SwapShows ==
    ASSUME back \in Buffer, Swap
    PROVE  back' \in Buffer /\ OnScreen' = back
  BY RingAssumption DEF Swap, OnScreen, Buffer

\* The back buffer is the one all others were handed out after.
LEMMA SinceBack ==
    ASSUME back \in Buffer
    PROVE  Since(back) = Buffer \ {back}
  BY RingAssumption DEF Since, OnScreen, Buffer

\* The others have one more buffer behind them, and had not got it before.
LEMMA SinceOther ==
    ASSUME back \in Buffer, Swap, NEW b \in Buffer \ {back}
    PROVE  Since(b)' = Since(b) \union {back} /\ back \notin Since(b)
  BY RingAssumption DEF Since, OnScreen, Buffer, Swap

----------------------------------------------------------------------------
(* Detection of buffers. *)

\* The sequence r is s with e as its i-th element.
InsertedIn(S, s, i, e, r) ==
    /\ r \in Seq(S)
    /\ Len(r) = Len(s) + 1
    /\ \A k \in 1..(Len(s) + 1) : r[k] = IF k < i THEN s[k] ELSE IF k = i THEN e ELSE s[k - 1]

\* What InsertAt does to a sequence.
LEMMA InsertedElements ==
    ASSUME NEW S, NEW s \in Seq(S), NEW i \in 1..(Len(s) + 1), NEW e \in S
    PROVE  InsertedIn(S, s, i, e, InsertAt(s, i, e))
<1> DEFINE a == SubSeq(s, 1, i - 1)
           c == SubSeq(s, i, Len(s))
           ae == a \o <<e>>
<1>1. Len(s) \in Nat /\ \A k \in 1..Len(s) : s[k] \in S
  BY LenProperties, ElementOfSeq
<1>2. /\ a \in Seq(S) /\ Len(a) = i - 1
      /\ \A k \in 1..(i - 1) : a[k] = s[k]
  <2>1. /\ a \in Seq(S) /\ Len(a) = IF 1 <= i - 1 THEN i - 1 - 1 + 1 ELSE 0
        /\ \A k \in 1..(i - 1 - 1 + 1) : a[k] = s[1 + k - 1]
    BY <1>1, SubSeqProperties
  <2> QED
    BY <2>1
<1>3. /\ c \in Seq(S) /\ Len(c) = (Len(s) - i) + 1
      /\ \A k \in 1..((Len(s) - i) + 1) : c[k] = s[(i + k) - 1]
  <2>1. /\ c \in Seq(S) /\ Len(c) = IF i <= Len(s) THEN (Len(s) - i) + 1 ELSE 0
        /\ \A k \in 1..((Len(s) - i) + 1) : c[k] = s[(i + k) - 1]
    BY <1>1, SubSeqProperties
  <2> QED
    BY <1>1, <2>1
<1> HIDE DEF a, c
<1>4. <<e>> \in Seq(S) /\ Len(<<e>>) = 1 /\ <<e>>[1] = e
  OBVIOUS
<1>5. /\ ae \in Seq(S) /\ Len(ae) = i
      /\ \A k \in 1..i : ae[k] = IF k < i THEN s[k] ELSE e
  <2>1. /\ ae \in Seq(S) /\ Len(ae) = Len(a) + Len(<<e>>)
        /\ \A k \in 1..(Len(a) + Len(<<e>>)) :
               ae[k] = IF k <= Len(a) THEN a[k] ELSE <<e>>[k - Len(a)]
    BY <1>2, <1>4, ConcatProperties
  <2> QED
    BY <1>1, <1>2, <1>4, <2>1
<1> HIDE DEF ae
<1>6. /\ ae \o c \in Seq(S) /\ Len(ae \o c) = Len(ae) + Len(c)
      /\ \A k \in 1..(Len(ae) + Len(c)) :
             (ae \o c)[k] = IF k <= Len(ae) THEN ae[k] ELSE c[k - Len(ae)]
  BY <1>3, <1>5, ConcatProperties
<1>7. \A k \in 1..(Len(s) + 1) : k > i => (k - i) \in 1..((Len(s) - i) + 1) /\ (i + (k - i)) - 1 = k - 1
  BY <1>1
<1>8. InsertAt(s, i, e) = ae \o c
  BY DEF InsertAt, ae, a, c
<1> QED
  BY <1>1, <1>3, <1>5, <1>6, <1>7, <1>8 DEF InsertedIn

\* The nodes are those of the ring with b behind the first p of them.
Placed(nodes, p, b) ==
    /\ nodes \in Seq(Buffer) /\ Len(nodes) = Len(ring) + 1
    /\ \A k \in 1..Len(nodes) :
        nodes[k] = IF k <= p THEN ring[k] ELSE IF k = p + 1 THEN b ELSE ring[k - 1]

\* Where a new buffer goes: it is lower than all, or it goes behind the first
\* node after the head that it fits behind, or behind all.
LEMMA InsertedPlace ==
    ASSUME ring \in Seq(Buffer), NEW b \in Buffer
    PROVE  \/ /\ Placed(Inserted(b), 0, b)
              /\ ring = <<>> \/ b < ring[1]
           \/ \E p \in 1..Len(ring) :
                /\ Placed(Inserted(b), p, b)
                /\ ~(b < ring[1])
                /\ p < Len(ring) => b < ring[p + 1]
                /\ \A k \in 2..(Len(ring) - 1) : ring[k] < b /\ b < ring[k + 1] => p <= k
<1> DEFINE n == Len(ring)
<1>1. n \in Nat
  BY LenProperties
<1>2. CASE ring = <<>> \/ b < ring[1]
  <2>1. Inserted(b) = <<b>> \o ring
    BY <1>2, Zenon DEF Inserted
  <2>2. <<b>> \in Seq(Buffer) /\ Len(<<b>>) = 1 /\ <<b>>[1] = b
    OBVIOUS
  <2>3. /\ <<b>> \o ring \in Seq(Buffer) /\ Len(<<b>> \o ring) = Len(<<b>>) + n
        /\ \A k \in 1..(Len(<<b>>) + n) :
               (<<b>> \o ring)[k] = IF k <= Len(<<b>>) THEN <<b>>[k] ELSE ring[k - Len(<<b>>)]
    BY <2>2, ConcatProperties
  <2>4. Placed(Inserted(b), 0, b)
    BY <1>1, <2>1, <2>2, <2>3 DEF Placed
  <2> QED
    BY <1>2, <2>4
<1>3. CASE ~(ring = <<>> \/ b < ring[1])
  <2> DEFINE fits == {k \in 2..(n - 1) : ring[k] < b /\ b < ring[k + 1]}
             place == IF fits = {} THEN n ELSE CHOOSE k \in fits : \A j \in fits : k <= j
  <2>1. Inserted(b) = InsertAt(ring, place + 1, b)
    BY <1>3, Zenon DEF Inserted
  <2>2. n >= 1
    BY <1>1, <1>3, EmptySeq
  <2>3. /\ place \in 1..n /\ (place < n => b < ring[place + 1])
        /\ \A k \in fits : place <= k
    <3>1. CASE fits = {}
      BY <2>2, <3>1
    <3>2. CASE fits # {}
      <4>1. fits \in SUBSET Nat
        BY <1>1
      <4>2. \E k \in fits : \A j \in fits : k <= j
        BY <3>2, <4>1, LeastNatural
      <4>3. place \in fits /\ \A j \in fits : place <= j
        BY <3>2, <4>2
      <4>4. \A k \in fits : k \in 1..n /\ b < ring[k + 1]
        BY <1>1
      <4> HIDE DEF fits, place
      <4> QED
        BY <4>3, <4>4, Zenon
    <3> QED
      BY <3>1, <3>2
  <2> HIDE DEF fits, place
  <2>4. place + 1 \in 1..(n + 1)
    BY <1>1, <2>3
  <2>5. /\ Inserted(b) \in Seq(Buffer)
        /\ Len(Inserted(b)) = n + 1
        /\ \A k \in 1..(n + 1) :
             Inserted(b)[k] = IF k < place + 1 THEN ring[k] ELSE IF k = place + 1 THEN b ELSE ring[k - 1]
    <3>1. \A q \in 1..(Len(ring) + 1) : InsertedIn(Buffer, ring, q, b, InsertAt(ring, q, b))
      BY InsertedElements, Zenon
    <3> QED
      BY <2>1, <2>4, <3>1, Zenon DEF InsertedIn
  <2>6. Placed(Inserted(b), place, b)
    BY <1>1, <2>3, <2>5 DEF Placed
  <2> QED
    BY <1>3, <2>3, <2>6 DEF fits
<1> QED
  BY <1>2, <1>3

\* A new buffer keeps the ring in shape: it can only be misplaced if it goes
\* between the head and the node after it, the place nobody looks at.
LEMMA NewBufferKeepsShape ==
    ASSUME ring \in Seq(Buffer), RingShape, NEW b \in Buffer, b \notin ToSet(ring),
           ring' = Inserted(b), misplaced' = misplaced \union {c \in {b} : Skipped(c)}
    PROVE  /\ ring' \in Seq(Buffer) /\ RingShape'
           /\ ToSet(ring') = ToSet(ring) \union {b}
<1> DEFINE n == Len(ring)
<1>1. /\ n \in Nat /\ b \in Nat /\ DOMAIN ring = 1..n
      /\ \A k \in 1..n : ring[k] \in Nat /\ ring[k] \in ToSet(ring) /\ ring[k] # b
  BY RingAssumption, LenProperties, ElementOfSeq DEF Buffer, ToSet
<1>2. PICK p \in 0..n :
        /\ Placed(ring', p, b)
        /\ p = 0 => ring = <<>> \/ b < ring[1]
        /\ p > 0 => /\ ~(b < ring[1])
                    /\ p < n => b < ring[p + 1]
                    /\ \A k \in 2..(n - 1) : ring[k] < b /\ b < ring[k + 1] => p <= k
  <2>1. CASE Placed(Inserted(b), 0, b) /\ (ring = <<>> \/ b < ring[1])
    <3>1. 0 \in 0..n /\ ~(0 > 0)
      BY <1>1
    <3> QED
      BY <2>1, <3>1, Zenon
  <2>2. CASE \E p \in 1..n :
                /\ Placed(Inserted(b), p, b)
                /\ ~(b < ring[1])
                /\ p < n => b < ring[p + 1]
                /\ \A k \in 2..(n - 1) : ring[k] < b /\ b < ring[k + 1] => p <= k
    <3>1. \A p \in 1..n : p \in 0..n /\ p # 0
      BY <1>1
    <3> QED
      BY <2>2, <3>1, Zenon
  <2> QED
    BY <2>1, <2>2, InsertedPlace
<1>3. /\ ring' \in Seq(Buffer) /\ Len(ring') = n + 1 /\ DOMAIN ring' = 1..(n + 1)
      /\ \A k \in 1..(n + 1) :
           ring'[k] = IF k <= p THEN ring[k] ELSE IF k = p + 1 THEN b ELSE ring[k - 1]
  BY <1>2, LenProperties DEF Placed
\* The old place of the node that is now at k.
<1> DEFINE old(k) == IF k <= p THEN k ELSE k - 1
<1>4. \A k \in 1..(n + 1) : IF k = p + 1 THEN ring'[k] = b
                            ELSE old(k) \in 1..n /\ ring'[k] = ring[old(k)]
  BY <1>1, <1>3
<1>5. \A j, k \in 1..(n + 1) : j # p + 1 /\ k # p + 1 =>
          (j < k <=> old(j) < old(k)) /\ (j = k <=> old(j) = old(k))
  BY <1>1
<1>6. p + 1 \in 1..(n + 1) /\ ring'[p + 1] = b
  BY <1>1, <1>4
<1>7. ToSet(ring') = ToSet(ring) \union {b}
  <2>1. ToSet(ring) = {ring[k] : k \in 1..n} /\ ToSet(ring') = {ring'[k] : k \in 1..(n + 1)}
    BY <1>1, <1>3 DEF ToSet
  <2>2. ASSUME NEW k \in 1..n
        PROVE  \E j \in 1..(n + 1) : ring'[j] = ring[k]
    <3>1. CASE k <= p
      BY <1>1, <1>3, <3>1
    <3>2. CASE k > p
      <4>1. k + 1 \in 1..(n + 1) /\ ~(k + 1 <= p) /\ k + 1 # p + 1 /\ (k + 1) - 1 = k
        BY <1>1, <3>2
      <4> QED
        BY <1>3, <4>1
    <3> QED
      BY <1>1, <3>1, <3>2
  <2>3. \A k \in 1..(n + 1) : ring'[k] = b \/ ring'[k] \in ToSet(ring)
    BY <1>1, <1>4
  <2> QED
    BY <1>6, <2>1, <2>2, <2>3
<1> HIDE DEF old
<1>8. \A j, k \in 1..(n + 1) : ring'[j] = ring'[k] => j = k
  <2> SUFFICES ASSUME NEW j \in 1..(n + 1), NEW k \in 1..(n + 1), ring'[j] = ring'[k]
               PROVE  j = k
    OBVIOUS
  <2>1. CASE j # p + 1 /\ k # p + 1
    <3>1. ring[old(j)] = ring[old(k)] /\ old(j) \in 1..n /\ old(k) \in 1..n
      BY <1>4, <2>1
    <3> QED
      BY <1>5, <2>1, <3>1 DEF RingShape
  <2>2. CASE j = p + 1 /\ k # p + 1
    BY <1>1, <1>4, <2>2
  <2>3. CASE j # p + 1 /\ k = p + 1
    BY <1>1, <1>4, <2>3
  <2> QED
    BY <2>1, <2>2, <2>3
<1>9. \A k \in 1..(n + 1) : ring'[1] <= ring'[k]
  <2> SUFFICES ASSUME NEW k \in 1..(n + 1)
               PROVE  ring'[1] <= ring'[k]
    OBVIOUS
  <2>1. \A j \in 1..n : ring[1] <= ring[j]
    BY DEF RingShape
  <2>2. CASE p = 0
    <3>1. ring'[1] = b
      BY <1>6, <2>2
    <3>2. n > 0 => b < ring[1]
      BY <1>2, <2>2
    <3>3. ring'[k] = b \/ \E j \in 1..n : ring'[k] = ring[j]
      BY <1>4
    <3>4. n > 0 => 1 \in 1..n
      BY <1>1
    <3> QED
      BY <1>1, <2>1, <3>1, <3>2, <3>3, <3>4
  <2>3. CASE p # 0
    <3>1. ring'[1] = ring[1] /\ 1 \in 1..n /\ ~(b < ring[1])
      BY <1>1, <1>2, <1>3, <2>3
    <3>2. ring'[k] = b \/ \E j \in 1..n : ring'[k] = ring[j]
      BY <1>4
    <3> QED
      BY <1>1, <2>1, <3>1, <3>2
  <2> QED
    BY <2>2, <2>3
<1>10. ASSUME ~Skipped(b), NEW j \in 1..p
       PROVE  ring[j] < b
  <2> DEFINE higher == {i \in 1..p : b < ring[i]}
  <2>1. ASSUME higher # {}  PROVE FALSE
    <3>1. higher \in SUBSET Nat
      BY <1>1
    <3>2. PICK i \in higher : \A h \in higher : i <= h
      BY <2>1, <3>1, LeastNatural
    <3>3. i \in 1..p /\ b < ring[i] /\ p > 0 /\ i \in 1..n
      BY <1>1, <3>2
    <3>4. i # 1
      BY <1>2, <3>3
    <3>5. i # 2
      <4>1. ring[1] < b
        <5>1. ~(b < ring[1]) /\ 1 \in 1..n
          BY <1>1, <1>2, <3>3
        <5> QED
          BY <1>1, <5>1
      <4>2. i = 2 => Skipped(b)
        BY <1>1, <3>3, <4>1 DEF Skipped
      <4> QED
        BY <1>10, <4>2
    <3>6. i - 1 \in 1..p /\ i - 1 \in 2..(n - 1) /\ (i - 1) + 1 = i /\ i - 1 < i /\ i - 1 \in 1..n
      BY <1>1, <3>3, <3>4, <3>5
    <3>7. ~(b < ring[i - 1])
      <4>1. i - 1 \notin higher
        BY <3>2, <3>6
      <4> QED
        BY <3>6, <4>1
    <3>8. ring[i - 1] < b
      BY <1>1, <3>6, <3>7
    <3>9. p <= i - 1
      BY <1>2, <3>3, <3>6, <3>8
    <3> QED
      BY <3>3, <3>9
  <2>2. j \notin higher /\ j \in 1..n
    BY <1>1, <2>1
  <2> QED
    BY <1>1, <2>2
<1>11. ASSUME NEW j \in 1..(n + 1), NEW k \in 1..(n + 1), j < k, ring'[k] < ring'[j]
       PROVE  ring'[k] \in misplaced'
  <2>1. \A i, h \in 1..n : i < h /\ ring[h] < ring[i] => ring[h] \in misplaced
    BY DEF RingShape
  <2>2. misplaced \subseteq misplaced' /\ (Skipped(b) => b \in misplaced')
    OBVIOUS
  <2>3. CASE j # p + 1 /\ k # p + 1
    <3>1. /\ ring'[j] = ring[old(j)] /\ ring'[k] = ring[old(k)]
          /\ old(j) \in 1..n /\ old(k) \in 1..n /\ old(j) < old(k)
      BY <1>4, <1>5, <1>11, <2>3
    <3>2. ring[old(k)] < ring[old(j)]
      BY <1>11, <3>1
    <3> QED
      BY <2>1, <2>2, <3>1, <3>2, Zenon
  <2>4. CASE k = p + 1
    <3>1. j \in 1..p /\ ring'[j] = ring[j] /\ ring'[k] = b /\ j \in 1..n
      BY <1>1, <1>3, <1>6, <1>11, <2>4
    <3>2. ~(ring[j] < b)
      BY <1>1, <1>11, <3>1
    <3>3. Skipped(b)
      BY <1>10, <3>1, <3>2
    <3> QED
      BY <2>2, <3>1, <3>3
  <2>5. CASE j = p + 1 /\ k # p + 1
    <3>1. ring'[k] = ring[k - 1] /\ k - 1 \in 1..n /\ p + 1 < k /\ p < n /\ ring'[j] = b
      BY <1>1, <1>3, <1>6, <1>11, <2>5
    <3>2. p # 0
      <4>1. CASE p = 0
        <5>1. b < ring[1] /\ 1 \in 1..n /\ ring[1] <= ring[k - 1]
          BY <1>1, <1>2, <3>1, <4>1 DEF RingShape
        <5> QED
          BY <1>1, <1>11, <3>1, <5>1
      <4> QED
        BY <4>1
    <3>3. b < ring[p + 1] /\ p + 1 \in 1..n
      BY <1>1, <1>2, <3>1, <3>2
    <3>4. ring[k - 1] < ring[p + 1]
      BY <1>1, <1>11, <3>1, <3>3
    <3>5. p + 1 # k - 1 /\ p + 1 < k - 1
      BY <1>1, <3>1, <3>3, <3>4, <1>11
    <3> QED
      BY <2>1, <2>2, <3>1, <3>3, <3>4, <3>5
  <2> QED
    BY <2>3, <2>4, <2>5
<1> QED
  BY <1>3, <1>7, <1>8, <1>9, <1>11 DEF RingShape

\* Detection keeps the ring in shape and the target in it.
LEMMA RingGrows ==
    ASSUME TypeOK, RingShape, ring' = Detected,
           misplaced' = misplaced \union {b \in {back} : Skipped(b)}
    PROVE  /\ ring' \in Seq(Buffer) /\ RingShape'
           /\ ToSet(ring') = ToSet(ring) \union {back}
<1>1. ring \in Seq(Buffer) /\ back \in Buffer
  BY DEF TypeOK
<1>2. CASE back \in ToSet(ring)
  <2>1. ring' = ring /\ misplaced' = misplaced
    BY <1>2 DEF Detected, Skipped
  <2> QED
    BY <1>1, <1>2, <2>1 DEF RingShape
<1>3. CASE back \notin ToSet(ring)
  <2>1. ring' = Inserted(back)
    BY <1>3 DEF Detected
  <2> QED
    BY <1>1, <1>3, <2>1, NewBufferKeepsShape
<1> QED
  BY <1>2, <1>3

----------------------------------------------------------------------------
(* A frame composed in 2D. *)

\* What the other buffers of the ring drew.
DrawnByOthers(nodes) == UNION {swapRect[b] : b \in ToSet(nodes) \ {back}}

\* What is copied: what others in the ring drew outside the dirty cells.
LEMMA CopiedCells ==
    ASSUME NEW nodes, NEW dirty, NEW x
    PROVE  x \in Copied(nodes, dirty) <=>
              /\ dirty # Cell /\ Len(nodes) # 1 /\ x \notin dirty
              /\ \E c \in ToSet(nodes) : c # back /\ x \in swapRect[c]
<1>1. CASE dirty = Cell \/ Len(nodes) = 1
  BY <1>1, Zenon DEF Copied
<1>2. CASE ~(dirty = Cell \/ Len(nodes) = 1)
  <2>1. Copied(nodes, dirty) = DrawnByOthers(nodes) \ dirty
    BY <1>2, Zenon DEF Copied, DrawnByOthers
  <2>2. x \in DrawnByOthers(nodes) <=> \E c \in ToSet(nodes) : c # back /\ x \in swapRect[c]
    BY DEF DrawnByOthers
  <2> QED
    BY <1>2, <2>1, <2>2
<1> QED
  BY <1>1, <1>2

LEMMA CopiedInScreen ==
    ASSUME TypeOK, NEW nodes \in Seq(Buffer), NEW dirty \in SUBSET Cell
    PROVE  Copied(nodes, dirty) \subseteq Cell
<1>1. \A b \in ToSet(nodes) : swapRect[b] \subseteq Cell
  BY LenProperties DEF ToSet, TypeOK
<1> QED
  BY <1>1, Zenon DEF Copied

\* A ring with more than one buffer in it does not have length one.
LEMMA TwoInRing ==
    ASSUME NEW nodes \in Seq(Buffer), NEW b \in ToSet(nodes), NEW c \in ToSet(nodes), b # c
    PROVE  Len(nodes) # 1
  BY LenProperties DEF ToSet

\* What a 2D frame does to the scene and the rectangles.
LEMMA Frame2DEffect ==
    ASSUME TypeOK, RingShape, NEW dirty \in SUBSET Cell, NEW drawn \in SUBSET Cell,
           Frame2D(dirty, drawn)
    PROVE  /\ ring' \in Seq(Buffer) /\ RingShape'
           /\ ToSet(ring') = ToSet(ring) \union {back}
           /\ target' = back /\ Swap
           /\ swapRect' = [swapRect EXCEPT ![back] = dirty]
           /\ valid' = TRUE
           /\ misplaced' \subseteq Buffer
           /\ \A x \in Cell : x \notin lost' =>
                /\ x \in dirty => x \in drawn
                /\ x \notin dirty => x \notin lost /\ valid
                /\ x \in Copied(ring', dirty) => x \in drawn /\ Previous(ring', back) = OnScreen
           /\ \A x \in Cell :
                \/ x \in dirty /\ x \in drawn
                \/ /\ x \notin dirty /\ x \in Copied(ring', dirty) /\ x \in drawn
                   /\ x \in fresh[Previous(ring', back)]
                \/ x \notin dirty /\ x \notin Copied(ring', dirty) /\ x \in fresh[back]
                => x \in fresh'[back]
           /\ \A b \in Buffer \ {back} : fresh'[b] = fresh[b] \ dirty
           /\ fresh' \in [Buffer -> SUBSET Cell]
           /\ lost' \subseteq Cell
<1> USE DEF Frame2D
<1> DEFINE copied == Copied(ring', dirty)
           kept == IF Previous(ring', back) = OnScreen THEN {} ELSE copied
           outside == IF valid THEN {} ELSE Cell \ dirty
<1>1. /\ ring' = Detected /\ target' = back /\ Swap /\ valid' = TRUE
      /\ misplaced' = misplaced \union {b \in {back} : Skipped(b)}
  OBVIOUS
<1>2. /\ ring' \in Seq(Buffer) /\ RingShape'
      /\ ToSet(ring') = ToSet(ring) \union {back}
  BY <1>1, RingGrows
<1>3. copied \subseteq Cell
  BY <1>2, CopiedInScreen
<1>4. swapRect' = [swapRect EXCEPT ![back] = dirty]
  OBVIOUS
<1> HIDE DEF copied
<1>5. lost' = (lost \ dirty) \union (((copied \union dirty) \ drawn) \union kept \union outside)
  BY Zenon DEF copied, kept, outside, Missed
<1>6. fresh' = [b \in Buffer |->
                IF b = back
                THEN (drawn \intersect dirty) \union SwapRectangle(ring', copied \intersect drawn)
                         \union ((fresh[b] \ dirty) \ (copied \intersect drawn))
                ELSE fresh[b] \ dirty]
  BY Zenon DEF copied
<1>7. back \in Buffer /\ fresh \in [Buffer -> SUBSET Cell] /\ lost \subseteq Cell /\ misplaced \subseteq Buffer
  BY DEF TypeOK
<1>8. fresh'[back] = (drawn \intersect dirty)
                         \union (fresh[Previous(ring', back)] \intersect (copied \intersect drawn))
                         \union ((fresh[back] \ dirty) \ (copied \intersect drawn))
  BY <1>6, <1>7 DEF SwapRectangle
<1>9. \A b \in Buffer \ {back} : fresh'[b] = fresh[b] \ dirty
  BY <1>6
<1>10. fresh' \in [Buffer -> SUBSET Cell]
  <2>1. fresh'[back] \subseteq Cell
    BY <1>3, <1>7, <1>8
  <2>2. \A b \in Buffer : fresh'[b] \in SUBSET Cell
    BY <1>7, <1>9, <2>1
  <2>3. DOMAIN fresh' = Buffer /\ fresh' = [b \in DOMAIN fresh' |-> fresh'[b]]
    BY <1>6, Zenon
  <2> QED
    BY <2>2, <2>3
<1>11. lost' \subseteq Cell
  BY <1>3, <1>5, <1>7
<1>12. misplaced' \subseteq Buffer
  BY <1>1, <1>7
<1>13. /\ \A x : x \in kept <=> x \in copied /\ Previous(ring', back) # OnScreen
       /\ \A x \in Cell : x \in outside <=> x \notin dirty /\ ~valid
  BY Zenon
<1> HIDE DEF kept, outside
<1>14. \A x \in Cell : x \notin lost' =>
          /\ x \in dirty => x \in drawn
          /\ x \notin dirty => x \notin lost /\ valid
          /\ x \in copied => x \in drawn /\ Previous(ring', back) = OnScreen
  BY <1>5, <1>13, Zenon
<1>15. \A x \in Cell :
          \/ x \in dirty /\ x \in drawn
          \/ /\ x \notin dirty /\ x \in copied /\ x \in drawn
             /\ x \in fresh[Previous(ring', back)]
          \/ x \notin dirty /\ x \notin copied /\ x \in fresh[back]
          => x \in fresh'[back]
  BY <1>8
<1> QED
  BY <1>1, <1>2, <1>4, <1>9, <1>10, <1>11, <1>12, <1>14, <1>15 DEF copied

LEMMA Frame2DKeepsRingInv ==
    ASSUME RingInv, NEW dirty \in SUBSET Cell, NEW drawn \in SUBSET Cell, Frame2D(dirty, drawn)
    PROVE  RingInv'
<1> DEFINE copied == Copied(ring', dirty)
<1>1. /\ TypeOK /\ RingShape /\ ScreenInRing /\ RectsInRing
      /\ DisplayedFrameComplete /\ Tracked
  BY DEF RingInv
<1>2. /\ ring' \in Seq(Buffer) /\ RingShape' /\ ToSet(ring') = ToSet(ring) \union {back}
      /\ target' = back /\ Swap /\ valid' = TRUE /\ misplaced' \subseteq Buffer
      /\ swapRect' = [swapRect EXCEPT ![back] = dirty]
      /\ fresh' \in [Buffer -> SUBSET Cell] /\ lost' \subseteq Cell
      /\ \A b \in Buffer \ {back} : fresh'[b] = fresh[b] \ dirty
  BY <1>1, Frame2DEffect
<1>3. back \in Buffer /\ back' \in Buffer /\ OnScreen' = back
  BY <1>1, <1>2, SwapShows DEF TypeOK
<1>4. swapRect \in [Buffer -> SUBSET Cell]
  BY <1>1 DEF TypeOK
<1>5. TypeOK'
  <2>1. swapRect' \in [Buffer -> SUBSET Cell]
    BY <1>2, <1>4
  <2>2. valid' \in BOOLEAN /\ target' \in Buffer \union {0}
    BY <1>2, <1>3, Zenon
  <2> QED
    BY <1>2, <1>3, <2>1, <2>2, Zenon DEF TypeOK
<1>6. ScreenInRing'
  BY <1>2, <1>3 DEF ScreenInRing
<1>7. RectsInRing'
  <2> SUFFICES ASSUME NEW c \in Buffer, swapRect'[c] # {}
               PROVE  c \in ToSet(ring')
    BY DEF RectsInRing
  <2>1. CASE c = back
    BY <1>2, <2>1
  <2>2. CASE c # back
    <3>1. swapRect[c] # {}
      BY <1>2, <1>4, <2>2
    <3> QED
      BY <1>1, <1>2, <3>1 DEF RectsInRing
  <2> QED
    BY <2>1, <2>2
<1>8. ASSUME NEW c \in Buffer, NEW x \in Cell, c # back, x \in swapRect[c], x \notin dirty
      PROVE  x \in copied
  <2>1. c \in ToSet(ring') /\ back \in ToSet(ring')
    BY <1>1, <1>2, <1>8 DEF RectsInRing
  <2>2. Len(ring') # 1
    BY <1>2, <1>8, <2>1, TwoInRing
  <2>3. dirty # Cell
    BY <1>8
  <2> QED
    BY <1>8, <2>1, <2>2, <2>3, CopiedCells
<1>9. ASSUME NEW x \in Cell, x \notin lost'
      PROVE  x \in fresh'[back]
  <2>1. /\ x \in dirty => x \in drawn
        /\ x \notin dirty => x \notin lost /\ valid
        /\ x \in copied => x \in drawn /\ Previous(ring', back) = OnScreen
    BY <1>1, <1>9, Frame2DEffect
  <2>2. CASE x \in dirty
    BY <1>1, <2>1, <2>2, Frame2DEffect
  <2>3. CASE x \notin dirty /\ x \in copied
    <3>1. ring # <<>>
      <4>1. OnScreen \in ToSet(ring)
        BY <1>1, <2>1, <2>3 DEF ScreenInRing
      <4> QED
        BY <4>1 DEF ToSet
    <3>2. x \in fresh[Previous(ring', back)]
      BY <1>1, <2>1, <2>3, <3>1 DEF DisplayedFrameComplete
    <3> QED
      BY <1>1, <2>1, <2>3, <3>2, Frame2DEffect
  <2>4. CASE x \notin dirty /\ x \notin copied
    <3>1. x \in fresh[back]
      <4>1. ~\E c \in Since(back) : x \in swapRect[c]
        BY <1>3, <1>8, <2>4, SinceBack
      <4> QED
        BY <1>1, <1>3, <2>1, <2>4, <4>1, Zenon DEF Tracked
    <3> QED
      BY <1>1, <2>4, <3>1, Frame2DEffect
  <2> QED
    BY <2>2, <2>3, <2>4
<1>10. DisplayedFrameComplete'
  BY <1>3, <1>9 DEF DisplayedFrameComplete
<1>11. Tracked'
  <2> SUFFICES ASSUME NEW b \in Buffer, NEW x \in Cell, x \notin fresh'[b], x \notin lost'
               PROVE  \E c \in Since(b)' : x \in swapRect'[c]
    BY DEF Tracked, Buffer
  <2>1. b \in Buffer \ {back}
    BY <1>9
  <2>2. Since(b)' = Since(b) \union {back} /\ back \notin Since(b)
    BY <1>2, <1>3, <2>1, SinceOther
  <2>3. CASE x \in dirty
    BY <1>2, <1>3, <1>4, <2>2, <2>3
  <2>4. CASE x \notin dirty
    <3>1. x \notin lost /\ valid
      BY <1>1, <2>4, Frame2DEffect
    <3>2. x \notin fresh[b]
      BY <1>2, <2>1, <2>4
    <3>3. PICK c \in Since(b) : x \in swapRect[c]
      BY <1>1, <3>1, <3>2, Zenon DEF Tracked
    <3>4. c \in Buffer /\ c # back
      BY <2>2, <3>3 DEF Since
    <3>5. x \in swapRect'[c]
      BY <1>2, <1>4, <3>3, <3>4
    <3> QED
      BY <2>2, <3>3, <3>5
  <2> QED
    BY <2>3, <2>4
<1> QED
  BY <1>2, <1>5, <1>6, <1>7, <1>10, <1>11 DEF RingInv

\* After a frame by OpenGL the back buffer shows everything; what the others
\* miss is lost with the next partial frame.
LEMMA Frame3DKeepsRingInv ==
    ASSUME RingInv, NEW dirty \in SUBSET Cell, Frame3D(dirty)
    PROVE  RingInv'
<1>1. TypeOK /\ RingShape /\ RectsInRing
  BY DEF RingInv
<1>2. /\ UNCHANGED <<ring, target, swapRect, lost, misplaced>> /\ valid' = FALSE
      /\ fresh' = [b \in Buffer |-> IF b = back THEN Cell ELSE fresh[b] \ dirty]
      /\ Swap
  BY Zenon DEF Frame3D
<1>3. back \in Buffer /\ back' \in Buffer /\ OnScreen' = back
  BY <1>1, <1>2, SwapShows DEF TypeOK
<1>4. TypeOK'
  <2>1. fresh' \in [Buffer -> SUBSET Cell]
    BY <1>1, <1>2 DEF TypeOK
  <2>2. valid' \in BOOLEAN
    BY <1>2, Zenon
  <2> QED
    BY <1>1, <1>2, <1>3, <2>1, <2>2, Zenon DEF TypeOK
<1>5. RingShape' /\ RectsInRing'
  BY <1>1, <1>2 DEF RingShape, RectsInRing
<1>6. DisplayedFrameComplete' /\ Tracked' /\ ScreenInRing'
  BY <1>2, <1>3 DEF DisplayedFrameComplete, Tracked, ScreenInRing
<1> QED
  BY <1>4, <1>5, <1>6 DEF RingInv

LEMMA NextKeepsRingInv == RingInv /\ [Next]_vars => RingInv'
<1> SUFFICES ASSUME RingInv, [Next]_vars
             PROVE  RingInv'
  OBVIOUS
<1>1. CASE UNCHANGED vars
  BY <1>1 DEF vars, RingInv, TypeOK, RingShape, ScreenInRing, RectsInRing,
              DisplayedFrameComplete, Tracked, Since, OnScreen
<1>2. CASE Next
  BY <1>2, Frame2DKeepsRingInv, Frame3DKeepsRingInv DEF Next
<1> QED
  BY <1>1, <1>2

----------------------------------------------------------------------------
\* The inductive invariant holds in every reachable state.
THEOREM AlwaysRingInv == Spec => []RingInv
<1> QED
  BY InitRingInv, NextKeepsRingInv, PTL DEF Spec

\* TypeOK: rectangles, ring and target of hwcSet keep their types.
THEOREM RingTypeCorrect == Spec => []TypeOK
<1>1. RingInv => TypeOK
  BY DEF RingInv
<1> QED
  BY <1>1, AlwaysRingInv, PTL

\* DisplayedFrameComplete: partial frames of hwcSet and the copies of
\* _SwapRectangle put a complete scene on the screen, but for cells a frame has
\* lost: because it failed, was partial after 3D frames, or copied from another
\* buffer than the one on the screen.
THEOREM ScreenComplete == Spec => []DisplayedFrameComplete
<1>1. RingInv => DisplayedFrameComplete
  BY DEF RingInv
<1> QED
  BY <1>1, AlwaysRingInv, PTL

\* MissingIsTracked: the swap rectangles of the ring hold all that a buffer
\* misses and no frame has lost, in whatever order buffers were first seen.
THEOREM NothingMissed == Spec => []MissingIsTracked
<1>1. RingInv => MissingIsTracked
  <2> SUFFICES ASSUME RingInv, valid, NEW b \in Buffer, NEW x \in Cell,
                      x \notin fresh[b], x \notin lost
               PROVE  \E c \in ToSet(ring) \ {b} : x \in swapRect[c]
    BY DEF MissingIsTracked
  <2>1. PICK c \in Since(b) : x \in swapRect[c]
    BY Zenon DEF Tracked, RingInv
  <2>2. c \in Buffer /\ back \in Buffer
    BY <2>1 DEF Since, RingInv, TypeOK
  <2>3. c # b
    <3>1. IF b <= OnScreen THEN b < c /\ c <= OnScreen ELSE b < c \/ c <= OnScreen
      BY <2>1 DEF Since
    <3> QED
      BY <2>2, <3>1, RingAssumption DEF OnScreen, Buffer
  <2>4. c \in ToSet(ring)
    BY <2>1, <2>2 DEF RectsInRing, RingInv
  <2> QED
    BY <2>1, <2>3, <2>4
<1> QED
  BY <1>1, AlwaysRingInv, PTL

\* What RingShape says, of any nodes.
InShape(nodes, wrong) ==
    /\ \A j, k \in 1..Len(nodes) : nodes[j] = nodes[k] => j = k
    /\ \A k \in 1..Len(nodes) : nodes[1] <= nodes[k]
    /\ \A j, k \in 1..Len(nodes) : j < k /\ nodes[k] < nodes[j] => nodes[k] \in wrong

LEMMA PreviousNode ==
    ASSUME NEW nodes, NEW b, NEW h, h = CHOOSE i \in DOMAIN nodes : nodes[i] = b
    PROVE  Previous(nodes, b) = IF h = 1 THEN Last(nodes) ELSE nodes[h - 1]
  BY DEF Previous

\* In a ring in shape, the node before a buffer is the buffer handed out before
\* it, unless one of the three is misplaced.
LEMMA PreviousIsFront ==
    ASSUME NEW nodes \in Seq(Buffer), NEW b \in ToSet(nodes), NEW o \in ToSet(nodes),
           NEW wrong,
           o = IF b = 1 THEN BufferCount ELSE b - 1, b # o, InShape(nodes, wrong)
    PROVE  Previous(nodes, b) = o \/ {b, o, Previous(nodes, b)} \intersect wrong # {}
<1> DEFINE m == Len(nodes)
           p == Previous(nodes, b)
<1>1. /\ m \in Nat /\ DOMAIN nodes = 1..m /\ BufferCount \in Nat \ {0}
      /\ \A k \in 1..m : nodes[k] \in 1..BufferCount
  BY RingAssumption, LenProperties, ElementOfSeq DEF Buffer
<1>0. /\ \A j, k \in 1..m : nodes[j] = nodes[k] => j = k
      /\ \A k \in 1..m : nodes[1] <= nodes[k]
      /\ \A j, k \in 1..m : j < k /\ nodes[k] < nodes[j] => nodes[k] \in wrong
  BY DEF InShape
<1> HIDE DEF m
<1>2. PICK h \in 1..m : nodes[h] = b
  BY <1>1 DEF ToSet
<1>3. PICK j \in 1..m : nodes[j] = o
  BY <1>1 DEF ToSet
<1>4. h = CHOOSE i \in DOMAIN nodes : nodes[i] = b
  BY <1>0, <1>1, <1>2
<1>5. p = IF h = 1 THEN nodes[m] ELSE nodes[h - 1]
  <2>1. Previous(nodes, b) = IF h = 1 THEN Last(nodes) ELSE nodes[h - 1]
    BY <1>4, PreviousNode, Zenon
  <2> QED
    BY <2>1 DEF Last, m
<1>6. b \in 1..BufferCount /\ o \in 1..BufferCount
  BY <1>1, <1>2, <1>3
<1> HIDE DEF p
<1>7. SUFFICES ASSUME p # o
               PROVE  b \in wrong \/ o \in wrong \/ p \in wrong
  BY DEF p
<1>8. CASE b = 1
  <2>1. h = 1
    <3>1. nodes[1] <= nodes[h] /\ 1 \in 1..m /\ nodes[1] >= 1
      BY <1>0, <1>1, <1>2
    <3>2. nodes[1] = nodes[h]
      BY <1>1, <1>2, <1>8, <3>1
    <3> QED
      BY <1>0, <1>2, <3>1, <3>2
  <2>2. p = nodes[m] /\ m \in 1..m
    BY <1>1, <1>2, <1>5, <2>1
  <2>3. j # m
    BY <1>3, <1>7, <2>2
  <2>4. nodes[j] = BufferCount /\ p \in 1..BufferCount /\ p # BufferCount
    BY <1>1, <1>3, <1>7, <1>8, <2>2
  <2>5. nodes[m] < nodes[j]
    BY <1>1, <2>2, <2>4
  <2>6. j < m
    BY <1>1, <2>3
  <2> QED
    BY <1>0, <1>3, <2>2, <2>5, <2>6
<1>9. CASE b # 1
  <2>1. o = b - 1
    BY <1>9
  <2>2. h # 1
    BY <1>0, <1>1, <1>2, <1>3, <1>6, <2>1
  <2>3. p = nodes[h - 1] /\ h - 1 \in 1..m /\ p \in 1..BufferCount
    BY <1>1, <1>2, <1>5, <2>2
  <2>4. j # h - 1 /\ j # h
    BY <1>2, <1>3, <1>7, <2>3
  <2>5. CASE h < j
    BY <1>0, <1>2, <1>3, <1>6, <2>1, <2>5
  <2>6. CASE j < h - 1 /\ p < o
    BY <1>0, <1>3, <1>6, <2>3, <2>6
  <2>7. CASE j < h - 1 /\ o < p
    <3>1. p # b
      <4>1. h - 1 # h
        BY <1>2
      <4> QED
        BY <1>0, <1>2, <2>3, <4>1
    <3>2. b < p /\ h - 1 < h
      BY <1>2, <1>6, <2>1, <2>3, <2>7, <3>1
    <3> QED
      BY <1>0, <1>2, <2>3, <3>2
  <2>8. h < j \/ j < h - 1
    BY <1>2, <1>3, <2>4
  <2>9. p < o \/ o < p
    BY <1>6, <1>7, <2>3
  <2> QED
    BY <2>5, <2>6, <2>7, <2>8, <2>9
<1> QED
  BY <1>8, <1>9

\* CopiesFromFront: a frame after a 2D frame copies from the buffer on the
\* screen, however the ring was filled, unless a misplaced buffer takes part.
THEOREM FrontIsSource == Spec => CopiesFromFront
<1>1. RingInv /\ [Next]_vars =>
        [valid /\ valid' /\ Copied(ring', swapRect'[target']) # {} =>
            \/ Previous(ring', target') = OnScreen
            \/ {target', OnScreen, Previous(ring', target')} \intersect misplaced' # {}]_vars
  <2> SUFFICES ASSUME RingInv, Next, valid, valid', Copied(ring', swapRect'[target']) # {}
               PROVE  \/ Previous(ring', target') = OnScreen
                      \/ {target', OnScreen, Previous(ring', target')} \intersect misplaced' # {}
    BY DEF vars
  <2>1. PICK dirty \in SUBSET Cell, drawn \in SUBSET Cell : Frame2D(dirty, drawn)
    BY Zenon DEF Next, Frame3D
  <2>2. TypeOK /\ RingShape /\ ScreenInRing
    BY DEF RingInv
  <2>3. /\ ring' \in Seq(Buffer) /\ RingShape' /\ ToSet(ring') = ToSet(ring) \union {back}
        /\ target' = back
    BY <2>1, <2>2, Frame2DEffect
  <2>4. OnScreen \in ToSet(ring') /\ back \in ToSet(ring') /\ back \in Buffer
    BY <2>2, <2>3 DEF ScreenInRing, TypeOK
  <2>5. back # OnScreen
    <3>1. CASE BufferCount = 1
      <4>1. \A c \in ToSet(ring') : c = back
        <5>1. \A c \in ToSet(ring') : c \in Buffer
          BY <2>3, LenProperties, ElementOfSeq DEF ToSet
        <5>2. \A c, d \in Buffer : c = d
          BY <3>1 DEF Buffer
        <5> QED
          BY <2>4, <5>1, <5>2
      <4>2. ~\E c \in ToSet(ring') : c # back /\ TRUE
        BY <2>4, <4>1
      <4>3. \A x : x \notin Copied(ring', swapRect'[target'])
        BY <4>2, CopiedCells
      <4> QED
        BY <4>3
    <3>2. CASE BufferCount # 1
      BY <2>4, <3>2, RingAssumption DEF OnScreen, Buffer
    <3> QED
      BY <3>1, <3>2
  <2>6. InShape(ring', misplaced')
    BY <2>3 DEF RingShape, InShape
  <2>7. OnScreen = IF back = 1 THEN BufferCount ELSE back - 1
    BY DEF OnScreen
  <2>8. \/ Previous(ring', back) = OnScreen
        \/ {back, OnScreen, Previous(ring', back)} \intersect misplaced' # {}
    <3> DEFINE o == OnScreen
               wrong == misplaced'
    <3>1. o \in ToSet(ring') /\ o = IF back = 1 THEN BufferCount ELSE back - 1
      BY <2>4, <2>7
    <3>2. InShape(ring', wrong)
      BY <2>6
    <3> HIDE DEF o, wrong
    <3>3. \/ Previous(ring', back) = o
          \/ {back, o, Previous(ring', back)} \intersect wrong # {}
      BY <2>3, <2>4, <2>5, <3>1, <3>2, PreviousIsFront DEF o
    <3> QED
      BY <3>3 DEF o, wrong
  <2> QED
    BY <2>3, <2>8, Zenon
<1> QED
  BY <1>1, AlwaysRingInv, PTL DEF Spec, CopiesFromFront

----------------------------------------------------------------------------
(***************************************************************************)
(* AreaCompose.  Its loops are recursive functions; what they come to is   *)
(* proved from the least step that would say otherwise.                    *)
(***************************************************************************)

(* Loops: functions defined from their value one step earlier. *)

\* What holds at the start, and of a step if of the one before, holds throughout.
LEMMA Upwards ==
    ASSUME NEW a \in Nat, NEW b \in Nat, a <= b, NEW S,
           a \in S, \A n \in (a + 1)..b : n - 1 \in S => n \in S
    PROVE  \A n \in a..b : n \in S
<1> DEFINE T == {n \in a..b : n \notin S}
<1>1. SUFFICES T = {}
  OBVIOUS
<1>2. ASSUME T # {}  PROVE FALSE
  <2>1. T \in SUBSET Nat
    OBVIOUS
  <2> HIDE DEF T
  <2>2. PICK x \in T : \A y \in T : x <= y
    BY <1>2, <2>1, LeastNatural
  <2>3. x \in a..b /\ x \notin S
    BY <2>2 DEF T
  <2>4. x \in (a + 1)..b /\ x - 1 \in a..b /\ x - 1 < x
    BY <2>3
  <2>5. x - 1 \notin T
    BY <2>2, <2>4
  <2>6. x - 1 \in S
    BY <2>5, <2>4 DEF T
  <2> QED
    BY <2>3, <2>4, <2>6
<1> QED
  BY <1>2

\* f goes from first by the steps.
Iterates(f, a, b, first, step) ==
    /\ f[a] = first
    /\ \A n \in (a + 1)..b : f[n] = step[n][f[n - 1]]

LEMMA LoopExists ==
    ASSUME NEW a \in Nat, NEW b \in Nat, a <= b, NEW T, NEW first \in T,
           NEW step \in [(a + 1)..b -> [T -> T]]
    PROVE  \E f \in [a..b -> T] : Iterates(f, a, b, first, step)
<1> DEFINE S == {n \in a..b : \E f \in [a..n -> T] : Iterates(f, a, n, first, step)}
<1>1. a \in S
  <2>1. [n \in a..a |-> first] \in [a..a -> T]
    OBVIOUS
  <2>2. Iterates([n \in a..a |-> first], a, a, first, step)
    BY DEF Iterates
  <2>3. \E f \in [a..a -> T] : Iterates(f, a, a, first, step)
    BY <2>1, <2>2
  <2> QED
    BY <2>3
<1>2. ASSUME NEW n \in (a + 1)..b, n - 1 \in S
      PROVE  n \in S
  <2>1. PICK f \in [a..(n - 1) -> T] : Iterates(f, a, n - 1, first, step)
    BY <1>2
  <2> DEFINE g == [m \in a..n |-> IF m = n THEN step[n][f[n - 1]] ELSE f[m]]
  <2>2. f[n - 1] \in T /\ step[n] \in [T -> T]
    OBVIOUS
  <2>3. step[n][f[n - 1]] \in T
    BY <2>2
  <2>4. g \in [a..n -> T]
    BY <2>3
  <2>5. g[a] = first
    BY <2>1 DEF Iterates
  <2>6. ASSUME NEW m \in (a + 1)..n
        PROVE  g[m] = step[m][g[m - 1]]
    <3>1. CASE m = n
      BY <3>1
    <3>2. CASE m # n
      BY <3>2, <2>1 DEF Iterates
    <3> QED
      BY <3>1, <3>2
  <2> HIDE DEF g
  <2>7. Iterates(g, a, n, first, step)
    BY <2>5, <2>6 DEF Iterates
  <2> QED
    BY <2>4, <2>7
<1> HIDE DEF S
<1>3. \A n \in (a + 1)..b : n - 1 \in S => n \in S
  BY <1>2
<1>4. \A n \in a..b : n \in S
  BY <1>1, <1>3, Upwards
<1>5. b \in S
  BY <1>4
<1> QED
  BY <1>5 DEF S

LEMMA FlattenIs ==
    ASSUME NEW T, NEW ss \in Seq(Seq(T)), Len(ss) # 0
    PROVE  \E f \in [1..Len(ss) -> Seq(T)] :
              /\ f[1] = ss[1]
              /\ \A n \in 2..Len(ss) : f[n] = f[n - 1] \o ss[n]
              /\ FlattenSeq(ss) = f[Len(ss)]
<1> DEFINE Body(f) == [i \in 1..Len(ss) |-> IF i = 1 THEN ss[i] ELSE f[i - 1] \o ss[i]]
           F == CHOOSE f : f = Body(f)
           step == [n \in (1 + 1)..Len(ss) |-> [s \in Seq(T) |-> s \o ss[n]]]
<1>1. FlattenSeq(ss) = F[Len(ss)]
  BY Zenon DEF FlattenSeq
<1>2. Len(ss) \in Nat /\ 1 <= Len(ss) /\ \A n \in 1..Len(ss) : ss[n] \in Seq(T)
  BY LenProperties, ElementOfSeq
<1>3. step \in [(1 + 1)..Len(ss) -> [Seq(T) -> Seq(T)]]
  BY <1>2
<1>4. PICK f \in [1..Len(ss) -> Seq(T)] : Iterates(f, 1, Len(ss), ss[1], step)
  <2> HIDE DEF step
  <2>1. 1 \in Nat /\ Len(ss) \in Nat /\ 1 <= Len(ss) /\ ss[1] \in Seq(T)
    BY <1>2
  <2> QED
    BY <2>1, <1>3, LoopExists, Zenon
<1>5. f[1] = ss[1] /\ \A n \in 2..Len(ss) : f[n] = f[n - 1] \o ss[n]
  <2>1. f[1] = ss[1]
    BY <1>4 DEF Iterates
  <2>2. ASSUME NEW n \in 2..Len(ss)
        PROVE  f[n] = f[n - 1] \o ss[n]
    <3>1. n \in (1 + 1)..Len(ss) /\ n - 1 \in 1..Len(ss)
      BY <1>2
    <3>2. f[n] = step[n][f[n - 1]]
      BY <3>1, <1>4 DEF Iterates
    <3>3. f[n - 1] \in Seq(T)
      BY <3>1
    <3> QED
      BY <3>1, <3>2, <3>3
  <2> QED
    BY <2>1, <2>2
<1> HIDE DEF step
<1>6. f = Body(f)
  <2>1. ASSUME NEW i \in 1..Len(ss)
        PROVE  f[i] = IF i = 1 THEN ss[i] ELSE f[i - 1] \o ss[i]
    <3>1. i # 1 => i \in 2..Len(ss)
      BY <1>2
    <3> QED
      BY <3>1, <1>5, Zenon
  <2> QED
    BY <2>1, Zenon
<1>7. F = Body(F)
  BY <1>6, Zenon
<1> HIDE DEF F
<1>8. F[1] = ss[1] /\ \A n \in 2..Len(ss) : F[n] = F[n - 1] \o ss[n]
  <2>1. ASSUME NEW n \in 1..Len(ss)
        PROVE  F[n] = IF n = 1 THEN ss[n] ELSE F[n - 1] \o ss[n]
    BY <1>7, Zenon
  <2>2. 1 \in 1..Len(ss) /\ \A n \in 2..Len(ss) : n # 1 /\ n \in 1..Len(ss)
    BY <1>2
  <2> QED
    BY <2>1, <2>2, Zenon
<1> HIDE DEF Body
<1>9. \A n \in 1..Len(ss) : n \in {m \in 1..Len(ss) : F[m] = f[m]}
  <2> DEFINE S == {m \in 1..Len(ss) : F[m] = f[m]}
  <2>1. 1 \in S
    BY <1>8, <1>5, <1>2
  <2>2. ASSUME NEW n \in (1 + 1)..Len(ss), n - 1 \in S
        PROVE  n \in S
    <3>1. n \in 2..Len(ss) /\ n \in 1..Len(ss)
      BY <1>2
    <3> QED
      BY <3>1, <2>2, <1>8, <1>5, Zenon
  <2> HIDE DEF S
  <2>3. \A n \in (1 + 1)..Len(ss) : n - 1 \in S => n \in S
    BY <2>2, Zenon
  <2>4. \A n \in 1..Len(ss) : n \in S
    BY <2>1, <2>3, <1>2, Upwards
  <2> QED
    BY <2>4 DEF S
<1>10. FlattenSeq(ss) = f[Len(ss)]
  BY <1>1, <1>9, <1>2
<1> QED
  BY <1>5, <1>10

LEMMA FlattenEmpty == FlattenSeq(<<>>) = <<>>
  BY EmptySeq DEF FlattenSeq

\* One more sequence goes to the end.
LEMMA FlattenAppend ==
    ASSUME NEW T, NEW ss \in Seq(Seq(T)), NEW s \in Seq(T)
    PROVE  FlattenSeq(ss) \in Seq(T) /\ FlattenSeq(Append(ss, s)) = FlattenSeq(ss) \o s
<1> DEFINE more == Append(ss, s)
<1>1. /\ more \in Seq(Seq(T)) /\ Len(more) = Len(ss) + 1 /\ more[Len(ss) + 1] = s
      /\ \A n \in 1..Len(ss) : more[n] = ss[n]
  BY AppendProperties
<1>2. Len(ss) \in Nat /\ Len(more) # 0
  BY <1>1, LenProperties
<1> HIDE DEF more
<1>3. PICK g \in [1..Len(more) -> Seq(T)] :
         /\ g[1] = more[1]
         /\ \A n \in 2..Len(more) : g[n] = g[n - 1] \o more[n]
         /\ FlattenSeq(more) = g[Len(more)]
  BY <1>1, <1>2, FlattenIs, Zenon
<1>4. CASE Len(ss) = 0
  <2>1. ss = <<>>
    BY <1>4, EmptySeq
  <2>2. FlattenSeq(ss) = <<>>
    BY <2>1, FlattenEmpty
  <2>3. FlattenSeq(more) = s
    BY <1>1, <1>3, <1>4
  <2>4. <<>> \in Seq(T) /\ <<>> \o s = s
    BY ConcatEmptySeq, EmptySeq
  <2> QED
    BY <2>2, <2>3, <2>4 DEF more
<1>5. CASE Len(ss) # 0
  <2>1. PICK f \in [1..Len(ss) -> Seq(T)] :
         /\ f[1] = ss[1]
         /\ \A n \in 2..Len(ss) : f[n] = f[n - 1] \o ss[n]
         /\ FlattenSeq(ss) = f[Len(ss)]
    BY <1>5, FlattenIs, Zenon
  <2> DEFINE S == {m \in 1..Len(ss) : g[m] = f[m]}
  <2>2. 1 \in S
    BY <1>1, <1>2, <1>3, <1>5, <2>1
  <2>3. ASSUME NEW n \in (1 + 1)..Len(ss), n - 1 \in S
        PROVE  n \in S
    <3>1. n \in 1..Len(ss) /\ n \in 2..Len(ss) /\ n \in 2..Len(more)
      BY <1>1, <1>2
    <3>2. g[n] = g[n - 1] \o more[n] /\ f[n] = f[n - 1] \o ss[n] /\ more[n] = ss[n]
      BY <3>1, <1>1, <1>3, <2>1, Zenon
    <3> QED
      BY <3>1, <3>2, <2>3, Zenon
  <2> HIDE DEF S
  <2>4. \A n \in (1 + 1)..Len(ss) : n - 1 \in S => n \in S
    BY <2>3, Zenon
  <2>5. Len(ss) \in 1..Len(ss) /\ 1 <= Len(ss)
    BY <1>2, <1>5
  <2>6. \A n \in 1..Len(ss) : n \in S
    BY <2>2, <2>4, <2>5, <1>2, Upwards
  <2>7. g[Len(ss)] = f[Len(ss)]
    BY <2>5, <2>6 DEF S
  <2>8. Len(more) \in 2..Len(more) /\ Len(more) - 1 = Len(ss)
    BY <1>1, <1>2, <1>5
  <2>9. g[Len(more)] = g[Len(more) - 1] \o more[Len(more)]
    BY <2>8, <1>3, Zenon
  <2>10. more[Len(more)] = s
    BY <1>1
  <2>11. f[Len(ss)] \in Seq(T)
    BY <2>1, <2>5
  <2>12. FlattenSeq(more) = FlattenSeq(ss) \o s
    BY <1>3, <2>1, <2>7, <2>8, <2>9, <2>10, Zenon
  <2> QED
    BY <2>1, <2>11, <2>12 DEF more
<1> QED
  BY <1>4, <1>5

----------------------------------------------------------------------------
(* The owners that the corrections leave. *)

SolidDim(i) == layers[i].type = "DIM" /\ layers[i].opaque

\* The owners below none of the solid DIM layers up to n.
DimLeaves(n) == {j \in owners : \A k \in owners : k <= n /\ SolidDim(k) => k <= j}

\* What is left of S when the overlays up to n are gone through.
OverlayLeaves(S, n) ==
    {j \in S : \/ j > n
               \/ layers[j].type # "OVERLAY"
               \/ \A k \in S : layers[k].type = "OVERLAY" /\ k <= j}

\* A loop that does at each step what c says has come to c at the end.
LEMMA LoopIs ==
    ASSUME NEW N \in Nat, NEW F, NEW c, F[0] = c[0],
           \A n \in 1..N : F[n - 1] = c[n - 1] => F[n] = c[n]
    PROVE  F[N] = c[N]
<1> DEFINE S == {n \in 0..N : F[n] = c[n]}
<1>1. 0 \in S
  OBVIOUS
<1>2. \A n \in (0 + 1)..N : n - 1 \in S => n \in S
  OBVIOUS
<1> HIDE DEF S
<1>3. \A n \in 0..N : n \in S
  BY <1>1, <1>2, Upwards
<1> QED
  BY <1>3 DEF S

LEMMA DimCorrection ==
    ASSUME owners \subseteq Index, ComposeAssumption
    PROVE  DimCorrected = DimLeaves(LayerCount)
<1> DEFINE Body(f) ==
        [i \in 0..LayerCount |->
            IF i = 0 THEN owners
            ELSE IF layers[i].type = "DIM" /\ layers[i].opaque /\ i \in f[i - 1]
            THEN {j \in f[i - 1] : j >= i}
            ELSE f[i - 1]]
           F == CHOOSE f : f = Body(f)
           c == [n \in 0..LayerCount |-> DimLeaves(n)]
<1>1. DimCorrected = F[LayerCount]
  BY Zenon DEF DimCorrected
<1>2. LayerCount \in Nat /\ owners \in SUBSET Nat /\ 0 \notin owners
  BY DEF ComposeAssumption, Index
<1>3. c[0] = owners
  BY <1>2 DEF DimLeaves
<1>4. ASSUME NEW n \in 1..LayerCount
      PROVE  c[n] = IF layers[n].type = "DIM" /\ layers[n].opaque /\ n \in c[n - 1]
                    THEN {j \in c[n - 1] : j >= n} ELSE c[n - 1]
  <2>1. n \in Nat /\ n - 1 \in 0..LayerCount /\ n \in 0..LayerCount
    BY <1>2
  <2>2. c[n] = DimLeaves(n) /\ c[n - 1] = DimLeaves(n - 1)
    BY <2>1
  <2> HIDE DEF c
  <2>3. \A k \in owners : k <= n <=> k <= n - 1 \/ k = n
    BY <1>2, <2>1
  <2>4. CASE SolidDim(n) /\ n \in DimLeaves(n - 1)
    <3>1. DimLeaves(n) = {j \in DimLeaves(n - 1) : j >= n}
      BY <2>3, <2>4, <1>2, <2>1 DEF DimLeaves
    <3> QED
      BY <3>1, <2>2, <2>4 DEF SolidDim
  <2>5. CASE ~SolidDim(n)
    <3>1. DimLeaves(n) = DimLeaves(n - 1)
      BY <2>3, <2>5, <1>2, <2>1 DEF DimLeaves
    <3> QED
      BY <3>1, <2>2, <2>5 DEF SolidDim
  <2>6. CASE SolidDim(n) /\ n \notin DimLeaves(n - 1)
    <3>1. n \in owners => \E k \in owners : k <= n - 1 /\ SolidDim(k) /\ k > n
      BY <2>6, <1>2, <2>1 DEF DimLeaves
    <3>2. n \notin owners
      BY <3>1, <1>2, <2>1
    <3>3. DimLeaves(n) = DimLeaves(n - 1)
      BY <2>3, <3>2, <1>2, <2>1 DEF DimLeaves
    <3> QED
      BY <3>3, <2>2, <2>6 DEF SolidDim
  <2> QED
    BY <2>4, <2>5, <2>6
<1>5. DOMAIN c = 0..LayerCount /\ c = [n \in 0..LayerCount |-> c[n]]
  OBVIOUS
<1>6. c = Body(c)
  <2> HIDE DEF c
  <2>1. ASSUME NEW n \in 0..LayerCount
        PROVE  c[n] = IF n = 0 THEN owners
            ELSE IF layers[n].type = "DIM" /\ layers[n].opaque /\ n \in c[n - 1]
            THEN {j \in c[n - 1] : j >= n}
            ELSE c[n - 1]
    <3>1. n # 0 => n \in 1..LayerCount
      BY <1>2
    <3> QED
      BY <3>1, <1>3, <1>4, Zenon
  <2> QED
    BY <2>1, <1>5, Zenon
<1>7. F = Body(F)
  BY <1>6, Zenon
<1> HIDE DEF F
<1>8. ASSUME NEW n \in 0..LayerCount
      PROVE  F[n] = IF n = 0 THEN owners
            ELSE IF layers[n].type = "DIM" /\ layers[n].opaque /\ n \in F[n - 1]
            THEN {j \in F[n - 1] : j >= n}
            ELSE F[n - 1]
  BY <1>7, Zenon
<1> HIDE DEF c, Body
<1>9. 0 \in 0..LayerCount /\ \A n \in 1..LayerCount : n \in 0..LayerCount /\ n # 0
  BY <1>2
<1>10. F[0] = c[0]
  BY <1>3, <1>8, <1>9, Zenon
<1>11. \A n \in 1..LayerCount : F[n - 1] = c[n - 1] => F[n] = c[n]
  BY <1>4, <1>8, <1>9, Zenon
<1>12. F[LayerCount] = c[LayerCount]
  BY <1>2, <1>10, <1>11, LoopIs, Zenon
<1>13. LayerCount \in 0..LayerCount
  BY <1>2
<1> QED
  BY <1>1, <1>12, <1>13, Zenon DEF c

LEMMA OverlayCorrection ==
    ASSUME NEW V \in SUBSET Index, ComposeAssumption
    PROVE  OverlayCorrected(V) = OverlayLeaves(V, LayerCount)
<1> DEFINE Body(f) ==
        [i \in 0..LayerCount |->
            IF i = 0 THEN V
            ELSE IF layers[i].type = "OVERLAY" /\ f[i - 1] # {i}
            THEN f[i - 1] \ {i}
            ELSE f[i - 1]]
           F == CHOOSE f : f = Body(f)
           c == [n \in 0..LayerCount |-> OverlayLeaves(V, n)]
<1>1. OverlayCorrected(V) = F[LayerCount]
  BY Zenon DEF OverlayCorrected
<1>2. LayerCount \in Nat /\ V \in SUBSET Nat /\ 0 \notin V
  BY DEF ComposeAssumption, Index
<1>3. c[0] = V
  <2>1. \A j \in V : j > 0
    BY <1>2
  <2>2. OverlayLeaves(V, 0) = V
    BY <2>1 DEF OverlayLeaves
  <2> QED
    BY <2>2, <1>2
<1>4. ASSUME NEW n \in 1..LayerCount
      PROVE  c[n] = IF layers[n].type = "OVERLAY" /\ c[n - 1] # {n}
                    THEN c[n - 1] \ {n} ELSE c[n - 1]
  <2>1. n \in Nat /\ n - 1 \in 0..LayerCount /\ n \in 0..LayerCount
    BY <1>2
  <2>2. c[n] = OverlayLeaves(V, n) /\ c[n - 1] = OverlayLeaves(V, n - 1)
    BY <2>1
  <2> HIDE DEF c
  <2>3. \A k \in V : k > n - 1 <=> k > n \/ k = n
    BY <1>2, <2>1
  <2>4. CASE layers[n].type = "OVERLAY" /\ OverlayLeaves(V, n - 1) # {n}
    <3>1. n \notin OverlayLeaves(V, n)
      <4>1. SUFFICES ASSUME n \in V, \A k \in V : layers[k].type = "OVERLAY" /\ k <= n
                     PROVE  OverlayLeaves(V, n - 1) = {n}
        BY <2>4, <2>1 DEF OverlayLeaves
      <4>2. n \in OverlayLeaves(V, n - 1)
        BY <4>1, <2>3 DEF OverlayLeaves
      <4>3. ASSUME NEW j \in OverlayLeaves(V, n - 1)
            PROVE  j = n
        <5>1. j \in V /\ j <= n /\ layers[j].type = "OVERLAY"
          BY <4>1 DEF OverlayLeaves
        <5>2. j > n - 1 \/ n <= j
          BY <4>1, <5>1 DEF OverlayLeaves
        <5> QED
          BY <5>1, <5>2, <1>2, <2>1
      <4> QED
        BY <4>2, <4>3
    <3>2. OverlayLeaves(V, n) = OverlayLeaves(V, n - 1) \ {n}
      BY <3>1, <2>3, <2>1, <1>2 DEF OverlayLeaves
    <3> QED
      BY <3>2, <2>2, <2>4
  <2>5. CASE layers[n].type # "OVERLAY"
    <3>1. OverlayLeaves(V, n) = OverlayLeaves(V, n - 1)
      BY <2>3, <2>5, <2>1, <1>2 DEF OverlayLeaves
    <3> QED
      BY <3>1, <2>2, <2>5
  <2>6. CASE layers[n].type = "OVERLAY" /\ OverlayLeaves(V, n - 1) = {n}
    <3>1. n \in V
      BY <2>6 DEF OverlayLeaves
    <3>2. \A k \in V : k # n => k \notin OverlayLeaves(V, n - 1)
      BY <2>6
    <3>3. ASSUME NEW k \in V
          PROVE  layers[k].type = "OVERLAY" /\ k <= n
      <4>1. k # n => layers[k].type = "OVERLAY" /\ ~(k > n - 1)
        BY <3>2 DEF OverlayLeaves
      <4>2. k \in Nat
        BY <1>2
      <4> QED
        BY <4>1, <4>2, <2>6, <2>1
    <3>4. OverlayLeaves(V, n) = OverlayLeaves(V, n - 1)
      BY <3>1, <3>3, <2>3, <2>1, <1>2 DEF OverlayLeaves
    <3> QED
      BY <3>4, <2>2, <2>6
  <2> QED
    BY <2>4, <2>5, <2>6
<1>5. DOMAIN c = 0..LayerCount /\ c = [n \in 0..LayerCount |-> c[n]]
  OBVIOUS
<1>6. c = Body(c)
  <2> HIDE DEF c
  <2>1. ASSUME NEW n \in 0..LayerCount
        PROVE  c[n] = IF n = 0 THEN V
            ELSE IF layers[n].type = "OVERLAY" /\ c[n - 1] # {n}
            THEN c[n - 1] \ {n}
            ELSE c[n - 1]
    <3>1. n # 0 => n \in 1..LayerCount
      BY <1>2
    <3> QED
      BY <3>1, <1>3, <1>4, Zenon
  <2> QED
    BY <2>1, <1>5, Zenon
<1>7. F = Body(F)
  BY <1>6, Zenon
<1> HIDE DEF F
<1>8. ASSUME NEW n \in 0..LayerCount
      PROVE  F[n] = IF n = 0 THEN V
            ELSE IF layers[n].type = "OVERLAY" /\ F[n - 1] # {n}
            THEN F[n - 1] \ {n}
            ELSE F[n - 1]
  BY <1>7, Zenon
<1> HIDE DEF c, Body
<1>9. 0 \in 0..LayerCount /\ \A n \in 1..LayerCount : n \in 0..LayerCount /\ n # 0
  BY <1>2
<1>10. F[0] = c[0]
  BY <1>3, <1>8, <1>9, Zenon
<1>11. \A n \in 1..LayerCount : F[n - 1] = c[n - 1] => F[n] = c[n]
  BY <1>4, <1>8, <1>9, Zenon
<1>12. F[LayerCount] = c[LayerCount]
  BY <1>2, <1>10, <1>11, LoopIs, Zenon
<1>13. LayerCount \in 0..LayerCount
  BY <1>2
<1> QED
  BY <1>1, <1>12, <1>13, Zenon DEF c

Given == {i \in Index : layers[i].present}

LEMMA LeastLayer ==
    ASSUME NEW T \in SUBSET Index, T # {}
    PROVE  \E x \in T : \A y \in T : x <= y
<1>1. T \in SUBSET Nat
  BY DEF Index
<1> QED
  BY <1>1, LeastNatural

LEMMA GreatestLayer ==
    ASSUME NEW T \in SUBSET Index, T # {}, ComposeAssumption
    PROVE  \E x \in T : \A y \in T : y <= x
<1> DEFINE U == {LayerCount - x : x \in T}
<1>1. LayerCount \in Nat /\ \A x \in T : x \in Nat /\ x <= LayerCount
  BY DEF ComposeAssumption, Index
<1>2. U \in SUBSET Nat /\ U # {}
  BY <1>1
<1> HIDE DEF U
<1>3. PICK u \in U : \A v \in U : u <= v
  BY <1>2, LeastNatural
<1>4. PICK x \in T : u = LayerCount - x
  BY <1>3 DEF U
<1>5. ASSUME NEW y \in T
      PROVE  y <= x
  <2>1. LayerCount - y \in U
    BY DEF U
  <2>2. LayerCount - x <= LayerCount - y
    BY <2>1, <1>3, <1>4
  <2> QED
    BY <2>2, <1>1
<1> QED
  BY <1>5

\* The corrections leave the layers that show, at least one if the area has any.
LEMMA Corrected ==
    ASSUME owners = Given, ComposeAssumption
    PROVE  /\ OverlayCorrected(DimCorrected) \subseteq Index
           /\ Given = {} => OverlayCorrected(DimCorrected) = {}
           /\ Given # {} => /\ OverlayCorrected(DimCorrected) # {}
                           /\ OverlayCorrected(DimCorrected) = Shown
<1> DEFINE listed == {i \in Index : layers[i].present}
           V == {i \in listed : \A j \in listed : layers[j].type = "DIM" /\ layers[j].opaque => j <= i}
           left == OverlayCorrected(DimCorrected)
           drawn == {i \in V : layers[i].type # "OVERLAY"}
           top == CHOOSE i \in V : \A j \in V : j <= i
<1>1. SUFFICES left \subseteq Index /\ (listed = {} => left = {}) /\ (listed # {} => left # {} /\ left = Shown)
  BY Zenon DEF Given
<1>2. Shown = IF drawn = {} THEN {top} ELSE drawn
  BY Zenon DEF Shown
<1>3. listed = owners /\ owners \subseteq Index /\ listed \subseteq Index
  BY DEF Given
<1>4. \A i \in Index : i \in Nat /\ i <= LayerCount /\ ~(i > LayerCount)
  BY DEF ComposeAssumption, Index
<1> HIDE DEF listed
<1>5. V = DimLeaves(LayerCount)
  BY <1>3, <1>4 DEF DimLeaves, SolidDim
<1>6. V \in SUBSET Index
  BY <1>3
<1>7. listed # {} => V # {}
  <2>1. SUFFICES ASSUME listed # {}
                 PROVE  V # {}
    OBVIOUS
  <2>2. PICK x \in listed : \A y \in listed : y <= x
    BY <1>3, <2>1, GreatestLayer
  <2>3. x \in V
    BY <2>2
  <2> QED
    BY <2>3
<1>8. listed = {} => V = {}
  OBVIOUS
<1> HIDE DEF V
<1>9. left = OverlayLeaves(V, LayerCount)
  BY <1>3, <1>5, <1>6, DimCorrection, OverlayCorrection
<1> HIDE DEF left
<1>10. left = {j \in V : layers[j].type # "OVERLAY" \/ \A k \in V : layers[k].type = "OVERLAY" /\ k <= j}
  BY <1>6, <1>9, <1>4 DEF OverlayLeaves
<1>11. ASSUME V # {}
       PROVE  left # {} /\ left = Shown
  <2>1. \E x \in V : \A y \in V : y <= x
    BY <1>6, <1>11, GreatestLayer
  <2>2. top \in V /\ \A j \in V : j <= top
    BY <2>1
  <2> HIDE DEF top
  <2>3. CASE drawn = {}
    <3>1. \A j \in V : layers[j].type = "OVERLAY"
      BY <2>3
    <3>2. \A j \in V : (\A k \in V : k <= j) => j = top
      BY <2>2, <1>6, <1>4
    <3>3. left = {top}
      BY <3>1, <3>2, <2>2, <1>10
    <3> QED
      BY <3>3, <1>2, <2>3
  <2>4. CASE drawn # {}
    <3>1. left = drawn
      BY <2>4, <1>10
    <3> QED
      BY <3>1, <1>2, <2>4
  <2> QED
    BY <2>3, <2>4
<1> QED
  BY <1>6, <1>7, <1>8, <1>10, <1>11

----------------------------------------------------------------------------
(* The inductive invariant. *)

\* A layer without source is drawn only at the bottom.
OfSource(i) == HasSource(i) \/ Bottom(i)
DrawnBelow(n) == {i \in owners : i < n /\ OfSource(i)}

LayersOf(bs) == [n \in DOMAIN bs |-> bs[n].layers]
DimsOf(bs) == [n \in DOMAIN bs |-> bs[n].dims]

\* s holds the members of S from the bottom to the top, each once.
Ascending(s, S) ==
    /\ s \in Seq(Index)
    /\ \A j, k \in DOMAIN s : j < k => s[j] < s[k]
    /\ \A i \in Index : i \in S <=> \E k \in DOMAIN s : s[k] = i

Dimmed(s) == [n \in DOMAIN s |-> DimsAbove(s[n])]

BlitRecord == [layers : Seq(Index), dims : Seq(SUBSET Index), target : BOOLEAN]

\* What BatchAligned asks of one blit.
AlignedLayers(s) ==
    LET sources == {i \in ToSet(s) : HasSource(i)} IN
    Len(s) > 1 => /\ \A i, j \in sources : /\ layers[i].eigen = layers[j].eigen
                                           /\ layers[i].rotation = layers[j].rotation
                  /\ \A i \in sources : CanStart(i)

\* A blit that the 2D core can do.
GoodBlit(r) ==
    /\ r \in BlitRecord
    /\ Len(r.layers) + (IF r.target THEN 1 ELSE 0) <= device.maxSource
    /\ AlignedLayers(r.layers)

\* The layer may stand in a batch of this alignment and rotation.
InLine(i, det, eig, rot) ==
    HasSource(i) => /\ det
                    /\ layers[i].eigen = eig /\ layers[i].rotation = rot
                    /\ CanStart(i)

\* A batch has room for another layer, and for the target if it needs it; until
\* its alignment is determined it holds at most one layer, without source.
BatchGood(b, det, eig, rot) ==
    /\ b \in Seq(Index)
    /\ b # <<>> => MultiSource /\ ~BatchFull(b)
    /\ det => b # <<>> /\ (rot # "0" \/ eig = EigenD)
    /\ ~det => Len(b) <= 1
    /\ \A k \in DOMAIN b : InLine(b[k], det, eig, rot)

\* The blits bs have drawn the layers s, dimmed by the DIM layers above them.
Records(bs, s) ==
    /\ bs \in Seq(BlitRecord)
    /\ \A n \in DOMAIN bs : GoodBlit(bs[n])
    /\ s \in Seq(Index)
    /\ FlattenSeq(LayersOf(bs)) = s
    /\ FlattenSeq(DimsOf(bs)) = Dimmed(s)

\* What was drawn and what waits in the batch are the layers passed so far.
Gathered(bs, b, n) ==
    \E s \in Seq(Index) : Records(bs, s) /\ Ascending(s \o b, DrawnBelow(n))

OwnersInv ==
    /\ pc = "correct" => owners = Given
    /\ pc = "hole" => Given = {} /\ owners = {}
    /\ pc \in {"correct", "hole"} => next = 1 /\ blits = <<>> /\ batch = <<>> /\ ~determined
    /\ pc = "layers" => Given # {} /\ owners # {} /\ owners = Shown
    /\ pc = "done" => IF Given = {} THEN blits = <<Clear>>
                      ELSE owners # {} /\ owners = Shown /\ next = LayerCount + 1

ComposeInv ==
    /\ ComposeTypeOK
    /\ blits \in Seq(BlitRecord)
    /\ \A n \in DOMAIN blits : GoodBlit(blits[n])
    /\ BatchGood(batch, determined, eigenL, rotation)
    /\ OwnersInv
    /\ pc = "layers" => Gathered(blits, batch, next)
    /\ pc = "done" /\ Given # {} => Gathered(blits, <<>>, next)
    /\ pc = "overflow" => device.maxSource > IndexSlots

----------------------------------------------------------------------------
(* Blits. *)

LEMMA LayerFacts ==
    ASSUME ComposeTypeOK, ComposeAssumption
    PROVE  /\ \A i \in Index : /\ layers[i] \in Kind
                               /\ i \in Nat /\ i >= 1 /\ i <= LayerCount
           /\ device.maxSource \in {4, 8}
           /\ device.multiSourceBlt \in BOOLEAN
           /\ LayerCount \in Nat
<1>1. LayerCount \in Nat /\ device \in [multiSourceBlt : BOOLEAN, maxSource : {4, 8}]
  BY DEF ComposeTypeOK, ComposeAssumption
<1>2. \A i \in Index : layers[i] \in Kind
  BY DEF ComposeTypeOK, ComposeAssumption
<1> QED
  BY <1>1, <1>2 DEF Index

LEMMA DimsTyped ==
    ASSUME owners \subseteq Index, NEW s \in Seq(Index)
    PROVE  Dimmed(s) \in Seq(SUBSET Index) /\ DOMAIN Dimmed(s) = DOMAIN s /\ Len(Dimmed(s)) = Len(s)
<1>1. Len(s) \in Nat /\ DOMAIN s = 1..Len(s)
  BY LenProperties
<1>2. \A i : DimsAbove(i) \in SUBSET Index
  BY DEF DimsAbove
<1>3. Dimmed(s) = [n \in 1..Len(s) |-> DimsAbove(s[n])]
  BY <1>1 DEF Dimmed
<1>4. Dimmed(s) \in Seq(SUBSET Index)
  BY <1>1, <1>2, <1>3, IsASeq
<1> QED
  BY <1>1, <1>3, <1>4, LenProperties

\* Alone, any layer can be blitted.
LEMMA BlitGood ==
    ASSUME ComposeTypeOK, ComposeAssumption, NEW i \in Index
    PROVE  GoodBlit(Blit(i)) /\ Blit(i).layers = <<i>> /\ Blit(i).dims = Dimmed(<<i>>)
<1>1. <<i>> \in Seq(Index) /\ Len(<<i>>) = 1 /\ DOMAIN <<i>> = 1..1 /\ <<i>>[1] = i
  OBVIOUS
<1>2. <<DimsAbove(i)>> = Dimmed(<<i>>)
  BY <1>1 DEF Dimmed
<1>3. Dimmed(<<i>>) \in Seq(SUBSET Index)
  BY <1>1, DimsTyped DEF ComposeTypeOK
<1>4. Blit(i) = [layers |-> <<i>>, dims |-> Dimmed(<<i>>), target |-> FALSE]
  BY <1>2 DEF Blit
<1>5. Blit(i) \in BlitRecord
  BY <1>1, <1>3, <1>4 DEF BlitRecord
<1>6. 1 <= device.maxSource
  BY LayerFacts
<1>7. AlignedLayers(<<i>>)
  BY <1>1 DEF AlignedLayers
<1> QED
  BY <1>1, <1>4, <1>5, <1>6, <1>7 DEF GoodBlit

\* So can several that are in line, with the target if the core takes it too.
LEMMA MultiSourceBlitGood ==
    ASSUME ComposeTypeOK, ComposeAssumption, NEW b \in Seq(Index), b # <<>>,
           NEW det, NEW eig, NEW rot, \A k \in DOMAIN b : InLine(b[k], det, eig, rot),
           Len(b) <= device.maxSource, ~layers[b[1]].opaque => Len(b) < device.maxSource
    PROVE  /\ GoodBlit(MultiSourceBlit(b))
           /\ MultiSourceBlit(b).layers = b /\ MultiSourceBlit(b).dims = Dimmed(b)
<1> DEFINE t == ~layers[b[1]].opaque /\ ~Bottom(b[1])
<1>1. Dimmed(b) \in Seq(SUBSET Index)
  BY DimsTyped DEF ComposeTypeOK
<1>2. t \in BOOLEAN
  BY Zenon
<1>3. MultiSourceBlit(b) = [layers |-> b, dims |-> Dimmed(b), target |-> t]
  BY Zenon DEF MultiSourceBlit, Dimmed
<1>4. t => ~layers[b[1]].opaque
  BY Zenon
<1> HIDE DEF t
<1>5. MultiSourceBlit(b) \in BlitRecord
  BY <1>1, <1>2, <1>3 DEF BlitRecord
<1>6. Len(b) + (IF t THEN 1 ELSE 0) <= device.maxSource
  <2>1. Len(b) \in Nat /\ device.maxSource \in Nat
    BY LenProperties, LayerFacts
  <2> QED
    BY <2>1, <1>2, <1>4
<1>7. AlignedLayers(b)
  <2>1. \A i \in ToSet(b) : InLine(i, det, eig, rot)
    BY DEF ToSet
  <2> QED
    BY <2>1 DEF AlignedLayers, InLine
<1> QED
  BY <1>3, <1>5, <1>6, <1>7 DEF GoodBlit

LEMMA LayersOfTyped ==
    ASSUME NEW bs \in Seq(BlitRecord)
    PROVE  /\ LayersOf(bs) \in Seq(Seq(Index)) /\ DimsOf(bs) \in Seq(Seq(SUBSET Index))
           /\ Len(LayersOf(bs)) = Len(bs) /\ Len(DimsOf(bs)) = Len(bs)
<1>1. Len(bs) \in Nat /\ DOMAIN bs = 1..Len(bs)
  BY LenProperties
<1>2. ASSUME NEW n \in 1..Len(bs)
      PROVE  bs[n].layers \in Seq(Index) /\ bs[n].dims \in Seq(SUBSET Index)
  <2>1. bs[n] \in BlitRecord
    BY ElementOfSeq
  <2> QED
    BY <2>1 DEF BlitRecord
<1>3. LayersOf(bs) = [n \in 1..Len(bs) |-> bs[n].layers] /\ DimsOf(bs) = [n \in 1..Len(bs) |-> bs[n].dims]
  BY <1>1 DEF LayersOf, DimsOf
<1>4. LayersOf(bs) \in Seq(Seq(Index)) /\ DimsOf(bs) \in Seq(Seq(SUBSET Index))
  BY <1>1, <1>2, <1>3, IsASeq
<1> QED
  BY <1>1, <1>3, <1>4, LenProperties

LEMMA OfAppended ==
    ASSUME NEW bs \in Seq(BlitRecord), NEW r \in BlitRecord
    PROVE  /\ LayersOf(Append(bs, r)) = Append(LayersOf(bs), r.layers)
           /\ DimsOf(Append(bs, r)) = Append(DimsOf(bs), r.dims)
<1> DEFINE more == Append(bs, r)
<1>1. /\ more \in Seq(BlitRecord) /\ Len(more) = Len(bs) + 1 /\ more[Len(bs) + 1] = r
      /\ \A n \in 1..Len(bs) : more[n] = bs[n]
  BY AppendProperties
<1> HIDE DEF more
<1>2. Len(bs) \in Nat /\ DOMAIN bs = 1..Len(bs) /\ DOMAIN more = 1..(Len(bs) + 1)
  BY <1>1, LenProperties
<1>3. r.layers \in Seq(Index) /\ r.dims \in Seq(SUBSET Index)
  BY DEF BlitRecord
<1>4. LayersOf(more) = Append(LayersOf(bs), r.layers)
  <2> DEFINE s == Append(LayersOf(bs), r.layers)
  <2>1. /\ s \in Seq(Seq(Index)) /\ Len(s) = Len(bs) + 1 /\ s[Len(bs) + 1] = r.layers
        /\ \A n \in 1..Len(bs) : s[n] = LayersOf(bs)[n]
    BY <1>3, LayersOfTyped, AppendProperties
  <2> HIDE DEF s
  <2>2. LayersOf(more) \in Seq(Seq(Index)) /\ Len(LayersOf(more)) = Len(bs) + 1
    BY <1>1, LayersOfTyped
  <2>3. ASSUME NEW n \in 1..Len(s)
        PROVE  s[n] = LayersOf(more)[n]
    <3>1. LayersOf(more)[n] = more[n].layers
      BY <1>2, <2>1 DEF LayersOf
    <3>2. CASE n \in 1..Len(bs)
      BY <3>1, <3>2, <1>1, <1>2, <2>1 DEF LayersOf
    <3>3. CASE n = Len(bs) + 1
      BY <3>1, <3>3, <1>1, <2>1
    <3> QED
      BY <3>2, <3>3, <2>1, <1>2
  <2>4. s = LayersOf(more)
    BY <2>1, <2>2, <2>3, SeqEqual
  <2> QED
    BY <2>4 DEF s
<1>5. DimsOf(more) = Append(DimsOf(bs), r.dims)
  <2> DEFINE s == Append(DimsOf(bs), r.dims)
  <2>1. /\ s \in Seq(Seq(SUBSET Index)) /\ Len(s) = Len(bs) + 1 /\ s[Len(bs) + 1] = r.dims
        /\ \A n \in 1..Len(bs) : s[n] = DimsOf(bs)[n]
    BY <1>3, LayersOfTyped, AppendProperties
  <2> HIDE DEF s
  <2>2. DimsOf(more) \in Seq(Seq(SUBSET Index)) /\ Len(DimsOf(more)) = Len(bs) + 1
    BY <1>1, LayersOfTyped
  <2>3. ASSUME NEW n \in 1..Len(s)
        PROVE  s[n] = DimsOf(more)[n]
    <3>1. DimsOf(more)[n] = more[n].dims
      BY <1>2, <2>1 DEF DimsOf
    <3>2. CASE n \in 1..Len(bs)
      BY <3>1, <3>2, <1>1, <1>2, <2>1 DEF DimsOf
    <3>3. CASE n = Len(bs) + 1
      BY <3>1, <3>3, <1>1, <2>1
    <3> QED
      BY <3>2, <3>3, <2>1, <1>2
  <2>4. s = DimsOf(more)
    BY <2>1, <2>2, <2>3, SeqEqual
  <2> QED
    BY <2>4 DEF s
<1> QED
  BY <1>4, <1>5 DEF more

\* Layers drawn one after the other are dimmed each by its own.
LEMMA DimmedConcat ==
    ASSUME owners \subseteq Index, NEW s \in Seq(Index), NEW t \in Seq(Index)
    PROVE  Dimmed(s \o t) = Dimmed(s) \o Dimmed(t)
<1>1. s \o t \in Seq(Index) /\ Len(s \o t) = Len(s) + Len(t)
  BY ConcatProperties
<1>2. \A n \in 1..(Len(s) + Len(t)) : (s \o t)[n] = IF n <= Len(s) THEN s[n] ELSE t[n - Len(s)]
  BY ConcatProperties
<1>3. /\ Dimmed(s) \in Seq(SUBSET Index) /\ Len(Dimmed(s)) = Len(s)
      /\ Dimmed(t) \in Seq(SUBSET Index) /\ Len(Dimmed(t)) = Len(t)
      /\ Dimmed(s \o t) \in Seq(SUBSET Index) /\ Len(Dimmed(s \o t)) = Len(s) + Len(t)
  BY <1>1, DimsTyped
<1>4. /\ Dimmed(s) \o Dimmed(t) \in Seq(SUBSET Index)
      /\ Len(Dimmed(s) \o Dimmed(t)) = Len(s) + Len(t)
      /\ \A n \in 1..(Len(s) + Len(t)) :
            (Dimmed(s) \o Dimmed(t))[n] = IF n <= Len(s) THEN Dimmed(s)[n] ELSE Dimmed(t)[n - Len(s)]
  BY <1>3, ConcatProperties
<1>5. Len(s) \in Nat /\ Len(t) \in Nat /\ DOMAIN s = 1..Len(s) /\ DOMAIN t = 1..Len(t)
      /\ DOMAIN (s \o t) = 1..(Len(s) + Len(t))
  BY <1>1, LenProperties
<1>6. ASSUME NEW n \in 1..(Len(s) + Len(t))
      PROVE  Dimmed(s \o t)[n] = (Dimmed(s) \o Dimmed(t))[n]
  <2>1. Dimmed(s \o t)[n] = DimsAbove((s \o t)[n])
    BY <1>5 DEF Dimmed
  <2>2. CASE n <= Len(s)
    <3>1. n \in 1..Len(s)
      BY <2>2, <1>5
    <3>2. Dimmed(s)[n] = DimsAbove(s[n])
      BY <3>1, <1>5 DEF Dimmed
    <3> QED
      BY <3>2, <2>1, <2>2, <1>2, <1>4
  <2>3. CASE ~(n <= Len(s))
    <3>1. n - Len(s) \in 1..Len(t)
      BY <2>3, <1>5
    <3>2. Dimmed(t)[n - Len(s)] = DimsAbove(t[n - Len(s)])
      BY <3>1, <1>5 DEF Dimmed
    <3> QED
      BY <3>2, <2>1, <2>3, <1>2, <1>4
  <2> QED
    BY <2>2, <2>3
<1> HIDE DEF Dimmed
<1> QED
  BY <1>3, <1>4, <1>6, SeqEqual

LEMMA RecordsMore ==
    ASSUME owners \subseteq Index, NEW bs, NEW s, Records(bs, s),
           NEW r, GoodBlit(r), r.dims = Dimmed(r.layers)
    PROVE  Records(Append(bs, r), s \o r.layers)
<1>1. bs \in Seq(BlitRecord) /\ s \in Seq(Index) /\ r \in BlitRecord
  BY DEF Records, GoodBlit
<1>2. r.layers \in Seq(Index) /\ r.dims \in Seq(SUBSET Index)
  BY <1>1 DEF BlitRecord
<1>3. Append(bs, r) \in Seq(BlitRecord) /\ s \o r.layers \in Seq(Index)
  BY <1>1, <1>2, AppendProperties, ConcatProperties
<1>4. \A n \in DOMAIN Append(bs, r) : GoodBlit(Append(bs, r)[n])
  <2>1. /\ Len(Append(bs, r)) = Len(bs) + 1 /\ Append(bs, r)[Len(bs) + 1] = r
        /\ \A n \in 1..Len(bs) : Append(bs, r)[n] = bs[n]
    BY <1>1, AppendProperties
  <2>2. DOMAIN Append(bs, r) = 1..(Len(bs) + 1) /\ DOMAIN bs = 1..Len(bs) /\ Len(bs) \in Nat
    BY <2>1, <1>1, <1>3, LenProperties
  <2>3. \A n \in DOMAIN bs : GoodBlit(bs[n])
    BY DEF Records
  <2> HIDE DEF GoodBlit
  <2>4. \A n \in 1..(Len(bs) + 1) : n \in 1..Len(bs) \/ n = Len(bs) + 1
    BY <2>2
  <2> QED
    BY <2>1, <2>2, <2>3, <2>4
<1>5. FlattenSeq(LayersOf(Append(bs, r))) = s \o r.layers
  BY <1>1, <1>2, OfAppended, LayersOfTyped, FlattenAppend DEF Records
<1>6. FlattenSeq(DimsOf(Append(bs, r))) = Dimmed(s) \o r.dims
  BY <1>1, <1>2, OfAppended, LayersOfTyped, FlattenAppend DEF Records
<1>7. FlattenSeq(DimsOf(Append(bs, r))) = Dimmed(s \o r.layers)
  BY <1>1, <1>2, <1>6, DimmedConcat
<1> QED
  BY <1>3, <1>4, <1>5, <1>7 DEF Records

LEMMA RecordsNone == Records(<<>>, <<>>)
<1>1. LayersOf(<<>>) = <<>> /\ DimsOf(<<>>) = <<>> /\ Dimmed(<<>>) = <<>>
  BY DEF LayersOf, DimsOf, Dimmed
<1> QED
  BY <1>1, FlattenEmpty, EmptySeq DEF Records

----------------------------------------------------------------------------
(* Going through the layers. *)

LEMMA AscendEmpty == Ascending(<<>>, {})
  BY EmptySeq DEF Ascending

\* The layer the loop looks at comes behind those drawn, or is passed over.
LEMMA AscendAdd ==
    ASSUME NEW s, NEW n \in Index, owners \subseteq Index, Ascending(s, DrawnBelow(n)),
           n \in owners, OfSource(n)
    PROVE  Ascending(Append(s, n), DrawnBelow(n + 1))
<1> DEFINE more == Append(s, n)
<1>1. s \in Seq(Index) /\ Len(s) \in Nat /\ DOMAIN s = 1..Len(s)
  BY LenProperties DEF Ascending
<1>2. /\ more \in Seq(Index) /\ Len(more) = Len(s) + 1 /\ more[Len(s) + 1] = n
      /\ \A k \in 1..Len(s) : more[k] = s[k]
  BY <1>1, AppendProperties
<1> HIDE DEF more
<1>3. DOMAIN more = 1..(Len(s) + 1)
  BY <1>2, LenProperties
<1>4. \A k \in 1..Len(s) : s[k] \in Index /\ s[k] \in DrawnBelow(n)
  BY <1>1, ElementOfSeq DEF Ascending
<1>5. \A k \in 1..Len(s) : s[k] < n
  BY <1>4 DEF DrawnBelow
<1>6. ASSUME NEW j \in 1..(Len(s) + 1), NEW k \in 1..(Len(s) + 1), j < k
      PROVE  more[j] < more[k]
  <2>1. j \in 1..Len(s)
    BY <1>1, <1>6
  <2>2. CASE k \in 1..Len(s)
    <3>1. s[j] < s[k]
      BY <2>1, <2>2, <1>1, <1>6 DEF Ascending
    <3> QED
      BY <3>1, <2>1, <2>2, <1>2
  <2>3. CASE k = Len(s) + 1
    BY <2>1, <2>3, <1>2, <1>5
  <2> QED
    BY <2>2, <2>3, <1>1
<1>7. \A i \in Index : i \in DrawnBelow(n + 1) <=> i \in DrawnBelow(n) \/ i = n
  BY DEF DrawnBelow, Index
<1>8. ASSUME NEW i \in Index
      PROVE  i \in DrawnBelow(n + 1) <=> \E k \in 1..(Len(s) + 1) : more[k] = i
  <2>1. i \in DrawnBelow(n) <=> \E k \in 1..Len(s) : s[k] = i
    BY <1>1 DEF Ascending
  <2>2. \A k : k \in 1..(Len(s) + 1) <=> k \in 1..Len(s) \/ k = Len(s) + 1
    BY <1>1
  <2> QED
    BY <2>1, <2>2, <1>2, <1>7, Zenon
<1> QED
  BY <1>2, <1>3, <1>6, <1>8 DEF Ascending, more

LEMMA AscendSkip ==
    ASSUME NEW s, NEW n \in Index, Ascending(s, DrawnBelow(n)), n \notin owners \/ ~OfSource(n),
           owners \subseteq Index
    PROVE  Ascending(s, DrawnBelow(n + 1))
<1>1. \A i \in owners : i < n + 1 <=> i < n \/ i = n
  BY DEF Index
<1>2. \A i : i \in DrawnBelow(n + 1) <=> i \in DrawnBelow(n)
  BY <1>1, Zenon DEF DrawnBelow
<1>3. DrawnBelow(n + 1) = DrawnBelow(n)
  BY <1>2
<1> QED
  BY <1>3

LEMMA BatchEmpty ==
    ASSUME NEW eig, NEW rot
    PROVE  BatchGood(<<>>, FALSE, eig, rot)
  BY EmptySeq DEF BatchGood

LEMMA RoomForTwo ==
    ASSUME ComposeTypeOK, ComposeAssumption, NEW b, NEW n \in {1, 2}, Len(b) = n
    PROVE  ~BatchFull(b)
<1>1. device.maxSource \in {4, 8}
  BY LayerFacts
<1>2. ~(n >= device.maxSource - 1) /\ ~(n >= device.maxSource)
  BY <1>1
<1> QED
  BY <1>2, Zenon DEF BatchFull

\* A batch is drawn behind what was drawn before.
LEMMA FlushedRecords ==
    ASSUME ComposeTypeOK, ComposeAssumption, NEW s, Records(blits, s),
           BatchGood(batch, determined, eigenL, rotation)
    PROVE  Records(Flushed(batch), s \o batch)
<1>1. batch \in Seq(Index) /\ s \in Seq(Index) /\ owners \subseteq Index
  BY DEF Records, BatchGood, ComposeTypeOK
<1>2. Len(batch) \in Nat
  BY <1>1, LenProperties
<1>3. CASE Len(batch) = 0
  <2>1. batch = <<>>
    BY <1>1, <1>3, EmptySeq
  <2>2. s \o batch = s
    BY <1>1, <2>1, ConcatEmptySeq
  <2> QED
    BY <1>3, <2>2 DEF Flushed
<1>4. CASE Len(batch) = 1
  <2>1. batch[1] \in Index /\ batch = <<batch[1]>>
    BY <1>1, <1>4, ElementOfSeq
  <2>2. Flushed(batch) = Append(blits, Blit(batch[1]))
    BY <1>4 DEF Flushed
  <2>3. /\ GoodBlit(Blit(batch[1])) /\ Blit(batch[1]).layers = batch
        /\ Blit(batch[1]).dims = Dimmed(Blit(batch[1]).layers)
    BY <2>1, BlitGood
  <2> QED
    BY <1>1, <2>2, <2>3, RecordsMore
<1>5. CASE Len(batch) > 1
  <2>1. Flushed(batch) = Append(blits, MultiSourceBlit(batch)) /\ batch # <<>>
    BY <1>5, EmptySeq DEF Flushed
  <2>2. ~BatchFull(batch) /\ \A k \in DOMAIN batch : InLine(batch[k], determined, eigenL, rotation)
    BY <2>1 DEF BatchGood
  <2>3. Len(batch) <= device.maxSource /\ (~layers[batch[1]].opaque => Len(batch) < device.maxSource)
    BY <1>2, <2>2, LayerFacts DEF BatchFull
  <2>4. /\ GoodBlit(MultiSourceBlit(batch)) /\ MultiSourceBlit(batch).layers = batch
        /\ MultiSourceBlit(batch).dims = Dimmed(MultiSourceBlit(batch).layers)
    BY <1>1, <2>1, <2>2, <2>3, MultiSourceBlitGood, Zenon
  <2> QED
    BY <1>1, <2>1, <2>4, RecordsMore
<1>6. \A n \in Nat : n = 0 \/ n = 1 \/ n > 1
  OBVIOUS
<1> QED
  BY <1>2, <1>3, <1>4, <1>5, <1>6, Zenon

\* The loop goes on with what it has drawn and gathered.
LEMMA LoopGoesOn ==
    ASSUME ComposeAssumption, ComposeInv, pc = "layers", next \in Index, Advance,
           determined' \in BOOLEAN, hasYuv' \in BOOLEAN, eigenL' \in Nat,
           rotation' \in {"0", "90", "180", "270"},
           BatchGood(batch', determined', eigenL', rotation'),
           Gathered(blits', batch', next + 1)
    PROVE  ComposeInv'
<1>1. UNCHANGED <<device, layers, owners, pc>> /\ next' = next + 1
  BY DEF Advance, context
<1>2. next' \in 1..(LayerCount + 1)
  BY <1>1, LayerFacts DEF ComposeInv, Index
<1>3. batch' \in Seq(Index)
  BY DEF BatchGood
<1>4. PICK s \in Seq(Index) : Records(blits', s) /\ Ascending(s \o batch', DrawnBelow(next + 1))
  BY DEF Gathered
<1>5. blits' \in Seq(BlitRecord) /\ \A n \in DOMAIN blits' : GoodBlit(blits'[n])
  BY <1>4 DEF Records
<1>6. \A n \in DOMAIN blits' : blits'[n] \in BlitRecord
  BY <1>5 DEF GoodBlit
<1>7. ComposeTypeOK'
  BY <1>1, <1>2, <1>3, <1>6 DEF ComposeInv, ComposeTypeOK, BlitRecord
<1>8. (\A n \in DOMAIN blits : GoodBlit(blits[n]))'
  <2>1. ASSUME NEW n \in DOMAIN blits'
        PROVE  GoodBlit(blits[n])'
    <3>1. AlignedLayers(blits[n].layers)' <=> AlignedLayers(blits'[n].layers)
      BY <1>1 DEF AlignedLayers, HasSource, CanStart
    <3> QED
      BY <1>1, <1>5, <3>1 DEF GoodBlit
  <2> QED
    BY <2>1
<1>9. BatchGood(batch, determined, eigenL, rotation)'
  BY <1>1 DEF BatchGood, InLine, HasSource, CanStart, MultiSource, BatchFull
<1>10. OwnersInv'
  BY <1>1 DEF ComposeInv, OwnersInv, Given, Shown
<1>11. Gathered(blits, batch, next)'
  <2>1. Records(blits, s)'
    BY <1>1, <1>4, <1>8 DEF Records, LayersOf, DimsOf, Dimmed, DimsAbove
  <2>2. Ascending(s \o batch, DrawnBelow(next))'
    BY <1>1, <1>4 DEF Ascending, DrawnBelow, OfSource, HasSource, Bottom
  <2> QED
    BY <2>1, <2>2 DEF Gathered
<1> QED
  BY <1>1, <1>5, <1>7, <1>8, <1>9, <1>10, <1>11 DEF ComposeInv

----------------------------------------------------------------------------
(* Steps. *)

LEMMA InitComposeInv == ComposeInit => ComposeInv
<1> SUFFICES ASSUME ComposeInit
             PROVE  ComposeInv
  OBVIOUS
<1>1. ComposeAssumption
  BY ComposeAssumption
<1>2. owners \subseteq Index /\ owners = Given
  BY DEF ComposeInit, Given
<1>3. determined \in BOOLEAN /\ hasYuv \in BOOLEAN /\ ~determined /\ determined = FALSE
  BY Zenon DEF ComposeInit
<1>4. batch = <<>> /\ blits = <<>> /\ next = 1 /\ pc = "correct" /\ eigenL = 0 /\ rotation = "0"
  BY DEF ComposeInit
<1>5. DOMAIN blits = {} /\ blits \in Seq(BlitRecord) /\ batch \in Seq(Index)
  BY <1>4, EmptySeq
<1>6. device \in Device /\ layers \in [Index -> LayerKind]
  BY DEF ComposeInit
<1>7. next \in 1..(LayerCount + 1)
  BY <1>1, <1>4 DEF ComposeAssumption
<1>8. ComposeTypeOK
  BY <1>2, <1>3, <1>4, <1>5, <1>6, <1>7 DEF ComposeTypeOK
<1>9. BatchGood(batch, determined, eigenL, rotation)
  BY <1>3, <1>4, BatchEmpty
<1>10. OwnersInv
  BY <1>2, <1>3, <1>4 DEF OwnersInv
<1> QED
  BY <1>4, <1>5, <1>8, <1>9, <1>10 DEF ComposeInv

LEMMA CorrectKeepsComposeInv == ComposeInv /\ Correct => ComposeInv'
<1> SUFFICES ASSUME ComposeInv, Correct
             PROVE  ComposeInv'
  OBVIOUS
<1>1. ComposeAssumption
  BY ComposeAssumption
<1>2. /\ owners = Given /\ next = 1 /\ blits = <<>> /\ batch = <<>> /\ ~determined
      /\ pc = "correct"
  BY DEF ComposeInv, OwnersInv, Correct
<1>3. /\ UNCHANGED <<device, layers, next, batch, determined, eigenL, rotation, hasYuv, blits>>
      /\ owners' = OverlayCorrected(DimCorrected)
      /\ pc' = IF owners' = {} THEN "hole" ELSE "layers"
  BY DEF Correct, context, batchVars
<1>4. /\ owners' \subseteq Index
      /\ Given = {} => owners' = {}
      /\ Given # {} => owners' # {} /\ owners' = Shown
  BY <1>1, <1>2, <1>3, Corrected, Zenon
<1>5. ComposeTypeOK'
  BY <1>3, <1>4 DEF ComposeInv, ComposeTypeOK
<1>6. blits' \in Seq(BlitRecord) /\ DOMAIN blits' = {}
  BY <1>2, <1>3 DEF ComposeInv
<1>7. determined = FALSE
  BY <1>2, Zenon DEF ComposeInv, ComposeTypeOK
<1>8. BatchGood(batch, determined, eigenL, rotation)'
  <2>1. batch' = <<>> /\ determined' = FALSE
    BY <1>2, <1>3, <1>7
  <2> QED
    BY <2>1, EmptySeq DEF BatchGood
<1>9. Given' = Given /\ Shown' = Shown
  BY <1>3 DEF Given, Shown
<1>10. OwnersInv'
  BY <1>2, <1>3, <1>4, <1>9 DEF OwnersInv
<1>11. pc' = "layers" => Gathered(blits, batch, next)'
  <2>1. DrawnBelow(next)' = {}
    BY <1>2, <1>3, <1>4 DEF DrawnBelow, Index
  <2>2. Records(<<>>, <<>>)'
    <3>1. LayersOf(<<>>)' = <<>> /\ DimsOf(<<>>)' = <<>> /\ Dimmed(<<>>)' = <<>>
      BY DEF LayersOf, DimsOf, Dimmed
    <3> QED
      BY <3>1, FlattenEmpty, EmptySeq DEF Records
  <2>3. Ascending(<<>> \o <<>>, {})
    BY AscendEmpty
  <2>4. <<>> \in Seq(Index) /\ blits' = <<>> /\ batch' = <<>>
    BY <1>2, <1>3, EmptySeq
  <2>5. Ascending(<<>> \o batch, DrawnBelow(next))'
    BY <2>1, <2>3, <2>4 DEF Ascending
  <2> QED
    BY <2>2, <2>4, <2>5 DEF Gathered
<1> QED
  BY <1>3, <1>5, <1>6, <1>8, <1>10, <1>11 DEF ComposeInv

LEMMA WormHoleKeepsComposeInv == ComposeInv /\ WormHole => ComposeInv'
<1> SUFFICES ASSUME ComposeInv, WormHole
             PROVE  ComposeInv'
  OBVIOUS
<1>1. /\ UNCHANGED <<device, layers, owners, next, batch, determined, eigenL, rotation, hasYuv>>
      /\ blits' = <<Clear>> /\ pc = "hole" /\ pc' = "done"
  BY DEF WormHole, context, batchVars
<1>2. Given = {}
  BY <1>1 DEF ComposeInv, OwnersInv
<1>3. Given' = {}
  BY <1>1, <1>2 DEF Given
<1>4. Clear \in BlitRecord /\ Len(Clear.layers) = 0 /\ ~Clear.target
  BY EmptySeq DEF Clear, BlitRecord
<1>5. blits' \in Seq(BlitRecord) /\ DOMAIN blits' = 1..1 /\ blits'[1] = Clear
  BY <1>1, <1>4
<1>6. GoodBlit(Clear)'
  <2>1. device.maxSource \in {4, 8}
    BY ComposeAssumption, LayerFacts DEF ComposeInv
  <2>2. AlignedLayers(Clear.layers)'
    BY <1>4 DEF AlignedLayers
  <2> QED
    BY <1>1, <1>4, <2>1, <2>2 DEF GoodBlit
<1>7. (\A n \in DOMAIN blits : GoodBlit(blits[n]))'
  <2>1. ASSUME NEW n \in DOMAIN blits'
        PROVE  blits'[n] = Clear
    BY <1>5
  <2> QED
    BY <2>1, <1>6 DEF GoodBlit
<1>8. ComposeTypeOK'
  BY <1>1, <1>4, <1>5 DEF ComposeInv, ComposeTypeOK, BlitRecord
<1>9. BatchGood(batch, determined, eigenL, rotation)'
  BY <1>1 DEF ComposeInv, BatchGood, InLine, HasSource, CanStart, MultiSource, BatchFull
<1>10. OwnersInv'
  BY <1>1, <1>3 DEF OwnersInv
<1> QED
  BY <1>1, <1>3, <1>5, <1>7, <1>8, <1>9, <1>10 DEF ComposeInv

LEMMA NotOwnedKeepsComposeInv == ComposeInv /\ (\E i \in Index : NotOwned(i)) => ComposeInv'
<1> SUFFICES ASSUME ComposeInv, NEW i \in Index, NotOwned(i)
             PROVE  ComposeInv'
  OBVIOUS
<1>1. /\ pc = "layers" /\ next = i /\ i \notin owners /\ Advance
      /\ UNCHANGED <<batch, determined, eigenL, rotation, hasYuv, blits>>
  BY DEF NotOwned, AtLayer, batchVars
<1>2. PICK s \in Seq(Index) : Records(blits, s) /\ Ascending(s \o batch, DrawnBelow(i))
  BY <1>1 DEF ComposeInv, Gathered
<1>3. Ascending(s \o batch, DrawnBelow(i + 1))
  BY <1>1, <1>2, AscendSkip DEF ComposeInv, ComposeTypeOK
<1>4. Gathered(blits', batch', next + 1)
  BY <1>1, <1>2, <1>3 DEF Gathered
<1>5. BatchGood(batch', determined', eigenL', rotation')
  BY <1>1 DEF ComposeInv
<1>6. determined' \in BOOLEAN /\ hasYuv' \in BOOLEAN
  BY <1>1, Zenon DEF ComposeInv, ComposeTypeOK
<1>7. eigenL' \in Nat /\ rotation' \in {"0", "90", "180", "270"}
  BY <1>1 DEF ComposeInv, ComposeTypeOK
<1> QED
  BY <1>1, <1>4, <1>5, <1>6, <1>7, LoopGoesOn, ComposeAssumption

LEMMA NoSourceKeepsComposeInv == ComposeInv /\ (\E i \in Index : NoSource(i)) => ComposeInv'
<1> SUFFICES ASSUME ComposeInv, NEW i \in Index, NoSource(i)
             PROVE  ComposeInv'
  OBVIOUS
<1>1. /\ pc = "layers" /\ next = i /\ i \in owners /\ MultiSource /\ ~HasSource(i) /\ Advance
      /\ batch' = IF Bottom(i) THEN Append(batch, i) ELSE batch
      /\ UNCHANGED <<determined, eigenL, rotation, hasYuv, blits>>
  BY DEF NoSource, AtLayer
<1>2. PICK s \in Seq(Index) : Records(blits, s) /\ Ascending(s \o batch, DrawnBelow(i))
  BY <1>1 DEF ComposeInv, Gathered
<1>3. owners \subseteq Index /\ batch \in Seq(Index) /\ ComposeTypeOK
  BY DEF ComposeInv, ComposeTypeOK
<1>4. determined' \in BOOLEAN /\ hasYuv' \in BOOLEAN
  BY <1>1, Zenon DEF ComposeInv, ComposeTypeOK
<1>5. eigenL' \in Nat /\ rotation' \in {"0", "90", "180", "270"}
  BY <1>1 DEF ComposeInv, ComposeTypeOK
<1>6. CASE Bottom(i)
  <2>1. batch' = Append(batch, i)
    BY <1>1, <1>6
  <2>2. batch = <<>>
    <3>1. DrawnBelow(i) = {}
      <4>1. \A j \in owners : ~(j < i)
        BY <1>3, <1>6 DEF Bottom, Index
      <4> QED
        BY <4>1 DEF DrawnBelow
    <3>2. s \o batch \in Seq(Index) /\ Len(s \o batch) = Len(s) + Len(batch)
      BY <1>3, ConcatProperties
    <3>3. Len(s) \in Nat /\ Len(batch) \in Nat
      BY <1>3, LenProperties
    <3>4. Len(batch) # 0 => 1 \in DOMAIN (s \o batch)
      BY <3>2, <3>3, LenProperties
    <3>5. Len(batch) # 0 => (s \o batch)[1] \in DrawnBelow(i)
      BY <1>2, <3>2, <3>4, ElementOfSeq DEF Ascending
    <3> QED
      BY <1>3, <3>1, <3>5, EmptySeq
  <2>3. ~determined
    BY <2>2 DEF ComposeInv, BatchGood
  <2>4. batch' = <<i>> /\ batch' \in Seq(Index) /\ Len(batch') = 1 /\ DOMAIN batch' = 1..1 /\ batch'[1] = i
    BY <2>1, <2>2
  <2>5. BatchGood(batch', determined', eigenL', rotation')
    <3>1. ~BatchFull(batch')
      BY <1>3, <2>4, ComposeAssumption, RoomForTwo
    <3>2. \A k \in DOMAIN batch' : InLine(batch'[k], determined', eigenL', rotation')
      <4>1. InLine(i, determined', eigenL', rotation')
        BY <1>1, Zenon DEF InLine
      <4>2. \A k \in DOMAIN batch' : batch'[k] = i
        BY <2>4
      <4> QED
        BY <4>1, <4>2, Zenon
    <3>3. ~determined'
      BY <1>1, <2>3
    <3> QED
      BY <1>1, <2>4, <3>1, <3>2, <3>3 DEF BatchGood
  <2>6. Ascending(Append(s \o batch, i), DrawnBelow(i + 1))
    BY <1>1, <1>2, <1>3, <1>6, AscendAdd DEF OfSource
  <2>7. Ascending(s \o batch', DrawnBelow(i + 1))
    <3>1. Append(s \o batch, i) = s \o Append(batch, i)
      BY <1>3
    <3> QED
      BY <2>1, <2>6, <3>1, Zenon
  <2>8. Gathered(blits', batch', next + 1)
    BY <1>1, <1>2, <2>7 DEF Gathered
  <2> QED
    BY <1>1, <1>4, <1>5, <2>5, <2>8, LoopGoesOn, ComposeAssumption
<1>7. CASE ~Bottom(i)
  <2>1. batch' = batch
    BY <1>1, <1>7
  <2>2. Ascending(s \o batch', DrawnBelow(i + 1))
    BY <1>1, <1>2, <1>3, <1>7, <2>1, AscendSkip DEF OfSource
  <2>3. Gathered(blits', batch', next + 1)
    BY <1>1, <1>2, <2>2 DEF Gathered
  <2>4. BatchGood(batch', determined', eigenL', rotation')
    BY <1>1, <2>1 DEF ComposeInv
  <2> QED
    BY <1>1, <1>4, <1>5, <2>3, <2>4, LoopGoesOn, ComposeAssumption
<1> QED
  BY <1>6, <1>7

\* A batch with layer i behind it is in line and fits the core.
LEMMA JoinedBatch ==
    ASSUME ComposeInv, NEW i \in Index, MultiSource, HasSource(i), Compatible(i)
    PROVE  LET b == Append(batch, i) IN
           /\ b \in Seq(Index) /\ b # <<>>
           /\ \A k \in DOMAIN b : InLine(b[k], determined, eigenL, rotation)
           /\ Len(b) <= device.maxSource
           /\ ~layers[b[1]].opaque => Len(b) < device.maxSource
<1> DEFINE b == Append(batch, i)
<1>1. BatchGood(batch, determined, eigenL, rotation) /\ determined /\ ComposeTypeOK
  BY DEF ComposeInv, Compatible
<1>2. batch \in Seq(Index) /\ batch # <<>> /\ ~BatchFull(batch) /\ (rotation # "0" \/ eigenL = EigenD)
  BY <1>1 DEF BatchGood
<1>3. /\ b \in Seq(Index) /\ Len(b) = Len(batch) + 1 /\ b[Len(batch) + 1] = i
      /\ \A k \in 1..Len(batch) : b[k] = batch[k]
  BY <1>2, AppendProperties
<1> HIDE DEF b
<1>4. Len(batch) \in Nat /\ Len(batch) # 0 /\ DOMAIN batch = 1..Len(batch) /\ DOMAIN b = 1..(Len(batch) + 1)
  BY <1>2, <1>3, EmptySeq, LenProperties
<1>5. InLine(i, determined, eigenL, rotation)
  BY <1>1, <1>2 DEF InLine, Compatible, CanStart
<1>6. ASSUME NEW k \in DOMAIN b
      PROVE  InLine(b[k], determined, eigenL, rotation)
  <2>1. CASE k \in 1..Len(batch)
    <3>1. InLine(batch[k], determined, eigenL, rotation) /\ b[k] = batch[k]
      BY <2>1, <1>1, <1>3, <1>4 DEF BatchGood
    <3> QED
      BY <3>1, Zenon
  <2>2. CASE k = Len(batch) + 1
    BY <2>2, <1>3, <1>5, Zenon
  <2> QED
    BY <2>1, <2>2, <1>4
<1>7. b[1] = batch[1] /\ b # <<>>
  BY <1>3, <1>4, EmptySeq
<1>8. device.maxSource \in {4, 8}
  BY <1>1, ComposeAssumption, LayerFacts
<1>9. ~(Len(batch) >= device.maxSource) /\ (~layers[batch[1]].opaque => ~(Len(batch) >= device.maxSource - 1))
  BY <1>2, Zenon DEF BatchFull
<1>10. Len(b) <= device.maxSource /\ (~layers[b[1]].opaque => Len(b) < device.maxSource)
  BY <1>3, <1>4, <1>7, <1>8, <1>9
<1> QED
  BY <1>3, <1>6, <1>7, <1>10, Zenon DEF b

LEMMA JoinKeepsComposeInv == ComposeInv /\ (\E i \in Index : Join(i)) => ComposeInv'
<1> SUFFICES ASSUME ComposeInv, NEW i \in Index, Join(i)
             PROVE  ComposeInv'
  OBVIOUS
<1> DEFINE b == Append(batch, i)
<1>1. /\ pc = "layers" /\ next = i /\ i \in owners /\ MultiSource /\ HasSource(i) /\ Advance
      /\ Compatible(i)
      /\ UNCHANGED <<eigenL, rotation>>
  BY DEF Join, AtLayer
<1>2. PICK s \in Seq(Index) : Records(blits, s) /\ Ascending(s \o batch, DrawnBelow(i))
  BY <1>1 DEF ComposeInv, Gathered
<1>3. /\ owners \subseteq Index /\ batch \in Seq(Index) /\ ComposeTypeOK
      /\ BatchGood(batch, determined, eigenL, rotation) /\ determined = TRUE
  BY <1>1, Zenon DEF ComposeInv, ComposeTypeOK, Compatible
<1>4. /\ b \in Seq(Index) /\ b # <<>>
      /\ \A k \in DOMAIN b : InLine(b[k], determined, eigenL, rotation)
      /\ Len(b) <= device.maxSource
      /\ ~layers[b[1]].opaque => Len(b) < device.maxSource
  BY <1>1, JoinedBatch, Zenon
<1>5. Ascending(s \o b, DrawnBelow(i + 1))
  <2>1. Append(s \o batch, i) = s \o b
    BY <1>3
  <2>2. Ascending(Append(s \o batch, i), DrawnBelow(i + 1))
    BY <1>1, <1>2, <1>3, AscendAdd DEF OfSource
  <2> QED
    BY <2>1, <2>2, Zenon
<1>6. layers[i].yuv \in BOOLEAN
  BY <1>3, ComposeAssumption, LayerFacts DEF Kind
<1>7. eigenL' \in Nat /\ rotation' \in {"0", "90", "180", "270"}
  BY <1>1 DEF ComposeInv, ComposeTypeOK
<1> DEFINE full == BatchFull(b)
<1>8. CASE full
  <2>1. /\ blits' = Append(blits, MultiSourceBlit(b)) /\ batch' = <<>>
        /\ hasYuv' = FALSE /\ determined' = FALSE
    BY <1>8, Zenon DEF Join
  <2> HIDE DEF b, full
  <2>2. GoodBlit(MultiSourceBlit(b)) /\ MultiSourceBlit(b).layers = b /\ MultiSourceBlit(b).dims = Dimmed(b)
    BY <1>3, <1>4, ComposeAssumption, MultiSourceBlitGood, Zenon
  <2>3. Records(blits', s \o b)
    BY <1>2, <1>3, <2>1, <2>2, RecordsMore
  <2>4. s \o b \in Seq(Index) /\ (s \o b) \o batch' = s \o b
    BY <1>4, <2>1, ConcatProperties, ConcatEmptySeq
  <2>5. Gathered(blits', batch', next + 1)
    BY <1>1, <1>5, <2>3, <2>4 DEF Gathered
  <2>6. BatchGood(batch', determined', eigenL', rotation')
    BY <2>1, BatchEmpty
  <2> QED
    BY <1>1, <1>7, <2>1, <2>5, <2>6, LoopGoesOn, ComposeAssumption
<1>9. CASE ~full
  <2>1. batch' = b /\ hasYuv' = layers[i].yuv /\ UNCHANGED <<determined, blits>>
    BY <1>9, Zenon DEF Join
  <2> HIDE DEF b
  <2>2. Gathered(blits', batch', next + 1)
    BY <1>1, <1>2, <1>5, <2>1 DEF Gathered
  <2>3. BatchGood(batch', determined', eigenL', rotation')
    <3>1. BatchGood(b, determined, eigenL, rotation)
      BY <1>1, <1>3, <1>4, <1>9 DEF BatchGood
    <3> QED
      BY <1>1, <2>1, <3>1
  <2>4. determined' \in BOOLEAN /\ hasYuv' \in BOOLEAN
    BY <1>3, <1>6, <2>1
  <2> QED
    BY <1>1, <1>7, <2>2, <2>3, <2>4, LoopGoesOn, ComposeAssumption
<1> QED
  BY <1>8, <1>9

LEMMA StartKeepsComposeInv == ComposeInv /\ (\E i \in Index : Start(i)) => ComposeInv'
<1> SUFFICES ASSUME ComposeInv, NEW i \in Index, Start(i)
             PROVE  ComposeInv'
  OBVIOUS
<1>1. /\ pc = "layers" /\ next = i /\ i \in owners /\ MultiSource /\ HasSource(i) /\ Advance
      /\ CanStart(i)
      /\ IF determined
         THEN blits' = Flushed(batch) /\ batch' = <<i>>
         ELSE batch' = Append(batch, i) /\ UNCHANGED blits
      /\ eigenL' = layers[i].eigen /\ rotation' = layers[i].rotation /\ hasYuv' = layers[i].yuv
  BY DEF Start, AtLayer
<1>2. determined' = TRUE
  BY Zenon DEF Start
<1>3. PICK s \in Seq(Index) : Records(blits, s) /\ Ascending(s \o batch, DrawnBelow(i))
  BY <1>1 DEF ComposeInv, Gathered
<1>4. /\ owners \subseteq Index /\ batch \in Seq(Index) /\ ComposeTypeOK
      /\ BatchGood(batch, determined, eigenL, rotation)
  BY DEF ComposeInv, ComposeTypeOK
<1>5. layers[i] \in Kind
  BY <1>4, ComposeAssumption, LayerFacts
<1>6. eigenL' \in Nat /\ rotation' \in {"0", "90", "180", "270"} /\ hasYuv' \in BOOLEAN
  BY <1>1, <1>5 DEF Kind
<1>7. Ascending(Append(s \o batch, i), DrawnBelow(i + 1))
  BY <1>1, <1>3, <1>4, AscendAdd DEF OfSource
<1>8. InLine(i, determined', eigenL', rotation') /\ (rotation' # "0" \/ eigenL' = EigenD)
  BY <1>1, <1>2 DEF InLine, CanStart
<1>9. CASE determined
  <2>1. blits' = Flushed(batch) /\ batch' = <<i>>
    BY <1>1, <1>9
  <2>2. Records(blits', s \o batch)
    BY <1>3, <1>4, <2>1, ComposeAssumption, FlushedRecords
  <2>3. s \o batch \in Seq(Index)
    BY <1>4, ConcatProperties
  <2>4. (s \o batch) \o batch' = Append(s \o batch, i)
    BY <2>1, <2>3, AppendIsConcat
  <2>5. Gathered(blits', batch', next + 1)
    BY <1>1, <1>7, <2>2, <2>3, <2>4 DEF Gathered
  <2>6. batch' \in Seq(Index) /\ Len(batch') = 1 /\ batch' # <<>> /\ \A k \in DOMAIN batch' : batch'[k] = i
    BY <2>1
  <2>7. ~BatchFull(batch')
    BY <1>4, <2>6, ComposeAssumption, RoomForTwo
  <2>8. \A k \in DOMAIN batch' : InLine(batch'[k], determined', eigenL', rotation')
    BY <1>8, <2>6, Zenon
  <2>9. BatchGood(batch', determined', eigenL', rotation')
    BY <1>1, <1>2, <1>8, <2>6, <2>7, <2>8 DEF BatchGood
  <2> QED
    BY <1>1, <1>2, <1>6, <2>5, <2>9, LoopGoesOn, ComposeAssumption
<1>10. CASE ~determined
  <2>1. batch' = Append(batch, i) /\ UNCHANGED blits
    BY <1>1, <1>10
  <2>2. Append(s \o batch, i) = s \o Append(batch, i)
    BY <1>4
  <2>3. Gathered(blits', batch', next + 1)
    <3>1. Ascending(s \o batch', DrawnBelow(next + 1))
      BY <1>1, <1>7, <2>1, <2>2, Zenon
    <3> QED
      BY <1>3, <2>1, <3>1 DEF Gathered
  <2>4. Len(batch) <= 1 /\ Len(batch) \in Nat /\ DOMAIN batch = 1..Len(batch)
    BY <1>4, <1>10, LenProperties DEF BatchGood
  <2>5. /\ batch' \in Seq(Index) /\ Len(batch') = Len(batch) + 1 /\ batch'[Len(batch) + 1] = i
        /\ \A k \in 1..Len(batch) : batch'[k] = batch[k]
    BY <1>4, <2>1, AppendProperties
  <2>6. batch' # <<>> /\ DOMAIN batch' = 1..(Len(batch) + 1)
    BY <2>4, <2>5, EmptySeq, LenProperties
  <2>7. ~BatchFull(batch')
    <3>1. \A n \in Nat : n <= 1 => n + 1 \in {1, 2}
      OBVIOUS
    <3>2. Len(batch) + 1 \in {1, 2}
      BY <2>4, <3>1
    <3> QED
      BY <1>4, <2>5, <3>2, ComposeAssumption, RoomForTwo
  <2>8. ASSUME NEW k \in DOMAIN batch'
        PROVE  InLine(batch'[k], determined', eigenL', rotation')
    <3>1. CASE k \in 1..Len(batch)
      <4>1. InLine(batch[k], determined, eigenL, rotation) /\ batch'[k] = batch[k]
        BY <3>1, <1>4, <2>4, <2>5 DEF BatchGood
      <4>2. ~HasSource(batch[k])
        BY <4>1, <1>10, Zenon DEF InLine
      <4> QED
        BY <4>1, <4>2, Zenon DEF InLine
    <3>2. CASE k = Len(batch) + 1
      BY <3>2, <1>8, <2>5, Zenon
    <3> QED
      BY <3>1, <3>2, <2>4, <2>6
  <2>9. BatchGood(batch', determined', eigenL', rotation')
    BY <1>1, <1>2, <1>8, <2>5, <2>6, <2>7, <2>8 DEF BatchGood
  <2> QED
    BY <1>1, <1>2, <1>6, <2>3, <2>9, LoopGoesOn, ComposeAssumption
<1> QED
  BY <1>9, <1>10

LEMMA AloneKeepsComposeInv == ComposeInv /\ (\E i \in Index : Alone(i)) => ComposeInv'
<1> SUFFICES ASSUME ComposeInv, NEW i \in Index, Alone(i)
             PROVE  ComposeInv'
  OBVIOUS
<1> DEFINE below == IF determined \/ batch = <<>> THEN Flushed(batch) ELSE Append(blits, Blit(batch[1]))
<1>1. /\ pc = "layers" /\ next = i /\ i \in owners /\ HasSource(i) /\ Advance
      /\ blits' = Append(below, Blit(i)) /\ batch' = <<>>
      /\ UNCHANGED <<eigenL, rotation>>
  BY DEF Alone, AtLayer
<1>2. determined' = FALSE /\ hasYuv' \in BOOLEAN
  BY Zenon DEF Alone, ComposeInv, ComposeTypeOK
<1>3. PICK s \in Seq(Index) : Records(blits, s) /\ Ascending(s \o batch, DrawnBelow(i))
  BY <1>1 DEF ComposeInv, Gathered
<1>4. /\ owners \subseteq Index /\ batch \in Seq(Index) /\ ComposeTypeOK
      /\ BatchGood(batch, determined, eigenL, rotation)
  BY DEF ComposeInv, ComposeTypeOK
<1>5. below = Flushed(batch)
  <2>1. CASE determined \/ batch = <<>>
    BY <2>1, Zenon
  <2>2. CASE ~determined /\ batch # <<>>
    <3>1. Len(batch) \in Nat /\ Len(batch) # 0 /\ Len(batch) <= 1
      BY <1>4, <2>2, EmptySeq, LenProperties DEF BatchGood
    <3>2. \A n \in Nat : n # 0 /\ n <= 1 => n = 1
      OBVIOUS
    <3>3. Len(batch) = 1
      BY <3>1, <3>2
    <3> QED
      BY <2>2, <3>3 DEF Flushed
  <2> QED
    BY <2>1, <2>2
<1> HIDE DEF below
<1>6. Records(below, s \o batch)
  BY <1>3, <1>4, <1>5, ComposeAssumption, FlushedRecords
<1>7. GoodBlit(Blit(i)) /\ Blit(i).layers = <<i>> /\ Blit(i).dims = Dimmed(Blit(i).layers)
  BY <1>4, BlitGood, ComposeAssumption
<1>8. Records(blits', (s \o batch) \o <<i>>)
  BY <1>1, <1>4, <1>6, <1>7, RecordsMore
<1>9. s \o batch \in Seq(Index) /\ <<i>> \in Seq(Index)
  BY <1>4, ConcatProperties
<1>10. Append(s \o batch, i) = (s \o batch) \o <<i>> /\ (s \o batch) \o <<i>> \in Seq(Index)
  BY <1>9, AppendIsConcat, ConcatProperties
<1>11. ((s \o batch) \o <<i>>) \o batch' = Append(s \o batch, i)
  BY <1>1, <1>10, ConcatEmptySeq
<1>12. Ascending(Append(s \o batch, i), DrawnBelow(i + 1))
  BY <1>1, <1>3, <1>4, AscendAdd DEF OfSource
<1>13. Gathered(blits', batch', next + 1)
  BY <1>1, <1>8, <1>10, <1>11, <1>12 DEF Gathered
<1>14. BatchGood(batch', determined', eigenL', rotation')
  BY <1>1, <1>2, BatchEmpty
<1>15. eigenL' \in Nat /\ rotation' \in {"0", "90", "180", "270"}
  BY <1>1 DEF ComposeInv, ComposeTypeOK
<1> QED
  BY <1>1, <1>2, <1>13, <1>14, <1>15, LoopGoesOn, ComposeAssumption

LEMMA SingleSourceKeepsComposeInv == ComposeInv /\ (\E i \in Index : SingleSource(i)) => ComposeInv'
<1> SUFFICES ASSUME ComposeInv, NEW i \in Index, SingleSource(i)
             PROVE  ComposeInv'
  OBVIOUS
<1>1. /\ pc = "layers" /\ next = i /\ i \in owners /\ ~MultiSource /\ Advance
      /\ blits' = IF HasSource(i) \/ Bottom(i) THEN Append(blits, Blit(i)) ELSE blits
      /\ UNCHANGED <<batch, determined, eigenL, rotation, hasYuv>>
  BY DEF SingleSource, AtLayer, batchVars
<1>2. PICK s \in Seq(Index) : Records(blits, s) /\ Ascending(s \o batch, DrawnBelow(i))
  BY <1>1 DEF ComposeInv, Gathered
<1>3. /\ owners \subseteq Index /\ ComposeTypeOK
      /\ BatchGood(batch, determined, eigenL, rotation)
  BY DEF ComposeInv, ComposeTypeOK
<1>4. batch = <<>> /\ s \o batch = s
  BY <1>1, <1>3, ConcatEmptySeq DEF BatchGood
<1>5. determined' \in BOOLEAN /\ hasYuv' \in BOOLEAN
  BY <1>1, Zenon DEF ComposeInv, ComposeTypeOK
<1>6. eigenL' \in Nat /\ rotation' \in {"0", "90", "180", "270"}
  BY <1>1 DEF ComposeInv, ComposeTypeOK
<1>7. BatchGood(batch', determined', eigenL', rotation')
  BY <1>1, <1>3
<1>8. CASE OfSource(i)
  <2>1. blits' = Append(blits, Blit(i))
    BY <1>1, <1>8, Zenon DEF OfSource
  <2>2. GoodBlit(Blit(i)) /\ Blit(i).layers = <<i>> /\ Blit(i).dims = Dimmed(Blit(i).layers)
    BY <1>3, BlitGood, ComposeAssumption
  <2>3. Records(blits', s \o <<i>>)
    BY <1>2, <1>3, <2>1, <2>2, RecordsMore
  <2>4. Append(s, i) = s \o <<i>> /\ s \o <<i>> \in Seq(Index) /\ (s \o <<i>>) \o batch' = s \o <<i>>
    <3>1. <<i>> \in Seq(Index) /\ batch' = <<>>
      BY <1>1, <1>4
    <3> QED
      BY <3>1, AppendIsConcat, ConcatProperties, ConcatEmptySeq
  <2>5. Ascending(Append(s, i), DrawnBelow(i + 1))
    BY <1>1, <1>2, <1>3, <1>4, <1>8, AscendAdd
  <2>6. Gathered(blits', batch', next + 1)
    BY <1>1, <2>3, <2>4, <2>5 DEF Gathered
  <2> QED
    BY <1>1, <1>5, <1>6, <1>7, <2>6, LoopGoesOn, ComposeAssumption
<1>9. CASE ~OfSource(i)
  <2>1. blits' = blits
    BY <1>1, <1>9, Zenon DEF OfSource
  <2>2. Ascending(s \o batch, DrawnBelow(i + 1))
    BY <1>2, <1>3, <1>9, AscendSkip
  <2>3. Gathered(blits', batch', next + 1)
    BY <1>1, <1>2, <2>1, <2>2 DEF Gathered
  <2> QED
    BY <1>1, <1>5, <1>6, <1>7, <2>3, LoopGoesOn, ComposeAssumption
<1> QED
  BY <1>8, <1>9

LEMMA OverflowKeepsComposeInv == ComposeInv /\ (\E i \in Index : Overflow(i)) => ComposeInv'
<1> SUFFICES ASSUME ComposeInv, NEW i \in Index, Overflow(i)
             PROVE  ComposeInv'
  OBVIOUS
<1>1. /\ pc' = "overflow" /\ Compatible(i) /\ Len(batch) >= IndexSlots
      /\ UNCHANGED <<device, layers, owners, next, batch, determined, eigenL, rotation, hasYuv, blits>>
  BY DEF Overflow, context, batchVars
<1>2. ComposeTypeOK'
  <2>1. determined' \in BOOLEAN /\ hasYuv' \in BOOLEAN
    BY <1>1, Zenon DEF ComposeInv, ComposeTypeOK
  <2> QED
    BY <1>1, <2>1 DEF ComposeInv, ComposeTypeOK
<1>3. (\A n \in DOMAIN blits : GoodBlit(blits[n]))'
  <2>1. ASSUME NEW n \in DOMAIN blits'
        PROVE  GoodBlit(blits[n])'
    <3>1. AlignedLayers(blits[n].layers)' <=> AlignedLayers(blits'[n].layers)
      BY <1>1 DEF AlignedLayers, HasSource, CanStart
    <3> QED
      BY <1>1, <3>1 DEF GoodBlit, ComposeInv
  <2> QED
    BY <2>1
<1>4. BatchGood(batch, determined, eigenL, rotation)'
  BY <1>1 DEF ComposeInv, BatchGood, InLine, HasSource, CanStart, MultiSource, BatchFull
<1>5. OwnersInv'
  BY <1>1 DEF OwnersInv
<1>6. device.maxSource > IndexSlots
  <2>1. BatchGood(batch, determined, eigenL, rotation) /\ determined /\ batch \in Seq(Index)
    BY <1>1 DEF ComposeInv, ComposeTypeOK, Compatible
  <2>2. ~BatchFull(batch)
    BY <2>1 DEF BatchGood
  <2>3. ~(Len(batch) >= device.maxSource)
    BY <2>2, Zenon DEF BatchFull
  <2>4. Len(batch) \in Nat /\ device.maxSource \in {4, 8}
    BY <2>1, LenProperties, ComposeAssumption, LayerFacts DEF ComposeInv
  <2> QED
    BY <1>1, <2>3, <2>4 DEF IndexSlots
<1> QED
  BY <1>1, <1>2, <1>3, <1>4, <1>5, <1>6 DEF ComposeInv

LEMMA FinishKeepsComposeInv == ComposeInv /\ Finish => ComposeInv'
<1> SUFFICES ASSUME ComposeInv, Finish
             PROVE  ComposeInv'
  OBVIOUS
<1>1. /\ pc = "layers" /\ pc' = "done" /\ next > LayerCount
      /\ blits' = IF device.multiSourceBlt THEN Flushed(batch) ELSE blits
      /\ UNCHANGED <<device, layers, owners, next, batch, determined, eigenL, rotation, hasYuv>>
  BY DEF Finish, context, batchVars
<1>2. /\ owners \subseteq Index /\ batch \in Seq(Index) /\ ComposeTypeOK
      /\ BatchGood(batch, determined, eigenL, rotation)
  BY DEF ComposeInv, ComposeTypeOK
<1>3. blits' = Flushed(batch)
  <2>1. CASE device.multiSourceBlt
    BY <1>1, <2>1
  <2>2. CASE ~device.multiSourceBlt
    <3>1. batch = <<>>
      BY <1>2, <2>2, Zenon DEF BatchGood, MultiSource
    <3>2. Flushed(batch) = blits
      BY <3>1, EmptySeq DEF Flushed
    <3> QED
      BY <1>1, <2>2, <3>2
  <2> QED
    BY <2>1, <2>2
<1>4. PICK s \in Seq(Index) : Records(blits, s) /\ Ascending(s \o batch, DrawnBelow(next))
  BY <1>1 DEF ComposeInv, Gathered
<1>5. PICK t \in Seq(Index) : t = s \o batch
  BY <1>2, ConcatProperties
<1>6. Records(blits', t)
  BY <1>2, <1>3, <1>4, <1>5, ComposeAssumption, FlushedRecords
<1>7. t \o <<>> = t
  BY ConcatEmptySeq
<1>8. Ascending(t, DrawnBelow(next))
  BY <1>4, <1>5
<1>9. blits' \in Seq(BlitRecord) /\ \A n \in DOMAIN blits' : GoodBlit(blits'[n])
  BY <1>6 DEF Records
<1>10. \A n \in DOMAIN blits' : blits'[n] \in BlitRecord
  BY <1>9 DEF GoodBlit
<1>11. ComposeTypeOK'
  <2>1. determined' \in BOOLEAN /\ hasYuv' \in BOOLEAN
    BY <1>1, Zenon DEF ComposeInv, ComposeTypeOK
  <2> QED
    BY <1>1, <1>10, <2>1 DEF ComposeInv, ComposeTypeOK, BlitRecord
<1>12. (\A n \in DOMAIN blits : GoodBlit(blits[n]))'
  <2>1. ASSUME NEW n \in DOMAIN blits'
        PROVE  GoodBlit(blits[n])'
    <3>1. AlignedLayers(blits[n].layers)' <=> AlignedLayers(blits'[n].layers)
      BY <1>1 DEF AlignedLayers, HasSource, CanStart
    <3> QED
      BY <1>1, <1>9, <3>1 DEF GoodBlit
  <2> QED
    BY <2>1
<1>13. BatchGood(batch, determined, eigenL, rotation)'
  BY <1>1, <1>2 DEF BatchGood, InLine, HasSource, CanStart, MultiSource, BatchFull
<1>14. Given' = Given /\ Shown' = Shown
  BY <1>1 DEF Given, Shown
<1>15. next' = LayerCount + 1
  BY <1>1, <1>2, LayerFacts, ComposeAssumption DEF ComposeTypeOK
<1>16. OwnersInv'
  BY <1>1, <1>14, <1>15 DEF ComposeInv, OwnersInv
<1>17. Gathered(blits, <<>>, next)'
  <2>1. Records(blits, t)'
    BY <1>1, <1>6, <1>12 DEF Records, LayersOf, DimsOf, Dimmed, DimsAbove
  <2>2. Ascending(t \o <<>>, DrawnBelow(next))'
    BY <1>1, <1>7, <1>8 DEF Ascending, DrawnBelow, OfSource, HasSource, Bottom
  <2> QED
    BY <1>7, <2>1, <2>2 DEF Gathered
<1> QED
  BY <1>1, <1>9, <1>11, <1>12, <1>13, <1>16, <1>17 DEF ComposeInv

LEMMA StutterKeepsComposeInv == ComposeInv /\ UNCHANGED composeVars => ComposeInv'
<1> SUFFICES ASSUME ComposeInv, UNCHANGED composeVars
             PROVE  ComposeInv'
  OBVIOUS
<1>1. UNCHANGED <<device, layers, owners, pc, next, batch, determined, eigenL, rotation, hasYuv, blits>>
  BY DEF composeVars, context, batchVars
<1>2. ComposeTypeOK'
  BY <1>1 DEF ComposeInv, ComposeTypeOK
<1>3. (\A n \in DOMAIN blits : GoodBlit(blits[n]))'
  <2>1. ASSUME NEW n \in DOMAIN blits'
        PROVE  GoodBlit(blits[n])'
    <3>1. AlignedLayers(blits[n].layers)' <=> AlignedLayers(blits'[n].layers)
      BY <1>1 DEF AlignedLayers, HasSource, CanStart
    <3> QED
      BY <1>1, <3>1 DEF GoodBlit, ComposeInv
  <2> QED
    BY <2>1
<1>4. BatchGood(batch, determined, eigenL, rotation)'
  BY <1>1 DEF ComposeInv, BatchGood, InLine, HasSource, CanStart, MultiSource, BatchFull
<1>5. Given' = Given /\ Shown' = Shown
  BY <1>1 DEF Given, Shown
<1>6. OwnersInv'
  BY <1>1, <1>5 DEF ComposeInv, OwnersInv
<1>7. ASSUME NEW b \in Seq(Index), Gathered(blits, b, next)
      PROVE  Gathered(blits, b, next)'
  <2>1. PICK s \in Seq(Index) : Records(blits, s) /\ Ascending(s \o b, DrawnBelow(next))
    BY <1>7 DEF Gathered
  <2>2. Records(blits, s)'
    BY <1>1, <1>3, <2>1 DEF Records, LayersOf, DimsOf, Dimmed, DimsAbove
  <2>3. Ascending(s \o b, DrawnBelow(next))'
    BY <1>1, <2>1 DEF Ascending, DrawnBelow, OfSource, HasSource, Bottom
  <2> QED
    BY <2>2, <2>3 DEF Gathered
<1>8. pc' = "layers" => Gathered(blits, batch, next)'
  <2>1. SUFFICES ASSUME pc = "layers"
                 PROVE  Gathered(blits, batch, next)'
    BY <1>1
  <2>2. PICK s \in Seq(Index) : Records(blits, s) /\ Ascending(s \o batch, DrawnBelow(next))
    BY <2>1 DEF Gathered, ComposeInv
  <2>3. Records(blits, s)'
    BY <1>1, <1>3, <2>2 DEF Records, LayersOf, DimsOf, Dimmed, DimsAbove
  <2>4. Ascending(s \o batch, DrawnBelow(next))'
    BY <1>1, <2>2 DEF Ascending, DrawnBelow, OfSource, HasSource, Bottom
  <2> QED
    BY <2>3, <2>4 DEF Gathered
<1>9. pc' = "done" /\ Given' # {} => Gathered(blits, <<>>, next)'
  BY <1>1, <1>5, <1>7, EmptySeq DEF ComposeInv
<1> QED
  BY <1>1, <1>2, <1>3, <1>4, <1>6, <1>8, <1>9 DEF ComposeInv

LEMMA NextKeepsComposeInv == ComposeInv /\ [ComposeNext]_composeVars => ComposeInv'
  BY CorrectKeepsComposeInv, WormHoleKeepsComposeInv, NotOwnedKeepsComposeInv, NoSourceKeepsComposeInv, JoinKeepsComposeInv,
     OverflowKeepsComposeInv, StartKeepsComposeInv, AloneKeepsComposeInv, SingleSourceKeepsComposeInv, FinishKeepsComposeInv, StutterKeepsComposeInv, Zenon
     DEF ComposeNext

\* The batch is always one the core can take, and with the blits issued so far it
\* holds the layers the loop of hwcCompose has passed, in their order.
THEOREM AlwaysComposeInv == ComposeSpec => []ComposeInv
  BY InitComposeInv, NextKeepsComposeInv, PTL DEF ComposeSpec

\* ComposeTypeOK: owners, batch and blits are of the layers of the area.
THEOREM ComposeTypeCorrect == ComposeSpec => []ComposeTypeOK
<1>1. ComposeInv => ComposeTypeOK
  BY DEF ComposeInv
<1> QED
  BY <1>1, AlwaysComposeInv, PTL

\* BatchAligned: sources of one multi-source blit agree on alignment and
\* rotation, for any number of layers.
THEOREM BatchesAligned == ComposeSpec => []BatchAligned
<1>1. ComposeInv => BatchAligned
  BY DEF ComposeInv, GoodBlit, AlignedLayers, BatchAligned
<1> QED
  BY <1>1, AlwaysComposeInv, PTL

\* SourcesFit: no blit has more sources than the core takes, and a core that
\* takes four sources never has sourceIndices overflow.
THEOREM SourcesFitCore == ComposeSpec => []SourcesFit
<1>1. ComposeInv => SourcesFit
  BY DEF ComposeInv, GoodBlit, SourcesFit
<1> QED
  BY <1>1, AlwaysComposeInv, PTL

\* PictureRight: whatever the layers of an area and however hwcCompose batches
\* them, the blits draw each layer that shows once, from the bottom to the top,
\* and dim it by the DIM layers above it.
THEOREM AreaDrawnRight == ComposeSpec => []PictureRight
<1>1. ComposeInv => PictureRight
  <2> SUFFICES ASSUME ComposeInv, pc = "done"
               PROVE  PictureRight
    BY Zenon DEF PictureRight
  <2>1. CASE Given = {}
    <3>1. \A i \in Index : ~layers[i].present
      BY <2>1 DEF Given
    <3>2. blits = <<Clear>>
      BY <2>1 DEF ComposeInv, OwnersInv
    <3> QED
      BY <3>1, <3>2, Zenon DEF PictureRight
  <2>2. CASE Given # {}
    <3> DEFINE bottom == CHOOSE i \in Shown : \A j \in Shown : i <= j
               drawn  == {i \in Shown : HasSource(i) \/ i = bottom}
               dims(i) == {j \in Shown : j > i /\ layers[j].type = "DIM" /\ ~layers[j].opaque}
               order  == FlattenSeq([n \in DOMAIN blits |-> blits[n].layers])
    <3>1. SUFFICES /\ ToSet(order) = drawn
                   /\ \A j, k \in DOMAIN order : j < k => order[j] < order[k]
                   /\ FlattenSeq([n \in DOMAIN blits |-> blits[n].dims])
                          = [n \in DOMAIN order |-> dims(order[n])]
      <4>1. ~(\A i \in Index : ~layers[i].present)
        BY <2>2 DEF Given
      <4> QED
        BY <4>1, Zenon DEF PictureRight
    <3>2. owners = Shown /\ owners # {} /\ next = LayerCount + 1 /\ Gathered(blits, <<>>, next)
      BY <2>2 DEF ComposeInv, OwnersInv
    <3>3. PICK s \in Seq(Index) : Records(blits, s) /\ Ascending(s \o <<>>, DrawnBelow(next))
      BY <3>2 DEF Gathered
    <3>4. Ascending(s, DrawnBelow(next))
      BY <3>3, ConcatEmptySeq
    <3>5. order = s /\ FlattenSeq([n \in DOMAIN blits |-> blits[n].dims]) = Dimmed(s)
      BY <3>3, Zenon DEF Records, LayersOf, DimsOf
    <3> HIDE DEF order
    <3>6. owners \in SUBSET Index
      BY DEF ComposeInv, ComposeTypeOK
    <3>7. bottom \in owners /\ \A j \in owners : bottom <= j
      <4>1. \E i \in owners : \A j \in owners : i <= j
        BY <3>2, <3>6, LeastLayer
      <4> QED
        BY <4>1, <3>2
    <3> HIDE DEF bottom
    <3>8. \A i \in owners : Bottom(i) <=> i = bottom
      BY <3>6, <3>7 DEF Bottom, Index
    <3>9. DrawnBelow(next) = drawn
      <4>1. \A i \in owners : i < next
        BY <3>2, <3>6, ComposeAssumption DEF ComposeAssumption, Index
      <4>2. \A i \in owners : OfSource(i) <=> HasSource(i) \/ i = bottom
        BY <3>8, Zenon DEF OfSource
      <4> QED
        BY <3>2, <4>1, <4>2 DEF DrawnBelow
    <3> HIDE DEF drawn
    <3>10. ToSet(order) = drawn
      <4>1. \A k \in DOMAIN s : s[k] \in Index
        BY ElementOfSeq
      <4>2. \A i \in Index : i \in drawn <=> \E k \in DOMAIN s : s[k] = i
        BY <3>4, <3>9 DEF Ascending
      <4>3. drawn \subseteq Index
        BY <3>2, <3>6 DEF drawn
      <4> QED
        BY <4>1, <4>2, <4>3, <3>5 DEF ToSet
    <3>11. \A j, k \in DOMAIN order : j < k => order[j] < order[k]
      BY <3>4, <3>5 DEF Ascending
    <3>12. Dimmed(s) = [n \in DOMAIN s |-> dims(s[n])]
      BY <3>2 DEF Dimmed, DimsAbove
    <3> QED
      BY <3>5, <3>10, <3>11, <3>12
  <2> QED
    BY <2>1, <2>2
<1> QED
  BY <1>1, AlwaysComposeInv, PTL

----------------------------------------------------------------------------
(***************************************************************************)
(* LayerBlit.                                                              *)
(***************************************************************************)

LEMMA HwLayerFields ==
    ASSUME NEW hw \in HwLayer
    PROVE  /\ hw.transform.flipH \in BOOLEAN /\ hw.transform.flipV \in BOOLEAN
           /\ hw.transform.rot90 \in BOOLEAN /\ hw.topBottom \in BOOLEAN
           /\ hw.width \in Nat /\ hw.height \in Nat
           /\ hw.crop \in Rect /\ hw.frame \in Rect
           /\ hw.bytes \in {1, 2, 4} /\ hw.yuv \in BOOLEAN
  BY DEF HwLayer, Transform

LEMMA RectFields ==
    ASSUME NEW r \in Rect
    PROVE  r.left \in Int /\ r.top \in Int /\ r.right \in Int /\ r.bottom \in Int
  BY DEF Rect

LEMMA Oriented ==
    ASSUME NEW hw \in HwLayer
    PROVE /\ Rotation(hw.transform) \in {0, 90, 180, 270}
          /\ Rotation(hw.transform) \in {90, 270} <=> hw.transform.rot90
          /\ Rotation(hw.transform) = 180 <=> ~hw.transform.rot90 /\ hw.transform.flipH /\ hw.transform.flipV
          /\ Rotation(hw.transform) = 90 <=> hw.transform.rot90 /\ hw.transform.flipH /\ hw.transform.flipV
  BY HwLayerFields DEF Rotation

LEMMA Sides ==
    ASSUME NEW hw \in HwLayer
    PROVE /\ SrcRect(hw) \in Rect
          /\ WidthOf(SrcRect(hw)) = IF hw.transform.rot90 THEN HeightOf(hw.crop) ELSE WidthOf(hw.crop)
          /\ HeightOf(SrcRect(hw)) = IF hw.transform.rot90 THEN WidthOf(hw.crop) ELSE HeightOf(hw.crop)
<1>1. hw.crop.left \in Int /\ hw.crop.right \in Int /\ hw.crop.top \in Int /\ hw.crop.bottom \in Int
      /\ hw.width \in Int /\ hw.height \in Int
  BY HwLayerFields, RectFields
<1>2. CASE hw.transform.rot90
  BY <1>1, <1>2, Oriented DEF SrcRect, Rows, RectOf, WidthOf, HeightOf, Rect
<1>3. CASE ~hw.transform.rot90
  BY <1>1, <1>3, Oriented DEF SrcRect, Rows, RectOf, WidthOf, HeightOf, Rect
<1> QED
  BY <1>2, <1>3

\* The pixel (u, v) of a surface that is turned back.
TurnedBack(turn, u, v, w, h) ==
    CASE turn = 0   -> <<u, v>>
      [] turn = 90  -> <<w - 1 - v, u>>
      [] turn = 180 -> <<w - 1 - u, h - 1 - v>>
      [] OTHER          -> <<v, h - 1 - u>>

Along(low, high, mirror, n) == IF mirror THEN high - 1 - n ELSE low + n

\* What PixelWanted says, for a pixel of the scaled frame.
Pictured(hw, sx, sy) ==
    LET t == hw.transform
        cw == WidthOf(hw.crop)
        ch == HeightOf(hw.crop)
        column == IF t.rot90 THEN sy ELSE sx
        row == IF t.rot90 THEN ch - 1 - sx ELSE sy
        c == hw.crop.left + (IF t.flipH THEN cw - 1 - column ELSE column)
        r == hw.crop.top + (IF t.flipV THEN ch - 1 - row ELSE row)
    IN  <<c, IF hw.topBottom THEN r ELSE hw.height - 1 - r>>

\* Turned back in the surface, a pixel of the source rectangle is the pixel of
\* the picture: what hwcSet computes undoes every transform.
LEMMA SourceShows ==
    ASSUME NEW hw \in HwLayer, NEW sx \in Int, NEW sy \in Int,
           Rotation(hw.transform) = 180 => hw.crop.top = hw.height - hw.crop.bottom
    PROVE  TurnedBack(Rotation(hw.transform),
               Along(SrcRect(hw).left, SrcRect(hw).right, HMirror(hw), sx),
               Along(SrcRect(hw).top, SrcRect(hw).bottom, VMirror(hw), sy), hw.width, hw.height)
             = Pictured(hw, sx, sy)
<1>1. hw.crop.left \in Int /\ hw.crop.right \in Int /\ hw.crop.top \in Int /\ hw.crop.bottom \in Int
      /\ hw.width \in Int /\ hw.height \in Int
  BY HwLayerFields, RectFields
<1> DEFINE t == hw.transform
<1>2. CASE ~t.rot90 /\ ~(t.flipH /\ t.flipV)
  BY <1>1, <1>2 DEF Pictured, TurnedBack, Along, SrcRect, Rows, RectOf, Rotation, HMirror, VMirror, WidthOf, HeightOf
<1>3. CASE ~t.rot90 /\ t.flipH /\ t.flipV
  BY <1>1, <1>3 DEF Pictured, TurnedBack, Along, SrcRect, Rows, RectOf, Rotation, HMirror, VMirror, WidthOf, HeightOf
<1>4. CASE t.rot90 /\ ~(t.flipH /\ t.flipV)
  <2>1. CASE t.flipH /\ ~t.flipV
    <3>1. Rotation(t) = 270
      BY <1>4, <2>1 DEF Rotation
    <3>2. (HMirror(hw) <=> ~hw.topBottom) /\ (VMirror(hw) <=> TRUE)
      BY <1>4, <2>1 DEF HMirror, VMirror
    <3>3. CASE hw.topBottom
      BY <1>1, <1>4, <2>1, <3>1, <3>2, <3>3 DEF Pictured, TurnedBack, Along, SrcRect, Rows, RectOf, WidthOf, HeightOf
    <3>4. CASE ~hw.topBottom
      BY <1>1, <1>4, <2>1, <3>1, <3>2, <3>4 DEF Pictured, TurnedBack, Along, SrcRect, Rows, RectOf, WidthOf, HeightOf
    <3> QED
      BY <3>3, <3>4
  <2>2. CASE ~t.flipH /\ t.flipV
    <3>1. Rotation(t) = 270
      BY <1>4, <2>2 DEF Rotation
    <3>2. (HMirror(hw) <=> hw.topBottom) /\ (VMirror(hw) <=> FALSE)
      BY <1>4, <2>2 DEF HMirror, VMirror
    <3>3. CASE hw.topBottom
      BY <1>1, <1>4, <2>2, <3>1, <3>2, <3>3 DEF Pictured, TurnedBack, Along, SrcRect, Rows, RectOf, WidthOf, HeightOf
    <3>4. CASE ~hw.topBottom
      BY <1>1, <1>4, <2>2, <3>1, <3>2, <3>4 DEF Pictured, TurnedBack, Along, SrcRect, Rows, RectOf, WidthOf, HeightOf
    <3> QED
      BY <3>3, <3>4
  <2>3. CASE ~t.flipH /\ ~t.flipV
    <3>1. Rotation(t) = 270
      BY <1>4, <2>3 DEF Rotation
    <3>2. (HMirror(hw) <=> ~hw.topBottom) /\ (VMirror(hw) <=> FALSE)
      BY <1>4, <2>3 DEF HMirror, VMirror
    <3>3. CASE hw.topBottom
      BY <1>1, <1>4, <2>3, <3>1, <3>2, <3>3 DEF Pictured, TurnedBack, Along, SrcRect, Rows, RectOf, WidthOf, HeightOf
    <3>4. CASE ~hw.topBottom
      BY <1>1, <1>4, <2>3, <3>1, <3>2, <3>4 DEF Pictured, TurnedBack, Along, SrcRect, Rows, RectOf, WidthOf, HeightOf
    <3> QED
      BY <3>3, <3>4
  <2> QED
    BY <1>4, <2>1, <2>2, <2>3
<1>5. CASE t.rot90 /\ t.flipH /\ t.flipV
  BY <1>1, <1>5 DEF Pictured, TurnedBack, Along, SrcRect, Rows, RectOf, Rotation, HMirror, VMirror, WidthOf, HeightOf
<1> QED
  BY <1>2, <1>3, <1>4, <1>5

\* What rounding down does to sums and differences.
LEMMA WholeDiv == \A n \in Int, d \in Nat \ {0} : (n * d) \div d = n
  OBVIOUS
LEMMA ShiftDiv == \A s \in Int, z \in Int, d \in Nat \ {0} : (s * d + z) \div d = s + (z \div d)
  OBVIOUS
LEMMA SumDiv == \A k \in Int, m \in Int, d \in Nat \ {0} : ((k + m) \div d) - (k \div d) - (m \div d) \in {0, 1}
  OBVIOUS
LEMMA DivIsInt == \A n \in Int, d \in Nat \ {0} : n \div d \in Int
  OBVIOUS

LEMMA DiffDiv ==
    ASSUME NEW k \in Int, NEW m \in Int, NEW d \in Nat \ {0}
    PROVE  ((k + m) \div d) + ((-k) \div d) - (m \div d) \in {-1, 0}
<1>1. (((-k) + (k + m)) \div d) - ((-k) \div d) - ((k + m) \div d) \in {0, 1}
  <2>1. -k \in Int /\ k + m \in Int
    OBVIOUS
  <2> QED
    BY <2>1, SumDiv, Zenon
<1>2. (-k) + (k + m) = m
  OBVIOUS
<1>3. (m \div d) \in Int /\ ((-k) \div d) \in Int /\ ((k + m) \div d) \in Int
  BY DivIsInt
<1>4. (m \div d) - ((-k) \div d) - ((k + m) \div d) \in {0, 1}
  BY <1>1, <1>2, Zenon
<1>5. \A a, b, c \in Int : a - b - c \in {0, 1} => c + b - a \in {-1, 0}
  OBVIOUS
<1> QED
  BY <1>3, <1>4, <1>5, Zenon

LEMMA ScaledInt == \A n \in Int, w \in Int, d \in Nat \ {0} : Scaled(n, w, d) \in Int
  BY DivIsInt DEF Scaled

\* Along an axis, the first pixel of the area's part of the source and those
\* behind it are the frame's, at most one off if the layer is scaled.
LEMMA FromLow ==
    ASSUME NEW s \in Int, NEW off \in Int, NEW x \in Int, NEW w \in Int, NEW d \in Nat \ {0}
    PROVE  /\ Moved(s, off, w, d) \in Int
           /\ Near(Moved(s, off, w, d) + Scaled(x, w, d), s + Scaled(x - off, w, d),
                   IF w = d THEN 0 ELSE 1)
<1> DEFINE k == -(off * w)
           m == x * w
<1>1. k \in Int /\ m \in Int
  OBVIOUS
<1>2. Moved(s, off, w, d) = s + (k \div d)
  <2>1. s * d - off * w = s * d + k
    OBVIOUS
  <2>2. (s * d + k) \div d = s + (k \div d)
    BY <1>1, ShiftDiv, Zenon
  <2> QED
    BY <2>1, <2>2, Zenon DEF Moved
<1>3. Scaled(x, w, d) = m \div d
  BY DEF Scaled
<1>4. Scaled(x - off, w, d) = (k + m) \div d
  <2>1. (x - off) * w = k + m
    OBVIOUS
  <2> QED
    BY <2>1, Zenon DEF Scaled
<1>5. k \div d \in Int /\ m \div d \in Int /\ (k + m) \div d \in Int
  <2>1. k + m \in Int
    BY <1>1
  <2> QED
    BY <1>1, <2>1, DivIsInt, Zenon
<1>6. ((k + m) \div d) - (k \div d) - (m \div d) \in {0, 1}
  BY <1>1, SumDiv, Zenon
<1>7. \A a, b, c \in Int : a - b - c \in {0, 1} => Near(s + b + c, s + a, 1) /\ s + b \in Int
  BY DEF Near
<1>8. w = d => k \div d = -off /\ m \div d = x /\ (k + m) \div d = x - off
  <2> SUFFICES ASSUME w = d
               PROVE  k \div d = -off /\ m \div d = x /\ (k + m) \div d = x - off
    OBVIOUS
  <2>1. k = (-off) * d /\ m = x * d /\ k + m = (x - off) * d
    OBVIOUS
  <2>2. -off \in Int /\ x - off \in Int
    OBVIOUS
  <2> QED
    BY <2>1, <2>2, WholeDiv, Zenon
<1> HIDE DEF k, m
<1>9. Moved(s, off, w, d) \in Int /\ Scaled(x, w, d) \in Int /\ Scaled(x - off, w, d) \in Int
  BY <1>2, <1>3, <1>4, <1>5
<1>10. Near(Moved(s, off, w, d) + Scaled(x, w, d), s + Scaled(x - off, w, d), 1)
  BY <1>2, <1>3, <1>4, <1>5, <1>6, <1>7, Zenon
<1>11. w = d => Moved(s, off, w, d) + Scaled(x, w, d) = s + Scaled(x - off, w, d)
  BY <1>2, <1>3, <1>4, <1>8
<1>12. \A a \in Int : Near(a, a, 0)
  BY DEF Near
<1>13. s + Scaled(x - off, w, d) \in Int
  BY <1>9
<1> QED
  BY <1>9, <1>10, <1>11, <1>12, <1>13, Zenon

\* The same, counted from the far end.
LEMMA FromHigh ==
    ASSUME NEW s \in Int, NEW off \in Int, NEW x \in Int, NEW w \in Int, NEW d \in Nat \ {0}
    PROVE  /\ Moved(s, off, w, d) \in Int
           /\ Near(Moved(s, off, w, d) - 1 - Scaled(x, w, d), s - 1 - Scaled(x + off, w, d),
                   IF w = d THEN 0 ELSE 1)
<1> DEFINE k == off * w
           m == x * w
<1>1. k \in Int /\ m \in Int /\ -k \in Int
  OBVIOUS
<1>2. Moved(s, off, w, d) = s + ((-k) \div d)
  <2>1. s * d - off * w = s * d + (-k)
    OBVIOUS
  <2>2. (s * d + (-k)) \div d = s + ((-k) \div d)
    BY <1>1, ShiftDiv, Zenon
  <2> QED
    BY <2>1, <2>2, Zenon DEF Moved
<1>3. Scaled(x, w, d) = m \div d
  BY DEF Scaled
<1>4. Scaled(x + off, w, d) = (k + m) \div d
  <2>1. (x + off) * w = k + m
    OBVIOUS
  <2> QED
    BY <2>1, Zenon DEF Scaled
<1>5. (-k) \div d \in Int /\ m \div d \in Int /\ (k + m) \div d \in Int
  <2>1. k + m \in Int
    BY <1>1
  <2> QED
    BY <1>1, <2>1, DivIsInt, Zenon
<1>6. ((k + m) \div d) + ((-k) \div d) - (m \div d) \in {-1, 0}
  BY <1>1, DiffDiv, Zenon
<1>7. \A a, b, c \in Int : a + b - c \in {-1, 0} => Near((s + b) - 1 - c, s - 1 - a, 1) /\ s + b \in Int
  BY DEF Near
<1>8. w = d => (-k) \div d = -off /\ m \div d = x /\ (k + m) \div d = x + off
  <2> SUFFICES ASSUME w = d
               PROVE  (-k) \div d = -off /\ m \div d = x /\ (k + m) \div d = x + off
    OBVIOUS
  <2>1. -k = (-off) * d /\ m = x * d /\ k + m = (x + off) * d
    OBVIOUS
  <2>2. -off \in Int /\ x + off \in Int
    OBVIOUS
  <2> QED
    BY <2>1, <2>2, WholeDiv, Zenon
<1> HIDE DEF k, m
<1>9. Moved(s, off, w, d) \in Int /\ Scaled(x, w, d) \in Int /\ Scaled(x + off, w, d) \in Int
  BY <1>2, <1>3, <1>4, <1>5
<1>10. Near(Moved(s, off, w, d) - 1 - Scaled(x, w, d), s - 1 - Scaled(x + off, w, d), 1)
  BY <1>2, <1>3, <1>4, <1>5, <1>6, <1>7, Zenon
<1>11. w = d => Moved(s, off, w, d) - 1 - Scaled(x, w, d) = s - 1 - Scaled(x + off, w, d)
  <2> SUFFICES ASSUME w = d
               PROVE  Moved(s, off, w, d) - 1 - Scaled(x, w, d) = s - 1 - Scaled(x + off, w, d)
    OBVIOUS
  <2>1. Moved(s, off, w, d) = s + (-off) /\ Scaled(x, w, d) = x /\ Scaled(x + off, w, d) = x + off
    BY <1>2, <1>3, <1>4, <1>8, Zenon
  <2> QED
    BY <2>1
<1>12. \A a \in Int : Near(a, a, 0)
  BY DEF Near
<1>13. s - 1 - Scaled(x + off, w, d) \in Int
  BY <1>9
<1> QED
  BY <1>9, <1>10, <1>11, <1>12, <1>13, Zenon

\* What the core reads in a multi-source blit, moved as MultiSourceBlitLayer does.
SharedReads(hw, area, el, ed, x, y) ==
    LET turn == Rotation(hw.transform)
        lay == Layout(turn, area, el, ed)
        org == OrgCorner(Generated(hw), hw.topBottom, area)
        read == TurnedBack(turn, Along(lay.rect.left, lay.rect.right, HMirror(hw), x),
                           Along(lay.rect.top, lay.rect.bottom, VMirror(hw), y),
                           IF turn \in {90, 270} THEN lay.size[2] ELSE lay.size[1],
                           IF turn \in {90, 270} THEN lay.size[1] ELSE lay.size[2])
    IN  <<read[1] + (org[1] - lay.org[1]), read[2] + (org[2] - lay.org[2])>>

Centred(hw, area) ==
    /\ area.left - hw.frame.left = hw.frame.right - area.right
    /\ area.top - hw.frame.top = hw.frame.bottom - area.bottom

\* The area and the layer are not among those a multi-source blit gets wrong.
Untouched(hw, area) ==
    /\ ~(hw.transform.flipH <=> hw.transform.flipV) => Centred(hw, area)
    /\ ~hw.topBottom => hw.crop.top = hw.height - hw.crop.bottom
    /\ ~hw.topBottom /\ hw.transform.rot90 => Centred(hw, area)

\* After surface and rectangle are moved, the pixel read for an area is still
\* the picture's, for the layers the property does not except.
LEMMA SharedShows ==
    ASSUME NEW hw \in HwLayer, NEW area \in Rect, NEW el \in Int, NEW ed \in Int,
           NEW x \in Int, NEW y \in Int,
           ~Stretched(hw), Untouched(hw, area),
           Rotation(hw.transform) = 0 => el = ed
    PROVE  SharedReads(hw, area, el, ed, x, y)
               = Pictured(hw, x + area.left - hw.frame.left, y + area.top - hw.frame.top)
<1> DEFINE t == hw.transform
<1>1. PICK cl, ct, cr, cb, fl, ft, fr, fb, al, at, ar, ab, height \in Int :
          /\ hw.crop.left = cl /\ hw.crop.top = ct /\ hw.crop.right = cr /\ hw.crop.bottom = cb
          /\ hw.frame.left = fl /\ hw.frame.top = ft /\ hw.frame.right = fr /\ hw.frame.bottom = fb
          /\ area.left = al /\ area.top = at /\ area.right = ar /\ area.bottom = ab
          /\ hw.height = height
  <2>1. hw.height \in Int
    BY HwLayerFields
  <2> QED
    BY <2>1, HwLayerFields, RectFields, Zenon
<1>2. /\ Generated(hw).orgRect = hw.crop /\ Generated(hw).dstRect = hw.frame
      /\ Generated(hw).rotation = Rotation(t)
  BY DEF Generated
<1>3. /\ t.rot90 => fr - fl = cb - ct /\ fb - ft = cr - cl
      /\ ~t.rot90 => fr - fl = cr - cl /\ fb - ft = cb - ct
  BY <1>1, Sides DEF Stretched, WidthOf, HeightOf
<1>4. CASE ~t.rot90 /\ ~t.flipH /\ ~t.flipV
  <2>1. CASE hw.topBottom
    <3>1. Rotation(t) = 0 /\ ~HMirror(hw) /\ ~VMirror(hw)
      BY <1>4, <2>1 DEF Rotation, HMirror, VMirror
    <3>2. SharedReads(hw, area, el, ed, x, y) =
             <<(ed + x) + ((cl - (fl - al)) - el),
               (0 + y) + ((ct - (ft - at)) - 0)>>
      BY <1>1, <1>2, <2>1, <3>1
         DEF SharedReads, Layout, OrgCorner, TurnedBack, Along, RectOf, WidthOf, HeightOf
    <3>3. Pictured(hw, x + area.left - hw.frame.left, y + area.top - hw.frame.top) =
             <<cl + (x + al - fl),
               ct + (y + at - ft)>>
      BY <1>1, <1>4, <2>1 DEF Pictured, WidthOf, HeightOf
    <3>4. el = ed
      BY <1>1, <1>4, <2>1, <3>1 DEF Untouched, Centred
    <3>5. /\ (ed + x) + ((cl - (fl - al)) - el) = cl + (x + al - fl)
          /\ (0 + y) + ((ct - (ft - at)) - 0) = ct + (y + at - ft)
      BY <1>3, <1>4, <3>4
    <3> QED
      BY <3>2, <3>3, <3>5, Zenon
  <2>2. CASE ~hw.topBottom
    <3>1. Rotation(t) = 0 /\ ~HMirror(hw) /\ VMirror(hw)
      BY <1>4, <2>2 DEF Rotation, HMirror, VMirror
    <3>2. SharedReads(hw, area, el, ed, x, y) =
             <<(ed + x) + ((cl - (fl - al)) - el),
               ((0 + (ab - at)) - 1 - y) + ((ct - (ab - fb)) - 0)>>
      BY <1>1, <1>2, <2>2, <3>1
         DEF SharedReads, Layout, OrgCorner, TurnedBack, Along, RectOf, WidthOf, HeightOf
    <3>3. Pictured(hw, x + area.left - hw.frame.left, y + area.top - hw.frame.top) =
             <<cl + (x + al - fl),
               height - 1 - (ct + (y + at - ft))>>
      BY <1>1, <1>4, <2>2 DEF Pictured, WidthOf, HeightOf
    <3>4. el = ed /\ ct = height - cb
      BY <1>1, <1>4, <2>2, <3>1 DEF Untouched, Centred
    <3>5. /\ (ed + x) + ((cl - (fl - al)) - el) = cl + (x + al - fl)
          /\ ((0 + (ab - at)) - 1 - y) + ((ct - (ab - fb)) - 0) = height - 1 - (ct + (y + at - ft))
      BY <1>3, <1>4, <3>4
    <3> QED
      BY <3>2, <3>3, <3>5, Zenon
  <2> QED
    BY <2>1, <2>2
<1>5. CASE ~t.rot90 /\ t.flipH /\ ~t.flipV
  <2>1. CASE hw.topBottom
    <3>1. Rotation(t) = 0 /\ HMirror(hw) /\ ~VMirror(hw)
      BY <1>5, <2>1 DEF Rotation, HMirror, VMirror
    <3>2. SharedReads(hw, area, el, ed, x, y) =
             <<((ed + (ar - al)) - 1 - x) + ((cl - (fl - al)) - el),
               (0 + y) + ((ct - (ft - at)) - 0)>>
      BY <1>1, <1>2, <2>1, <3>1
         DEF SharedReads, Layout, OrgCorner, TurnedBack, Along, RectOf, WidthOf, HeightOf
    <3>3. Pictured(hw, x + area.left - hw.frame.left, y + area.top - hw.frame.top) =
             <<cl + ((cr - cl) - 1 - (x + al - fl)),
               ct + (y + at - ft)>>
      BY <1>1, <1>5, <2>1 DEF Pictured, WidthOf, HeightOf
    <3>4. el = ed /\ al - fl = fr - ar /\ at - ft = fb - ab
      BY <1>1, <1>5, <2>1, <3>1 DEF Untouched, Centred
    <3>5. /\ ((ed + (ar - al)) - 1 - x) + ((cl - (fl - al)) - el) = cl + ((cr - cl) - 1 - (x + al - fl))
          /\ (0 + y) + ((ct - (ft - at)) - 0) = ct + (y + at - ft)
      BY <1>3, <1>5, <3>4
    <3> QED
      BY <3>2, <3>3, <3>5, Zenon
  <2>2. CASE ~hw.topBottom
    <3>1. Rotation(t) = 0 /\ HMirror(hw) /\ VMirror(hw)
      BY <1>5, <2>2 DEF Rotation, HMirror, VMirror
    <3>2. SharedReads(hw, area, el, ed, x, y) =
             <<((ed + (ar - al)) - 1 - x) + ((cl - (fl - al)) - el),
               ((0 + (ab - at)) - 1 - y) + ((ct - (ab - fb)) - 0)>>
      BY <1>1, <1>2, <2>2, <3>1
         DEF SharedReads, Layout, OrgCorner, TurnedBack, Along, RectOf, WidthOf, HeightOf
    <3>3. Pictured(hw, x + area.left - hw.frame.left, y + area.top - hw.frame.top) =
             <<cl + ((cr - cl) - 1 - (x + al - fl)),
               height - 1 - (ct + (y + at - ft))>>
      BY <1>1, <1>5, <2>2 DEF Pictured, WidthOf, HeightOf
    <3>4. el = ed /\ ct = height - cb /\ al - fl = fr - ar /\ at - ft = fb - ab
      BY <1>1, <1>5, <2>2, <3>1 DEF Untouched, Centred
    <3>5. /\ ((ed + (ar - al)) - 1 - x) + ((cl - (fl - al)) - el) = cl + ((cr - cl) - 1 - (x + al - fl))
          /\ ((0 + (ab - at)) - 1 - y) + ((ct - (ab - fb)) - 0) = height - 1 - (ct + (y + at - ft))
      BY <1>3, <1>5, <3>4
    <3> QED
      BY <3>2, <3>3, <3>5, Zenon
  <2> QED
    BY <2>1, <2>2
<1>6. CASE ~t.rot90 /\ ~t.flipH /\ t.flipV
  <2>1. CASE hw.topBottom
    <3>1. Rotation(t) = 0 /\ ~HMirror(hw) /\ VMirror(hw)
      BY <1>6, <2>1 DEF Rotation, HMirror, VMirror
    <3>2. SharedReads(hw, area, el, ed, x, y) =
             <<(ed + x) + ((cl - (fl - al)) - el),
               ((0 + (ab - at)) - 1 - y) + ((ct - (ft - at)) - 0)>>
      BY <1>1, <1>2, <2>1, <3>1
         DEF SharedReads, Layout, OrgCorner, TurnedBack, Along, RectOf, WidthOf, HeightOf
    <3>3. Pictured(hw, x + area.left - hw.frame.left, y + area.top - hw.frame.top) =
             <<cl + (x + al - fl),
               ct + ((cb - ct) - 1 - (y + at - ft))>>
      BY <1>1, <1>6, <2>1 DEF Pictured, WidthOf, HeightOf
    <3>4. el = ed /\ al - fl = fr - ar /\ at - ft = fb - ab
      BY <1>1, <1>6, <2>1, <3>1 DEF Untouched, Centred
    <3>5. /\ (ed + x) + ((cl - (fl - al)) - el) = cl + (x + al - fl)
          /\ ((0 + (ab - at)) - 1 - y) + ((ct - (ft - at)) - 0) = ct + ((cb - ct) - 1 - (y + at - ft))
      BY <1>3, <1>6, <3>4
    <3> QED
      BY <3>2, <3>3, <3>5, Zenon
  <2>2. CASE ~hw.topBottom
    <3>1. Rotation(t) = 0 /\ ~HMirror(hw) /\ ~VMirror(hw)
      BY <1>6, <2>2 DEF Rotation, HMirror, VMirror
    <3>2. SharedReads(hw, area, el, ed, x, y) =
             <<(ed + x) + ((cl - (fl - al)) - el),
               (0 + y) + ((ct - (ab - fb)) - 0)>>
      BY <1>1, <1>2, <2>2, <3>1
         DEF SharedReads, Layout, OrgCorner, TurnedBack, Along, RectOf, WidthOf, HeightOf
    <3>3. Pictured(hw, x + area.left - hw.frame.left, y + area.top - hw.frame.top) =
             <<cl + (x + al - fl),
               height - 1 - (ct + ((cb - ct) - 1 - (y + at - ft)))>>
      BY <1>1, <1>6, <2>2 DEF Pictured, WidthOf, HeightOf
    <3>4. el = ed /\ ct = height - cb /\ al - fl = fr - ar /\ at - ft = fb - ab
      BY <1>1, <1>6, <2>2, <3>1 DEF Untouched, Centred
    <3>5. /\ (ed + x) + ((cl - (fl - al)) - el) = cl + (x + al - fl)
          /\ (0 + y) + ((ct - (ab - fb)) - 0) = height - 1 - (ct + ((cb - ct) - 1 - (y + at - ft)))
      BY <1>3, <1>6, <3>4
    <3> QED
      BY <3>2, <3>3, <3>5, Zenon
  <2> QED
    BY <2>1, <2>2
<1>7. CASE ~t.rot90 /\ t.flipH /\ t.flipV
  <2>1. CASE hw.topBottom
    <3>1. Rotation(t) = 180 /\ ~HMirror(hw) /\ ~VMirror(hw)
      BY <1>7, <2>1 DEF Rotation, HMirror, VMirror
    <3>2. SharedReads(hw, area, el, ed, x, y) =
             <<((ed + (ar - al) + el) - 1 - (ed + x)) + ((cl + (fr - ar)) - el),
               (((ab - at) + 0) - 1 - (0 + y)) + ((ct + (fb - ab)) - 0)>>
      BY <1>1, <1>2, <2>1, <3>1
         DEF SharedReads, Layout, OrgCorner, TurnedBack, Along, RectOf, WidthOf, HeightOf
    <3>3. Pictured(hw, x + area.left - hw.frame.left, y + area.top - hw.frame.top) =
             <<cl + ((cr - cl) - 1 - (x + al - fl)),
               ct + ((cb - ct) - 1 - (y + at - ft))>>
      BY <1>1, <1>7, <2>1 DEF Pictured, WidthOf, HeightOf
    <3>5. /\ ((ed + (ar - al) + el) - 1 - (ed + x)) + ((cl + (fr - ar)) - el) = cl + ((cr - cl) - 1 - (x + al - fl))
          /\ (((ab - at) + 0) - 1 - (0 + y)) + ((ct + (fb - ab)) - 0) = ct + ((cb - ct) - 1 - (y + at - ft))
      BY <1>3, <1>7
    <3> QED
      BY <3>2, <3>3, <3>5, Zenon
  <2>2. CASE ~hw.topBottom
    <3>1. Rotation(t) = 180 /\ ~HMirror(hw) /\ VMirror(hw)
      BY <1>7, <2>2 DEF Rotation, HMirror, VMirror
    <3>2. SharedReads(hw, area, el, ed, x, y) =
             <<((ed + (ar - al) + el) - 1 - (ed + x)) + ((cl + (fr - ar)) - el),
               (((ab - at) + 0) - 1 - ((0 + (ab - at)) - 1 - y)) + ((ct + (at - ft)) - 0)>>
      BY <1>1, <1>2, <2>2, <3>1
         DEF SharedReads, Layout, OrgCorner, TurnedBack, Along, RectOf, WidthOf, HeightOf
    <3>3. Pictured(hw, x + area.left - hw.frame.left, y + area.top - hw.frame.top) =
             <<cl + ((cr - cl) - 1 - (x + al - fl)),
               height - 1 - (ct + ((cb - ct) - 1 - (y + at - ft)))>>
      BY <1>1, <1>7, <2>2 DEF Pictured, WidthOf, HeightOf
    <3>4. ct = height - cb
      BY <1>1, <1>7, <2>2, <3>1 DEF Untouched, Centred
    <3>5. /\ ((ed + (ar - al) + el) - 1 - (ed + x)) + ((cl + (fr - ar)) - el) = cl + ((cr - cl) - 1 - (x + al - fl))
          /\ (((ab - at) + 0) - 1 - ((0 + (ab - at)) - 1 - y)) + ((ct + (at - ft)) - 0) = height - 1 - (ct + ((cb - ct) - 1 - (y + at - ft)))
      BY <1>3, <1>7, <3>4
    <3> QED
      BY <3>2, <3>3, <3>5, Zenon
  <2> QED
    BY <2>1, <2>2
<1>8. CASE t.rot90 /\ ~t.flipH /\ ~t.flipV
  <2>1. CASE hw.topBottom
    <3>1. Rotation(t) = 270 /\ ~HMirror(hw) /\ ~VMirror(hw)
      BY <1>8, <2>1 DEF Rotation, HMirror, VMirror
    <3>2. SharedReads(hw, area, el, ed, x, y) =
             <<(el + y) + ((cl - (ft - at)) - el),
               ((ed + (ar - al) + 0) - 1 - (ed + x)) + ((ct + (fr - ar)) - 0)>>
      BY <1>1, <1>2, <2>1, <3>1
         DEF SharedReads, Layout, OrgCorner, TurnedBack, Along, RectOf, WidthOf, HeightOf
    <3>3. Pictured(hw, x + area.left - hw.frame.left, y + area.top - hw.frame.top) =
             <<cl + (y + at - ft),
               ct + ((cb - ct) - 1 - (x + al - fl))>>
      BY <1>1, <1>8, <2>1 DEF Pictured, WidthOf, HeightOf
    <3>5. /\ (el + y) + ((cl - (ft - at)) - el) = cl + (y + at - ft)
          /\ ((ed + (ar - al) + 0) - 1 - (ed + x)) + ((ct + (fr - ar)) - 0) = ct + ((cb - ct) - 1 - (x + al - fl))
      BY <1>3, <1>8
    <3> QED
      BY <3>2, <3>3, <3>5, Zenon
  <2>2. CASE ~hw.topBottom
    <3>1. Rotation(t) = 270 /\ HMirror(hw) /\ ~VMirror(hw)
      BY <1>8, <2>2 DEF Rotation, HMirror, VMirror
    <3>2. SharedReads(hw, area, el, ed, x, y) =
             <<(el + y) + ((cl - (ab - fb)) - el),
               ((ed + (ar - al) + 0) - 1 - ((ed + (ar - al)) - 1 - x)) + ((ct + (fr - ar)) - 0)>>
      BY <1>1, <1>2, <2>2, <3>1
         DEF SharedReads, Layout, OrgCorner, TurnedBack, Along, RectOf, WidthOf, HeightOf
    <3>3. Pictured(hw, x + area.left - hw.frame.left, y + area.top - hw.frame.top) =
             <<cl + (y + at - ft),
               height - 1 - (ct + ((cb - ct) - 1 - (x + al - fl)))>>
      BY <1>1, <1>8, <2>2 DEF Pictured, WidthOf, HeightOf
    <3>4. ct = height - cb /\ al - fl = fr - ar /\ at - ft = fb - ab
      BY <1>1, <1>8, <2>2, <3>1 DEF Untouched, Centred
    <3>5. /\ (el + y) + ((cl - (ab - fb)) - el) = cl + (y + at - ft)
          /\ ((ed + (ar - al) + 0) - 1 - ((ed + (ar - al)) - 1 - x)) + ((ct + (fr - ar)) - 0) = height - 1 - (ct + ((cb - ct) - 1 - (x + al - fl)))
      BY <1>3, <1>8, <3>4
    <3> QED
      BY <3>2, <3>3, <3>5, Zenon
  <2> QED
    BY <2>1, <2>2
<1>9. CASE t.rot90 /\ t.flipH /\ ~t.flipV
  <2>1. CASE hw.topBottom
    <3>1. Rotation(t) = 270 /\ ~HMirror(hw) /\ VMirror(hw)
      BY <1>9, <2>1 DEF Rotation, HMirror, VMirror
    <3>2. SharedReads(hw, area, el, ed, x, y) =
             <<((el + (ab - at)) - 1 - y) + ((cl - (ft - at)) - el),
               ((ed + (ar - al) + 0) - 1 - (ed + x)) + ((ct + (fr - ar)) - 0)>>
      BY <1>1, <1>2, <2>1, <3>1
         DEF SharedReads, Layout, OrgCorner, TurnedBack, Along, RectOf, WidthOf, HeightOf
    <3>3. Pictured(hw, x + area.left - hw.frame.left, y + area.top - hw.frame.top) =
             <<cl + ((cr - cl) - 1 - (y + at - ft)),
               ct + ((cb - ct) - 1 - (x + al - fl))>>
      BY <1>1, <1>9, <2>1 DEF Pictured, WidthOf, HeightOf
    <3>4. al - fl = fr - ar /\ at - ft = fb - ab
      BY <1>1, <1>9, <2>1, <3>1 DEF Untouched, Centred
    <3>5. /\ ((el + (ab - at)) - 1 - y) + ((cl - (ft - at)) - el) = cl + ((cr - cl) - 1 - (y + at - ft))
          /\ ((ed + (ar - al) + 0) - 1 - (ed + x)) + ((ct + (fr - ar)) - 0) = ct + ((cb - ct) - 1 - (x + al - fl))
      BY <1>3, <1>9, <3>4
    <3> QED
      BY <3>2, <3>3, <3>5, Zenon
  <2>2. CASE ~hw.topBottom
    <3>1. Rotation(t) = 270 /\ HMirror(hw) /\ VMirror(hw)
      BY <1>9, <2>2 DEF Rotation, HMirror, VMirror
    <3>2. SharedReads(hw, area, el, ed, x, y) =
             <<((el + (ab - at)) - 1 - y) + ((cl - (ab - fb)) - el),
               ((ed + (ar - al) + 0) - 1 - ((ed + (ar - al)) - 1 - x)) + ((ct + (fr - ar)) - 0)>>
      BY <1>1, <1>2, <2>2, <3>1
         DEF SharedReads, Layout, OrgCorner, TurnedBack, Along, RectOf, WidthOf, HeightOf
    <3>3. Pictured(hw, x + area.left - hw.frame.left, y + area.top - hw.frame.top) =
             <<cl + ((cr - cl) - 1 - (y + at - ft)),
               height - 1 - (ct + ((cb - ct) - 1 - (x + al - fl)))>>
      BY <1>1, <1>9, <2>2 DEF Pictured, WidthOf, HeightOf
    <3>4. ct = height - cb /\ al - fl = fr - ar /\ at - ft = fb - ab
      BY <1>1, <1>9, <2>2, <3>1 DEF Untouched, Centred
    <3>5. /\ ((el + (ab - at)) - 1 - y) + ((cl - (ab - fb)) - el) = cl + ((cr - cl) - 1 - (y + at - ft))
          /\ ((ed + (ar - al) + 0) - 1 - ((ed + (ar - al)) - 1 - x)) + ((ct + (fr - ar)) - 0) = height - 1 - (ct + ((cb - ct) - 1 - (x + al - fl)))
      BY <1>3, <1>9, <3>4
    <3> QED
      BY <3>2, <3>3, <3>5, Zenon
  <2> QED
    BY <2>1, <2>2
<1>10. CASE t.rot90 /\ ~t.flipH /\ t.flipV
  <2>1. CASE hw.topBottom
    <3>1. Rotation(t) = 270 /\ HMirror(hw) /\ ~VMirror(hw)
      BY <1>10, <2>1 DEF Rotation, HMirror, VMirror
    <3>2. SharedReads(hw, area, el, ed, x, y) =
             <<(el + y) + ((cl - (ft - at)) - el),
               ((ed + (ar - al) + 0) - 1 - ((ed + (ar - al)) - 1 - x)) + ((ct + (fr - ar)) - 0)>>
      BY <1>1, <1>2, <2>1, <3>1
         DEF SharedReads, Layout, OrgCorner, TurnedBack, Along, RectOf, WidthOf, HeightOf
    <3>3. Pictured(hw, x + area.left - hw.frame.left, y + area.top - hw.frame.top) =
             <<cl + (y + at - ft),
               ct + ((cb - ct) - 1 - ((cb - ct) - 1 - (x + al - fl)))>>
      BY <1>1, <1>10, <2>1 DEF Pictured, WidthOf, HeightOf
    <3>4. al - fl = fr - ar /\ at - ft = fb - ab
      BY <1>1, <1>10, <2>1, <3>1 DEF Untouched, Centred
    <3>5. /\ (el + y) + ((cl - (ft - at)) - el) = cl + (y + at - ft)
          /\ ((ed + (ar - al) + 0) - 1 - ((ed + (ar - al)) - 1 - x)) + ((ct + (fr - ar)) - 0) = ct + ((cb - ct) - 1 - ((cb - ct) - 1 - (x + al - fl)))
      BY <1>3, <1>10, <3>4
    <3> QED
      BY <3>2, <3>3, <3>5, Zenon
  <2>2. CASE ~hw.topBottom
    <3>1. Rotation(t) = 270 /\ ~HMirror(hw) /\ ~VMirror(hw)
      BY <1>10, <2>2 DEF Rotation, HMirror, VMirror
    <3>2. SharedReads(hw, area, el, ed, x, y) =
             <<(el + y) + ((cl - (ab - fb)) - el),
               ((ed + (ar - al) + 0) - 1 - (ed + x)) + ((ct + (fr - ar)) - 0)>>
      BY <1>1, <1>2, <2>2, <3>1
         DEF SharedReads, Layout, OrgCorner, TurnedBack, Along, RectOf, WidthOf, HeightOf
    <3>3. Pictured(hw, x + area.left - hw.frame.left, y + area.top - hw.frame.top) =
             <<cl + (y + at - ft),
               height - 1 - (ct + ((cb - ct) - 1 - ((cb - ct) - 1 - (x + al - fl))))>>
      BY <1>1, <1>10, <2>2 DEF Pictured, WidthOf, HeightOf
    <3>4. ct = height - cb /\ al - fl = fr - ar /\ at - ft = fb - ab
      BY <1>1, <1>10, <2>2, <3>1 DEF Untouched, Centred
    <3>5. /\ (el + y) + ((cl - (ab - fb)) - el) = cl + (y + at - ft)
          /\ ((ed + (ar - al) + 0) - 1 - (ed + x)) + ((ct + (fr - ar)) - 0) = height - 1 - (ct + ((cb - ct) - 1 - ((cb - ct) - 1 - (x + al - fl))))
      BY <1>3, <1>10, <3>4
    <3> QED
      BY <3>2, <3>3, <3>5, Zenon
  <2> QED
    BY <2>1, <2>2
<1>11. CASE t.rot90 /\ t.flipH /\ t.flipV
  <2>1. CASE hw.topBottom
    <3>1. Rotation(t) = 90 /\ ~HMirror(hw) /\ ~VMirror(hw)
      BY <1>11, <2>1 DEF Rotation, HMirror, VMirror
    <3>2. SharedReads(hw, area, el, ed, x, y) =
             <<(((ab - at) + el) - 1 - (0 + y)) + ((cl + (fb - ab)) - el),
               (ed + x) + ((ct - (fl - al)) - ed)>>
      BY <1>1, <1>2, <2>1, <3>1
         DEF SharedReads, Layout, OrgCorner, TurnedBack, Along, RectOf, WidthOf, HeightOf
    <3>3. Pictured(hw, x + area.left - hw.frame.left, y + area.top - hw.frame.top) =
             <<cl + ((cr - cl) - 1 - (y + at - ft)),
               ct + ((cb - ct) - 1 - ((cb - ct) - 1 - (x + al - fl)))>>
      BY <1>1, <1>11, <2>1 DEF Pictured, WidthOf, HeightOf
    <3>5. /\ (((ab - at) + el) - 1 - (0 + y)) + ((cl + (fb - ab)) - el) = cl + ((cr - cl) - 1 - (y + at - ft))
          /\ (ed + x) + ((ct - (fl - al)) - ed) = ct + ((cb - ct) - 1 - ((cb - ct) - 1 - (x + al - fl)))
      BY <1>3, <1>11
    <3> QED
      BY <3>2, <3>3, <3>5, Zenon
  <2>2. CASE ~hw.topBottom
    <3>1. Rotation(t) = 90 /\ HMirror(hw) /\ ~VMirror(hw)
      BY <1>11, <2>2 DEF Rotation, HMirror, VMirror
    <3>2. SharedReads(hw, area, el, ed, x, y) =
             <<(((ab - at) + el) - 1 - (0 + y)) + ((cl + (at - ft)) - el),
               ((ed + (ar - al)) - 1 - x) + ((ct - (fl - al)) - ed)>>
      BY <1>1, <1>2, <2>2, <3>1
         DEF SharedReads, Layout, OrgCorner, TurnedBack, Along, RectOf, WidthOf, HeightOf
    <3>3. Pictured(hw, x + area.left - hw.frame.left, y + area.top - hw.frame.top) =
             <<cl + ((cr - cl) - 1 - (y + at - ft)),
               height - 1 - (ct + ((cb - ct) - 1 - ((cb - ct) - 1 - (x + al - fl))))>>
      BY <1>1, <1>11, <2>2 DEF Pictured, WidthOf, HeightOf
    <3>4. ct = height - cb /\ al - fl = fr - ar /\ at - ft = fb - ab
      BY <1>1, <1>11, <2>2, <3>1 DEF Untouched, Centred
    <3>5. /\ (((ab - at) + el) - 1 - (0 + y)) + ((cl + (at - ft)) - el) = cl + ((cr - cl) - 1 - (y + at - ft))
          /\ ((ed + (ar - al)) - 1 - x) + ((ct - (fl - al)) - ed) = height - 1 - (ct + ((cb - ct) - 1 - ((cb - ct) - 1 - (x + al - fl))))
      BY <1>3, <1>11, <3>4
    <3> QED
      BY <3>2, <3>3, <3>5, Zenon
  <2> QED
    BY <2>1, <2>2
<1> QED
  BY <1>4, <1>5, <1>6, <1>7, <1>8, <1>9, <1>10, <1>11

SingleRequest ==
    Request(TRUE, SourceOf(layer, given.area), given.area, <<given.hw.width, given.hw.height>>,
            <<0, 0>>, <<0, 0>>, Registers(layer, given.dims, given.ground))

SharedRequest ==
    LET area == given.area
        lay == Layout(layer.rotation, area, EigenL(layer, area), EigenDOf(area))
        org == OrgCorner(layer, given.hw.topBottom, area)
    IN  Request(FALSE, lay.rect, lay.rect,
                IF layer.rotation \in {90, 270} THEN <<lay.size[2], lay.size[1]>> ELSE lay.size,
                <<org[1] - lay.org[1], org[2] - lay.org[2]>>,
                <<area.left - lay.rect.left, area.top - lay.rect.top>>,
                Registers(layer, given.dims, given.ground))

\* The area has pixels, all of them of the frame.
InFrame(area, frame) ==
    /\ WidthOf(area) > 0 /\ HeightOf(area) > 0
    /\ area.left \in frame.left..frame.right /\ area.right \in frame.left..frame.right
    /\ area.top \in frame.top..frame.bottom /\ area.bottom \in frame.top..frame.bottom

BlitInv ==
    /\ BlitTypeOK
    /\ stage # "idle" => InFrame(given.area, given.hw.frame)
    /\ stage = "done" => blit = SingleRequest \/ (MayShareBlit /\ blit = SharedRequest)

\* A frame that holds an area has a size to divide by.
LEMMA FrameSides ==
    ASSUME NEW hw \in HwLayer, NEW area \in Rect, InFrame(area, hw.frame)
    PROVE  WidthOf(hw.frame) \in Nat \ {0} /\ HeightOf(hw.frame) \in Nat \ {0}
<1>1. hw.frame \in Rect
  BY HwLayerFields
<1>2. /\ hw.frame.left \in Int /\ hw.frame.right \in Int /\ hw.frame.top \in Int /\ hw.frame.bottom \in Int
      /\ area.left \in Int /\ area.right \in Int /\ area.top \in Int /\ area.bottom \in Int
  BY <1>1, RectFields
<1> QED
  BY <1>2 DEF InFrame, WidthOf, HeightOf

LEMMA SourceInts ==
    ASSUME NEW hw \in HwLayer, NEW area \in Rect, InFrame(area, hw.frame)
    PROVE  SourceOf(Generated(hw), area) \in Rect
<1> DEFINE s == SrcRect(hw)
           d == hw.frame
<1>1. s \in Rect /\ d \in Rect
  BY Sides, HwLayerFields
<1>2. /\ s.left \in Int /\ s.top \in Int /\ s.right \in Int /\ s.bottom \in Int
      /\ d.left \in Int /\ d.top \in Int /\ d.right \in Int /\ d.bottom \in Int
      /\ area.left \in Int /\ area.right \in Int /\ area.top \in Int /\ area.bottom \in Int
  BY <1>1, RectFields
<1>3. WidthOf(s) \in Int /\ HeightOf(s) \in Int
  BY <1>2 DEF WidthOf, HeightOf
<1>4. WidthOf(d) \in Nat \ {0} /\ HeightOf(d) \in Nat \ {0}
  BY FrameSides
<1>5. \A n, k \in Int : Moved(n, k, WidthOf(s), WidthOf(d)) \in Int /\ Moved(n, k, HeightOf(s), HeightOf(d)) \in Int
  <2> TAKE n, k \in Int
  <2>1. 0 \in Int
    OBVIOUS
  <2> QED
    BY <1>3, <1>4, <2>1, FromLow, Zenon
<1>6. Generated(hw).srcRect = s /\ Generated(hw).dstRect = d
  BY DEF Generated
<1>7. /\ d.left - area.left \in Int /\ area.left - d.left \in Int
      /\ d.right - area.right \in Int /\ area.right - d.right \in Int
      /\ d.top - area.top \in Int /\ area.top - d.top \in Int
      /\ d.bottom - area.bottom \in Int /\ area.bottom - d.bottom \in Int
  BY <1>2
<1> HIDE DEF s, d
<1>8. \A l, t, r, b \in Int : RectOf(l, t, r, b) \in Rect
  BY DEF RectOf, Rect
<1> QED
  BY <1>2, <1>5, <1>6, <1>7, <1>8 DEF SourceOf

\* The eigenvalues are what the corners are past an aligned address.
LEMMA EigenRange ==
    ASSUME NEW hw \in HwLayer, NEW area \in Rect
    PROVE  /\ 16 \div TargetBytes \in Nat \ {0}
           /\ EigenDOf(area) \in Nat /\ (area.left - EigenDOf(area)) % (16 \div TargetBytes) = 0
           /\ SourceLeft(Generated(hw), area) \in Int
           /\ given.hw = hw =>
                 LET left == SourceLeft(Generated(hw), area)
                     eigen == EigenL(Generated(hw), area)
                 IN  eigen \in Nat /\ (left - eigen) % SourceAlignment = 0
<1>1. 16 \div TargetBytes \in Nat \ {0}
  BY BlitAssumption
<1>2. \A a \in Int, n \in Nat \ {0} : a % n \in Nat /\ (a - (a % n)) % n = 0
  OBVIOUS
<1>3. hw.frame \in Rect /\ hw.crop \in Rect
  BY HwLayerFields
<1>4. /\ hw.frame.left \in Int /\ hw.frame.right \in Int /\ hw.frame.top \in Int /\ hw.frame.bottom \in Int
      /\ area.left \in Int /\ area.right \in Int /\ area.top \in Int /\ area.bottom \in Int
      /\ hw.crop.left \in Int
  BY <1>3, RectFields
<1>5. EigenDOf(area) \in Nat /\ (area.left - EigenDOf(area)) % (16 \div TargetBytes) = 0
  BY <1>1, <1>2, <1>4, Zenon DEF EigenDOf
<1>6. SourceLeft(Generated(hw), area) \in Int
  <2>1. Generated(hw).orgRect = hw.crop /\ Generated(hw).dstRect = hw.frame
    BY DEF Generated
  <2> QED
    BY <1>4, <2>1 DEF SourceLeft
<1>7. ASSUME given.hw = hw
      PROVE  SourceAlignment \in Nat \ {0}
  <2>1. hw.bytes \in {1, 2, 4}
    BY HwLayerFields
  <2>2. \A n \in {16, 64}, m \in {1, 2, 4} : n \div m \in Nat \ {0}
    OBVIOUS
  <2> QED
    BY <1>7, <2>1, <2>2 DEF SourceAlignment
<1> QED
  BY <1>1, <1>2, <1>5, <1>6, <1>7, Zenon DEF EigenL

LEMMA InitBlitInv == BlitInit => BlitInv
  BY DEF BlitInit, BlitInv, BlitTypeOK

LEMMA GiveKeepsBlitInv ==
    ASSUME BlitInv, NEW stack \in Stack,
           NEW l \in stack.hw.frame.left..stack.hw.frame.right, NEW r \in stack.hw.frame.left..stack.hw.frame.right,
           NEW t \in stack.hw.frame.top..stack.hw.frame.bottom, NEW b \in stack.hw.frame.top..stack.hw.frame.bottom,
           NEW ground \in BOOLEAN, Give(stack, RectOf(l, t, r, b), ground)
    PROVE  BlitInv'
<1>1. stack \in [hw : HwLayer, dims : Seq(0..254)]
  BY BlitAssumption
<1>2. stack.hw \in HwLayer /\ stack.dims \in Seq(0..254)
  BY <1>1
<1>3. stack.hw.frame.left \in Int /\ stack.hw.frame.right \in Int
      /\ stack.hw.frame.top \in Int /\ stack.hw.frame.bottom \in Int
  <2>1. stack.hw.frame \in Rect
    BY <1>2, HwLayerFields
  <2> QED
    BY <2>1, RectFields
<1>4. l \in Int /\ t \in Int /\ r \in Int /\ b \in Int
  BY <1>3
<1>5. RectOf(l, t, r, b) \in Rect
  BY <1>4 DEF RectOf, Rect
<1>6. stage' = "set" /\ given' = [hw |-> stack.hw, dims |-> stack.dims, area |-> RectOf(l, t, r, b), ground |-> ground]
  BY DEF Give
<1>7. BlitTypeOK'
  BY <1>2, <1>5, <1>6 DEF BlitTypeOK
<1>8. InFrame(RectOf(l, t, r, b), stack.hw.frame)
  BY DEF InFrame, Give, RectOf
<1> QED
  BY <1>6, <1>7, <1>8 DEF BlitInv

LEMMA GenerateKeepsBlitInv == BlitInv /\ Generate => BlitInv'
<1> SUFFICES ASSUME BlitInv, Generate
             PROVE  BlitInv'
  OBVIOUS
<1>1. stage = "set" /\ stage' = "compose" /\ layer' = Generated(given.hw) /\ given' = given
  BY DEF Generate
<1>2. given \in [hw : HwLayer, dims : Seq(0..254), area : Rect, ground : BOOLEAN]
  BY <1>1 DEF BlitInv, BlitTypeOK
<1>3. InFrame(given.area, given.hw.frame)
  BY <1>1 DEF BlitInv
<1>4. BlitTypeOK'
  BY <1>1, <1>2 DEF BlitTypeOK
<1> QED
  BY <1>1, <1>3, <1>4 DEF BlitInv

LEMMA BlitKeepsBlitInv == BlitInv /\ BlitLayer => BlitInv'
<1> SUFFICES ASSUME BlitInv, BlitLayer
             PROVE  BlitInv'
  OBVIOUS
<1>1. stage = "compose" /\ stage' = "done" /\ layer' = layer /\ given' = given /\ blit' = SingleRequest
  BY DEF BlitLayer, SingleRequest
<1>2. given \in [hw : HwLayer, dims : Seq(0..254), area : Rect, ground : BOOLEAN] /\ layer = Generated(given.hw)
  BY <1>1 DEF BlitInv, BlitTypeOK
<1>3. InFrame(given.area, given.hw.frame)
  BY <1>1 DEF BlitInv
<1>4. blit'.from \in Rect /\ blit'.to \in Rect
  <2>1. given.hw \in HwLayer /\ given.area \in Rect
    BY <1>2
  <2>2. SourceOf(layer, given.area) \in Rect
    BY <1>2, <1>3, <2>1, SourceInts
  <2>3. blit'.from = SourceOf(layer, given.area) /\ blit'.to = given.area
    BY <1>1 DEF SingleRequest, Request
  <2> QED
    BY <2>1, <2>2, <2>3
<1>5. BlitTypeOK'
  BY <1>1, <1>2, <1>4 DEF BlitTypeOK
<1>6. SingleRequest' = SingleRequest
  BY <1>1 DEF SingleRequest, Request
<1> QED
  BY <1>1, <1>3, <1>5, <1>6 DEF BlitInv

LEMMA SharedInts ==
    ASSUME given \in [hw : HwLayer, dims : Seq(0..254), area : Rect, ground : BOOLEAN], layer = Generated(given.hw)
    PROVE  SharedRequest.from \in Rect /\ SharedRequest.to \in Rect
<1> DEFINE area == given.area
           e == EigenL(layer, area)
           f == EigenDOf(area)
<1>1. given.hw \in HwLayer /\ area \in Rect
  OBVIOUS
<1>2. e \in Int /\ f \in Int
  BY <1>1, EigenRange
<1>3. /\ area.left \in Int /\ area.right \in Int /\ area.top \in Int /\ area.bottom \in Int
  BY <1>1, RectFields
<1> HIDE DEF e, f, area
<1>4. Layout(layer.rotation, area, e, f).rect \in Rect
  BY <1>2, <1>3 DEF Layout, RectOf, Rect, WidthOf, HeightOf
<1>5. SharedRequest.from = Layout(layer.rotation, area, e, f).rect /\ SharedRequest.to = SharedRequest.from
  BY DEF SharedRequest, Request, area, e, f
<1> QED
  BY <1>4, <1>5

LEMMA MultiSourceBlitKeepsBlitInv == BlitInv /\ MultiSourceBlitLayer => BlitInv'
<1> SUFFICES ASSUME BlitInv, MultiSourceBlitLayer
             PROVE  BlitInv'
  OBVIOUS
<1>1. /\ stage = "compose" /\ stage' = "done" /\ layer' = layer /\ given' = given
      /\ MayShareBlit /\ blit' = SharedRequest
  BY DEF MultiSourceBlitLayer, SharedRequest
<1>2. given \in [hw : HwLayer, dims : Seq(0..254), area : Rect, ground : BOOLEAN] /\ layer = Generated(given.hw)
  BY <1>1 DEF BlitInv, BlitTypeOK
<1>3. InFrame(given.area, given.hw.frame)
  BY <1>1 DEF BlitInv
<1>4. BlitTypeOK'
  BY <1>1, <1>2, SharedInts DEF BlitTypeOK
<1>5. SharedRequest' = SharedRequest /\ MayShareBlit' = MayShareBlit
  BY <1>1 DEF SharedRequest, Request, MayShareBlit, EigenL, SourceAlignment
<1> QED
  BY <1>1, <1>3, <1>4, <1>5 DEF BlitInv

LEMMA NextKeepsBlitInv == BlitInv /\ [BlitNext]_blitVars => BlitInv'
<1> SUFFICES ASSUME BlitInv, [BlitNext]_blitVars
             PROVE  BlitInv'
  OBVIOUS
<1>1. CASE \E stack \in Stack :
              LET f == stack.hw.frame IN
              \E l, r \in f.left..f.right, t, b \in f.top..f.bottom, ground \in BOOLEAN :
                  Give(stack, RectOf(l, t, r, b), ground)
  BY <1>1, GiveKeepsBlitInv, Zenon
<1>2. CASE Generate
  BY <1>2, GenerateKeepsBlitInv
<1>3. CASE BlitLayer
  BY <1>3, BlitKeepsBlitInv
<1>4. CASE MultiSourceBlitLayer
  BY <1>4, MultiSourceBlitKeepsBlitInv
<1>5. CASE LayerDone
  BY <1>5 DEF LayerDone, BlitInv, BlitTypeOK
<1>6. CASE UNCHANGED blitVars
  <2>1. stage' = stage /\ given' = given /\ layer' = layer /\ blit' = blit
    BY <1>6 DEF blitVars
  <2>2. SingleRequest' = SingleRequest /\ SharedRequest' = SharedRequest /\ MayShareBlit' = MayShareBlit
    BY <2>1 DEF SingleRequest, SharedRequest, Request, MayShareBlit, EigenL, SourceAlignment
  <2>3. BlitTypeOK' = BlitTypeOK
    BY <2>1 DEF BlitTypeOK
  <2> QED
    BY <2>1, <2>2, <2>3 DEF BlitInv
<1> QED
  BY <1>1, <1>2, <1>3, <1>4, <1>5, <1>6 DEF BlitNext

\* In a frame's area, and then one of the two requests for it: all a blit of
\* hwcCompose can be.
THEOREM AlwaysBlitInv == BlitSpec => []BlitInv
  BY InitBlitInv, NextKeepsBlitInv, PTL DEF BlitSpec

\* hwcSet and the two blits keep the layer typed, the rectangles the core is
\* told among its integers, for any layer the list may hold.
THEOREM BlitTypeCorrect == BlitSpec => []BlitTypeOK
<1>1. BlitInv => BlitTypeOK
  BY DEF BlitInv
<1> QED
  BY <1>1, AlwaysBlitInv, PTL

Quarters == {0, 90, 180, 270}
Slacks == {0, 1}

\* Turning a surface keeps pixels as near as they were.
LEMMA NearTurned ==
    ASSUME NEW turn \in Quarters, NEW w \in Int, NEW h \in Int, NEW slack \in Slacks,
           NEW u \in Int, NEW v \in Int, NEW u1 \in Int, NEW v1 \in Int,
           Near(u, u1, slack), Near(v, v1, slack)
    PROVE  /\ Near(TurnedBack(turn, u, v, w, h)[1] + 0, TurnedBack(turn, u1, v1, w, h)[1], slack)
           /\ Near(TurnedBack(turn, u, v, w, h)[2] + 0, TurnedBack(turn, u1, v1, w, h)[2], slack)
  BY DEF Near, TurnedBack, Quarters, Slacks

\* Along one axis, what SourceOf and the core make of pixel x of the area.
LEMMA AxisNear ==
    ASSUME NEW low \in Int, NEW high \in Int, NEW off \in Int, NEW x \in Int,
           NEW w \in Int, NEW d \in Nat \ {0}, NEW mirror, NEW from, NEW to,
           mirror => to = Moved(high, -off, w, d),
           ~mirror => from = Moved(low, off, w, d)
    PROVE  /\ Along(from, to, mirror, Scaled(x, w, d)) \in Int
           /\ Along(low, high, mirror, Scaled(x - off, w, d)) \in Int
           /\ Near(Along(from, to, mirror, Scaled(x, w, d)),
                   Along(low, high, mirror, Scaled(x - off, w, d)), IF w = d THEN 0 ELSE 1)
<1>1. Scaled(x, w, d) \in Int /\ Scaled(x - off, w, d) \in Int
  <2>1. x - off \in Int
    OBVIOUS
  <2> QED
    BY <2>1, ScaledInt, Zenon
<1>2. CASE mirror
  <2>1. x + (-off) = x - off /\ -off \in Int
    OBVIOUS
  <2>2. /\ Moved(high, -off, w, d) \in Int
        /\ Near(Moved(high, -off, w, d) - 1 - Scaled(x, w, d), high - 1 - Scaled(x - off, w, d),
                IF w = d THEN 0 ELSE 1)
    BY <2>1, FromHigh
  <2>3. Moved(high, -off, w, d) - 1 - Scaled(x, w, d) \in Int /\ high - 1 - Scaled(x - off, w, d) \in Int
    BY <1>1, <2>2
  <2> QED
    BY <1>2, <2>2, <2>3, Zenon DEF Along
<1>3. CASE ~mirror
  <2>1. /\ Moved(low, off, w, d) \in Int
        /\ Near(Moved(low, off, w, d) + Scaled(x, w, d), low + Scaled(x - off, w, d),
                IF w = d THEN 0 ELSE 1)
    BY FromLow, Zenon
  <2>2. Moved(low, off, w, d) + Scaled(x, w, d) \in Int /\ low + Scaled(x - off, w, d) \in Int
    BY <1>1, <2>1
  <2> QED
    BY <1>3, <2>1, <2>2, Zenon DEF Along
<1> QED
  BY <1>2, <1>3

\* The pixel _Blit reads is the pixel wanted, or the next one if it scales.
LEMMA ReadsSingle ==
    ASSUME given \in [hw : HwLayer, dims : Seq(0..254), area : Rect, ground : BOOLEAN], layer = Generated(given.hw),
           InFrame(given.area, given.hw.frame), blit = SingleRequest,
           Rotation(given.hw.transform) = 180 => CropCentred
    PROVE  InPlace
<1> DEFINE hw == given.hw
           area == given.area
           s == SrcRect(hw)
           f == hw.frame
           src == SourceOf(layer, area)
           slack == IF layer.stretch THEN 1 ELSE 0
<1>1. hw \in HwLayer /\ area \in Rect
  OBVIOUS
<1>2. /\ layer.srcRect = s /\ layer.dstRect = f /\ layer.rotation = Rotation(hw.transform)
      /\ layer.hMirror = HMirror(hw) /\ layer.vMirror = VMirror(hw) /\ layer.stretch = Stretched(hw)
  BY DEF Generated
<1>3. /\ blit.from = src /\ blit.size = <<hw.width, hw.height>> /\ blit.moved = <<0, 0>>
      /\ blit.rotation = Rotation(hw.transform) /\ blit.hMirror = HMirror(hw) /\ blit.vMirror = VMirror(hw)
  BY <1>2 DEF SingleRequest, Request
<1>4. s \in Rect /\ f \in Rect
  BY <1>1, Sides, HwLayerFields
<1>5. /\ s.left \in Int /\ s.right \in Int /\ s.top \in Int /\ s.bottom \in Int
      /\ f.left \in Int /\ f.top \in Int /\ area.left \in Int /\ area.top \in Int
      /\ hw.width \in Int /\ hw.height \in Int
  BY <1>1, <1>4, RectFields, HwLayerFields
<1>6. WidthOf(s) \in Int /\ HeightOf(s) \in Int
  BY <1>5 DEF WidthOf, HeightOf
<1>7. WidthOf(f) \in Nat \ {0} /\ HeightOf(f) \in Nat \ {0}
  BY <1>1, FrameSides
<1>8. /\ layer.hMirror => src.right = Moved(s.right, area.left - f.left, WidthOf(s), WidthOf(f))
      /\ ~layer.hMirror => src.left = Moved(s.left, f.left - area.left, WidthOf(s), WidthOf(f))
      /\ layer.vMirror => src.bottom = Moved(s.bottom, area.top - f.top, HeightOf(s), HeightOf(f))
      /\ ~layer.vMirror => src.top = Moved(s.top, f.top - area.top, HeightOf(s), HeightOf(f))
  BY <1>2 DEF SourceOf, RectOf
<1>9. ~layer.stretch => WidthOf(s) = WidthOf(f) /\ HeightOf(s) = HeightOf(f)
  BY <1>2 DEF Stretched
<1>10. Rotation(hw.transform) \in Quarters
  BY <1>1, Oriented DEF Quarters
<1> SUFFICES ASSUME NEW x \in 0..(WidthOf(given.area) - 1), NEW y \in 0..(HeightOf(given.area) - 1)
             PROVE  /\ Near(PixelRead(x, y)[1], PixelWanted(x, y)[1], slack)
                    /\ Near(PixelRead(x, y)[2], PixelWanted(x, y)[2], slack)
  BY DEF InPlace
<1> DEFINE sx == Scaled(x, WidthOf(s), WidthOf(f))
           sy == Scaled(y, HeightOf(s), HeightOf(f))
           wx == Scaled(x + area.left - f.left, WidthOf(s), WidthOf(f))
           wy == Scaled(y + area.top - f.top, HeightOf(s), HeightOf(f))
           u == Along(src.left, src.right, layer.hMirror, sx)
           v == Along(src.top, src.bottom, layer.vMirror, sy)
           u1 == Along(s.left, s.right, layer.hMirror, wx)
           v1 == Along(s.top, s.bottom, layer.vMirror, wy)
<1>11. x \in Int /\ y \in Int
  OBVIOUS
<1> HIDE DEF hw, area, s, f, src, sx, sy, wx, wy, u, v, u1, v1, slack
<1>12. u \in Int /\ u1 \in Int /\ wx \in Int /\ Near(u, u1, slack)
  <2> DEFINE off == f.left - area.left
             m == layer.hMirror
  <2>1. off \in Int /\ area.left - f.left = -off /\ x - off = x + area.left - f.left /\ x - off \in Int
    BY <1>5, <1>11
  <2>2. /\ m => src.right = Moved(s.right, -off, WidthOf(s), WidthOf(f))
        /\ ~m => src.left = Moved(s.left, off, WidthOf(s), WidthOf(f))
    BY <1>8, <2>1, Zenon
  <2>3. /\ Along(src.left, src.right, m, Scaled(x, WidthOf(s), WidthOf(f))) \in Int
        /\ Along(s.left, s.right, m, Scaled(x - off, WidthOf(s), WidthOf(f))) \in Int
        /\ Near(Along(src.left, src.right, m, Scaled(x, WidthOf(s), WidthOf(f))),
                Along(s.left, s.right, m, Scaled(x - off, WidthOf(s), WidthOf(f))), IF WidthOf(s) = WidthOf(f) THEN 0 ELSE 1)
    <3> HIDE DEF off, m
    <3> QED
      BY <1>5, <1>6, <1>7, <1>11, <2>1, <2>2, AxisNear, Zenon
  <2>4. u \in Int /\ u1 \in Int /\ Near(u, u1, slack)
    <3>1. \A a, b \in Int : Near(a, b, IF WidthOf(s) = WidthOf(f) THEN 0 ELSE 1) => Near(a, b, slack)
      BY <1>9 DEF Near, slack
    <3> QED
      BY <2>1, <2>3, <3>1, Zenon DEF u, u1, sx, wx
  <2> QED
    BY <1>6, <1>7, <2>1, <2>4, ScaledInt, Zenon DEF wx
<1>13. v \in Int /\ v1 \in Int /\ wy \in Int /\ Near(v, v1, slack)
  <2> DEFINE off == f.top - area.top
             m == layer.vMirror
  <2>1. off \in Int /\ area.top - f.top = -off /\ y - off = y + area.top - f.top /\ y - off \in Int
    BY <1>5, <1>11
  <2>2. /\ m => src.bottom = Moved(s.bottom, -off, HeightOf(s), HeightOf(f))
        /\ ~m => src.top = Moved(s.top, off, HeightOf(s), HeightOf(f))
    BY <1>8, <2>1, Zenon
  <2>3. /\ Along(src.top, src.bottom, m, Scaled(y, HeightOf(s), HeightOf(f))) \in Int
        /\ Along(s.top, s.bottom, m, Scaled(y - off, HeightOf(s), HeightOf(f))) \in Int
        /\ Near(Along(src.top, src.bottom, m, Scaled(y, HeightOf(s), HeightOf(f))),
                Along(s.top, s.bottom, m, Scaled(y - off, HeightOf(s), HeightOf(f))), IF HeightOf(s) = HeightOf(f) THEN 0 ELSE 1)
    <3> HIDE DEF off, m
    <3> QED
      BY <1>5, <1>6, <1>7, <1>11, <2>1, <2>2, AxisNear, Zenon
  <2>4. v \in Int /\ v1 \in Int /\ Near(v, v1, slack)
    <3>1. \A a, b \in Int : Near(a, b, IF HeightOf(s) = HeightOf(f) THEN 0 ELSE 1) => Near(a, b, slack)
      BY <1>9 DEF Near, slack
    <3> QED
      BY <2>1, <2>3, <3>1, Zenon DEF v, v1, sy, wy
  <2> QED
    BY <1>6, <1>7, <2>1, <2>4, ScaledInt, Zenon DEF wy
<1>15. PixelWanted(x, y) = Pictured(hw, wx, wy)
  BY <1>1, Sides DEF PixelWanted, Pictured, hw, area, s, f, wx, wy
<1>16. Pictured(hw, wx, wy) = TurnedBack(Rotation(hw.transform), u1, v1, hw.width, hw.height)
  <2>1. Rotation(hw.transform) = 180 => hw.crop.top = hw.height - hw.crop.bottom
    BY DEF CropCentred, hw
  <2>2. HMirror(hw) = layer.hMirror /\ VMirror(hw) = layer.vMirror
    BY <1>2, Zenon
  <2>3. /\ u1 = Along(SrcRect(hw).left, SrcRect(hw).right, HMirror(hw), wx)
        /\ v1 = Along(SrcRect(hw).top, SrcRect(hw).bottom, VMirror(hw), wy)
    BY <2>2, Zenon DEF s, u1, v1
  <2>4. wx \in Int /\ wy \in Int
    BY <1>12, <1>13
  <2> HIDE DEF hw, s, u1, v1, wx, wy
  <2> QED
    BY <1>1, <2>1, <2>3, <2>4, SourceShows, Zenon
<1>17. PixelRead(x, y) =
           LET p == TurnedBack(Rotation(hw.transform), u, v, hw.width, hw.height)
           IN  <<p[1] + 0, p[2] + 0>>
  BY <1>2, <1>3 DEF PixelRead, TurnedBack, Along, u, v, sx, sy
<1>18. slack \in Slacks
  BY DEF slack, Slacks
<1>19. /\ Near(PixelRead(x, y)[1], PixelWanted(x, y)[1], slack)
       /\ Near(PixelRead(x, y)[2], PixelWanted(x, y)[2], slack)
  <2> DEFINE p == TurnedBack(Rotation(hw.transform), u, v, hw.width, hw.height)
             q == TurnedBack(Rotation(hw.transform), u1, v1, hw.width, hw.height)
  <2>1. Near(p[1] + 0, q[1], slack) /\ Near(p[2] + 0, q[2], slack)
    <3>1. hw.width \in Int /\ hw.height \in Int
      BY <1>5
    <3> QED
      BY <1>10, <1>12, <1>13, <1>18, <3>1, NearTurned, Zenon
  <2>2. PixelRead(x, y) = <<p[1] + 0, p[2] + 0>> /\ PixelWanted(x, y) = q
    BY <1>15, <1>16, <1>17
  <2> HIDE DEF p, q
  <2> QED
    BY <2>1, <2>2
<1> QED
  BY <1>19

\* The pixel a source of a multi-source blit reads is the pixel wanted.
LEMMA ReadsShared ==
    ASSUME given \in [hw : HwLayer, dims : Seq(0..254), area : Rect, ground : BOOLEAN], layer = Generated(given.hw),
           InFrame(given.area, given.hw.frame), MayShareBlit, blit = SharedRequest,
           Untouched(given.hw, given.area)
    PROVE  InPlace
<1> DEFINE hw == given.hw
           area == given.area
           e == EigenL(layer, area)
           d == EigenDOf(area)
<1>1. hw \in HwLayer /\ area \in Rect
  OBVIOUS
<1>2. /\ layer.srcRect = SrcRect(hw) /\ layer.dstRect = hw.frame /\ layer.rotation = Rotation(hw.transform)
      /\ layer.hMirror = HMirror(hw) /\ layer.vMirror = VMirror(hw) /\ layer.stretch = Stretched(hw)
  BY DEF Generated
<1>3. ~Stretched(hw) /\ (Rotation(hw.transform) = 0 => e = d)
  BY <1>2 DEF MayShareBlit
<1>4. e \in Int /\ d \in Int
  BY <1>1, EigenRange
<1>5. WidthOf(SrcRect(hw)) = WidthOf(hw.frame) /\ HeightOf(SrcRect(hw)) = HeightOf(hw.frame)
  BY <1>3 DEF Stretched
<1>6. WidthOf(hw.frame) \in Nat \ {0} /\ HeightOf(hw.frame) \in Nat \ {0}
  BY <1>1, FrameSides
<1> SUFFICES ASSUME NEW x \in 0..(WidthOf(given.area) - 1), NEW y \in 0..(HeightOf(given.area) - 1)
             PROVE  /\ Near(PixelRead(x, y)[1], PixelWanted(x, y)[1], 0)
                    /\ Near(PixelRead(x, y)[2], PixelWanted(x, y)[2], 0)
  BY <1>2, <1>3 DEF InPlace
<1>7. /\ hw.frame.left \in Int /\ hw.frame.top \in Int /\ area.left \in Int /\ area.top \in Int
      /\ hw.crop \in Rect /\ hw.height \in Int /\ x \in Int /\ y \in Int
  BY <1>1, HwLayerFields, RectFields
<1> DEFINE wx == x + area.left - hw.frame.left
           wy == y + area.top - hw.frame.top
<1>8. wx \in Int /\ wy \in Int
  BY <1>7
<1>9. \A n \in Int : Scaled(n, WidthOf(hw.frame), WidthOf(hw.frame)) = n
                     /\ Scaled(n, HeightOf(hw.frame), HeightOf(hw.frame)) = n
  BY <1>6, WholeDiv, Zenon DEF Scaled
<1>10. PixelRead(x, y) = SharedReads(hw, area, e, d, x, y)
  <2>1. Scaled(x, WidthOf(layer.srcRect), WidthOf(layer.dstRect)) = x
        /\ Scaled(y, HeightOf(layer.srcRect), HeightOf(layer.dstRect)) = y
    BY <1>2, <1>5, <1>7, <1>9
  <2> DEFINE lay == Layout(Rotation(hw.transform), area, e, d)
             org == OrgCorner(layer, hw.topBottom, area)
             turned == Rotation(hw.transform) \in {90, 270}
  <2>2. /\ blit.from = lay.rect /\ blit.size = IF turned THEN <<lay.size[2], lay.size[1]>> ELSE lay.size
        /\ blit.moved = <<org[1] - lay.org[1], org[2] - lay.org[2]>>
        /\ blit.rotation = Rotation(hw.transform) /\ blit.hMirror = HMirror(hw) /\ blit.vMirror = VMirror(hw)
    BY <1>2 DEF SharedRequest, Request
  <2>3. /\ blit.size[1] = IF turned THEN lay.size[2] ELSE lay.size[1]
        /\ blit.size[2] = IF turned THEN lay.size[1] ELSE lay.size[2]
    BY <2>2
  <2>4. layer = Generated(hw)
    OBVIOUS
  <2> HIDE DEF lay, org, turned, hw, area, e, d
  <2>5. PixelRead(x, y) =
            LET read == TurnedBack(Rotation(hw.transform), Along(lay.rect.left, lay.rect.right, HMirror(hw), x),
                                   Along(lay.rect.top, lay.rect.bottom, VMirror(hw), y),
                                   blit.size[1], blit.size[2])
            IN  <<read[1] + (org[1] - lay.org[1]), read[2] + (org[2] - lay.org[2])>>
    BY <2>1, <2>2 DEF PixelRead, TurnedBack, Along
  <2> QED
    BY <2>3, <2>4, <2>5 DEF SharedReads, lay, org, turned
<1>11. PixelWanted(x, y) = Pictured(hw, wx, wy)
  <2>1. /\ Scaled(wx, IF hw.transform.rot90 THEN HeightOf(hw.crop) ELSE WidthOf(hw.crop), WidthOf(hw.frame)) = wx
        /\ Scaled(wy, IF hw.transform.rot90 THEN WidthOf(hw.crop) ELSE HeightOf(hw.crop), HeightOf(hw.frame)) = wy
    BY <1>1, <1>5, <1>8, <1>9, Sides
  <2> QED
    BY <2>1 DEF PixelWanted, Pictured
<1>12. SharedReads(hw, area, e, d, x, y) = Pictured(hw, wx, wy)
  <2> HIDE DEF e, d
  <2> QED
    BY <1>1, <1>3, <1>4, <1>7, SharedShows
<1>13. Pictured(hw, wx, wy)[1] \in Int /\ Pictured(hw, wx, wy)[2] \in Int
  <2>1. /\ hw.crop.left \in Int /\ hw.crop.right \in Int /\ hw.crop.top \in Int /\ hw.crop.bottom \in Int
    BY <1>7, RectFields
  <2> HIDE DEF wx, wy, hw
  <2> DEFINE column == IF hw.transform.rot90 THEN wy ELSE wx
             row == IF hw.transform.rot90 THEN HeightOf(hw.crop) - 1 - wx ELSE wy
             c == hw.crop.left + (IF hw.transform.flipH THEN WidthOf(hw.crop) - 1 - column ELSE column)
             r == hw.crop.top + (IF hw.transform.flipV THEN HeightOf(hw.crop) - 1 - row ELSE row)
  <2>2. WidthOf(hw.crop) \in Int /\ HeightOf(hw.crop) \in Int
    BY <2>1 DEF WidthOf, HeightOf
  <2>3. column \in Int /\ row \in Int
    BY <1>8, <2>2
  <2>4. c \in Int /\ r \in Int /\ hw.height - 1 - r \in Int
    <3>1. \A k, m, n \in Int : \A flip : k + (IF flip THEN m - 1 - n ELSE n) \in Int
      OBVIOUS
    <3>2. c \in Int /\ r \in Int
      BY <2>1, <2>2, <2>3, <3>1, Zenon
    <3> HIDE DEF c, r
    <3> QED
      BY <1>7, <3>2
  <2>5. Pictured(hw, wx, wy) = <<c, IF hw.topBottom THEN r ELSE hw.height - 1 - r>>
    BY DEF Pictured
  <2> HIDE DEF c, r
  <2> QED
    BY <2>4, <2>5
<1>14. \A n \in Int : Near(n, n, 0)
  BY DEF Near
<1> QED
  BY <1>10, <1>11, <1>12, <1>13, <1>14, Zenon

\* SinglePicture: _Blit shows in each area of a layer the part of the picture
\* that belongs there, for any surface, crop, frame, scale and area.
THEOREM SingleBlitRight == BlitSpec => []SinglePicture
<1>1. BlitInv => SinglePicture
  <2> SUFFICES ASSUME BlitInv, stage = "done", blit.single,
                      ~(Rotation(given.hw.transform) = 180 /\ ~CropCentred)
               PROVE  InPlace
    BY DEF SinglePicture
  <2>1. blit = SingleRequest
    <3>1. SharedRequest.single = FALSE
      BY DEF SharedRequest, Request
    <3> QED
      BY <3>1, Zenon DEF BlitInv
  <2> QED
    BY <2>1, ReadsSingle DEF BlitInv, BlitTypeOK
<1> QED
  BY <1>1, AlwaysBlitInv, PTL

\* MultiSourcePicture: so does a source of a multi-source blit, wherever the
\* surfaces are moved to for the alignment of formats and target.
THEOREM SharedBlitRight == BlitSpec => []MultiSourcePicture
<1>1. BlitInv => MultiSourcePicture
  <2> SUFFICES ASSUME BlitInv, stage = "done", ~blit.single,
                      ~(given.hw.transform.flipH # given.hw.transform.flipV /\ ~AreaCentred),
                      ~(~given.hw.topBottom /\ (~CropCentred \/ (given.hw.transform.rot90 /\ ~AreaCentred)))
               PROVE  InPlace
    BY Zenon DEF MultiSourcePicture
  <2>1. MayShareBlit /\ blit = SharedRequest
    <3>1. SingleRequest.single = TRUE
      BY DEF SingleRequest, Request
    <3> QED
      BY <3>1, Zenon DEF BlitInv
  <2>2. given \in [hw : HwLayer, dims : Seq(0..254), area : Rect, ground : BOOLEAN] /\ layer = Generated(given.hw)
        /\ InFrame(given.area, given.hw.frame)
    BY DEF BlitInv, BlitTypeOK
  <2>3. Untouched(given.hw, given.area)
    <3>1. given.hw.transform.flipH \in BOOLEAN /\ given.hw.transform.flipV \in BOOLEAN
      BY <2>2, HwLayerFields
    <3>2. AreaCentred => Centred(given.hw, given.area)
      BY Zenon DEF AreaCentred, Centred
    <3> QED
      BY <3>1, <3>2, Zenon DEF Untouched, CropCentred
  <2> QED
    BY <2>1, <2>2, <2>3, ReadsShared
<1> QED
  BY <1>1, AlwaysBlitInv, PTL

\* MultiSourceAligned: source and target of a multi-source blit start at
\* addresses the core takes, and their surfaces hold the rectangle, for any
\* area, format and crop.
THEOREM SharedBlitAligned == BlitSpec => []MultiSourceAligned
<1>1. BlitInv => MultiSourceAligned
  <2> SUFFICES ASSUME BlitInv, stage = "done", ~blit.single
               PROVE  MultiSourceAligned
    BY Zenon DEF MultiSourceAligned
  <2> DEFINE hw == given.hw
             area == given.area
             e == EigenL(layer, area)
             d == EigenDOf(area)
             r == layer.rotation
             lay == Layout(r, area, e, d)
             org == OrgCorner(layer, hw.topBottom, area)
  <2>1. blit = SharedRequest
    <3>1. SingleRequest.single = TRUE
      BY DEF SingleRequest, Request
    <3> QED
      BY <3>1, Zenon DEF BlitInv
  <2>2. given \in [hw : HwLayer, dims : Seq(0..254), area : Rect, ground : BOOLEAN] /\ layer = Generated(hw)
        /\ InFrame(area, hw.frame)
    BY DEF BlitInv, BlitTypeOK
  <2>3. hw \in HwLayer /\ area \in Rect
    BY <2>2
  <2>4. /\ d \in Nat /\ (area.left - d) % (16 \div TargetBytes) = 0
        /\ e \in Nat /\ (SourceLeft(layer, area) - e) % SourceAlignment = 0
    BY <2>2, <2>3, EigenRange
  <2>5. /\ area.left \in Int /\ area.right \in Int /\ area.top \in Int /\ area.bottom \in Int
        /\ WidthOf(area) > 0 /\ HeightOf(area) > 0
    BY <2>2, <2>3, RectFields DEF InFrame
  <2>6. r \in {0, 90, 180, 270} /\ layer.orgRect = hw.crop /\ layer.dstRect = hw.frame
    BY <2>2, <2>3, Oriented DEF Generated
  <2>7. /\ blit.to = lay.rect
        /\ blit.size = IF r \in {90, 270} THEN <<lay.size[2], lay.size[1]>> ELSE lay.size
        /\ blit.moved[1] = org[1] - lay.org[1] /\ blit.target[1] = area.left - lay.rect.left
    BY <2>1 DEF SharedRequest, Request
  <2>8. lay.rect.left = d /\ lay.org[1] = e
    BY DEF Layout, RectOf
  <2>9. org[1] = SourceLeft(layer, area) \/ (~hw.topBottom /\ r \in {90, 270})
    <3>1. hw.frame \in Rect /\ hw.crop \in Rect
      BY <2>3, HwLayerFields
    <3>2. /\ hw.frame.left \in Int /\ hw.frame.right \in Int /\ hw.frame.top \in Int /\ hw.frame.bottom \in Int
      BY <3>1, RectFields
    <3> HIDE DEF hw, area
    <3> QED
      BY <2>5, <2>6, <3>1, <3>2 DEF OrgCorner, SourceLeft
  <2>10. LET w == lay.size[1]
             h == lay.size[2]
         IN  0 <= lay.rect.left /\ lay.rect.right <= w /\ 0 <= lay.rect.top /\ lay.rect.bottom <= h
    <3>1. WidthOf(area) \in Nat /\ HeightOf(area) \in Nat
      BY <2>5 DEF WidthOf, HeightOf
    <3> HIDE DEF e, d, r, area
    <3> QED
      BY <2>4, <2>6, <3>1 DEF Layout, RectOf
  <2>11. blit.target[1] % (16 \div TargetBytes) = 0
    BY <2>4, <2>7, <2>8
  <2>12. blit.moved[1] % SourceAlignment = 0 \/ (~hw.topBottom /\ r \in {90, 270})
    BY <2>4, <2>7, <2>8, <2>9
  <2>13. blit.size[IF r \in {90, 270} THEN 2 ELSE 1] = lay.size[1]
         /\ blit.size[IF r \in {90, 270} THEN 1 ELSE 2] = lay.size[2]
    <3> HIDE DEF lay, r
    <3> QED
      BY <2>7
  <2> HIDE DEF lay, org
  <2> QED
    BY <2>7, <2>10, <2>11, <2>12, <2>13, Zenon DEF MultiSourceAligned
<1> QED
  BY <1>1, AlwaysBlitInv, PTL

----------------------------------------------------------------------------
(* LayerBlit: how bright the layer gets below DIM layers. *)

Byte == 0..255

\* AlphaDim, step by step.
LEMMA AfterDims ==
    ASSUME NEW dims \in Seq(0..254)
    PROVE  \E a \in [0..Len(dims) -> Byte] :
               /\ a[0] = 255 /\ AlphaDim(dims) = a[Len(dims)]
               /\ \A n \in 1..Len(dims) : a[n] = (a[n - 1] * (255 - dims[n])) \div 256
<1> DEFINE N == Len(dims)
           Body(f) == [n \in 0..N |-> IF n = 0 THEN 255 ELSE (f[n - 1] * (255 - dims[n])) \div 256]
           F == CHOOSE f : f = Body(f)
           step == [n \in 1..N |-> [b \in Byte |-> (b * (255 - dims[n])) \div 256]]
<1>1. N \in Nat /\ \A n \in 1..N : dims[n] \in 0..254
  BY LenProperties, ElementOfSeq
<1>2. AlphaDim(dims) = F[N]
  BY Zenon DEF AlphaDim
<1> HIDE DEF N
<1>3. \A b \in Byte, m \in 0..254 : (b * (255 - m)) \div 256 \in Byte
  BY DEF Byte
<1>4. step \in [1..N -> [Byte -> Byte]]
  <2>1. ASSUME NEW n \in 1..N
        PROVE  [b \in Byte |-> (b * (255 - dims[n])) \div 256] \in [Byte -> Byte]
    <3>1. \A b \in Byte : (b * (255 - dims[n])) \div 256 \in Byte
      BY <1>1, <1>3, Zenon
    <3> QED
      BY <3>1
  <2> QED
    BY <2>1
<1>0. (0 + 1)..N = 1..N /\ 0 <= N /\ 0 \in Nat /\ 255 \in Byte
  BY <1>1 DEF Byte
<1>5. PICK g \in [0..N -> Byte] : Iterates(g, 0, N, 255, step)
  <2> HIDE DEF step
  <2> QED
    BY <1>0, <1>1, <1>4, LoopExists
<1>6. g[0] = 255 /\ \A n \in 1..N : g[n] = (g[n - 1] * (255 - dims[n])) \div 256
  <2>1. ASSUME NEW n \in 1..N
        PROVE  g[n] = (g[n - 1] * (255 - dims[n])) \div 256
    <3>1. n - 1 \in 0..N
      BY <1>1
    <3>2. g[n - 1] \in Byte /\ g[n] = step[n][g[n - 1]]
      BY <1>0, <1>5, <3>1 DEF Iterates
    <3> QED
      BY <3>2
  <2> QED
    BY <1>5, <2>1 DEF Iterates
<1>7. g = Body(g)
  <2>1. ASSUME NEW n \in 0..N
        PROVE  g[n] = IF n = 0 THEN 255 ELSE (g[n - 1] * (255 - dims[n])) \div 256
    <3>1. n # 0 => n \in 1..N
      BY <1>1
    <3> QED
      BY <1>6, <3>1, Zenon
  <2>2. g = [n \in 0..N |-> g[n]]
    OBVIOUS
  <2> QED
    BY <2>1, <2>2, Zenon
<1>8. F = Body(F)
  BY <1>7, Zenon
<1> HIDE DEF F
<1>9. /\ F[0] = 255
      /\ \A n \in 1..N : F[n] = (F[n - 1] * (255 - dims[n])) \div 256
  BY <1>1, <1>8
<1>10. F = [n \in 0..N |-> F[n]]
  BY <1>8, Zenon
<1> HIDE DEF Body, step
<1>11. \A n \in 0..N : F[n] \in Byte
  <2> DEFINE S == {n \in 0..N : F[n] \in Byte}
  <2>1. 0 \in S
    BY <1>0, <1>1, <1>9
  <2>2. ASSUME NEW n \in (0 + 1)..N, n - 1 \in S
        PROVE  n \in S
    <3>1. n \in 1..N /\ n \in 0..N
      BY <1>1
    <3>2. F[n - 1] \in Byte /\ F[n] = (F[n - 1] * (255 - dims[n])) \div 256
      BY <1>9, <2>2, <3>1
    <3> QED
      BY <1>1, <1>3, <3>1, <3>2, Zenon
  <2>3. \A n \in (0 + 1)..N : n - 1 \in S => n \in S
    BY <2>2
  <2> HIDE DEF S
  <2>4. \A n \in 0..N : n \in S
    BY <1>0, <1>1, <2>1, <2>3, Upwards
  <2> QED
    BY <2>4 DEF S
<1>12. F \in [0..N -> Byte]
  BY <1>10, <1>11
<1> DEFINE Steps(a) == \A n \in 1..N : a[n] = (a[n - 1] * (255 - dims[n])) \div 256
           Starts(a) == a[0] = 255
<1>13. Starts(F) /\ Steps(F)
  BY <1>9
<1> HIDE DEF Starts, Steps
<1>14. \E a \in [0..N -> Byte] : Starts(a) /\ AlphaDim(dims) = a[N] /\ Steps(a)
  BY <1>2, <1>12, <1>13, Zenon
<1> QED
  BY <1>14, Zenon DEF N, Starts, Steps

\* Product, step by step.
LEMMA ProductOf ==
    ASSUME NEW s \in Seq(Nat)
    PROVE  \E p \in [0..Len(s) -> Nat] :
               /\ p[0] = 1 /\ Product(s) = p[Len(s)]
               /\ \A n \in 1..Len(s) : p[n] = p[n - 1] * s[n]
<1> DEFINE N == Len(s)
           Body(f) == [n \in 0..N |-> IF n = 0 THEN 1 ELSE f[n - 1] * s[n]]
           F == CHOOSE f : f = Body(f)
           step == [n \in 1..N |-> [b \in Nat |-> b * s[n]]]
<1>1. N \in Nat /\ \A n \in 1..N : s[n] \in Nat
  BY LenProperties, ElementOfSeq
<1>2. Product(s) = F[N]
  BY Zenon DEF Product
<1> HIDE DEF N
<1>3. \A b \in Nat, m \in Nat : b * m \in Nat
  OBVIOUS
<1>4. step \in [1..N -> [Nat -> Nat]]
  <2>1. ASSUME NEW n \in 1..N
        PROVE  [b \in Nat |-> b * s[n]] \in [Nat -> Nat]
    <3>1. \A b \in Nat : b * s[n] \in Nat
      BY <1>1, <1>3, Zenon
    <3> QED
      BY <3>1
  <2> QED
    BY <2>1
<1>0. (0 + 1)..N = 1..N /\ 0 <= N /\ 0 \in Nat /\ 1 \in Nat
  BY <1>1
<1>5. PICK g \in [0..N -> Nat] : Iterates(g, 0, N, 1, step)
  <2> HIDE DEF step
  <2> QED
    BY <1>0, <1>1, <1>4, LoopExists
<1>6. g[0] = 1 /\ \A n \in 1..N : g[n] = g[n - 1] * s[n]
  <2>1. ASSUME NEW n \in 1..N
        PROVE  g[n] = g[n - 1] * s[n]
    <3>1. n - 1 \in 0..N
      BY <1>1
    <3>2. g[n - 1] \in Nat /\ g[n] = step[n][g[n - 1]]
      BY <1>0, <1>5, <3>1 DEF Iterates
    <3> QED
      BY <3>2
  <2> QED
    BY <1>5, <2>1 DEF Iterates
<1>7. g = Body(g)
  <2>1. ASSUME NEW n \in 0..N
        PROVE  g[n] = IF n = 0 THEN 1 ELSE g[n - 1] * s[n]
    <3>1. n # 0 => n \in 1..N
      BY <1>1
    <3> QED
      BY <1>6, <3>1, Zenon
  <2>2. g = [n \in 0..N |-> g[n]]
    OBVIOUS
  <2> QED
    BY <2>1, <2>2, Zenon
<1>8. F = Body(F)
  BY <1>7, Zenon
<1> HIDE DEF F
<1>9. F[0] = 1 /\ \A n \in 1..N : F[n] = F[n - 1] * s[n]
  BY <1>1, <1>8
<1>10. F = [n \in 0..N |-> F[n]]
  BY <1>8, Zenon
<1> HIDE DEF Body, step
<1>11. \A n \in 0..N : F[n] \in Nat
  <2> DEFINE S == {n \in 0..N : F[n] \in Nat}
  <2>1. 0 \in S
    BY <1>0, <1>1, <1>9
  <2>2. ASSUME NEW n \in (0 + 1)..N, n - 1 \in S
        PROVE  n \in S
    <3>1. n \in 1..N /\ n \in 0..N
      BY <1>1
    <3>2. F[n - 1] \in Nat /\ F[n] = F[n - 1] * s[n]
      BY <1>9, <2>2, <3>1
    <3> QED
      BY <1>1, <1>3, <3>1, <3>2, Zenon
  <2>3. \A n \in (0 + 1)..N : n - 1 \in S => n \in S
    BY <2>2
  <2> HIDE DEF S
  <2>4. \A n \in 0..N : n \in S
    BY <1>0, <1>1, <2>1, <2>3, Upwards
  <2> QED
    BY <2>4 DEF S
<1>12. F \in [0..N -> Nat]
  BY <1>10, <1>11
<1> QED
  BY <1>2, <1>9, <1>12, Zenon DEF N

\* A product with k of 255 parts, >> 8 for / 255, loses at most two steps.
LEMMA TwoSteps ==
    ASSUME NEW b \in Nat, NEW k \in 0..255, b <= 255
    PROVE  /\ (b * k) \div 256 \in 0..255
           /\ 255 * ((b * k) \div 256) <= b * k
           /\ b * k <= 255 * ((b * k) \div 256) + 510
<1> DEFINE z == b * k
           q == z \div 256
<1>1. z \in Nat /\ z <= 65025
  OBVIOUS
<1> HIDE DEF z
<1>2. q \in Nat /\ 256 * q <= z /\ z <= 256 * q + 255
  BY <1>1
<1> HIDE DEF q
<1>3. q <= 255 /\ 255 * q <= z /\ z <= 255 * q + 510
  BY <1>1, <1>2
<1>4. q \in 0..255
  BY <1>2, <1>3
<1> QED
  BY <1>3, <1>4 DEF q, z

\* What the eight bits of AlphaDim leave, and what is lost of it.
DimsWithin(n, p, l, a) ==
    /\ p \in Nat \ {0} /\ l \in Nat /\ a \in Byte
    /\ a * p <= 255 * l
    /\ 255 * l <= (a + 2 * n) * p

\* One more layer, which leaves k of 255 parts.
DimAdds(n, p, l, a, k, nn, pp, ll, q) ==
    nn = n + 1 /\ pp = p * 255 /\ ll = l * k /\ q = (a * k) \div 256

LEMMA OneDimMore ==
    ASSUME NEW n \in Nat, NEW p, NEW l, NEW a, DimsWithin(n, p, l, a), NEW k \in 1..255,
           NEW nn, NEW pp, NEW ll, NEW q, DimAdds(n, p, l, a, k, nn, pp, ll, q)
    PROVE  DimsWithin(nn, pp, ll, q)
<1>0. nn = n + 1 /\ pp = p * 255 /\ ll = l * k /\ q = (a * k) \div 256
  BY DEF DimAdds
<1> DEFINE ap == a * p
           np == n * p
<1>1. k \in 0..255 /\ k \in 1..255 /\ p \in Nat \ {0} /\ l \in Nat /\ a \in Nat /\ a <= 255
  BY DEF DimsWithin, Byte
<1>2. q \in 0..255 /\ 255 * q <= a * k /\ a * k <= 255 * q + 510
  <2>1. /\ (a * k) \div 256 \in 0..255
        /\ 255 * ((a * k) \div 256) <= a * k
        /\ a * k <= 255 * ((a * k) \div 256) + 510
    BY <1>1, TwoSteps
  <2> QED
    BY <1>0, <2>1
<1>3. ap \in Nat /\ np \in Nat /\ ap <= 255 * l /\ 255 * l <= ap + 2 * np
  BY <1>1 DEF DimsWithin
<1>4. (255 * q) * p <= (a * k) * p /\ (a * k) * p <= (255 * q + 510) * p
  <2>1. \A x, y \in Nat : x <= y => x * p <= y * p
    BY <1>1
  <2>2. 255 * q \in Nat /\ a * k \in Nat /\ 255 * q + 510 \in Nat
    BY <1>1, <1>2
  <2> QED
    BY <1>2, <2>1, <2>2, Zenon
<1>5. (a * k) * p = k * ap /\ k * ap <= k * (255 * l) /\ k * (255 * l) <= k * (ap + 2 * np)
  <2>1. \A x, y \in Nat : x <= y => k * x <= k * y
    BY <1>1
  <2>2. 255 * l \in Nat /\ ap + 2 * np \in Nat
    BY <1>1, <1>3
  <2>3. (a * k) * p = k * ap
    BY <1>1
  <2> QED
    BY <1>3, <2>1, <2>2, <2>3, Zenon
<1>6. k * np <= 255 * np
  <2>1. \A x \in Nat : k * x <= 255 * x
    BY <1>1
  <2> QED
    BY <1>3, <2>1, Zenon
<1>7. q * (p * 255) <= 255 * (l * k)
  <2>1. q * (p * 255) = (255 * q) * p /\ k * (255 * l) = 255 * (l * k)
    BY <1>1, <1>2
  <2>2. (255 * q) * p \in Nat /\ k * ap \in Nat /\ k * (255 * l) \in Nat
    BY <1>1, <1>2, <1>3
  <2> HIDE DEF ap
  <2> QED
    BY <1>4, <1>5, <2>1, <2>2
<1>8. 255 * (l * k) <= (q + 2 * (n + 1)) * (p * 255)
  <2> DEFINE qp == q * p
             kl == l * k
             ka == k * ap
             kn == k * np
  <2>1. qp \in Nat /\ kl \in Nat /\ ka \in Nat /\ kn \in Nat
    BY <1>1, <1>2, <1>3
  <2>2. (255 * q + 510) * p = 255 * qp + 510 * p
    BY <1>1, <1>2
  <2>3. k * (ap + 2 * np) = ka + 2 * kn /\ k * (255 * l) = 255 * kl
    BY <1>1, <1>3
  <2>4. (q + 2 * (n + 1)) * (p * 255) = 255 * qp + 510 * np + 510 * p
    BY <1>1, <1>2
  <2>5. ka <= 255 * qp + 510 * p
    BY <1>4, <1>5, <2>2
  <2>6. 255 * kl <= ka + 2 * kn /\ kn <= 255 * np
    BY <1>5, <1>6, <2>3
  <2> HIDE DEF qp, kl, ka, kn, np, ap
  <2>7. 255 * kl <= 255 * qp + 510 * np + 510 * p
    BY <1>1, <1>3, <2>1, <2>5, <2>6
  <2> QED
    BY <2>4, <2>7 DEF kl
<1>9. p * 255 \in Nat \ {0} /\ l * k \in Nat /\ q \in Byte
  BY <1>1, <1>2 DEF Byte
<1> QED
  BY <1>0, <1>7, <1>8, <1>9 DEF DimsWithin


\* What AlphaDim makes of any number of DIM layers.
LEMMA DimBounds ==
    ASSUME NEW dims \in Seq(0..254)
    PROVE  DimsWithin(Len(dims), Light(dims), LightLeft(dims), AlphaDim(dims))
<1> DEFINE N == Len(dims)
           whole == [n \in DOMAIN dims |-> 255]
           parts == [n \in DOMAIN dims |-> 255 - dims[n]]
<1>0. \A m \in 0..254 : 255 - m \in Nat /\ 255 - m \in 1..255
  OBVIOUS
<1>1. N \in Nat /\ DOMAIN dims = 1..N /\ \A n \in 1..N : dims[n] \in 0..254
  BY LenProperties, ElementOfSeq
<1> HIDE DEF N
<1>2. whole \in Seq(Nat) /\ Len(whole) = N /\ \A n \in 1..N : whole[n] = 255
  BY <1>1
<1>3. parts \in Seq(Nat) /\ Len(parts) = N /\ \A n \in 1..N : parts[n] = 255 - dims[n]
  <2>1. \A n \in 1..N : 255 - dims[n] \in Nat
    BY <1>0, <1>1, Zenon
  <2>2. parts = [n \in 1..N |-> 255 - dims[n]]
    BY <1>1
  <2> HIDE DEF N, parts
  <2>3. parts \in [1..N -> Nat]
    BY <2>1, <2>2
  <2> QED
    BY <1>1, <2>2, <2>3
<1> HIDE DEF whole, parts
<1>4. PICK p \in [0..N -> Nat] :
         p[0] = 1 /\ Product(whole) = p[N] /\ \A n \in 1..N : p[n] = p[n - 1] * whole[n]
  <2>1. \E p \in [0..Len(whole) -> Nat] :
           /\ p[0] = 1 /\ Product(whole) = p[Len(whole)]
           /\ \A n \in 1..Len(whole) : p[n] = p[n - 1] * whole[n]
    BY <1>2, ProductOf
  <2> QED
    BY <1>2, <2>1
<1>5. PICK l \in [0..N -> Nat] :
         l[0] = 1 /\ Product(parts) = l[N] /\ \A n \in 1..N : l[n] = l[n - 1] * parts[n]
  <2>1. \E l \in [0..Len(parts) -> Nat] :
           /\ l[0] = 1 /\ Product(parts) = l[Len(parts)]
           /\ \A n \in 1..Len(parts) : l[n] = l[n - 1] * parts[n]
    BY <1>3, ProductOf
  <2> QED
    BY <1>3, <2>1
<1>6. PICK a \in [0..N -> Byte] :
         /\ a[0] = 255 /\ AlphaDim(dims) = a[N]
         /\ \A n \in 1..N : a[n] = (a[n - 1] * (255 - dims[n])) \div 256
  BY AfterDims
<1>7. Light(dims) = p[N] /\ LightLeft(dims) = l[N]
  BY <1>4, <1>5 DEF Light, LightLeft, whole, parts
<1> DEFINE S == {n \in 0..N : DimsWithin(n, p[n], l[n], a[n])}
<1>8. 0 \in S
  BY <1>1, <1>4, <1>5, <1>6 DEF DimsWithin, Byte
<1>9. ASSUME NEW n \in (0 + 1)..N, n - 1 \in S
      PROVE  n \in S
  <2>1. n \in 1..N /\ n \in 0..N /\ n - 1 \in Nat /\ (n - 1) + 1 = n
    BY <1>1
  <2>2. DimsWithin(n - 1, p[n - 1], l[n - 1], a[n - 1])
    BY <1>9
  <2>3. 255 - dims[n] \in 1..255
    BY <1>0, <1>1, <2>1, Zenon
  <2>4. DimsWithin((n - 1) + 1, p[n - 1] * 255, l[n - 1] * (255 - dims[n]), (a[n - 1] * (255 - dims[n])) \div 256)
    <3>1. PICK k, pn, ln, an, m : k = n - 1 /\ pn = p[n - 1] /\ ln = l[n - 1] /\ an = a[n - 1] /\ m = 255 - dims[n]
      OBVIOUS
    <3> HIDE DEF S
    <3>2. DimsWithin(k, pn, ln, an) /\ m \in 1..255 /\ k \in Nat
      BY <2>1, <2>2, <2>3, <3>1, Zenon
    <3> DEFINE i == k + 1
               q == pn * 255
               r == ln * m
               b == (an * m) \div 256
    <3>3. DimAdds(k, pn, ln, an, m, i, q, r, b)
      BY DEF DimAdds
    <3> HIDE DEF i, q, r, b
    <3>4. DimsWithin(i, q, r, b)
      BY <2>1, <3>2, <3>3, OneDimMore, Zenon
    <3> QED
      BY <3>1, <3>4 DEF i, q, r, b
  <2>5. /\ p[n] = p[n - 1] * 255 /\ l[n] = l[n - 1] * (255 - dims[n])
        /\ a[n] = (a[n - 1] * (255 - dims[n])) \div 256
    BY <1>2, <1>3, <1>4, <1>5, <1>6, <2>1
  <2>6. DimsWithin(n, p[n], l[n], a[n])
    BY <2>1, <2>4, <2>5
  <2> QED
    BY <2>1, <2>6
<1>10. \A n \in (0 + 1)..N : n - 1 \in S => n \in S
  BY <1>9
<1> HIDE DEF S
<1>11. \A n \in 0..N : n \in S
  <2>1. 0 \in Nat /\ 0 <= N
    BY <1>1
  <2> QED
    BY <1>1, <1>8, <1>10, <2>1, Upwards
<1>12. DimsWithin(N, p[N], l[N], a[N])
  BY <1>1, <1>11 DEF S
<1> QED
  BY <1>6, <1>7, <1>12, Zenon DEF N

\* The plane's share of what the dims leave.
LEMMA PlaneOfDims ==
    ASSUME NEW n \in Nat, NEW p, NEW l, NEW a, DimsWithin(n, p, l, a), NEW plane \in 0..255,
           NEW color, color = (plane * a) \div 256
    PROVE  color * p \in (plane * l - 2 * (n + 1) * p)..(plane * l)
<1> DEFINE ap == a * p
           np == n * p
           cp == color * p
           pl == plane * l
           pa == plane * ap
           pn == plane * np
<1>1. p \in Nat \ {0} /\ l \in Nat /\ a \in Nat /\ a <= 255 /\ a \in 0..255 /\ plane \in Nat /\ plane <= 255
  BY DEF DimsWithin, Byte
<1>2. color \in 0..255 /\ 255 * color <= plane * a /\ plane * a <= 255 * color + 510
  <2>1. /\ (plane * a) \div 256 \in 0..255
        /\ 255 * ((plane * a) \div 256) <= plane * a
        /\ plane * a <= 255 * ((plane * a) \div 256) + 510
    BY <1>1, TwoSteps
  <2> QED
    BY <2>1
<1>3. /\ ap \in Nat /\ np \in Nat /\ cp \in Nat /\ pl \in Nat /\ pa \in Nat /\ pn \in Nat
      /\ ap <= 255 * l /\ 255 * l <= ap + 2 * np
  BY <1>1, <1>2 DEF DimsWithin
<1>4. (255 * color) * p <= (plane * a) * p /\ (plane * a) * p <= (255 * color + 510) * p
  <2>1. \A x, y \in Nat : x <= y => x * p <= y * p
    BY <1>1
  <2>2. 255 * color \in Nat /\ plane * a \in Nat /\ 255 * color + 510 \in Nat
    BY <1>1, <1>2
  <2> QED
    BY <1>2, <2>1, <2>2, Zenon
<1>5. (plane * a) * p = pa /\ pa <= plane * (255 * l) /\ plane * (255 * l) <= plane * (ap + 2 * np)
  <2>1. \A x, y \in Nat : x <= y => plane * x <= plane * y
    BY <1>1
  <2>2. 255 * l \in Nat /\ ap + 2 * np \in Nat
    BY <1>1, <1>3
  <2>3. (plane * a) * p = pa
    BY <1>1
  <2> QED
    BY <1>3, <2>1, <2>2, <2>3, Zenon
<1>6. pn <= 255 * np
  <2>1. \A x \in Nat : plane * x <= 255 * x
    BY <1>1
  <2> QED
    BY <1>3, <2>1, Zenon
<1>7. /\ (255 * color) * p = 255 * cp /\ (255 * color + 510) * p = 255 * cp + 510 * p
      /\ plane * (255 * l) = 255 * pl /\ plane * (ap + 2 * np) = pa + 2 * pn
  BY <1>1, <1>2, <1>3
<1>8. 2 * (n + 1) * p = 2 * np + 2 * p
  BY <1>1
<1> HIDE DEF ap, np, cp, pl, pa, pn
<1>9. cp <= pl /\ pl - (2 * np + 2 * p) <= cp
  BY <1>1, <1>3, <1>4, <1>5, <1>6, <1>7
<1>10. cp \in (pl - (2 * np + 2 * p))..pl
  BY <1>1, <1>3, <1>9
<1> QED
  BY <1>8, <1>10 DEF cp, pl


LEMMA NoDims ==
    ASSUME NEW dims, dims = <<>>
    PROVE  Len(dims) = 0 /\ Light(dims) = 1 /\ LightLeft(dims) = 1
<1>1. Product(<<>>) = 1
  <2>1. \E p \in [0..Len(<<>>) -> Nat] :
           /\ p[0] = 1 /\ Product(<<>>) = p[Len(<<>>)]
           /\ \A n \in 1..Len(<<>>) : p[n] = p[n - 1] * <<>>[n]
    <3>1. <<>> \in Seq(Nat)
      OBVIOUS
    <3> QED
      BY <3>1, ProductOf
  <2>2. Len(<<>>) = 0
    OBVIOUS
  <2> QED
    BY <2>1, <2>2, Zenon
<1>2. [n \in DOMAIN dims |-> 255] = <<>> /\ [n \in DOMAIN dims |-> 255 - dims[n]] = <<>>
  OBVIOUS
<1>3. Len(dims) = 0
  OBVIOUS
<1> QED
  BY <1>1, <1>2, <1>3, Zenon DEF Light, LightLeft

\* What hwcSet asks for.
AlphaAsked(hw, al, plane) ==
    /\ al.opaque <=> hw.blending = "none"
    /\ (IF al.multiply THEN al.global ELSE 255) = plane
    /\ al.global = plane
    /\ \/ al.opaque \/ hw.blending = "coverage"
       \/ al.mode = "off" /\ hw.alpha /\ plane = 255
       \/ al.mode = (IF hw.alpha THEN "scale" ELSE "on")

LEMMA AlphaModes ==
    ASSUME NEW hw \in HwLayer
    PROVE  AlphaAsked(hw, AlphaMode(hw), IF hw.blending = "none" THEN 255 ELSE hw.plane)
<1>1. /\ hw.blending \in {"none", "premult", "coverage"} /\ hw.plane \in 0..255
  BY DEF HwLayer, Blending
<1>2. hw.plane < 255 \/ hw.plane = 255
  BY <1>1
<1>3. CASE hw.blending = "none"
  BY <1>3 DEF AlphaMode, AlphaAsked
<1>4. CASE hw.blending # "none" /\ hw.blending = "premult" /\ hw.alpha /\ hw.plane < 255
  BY <1>1, <1>4 DEF AlphaMode, AlphaAsked
<1>5. CASE hw.blending # "none" /\ hw.blending = "premult" /\ hw.alpha /\ hw.plane = 255
  BY <1>1, <1>5 DEF AlphaMode, AlphaAsked
<1>6. CASE hw.blending # "none" /\ ~(hw.blending = "premult" /\ hw.alpha)
  BY <1>1, <1>6 DEF AlphaMode, AlphaAsked
<1> QED
  BY <1>1, <1>2, <1>3, <1>4, <1>5, <1>6

\* What the core is told of a layer with something below, and how bright it gets.
Told(hw, dims, set, plane) ==
    /\ set.opaque <=> hw.blending = "none"
    /\ \/ dims # <<>> /\ set.multiply /\ set.global = (plane * AlphaDim(dims)) \div 256
       \/ dims = <<>> /\ (IF set.multiply THEN set.global ELSE 255) = plane /\ set.global = plane
    /\ \/ set.opaque \/ hw.blending = "coverage"
       \/ set.mode = "off" /\ hw.alpha /\ plane = 255
       \/ set.mode = (IF hw.alpha THEN "scale" ELSE "on") /\ (set.global = plane \/ dims # <<>>)

LEMMA DimmedTold ==
    ASSUME NEW hw \in HwLayer, NEW dims \in Seq(0..254)
    PROVE  Told(hw, dims, DimmedAlpha(Generated(hw), dims), IF hw.blending = "none" THEN 255 ELSE hw.plane)
<1> DEFINE plane == IF hw.blending = "none" THEN 255 ELSE hw.plane
           al == AlphaMode(hw)
<1>1. AlphaAsked(hw, al, plane)
  BY AlphaModes
<1>2. Generated(hw).alpha = al
  BY DEF Generated
<1>3. al = [opaque |-> al.opaque, mode |-> al.mode, multiply |-> al.multiply, global |-> al.global]
  BY DEF AlphaMode
<1> SUFFICES Told(hw, dims, DimmedAlpha(Generated(hw), dims), plane)
  OBVIOUS
<1> HIDE DEF al, plane
<1>4. CASE dims = <<>>
  BY <1>1, <1>2, <1>4, Zenon DEF DimmedAlpha, Told, AlphaAsked
<1>5. CASE dims # <<>>
  <2> DEFINE set == DimmedAlpha(Generated(hw), dims)
             g == (al.global * AlphaDim(dims)) \div 256
  <2>1. set = [al EXCEPT !.multiply = TRUE, !.global = g]
    BY <1>2, <1>5, Zenon DEF DimmedAlpha
  <2> HIDE DEF g
  <2>2. /\ set.opaque <=> al.opaque
        /\ set.mode = al.mode /\ set.multiply /\ set.global = g
    <3> HIDE DEF set
    <3> QED
      BY <1>3, <2>1
  <2> HIDE DEF set
  <2>3. Told(hw, dims, set, plane)
    BY <1>1, <1>5, <2>2, Zenon DEF Told, AlphaAsked, g
  <2> QED
    BY <2>3 DEF set
<1> QED
  BY <1>4, <1>5

\* At the bottom only the blending is left out.
BlendedAbove(set, d, ground) ==
    /\ set.opaque <=> d.opaque \/ ground
    /\ set.mode = d.mode /\ (set.multiply <=> d.multiply) /\ set.global = d.global

LEMMA RegistersTold ==
    ASSUME NEW hw \in HwLayer, NEW dims, NEW ground \in BOOLEAN
    PROVE  BlendedAbove(Registers(Generated(hw), dims, ground), DimmedAlpha(Generated(hw), dims), ground)
<1> DEFINE al == AlphaMode(hw)
           d == DimmedAlpha(Generated(hw), dims)
<1>1. Generated(hw).alpha = al
  BY DEF Generated
<1>2. al = [opaque |-> al.opaque, mode |-> al.mode, multiply |-> al.multiply, global |-> al.global]
  BY DEF AlphaMode
<1> HIDE DEF al
<1>3. d = [opaque |-> d.opaque, mode |-> d.mode, multiply |-> d.multiply, global |-> d.global]
  BY <1>1, <1>2 DEF DimmedAlpha
<1> HIDE DEF d
<1>4. BlendedAbove([d EXCEPT !.opaque = @ \/ ground], d, ground)
  BY <1>3 DEF BlendedAbove
<1> QED
  BY <1>4, Zenon DEF Registers, d

\* "can easily 'premultiply' a (1 - alpha) value for each layers before this DIM
\* layer": a layer is as bright as its plane alpha and all DIM layers above it
\* leave it, with what >> 8 loses, for any number of DIM layers.
THEOREM LayersDimmedRight == BlitSpec => []DimmedRight
<1>1. BlitInv => DimmedRight
  <2> SUFFICES ASSUME BlitInv, stage = "done"
               PROVE  DimmedRight
    BY DEF DimmedRight
  <2> DEFINE hw == given.hw
             dims == given.dims
             dimmed == DimmedAlpha(Generated(hw), dims)
             set == blit.registers
             plane == IF hw.blending = "none" THEN 255 ELSE hw.plane
             color == IF set.multiply THEN set.global ELSE 255
             n == Len(dims)
             p == Light(dims)
             l == LightLeft(dims)
             a == AlphaDim(dims)
  <2>1. given \in [hw : HwLayer, dims : Seq(0..254), area : Rect, ground : BOOLEAN] /\ layer = Generated(hw)
    BY DEF BlitInv, BlitTypeOK
  <2>2. hw \in HwLayer /\ dims \in Seq(0..254) /\ plane \in 0..255
    BY <2>1 DEF HwLayer
  <2>3. set = Registers(Generated(hw), dims, given.ground)
    BY <2>1 DEF BlitInv, SingleRequest, SharedRequest, Request
  <2>4. Told(hw, dims, dimmed, plane)
    BY <2>2, DimmedTold
  <2>5. BlendedAbove(set, dimmed, given.ground)
    <3>1. given.ground \in BOOLEAN
      BY <2>1
    <3> QED
      BY <2>2, <2>3, <3>1, RegistersTold, Zenon
  <2>6. /\ set.opaque <=> hw.blending = "none" \/ given.ground
        /\ \/ dims # <<>> /\ set.multiply /\ set.global = (plane * AlphaDim(dims)) \div 256
           \/ dims = <<>> /\ (IF set.multiply THEN set.global ELSE 255) = plane /\ set.global = plane
        /\ \/ set.opaque \/ hw.blending = "coverage"
           \/ set.mode = "off" /\ hw.alpha /\ plane = 255
           \/ set.mode = (IF hw.alpha THEN "scale" ELSE "on") /\ (set.global = plane \/ dims # <<>>)
    <3> HIDE DEF set, plane, hw, dims, dimmed
    <3> QED
      BY <2>4, <2>5, Zenon DEF Told, BlendedAbove
  <2>7. DimsWithin(n, p, l, a) /\ n \in Nat
    BY <2>2, DimBounds
  <2>8. color * p \in (plane * l - 2 * (n + 1) * p)..(plane * l)
    <3>1. CASE dims # <<>>
      <4>1. color = (plane * a) \div 256
        BY <2>6, <3>1
      <4> HIDE DEF color, plane, n, p, l, a
      <4> QED
        BY <2>2, <2>7, <4>1, PlaneOfDims
    <3>2. CASE dims = <<>>
      <4>1. color = plane
        BY <2>6, <3>2
      <4>2. n = 0 /\ p = 1 /\ l = 1
        BY <3>2, NoDims
      <4> HIDE DEF color, plane, n, p, l
      <4> QED
        BY <2>2, <4>1, <4>2
    <3> QED
      BY <3>1, <3>2
  <2> QED
    BY <2>6, <2>8, Zenon DEF DimmedRight
<1> QED
  BY <1>1, AlwaysBlitInv, PTL

===============================================================================
