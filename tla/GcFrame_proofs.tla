----------------------------- MODULE GcFrame_proofs -----------------------------
(***************************************************************************)
(* Theorems about GcFrame, for any layers, any pool size and lists of any  *)
(* length.                                                                 *)
(***************************************************************************)
EXTENDS GcFrame, SequenceTheorems, WellFoundedInduction, TLAPS

----------------------------------------------------------------------------
(* The pool. *)

\* A pool has areas in use only if those before it are full.
Filled(nodes) ==
    \A k \in DOMAIN nodes : nodes[k] > 0 => \A j \in 1..(k - 1) : nodes[j] = PoolSize

\* The order of allocation.
Older(a, b) == a[1] < b[1] \/ (a[1] = b[1] /\ a[2] < b[2])

Ordered(areas) == \A i, j \in DOMAIN areas : i < j => Older(areas[i], areas[j])

\* A chain of pools holds the areas, in their order, and no other.
Holds(nodes, areas) ==
    /\ nodes \in Seq(0..PoolSize) /\ areas \in Seq(Node)
    /\ Filled(nodes) /\ Ordered(areas)
    /\ \A area \in Node : InUse(nodes, area) <=> \E i \in DOMAIN areas : areas[i] = area

Held == compositionArea \o swapArea

PoolInv ==
    /\ Holds(freeNodes, Held)
    /\ compositionArea = <<>> => swapArea = <<>>
    /\ pc = "split" => swapArea = <<>>

\* The layers and areas are those of the list once the stage that makes them
\* is passed, and from frame to frame while the flag is down.
LayersInv ==
    /\ pc \in {"areas", "split", "sources", "splitSwap", "compose"} => layers = types
    /\ pc \in {"split", "sources", "splitSwap", "compose"} => compositionArea # <<>>
    /\ pc = "layers" => geometryChanged
    /\ ~geometryChanged /\ hasComposition => layers = types /\ compositionArea # <<>>

IInv ==
    /\ TypeOK
    /\ DOMAIN types = DOMAIN list
    /\ LayersInv
    /\ DrawnOnce
    /\ PoolInv

----------------------------------------------------------------------------
(* Allocating and freeing. *)

LEMMA LeastNatural ==
    ASSUME NEW T \in SUBSET Nat, T # {}
    PROVE  \E x \in T : \A y \in T : x <= y
<1> DEFINE R == OpToRel(<, Nat)
<1>1. IsWellFoundedOn(R, Nat)
  BY NatLessThanWellFounded
<1>2. \A x, y \in Nat : <<y, x>> \in R <=> y < x
  BY DEF OpToRel
<1> HIDE DEF R
<1>3. PICK x \in T : \A y \in T : ~(<<y, x>> \in R)
  BY <1>1, WFMin
<1>4. \A y \in T : y \in Nat /\ x \in Nat /\ ~(y < x)
  BY <1>2, <1>3
<1>5. \A y \in T : x <= y
  BY <1>4
<1> QED
  BY <1>5

\* All pools before the one with room are full, all behind it empty.
LEMMA RoomShape ==
    ASSUME NEW nodes \in Seq(0..PoolSize), Filled(nodes)
    PROVE  /\ PoolWithRoom(nodes) \in 1..(Len(nodes) + 1)
           /\ \A j \in 1..(PoolWithRoom(nodes) - 1) : nodes[j] = PoolSize
           /\ \A j \in DOMAIN nodes : j > PoolWithRoom(nodes) => nodes[j] = 0
           /\ PoolWithRoom(nodes) \in DOMAIN nodes => nodes[PoolWithRoom(nodes)] < PoolSize
<1> DEFINE roomy == {k \in DOMAIN nodes : nodes[k] < PoolSize}
           p == PoolWithRoom(nodes)
<1>1. /\ Len(nodes) \in Nat /\ DOMAIN nodes = 1..Len(nodes)
      /\ \A j \in 1..Len(nodes) : nodes[j] \in 0..PoolSize
      /\ PoolSize \in Nat \ {0}
  BY LenProperties, FrameAssumption
<1>2. CASE roomy = {}
  <2>1. p = Len(nodes) + 1
    BY <1>2 DEF PoolWithRoom
  <2>2. \A j \in 1..Len(nodes) : nodes[j] = PoolSize
    BY <1>1, <1>2
  <2> QED
    BY <1>1, <2>1, <2>2
<1>3. CASE roomy # {}
  <2>1. \E k \in roomy : \A j \in roomy : k <= j
    <3>1. roomy \in SUBSET Nat
      BY <1>1
    <3> HIDE DEF roomy
    <3> QED
      BY <1>3, <3>1, LeastNatural
  <2>2. p = CHOOSE k \in roomy : \A j \in roomy : k <= j
    BY <1>3 DEF PoolWithRoom
  <2>3. p \in roomy /\ \A j \in roomy : p <= j
    BY <2>1, <2>2
  <2> HIDE DEF p
  <2>4. \A j \in 1..(p - 1) : nodes[j] = PoolSize
    BY <1>1, <2>3
  <2>5. ASSUME NEW j \in DOMAIN nodes, j > p
        PROVE  nodes[j] = 0
    BY <1>1, <2>3, <2>5 DEF Filled
  <2> QED
    BY <1>1, <2>3, <2>4, <2>5 DEF p
<1> QED
  BY <1>2, <1>3

\* Allocation fills the chain by one area, the youngest.
LEMMA Allocate ==
    ASSUME NEW nodes \in Seq(0..PoolSize), Filled(nodes)
    PROVE  /\ AfterAllocate(nodes) \in Seq(0..PoolSize) /\ Filled(AfterAllocate(nodes))
           /\ AllocatedArea(nodes) \in Node
           /\ \A area \in Node :
                /\ InUse(nodes, area) => Older(area, AllocatedArea(nodes))
                /\ InUse(AfterAllocate(nodes), area)
                     <=> InUse(nodes, area) \/ area = AllocatedArea(nodes)
<1> DEFINE p == PoolWithRoom(nodes)
           a == AllocatedArea(nodes)
           after == AfterAllocate(nodes)
<1>1. /\ Len(nodes) \in Nat /\ DOMAIN nodes = 1..Len(nodes)
      /\ \A j \in 1..Len(nodes) : nodes[j] \in 0..PoolSize
      /\ PoolSize \in Nat \ {0}
  BY LenProperties, FrameAssumption
<1>2. /\ p \in 1..(Len(nodes) + 1)
      /\ \A j \in 1..(p - 1) : nodes[j] = PoolSize
      /\ \A j \in DOMAIN nodes : j > p => nodes[j] = 0
      /\ p \in DOMAIN nodes => nodes[p] < PoolSize
  BY RoomShape
<1>3. a = <<p, IF p \in DOMAIN nodes THEN nodes[p] ELSE 0>>
  BY DEF AllocatedArea
<1>4. after = IF p \in DOMAIN nodes THEN [nodes EXCEPT ![p] = @ + 1] ELSE Append(nodes, 1)
  BY DEF AfterAllocate
<1> HIDE DEF p, a, after
<1>5. a \in Node /\ a[1] = p /\ a[2] = IF p \in DOMAIN nodes THEN nodes[p] ELSE 0
  BY <1>1, <1>2, <1>3 DEF Node
<1>6. /\ after \in Seq(0..PoolSize)
      /\ Len(after) = IF p \in DOMAIN nodes THEN Len(nodes) ELSE Len(nodes) + 1
      /\ DOMAIN after = 1..Len(after) /\ p \in DOMAIN after /\ after[p] = a[2] + 1
      /\ \A j \in DOMAIN after : j # p => j \in DOMAIN nodes /\ after[j] = nodes[j]
  <2>1. CASE p \in DOMAIN nodes
    <3>1. nodes[p] + 1 \in 0..PoolSize
      BY <1>1, <1>2, <2>1
    <3>2. after = [nodes EXCEPT ![p] = nodes[p] + 1]
      BY <1>4, <2>1
    <3>3. /\ after \in Seq(0..PoolSize) /\ Len(after) = Len(nodes)
          /\ \A j \in 1..Len(nodes) : after[j] = IF j = p THEN nodes[p] + 1 ELSE nodes[j]
      BY <1>1, <2>1, <3>1, <3>2, ExceptSeq
    <3>4. DOMAIN after = 1..Len(nodes)
      BY <3>3, LenProperties
    <3> QED
      BY <1>1, <1>5, <2>1, <3>3, <3>4
  <2>2. CASE p \notin DOMAIN nodes
    <3>1. p = Len(nodes) + 1 /\ 1 \in 0..PoolSize
      BY <1>1, <1>2, <2>2
    <3>2. /\ after \in Seq(0..PoolSize) /\ Len(after) = Len(nodes) + 1
          /\ DOMAIN after = 1..(Len(nodes) + 1)
          /\ \A j \in 1..(Len(nodes) + 1) : after[j] = IF j = p THEN 1 ELSE nodes[j]
      <4>1. after = Append(nodes, 1)
        BY <1>4, <2>2
      <4>2. /\ after \in Seq(0..PoolSize) /\ Len(after) = Len(nodes) + 1
            /\ \A j \in 1..Len(nodes) : after[j] = nodes[j]
            /\ after[Len(nodes) + 1] = 1
        BY <3>1, <4>1, AppendProperties
      <4>3. DOMAIN after = 1..(Len(nodes) + 1)
        BY <4>2, LenProperties
      <4> QED
        BY <1>1, <3>1, <4>2, <4>3
    <3> QED
      BY <1>1, <1>5, <2>2, <3>1, <3>2
  <2> QED
    BY <2>1, <2>2
<1>7. Filled(after)
  <2> SUFFICES ASSUME NEW k \in DOMAIN after, after[k] > 0, NEW j \in 1..(k - 1)
               PROVE  after[j] = PoolSize
    BY DEF Filled
  <2>1. k \in Nat /\ p \in Nat /\ k <= Len(after) /\ Len(after) \in Nat
    <3>1. Len(after) \in Nat /\ DOMAIN after = 1..Len(after)
      BY <1>6, LenProperties
    <3> QED
      BY <1>1, <1>2, <3>1
  <2>2. k <= p
    <3>1. CASE k = p
      BY <2>1, <3>1
    <3>2. CASE k # p
      <4>1. k \in DOMAIN nodes /\ nodes[k] > 0
        BY <1>6, <3>2
      <4> QED
        BY <1>2, <2>1, <4>1
    <3> QED
      BY <3>1, <3>2
  <2>3. j \in 1..(p - 1) /\ j # p /\ j \in 1..Len(after)
    BY <2>1, <2>2
  <2> QED
    BY <1>2, <1>6, <2>3
<1>8. ASSUME NEW area \in Node
      PROVE  /\ InUse(nodes, area) => Older(area, a)
             /\ InUse(after, area) <=> InUse(nodes, area) \/ area = a
  <2>1. PICK k \in Nat \ {0}, n \in 0..(PoolSize - 1) : area = <<k, n>>
    BY DEF Node
  <2>2. InUse(nodes, area) <=> k \in DOMAIN nodes /\ n < nodes[k]
    BY <2>1 DEF InUse
  <2>3. InUse(after, area) <=> k \in DOMAIN after /\ n < after[k]
    BY <2>1 DEF InUse
  <2>4. area = a <=> k = p /\ n = a[2]
    BY <1>3, <1>5, <2>1
  <2>5. Older(area, a) <=> k < p \/ (k = p /\ n < a[2])
    BY <1>5, <2>1 DEF Older
  <2>6. InUse(nodes, area) => Older(area, a)
    BY <1>1, <1>2, <1>5, <2>2, <2>5
  <2>7. CASE k = p
    <3>1. a[2] \in Nat
      BY <1>5 DEF Node
    <3> QED
      BY <1>1, <1>2, <1>5, <1>6, <2>2, <2>3, <2>4, <2>6, <2>7, <3>1
  <2>8. CASE k # p
    <3>1. k \in DOMAIN after <=> k \in DOMAIN nodes
      BY <1>1, <1>2, <1>6, <2>8
    <3> QED
      BY <1>6, <2>2, <2>3, <2>4, <2>6, <2>8, <3>1
  <2> QED
    BY <2>7, <2>8
<1> QED
  BY <1>5, <1>6, <1>7, <1>8 DEF a, after

\* Freeing from an area in use on keeps what is older than it.
LEMMA Free ==
    ASSUME NEW nodes \in Seq(0..PoolSize), Filled(nodes), NEW head \in Node, InUse(nodes, head)
    PROVE  /\ AfterFree(nodes, head) \in Seq(0..PoolSize) /\ Filled(AfterFree(nodes, head))
           /\ \A area \in Node :
                InUse(AfterFree(nodes, head), area) <=> InUse(nodes, area) /\ Older(area, head)
<1> DEFINE after == AfterFree(nodes, head)
<1>1. /\ Len(nodes) \in Nat /\ DOMAIN nodes = 1..Len(nodes)
      /\ \A j \in 1..Len(nodes) : nodes[j] \in 0..PoolSize
      /\ PoolSize \in Nat \ {0}
  BY LenProperties, FrameAssumption
<1>2. PICK h \in Nat \ {0}, m \in 0..(PoolSize - 1) : head = <<h, m>>
  BY DEF Node
<1>3. h \in DOMAIN nodes /\ m < nodes[h] /\ head[1] = h /\ head[2] = m
  BY <1>2 DEF InUse
<1>4. \A j \in 1..(h - 1) : nodes[j] = PoolSize
  BY <1>1, <1>3 DEF Filled
<1>5. after = [k \in DOMAIN nodes |-> IF k < h THEN nodes[k] ELSE IF k = h THEN m ELSE 0]
  BY <1>3, <1>4 DEF AfterFree
<1> HIDE DEF after
<1>6. after \in Seq(0..PoolSize) /\ DOMAIN after = DOMAIN nodes
  <2>1. after \in [1..Len(nodes) -> 0..PoolSize]
    BY <1>1, <1>5
  <2> QED
    BY <1>1, <2>1
<1>7. Filled(after)
  BY <1>1, <1>3, <1>4, <1>5 DEF Filled
<1>8. ASSUME NEW area \in Node
      PROVE  InUse(after, area) <=> InUse(nodes, area) /\ Older(area, head)
  <2>1. PICK k \in Nat \ {0}, n \in 0..(PoolSize - 1) : area = <<k, n>>
    BY DEF Node
  <2>2. InUse(nodes, area) <=> k \in DOMAIN nodes /\ n < nodes[k]
    BY <2>1 DEF InUse
  <2>3. InUse(after, area) <=> k \in DOMAIN nodes /\ n < after[k]
    BY <1>6, <2>1 DEF InUse
  <2>4. Older(area, head) <=> k < h \/ (k = h /\ n < m)
    BY <1>3, <2>1 DEF Older
  <2> QED
    BY <1>1, <1>3, <1>5, <2>2, <2>3, <2>4
<1> QED
  BY <1>6, <1>7, <1>8 DEF after

\* The youngest area goes to the end of what is held.
LEMMA HoldsMore ==
    ASSUME NEW nodes, NEW areas, Holds(nodes, areas)
    PROVE  /\ Holds(AfterAllocate(nodes), Append(areas, AllocatedArea(nodes)))
           /\ AllocatedArea(nodes) \in Node
<1> DEFINE a == AllocatedArea(nodes)
           more == Append(areas, a)
<1>1. nodes \in Seq(0..PoolSize) /\ Filled(nodes) /\ areas \in Seq(Node) /\ Ordered(areas)
  BY DEF Holds
<1>2. /\ AfterAllocate(nodes) \in Seq(0..PoolSize) /\ Filled(AfterAllocate(nodes)) /\ a \in Node
      /\ \A area \in Node :
            /\ InUse(nodes, area) => Older(area, a)
            /\ InUse(AfterAllocate(nodes), area) <=> InUse(nodes, area) \/ area = a
  BY <1>1, Allocate
<1>3. \A area \in Node : InUse(nodes, area) <=> \E i \in DOMAIN areas : areas[i] = area
  BY DEF Holds
<1> HIDE DEF a
<1>4. /\ more \in Seq(Node) /\ Len(more) = Len(areas) + 1
      /\ \A i \in 1..Len(areas) : more[i] = areas[i]
      /\ more[Len(areas) + 1] = a
  BY <1>1, <1>2, AppendProperties
<1> HIDE DEF more
<1>5. /\ Len(areas) \in Nat /\ DOMAIN areas = 1..Len(areas)
      /\ DOMAIN more = 1..(Len(areas) + 1)
      /\ \A i \in 1..Len(areas) : areas[i] \in Node
  BY <1>1, <1>4, LenProperties
<1>6. Ordered(more)
  <2> SUFFICES ASSUME NEW i \in DOMAIN more, NEW j \in DOMAIN more, i < j
               PROVE  Older(more[i], more[j])
    BY DEF Ordered
  <2>1. i \in 1..Len(areas) /\ more[i] = areas[i]
    BY <1>4, <1>5
  <2>2. CASE j \in 1..Len(areas)
    BY <1>1, <1>4, <1>5, <2>1, <2>2 DEF Ordered
  <2>3. CASE j = Len(areas) + 1
    BY <1>2, <1>3, <1>4, <1>5, <2>1, <2>3
  <2> QED
    BY <1>5, <2>2, <2>3
<1>7. ASSUME NEW area \in Node
      PROVE  InUse(AfterAllocate(nodes), area) <=> \E i \in DOMAIN more : more[i] = area
  BY <1>2, <1>3, <1>4, <1>5
<1> QED
  BY <1>2, <1>4, <1>6, <1>7 DEF Holds, more, a

\* Freeing from one of the areas on keeps those before it.
LEMMA HoldsOlder ==
    ASSUME NEW nodes, NEW areas, Holds(nodes, areas), NEW n \in Nat, n < Len(areas)
    PROVE  Holds(AfterFree(nodes, areas[n + 1]), SubSeq(areas, 1, n))
<1> DEFINE head == areas[n + 1]
           kept == SubSeq(areas, 1, n)
<1>1. nodes \in Seq(0..PoolSize) /\ Filled(nodes) /\ areas \in Seq(Node) /\ Ordered(areas)
  BY DEF Holds
<1>2. \A area \in Node : InUse(nodes, area) <=> \E i \in DOMAIN areas : areas[i] = area
  BY DEF Holds
<1>3. /\ Len(areas) \in Nat /\ DOMAIN areas = 1..Len(areas)
      /\ \A i \in 1..Len(areas) : areas[i] \in Node
  BY <1>1, LenProperties
<1>4. head \in Node /\ InUse(nodes, head)
  BY <1>2, <1>3
<1>5. /\ AfterFree(nodes, head) \in Seq(0..PoolSize) /\ Filled(AfterFree(nodes, head))
      /\ \A area \in Node :
            InUse(AfterFree(nodes, head), area) <=> InUse(nodes, area) /\ Older(area, head)
  BY <1>1, <1>4, Free
<1>6. /\ kept \in Seq(Node) /\ Len(kept) = n
      /\ \A i \in 1..n : kept[i] = areas[i]
  BY <1>3, SubSeqProperties
<1> HIDE DEF kept
<1>7. DOMAIN kept = 1..n
  BY <1>6, LenProperties
<1>8. Ordered(kept)
  BY <1>1, <1>3, <1>6, <1>7 DEF Ordered
<1>9. \A i \in 1..Len(areas) : Older(areas[i], head) <=> i \in 1..n
  <2> SUFFICES ASSUME NEW i \in 1..Len(areas)
               PROVE  Older(areas[i], head) <=> i \in 1..n
    OBVIOUS
  <2>1. i <= n => Older(areas[i], head)
    BY <1>1, <1>3 DEF Ordered
  <2>2. n + 1 < i => Older(head, areas[i])
    BY <1>1, <1>3 DEF Ordered
  <2>3. areas[i] \in Node /\ head \in Node
    BY <1>3, <1>4
  <2>4. \A a, b \in Node : ~(Older(a, b) /\ Older(b, a)) /\ ~Older(a, a)
    BY FrameAssumption DEF Older, Node
  <2> QED
    BY <2>1, <2>2, <2>3, <2>4
<1> HIDE DEF head
<1>10. ASSUME NEW area \in Node
       PROVE  InUse(AfterFree(nodes, head), area) <=> \E i \in DOMAIN kept : kept[i] = area
  <2>1. InUse(AfterFree(nodes, head), area)
            <=> \E i \in 1..Len(areas) : areas[i] = area /\ Older(areas[i], head)
    BY <1>2, <1>3, <1>5
  <2> QED
    BY <1>3, <1>6, <1>7, <1>9, <2>1
<1> QED
  BY <1>5, <1>6, <1>8, <1>10 DEF Holds, kept, head

----------------------------------------------------------------------------
(* The steps of hwc_prepare and hwc_set keep the pool in order. *)

LEMMA ListTypes ==
    ASSUME TypeOK
    PROVE  /\ compositionArea \in Seq(Node) /\ Len(compositionArea) \in Nat
           /\ DOMAIN compositionArea = 1..Len(compositionArea)
           /\ swapArea \in Seq(Node) /\ Len(swapArea) \in Nat
           /\ DOMAIN swapArea = 1..Len(swapArea)
           /\ Len(compositionArea) = 0 <=> compositionArea = <<>>
           /\ Len(swapArea) = 0 <=> swapArea = <<>>
  BY LenProperties, EmptySeq DEF TypeOK

\* Freeing the composition areas frees all.
LEMMA CompositionFreed ==
    ASSUME TypeOK, PoolInv
    PROVE  Holds(FreedList(freeNodes, compositionArea), <<>>)
<1> USE ListTypes
<1>1. CASE compositionArea = <<>>
  <2>1. Held = <<>>
    BY <1>1, ConcatEmptySeq DEF PoolInv, Held
  <2> QED
    BY <1>1, <2>1 DEF PoolInv, FreedList
<1>2. CASE compositionArea # <<>>
  <2>1. /\ Held \in Seq(Node) /\ Len(Held) = Len(compositionArea) + Len(swapArea)
        /\ Held[1] = compositionArea[1]
    BY <1>2, ConcatProperties DEF Held
  <2>2. Holds(AfterFree(freeNodes, Held[0 + 1]), SubSeq(Held, 1, 0))
    <3>1. 0 \in Nat /\ 0 < Len(Held)
      BY <1>2, <2>1
    <3> QED
      BY <3>1, HoldsOlder DEF PoolInv
  <2>3. SubSeq(Held, 1, 0) = <<>>
    BY SubSeqEmpty
  <2>4. Head(compositionArea) = Held[0 + 1]
    BY <1>2, <2>1
  <2> QED
    BY <1>2, <2>2, <2>3, <2>4 DEF FreedList
<1> QED
  BY <1>1, <1>2

\* Freeing the swap areas leaves the composition areas.
LEMMA SwapFreed ==
    ASSUME TypeOK, PoolInv
    PROVE  Holds(FreedList(freeNodes, swapArea), compositionArea)
<1> USE ListTypes
<1>1. CASE swapArea = <<>>
  <2>1. Held = compositionArea
    BY <1>1, ConcatEmptySeq DEF Held
  <2> QED
    BY <1>1, <2>1 DEF PoolInv, FreedList
<1>2. CASE swapArea # <<>>
  <2> DEFINE n == Len(compositionArea)
  <2>1. /\ Held \in Seq(Node) /\ Len(Held) = n + Len(swapArea)
        /\ \A i \in 1..(n + Len(swapArea)) :
              Held[i] = IF i <= n THEN compositionArea[i] ELSE swapArea[i - n]
    BY ConcatProperties DEF Held
  <2>2. n \in Nat /\ n < Len(Held) /\ Held[n + 1] = swapArea[1]
    BY <1>2, <2>1
  <2>3. Holds(AfterFree(freeNodes, Held[n + 1]), SubSeq(Held, 1, n))
    BY <2>2, HoldsOlder DEF PoolInv
  <2>4. SubSeq(Held, 1, n) = compositionArea
    <3>1. /\ SubSeq(Held, 1, n) \in Seq(Node) /\ Len(SubSeq(Held, 1, n)) = n
          /\ \A i \in 1..n : SubSeq(Held, 1, n)[i] = Held[i]
      <4>1. \A i \in 1..n : Held[i] \in Node
        BY <2>1, <2>2, ElementOfSeq
      <4> QED
        BY <2>2, <4>1, SubSeqProperties
    <3>2. \A i \in 1..n : SubSeq(Held, 1, n)[i] = compositionArea[i]
      BY <2>1, <3>1
    <3> QED
      BY <3>1, <3>2, SeqEqual
  <2>5. Head(swapArea) = Held[n + 1]
    BY <1>2, <2>2
  <2> QED
    BY <1>2, <2>3, <2>4, <2>5 DEF FreedList
<1> QED
  BY <1>1, <1>2

LEMMA AppendToConcat ==
    ASSUME NEW S, NEW u \in Seq(S), NEW v \in Seq(S), NEW x \in S
    PROVE  Append(u \o v, x) = u \o Append(v, x)
<1>1. /\ u \o v \in Seq(S) /\ <<x>> \in Seq(S)
      /\ Append(u \o v, x) = (u \o v) \o <<x>> /\ Append(v, x) = v \o <<x>>
  BY ConcatProperties, AppendIsConcat
<1> QED
  BY <1>1, ConcatAssociative

LEMMA PoolKept ==
    ASSUME TypeOK, PoolInv, LayersInv, [Next]_vars
    PROVE  PoolInv'
<1> USE ListTypes
<1>1. CASE UNCHANGED pool /\ (pc' = "split" => pc = "split")
  BY <1>1 DEF PoolInv, Held, pool
<1>2. CASE ResetAreas
  <2> DEFINE nodes == FreedList(freeNodes, compositionArea)
  <2>1. Holds(nodes, <<>>)
    BY CompositionFreed
  <2>2. /\ compositionArea' = <<AllocatedArea(nodes)>> /\ swapArea' = <<>>
        /\ freeNodes' = AfterAllocate(nodes)
    BY <1>2 DEF ResetAreas
  <2> HIDE DEF nodes
  <2>3. /\ Holds(AfterAllocate(nodes), Append(<<>>, AllocatedArea(nodes)))
        /\ AllocatedArea(nodes) \in Node
    BY <2>1, HoldsMore
  <2>4. Held' = Append(<<>>, AllocatedArea(nodes))
    <3>1. <<AllocatedArea(nodes)>> \in Seq(Node)
      BY <2>3
    <3>2. <<AllocatedArea(nodes)>> \o <<>> = <<AllocatedArea(nodes)>>
      BY <3>1, ConcatEmptySeq
    <3> QED
      BY <2>2, <3>2 DEF Held
  <2> QED
    BY <2>2, <2>3, <2>4 DEF PoolInv
<1>3. CASE SplitComposition
  <2> DEFINE a == AllocatedArea(freeNodes)
  <2>1. /\ pc' = pc /\ pc = "split" /\ swapArea' = swapArea
        /\ compositionArea' = Append(compositionArea, a)
        /\ freeNodes' = AfterAllocate(freeNodes)
    BY <1>3 DEF SplitComposition
  <2>2. swapArea = <<>>
    BY <2>1 DEF PoolInv
  <2>3. Held = compositionArea
    BY <2>2, ConcatEmptySeq DEF Held
  <2>4. Holds(AfterAllocate(freeNodes), Append(compositionArea, a)) /\ a \in Node
    BY <2>3, HoldsMore DEF PoolInv
  <2>5. Held' = Append(compositionArea, a)
    <3>1. Append(compositionArea, a) \in Seq(Node)
      BY <2>4, AppendProperties
    <3> QED
      BY <2>1, <2>2, <3>1, ConcatEmptySeq DEF Held
  <2> QED
    BY <2>1, <2>2, <2>4, <2>5 DEF PoolInv
<1>4. ASSUME NEW partial \in BOOLEAN, UpdateSources(partial)
      PROVE  PoolInv'
  <2> DEFINE nodes == FreedList(freeNodes, swapArea)
  <2>1. Holds(nodes, compositionArea)
    BY SwapFreed
  <2>2. compositionArea # <<>> /\ pc' # "split" /\ compositionArea' = compositionArea
    BY <1>4 DEF UpdateSources, Stage, LayersInv
  <2>3. CASE partial
    <3> DEFINE a == AllocatedArea(nodes)
    <3>1. swapArea' = <<a>> /\ freeNodes' = AfterAllocate(nodes)
      BY <1>4, <2>3 DEF UpdateSources
    <3>2. Holds(AfterAllocate(nodes), Append(compositionArea, a)) /\ a \in Node
      BY <2>1, HoldsMore
    <3>3. Held' = Append(compositionArea, a)
      BY <2>2, <3>1, <3>2, AppendIsConcat DEF Held
    <3> QED
      BY <2>2, <3>1, <3>2, <3>3 DEF PoolInv
  <2>4. CASE ~partial
    <3>1. swapArea' = <<>> /\ freeNodes' = nodes
      BY <1>4, <2>4 DEF UpdateSources
    <3>2. Held' = compositionArea
      BY <2>2, <3>1, ConcatEmptySeq DEF Held
    <3> QED
      BY <2>1, <2>2, <3>1, <3>2 DEF PoolInv
  <2> QED
    BY <2>3, <2>4
<1>5. CASE SplitSwap
  <2> DEFINE a == AllocatedArea(freeNodes)
  <2>1. /\ pc' = pc /\ pc = "splitSwap" /\ compositionArea' = compositionArea
        /\ swapArea' = Append(swapArea, a)
        /\ freeNodes' = AfterAllocate(freeNodes)
    BY <1>5 DEF SplitSwap
  <2>2. Holds(AfterAllocate(freeNodes), Append(Held, a)) /\ a \in Node
    BY HoldsMore DEF PoolInv
  <2>3. Held' = Append(Held, a)
    BY <2>1, <2>2, AppendToConcat DEF Held
  <2>4. compositionArea # <<>>
    BY <2>1 DEF LayersInv
  <2> QED
    BY <2>1, <2>2, <2>3, <2>4 DEF PoolInv
<1>6. CASE \E new \in NewList : Prepare(new)
  BY <1>1, <1>6 DEF Prepare
<1>7. CASE Set3D \/ Set2D
  BY <1>1, <1>7 DEF Set3D, Set2D, Stage
<1>8. CASE GenerateLayers \/ GenerateFails
  BY <1>1, <1>8 DEF GenerateLayers, GenerateFails, Stage
<1>9. CASE SplitDone \/ SplitSwapDone \/ Compose \/ SwapBuffers
  BY <1>1, <1>9 DEF SplitDone, SplitSwapDone, Compose, SwapBuffers, Stage
<1>10. CASE UNCHANGED vars
  BY <1>1, <1>10 DEF vars
<1> QED
  BY <1>2, <1>3, <1>4, <1>5, <1>6, <1>7, <1>8, <1>9, <1>10 DEF Next

----------------------------------------------------------------------------
(* Types. *)

LEMMA AreasTyped ==
    ASSUME TypeOK, PoolInv, [Next]_vars
    PROVE  compositionArea' \in Seq(Node) /\ swapArea' \in Seq(Node)
<1>1. compositionArea \in Seq(Node) /\ swapArea \in Seq(Node)
  BY DEF TypeOK
<1>2. CASE UNCHANGED <<compositionArea, swapArea>>
  BY <1>1, <1>2
<1>3. CASE ResetAreas
  <2>1. AllocatedArea(FreedList(freeNodes, compositionArea)) \in Node
    BY CompositionFreed, HoldsMore
  <2> QED
    BY <1>3, <2>1, EmptySeq DEF ResetAreas
<1>4. CASE SplitComposition \/ SplitSwap
  <2>1. AllocatedArea(freeNodes) \in Node
    BY HoldsMore DEF PoolInv
  <2>2. /\ Append(compositionArea, AllocatedArea(freeNodes)) \in Seq(Node)
        /\ Append(swapArea, AllocatedArea(freeNodes)) \in Seq(Node)
    BY <1>1, <2>1, AppendProperties
  <2> QED
    BY <1>1, <1>4, <2>2 DEF SplitComposition, SplitSwap
<1>5. ASSUME NEW partial \in BOOLEAN, UpdateSources(partial)
      PROVE  compositionArea' \in Seq(Node) /\ swapArea' \in Seq(Node)
  <2>1. AllocatedArea(FreedList(freeNodes, swapArea)) \in Node
    BY SwapFreed, HoldsMore
  <2>2. compositionArea' = compositionArea
    BY <1>5 DEF UpdateSources
  <2>3. swapArea' = <<AllocatedArea(FreedList(freeNodes, swapArea))>> \/ swapArea' = <<>>
    BY <1>5 DEF UpdateSources
  <2>4. <<AllocatedArea(FreedList(freeNodes, swapArea))>> \in Seq(Node) /\ <<>> \in Seq(Node)
    BY <2>1, EmptySeq
  <2> QED
    BY <1>1, <2>2, <2>3, <2>4, Zenon
<1>6. CASE \E new \in NewList : Prepare(new)
  BY <1>2, <1>6 DEF Prepare, pool
<1>7. CASE Set3D \/ Set2D
  BY <1>2, <1>7 DEF Set3D, Set2D, pool
<1>8. CASE GenerateLayers \/ GenerateFails
  BY <1>2, <1>8 DEF GenerateLayers, GenerateFails, pool
<1>9. CASE SplitDone \/ SplitSwapDone \/ Compose \/ SwapBuffers
  BY <1>2, <1>9 DEF SplitDone, SplitSwapDone, Compose, SwapBuffers, pool
<1>10. CASE UNCHANGED vars
  BY <1>2, <1>10 DEF vars, pool
<1> QED
  BY <1>3, <1>4, <1>5, <1>6, <1>7, <1>8, <1>9, <1>10 DEF Next

LEMMA FlagsTyped ==
    ASSUME TypeOK, [Next]_vars
    PROVE  /\ geometryChanged' \in BOOLEAN /\ hasComposition' \in BOOLEAN
           /\ hasDim' \in BOOLEAN /\ hasOverlay' \in BOOLEAN
<1>1. CASE UNCHANGED flags
  BY <1>1, Zenon DEF TypeOK, flags
<1>2. ASSUME NEW new \in NewList, Prepare(new)
      PROVE  /\ geometryChanged' \in BOOLEAN /\ hasComposition' \in BOOLEAN
             /\ hasDim' \in BOOLEAN /\ hasOverlay' \in BOOLEAN
  BY <1>2, Zenon DEF Prepare
<1>3. ASSUME NEW partial \in BOOLEAN, UpdateSources(partial)
      PROVE  /\ geometryChanged' \in BOOLEAN /\ hasComposition' \in BOOLEAN
             /\ hasDim' \in BOOLEAN /\ hasOverlay' \in BOOLEAN
  BY <1>3, Zenon DEF UpdateSources, TypeOK
<1>4. CASE Set3D \/ Set2D \/ GenerateLayers \/ GenerateFails
  BY <1>1, <1>4, Zenon DEF Set3D, Set2D, GenerateLayers, GenerateFails
<1>5. CASE ResetAreas \/ SplitComposition \/ SplitDone
  BY <1>1, <1>5, Zenon DEF ResetAreas, SplitComposition, SplitDone
<1>6. CASE SplitSwap \/ SplitSwapDone \/ Compose \/ SwapBuffers
  BY <1>1, <1>6, Zenon DEF SplitSwap, SplitSwapDone, Compose, SwapBuffers
<1>7. CASE UNCHANGED vars
  BY <1>1, <1>7, Zenon DEF vars
<1> QED
  BY <1>2, <1>3, <1>4, <1>5, <1>6, <1>7, Zenon DEF Next

\* What a new list looks like after hwc_prepare.
LEMMA PrepareTypes ==
    ASSUME NEW new \in NewList, Prepare(new)
    PROVE  /\ new \in Seq(Layer) /\ list' = new
           /\ types' \in Seq(CompositionType) /\ DOMAIN types' = DOMAIN new
           /\ clearFb' \subseteq DOMAIN new
<1>1. PICK n \in 1..MaxLayers : new \in [1..n -> Layer]
  BY Zenon DEF NewList
<1>2. n \in Nat
  BY <1>1, FrameAssumption
<1>3. \A i \in 1..n : Classified(new[i]) \in CompositionType
  BY Zenon DEF Classified, CompositionType
<1>4. types' \in [1..n -> CompositionType]
  BY <1>1, <1>3, "FRAMEBUFFER" \in CompositionType DEF Prepare, CompositionType
<1>5. new \in Seq(Layer) /\ types' \in Seq(CompositionType)
  BY <1>1, <1>2, <1>4
<1>6. clearFb' \subseteq DOMAIN new
  BY DEF Prepare
<1>7. list' = new /\ DOMAIN types' = DOMAIN new
  BY <1>1, <1>4 DEF Prepare
<1> QED
  BY <1>5, <1>6, <1>7

\* The layers hwc_set generates, all of them or up to the bad one.
LEMMA LayersTyped ==
    ASSUME TypeOK, DOMAIN types = DOMAIN list, [Next]_vars
    PROVE  layers' \in Seq(CompositionType \union {"stale"})
<1> DEFINE Kept == CompositionType \union {"stale"}
<1>1. /\ Len(list) \in Nat /\ DOMAIN list = 1..Len(list)
      /\ \A i \in DOMAIN list : types[i] \in CompositionType
      /\ DOMAIN layers = 1..Len(layers) /\ \A i \in DOMAIN layers : layers[i] \in Kept
      /\ types \in Seq(Kept) /\ layers \in Seq(Kept)
  BY LenProperties, SeqMonotonic DEF TypeOK
<1>2. CASE UNCHANGED layers
  BY <1>1, <1>2
<1>3. CASE GenerateLayers
  BY <1>1, <1>3 DEF GenerateLayers
<1>4. CASE GenerateFails
  <2>1. PICK i \in DOMAIN list :
          layers' = [j \in DOMAIN list |->
            IF j <= i THEN types[j] ELSE IF j \in DOMAIN layers THEN layers[j] ELSE "stale"]
    BY <1>4 DEF GenerateFails
  <2>2. layers' \in [1..Len(list) -> Kept]
    BY <1>1, <2>1
  <2> QED
    BY <1>1, <2>2
<1>5. CASE \E new \in NewList : Prepare(new)
  BY <1>2, <1>5 DEF Prepare
<1>6. CASE Set3D \/ Set2D
  BY <1>2, <1>6 DEF Set3D, Set2D
<1>7. CASE ResetAreas \/ SplitComposition \/ SplitDone
  BY <1>2, <1>7 DEF ResetAreas, SplitComposition, SplitDone
<1>8. CASE \E partial \in BOOLEAN : UpdateSources(partial)
  BY <1>2, <1>8 DEF UpdateSources
<1>9. CASE SplitSwap \/ SplitSwapDone \/ Compose \/ SwapBuffers
  BY <1>2, <1>9 DEF SplitSwap, SplitSwapDone, Compose, SwapBuffers
<1>10. CASE UNCHANGED vars
  BY <1>2, <1>10 DEF vars
<1> QED
  BY <1>3, <1>4, <1>5, <1>6, <1>7, <1>8, <1>9, <1>10 DEF Next

\* Only hwc_prepare touches the list.
LEMMA ListKept ==
    ASSUME [Next]_vars, \A new \in NewList : ~Prepare(new)
    PROVE  UNCHANGED <<listVars, hasComposition>>
<1>1. CASE Set3D \/ Set2D \/ GenerateLayers \/ GenerateFails
  BY <1>1 DEF Set3D, Set2D, GenerateLayers, GenerateFails, flags
<1>2. CASE ResetAreas \/ SplitComposition \/ SplitDone
  BY <1>2 DEF ResetAreas, SplitComposition, SplitDone, flags
<1>3. CASE \E partial \in BOOLEAN : UpdateSources(partial)
  BY <1>3 DEF UpdateSources
<1>4. CASE SplitSwap \/ SplitSwapDone \/ Compose \/ SwapBuffers
  BY <1>4 DEF SplitSwap, SplitSwapDone, Compose, SwapBuffers, flags
<1>5. CASE UNCHANGED vars
  BY <1>5 DEF vars, flags
<1> QED
  BY <1>1, <1>2, <1>3, <1>4, <1>5 DEF Next

\* The stage, the frame buffer's flag and the hardware.
LEMMA StageTyped ==
    ASSUME TypeOK, [Next]_vars
    PROVE  /\ pc' \in Stages /\ framebuffer' \in {"none", "valid", "invalid"}
           /\ hardware' \in {"2D", "3D"}
<1> USE DEF TypeOK, Stages, Stage
<1>1. CASE \E new \in NewList : Prepare(new)
  BY <1>1 DEF Prepare
<1>2. CASE Set3D \/ Set2D \/ GenerateLayers \/ GenerateFails
  BY <1>2 DEF Set3D, Set2D, GenerateLayers, GenerateFails
<1>3. CASE ResetAreas \/ SplitComposition \/ SplitDone
  BY <1>3 DEF ResetAreas, SplitComposition, SplitDone
<1>4. CASE \E partial \in BOOLEAN : UpdateSources(partial)
  BY <1>4 DEF UpdateSources
<1>5. CASE SplitSwap \/ SplitSwapDone \/ Compose \/ SwapBuffers
  BY <1>5 DEF SplitSwap, SplitSwapDone, Compose, SwapBuffers
<1>6. CASE UNCHANGED vars
  BY <1>6 DEF vars
<1> QED
  BY <1>1, <1>2, <1>3, <1>4, <1>5, <1>6 DEF Next

LEMMA TypeKept ==
    ASSUME IInv, [Next]_vars
    PROVE  TypeOK' /\ DOMAIN types' = DOMAIN list'
<1>1. TypeOK /\ PoolInv /\ LayersInv /\ DOMAIN types = DOMAIN list
  BY Zenon DEF IInv
<1>2. /\ list' \in Seq(Layer) /\ types' \in Seq(CompositionType)
      /\ clearFb' \subseteq DOMAIN list' /\ DOMAIN types' = DOMAIN list'
  <2>1. CASE \E new \in NewList : Prepare(new)
    BY <2>1, PrepareTypes
  <2>2. CASE \A new \in NewList : ~Prepare(new)
    BY <1>1, <2>2, ListKept DEF TypeOK, listVars
  <2> QED
    BY <2>1, <2>2
<1>3. freeNodes' \in Seq(0..PoolSize)
  <2>1. PoolInv'
    BY <1>1, PoolKept
  <2> QED
    BY <2>1 DEF PoolInv, Holds
<1>4. /\ geometryChanged' \in BOOLEAN /\ hasComposition' \in BOOLEAN
      /\ hasDim' \in BOOLEAN /\ hasOverlay' \in BOOLEAN
  BY <1>1, FlagsTyped
<1>5. compositionArea' \in Seq(Node) /\ swapArea' \in Seq(Node)
  BY <1>1, AreasTyped
<1>6. layers' \in Seq(CompositionType \union {"stale"})
  BY <1>1, LayersTyped
<1>7. /\ pc' \in Stages /\ framebuffer' \in {"none", "valid", "invalid"}
      /\ hardware' \in {"2D", "3D"}
  BY <1>1, StageTyped
<1> QED
  BY <1>2, <1>3, <1>4, <1>5, <1>6, <1>7, Zenon DEF TypeOK

----------------------------------------------------------------------------
(* The layers. *)

LEMMA LayersKept ==
    ASSUME TypeOK, LayersInv, [Next]_vars
    PROVE  LayersInv'
<1>1. CASE \E new \in NewList : Prepare(new)
  <2>1. pc' = "idle" /\ geometryChanged'
    BY <1>1 DEF Prepare
  <2> QED
    BY <2>1 DEF LayersInv
<1>2. CASE Set3D
  BY <1>2 DEF Set3D, LayersInv, listVars, flags, pool
<1>3. CASE Set2D
  <2>1. /\ pc' = IF geometryChanged THEN "layers" ELSE "sources"
        /\ hasComposition
        /\ UNCHANGED <<types, layers, compositionArea, geometryChanged, hasComposition>>
    BY <1>3 DEF Set2D, Stage, listVars, flags, pool
  <2> QED
    BY <2>1 DEF LayersInv
<1>4. CASE GenerateLayers
  <2>1. /\ pc = "layers" /\ pc' = "areas" /\ layers' = types /\ types' = types
        /\ geometryChanged' = geometryChanged
    BY <1>4 DEF GenerateLayers, Stage, listVars, flags
  <2> QED
    BY <2>1 DEF LayersInv
<1>5. CASE GenerateFails
  <2>1. pc = "layers" /\ pc' = "swap" /\ geometryChanged' = geometryChanged
    BY <1>5 DEF GenerateFails, Stage, flags
  <2> QED
    BY <2>1 DEF LayersInv
<1>6. CASE ResetAreas
  <2>1. /\ pc = "areas" /\ pc' = "split"
        /\ UNCHANGED <<types, layers, geometryChanged, hasComposition>>
    BY <1>6 DEF ResetAreas, Stage, listVars, flags
  <2>2. compositionArea' # <<>>
    BY <1>6 DEF ResetAreas
  <2> QED
    BY <2>1, <2>2 DEF LayersInv
<1>7. CASE SplitComposition
  <2>1. pc' = pc /\ UNCHANGED <<types, layers, geometryChanged, hasComposition>>
    BY <1>7 DEF SplitComposition, listVars, flags
  <2>2. compositionArea' # <<>>
    <3>1. compositionArea' = Append(compositionArea, AllocatedArea(freeNodes))
      BY <1>7 DEF SplitComposition
    <3>2. compositionArea \in Seq(Node \union {AllocatedArea(freeNodes)})
      BY SeqMonotonic DEF TypeOK
    <3> QED
      BY <3>1, <3>2, AppendProperties
  <2> QED
    BY <2>1, <2>2 DEF LayersInv
<1>8. ASSUME NEW partial \in BOOLEAN, UpdateSources(partial)
      PROVE  LayersInv'
  <2>1. /\ pc = "sources" /\ pc' \in {"splitSwap", "compose"}
        /\ UNCHANGED <<types, layers, compositionArea, hasComposition>>
    BY <1>8 DEF UpdateSources, Stage, listVars
  <2> QED
    BY <2>1 DEF LayersInv
<1>9. CASE SplitDone \/ SplitSwap \/ SplitSwapDone \/ Compose \/ SwapBuffers
  <2>1. UNCHANGED <<types, layers, compositionArea, geometryChanged, hasComposition>>
    BY <1>9 DEF SplitDone, SplitSwap, SplitSwapDone, Compose, SwapBuffers, listVars, flags, pool
  <2>2. \/ pc = "split" /\ pc' = "sources"
        \/ pc = "splitSwap" /\ pc' \in {"splitSwap", "compose"}
        \/ pc' \in {"swap", "idle"}
    BY <1>9 DEF SplitDone, SplitSwap, SplitSwapDone, Compose, SwapBuffers, Stage
  <2> QED
    BY <2>1, <2>2 DEF LayersInv
<1>10. CASE UNCHANGED vars
  BY <1>10 DEF vars, LayersInv, listVars, flags, pool
<1> QED
  BY <1>1, <1>2, <1>3, <1>4, <1>5, <1>6, <1>7, <1>8, <1>9, <1>10 DEF Next

LEMMA DrawnOnceKept ==
    ASSUME DrawnOnce, [Next]_vars
    PROVE  DrawnOnce'
<1>1. ASSUME NEW new \in NewList, Prepare(new)
      PROVE  DrawnOnce'
  <2> DEFINE given == [i \in DOMAIN new |-> Classified(new[i])]
             all2D == \A i \in DOMAIN new : given[i] # "FRAMEBUFFER"
  <2>1. list' = new /\ (hasComposition' <=> all2D)
    BY <1>1 DEF Prepare
  <2>2. types' = [i \in DOMAIN new |->
            IF ~all2D /\ given[i] # "OVERLAY" THEN "FRAMEBUFFER" ELSE given[i]]
    BY <1>1 DEF Prepare
  <2>3. \A i \in DOMAIN new : new[i].skip => given[i] = "FRAMEBUFFER"
    BY DEF Classified
  <2> HIDE DEF given
  <2>4. CASE all2D
    BY <2>1, <2>2, <2>3, <2>4 DEF DrawnOnce
  <2>5. CASE ~all2D
    BY <2>1, <2>2, <2>3, <2>5 DEF DrawnOnce
  <2> QED
    BY <2>4, <2>5
<1>2. CASE \A new \in NewList : ~Prepare(new)
  BY <1>2, ListKept DEF DrawnOnce, listVars
<1> QED
  BY <1>1, <1>2

----------------------------------------------------------------------------
LEMMA InitIInv == Init => IInv
<1> SUFFICES ASSUME Init
             PROVE  IInv
  OBVIOUS
<1> USE DEF Init
<1>1. TypeOK
  <2>1. /\ geometryChanged \in BOOLEAN /\ hasComposition \in BOOLEAN
        /\ hasDim \in BOOLEAN /\ hasOverlay \in BOOLEAN
    BY Zenon
  <2>2. /\ list \in Seq(Layer) /\ types \in Seq(CompositionType)
        /\ layers \in Seq(CompositionType \union {"stale"})
        /\ freeNodes \in Seq(0..PoolSize)
        /\ compositionArea \in Seq(Node) /\ swapArea \in Seq(Node)
    BY EmptySeq
  <2>3. /\ clearFb \subseteq DOMAIN list
        /\ pc \in Stages /\ framebuffer \in {"none", "valid", "invalid"}
        /\ hardware \in {"2D", "3D"}
    BY DEF Stages
  <2> QED
    BY <2>1, <2>2, <2>3, Zenon DEF TypeOK
<1>2. PoolInv
  <2>1. Held = <<>>
    BY EmptySeq, ConcatEmptySeq DEF Held
  <2>2. <<>> \in Seq(0..PoolSize) /\ <<>> \in Seq(Node) /\ DOMAIN <<>> = {}
    BY EmptySeq
  <2>3. Holds(<<>>, <<>>)
    BY <2>2 DEF Holds, Filled, Ordered, InUse
  <2> QED
    BY <2>1, <2>3 DEF PoolInv
<1>3. LayersInv
  BY DEF LayersInv
<1>4. DrawnOnce
  BY DEF DrawnOnce
<1>5. DOMAIN types = DOMAIN list
  OBVIOUS
<1> QED
  BY <1>1, <1>2, <1>3, <1>4, <1>5 DEF IInv

\* The inductive invariant holds in every reachable state.
THEOREM AlwaysIInv == Spec => []IInv
<1>1. IInv /\ [Next]_vars => IInv'
  <2> SUFFICES ASSUME IInv, [Next]_vars
               PROVE  IInv'
    OBVIOUS
  <2>1. TypeOK /\ LayersInv /\ DrawnOnce /\ PoolInv
    BY Zenon DEF IInv
  <2>2. TypeOK' /\ DOMAIN types' = DOMAIN list'
    BY TypeKept
  <2>3. LayersInv' /\ DrawnOnce' /\ PoolInv'
    BY <2>1, LayersKept, DrawnOnceKept, PoolKept
  <2> QED
    BY <2>2, <2>3, Zenon DEF IInv
<1> QED
  BY <1>1, InitIInv, PTL DEF Spec

\* TypeOK: the stages of hwc_prepare and hwc_set keep the types of the context.
THEOREM TypeCorrect == Spec => []TypeOK
<1>1. IInv => TypeOK
  BY DEF IInv
<1> QED
  BY <1>1, AlwaysIInv, PTL

\* LayersCurrent: hwcCompose never sees layers or areas of an earlier list.
THEOREM ComposesCurrentLayers == Spec => []LayersCurrent
<1>1. IInv => LayersCurrent
  BY DEF IInv, LayersInv, LayersCurrent
<1> QED
  BY <1>1, AlwaysIInv, PTL

\* DrawnOnce: the framework and hwc_set agree who draws a layer.
THEOREM EveryLayerDrawnOnce == Spec => []DrawnOnce
<1>1. IInv => DrawnOnce
  BY DEF IInv
<1> QED
  BY <1>1, AlwaysIInv, PTL

\* AreasAccounted: freeing from the head of a list on never hands out an area
\* that is held, nor loses one.
THEOREM PoolAccounted == Spec => []AreasAccounted
<1>1. IInv => AreasAccounted
  <2> SUFFICES ASSUME IInv
               PROVE  AreasAccounted
    OBVIOUS
  <2> DEFINE n == Len(compositionArea)
             m == Len(swapArea)
  <2>1. TypeOK /\ Holds(freeNodes, Held)
    BY Zenon DEF IInv, PoolInv
  <2>2. /\ compositionArea \in Seq(Node) /\ n \in Nat /\ DOMAIN compositionArea = 1..n
        /\ swapArea \in Seq(Node) /\ m \in Nat /\ DOMAIN swapArea = 1..m
    BY <2>1, ListTypes
  <2>3. /\ Held \in Seq(Node) /\ Len(Held) = n + m
        /\ \A i \in 1..(n + m) :
              Held[i] = IF i <= n THEN compositionArea[i] ELSE swapArea[i - n]
    BY <2>2, ConcatProperties DEF Held
  <2>4. DOMAIN Held = 1..(n + m) /\ \A i \in 1..(n + m) : Held[i] \in Node
    BY <2>2, <2>3, LenProperties
  <2> HIDE DEF n, m
  <2>5. \A i \in 1..n : i \in 1..(n + m) /\ compositionArea[i] = Held[i]
    BY <2>2, <2>3
  <2>6. \A i \in 1..m : n + i \in 1..(n + m) /\ swapArea[i] = Held[n + i]
    <3> SUFFICES ASSUME NEW i \in 1..m
                 PROVE  n + i \in 1..(n + m) /\ swapArea[i] = Held[n + i]
      OBVIOUS
    <3>1. n + i \in 1..(n + m) /\ ~(n + i <= n) /\ (n + i) - n = i
      BY <2>2
    <3> QED
      BY <2>3, <3>1
  <2>7. \A i, j \in 1..(n + m) : Held[i] = Held[j] => i = j
    <3> SUFFICES ASSUME NEW i \in 1..(n + m), NEW j \in 1..(n + m), i < j
                 PROVE  Held[i] # Held[j]
      BY <2>2
    <3>1. Older(Held[i], Held[j])
      BY <2>1, <2>4 DEF Holds, Ordered
    <3>2. \A a \in Node : ~Older(a, a)
      BY FrameAssumption DEF Older, Node
    <3> QED
      BY <2>4, <3>1, <3>2
  <2>8. IsInjective(compositionArea)
    BY <2>2, <2>5, <2>7 DEF IsInjective
  <2>9. IsInjective(swapArea)
    <3> SUFFICES ASSUME NEW i \in 1..m, NEW j \in 1..m, swapArea[i] = swapArea[j]
                 PROVE  i = j
      BY <2>2 DEF IsInjective
    <3>1. n + i = n + j
      BY <2>6, <2>7
    <3> QED
      BY <2>2, <3>1
  <2>10. ToSet(compositionArea) \intersect ToSet(swapArea) = {}
    <3> SUFFICES ASSUME NEW i \in 1..n, NEW j \in 1..m, compositionArea[i] = swapArea[j]
                 PROVE  FALSE
      BY <2>2 DEF ToSet
    <3>1. i = n + j
      BY <2>5, <2>6, <2>7
    <3> QED
      BY <2>2, <3>1
  <2>11. \A area : area \in AreasHeld <=> \E i \in 1..(n + m) : Held[i] = area
    <3> SUFFICES ASSUME NEW area
                 PROVE  area \in AreasHeld <=> \E i \in 1..(n + m) : Held[i] = area
      OBVIOUS
    <3>1. area \in AreasHeld <=> \/ \E i \in 1..n : compositionArea[i] = area
                                 \/ \E i \in 1..m : swapArea[i] = area
      BY <2>2 DEF AreasHeld, ToSet
    <3>2. ASSUME NEW i \in 1..(n + m)
          PROVE  i \in 1..n \/ \E j \in 1..m : i = n + j
      <4>1. CASE i <= n
        BY <2>2, <4>1
      <4>2. CASE ~(i <= n)
        <5>1. i - n \in 1..m /\ i = n + (i - n)
          BY <2>2, <4>2
        <5> QED
          BY <5>1
      <4> QED
        BY <4>1, <4>2
    <3> QED
      BY <2>5, <2>6, <3>1, <3>2
  <2>12. \A area \in Node : InUse(freeNodes, area) <=> area \in AreasHeld
    BY <2>1, <2>4, <2>11 DEF Holds
  <2>13. NoAreaReused
    <3>1. AreasHeld \subseteq Node
      BY <2>4, <2>11
    <3> QED
      BY <2>8, <2>9, <2>10, <2>12, <3>1 DEF NoAreaReused
  <2>14. NoAreaLost
    <3>1. (DOMAIN freeNodes) \X (0..(PoolSize - 1)) \subseteq Node
      <4>1. DOMAIN freeNodes = 1..Len(freeNodes)
        BY <2>1, LenProperties DEF TypeOK
      <4> QED
        BY <4>1 DEF Node
    <3> QED
      BY <2>12, <3>1 DEF NoAreaLost
  <2> QED
    BY <2>13, <2>14 DEF AreasAccounted
<1> QED
  BY <1>1, AlwaysIInv, PTL

=============================================================================
