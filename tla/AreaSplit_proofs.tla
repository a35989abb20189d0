-------------------------- MODULE AreaSplit_proofs --------------------------
(***************************************************************************)
(* The recursion of _SplitArea keeps the area its callers point to, and    *)
(* implements AreaPartition, for any rectangles, owners and calls.         *)
(***************************************************************************)
EXTENDS AreaSplit, SequenceTheorems, TLAPS

\* What is proved of the partition, for the partition a list stands for.
Promise == INSTANCE AreaPartition_proofs WITH
    Request <- FirstArea \union Request,
    areas <- Areas,
    pending <- Pending,
    call <- Last(calls),
    done <- ToSet(Front(calls))

ListArea == [rect: Rect, owners: SUBSET Owner]

\* No two rectangles of a sequence share a pixel.
Apart(s) == \A i, j \in DOMAIN s : i # j => ~Overlaps(s[i], s[j])

\* No two areas of the list do.
ListApart == \A i, j \in DOMAIN list : i # j => ~Overlaps(list[i].rect, list[j].rect)

\* Only calls that met an area with a successor have deeper ones, and these
\* are at that area or behind it.
Nesting ==
    \A f, g \in DOMAIN stack : f < g => stack[f].phase = "rest" /\ stack[f].at <= stack[g].at

\* A call has passed the areas before its own and met none of them.
Passed ==
    \A f \in DOMAIN stack : \A i \in 1..(stack[f].at - 1) :
        ~Overlaps(stack[f].rect, list[i].rect)

\* What a deeper call places lies outside the areas that the waiting ones met,
\* and outside the pieces they have left.
DeeperOutside ==
    \A f, g \in DOMAIN stack : f < g =>
        /\ ~Overlaps(stack[g].rect, list[stack[f].at].rect)
        /\ \A k \in DOMAIN stack[f].r1 : ~Overlaps(stack[g].rect, stack[f].r1[k])

\* The pieces of a suspended call are those of its rectangle and its area.
PiecesOfCut ==
    \A f \in Suspended :
        LET area == list[stack[f].at].rect IN
        /\ Overlaps(stack[f].rect, area)
        /\ stack[f].r0 = StripSeq(area, stack[f].rect)
        /\ \A k \in DOMAIN stack[f].r1 : stack[f].r1[k] \in Strips(stack[f].rect, area)
        /\ Apart(stack[f].r1)

\* Pieces that are saved without another walk meet nothing.
TailOutside ==
    \A f \in DOMAIN stack : stack[f].phase = "tail" =>
        \A k \in DOMAIN stack[f].r1, i \in DOMAIN list :
            ~Overlaps(stack[f].r1[k], list[i].rect)

IInv ==
    /\ TypeOK
    /\ calls # <<>>
    /\ ListApart
    /\ Nesting
    /\ Passed
    /\ DeeperOutside
    /\ PiecesOfCut
    /\ TailOutside

----------------------------------------------------------------------------
(***************************************************************************)
(* The rectangles of the partition are those of the list.                  *)
(***************************************************************************)

LEMMA PartitionGeometry ==
    /\ Partition!Rect = Rect
    /\ Partition!Area = ListArea
    /\ \A p, q : Partition!Overlaps(p, q) <=> Overlaps(p, q)
    /\ \A p, q : Partition!Strips(p, q) = Strips(p, q)
    /\ \A a, r, o : Partition!Pieces(a, r, o) = Pieces(a, r, o)
  BY Zenon
     DEF ListArea, Partition!Area, Rect, Partition!Rect, Overlaps, Partition!Overlaps,
         Strips, Partition!Strips, Pieces, Partition!Pieces, Clip, Partition!Clip,
         LeftOf, Partition!LeftOf, RightOf, Partition!RightOf, Above, Partition!Above,
         Below, Partition!Below, Larger, Partition!Larger, Smaller, Partition!Smaller

LEMMA PromiseGeometry ==
    /\ Promise!Rect = Rect
    /\ Promise!Area = ListArea
    /\ \A p, q : Promise!Overlaps(p, q) <=> Overlaps(p, q)
    /\ \A p, q : Promise!Clip(p, q) = Clip(p, q)
    /\ \A p, q : Promise!Strips(p, q) = Strips(p, q)
    /\ \A a, r, o : Promise!Pieces(a, r, o) = Pieces(a, r, o)
  BY Zenon
     DEF ListArea, Promise!Area, Rect, Promise!Rect, Overlaps, Promise!Overlaps,
         Strips, Promise!Strips, Pieces, Promise!Pieces, Clip, Promise!Clip,
         LeftOf, Promise!LeftOf, RightOf, Promise!RightOf, Above, Promise!Above,
         Below, Promise!Below, Larger, Promise!Larger, Smaller, Promise!Smaller

LEMMA Assumptions == Promise!RequestAssumption /\ Promise!PixelAssumption
  BY PromiseGeometry, PartitionGeometry, RequestAssumption, PixelAssumption
     DEF Promise!RequestAssumption, Promise!PixelAssumption

LEMMA OverlapsSymmetric ==
    ASSUME NEW p \in Rect, NEW q \in Rect
    PROVE  Overlaps(p, q) <=> Overlaps(q, p)
  BY Promise!OverlapsSymmetric, PromiseGeometry, Assumptions

LEMMA OverlapsItself ==
    ASSUME NEW p \in Rect
    PROVE  Overlaps(p, p)
  BY DEF Rect, Overlaps

\* A strip, like the shared part, meets nothing its rectangle does not meet.
LEMMA StripsShape ==
    ASSUME NEW p \in Rect, NEW q \in Rect, Overlaps(p, q), NEW s \in Strips(p, q)
    PROVE  /\ s \in Rect /\ ~Overlaps(s, q)
           /\ \A r \in Rect : ~Overlaps(p, r) => ~Overlaps(s, r) /\ ~Overlaps(r, s)
  BY Promise!StripsShape, Promise!WithinMeetsLess, PromiseGeometry, Assumptions

LEMMA ClipShape ==
    ASSUME NEW p \in Rect, NEW q \in Rect, Overlaps(p, q)
    PROVE  /\ Clip(p, q) \in Rect
           /\ \A r \in Rect : ~Overlaps(p, r) => ~Overlaps(Clip(p, q), r) /\ ~Overlaps(r, Clip(p, q))
           /\ \A s \in Strips(p, q) : ~Overlaps(s, Clip(p, q)) /\ ~Overlaps(Clip(p, q), s)
<1>1. /\ Clip(p, q) \in Rect
      /\ Promise!Within(Clip(p, q), p) /\ Promise!Within(Clip(p, q), q)
  BY Promise!ClipShape, PromiseGeometry, Assumptions
<1>2. \A r, t \in Rect : Promise!Within(Clip(p, q), r) /\ ~Overlaps(r, t)
                           => ~Overlaps(Clip(p, q), t) /\ ~Overlaps(t, Clip(p, q))
  BY <1>1, Promise!WithinMeetsLess, PromiseGeometry, Assumptions
<1> QED
  BY <1>1, <1>2, StripsShape, OverlapsSymmetric

----------------------------------------------------------------------------
(***************************************************************************)
(* Pieces of one cut, as a sequence.                                       *)
(***************************************************************************)

LEMMA Joined ==
    ASSUME NEW s \in Seq(Rect), NEW t \in Seq(Rect), Apart(s), Apart(t),
           \A i \in DOMAIN s, j \in DOMAIN t : ~Overlaps(s[i], t[j])
    PROVE  /\ s \o t \in Seq(Rect)
           /\ Apart(s \o t)
           /\ \A x : (\E k \in DOMAIN (s \o t) : (s \o t)[k] = x)
                        <=> \/ \E i \in DOMAIN s : s[i] = x
                            \/ \E j \in DOMAIN t : t[j] = x
<1> DEFINE st == s \o t
<1>1. /\ st \in Seq(Rect) /\ Len(st) = Len(s) + Len(t) /\ Len(s) \in Nat /\ Len(t) \in Nat
      /\ \A i \in 1..Len(s) + Len(t) : st[i] = IF i <= Len(s) THEN s[i] ELSE t[i - Len(s)]
  BY ConcatProperties, LenProperties
<1>2. /\ DOMAIN st = 1..Len(s) + Len(t) /\ DOMAIN s = 1..Len(s) /\ DOMAIN t = 1..Len(t)
  BY <1>1, LenProperties
<1>3. /\ \A i \in DOMAIN s : i \in DOMAIN st /\ st[i] = s[i]
      /\ \A j \in DOMAIN t : Len(s) + j \in DOMAIN st /\ st[Len(s) + j] = t[j]
      /\ \A k \in DOMAIN st : \/ k \in DOMAIN s
                              \/ k - Len(s) \in DOMAIN t /\ ~(k <= Len(s))
  BY <1>1, <1>2
<1>4. \A i \in DOMAIN s, j \in DOMAIN t : ~Overlaps(t[j], s[i])
  BY OverlapsSymmetric, ElementOfSeq, <1>2
<1>5. Apart(st)
  <2> SUFFICES ASSUME NEW k \in DOMAIN st, NEW l \in DOMAIN st, k # l
               PROVE  ~Overlaps(st[k], st[l])
    BY DEF Apart
  <2> HIDE DEF st
  <2>1. CASE k \in DOMAIN s /\ l \in DOMAIN s
    BY <2>1, <1>3 DEF Apart
  <2>2. CASE k \in DOMAIN s /\ l - Len(s) \in DOMAIN t /\ ~(l <= Len(s))
    BY <2>2, <1>1, <1>2, <1>3
  <2>3. CASE l \in DOMAIN s /\ k - Len(s) \in DOMAIN t /\ ~(k <= Len(s))
    BY <2>3, <1>1, <1>2, <1>3, <1>4
  <2>4. CASE k - Len(s) \in DOMAIN t /\ ~(k <= Len(s)) /\ l - Len(s) \in DOMAIN t /\ ~(l <= Len(s))
    <3>1. st[k] = t[k - Len(s)] /\ st[l] = t[l - Len(s)] /\ k - Len(s) # l - Len(s)
      BY <2>4, <1>1, <1>2
    <3> QED
      BY <3>1, <2>4 DEF Apart
  <2> QED
    BY <1>3, <2>1, <2>2, <2>3, <2>4
<1>6. \A x : (\E k \in DOMAIN st : st[k] = x)
                <=> \/ \E i \in DOMAIN s : s[i] = x
                    \/ \E j \in DOMAIN t : t[j] = x
  <2>1. \A k \in DOMAIN st : \/ \E i \in DOMAIN s : s[i] = st[k]
                             \/ \E j \in DOMAIN t : t[j] = st[k]
    BY <1>1, <1>2, <1>3
  <2> HIDE DEF st
  <2> QED
    BY <1>3, <2>1
<1> QED
  BY <1>1, <1>5, <1>6

\* The sequence of at most one piece, r if c.
HasOnly(s, c, r) ==
    /\ s \in Seq(Rect) /\ Apart(s)
    /\ \A i \in DOMAIN s : c /\ s[i] = r
    /\ \A x : (\E i \in DOMAIN s : s[i] = x) <=> c /\ x = r

LEMMA AtMostOne ==
    ASSUME NEW c \in BOOLEAN, NEW r, c => r \in Rect
    PROVE  HasOnly(IF c THEN <<r>> ELSE <<>>, c, r)
<1>1. CASE c
  BY <1>1 DEF Apart, HasOnly
<1>2. CASE ~c
  BY <1>2 DEF Apart, HasOnly
<1> QED
  BY <1>1, <1>2

\* StripSeq has the strips of a cut, each once.
LEMMA StripSeqShape ==
    ASSUME NEW p \in Rect, NEW q \in Rect, Overlaps(p, q)
    PROVE  /\ StripSeq(p, q) \in Seq(Rect)
           /\ Apart(StripSeq(p, q))
           /\ \A x : (\E k \in DOMAIN StripSeq(p, q) : StripSeq(p, q)[k] = x) <=> x \in Strips(p, q)
<1> DEFINE If(c, s) == IF c THEN <<s>> ELSE <<>>
           left  == If(p.left < q.left, LeftOf(p, q))
           above == If(p.top < q.top, Above(p, q))
           right == If(p.right > q.right, RightOf(p, q))
           below == If(p.bottom > q.bottom, Below(p, q))
<1>1. /\ (p.left < q.left) \in BOOLEAN /\ (p.top < q.top) \in BOOLEAN
      /\ (p.right > q.right) \in BOOLEAN /\ (p.bottom > q.bottom) \in BOOLEAN
  BY DEF Rect
<1>2. /\ p.left < q.left => LeftOf(p, q) \in Rect
      /\ p.top < q.top => Above(p, q) \in Rect
      /\ p.right > q.right => RightOf(p, q) \in Rect
      /\ p.bottom > q.bottom => Below(p, q) \in Rect
  BY StripsShape DEF Strips
<1>3. HasOnly(left, p.left < q.left, LeftOf(p, q))
  BY <1>1, <1>2, AtMostOne, Zenon
<1>4. HasOnly(above, p.top < q.top, Above(p, q))
  BY <1>1, <1>2, AtMostOne, Zenon
<1>5. HasOnly(right, p.right > q.right, RightOf(p, q))
  BY <1>1, <1>2, AtMostOne, Zenon
<1>6. HasOnly(below, p.bottom > q.bottom, Below(p, q))
  BY <1>1, <1>2, AtMostOne, Zenon
<1>7. /\ ~Overlaps(LeftOf(p, q), Above(p, q)) /\ ~Overlaps(LeftOf(p, q), RightOf(p, q))
      /\ ~Overlaps(LeftOf(p, q), Below(p, q)) /\ ~Overlaps(Above(p, q), RightOf(p, q))
      /\ ~Overlaps(Above(p, q), Below(p, q)) /\ ~Overlaps(RightOf(p, q), Below(p, q))
  BY DEF Rect, Overlaps, LeftOf, Above, RightOf, Below, Larger, Smaller
<1>8. StripSeq(p, q) = ((left \o above) \o right) \o below
  BY DEF StripSeq
<1> USE DEF HasOnly
<1> HIDE DEF If, left, above, right, below
<1>9. /\ left \o above \in Seq(Rect) /\ Apart(left \o above)
      /\ \A x : (\E k \in DOMAIN (left \o above) : (left \o above)[k] = x)
                  <=> \/ p.left < q.left /\ x = LeftOf(p, q)
                      \/ p.top < q.top /\ x = Above(p, q)
  <2>1. \A i \in DOMAIN left, j \in DOMAIN above : ~Overlaps(left[i], above[j])
    BY <1>3, <1>4, <1>7
  <2>2. /\ left \o above \in Seq(Rect) /\ Apart(left \o above)
        /\ \A x : (\E k \in DOMAIN (left \o above) : (left \o above)[k] = x)
                    <=> \/ \E i \in DOMAIN left : left[i] = x
                        \/ \E j \in DOMAIN above : above[j] = x
    BY <2>1, <1>3, <1>4, Joined
  <2> QED
    BY <2>2, <1>3, <1>4
<1> DEFINE three == (left \o above) \o right
<1>10. /\ three \in Seq(Rect) /\ Apart(three)
       /\ \A x : (\E k \in DOMAIN three : three[k] = x)
                   <=> \/ p.left < q.left /\ x = LeftOf(p, q)
                       \/ p.top < q.top /\ x = Above(p, q)
                       \/ p.right > q.right /\ x = RightOf(p, q)
  <2> DEFINE two == left \o above
  <2>1. \A i \in DOMAIN two, j \in DOMAIN right : ~Overlaps(two[i], right[j])
    BY <1>5, <1>7, <1>9
  <2>2. two \in Seq(Rect) /\ Apart(two)
    BY <1>9
  <2>3. \A x : (\E k \in DOMAIN two : two[k] = x)
                 <=> \/ p.left < q.left /\ x = LeftOf(p, q)
                     \/ p.top < q.top /\ x = Above(p, q)
    BY <1>9
  <2> HIDE DEF two
  <2>4. /\ two \o right \in Seq(Rect) /\ Apart(two \o right)
        /\ \A x : (\E k \in DOMAIN (two \o right) : (two \o right)[k] = x)
                    <=> \/ \E i \in DOMAIN two : two[i] = x
                        \/ \E j \in DOMAIN right : right[j] = x
    BY <2>1, <2>2, <1>5, Joined
  <2>5. \A x : (\E k \in DOMAIN (two \o right) : (two \o right)[k] = x)
                 <=> \/ p.left < q.left /\ x = LeftOf(p, q)
                     \/ p.top < q.top /\ x = Above(p, q)
                     \/ p.right > q.right /\ x = RightOf(p, q)
    BY <2>3, <2>4, <1>5
  <2> QED
    BY <2>4, <2>5 DEF two
<1> HIDE DEF three
<1>11. /\ three \o below \in Seq(Rect) /\ Apart(three \o below)
       /\ \A x : (\E k \in DOMAIN (three \o below) : (three \o below)[k] = x)
                   <=> \/ \E i \in DOMAIN three : three[i] = x
                       \/ \E j \in DOMAIN below : below[j] = x
  <2>1. \A i \in DOMAIN three, j \in DOMAIN below : ~Overlaps(three[i], below[j])
    BY <1>6, <1>7, <1>10
  <2> QED
    BY <2>1, <1>6, <1>10, Joined
<1>12. \A x : x \in Strips(p, q) <=> \/ p.left < q.left /\ x = LeftOf(p, q)
                                     \/ p.top < q.top /\ x = Above(p, q)
                                     \/ p.right > q.right /\ x = RightOf(p, q)
                                     \/ p.bottom > q.bottom /\ x = Below(p, q)
  BY DEF Strips
<1>13. \A x : (\E k \in DOMAIN (three \o below) : (three \o below)[k] = x) <=> x \in Strips(p, q)
  BY <1>6, <1>10, <1>11, <1>12
<1> QED
  BY <1>8, <1>11, <1>13 DEF three

----------------------------------------------------------------------------
(***************************************************************************)
(* Every change of the list puts areas m in the place of those behind a    *)
(* and before b.                                                           *)
(***************************************************************************)

Spliced(s, a, m, b) == SubSeq(s, 1, a) \o m \o SubSeq(s, b, Len(s))

LEMMA SplicedShape ==
    ASSUME NEW s \in Seq(ListArea), NEW m \in Seq(ListArea),
           NEW a \in 0..Len(s), NEW b \in (a + 1)..(Len(s) + 1)
    PROVE  LET w == Spliced(s, a, m, b)
               by == a + Len(m) + 1 - b
           IN  /\ w \in Seq(ListArea)
               /\ Len(w) = Len(s) + by
               /\ \A i \in 1..a : w[i] = s[i]
               /\ \A i \in 1..Len(m) : w[a + i] = m[i]
               /\ \A i \in b..Len(s) : w[i + by] = s[i]
<1> DEFINE before == SubSeq(s, 1, a)
           behind == SubSeq(s, b, Len(s))
           by == a + Len(m) + 1 - b
<1>1. Len(s) \in Nat /\ Len(m) \in Nat /\ a \in Int /\ b \in Int
  BY LenProperties
<1>2. /\ before \in Seq(ListArea) /\ Len(before) = a
      /\ \A i \in 1..a : before[i] = s[i]
  <2>1. \A i \in 1..a : s[i] \in ListArea
    BY <1>1, ElementOfSeq
  <2>2. /\ before \in Seq(ListArea)
        /\ Len(before) = IF 1 <= a THEN a - 1 + 1 ELSE 0
        /\ \A i \in 1..a - 1 + 1 : before[i] = s[1 + i - 1]
    BY <2>1, <1>1, SubSeqProperties
  <2> QED
    BY <2>2, <1>1
<1>3. /\ behind \in Seq(ListArea) /\ Len(behind) = Len(s) - b + 1
      /\ \A i \in 1..Len(s) - b + 1 : behind[i] = s[b + i - 1]
  <2>1. \A i \in b..Len(s) : s[i] \in ListArea
    BY <1>1, ElementOfSeq
  <2>2. /\ behind \in Seq(ListArea)
        /\ Len(behind) = IF b <= Len(s) THEN Len(s) - b + 1 ELSE 0
        /\ \A i \in 1..Len(s) - b + 1 : behind[i] = s[b + i - 1]
    BY <2>1, <1>1, SubSeqProperties
  <2> QED
    BY <2>2, <1>1
<1> HIDE DEF before, behind
<1> DEFINE front == before \o m
<1>4. /\ front \in Seq(ListArea) /\ Len(front) = a + Len(m)
      /\ \A i \in 1..a + Len(m) : front[i] = IF i <= a THEN before[i] ELSE m[i - a]
  BY <1>2, ConcatProperties
<1> DEFINE w == front \o behind
<1>5. /\ w \in Seq(ListArea) /\ Len(w) = a + Len(m) + (Len(s) - b + 1)
      /\ \A i \in 1..a + Len(m) + (Len(s) - b + 1) :
            w[i] = IF i <= a + Len(m) THEN front[i] ELSE behind[i - (a + Len(m))]
  <2> HIDE DEF front
  <2>1. /\ w \in Seq(ListArea) /\ Len(w) = Len(front) + Len(behind)
        /\ \A i \in 1..Len(front) + Len(behind) :
              w[i] = IF i <= Len(front) THEN front[i] ELSE behind[i - Len(front)]
    BY <1>3, <1>4, ConcatProperties
  <2> HIDE DEF w
  <2> QED
    BY <2>1, <1>3, <1>4
<1>6. w = Spliced(s, a, m, b)
  BY DEF Spliced, before, behind
<1> HIDE DEF front, w
<1>7. \A i \in 1..a : w[i] = s[i]
  <2> SUFFICES ASSUME NEW i \in 1..a
               PROVE  w[i] = s[i]
    OBVIOUS
  <2>1. /\ i \in 1..a + Len(m) /\ i <= a /\ i <= a + Len(m)
        /\ i \in 1..a + Len(m) + (Len(s) - b + 1)
    BY <1>1
  <2>2. w[i] = front[i]
    BY <2>1, <1>5
  <2>3. front[i] = before[i]
    BY <2>1, <1>4
  <2> QED
    BY <2>2, <2>3, <1>2
<1>8. \A i \in 1..Len(m) : w[a + i] = m[i]
  <2> SUFFICES ASSUME NEW i \in 1..Len(m)
               PROVE  w[a + i] = m[i]
    OBVIOUS
  <2>1. /\ a + i \in 1..a + Len(m) /\ ~(a + i <= a) /\ (a + i) - a = i
        /\ a + i <= a + Len(m) /\ a + i \in 1..a + Len(m) + (Len(s) - b + 1)
    BY <1>1
  <2>2. w[a + i] = front[a + i]
    BY <2>1, <1>5
  <2>3. front[a + i] = m[(a + i) - a]
    BY <2>1, <1>4
  <2> QED
    BY <2>1, <2>2, <2>3
<1>9. \A i \in b..Len(s) : w[i + by] = s[i]
  <2> SUFFICES ASSUME NEW i \in b..Len(s)
               PROVE  w[i + by] = s[i]
    OBVIOUS
  <2>1. /\ i + by \in 1..a + Len(m) + (Len(s) - b + 1) /\ ~(i + by <= a + Len(m))
        /\ i + by - (a + Len(m)) = i - b + 1 /\ i - b + 1 \in 1..Len(s) - b + 1
        /\ b + (i - b + 1) - 1 = i
    BY <1>1
  <2>2. w[i + by] = behind[i + by - (a + Len(m))]
    BY <2>1, <1>5
  <2> HIDE DEF by
  <2> QED
    BY <2>1, <2>2, <1>3
<1> QED
  BY <1>1, <1>5, <1>6, <1>7, <1>8, <1>9

\* Where the areas of the new list come from.
LEMMA SplicedFrom ==
    ASSUME NEW s \in Seq(ListArea), NEW m \in Seq(ListArea),
           NEW a \in 0..Len(s), NEW b \in (a + 1)..(Len(s) + 1),
           NEW k \in DOMAIN Spliced(s, a, m, b)
    PROVE  LET w == Spliced(s, a, m, b)
               by == a + Len(m) + 1 - b
           IN  \/ k \in 1..a /\ k \in DOMAIN s /\ w[k] = s[k]
               \/ ~(k <= a) /\ k - a \in DOMAIN m /\ w[k] = m[k - a]
               \/ k - by \in b..Len(s) /\ k - by \in DOMAIN s /\ w[k] = s[k - by]
<1> DEFINE w == Spliced(s, a, m, b)
           by == a + Len(m) + 1 - b
<1>1. /\ w \in Seq(ListArea)
      /\ Len(w) = Len(s) + by
      /\ \A i \in 1..a : w[i] = s[i]
      /\ \A i \in 1..Len(m) : w[a + i] = m[i]
      /\ \A i \in b..Len(s) : w[i + by] = s[i]
  BY SplicedShape
<1>2. /\ Len(s) \in Nat /\ Len(m) \in Nat /\ DOMAIN s = 1..Len(s) /\ DOMAIN m = 1..Len(m)
      /\ k \in 1..Len(w)
  BY <1>1, LenProperties
<1> SUFFICES \/ k \in 1..a /\ k \in DOMAIN s /\ w[k] = s[k]
             \/ ~(k <= a) /\ k - a \in DOMAIN m /\ w[k] = m[k - a]
             \/ k - by \in b..Len(s) /\ k - by \in DOMAIN s /\ w[k] = s[k - by]
  OBVIOUS
<1> HIDE DEF w
<1>3. CASE k <= a
  BY <1>3, <1>1, <1>2
<1>4. CASE k > a /\ k <= a + Len(m)
  <2>1. k - a \in 1..Len(m) /\ a + (k - a) = k
    BY <1>4, <1>2
  <2> QED
    BY <2>1, <1>4, <1>1, <1>2
<1>5. CASE k > a + Len(m)
  <2>1. k <= Len(s) + by /\ k \in Int
    BY <1>1, <1>2
  <2>2. k - by \in b..Len(s) /\ (k - by) + by = k /\ k - by \in 1..Len(s)
    BY <2>1, <1>5, <1>2
  <2> HIDE DEF by
  <2> QED
    BY <2>2, <1>1, <1>2
<1> QED
  BY <1>2, <1>3, <1>4, <1>5

AreasApart(s) == \A i, j \in DOMAIN s : i # j => ~Overlaps(s[i].rect, s[j].rect)

LEMMA SplicedApart ==
    ASSUME NEW s \in Seq(ListArea), NEW m \in Seq(ListArea),
           NEW a \in 0..Len(s), NEW b \in (a + 1)..(Len(s) + 1),
           AreasApart(s), AreasApart(m),
           \A i \in DOMAIN s, j \in DOMAIN m :
                i <= a \/ b <= i => ~Overlaps(m[j].rect, s[i].rect)
    PROVE  AreasApart(Spliced(s, a, m, b))
<1> DEFINE w == Spliced(s, a, m, b)
           by == a + Len(m) + 1 - b
<1>1. \A i \in DOMAIN s, j \in DOMAIN m :
          i <= a \/ b <= i => /\ ~Overlaps(m[j].rect, s[i].rect)
                              /\ ~Overlaps(s[i].rect, m[j].rect)
  <2>1. \A i \in DOMAIN s, j \in DOMAIN m : s[i].rect \in Rect /\ m[j].rect \in Rect
    <3>1. \A i \in DOMAIN s, j \in DOMAIN m : s[i] \in ListArea /\ m[j] \in ListArea
      BY ElementOfSeq, LenProperties
    <3> QED
      BY <3>1 DEF ListArea
  <2> QED
    BY <2>1, OverlapsSymmetric
<1> SUFFICES ASSUME NEW k \in DOMAIN w, NEW l \in DOMAIN w, k # l
             PROVE  ~Overlaps(w[k].rect, w[l].rect)
  BY DEF AreasApart
<1>2. /\ \/ k \in 1..a /\ k \in DOMAIN s /\ w[k] = s[k]
         \/ ~(k <= a) /\ k - a \in DOMAIN m /\ w[k] = m[k - a]
         \/ k - by \in b..Len(s) /\ k - by \in DOMAIN s /\ w[k] = s[k - by]
      /\ \/ l \in 1..a /\ l \in DOMAIN s /\ w[l] = s[l]
         \/ ~(l <= a) /\ l - a \in DOMAIN m /\ w[l] = m[l - a]
         \/ l - by \in b..Len(s) /\ l - by \in DOMAIN s /\ w[l] = s[l - by]
  BY SplicedFrom
<1>3. k \in Int /\ l \in Int /\ Len(s) \in Nat /\ Len(m) \in Nat
  <2>1. w \in Seq(ListArea)
    BY SplicedShape
  <2> HIDE DEF w
  <2> QED
    BY <2>1, LenProperties
<1> HIDE DEF w
<1>4. CASE k \in 1..a /\ k \in DOMAIN s /\ w[k] = s[k]
  BY <1>1, <1>2, <1>3, <1>4 DEF AreasApart
<1>5. CASE ~(k <= a) /\ k - a \in DOMAIN m /\ w[k] = m[k - a]
  <2>1. CASE ~(l <= a) /\ l - a \in DOMAIN m /\ w[l] = m[l - a]
    BY <2>1, <1>3, <1>5 DEF AreasApart
  <2>2. CASE l \in 1..a /\ l \in DOMAIN s /\ w[l] = s[l]
    BY <2>2, <1>1, <1>3, <1>5
  <2>3. CASE l - by \in b..Len(s) /\ l - by \in DOMAIN s /\ w[l] = s[l - by]
    BY <2>3, <1>1, <1>3, <1>5
  <2> QED
    BY <1>2, <2>1, <2>2, <2>3
<1>6. CASE k - by \in b..Len(s) /\ k - by \in DOMAIN s /\ w[k] = s[k - by]
  <2>1. CASE ~(l <= a) /\ l - a \in DOMAIN m /\ w[l] = m[l - a]
    BY <2>1, <1>1, <1>3, <1>6
  <2>2. CASE l \in 1..a /\ l \in DOMAIN s /\ w[l] = s[l]
    BY <2>2, <1>3, <1>6 DEF AreasApart
  <2>3. CASE l - by \in b..Len(s) /\ l - by \in DOMAIN s /\ w[l] = s[l - by]
    BY <2>3, <1>3, <1>6 DEF AreasApart
  <2> QED
    BY <1>2, <2>1, <2>2, <2>3
<1> QED
  BY <1>2, <1>4, <1>5, <1>6

\* The areas of the new list, without those at some places before the change.
HasOutside(s, held, x) == \E k \in DOMAIN s \ held : s[k] = x
Stays(s, held, a, b, x) == \E i \in DOMAIN s \ held : (i <= a \/ b <= i) /\ s[i] = x

LEMMA SplicedElements ==
    ASSUME NEW s \in Seq(ListArea), NEW m \in Seq(ListArea),
           NEW a \in 0..Len(s), NEW b \in (a + 1)..(Len(s) + 1),
           NEW held \in SUBSET (1..a), NEW x
    PROVE  HasOutside(Spliced(s, a, m, b), held, x)
               <=> Stays(s, held, a, b, x) \/ \E j \in DOMAIN m : m[j] = x
<1> DEFINE w == Spliced(s, a, m, b)
           by == a + Len(m) + 1 - b
<1>1. /\ w \in Seq(ListArea)
      /\ Len(w) = Len(s) + by
      /\ \A i \in 1..a : w[i] = s[i]
      /\ \A i \in 1..Len(m) : w[a + i] = m[i]
      /\ \A i \in b..Len(s) : w[i + by] = s[i]
  BY SplicedShape
<1>2. /\ Len(s) \in Nat /\ Len(m) \in Nat /\ DOMAIN s = 1..Len(s) /\ DOMAIN m = 1..Len(m)
      /\ DOMAIN w = 1..Len(w)
  BY <1>1, LenProperties
<1>3. \A k \in DOMAIN w :
         \/ k \in 1..a /\ k \in DOMAIN s /\ w[k] = s[k]
         \/ ~(k <= a) /\ k - a \in DOMAIN m /\ w[k] = m[k - a]
         \/ k - by \in b..Len(s) /\ k - by \in DOMAIN s /\ w[k] = s[k - by]
  BY SplicedFrom
<1> HIDE DEF w
<1>4. ASSUME NEW k \in DOMAIN w, k \notin held
      PROVE  \/ \E i \in DOMAIN s \ held : (i <= a \/ b <= i) /\ s[i] = w[k]
             \/ \E j \in DOMAIN m : m[j] = w[k]
  <2>1. CASE k \in 1..a /\ k \in DOMAIN s /\ w[k] = s[k]
    BY <2>1, <1>4
  <2>2. CASE ~(k <= a) /\ k - a \in DOMAIN m /\ w[k] = m[k - a]
    BY <2>2
  <2>3. CASE k - by \in b..Len(s) /\ k - by \in DOMAIN s /\ w[k] = s[k - by]
    <3>1. k - by \notin held /\ b <= k - by
      BY <2>3, <1>2
    <3> HIDE DEF by
    <3> QED
      BY <2>3, <3>1
  <2> QED
    BY <1>3, <2>1, <2>2, <2>3
<1>5. ASSUME NEW i \in DOMAIN s, i \notin held, i <= a \/ b <= i
      PROVE  \E k \in DOMAIN w \ held : w[k] = s[i]
  <2>1. CASE i <= a
    <3>1. i \in DOMAIN w /\ w[i] = s[i]
      BY <2>1, <1>1, <1>2
    <3> QED
      BY <3>1, <1>5
  <2>2. CASE b <= i
    <3>1. i + by \in DOMAIN w /\ w[i + by] = s[i] /\ i + by \notin held
      BY <2>2, <1>1, <1>2
    <3> HIDE DEF by
    <3> QED
      BY <3>1
  <2> QED
    BY <1>5, <2>1, <2>2
<1>6. ASSUME NEW j \in DOMAIN m
      PROVE  \E k \in DOMAIN w \ held : w[k] = m[j]
  <2>1. a + j \in DOMAIN w /\ w[a + j] = m[j] /\ a + j \notin held
    BY <1>1, <1>2
  <2> QED
    BY <2>1
<1> QED
  BY <1>4, <1>5, <1>6 DEF w, HasOutside, Stays

----------------------------------------------------------------------------
(***************************************************************************)
(* What the types say, and what a step does to the stack.                  *)
(***************************************************************************)

LEMMA Types ==
    ASSUME TypeOK
    PROVE  /\ list \in Seq(ListArea) /\ list # <<>>
           /\ Len(list) \in Nat /\ DOMAIN list = 1..Len(list)
           /\ \A i \in DOMAIN list : list[i] \in ListArea /\ list[i].rect \in Rect
           /\ stack \in Seq(Frame) /\ Len(stack) \in Nat /\ DOMAIN stack = 1..Len(stack)
           /\ \A f \in DOMAIN stack :
                /\ stack[f] \in Frame
                /\ stack[f].phase \in {"walk", "rest", "tail"}
                /\ stack[f].at \in DOMAIN list /\ stack[f].rect \in Rect
                /\ stack[f].r1 \in Seq(Rect) /\ stack[f].r0 \in Seq(Rect)
                /\ \A k \in DOMAIN stack[f].r1 : stack[f].r1[k] \in Rect
<1>1. list \in Seq(ListArea) /\ list # <<>> /\ stack \in Seq(Frame)
  BY PartitionGeometry DEF TypeOK
<1>2. /\ Len(list) \in Nat /\ DOMAIN list = 1..Len(list)
      /\ Len(stack) \in Nat /\ DOMAIN stack = 1..Len(stack)
  BY <1>1, LenProperties
<1>3. \A i \in DOMAIN list : list[i] \in ListArea /\ list[i].rect \in Rect
  <2>1. \A i \in DOMAIN list : list[i] \in ListArea
    BY <1>1, <1>2, ElementOfSeq
  <2> QED
    BY <2>1 DEF ListArea
<1>4. \A f \in DOMAIN stack : stack[f] \in Frame
  BY <1>1, <1>2, ElementOfSeq
<1>5. \A s \in Seq(Rect) : \A k \in DOMAIN s : s[k] \in Rect
  BY ElementOfSeq, LenProperties
<1> QED
  BY <1>1, <1>2, <1>3, <1>4, <1>5 DEF TypeOK, Frame

LEMMA OwnersKnown ==
    ASSUME TypeOK, calls # <<>>
    PROVE  /\ Last(calls) \in FirstArea \union Request
           /\ Owners \subseteq Owner
<1>1. calls \in Seq(FirstArea \union Request) /\ Len(calls) \in 1..Len(calls)
  BY LenProperties, EmptySeq DEF TypeOK
<1>2. Last(calls) \in FirstArea \union Request
  BY <1>1, ElementOfSeq DEF Last
<1>3. Last(calls) \in ListArea
  BY <1>2, RequestAssumption, PartitionGeometry
<1> QED
  BY <1>2, <1>3 DEF Owners, ListArea

LEMMA TopRuns ==
    ASSUME TypeOK, stack # <<>>
    PROVE  Len(stack) \in DOMAIN stack /\ Top = stack[Len(stack)]
<1>1. Len(stack) \in Nat \ {0}
  BY Types, EmptySeq
<1> QED
  BY <1>1, Types DEF Top, Last

LEMMA BecomeShape ==
    ASSUME TypeOK, stack # <<>>, NEW frame \in Frame, Become(frame)
    PROVE  /\ stack' \in Seq(Frame) /\ Len(stack') = Len(stack) /\ DOMAIN stack' = DOMAIN stack
           /\ stack'[Len(stack)] = frame
           /\ \A f \in DOMAIN stack : f # Len(stack) => stack'[f] = stack[f]
<1>1. Len(stack) \in 1..Len(stack) /\ stack \in Seq(Frame) /\ DOMAIN stack = 1..Len(stack)
  BY TopRuns, Types
<1>2. /\ stack' \in Seq(Frame) /\ Len(stack') = Len(stack)
      /\ \A j \in 1..Len(stack) : stack'[j] = IF j = Len(stack) THEN frame ELSE stack[j]
  BY <1>1, ExceptSeq DEF Become
<1> QED
  BY <1>1, <1>2, LenProperties

LEMMA ReturnShape ==
    ASSUME TypeOK, stack # <<>>, Return
    PROVE  /\ stack' \in Seq(Frame)
           /\ DOMAIN stack' = 1..(Len(stack) - 1)
           /\ \A f \in DOMAIN stack' : f \in DOMAIN stack /\ f # Len(stack) /\ stack'[f] = stack[f]
<1>1. /\ Len(stack) \in Nat /\ Len(stack) >= 1 /\ DOMAIN stack = 1..Len(stack)
      /\ \A i \in 1..(Len(stack) - 1) : stack[i] \in Frame
  BY TopRuns, Types
<1> DEFINE last == Len(stack) - 1
<1>2. last \in Nat /\ \A i \in 1..last : stack[i] \in Frame
  BY <1>1
<1>3. /\ stack' \in Seq(Frame)
      /\ Len(stack') = IF 1 <= last THEN last - 1 + 1 ELSE 0
      /\ \A i \in 1..(last - 1 + 1) : stack'[i] = stack[1 + i - 1]
  BY <1>2, SubSeqProperties DEF Return, Front
<1>4. \A i \in 1..last : i \in DOMAIN stack /\ i # Len(stack)
  <2>1. \A n \in Nat : \A i \in 1..(n - 1) : i \in 1..n /\ i # n
    OBVIOUS
  <2> QED
    BY <1>1, <2>1
<1> HIDE DEF last
<1>5. Len(stack') = last
  BY <1>2, <1>3
<1>6. \A i \in 1..last : stack'[i] = stack[i]
  BY <1>2, <1>3
<1>7. DOMAIN stack' = 1..last
  BY <1>3, <1>5, LenProperties
<1> QED
  BY <1>3, <1>4, <1>6, <1>7 DEF last

----------------------------------------------------------------------------
(***************************************************************************)
(* The partition a list stands for, element by element.                    *)
(***************************************************************************)

IsArea(x) ==
    \/ \E i \in DOMAIN list : (\A f \in Suspended : stack[f].at # i) /\ list[i] = x
    \/ \E f \in Suspended : x \in Pieces(list[stack[f].at], stack[f].rect, Owners)

IsPendingPiece(r) ==
    \/ \E f \in DOMAIN stack : f \notin Suspended /\ stack[f].rect = r
    \/ \E f \in Suspended : \E k \in DOMAIN stack[f].r1 : stack[f].r1[k] = r

LEMMA Mapped ==
    /\ \A x : x \in Areas <=> IsArea(x)
    /\ \A x : x \in Areas' <=> IsArea(x)'
    /\ \A x : x \in Pending <=> IsPendingPiece(x)
    /\ \A x : x \in Pending' <=> IsPendingPiece(x)'
<1>1. \A x : x \in Areas <=> IsArea(x)
  BY DEF Areas, IsArea, Held
<1>2. \A x : x \in Areas' <=> IsArea(x)'
  BY DEF Areas, IsArea, Held
<1>3. \A x : x \in Pending <=> IsPendingPiece(x)
  BY DEF Pending, IsPendingPiece, ToSet
<1>4. \A x : x \in Pending' <=> IsPendingPiece(x)'
  BY DEF Pending, IsPendingPiece, ToSet
<1> QED
  BY <1>1, <1>2, <1>3, <1>4

\* The pieces of an area meet nothing the area does not meet.
LEMMA PiecesShape ==
    ASSUME NEW a \in ListArea, NEW r \in Rect, Overlaps(a.rect, r), NEW o \in SUBSET Owner,
           NEW x \in Pieces(a, r, o)
    PROVE  /\ x \in ListArea /\ x.rect \in Rect
           /\ \A t \in Rect : ~Overlaps(a.rect, t) => ~Overlaps(x.rect, t) /\ ~Overlaps(t, x.rect)
<1>1. a.rect \in Rect /\ a.owners \subseteq Owner
  BY DEF ListArea
<1>2. CASE \E s \in Strips(a.rect, r) : x = [rect |-> s, owners |-> a.owners]
  BY <1>1, <1>2, StripsShape DEF ListArea
<1>3. CASE x = [rect |-> Clip(a.rect, r), owners |-> a.owners \union o]
  BY <1>1, <1>3, ClipShape DEF ListArea
<1> QED
  BY <1>2, <1>3 DEF Pieces

----------------------------------------------------------------------------
(***************************************************************************)
(* One lemma for each way a call goes on: IInv is kept, and the partition  *)
(* makes a step or none.                                                   *)
(***************************************************************************)

LEMMA InitIInv == Init => IInv /\ Partition!Init
<1> SUFFICES ASSUME Init
             PROVE  IInv /\ Partition!Init
  OBVIOUS
<1>1. PICK c \in FirstArea : list = <<c>> /\ calls = <<c>>
  BY DEF Init
<1>2. stack = <<>> /\ Suspended = {} /\ DOMAIN stack = {}
  BY DEF Init, Suspended
<1>3. c \in ListArea /\ c \in FirstArea \union Request
  BY RequestAssumption, PartitionGeometry
<1>4. TypeOK
  BY <1>1, <1>2, <1>3, PartitionGeometry, EmptySeq DEF TypeOK
<1>5. IInv
  BY <1>1, <1>2, <1>4
     DEF IInv, ListApart, Nesting, Passed, DeeperOutside, PiecesOfCut, TailOutside
<1>6. Last(calls) = c /\ ToSet(Front(calls)) = {}
  BY <1>1 DEF Last, Front, ToSet
<1>7. Areas = {c}
  BY <1>1, <1>2, Mapped DEF IsArea
<1>8. Pending = {}
  BY <1>2, Mapped DEF IsPendingPiece
<1> QED
  BY <1>3, <1>5, <1>6, <1>7, <1>8 DEF Partition!Init

\* hwcSet starts a call once the last one has returned.
LEMMA CallStep ==
    ASSUME IInv, NEW c \in Request, Call(c)
    PROVE  IInv' /\ Partition!Next
<1> USE DEF IInv
<1>1. /\ stack = <<>> /\ calls' = Append(calls, c) /\ stack' = <<Start(1, c.rect)>> /\ list' = list
      /\ Suspended = {} /\ DOMAIN stack = {}
  BY DEF Call, Suspended
<1>2. c \in ListArea /\ c.rect \in Rect /\ c \in FirstArea \union Request
  BY RequestAssumption, PartitionGeometry DEF ListArea
<1>3. 1 \in DOMAIN list
  BY Types, EmptySeq
<1>4. Start(1, c.rect) \in Frame
  BY <1>2, EmptySeq DEF Start, Frame
<1>5. DOMAIN stack' = {1} /\ stack'[1].phase = "walk" /\ stack'[1].at = 1 /\ stack'[1].rect = c.rect
  BY <1>1 DEF Start
<1>6. Suspended' = {}
  BY <1>5 DEF Suspended
<1>7. calls' \in Seq(FirstArea \union Request) /\ calls' # <<>>
  BY <1>1, <1>2, AppendProperties DEF TypeOK
<1>8. TypeOK'
  <2>1. stack' \in Seq(Frame)
    BY <1>1, <1>4
  <2> QED
    BY <2>1, <1>1, <1>3, <1>5, <1>7 DEF TypeOK
<1>9. ListApart' /\ Nesting' /\ Passed' /\ DeeperOutside'
  BY <1>1, <1>5 DEF ListApart, Nesting, Passed, DeeperOutside
<1>10. PiecesOfCut' /\ TailOutside'
  BY <1>5, <1>6 DEF PiecesOfCut, TailOutside
<1>11. Pending = {} /\ Pending' = {c.rect}
  <2>1. \A x : ~IsPendingPiece(x)
    BY <1>1 DEF IsPendingPiece
  <2>2. \A x : IsPendingPiece(x)' <=> x = c.rect
    BY <1>5, <1>6 DEF IsPendingPiece
  <2> QED
    BY <2>1, <2>2, Mapped
<1>12. Areas' = Areas
  <2>1. \A x : IsArea(x)' <=> IsArea(x)
    BY <1>1, <1>6 DEF IsArea
  <2> QED
    BY <2>1, Mapped
<1>13. Last(calls') = c /\ ToSet(Front(calls')) = ToSet(Front(calls)) \union {Last(calls)}
  <2> DEFINE n == Len(calls)
  <2>1. /\ calls \in Seq(FirstArea \union Request) /\ n \in Nat \ {0} /\ DOMAIN calls = 1..n
    BY EmptySeq, LenProperties DEF TypeOK
  <2>2. /\ Len(calls') = n + 1 /\ calls'[n + 1] = c
        /\ \A i \in 1..n : calls'[i] = calls[i]
        /\ calls' \in Seq(FirstArea \union Request)
    BY <2>1, <1>1, <1>2, AppendProperties
  <2>3. Front(calls') = SubSeq(calls', 1, n) /\ Front(calls) = SubSeq(calls, 1, n - 1)
    BY <2>1, <2>2 DEF Front
  <2>4. \A i \in 1..n : calls[i] \in FirstArea \union Request /\ calls'[i] \in FirstArea \union Request
    BY <2>1, <2>2, ElementOfSeq
  <2>5. /\ DOMAIN Front(calls') = 1..n /\ \A i \in 1..n : Front(calls')[i] = calls[i]
    BY <2>1, <2>2, <2>3, <2>4, SubSeqProperties, LenProperties
  <2>6. /\ DOMAIN Front(calls) = 1..(n - 1) /\ \A i \in 1..(n - 1) : Front(calls)[i] = calls[i]
    BY <2>1, <2>3, <2>4, SubSeqProperties, LenProperties
  <2>7. Last(calls) = calls[n] /\ Last(calls') = c
    BY <2>2 DEF Last
  <2> HIDE DEF n
  <2>8. \A x : x \in ToSet(Front(calls')) <=> x \in ToSet(Front(calls)) \/ x = calls[n]
    BY <2>1, <2>5, <2>6 DEF ToSet
  <2> QED
    BY <2>7, <2>8
<1>14. Partition!Call(c)
  BY <1>11, <1>12, <1>13 DEF Partition!Call
<1> QED
  BY <1>2, <1>7, <1>8, <1>9, <1>10, <1>14 DEF Partition!Next

\* The walk moves on behind an area the rectangle does not meet.
LEMMA WalkStep ==
    ASSUME IInv, Walk
    PROVE  IInv' /\ UNCHANGED Partition!vars
<1> USE DEF IInv
<1> DEFINE n == Len(stack)
           top == stack[n]
           next == [top EXCEPT !.at = @ + 1]
<1>1. /\ n \in DOMAIN stack /\ stack # <<>> /\ top = Top /\ top.phase = "walk"
      /\ ~Overlaps(top.rect, list[top.at].rect) /\ top.at < Len(list) /\ top.at \in 1..Len(list)
      /\ Become(next) /\ list' = list /\ calls' = calls
  BY TopRuns, Types DEF Walk, Running
<1>2. /\ next \in Frame /\ next.at = top.at + 1 /\ next.rect = top.rect /\ next.phase = "walk"
  <2>1. top \in Frame
    BY <1>1, Types
  <2>2. \A frame \in Frame : [frame EXCEPT !.at = @ + 1] \in Frame
    BY DEF Frame
  <2> HIDE DEF top
  <2> QED
    BY <2>1, <2>2, <1>1 DEF Frame
<1>3. /\ stack' \in Seq(Frame) /\ DOMAIN stack' = DOMAIN stack
      /\ stack'[n] = next
      /\ \A f \in DOMAIN stack : f # n => stack'[f] = stack[f]
  BY <1>1, <1>2, BecomeShape
<1>4. DOMAIN stack = 1..n /\ n \in Nat /\ DOMAIN list = 1..Len(list) /\ Len(list) \in Nat
  BY Types
<1>5. \A f \in DOMAIN stack : stack[f].at \in DOMAIN list
  BY Types
<1> HIDE DEF n, top, next
<1>6. \A f \in DOMAIN stack : /\ stack'[f].phase = stack[f].phase
                              /\ stack'[f].rect = stack[f].rect
                              /\ f # n => stack'[f] = stack[f]
  BY <1>1, <1>2, <1>3 DEF top
<1>7. TypeOK'
  <2>1. \A f \in DOMAIN stack' : stack'[f].at \in DOMAIN list'
    BY <1>1, <1>2, <1>3, <1>4, <1>5
  <2> QED
    BY <2>1, <1>1, <1>3 DEF TypeOK
<1>8. ListApart' /\ calls' # <<>>
  BY <1>1 DEF ListApart
<1>9. Nesting'
  <2> SUFFICES ASSUME NEW f \in DOMAIN stack, NEW g \in DOMAIN stack, f < g
               PROVE  stack'[f].phase = "rest" /\ stack'[f].at <= stack'[g].at
    BY <1>3 DEF Nesting
  <2>1. f # n /\ stack[f].phase = "rest" /\ stack[f].at <= stack[g].at
    BY <1>4 DEF Nesting
  <2>2. CASE g = n
    BY <2>1, <2>2, <1>1, <1>2, <1>3, <1>4, <1>5 DEF top
  <2>3. CASE g # n
    BY <2>1, <2>3, <1>3
  <2> QED
    BY <2>2, <2>3
<1>10. Passed'
  <2> SUFFICES ASSUME NEW f \in DOMAIN stack, NEW i \in 1..(stack'[f].at - 1)
               PROVE  ~Overlaps(stack'[f].rect, list[i].rect)
    BY <1>1, <1>3 DEF Passed
  <2>1. CASE f = n
    <3>1. i = top.at \/ i \in 1..(top.at - 1)
      BY <2>1, <1>1, <1>2, <1>3
    <3> QED
      BY <3>1, <2>1, <1>1, <1>2, <1>3 DEF Passed, top
  <2>2. CASE f # n
    BY <2>2, <1>3 DEF Passed
  <2> QED
    BY <2>1, <2>2
<1>11. DeeperOutside'
  <2> SUFFICES ASSUME NEW f \in DOMAIN stack, NEW g \in DOMAIN stack, f < g
               PROVE  /\ ~Overlaps(stack'[g].rect, list[stack'[f].at].rect)
                      /\ \A k \in DOMAIN stack'[f].r1 : ~Overlaps(stack'[g].rect, stack'[f].r1[k])
    BY <1>1, <1>3 DEF DeeperOutside
  <2>1. stack'[f] = stack[f]
    BY <1>3, <1>4
  <2> QED
    BY <2>1, <1>6 DEF DeeperOutside
<1>12. \A f \in DOMAIN stack : stack[f].phase # "walk" => stack'[f] = stack[f]
  BY <1>1, <1>3 DEF top
<1>13. Suspended' = Suspended /\ \A f \in Suspended : f \in DOMAIN stack /\ stack'[f] = stack[f]
  BY <1>3, <1>6, <1>12 DEF Suspended
<1>14. PiecesOfCut' /\ TailOutside'
  BY <1>1, <1>3, <1>6, <1>12, <1>13 DEF PiecesOfCut, TailOutside
<1>15. Areas' = Areas /\ Pending' = Pending
  <2> Owners' = Owners
    BY <1>1 DEF Owners
  <2>1. \A x : IsArea(x)' <=> IsArea(x)
    BY <1>1, <1>13 DEF IsArea
  <2>2. \A x : IsPendingPiece(x)' <=> IsPendingPiece(x)
    BY <1>3, <1>6, <1>13 DEF IsPendingPiece
  <2> QED
    BY <2>1, <2>2, Mapped
<1> QED
  BY <1>1, <1>7, <1>8, <1>9, <1>10, <1>11, <1>14, <1>15 DEF Partition!vars

\* A rectangle that met no area to the end of the list becomes one.
LEMMA AppendNewStep ==
    ASSUME IInv, AppendNew
    PROVE  IInv' /\ Partition!Next
<1> USE DEF IInv
<1> DEFINE n == Len(stack)
           top == stack[n]
           last == Len(list)
           new == [rect |-> top.rect, owners |-> Owners]
<1>1. /\ n \in DOMAIN stack /\ stack # <<>> /\ top = Top /\ top.phase = "walk"
      /\ ~Overlaps(top.rect, list[top.at].rect) /\ top.at = last
      /\ list' = Append(list, new) /\ Return /\ calls' = calls
  BY TopRuns DEF AppendNew, Running
<1>2. /\ DOMAIN stack = 1..n /\ n \in Nat /\ DOMAIN list = 1..last /\ last \in Nat
      /\ \A f \in DOMAIN stack : stack[f].at \in DOMAIN list /\ stack[f].rect \in Rect
      /\ \A i \in DOMAIN list : list[i] \in ListArea /\ list[i].rect \in Rect
      /\ list \in Seq(ListArea)
  BY Types
<1>3. new \in ListArea
  BY <1>1, <1>2, OwnersKnown DEF ListArea
<1>4. /\ stack' \in Seq(Frame)
      /\ \A f \in DOMAIN stack' : f \in DOMAIN stack /\ f # n /\ stack'[f] = stack[f]
      /\ DOMAIN stack' = 1..(n - 1)
  BY <1>1, ReturnShape
<1>5. /\ list' \in Seq(ListArea) /\ Len(list') = last + 1
      /\ \A i \in 1..last : list'[i] = list[i]
      /\ list'[last + 1] = new
  BY <1>1, <1>2, <1>3, AppendProperties
<1>6. DOMAIN list' = 1..(last + 1)
  BY <1>5, LenProperties
<1>7. new.rect = top.rect
  OBVIOUS
<1> HIDE DEF n, last, new
<1>8. \A i \in DOMAIN list : i \in DOMAIN list' /\ list'[i] = list[i]
  BY <1>2, <1>5, <1>6
<1>9. \A k \in DOMAIN list' : k \in DOMAIN list \/ (k = last + 1 /\ k \notin DOMAIN list)
  BY <1>2, <1>6
<1>10. \A f \in DOMAIN stack' : stack[f].phase = "rest" /\ f < n
  BY <1>1, <1>2, <1>4 DEF Nesting, n
<1>11. \A i \in DOMAIN list : ~Overlaps(top.rect, list[i].rect) /\ ~Overlaps(list[i].rect, top.rect)
  <2>1. \A i \in DOMAIN list : i = last \/ i \in 1..(top.at - 1)
    BY <1>1, <1>2
  <2>2. \A i \in 1..(top.at - 1) : ~Overlaps(top.rect, list[i].rect)
    BY <1>1 DEF Passed
  <2>3. \A i \in DOMAIN list : ~Overlaps(top.rect, list[i].rect)
    BY <2>1, <2>2, <1>1
  <2> QED
    BY <2>3, <1>1, <1>2, OverlapsSymmetric
<1>12. TypeOK'
  <2>1. list' # <<>> /\ list' \in Seq(Partition!Area)
    BY <1>5, <1>2, PartitionGeometry, EmptySeq
  <2>2. \A f \in DOMAIN stack' : stack'[f].at \in DOMAIN list'
    BY <1>2, <1>4, <1>8
  <2> QED
    BY <2>1, <2>2, <1>1, <1>4 DEF TypeOK
<1>13. ListApart'
  BY <1>5, <1>7, <1>8, <1>9, <1>11 DEF ListApart
<1>14. Nesting' /\ calls' # <<>>
  BY <1>1, <1>4 DEF Nesting
<1>15. Passed'
  <2> SUFFICES ASSUME NEW f \in DOMAIN stack', NEW i \in 1..(stack'[f].at - 1)
               PROVE  ~Overlaps(stack'[f].rect, list'[i].rect)
    BY DEF Passed
  <2>1. i \in DOMAIN list
    BY <1>2, <1>4
  <2> QED
    BY <2>1, <1>4, <1>8 DEF Passed
<1>16. DeeperOutside'
  BY <1>2, <1>4, <1>8 DEF DeeperOutside
<1>17. Suspended' = {f \in DOMAIN stack : f # n} /\ Suspended = {f \in DOMAIN stack : f # n}
  <2>1. \A f \in DOMAIN stack : f # n => f \in DOMAIN stack' /\ stack[f].phase = "rest"
    BY <1>2, <1>4, <1>10
  <2> QED
    BY <2>1, <1>1, <1>4 DEF Suspended
<1>18. PiecesOfCut' /\ TailOutside'
  <2>1. PiecesOfCut'
    BY <1>2, <1>4, <1>8, <1>17 DEF PiecesOfCut
  <2>2. TailOutside'
    BY <1>4, <1>10 DEF TailOutside
  <2> QED
    BY <2>1, <2>2
<1>19. \A f \in Suspended : /\ f \in DOMAIN stack' /\ stack'[f] = stack[f]
                            /\ list'[stack[f].at] = list[stack[f].at]
                            /\ stack[f].at \in DOMAIN list
  BY <1>2, <1>4, <1>8, <1>17 DEF Suspended
<1>20. Owners' = Owners
  BY <1>1 DEF Owners
<1>21. Areas' = Areas \union {new}
  <2>1. \A x : IsArea(x)' <=> IsArea(x) \/ x = new
    <3>1. \A x : (\E f \in Suspended' : x \in Pieces(list'[stack'[f].at], stack'[f].rect, Owners'))
                   <=> \E f \in Suspended : x \in Pieces(list[stack[f].at], stack[f].rect, Owners)
      BY <1>17, <1>19, <1>20
    <3>2. \A x : (\E i \in DOMAIN list' : (\A f \in Suspended' : stack'[f].at # i) /\ list'[i] = x)
                   <=> \/ \E i \in DOMAIN list : (\A f \in Suspended : stack[f].at # i) /\ list[i] = x
                       \/ x = new
      BY <1>5, <1>6, <1>2, <1>8, <1>9, <1>17, <1>19
    <3> QED
      BY <3>1, <3>2 DEF IsArea
  <2> QED
    BY <2>1, Mapped
<1>22. top.rect \in Pending /\ Pending' = Pending \ {top.rect}
  <2>1. \A f \in Suspended : \A k \in DOMAIN stack[f].r1 : stack[f].r1[k] # top.rect
    <3> SUFFICES ASSUME NEW f \in Suspended, NEW k \in DOMAIN stack[f].r1
                 PROVE  stack[f].r1[k] # top.rect
      OBVIOUS
    <3>1. ~Overlaps(top.rect, stack[f].r1[k])
      BY <1>1, <1>2, <1>17, <1>10, <1>4, <1>19 DEF DeeperOutside
    <3> QED
      BY <3>1, <1>1, <1>2, OverlapsItself
  <2>2. \A x : IsPendingPiece(x) <=> x = top.rect \/ IsPendingPiece(x)'
    BY <1>1, <1>4, <1>17, <1>19 DEF IsPendingPiece
  <2>3. \A x : x = top.rect => ~IsPendingPiece(x)'
    BY <2>1, <1>4, <1>17, <1>19 DEF IsPendingPiece
  <2> QED
    BY <2>2, <2>3, Mapped
<1>23. \A a \in Areas : ~Overlaps(top.rect, a.rect)
  <2> SUFFICES ASSUME NEW a, IsArea(a)
               PROVE  ~Overlaps(top.rect, a.rect)
    BY Mapped
  <2>1. CASE \E i \in DOMAIN list : list[i] = a
    BY <2>1, <1>11
  <2>2. CASE \E f \in Suspended : a \in Pieces(list[stack[f].at], stack[f].rect, Owners)
    <3>1. PICK f \in Suspended : a \in Pieces(list[stack[f].at], stack[f].rect, Owners)
      BY <2>2
    <3>2. Overlaps(stack[f].rect, list[stack[f].at].rect)
      BY DEF PiecesOfCut
    <3>3. /\ list[stack[f].at] \in ListArea /\ list[stack[f].at].rect \in Rect
          /\ stack[f].rect \in Rect /\ Overlaps(list[stack[f].at].rect, stack[f].rect)
          /\ ~Overlaps(list[stack[f].at].rect, top.rect)
      BY <3>2, <1>2, <1>11, <1>19, OverlapsSymmetric DEF Suspended
    <3> QED
      BY <3>1, <3>3, <1>1, <1>2, OwnersKnown, PiecesShape
  <2> QED
    BY <2>1, <2>2 DEF IsArea
<1>24. Partition!Extend(top.rect)
  <2>1. new = [rect |-> top.rect, owners |-> Last(calls).owners]
    BY DEF new, Owners
  <2> QED
    BY <2>1, <1>1, <1>21, <1>22, <1>23, PartitionGeometry DEF Partition!Extend
<1> QED
  BY <1>12, <1>13, <1>14, <1>15, <1>16, <1>18, <1>22, <1>24 DEF Partition!Next

\* The walk meets an area: the partition cuts it, though the list only will
\* when the call returns.
LEMMA MeetStep ==
    ASSUME IInv, Meet
    PROVE  IInv' /\ Partition!Next
<1> USE DEF IInv
<1> DEFINE n == Len(stack)
           top == stack[n]
           at == top.at
           rect == top.rect
           area == list[at]
           cut == [top EXCEPT !.phase = IF top.at = Len(list) THEN "tail" ELSE "rest",
                              !.r1 = StripSeq(top.rect, list[top.at].rect),
                              !.r0 = StripSeq(list[top.at].rect, top.rect)]
<1>1. /\ n \in DOMAIN stack /\ stack # <<>> /\ top = Top /\ top.phase = "walk"
      /\ Overlaps(rect, area.rect) /\ Become(cut) /\ list' = list /\ calls' = calls
  BY TopRuns DEF Meet, Running
<1>2. /\ DOMAIN stack = 1..n /\ n \in Nat /\ DOMAIN list = 1..Len(list) /\ Len(list) \in Nat
      /\ \A f \in DOMAIN stack : stack[f].at \in DOMAIN list /\ stack[f].rect \in Rect
      /\ \A f \in DOMAIN stack : \A k \in DOMAIN stack[f].r1 : stack[f].r1[k] \in Rect
      /\ \A i \in DOMAIN list : list[i] \in ListArea /\ list[i].rect \in Rect
      /\ top \in Frame
  BY <1>1, Types
<1>3. /\ at \in DOMAIN list /\ rect \in Rect /\ area \in ListArea /\ area.rect \in Rect
      /\ Overlaps(area.rect, rect)
  BY <1>1, <1>2, OverlapsSymmetric
<1>4. StripSeq(rect, area.rect) \in Seq(Rect) /\ StripSeq(area.rect, rect) \in Seq(Rect)
  BY <1>1, <1>3, StripSeqShape
<1>5. /\ cut \in Frame /\ cut.at = at /\ cut.rect = rect
      /\ cut.phase \in {"tail", "rest"} /\ (cut.phase = "tail" => at = Len(list))
      /\ cut.r1 = StripSeq(rect, area.rect) /\ cut.r0 = StripSeq(area.rect, rect)
  <2> DEFINE p == IF top.at = Len(list) THEN "tail" ELSE "rest"
             r1 == StripSeq(top.rect, list[top.at].rect)
             r0 == StripSeq(list[top.at].rect, top.rect)
  <2>1. p \in {"tail", "rest"} /\ (p = "tail" => at = Len(list))
    OBVIOUS
  <2>2. r1 \in Seq(Rect) /\ r0 \in Seq(Rect) /\ top \in Frame
    BY <1>2, <1>4
  <2> HIDE DEF top, p, r1, r0
  <2>3. LET frame == [top EXCEPT !.phase = p, !.r1 = r1, !.r0 = r0] IN
        /\ frame \in Frame /\ frame.at = top.at /\ frame.rect = top.rect
        /\ frame.phase = p /\ frame.r1 = r1 /\ frame.r0 = r0
    BY <2>1, <2>2 DEF Frame
  <2>4. cut = [top EXCEPT !.phase = p, !.r1 = r1, !.r0 = r0]
    BY DEF p, r1, r0
  <2> HIDE DEF cut
  <2> QED
    BY <2>1, <2>3, <2>4 DEF r1, r0
<1>6. /\ stack' \in Seq(Frame) /\ DOMAIN stack' = DOMAIN stack
      /\ stack'[n] = cut
      /\ \A f \in DOMAIN stack : f # n => stack'[f] = stack[f]
  BY <1>1, <1>5, BecomeShape
<1> HIDE DEF n, cut, area
<1>7. \A f \in DOMAIN stack : f # n => f < n /\ stack[f].phase = "rest"
  BY <1>1, <1>2 DEF Nesting
<1>8. n \notin Suspended /\ Suspended = {f \in DOMAIN stack : f # n} /\ Suspended' = DOMAIN stack
  BY <1>1, <1>5, <1>6, <1>7 DEF Suspended
<1>9. \A f \in DOMAIN stack : stack'[f].at = stack[f].at /\ stack'[f].rect = stack[f].rect
  BY <1>5, <1>6
<1>10. \A f \in Suspended : /\ f \in DOMAIN stack /\ f # n /\ stack'[f] = stack[f]
                            /\ stack[f].at # at
                            /\ \A k \in DOMAIN stack[f].r1 : stack[f].r1[k] # rect
  <2> SUFFICES ASSUME NEW f \in Suspended
               PROVE  /\ stack[f].at # at
                      /\ \A k \in DOMAIN stack[f].r1 : stack[f].r1[k] # rect
    BY <1>6, <1>8
  <2>1. f \in DOMAIN stack /\ f < n
    BY <1>7, <1>8
  <2>2. ~Overlaps(rect, list[stack[f].at].rect)
    BY <2>1, <1>1 DEF DeeperOutside
  <2>3. \A k \in DOMAIN stack[f].r1 : ~Overlaps(rect, stack[f].r1[k])
    BY <2>1, <1>1 DEF DeeperOutside
  <2> QED
    BY <2>2, <2>3, <1>1, <1>3, OverlapsItself DEF area
<1>11. TypeOK'
  BY <1>1, <1>2, <1>6, <1>9 DEF TypeOK
<1>12. ListApart' /\ calls' # <<>>
  BY <1>1 DEF ListApart
<1>13. Nesting'
  <2> SUFFICES ASSUME NEW f \in DOMAIN stack, NEW g \in DOMAIN stack, f < g
               PROVE  stack'[f].phase = "rest" /\ stack'[f].at <= stack'[g].at
    BY <1>6 DEF Nesting
  <2>1. f # n /\ stack[f].phase = "rest" /\ stack[f].at <= stack[g].at
    BY <1>2 DEF Nesting
  <2> QED
    BY <2>1, <1>6, <1>9
<1>14. Passed'
  BY <1>1, <1>6, <1>9 DEF Passed
<1>15. DeeperOutside'
  <2> SUFFICES ASSUME NEW f \in DOMAIN stack, NEW g \in DOMAIN stack, f < g
               PROVE  /\ ~Overlaps(stack'[g].rect, list[stack'[f].at].rect)
                      /\ \A k \in DOMAIN stack'[f].r1 : ~Overlaps(stack'[g].rect, stack'[f].r1[k])
    BY <1>1, <1>6 DEF DeeperOutside
  <2>1. stack'[f] = stack[f]
    BY <1>6, <1>2
  <2> QED
    BY <2>1, <1>9 DEF DeeperOutside
<1>16. /\ Apart(cut.r1)
       /\ \A k \in DOMAIN cut.r1 : cut.r1[k] \in Strips(rect, area.rect)
       /\ \A s \in Strips(rect, area.rect) : \E k \in DOMAIN cut.r1 : cut.r1[k] = s
  <2>1. /\ Apart(StripSeq(rect, area.rect))
        /\ \A x : (\E k \in DOMAIN StripSeq(rect, area.rect) : StripSeq(rect, area.rect)[k] = x)
                     <=> x \in Strips(rect, area.rect)
    BY <1>1, <1>3, StripSeqShape
  <2> QED
    BY <2>1, <1>5
<1>17. PiecesOfCut'
  <2> SUFFICES ASSUME NEW f \in DOMAIN stack
               PROVE  /\ Overlaps(stack'[f].rect, list[stack'[f].at].rect)
                      /\ stack'[f].r0 = StripSeq(list[stack'[f].at].rect, stack'[f].rect)
                      /\ \A k \in DOMAIN stack'[f].r1 :
                            stack'[f].r1[k] \in Strips(stack'[f].rect, list[stack'[f].at].rect)
                      /\ Apart(stack'[f].r1)
    BY <1>1, <1>8 DEF PiecesOfCut, Apart
  <2>1. CASE f = n
    BY <2>1, <1>1, <1>5, <1>6, <1>16 DEF area
  <2>2. CASE f # n
    BY <2>2, <1>6, <1>8 DEF PiecesOfCut
  <2> QED
    BY <2>1, <2>2
<1>18. TailOutside'
  <2> SUFFICES ASSUME NEW f \in DOMAIN stack, stack'[f].phase = "tail",
                      NEW k \in DOMAIN stack'[f].r1, NEW i \in DOMAIN list
               PROVE  ~Overlaps(stack'[f].r1[k], list[i].rect)
    BY <1>1, <1>6 DEF TailOutside
  <2>1. f = n
    BY <1>6, <1>7
  <2>2. at = Len(list) /\ cut.r1[k] \in Strips(rect, area.rect)
    BY <2>1, <1>5, <1>6, <1>16
  <2>3. i = at \/ i \in 1..(at - 1)
    BY <2>2, <1>2
  <2>4. \A j \in 1..(at - 1) : ~Overlaps(rect, list[j].rect)
    BY <1>1 DEF Passed
  <2>5. /\ ~Overlaps(cut.r1[k], area.rect)
        /\ \A t \in Rect : ~Overlaps(rect, t) => ~Overlaps(cut.r1[k], t)
    BY <2>2, <1>1, <1>3, StripsShape
  <2> QED
    BY <2>1, <2>3, <2>4, <2>5, <1>2, <1>6 DEF area
<1>19. Owners' = Owners /\ Owners \subseteq Owner
  BY <1>1, OwnersKnown DEF Owners
<1>20. Areas' = (Areas \ {area}) \union Pieces(area, rect, Owners)
  <2>1. \A i \in DOMAIN list : i # at => ~Overlaps(list[i].rect, area.rect) /\ list[i] # area
    BY <1>3, OverlapsItself DEF ListApart, area
  <2>2. \A f \in Suspended : \A x \in Pieces(list[stack[f].at], stack[f].rect, Owners) : x # area
    <3> SUFFICES ASSUME NEW f \in Suspended,
                        NEW x \in Pieces(list[stack[f].at], stack[f].rect, Owners)
                 PROVE  x # area
      OBVIOUS
    <3>1. /\ f \in DOMAIN stack /\ stack[f].at \in DOMAIN list /\ stack[f].rect \in Rect
          /\ list[stack[f].at] \in ListArea /\ list[stack[f].at].rect \in Rect
      BY <1>2, <1>10
    <3>2. Overlaps(stack[f].rect, list[stack[f].at].rect)
      BY DEF PiecesOfCut
    <3>3. Overlaps(list[stack[f].at].rect, stack[f].rect) /\ ~Overlaps(list[stack[f].at].rect, area.rect)
      BY <3>1, <3>2, <2>1, <1>10, OverlapsSymmetric
    <3>4. ~Overlaps(x.rect, area.rect)
      BY <3>1, <3>3, <1>3, <1>19, PiecesShape
    <3> QED
      BY <3>4, <1>3, OverlapsItself
  <2>3. \A x : (\E i \in DOMAIN list : (\A f \in DOMAIN stack : stack[f].at # i) /\ list[i] = x)
                 <=> /\ \E i \in DOMAIN list : (\A f \in Suspended : stack[f].at # i) /\ list[i] = x
                     /\ x # area
    BY <2>1, <1>1, <1>8 DEF area
  <2>4. \A x : (\E f \in DOMAIN stack : x \in Pieces(list[stack[f].at], stack[f].rect, Owners))
                 <=> \/ \E f \in Suspended : x \in Pieces(list[stack[f].at], stack[f].rect, Owners)
                     \/ x \in Pieces(area, rect, Owners)
    BY <1>1, <1>8 DEF area
  <2>5. \A x : IsArea(x)' <=>
                 \/ \E i \in DOMAIN list : (\A f \in DOMAIN stack : stack[f].at # i) /\ list[i] = x
                 \/ \E f \in DOMAIN stack : x \in Pieces(list[stack[f].at], stack[f].rect, Owners)
    BY <1>1, <1>8, <1>9, <1>19 DEF IsArea
  <2>6. \A x : IsArea(x)' <=> (IsArea(x) /\ x # area) \/ x \in Pieces(area, rect, Owners)
    BY <2>2, <2>3, <2>4, <2>5 DEF IsArea
  <2> QED
    BY <2>6, Mapped
<1>21. area \in Areas
  BY <1>3, <1>10, Mapped DEF IsArea, area
<1>22. rect \in Pending /\ Pending' = (Pending \ {rect}) \union Strips(rect, area.rect)
  <2>1. \A x : IsPendingPiece(x) <=>
                 \/ x = rect
                 \/ \E f \in Suspended : \E k \in DOMAIN stack[f].r1 : stack[f].r1[k] = x
    BY <1>1, <1>8 DEF IsPendingPiece
  <2>2. \A x : IsPendingPiece(x)' <=>
                 \/ \E f \in Suspended : \E k \in DOMAIN stack[f].r1 : stack[f].r1[k] = x
                 \/ \E k \in DOMAIN cut.r1 : cut.r1[k] = x
    BY <1>1, <1>6, <1>8, <1>10 DEF IsPendingPiece
  <2>3. \A x : IsPendingPiece(x)' <=> (IsPendingPiece(x) /\ x # rect) \/ x \in Strips(rect, area.rect)
    BY <2>1, <2>2, <1>10, <1>16
  <2> QED
    BY <2>1, <2>3, Mapped
<1>23. Partition!Split(rect, area)
  BY <1>1, <1>20, <1>22, PartitionGeometry DEF Partition!Split, Owners
<1> QED
  BY <1>11, <1>12, <1>13, <1>14, <1>15, <1>17, <1>18, <1>21, <1>22, <1>23 DEF Partition!Next

\* A call at the last area saves a piece behind it without another walk.
LEMMA SaveOutsideStep ==
    ASSUME IInv, SaveOutside
    PROVE  IInv' /\ Partition!Next
<1> USE DEF IInv
<1> DEFINE n == Len(stack)
           top == stack[n]
           at == top.at
           head == Head(top.r1)
           rest == Tail(top.r1)
           new == [rect |-> head, owners |-> Owners]
           left == [top EXCEPT !.r1 = Tail(@)]
           held == {stack[f].at : f \in DOMAIN stack}
<1>1. /\ n \in DOMAIN stack /\ stack # <<>> /\ top = Top /\ top.phase = "tail" /\ top.r1 # <<>>
      /\ list' = InsertAt(list, at + 1, new) /\ Become(left) /\ calls' = calls
  BY TopRuns DEF SaveOutside, Running
<1>2. /\ DOMAIN stack = 1..n /\ n \in Nat /\ DOMAIN list = 1..Len(list) /\ Len(list) \in Nat
      /\ \A f \in DOMAIN stack : stack[f].at \in DOMAIN list /\ stack[f].rect \in Rect
      /\ \A f \in DOMAIN stack : \A k \in DOMAIN stack[f].r1 : stack[f].r1[k] \in Rect
      /\ \A i \in DOMAIN list : list[i] \in ListArea /\ list[i].rect \in Rect
      /\ top \in Frame /\ top.r1 \in Seq(Rect) /\ list \in Seq(ListArea)
  BY <1>1, Types
<1>3. /\ rest \in Seq(Rect)
      /\ 1 \in DOMAIN top.r1 /\ head = top.r1[1]
      /\ \A k \in DOMAIN rest : k + 1 \in DOMAIN top.r1 /\ rest[k] = top.r1[k + 1] /\ k + 1 # 1
      /\ \A k \in DOMAIN top.r1 : k = 1 \/ (k - 1 \in DOMAIN rest /\ rest[k - 1] = top.r1[k])
  <2> HIDE DEF top
  <2>1. /\ head = top.r1[1] /\ rest \in Seq(Rect) /\ Len(rest) = Len(top.r1) - 1
        /\ \A i \in 1..Len(rest) : rest[i] = top.r1[i + 1]
    BY <1>1, <1>2, HeadTailProperties
  <2>2. /\ DOMAIN rest = 1..Len(rest) /\ DOMAIN top.r1 = 1..Len(top.r1)
        /\ Len(top.r1) \in Nat \ {0}
    BY <2>1, <1>1, <1>2, EmptySeq, LenProperties
  <2> HIDE DEF rest, head
  <2> QED
    BY <2>1, <2>2
<1>4. head \in Rect
  BY <1>1, <1>2, <1>3
<1>5. new \in ListArea /\ new.rect = head
  BY <1>4, OwnersKnown DEF ListArea
<1>6. left \in Frame /\ left.r1 = rest /\ left.phase = "tail" /\ left.at = at
      /\ left.rect = top.rect /\ left.r0 = top.r0
  <2> HIDE DEF top
  <2> QED
    BY <1>1, <1>2, <1>3 DEF Frame
<1>7. /\ stack' \in Seq(Frame) /\ DOMAIN stack' = DOMAIN stack
      /\ stack'[n] = left
      /\ \A f \in DOMAIN stack : f # n => stack'[f] = stack[f]
  BY <1>1, <1>6, BecomeShape
<1>8. list' = Spliced(list, at, <<new>>, at + 1)
  <2>1. (at + 1) - 1 = at
    BY <1>1, <1>2
  <2> QED
    BY <2>1, <1>1 DEF InsertAt, Spliced
<1>9. /\ <<new>> \in Seq(ListArea) /\ Len(<<new>>) = 1 /\ DOMAIN <<new>> = {1} /\ <<new>>[1] = new
  BY <1>5
<1>10. /\ at \in 0..Len(list) /\ at + 1 \in (at + 1)..(Len(list) + 1) /\ at \in Nat /\ at <= Len(list)
  BY <1>1, <1>2
<1> HIDE DEF n, new, left, head, rest, at
<1>11. /\ list' \in Seq(ListArea) /\ Len(list') = Len(list) + 1
       /\ \A i \in 1..at : list'[i] = list[i]
  <2>1. LET w == Spliced(list, at, <<new>>, at + 1)
            by == at + Len(<<new>>) + 1 - (at + 1)
        IN  /\ w \in Seq(ListArea)
            /\ Len(w) = Len(list) + by
            /\ \A i \in 1..at : w[i] = list[i]
    BY <1>2, <1>9, <1>10, SplicedShape
  <2>2. at + Len(<<new>>) + 1 - (at + 1) = 1
    BY <1>9, <1>10
  <2> QED
    BY <2>1, <2>2, <1>8
<1>12. DOMAIN list' = 1..(Len(list) + 1)
  BY <1>2, <1>11, LenProperties
<1>13. \A f \in DOMAIN stack : f # n => f < n /\ stack[f].phase = "rest"
  BY <1>1, <1>2 DEF Nesting
<1>14. Suspended = DOMAIN stack /\ Suspended' = DOMAIN stack
  BY <1>1, <1>6, <1>7, <1>13 DEF Suspended
<1>15. \A f \in DOMAIN stack : /\ stack'[f].at = stack[f].at /\ stack'[f].rect = stack[f].rect
                               /\ stack[f].at \in 1..at /\ stack[f].at \in DOMAIN list'
                               /\ list'[stack[f].at] = list[stack[f].at]
  <2> SUFFICES ASSUME NEW f \in DOMAIN stack
               PROVE  /\ stack'[f].at = stack[f].at /\ stack'[f].rect = stack[f].rect
                      /\ stack[f].at \in 1..at /\ stack[f].at \in DOMAIN list'
                      /\ list'[stack[f].at] = list[stack[f].at]
    OBVIOUS
  <2>1. stack'[f].at = stack[f].at /\ stack'[f].rect = stack[f].rect
    BY <1>6, <1>7 DEF at
  <2>2. stack[f].at <= at
    BY <1>1, <1>2, <1>10, <1>13 DEF Nesting, at
  <2>3. stack[f].at \in 1..Len(list)
    BY <1>2
  <2>4. stack[f].at \in 1..at /\ stack[f].at \in 1..(Len(list) + 1)
    BY <2>2, <2>3, <1>2, <1>10
  <2> QED
    BY <2>1, <2>4, <1>11, <1>12
<1>16. \A k \in DOMAIN list' : list'[k] = new \/ \E i \in DOMAIN list : list'[k] = list[i]
  <2> DEFINE m == <<new>>
             b == at + 1
  <2>1. m \in Seq(ListArea) /\ DOMAIN m = {1} /\ m[1] = new
    BY <1>9
  <2>2. b \in (at + 1)..(Len(list) + 1)
    BY <1>10
  <2> HIDE DEF m, b
  <2>3. \A k \in DOMAIN Spliced(list, at, m, b) :
            LET w == Spliced(list, at, m, b)
                by == at + Len(m) + 1 - b
            IN  \/ k \in 1..at /\ k \in DOMAIN list /\ w[k] = list[k]
                \/ ~(k <= at) /\ k - at \in DOMAIN m /\ w[k] = m[k - at]
                \/ k - by \in b..Len(list) /\ k - by \in DOMAIN list /\ w[k] = list[k - by]
    BY <2>1, <2>2, <1>2, <1>10, SplicedFrom
  <2>4. list' = Spliced(list, at, m, b)
    BY <1>8 DEF m, b
  <2> QED
    BY <2>1, <2>3, <2>4
<1>17. \A i \in DOMAIN list : ~Overlaps(head, list[i].rect) /\ ~Overlaps(list[i].rect, head)
  <2>1. \A i \in DOMAIN list : ~Overlaps(head, list[i].rect)
    BY <1>1, <1>3 DEF TailOutside
  <2> QED
    BY <2>1, <1>2, <1>4, OverlapsSymmetric
<1>18. /\ \A k \in DOMAIN top.r1 : top.r1[k] \in Strips(top.rect, list[at].rect)
       /\ Overlaps(top.rect, list[at].rect) /\ top.rect \in Rect /\ list[at].rect \in Rect
  BY <1>1, <1>2, <1>14 DEF PiecesOfCut, at
<1>19. Apart(top.r1)
  BY <1>1, <1>14 DEF PiecesOfCut
<1>20. Apart(rest) /\ \A k \in DOMAIN rest : ~Overlaps(rest[k], head)
  <2>1. \A k, l \in DOMAIN rest : k # l => k + 1 # l + 1
    <3>1. \A k \in DOMAIN rest : k \in Nat
      BY <1>3, LenProperties
    <3> QED
      BY <3>1
  <2> QED
    BY <2>1, <1>3, <1>19 DEF Apart
<1>21. TypeOK'
  <2>1. list' # <<>> /\ list' \in Seq(Partition!Area)
    BY <1>2, <1>11, PartitionGeometry, EmptySeq
  <2> QED
    BY <2>1, <1>1, <1>7, <1>15 DEF TypeOK
<1>22. ListApart' /\ calls' # <<>>
  <2>1. AreasApart(list) /\ AreasApart(<<new>>)
    BY <1>9 DEF ListApart, AreasApart
  <2>2. \A i \in DOMAIN list, j \in DOMAIN <<new>> :
            i <= at \/ at + 1 <= i => ~Overlaps(<<new>>[j].rect, list[i].rect)
    BY <1>5, <1>9, <1>17
  <2>3. AreasApart(list')
    BY <2>1, <2>2, <1>2, <1>8, <1>9, <1>10, SplicedApart
  <2> QED
    BY <2>3, <1>1 DEF ListApart, AreasApart
<1>23. Nesting'
  <2> SUFFICES ASSUME NEW f \in DOMAIN stack, NEW g \in DOMAIN stack, f < g
               PROVE  stack'[f].phase = "rest" /\ stack'[f].at <= stack'[g].at
    BY <1>7 DEF Nesting
  <2>1. f # n /\ stack[f].phase = "rest" /\ stack[f].at <= stack[g].at
    BY <1>2 DEF Nesting
  <2> QED
    BY <2>1, <1>7, <1>15
<1>24. Passed'
  <2> SUFFICES ASSUME NEW f \in DOMAIN stack, NEW i \in 1..(stack[f].at - 1)
               PROVE  ~Overlaps(stack[f].rect, list'[i].rect)
    BY <1>7, <1>15 DEF Passed
  <2>1. i \in 1..at
    BY <1>2, <1>10, <1>15
  <2> QED
    BY <2>1, <1>11 DEF Passed
<1>25. DeeperOutside'
  <2> SUFFICES ASSUME NEW f \in DOMAIN stack, NEW g \in DOMAIN stack, f < g
               PROVE  /\ ~Overlaps(stack'[g].rect, list'[stack'[f].at].rect)
                      /\ \A k \in DOMAIN stack'[f].r1 : ~Overlaps(stack'[g].rect, stack'[f].r1[k])
    BY <1>7 DEF DeeperOutside
  <2>1. stack'[f] = stack[f]
    BY <1>7, <1>2
  <2> QED
    BY <2>1, <1>15 DEF DeeperOutside
<1>26. PiecesOfCut'
  <2> SUFFICES ASSUME NEW f \in DOMAIN stack
               PROVE  /\ Overlaps(stack'[f].rect, list'[stack'[f].at].rect)
                      /\ stack'[f].r0 = StripSeq(list'[stack'[f].at].rect, stack'[f].rect)
                      /\ \A k \in DOMAIN stack'[f].r1 :
                            stack'[f].r1[k] \in Strips(stack'[f].rect, list'[stack'[f].at].rect)
                      /\ Apart(stack'[f].r1)
    BY <1>14 DEF PiecesOfCut, Apart
  <2>1. CASE f = n
    <3>1. stack'[f].r0 = StripSeq(list[at].rect, top.rect)
      BY <2>1, <1>1, <1>6, <1>7, <1>14 DEF PiecesOfCut, at
    <3>2. list'[stack'[n].at] = list[at] /\ stack'[n].rect = top.rect /\ stack'[n].r1 = rest
      BY <1>1, <1>6, <1>7, <1>15 DEF at
    <3>3. \A k \in DOMAIN rest : rest[k] \in Strips(top.rect, list[at].rect)
      BY <1>3, <1>18
    <3> QED
      BY <3>1, <3>2, <3>3, <2>1, <1>18, <1>20
  <2>2. CASE f # n
    BY <2>2, <1>7, <1>14, <1>15 DEF PiecesOfCut
  <2> QED
    BY <2>1, <2>2
<1>27. TailOutside'
  <2> SUFFICES ASSUME NEW f \in DOMAIN stack, stack'[f].phase = "tail",
                      NEW k \in DOMAIN stack'[f].r1, NEW i \in DOMAIN list'
               PROVE  ~Overlaps(stack'[f].r1[k], list'[i].rect)
    BY <1>7 DEF TailOutside
  <2>1. f = n
    BY <1>7, <1>13
  <2>2. stack'[f].r1[k] = rest[k] /\ k \in DOMAIN rest
    BY <2>1, <1>6, <1>7
  <2>3. \A j \in DOMAIN list : ~Overlaps(rest[k], list[j].rect)
    BY <2>2, <1>1, <1>3 DEF TailOutside
  <2> QED
    BY <2>2, <2>3, <1>5, <1>16, <1>20
<1>28. Owners' = Owners /\ Owners \subseteq Owner
  BY <1>1, OwnersKnown DEF Owners
<1>29. Areas' = Areas \union {new}
  <2>1. held \in SUBSET (1..at)
    BY <1>15
  <2> HIDE DEF held
  <2>2. \A x : (\E k \in DOMAIN list' \ held : list'[k] = x)
                  <=> \/ \E i \in DOMAIN list \ held : (i <= at \/ at + 1 <= i) /\ list[i] = x
                      \/ \E j \in DOMAIN <<new>> : <<new>>[j] = x
    <3> DEFINE m == <<new>>
               b == at + 1
    <3>1. m \in Seq(ListArea) /\ b \in (at + 1)..(Len(list) + 1) /\ list' = Spliced(list, at, m, b)
      BY <1>8, <1>9, <1>10
    <3> HIDE DEF m, b
    <3>2. \A x : HasOutside(Spliced(list, at, m, b), held, x)
                    <=> Stays(list, held, at, b, x) \/ \E j \in DOMAIN m : m[j] = x
      BY <3>1, <2>1, <1>2, <1>10, SplicedElements
    <3> QED
      BY <3>1, <3>2 DEF m, b, HasOutside, Stays
  <2>3. \A i \in DOMAIN list : i <= at \/ at + 1 <= i
    BY <1>2, <1>10
  <2>4. \A x : (\E k \in DOMAIN list' \ held : list'[k] = x)
                  <=> (\E i \in DOMAIN list \ held : list[i] = x) \/ x = new
    BY <2>2, <2>3, <1>9
  <2>5. \A x : IsArea(x) <=> \/ \E i \in DOMAIN list \ held : list[i] = x
                             \/ \E f \in DOMAIN stack : x \in Pieces(list[stack[f].at], stack[f].rect, Owners)
    BY <1>14 DEF IsArea, held
  <2>6. \A x : IsArea(x)' <=> \/ \E i \in DOMAIN list' \ held : list'[i] = x
                              \/ \E f \in DOMAIN stack : x \in Pieces(list[stack[f].at], stack[f].rect, Owners)
    BY <1>14, <1>15, <1>28 DEF IsArea, held
  <2>7. \A x : IsArea(x)' <=> IsArea(x) \/ x = new
    BY <2>4, <2>5, <2>6
  <2> QED
    BY <2>7, Mapped
<1>30. head \in Pending /\ Pending' = Pending \ {head}
  <2>1. \A f \in DOMAIN stack : f # n => \A k \in DOMAIN stack[f].r1 : stack[f].r1[k] # head
    <3> SUFFICES ASSUME NEW f \in DOMAIN stack, f # n, NEW k \in DOMAIN stack[f].r1
                 PROVE  stack[f].r1[k] # head
      OBVIOUS
    <3>1. ~Overlaps(top.rect, stack[f].r1[k]) /\ stack[f].r1[k] \in Rect
      BY <1>1, <1>2, <1>13 DEF DeeperOutside
    <3>2. ~Overlaps(head, stack[f].r1[k])
      BY <3>1, <1>3, <1>18, StripsShape
    <3> QED
      BY <3>2, <1>4, OverlapsItself
  <2>2. \A k \in DOMAIN rest : rest[k] # head
    BY <1>4, <1>20, OverlapsItself
  <2>3. \A x : IsPendingPiece(x) <=>
                  \/ \E f \in DOMAIN stack : f # n /\ \E k \in DOMAIN stack[f].r1 : stack[f].r1[k] = x
                  \/ \E k \in DOMAIN top.r1 : top.r1[k] = x
    BY <1>1, <1>14 DEF IsPendingPiece
  <2>4. \A x : IsPendingPiece(x)' <=>
                  \/ \E f \in DOMAIN stack : f # n /\ \E k \in DOMAIN stack[f].r1 : stack[f].r1[k] = x
                  \/ \E k \in DOMAIN rest : rest[k] = x
    BY <1>1, <1>6, <1>7, <1>14 DEF IsPendingPiece
  <2>5. \A x : (\E k \in DOMAIN top.r1 : top.r1[k] = x)
                  <=> x = head \/ \E k \in DOMAIN rest : rest[k] = x
    BY <1>3
  <2>6. /\ \A x : IsPendingPiece(x) <=> x = head \/ IsPendingPiece(x)'
        /\ \A x : x = head => ~IsPendingPiece(x)'
    BY <2>1, <2>2, <2>3, <2>4, <2>5
  <2> QED
    BY <2>6, Mapped
<1>31. \A a \in Areas : ~Overlaps(head, a.rect)
  <2> SUFFICES ASSUME NEW a, IsArea(a)
               PROVE  ~Overlaps(head, a.rect)
    BY Mapped
  <2>1. CASE \E i \in DOMAIN list : list[i] = a
    BY <2>1, <1>17
  <2>2. CASE \E f \in DOMAIN stack : a \in Pieces(list[stack[f].at], stack[f].rect, Owners)
    <3>1. PICK f \in DOMAIN stack : a \in Pieces(list[stack[f].at], stack[f].rect, Owners)
      BY <2>2
    <3>2. Overlaps(stack[f].rect, list[stack[f].at].rect)
      BY <1>14 DEF PiecesOfCut
    <3>3. /\ list[stack[f].at] \in ListArea /\ list[stack[f].at].rect \in Rect
          /\ stack[f].rect \in Rect /\ Overlaps(list[stack[f].at].rect, stack[f].rect)
          /\ ~Overlaps(list[stack[f].at].rect, head)
      BY <3>2, <1>2, <1>17, OverlapsSymmetric
    <3> QED
      BY <3>1, <3>3, <1>4, <1>28, PiecesShape
  <2> QED
    BY <2>1, <2>2, <1>14 DEF IsArea
<1>32. Partition!Extend(head)
  <2>1. new = [rect |-> head, owners |-> Last(calls).owners]
    BY DEF new, Owners
  <2> QED
    BY <2>1, <1>1, <1>29, <1>30, <1>31, PartitionGeometry DEF Partition!Extend
<1> QED
  BY <1>21, <1>22, <1>23, <1>24, <1>25, <1>26, <1>27, <1>30, <1>32 DEF Partition!Next

\* A piece of a waiting call becomes the rectangle of a deeper one.
LEMMA RecurseStep ==
    ASSUME IInv, Recurse
    PROVE  IInv' /\ UNCHANGED Partition!vars
<1> USE DEF IInv
<1> DEFINE n == Len(stack)
           top == stack[n]
           at == top.at
           head == Head(top.r1)
           rest == Tail(top.r1)
           left == [top EXCEPT !.r1 = Tail(@)]
           deeper == Start(top.at, head)
           waiting == [stack EXCEPT ![n] = left]
<1>1. /\ n \in DOMAIN stack /\ stack # <<>> /\ top = Top /\ top.phase = "rest" /\ top.r1 # <<>>
      /\ list' = list /\ calls' = calls
  BY TopRuns DEF Recurse, Running
<1>2. stack' = Append(waiting, deeper)
  BY <1>1 DEF Recurse
<1>3. /\ DOMAIN stack = 1..n /\ n \in Nat /\ DOMAIN list = 1..Len(list) /\ Len(list) \in Nat
      /\ \A f \in DOMAIN stack : stack[f].at \in DOMAIN list /\ stack[f].rect \in Rect
      /\ \A f \in DOMAIN stack : \A k \in DOMAIN stack[f].r1 : stack[f].r1[k] \in Rect
      /\ \A i \in DOMAIN list : list[i] \in ListArea /\ list[i].rect \in Rect
      /\ top \in Frame /\ top.r1 \in Seq(Rect) /\ stack \in Seq(Frame)
  BY <1>1, Types
<1>4. /\ rest \in Seq(Rect)
      /\ 1 \in DOMAIN top.r1 /\ head = top.r1[1]
      /\ \A k \in DOMAIN rest : k + 1 \in DOMAIN top.r1 /\ rest[k] = top.r1[k + 1] /\ k + 1 # 1
      /\ \A k \in DOMAIN top.r1 : k = 1 \/ (k - 1 \in DOMAIN rest /\ rest[k - 1] = top.r1[k])
  <2> HIDE DEF top
  <2>1. /\ head = top.r1[1] /\ rest \in Seq(Rect) /\ Len(rest) = Len(top.r1) - 1
        /\ \A i \in 1..Len(rest) : rest[i] = top.r1[i + 1]
    BY <1>1, <1>3, HeadTailProperties
  <2>2. /\ DOMAIN rest = 1..Len(rest) /\ DOMAIN top.r1 = 1..Len(top.r1)
        /\ Len(top.r1) \in Nat \ {0}
    BY <2>1, <1>1, <1>3, EmptySeq, LenProperties
  <2> HIDE DEF rest, head
  <2> QED
    BY <2>1, <2>2
<1>5. head \in Rect
  BY <1>1, <1>3, <1>4
<1>6. left \in Frame /\ left.r1 = rest /\ left.phase = "rest" /\ left.at = at
      /\ left.rect = top.rect /\ left.r0 = top.r0
  <2> HIDE DEF top
  <2> QED
    BY <1>1, <1>3, <1>4 DEF Frame
<1>7. deeper \in Frame /\ deeper.phase = "walk" /\ deeper.at = at /\ deeper.rect = head
  <2>1. at \in Nat /\ <<>> \in Seq(Rect)
    BY <1>1, <1>3, EmptySeq
  <2> HIDE DEF head, at
  <2>2. deeper = Start(at, head)
    BY DEF at
  <2> HIDE DEF deeper
  <2> QED
    BY <2>1, <2>2, <1>5 DEF Start, Frame
<1> HIDE DEF n, left, head, rest, at, deeper
<1>8. /\ waiting \in Seq(Frame) /\ Len(waiting) = n
      /\ waiting[n] = left
      /\ \A f \in DOMAIN stack : f # n => waiting[f] = stack[f]
  <2>1. /\ waiting \in Seq(Frame) /\ Len(waiting) = Len(stack)
        /\ \A j \in 1..Len(stack) : waiting[j] = IF j = n THEN left ELSE stack[j]
    BY <1>1, <1>3, <1>6, ExceptSeq DEF n
  <2> QED
    BY <2>1, <1>1, <1>3 DEF n
<1> HIDE DEF waiting
<1>9. /\ stack' \in Seq(Frame) /\ Len(stack') = n + 1 /\ stack'[n + 1] = deeper
      /\ \A f \in 1..n : stack'[f] = waiting[f]
  BY <1>2, <1>7, <1>8, AppendProperties
<1>10. /\ DOMAIN stack' = 1..(n + 1)
       /\ stack'[n] = left
       /\ \A f \in DOMAIN stack : f # n => stack'[f] = stack[f]
  BY <1>1, <1>3, <1>8, <1>9, LenProperties
<1>11. \A f \in DOMAIN stack' : f = n + 1 \/ (f \in DOMAIN stack /\ f < n + 1)
  BY <1>3, <1>10
<1>12. \A f \in DOMAIN stack : f \in DOMAIN stack' /\ f # n + 1
  BY <1>3, <1>10
<1>13. \A f \in DOMAIN stack : stack[f].phase = "rest" /\ (f # n => f < n)
  BY <1>1, <1>3 DEF Nesting
<1>14. \A f \in DOMAIN stack : /\ stack'[f].at = stack[f].at /\ stack'[f].rect = stack[f].rect
                               /\ stack'[f].phase = "rest" /\ stack'[f].r0 = stack[f].r0
  BY <1>6, <1>10, <1>13 DEF at
<1>15. Suspended = DOMAIN stack /\ Suspended' = DOMAIN stack
  BY <1>7, <1>9, <1>11, <1>12, <1>13, <1>14 DEF Suspended
<1>16. /\ \A k \in DOMAIN top.r1 : top.r1[k] \in Strips(top.rect, list[at].rect)
       /\ Overlaps(top.rect, list[at].rect) /\ top.rect \in Rect /\ list[at].rect \in Rect
       /\ Apart(top.r1)
  BY <1>1, <1>3, <1>15 DEF PiecesOfCut, at
<1>17. Apart(rest) /\ \A k \in DOMAIN rest : ~Overlaps(rest[k], head) /\ ~Overlaps(head, rest[k])
  <2>1. \A k, l \in DOMAIN rest : k # l => k + 1 # l + 1
    <3>1. \A k \in DOMAIN rest : k \in Nat
      BY <1>4, LenProperties
    <3> QED
      BY <3>1
  <2> QED
    BY <2>1, <1>4, <1>16 DEF Apart
<1>18. /\ ~Overlaps(head, list[at].rect)
       /\ \A r \in Rect : ~Overlaps(top.rect, r) => ~Overlaps(head, r) /\ ~Overlaps(r, head)
  BY <1>4, <1>16, StripsShape
<1>19. TypeOK'
  <2>1. \A f \in DOMAIN stack' : stack'[f].at \in DOMAIN list
    BY <1>1, <1>3, <1>7, <1>9, <1>11, <1>14 DEF at
  <2> QED
    BY <2>1, <1>1, <1>9 DEF TypeOK
<1>20. ListApart' /\ calls' # <<>>
  BY <1>1 DEF ListApart
<1>21. Nesting'
  <2> SUFFICES ASSUME NEW f \in DOMAIN stack', NEW g \in DOMAIN stack', f < g
               PROVE  stack'[f].phase = "rest" /\ stack'[f].at <= stack'[g].at
    BY DEF Nesting
  <2>1. f \in DOMAIN stack
    BY <1>3, <1>10
  <2>2. CASE g \in DOMAIN stack
    BY <2>1, <2>2, <1>14 DEF Nesting
  <2>3. CASE g = n + 1
    <3>1. stack[f].at <= at
      BY <2>1, <1>1, <1>3, <1>13 DEF Nesting, at
    <3> QED
      BY <3>1, <2>1, <2>3, <1>7, <1>9, <1>14
  <2> QED
    BY <2>2, <2>3, <1>11
<1>22. Passed'
  <2> SUFFICES ASSUME NEW f \in DOMAIN stack', NEW i \in 1..(stack'[f].at - 1)
               PROVE  ~Overlaps(stack'[f].rect, list[i].rect)
    BY <1>1 DEF Passed
  <2>1. CASE f \in DOMAIN stack
    BY <2>1, <1>14 DEF Passed
  <2>2. CASE f = n + 1
    <3>1. i \in 1..(at - 1) /\ i \in DOMAIN list
      BY <2>2, <1>1, <1>3, <1>7, <1>9 DEF at
    <3>2. ~Overlaps(top.rect, list[i].rect)
      BY <3>1, <1>1 DEF Passed, at
    <3> QED
      BY <3>1, <3>2, <2>2, <1>3, <1>7, <1>9, <1>18
  <2> QED
    BY <2>1, <2>2, <1>11
<1>23. \A f \in DOMAIN stack : \A k \in DOMAIN stack'[f].r1 :
           \/ k \in DOMAIN stack[f].r1 /\ stack'[f].r1[k] = stack[f].r1[k] /\ f # n
           \/ k \in DOMAIN rest /\ stack'[f].r1[k] = rest[k] /\ f = n
  BY <1>6, <1>10
<1>24. DeeperOutside'
  <2> SUFFICES ASSUME NEW f \in DOMAIN stack', NEW g \in DOMAIN stack', f < g
               PROVE  /\ ~Overlaps(stack'[g].rect, list[stack'[f].at].rect)
                      /\ \A k \in DOMAIN stack'[f].r1 : ~Overlaps(stack'[g].rect, stack'[f].r1[k])
    BY <1>1 DEF DeeperOutside
  <2>1. f \in DOMAIN stack
    BY <1>3, <1>10
  <2>2. CASE g \in DOMAIN stack
    <3>1. stack'[f] = stack[f]
      BY <2>2, <2>1, <1>3, <1>10
    <3> QED
      BY <3>1, <2>1, <2>2, <1>14 DEF DeeperOutside
  <2>3. CASE g = n + 1
    <3>1. stack'[g].rect = head
      BY <2>3, <1>7, <1>9
    <3>2. CASE f = n
      BY <3>1, <3>2, <2>1, <1>14, <1>17, <1>18, <1>23 DEF at
    <3>3. CASE f # n
      <4>1. stack'[f] = stack[f] /\ f < n
        BY <3>3, <2>1, <1>10, <1>13
      <4>2. /\ ~Overlaps(top.rect, list[stack[f].at].rect)
            /\ \A k \in DOMAIN stack[f].r1 : ~Overlaps(top.rect, stack[f].r1[k])
        BY <4>1, <2>1, <1>1 DEF DeeperOutside
      <4> QED
        BY <4>1, <4>2, <3>1, <2>1, <1>3, <1>18
    <3> QED
      BY <3>2, <3>3
  <2> QED
    BY <2>2, <2>3, <1>11
<1>25. PiecesOfCut'
  <2> SUFFICES ASSUME NEW f \in DOMAIN stack
               PROVE  /\ Overlaps(stack'[f].rect, list[stack'[f].at].rect)
                      /\ stack'[f].r0 = StripSeq(list[stack'[f].at].rect, stack'[f].rect)
                      /\ \A k \in DOMAIN stack'[f].r1 :
                            stack'[f].r1[k] \in Strips(stack'[f].rect, list[stack'[f].at].rect)
                      /\ Apart(stack'[f].r1)
    BY <1>1, <1>15 DEF PiecesOfCut, Apart
  <2>1. /\ Overlaps(stack'[f].rect, list[stack'[f].at].rect)
        /\ stack'[f].r0 = StripSeq(list[stack'[f].at].rect, stack'[f].rect)
    BY <1>14, <1>15 DEF PiecesOfCut
  <2>2. CASE f = n
    <3>1. stack'[f].r1 = rest /\ stack'[f].rect = top.rect /\ stack'[f].at = at
      BY <2>2, <1>6, <1>10
    <3>2. \A k \in DOMAIN rest : rest[k] \in Strips(top.rect, list[at].rect)
      BY <1>4, <1>16
    <3> QED
      BY <3>1, <3>2, <2>1, <1>17
  <2>3. CASE f # n
    BY <2>3, <1>10, <1>15 DEF PiecesOfCut
  <2> QED
    BY <2>2, <2>3
<1>26. TailOutside'
  BY <1>7, <1>9, <1>11, <1>14 DEF TailOutside
<1>27. Areas' = Areas
  <2>1. Owners' = Owners
    BY <1>1 DEF Owners
  <2>2. \A x : IsArea(x)' <=> IsArea(x)
    BY <2>1, <1>1, <1>14, <1>15 DEF IsArea
  <2> QED
    BY <2>2, Mapped
<1>28. Pending' = Pending
  <2>1. \A x : IsPendingPiece(x) <=>
                  \/ \E f \in DOMAIN stack : f # n /\ \E k \in DOMAIN stack[f].r1 : stack[f].r1[k] = x
                  \/ \E k \in DOMAIN top.r1 : top.r1[k] = x
    BY <1>1, <1>15 DEF IsPendingPiece
  <2>2. \A x : IsPendingPiece(x)' <=>
                  \/ \E f \in DOMAIN stack : f # n /\ \E k \in DOMAIN stack[f].r1 : stack[f].r1[k] = x
                  \/ \E k \in DOMAIN rest : rest[k] = x
                  \/ x = head
    <3>1. \A x : (\E f \in DOMAIN stack' : f \notin Suspended' /\ stack'[f].rect = x) <=> x = head
      BY <1>7, <1>9, <1>10, <1>11, <1>12, <1>15, <1>3
    <3>2. \A x : (\E f \in DOMAIN stack : \E k \in DOMAIN stack'[f].r1 : stack'[f].r1[k] = x)
                    <=> \/ \E f \in DOMAIN stack : f # n /\ \E k \in DOMAIN stack[f].r1 : stack[f].r1[k] = x
                        \/ \E k \in DOMAIN rest : rest[k] = x
      BY <1>1, <1>6, <1>10
    <3> QED
      BY <3>1, <3>2, <1>15 DEF IsPendingPiece
  <2>3. \A x : (\E k \in DOMAIN top.r1 : top.r1[k] = x)
                  <=> x = head \/ \E k \in DOMAIN rest : rest[k] = x
    BY <1>4
  <2>4. \A x : IsPendingPiece(x)' <=> IsPendingPiece(x)
    BY <2>1, <2>2, <2>3
  <2> QED
    BY <2>4, Mapped
<1> QED
  BY <1>1, <1>19, <1>20, <1>21, <1>22, <1>24, <1>25, <1>26, <1>27, <1>28 DEF Partition!vars

----------------------------------------------------------------------------
(***************************************************************************)
(* What a call leaves in the place of its area.                            *)
(***************************************************************************)

Kept(area, r) ==
    [i \in DOMAIN StripSeq(area.rect, r) |->
        [rect |-> StripSeq(area.rect, r)[i], owners |-> area.owners]]
Shared(area, r, o) == [rect |-> Clip(area.rect, r), owners |-> area.owners \union o]

LEMMA FinishPieces ==
    ASSUME NEW area \in ListArea, NEW r \in Rect, Overlaps(area.rect, r), NEW o \in SUBSET Owner
    PROVE  LET kept == Reverse(Kept(area, r))
               m == <<Shared(area, r, o)>> \o kept
           IN  /\ kept \in Seq(ListArea) /\ m \in Seq(ListArea)
               /\ AreasApart(m)
               /\ \A x : (\E k \in DOMAIN m : m[k] = x) <=> x \in Pieces(area, r, o)
<1> DEFINE s == StripSeq(area.rect, r)
           n == Len(s)
           kept == Reverse(Kept(area, r))
           shared == Shared(area, r, o)
           m == <<shared>> \o kept
<1>1. /\ s \in Seq(Rect) /\ Apart(s)
      /\ \A x : (\E k \in DOMAIN s : s[k] = x) <=> x \in Strips(area.rect, r)
      /\ area.rect \in Rect /\ area.owners \subseteq Owner
  <2>1. area.rect \in Rect /\ area.owners \subseteq Owner
    BY DEF ListArea
  <2> QED
    BY <2>1, StripSeqShape
<1>2. /\ n \in Nat /\ DOMAIN s = 1..n /\ \A i \in 1..n : s[i] \in Rect
  BY <1>1, LenProperties, ElementOfSeq
<1>3. /\ Len(Kept(area, r)) = n
      /\ \A i \in 1..n : Kept(area, r)[i] = [rect |-> s[i], owners |-> area.owners]
  BY <1>2 DEF Kept
<1>4. \A i \in 1..n : n - i + 1 \in 1..n
  BY <1>2
<1>5. kept = [i \in 1..n |-> [rect |-> s[n - i + 1], owners |-> area.owners]]
  BY <1>2, <1>3, <1>4 DEF Reverse
<1>6. shared \in ListArea
  BY <1>1, ClipShape DEF ListArea, Shared
<1> HIDE DEF s, n, kept, shared
<1>7. kept \in Seq(ListArea) /\ Len(kept) = n
  <2>1. \A i \in 1..n : [rect |-> s[n - i + 1], owners |-> area.owners] \in ListArea
    BY <1>1, <1>2, <1>4 DEF ListArea
  <2> QED
    BY <2>1, <1>2, <1>5
<1>8. \A i \in 1..n : kept[i] = [rect |-> s[n - i + 1], owners |-> area.owners]
  BY <1>5
<1>9. /\ m \in Seq(ListArea) /\ DOMAIN m = 1..(n + 1)
      /\ m[1] = shared
      /\ \A i \in 1..n : m[i + 1] = kept[i]
  <2>1. <<shared>> \in Seq(ListArea) /\ Len(<<shared>>) = 1 /\ <<shared>>[1] = shared
    BY <1>6
  <2> DEFINE one == <<shared>>
  <2> HIDE DEF one
  <2>2. /\ one \o kept \in Seq(ListArea) /\ Len(one \o kept) = 1 + n
        /\ \A i \in 1..1 + n : (one \o kept)[i] = IF i <= 1 THEN one[i] ELSE kept[i - 1]
    BY <2>1, <1>7, ConcatProperties DEF one
  <2>3. \A i \in 1..n : i + 1 \in 1..1 + n /\ ~(i + 1 <= 1) /\ (i + 1) - 1 = i
    BY <1>2
  <2>4. DOMAIN (one \o kept) = 1..(n + 1)
    BY <2>2, <1>2, LenProperties
  <2>5. \A i \in 1..n : (one \o kept)[i + 1] = kept[i]
    BY <2>2, <2>3
  <2>6. (one \o kept)[1] = one[1]
    BY <2>2, <1>2
  <2> QED
    BY <2>1, <2>2, <2>4, <2>5, <2>6 DEF one
<1> HIDE DEF m
<1>10. /\ m[1].rect = Clip(area.rect, r)
       /\ \A k \in DOMAIN m : k = 1 \/ /\ n + 2 - k \in DOMAIN s
                                       /\ m[k] = [rect |-> s[n + 2 - k], owners |-> area.owners]
  <2>1. m[1].rect = Clip(area.rect, r)
    BY <1>9 DEF shared, Shared
  <2>2. ASSUME NEW k \in DOMAIN m, k # 1
        PROVE  /\ n + 2 - k \in DOMAIN s
               /\ m[k] = [rect |-> s[n + 2 - k], owners |-> area.owners]
    <3> DEFINE i == k - 1
    <3>1. i \in 1..n /\ i + 1 = k /\ n - i + 1 = n + 2 - k
      BY <2>2, <1>2, <1>9
    <3> HIDE DEF i
    <3>2. m[k] = kept[i] /\ kept[i] = [rect |-> s[n - i + 1], owners |-> area.owners]
      BY <3>1, <1>8, <1>9
    <3>3. n - i + 1 \in DOMAIN s
      BY <3>1, <1>2, <1>4
    <3> QED
      BY <3>1, <3>2, <3>3
  <2> QED
    BY <2>1, <2>2
<1>11. \A i \in DOMAIN s : \E k \in DOMAIN m : m[k] = [rect |-> s[i], owners |-> area.owners]
  <2> SUFFICES ASSUME NEW i \in DOMAIN s
               PROVE  \E k \in DOMAIN m : m[k] = [rect |-> s[i], owners |-> area.owners]
    OBVIOUS
  <2>1. n + 2 - i \in DOMAIN m /\ n + 2 - i # 1 /\ n + 2 - (n + 2 - i) = i
    BY <1>2, <1>9
  <2> QED
    BY <2>1, <1>10
<1>12. AreasApart(m)
  <2> SUFFICES ASSUME NEW k \in DOMAIN m, NEW l \in DOMAIN m, k # l
               PROVE  ~Overlaps(m[k].rect, m[l].rect)
    BY DEF AreasApart
  <2>1. \A i \in DOMAIN s : ~Overlaps(s[i], Clip(area.rect, r)) /\ ~Overlaps(Clip(area.rect, r), s[i])
    BY <1>1, ClipShape
  <2>2. CASE k = 1 \/ l = 1
    BY <2>1, <2>2, <1>10
  <2>3. CASE k # 1 /\ l # 1
    <3>1. n + 2 - k # n + 2 - l
      BY <1>2, <1>9
    <3>2. /\ m[k].rect = s[n + 2 - k] /\ n + 2 - k \in DOMAIN s
          /\ m[l].rect = s[n + 2 - l] /\ n + 2 - l \in DOMAIN s
      BY <2>3, <1>10
    <3> QED
      BY <3>1, <3>2, <1>1 DEF Apart
  <2> QED
    BY <2>2, <2>3
<1>13. \A x : (\E k \in DOMAIN m : m[k] = x) <=> x \in Pieces(area, r, o)
  <2>1. \A x : x \in Pieces(area, r, o) <=>
                  \/ x = shared
                  \/ \E p \in Strips(area.rect, r) : x = [rect |-> p, owners |-> area.owners]
    BY DEF Pieces, shared, Shared
  <2>2. \A x : (\E p \in Strips(area.rect, r) : x = [rect |-> p, owners |-> area.owners])
                  <=> \E i \in DOMAIN s : x = [rect |-> s[i], owners |-> area.owners]
    BY <1>1
  <2>3. 1 \in DOMAIN m
    BY <1>2, <1>9
  <2>4. \A x : (\E k \in DOMAIN m : m[k] = x) <=>
                  \/ x = shared
                  \/ \E i \in DOMAIN s : x = [rect |-> s[i], owners |-> area.owners]
    BY <2>3, <1>9, <1>10, <1>11
  <2> QED
    BY <2>1, <2>2, <2>4
<1> QED
  BY <1>7, <1>9, <1>12, <1>13 DEF kept, shared, m

\* A call returns: the area it held becomes the pieces it was cut into before.
LEMMA FinishStep ==
    ASSUME IInv, Finish
    PROVE  IInv' /\ UNCHANGED Partition!vars
<1> USE DEF IInv
<1> DEFINE n == Len(stack)
           top == stack[n]
           at == top.at
           rect == top.rect
           area == list[at]
           shared == Shared(area, rect, Owners)
           kept == Reverse(Kept(area, rect))
           m == <<shared>> \o kept
           a == at - 1
           b == at + 1
           held == {stack[f].at : f \in DOMAIN stack'}
<1>1. /\ n \in DOMAIN stack /\ stack # <<>> /\ top = Top /\ top.phase \in {"rest", "tail"}
      /\ top.r1 = <<>> /\ Return /\ calls' = calls
  BY TopRuns DEF Finish, Running
<1>2. /\ DOMAIN stack = 1..n /\ n \in Nat /\ DOMAIN list = 1..Len(list) /\ Len(list) \in Nat
      /\ \A f \in DOMAIN stack : stack[f].at \in DOMAIN list /\ stack[f].rect \in Rect
      /\ \A i \in DOMAIN list : list[i] \in ListArea /\ list[i].rect \in Rect
      /\ list \in Seq(ListArea)
  BY <1>1, Types
<1>3. /\ stack' \in Seq(Frame)
      /\ \A f \in DOMAIN stack' : f \in DOMAIN stack /\ f # n /\ stack'[f] = stack[f]
      /\ DOMAIN stack' = 1..(n - 1)
  BY <1>1, ReturnShape
<1>4. \A f \in DOMAIN stack : f = n \/ (f \in DOMAIN stack' /\ f < n /\ stack[f].phase = "rest")
  BY <1>1, <1>2, <1>3 DEF Nesting
<1>5. Suspended = DOMAIN stack /\ Suspended' = DOMAIN stack'
  BY <1>1, <1>3, <1>4 DEF Suspended
<1>6. /\ Overlaps(rect, area.rect) /\ top.r0 = StripSeq(area.rect, rect)
      /\ at \in DOMAIN list /\ area \in ListArea /\ area.rect \in Rect /\ rect \in Rect
  BY <1>1, <1>2, <1>5 DEF PiecesOfCut
<1>7. Overlaps(area.rect, rect) /\ Owners \subseteq Owner
  BY <1>6, OverlapsSymmetric, OwnersKnown
<1>8. /\ kept \in Seq(ListArea) /\ m \in Seq(ListArea) /\ AreasApart(m)
      /\ \A x : (\E k \in DOMAIN m : m[k] = x) <=> x \in Pieces(area, rect, Owners)
  BY <1>6, <1>7, FinishPieces
<1>9. list' = Spliced(list, a, m, b)
  <2> DEFINE front == SubSeq(list, 1, at - 1)
             back == SubSeq(list, at + 1, Len(list))
  <2>1. list' = ((front \o <<shared>>) \o kept) \o back
    BY <1>1, <1>6 DEF Finish, Kept, Shared
  <2>2. front \in Seq(ListArea) /\ <<shared>> \in Seq(ListArea)
    <3>1. \A i \in 1..(at - 1) : list[i] \in ListArea
      BY <1>2, <1>6
    <3>2. at - 1 \in Int
      BY <1>2, <1>6
    <3>3. front \in Seq(ListArea)
      BY <3>1, <3>2, SubSeqProperties
    <3>4. shared \in ListArea
      BY <1>6, <1>7, ClipShape DEF Shared, ListArea
    <3> QED
      BY <3>3, <3>4
  <2>3. Spliced(list, a, m, b) = (front \o (<<shared>> \o kept)) \o back
    BY DEF Spliced
  <2> HIDE DEF front, shared, kept
  <2>4. (front \o <<shared>>) \o kept = front \o (<<shared>> \o kept)
    BY <2>2, <1>8, ConcatAssociative
  <2> QED
    BY <2>1, <2>3, <2>4
<1>10. /\ a \in 0..Len(list) /\ b \in (a + 1)..(Len(list) + 1) /\ a \in Nat
       /\ \A i \in DOMAIN list : (i <= a \/ b <= i) <=> i # at
  BY <1>2, <1>6
<1>11. \A f \in DOMAIN stack' : stack[f].at # at /\ stack[f].at \in 1..a
  <2> SUFFICES ASSUME NEW f \in DOMAIN stack'
               PROVE  stack[f].at # at /\ stack[f].at \in 1..a
    OBVIOUS
  <2>1. f \in DOMAIN stack /\ f < n
    BY <1>3, <1>4
  <2>2. stack[f].at <= at /\ ~Overlaps(rect, list[stack[f].at].rect)
    BY <2>1, <1>1 DEF Nesting, DeeperOutside
  <2>3. stack[f].at # at
    BY <2>2, <1>6
  <2> QED
    BY <2>1, <2>2, <2>3, <1>2, <1>6
<1> HIDE DEF n, a, b, m, kept, shared
<1>12. /\ list' \in Seq(ListArea)
       /\ Len(list') = Len(list) + (a + Len(m) + 1 - b)
       /\ \A i \in 1..a : list'[i] = list[i]
  <2>1. LET w == Spliced(list, a, m, b)
            by == a + Len(m) + 1 - b
        IN  /\ w \in Seq(ListArea)
            /\ Len(w) = Len(list) + by
            /\ \A i \in 1..a : w[i] = list[i]
    BY <1>2, <1>8, <1>10, SplicedShape
  <2> QED
    BY <2>1, <1>9
<1>13. /\ DOMAIN list' = 1..Len(list') /\ Len(list') \in Nat /\ Len(list') >= a + 1
  <2>1. Len(m) \in Nat /\ Len(m) >= 1
    <3>1. DOMAIN m # {}
      BY <1>8 DEF Pieces
    <3> QED
      BY <3>1, <1>8, LenProperties
  <2>2. a + Len(m) + 1 - b = Len(m) - 1
    BY <2>1, <1>2, <1>6 DEF a, b
  <2>3. DOMAIN list' = 1..Len(list')
    BY <1>12, LenProperties
  <2>4. Len(list') = Len(list) + (Len(m) - 1) /\ a + 1 <= Len(list)
    BY <2>2, <1>2, <1>6, <1>12 DEF a
  <2> QED
    BY <2>1, <2>3, <2>4, <1>2, <1>10
<1>14. \A f \in DOMAIN stack' : /\ stack'[f] = stack[f] /\ f \in DOMAIN stack
                                /\ stack[f].phase = "rest" /\ stack[f].at \in DOMAIN list'
                                /\ list'[stack[f].at] = list[stack[f].at]
  BY <1>3, <1>4, <1>10, <1>11, <1>12, <1>13
<1>15. TypeOK'
  <2>1. list' # <<>> /\ list' \in Seq(Partition!Area)
    BY <1>10, <1>12, <1>13, PartitionGeometry, EmptySeq
  <2> QED
    BY <2>1, <1>1, <1>3, <1>14 DEF TypeOK
<1>16. ListApart' /\ calls' # <<>>
  <2>1. AreasApart(list)
    BY DEF ListApart, AreasApart
  <2>2. \A i \in DOMAIN list, j \in DOMAIN m :
            i <= a \/ b <= i => ~Overlaps(m[j].rect, list[i].rect)
    <3> SUFFICES ASSUME NEW i \in DOMAIN list, NEW j \in DOMAIN m, i <= a \/ b <= i
                 PROVE  ~Overlaps(m[j].rect, list[i].rect)
      OBVIOUS
    <3>1. ~Overlaps(area.rect, list[i].rect) /\ list[i].rect \in Rect
      BY <1>2, <1>6, <1>10 DEF ListApart
    <3>2. m[j] \in Pieces(area, rect, Owners)
      BY <1>8
    <3> HIDE DEF area, rect
    <3> QED
      BY <3>1, <3>2, <1>6, <1>7, PiecesShape
  <2>3. AreasApart(list')
    BY <2>1, <2>2, <1>2, <1>8, <1>9, <1>10, SplicedApart
  <2> QED
    BY <2>3, <1>1 DEF ListApart, AreasApart
<1>17. Nesting'
  BY <1>14 DEF Nesting
<1>18. Passed'
  <2> SUFFICES ASSUME NEW f \in DOMAIN stack', NEW i \in 1..(stack[f].at - 1)
               PROVE  ~Overlaps(stack[f].rect, list'[i].rect)
    BY <1>14 DEF Passed
  <2>1. i \in 1..a
    BY <1>10, <1>11
  <2> QED
    BY <2>1, <1>12, <1>14 DEF Passed
<1>19. DeeperOutside'
  BY <1>14 DEF DeeperOutside
<1>20. PiecesOfCut'
  BY <1>5, <1>14 DEF PiecesOfCut
<1>21. TailOutside'
  BY <1>14 DEF TailOutside
<1>22. Areas' = Areas
  <2>1. held \in SUBSET (1..a)
    BY <1>11
  <2>2. \A i \in DOMAIN list : (\A f \in DOMAIN stack : stack[f].at # i)
                                  <=> i \notin held /\ (i <= a \/ b <= i)
    BY <1>1, <1>4, <1>10, <1>14 DEF held
  <2>3. \A i : i \notin held <=> \A f \in DOMAIN stack' : stack[f].at # i
    BY DEF held
  <2> HIDE DEF held
  <2>4. \A x : HasOutside(Spliced(list, a, m, b), held, x)
                  <=> Stays(list, held, a, b, x) \/ \E j \in DOMAIN m : m[j] = x
    BY <2>1, <1>2, <1>8, <1>10, SplicedElements
  <2>5. \A x : (\E k \in DOMAIN list' : k \notin held /\ list'[k] = x)
                  <=> \/ \E i \in DOMAIN list : (\A f \in DOMAIN stack : stack[f].at # i) /\ list[i] = x
                      \/ x \in Pieces(area, rect, Owners)
    <3>1. \A x : HasOutside(list', held, x) <=> \E k \in DOMAIN list' : k \notin held /\ list'[k] = x
      BY DEF HasOutside
    <3>2. \A x : Stays(list, held, a, b, x)
                    <=> \E i \in DOMAIN list : (\A f \in DOMAIN stack : stack[f].at # i) /\ list[i] = x
      BY <2>2 DEF Stays
    <3>3. \A x : HasOutside(list', held, x)
                    <=> Stays(list, held, a, b, x) \/ x \in Pieces(area, rect, Owners)
      BY <2>4, <1>8, <1>9
    <3> QED
      BY <3>1, <3>2, <3>3
  <2>6. Owners' = Owners
    BY <1>1 DEF Owners
  <2>7. \A x : IsArea(x)' <=>
                  \/ \E k \in DOMAIN list' : k \notin held /\ list'[k] = x
                  \/ \E f \in DOMAIN stack' : x \in Pieces(list[stack[f].at], stack[f].rect, Owners)
    BY <2>3, <2>6, <1>5, <1>14 DEF IsArea
  <2>8. \A x : IsArea(x) <=>
                  \/ \E i \in DOMAIN list : (\A f \in DOMAIN stack : stack[f].at # i) /\ list[i] = x
                  \/ x \in Pieces(area, rect, Owners)
                  \/ \E f \in DOMAIN stack' : x \in Pieces(list[stack[f].at], stack[f].rect, Owners)
    BY <1>1, <1>4, <1>5, <1>14 DEF IsArea
  <2>9. \A x : IsArea(x)' <=> IsArea(x)
    BY <2>5, <2>7, <2>8
  <2> QED
    BY <2>9, Mapped
<1>23. Pending' = Pending
  <2>1. DOMAIN top.r1 = {}
    BY <1>1
  <2>2. \A x : IsPendingPiece(x)' <=> IsPendingPiece(x)
    BY <2>1, <1>1, <1>4, <1>5, <1>14 DEF IsPendingPiece
  <2> QED
    BY <2>2, Mapped
<1> QED
  BY <1>1, <1>15, <1>16, <1>17, <1>18, <1>19, <1>20, <1>21, <1>22, <1>23 DEF Partition!vars

LEMMA StutterStep ==
    ASSUME IInv, UNCHANGED vars
    PROVE  IInv' /\ UNCHANGED Partition!vars
<1>1. list' = list /\ stack' = stack /\ calls' = calls
  BY DEF vars
<1>2. Suspended' = Suspended /\ Owners' = Owners
  BY <1>1 DEF Suspended, Owners
<1>3. IInv'
  BY <1>1, <1>2
     DEF IInv, TypeOK, ListApart, Nesting, Passed, DeeperOutside, PiecesOfCut, TailOutside
<1>4. \A x : (IsArea(x)' <=> IsArea(x)) /\ (IsPendingPiece(x)' <=> IsPendingPiece(x))
  BY <1>1, <1>2 DEF IsArea, IsPendingPiece
<1> QED
  BY <1>1, <1>3, <1>4, Mapped DEF Partition!vars

\* Every step keeps the invariant, and is a step of the partition or nothing.
LEMMA NextStep ==
    ASSUME IInv, [Next]_vars
    PROVE  IInv' /\ [Partition!Next]_(Partition!vars)
<1>1. CASE Walk
  BY <1>1, WalkStep
<1>2. CASE AppendNew
  BY <1>2, AppendNewStep
<1>3. CASE Meet
  BY <1>3, MeetStep
<1>4. CASE SaveOutside
  BY <1>4, SaveOutsideStep
<1>5. CASE Recurse
  BY <1>5, RecurseStep
<1>6. CASE Finish
  BY <1>6, FinishStep
<1>7. CASE \E c \in Request : Call(c)
  BY <1>7, CallStep
<1>8. CASE UNCHANGED vars
  BY <1>8, StutterStep
<1> QED
  BY <1>1, <1>2, <1>3, <1>4, <1>5, <1>6, <1>7, <1>8 DEF Next, Step

----------------------------------------------------------------------------
\* The order of the list, what running calls have passed and what they still
\* have to place fit together at every moment of the recursion.
THEOREM AlwaysIInv == Spec => []IInv
<1>1. Init => IInv
  BY InitIInv
<1>2. IInv /\ [Next]_vars => IInv'
  BY NextStep
<1> QED
  BY <1>1, <1>2, PTL DEF Spec

\* Every area pointer of a running call of _SplitArea is to an area of the
\* list, and every rectangle in it is one with pixels.
THEOREM TypeCorrect == Spec => []TypeOK
<1>1. IInv => TypeOK
  BY DEF IInv
<1> QED
  BY <1>1, AlwaysIInv, PTL

\* _SplitArea uses Area after it called itself: whatever the deeper calls have
\* done to the list, the area still is the one that r0 was computed from, and
\* no other call that is waiting is about to replace it.
THEOREM AreaPointerSafe == Spec => []SuspendedAreaUntouched
<1>1. IInv => SuspendedAreaUntouched
  <2> SUFFICES ASSUME IInv, NEW f \in Suspended, NEW g \in Suspended \ {f}
               PROVE  /\ stack[f].r0 = StripSeq(list[stack[f].at].rect, stack[f].rect)
                      /\ stack[f].at # stack[g].at
    <3>1. IInv => \A f \in Suspended : stack[f].r0 = StripSeq(list[stack[f].at].rect, stack[f].rect)
      BY DEF IInv, PiecesOfCut
    <3> QED
      BY <3>1 DEF SuspendedAreaUntouched
  <2>1. /\ stack[f].r0 = StripSeq(list[stack[f].at].rect, stack[f].rect)
        /\ Overlaps(stack[f].rect, list[stack[f].at].rect)
        /\ Overlaps(stack[g].rect, list[stack[g].at].rect)
    BY DEF IInv, PiecesOfCut
  <2>2. f \in DOMAIN stack /\ g \in DOMAIN stack /\ (f < g \/ g < f)
    BY Types DEF IInv, Suspended
  <2>3. \/ ~Overlaps(stack[g].rect, list[stack[f].at].rect)
        \/ ~Overlaps(stack[f].rect, list[stack[g].at].rect)
    BY <2>2 DEF IInv, DeeperOutside
  <2> QED
    BY <2>1, <2>3
<1> QED
  BY <1>1, AlwaysIInv, PTL

\* The recursion over hwcArea nodes implements the partition: seen from
\* outside each step cuts one area, adds one area, or changes nothing.
THEOREM ListIsPartition == Spec => ImplementsPartition
<1>1. Init => IInv /\ Partition!Init
  BY InitIInv
<1>2. IInv /\ [Next]_vars => [Partition!Next]_(Partition!vars)
  BY NextStep
<1> QED
  BY <1>1, <1>2, AlwaysIInv, PTL DEF Spec, ImplementsPartition, Partition!Spec

----------------------------------------------------------------------------
(***************************************************************************)
(* What is proved of the partition holds of the list.                      *)
(***************************************************************************)

LEMMA PromiseIsPartition == Partition!Spec => Promise!Spec
<1>1. Partition!Init => Promise!Init
  BY Zenon DEF Partition!Init, Promise!Init
<1>2. Partition!Next => Promise!Next
  <2>1. \A c : Partition!Call(c) => Promise!Call(c)
    BY Zenon DEF Partition!Call, Promise!Call
  <2>2. \A r : Partition!Extend(r) => Promise!Extend(r)
    BY PartitionGeometry, PromiseGeometry, Zenon DEF Partition!Extend, Promise!Extend
  <2>3. \A r, a : Partition!Split(r, a) => Promise!Split(r, a)
    BY PartitionGeometry, PromiseGeometry, Zenon DEF Partition!Split, Promise!Split
  <2> QED
    BY <2>1, <2>2, <2>3, Zenon DEF Partition!Next, Promise!Next
<1>3. [Partition!Next]_(Partition!vars) => [Promise!Next]_(Promise!vars)
  BY <1>2, Zenon DEF Partition!vars, Promise!vars
<1> QED
  BY <1>1, <1>3, PTL DEF Partition!Spec, Promise!Spec

\* A list no call is working on has no two areas over a pixel, has one over
\* every pixel of the rectangles that were split in and over no other, and
\* each area has exactly the owners of those rectangles over it.
SettledListExact ==
    stack = <<>> =>
        /\ \A i, j \in DOMAIN list : i # j => ~Overlaps(list[i].rect, list[j].rect)
        /\ \A x \in Column, y \in Row :
              (\E i \in DOMAIN list : In(x, y, list[i].rect))
                  <=> \E k \in DOMAIN calls : In(x, y, calls[k].rect)
        /\ \A x \in Column, y \in Row, i \in DOMAIN list : In(x, y, list[i].rect) =>
              \A o \in Owner :
                  o \in list[i].owners
                      <=> \E k \in DOMAIN calls : In(x, y, calls[k].rect) /\ o \in calls[k].owners

LEMMA SettledFromPartition ==
    IInv /\ Promise!OwnersExact /\ Promise!CoverageExact => SettledListExact
<1> SUFFICES ASSUME IInv, Promise!OwnersExact, Promise!CoverageExact, stack = <<>>
             PROVE  SettledListExact
  BY DEF SettledListExact
<1>1. Suspended = {} /\ DOMAIN stack = {}
  BY DEF Suspended
<1>2. \A x : x \in Areas <=> \E i \in DOMAIN list : list[i] = x
  BY <1>1, Mapped DEF IsArea
<1>3. \A r : r \notin Pending
  BY <1>1, Mapped DEF IsPendingPiece
<1> DEFINE past == ToSet(Front(calls))
           made == past \union {Last(calls)}
<1>4. \A c : c \in made <=> \E k \in DOMAIN calls : calls[k] = c
  <2> DEFINE n == Len(calls)
  <2>1. /\ calls \in Seq(FirstArea \union Request) /\ n \in Nat \ {0} /\ DOMAIN calls = 1..n
    BY EmptySeq, LenProperties DEF IInv, TypeOK
  <2>2. \A i \in 1..n : calls[i] \in FirstArea \union Request
    BY <2>1, ElementOfSeq
  <2>3. Front(calls) = SubSeq(calls, 1, n - 1) /\ Last(calls) = calls[n]
    BY DEF Front, Last
  <2>4. DOMAIN Front(calls) = 1..(n - 1) /\ \A i \in 1..(n - 1) : Front(calls)[i] = calls[i]
    BY <2>1, <2>2, <2>3, SubSeqProperties, LenProperties
  <2> HIDE DEF n
  <2>5. \A c : c \in past <=> \E k \in 1..(n - 1) : calls[k] = c
    BY <2>4 DEF ToSet
  <2>6. \A k : k \in 1..n <=> k \in 1..(n - 1) \/ k = n
    BY <2>1
  <2> QED
    BY <2>1, <2>3, <2>5, <2>6
<1> HIDE DEF past, made
<1>5. ListApart
  BY DEF IInv
<1>6. \A x, y, r : Promise!In(x, y, r) <=> In(x, y, r)
  BY DEF Promise!In, In
<1>7. \A x \in Column, y \in Row :
          (\E i \in DOMAIN list : In(x, y, list[i].rect))
              <=> \E k \in DOMAIN calls : In(x, y, calls[k].rect)
  <2>1. \A x \in Column, y \in Row :
            (\E a \in Areas : In(x, y, a.rect)) <=> \E c \in made : In(x, y, c.rect)
    BY <1>3, <1>6 DEF Promise!CoverageExact, Promise!IsPlaced, Promise!IsPending, made, past
  <2> QED
    BY <2>1, <1>2, <1>4
<1>8. \A x \in Column, y \in Row, i \in DOMAIN list : In(x, y, list[i].rect) =>
          \A o \in Owner :
              o \in list[i].owners
                  <=> \E k \in DOMAIN calls : In(x, y, calls[k].rect) /\ o \in calls[k].owners
  <2>1. \A a \in Areas : \A x \in Column, y \in Row : In(x, y, a.rect) =>
            \A o \in Owner : o \in a.owners <=> \E c \in made : In(x, y, c.rect) /\ o \in c.owners
    BY <1>3, <1>6 DEF Promise!OwnersExact, Promise!OwnedBy, Promise!IsPending, made, past
  <2> QED
    BY <2>1, <1>2, <1>4
<1> QED
  BY <1>5, <1>7, <1>8 DEF SettledListExact, ListApart

\* Whatever rectangles a frame splits in, and however their pieces fall, the
\* list hwcCompose draws from tags every pixel with exactly its layers, once.
THEOREM ListIsExact == Spec => []SettledListExact
<1>1. Spec => Promise!Spec
  BY ListIsPartition, PromiseIsPartition, PTL DEF ImplementsPartition
<1>2. Spec => []Promise!OwnersExact /\ []Promise!CoverageExact
  BY <1>1, Promise!EveryAreaExact, Promise!NoPixelLost, Assumptions, PTL
<1>3. IInv /\ Promise!OwnersExact /\ Promise!CoverageExact => SettledListExact
  BY SettledFromPartition
<1> QED
  BY <1>2, <1>3, AlwaysIInv, PTL

=============================================================================
