----------------------------- MODULE AreaSplit -----------------------------
(***************************************************************************)
(* _SplitArea of gc_hwc_set.cpp step by step: the linked list of areas,    *)
(* the walk along it, and the recursion on the pieces outside the area the *)
(* walk met.  A suspended call keeps a pointer to its area and the pieces  *)
(* it computed before it recursed, while deeper calls change the list.     *)
(* Areas are only ever inserted behind the area of a running call, so a    *)
(* pointer is modelled by a position in the list.                          *)
(***************************************************************************)
EXTENDS AreaGeometry, SequencesExt

CONSTANTS
    Owner,          \* layers, the bits of hwcArea.owners
    FirstArea,      \* the areas a list may start from
    Request,        \* the calls hwcSet may make
    Column, Row,    \* pixels
    MaxCalls        \* bound on the calls

VARIABLES
    list,           \* the areas, in the order of hwcArea.next
    stack,          \* running calls of _SplitArea, the deepest last
    calls           \* the requests so far, the first area's among them

vars == <<list, stack, calls>>

(***************************************************************************)
(* A running call.  walk: looking for an overlapped area.  rest: it met    *)
(* the area at "at", which has a successor, and recurses on r1.  tail: the *)
(* area it met is the last one, so r1 is appended without another walk.    *)
(***************************************************************************)
Frame == [phase: {"walk", "rest", "tail"}, at: Nat, rect: Rect, r1: Seq(Rect), r0: Seq(Rect)]

Start(at, rect) ==
    [phase |-> "walk", at |-> at, rect |-> rect, r1 |-> <<>>, r0 |-> <<>>]

Top == Last(stack)
Owners == Last(calls).owners
Return == stack' = Front(stack)
Become(frame) == stack' = [stack EXCEPT ![Len(stack)] = frame]
Running(phase) == stack # <<>> /\ Top.phase = phase

\* hwcSet allocates the first area of a list itself.
Init ==
    /\ \E c \in FirstArea : list = <<c>> /\ calls = <<c>>
    /\ stack = <<>>

\* hwcSet splits in one more rectangle.
Call(c) ==
    /\ stack = <<>>
    /\ Len(calls) < MaxCalls
    /\ calls' = Append(calls, c)
    /\ stack' = <<Start(1, c.rect)>>
    /\ UNCHANGED list

\* Mutant of Walk: the walk does not move on.
WalkStays ==
    /\ Running("walk")
    /\ ~Overlaps(Top.rect, list[Top.at].rect)
    /\ Top.at < Len(list)
    /\ Become(Top)
    /\ UNCHANGED <<list, calls>>

\* Area = Area->next.
Walk ==
    /\ Running("walk")
    /\ ~Overlaps(Top.rect, list[Top.at].rect)
    /\ Top.at < Len(list)
    /\ Become([Top EXCEPT !.at = @ + 1])
    /\ UNCHANGED <<list, calls>>

\* Mutant of AppendNew: the new area becomes the head of the list.
AppendFirst ==
    /\ Running("walk")
    /\ ~Overlaps(Top.rect, list[Top.at].rect)
    /\ Top.at = Len(list)
    /\ list' = <<[rect |-> Top.rect, owners |-> Owners]>> \o list
    /\ Return
    /\ UNCHANGED calls

\* "This rectangle is not overlapped with any area."
AppendNew ==
    /\ Running("walk")
    /\ ~Overlaps(Top.rect, list[Top.at].rect)
    /\ Top.at = Len(list)
    /\ list' = Append(list, [rect |-> Top.rect, owners |-> Owners])
    /\ Return
    /\ UNCHANGED calls

\* "OK, the rectangle is overlapped with 'rect' area."
Meet ==
    /\ Running("walk")
    /\ Overlaps(Top.rect, list[Top.at].rect)
    /\ Become([Top EXCEPT
            !.phase = IF Top.at = Len(list) THEN "tail" ELSE "rest",
            !.r1 = StripSeq(Top.rect, list[Top.at].rect),
            !.r0 = StripSeq(list[Top.at].rect, Top.rect)])
    /\ UNCHANGED <<list, calls>>

\* The pieces outside the last area are inserted right behind it.
SaveOutside ==
    /\ Running("tail")
    /\ Top.r1 # <<>>
    /\ list' = InsertAt(list, Top.at + 1, [rect |-> Head(Top.r1), owners |-> Owners])
    /\ Become([Top EXCEPT !.r1 = Tail(@)])
    /\ UNCHANGED calls

\* _SplitArea calls itself for a piece outside an area with a successor.
Recurse ==
    /\ Running("rest")
    /\ Top.r1 # <<>>
    /\ stack' = Append([stack EXCEPT ![Len(stack)].r1 = Tail(@)],
                       Start(Top.at, Head(Top.r1)))
    /\ UNCHANGED <<list, calls>>

\* Mutant of Finish: the shared part keeps only the new owner.
FinishOverwritesOwners ==
    /\ Running("rest") \/ Running("tail")
    /\ Top.r1 = <<>>
    /\ LET area == list[Top.at]
           kept == [i \in DOMAIN Top.r0 |-> [rect |-> Top.r0[i], owners |-> area.owners]]
           shared == [rect |-> Clip(area.rect, Top.rect), owners |-> Owners]
       IN  list' = SubSeq(list, 1, Top.at - 1) \o <<shared>> \o Reverse(kept)
                       \o SubSeq(list, Top.at + 1, Len(list))
    /\ Return
    /\ UNCHANGED calls

\* With the outside settled, the pieces of the area that the rectangle does
\* not cover are inserted behind it, and the area becomes the shared part.
Finish ==
    /\ Running("rest") \/ Running("tail")
    /\ Top.r1 = <<>>
    /\ LET area == list[Top.at]
           kept == [i \in DOMAIN Top.r0 |-> [rect |-> Top.r0[i], owners |-> area.owners]]
           shared == [rect |-> Clip(area.rect, Top.rect), owners |-> area.owners \union Owners]
       IN  list' = SubSeq(list, 1, Top.at - 1) \o <<shared>> \o Reverse(kept)
                       \o SubSeq(list, Top.at + 1, Len(list))
    /\ Return
    /\ UNCHANGED calls

Step == Walk \/ AppendNew \/ Meet \/ SaveOutside \/ Recurse \/ Finish
Next == Step \/ \E c \in Request : Call(c)

\* A call of _SplitArea runs on the caller's thread until it returns.
Spec == Init /\ [][Next]_vars /\ WF_vars(Step)

----------------------------------------------------------------------------
(***************************************************************************)
(* A suspended call has decided how its area will be cut, so its area      *)
(* counts as cut already; the pieces it has not handed on are pending.     *)
(***************************************************************************)
Suspended == {i \in DOMAIN stack : stack[i].phase # "walk"}
Held == {stack[f].at : f \in Suspended}

Areas ==
    {list[i] : i \in DOMAIN list \ Held} \union
    UNION {Pieces(list[stack[f].at], stack[f].rect, Owners) : f \in Suspended}

Pending ==
    {stack[f].rect : f \in DOMAIN stack \ Suspended} \union
    UNION {ToSet(stack[f].r1) : f \in Suspended}

Partition == INSTANCE AreaPartition WITH
    Request <- FirstArea \union Request,
    areas <- Areas,
    pending <- Pending,
    call <- Last(calls),
    done <- ToSet(Front(calls))

ASSUME RequestAssumption == FirstArea \union Request \subseteq Partition!Area
ASSUME PixelAssumption == Column \subseteq Int /\ Row \subseteq Int

TypeOK ==
    /\ list \in Seq(Partition!Area) /\ list # <<>>
    /\ stack \in Seq(Frame)
    /\ \A f \in DOMAIN stack : stack[f].at \in DOMAIN list
    /\ calls \in Seq(FirstArea \union Request)

\* The recursion on list nodes does what splitting promises: each step is one
\* cut, one new area, or nothing seen from outside.
ImplementsPartition == Partition!Spec

\* While deeper calls change the list, the area a suspended call points to is
\* still the one it computed r0 from, and no two calls hold the same area.
SuspendedAreaUntouched ==
    \A f \in Suspended :
        /\ stack[f].r0 = StripSeq(list[stack[f].at].rect, stack[f].rect)
        /\ \A g \in Suspended \ {f} : stack[f].at # stack[g].at

\* However the pieces fall, the recursion ends.
CallReturns == stack # <<>> ~> stack = <<>>

=============================================================================
