------------------------- MODULE OverlayComposer_proofs -------------------------
(***************************************************************************)
(* Theorems about OverlayComposer, for lists of any length, any layers and *)
(* frames, and any delay.                                                  *)
(***************************************************************************)
EXTENDS OverlayComposer, SequenceTheorems, FiniteSetTheorems, TLAPS

\* The layer traverse finds in a list.
Found(new) == CHOOSE i \in Taken(new) : TRUE

\* What the calls of the engine left behind: a mismatch of what the device
\* notes and what the display has goes back to a call that failed.
DeviceInv ==
    /\ device.dma => device.open \/ "off" \in failed
    /\ device.open /\ device.count > 0 => device.dma \/ "on" \in failed
    /\ device.saved => device.key \/ "key" \in failed
    /\ device.open /\ device.shadow # NoBuffer => device.image = device.shadow \/ "flip" \in failed

\* The pointers of a frame lead to the layer found in the present list, or
\* into one that was replaced, whose memory the present one may have.
PointerInv ==
    /\ phase = "idle" => current = <<>>
    /\ current # <<>> => device.open
    /\ running => /\ device.open /\ Taken(list) # {}
                  /\ ~mismarked => \A k \in DOMAIN current : current[k] \in {Stale, Found(list)}
    /\ phase = "prepared" /\ running => current # <<>> /\ current[Len(current)] = Found(list)

\* A layer marked in the list is the one found, and the first pointer leads to
\* it; the base composer has taken over no mark the list does not have.
MarkInv ==
    /\ running => \A i \in DOMAIN list : types[i] = "OVERLAY" =>
            /\ device.count > Delay
            /\ ~mismarked => /\ i = Found(list)
                             /\ phase = "prepared" => Head(current) = i
    /\ base.loaded /\ base.twoD /\ ~base.pending =>
            \A i \in DOMAIN list : base.copied[i] = "OVERLAY" => types[i] = "OVERLAY"

IInv == TypeOK /\ DeviceInv /\ PointerInv /\ MarkInv /\ ScreenReleased /\ NoLayerLost

----------------------------------------------------------------------------
(* What traverse finds. *)

LEMMA FoundTaken ==
    ASSUME NEW new, Taken(new) # {}
    PROVE  Found(new) \in Taken(new)
  BY DEF Found

LEMMA TakenIsVideo ==
    ASSUME NEW new, NEW i \in Taken(new)
    PROVE  i \in DOMAIN new /\ new[i].video
  BY DEF Taken, First, Sorted, Candidates

LEMMA FirstIsOne ==
    ASSUME NEW new \in Seq(Layer), NEW i \in First(new), NEW j \in First(new)
    PROVE  i = j
<1> SUFFICES ASSUME i # j
             PROVE  FALSE
  OBVIOUS
<1>1. i \in DOMAIN new /\ j \in DOMAIN new
  BY DEF First, Sorted, Candidates
<1>2. Before(new[i], new[j]) /\ Before(new[j], new[i])
  BY DEF First
<1>3. new[i] \in Layer /\ new[j] \in Layer
  BY <1>1, LenProperties
<1>4. /\ new[i].format \in Nat /\ new[j].format \in Nat
      /\ IsFiniteSet(new[i].frame) /\ IsFiniteSet(new[j].frame)
  BY <1>3, OverlayAssumption DEF LayerType
<1>5. Cardinality(new[i].frame) \in Nat /\ Cardinality(new[j].frame) \in Nat
  BY <1>4, FS_CardinalityType
<1> QED
  BY <1>2, <1>4, <1>5 DEF Before

\* The frame of every other layer is part of what is tested against the one
\* taken, but for those the sorted vector dropped.
LEMMA OthersTested ==
    ASSUME NEW new \in Seq(Layer), NEW k \in Taken(new), NEW i \in DOMAIN new \ {k}
    PROVE  \/ new[i].frame \intersect new[k].frame = {}
           \/ /\ new[i].video
              /\ \E j \in DOMAIN new : j > i /\ new[j].video /\ Twins(new[i], new[j])
<1>1. k \in First(new) /\ new[k].frame \intersect NormalRegion(new) = {}
  BY DEF Taken
<1>2. CASE i \notin Candidates(new) \/ i \in Sorted(new)
  <2>1. i \notin First(new)
    BY <1>1, FirstIsOne
  <2>2. i \in (DOMAIN new \ Candidates(new)) \union (Sorted(new) \ First(new))
    BY <1>2, <2>1
  <2>3. \A x \in new[i].frame : x \in NormalRegion(new)
    BY <2>2 DEF NormalRegion
  <2> QED
    BY <1>1, <2>3
<1>3. CASE i \in Candidates(new) /\ i \notin Sorted(new)
  BY <1>3 DEF Sorted, Candidates
<1> QED
  BY <1>2, <1>3

----------------------------------------------------------------------------
(* Steps of the device. *)

LEMMA OpenedEffect ==
    ASSUME TypeOK
    PROVE  /\ Opened.open
           /\ device.open => Opened = device
           /\ ~device.open => Opened.count = 0 /\ Opened.shadow = NoBuffer
           /\ Opened.dma = device.dma /\ Opened.saved = device.saved /\ Opened.key = device.key
           /\ Opened.image = device.image /\ Opened.window = device.window
  BY DEF TypeOK, Opened

\* What a call leaves to be known of the calls of the engine.
LEMMA ReportEffect ==
    ASSUME NEW tried, NEW failing \in SUBSET tried, Report(tried, failing)
    PROVE  \A x : x \in failed' <=> IF x \in tried THEN x \in failing ELSE x \in failed
  BY DEF Report

LEMMA CloseEffect ==
    ASSUME DeviceInv, TypeOK, NEW failing \in SUBSET {"off"},
           device' = Closed(failing), Report({"off"}, failing)
    PROVE  DeviceInv' /\ ~device'.open
<1>1. \A x : x \in failed' <=> IF x \in {"off"} THEN x \in failing ELSE x \in failed
  BY ReportEffect
<1>2. /\ ~device'.open /\ device'.saved = device.saved /\ device'.key = device.key
      /\ device'.dma => "off" \in failing
  BY DEF TypeOK, Closed
<1> QED
  BY <1>1, <1>2 DEF DeviceInv

LEMMA CommitEffect ==
    ASSUME DeviceInv, TypeOK, device.open, NEW b, NEW frame, Commit(b, frame)
    PROVE  /\ DeviceInv' /\ device'.open /\ device'.saved
           /\ device.count > Delay => device'.count > Delay
           /\ b # NoBuffer => device'.image = b \/ "flip" \in failed'
           /\ skipped' \/ device'.window = frame \/ "flip" \in failed'
<1> USE OverlayAssumption
<1>1. PICK failing \in SUBSET Tried(b) :
        /\ skipped' = (device.shadow = b)
        /\ device' = IF device.shadow = b THEN Keyed(failing)
                     ELSE Flipped(Keyed(failing), b, frame, failing)
        /\ Report(Tried(b), failing)
  BY DEF Commit
<1>2. \A x : x \in failed' <=> IF x \in Tried(b) THEN x \in failing ELSE x \in failed
  BY <1>1, ReportEffect
<1>3. /\ "key" \in Tried(b) <=> ~device.saved
      /\ "flip" \in Tried(b) <=> device.shadow # b
      /\ "on" \in Tried(b) <=> device.shadow # b /\ device.count = 0
      /\ "off" \notin Tried(b)
  BY DEF Tried
<1> DEFINE keyed == Keyed(failing)
<1>4. /\ keyed.open = device.open /\ keyed.count = device.count
      /\ keyed.shadow = device.shadow /\ keyed.dma = device.dma
      /\ keyed.image = device.image /\ keyed.window = device.window
      /\ keyed.saved
      /\ keyed.key <=> IF device.saved THEN device.key ELSE "key" \notin failing
  BY DEF TypeOK, Keyed
<1>5. keyed \in [open : BOOLEAN, count : 0..(Delay + 1), shadow : Buffer \union {NoBuffer},
                 saved : BOOLEAN, key : BOOLEAN, dma : BOOLEAN,
                 image : Buffer \union {NoBuffer}, window : SUBSET Nat]
  BY DEF TypeOK, Keyed
<1> HIDE DEF keyed
<1>6. CASE device.shadow = b
  <2>1. device' = keyed /\ skipped'
    BY <1>1, <1>6 DEF keyed
  <2>2. device'.saved => device'.key \/ "key" \in failed'
    BY <1>2, <1>3, <1>4, <2>1 DEF DeviceInv
  <2>3. /\ "on" \in failed' <=> "on" \in failed
        /\ "off" \in failed' <=> "off" \in failed
        /\ "flip" \in failed' <=> "flip" \in failed
    BY <1>2, <1>3, <1>6
  <2>4. DeviceInv'
    BY <1>4, <2>1, <2>2, <2>3 DEF DeviceInv
  <2> QED
    BY <1>4, <1>6, <2>1, <2>3, <2>4 DEF DeviceInv
<1>7. CASE device.shadow # b
  <2>1. device' = Flipped(keyed, b, frame, failing)
    BY <1>1, <1>7 DEF keyed
  <2>2. /\ device'.open = device.open /\ device'.shadow = b
        /\ device'.saved = keyed.saved /\ device'.key = keyed.key
        /\ device'.count = IF device.count > Delay THEN device.count ELSE device.count + 1
        /\ device'.dma <=> device.dma \/ (device.count = 0 /\ "on" \notin failing)
        /\ "flip" \notin failing => device'.image = b /\ device'.window = frame
    BY <1>4, <1>5, <2>1 DEF Flipped
  <2>3. device'.saved => device'.key \/ "key" \in failed'
    BY <1>2, <1>3, <1>4, <2>2 DEF DeviceInv
  <2>4. /\ "flip" \in failed' <=> "flip" \in failing
        /\ "off" \in failed' <=> "off" \in failed
        /\ device.count = 0 => ("on" \in failed' <=> "on" \in failing)
        /\ device.count # 0 => ("on" \in failed' <=> "on" \in failed)
    BY <1>2, <1>3, <1>7
  <2>5. device.count \in Nat
    BY DEF TypeOK
  <2>6. device'.dma \/ "on" \in failed'
    BY <2>2, <2>4, <2>5 DEF DeviceInv
  <2>7. DeviceInv'
    BY <2>2, <2>3, <2>4, <2>6 DEF DeviceInv
  <2> QED
    BY <1>4, <2>2, <2>4, <2>5, <2>7
<1> QED
  BY <1>6, <1>7

----------------------------------------------------------------------------
(* Steps of hwc_prepare. *)

LEMMA ListFacts ==
    ASSUME NEW new \in Seq(Layer)
    PROVE  /\ Len(new) \in Nat /\ DOMAIN new = 1..Len(new)
           /\ \A i \in DOMAIN new : new[i] \in Layer /\ i \in Nat \ {0}
           /\ Taken(new) # {} => Found(new) \in DOMAIN new /\ new[Found(new)].video
<1>1. Len(new) \in Nat /\ DOMAIN new = 1..Len(new) /\ \A i \in DOMAIN new : new[i] \in Layer
  BY LenProperties
<1> QED
  BY <1>1, FoundTaken, TakenIsVideo

\* Where the pointers and the device are after the overlay composer prepared.
LEMMA PrepareEffect ==
    ASSUME TypeOK, DeviceInv, NEW new \in Seq(Layer), NEW kept \in Seq(Nat),
           kept # <<>> => device.open, NEW ready \in BOOLEAN,
           OverlayPrepare(new, kept, ready), failed' = failed
    PROVE  /\ DeviceInv'
           /\ device.open => device' = device
           /\ current' \in Seq(Nat) /\ (current' # <<>> => device'.open)
           /\ running' => /\ ready /\ Taken(new) # {} /\ device'.open
                          /\ current' = Append(kept, Found(new))
           /\ ~running' => current' = kept \/ current' = <<>>
<1>1. /\ running' <=> ready /\ Taken(new) # {}
      /\ device' = IF running' THEN Opened ELSE device
  BY DEF OverlayPrepare
<1>2. current' = CASE ~ready -> kept
                   [] ready /\ Taken(new) = {} -> <<>>
                   [] OTHER -> Append(kept, Found(new))
  BY Zenon DEF OverlayPrepare, Overlays, Found
<1>3. /\ Opened.open
      /\ device.open => Opened = device
      /\ ~device.open => Opened.count = 0 /\ Opened.shadow = NoBuffer
      /\ Opened.dma = device.dma /\ Opened.saved = device.saved /\ Opened.key = device.key
      /\ Opened.image = device.image
  BY OpenedEffect
<1>4. DeviceInv'
  <2>1. CASE device.open \/ ~running'
    BY <1>1, <1>3, <2>1 DEF DeviceInv
  <2>2. CASE ~device.open /\ running'
    BY <1>1, <1>3, <2>2 DEF DeviceInv
  <2> QED
    BY <2>1, <2>2
<1>5. Taken(new) # {} => Append(kept, Found(new)) \in Seq(Nat)
  BY ListFacts, AppendProperties
<1> QED
  BY <1>1, <1>2, <1>3, <1>4, <1>5, EmptySeq

\* A composition type is OVERLAY after the overlay composer prepared if it was
\* before, or the first pointer leads to it.
LEMMA MarkedEffect ==
    ASSUME NEW given, NEW i \in DOMAIN given
    PROVE  /\ DOMAIN OverlayTypes(given) = DOMAIN given
           /\ given[i] = "OVERLAY" => OverlayTypes(given)[i] = "OVERLAY"
           /\ OverlayTypes(given)[i] = "OVERLAY" =>
                given[i] = "OVERLAY"
                    \/ (running' /\ i = Head(current') /\ device'.count > Delay)
           /\ OverlayTypes(given)[i] \in {given[i], "OVERLAY"}
  BY DEF OverlayTypes, Marked, ReadyDrawOverlay

\* The pointers m_vCurrentOverlay starts from when a new list comes.
Kept(reused) == [k \in DOMAIN current |-> IF reused THEN current[k] ELSE Stale]

LEMMA KeptFacts ==
    ASSUME TypeOK, NEW reused
    PROVE  /\ Kept(reused) \in Seq(Nat) /\ Len(Kept(reused)) = Len(current)
           /\ Kept(reused) # <<>> => current # <<>>
           /\ ~(reused /\ \E k \in DOMAIN current : current[k] # Stale) =>
                 \A k \in 1..Len(Kept(reused)) : Kept(reused)[k] = Stale
<1>1. Len(current) \in Nat /\ DOMAIN current = 1..Len(current) /\ current \in Seq(Nat)
  BY LenProperties DEF TypeOK
<1>2. Kept(reused) \in [1..Len(current) -> Nat]
  BY <1>1, ElementOfSeq DEF Kept, Stale
<1>3. Kept(reused) \in Seq(Nat) /\ Len(Kept(reused)) = Len(current)
  BY <1>1, <1>2
<1>4. Kept(reused) # <<>> => current # <<>>
  BY <1>1, <1>3, EmptySeq
<1> QED
  BY <1>1, <1>3, <1>4 DEF Kept

LEMMA PrepareNewKeeps ==
    ASSUME TypeOK, DeviceInv, PointerInv, PrepareNew
    PROVE  DeviceInv' /\ PointerInv' /\ MarkInv' /\ ScreenReleased' /\ NoLayerLost'
<1>1. PICK n \in 0..MaxLayers, allowed \in BOOLEAN, twoD \in {FALSE, base.loaded},
           reused \in {FALSE, current # <<>>} :
          /\ list' \in [1..n -> Layer]
          /\ OverlayPrepare(list', Kept(reused), allowed)
          /\ mismarked' = (running' /\ reused /\ \E k \in DOMAIN current : current[k] # Stale)
          /\ types' = IF base.loaded THEN BaseTypes(n, twoD) ELSE OverlayTypes(BaseTypes(n, twoD))
          /\ base' = IF base.loaded
                   THEN [base EXCEPT !.twoD = twoD, !.pending = TRUE, !.copied = <<>>]
                   ELSE base
  BY DEF PrepareNew, Kept
<1>2. n \in Nat /\ list' \in Seq(Layer) /\ DOMAIN list' = 1..n
  BY <1>1, OverlayAssumption
<1>3. phase' = "prepared" /\ failed' = failed
  BY DEF PrepareNew
<1> DEFINE kept == Kept(reused)
<1>4. /\ kept \in Seq(Nat)
      /\ kept # <<>> => current # <<>>
      /\ running' /\ ~mismarked' => \A k \in 1..Len(kept) : kept[k] = Stale
  BY <1>1, KeptFacts
<1>40. OverlayPrepare(list', kept, allowed)
  BY <1>1
<1> HIDE DEF kept
<1>5. /\ DeviceInv'
      /\ current' \in Seq(Nat) /\ (current' # <<>> => device'.open)
      /\ running' => /\ Taken(list') # {} /\ device'.open
                     /\ current' = Append(kept, Found(list'))
      /\ ~running' => current' = kept \/ current' = <<>>
  BY <1>40, <1>2, <1>3, <1>4, PrepareEffect DEF PointerInv
<1>6. Taken(list') # {} => /\ Found(list') \in DOMAIN list' /\ Found(list') \in Nat \ {0}
                           /\ Append(kept, Found(list')) \in Seq(Nat)
                           /\ Append(kept, Found(list')) # <<>>
                           /\ Len(Append(kept, Found(list'))) = Len(kept) + 1
                           /\ \A k \in 1..Len(kept) : Append(kept, Found(list'))[k] = kept[k]
                           /\ Append(kept, Found(list'))[Len(kept) + 1] = Found(list')
  BY <1>2, <1>4, ListFacts, AppendProperties
<1>7. /\ Len(kept) \in Nat /\ DOMAIN kept = 1..Len(kept)
      /\ DOMAIN current' = 1..Len(current')
  BY <1>4, <1>5, LenProperties
<1>8. running' => /\ current' # <<>> /\ current'[Len(current')] = Found(list')
                  /\ Len(current') = Len(kept) + 1 /\ current'[Len(kept) + 1] = Found(list')
                  /\ \A k \in 1..Len(kept) : current'[k] = kept[k]
  BY <1>5, <1>6, <1>7
<1>9. running' /\ ~mismarked' => /\ \A k \in DOMAIN current' : current'[k] \in {Stale, Found(list')}
                                 /\ Head(current') \in {Stale, Found(list')}
  <2> SUFFICES ASSUME running', ~mismarked'
               PROVE  /\ \A k \in DOMAIN current' : current'[k] \in {Stale, Found(list')}
                      /\ Head(current') \in {Stale, Found(list')}
    OBVIOUS
  <2>1. \A k \in 1..Len(kept) : current'[k] = Stale
    BY <1>4, <1>8
  <2>2. \A k \in DOMAIN current' : current'[k] \in {Stale, Found(list')}
    BY <1>7, <1>8, <2>1
  <2>3. Head(current') = current'[1] /\ 1 \in DOMAIN current'
    BY <1>5, <1>7, <1>8
  <2> QED
    BY <2>2, <2>3
<1>10. PointerInv'
  BY <1>3, <1>5, <1>8, <1>9 DEF PointerInv
<1>11. MarkInv'
  <2>1. \A i \in 1..n : BaseTypes(n, twoD)[i] # "OVERLAY"
    BY DEF BaseTypes
  <2>2. DOMAIN BaseTypes(n, twoD) = 1..n
    BY DEF BaseTypes
  <2>3. CASE base.loaded
    <3>1. types' = BaseTypes(n, twoD) /\ base'.pending
      BY <1>1, <2>3 DEF TypeOK
    <3> QED
      BY <1>2, <2>1, <3>1 DEF MarkInv
  <2>4. CASE ~base.loaded
    <3>1. types' = OverlayTypes(BaseTypes(n, twoD)) /\ ~base'.loaded
      BY <1>1, <2>4
    <3>2. \A i \in 1..n : types'[i] = "OVERLAY" =>
              running' /\ i = Head(current') /\ device'.count > Delay
      BY <2>1, <2>2, <3>1, MarkedEffect
    <3>3. ~mismarked' => \A i \in 1..n : types'[i] = "OVERLAY" => i = Found(list')
      BY <1>2, <1>9, <3>2 DEF Stale
    <3> QED
      BY <1>2, <3>1, <3>2, <3>3 DEF MarkInv
  <2> QED
    BY <2>3, <2>4
<1> QED
  BY <1>3, <1>5, <1>10, <1>11 DEF ScreenReleased, NoLayerLost

LEMMA PrepareSameKeeps ==
    ASSUME TypeOK, DeviceInv, PointerInv, MarkInv, PrepareSame
    PROVE  DeviceInv' /\ PointerInv' /\ MarkInv' /\ ScreenReleased' /\ NoLayerLost'
<1>1. PICK missing \in BOOLEAN : OverlayPrepare(list, current, running /\ ~missing)
  BY DEF PrepareSame
<1>2. /\ phase' = "prepared" /\ failed' = failed /\ list' = list /\ base' = base
      /\ types' = OverlayTypes(types) /\ mismarked' = mismarked
  BY DEF PrepareSame
<1>3. /\ list \in Seq(Layer) /\ current \in Seq(Nat) /\ DOMAIN types = DOMAIN list
      /\ Len(current) \in Nat /\ DOMAIN current = 1..Len(current)
  BY LenProperties DEF TypeOK
<1>4. /\ DeviceInv'
      /\ device.open => device' = device
      /\ current' \in Seq(Nat) /\ (current' # <<>> => device'.open)
      /\ running' => /\ running /\ Taken(list) # {} /\ device'.open
                     /\ current' = Append(current, Found(list))
      /\ ~running' => current' = current \/ current' = <<>>
  <2>1. (running /\ ~missing) \in BOOLEAN
    BY Zenon
  <2> QED
    BY <1>1, <1>2, <1>3, <2>1, PrepareEffect DEF PointerInv
<1>5. running' => /\ Found(list) \in DOMAIN list /\ Found(list) \in Nat \ {0}
                  /\ current' # <<>>
                  /\ Len(current') = Len(current) + 1
                  /\ \A k \in 1..Len(current) : current'[k] = current[k]
                  /\ current'[Len(current) + 1] = Found(list)
                  /\ Head(current') = current'[1]
  <2>1. Taken(list) # {} => /\ Found(list) \in DOMAIN list /\ Found(list) \in Nat \ {0}
    BY <1>3, ListFacts
  <2>2. Taken(list) # {} =>
          /\ Append(current, Found(list)) # <<>>
          /\ Len(Append(current, Found(list))) = Len(current) + 1
          /\ \A k \in 1..Len(current) : Append(current, Found(list))[k] = current[k]
          /\ Append(current, Found(list))[Len(current) + 1] = Found(list)
    BY <1>3, <2>1, AppendProperties
  <2>3. current' # <<>> => Head(current') = current'[1]
    BY <1>4
  <2> QED
    BY <1>4, <2>1, <2>2, <2>3
<1>6. DOMAIN current' = 1..Len(current')
  BY <1>4, LenProperties
<1>7. running' => /\ current'[Len(current')] = Found(list)
                  /\ ~mismarked => /\ \A k \in DOMAIN current' : current'[k] \in {Stale, Found(list)}
                                   /\ Head(current') \in {Stale, Found(list)}
                  /\ current # <<>> => Head(current') = Head(current)
                  /\ current = <<>> => Head(current') = Found(list)
  <2> SUFFICES ASSUME running'
               PROVE  /\ current'[Len(current')] = Found(list)
                      /\ ~mismarked => /\ \A k \in DOMAIN current' : current'[k] \in {Stale, Found(list)}
                                       /\ Head(current') \in {Stale, Found(list)}
                      /\ current # <<>> => Head(current') = Head(current)
                      /\ current = <<>> => Head(current') = Found(list)
    OBVIOUS
  <2>1. ~mismarked => \A k \in 1..Len(current) : current'[k] \in {Stale, Found(list)}
    BY <1>3, <1>4, <1>5 DEF PointerInv
  <2>2. ~mismarked => \A k \in DOMAIN current' : current'[k] \in {Stale, Found(list)}
    BY <1>3, <1>5, <1>6, <2>1
  <2>3. 1 \in DOMAIN current' /\ Head(current') = current'[1]
    BY <1>3, <1>5, <1>6
  <2>4. current # <<>> => Head(current') = Head(current)
    BY <1>3, <1>5
  <2>5. current = <<>> => Head(current') = Found(list)
    BY <1>3, <1>5
  <2> QED
    BY <1>5, <2>2, <2>3, <2>4, <2>5
<1>8. PointerInv'
  BY <1>2, <1>4, <1>5, <1>7 DEF PointerInv
<1>9. MarkInv'
  <2>1. ASSUME running', NEW i \in DOMAIN list, types'[i] = "OVERLAY"
        PROVE  device'.count > Delay /\ (~mismarked => i = Found(list) /\ Head(current') = i)
    <3>1. running /\ device.open /\ device' = device
      BY <1>4, <2>1 DEF PointerInv
    <3>2. CASE types[i] = "OVERLAY"
      <4>1. /\ device.count > Delay
            /\ ~mismarked => i = Found(list) /\ (phase = "prepared" => Head(current) = i)
        BY <3>1, <3>2 DEF MarkInv
      <4>2. phase = "prepared" => current # <<>>
        BY <3>1 DEF PointerInv
      <4>3. phase # "prepared" => current = <<>>
        BY DEF PointerInv, TypeOK
      <4> QED
        BY <1>7, <2>1, <3>1, <4>1, <4>2, <4>3
    <3>3. CASE types[i] # "OVERLAY"
      <4>1. i = Head(current') /\ device'.count > Delay
        BY <1>2, <1>3, <2>1, <3>3, MarkedEffect
      <4>2. i # Stale
        BY <1>3, ListFacts DEF Stale
      <4> QED
        BY <1>7, <2>1, <4>1, <4>2
    <3> QED
      BY <3>2, <3>3
  <2>2. \A i \in DOMAIN list : types[i] = "OVERLAY" => types'[i] = "OVERLAY"
    BY <1>2, <1>3, MarkedEffect
  <2> QED
    BY <1>2, <2>1, <2>2 DEF MarkInv
<1> QED
  BY <1>2, <1>4, <1>8, <1>9 DEF ScreenReleased, NoLayerLost

----------------------------------------------------------------------------
(* Steps of hwc_set. *)

LEMMA SetKeeps ==
    ASSUME TypeOK, DeviceInv, PointerInv, MarkInv, Set
    PROVE  DeviceInv' /\ PointerInv' /\ MarkInv' /\ ScreenReleased' /\ NoLayerLost'
<1>1. /\ phase = "prepared" /\ phase' = "idle" /\ OverlaySet
      /\ drawing' = current /\ current' = <<>>
      /\ list' = list /\ types' = types /\ buffers' \in Handles(list) /\ running' = running
      /\ mismarked' = mismarked
      /\ base' = IF base.twoD /\ base.pending
                 THEN [base EXCEPT !.pending = FALSE, !.copied = types] ELSE base
  BY DEF Set, Cleared
<1>2. CASE current # <<>>
  <2>1. PICK q \in Pointed(Head(current)) : Commit(q[1], q[2])
    BY <1>1, <1>2 DEF OverlaySet
  <2>2. device.open
    BY <1>2 DEF PointerInv
  <2>3. /\ DeviceInv' /\ device'.open /\ device'.saved
        /\ device.count > Delay => device'.count > Delay
        /\ q[1] # NoBuffer => device'.image = q[1] \/ "flip" \in failed'
        /\ skipped' \/ device'.window = q[2] \/ "flip" \in failed'
    BY <2>1, <2>2, CommitEffect
  <2>4. PointerInv'
    BY <1>1, <2>3 DEF PointerInv
  <2>5. MarkInv'
    <3>1. running' => \A i \in DOMAIN list' : types'[i] = "OVERLAY" =>
            device'.count > Delay /\ (~mismarked' => i = Found(list'))
      BY <1>1, <2>3 DEF MarkInv
    <3>2. CASE base.twoD /\ base.pending
      <4>1. base'.copied = types
        BY <1>1, <3>2 DEF TypeOK
      <4> QED
        BY <1>1, <3>1, <4>1 DEF MarkInv
    <3>3. CASE ~(base.twoD /\ base.pending)
      BY <1>1, <3>1, <3>3 DEF MarkInv
    <3> QED
      BY <3>2, <3>3
  <2>6. ScreenReleased'
    BY <1>1, <1>2, <2>3 DEF ScreenReleased, DeviceInv
  <2>7. NoLayerLost'
    <3> SUFFICES ASSUME running, ~mismarked, NEW i \in DOMAIN list, ~DrawnByBase(i)'
                 PROVE  Head(current) = i /\ DeviceShows(i)'
      BY <1>1, <1>2 DEF NoLayerLost
    <3>1. types[i] = "OVERLAY"
      <4>1. CASE base'.loaded /\ base'.twoD
        <5>1. base'.copied[i] = "OVERLAY"
          BY <4>1 DEF DrawnByBase
        <5>2. ~base'.pending
          BY <1>1, <4>1 DEF TypeOK
        <5> QED
          BY <1>1, <2>5, <4>1, <5>1, <5>2 DEF MarkInv
      <4>2. CASE ~(base'.loaded /\ base'.twoD)
        BY <1>1, <4>2 DEF DrawnByBase
      <4> QED
        BY <4>1, <4>2
    <3>2. Head(current) = i /\ i = Found(list) /\ device'.count > Delay
      BY <1>1, <2>3, <3>1 DEF MarkInv
    <3>3. list[i].video
      BY <3>2, ListFacts DEF TypeOK, PointerInv
    <3>30. q[1] = buffers'[i] /\ q[2] = list[i].frame
      BY <2>1, <3>2, <3>3 DEF Pointed
    <3>4. buffers'[i] # NoBuffer
      BY <1>1, <3>3 DEF Handles
    <3>5. device'.count > 0
      <4>1. device'.count \in Nat
        <5>1. device.count \in Nat /\ device.count > Delay
          BY <3>1, <3>2 DEF TypeOK, MarkInv
        <5> QED
          BY <2>1, <5>1, OverlayAssumption DEF Commit, Keyed, Flipped, TypeOK
      <4> QED
        BY <3>2, <4>1, OverlayAssumption
    <3>6. device'.dma \/ "on" \in failed'
      BY <2>3, <3>5 DEF DeviceInv
    <3>7. device'.key \/ "key" \in failed'
      BY <2>3 DEF DeviceInv
    <3>8. DeviceShows(i)'
      BY <1>1, <2>3, <3>30, <3>4, <3>6, <3>7 DEF DeviceShows
    <3> QED
      BY <3>2, <3>8
  <2> QED
    BY <2>3, <2>4, <2>5, <2>6, <2>7
<1>3. CASE current = <<>>
  <2>1. ~running
    BY <1>1, <1>3 DEF PointerInv
  <2>2. DeviceInv' /\ ~device'.open
    <3>1. CASE device.open
      <4>1. PICK failing \in SUBSET {"off"} :
              device' = Closed(failing) /\ Report({"off"}, failing)
        BY <1>1, <1>3, <3>1 DEF OverlaySet
      <4> QED
        BY <4>1, CloseEffect
    <3>2. CASE ~device.open
      BY <1>1, <1>3, <3>2 DEF OverlaySet, DeviceInv
    <3> QED
      BY <3>1, <3>2
  <2>3. PointerInv'
    BY <1>1, <2>1, <2>2 DEF PointerInv
  <2>4. MarkInv'
    <3>1. CASE base.twoD /\ base.pending
      <4>1. base'.copied = types
        BY <1>1, <3>1 DEF TypeOK
      <4> QED
        BY <1>1, <2>1, <4>1 DEF MarkInv
    <3>2. CASE ~(base.twoD /\ base.pending)
      BY <1>1, <2>1, <3>2 DEF MarkInv
    <3> QED
      BY <3>1, <3>2
  <2>5. ScreenReleased' /\ NoLayerLost'
    BY <1>1, <1>3, <2>1, <2>2 DEF ScreenReleased, NoLayerLost, DeviceInv
  <2> QED
    BY <2>2, <2>3, <2>4, <2>5
<1> QED
  BY <1>2, <1>3

----------------------------------------------------------------------------
(* Types. *)

LEMMA BaseTyped ==
    ASSUME NEW n \in Nat, NEW twoD
    PROVE  BaseTypes(n, twoD) \in [1..n -> Composition]
  BY DEF BaseTypes, Composition

LEMMA MarkedTyped ==
    ASSUME NEW n \in Nat, NEW given \in [1..n -> Composition]
    PROVE  OverlayTypes(given) \in [1..n -> Composition]
<1>1. "OVERLAY" \in Composition
  BY DEF Composition
<1> QED
  BY <1>1 DEF OverlayTypes, Marked

DeviceType ==
    [open : BOOLEAN, count : 0..(Delay + 1), shadow : Buffer \union {NoBuffer},
     saved : BOOLEAN, key : BOOLEAN, dma : BOOLEAN,
     image : Buffer \union {NoBuffer}, window : SUBSET Nat]

BaseType == [loaded : BOOLEAN, twoD : BOOLEAN, pending : BOOLEAN, copied : Seq(Composition)]

LEMMA OpenedTyped ==
    ASSUME TypeOK
    PROVE  Opened \in DeviceType
<1>1. device \in DeviceType /\ 0 \in 0..(Delay + 1)
  BY OverlayAssumption DEF TypeOK, DeviceType
<1>2. CASE device.open
  BY <1>1, <1>2 DEF Opened
<1>3. CASE ~device.open
  <2>1. Opened = [device EXCEPT !.open = TRUE, !.shadow = NoBuffer, !.count = 0]
    BY <1>3 DEF Opened
  <2> QED
    BY <1>1, <2>1 DEF DeviceType
<1> QED
  BY <1>2, <1>3

LEMMA CommitTyped ==
    ASSUME TypeOK, NEW b \in Buffer \union {NoBuffer}, NEW frame \in SUBSET Nat, Commit(b, frame)
    PROVE  device' \in DeviceType /\ failed' \subseteq Failures /\ skipped' \in BOOLEAN
<1> USE OverlayAssumption
<1>1. PICK failing \in SUBSET Tried(b) :
        /\ skipped' = (device.shadow = b)
        /\ device' = IF device.shadow = b THEN Keyed(failing)
                     ELSE Flipped(Keyed(failing), b, frame, failing)
        /\ Report(Tried(b), failing)
  BY DEF Commit
<1>2. device \in DeviceType
  BY DEF TypeOK, DeviceType
<1>3. Keyed(failing) \in DeviceType
  <2>1. ("key" \notin failing) \in BOOLEAN
    BY Zenon
  <2> QED
    BY <1>2, <2>1 DEF Keyed, DeviceType
<1> DEFINE keyed == Keyed(failing)
<1> HIDE DEF keyed
<1>4. keyed \in DeviceType
  BY <1>3 DEF keyed
<1>5. Flipped(keyed, b, frame, failing) \in DeviceType
  <2> DEFINE dma == keyed.dma \/ (keyed.count = 0 /\ "on" \notin failing)
             count == IF keyed.count > Delay THEN keyed.count ELSE keyed.count + 1
             image == IF "flip" \in failing THEN keyed.image ELSE b
             window == IF "flip" \in failing THEN keyed.window ELSE frame
  <2>1. dma \in BOOLEAN
    BY Zenon
  <2>2. count \in 0..(Delay + 1) /\ image \in Buffer \union {NoBuffer} /\ window \in SUBSET Nat
    BY <1>4 DEF DeviceType
  <2>3. Flipped(keyed, b, frame, failing) =
            [keyed EXCEPT !.count = count, !.shadow = b, !.dma = dma,
                          !.image = image, !.window = window]
    BY <1>4 DEF Flipped, DeviceType
  <2> HIDE DEF dma, count, image, window
  <2> QED
    BY <1>4, <2>1, <2>2, <2>3 DEF DeviceType
<1>6. device' \in DeviceType
  BY <1>1, <1>3, <1>5 DEF keyed
<1>7. failed' \subseteq Failures
  <2>1. Tried(b) \subseteq Failures
    BY DEF Tried, Failures
  <2> QED
    BY <1>1, <2>1 DEF Report, TypeOK
<1>8. skipped' \in BOOLEAN
  BY <1>1, Zenon
<1> QED
  BY <1>6, <1>7, <1>8

LEMMA PrepareTyped ==
    ASSUME TypeOK, DeviceInv, PointerInv, NEW new \in Seq(Layer), NEW kept \in Seq(Nat),
           kept # <<>> => device.open, NEW ready \in BOOLEAN,
           OverlayPrepare(new, kept, ready), failed' = failed
    PROVE  running' \in BOOLEAN /\ current' \in Seq(Nat) /\ device' \in DeviceType
<1>1. running' \in BOOLEAN
  BY Zenon DEF OverlayPrepare
<1>2. current' \in Seq(Nat)
  BY PrepareEffect
<1>3. device' \in DeviceType
  BY OpenedTyped DEF OverlayPrepare, TypeOK, DeviceType
<1> QED
  BY <1>1, <1>2, <1>3

LEMMA TypeKept ==
    ASSUME TypeOK, DeviceInv, PointerInv, [Next]_vars
    PROVE  TypeOK'
<1> USE OverlayAssumption
<1>1. CASE PrepareNew
  <2>1. PICK n \in 0..MaxLayers, allowed \in BOOLEAN, twoD \in {FALSE, base.loaded},
             reused \in {FALSE, current # <<>>} :
          /\ list' \in [1..n -> Layer]
          /\ OverlayPrepare(list', Kept(reused), allowed)
          /\ mismarked' = (running' /\ reused /\ \E k \in DOMAIN current : current[k] # Stale)
          /\ types' = IF base.loaded THEN BaseTypes(n, twoD) ELSE OverlayTypes(BaseTypes(n, twoD))
          /\ base' = IF base.loaded
                   THEN [base EXCEPT !.twoD = twoD, !.pending = TRUE, !.copied = <<>>]
                   ELSE base
    BY <1>1 DEF PrepareNew, Kept
  <2>2. n \in Nat /\ list' \in Seq(Layer) /\ DOMAIN list' = 1..n
    BY <2>1
  <2>3. /\ phase' = "prepared" /\ failed' = failed /\ skipped' = FALSE /\ drawing' = drawing
    BY <1>1 DEF PrepareNew
  <2> DEFINE kept == Kept(reused)
  <2>4. kept \in Seq(Nat) /\ (kept # <<>> => device.open) /\ OverlayPrepare(list', kept, allowed)
    BY <2>1, KeptFacts DEF PointerInv
  <2>40. mismarked' \in BOOLEAN
    BY <2>1, Zenon
  <2> HIDE DEF kept
  <2>5. running' \in BOOLEAN /\ current' \in Seq(Nat) /\ device' \in DeviceType
    BY <2>2, <2>3, <2>4, PrepareTyped
  <2>6. types' \in [DOMAIN list' -> Composition]
    BY <2>1, <2>2, BaseTyped, MarkedTyped
  <2>7. base' \in BaseType
    <3>1. base.loaded \in BOOLEAN /\ twoD \in BOOLEAN /\ base \in BaseType
      BY DEF TypeOK, BaseType
    <3>2. <<>> \in Seq(Composition)
      BY EmptySeq
    <3> QED
      BY <2>1, <3>1, <3>2 DEF BaseType
  <2> QED
    BY <2>2, <2>3, <2>40, <2>5, <2>6, <2>7, Zenon DEF TypeOK, DeviceType, BaseType
<1>2. CASE PrepareSame
  <2>1. PICK missing \in BOOLEAN : OverlayPrepare(list, current, running /\ ~missing)
    BY <1>2 DEF PrepareSame
  <2>2. /\ phase' = "prepared" /\ failed' = failed /\ skipped' = FALSE /\ drawing' = drawing
        /\ mismarked' = mismarked
        /\ list' = list /\ base' = base
        /\ types' = OverlayTypes(types)
    BY <1>2 DEF PrepareSame
  <2>3. running' \in BOOLEAN /\ current' \in Seq(Nat) /\ device' \in DeviceType
    <3>1. (running /\ ~missing) \in BOOLEAN
      BY Zenon
    <3>2. list \in Seq(Layer) /\ current \in Seq(Nat) /\ (current # <<>> => device.open)
      BY DEF TypeOK, PointerInv
    <3> QED
      BY <2>1, <2>2, <3>1, <3>2, PrepareTyped
  <2>4. types' \in [DOMAIN list' -> Composition]
    BY <2>2, ListFacts, MarkedTyped DEF TypeOK
  <2> QED
    BY <2>2, <2>3, <2>4, Zenon DEF TypeOK, DeviceType
<1>3. CASE Set
  <2>1. /\ phase' = "idle" /\ OverlaySet /\ drawing' = current /\ current' = <<>>
        /\ list' = list /\ types' = types /\ buffers' \in Handles(list') /\ running' = running
        /\ mismarked' = mismarked
        /\ base' = IF base.twoD /\ base.pending
                   THEN [base EXCEPT !.pending = FALSE, !.copied = types] ELSE base
    BY <1>3 DEF Set, Cleared
  <2>2. device' \in DeviceType /\ failed' \subseteq Failures /\ skipped' \in BOOLEAN
    <3>1. CASE current # <<>>
      <4>1. PICK q \in Pointed(Head(current)) : Commit(q[1], q[2])
        BY <2>1, <3>1 DEF OverlaySet
      <4>2. q[1] \in Buffer \union {NoBuffer} /\ q[2] \in SUBSET Nat
        <5>1. \A l \in Layer : l.frame \in SUBSET Nat
          BY DEF LayerType
        <5>2. \A k \in DOMAIN list : list[k] \in Layer /\ buffers'[k] \in Buffer \union {NoBuffer}
          BY <2>1, ListFacts DEF TypeOK, Handles
        <5> QED
          BY <5>1, <5>2 DEF Pointed
      <4> QED
        BY <4>1, <4>2, CommitTyped
    <3>2. CASE current = <<>> /\ device.open
      <4>1. PICK failing \in SUBSET {"off"} :
              device' = Closed(failing) /\ Report({"off"}, failing) /\ UNCHANGED skipped
        BY <2>1, <3>2 DEF OverlaySet
      <4>2. device' \in DeviceType
        <5> DEFINE dma == device.dma /\ "off" \in failing
        <5>1. dma \in BOOLEAN
          BY Zenon
        <5>2. device \in DeviceType /\ 0 \in 0..(Delay + 1)
          BY DEF TypeOK, DeviceType
        <5>3. device' = [device EXCEPT !.open = FALSE, !.shadow = NoBuffer, !.count = 0,
                                       !.dma = dma]
          BY <4>1, <5>2 DEF Closed, DeviceType
        <5> HIDE DEF dma
        <5> QED
          BY <5>1, <5>2, <5>3 DEF DeviceType
      <4>3. failed' \subseteq Failures
        BY <4>1 DEF Report, Failures, TypeOK
      <4>4. skipped' \in BOOLEAN
        BY <4>1, Zenon DEF TypeOK
      <4> QED
        BY <4>2, <4>3, <4>4
    <3>3. CASE current = <<>> /\ ~device.open
      <4>1. UNCHANGED <<device, failed, skipped>>
        BY <2>1, <3>3 DEF OverlaySet
      <4> QED
        BY <4>1, Zenon DEF TypeOK, DeviceType
    <3> QED
      BY <3>1, <3>2, <3>3
  <2>3. base' \in BaseType
    <3>1. types \in Seq(Composition)
      BY ListFacts DEF TypeOK
    <3> QED
      BY <2>1, <3>1 DEF TypeOK, BaseType
  <2>4. current' \in Seq(Nat)
    BY <2>1, EmptySeq
  <2> QED
    BY <2>1, <2>2, <2>3, <2>4, Zenon DEF TypeOK, DeviceType, BaseType
<1>4. CASE UNCHANGED vars
  <2>1. /\ phase' = phase /\ list' = list /\ types' = types /\ buffers' = buffers
        /\ mismarked' = mismarked /\ base' = base /\ running' = running
        /\ current' = current /\ drawing' = drawing
    BY <1>4 DEF vars, lists, composer
  <2>2. device' = device /\ failed' = failed /\ skipped' = skipped
    BY <1>4 DEF vars
  <2>3. /\ phase' = "idle" => buffers' \in Handles(list')
        /\ types' \in [DOMAIN list' -> Composition]
        /\ list' \in Seq(Layer) /\ current' \in Seq(Nat) /\ drawing' \in Seq(Nat)
    BY <2>1, Zenon DEF TypeOK
  <2>4. /\ device' \in DeviceType /\ failed' \subseteq Failures /\ skipped' \in BOOLEAN
        /\ base' \in BaseType
    BY <2>1, <2>2, Zenon DEF TypeOK, DeviceType, BaseType
  <2>5. phase' \in {"idle", "prepared"} /\ running' \in BOOLEAN /\ mismarked' \in BOOLEAN
    BY <2>1, Zenon DEF TypeOK
  <2> QED
    BY <2>3, <2>4, <2>5, Zenon DEF TypeOK, DeviceType, BaseType
<1> QED
  BY <1>1, <1>2, <1>3, <1>4 DEF Next

----------------------------------------------------------------------------
LEMMA InitIInv == Init => IInv
<1> SUFFICES ASSUME Init
             PROVE  IInv
  OBVIOUS
<1> USE OverlayAssumption DEF Init
<1>1. TypeOK
  <2>1. list \in Seq(Layer) /\ current \in Seq(Nat) /\ drawing \in Seq(Nat) /\ DOMAIN list = {}
    BY EmptySeq
  <2>2. types \in [DOMAIN list -> Composition]
    BY <2>1
  <2>3. buffers \in Handles(list)
    BY <2>1 DEF Handles
  <2>4. base \in BaseType
    BY EmptySeq DEF BaseType
  <2>5. device \in DeviceType
    BY DEF DeviceType
  <2>6. phase \in {"idle", "prepared"} /\ failed \subseteq Failures
    OBVIOUS
  <2>7. running \in BOOLEAN /\ mismarked \in BOOLEAN /\ skipped \in BOOLEAN
    BY Zenon
  <2> QED
    BY <2>1, <2>2, <2>3, <2>4, <2>5, <2>6, <2>7, Zenon DEF TypeOK, BaseType, DeviceType
<1>2. DeviceInv /\ PointerInv /\ MarkInv
  BY DEF DeviceInv, PointerInv, MarkInv
<1>3. ScreenReleased /\ NoLayerLost
  BY DEF ScreenReleased, NoLayerLost
<1> QED
  BY <1>1, <1>2, <1>3 DEF IInv

\* The inductive invariant holds in every reachable state.
THEOREM AlwaysIInv == Spec => []IInv
<1>1. IInv /\ [Next]_vars => IInv'
  <2> SUFFICES ASSUME IInv, [Next]_vars
               PROVE  IInv'
    OBVIOUS
  <2>1. TypeOK /\ DeviceInv /\ PointerInv /\ MarkInv
    BY Zenon DEF IInv
  <2>2. TypeOK'
    BY <2>1, TypeKept
  <2>3. CASE PrepareNew
    BY <2>1, <2>2, <2>3, PrepareNewKeeps DEF IInv
  <2>4. CASE PrepareSame
    BY <2>1, <2>2, <2>4, PrepareSameKeeps DEF IInv
  <2>5. CASE Set
    BY <2>1, <2>2, <2>5, SetKeeps DEF IInv
  <2>6. CASE UNCHANGED vars
    <3>1. /\ phase' = phase /\ list' = list /\ types' = types /\ buffers' = buffers
          /\ mismarked' = mismarked
          /\ base' = base /\ running' = running /\ current' = current /\ drawing' = drawing
          /\ device' = device /\ failed' = failed /\ skipped' = skipped
      BY <2>6 DEF vars, lists, composer
    <3>2. DeviceInv' /\ PointerInv' /\ MarkInv'
      BY <2>1, <3>1 DEF DeviceInv, PointerInv, MarkInv
    <3>3. ScreenReleased' /\ NoLayerLost'
      BY <3>1 DEF IInv, ScreenReleased, NoLayerLost, DrawnByBase, DeviceShows
    <3> QED
      BY <2>2, <3>2, <3>3 DEF IInv
  <2> QED
    BY <2>3, <2>4, <2>5, <2>6 DEF Next
<1> QED
  BY <1>1, InitIInv, PTL DEF Spec

\* TypeOK: composer, device and lists keep their types.
THEOREM TypeCorrect == Spec => []TypeOK
<1>1. IInv => TypeOK
  BY DEF IInv
<1> QED
  BY <1>1, AlwaysIInv, PTL

\* NoLayerLost: whatever finishCompose leaves on the screen, a layer the base
\* does not draw is shown by the overlay, unless pointers of an earlier list
\* lead into this one.
THEOREM EveryLayerDrawn == Spec => []NoLayerLost
<1>1. IInv => NoLayerLost
  BY DEF IInv
<1> QED
  BY <1>1, AlwaysIInv, PTL

\* ScreenReleased: finishCompose closes the device with the last layer.
THEOREM OverlayLeavesScreen == Spec => []ScreenReleased
<1>1. IInv => ScreenReleased
  BY DEF IInv
<1> QED
  BY <1>1, AlwaysIInv, PTL

\* HandOver: allocateOverlay marks a layer only once the overlay shows frames.
THEOREM BaseHandsOver == Spec => []HandOver
<1>1. IInv => HandOver
  <2> SUFFICES ASSUME IInv, running, NEW i \in DOMAIN list, types[i] = "OVERLAY"
               PROVE  device.open /\ device.count > Delay /\ (device.dma \/ "on" \in failed)
    BY DEF HandOver
  <2>1. device.open /\ device.count > Delay
    BY DEF IInv, PointerInv, MarkInv
  <2>2. device.count > 0
    BY <2>1, OverlayAssumption DEF IInv, TypeOK
  <2> QED
    BY <2>1, <2>2 DEF IInv, DeviceInv
<1> QED
  BY <1>1, AlwaysIInv, PTL

\* NothingOverOverlay: the overlap test of traverse keeps every other layer away
\* from the one taken, but for those the sorted vector dropped.
THEOREM OverlayAlone == Spec => []NothingOverOverlay
<1>1. IInv => NothingOverOverlay
  <2> SUFFICES ASSUME IInv, phase = "prepared", running
               PROVE  LET k == current[Len(current)]
                      IN  \A i \in DOMAIN list \ {k} :
                            \/ list[i].frame \intersect list[k].frame = {}
                            \/ /\ list[i].video
                               /\ \E j \in DOMAIN list :
                                    j > i /\ list[j].video /\ Twins(list[i], list[j])
    BY DEF NothingOverOverlay
  <2>1. current[Len(current)] = Found(list) /\ Taken(list) # {} /\ list \in Seq(Layer)
    BY DEF IInv, PointerInv, TypeOK
  <2>2. current[Len(current)] \in Taken(list)
    BY <2>1, FoundTaken
  <2> QED
    BY <2>1, <2>2, OthersTested
<1> QED
  BY <1>1, AlwaysIInv, PTL

=============================================================================
