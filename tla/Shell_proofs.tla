---------------------------- MODULE Shell_proofs ----------------------------
(***************************************************************************)
(* Theorems about two parts of libhwcomposer that have nothing in common   *)
(* but the shell: the virtual display (VirtualMirror), for any addresses,  *)
(* parameters and buffers, and the vsync events (DisplayEvents), for any   *)
(* threads of the framework.                                               *)
(***************************************************************************)
EXTENDS VirtualMirror, DisplayEvents, TLAPS

----------------------------------------------------------------------------
(* The virtual display. *)

\* The lists are those the composers last prepared.
Current == ~(phase = "given" /\ geometry)

\* Beside a base composer only a running mirror has claimed layers, and a mirror
\* runs for what it accepts.
Claims ==
    /\ base /\ claimed => running
    /\ data.known => data.mode = "mirror"
    /\ running /\ Current => shown /\ Accepts

\* What is cleared is clean for the parameters prepare saw last.
Clean ==
    running /\ ~missed =>
        /\ \A b \in data.cleared : pictures[b] \subseteq {data.params}
        /\ Current => data.params = target.params

IInv == TypeOK /\ Claims /\ Clean

LEMMA InitIInv == Init => IInv
<1> SUFFICES ASSUME Init
             PROVE  IInv
  OBVIOUS
<1> USE DEF Init
<1>1. /\ target.layer \in Layer /\ target.params \in Params /\ target.mode \in Mode
      /\ data \in Data
  BY DEF Target, Data
<1>2. previousMode \in Mode
  BY DEF Mode
<1>3. TypeOK
  BY <1>1, <1>2 DEF TypeOK
<1>4. Claims /\ Clean
  BY DEF Claims, Clean
<1> QED
  BY <1>3, <1>4 DEF IInv

----------------------------------------------------------------------------
\* The framework makes lists, or hands out those of the last frame.
LEMMA ListsKeepIInv ==
    ASSUME IInv, NewLists \/ SameLists
    PROVE  IInv'
<1> USE DEF IInv, NewLists, SameLists, lists, composer
<1>1. TypeOK'
  BY DEF TypeOK
<1>2. Claims'
  BY DEF Claims, Current, Accepts
<1>3. Clean'
  BY DEF Clean, Current
<1> QED
  BY <1>1, <1>2, <1>3

\* prepare of a mirrored display finds it, and finds it in mirror mode.
LEMMA MirrorKnown ==
    ASSUME IInv, phase = "given", ReadyToRun
    PROVE  /\ shown
           /\ geometry => target.mode = "mirror"
           /\ ~geometry => /\ running /\ data.known
                           /\ data.layer = target.layer
  BY DEF IInv, ReadyToRun, MirrorWanted, LooksAtMode, Claims, Current, Accepts

LEMMA PrepareMirrorKeepsIInv ==
    ASSUME IInv, PrepareMirror
    PROVE  IInv'
<1>1. /\ phase = "given" /\ phase' = "prepared"
      /\ claimed' = shown /\ running' = TRUE
      /\ previousMode' = IF LooksAtMode THEN target.mode ELSE previousMode
      /\ UNCHANGED <<base, empty, geometry, primary, target, shown, pictures>>
  BY DEF PrepareMirror, lists
<1>2. /\ shown
      /\ geometry => target.mode = "mirror"
      /\ ~geometry => /\ running /\ data.known
                      /\ data.layer = target.layer
  BY MirrorKnown DEF PrepareMirror
<1>3. NewDisplay \/ MovedDisplay \/ SameDisplay
  BY <1>2 DEF PrepareMirror
<1>4. TypeOK /\ Claims /\ Clean
  BY DEF IInv
<1>5. CASE NewDisplay
  <2>1. TypeOK'
    BY <1>1, <1>4, <1>5 DEF TypeOK, NewDisplay, ClearPending, MirrorWanted, LooksAtMode, Target, Data, Mode
  <2>2. Claims'
    BY <1>1, <1>2, <1>4, <1>5 DEF Claims, Current, Accepts, NewDisplay
  <2>3. Clean'
    BY <1>1, <1>5 DEF Clean, Current, NewDisplay
  <2> QED
    BY <2>1, <2>2, <2>3 DEF IInv
<1>6. CASE MovedDisplay
  <2>1. data' \in Data /\ clearBuffer' \in BOOLEAN /\ missed' \in BOOLEAN
    BY <1>4, <1>6 DEF TypeOK, MovedDisplay, Target, Data
  <2>2. TypeOK'
    BY <1>1, <1>4, <2>1 DEF TypeOK, Target
  <2>3. data'.known /\ data'.layer = target.layer /\ data'.params = target.params
        /\ data'.mode = data.mode /\ data'.cleared = IF ResetsCleared THEN {} ELSE data.cleared
    BY <1>4, <1>6 DEF MovedDisplay, TypeOK, Data
  <2>4. Claims'
    BY <1>1, <1>2, <1>4, <1>6, <2>3 DEF Claims, Current, Accepts, MovedDisplay
  <2>5. ASSUME ResetsCleared PROVE Clean'
    BY <1>1, <2>3, <2>5 DEF Clean
  <2>6. ASSUME ~ResetsCleared PROVE Clean'
    <3>1. running /\ data.params = target.params /\ (missed' <=> missed)
      BY <1>6, <2>6 DEF ResetsCleared, MovedDisplay
    <3> QED
      BY <1>1, <1>4, <2>3, <2>6, <3>1 DEF Clean
  <2> QED
    BY <2>2, <2>4, <2>5, <2>6 DEF IInv
<1>7. CASE SameDisplay
  <2>1. TypeOK'
    BY <1>1, <1>4, <1>7 DEF TypeOK, SameDisplay, ClearPending, MirrorWanted, LooksAtMode, Target, Data, Mode
  <2>2. Claims'
    BY <1>1, <1>2, <1>4, <1>7 DEF Claims, Current, Accepts, SameDisplay
  <2>3. Clean'
    BY <1>1, <1>4, <1>7 DEF Clean, Current, SameDisplay
  <2> QED
    BY <2>1, <2>2, <2>3 DEF IInv
<1> QED
  BY <1>3, <1>5, <1>6, <1>7

LEMMA PrepareOthersKeepsIInv ==
    ASSUME IInv, PrepareOthers
    PROVE  IInv'
<1> USE DEF IInv, PrepareOthers, lists
<1>1. TypeOK'
  BY DEF TypeOK, Target, Data, Mode
<1>2. Claims'
  BY DEF Claims, Current, Accepts, Notified
<1>3. Clean'
  BY DEF Clean
<1> QED
  BY <1>1, <1>2, <1>3

----------------------------------------------------------------------------
\* One blit adds the present picture to a buffer that was clean or is filled.
LEMMA BlitKeepsIInv ==
    ASSUME IInv, NEW b \in Buffer, NEW failing \in {"dequeue", "fill", "filter", "none"},
           phase = "prepared", running, phase' = "idle", Blit(b, failing),
           UNCHANGED <<base, lists, claimed, running, clearBuffer, previousMode, missed>>
    PROVE  IInv'
<1>1. \/ UNCHANGED <<pictures, data>>
      \/ \E p \in {{}, {target.params}} :
            /\ pictures' = [pictures EXCEPT ![b] = Filled(b) \union p]
            /\ data' = [data EXCEPT !.cleared = @ \union {b}]
  BY DEF Blit
<1>2. TypeOK /\ Claims /\ Clean
  BY DEF IInv
<1>3. UNCHANGED <<base, empty, geometry, primary, target, shown>>
  BY DEF lists
<1>4. CASE UNCHANGED <<pictures, data>>
  BY <1>2, <1>3, <1>4 DEF IInv, TypeOK, Claims, Clean, Current, Accepts
<1>5. ASSUME NEW p \in {{}, {target.params}},
             pictures' = [pictures EXCEPT ![b] = Filled(b) \union p],
             data' = [data EXCEPT !.cleared = @ \union {b}]
      PROVE  IInv'
  <2>1. /\ data'.known = data.known /\ data'.layer = data.layer /\ data'.mode = data.mode
        /\ data'.params = data.params /\ data'.cleared = data.cleared \union {b}
        /\ data' \in Data
    BY <1>2, <1>5 DEF TypeOK, Data
  <2>2. /\ pictures'[b] = Filled(b) \union p
        /\ \A c \in Buffer \ {b} : pictures'[c] = pictures[c]
        /\ pictures' \in [Buffer -> SUBSET (Params \union {Others})]
    BY <1>2, <1>5 DEF TypeOK, Filled, Target
  <2>3. TypeOK'
    BY <1>2, <1>3, <2>1, <2>2 DEF TypeOK
  <2>4. Claims'
    BY <1>2, <1>3, <2>1 DEF Claims, Current, Accepts
  <2>5. Clean'
    BY <1>2, <1>3, <2>1, <2>2 DEF TypeOK, Data, Clean, Current, Filled
  <2> QED
    BY <2>3, <2>4, <2>5 DEF IInv
<1> QED
  BY <1>1, <1>4, <1>5

LEMMA SetKeepsIInv ==
    ASSUME IInv, SetMirror \/ SetOthers
    PROVE  IInv'
<1>1. CASE SetMirror
  <2>1. CASE shown /\ Accepts
    <3>1. PICK b \in Buffer, failing \in {"dequeue", "fill", "filter", "none"} : Blit(b, failing)
      BY <1>1, <2>1 DEF SetMirror
    <3> QED
      BY <1>1, <3>1, BlitKeepsIInv DEF SetMirror
  <2>2. CASE ~(shown /\ Accepts)
    BY <1>1, <2>2 DEF SetMirror, IInv, Claims, Current
  <2> QED
    BY <2>1, <2>2
<1>2. CASE SetOthers
  <2> USE <1>2 DEF IInv, SetOthers, lists, composer
  <2>1. TypeOK'
    BY DEF TypeOK
  <2>2. Claims'
    BY DEF Claims, Current, Accepts
  <2>3. Clean'
    BY DEF Clean
  <2> QED
    BY <2>1, <2>2, <2>3
<1> QED
  BY <1>1, <1>2

LEMMA NextKeepsIInv == IInv /\ [Next]_vars => IInv'
<1> SUFFICES ASSUME IInv, [Next]_vars
             PROVE  IInv'
  OBVIOUS
<1>1. CASE UNCHANGED vars
  BY <1>1 DEF vars, lists, composer, IInv, TypeOK, Claims, Clean, Current, Accepts
<1>2. CASE Next
  BY <1>2, ListsKeepIInv, PrepareMirrorKeepsIInv, PrepareOthersKeepsIInv, SetKeepsIInv DEF Next
<1> QED
  BY <1>1, <1>2

----------------------------------------------------------------------------
\* The inductive invariant holds in every reachable state.
THEOREM AlwaysIInv == Spec => []IInv
  BY InitIInv, NextKeepsIInv, PTL DEF Spec

\* TypeOK: HWVirtualComposer keeps the parameters, mode and buffers it was given.
THEOREM TypeCorrect == Spec => []TypeOK
<1>1. IInv => TypeOK
  BY DEF IInv
<1> QED
  BY <1>1, AlwaysIInv, PTL

\* ClearedIsClean: no buffer that counts as cleared holds more than the present
\* picture, unless prepare overlooked a restart or a turn.
THEOREM CleanBuffers == Spec => []ClearedIsClean
<1>1. IInv => ClearedIsClean
  BY DEF IInv, Clean, Current, ClearedIsClean
<1> QED
  BY <1>1, AlwaysIInv, PTL

\* LeftToBase: layers left to the base composer, where there is one, are not
\* marked as the mirror's.
THEOREM NoneLeftClaimed == Spec => []LeftToBase
<1>1. IInv => LeftToBase
  BY DEF IInv, Claims, LeftToBase
<1> QED
  BY <1>1, AlwaysIInv, PTL

\* TakenIsDrawn: HWVirtualComposer::set refuses no display that prepare took.
THEOREM NoneRefused == Spec => []TakenIsDrawn
<1>1. IInv => TakenIsDrawn
  BY DEF IInv, Claims, Current, TakenIsDrawn
<1> QED
  BY <1>1, AlwaysIInv, PTL

----------------------------------------------------------------------------
(* The display event monitor. *)

\* As long as nothing came between flag and interrupt, at most one call is
\* under way; up to the assignment the two agree, and then the flag is what
\* the call is about to write.
CallsApart ==
    apart = {} =>
        /\ \A c, d \in Caller : c = d \/ At(c, "idle") \/ At(d, "idle")
        /\ (\A c \in Caller : ~At(c, "write")) => hardware = mVsyncOn
        /\ \A c \in Caller : At(c, "write") => call[c].enabled = mVsyncOn

\* Where the thread can be, what its timestamp can be, what may not open.
Threads == {"none", "start", "poll", "read", "test", "fire", "ended"}
Events == {"current", "before", "lost"}
Files == {"control", "timestamp"}

MonitorInv == MonitorTypeOK /\ OneLateEvent /\ CallsApart

LEMMA InitMonitorInv == MonitorInit => MonitorInv
<1> SUFFICES ASSUME MonitorInit
             PROVE  MonitorInv
  OBVIOUS
<1>1. /\ mVsyncOn = FALSE /\ hardware \in BOOLEAN /\ news = FALSE
      /\ thread = "none" /\ event = "current" /\ late = 0 /\ broken = {}
      /\ call = [c \in Caller |-> Idle]
  BY DEF MonitorInit
<1>2. apart \subseteq {"start"} /\ (apart = {} => hardware = mVsyncOn)
  BY Zenon DEF MonitorInit
<1>3. call \in [Caller -> [at : {"idle", "assign", "write"}, enabled : BOOLEAN]]
  BY <1>1 DEF Idle
<1>4. MonitorTypeOK
  <2>1. mVsyncOn \in BOOLEAN /\ news \in BOOLEAN
    BY <1>1, Zenon
  <2>2. /\ thread \in Threads /\ event \in Events
        /\ late \in 0..2 /\ broken \subseteq Files
        /\ apart \subseteq {"start", "calls", "control", "write"}
    BY <1>1, <1>2 DEF Threads, Events, Files
  <2> QED
    BY <1>1, <1>3, <2>1, <2>2, Zenon DEF MonitorTypeOK, Threads, Events, Files
<1>5. OneLateEvent
  BY <1>1 DEF OneLateEvent
<1>6. \A c \in Caller : At(c, "idle") /\ ~At(c, "write")
  BY <1>1 DEF At, Idle
<1>7. CallsApart
  BY <1>2, <1>6 DEF CallsApart
<1> QED
  BY <1>4, <1>5, <1>7 DEF MonitorInv

----------------------------------------------------------------------------
(* eventControl *)

\* A call that goes on, beside a test the thread may be in, changes nothing yet.
LEMMA CheckKeepsInv ==
    ASSUME MonitorInv, NEW c \in Caller, NEW enabled \in BOOLEAN, Check(c, enabled)
    PROVE  MonitorInv'
<1> USE DEF MonitorInv, Check, Go
<1>1. MonitorTypeOK'
  BY DEF MonitorTypeOK
<1>2. OneLateEvent'
  BY DEF OneLateEvent
<1>3. CallsApart'
  BY DEF CallsApart, At, Alone, MonitorTypeOK
<1> QED
  BY <1>1, <1>2, <1>3

\* Switching off makes what the thread has read a timestamp from before.
LEMMA AssignKeepsInv ==
    ASSUME MonitorInv, NEW c \in Caller, Assign(c)
    PROVE  MonitorInv'
<1> USE DEF MonitorInv, Assign, Go
<1>1. MonitorTypeOK'
  <2>1. call[c].enabled \in BOOLEAN
    BY DEF MonitorTypeOK
  <2>2. mVsyncOn' \in BOOLEAN /\ hardware' \in BOOLEAN /\ news' \in BOOLEAN
    BY <2>1, Zenon DEF MonitorTypeOK
  <2>3. \/ call' = [call EXCEPT ![c] = [at |-> "idle", enabled |-> FALSE]]
        \/ call' = [call EXCEPT ![c] = [at |-> "write", enabled |-> call[c].enabled]]
    BY Zenon
  <2>4. call' \in [Caller -> [at : {"idle", "assign", "write"}, enabled : BOOLEAN]]
    <3>1. call \in [Caller -> [at : {"idle", "assign", "write"}, enabled : BOOLEAN]]
      BY DEF MonitorTypeOK
    <3>2. \A place \in {"idle", "assign", "write"}, e \in BOOLEAN :
             [call EXCEPT ![c] = [at |-> place, enabled |-> e]]
                 \in [Caller -> [at : {"idle", "assign", "write"}, enabled : BOOLEAN]]
      <4> HIDE DEF MonitorInv, Assign
      <4> QED
        BY <3>1
    <3> QED
      BY <2>1, <2>3, <3>2, Zenon
  <2>5. apart' = apart \union {"control"} \/ UNCHANGED apart
    BY Zenon
  <2>6. event' \in {event, "before"} /\ late' = 0 /\ UNCHANGED <<thread, broken>>
    BY Zenon
  <2>7. /\ thread' \in Threads /\ event' \in Events
        /\ late' \in 0..2 /\ broken' \subseteq Files
        /\ apart' \subseteq {"start", "calls", "control", "write"}
    <3>1. event' \in Events
      BY <2>6, Zenon DEF MonitorTypeOK, Events
    <3>2. thread' \in Threads /\ broken' \subseteq Files
      BY <2>6, Zenon DEF MonitorTypeOK, Threads, Files
    <3>3. late' \in 0..2
      BY <2>6
    <3>4. apart' \subseteq {"start", "calls", "control", "write"}
      BY <2>5, Zenon DEF MonitorTypeOK
    <3> QED
      BY <3>1, <3>2, <3>3, <3>4
  <2> QED
    BY <2>2, <2>4, <2>7, Zenon DEF MonitorTypeOK, Threads, Events, Files
<1>2. OneLateEvent'
  BY DEF OneLateEvent, MonitorTypeOK
<1>3. CallsApart'
  BY DEF CallsApart, At, MonitorTypeOK
<1> QED
  BY <1>1, <1>2, <1>3

\* A write brings flag and interrupt together if it is alone and of the flag.
LEMMA WriteKeepsInv ==
    ASSUME MonitorInv, NEW c \in Caller, Write(c)
    PROVE  MonitorInv'
<1> USE DEF MonitorInv, Write, Go
<1>1. MonitorTypeOK'
  BY DEF MonitorTypeOK
<1>2. OneLateEvent'
  BY DEF OneLateEvent
<1>3. CallsApart'
  BY DEF CallsApart, At, Alone, MonitorTypeOK
<1> QED
  BY <1>1, <1>2, <1>3

----------------------------------------------------------------------------
\* RegisterProcs, threadLoop and the driver leave the calls alone; the thread
\* goes from its test to the callback only with the flag set.
LEMMA ThreadKeepsInv ==
    ASSUME MonitorInv, RegisterProcs \/ Start \/ Poll \/ Read \/ Test \/ Fire
    PROVE  MonitorInv'
<1> USE DEF MonitorInv, RegisterProcs, Start, Poll, Read, Test, Fire, Step
<1>1. MonitorTypeOK'
  <2>1. mVsyncOn' \in BOOLEAN /\ hardware' \in BOOLEAN /\ news' \in BOOLEAN
    BY Zenon DEF MonitorTypeOK
  <2>2. UNCHANGED <<call, apart>>
    OBVIOUS
  <2>3. thread' \in Threads
    BY Zenon DEF MonitorTypeOK, Threads
  <2>4. /\ event' \in Events
        /\ broken' \in {broken, broken \union {"timestamp"}, {}, {"control"}}
        /\ late' = late \/ (late # 2 /\ late' = late + 1)
    BY Zenon DEF MonitorTypeOK, Events
  <2>5. broken' \subseteq Files /\ late' \in 0..2
    BY <2>4 DEF MonitorTypeOK, Files
  <2> QED
    BY <2>1, <2>2, <2>3, <2>4, <2>5, Zenon DEF MonitorTypeOK, Threads, Events, Files
<1>2. OneLateEvent'
  BY DEF OneLateEvent, MonitorTypeOK
<1>3. CallsApart'
  BY DEF CallsApart, At
<1> QED
  BY <1>1, <1>2, <1>3

LEMMA VsyncKeepsInv ==
    ASSUME MonitorInv, Vsync
    PROVE  MonitorInv'
  BY DEF MonitorInv, Vsync, MonitorTypeOK, OneLateEvent, CallsApart, At

LEMMA NextKeepsMonitorInv == MonitorInv /\ [MonitorNext]_monitor => MonitorInv'
<1> SUFFICES ASSUME MonitorInv, [MonitorNext]_monitor
             PROVE  MonitorInv'
  OBVIOUS
<1>1. CASE UNCHANGED monitor
  BY <1>1 DEF monitor, MonitorInv, MonitorTypeOK, OneLateEvent, CallsApart, At
<1>2. CASE MonitorNext
  BY <1>2, CheckKeepsInv, AssignKeepsInv, WriteKeepsInv, ThreadKeepsInv, VsyncKeepsInv DEF MonitorNext
<1> QED
  BY <1>1, <1>2

----------------------------------------------------------------------------
\* The inductive invariant holds in every reachable state.
THEOREM AlwaysMonitorInv == MonitorSpec => []MonitorInv
  BY InitMonitorInv, NextKeepsMonitorInv, PTL DEF MonitorSpec

\* MonitorTypeOK: the monitor's flag, its thread and the calls keep their types.
THEOREM MonitorTypeCorrect == MonitorSpec => []MonitorTypeOK
<1>1. MonitorInv => MonitorTypeOK
  BY DEF MonitorInv
<1> QED
  BY <1>1, AlwaysMonitorInv, PTL

\* OneLateEvent: after switching off, threadLoop calls back at most once more,
\* with a timestamp it had read before.
THEOREM AtMostOneLate == MonitorSpec => []OneLateEvent
<1>1. MonitorInv => OneLateEvent
  BY DEF MonitorInv
<1> QED
  BY <1>1, AlwaysMonitorInv, PTL

\* HardwareFollows: between calls of eventControl the interrupt is as mVsyncOn
\* says, unless calls overlapped or a write failed.
THEOREM InterruptAsFlag == MonitorSpec => []HardwareFollows
<1>1. MonitorInv => HardwareFollows
  BY DEF MonitorInv, CallsApart, HardwareFollows, At
<1> QED
  BY <1>1, AlwaysMonitorInv, PTL

=============================================================================
