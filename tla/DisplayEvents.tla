----------------------------- MODULE DisplayEvents -----------------------------
(***************************************************************************)
(* HWCDisplayEventMonitor: threads of the framework switch vsync events on *)
(* and off (hwc_event_control of the shell, eventControl), a thread of its *)
(* own waits for the timestamps of the display driver and calls back       *)
(* (threadLoop).  Nothing but the flag mVsyncOn is between them, and no    *)
(* lock.                                                                   *)
(*                                                                         *)
(* Calls that change nothing are left out: events before the monitor is    *)
(* registered, and events that are as asked already.                       *)
(*                                                                         *)
(* The specification has names of its own (monitor, MonitorSpec), so that  *)
(* a module can extend it beside another part of the shell.                *)
(***************************************************************************)
EXTENDS Integers, FiniteSets

CONSTANT Caller     \* threads of the framework that switch events

ASSUME CallerAssumption == Caller # {} /\ IsFiniteSet(Caller)

VARIABLES
    mVsyncOn,
    call,           \* where each caller is in eventControl, and what it asked
    hardware,       \* the driver's vsync interrupt is on
    news,           \* vsync_ts has changed since it was read
    thread,         \* where threadLoop is
    event,          \* the timestamp read is "current"; "before" the last
                    \*   switching off; "lost" in a failed read
    late,           \* callbacks since events were switched off (up to 2)
    broken,         \* files that could not be opened
    apart           \* why the interrupt may differ from the flag

monitor == <<mVsyncOn, call, hardware, news, thread, event, late, broken, apart>>

Idle == [at |-> "idle", enabled |-> FALSE]

\* The driver is as the last user left it.
MonitorInit ==
    /\ mVsyncOn = FALSE
    /\ call = [c \in Caller |-> Idle]
    /\ hardware \in BOOLEAN
    /\ news = FALSE
    /\ thread = "none"
    /\ event = "current"
    /\ late = 0
    /\ broken = {}
    /\ apart = IF hardware THEN {"start"} ELSE {}

\* hwc_registerProcs makes the monitor, and onFirstRef its thread; the file
\* that controls the driver may be missing.
RegisterProcs ==
    /\ thread = "none"
    /\ thread' = "start"
    /\ broken' \in {{}, {"control"}}
    /\ UNCHANGED <<mVsyncOn, call, hardware, news, event, late, apart>>

----------------------------------------------------------------------------
(* eventControl *)

At(c, place) == call[c].at = place
Go(c, place, enabled) == call' = [call EXCEPT ![c] = [at |-> place, enabled |-> enabled]]
Alone(c) == \A d \in Caller \ {c} : At(d, "idle")

\* Mutant of Check: the flag is set before it is tested, and the call is done.
CheckOwnValue(c, enabled) ==
    /\ thread # "none"
    /\ At(c, "idle")
    /\ mVsyncOn # enabled
    /\ mVsyncOn' = enabled
    /\ UNCHANGED <<call, hardware, news, thread, event, late, broken, apart>>

\* The test that lets a call go on.
Check(c, enabled) ==
    /\ thread # "none"
    /\ At(c, "idle")
    /\ mVsyncOn # enabled
    /\ Go(c, "assign", enabled)
    /\ apart' = IF Alone(c) THEN apart ELSE apart \union {"calls"}
    /\ UNCHANGED <<mVsyncOn, hardware, news, thread, event, late, broken>>

\* What was read so far is from before the switching off.
Assign(c) ==
    /\ At(c, "assign")
    /\ LET enabled == call[c].enabled IN
       /\ mVsyncOn' = enabled
       /\ late' = 0
       /\ event' = IF ~enabled /\ thread \in {"test", "fire"} THEN "before" ELSE event
       /\ IF "control" \in broken
          THEN Go(c, "idle", FALSE) /\ apart' = apart \union {"control"}
          ELSE Go(c, "write", enabled) /\ UNCHANGED apart
    /\ UNCHANGED <<hardware, news, thread, broken>>

\* A write that fails is logged and not tried again.
Write(c) ==
    /\ At(c, "write")
    /\ Go(c, "idle", FALSE)
    /\ \/ /\ hardware' = call[c].enabled
          /\ apart' = IF Alone(c) /\ call[c].enabled = mVsyncOn THEN {} ELSE apart
       \/ /\ apart' = apart \union {"write"}
          /\ UNCHANGED hardware
    /\ UNCHANGED <<mVsyncOn, news, thread, event, late, broken>>

----------------------------------------------------------------------------
(* threadLoop *)

Step(from, to) == thread = from /\ thread' = to

\* The thread ends if it cannot read timestamps.
Start ==
    /\ \/ Step("start", "poll") /\ UNCHANGED broken
       \/ Step("start", "ended") /\ broken' = broken \union {"timestamp"}
    /\ UNCHANGED <<mVsyncOn, call, hardware, news, event, late, apart>>

Poll ==
    /\ news
    /\ Step("poll", "read")
    /\ UNCHANGED <<mVsyncOn, call, hardware, news, event, late, broken, apart>>

Read ==
    /\ \/ Step("read", "test") /\ news' = FALSE /\ event' = "current"
       \/ Step("read", "poll") /\ event' = "lost" /\ UNCHANGED news
    /\ UNCHANGED <<mVsyncOn, call, hardware, late, broken, apart>>

\* Mutant of Test: the flag is not looked at.
TestNothing ==
    /\ Step("test", "fire")
    /\ UNCHANGED <<mVsyncOn, call, hardware, news, event, late, broken, apart>>

Test ==
    /\ Step("test", IF mVsyncOn THEN "fire" ELSE "poll")
    /\ UNCHANGED <<mVsyncOn, call, hardware, news, event, late, broken, apart>>

\* Mutant of Fire: threadLoop returns after a callback.
FireOnce ==
    /\ Step("fire", "ended")
    /\ late' = IF mVsyncOn \/ late = 2 THEN late ELSE late + 1
    /\ UNCHANGED <<mVsyncOn, call, hardware, news, event, broken, apart>>

\* The callback into the framework.
Fire ==
    /\ Step("fire", "poll")
    /\ late' = IF mVsyncOn \/ late = 2 THEN late ELSE late + 1
    /\ UNCHANGED <<mVsyncOn, call, hardware, news, event, broken, apart>>

\* The display driver.
Vsync ==
    /\ hardware
    /\ news' = TRUE
    /\ UNCHANGED <<mVsyncOn, call, hardware, thread, event, late, broken, apart>>

----------------------------------------------------------------------------
MonitorNext ==
    \/ RegisterProcs
    \/ \E c \in Caller : Assign(c) \/ Write(c) \/ \E enabled \in BOOLEAN : Check(c, enabled)
    \/ Start \/ Poll \/ Read \/ Test \/ Fire
    \/ Vsync

\* The threads run, and the display goes on while its interrupt is on.  Nobody
\* has to switch events.
Fairness ==
    /\ WF_monitor(Start) /\ WF_monitor(Poll) /\ WF_monitor(Read)
    /\ WF_monitor(Test) /\ WF_monitor(Fire) /\ WF_monitor(Vsync)
    /\ \A c \in Caller : WF_monitor(Assign(c)) /\ WF_monitor(Write(c))

MonitorSpec == MonitorInit /\ [][MonitorNext]_monitor /\ Fairness

----------------------------------------------------------------------------
MonitorTypeOK ==
    /\ mVsyncOn \in BOOLEAN /\ hardware \in BOOLEAN /\ news \in BOOLEAN
    /\ call \in [Caller -> [at : {"idle", "assign", "write"}, enabled : BOOLEAN]]
    /\ thread \in {"none", "start", "poll", "read", "test", "fire", "ended"}
    /\ event \in {"current", "before", "lost"}
    /\ late \in 0..2
    /\ broken \subseteq {"control", "timestamp"}
    /\ apart \subseteq {"start", "calls", "control", "write"}

\* The thread may call back after eventControl returned from switching off, as
\* it tests the flag without a lock; but only once, and with a timestamp it had
\* read before.
OneLateEvent ==
    /\ late <= 1
    /\ thread = "fire" /\ ~mVsyncOn => late = 0 /\ event = "before"

\* With no call under way the interrupt is as the flag says, however the calls
\* and the thread met, unless two calls overlapped or a write failed: neither
\* is repeated, for the flag tells the next call that nothing is to be done.
HardwareFollows ==
    (\A c \in Caller : At(c, "idle")) /\ apart = {} => hardware = mVsyncOn

\* While events and the interrupt stay on, callbacks keep coming: from every
\* such state there is another one, unless a read fails.
EventsArrive ==
    mVsyncOn /\ hardware /\ thread # "none" /\ "timestamp" \notin broken
        ~> thread = "fire" \/ event = "lost" \/ ~mVsyncOn \/ ~hardware
           \/ "timestamp" \in broken

=============================================================================
