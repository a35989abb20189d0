\* Two threads of the framework switch events.
CONSTANT Caller = {c1, c2}
SPECIFICATION MonitorSpec
INVARIANTS
    OneLateEvent
    HardwareFollows
PROPERTY EventsArrive
