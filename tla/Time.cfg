CONSTANTS
    Timers = {opal, t2, t3}
    End = End
    opal_timer = opal
    HeartbeatMs = 3
    Delays = {0, 4}
    Periods = {2, 4}
    DEC_DISABLE = 3
    MaxRun = 1
    MaxLate = 2
SPECIFICATION Spec
INVARIANTS
    QueueSorted
    DecArmed
PROPERTIES
    TimersFire
    HandlerReturns
