\* Process(v) with no filter: 3 items through a queue of 2 slots, with
\* the clock reaching past each tick.
CONSTANTS
    MaxSize = 2
    DropMs = 1
    InitialInterval = 2
    TimeMod = 16
    MaxTime = 5
    MaxItems = 3
    Held = {}
SPECIFICATION Spec
INVARIANTS TypeOK FifoExactlyOnce
