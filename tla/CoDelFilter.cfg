\* Process(v, f) with a filter that holds item 2 back: FifoExactlyOnce is
\* violated (the items behind the break are read from the wrong slots).
CONSTANTS
    MaxSize = 2
    DropMs = 1
    InitialInterval = 2
    TimeMod = 16
    MaxTime = 5
    MaxItems = 3
    Held = {2}
SPECIFICATION Spec
INVARIANTS FifoExactlyOnce
