CONSTANTS
    NTimers = 3
    Registered = {1, 2}
    Period = {1, 3}
    Wrap = 9
    Delay = 2  Jitter = 1
    Ring = 1
SPECIFICATION Spec
INVARIANTS OnTime
PROPERTY NotEarly
