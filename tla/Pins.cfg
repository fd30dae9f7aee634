\* Three threads that preempt each other, two pins, two channels on one timer.
CONSTANTS
    Shells = {1}
    Scripts = {2}
    Webs = {3}
    Pins = {p, q}
    NChannels = 2
    NTimers = 1
    Freqs = {1, 2}
    GPIO = GPIO
    Signals = {s}
    None = None
    MaxCalls = 3
SYMMETRY Sym
SPECIFICATION Spec
CHECK_DEADLOCK FALSE
INVARIANTS
    PwmAsOnRecord
    RecordsTrue
