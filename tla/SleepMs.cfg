SPECIFICATION Spec
CONSTANTS
    Word = 16
    TicksPerMs = 3
    Delays = {3, 6, 16}
    Tones = {5, 7}
    Buffers = 1
    Sounds <- MCSounds
PROPERTIES SleepsAsAsked
CHECK_DEADLOCK FALSE
