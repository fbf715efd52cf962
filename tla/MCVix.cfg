SPECIFICATION VixSpec
CONSTANTS
    Width = 4
    Height = 3
    IntMax = 127
    FontWidth = 2
    FontHeight = 2
    Font <- MCFont
    Calls <- MCCalls
    Texts <- MCTexts
    LowMemory <- MCLowMemory
    Stale = {0, 2}
INVARIANTS VixTypeOK DrawsTheShape
PROPERTIES ClipHonoured BlitsAsAsked DrawingEnds
CHECK_DEADLOCK FALSE
