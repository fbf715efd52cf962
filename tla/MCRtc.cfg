SPECIFICATION RtcSpec
CONSTANTS
    Hours = 2
    Minutes = 2
    Seconds = 11
    IntMax = 127
    Requests <- MCRequests
PROPERTIES WakesOnTime SleepReturns
