CONSTANTS
    U32 = 14
    Longs = {14, 28}
    Origins = {0, 1}
    LAG = 1
    HOLD = 3
    Timeouts = {0, 6}
SPECIFICATION Spec
VIEW Shown
PROPERTIES
    PulseMeasured
    TimesOut
