CONSTANTS
    NUM_GPIOS = 2
    Modes = {"INPUT_PULLUP", "OUTPUT"}
    Triggers = {"CHANGE"}
    GPIOD_V = 2
    Faults = {"read", "write", "config"}
    MaxDepth = 4
SPECIFICATION FairSpec
INVARIANTS
    CacheTrue
    ChangeReported
PROPERTIES
    RunsOncePerChange
    LevelObserved
