CONSTANTS
    CommandLines <- MCCommandLines
    Shortened = {"--er"}
    Bad = "--help"
    Default = "default"
    Entries <- MCEntries
    Parent <- MCParent
    Top = "top"
    Ports = {Serial1}
    Devices = {ttyS0, ttyUSB0}
    Speeds = {b9600, b115200}
    b9600 = b9600
    b13 = b13
    OddRates = {b250000, b13}
    Taken <- MCTaken
    MaxFd = 2
    NoPath = NoPath
    NoSpeed = NoSpeed
    Free = Free
    File = File
    Lost = Lost
SPECIFICATION Spec
INVARIANTS
    TypeOK
    RebootKeepsFiles
    OwnDescriptor
    SpeedAsked
    LinesOut
PROPERTIES
    EraseComplete
CHECK_DEADLOCK FALSE
