CONSTANTS
    Pins = {pin1, pin2}
    chip1 = chip1
    chip2 = chip2
    bank1 = bank1
    bank2 = bank2
    Chips = {chip1, chip2}
    Plain = {bank2}
    Order <- MCOrder
    Label <- MCLabel
    Offsets = {line1, line2}
    BadLines = {bad}
    New = New
    Free = Free
    Other = Other
    NoChip = NoChip
    NoLine = NoLine
    NoLabel = NoLabel
SPECIFICATION Spec
INVARIANTS
    NothingLeaks
    PinKeepsLine
