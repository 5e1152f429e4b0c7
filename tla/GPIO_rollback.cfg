CONSTANTS
    NUM_GPIOS = 1
    Modes = {"INPUT", "INPUT_PULLUP", "OUTPUT"}
    Triggers = {"CHANGE", "LOW", "FALLING", "RISING", "HIGH"}
    GPIOD_V = 1
    Faults = {"config"}
    MaxDepth = 4
SPECIFICATION Spec
PROPERTIES
    ModeRolledBack
