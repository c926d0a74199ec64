CONSTANTS
    Kinds = {"airspy", "hackrf", "lime", "pluto", "dabstick", "sdrplay"}
    Gains = {"vga"}
    Positions = {0, 1}
    LnaStates = {1, 5}
    GainsCounts = {2, 3}
    Versions = {1, 2}
    Frequencies = {1, 2}
    MaxRefused = 1
    MaxLate = 1
    MaxOffset = 3
SPECIFICATION Spec
INVARIANTS TypeOK InEffect SettingsSurvive BiasOff
