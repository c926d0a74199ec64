CONSTANTS
    N = 4
    Word = 16
    Elements = {a, b}
    Blank = blank
    MaxBatch = 3
SPECIFICATION Spec
INVARIANTS NoSlotRace
PROPERTIES SeenAmountStays IsFifo
