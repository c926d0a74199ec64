CONSTANTS
    N = 4
    Word = 16
    Elements = {a}
    Blank = blank
    MaxBatch = 2
    Chunk = 2
SPECIFICATION FlushSpec
INVARIANTS NeverMoreThanFits
