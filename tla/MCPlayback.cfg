CONSTANTS
    FileLengths = {3, 4}
    Block = 2
    Buffer = 3
    RingSize = 6
    SinkSize = 2
    CallbackSize = 1
SPECIFICATION Spec
INVARIANTS TypeOK PausedIsQuiet
PROPERTIES PlaysTheFile SoundGoesOn ClosingEnds
