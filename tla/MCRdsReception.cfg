CONSTANTS
    L = 2
    CrcBits = 0
    MaxLost = 1
SPECIFICATION ReceptionSpec
INVARIANTS ReceptionTypeOK GroupIntact GroupConsecutive HealsSoon
PROPERTIES KeepsDecoding
