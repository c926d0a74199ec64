CONSTANTS
    Payloads <- MCPayloads
    Disturbances <- MCDisturbances
SPECIFICATION CheckSpec
INVARIANTS AcceptedIffCodeword OffsetsTellBlocksApart BurstsRejected
CHECK_DEADLOCK FALSE
