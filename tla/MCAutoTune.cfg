CONSTANTS
    Last = 4
    Lows <- ThreeLows
    Highs <- TwoHighs
    Window = 1
    Reach = 2
    Slack = 1
    MaxOffset = 1
    Legal <- AllButLast
    Fallback = 2
    Stations <- TwoStations
    delayTableSize = 1
    MaxResults = 1
SPECIFICATION Spec
PROPERTIES StaysWithinLimits SilenceEndsOnStation ScanEnds
