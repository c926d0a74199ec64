CONSTANTS
    Stations = {s1, s2}
    Segments = 2
    Fragments = 2
    Programmes <- MCProgrammes
    Blank = blank
    MaxEvents = 2
SPECIFICATION DecoderSpec
INVARIANTS NoMixedLabel NoMixedText ShowsStationTuned
