CONSTANTS
    Filters <- InputAndAudio
    Widths = {w1, w2}
    Default = w0
SPECIFICATION FilterSpec
INVARIANTS OnMeansChosen
PROPERTIES ChoiceTakesEffect SettlesDown
