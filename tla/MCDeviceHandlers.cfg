CONSTANT Kinds = {"lime", "pluto", "rtlsdr", "hackrf", "airspy", "sdrplay", "colibri"}
SPECIFICATION Spec
INVARIANTS QuietWhenStopped
PROPERTIES StopReturns SamplesCome
