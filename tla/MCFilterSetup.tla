--------------------------- MODULE MCFilterSetup ---------------------------
(* Both filters of the processor, two widths to choose from, any number of *)
(* choices at any moment.                                                  *)
EXTENDS FilterSetup

InputAndAudio == <<"input", "audio">>
============================================================================
