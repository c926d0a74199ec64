CONSTANTS
    Models = {"RSP1"}
    Frequencies = {95}
    Gains = {20, 59}
    LnaStates = {3, 4}
    Options = {}
    MaxPosted = 2
    NoRequest = none
SPECIFICATION Spec
INVARIANTS RequestsLive NothingHeldWhenGone ShownIsApplied
PROPERTIES IsSynchronous EveryCallReturns
