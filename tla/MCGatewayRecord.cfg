\* README.md:33: a request answered before the process exits.
SPECIFICATION Spec
CONSTANTS
    Requests = {r1, r2}
    Keys = {k1}
    ResponsesKeys = {k1}
    ChatKeys = {}
    MessagesKeys = {}
    StreamKeys = {}
    ImageKeys = {}
    Nil = Nil
    MayForget = FALSE
    MayShutdown = TRUE
SYMMETRY MCSymmetry
INVARIANTS EveryRequestRecorded
