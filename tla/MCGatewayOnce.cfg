\* README.md:208: two requests for one key, in a cache that forgets nothing.
SPECIFICATION Spec
CONSTANTS
    Requests = {r1, r2}
    Keys = {k1}
    ResponsesKeys = {k1}
    ChatKeys = {}
    MessagesKeys = {}
    StreamKeys = {}
    ImageKeys = {}
    Nil = Nil
    MayForget = FALSE
    MayShutdown = FALSE
SYMMETRY MCSymmetry
INVARIANTS OneUpstreamCall
