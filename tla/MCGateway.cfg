\* Three requests over two keys: a plain one with images and a streamed one.
SPECIFICATION Spec
CONSTANTS
    Requests = {r1, r2, r3}
    Keys = {k1, k2}
    ResponsesKeys = {k1}
    ChatKeys = {k2}
    MessagesKeys = {}
    StreamKeys = {k2}
    ImageKeys = {k1}
    Nil = Nil
    MayForget = TRUE
    MayShutdown = FALSE
SYMMETRY MCSymmetry
INVARIANTS IInv OneCallAtATime CachedIsWhole AnswersMatchOutcome LeaverHarmsNobody NoDowngrade
