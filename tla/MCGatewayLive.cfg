\* Two requests over the other kinds of key, in a process that may be told to stop.
SPECIFICATION FairSpec
CONSTANTS
    Requests = {r1, r2}
    Keys = {k1, k2, k3, k4}
    ResponsesKeys = {k4}
    ChatKeys = {k1}
    MessagesKeys = {k2, k3}
    StreamKeys = {k3, k4}
    ImageKeys = {}
    Nil = Nil
    MayForget = FALSE
    MayShutdown = TRUE
PROPERTIES RequestsEnd RowsSettle
