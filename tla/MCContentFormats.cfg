SPECIFICATION Spec
CONSTANTS
    Requests <- MCUrlRequests
    MainModel = "main"
    Nil = Nil
    MaxDepth = 8
    MaxRequests = 2
INVARIANTS AnyFormatSameKey
