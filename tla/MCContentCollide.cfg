SPECIFICATION Spec
CONSTANTS
    Requests <- MCToolRequests
    MainModel = "main"
    Nil = Nil
    MaxDepth = 8
    MaxRequests = 2
INVARIANTS DifferentNeverCollide
