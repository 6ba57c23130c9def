\* Two requests with base64 images in two frames at most, all wrappings, three endpoints.
SPECIFICATION Spec
CONSTANTS
    Requests <- MCRequests
    MainModel = "main"
    Nil = Nil
    MaxDepth = 8
    MaxRequests = 2
INVARIANTS TypeOK HitsMeanTheSame OneEntryPerMeaning MainModelReadsImages
