\* Two administrators and one request with one image, over two names.
\* The system may stop: deleted groups keep their names, until none is left.
SPECIFICATION Spec
CONSTANTS
    Names = {"a", "b"}
    Forms <- MCForms
    Admins = {a1, a2}
    Requests = {r1}
    Nil = Nil
    MaxRows = 2
    MaxImages = 1
SYMMETRY MCSymmetry
INVARIANTS TypeOK OneRowPerName CursorsOwned TriesAll FairTurns
PROPERTIES DeadForGood
CHECK_DEADLOCK FALSE
