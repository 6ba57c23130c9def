\* README.md:132: a group that is created turned off.
SPECIFICATION Spec
CONSTANTS
    Names = {"a", "b"}
    Forms <- MCForms
    Admins = {a1}
    Requests = {r1}
    Nil = Nil
    MaxRows = 1
    MaxImages = 1
INVARIANTS DisabledUnlisted
CHECK_DEADLOCK FALSE
