\* Two calls at a time, two users, two passwords, one browser, one header at a time.
\* The system may stop: starts and changes are bounded.
SPECIFICATION Spec
CONSTANTS
    Names = {u1, u2}
    Passwords = {p1, p2}
    Browsers = {b1}
    Calls = {c1, c2}
    Key = Key
    Nil = Nil
    MaxChanges = 2
    MaxHeaders = 1
    MaxStarts = 2
SYMMETRY MCSymmetry
INVARIANTS TypeOK SessionsKnowPassword ValidNotRefused
PROPERTIES ChangesKnowOld SetupCloses
CHECK_DEADLOCK FALSE
