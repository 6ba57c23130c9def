\* Four callers on two keys: a leader, its followers, a late joiner and a caller on another
\* key. Liveness is among the properties, so no symmetry.
SPECIFICATION FairSpec
CONSTANTS
    Callers = {c1, c2, c3, c4}
    Keys = {k1, k2}
    Vals = {v1}
    Errs = {errFn}
    ErrPanic = errPanic
    Nil = Nil
INVARIANTS OneLeaderPerKey SharedResult ResultDefined IInv
PROPERTIES JoinsLiveCall DoReturns
