\* One state, two codes, three overlapping callbacks, and the retention command.
SPECIFICATION Spec
CONSTANTS
    State = {s1}
    Code = {c1, c2}
    Request = {r1, r2, r3}
    Lifetime = 1
    MaxTime = 3
    MaxTries = 2
    None = None
SYMMETRY Symmetry
INVARIANTS ConsumedOnce LoginInv
