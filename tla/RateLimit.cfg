\* Two keys: three overlapping requests, a limit of two, and the retention command.
SPECIFICATION Spec
CONSTANTS
    Key = {k1, k2}
    Request = {r1, r2, r3}
    Limit = 2
    Window = 1
    MaxTime = 3
    None = None
SYMMETRY Symmetry
INVARIANTS AdmissionsCounted FirstWriteAlone LimiterInv
PROPERTY FixedWindows
