\* One route or command of each kind, up to the idle and absolute deadlines.
SPECIFICATION Spec
CONSTANTS
    Session = {s1, s2}
    Subject = {u}
    Sid = {}
    Address = {a}
    Request = {r1, r2}
    Operations <- KindOps
    MaxConcurrent = 1
    IdleTimeout = 3
    AbsoluteTimeout = 4
    TouchAfter = 1
    Retention = 0
    MaxTime = 3
    None = None
    Clean = Clean
SYMMETRY Symmetry
INVARIANTS ConcurrentLimit IdleJustified ClosedStayClosed LimitInv
PROPERTY AdmissionSound
