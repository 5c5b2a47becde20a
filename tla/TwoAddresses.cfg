\* Two logins of one user from two addresses.
SPECIFICATION Spec
CONSTANTS
    Session = {s1, s2}
    Subject = {u}
    Sid = {}
    Address = {a, b}
    Request = {r1, r2}
    Operations <- LoginOps
    MaxConcurrent = 1
    IdleTimeout = 2
    AbsoluteTimeout = 3
    TouchAfter = 1
    Retention = 0
    MaxTime = 1
    None = None
    Clean = Clean
SYMMETRY Symmetry
INVARIANTS ConcurrentLimit
