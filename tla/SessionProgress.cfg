\* Sign-outs everywhere, whose statement locks every session row of the user.
SPECIFICATION FairSpec
CONSTANTS
    Session = {s1, s2}
    Subject = {u}
    Sid = {}
    Address = {a}
    Request = {r1, r2}
    Operations <- SweepOps
    MaxConcurrent = 2
    IdleTimeout = 2
    AbsoluteTimeout = 3
    TouchAfter = 1
    Retention = 0
    MaxTime = 1
    None = None
    Clean = Clean
PROPERTY RequestsEnd
