\* A login in progress while Keycloak ends its SSO session.
SPECIFICATION Spec
CONSTANTS
    Session = {s1}
    Subject = {u}
    Sid = {i}
    Address = {a}
    Request = {r1, r2}
    Operations <- RaceOps
    MaxConcurrent = 2
    IdleTimeout = 2
    AbsoluteTimeout = 3
    TouchAfter = 1
    Retention = 0
    MaxTime = 1
    None = None
    Clean = Clean
SYMMETRY Symmetry
INVARIANTS LoggedOutStayOut
