\* Two tokens, two sessions, two overlapping deliveries, and the retention command.
SPECIFICATION Spec
CONSTANTS
    Token = {t1, t2}
    Session = {s1, s2}
    Request = {r1, r2}
    Life = 1
    Skew = 1
    MaxTime = 3
    MaxTries = 2
    None = None
SYMMETRY Symmetry
INVARIANTS HonouredOnceWhileValid LaterSessionsKeptWhileValid TokenInv
