\* Two clients of one default service, three overlapping transactions.
SPECIFICATION Spec
CONSTANTS
    k1 = k1
    d1 = d1
    Key = {k1}
    Subject = {u1}
    Client = {c1, c2}
    Time = {1, 2, 3}
    Domain = {d1}
    DefaultDomain <- OneDefault
    Request = {r1, r2, r3}
    None = None
SYMMETRY Symmetry
INVARIANTS LatestRecorded RegistryInv
PROPERTIES ConnectionTimes
