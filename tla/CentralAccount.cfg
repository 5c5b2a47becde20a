\* Two requests of any kind, one portal session that either may hold, one authenticator.
SPECIFICATION FairSpec
CONSTANTS
    Request = {r1, r2}
    Operations <- Ops
    Session = {s1}
    Otp = {o1}
    Client = c1
    Before = Before
    None = None
INVARIANTS CentralInv AuditTruthful MailMatches VerifiedMailed
PROPERTIES DisabledStays RequestsEnd SignOutSpreads
