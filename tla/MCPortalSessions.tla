-------------------------- MODULE MCPortalSessions --------------------------
(* Small instances of PortalSessions for TLC. *)
EXTENDS PortalSessions, TLC

LoginOps == {"login", "page"}
RaceOps  == {"login", "backchannel"}
\* Two bulk statements that take the advisory lock and the rows in any order.
SweepOps == {"login", "everywhere"}
\* One operation of each kind: a page view and a logout do less than a rotating
\* login, and the other bulk revocations differ in their WHERE clause only.
KindOps  == {"login", "revoke", "backchannel", "cleanup"}

\* Requests and sessions are interchangeable.
Symmetry == Permutations(Request) \cup Permutations(Session)
=============================================================================
