CONSTANTS
  User = {u1}
  Sid = {s1, s2}
  Jti = {j1, j2, j3}
  Proc = {p1, p2}
  None = None
  Life = 1
  Grace = 0
  MaxAttempts = 3
  MaxClock = 2
SPECIFICATION Spec
SYMMETRY Symmetry
INVARIANTS
    TypeOK
    RevokedSessionStaysDead
    SingleWinner
    ReuseKillsSession
    RetrySettles
    LogoutEverywhere
PROPERTIES
    ImplementsLifecycle
