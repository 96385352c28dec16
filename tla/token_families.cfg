\* Exchanges, rotations, replays, revocations, uses and failures race.
SPECIFICATION Spec
CONSTANTS
  None = None
  Services = {s1}
  Subjects = {u1}
  Grants = {g1}
  Families = {f1, f2}
  RefreshTokens = {t1, t2, t3}
  AccessTokens = {a1, a2, a3}
  Handlers = {h1, h2}
  MaxFaults = 1
SYMMETRY Symmetry
INVARIANTS
  OneChain
  RevokedFamilyDead
  CodeOnce
  RevocationReaches
  RevokedIsRefused
