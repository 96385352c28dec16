\* A replay is detected while a rotation is in progress.
SPECIFICATION Spec
CONSTANTS
  None = None
  Services = {s1}
  Subjects = {u1}
  Grants = {g1}
  Families = {f1}
  RefreshTokens = {t1, t2, t3}
  AccessTokens = {a1, a2, a3}
  Handlers = {h1, h2}
  MaxFaults = 0
SYMMETRY Symmetry
INVARIANT
  ReplayRevokesAll
