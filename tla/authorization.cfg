\* Two requests, one of them pushed: callbacks, decisions and faults race.
SPECIFICATION FairSpec
CONSTANTS
  None = None
  Placeholder = Placeholder
  Services = {s1, s2}
  Subjects = {u1}
  Pushes = {p1}
  Requests = {r1, r2}
  Consents = {c1, c2}
  Codes = {k1, k2}
  Handlers = {h1, h2}
  MaxFaults = 1
INVARIANTS
  OneUse
  CodeBacked
PROPERTIES
  ImplementsGrant
  ApprovalAnswered
