\* Onboarding, administration and rotations race with torn snapshots.
SPECIFICATION Spec
CONSTANTS
  None = None
  Applications = {p1}
  Services = {s1}
  Requests = {r1}
  Credentials = {c1, c2}
  Scopes = {x1}
  Domains = {d1}
  Environments = {"sandbox", "live"}
  Runtime = "sandbox"
  StatusUpdates = {"suspended"}
  Handlers = {h1, h2}
  MigratedScopes = {}
  MigratedDomains = {d1}
  Applied = {{"sandbox"}}
  ReferenceChecked = FALSE
  MaxRequests = 3
  MaxFaults = 1
SYMMETRY Symmetry
INVARIANTS
  AnswersLast
  DiskTrails
  ScopesExplained
  OneActive
