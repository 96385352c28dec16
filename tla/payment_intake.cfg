\* Creation of intents: two services, names and keys that collide in every way.
SPECIFICATION Spec
CONSTANTS
  None = None
  Services = {s1, s2}
  References = {r1, r2}
  Keys = {k1, k2}
  Actions = {create}
  Amounts = {a1, a2}
  IntentIds = {i1, i2, i3}
  Handlers = {h1}
  CoreStatuses = {"completed"}
  Challenges = {}
  InAppChallenges = {}
  Decisions = {"approve", "reject"}
  MaxCoreEvents = 0
  MaxReplies = 0
  MaxAccepted = 3
SYMMETRY Symmetry
INVARIANTS
  TypeOK
  IndexesAgree
PROPERTIES
  IdentityStable
  ImplementsIntake
