SPECIFICATION Spec
CONSTANTS
  None = None
  s1 = s1
  s2 = s2
  c1 = c1
  r1 = r1
  r2 = r2
  ann = ann
  bob = bob
  Services = {s1, s2}
  Nonces = {n1}
  Consents = {c1}
  People = {ann, bob}
  References = {r1, r2}
  Signing = {r1}
  Words = {"paid", "queued"}
  Handlers = {h1, h2}
  Shapes <- MCShapes
  Grants <- MCGrants
  Tolerance = 1
  NonceTtl = 2
  MaxNonces = 1
  ProofTolerance = 1
  MaxProofs = 1
  Window = 1
  RateLimit = 1
  MaxSubjects = 1
  Ahead = 0
  MaxTime = 2
  MaxSent = 2
  MaxDelay = 0
  MaxArrivals = 3
  MaxChanges = 1
INVARIANTS
  TypeOK
  EventsReported
  AcceptedOnce
  ProofOnceButAtTheEnd
  AuthorityHeld
  WithinTwiceTheRate
SYMMETRY Interchangeable
CHECK_DEADLOCK FALSE
