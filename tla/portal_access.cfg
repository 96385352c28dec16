\* Sign-ins, resets, enrolments and administration race with a fault.
SPECIFICATION Spec
CONSTANTS
  None = None
  Users = {admin, u1}
  Admin = admin
  Sessions = {s0, s1, s2, s3}
  AdminSession = s0
  RecoveryCodes = {c0, c1, c2}
  FirstCode = c0
  Resets = {r1, r2, r3}
  Invitations = {i1, i2, i3}
  Handlers = {h1, h2}
  MaxCounter = 1
  MaxAttempts = 1
  MaxGuesses = 1
  MaxRequests = 3
  MaxFaults = 1
SYMMETRY Symmetry
INVARIANTS
  SignedOutStays
  RecoveryOnce
  RoleAsDecided
  SignedInStays
