\* One payment: submissions, Core's events with their webhooks and the hosted
\* challenge's responses, equal or opposite, overlap and overwrite each other.
SPECIFICATION Spec
CONSTANTS
  None = None
  Services = {s1}
  References = {r1}
  Keys = {}
  Actions = {create}
  Amounts = {a1}
  IntentIds = {i1}
  Handlers = {h1, h2}
  CoreStatuses = {"requires_action", "completed", "failed", "unlisted"}
  Challenges = {c1, c2}
  InAppChallenges = {}
  Decisions = {"approve", "reject"}
  MaxCoreEvents = 1
  MaxReplies = 1
  MaxAccepted = 1
SYMMETRY AlikeHere
INVARIANTS
  StatusExplained
  NothingInvented
PROPERTIES
  NeverUnsubmitted
