\* The requests of one payment wait for Core, for webhooks, for the consent store
\* and for each other, and finish.
SPECIFICATION FairSpec
CONSTANTS
  None = None
  Services = {s1}
  References = {r1}
  Keys = {}
  Actions = {create}
  Amounts = {a1}
  IntentIds = {i1}
  Handlers = {h1, h2}
  CoreStatuses = {"requires_action"}
  Challenges = {c1}
  InAppChallenges = {}
  Decisions = {"approve", "reject"}
  MaxCoreEvents = 1
  MaxReplies = 1
  MaxAccepted = 1
PROPERTY
  RequestsFinish
