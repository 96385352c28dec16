\* A late answer of Core, or a webhook post, overwrites the completion.
SPECIFICATION Spec
CONSTANTS
  None = None
  Services = {s1}
  References = {r1}
  Keys = {}
  Actions = {create}
  Amounts = {a1}
  IntentIds = {i1}
  Handlers = {h1, h2}
  CoreStatuses = {"processing", "completed"}
  Challenges = {}
  InAppChallenges = {}
  Decisions = {"approve", "reject"}
  MaxCoreEvents = 2
  MaxReplies = 0
  MaxAccepted = 1
PROPERTY
  CompletedStays
