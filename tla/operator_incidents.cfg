\* Deliveries, replays, reports, operators and escalations, with one fault.
SPECIFICATION FairSpec
CONSTANTS
  None = None
  Incidents = {i1}
  Deliveries = {d1, d2, d3}
  Handlers = {h1, h2}
  Reconciler = Reconciler
  Escalator = Escalator
  Window = 2
  MaxEvents = 1
  MaxRequests = 2
  MaxFaults = 1
INVARIANTS
  ReplaysNumbered
PROPERTIES
  LosesOnlyOverlapped
  Escalates
  FailuresReported
