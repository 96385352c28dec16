--------------------------- MODULE OperatorIncidents ---------------------------
(***************************************************************************)
(* From a failed webhook to an operator's desk: deliveries are logged and  *)
(* replayed, a scheduled report finds the failed ones and raises an        *)
(* incident, operators work on it, and a second schedule escalates it when *)
(* it stays unresolved for too long.                                       *)
(*                                                                         *)
(* Incidents are in memory and in a table; an update takes the incident    *)
(* from memory, waits for its row to be written and puts the copy into     *)
(* memory.  Connections are pooled: rows may be written, and the answers   *)
(* arrive, in any order.  The log of deliveries is written to its file in  *)
(* the step that changes it.                                               *)
(***************************************************************************)
EXTENDS Naturals, FiniteSets

CONSTANTS
  Incidents, Deliveries,  \* random identifiers
  Handlers,               \* requests of operators being served
  Reconciler, Escalator,  \* the two schedules
  Window,                 \* intervals between reports that a report looks back
  MaxEvents,              \* bound: deliveries that are not replays
  MaxRequests,            \* bound: requests of operators
  MaxFaults,              \* bound: failed queries and writes, restarts
  None

Schedulers == {Reconciler, Escalator}
Tasks == Handlers \cup Schedulers

\* about: the failed deliveries in the report that raised the incident.
IncidentRecords ==
  [status : {"open", "acknowledged", "assigned", "resolved"},
   escalated : BOOLEAN, about : SUBSET Deliveries]

DeliveryRecords ==
  [status : {"delivered", "failed"}, replayOf : Deliveries \cup {None},
   attempt : 1 .. Cardinality(Deliveries) + 1]

ASSUME IncidentsAssumption ==
  /\ IsFiniteSet(Deliveries)
  /\ Reconciler # Escalator
  /\ Handlers \cap Schedulers = {}
  /\ None \notin Incidents \cup Deliveries \cup IncidentRecords
                 \cup DeliveryRecords
  /\ Window \in Nat \ {0}
  /\ {MaxEvents, MaxRequests, MaxFaults} \subseteq Nat

Steps == {"idle", "list", "export", "write", "store", "alert", "post"}

\* What a task waits for.  seen: the incident as it was read (history), copy:
\* as it will be stored.
Calls ==
  [do : Steps, incident : Incidents \cup {None},
   seen : IncidentRecords \cup {None}, copy : IncidentRecords \cup {None},
   about : SUBSET Deliveries,
   delivery : Deliveries \cup {None}, attempt : Nat]

Idle == [do |-> "idle", incident |-> None, seen |-> None, copy |-> None,
         about |-> {}, delivery |-> None, attempt |-> 0]

VARIABLES
  incidents,   \* OperatorIncidentStore.incidents
  rows,        \* pay_gateway_operator_incidents
  overdue,     \* incidents older than the time allowed for them
  deliveries,  \* WebhookDeliveryStore.state
  age,         \* intervals since a delivery was recorded, up to Window
  file,        \* what the log's file holds, no delivery if it cannot be parsed
  running,     \* schedules whose flag `running' is set
  due,         \* the rest of the list the escalation goes through
  calls,
  requests, faults

vars == <<incidents, rows, overdue, deliveries, age, file, running, due, calls,
          requests, faults>>

store == <<incidents, rows>>
log == <<deliveries, age, file>>
schedule == <<running, due>>

TypeOK ==
  /\ incidents \in [Incidents -> IncidentRecords \cup {None}]
  /\ rows \in [Incidents -> IncidentRecords \cup {None}]
  /\ overdue \in SUBSET Incidents
  /\ deliveries \in [Deliveries -> DeliveryRecords \cup {None}]
  /\ age \in [Deliveries -> 0 .. Window]
  /\ file \in [Deliveries -> DeliveryRecords \cup {None}]
  /\ running \in SUBSET Schedulers
  /\ due \in SUBSET Incidents
  /\ calls \in [Tasks -> Calls]
  /\ requests \in 0 .. MaxRequests
  /\ faults \in 0 .. MaxFaults

NoDeliveries == [d \in Deliveries |-> None]

Init ==
  /\ incidents = [i \in Incidents |-> None]
  /\ rows = incidents
  /\ overdue = {}
  /\ deliveries = NoDeliveries
  /\ age = [d \in Deliveries |-> 0]
  /\ file = NoDeliveries
  /\ running = {}
  /\ due = {}
  /\ calls = [t \in Tasks |-> Idle]
  /\ requests = 0
  /\ faults = 0

Known(i) == incidents[i] # None
Resolved(i) == incidents[i].status = "resolved"

Doing(t, step) == calls[t].do = step
Wait(t, c) == calls' = [calls EXCEPT ![t] = c]
\* Handlers are interchangeable too: the next idle one serves the request.
Begin(h) ==
  /\ Doing(h, "idle")
  /\ h = CHOOSE k \in Handlers : Doing(k, "idle")
  /\ requests < MaxRequests
  /\ requests' = requests + 1

Fault == faults < MaxFaults /\ faults' = faults + 1

\* Identifiers are interchangeable: the next unused one is taken.
IsNew(i, unused) == i \in unused /\ i = CHOOSE j \in unused : TRUE

UnusedIncidents ==
  {i \in Incidents : rows[i] = None /\ \A t \in Tasks : calls[t].incident # i}

UnusedDeliveries == {d \in Deliveries : deliveries[d] = None}

-----------------------------------------------------------------------------
(* The log of webhook deliveries.                                          *)

\* The file is written as a whole; a write that fails leaves a part of it.
Record(d, r) ==
  /\ IsNew(d, UnusedDeliveries)
  /\ deliveries' = [deliveries EXCEPT ![d] = r]
  /\ \/ file' = deliveries' /\ UNCHANGED faults
     \/ file' = NoDeliveries /\ Fault
  /\ UNCHANGED age

ReplaysOf(d) ==
  {e \in Deliveries : deliveries[e] # None /\ deliveries[e].replayOf = d}

\* The first delivery of an event of a payment or a consent.
Deliver(d, status) ==
  /\ Cardinality(ReplaysOf(None)) < MaxEvents
  /\ Record(d, [status |-> status, replayOf |-> None, attempt |-> 1])
  /\ UNCHANGED <<store, overdue, schedule, calls, requests>>

\* Seeded change: the replays of all deliveries are counted.
NextReplayAttemptOfAny(d) ==
  Cardinality({e \in Deliveries : deliveries[e] # None
                                  /\ deliveries[e].replayOf # None}) + 2

NextReplayAttempt(d) == Cardinality(ReplaysOf(d)) + 2

\* The attempt is counted, then the payload is posted.
Replay(h, d) ==
  /\ Begin(h)
  /\ deliveries[d] # None
  /\ Wait(h, [Idle EXCEPT !.do = "post", !.delivery = d,
                          !.attempt = NextReplayAttempt(d)])
  /\ UNCHANGED <<store, overdue, log, schedule, faults>>

\* The post has ended, in whatever way, and is recorded.
FinishReplay(h, d, status) ==
  /\ Doing(h, "post")
  /\ Record(d, [status |-> status, replayOf |-> calls[h].delivery,
                attempt |-> calls[h].attempt])
  /\ Wait(h, Idle)
  /\ UNCHANGED <<store, overdue, schedule, requests>>

\* The service has no secret to sign the payload with: nothing is recorded.
AbortReplay(h) ==
  /\ Doing(h, "post")
  /\ Wait(h, Idle)
  /\ UNCHANGED <<store, overdue, log, schedule, faults, requests>>

-----------------------------------------------------------------------------
(* Operators.                                                              *)

Update(t, i, r) ==
  Wait(t, [Idle EXCEPT !.do = "write", !.incident = i, !.seen = incidents[i],
                       !.copy = r])

\* Seeded change: without the early return for a resolved incident.
AcknowledgeResolved(h, i) ==
  /\ Begin(h)
  /\ Known(i)
  /\ Update(h, i, [incidents[i] EXCEPT !.status = "acknowledged"])
  /\ UNCHANGED <<store, overdue, log, schedule, faults>>

Acknowledge(h, i) ==
  /\ Begin(h)
  /\ Known(i) /\ ~Resolved(i)
  /\ Update(h, i, [incidents[i] EXCEPT !.status = "acknowledged"])
  /\ UNCHANGED <<store, overdue, log, schedule, faults>>

Assign(h, i) ==
  /\ Begin(h)
  /\ Known(i) /\ ~Resolved(i)
  /\ Update(h, i, [incidents[i] EXCEPT !.status = "assigned"])
  /\ UNCHANGED <<store, overdue, log, schedule, faults>>

Resolve(h, i) ==
  /\ Begin(h)
  /\ Known(i)
  /\ Update(h, i, [incidents[i] EXCEPT !.status = "resolved"])
  /\ UNCHANGED <<store, overdue, log, schedule, faults>>

-----------------------------------------------------------------------------
(* Every update, of an operator or of a schedule.                          *)

WriteRow(t) ==
  /\ Doing(t, "write")
  /\ rows' = [rows EXCEPT ![calls[t].incident] = calls[t].copy]
  /\ Wait(t, [calls[t] EXCEPT !.do = "store"])
  /\ UNCHANGED <<incidents, overdue, log, schedule, faults, requests>>

\* A request is answered, a schedule goes on to send its alert.
StoreIncident(t) ==
  /\ Doing(t, "store")
  /\ incidents' = [incidents EXCEPT ![calls[t].incident] = calls[t].copy]
  /\ Wait(t, IF t \in Schedulers THEN [Idle EXCEPT !.do = "alert"] ELSE Idle)
  /\ UNCHANGED <<rows, overdue, log, schedule, faults, requests>>

\* finally: a schedule that ends, in whatever way, may be run again.
EndRun(t) ==
  /\ running' = running \ {t}
  /\ due' = IF t = Escalator THEN {} ELSE due

\* Seeded change: the flag is reset at the end of a run, not in a finally.
QueryFailsForGood(t) ==
  /\ calls[t].do \in {"write", "store"}
  /\ Fault
  /\ Wait(t, Idle)
  /\ UNCHANGED <<store, overdue, log, schedule, requests>>

\* The query fails, or the connection is lost after the row was written.
QueryFails(t) ==
  /\ calls[t].do \in {"write", "store"}
  /\ Fault
  /\ Wait(t, Idle)
  /\ EndRun(t)
  /\ UNCHANGED <<store, overdue, log, requests>>

-----------------------------------------------------------------------------
(* The scheduled report and the incident it raises.                        *)

Failed(d) == deliveries[d] # None /\ deliveries[d].status = "failed"

\* Seeded change: a replay that failed is not looked at.
FailedOriginals ==
  {d \in Deliveries :
     Failed(d) /\ age[d] < Window /\ deliveries[d].replayOf = None}

FailedDeliveries == {d \in Deliveries : Failed(d) /\ age[d] < Window}

\* Another interval has passed, or begins anew.
Older ==
  [d \in Deliveries |-> IF deliveries'[d] = None THEN 0
                        ELSE IF age[d] < Window THEN age[d] + 1 ELSE Window]

\* The report is made of one reading of the log.
Report ==
  /\ Reconciler \notin running
  /\ UnusedIncidents # {}  \* bound
  /\ running' = running \cup {Reconciler}
  /\ Wait(Reconciler, [Idle EXCEPT !.do = "export",
                                   !.about = FailedDeliveries])
  /\ UNCHANGED <<store, overdue, deliveries, file, due, faults, requests>>
  /\ age' = Older

\* Its file is written.  It finds stuck payments too, which are not modelled
\* here: there may be exceptions without a failed delivery.
RaiseIncident(i) ==
  /\ Doing(Reconciler, "export")
  /\ IsNew(i, UnusedIncidents)
  /\ Wait(Reconciler,
          [Idle EXCEPT !.do = "write", !.incident = i,
                       !.copy = [status |-> "open", escalated |-> FALSE,
                                 about |-> calls[Reconciler].about]])
  /\ UNCHANGED <<store, overdue, log, schedule, faults, requests>>

NoExceptions ==
  /\ Doing(Reconciler, "export")
  /\ calls[Reconciler].about = {}
  /\ Wait(Reconciler, Idle)
  /\ EndRun(Reconciler)
  /\ UNCHANGED <<store, overdue, log, faults, requests>>

ExportFails ==
  /\ Doing(Reconciler, "export")
  /\ Fault
  /\ Wait(Reconciler, Idle)
  /\ EndRun(Reconciler)
  /\ UNCHANGED <<store, overdue, log, requests>>

\* Sent or not: send swallows its errors.  The escalation goes on.
AlertEnds(t) ==
  /\ Doing(t, "alert")
  /\ \/ /\ t = Reconciler
        /\ Wait(t, Idle)
        /\ EndRun(t)
     \/ /\ t = Escalator
        /\ Wait(t, [Idle EXCEPT !.do = "list"])
        /\ UNCHANGED schedule
  /\ UNCHANGED <<store, overdue, log, faults, requests>>

-----------------------------------------------------------------------------
(* Escalation of the incidents that are not resolved in time.              *)

TimePasses(i) ==
  /\ Known(i)
  /\ overdue' = overdue \cup {i}
  /\ UNCHANGED <<store, log, schedule, calls, faults, requests>>

\* The list holds the incidents as they are now.
Escalate ==
  /\ Escalator \notin running
  /\ running' = running \cup {Escalator}
  /\ due' = {i \in Incidents :
               Known(i) /\ ~Resolved(i) /\ ~incidents[i].escalated}
  /\ Wait(Escalator, [Idle EXCEPT !.do = "list"])
  /\ UNCHANGED <<store, overdue, log, faults, requests>>

\* markEscalated takes the incident anew.  If it was resolved meanwhile the
\* alert is sent all the same.
MarkEscalated(i) ==
  /\ Doing(Escalator, "list")
  /\ i \in due /\ i \in overdue
  /\ due' = due \ {i}
  /\ IF Resolved(i) THEN Wait(Escalator, [Idle EXCEPT !.do = "alert"])
     ELSE Update(Escalator, i, [incidents[i] EXCEPT !.escalated = TRUE])
  /\ UNCHANGED <<store, overdue, log, running, faults, requests>>

\* An incident in the list has time left.
PassOver(i) ==
  /\ Doing(Escalator, "list")
  /\ i \in due \ overdue
  /\ due' = due \ {i}
  /\ UNCHANGED <<store, overdue, log, running, calls, faults, requests>>

EndEscalation ==
  /\ Doing(Escalator, "list")
  /\ due = {}
  /\ Wait(Escalator, Idle)
  /\ EndRun(Escalator)
  /\ UNCHANGED <<store, overdue, log, faults, requests>>

-----------------------------------------------------------------------------

\* The interval to the next report begins anew.  A report takes no time.
Restart ==
  /\ Fault
  /\ incidents' = rows
  /\ deliveries' = file
  /\ age' = IF Reconciler \in running
            THEN [d \in Deliveries |-> IF file[d] = None THEN 0 ELSE age[d]]
            ELSE Older
  /\ running' = {}
  /\ due' = {}
  /\ calls' = [t \in Tasks |-> Idle]
  /\ UNCHANGED <<rows, overdue, file, requests>>

-----------------------------------------------------------------------------
Operate(h) ==
  \/ \E d \in Deliveries : Replay(h, d)
  \/ \E i \in Incidents : Acknowledge(h, i) \/ Assign(h, i) \/ Resolve(h, i)

Proceed(t) == WriteRow(t) \/ StoreIncident(t) \/ AlertEnds(t)

Reconcile ==
  \/ Report \/ NoExceptions \/ Proceed(Reconciler)
  \/ \E i \in Incidents : RaiseIncident(i)

GoThroughList ==
  \/ Escalate \/ EndEscalation \/ Proceed(Escalator)
  \/ \E i \in Incidents : MarkEscalated(i) \/ PassOver(i)

Next ==
  \/ \E d \in Deliveries, s \in {"delivered", "failed"} :
       \/ Deliver(d, s)
       \/ \E h \in Handlers : FinishReplay(h, d, s)
  \/ \E h \in Handlers : Operate(h) \/ AbortReplay(h) \/ Proceed(h)
  \/ Reconcile \/ ExportFails \/ GoThroughList
  \/ \E t \in Tasks : QueryFails(t)
  \/ \E i \in Incidents : TimePasses(i)
  \/ Restart

Spec == Init /\ [][Next]_vars

\* The timers of both schedules go off, and their queries, writes and alerts
\* end.  Nothing is asked of the operators' requests.
Fairness == WF_vars(Reconcile) /\ WF_vars(GoThroughList)

FairSpec == Spec /\ Fairness

-----------------------------------------------------------------------------
(* Properties.                                                             *)

\* The log keeps the lineage of every replay: its original is in the log, and
\* its attempt number is not greater than the number of posts recorded.  Its
\* records, and all others, are of their types.
ReplaysNumbered ==
  /\ TypeOK
  /\ \A e \in Deliveries :
       deliveries[e] # None /\ deliveries[e].replayOf # None =>
         LET d == deliveries[e].replayOf IN
         /\ deliveries[d] # None
         /\ deliveries[e].attempt \in 2 .. Cardinality(ReplaysOf(d)) + 1

\* A resolution or the mark of an escalation disappears from memory only when
\* an update is stored that had read the incident before something else was
\* stored, or at a restart.
LosesOnlyOverlapped ==
  [][\A i \in Incidents :
       /\ Known(i)
       /\ \/ incidents'[i] = None
          \/ Resolved(i) /\ incidents'[i].status # "resolved"
          \/ incidents[i].escalated /\ ~incidents'[i].escalated
       => \/ \E t \in Tasks : /\ Doing(t, "store") /\ calls[t].incident = i
                              /\ calls[t].seen # incidents[i]
          \/ incidents' = rows /\ rows[i] # None]_vars

\* An incident that is overdue is escalated at last, unless it is resolved
\* first: no failed query or restart stops the schedule for good.
Escalates ==
  \A i \in Incidents :
    Known(i) /\ i \in overdue ~>
      Known(i) /\ (Resolved(i) \/ incidents[i].escalated)

\* A failed delivery, a replay included, is at last the subject of an
\* incident, unless a restart finds the log's file broken or there are as many
\* faults as the window spans intervals (in the defaults: one).
FailuresReported ==
  \A d \in Deliveries :
    Failed(d) ~>
      \/ deliveries[d] = None \/ faults >= Window
      \/ \E i \in Incidents : Known(i) /\ d \in incidents[i].about
      \/ UnusedIncidents = {}  \* bound
=============================================================================
