------------------------ MODULE OperatorIncidents_proofs ------------------------
(***************************************************************************)
(* Proofs about OperatorIncidents, for every value of its constants.       *)
(*                                                                         *)
(* An update that waits carries over what it read: a resolution and the    *)
(* mark of an escalation are never taken back by the code that makes the   *)
(* copy, only by storing it late.  The table is ahead of the memory, and   *)
(* the file of the log holds the log or nothing.                           *)
(***************************************************************************)
EXTENDS OperatorIncidents, FiniteSetTheorems, TLAPS

\* The copy a task is to store carries over what matters of what it has read.
CarriesOver(call) ==
  /\ call.incident \in Incidents /\ call.copy \in IncidentRecords
  /\ call.seen # None =>
       /\ call.seen.status = "resolved" => call.copy.status = "resolved"
       /\ call.seen.escalated => call.copy.escalated

\* The replay that is being posted has a number that was free when it began.
Counted(call) ==
  /\ call.delivery \in Deliveries /\ deliveries[call.delivery] # None
  /\ call.attempt \in 2 .. Cardinality(ReplaysOf(call.delivery)) + 2

CallAgrees(t) ==
  /\ calls[t].do \in {"write", "store"} => CarriesOver(calls[t])
  /\ calls[t].do = "store" => rows[calls[t].incident] # None
  /\ calls[t].do = "post" => Counted(calls[t])

CallsAgree == \A t \in Tasks : CallAgrees(t)

\* The table is ahead of the memory.
RowsAhead ==
  /\ \A i \in Incidents : Known(i) => rows[i] # None
  /\ \A i \in due : Known(i)

Lineage(e) ==
  LET d == deliveries[e].replayOf IN
  d # None => /\ deliveries[d] # None
              /\ deliveries[e].attempt \in 2 .. Cardinality(ReplaysOf(d)) + 1

LogAgrees ==
  /\ file = deliveries \/ file = NoDeliveries
  /\ \A e \in Deliveries : deliveries[e] # None => Lineage(e)

IInv == TypeOK /\ CallsAgree /\ RowsAhead /\ LogAgrees

-----------------------------------------------------------------------------
(* Shapes and sizes.                                                       *)

\* A task at rest is a call at rest.
LEMMA IdleType == Idle \in Calls /\ Idle.do = "idle"
  BY DEF Idle, Calls, Steps

\* An incident moved to another state is an incident.
LEMMA IncidentShape ==
  ASSUME NEW r \in IncidentRecords
  PROVE  /\ \A s \in {"acknowledged", "assigned", "resolved"} :
              /\ [r EXCEPT !.status = s] \in IncidentRecords
              /\ [r EXCEPT !.status = s].status = s
              /\ [r EXCEPT !.status = s].escalated = r.escalated
         /\ [r EXCEPT !.escalated = TRUE] \in IncidentRecords
         /\ [r EXCEPT !.escalated = TRUE].status = r.status
         /\ [r EXCEPT !.escalated = TRUE].escalated = TRUE
         /\ r # None
  BY IncidentsAssumption DEF IncidentRecords

\* What a task waits for is what it was set to wait for.
LEMMA CallChange ==
  ASSUME calls \in [Tasks -> Calls], NEW t \in Tasks, NEW c \in Calls, Wait(t, c)
  PROVE  /\ calls' \in [Tasks -> Calls]
         /\ calls'[t] = c
         /\ \A s \in Tasks : s # t => calls'[s] = calls[s]
  BY DEF Wait

\* The two schedulers and the request handlers are different tasks.
LEMMA TaskKinds ==
  /\ Reconciler \in Tasks /\ Escalator \in Tasks /\ Reconciler # Escalator
  /\ Schedulers \subseteq Tasks /\ Handlers \subseteq Tasks
  /\ \A h \in Handlers : h \notin Schedulers
  BY IncidentsAssumption DEF Tasks, Schedulers

\* Of one delivery there are no more replays than deliveries.
LEMMA ReplaysFinite ==
  ASSUME NEW d
  PROVE  /\ IsFiniteSet(ReplaysOf(d))
         /\ Cardinality(ReplaysOf(d)) \in Nat
         /\ Cardinality(ReplaysOf(d)) <= Cardinality(Deliveries)
         /\ Cardinality(Deliveries) \in Nat
<1>1. ReplaysOf(d) \in SUBSET Deliveries
  BY DEF ReplaysOf
<1> QED
  BY <1>1, IncidentsAssumption, FS_Subset, FS_CardinalityType

-----------------------------------------------------------------------------
(* The invariant is kept.                                                  *)

\* A call by which a task begins something, or goes on with nothing at stake.
Fresh(call) ==
  /\ call.do # "store"
  /\ call.do = "write" => CarriesOver(call)
  /\ call.do = "post" => Counted(call)

\* A step that changes no row and moves calls within their rules preserves the invariant.
LEMMA CallsOnly ==
  ASSUME IInv, UNCHANGED <<incidents, rows, deliveries, file>>,
         overdue' \in SUBSET Incidents, age' \in [Deliveries -> 0 .. Window],
         running' \in SUBSET Schedulers, due' \in SUBSET Incidents,
         \A i \in due' : Known(i),
         requests' \in 0 .. MaxRequests, faults' \in 0 .. MaxFaults,
         calls' \in [Tasks -> Calls],
         \A t \in Tasks : calls'[t] = calls[t] \/ Fresh(calls'[t])
  PROVE  IInv'
<1>1. TypeOK'
  BY DEF IInv, TypeOK
<1>2. \A d \in Deliveries : ReplaysOf(d)' = ReplaysOf(d)
  BY DEF ReplaysOf
<1>3. CallsAgree'
  <2> SUFFICES ASSUME NEW t \in Tasks PROVE CallAgrees(t)'
    BY DEF CallsAgree
  <2>1. CallAgrees(t)
    BY DEF IInv, CallsAgree
  <2> QED
    BY <1>2, <2>1 DEF CallAgrees, Fresh, Counted, CarriesOver
<1>4. RowsAhead'
  BY DEF IInv, RowsAhead, Known
<1>5. LogAgrees'
  BY <1>2 DEF IInv, LogAgrees, Lineage, TypeOK, DeliveryRecords, NoDeliveries
<1> QED
  BY <1>1, <1>3, <1>4, <1>5 DEF IInv

\* The steps of operators: an update is a copy of what is read.
LEMMA OperateKeeps ==
  ASSUME IInv, NEW h \in Handlers, Operate(h)
  PROVE  IInv'
<1>1. h \in Tasks /\ requests' \in 0 .. MaxRequests
      /\ UNCHANGED <<incidents, rows, overdue, deliveries, age, file, running, due, faults>>
  <2>1. Begin(h) /\ UNCHANGED <<store, overdue, log, schedule, faults>>
    BY DEF Operate, Replay, Acknowledge, Assign, Resolve
  <2>2. requests' \in 0 .. MaxRequests
    BY <2>1, IncidentsAssumption DEF Begin, IInv, TypeOK
  <2> QED
    BY <2>1, <2>2, TaskKinds DEF store, log, schedule
<1>2. \E c \in Calls : Wait(h, c) /\ Fresh(c)
  <2>1. ASSUME NEW i \in Incidents, NEW s \in {"acknowledged", "assigned", "resolved"}, Known(i),
               Resolved(i) => s = "resolved", Update(h, i, [incidents[i] EXCEPT !.status = s])
        PROVE  \E c \in Calls : Wait(h, c) /\ Fresh(c)
    <3>1. PICK r \in IncidentRecords : r = incidents[i]
      BY <2>1 DEF Known, IInv, TypeOK
    <3>2. PICK copy : copy = [r EXCEPT !.status = s]
      OBVIOUS
    <3>3. copy \in IncidentRecords /\ copy.status = s /\ copy.escalated = r.escalated
      BY <3>2, IncidentShape
    <3>4. PICK c : c = [Idle EXCEPT !.do = "write", !.incident = i, !.seen = r, !.copy = copy]
      OBVIOUS
    <3>5. /\ c \in Calls /\ c.do = "write" /\ c.incident = i /\ c.seen = r /\ c.copy = copy
      BY <3>4, <3>3 DEF Idle, Calls, Steps
    <3>6. Fresh(c)
      BY <2>1, <3>1, <3>5, <3>3 DEF Fresh, CarriesOver, Resolved
    <3> QED
      BY <2>1, <3>1, <3>2, <3>4, <3>5, <3>6 DEF Update
  <2>2. ASSUME NEW d \in Deliveries, Replay(h, d)
        PROVE  \E c \in Calls : Wait(h, c) /\ Fresh(c)
    <3>1. PICK n \in Nat : n = NextReplayAttempt(d) /\ n = Cardinality(ReplaysOf(d)) + 2
      BY ReplaysFinite DEF NextReplayAttempt
    <3>2. PICK c : c = [Idle EXCEPT !.do = "post", !.delivery = d, !.attempt = n]
      OBVIOUS
    <3>3. c \in Calls /\ c.do = "post" /\ c.delivery = d /\ c.attempt = n
      BY <3>2 DEF Idle, Calls, Steps
    <3>4. Counted(c)
      BY <2>2, <3>1, <3>3, ReplaysFinite DEF Counted, Replay
    <3> QED
      BY <2>2, <3>1, <3>2, <3>3, <3>4 DEF Fresh, Replay
  <2>3. ASSUME NEW i \in Incidents, Acknowledge(h, i) \/ Assign(h, i) \/ Resolve(h, i)
        PROVE  \E c \in Calls : Wait(h, c) /\ Fresh(c)
    BY <2>1, <2>3 DEF Acknowledge, Assign, Resolve
  <2> QED
    BY <2>2, <2>3 DEF Operate
<1>3. /\ calls' \in [Tasks -> Calls]
      /\ \A t \in Tasks : calls'[t] = calls[t] \/ Fresh(calls'[t])
  <2>1. PICK c \in Calls : Wait(h, c) /\ Fresh(c)
    BY <1>2
  <2> QED
    BY <1>1, <2>1, CallChange DEF IInv, TypeOK
<1> QED
  BY <1>1, <1>3, CallsOnly DEF IInv, TypeOK, RowsAhead

\* The schedules, and the ends of tasks: what is stored is not touched.
LEMMA ScheduleKeeps ==
  ASSUME IInv, NEW t \in Tasks,
         UNCHANGED <<incidents, rows, deliveries, file, requests>>,
         overdue' \in SUBSET Incidents, age' \in [Deliveries -> 0 .. Window],
         running' \in SUBSET Schedulers, due' \subseteq due, faults' \in 0 .. MaxFaults,
         NEW c \in Calls, Wait(t, c), Fresh(c)
  PROVE  IInv'
<1>1. /\ calls' \in [Tasks -> Calls]
      /\ \A s \in Tasks : calls'[s] = calls[s] \/ Fresh(calls'[s])
  BY CallChange DEF IInv, TypeOK
<1>2. due' \in SUBSET Incidents /\ (\A i \in due' : Known(i)) /\ requests' \in 0 .. MaxRequests
  BY DEF IInv, TypeOK, RowsAhead
<1> QED
  BY <1>1, <1>2, CallsOnly

\* A task that ends.
LEMMA EndKeeps ==
  ASSUME IInv, NEW t \in Tasks, Wait(t, Idle), faults' \in 0 .. MaxFaults,
         UNCHANGED <<store, overdue, log, requests>>, EndRun(t) \/ UNCHANGED schedule
  PROVE  IInv'
<1>1. running' \in SUBSET Schedulers /\ due' \subseteq due
  BY DEF EndRun, schedule, IInv, TypeOK
<1>2. Fresh(Idle)
  BY IdleType DEF Fresh
<1>3. /\ UNCHANGED <<incidents, rows, deliveries, file, requests>>
      /\ overdue' \in SUBSET Incidents /\ age' \in [Deliveries -> 0 .. Window]
  BY DEF store, log, IInv, TypeOK
<1> QED
  BY <1>1, <1>2, <1>3, IdleType, ScheduleKeeps

\* Faults stay within their bound.
LEMMA FaultType ==
  ASSUME IInv, Fault \/ UNCHANGED faults
  PROVE  faults' \in 0 .. MaxFaults
  BY IncidentsAssumption DEF Fault, IInv, TypeOK

\* A delivery's age goes up to the window.
LEMMA OlderType ==
  ASSUME IInv
  PROVE  Older \in [Deliveries -> 0 .. Window]
  BY IncidentsAssumption DEF Older, IInv, TypeOK

\* Report preserves the invariant.
LEMMA ReportKeeps ==
  ASSUME IInv, Report
  PROVE  IInv'
<1>1. PICK c : c = [Idle EXCEPT !.do = "export", !.about = FailedDeliveries]
  OBVIOUS
<1>2. c \in Calls /\ c.do = "export"
  BY <1>1 DEF Idle, Calls, Steps, FailedDeliveries
<1>3. /\ UNCHANGED <<incidents, rows, deliveries, file, requests, due, overdue, faults>>
      /\ running' \in SUBSET Schedulers
  BY DEF Report, store, IInv, TypeOK, Schedulers
<1>4. Wait(Reconciler, c) /\ Fresh(c) /\ age' \in [Deliveries -> 0 .. Window]
  BY <1>1, <1>2, OlderType DEF Report, Fresh
<1> QED
  BY <1>2, <1>3, <1>4, TaskKinds, ScheduleKeeps DEF IInv, TypeOK

\* RaiseIncident preserves the invariant.
LEMMA RaiseIncidentKeeps ==
  ASSUME IInv, NEW i \in Incidents, RaiseIncident(i)
  PROVE  IInv'
<1>1. PICK r : r = [status |-> "open", escalated |-> FALSE, about |-> calls[Reconciler].about]
  OBVIOUS
<1>2. r \in IncidentRecords
  <2>1. calls[Reconciler] \in Calls
    BY TaskKinds DEF IInv, TypeOK
  <2> QED
    BY <1>1, <2>1 DEF Calls, IncidentRecords
<1>3. PICK c : c = [Idle EXCEPT !.do = "write", !.incident = i, !.copy = r]
  OBVIOUS
<1>4. c \in Calls /\ c.do = "write" /\ c.incident = i /\ c.copy = r /\ c.seen = None
  BY <1>2, <1>3 DEF Idle, Calls, Steps
<1>5. Wait(Reconciler, c) /\ Fresh(c)
  BY <1>1, <1>2, <1>3, <1>4 DEF RaiseIncident, Fresh, CarriesOver
<1>6. UNCHANGED <<incidents, rows, deliveries, file, requests, overdue, age, running, due, faults>>
  BY DEF RaiseIncident, store, log, schedule
<1> QED
  BY <1>4, <1>5, <1>6, TaskKinds, ScheduleKeeps DEF IInv, TypeOK

\* Escalate preserves the invariant.
LEMMA EscalateKeeps ==
  ASSUME IInv, Escalate
  PROVE  IInv'
<1>1. PICK c : c = [Idle EXCEPT !.do = "list"]
  OBVIOUS
<1>2. c \in Calls /\ Fresh(c) /\ Wait(Escalator, c)
  BY <1>1 DEF Idle, Calls, Steps, Fresh, Escalate
<1>3. /\ calls' \in [Tasks -> Calls]
      /\ \A s \in Tasks : calls'[s] = calls[s] \/ Fresh(calls'[s])
  BY <1>2, TaskKinds, CallChange DEF IInv, TypeOK
<1>4. /\ UNCHANGED <<incidents, rows, deliveries, file, requests, overdue, age, faults>>
      /\ running' \in SUBSET Schedulers /\ due' \in SUBSET Incidents
      /\ \A i \in due' : Known(i)
  BY DEF Escalate, store, log, IInv, TypeOK, Schedulers
<1> QED
  BY <1>3, <1>4, CallsOnly DEF IInv, TypeOK

\* The mark is put on a copy of the incident as it is now.
LEMMA MarkEscalatedKeeps ==
  ASSUME IInv, NEW i \in Incidents, MarkEscalated(i)
  PROVE  IInv'
<1>1. /\ UNCHANGED <<incidents, rows, deliveries, file, requests, overdue, age, running, faults>>
      /\ due' \subseteq due
  BY DEF MarkEscalated, store, log
<1>2. PICK c \in Calls : Wait(Escalator, c) /\ Fresh(c)
  <2>1. CASE Resolved(i)
    <3>1. PICK c : c = [Idle EXCEPT !.do = "alert"]
      OBVIOUS
    <3>2. c \in Calls /\ Fresh(c)
      BY <3>1 DEF Idle, Calls, Steps, Fresh
    <3> QED
      BY <2>1, <3>1, <3>2 DEF MarkEscalated
  <2>2. CASE ~Resolved(i)
    <3>1. PICK r \in IncidentRecords : r = incidents[i]
      BY DEF MarkEscalated, IInv, TypeOK, RowsAhead, Known
    <3>2. PICK copy : copy = [r EXCEPT !.escalated = TRUE]
      OBVIOUS
    <3>3. copy \in IncidentRecords /\ copy.status = r.status /\ copy.escalated = TRUE
      BY <3>2, IncidentShape
    <3>4. PICK c : c = [Idle EXCEPT !.do = "write", !.incident = i, !.seen = r, !.copy = copy]
      OBVIOUS
    <3>5. c \in Calls /\ c.do = "write" /\ c.incident = i /\ c.seen = r /\ c.copy = copy
      BY <3>3, <3>4 DEF Idle, Calls, Steps
    <3>6. Fresh(c)
      BY <3>3, <3>5 DEF Fresh, CarriesOver
    <3> QED
      BY <2>2, <3>1, <3>2, <3>4, <3>5, <3>6 DEF MarkEscalated, Update
  <2> QED
    BY <2>1, <2>2
<1> QED
  BY <1>1, <1>2, TaskKinds, ScheduleKeeps DEF IInv, TypeOK

\* PassOver preserves the invariant.
LEMMA PassOverKeeps ==
  ASSUME IInv, NEW i \in Incidents, PassOver(i) \/ TimePasses(i)
  PROVE  IInv'
<1>1. /\ UNCHANGED <<incidents, rows, deliveries, file, requests, age, running, faults, calls>>
      /\ due' \subseteq due /\ overdue' \in SUBSET Incidents
  BY DEF PassOver, TimePasses, store, log, schedule, IInv, TypeOK
<1> QED
  BY <1>1, CallsOnly DEF IInv, TypeOK, RowsAhead

\* The steps that end a task with nothing written preserve the invariant.
LEMMA EndingsKeep ==
  ASSUME IInv, \/ NoExceptions \/ ExportFails \/ EndEscalation
               \/ \E h \in Handlers : AbortReplay(h)
               \/ \E t \in Tasks : QueryFails(t)
               \/ AlertEnds(Reconciler)
  PROVE  IInv'
<1>1. PICK t \in Tasks : Wait(t, Idle) /\ (EndRun(t) \/ UNCHANGED schedule)
  BY TaskKinds DEF NoExceptions, ExportFails, EndEscalation, AbortReplay, QueryFails, AlertEnds
<1>2. UNCHANGED <<store, overdue, log, requests>> /\ (Fault \/ UNCHANGED faults)
  BY DEF NoExceptions, ExportFails, EndEscalation, AbortReplay, QueryFails, AlertEnds
<1> QED
  BY <1>1, <1>2, FaultType, EndKeeps

\* Alert preserves the invariant.
LEMMA AlertKeeps ==
  ASSUME IInv, AlertEnds(Escalator)
  PROVE  IInv'
<1>1. PICK c : c = [Idle EXCEPT !.do = "list"]
  OBVIOUS
<1>2. c \in Calls /\ Fresh(c) /\ Wait(Escalator, c)
  BY <1>1, TaskKinds DEF Idle, Calls, Steps, Fresh, AlertEnds
<1>3. UNCHANGED <<incidents, rows, deliveries, file, requests, overdue, age, running, due, faults>>
  BY TaskKinds DEF AlertEnds, store, log, schedule
<1> QED
  BY <1>2, <1>3, TaskKinds, ScheduleKeeps DEF IInv, TypeOK

-----------------------------------------------------------------------------
(* The updates.                                                            *)

\* WriteRow preserves the invariant.
LEMMA WriteRowKeeps ==
  ASSUME IInv, NEW t \in Tasks, WriteRow(t)
  PROVE  IInv'
<1>1. calls[t] \in Calls /\ calls[t].do = "write" /\ CarriesOver(calls[t])
  BY DEF IInv, TypeOK, CallsAgree, CallAgrees, WriteRow, Doing
<1>2. PICK c : c = [calls[t] EXCEPT !.do = "store"]
  OBVIOUS
<1>3. c \in Calls /\ c.do = "store" /\ c.incident = calls[t].incident /\ CarriesOver(c)
  BY <1>1, <1>2 DEF Calls, Steps, CarriesOver
<1>4. /\ calls' \in [Tasks -> Calls] /\ calls'[t] = c
      /\ \A s \in Tasks : s # t => calls'[s] = calls[s]
      /\ UNCHANGED <<incidents, overdue, deliveries, age, file, running, due, faults, requests>>
  BY <1>2, <1>3, CallChange DEF IInv, TypeOK, WriteRow, store, log, schedule
<1>5. PICK i \in Incidents : i = calls[t].incident
  BY <1>1 DEF CarriesOver
<1>6. /\ rows' \in [Incidents -> IncidentRecords \cup {None}] /\ rows'[i] # None
      /\ \A j \in Incidents : j # i => rows'[j] = rows[j]
  BY <1>1, <1>5, IncidentShape DEF WriteRow, CarriesOver, IInv, TypeOK
<1>7. TypeOK'
  BY <1>4, <1>6 DEF IInv, TypeOK
<1>8. CallsAgree'
  <2> SUFFICES ASSUME NEW s \in Tasks PROVE CallAgrees(s)'
    BY DEF CallsAgree
  <2>1. CASE s = t
    BY <1>3, <1>4, <1>5, <1>6, <2>1 DEF CallAgrees, CarriesOver
  <2>2. CASE s # t
    BY <1>4, <1>6, <2>2
       DEF IInv, CallsAgree, CallAgrees, CarriesOver, Counted, ReplaysOf
  <2> QED
    BY <2>1, <2>2
<1>9. RowsAhead' /\ LogAgrees'
  BY <1>4, <1>6 DEF IInv, RowsAhead, Known, LogAgrees, Lineage, ReplaysOf
<1> QED
  BY <1>7, <1>8, <1>9 DEF IInv

\* The row was written before.
LEMMA StoreIncidentKeeps ==
  ASSUME IInv, NEW t \in Tasks, StoreIncident(t)
  PROVE  IInv'
<1>1. /\ calls[t] \in Calls /\ calls[t].do = "store" /\ CarriesOver(calls[t])
      /\ rows[calls[t].incident] # None
  BY DEF IInv, TypeOK, CallsAgree, CallAgrees, StoreIncident, Doing
<1>2. PICK c : c = IF t \in Schedulers THEN [Idle EXCEPT !.do = "alert"] ELSE Idle
  OBVIOUS
<1>3. c \in Calls /\ c.do \in {"alert", "idle"}
  BY <1>2, IdleType DEF Idle, Calls, Steps
<1>4. /\ calls' \in [Tasks -> Calls] /\ calls'[t] = c
      /\ \A s \in Tasks : s # t => calls'[s] = calls[s]
      /\ UNCHANGED <<rows, overdue, deliveries, age, file, running, due, faults, requests>>
  BY <1>2, <1>3, CallChange DEF IInv, TypeOK, StoreIncident, log, schedule
<1>5. PICK i \in Incidents : i = calls[t].incident
  BY <1>1 DEF CarriesOver
<1>6. /\ incidents' \in [Incidents -> IncidentRecords \cup {None}] /\ incidents'[i] # None
      /\ \A j \in Incidents : j # i => incidents'[j] = incidents[j]
  BY <1>1, <1>5, IncidentShape DEF StoreIncident, CarriesOver, IInv, TypeOK
<1>7. TypeOK'
  BY <1>4, <1>6 DEF IInv, TypeOK
<1>8. CallsAgree'
  BY <1>3, <1>4 DEF IInv, CallsAgree, CallAgrees, CarriesOver, Counted, ReplaysOf
<1>9. RowsAhead'
  <2>1. \A j \in Incidents : incidents'[j] # None => rows'[j] # None
    <3>1. \A j \in Incidents : incidents[j] # None => rows[j] # None
      BY DEF IInv, RowsAhead, Known
    <3>2. rows[i] # None /\ rows' = rows
      BY <1>1, <1>4, <1>5
    <3>3. \A j \in Incidents : rows'[j] = rows[j]
      BY <3>2
    <3> QED
      BY <3>1, <3>2, <3>3, <1>6
  <2>2. \A j \in Incidents : incidents[j] # None => incidents'[j] # None
    BY <1>6
  <2> QED
    BY <1>4, <2>1, <2>2 DEF IInv, TypeOK, RowsAhead, Known
<1>10. LogAgrees'
  BY <1>4 DEF IInv, LogAgrees, Lineage, ReplaysOf, NoDeliveries
<1> QED
  BY <1>7, <1>8, <1>9, <1>10 DEF IInv

-----------------------------------------------------------------------------
(* The log.                                                                *)

\* A record's number stays within the posts of its original when another record
\* is added, and that of the record added is.
LEMMA RecordKeepsLog ==
  ASSUME IInv, NEW d \in Deliveries, NEW r \in DeliveryRecords, Record(d, r),
         NEW o \in Deliveries \cup {None}, r.replayOf = o,
         o # None => /\ deliveries[o] # None
                     /\ r.attempt \in 2 .. Cardinality(ReplaysOf(o)) + 2
  PROVE  /\ deliveries' \in [Deliveries -> DeliveryRecords \cup {None}]
         /\ file' \in [Deliveries -> DeliveryRecords \cup {None}]
         /\ \A e \in Deliveries : deliveries[e] # None => deliveries'[e] = deliveries[e]
         /\ \A e \in Deliveries \cup {None} :
              Cardinality(ReplaysOf(e)) <= Cardinality(ReplaysOf(e))'
         /\ LogAgrees'
<1>1. /\ deliveries[d] = None /\ r # None /\ d # None
      /\ deliveries' \in [Deliveries -> DeliveryRecords \cup {None}]
      /\ deliveries'[d] = r
      /\ \A e \in Deliveries : e # d => deliveries'[e] = deliveries[e]
  BY IncidentsAssumption DEF Record, IsNew, UnusedDeliveries, IInv, TypeOK
<1>2. \A e \in Deliveries \cup {None} :
        ReplaysOf(e)' = IF e = o THEN ReplaysOf(e) \cup {d} ELSE ReplaysOf(e)
  BY <1>1 DEF ReplaysOf
<1>3. \A e \in Deliveries \cup {None} :
        Cardinality(ReplaysOf(e))' = Cardinality(ReplaysOf(e)) + IF e = o THEN 1 ELSE 0
  <2> SUFFICES ASSUME NEW e \in Deliveries \cup {None}
               PROVE  Cardinality(ReplaysOf(e))'
                        = Cardinality(ReplaysOf(e)) + IF e = o THEN 1 ELSE 0
    OBVIOUS
  <2>1. d \notin ReplaysOf(e)
    BY <1>1 DEF ReplaysOf
  <2>2. Cardinality(ReplaysOf(e) \cup {d}) = Cardinality(ReplaysOf(e)) + 1
    BY <2>1, ReplaysFinite, FS_AddElement
  <2> QED
    BY <1>2, <2>2, ReplaysFinite
<1>4. \A e \in Deliveries : deliveries'[e] # None => Lineage(e)'
  <2> SUFFICES ASSUME NEW e \in Deliveries, deliveries'[e] # None PROVE Lineage(e)'
    OBVIOUS
  <2>1. CASE e = d
    BY <1>1, <1>3, <2>1, ReplaysFinite DEF Lineage
  <2>2. CASE e # d
    <3>1. deliveries'[e] = deliveries[e] /\ deliveries[e] \in DeliveryRecords /\ Lineage(e)
      BY <1>1, <2>2 DEF IInv, TypeOK, LogAgrees
    <3>2. PICK p \in Deliveries \cup {None} : p = deliveries[e].replayOf
      BY <3>1 DEF DeliveryRecords
    <3>3. CASE p = None
      BY <3>1, <3>2, <3>3 DEF Lineage
    <3>4. CASE p # None
      <4>1. /\ deliveries[p] # None /\ deliveries'[p] # None
            /\ deliveries[e].attempt \in 2 .. Cardinality(ReplaysOf(p)) + 1
        BY <1>1, <3>1, <3>2, <3>4 DEF Lineage
      <4>2. /\ Cardinality(ReplaysOf(p)) \in Nat
            /\ Cardinality(ReplaysOf(p))' \in {Cardinality(ReplaysOf(p)),
                                               Cardinality(ReplaysOf(p)) + 1}
        BY <1>3, ReplaysFinite
      <4>3. deliveries[e].attempt \in 2 .. Cardinality(ReplaysOf(p))' + 1
        BY <4>1, <4>2
      <4> QED
        BY <3>1, <3>2, <4>1, <4>3 DEF Lineage
    <3> QED
      BY <3>3, <3>4
  <2> QED
    BY <2>1, <2>2
<1>5. file' = deliveries' \/ file' = NoDeliveries
  BY DEF Record
<1>6. file' \in [Deliveries -> DeliveryRecords \cup {None}]
  BY <1>1, <1>5 DEF NoDeliveries
<1>7. LogAgrees'
  BY <1>4, <1>5 DEF LogAgrees, NoDeliveries
<1>8. \A e \in Deliveries \cup {None} : Cardinality(ReplaysOf(e)) <= Cardinality(ReplaysOf(e))'
  BY <1>3, ReplaysFinite
<1> QED
  BY <1>1, <1>6, <1>7, <1>8

\* Record preserves the invariant.
LEMMA RecordKeeps ==
  ASSUME IInv, NEW d \in Deliveries, NEW r \in DeliveryRecords, Record(d, r),
         NEW o \in Deliveries \cup {None}, r.replayOf = o,
         o # None => /\ deliveries[o] # None
                     /\ r.attempt \in 2 .. Cardinality(ReplaysOf(o)) + 2,
         UNCHANGED <<store, overdue, schedule, requests>>,
         calls' \in [Tasks -> Calls],
         \A t \in Tasks : calls'[t] = calls[t] \/ calls'[t] = Idle
  PROVE  IInv'
<1>1. /\ deliveries' \in [Deliveries -> DeliveryRecords \cup {None}]
      /\ file' \in [Deliveries -> DeliveryRecords \cup {None}]
      /\ \A e \in Deliveries : deliveries[e] # None => deliveries'[e] = deliveries[e]
      /\ \A e \in Deliveries \cup {None} :
           Cardinality(ReplaysOf(e)) <= Cardinality(ReplaysOf(e))'
      /\ LogAgrees'
  BY RecordKeepsLog
<1>2. /\ faults' \in 0 .. MaxFaults
      /\ UNCHANGED <<incidents, rows, overdue, age, running, due, requests>>
  BY FaultType DEF Record, store, schedule
<1>3. TypeOK'
  BY <1>1, <1>2 DEF IInv, TypeOK
<1>4. CallsAgree'
  <2> SUFFICES ASSUME NEW t \in Tasks, calls'[t] = calls[t] PROVE CallAgrees(t)'
    BY IdleType DEF CallsAgree, CallAgrees
  <2>1. CallAgrees(t)
    BY DEF IInv, CallsAgree
  <2>2. ASSUME calls[t].do = "post"
        PROVE  Counted(calls[t])'
    <3>1. PICK e \in Deliveries : e = calls[t].delivery
      BY <2>1, <2>2 DEF CallAgrees, Counted
    <3>2. /\ deliveries[e] # None /\ deliveries'[e] # None
          /\ calls[t].attempt \in 2 .. Cardinality(ReplaysOf(e)) + 2
      BY <1>1, <2>1, <2>2, <3>1 DEF CallAgrees, Counted
    <3>3. /\ Cardinality(ReplaysOf(e)) \in Nat
          /\ Cardinality(ReplaysOf(e))' \in Int
      <4>1. deliveries'[d] = r /\ IsFiniteSet(ReplaysOf(e)')
        <5>1. ReplaysOf(e)' \in SUBSET Deliveries
          BY DEF ReplaysOf
        <5> QED
          BY <5>1, IncidentsAssumption, FS_Subset DEF Record, IInv, TypeOK
      <4> QED
        BY <4>1, ReplaysFinite, FS_CardinalityType
    <3>4. calls[t].attempt \in 2 .. Cardinality(ReplaysOf(e))' + 2
      BY <1>1, <3>2, <3>3
    <3> QED
      BY <3>1, <3>2, <3>4 DEF Counted
  <2> QED
    BY <1>2, <2>1, <2>2 DEF CallAgrees, CarriesOver
<1>5. RowsAhead'
  BY <1>2 DEF IInv, RowsAhead, Known
<1> QED
  BY <1>1, <1>3, <1>4, <1>5 DEF IInv

\* Deliver preserves the invariant.
LEMMA DeliverKeeps ==
  ASSUME IInv, NEW d \in Deliveries, NEW s \in {"delivered", "failed"}, Deliver(d, s)
  PROVE  IInv'
<1>1. PICK r : r = [status |-> s, replayOf |-> None, attempt |-> 1]
  OBVIOUS
<1>2. r \in DeliveryRecords /\ r.replayOf = None
  <2>1. 1 \in 1 .. Cardinality(Deliveries) + 1
    BY ReplaysFinite
  <2> QED
    BY <1>1, <2>1 DEF DeliveryRecords
<1>3. Record(d, r) /\ UNCHANGED <<store, overdue, schedule, requests, calls>>
  BY <1>1 DEF Deliver
<1> QED
  BY <1>2, <1>3, RecordKeeps DEF IInv, TypeOK

\* The attempt was counted when the post began: by now there may be as many
\* replays, or more.
LEMMA FinishReplayKeeps ==
  ASSUME IInv, NEW h \in Handlers, NEW d \in Deliveries, NEW s \in {"delivered", "failed"},
         FinishReplay(h, d, s)
  PROVE  IInv'
<1>1. h \in Tasks /\ Counted(calls[h])
  BY TaskKinds DEF IInv, CallsAgree, CallAgrees, FinishReplay, Doing
<1>2. PICK o \in Deliveries, n \in Nat :
        /\ o = calls[h].delivery /\ n = calls[h].attempt
        /\ deliveries[o] # None /\ n \in 2 .. Cardinality(ReplaysOf(o)) + 2
  BY <1>1, ReplaysFinite DEF Counted
<1>3. PICK r : r = [status |-> s, replayOf |-> o, attempt |-> n]
  OBVIOUS
<1>4. Record(d, r) /\ Wait(h, Idle) /\ UNCHANGED <<store, overdue, schedule, requests>>
  BY <1>2, <1>3 DEF FinishReplay
<1>5. n \in 1 .. Cardinality(Deliveries) + 1
  <2>1. ReplaysOf(o) \in SUBSET Deliveries /\ d \notin ReplaysOf(o)
    BY <1>4 DEF ReplaysOf, Record, IsNew, UnusedDeliveries
  <2>2. Cardinality(ReplaysOf(o) \cup {d}) = Cardinality(ReplaysOf(o)) + 1
    BY <2>1, ReplaysFinite, FS_AddElement
  <2>3. Cardinality(ReplaysOf(o) \cup {d}) <= Cardinality(Deliveries)
    BY <2>1, IncidentsAssumption, FS_Subset
  <2> QED
    BY <1>2, <2>2, <2>3, ReplaysFinite
<1>6. r \in DeliveryRecords /\ r.replayOf = o /\ r.attempt = n
  BY <1>3, <1>5 DEF DeliveryRecords
<1>7. /\ calls' \in [Tasks -> Calls]
      /\ \A t \in Tasks : calls'[t] = calls[t] \/ calls'[t] = Idle
  BY <1>1, <1>4, CallChange, IdleType DEF IInv, TypeOK
<1> QED
  BY <1>2, <1>4, <1>6, <1>7, RecordKeeps

\* The memory is read from the table and the file.
LEMMA RestartKeeps ==
  ASSUME IInv, Restart
  PROVE  IInv'
<1>1. /\ incidents' = rows /\ rows' = rows /\ overdue' = overdue
      /\ deliveries' = file /\ file' = file /\ running' = {} /\ due' = {}
      /\ calls' = [t \in Tasks |-> Idle] /\ requests' = requests
  BY DEF Restart
<1>2. faults' \in 0 .. MaxFaults
  BY FaultType DEF Restart
<1>3. age' \in [Deliveries -> 0 .. Window]
  <2>1. 0 \in 0 .. Window
    BY IncidentsAssumption
  <2> QED
    BY <2>1, OlderType DEF Restart, IInv, TypeOK
<1>4. TypeOK'
  BY <1>1, <1>2, <1>3, IdleType DEF IInv, TypeOK
<1>5. CallsAgree'
  BY <1>1, IdleType DEF CallsAgree, CallAgrees
<1>6. RowsAhead'
  BY <1>1 DEF RowsAhead, Known
<1>7. LogAgrees'
  <2>1. CASE file = deliveries
    BY <1>1, <2>1 DEF IInv, LogAgrees, Lineage, ReplaysOf
  <2>2. CASE file = NoDeliveries
    BY <1>1, <2>2 DEF LogAgrees, NoDeliveries
  <2> QED
    BY <2>1, <2>2 DEF IInv, LogAgrees
<1> QED
  BY <1>4, <1>5, <1>6, <1>7 DEF IInv

-----------------------------------------------------------------------------
(* The theorems.                                                           *)

\* At the start there are no incidents and no deliveries.
LEMMA InitIInv == Init => IInv
<1> SUFFICES ASSUME Init PROVE IInv
  OBVIOUS
<1>1. TypeOK
  BY IdleType, IncidentsAssumption DEF Init, TypeOK, NoDeliveries
<1>2. CallsAgree /\ RowsAhead
  BY IdleType DEF Init, CallsAgree, CallAgrees, RowsAhead, Known
<1>3. LogAgrees
  BY DEF Init, LogAgrees, NoDeliveries
<1> QED
  BY <1>1, <1>2, <1>3 DEF IInv

\* Every step of a task preserves the invariant.
LEMMA ProceedKeeps ==
  ASSUME IInv, NEW t \in Tasks, Proceed(t)
  PROVE  IInv'
<1>1. CASE AlertEnds(t)
  <2>1. t \in {Reconciler, Escalator}
    BY <1>1 DEF AlertEnds
  <2> QED
    BY <1>1, <2>1, AlertKeeps, EndingsKeep
<1> QED
  BY <1>1, WriteRowKeeps, StoreIncidentKeeps DEF Proceed

\* Every step preserves the invariant.
LEMMA NextIInv == IInv /\ [Next]_vars => IInv'
<1> SUFFICES ASSUME IInv, [Next]_vars PROVE IInv'
  OBVIOUS
<1>1. ASSUME NEW d \in Deliveries, NEW s \in {"delivered", "failed"},
             Deliver(d, s) \/ \E h \in Handlers : FinishReplay(h, d, s)
      PROVE  IInv'
  BY <1>1, DeliverKeeps, FinishReplayKeeps
<1>2. ASSUME NEW h \in Handlers, Operate(h) \/ AbortReplay(h) \/ Proceed(h)
      PROVE  IInv'
  BY <1>2, TaskKinds, OperateKeeps, EndingsKeep, ProceedKeeps
<1>3. CASE Reconcile \/ ExportFails
  BY <1>3, TaskKinds, ReportKeeps, RaiseIncidentKeeps, EndingsKeep, ProceedKeeps DEF Reconcile
<1>4. CASE GoThroughList
  BY <1>4, TaskKinds, EscalateKeeps, MarkEscalatedKeeps, PassOverKeeps, EndingsKeep,
     ProceedKeeps DEF GoThroughList
<1>5. CASE \E t \in Tasks : QueryFails(t)
  BY <1>5, EndingsKeep
<1>6. CASE UNCHANGED vars
  BY <1>6, CallsOnly DEF vars, IInv, TypeOK, RowsAhead
<1> QED
  BY <1>1, <1>2, <1>3, <1>4, <1>5, <1>6, PassOverKeeps, RestartKeeps DEF Next

\* The invariant: copies carry over what they were made of, the table is ahead of
\* the memory, and the log keeps the lineage of its replays.
THEOREM Invariance == Spec => []IInv
  BY InitIInv, NextIInv, PTL DEF Spec

\* The original of every replay is in the log, and the number of a replay is not
\* greater than the posts recorded (WebhookDeliveryStore.nextReplayAttempt,
\* counted before a post that others overtake).
THEOREM Lineages == Spec => []ReplaysNumbered
<1>1. IInv => ReplaysNumbered
  BY DEF IInv, LogAgrees, Lineage, ReplaysNumbered
<1> QED
  BY <1>1, Invariance, PTL

\* One step: what is stored over an incident is a copy of it, or was made of
\* something older.
LEMMA LossStep ==
  ASSUME IInv, [Next]_vars, NEW i \in Incidents, Known(i),
         \/ incidents'[i] = None
         \/ Resolved(i) /\ incidents'[i].status # "resolved"
         \/ incidents[i].escalated /\ ~incidents'[i].escalated
  PROVE  \/ \E t \in Tasks : /\ Doing(t, "store") /\ calls[t].incident = i
                             /\ calls[t].seen # incidents[i]
         \/ incidents' = rows /\ rows[i] # None
<1>1. \/ incidents' = incidents
      \/ incidents' = rows
      \/ \E t \in Tasks : StoreIncident(t)
  BY TaskKinds
     DEF Next, vars, store, Deliver, FinishReplay, Operate, Replay, Acknowledge, Assign, Resolve,
         AbortReplay, Proceed, WriteRow, AlertEnds, Reconcile, Report, NoExceptions,
         RaiseIncident, ExportFails, GoThroughList, Escalate, EndEscalation, MarkEscalated,
         PassOver, QueryFails, TimePasses, Restart
<1>2. CASE incidents' = incidents
  BY <1>2 DEF Known, Resolved
<1>3. CASE incidents' = rows
  BY <1>3 DEF IInv, RowsAhead
<1>4. ASSUME NEW t \in Tasks, StoreIncident(t)
      PROVE  \E s \in Tasks : /\ Doing(s, "store") /\ calls[s].incident = i
                              /\ calls[s].seen # incidents[i]
  <2>1. Doing(t, "store") /\ CarriesOver(calls[t])
    BY <1>4 DEF StoreIncident, Doing, IInv, CallsAgree, CallAgrees
  <2>2. /\ incidents' = [incidents EXCEPT ![calls[t].incident] = calls[t].copy]
        /\ incidents \in [Incidents -> IncidentRecords \cup {None}]
    BY <1>4 DEF StoreIncident, IInv, TypeOK
  <2>3. calls[t].incident = i
    BY <2>2 DEF Known, Resolved
  <2>4. incidents'[i] = calls[t].copy /\ calls[t].copy # None
    BY <2>1, <2>2, <2>3, IncidentShape DEF CarriesOver
  <2>5. calls[t].seen # incidents[i]
    BY <2>1, <2>4 DEF CarriesOver, Known, Resolved
  <2> QED
    BY <2>1, <2>3, <2>5
<1> QED
  BY <1>1, <1>2, <1>3, <1>4

\* A resolution or the mark of an escalation is lost only to an update that
\* overlapped it, or to a restart that reads an older row
\* (OperatorIncidentStore.update and markEscalated).
THEOREM Losses == Spec => LosesOnlyOverlapped
<1>1. IInv /\ [Next]_vars =>
        [\A i \in Incidents :
           /\ Known(i)
           /\ \/ incidents'[i] = None
              \/ Resolved(i) /\ incidents'[i].status # "resolved"
              \/ incidents[i].escalated /\ ~incidents'[i].escalated
           => \/ \E t \in Tasks : /\ Doing(t, "store") /\ calls[t].incident = i
                                  /\ calls[t].seen # incidents[i]
              \/ incidents' = rows /\ rows[i] # None]_vars
  BY LossStep
<1> QED
  BY <1>1, Invariance, PTL DEF Spec, LosesOnlyOverlapped
=============================================================================
