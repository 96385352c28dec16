----------------------- MODULE OAuthAuthorization_proofs -----------------------
(***************************************************************************)
(* Proofs about OAuthAuthorization, for every value of its constants.      *)
(*                                                                         *)
(* The database's conditional updates let one handler at a time work on a  *)
(* request: the one that claimed its state, until the user is named, and   *)
(* the one that recorded the approval, until the code is issued.  The      *)
(* invariant ties what such a handler remembers to the rows it read.       *)
(***************************************************************************)
EXTENDS OAuthAuthorization, TLAPS

Created(r) == requests[r] # None

\* The pushed request p was consumed by service s.
Spent(p, s) == pushed[p] # None /\ pushed[p].consumed /\ pushed[p].service = s

Naming == {"identity", "replace"}
Granting == {"consent", "code"}

\* What a handler in the middle of its work may rely on.
CallAgrees(h) ==
  LET call == calls[h]
      r == call.request
  IN /\ call.do \in {"push", "consume", "create"} => call.service \in Services
     /\ call.do = "consume" => call.push \in Pushes /\ pushed[call.push] # None
     /\ call.do = "create" /\ call.push # None => Spent(call.push, call.service)
     /\ call.do \notin {"idle", "push", "consume", "create"} =>
          r \in Requests /\ Created(r)
     /\ call.do \in Naming => requests[r].subject = Placeholder
     /\ call.do = "replace" => call.subject \in Subjects /\ call.subject = identified[r]
     /\ call.do \in {"page", "decide"} => requests[r].subject \in Subjects
     /\ call.do \in Granting =>
          requests[r].status = "approved" /\ call.subject = requests[r].subject
     /\ call.do = "code" =>
          /\ call.consent \in Consents
          /\ consents[call.consent] = [request |-> r, subject |-> call.subject]

CallsAgree == \A h \in Handlers : CallAgrees(h)

\* No two handlers create a request of the same push, wait for the provider
\* about the same request, or grant the same one.
Alone ==
  \A g, h \in Handlers :
    g # h =>
      /\ calls[g].do = "create" /\ calls[h].do = "create" =>
           calls[g].push = None \/ calls[g].push # calls[h].push
      /\ calls[g].do \in Naming /\ calls[h].do \in Naming =>
           calls[g].request # calls[h].request
      /\ calls[g].do \in Granting /\ calls[h].do \in Granting =>
           calls[g].request # calls[h].request

RequestAgrees(r) ==
  /\ requests[r].push # None => Spent(requests[r].push, requests[r].service)
  /\ requests[r].subject = None <=> requests[r].status = "pending_identity"
  /\ requests[r].subject \in Subjects => identified[r] = requests[r].subject
  /\ requests[r].status \in {"approved", "denied"} \/ r \in shown =>
       requests[r].subject \in Subjects

RequestsAgree == \A r \in Requests : Created(r) => RequestAgrees(r)

\* A push is spent on one request, which may still be created.
PushOnce ==
  /\ \A q, r \in Requests :
       Created(q) /\ Created(r) /\ requests[r].push # None
       /\ requests[q].push = requests[r].push => q = r
  /\ \A h \in Handlers, r \in Requests :
       calls[h].do = "create" /\ calls[h].push # None /\ Created(r) =>
         requests[r].push # calls[h].push

\* A code or a consent is of an approved request, a code's consent of the
\* same one; and while a code can still be issued, there is none.
GrantsAgree ==
  /\ \A c \in Consents : consents[c] # None =>
       LET r == consents[c].request IN
       /\ r \in Requests /\ Created(r) /\ requests[r].status = "approved"
       /\ consents[c].subject = requests[r].subject
  /\ \A k \in Codes : codes[k] # None =>
       LET r == codes[k].request IN
       /\ r \in Requests /\ Created(r) /\ requests[r].status = "approved"
       /\ consents[codes[k].consent] = [request |-> r, subject |-> codes[k].subject]
  /\ \A j, k \in Codes :
       codes[j] # None /\ codes[k] # None /\ codes[j].request = codes[k].request => j = k
  /\ \A h \in Handlers, k \in Codes :
       calls[h].do \in Granting /\ codes[k] # None => codes[k].request # calls[h].request

IInv ==
  TypeOK /\ CallsAgree /\ Alone /\ RequestsAgree /\ PushOnce /\ GrantsAgree

-----------------------------------------------------------------------------
(* Shapes of the values that occur.                                        *)

\* Neither the placeholder of an unidentified customer nor None is a subject.
LEMMA Nobodies ==
  None # Placeholder /\ None \notin Subjects /\ Placeholder \notin Subjects
  BY AuthorizationAssumption

\* A consent that is read is not taken for a missing one.
LEMMA RowOrNone ==
  \A r \in Requests, u \in Subjects \cup {Placeholder, None} :
    [request |-> r, subject |-> u] # None
  BY AuthorizationAssumption DEF ConsentRecords

\* A handler at rest is a call at rest.
LEMMA IdleType == Idle \in Calls /\ Idle.do = "idle"
  BY DEF Idle, Calls, Steps

\* A row that exists is a record of its table.
LEMMA RowShape ==
  /\ \A p \in Pushes : TypeOK /\ pushed[p] # None => pushed[p] \in PushRecords
  /\ \A r \in Requests : TypeOK /\ Created(r) => requests[r] \in RequestRecords
  BY DEF TypeOK, Created

-----------------------------------------------------------------------------
(* The invariant is kept.                                                  *)

\* A call that stands for no work that is under way.
Fresh(call) ==
  /\ call.do \in {"idle", "push", "consume", "create", "claim", "decide"}
  /\ call.do \in {"push", "consume", "create"} => call.service \in Services
  /\ call.do = "consume" => call.push \in Pushes /\ pushed[call.push] # None
  /\ call.do = "create" => call.push = None
  /\ call.do \in {"claim", "decide"} => call.request \in Requests /\ Created(call.request)
  /\ call.do = "decide" => requests[call.request].subject \in Subjects

\* A step that changes calls alone, each to a fresh one, preserves the invariant.
LEMMA CallsOnly ==
  ASSUME IInv, UNCHANGED <<tables, shown, identified>>,
         calls' \in [Handlers -> Calls], faults' \in 0 .. MaxFaults,
         \A h \in Handlers : calls'[h] = calls[h] \/ Fresh(calls'[h])
  PROVE  IInv'
<1>1. TypeOK'
  BY DEF IInv, TypeOK, tables
<1>2. CallsAgree'
  BY DEF IInv, CallsAgree, CallAgrees, Fresh, Spent, Created, Naming, Granting, tables
<1>3. Alone'
  BY DEF IInv, Alone, Fresh, Naming, Granting
<1>4. RequestsAgree'
  BY DEF IInv, RequestsAgree, RequestAgrees, Spent, Created, tables
<1>5. PushOnce'
  BY DEF IInv, PushOnce, Fresh, Created, tables
<1>6. GrantsAgree'
  BY DEF IInv, GrantsAgree, Fresh, Created, Granting, tables
<1> QED
  BY <1>1, <1>2, <1>3, <1>4, <1>5, <1>6 DEF IInv

\* A handler's call is replaced, the others' are not.
LEMMA CallChange ==
  ASSUME calls \in [Handlers -> Calls], NEW h \in Handlers, NEW c \in Calls, Wait(h, c)
  PROVE  /\ calls' \in [Handlers -> Calls]
         /\ calls'[h] = c
         /\ \A g \in Handlers : g # h => calls'[g] = calls[g]
  BY DEF Wait

\* So does a handler that returns without writing.
LEMMA Returns ==
  ASSUME IInv, NEW h \in Handlers, Return(h), UNCHANGED <<tables, shown, identified, faults>>
  PROVE  IInv'
<1>1. /\ calls' \in [Handlers -> Calls]
      /\ \A g \in Handlers : calls'[g] = calls[g] \/ calls'[g] = Idle
  BY CallChange, IdleType DEF Return, IInv, TypeOK
<1> QED
  BY <1>1, CallsOnly, IdleType DEF Fresh, IInv, TypeOK

\* An update of the row of a request that is not approved.  A handler moves on
\* with it, unless the handlers that wait for the provider are not concerned.
LEMMA RowUpdate ==
  ASSUME IInv, NEW r \in Requests, Created(r), requests[r].status # "approved",
         requests' \in [Requests -> RequestRecords \cup {None}],
         \A q \in Requests : q # r => requests'[q] = requests[q],
         requests'[r] # None,
         requests'[r].push = requests[r].push, requests'[r].service = requests[r].service,
         requests[r].subject \in Subjects => requests'[r].subject \in Subjects,
         RequestAgrees(r)',
         UNCHANGED <<pushed, consents, codes, shown, identified, faults>>,
         calls' \in [Handlers -> Calls],
         NEW h,
         \A g \in Handlers : g # h => calls'[g] = calls[g],
         \/ calls' = calls /\ requests'[r].subject = requests[r].subject
         \/ /\ h \in Handlers /\ CallAgrees(h)' /\ calls'[h].do # "create"
            /\ calls'[h].do = "idle" \/ calls'[h].request = r
            /\ \A g \in Handlers :
                 g # h /\ calls[g].do \in Naming => calls[g].request # r
  PROVE  IInv'
<1>1. TypeOK'
  BY DEF IInv, TypeOK
<1>2. \A g \in Handlers : calls[g].do \in Granting => calls[g].request # r
  <2> SUFFICES ASSUME NEW g \in Handlers, calls[g].do \in Granting
               PROVE  calls[g].request # r
    OBVIOUS
  <2>1. CallAgrees(g)
    BY DEF IInv, CallsAgree
  <2> QED
    BY <2>1 DEF CallAgrees
<1>3. CallsAgree'
  <2> SUFFICES ASSUME NEW g \in Handlers, calls'[g] = calls[g]
               PROVE  CallAgrees(g)'
    BY DEF CallsAgree
  <2>1. CallAgrees(g)
    BY DEF IInv, CallsAgree
  <2>2. CASE calls[g].request # r
    BY <2>1, <2>2 DEF CallAgrees, Created, Spent, Naming, Granting
  <2>3. CASE calls[g].request = r
    BY <1>2, <2>1, <2>3 DEF CallAgrees, Created, Spent, Naming
  <2> QED
    BY <2>2, <2>3
<1>4. Alone'
  BY <1>2 DEF IInv, Alone, Naming, Granting
<1>5. RequestsAgree'
  BY DEF IInv, RequestsAgree, RequestAgrees, Created, Spent
<1>6. PushOnce'
  BY DEF IInv, PushOnce, Created
<1>7. \A k \in Codes : codes[k] # None => codes[k].request # r
  <2> SUFFICES ASSUME NEW k \in Codes, codes[k] # None
               PROVE  codes[k].request # r
    OBVIOUS
  <2>1. requests[codes[k].request].status = "approved"
    BY DEF IInv, GrantsAgree
  <2> QED
    BY <2>1
<1>8. GrantsAgree'
  BY <1>7 DEF IInv, GrantsAgree, Created, Granting
<1> QED
  BY <1>1, <1>3, <1>4, <1>5, <1>6, <1>8 DEF IInv

\* The state is claimed once: nobody else waits for the provider.
LEMMA ClaimStateKeeps ==
  ASSUME IInv, NEW h \in Handlers, ClaimState(h)
  PROVE  IInv'
<1>1. calls[h] \in Calls /\ calls[h].do = "claim" /\ CallAgrees(h)
  BY DEF IInv, TypeOK, CallsAgree, ClaimState, Resumes
<1>2. PICK r \in Requests : r = calls[h].request
  BY <1>1 DEF CallAgrees
<1>3. Created(r) /\ requests[r] \in RequestRecords
  BY <1>1, <1>2, RowShape DEF IInv, CallAgrees
<1>4. CASE Open(r, "pending_identity")
  <2>1. PICK c : c = [calls[h] EXCEPT !.do = "identity"]
    OBVIOUS
  <2>2. requests' = [requests EXCEPT ![r].status = "pending_consent",
                                      ![r].subject = Placeholder]
    BY <1>2, <1>4 DEF ClaimState
  <2>3. Wait(h, c) /\ UNCHANGED <<pushed, consents, codes, shown, identified, faults>>
    BY <1>2, <1>4, <2>1 DEF ClaimState, Resumes
  <2>4. c \in Calls /\ c.do = "identity" /\ c.request = r
    BY <1>1, <1>2, <2>1 DEF Calls, Steps
  <2>5. /\ calls' \in [Handlers -> Calls] /\ calls'[h] = c
        /\ \A g \in Handlers : g # h => calls'[g] = calls[g]
    BY <2>3, <2>4, CallChange DEF IInv, TypeOK
  <2>6. requests'[r] = [requests[r] EXCEPT !.status = "pending_consent", !.subject = Placeholder]
    BY <2>2 DEF IInv, TypeOK
  <2>7. /\ requests'[r] \in RequestRecords /\ requests'[r] # None
        /\ requests'[r].status = "pending_consent" /\ requests'[r].subject = Placeholder
        /\ requests'[r].push = requests[r].push /\ requests'[r].service = requests[r].service
    BY <1>3, <2>6, AuthorizationAssumption DEF RequestRecords
  <2>8. /\ requests' \in [Requests -> RequestRecords \cup {None}]
        /\ \A q \in Requests : q # r => requests'[q] = requests[q]
    BY <2>7, <2>2 DEF IInv, TypeOK
  <2>9. RequestAgrees(r) /\ requests[r].status = "pending_identity" /\ requests[r].subject = None
        /\ requests[r].subject \notin Subjects /\ requests[r].status # "approved"
    BY Nobodies, <1>3, <1>4 DEF IInv, RequestsAgree, RequestAgrees, Open
  <2>10. RequestAgrees(r)'
    BY <2>3, <2>7, <2>9, Nobodies DEF RequestAgrees, Spent
  <2>11. CallAgrees(h)' /\ calls'[h].do # "create" /\ calls'[h].request = r
    BY <2>4, <2>5, <2>7 DEF CallAgrees, Created, Naming, Granting
  <2>12. \A g \in Handlers : g # h /\ calls[g].do \in Naming => calls[g].request # r
    BY <2>9, Nobodies DEF IInv, CallsAgree, CallAgrees
  <2> QED
    BY <1>3, <2>3, <2>5, <2>7, <2>8, <2>9, <2>10, <2>11, <2>12, RowUpdate
<1>5. CASE ~Open(r, "pending_identity")
  BY <1>2, <1>5, Returns DEF ClaimState, Resumes, tables
<1> QED
  BY <1>4, <1>5

\* The user's name takes the place of nobody's: by now nobody else waits for
\* the provider.
LEMMA ReplaceSubjectKeeps ==
  ASSUME IInv, NEW h \in Handlers, ReplaceSubject(h)
  PROVE  IInv'
<1>1. calls[h] \in Calls /\ calls[h].do = "replace" /\ CallAgrees(h)
  BY DEF IInv, TypeOK, CallsAgree, ReplaceSubject, Resumes
<1>2. PICK r \in Requests : r = calls[h].request
  BY <1>1 DEF CallAgrees
<1>3. /\ Created(r) /\ requests[r] \in RequestRecords /\ requests[r].subject = Placeholder
      /\ calls[h].subject \in Subjects /\ calls[h].subject = identified[r]
  BY <1>1, <1>2, RowShape DEF IInv, CallAgrees, Naming
<1>4. CASE Open(r, "pending_consent")
  <2>1. PICK c : c = [calls[h] EXCEPT !.do = "page"]
    OBVIOUS
  <2>2. /\ requests' = [requests EXCEPT ![r].subject = calls[h].subject]
        /\ Wait(h, c)
        /\ UNCHANGED <<pushed, consents, codes, shown, identified, faults>>
    BY <1>2, <1>4, <2>1 DEF ReplaceSubject, Resumes
  <2>3. c \in Calls /\ c.do = "page" /\ c.request = r
    BY <1>1, <1>2, <2>1 DEF Calls, Steps
  <2>4. /\ calls' \in [Handlers -> Calls] /\ calls'[h] = c
        /\ \A g \in Handlers : g # h => calls'[g] = calls[g]
    BY <2>2, <2>3, CallChange DEF IInv, TypeOK
  <2>5. requests'[r] = [requests[r] EXCEPT !.subject = calls[h].subject]
    BY <2>2 DEF IInv, TypeOK
  <2>6. /\ requests'[r] \in RequestRecords /\ requests'[r] # None
        /\ requests'[r].status = requests[r].status
        /\ requests'[r].subject \in Subjects /\ requests'[r].subject = identified[r]
        /\ requests'[r].push = requests[r].push /\ requests'[r].service = requests[r].service
    BY <1>3, <2>5, AuthorizationAssumption DEF RequestRecords
  <2>7. /\ requests' \in [Requests -> RequestRecords \cup {None}]
        /\ \A q \in Requests : q # r => requests'[q] = requests[q]
    BY <2>2, <2>6 DEF IInv, TypeOK
  <2>8. RequestAgrees(r) /\ requests[r].status = "pending_consent"
    BY <1>3, <1>4 DEF IInv, RequestsAgree, Open
  <2>9. RequestAgrees(r)'
    BY <2>2, <2>6, <2>8, Nobodies DEF RequestAgrees, Spent
  <2>10. CallAgrees(h)' /\ calls'[h].do # "create" /\ calls'[h].request = r
    BY <2>3, <2>4, <2>6 DEF CallAgrees, Created, Naming, Granting
  <2>11. \A g \in Handlers : g # h /\ calls[g].do \in Naming => calls[g].request # r
    BY <1>1, <1>2 DEF IInv, Alone, Naming
  <2> QED
    BY <1>3, <2>2, <2>4, <2>6, <2>7, <2>8, <2>9, <2>10, <2>11, RowUpdate
<1>5. CASE ~Open(r, "pending_consent")
  BY <1>2, <1>5, Returns DEF ReplaceSubject, Resumes, tables
<1> QED
  BY <1>4, <1>5

\* One decision is recorded, with the user named: nobody waits for the provider.
LEMMA RecordDecisionKeeps ==
  ASSUME IInv, NEW h \in Handlers, RecordDecision(h)
  PROVE  IInv'
<1>1. calls[h] \in Calls /\ calls[h].do = "decide" /\ CallAgrees(h)
  BY DEF IInv, TypeOK, CallsAgree, RecordDecision, Resumes
<1>2. PICK r \in Requests : r = calls[h].request
  BY <1>1 DEF CallAgrees
<1>3. Created(r) /\ requests[r] \in RequestRecords /\ requests[r].subject \in Subjects
  BY <1>1, <1>2, RowShape DEF IInv, CallAgrees
<1>4. CASE Open(r, "pending_consent")
  <2>1. PICK c : c = IF calls[h].decision = "approved"
                     THEN [calls[h] EXCEPT !.do = "consent", !.subject = requests[r].subject]
                     ELSE Idle
    OBVIOUS
  <2>2. /\ requests' = [requests EXCEPT ![r].status = calls[h].decision]
        /\ Wait(h, c)
        /\ UNCHANGED <<pushed, consents, codes, shown, identified, faults>>
    BY <1>2, <1>4, <2>1 DEF RecordDecision, Resumes, Return
  <2>3. /\ c \in Calls
        /\ \/ c.do = "idle"
           \/ /\ c.do = "consent" /\ c.request = r /\ calls[h].decision = "approved"
              /\ c.subject = requests[r].subject
    <3>1. CASE calls[h].decision = "approved"
      BY <1>1, <1>2, <1>3, <2>1, <3>1 DEF Calls, Steps
    <3>2. CASE calls[h].decision # "approved"
      BY <2>1, <3>2, IdleType
    <3> QED
      BY <3>1, <3>2
  <2>4. /\ calls' \in [Handlers -> Calls] /\ calls'[h] = c
        /\ \A g \in Handlers : g # h => calls'[g] = calls[g]
    BY <2>2, <2>3, CallChange DEF IInv, TypeOK
  <2>5. requests'[r] = [requests[r] EXCEPT !.status = calls[h].decision]
    BY <2>2 DEF IInv, TypeOK
  <2>6. /\ requests'[r] \in RequestRecords /\ requests'[r] # None
        /\ requests'[r].status = calls[h].decision
        /\ requests'[r].status \in {"approved", "denied"}
        /\ requests'[r].subject = requests[r].subject
        /\ requests'[r].push = requests[r].push /\ requests'[r].service = requests[r].service
    BY <1>1, <1>3, <2>5, AuthorizationAssumption DEF RequestRecords, Calls
  <2>7. /\ requests' \in [Requests -> RequestRecords \cup {None}]
        /\ \A q \in Requests : q # r => requests'[q] = requests[q]
    BY <2>2, <2>6 DEF IInv, TypeOK
  <2>8. RequestAgrees(r) /\ requests[r].status = "pending_consent"
    BY <1>3, <1>4 DEF IInv, RequestsAgree, Open
  <2>9. RequestAgrees(r)'
    BY <1>3, <2>2, <2>6, <2>8, Nobodies DEF RequestAgrees, Spent
  <2>10. /\ CallAgrees(h)' /\ calls'[h].do # "create"
         /\ calls'[h].do = "idle" \/ calls'[h].request = r
    BY <2>3, <2>4, <2>6 DEF CallAgrees, Created, Naming, Granting
  <2>11. \A g \in Handlers : g # h /\ calls[g].do \in Naming => calls[g].request # r
    <3> SUFFICES ASSUME NEW g \in Handlers, calls[g].do \in Naming
                 PROVE  calls[g].request # r
      OBVIOUS
    <3>1. CallAgrees(g)
      BY DEF IInv, CallsAgree
    <3> QED
      BY <1>3, <3>1, Nobodies DEF CallAgrees
  <2> QED
    BY <1>3, <2>2, <2>4, <2>6, <2>7, <2>8, <2>9, <2>10, <2>11, RowUpdate
<1>5. CASE ~Open(r, "pending_consent")
  BY <1>2, <1>5, Returns DEF RecordDecision, Resumes, tables
<1> QED
  BY <1>4, <1>5

\* RequestExpires preserves the invariant.
LEMMA RequestExpiresKeeps ==
  ASSUME IInv, NEW r \in Requests, RequestExpires(r)
  PROVE  IInv'
<1>1. Created(r) /\ requests[r] \in RequestRecords /\ requests[r].status # "approved"
  BY RowShape DEF IInv, RequestExpires, Created
<1>2. requests'[r] = [requests[r] EXCEPT !.due = TRUE]
  BY DEF RequestExpires, IInv, TypeOK
<1>3. /\ requests'[r] \in RequestRecords /\ requests'[r] # None
      /\ requests'[r].status = requests[r].status
      /\ requests'[r].subject = requests[r].subject
      /\ requests'[r].push = requests[r].push /\ requests'[r].service = requests[r].service
  BY <1>1, <1>2, AuthorizationAssumption DEF RequestRecords
<1>4. /\ requests' \in [Requests -> RequestRecords \cup {None}]
      /\ \A q \in Requests : q # r => requests'[q] = requests[q]
  BY <1>3 DEF RequestExpires, IInv, TypeOK
<1>5. UNCHANGED <<pushed, consents, codes, calls, shown, identified, faults>>
  BY DEF RequestExpires
<1>6. RequestAgrees(r)'
  BY <1>1, <1>3, <1>5 DEF IInv, RequestsAgree, RequestAgrees, Spent
<1>7. calls' \in [Handlers -> Calls] /\ \A g \in Handlers : calls'[g] = calls[g]
  BY <1>5 DEF IInv, TypeOK
<1> QED
  BY <1>1, <1>3, <1>4, <1>5, <1>6, <1>7, RowUpdate

\* A change of the table of pushed requests that keeps what was spent.
LEMMA PushUpdate ==
  ASSUME IInv, pushed' \in [Pushes -> PushRecords \cup {None}],
         \A p \in Pushes : pushed[p] # None => pushed'[p] # None,
         \A p \in Pushes, s \in Services :
           Spent(p, s) => pushed'[p] # None /\ pushed'[p].consumed /\ pushed'[p].service = s,
         UNCHANGED <<requests, consents, codes, shown, identified, faults>>
  PROVE  /\ calls' \in [Handlers -> Calls] => TypeOK'
         /\ RequestsAgree'
         /\ \A g \in Handlers : calls'[g] = calls[g] => CallAgrees(g)'
<1>1. calls' \in [Handlers -> Calls] => TypeOK'
  BY DEF IInv, TypeOK
<1>2. \A p \in Pushes, s \in Services : Spent(p, s) => Spent(p, s)'
  BY DEF Spent, IInv, TypeOK
<1>3. RequestsAgree'
  <2> SUFFICES ASSUME NEW r \in Requests, Created(r) PROVE RequestAgrees(r)'
    BY DEF RequestsAgree, Created
  <2>1. requests[r] \in RequestRecords /\ RequestAgrees(r)
    BY RowShape DEF IInv, RequestsAgree
  <2>2. requests[r].push # None => requests[r].push \in Pushes /\ requests[r].service \in Services
    BY <2>1 DEF RequestRecords
  <2> QED
    BY <1>2, <2>1, <2>2 DEF RequestAgrees
<1>4. ASSUME NEW g \in Handlers, calls'[g] = calls[g]
      PROVE  CallAgrees(g)'
  <2>1. calls[g] \in Calls /\ CallAgrees(g)
    BY DEF IInv, TypeOK, CallsAgree
  <2>2. calls[g].do = "create" /\ calls[g].push # None =>
          calls[g].push \in Pushes /\ calls[g].service \in Services
    BY <2>1 DEF Calls, CallAgrees
  <2> QED
    BY <1>2, <1>4, <2>1, <2>2 DEF CallAgrees, Created
<1> QED
  BY <1>1, <1>3, <1>4

\* StorePush preserves the invariant.
LEMMA StorePushKeeps ==
  ASSUME IInv, NEW h \in Handlers, NEW p \in Pushes, StorePush(h, p)
  PROVE  IInv'
<1>1. calls[h].do = "push" /\ calls[h].service \in Services /\ pushed[p] = None
  BY DEF IInv, CallsAgree, CallAgrees, StorePush, Resumes, IsNew
<1>2. /\ calls' \in [Handlers -> Calls] /\ calls'[h] = Idle
      /\ \A g \in Handlers : g # h => calls'[g] = calls[g]
      /\ UNCHANGED <<requests, consents, codes, shown, identified, faults>>
  BY CallChange, IdleType DEF IInv, TypeOK, StorePush, Return, Resumes
<1>3. /\ pushed' \in [Pushes -> PushRecords \cup {None}]
      /\ \A q \in Pushes : pushed[q] # None => pushed'[q] = pushed[q]
  BY <1>1 DEF IInv, TypeOK, StorePush, PushRecords
<1>4. /\ TypeOK' /\ RequestsAgree'
      /\ \A g \in Handlers : g # h => CallAgrees(g)'
  <2>1. \A q \in Pushes, s \in Services : Spent(q, s) =>
          pushed'[q] # None /\ pushed'[q].consumed /\ pushed'[q].service = s
    BY <1>3 DEF Spent
  <2> QED
    BY <1>2, <1>3, <2>1, PushUpdate
<1>5. CallsAgree'
  BY <1>2, <1>4, IdleType DEF CallsAgree, CallAgrees, Naming, Granting
<1>6. Alone'
  BY <1>2, IdleType DEF IInv, Alone, Naming, Granting
<1>7. PushOnce'
  BY <1>2, IdleType DEF IInv, PushOnce, Created
<1>8. GrantsAgree'
  BY <1>2, IdleType DEF IInv, GrantsAgree, Created, Granting
<1> QED
  BY <1>4, <1>5, <1>6, <1>7, <1>8 DEF IInv

\* A push is consumed once: nobody else creates, or has created, a request of it.
LEMMA ConsumePushKeeps ==
  ASSUME IInv, NEW h \in Handlers, ConsumePush(h)
  PROVE  IInv'
<1>1. calls[h] \in Calls /\ calls[h].do = "consume" /\ CallAgrees(h)
  BY DEF IInv, TypeOK, CallsAgree, ConsumePush, Resumes
<1>2. PICK p \in Pushes : p = calls[h].push
  BY <1>1 DEF CallAgrees
<1>3. pushed[p] \in PushRecords /\ calls[h].service \in Services
  BY <1>1, <1>2, RowShape DEF IInv, CallAgrees
<1>4. CASE ~pushed[p].consumed /\ ~pushed[p].due /\ pushed[p].service = calls[h].service
  <2>1. PICK c \in {Idle, [calls[h] EXCEPT !.do = "create"]} : Wait(h, c)
    BY <1>2, <1>4 DEF ConsumePush, Return
  <2>2. /\ c \in Calls
        /\ \/ c = Idle
           \/ c.do = "create" /\ c.push = p /\ c.service = calls[h].service
    BY <1>1, <1>2, <2>1, IdleType DEF Calls, Steps
  <2>3. /\ calls' \in [Handlers -> Calls] /\ calls'[h] = c
        /\ \A g \in Handlers : g # h => calls'[g] = calls[g]
        /\ pushed' = [pushed EXCEPT ![p].consumed = TRUE]
        /\ UNCHANGED <<requests, consents, codes, shown, identified, faults>>
    BY <1>2, <1>4, <2>1, <2>2, CallChange DEF IInv, TypeOK, ConsumePush, Resumes
  <2>4. /\ pushed'[p] \in PushRecords /\ pushed'[p].consumed
        /\ pushed'[p].service = calls[h].service /\ pushed'[p] # None
    <3>1. pushed'[p] = [pushed[p] EXCEPT !.consumed = TRUE]
      BY <2>3 DEF IInv, TypeOK
    <3> QED
      BY <1>3, <1>4, <3>1, AuthorizationAssumption DEF PushRecords
  <2>5. /\ pushed' \in [Pushes -> PushRecords \cup {None}]
        /\ \A q \in Pushes : q # p => pushed'[q] = pushed[q]
    BY <2>3, <2>4 DEF IInv, TypeOK
  <2>6. /\ TypeOK' /\ RequestsAgree'
        /\ \A g \in Handlers : g # h => CallAgrees(g)'
    <3>1. /\ \A q \in Pushes, s \in Services : Spent(q, s) =>
               pushed'[q] # None /\ pushed'[q].consumed /\ pushed'[q].service = s
          /\ \A q \in Pushes : pushed[q] # None => pushed'[q] # None
      BY <1>4, <2>4, <2>5 DEF Spent
    <3> QED
      BY <2>3, <2>5, <3>1, PushUpdate
  <2>7. \A g \in Handlers : calls[g].do = "create" => calls[g].push # p
    <3> SUFFICES ASSUME NEW g \in Handlers, calls[g].do = "create", calls[g].push = p
                 PROVE  FALSE
      OBVIOUS
    <3>1. CallAgrees(g) /\ p # None
      BY AuthorizationAssumption DEF IInv, CallsAgree
    <3> QED
      BY <1>4, <3>1 DEF CallAgrees, Spent
  <2>8. \A r \in Requests : Created(r) => requests[r].push # p
    <3> SUFFICES ASSUME NEW r \in Requests, Created(r), requests[r].push = p
                 PROVE  FALSE
      OBVIOUS
    <3>1. RequestAgrees(r) /\ p # None
      BY AuthorizationAssumption DEF IInv, RequestsAgree
    <3> QED
      BY <1>4, <3>1 DEF RequestAgrees, Spent
  <2>9. CallAgrees(h)'
    BY <1>3, <2>2, <2>3, <2>4, IdleType DEF CallAgrees, Spent, Naming, Granting
  <2>10. CallsAgree'
    BY <2>6, <2>9 DEF CallsAgree
  <2>11. Alone'
    BY <2>2, <2>3, <2>7, IdleType DEF IInv, Alone, Naming, Granting
  <2>12. PushOnce'
    BY <2>2, <2>3, <2>8, IdleType DEF IInv, PushOnce, Created
  <2>13. GrantsAgree'
    BY <2>2, <2>3, IdleType DEF IInv, GrantsAgree, Created, Granting
  <2> QED
    BY <2>6, <2>10, <2>11, <2>12, <2>13 DEF IInv
<1>5. CASE ~(~pushed[p].consumed /\ ~pushed[p].due /\ pushed[p].service = calls[h].service)
  BY <1>2, <1>5, Returns DEF ConsumePush, Resumes, tables
<1> QED
  BY <1>4, <1>5

\* PushExpires preserves the invariant.
LEMMA PushExpiresKeeps ==
  ASSUME IInv, NEW p \in Pushes, PushExpires(p)
  PROVE  IInv'
<1>1. pushed[p] \in PushRecords /\ ~pushed[p].consumed
  BY RowShape DEF IInv, PushExpires
<1>2. pushed'[p] = [pushed[p] EXCEPT !.due = TRUE]
  BY DEF PushExpires, IInv, TypeOK
<1>3. pushed'[p] \in PushRecords /\ pushed'[p] # None
  BY <1>1, <1>2, AuthorizationAssumption DEF PushRecords
<1>4. /\ pushed' \in [Pushes -> PushRecords \cup {None}]
      /\ \A q \in Pushes : q # p => pushed'[q] = pushed[q]
      /\ UNCHANGED <<requests, consents, codes, calls, shown, identified, faults>>
  BY <1>3 DEF PushExpires, IInv, TypeOK
<1>5. \A q \in Pushes, s \in Services : Spent(q, s) =>
        pushed'[q] # None /\ pushed'[q].consumed /\ pushed'[q].service = s
  BY <1>1, <1>4 DEF Spent
<1>6. TypeOK' /\ RequestsAgree' /\ CallsAgree'
  <2>1. \A q \in Pushes : pushed[q] # None => pushed'[q] # None
    BY <1>3, <1>4
  <2>2. calls' \in [Handlers -> Calls] /\ \A g \in Handlers : calls'[g] = calls[g]
    BY <1>4 DEF IInv, TypeOK
  <2>3. TypeOK' /\ RequestsAgree' /\ \A g \in Handlers : CallAgrees(g)'
    BY <1>4, <1>5, <2>1, <2>2, PushUpdate
  <2> QED
    BY <2>3 DEF CallsAgree
<1>7. Alone' /\ PushOnce' /\ GrantsAgree'
  BY <1>4 DEF IInv, Alone, PushOnce, GrantsAgree, Created
<1> QED
  BY <1>6, <1>7 DEF IInv

\* CreateRequest preserves the invariant.
LEMMA CreateRequestKeeps ==
  ASSUME IInv, NEW h \in Handlers, NEW r \in Requests, CreateRequest(h, r)
  PROVE  IInv'
<1>1. /\ calls[h] \in Calls /\ calls[h].do = "create" /\ CallAgrees(h)
      /\ calls[h].service \in Services /\ ~Created(r)
  BY DEF IInv, TypeOK, CallsAgree, CallAgrees, CreateRequest, Resumes, IsNew, Created
<1>2. PICK new : new = [service |-> calls[h].service, push |-> calls[h].push,
                        status |-> "pending_identity", subject |-> None, due |-> FALSE]
  OBVIOUS
<1>3. /\ new \in RequestRecords /\ new # None
      /\ new.push = calls[h].push /\ new.service = calls[h].service
      /\ new.status = "pending_identity" /\ new.subject = None
  <2>1. new \in RequestRecords
    BY <1>1, <1>2 DEF RequestRecords, Calls
  <2> QED
    BY <1>2, <2>1, AuthorizationAssumption
<1>4. /\ calls' \in [Handlers -> Calls] /\ calls'[h] = Idle
      /\ \A g \in Handlers : g # h => calls'[g] = calls[g]
      /\ UNCHANGED <<pushed, consents, codes, shown, identified, faults>>
  BY CallChange, IdleType DEF IInv, TypeOK, CreateRequest, Return, Resumes
<1>5. /\ requests' \in [Requests -> RequestRecords \cup {None}] /\ requests'[r] = new
      /\ \A q \in Requests : q # r => requests'[q] = requests[q]
  BY <1>2, <1>3 DEF IInv, TypeOK, CreateRequest
<1>6. TypeOK'
  BY <1>3, <1>4, <1>5 DEF IInv, TypeOK
<1>7. CallsAgree'
  <2> SUFFICES ASSUME NEW g \in Handlers, g # h PROVE CallAgrees(g)'
    BY <1>4, IdleType DEF CallsAgree, CallAgrees, Naming, Granting
  <2>1. CallAgrees(g) /\ calls'[g] = calls[g]
    BY <1>4 DEF IInv, CallsAgree
  <2> QED
    BY <1>1, <1>4, <1>5, <2>1 DEF CallAgrees, Created, Spent, Naming, Granting
<1>8. Alone'
  BY <1>4, IdleType DEF IInv, Alone, Naming, Granting
<1>9. RequestsAgree'
  <2> SUFFICES ASSUME NEW q \in Requests, Created(q)' PROVE RequestAgrees(q)'
    BY DEF RequestsAgree
  <2>1. CASE q = r
    <3>1. r \notin shown
      BY <1>1 DEF IInv, TypeOK, Created
    <3> QED
      BY <1>1, <1>3, <1>4, <1>5, <2>1, <3>1, Nobodies DEF RequestAgrees, CallAgrees, Spent
  <2>2. CASE q # r
    BY <1>4, <1>5, <2>2 DEF IInv, RequestsAgree, RequestAgrees, Created, Spent
  <2> QED
    BY <2>1, <2>2
<1>10. PushOnce'
  <2>1. ASSUME NEW q \in Requests, Created(q), calls[h].push # None
        PROVE  requests[q].push # calls[h].push
    BY <1>1, <2>1 DEF IInv, PushOnce
  <2>2. ASSUME NEW g \in Handlers, g # h, calls[g].do = "create", calls[g].push # None
        PROVE  calls[g].push # calls[h].push
    BY <1>1, <2>2 DEF IInv, Alone
  <2> QED
    BY <1>1, <1>3, <1>4, <1>5, <2>1, <2>2, IdleType DEF IInv, PushOnce, Created
<1>11. GrantsAgree'
  BY <1>1, <1>4, <1>5, IdleType DEF IInv, GrantsAgree, Created, Granting
<1> QED
  BY <1>6, <1>7, <1>8, <1>9, <1>10, <1>11 DEF IInv

\* The provider is asked while the request has no user: nothing was granted for
\* it, and its page was not shown.
LEMMA ProviderIdentifiesKeeps ==
  ASSUME IInv, NEW h \in Handlers, NEW u \in Subjects, ProviderIdentifies(h, u)
  PROVE  IInv'
<1>1. calls[h] \in Calls /\ calls[h].do = "identity" /\ CallAgrees(h)
  BY DEF IInv, TypeOK, CallsAgree, ProviderIdentifies, Resumes
<1>2. PICK r \in Requests : r = calls[h].request
  BY <1>1 DEF CallAgrees
<1>3. Created(r) /\ requests[r].subject = Placeholder /\ RequestAgrees(r)
  BY <1>1, <1>2 DEF IInv, CallAgrees, RequestsAgree, Naming
<1>4. PICK c : c = [calls[h] EXCEPT !.do = "replace", !.subject = u]
  OBVIOUS
<1>5. c \in Calls /\ c.do = "replace" /\ c.request = r /\ c.subject = u
  BY <1>1, <1>2, <1>4 DEF Calls, Steps
<1>6. Wait(h, c) /\ UNCHANGED <<tables, shown, faults>>
  BY <1>4 DEF ProviderIdentifies, Resumes
<1>7. /\ calls' \in [Handlers -> Calls] /\ calls'[h] = c
      /\ \A g \in Handlers : g # h => calls'[g] = calls[g]
      /\ UNCHANGED <<pushed, requests, consents, codes, shown, faults>>
  BY <1>5, <1>6, CallChange DEF IInv, TypeOK, tables
<1>8. /\ identified' \in [Requests -> Subjects \cup {None}] /\ identified'[r] = u
      /\ \A q \in Requests : q # r => identified'[q] = identified[q]
  BY <1>2 DEF IInv, TypeOK, ProviderIdentifies
<1>9. TypeOK'
  BY <1>7, <1>8 DEF IInv, TypeOK
<1>10. CallsAgree'
  <2> SUFFICES ASSUME NEW g \in Handlers PROVE CallAgrees(g)'
    BY DEF CallsAgree
  <2>1. CASE g = h
    BY <1>3, <1>5, <1>7, <1>8, <2>1 DEF CallAgrees, Created, Naming, Granting
  <2>2. CASE g # h
    <3>1. CallAgrees(g) /\ calls'[g] = calls[g]
      BY <1>7, <2>2 DEF IInv, CallsAgree
    <3>2. calls[g].do = "replace" => calls[g].request # r
      BY <1>1, <1>2, <2>2 DEF IInv, Alone, Naming
    <3> QED
      BY <1>7, <1>8, <3>1, <3>2 DEF CallAgrees, Created, Spent, Naming, Granting
  <2> QED
    BY <2>1, <2>2
<1>11. Alone'
  BY <1>1, <1>2, <1>5, <1>7 DEF IInv, Alone, Naming, Granting
<1>12. RequestsAgree'
  BY <1>3, <1>7, <1>8, Nobodies DEF IInv, RequestsAgree, RequestAgrees, Created, Spent
<1>13. PushOnce'
  BY <1>5, <1>7 DEF IInv, PushOnce, Created
<1>14. GrantsAgree'
  BY <1>5, <1>7 DEF IInv, GrantsAgree, Created, Granting
<1> QED
  BY <1>9, <1>10, <1>11, <1>12, <1>13, <1>14 DEF IInv

\* ShowPage preserves the invariant.
LEMMA ShowPageKeeps ==
  ASSUME IInv, NEW h \in Handlers, ShowPage(h)
  PROVE  IInv'
<1>1. calls[h].do = "page" /\ CallAgrees(h)
  BY DEF IInv, CallsAgree, ShowPage, Resumes
<1>2. PICK r \in Requests : r = calls[h].request
  BY <1>1 DEF CallAgrees
<1>3. Created(r) /\ requests[r].subject \in Subjects
  BY <1>1, <1>2 DEF CallAgrees
<1>4. /\ calls' \in [Handlers -> Calls] /\ calls'[h] = Idle
      /\ \A g \in Handlers : g # h => calls'[g] = calls[g]
      /\ UNCHANGED <<pushed, requests, consents, codes, identified, faults>>
      /\ shown' = shown \cup {r}
  BY <1>2, CallChange, IdleType DEF IInv, TypeOK, ShowPage, Return, Resumes, tables
<1>5. TypeOK'
  BY <1>3, <1>4 DEF IInv, TypeOK, Created
<1>6. CallsAgree'
  BY <1>4, IdleType DEF IInv, CallsAgree, CallAgrees, Created, Spent, Naming, Granting
<1>7. Alone'
  BY <1>4, IdleType DEF IInv, Alone, Naming, Granting
<1>8. RequestsAgree'
  BY <1>3, <1>4 DEF IInv, RequestsAgree, RequestAgrees, Created, Spent
<1>9. PushOnce' /\ GrantsAgree'
  BY <1>4, IdleType DEF IInv, PushOnce, GrantsAgree, Created, Granting
<1> QED
  BY <1>5, <1>6, <1>7, <1>8, <1>9 DEF IInv

\* The handler that grants a request is the only one, and the consent is new.
LEMMA CreateConsentKeeps ==
  ASSUME IInv, NEW h \in Handlers, NEW d \in Consents, CreateConsent(h, d)
  PROVE  IInv'
<1>1. /\ calls[h] \in Calls /\ calls[h].do = "consent" /\ CallAgrees(h)
      /\ consents[d] = None
  BY DEF IInv, TypeOK, CallsAgree, CreateConsent, Resumes, IsNew
<1>2. PICK r \in Requests : r = calls[h].request
  BY <1>1 DEF CallAgrees
<1>3. /\ Created(r) /\ requests[r].status = "approved"
      /\ calls[h].subject = requests[r].subject
  BY <1>1, <1>2 DEF CallAgrees, Granting
<1>4. PICK c : c = [calls[h] EXCEPT !.do = "code", !.consent = d]
  OBVIOUS
<1>5. /\ c \in Calls /\ c.do = "code" /\ c.request = r
      /\ c.subject = calls[h].subject /\ c.consent = d
  BY <1>1, <1>2, <1>4 DEF Calls, Steps
<1>6. Wait(h, c)
  BY <1>4 DEF CreateConsent
<1>7. /\ calls' \in [Handlers -> Calls] /\ calls'[h] = c
      /\ \A g \in Handlers : g # h => calls'[g] = calls[g]
      /\ UNCHANGED <<pushed, requests, codes, shown, identified, faults>>
  BY <1>5, <1>6, CallChange DEF IInv, TypeOK, CreateConsent, Resumes
<1>8. /\ consents' \in [Consents -> ConsentRecords \cup {None}]
      /\ consents'[d] = [request |-> r, subject |-> calls[h].subject]
      /\ \A e \in Consents : e # d => consents'[e] = consents[e]
  BY <1>1, <1>2 DEF IInv, TypeOK, CreateConsent, ConsentRecords, Calls
<1>9. TypeOK'
  BY <1>7, <1>8 DEF IInv, TypeOK
<1>10. CallsAgree'
  <2> SUFFICES ASSUME NEW g \in Handlers PROVE CallAgrees(g)'
    BY DEF CallsAgree
  <2>1. CASE g = h
    BY <1>3, <1>5, <1>7, <1>8, <2>1 DEF CallAgrees, Created, Naming, Granting
  <2>2. CASE g # h
    <3>1. CallAgrees(g) /\ calls'[g] = calls[g]
      BY <1>7, <2>2 DEF IInv, CallsAgree
    <3>2. calls[g].do = "code" => calls[g].consent # d
      <4>1. calls[g] \in Calls
        BY DEF IInv, TypeOK
      <4>2. calls[g].subject \in Subjects \cup {Placeholder, None}
        BY <4>1 DEF Calls
      <4> QED
        BY <1>1, <3>1, <4>2, RowOrNone DEF CallAgrees
    <3> QED
      BY <1>7, <1>8, <3>1, <3>2 DEF CallAgrees, Created, Spent, Naming, Granting
  <2> QED
    BY <2>1, <2>2
<1>11. Alone'
  BY <1>1, <1>2, <1>5, <1>7 DEF IInv, Alone, Naming, Granting
<1>12. RequestsAgree' /\ PushOnce'
  BY <1>5, <1>7 DEF IInv, RequestsAgree, RequestAgrees, PushOnce, Created, Spent
<1>13. GrantsAgree'
  <2>1. \A e \in Consents : consents'[e] # None =>
          /\ consents'[e].request \in Requests /\ Created(consents'[e].request)
          /\ requests[consents'[e].request].status = "approved"
          /\ consents'[e].subject = requests[consents'[e].request].subject
    BY <1>3, <1>8 DEF IInv, GrantsAgree
  <2>2. \A k \in Codes : codes[k] # None =>
          /\ codes[k].consent \in Consents
          /\ consents'[codes[k].consent] = consents[codes[k].consent]
    <3> SUFFICES ASSUME NEW k \in Codes, codes[k] # None
                 PROVE  /\ codes[k].consent \in Consents /\ codes[k].consent # d
      BY <1>8
    <3>1. codes[k] \in CodeRecords
      BY DEF IInv, TypeOK
    <3>2. consents[codes[k].consent]
            = [request |-> codes[k].request, subject |-> codes[k].subject]
      BY DEF IInv, GrantsAgree
    <3> QED
      BY <1>1, <3>1, <3>2, RowOrNone DEF CodeRecords
  <2>3. \A g \in Handlers, k \in Codes :
          calls'[g].do \in Granting /\ codes[k] # None => codes[k].request # calls'[g].request
    BY <1>1, <1>2, <1>5, <1>7 DEF IInv, GrantsAgree, Granting
  <2> QED
    BY <1>7, <2>1, <2>2, <2>3 DEF IInv, GrantsAgree, Created
<1> QED
  BY <1>9, <1>10, <1>11, <1>12, <1>13 DEF IInv

\* The code is the first of its request, and nobody else can issue another.
LEMMA IssueCodeKeeps ==
  ASSUME IInv, NEW h \in Handlers, NEW k \in Codes, IssueCode(h, k)
  PROVE  IInv'
<1>1. calls[h] \in Calls /\ calls[h].do = "code" /\ CallAgrees(h) /\ codes[k] = None
  BY DEF IInv, TypeOK, CallsAgree, IssueCode, Resumes, IsNew
<1>2. PICK r \in Requests : r = calls[h].request
  BY <1>1 DEF CallAgrees
<1>3. /\ Created(r) /\ requests[r].status = "approved"
      /\ calls[h].consent \in Consents
      /\ consents[calls[h].consent] = [request |-> r, subject |-> calls[h].subject]
  BY <1>1, <1>2 DEF CallAgrees, Granting
<1>4. /\ calls' \in [Handlers -> Calls] /\ calls'[h] = Idle
      /\ \A g \in Handlers : g # h => calls'[g] = calls[g]
      /\ UNCHANGED <<pushed, requests, consents, shown, identified, faults>>
  BY CallChange, IdleType DEF IInv, TypeOK, IssueCode, Return, Resumes
<1>5. /\ codes' \in [Codes -> CodeRecords \cup {None}]
      /\ codes'[k] = [request |-> r, subject |-> calls[h].subject, consent |-> calls[h].consent]
      /\ \A j \in Codes : j # k => codes'[j] = codes[j]
  BY <1>1, <1>2, <1>3 DEF IInv, TypeOK, IssueCode, CodeRecords, Calls
<1>6. TypeOK'
  BY <1>4, <1>5 DEF IInv, TypeOK
<1>7. CallsAgree'
  BY <1>4, IdleType DEF IInv, CallsAgree, CallAgrees, Created, Spent, Naming, Granting
<1>8. Alone'
  BY <1>4, IdleType DEF IInv, Alone, Naming, Granting
<1>9. RequestsAgree' /\ PushOnce'
  BY <1>4, IdleType DEF IInv, RequestsAgree, RequestAgrees, PushOnce, Created, Spent
<1>10. GrantsAgree'
  <2>1. \A j \in Codes : codes[j] # None => codes[j].request # r
    BY <1>1, <1>2 DEF IInv, GrantsAgree, Granting
  <2>2. \A g \in Handlers : calls'[g].do \in Granting => calls'[g].request # r
    BY <1>1, <1>2, <1>4, IdleType DEF IInv, Alone, Granting
  <2> QED
    BY <1>3, <1>4, <1>5, <2>1, <2>2, IdleType DEF IInv, GrantsAgree, Created, Granting
<1> QED
  BY <1>6, <1>7, <1>8, <1>9, <1>10 DEF IInv

-----------------------------------------------------------------------------
(* The theorems.                                                           *)

\* No request exists at the start.
LEMMA InitIInv == Init => IInv
<1> SUFFICES ASSUME Init PROVE IInv
  OBVIOUS
<1>1. TypeOK
  BY IdleType, AuthorizationAssumption DEF Init, TypeOK
<1>2. CallsAgree /\ Alone
  BY IdleType DEF Init, CallsAgree, CallAgrees, Alone, Naming, Granting
<1>3. RequestsAgree /\ PushOnce /\ GrantsAgree
  BY IdleType DEF Init, RequestsAgree, PushOnce, GrantsAgree, Created, Granting
<1> QED
  BY <1>1, <1>2, <1>3 DEF IInv

\* A request that arrives finds what it names.
LEMMA BeginKeeps ==
  ASSUME IInv, NEW h \in Handlers, NEW c \in Calls, Begin(h, c), Fresh(c)
  PROVE  IInv'
<1>1. Wait(h, c) /\ UNCHANGED <<tables, shown, identified, faults>>
  BY DEF Begin
<1>2. /\ calls' \in [Handlers -> Calls]
      /\ \A g \in Handlers : calls'[g] = calls[g] \/ calls'[g] = c
  BY <1>1, CallChange DEF IInv, TypeOK
<1>3. \A g \in Handlers : calls'[g] = calls[g] \/ Fresh(calls'[g])
  BY <1>2
<1> QED
  BY <1>1, <1>2, <1>3, CallsOnly DEF IInv, TypeOK

\* Every step preserves the invariant.
LEMMA NextIInv == IInv /\ [Next]_vars => IInv'
<1> SUFFICES ASSUME IInv, [Next]_vars PROVE IInv'
  OBVIOUS
<1> USE DEF IInv
<1>1. ASSUME NEW h \in Handlers, NEW s \in Services, Push(h, s) \/ Authorize(h, s)
      PROVE  IInv'
  <2>1. PICK c \in {[Idle EXCEPT !.do = "push", !.service = s],
                    [Idle EXCEPT !.do = "create", !.service = s]} : Begin(h, c)
    BY <1>1 DEF Push, Authorize
  <2>2. c \in Calls /\ Fresh(c)
    BY DEF Idle, Calls, Steps, Fresh
  <2> QED
    BY <2>1, <2>2, BeginKeeps
<1>2. ASSUME NEW h \in Handlers, NEW s \in Services, NEW p \in Pushes, AuthorizePushed(h, s, p)
      PROVE  IInv'
  <2>1. PICK c : c = [Idle EXCEPT !.do = "consume", !.service = s, !.push = p]
    OBVIOUS
  <2>2. Begin(h, c) /\ pushed[p] # None
    BY <1>2, <2>1 DEF AuthorizePushed
  <2>3. c \in Calls /\ Fresh(c)
    BY <2>1, <2>2 DEF Idle, Calls, Steps, Fresh
  <2> QED
    BY <2>2, <2>3, BeginKeeps
<1>3. ASSUME NEW h \in Handlers, NEW r \in Requests, Callback(h, r)
      PROVE  IInv'
  <2>1. PICK c : c = [Idle EXCEPT !.do = "claim", !.request = r]
    OBVIOUS
  <2>2. Begin(h, c) /\ Created(r)
    BY <1>3, <2>1 DEF Callback, Created
  <2>3. c \in Calls /\ Fresh(c)
    BY <2>1, <2>2 DEF Idle, Calls, Steps, Fresh
  <2> QED
    BY <2>2, <2>3, BeginKeeps
<1>4. ASSUME NEW h \in Handlers, NEW r \in Requests,
             NEW decision \in {"approved", "denied"}, Decide(h, r, decision)
      PROVE  IInv'
  <2>1. PICK c : c = [Idle EXCEPT !.do = "decide", !.request = r, !.decision = decision]
    OBVIOUS
  <2>2. Begin(h, c) /\ r \in shown
    BY <1>4, <2>1 DEF Decide
  <2>3. Created(r) /\ requests[r].subject \in Subjects
    BY <2>2 DEF TypeOK, Created, RequestsAgree, RequestAgrees
  <2>4. c \in Calls /\ Fresh(c)
    BY <2>1, <2>3 DEF Idle, Calls, Steps, Fresh
  <2> QED
    BY <2>2, <2>4, BeginKeeps
<1>5. ASSUME NEW h \in Handlers, HandlerStep(h)
      PROVE  IInv'
  <2>1. CASE ProviderRefuses(h)
    BY <2>1, Returns DEF ProviderRefuses, Resumes, tables
  <2> QED
    BY <1>5, <2>1, StorePushKeeps, ConsumePushKeeps, CreateRequestKeeps, ClaimStateKeeps,
       ProviderIdentifiesKeeps, ReplaceSubjectKeeps, ShowPageKeeps, RecordDecisionKeeps,
       CreateConsentKeeps, IssueCodeKeeps DEF HandlerStep
<1>6. ASSUME \/ Restart
             \/ \E h \in Handlers : QueryFails(h)
      PROVE  IInv'
  <2>1. /\ calls' \in [Handlers -> Calls]
        /\ \A g \in Handlers : calls'[g] = calls[g] \/ calls'[g] = Idle
    BY <1>6, CallChange, IdleType DEF Restart, QueryFails, Return, TypeOK
  <2>2. faults' \in 0 .. MaxFaults /\ UNCHANGED <<tables, shown, identified>>
    BY <1>6, AuthorizationAssumption DEF Restart, QueryFails, TypeOK
  <2> QED
    BY <2>1, <2>2, CallsOnly, IdleType DEF Fresh
<1>7. CASE UNCHANGED vars
  BY <1>7, CallsOnly DEF vars, TypeOK
<1> QED
  BY <1>1, <1>2, <1>3, <1>4, <1>5, <1>6, <1>7, PushExpiresKeeps, RequestExpiresKeeps DEF Next

\* The invariant: whatever interleaves, repeats or fails, the rows of the
\* database and what handlers remember of them agree.
THEOREM Invariance == Spec => []IInv
  BY InitIInv, NextIInv, PTL DEF Spec

\* A pushed request's address is good for one authorization, by its client
\* (the conditional update of PushedAuthorizationRequestStore.consume).
THEOREM PushedOnce == Spec => []OneUse
<1>1. IInv => OneUse
  <2> SUFFICES ASSUME IInv,
                      NEW q \in Requests, Created(q), NEW r \in Requests, Created(r)
               PROVE  LET p == requests[r].push IN
                      /\ p # None => requests[r].service = pushed[p].service
                      /\ p # None /\ requests[q].push = p => q = r
    BY DEF OneUse, Created
  <2>1. RequestAgrees(r)
    BY DEF IInv, RequestsAgree
  <2> QED
    BY <2>1 DEF IInv, PushOnce, RequestAgrees, Spent
<1> QED
  BY <1>1, Invariance, PTL

\* Codes and consents name the user whom the provider identified, each code has
\* a consent of its own, and no request two codes (OAuthAuthorizationStore.decide
\* and replacePendingSubject, in whatever order their callers come).
THEOREM Backed == Spec => []CodeBacked
<1>1. IInv => CodeBacked
  <2> SUFFICES ASSUME IInv PROVE CodeBacked
    OBVIOUS
  <2>1. ASSUME NEW c \in Consents, consents[c] # None
        PROVE  consents[c].subject = identified[consents[c].request]
    <3>1. PICK r \in Requests : r = consents[c].request
      BY <2>1 DEF IInv, GrantsAgree
    <3>2. /\ Created(r) /\ requests[r].status = "approved"
          /\ consents[c].subject = requests[r].subject
      BY <2>1, <3>1 DEF IInv, GrantsAgree
    <3>3. RequestAgrees(r)
      BY <3>2 DEF IInv, RequestsAgree
    <3> QED
      BY <3>1, <3>2, <3>3 DEF RequestAgrees
  <2>2. TypeOK
    BY DEF IInv
  <2> QED
    BY <2>1, <2>2 DEF IInv, GrantsAgree, CodeBacked
<1> QED
  BY <1>1, Invariance, PTL

-----------------------------------------------------------------------------
(* The refinement: what a step does to a request, seen from outside.       *)

Due(r) == Created(r) /\ requests[r].due

\* No request but r looks different.
OthersLookSame(r) ==
  \A q \in Requests : q # r =>
    Phase(q)' = Phase(q) /\ Subject(q)' = Subject(q) /\ (Due(q)' <=> Due(q))

\* A step that changes no phase, subject or deadline is a stutter of the abstract grant.
LEMMA LooksSame ==
  ASSUME \A q \in Requests :
           Phase(q)' = Phase(q) /\ Subject(q)' = Subject(q) /\ (Due(q)' <=> Due(q))
  PROVE  UNCHANGED Abstract!vars
<1>1. [q \in Requests |-> Phase(q)]' = [q \in Requests |-> Phase(q)]
  OBVIOUS
<1>2. [q \in Requests |-> Subject(q)]' = [q \in Requests |-> Subject(q)]
  OBVIOUS
<1>3. {q \in Requests : requests[q] # None /\ requests[q].due}'
        = {q \in Requests : requests[q] # None /\ requests[q].due}
  BY DEF Due, Created
<1> QED
  BY <1>1, <1>2, <1>3 DEF Abstract!vars

\* A step that changes the look of one request changes the abstract state there only.
LEMMA LooksAdvanced ==
  ASSUME NEW r \in Requests, OthersLookSame(r), Due(r)' <=> Due(r)
  PROVE  /\ [q \in Requests |-> Phase(q)]'
              = [[q \in Requests |-> Phase(q)] EXCEPT ![r] = Phase(r)']
         /\ [q \in Requests |-> Subject(q)]'
              = [[q \in Requests |-> Subject(q)] EXCEPT ![r] = Subject(r)']
         /\ {q \in Requests : requests[q] # None /\ requests[q].due}'
              = {q \in Requests : requests[q] # None /\ requests[q].due}
<1>1. [q \in Requests |-> Phase(q)]'
              = [[q \in Requests |-> Phase(q)] EXCEPT ![r] = Phase(r)']
  BY DEF OthersLookSame
<1>2. [q \in Requests |-> Subject(q)]'
              = [[q \in Requests |-> Subject(q)] EXCEPT ![r] = Subject(r)']
  BY DEF OthersLookSame
<1>3. {q \in Requests : requests[q] # None /\ requests[q].due}'
              = {q \in Requests : requests[q] # None /\ requests[q].due}
  BY DEF OthersLookSame, Due, Created
<1> QED
  BY <1>1, <1>2, <1>3

\* A write of one row, with the codes unchanged, leaves the look of the others.
LEMMA RowLooks ==
  ASSUME NEW r \in Requests, \A q \in Requests : q # r => requests'[q] = requests[q],
         codes' = codes
  PROVE  OthersLookSame(r) /\ (Granted(r)' <=> Granted(r))
  BY DEF OthersLookSame, Phase, Subject, Due, Granted, Created

\* Without an approved row there is no granted code.
LEMMA UngrantedLooks ==
  ASSUME IInv, NEW r \in Requests, Created(r) => requests[r].status # "approved"
  PROVE  ~Granted(r)
<1> SUFFICES ASSUME NEW k \in Codes, codes[k] # None, codes[k].request = r
             PROVE  FALSE
  BY DEF Granted
<1>1. Created(r) /\ requests[r].status = "approved"
  BY DEF IInv, GrantsAgree
<1> QED
  BY <1>1

\* A request is created: asked.
LEMMA CreateRequestMaps ==
  ASSUME IInv, NEW h \in Handlers, NEW r \in Requests, CreateRequest(h, r)
  PROVE  Abstract!Ask(r)
<1>1. ~Created(r) /\ codes' = codes
  BY DEF CreateRequest, IsNew, Created
<1>2. ~Granted(r)
  BY <1>1, UngrantedLooks
<1>3. /\ \A q \in Requests : q # r => requests'[q] = requests[q]
      /\ requests'[r] = [service |-> calls[h].service, push |-> calls[h].push,
                         status |-> "pending_identity", subject |-> None, due |-> FALSE]
  BY DEF CreateRequest, IInv, TypeOK
<1>4. Created(r)'
  <2>1. calls[h] \in Calls /\ calls[h].service \in Services
    BY DEF IInv, TypeOK, CallsAgree, CallAgrees, CreateRequest, Resumes
  <2>2. requests'[r] \in RequestRecords
    BY <1>3, <2>1 DEF RequestRecords, Calls
  <2> QED
    BY <2>2, AuthorizationAssumption DEF Created
<1>5. OthersLookSame(r) /\ ~Granted(r)'
  BY <1>1, <1>2, <1>3, RowLooks
<1>6. Phase(r) = "none" /\ Subject(r) = None /\ ~Due(r)
  BY <1>1 DEF Phase, Subject, Due, Created
<1>7. Phase(r)' = "asked" /\ Subject(r)' = None /\ ~Due(r)'
  BY <1>3, <1>4, <1>5, Nobodies DEF Phase, Subject, Due, Created
<1> QED
  BY <1>5, <1>6, <1>7, LooksAdvanced DEF Abstract!Ask, Abstract!Advance

\* The state is claimed: nothing to be seen, for nobody is named.
LEMMA ClaimStateMaps ==
  ASSUME IInv, NEW h \in Handlers, ClaimState(h)
  PROVE  UNCHANGED Abstract!vars
<1>1. calls[h].do = "claim" /\ CallAgrees(h) /\ codes' = codes
  BY DEF IInv, CallsAgree, ClaimState, Resumes
<1>2. PICK r \in Requests : r = calls[h].request /\ Created(r)
  BY <1>1 DEF CallAgrees
<1>3. CASE Open(r, "pending_identity")
  <2>1. /\ requests[r] \in RequestRecords /\ requests[r].status = "pending_identity"
        /\ requests[r].subject = None
    BY <1>2, <1>3, RowShape DEF IInv, RequestsAgree, RequestAgrees, Open
  <2>2. /\ requests' = [requests EXCEPT ![r].status = "pending_consent",
                                        ![r].subject = Placeholder]
    BY <1>2, <1>3 DEF ClaimState
  <2>3. /\ \A q \in Requests : q # r => requests'[q] = requests[q]
        /\ requests'[r] = [requests[r] EXCEPT !.status = "pending_consent",
                                              !.subject = Placeholder]
    BY <2>2 DEF IInv, TypeOK
  <2>4. /\ requests'[r] \in RequestRecords
        /\ requests'[r].status = "pending_consent" /\ requests'[r].subject = Placeholder
        /\ requests'[r].due = requests[r].due
    BY <2>1, <2>3 DEF RequestRecords
  <2>5. Created(r)'
    BY <2>4, AuthorizationAssumption DEF Created
  <2>6. ~Granted(r) /\ ~Granted(r)' /\ OthersLookSame(r)
    BY <1>1, <2>1, <2>3, RowLooks, UngrantedLooks
  <2>7. Phase(r) = "asked" /\ Subject(r) = None
    BY <1>2, <2>1, <2>6, Nobodies DEF Phase, Subject, Created
  <2>8. Phase(r)' = "asked" /\ Subject(r)' = None
    BY <2>4, <2>5, <2>6, Nobodies DEF Phase, Subject, Created
  <2>9. Due(r)' <=> Due(r)
    BY <1>2, <2>4, <2>5 DEF Due
  <2> QED
    BY <2>6, <2>7, <2>8, <2>9, LooksSame DEF OthersLookSame
<1>4. CASE ~Open(r, "pending_identity")
  <2>1. requests' = requests
    BY <1>2, <1>4 DEF ClaimState
  <2> QED
    BY <1>1, <2>1, LooksSame DEF Phase, Subject, Due, Granted, Created
<1> QED
  BY <1>3, <1>4

\* The user is named, in time: identified.
LEMMA ReplaceSubjectMaps ==
  ASSUME IInv, NEW h \in Handlers, ReplaceSubject(h)
  PROVE  \/ UNCHANGED Abstract!vars
         \/ \E r \in Requests, u \in Subjects : Abstract!Identify(r, u)
<1>1. calls[h].do = "replace" /\ CallAgrees(h) /\ codes' = codes
  BY DEF IInv, CallsAgree, ReplaceSubject, Resumes
<1>2. PICK r \in Requests : r = calls[h].request /\ Created(r)
  BY <1>1 DEF CallAgrees
<1>3. PICK u \in Subjects : u = calls[h].subject
  BY <1>1 DEF CallAgrees
<1>4. CASE Open(r, "pending_consent")
  <2>1. /\ requests[r] \in RequestRecords /\ requests[r].status = "pending_consent"
        /\ requests[r].subject = Placeholder /\ ~Due(r)
    BY <1>1, <1>2, <1>4, RowShape DEF IInv, CallAgrees, Naming, Open, Due
  <2>2. /\ \A q \in Requests : q # r => requests'[q] = requests[q]
        /\ requests'[r] = [requests[r] EXCEPT !.subject = u]
    BY <1>2, <1>3, <1>4 DEF ReplaceSubject, IInv, TypeOK
  <2>3. /\ requests'[r] \in RequestRecords
        /\ requests'[r].status = "pending_consent" /\ requests'[r].subject = u
        /\ requests'[r].due = requests[r].due
    BY <2>1, <2>2 DEF RequestRecords
  <2>4. Created(r)'
    BY <2>3, AuthorizationAssumption DEF Created
  <2>5. ~Granted(r) /\ ~Granted(r)' /\ OthersLookSame(r)
    BY <1>1, <2>1, <2>2, RowLooks, UngrantedLooks
  <2>6. Phase(r) = "asked"
    BY <1>2, <2>1, <2>5, Nobodies DEF Phase, Created
  <2>7. Phase(r)' = "identified" /\ Subject(r)' = u
    BY <2>3, <2>4, <2>5 DEF Phase, Subject, Created
  <2>8. Due(r)' <=> Due(r)
    BY <1>2, <2>3, <2>4 DEF Due
  <2>9. Abstract!Identify(r, u)
    BY <2>1, <2>5, <2>6, <2>7, <2>8, LooksAdvanced
       DEF Abstract!Identify, Abstract!Advance, Due, Created
  <2> QED
    BY <2>9
<1>5. CASE ~Open(r, "pending_consent")
  <2>1. requests' = requests
    BY <1>2, <1>5 DEF ReplaceSubject
  <2> QED
    BY <1>1, <2>1, LooksSame DEF Phase, Subject, Due, Granted, Created
<1> QED
  BY <1>4, <1>5

\* The user decides, once and in time.
LEMMA RecordDecisionMaps ==
  ASSUME IInv, NEW h \in Handlers, RecordDecision(h)
  PROVE  UNCHANGED Abstract!vars \/ \E r \in Requests : Abstract!Decide(r)
<1>1. calls[h] \in Calls /\ calls[h].do = "decide" /\ CallAgrees(h) /\ codes' = codes
  BY DEF IInv, TypeOK, CallsAgree, RecordDecision, Resumes
<1>2. PICK r \in Requests : r = calls[h].request /\ Created(r)
  BY <1>1 DEF CallAgrees
<1>3. PICK d \in {"approved", "denied"} : d = calls[h].decision
  BY <1>1 DEF Calls
<1>4. CASE Open(r, "pending_consent")
  <2>1. /\ requests[r] \in RequestRecords /\ requests[r].status = "pending_consent"
        /\ requests[r].subject \in Subjects /\ ~Due(r)
    BY <1>1, <1>2, <1>4, RowShape DEF IInv, CallAgrees, Open, Due
  <2>2. /\ \A q \in Requests : q # r => requests'[q] = requests[q]
        /\ requests'[r] = [requests[r] EXCEPT !.status = d]
    BY <1>2, <1>3, <1>4 DEF RecordDecision, IInv, TypeOK
  <2>3. /\ requests'[r] \in RequestRecords
        /\ requests'[r].status = d /\ requests'[r].subject = requests[r].subject
        /\ requests'[r].due = requests[r].due
    BY <2>1, <2>2 DEF RequestRecords
  <2>4. Created(r)'
    BY <2>3, AuthorizationAssumption DEF Created
  <2>5. ~Granted(r) /\ ~Granted(r)' /\ OthersLookSame(r)
    BY <1>1, <2>1, <2>2, RowLooks, UngrantedLooks
  <2>6. Phase(r) = "identified"
    BY <1>2, <2>1, <2>5 DEF Phase, Created
  <2>7. Phase(r)' = d /\ Subject(r)' = Subject(r)
    BY <1>2, <2>3, <2>4, <2>5 DEF Phase, Subject, Created
  <2>8. Due(r)' <=> Due(r)
    BY <1>2, <2>3, <2>4 DEF Due
  <2>9. Abstract!Decide(r)
    BY <2>1, <2>5, <2>6, <2>7, <2>8, LooksAdvanced
       DEF Abstract!Decide, Abstract!Advance, Due, Created
  <2> QED
    BY <2>9
<1>5. CASE ~Open(r, "pending_consent")
  <2>1. requests' = requests
    BY <1>2, <1>5 DEF RecordDecision
  <2> QED
    BY <1>1, <2>1, LooksSame DEF Phase, Subject, Due, Granted, Created
<1> QED
  BY <1>4, <1>5

\* The first code of an approved request: granted.
LEMMA IssueCodeMaps ==
  ASSUME IInv, NEW h \in Handlers, NEW k \in Codes, IssueCode(h, k)
  PROVE  \E r \in Requests : Abstract!Grant(r)
<1>1. /\ calls[h] \in Calls /\ calls[h].do = "code" /\ CallAgrees(h)
      /\ requests' = requests /\ codes[k] = None
  BY DEF IInv, TypeOK, CallsAgree, IssueCode, Resumes, IsNew
<1>2. PICK r \in Requests :
        r = calls[h].request /\ Created(r) /\ requests[r].status = "approved"
  BY <1>1 DEF CallAgrees, Granting
<1>3. /\ codes'[k] = [request |-> r, subject |-> calls[h].subject, consent |-> calls[h].consent]
      /\ \A j \in Codes : j # k => codes'[j] = codes[j]
  BY <1>2 DEF IInv, TypeOK, IssueCode
<1>4. codes'[k] # None /\ codes'[k].request = r
  <2>1. codes'[k] \in CodeRecords
    BY <1>1, <1>3 DEF CallAgrees, Calls, CodeRecords
  <2> QED
    BY <1>3, <2>1, AuthorizationAssumption
<1>5. ~Granted(r)
  BY <1>1, <1>2 DEF IInv, GrantsAgree, Granted, Granting
<1>6. Granted(r)' /\ \A q \in Requests : q # r => (Granted(q)' <=> Granted(q))
  BY <1>1, <1>3, <1>4 DEF Granted
<1>7. OthersLookSame(r) /\ (Due(r)' <=> Due(r)) /\ Subject(r)' = Subject(r)
  BY <1>1, <1>6 DEF OthersLookSame, Phase, Subject, Due, Created
<1>8. Phase(r) = "approved" /\ Phase(r)' = "granted"
  BY <1>1, <1>2, <1>5, <1>6 DEF Phase, Created
<1>9. Abstract!Grant(r)
  BY <1>7, <1>8, LooksAdvanced DEF Abstract!Grant, Abstract!Advance
<1> QED
  BY <1>9

\* The deadline of a request passing is an expiry of the abstract grant.
LEMMA RequestExpiresMaps ==
  ASSUME IInv, NEW r \in Requests, RequestExpires(r)
  PROVE  Abstract!Expire(r)
<1>1. Created(r) /\ requests[r] \in RequestRecords /\ codes' = codes
  BY RowShape DEF IInv, RequestExpires, Created
<1>2. /\ \A q \in Requests : q # r => requests'[q] = requests[q]
      /\ requests'[r] = [requests[r] EXCEPT !.due = TRUE]
  BY DEF RequestExpires, IInv, TypeOK
<1>3. /\ requests'[r] \in RequestRecords /\ requests'[r].due
      /\ requests'[r].status = requests[r].status
      /\ requests'[r].subject = requests[r].subject
  BY <1>1, <1>2 DEF RequestRecords
<1>4. Created(r)'
  BY <1>3, AuthorizationAssumption DEF Created
<1>5. OthersLookSame(r) /\ (Granted(r)' <=> Granted(r))
  BY <1>1, <1>2, RowLooks
<1>6. \A q \in Requests : Phase(q)' = Phase(q) /\ Subject(q)' = Subject(q)
  BY <1>1, <1>3, <1>4, <1>5 DEF OthersLookSame, Phase, Subject, Created
<1>7. \A q \in Requests : Due(q)' <=> Due(q) \/ q = r
  BY <1>3, <1>4, <1>5 DEF OthersLookSame, Due
<1>8. {q \in Requests : requests[q] # None /\ requests[q].due}'
        = {q \in Requests : requests[q] # None /\ requests[q].due} \cup {r}
  BY <1>7 DEF Due, Created
<1> QED
  BY <1>6, <1>8 DEF Abstract!Expire

\* Every step is a step of the abstract grant, or a stutter.
LEMMA GrantStep == IInv /\ [Next]_vars => [Abstract!Next]_(Abstract!vars)
<1> SUFFICES ASSUME IInv, [Next]_vars PROVE [Abstract!Next]_(Abstract!vars)
  OBVIOUS
<1>1. CASE requests' = requests /\ codes' = codes
  BY <1>1, LooksSame DEF Phase, Subject, Due, Granted, Created
<1>2. ASSUME NEW h \in Handlers, NEW r \in Requests, CreateRequest(h, r)
      PROVE  Abstract!Next
  BY <1>2, CreateRequestMaps DEF Abstract!Next
<1>3. ASSUME NEW h \in Handlers, ClaimState(h) \/ ReplaceSubject(h) \/ RecordDecision(h)
      PROVE  [Abstract!Next]_(Abstract!vars)
  BY <1>3, ClaimStateMaps, ReplaceSubjectMaps, RecordDecisionMaps DEF Abstract!Next
<1>4. ASSUME NEW h \in Handlers, NEW k \in Codes, IssueCode(h, k)
      PROVE  Abstract!Next
  BY <1>4, IssueCodeMaps DEF Abstract!Next
<1>5. ASSUME NEW r \in Requests, RequestExpires(r)
      PROVE  Abstract!Next
  BY <1>5, RequestExpiresMaps DEF Abstract!Next
<1>6. \/ requests' = requests /\ codes' = codes
      \/ \E h \in Handlers, r \in Requests : CreateRequest(h, r)
      \/ \E h \in Handlers : ClaimState(h) \/ ReplaceSubject(h) \/ RecordDecision(h)
      \/ \E h \in Handlers, k \in Codes : IssueCode(h, k)
      \/ \E r \in Requests : RequestExpires(r)
  BY DEF Next, HandlerStep, vars, tables, Push, Authorize, AuthorizePushed, Callback, Decide,
         Begin, QueryFails, Restart, PushExpires, StorePush, ConsumePush, ProviderIdentifies,
         ProviderRefuses, ShowPage, CreateConsent
<1> QED
  BY <1>1, <1>2, <1>3, <1>4, <1>5, <1>6

\* The handlers and tables implement the abstract authorization: a request's user
\* is identified once, decides once, both in time, and only an approval is
\* followed by a code, one code.
THEOREM Refinement == Spec => ImplementsGrant
<1>1. Init => Abstract!Init
  BY DEF Init, Abstract!Init, Phase, Subject
<1>2. IInv /\ [Next]_vars => [Abstract!Next]_(Abstract!vars)
  BY GrantStep
<1> QED
  BY <1>1, <1>2, Invariance, PTL DEF Spec, ImplementsGrant, Abstract!Spec
=============================================================================
