------------------------- MODULE ServiceRegistry_proofs -------------------------
(***************************************************************************)
(* Proofs about ServiceRegistry, for every value of its constants.         *)
(*                                                                         *)
(* The argument is an order: the disk, the draft of the open transaction   *)
(* and what any transaction has sent come before the memory.  To come      *)
(* before is to lack records, decisions, grants and ends of credentials,   *)
(* but never to have one the later state has not; it is a relation between *)
(* tables, so that a snapshot torn between two tables, or with rows that   *)
(* were sent long ago, still has its place.  The draft need not come after *)
(* the disk: a row that waited may be older than what it replaces.  What a *)
(* client was told is kept all the same, where nobody who waits has sent a *)
(* row without it.                                                         *)
(***************************************************************************)
EXTENDS ServiceRegistry, TLAPS

LaterApplications(A, B) ==
  \A a \in Applications : A[a] # None =>
    /\ B[a] # None
    /\ A[a].status = "approved" => B[a] = A[a]

LaterServices(A, B) ==
  \A s \in Services : A[s] # None =>
    B[s] # None /\ A[s].granted \subseteq B[s].granted

LaterRequests(A, B) ==
  \A r \in Requests : A[r] # None =>
    /\ B[r] # None /\ B[r].service = A[r].service /\ B[r].scopes = A[r].scopes
    /\ A[r].status # "pending_review" => B[r] = A[r]

LaterCredentials(A, B) ==
  \A c \in Credentials : A[c] # None =>
    /\ B[c] # None
    /\ A[c].status # "active" => B[c].status # "active"
    /\ A[c].status = "revoked" => B[c].status = "revoked"

Later(st, new) ==
  /\ LaterApplications(st.applications, new.applications)
  /\ LaterServices(st.services, new.services)
  /\ LaterRequests(st.requests, new.requests)
  /\ LaterCredentials(st.credentials, new.credentials)

Chain == Later(disk, memory) /\ Later(draft, memory)

-----------------------------------------------------------------------------
(* What a state of the tables keeps to by itself.                          *)

\* An application is approved when, and only when, it is a service.
Approved(A) ==
  \A a \in Applications : A[a] # None =>
    (A[a].status = "approved" <=> A[a].service # None)

OneActiveIn(C) ==
  \A c, x \in Credentials :
    /\ c # x /\ C[c] # None /\ C[x] # None
    /\ C[c].status = "active" /\ C[x].status = "active"
    => \/ C[c].service # C[x].service
       \/ C[c].environment # C[x].environment
       \/ C[c].kind # C[x].kind

Tabled(st) == Approved(st.applications) /\ OneActiveIn(st.credentials)

ApplicationsRefer(st) ==
  \A a \in Applications :
    st.applications[a] # None /\ st.applications[a].service # None =>
      st.services[st.applications[a].service] # None

\* The scopes in services are explained by what was given with applications
\* and by the requests in requests.
Explained(services, requests, given) ==
  \A s \in Services : services[s] # None =>
    \A x \in services[s].granted :
      \/ x \in MigratedScopes
      \/ <<s, x>> \in given
      \/ \E r \in Requests : /\ requests[r] # None /\ requests[r].service = s
                            /\ requests[r].status = "approved"
                            /\ x \in requests[r].scopes

Sound(st) ==
  /\ Tabled(st) /\ ApplicationsRefer(st)
  /\ Explained(st.services, st.requests, allowed)

-----------------------------------------------------------------------------
(* The draft, table by table.                                              *)

\* The tables that are written after the applications, and the commit
Behind == Tables \ {"applications"}

Op(h) == calls[h].op

\* h has sent services, since there was no application to wait for.
WaitsForServices(h) == calls[h].sent.services # Empty.services

\* The draft is sound but for the tables still to be written.
DraftSound ==
  /\ Tabled(draft)
  /\ writer = None => draft = disk
  /\ \A h \in Handlers :
       /\ Op(h) \in Behind <=> writer = h
       /\ Op(h) \in Behind /\ (Op(h) = "services" => WaitsForServices(h)) =>
            ApplicationsRefer(draft)
       /\ Op(h) \in Behind \ {"requests"} =>
            Explained(draft.services, draft.requests, allowed)

\* What a handler may tell after its commit is in the rows it has sent and in
\* the tables it has written.
Written(h, fact) ==
  /\ fact[1] \in Applications /\ Op(h) = "applications" =>
       /\ calls[h].sent.applications[fact[1]] # None
       /\ calls[h].sent.applications[fact[1]].status = fact[2]
  /\ /\ fact[1] \in Requests /\ fact[2] = "approved"
     /\ Op(h) \in {"applications", "services"} /\ WaitsForServices(h)
     => LET q == memory.requests[fact[1]]
        IN /\ calls[h].sent.services[q.service] # None
           /\ q.scopes \subseteq calls[h].sent.services[q.service].granted
  /\ fact[1] \in Applications /\ Op(h) \in Behind => Holds(draft, fact)
  /\ fact[1] \in Requests =>
       /\ Op(h) \in Behind \ {"services"} /\ fact[2] = "approved" =>
            /\ draft.services[memory.requests[fact[1]].service] # None
            /\ memory.requests[fact[1]].scopes \subseteq
                 draft.services[memory.requests[fact[1]].service].granted
       /\ Op(h) \in {"credentials", "events", "commit"} => Holds(draft, fact)
  /\ fact[1] \in Credentials /\ Op(h) \in {"events", "commit"} =>
       Holds(draft, fact)

\* No client is told that an application was rejected.
Telling(fact) == fact[1] \in Applications => fact[2] = "approved"

\* What waits to be written was in memory: services only where there was no
\* application.
Sending(sent) ==
  /\ Approved(sent.applications)
  /\ LaterApplications(sent.applications, memory.applications)
  /\ LaterServices(sent.services, memory.services)
  /\ sent.services # Empty.services =>
       \A a \in Applications : sent.applications[a] = None

\* What a handler remembers, of its next steps and of what it may tell, is so.
Remembers(c) ==
  /\ Sending(c.sent)
  /\ c.op # "answer"
  /\ "approve" \in {c.op, c.then} =>
       /\ c.application # None /\ c.environment # None
       /\ memory.applications[c.application] # None
  /\ c.op \in Kinds \cup {"verify"} \/ c.then \in Kinds =>
       c.service # None /\ memory.services[c.service] # None
  /\ c.op \in Kinds \/ c.then \in Kinds => c.environment # None
  /\ \A fact \in c.facts : Telling(fact) /\ Holds(memory, fact)

CallsKnow ==
  \A h \in Handlers :
    Remembers(calls[h]) /\ \A fact \in calls[h].facts : Written(h, fact)

\* No row that waits takes back what was told.
Kept(fact) ==
  /\ Telling(fact) /\ Holds(disk, fact) /\ Holds(draft, fact)
  /\ \A h \in Handlers : ~Endangers(h, fact)

AnswersKept == \A fact \in answered \ exposed : Kept(fact)

\* A pending request for scope x of service s
AskedFor(s, x) ==
  \E r \in Requests : LET q == memory.requests[r]
                      IN /\ q # None /\ q.service = s
                         /\ q.status = "pending_review" /\ x \in q.scopes

\* Until a restart: the pending requests of a service are for different scopes,
Apart ==
  \A r, q \in Requests :
    /\ r # q /\ memory.requests[r] # None /\ memory.requests[q] # None
    /\ memory.requests[r].service = memory.requests[q].service
    /\ memory.requests[r].status = "pending_review"
    /\ memory.requests[q].status = "pending_review"
    => memory.requests[r].scopes \cap memory.requests[q].scopes = {}

\* the applications are there by which scopes were granted,
AllAppliedFor ==
  \A s \in Services, x \in Scopes : <<s, x>> \in allowed => AppliedFor(s, x)

\* and the pending scopes are explained.
PendingAgrees ==
  \A s \in Services : memory.services[s] # None =>
    \A x \in Scopes :
      /\ AskedFor(s, x) => x \in memory.services[s].pending
      /\ x \in memory.services[s].pending => AskedFor(s, x) \/ AppliedFor(s, x)
      /\ ~(x \in memory.services[s].pending /\ x \in memory.services[s].granted)

\* Every request is for a service that is there.
RequestsRefer ==
  \A r \in Requests : memory.requests[r] # None =>
    memory.services[memory.requests[r].service] # None

Fresh == ~restarted => Apart /\ AllAppliedFor /\ PendingAgrees /\ RequestsRefer

IInv ==
  /\ TypeOK
  /\ Chain
  /\ Sound(memory) /\ Sound(disk) /\ DraftSound
  /\ CallsKnow
  /\ AnswersKept
  /\ Fresh

-----------------------------------------------------------------------------
(* The tables and the order between them.                                  *)

\* A table of a state that is replaced is the new one, and the others stay.
LEMMA Replace ==
  ASSUME NEW st \in States
  PROVE  /\ st.applications \in [Applications -> ApplicationRecords \cup {None}]
         /\ st.services \in [Services -> ServiceRecords \cup {None}]
         /\ st.requests \in [Requests -> RequestRecords \cup {None}]
         /\ st.credentials \in [Credentials -> CredentialRecords \cup {None}]
         /\ \A A \in [Applications -> ApplicationRecords \cup {None}] :
              LET new == [st EXCEPT !.applications = A]
              IN /\ new \in States /\ new.applications = A
                 /\ new.services = st.services /\ new.requests = st.requests
                 /\ new.credentials = st.credentials
         /\ \A S \in [Services -> ServiceRecords \cup {None}] :
              LET new == [st EXCEPT !.services = S]
              IN /\ new \in States /\ new.services = S
                 /\ new.applications = st.applications
                 /\ new.requests = st.requests
                 /\ new.credentials = st.credentials
         /\ \A Q \in [Requests -> RequestRecords \cup {None}] :
              LET new == [st EXCEPT !.requests = Q]
              IN /\ new \in States /\ new.requests = Q
                 /\ new.applications = st.applications
                 /\ new.services = st.services
                 /\ new.credentials = st.credentials
         /\ \A C \in [Credentials -> CredentialRecords \cup {None}] :
              LET new == [st EXCEPT !.credentials = C]
              IN /\ new \in States /\ new.credentials = C
                 /\ new.applications = st.applications
                 /\ new.services = st.services /\ new.requests = st.requests
  BY DEF States

\* A record of a table is none, or has the fields of its kind.
LEMMA Records ==
  ASSUME NEW st \in States
  PROVE  /\ \A a \in Applications : st.applications[a] # None =>
              st.applications[a] \in ApplicationRecords
         /\ \A s \in Services : st.services[s] # None =>
              st.services[s] \in ServiceRecords
         /\ \A r \in Requests : st.requests[r] # None =>
              st.requests[r] \in RequestRecords /\ st.requests[r].service \in Services
         /\ \A c \in Credentials : st.credentials[c] # None =>
              st.credentials[c] \in CredentialRecords
<1>1. /\ st.applications \in [Applications -> ApplicationRecords \cup {None}]
      /\ st.services \in [Services -> ServiceRecords \cup {None}]
      /\ st.requests \in [Requests -> RequestRecords \cup {None}]
      /\ st.credentials \in [Credentials -> CredentialRecords \cup {None}]
  BY Replace
<1>2. \A q \in RequestRecords : q.service \in Services
  BY DEF RequestRecords
<1> QED  BY <1>1, <1>2

\* A record is not None.
LEMMA NoRecord ==
  /\ \A a \in ApplicationRecords : a # None
  /\ \A s \in ServiceRecords : s # None
  /\ \A r \in RequestRecords : r # None
  /\ \A c \in CredentialRecords : c # None
BY RegistryAssumption

\* Every state is later than itself,
LEMMA LaterReflexive ==
  \A st : Later(st, st)
BY DEF Later, LaterApplications, LaterServices, LaterRequests, LaterCredentials

\* and a state later than a later one is later.
LEMMA LaterTransitive ==
  ASSUME NEW st, NEW mid, NEW new, Later(st, mid), Later(mid, new)
  PROVE  Later(st, new)
<1>1. LaterApplications(st.applications, new.applications)
  BY DEF Later, LaterApplications
<1>2. LaterServices(st.services, new.services)
  BY DEF Later, LaterServices
<1>3. LaterRequests(st.requests, new.requests)
  BY DEF Later, LaterRequests
<1>4. LaterCredentials(st.credentials, new.credentials)
  BY DEF Later, LaterCredentials
<1> QED  BY <1>1, <1>2, <1>3, <1>4 DEF Later

\* What a fact claims, by the kind of what it is about.
LEMMA HoldsOfApplication ==
  ASSUME NEW st, NEW fact, fact[1] \in Applications
  PROVE  Holds(st, fact) <=>
           st.applications[fact[1]] # None
             /\ st.applications[fact[1]].status = fact[2]
<1>1. fact[1] \notin Requests /\ fact[1] \notin Credentials
  BY RegistryAssumption
<1> QED  BY <1>1 DEF Holds

\* What the fact of a decided request says of a state.
LEMMA HoldsOfRequest ==
  ASSUME NEW st, NEW fact, fact[1] \in Requests
  PROVE  Holds(st, fact) <=>
           /\ st.requests[fact[1]] # None
           /\ st.requests[fact[1]].status = fact[2]
           /\ fact[2] = "approved" =>
                /\ st.services[st.requests[fact[1]].service] # None
                /\ st.requests[fact[1]].scopes \subseteq
                     st.services[st.requests[fact[1]].service].granted
<1>1. fact[1] \notin Applications /\ fact[1] \notin Credentials
  BY RegistryAssumption
<1> QED  BY <1>1 DEF Holds

\* What the fact of a credential says of a state.
LEMMA HoldsOfCredential ==
  ASSUME NEW st, NEW fact, fact[1] \in Credentials
  PROVE  Holds(st, fact) <=>
           /\ st.credentials[fact[1]] # None
           /\ fact[2] = "revoked" => st.credentials[fact[1]].status = "revoked"
<1>1. fact[1] \notin Requests /\ fact[1] \notin Applications
  BY RegistryAssumption
<1> QED  BY <1>1 DEF Holds

\* Facts are about applications, requests or credentials.
LEMMA FactKinds ==
  ASSUME NEW fact \in Facts
  PROVE  \/ fact[1] \in Applications
         \/ /\ fact[1] \in Requests /\ fact[2] \in {"approved", "rejected"}
         \/ fact[1] \in Credentials
BY DEF Facts

\* What a client may be told is kept by every later state.
LEMMA HoldsLater ==
  ASSUME NEW st \in States, NEW new, NEW fact \in Facts, Telling(fact),
         Later(st, new), Holds(st, fact)
  PROVE  Holds(new, fact)
<1>1. CASE fact[1] \in Applications
  BY <1>1, HoldsOfApplication DEF Telling, Later, LaterApplications
<1>2. CASE fact[1] \in Requests /\ fact[2] \in {"approved", "rejected"}
  <2> DEFINE r == fact[1]
  <2> DEFINE q == st.requests[r]
  <2>1. /\ q # None /\ q.status = fact[2]
        /\ fact[2] = "approved" =>
             /\ st.services[q.service] # None
             /\ q.scopes \subseteq st.services[q.service].granted
    BY <1>2, HoldsOfRequest
  <2>2. q.service \in Services
    BY <1>2, <2>1, Records
  <2>3. new.requests[r] = q /\ q # None
    BY <1>2, <2>1 DEF Later, LaterRequests
  <2>4. fact[2] = "approved" =>
          /\ new.services[q.service] # None
          /\ st.services[q.service].granted \subseteq new.services[q.service].granted
    BY <2>1, <2>2 DEF Later, LaterServices
  <2> QED  BY <1>2, <2>1, <2>3, <2>4, HoldsOfRequest
<1>3. CASE fact[1] \in Credentials
  BY <1>3, HoldsOfCredential DEF Later, LaterCredentials
<1> QED  BY <1>1, <1>2, <1>3, FactKinds

-----------------------------------------------------------------------------
(* Steps of a handler beside the open transaction.                         *)

\* What is to be shown of the memory such a step leaves.
Changed ==
  /\ memory' \in States /\ Later(memory, memory')
  /\ Sound(memory)' /\ Fresh'

\* The types of the parts of the state.
LEMMA Parts ==
  ASSUME TypeOK
  PROVE  /\ memory \in States /\ disk \in States /\ draft \in States
         /\ calls \in [Handlers -> Calls]
         /\ \A h \in Handlers : calls[h] \in Calls /\ calls[h].facts \subseteq Facts
         /\ answered \subseteq Facts /\ exposed \subseteq Facts
<1>1. \A c \in Calls : c.facts \subseteq Facts
  BY DEF Calls
<1> QED  BY <1>1 DEF TypeOK

\* Scopes stay explained when requests advance and more is allowed.
LEMMA ExplainedLater ==
  ASSUME NEW S, NEW Q, NEW new, NEW given, NEW more, given \subseteq more,
         LaterRequests(Q, new), Explained(S, Q, given)
  PROVE  Explained(S, new, more)
<1> SUFFICES ASSUME NEW s \in Services, S[s] # None, NEW x \in S[s].granted,
                    x \notin MigratedScopes, <<s, x>> \notin given
             PROVE  \E r \in Requests :
                      /\ new[r] # None /\ new[r].service = s
                      /\ new[r].status = "approved" /\ x \in new[r].scopes
  BY DEF Explained
<1>1. PICK r \in Requests : /\ Q[r] # None /\ Q[r].service = s
                            /\ Q[r].status = "approved" /\ x \in Q[r].scopes
  BY DEF Explained
<1>2. new[r] = Q[r]
  BY <1>1 DEF LaterRequests
<1> QED  BY <1>1, <1>2

\* Scopes stay explained in earlier services, which have less of them.
LEMMA ExplainedEarlier ==
  ASSUME NEW S, NEW new, NEW Q, NEW given, LaterServices(S, new),
         Explained(new, Q, given)
  PROVE  Explained(S, Q, given)
BY DEF LaterServices, Explained

\* Empty tables have no record.
LEMMA EmptyTables ==
  /\ Empty \in States /\ Nothing \in Sendings
  /\ \A a \in Applications : Empty.applications[a] = None
  /\ \A s \in Services : Empty.services[s] = None
  /\ \A r \in Requests : Empty.requests[r] = None
  /\ \A c \in Credentials : Empty.credentials[c] = None
  /\ Nothing.applications = Empty.applications
  /\ Nothing.services = Empty.services
BY DEF Empty, States, Nothing, Sendings

\* What waits stays in order, in part or as a whole, when memory advances.
LEMMA SendingLater ==
  ASSUME Later(memory, memory'), NEW sent, NEW new, Sending(sent),
         new.applications \in {sent.applications, Empty.applications},
         new.services \in {sent.services, Empty.services}
  PROVE  Sending(new)'
<1>1. Approved(new.applications)
  BY EmptyTables DEF Sending, Approved
<1>2. LaterApplications(new.applications, memory'.applications)
  BY EmptyTables DEF Sending, Later, LaterApplications
<1>3. LaterServices(new.services, memory'.services)
  BY EmptyTables DEF Sending, Later, LaterServices
<1>4. new.services # Empty.services =>
        \A a \in Applications : new.applications[a] = None
  BY EmptyTables DEF Sending
<1> QED  BY <1>1, <1>2, <1>3, <1>4 DEF Sending

\* Nothing that is sent is in order.
LEMMA NothingSending == Sending(Nothing) /\ Sending(Nothing)'
BY EmptyTables DEF Sending, Approved, LaterApplications, LaterServices

\* Less that waits endangers no more, as long as the request stays as it is.
LEMMA EndangersLess ==
  ASSUME NEW h \in Handlers, NEW fact \in Facts, ~Endangers(h, fact),
         calls'[h].sent.applications \in
           {calls[h].sent.applications, Empty.applications},
         calls'[h].sent.services \in {calls[h].sent.services, Empty.services},
         fact[1] \in Requests =>
           /\ memory'.requests[fact[1]] = memory.requests[fact[1]]
           /\ memory.requests[fact[1]].service \in Services
  PROVE  ~Endangers(h, fact)'
<1>1. CASE fact[1] \in Applications
  <2>1. fact[1] \notin Requests
    BY <1>1, RegistryAssumption
  <2> QED  BY <1>1, <2>1, EmptyTables DEF Endangers
<1>2. CASE fact[1] \in Requests
  <2>1. fact[1] \notin Applications
    BY <1>2, RegistryAssumption
  <2> QED  BY <1>2, <2>1, EmptyTables DEF Endangers
<1>3. CASE fact[1] \in Credentials
  <2>1. fact[1] \notin Applications /\ fact[1] \notin Requests
    BY <1>3, RegistryAssumption
  <2> QED  BY <2>1 DEF Endangers
<1> QED  BY <1>1, <1>2, <1>3, FactKinds

\* A call still remembers right in a later state.
LEMMA RemembersLater ==
  ASSUME memory \in States, Later(memory, memory'),
         NEW c \in Calls, Remembers(c)
  PROVE  Remembers(c)'
<1>0. Sending(c.sent)'
  BY SendingLater DEF Remembers
<1>1. \A fact \in c.facts : Telling(fact) /\ Holds(memory', fact)
  <2> SUFFICES ASSUME NEW fact \in c.facts
               PROVE  Telling(fact) /\ Holds(memory', fact)
    OBVIOUS
  <2>1. Telling(fact) /\ Holds(memory, fact) /\ fact \in Facts
    BY DEF Remembers, Calls
  <2> QED  BY <2>1, HoldsLater
<1>2. c.application \in Applications \cup {None} /\ c.service \in Services \cup {None}
  BY DEF Calls
<1>3. "approve" \in {c.op, c.then} =>
        /\ c.application # None /\ c.environment # None
        /\ memory'.applications[c.application] # None
  BY <1>2 DEF Remembers, Later, LaterApplications
<1>4. c.op \in Kinds \cup {"verify"} \/ c.then \in Kinds =>
        c.service # None /\ memory'.services[c.service] # None
  BY <1>2 DEF Remembers, Later, LaterServices
<1> QED  BY <1>0, <1>1, <1>3, <1>4 DEF Remembers

\* A fact on its way to disk stays on its way in a later state of memory.
LEMMA WrittenLater ==
  ASSUME Later(memory, memory'), UNCHANGED draft,
         NEW h \in Handlers, calls'[h] = calls[h],
         NEW fact \in Facts, Holds(memory, fact), Written(h, fact)
  PROVE  Written(h, fact)'
<1>1. CASE fact[1] \in Requests /\ fact[2] = "approved"
  <2>1. memory.requests[fact[1]] # None /\ memory.requests[fact[1]].status = "approved"
    BY <1>1, HoldsOfRequest
  <2>2. memory'.requests[fact[1]] = memory.requests[fact[1]]
    BY <1>1, <2>1 DEF Later, LaterRequests
  <2> QED  BY <1>1, <2>2 DEF Written, Op, WaitsForServices
<1>2. CASE ~(fact[1] \in Requests /\ fact[2] = "approved")
  BY <1>2 DEF Written, Op, WaitsForServices
<1> QED  BY <1>1, <1>2

\* What was told and is kept holds of disk, draft and memory, which agree on
\* the request it is about.
LEMMA KeptHolds ==
  ASSUME IInv, NEW fact \in answered \ exposed
  PROVE  /\ fact \in Facts /\ Telling(fact)
         /\ Holds(disk, fact) /\ Holds(draft, fact) /\ Holds(memory, fact)
         /\ \A h \in Handlers : ~Endangers(h, fact)
         /\ fact[1] \in Requests =>
              /\ memory.requests[fact[1]] # None
              /\ memory.requests[fact[1]].status # "pending_review"
              /\ memory.requests[fact[1]].service \in Services
              /\ disk.requests[fact[1]] = memory.requests[fact[1]]
              /\ draft.requests[fact[1]] = memory.requests[fact[1]]
<1>1. /\ fact \in Facts /\ Telling(fact)
      /\ Holds(disk, fact) /\ Holds(draft, fact)
      /\ \A h \in Handlers : ~Endangers(h, fact)
  BY Parts DEF IInv, AnswersKept, Kept
<1>2. /\ Later(disk, memory) /\ Later(draft, memory)
      /\ disk \in States /\ draft \in States /\ memory \in States
  BY Parts DEF IInv, Chain
<1>3. Holds(memory, fact)
  BY <1>1, <1>2, HoldsLater
<1>4. ASSUME fact[1] \in Requests
      PROVE  /\ memory.requests[fact[1]] # None
             /\ memory.requests[fact[1]].status # "pending_review"
             /\ memory.requests[fact[1]].service \in Services
             /\ disk.requests[fact[1]] = memory.requests[fact[1]]
             /\ draft.requests[fact[1]] = memory.requests[fact[1]]
  <2>1. fact[2] \in {"approved", "rejected"}
    BY <1>1, <1>4, FactKinds, RegistryAssumption
  <2>2. /\ disk.requests[fact[1]] # None /\ disk.requests[fact[1]].status = fact[2]
        /\ draft.requests[fact[1]] # None /\ draft.requests[fact[1]].status = fact[2]
        /\ memory.requests[fact[1]] # None
        /\ memory.requests[fact[1]].status = fact[2]
    BY <1>1, <1>3, <1>4, HoldsOfRequest
  <2>3. /\ disk.requests[fact[1]] = memory.requests[fact[1]]
        /\ draft.requests[fact[1]] = memory.requests[fact[1]]
    BY <1>2, <1>4, <2>1, <2>2 DEF Later, LaterRequests
  <2> QED  BY <1>2, <1>4, <2>1, <2>2, <2>3, Records
<1> QED  BY <1>1, <1>3, <1>4

\* A handler that is not in a transaction changes the memory and its own call.
LEMMA Handled ==
  ASSUME IInv, TypeOK', Changed,
         UNCHANGED <<disk, draft, writer, answered, exposed>>,
         allowed \subseteq allowed',
         NEW h \in Handlers, NEW c \in Calls, calls' = [calls EXCEPT ![h] = c],
         Op(h) \notin Behind, c.op \notin Behind, Remembers(c)',
         \A fact \in c.facts : Written(h, fact)',
         \A fact \in answered \ exposed : ~Endangers(h, fact)'
  PROVE  IInv'
<1> USE DEF IInv
<1>1. /\ calls'[h] = c
      /\ \A g \in Handlers : g # h => calls'[g] = calls[g]
      /\ \A g \in Handlers : Op(g)' \in Behind => g # h /\ Op(g)' = Op(g)
      /\ \A g \in Handlers : Op(g) \in Behind => Op(g)' = Op(g)
  BY Parts DEF Op
<1>2. Chain'
  BY LaterTransitive DEF Chain, Changed
<1>3. Sound(disk)'
  <2>1. Explained(disk.services, disk.requests, allowed')
    BY DEF Sound, Explained
  <2> QED  BY <2>1 DEF Sound
<1>4. DraftSound'
  <2>1. Tabled(draft') /\ (writer' = None => draft' = disk')
    BY DEF DraftSound
  <2>2. ASSUME NEW g \in Handlers
        PROVE  /\ (Op(g)' \in Behind) <=> (writer' = g)
               /\ Op(g)' \in Behind /\ (Op(g)' = "services" => WaitsForServices(g)')
                    => ApplicationsRefer(draft')
    <3>1. Op(g)' \in Behind => (WaitsForServices(g)' <=> WaitsForServices(g))
      BY <1>1 DEF WaitsForServices
    <3> QED  BY <1>1, <3>1 DEF DraftSound
  <2>3. ASSUME NEW g \in Handlers, Op(g)' \in Behind \ {"requests"}
        PROVE  Explained(draft'.services, draft'.requests, allowed')
    <3>1. Explained(draft.services, draft.requests, allowed)
      BY <1>1, <2>3 DEF DraftSound
    <3> QED  BY <3>1 DEF Explained
  <2> QED  BY <2>1, <2>2, <2>3 DEF DraftSound
<1>5. CallsKnow'
  <2> SUFFICES ASSUME NEW g \in Handlers
               PROVE  /\ Remembers(calls[g])'
                      /\ \A fact \in calls'[g].facts : Written(g, fact)'
    BY DEF CallsKnow
  <2>1. CASE g = h
    BY <1>1, <2>1
  <2>2. CASE g # h
    <3>1. Remembers(calls[g])'
      <4>1. Remembers(calls[g]) /\ calls[g] \in Calls
        BY Parts DEF CallsKnow
      <4>2. ASSUME NEW d \in Calls, Remembers(d)  PROVE Remembers(d)'
        BY <4>2, Parts, RemembersLater DEF Changed, Sound
      <4> QED  BY <1>1, <2>2, <4>1, <4>2 DEF Remembers
    <3>2. \A fact \in calls[g].facts : Written(g, fact)'
      BY <1>1, <2>2, Parts, WrittenLater DEF CallsKnow, Changed, Remembers
    <3> QED  BY <1>1, <2>2, <3>1, <3>2
  <2> QED  BY <2>1, <2>2
<1>6. AnswersKept'
  <2> SUFFICES ASSUME NEW fact \in answered \ exposed, NEW g \in Handlers
               PROVE  Telling(fact) /\ Holds(disk, fact) /\ Holds(draft, fact)
                        /\ ~Endangers(g, fact)'
    BY DEF AnswersKept, Kept
  <2>1. CASE g = h
    BY <2>1, KeptHolds
  <2>2. CASE g # h
    <3>1. fact[1] \in Requests =>
            memory'.requests[fact[1]] = memory.requests[fact[1]]
      BY KeptHolds DEF Changed, Later, LaterRequests
    <3> QED  BY <1>1, <2>2, <3>1, KeptHolds, EndangersLess
  <2> QED  BY <2>1, <2>2
<1> QED  BY <1>2, <1>3, <1>4, <1>5, <1>6 DEF Changed

-----------------------------------------------------------------------------
(* Changes of the memory, by what they change.                             *)

\* What was applied for stays applied for.
LEMMA AppliedLater ==
  ASSUME NEW s \in Services, NEW x, AppliedFor(s, x),
         Approved(memory.applications), memory \in States,
         LaterApplications(memory.applications, memory'.applications)
  PROVE  AppliedFor(s, x)'
<1>1. PICK a \in Applications : LET r == memory.applications[a]
                                IN r # None /\ r.service = s /\ x \in r.scopes
  BY DEF AppliedFor
<1>2. s # None
  BY RegistryAssumption
<1>3. memory'.applications[a] = memory.applications[a]
  BY <1>1, <1>2 DEF Approved, LaterApplications
<1> QED  BY <1>1, <1>3 DEF AppliedFor

\* Scopes stay explained when neither requests nor what is pending or granted
\* change.
LEMMA FreshKept ==
  ASSUME Fresh, UNCHANGED <<restarted, allowed>>, memory \in States,
         Approved(memory.applications),
         LaterApplications(memory.applications, memory'.applications),
         LaterServices(memory.services, memory'.services),
         memory'.requests = memory.requests,
         \A s \in Services : memory'.services[s] # None =>
           /\ memory.services[s] # None
           /\ memory'.services[s].pending = memory.services[s].pending
           /\ memory'.services[s].granted = memory.services[s].granted
  PROVE  Fresh'
<1> SUFFICES ASSUME ~restarted
             PROVE  Apart' /\ AllAppliedFor' /\ PendingAgrees' /\ RequestsRefer'
  BY DEF Fresh
<1>1. Apart /\ AllAppliedFor /\ PendingAgrees /\ RequestsRefer
  BY DEF Fresh
<1>2. Apart'
  BY <1>1 DEF Apart
<1>3. \A s \in Services, x \in Scopes : AppliedFor(s, x) => AppliedFor(s, x)'
  BY AppliedLater
<1>4. AllAppliedFor'
  BY <1>1, <1>3 DEF AllAppliedFor
<1>5. \A s \in Services, x \in Scopes : AskedFor(s, x)' <=> AskedFor(s, x)
  BY DEF AskedFor
<1>6. PendingAgrees'
  BY <1>1, <1>3, <1>5 DEF PendingAgrees
<1>7. RequestsRefer'
  BY <1>1, Records DEF RequestsRefer, LaterServices
<1> QED  BY <1>2, <1>4, <1>6, <1>7

\* What the invariant says of memory.
LEMMA MemoryParts ==
  ASSUME IInv
  PROVE  /\ memory \in States /\ Sound(memory) /\ Fresh
         /\ Approved(memory.applications) /\ OneActiveIn(memory.credentials)
         /\ ApplicationsRefer(memory)
         /\ Explained(memory.services, memory.requests, allowed)
BY Parts DEF IInv, Sound, Tabled

\* Memory unchanged is memory changed soundly,
LEMMA MemorySame ==
  ASSUME IInv, UNCHANGED <<memory, allowed, restarted>>
  PROVE  Changed
<1>1. Sound(memory)'
  BY MemoryParts DEF Sound
<1>2. /\ LaterApplications(memory.applications, memory'.applications)
      /\ LaterServices(memory.services, memory'.services)
  BY LaterReflexive DEF Later
<1>3. Fresh'
  BY <1>2, MemoryParts, FreshKept
<1> QED  BY <1>1, <1>3, MemoryParts, LaterReflexive DEF Changed

\* so is a service changed without its scopes,
LEMMA ServiceChanged ==
  ASSUME IInv, UNCHANGED <<allowed, restarted>>,
         NEW s \in Services, memory.services[s] # None,
         NEW r \in ServiceRecords, SetService(s, r),
         r.granted = memory.services[s].granted,
         r.pending = memory.services[s].pending
  PROVE  Changed
<1> DEFINE S == [memory.services EXCEPT ![s] = r]
<1>1. S \in [Services -> ServiceRecords \cup {None}]
  BY MemoryParts, Replace
<1>2. memory' = [memory EXCEPT !.services = S]
  BY MemoryParts DEF SetService
<1>3. /\ memory' \in States /\ memory'.services = S
      /\ memory'.applications = memory.applications
      /\ memory'.requests = memory.requests
      /\ memory'.credentials = memory.credentials
  BY <1>1, <1>2, MemoryParts, Replace
<1>4. \A z \in Services :
        /\ S[z] # None <=> memory.services[z] # None
        /\ S[z].granted = memory.services[z].granted
        /\ S[z].pending = memory.services[z].pending
  BY MemoryParts, Replace, NoRecord
<1>5. Later(memory, memory')
  BY <1>3, <1>4, LaterReflexive DEF Later, LaterServices
<1>6. Sound(memory)'
  <2>1. Explained(S, memory.requests, allowed)
    BY <1>4, MemoryParts DEF Explained
  <2>2. ApplicationsRefer(memory')
    <3>1. \A a \in Applications : memory.applications[a] # None =>
            memory.applications[a].service \in Services \cup {None}
      BY MemoryParts, Records DEF ApplicationRecords
    <3> QED  BY <1>3, <1>4, <3>1, MemoryParts DEF ApplicationsRefer
  <2> QED  BY <1>3, <2>1, <2>2, MemoryParts DEF Sound, Tabled
<1>7. Fresh'
  BY <1>3, <1>4, <1>5, MemoryParts, FreshKept DEF Later
<1> QED  BY <1>3, <1>5, <1>6, <1>7 DEF Changed

\* and so are credentials changed to later ones with one active of a kind.
LEMMA CredentialsChanged ==
  ASSUME IInv, UNCHANGED <<allowed, restarted>>,
         NEW C \in [Credentials -> CredentialRecords \cup {None}],
         memory' = [memory EXCEPT !.credentials = C],
         LaterCredentials(memory.credentials, C), OneActiveIn(C)
  PROVE  Changed
<1>1. /\ memory' \in States /\ memory'.credentials = C
      /\ memory'.applications = memory.applications
      /\ memory'.services = memory.services
      /\ memory'.requests = memory.requests
  BY MemoryParts, Replace
<1>2. Later(memory, memory')
  BY <1>1, LaterReflexive DEF Later
<1>3. Sound(memory)'
  BY <1>1, MemoryParts DEF Sound, Tabled, ApplicationsRefer
<1>4. Fresh'
  BY <1>1, <1>2, MemoryParts, FreshKept DEF Later
<1> QED  BY <1>1, <1>2, <1>3, <1>4 DEF Changed

\* An application is new or changes while it is not approved.
LEMMA ApplicationChanged ==
  ASSUME IInv, UNCHANGED <<allowed, restarted>>,
         NEW a \in Applications, NEW r \in ApplicationRecords,
         r.status # "approved", r.service = None,
         memory.applications[a] = None \/ memory.applications[a].status # "approved",
         memory' = [memory EXCEPT !.applications[a] = r]
  PROVE  Changed
<1> DEFINE A == [memory.applications EXCEPT ![a] = r]
<1>1. A \in [Applications -> ApplicationRecords \cup {None}]
  BY MemoryParts, Replace
<1>2. memory' = [memory EXCEPT !.applications = A]
  BY MemoryParts
<1>3. /\ memory' \in States /\ memory'.applications = A
      /\ memory'.services = memory.services
      /\ memory'.requests = memory.requests
      /\ memory'.credentials = memory.credentials
  BY <1>1, <1>2, MemoryParts, Replace
<1>4. A[a] = r /\ \A z \in Applications : z # a => A[z] = memory.applications[z]
  BY MemoryParts, Replace
<1>5. Later(memory, memory')
  <2>1. LaterApplications(memory.applications, A)
    BY <1>4, NoRecord DEF LaterApplications
  <2> QED  BY <1>3, <2>1, LaterReflexive DEF Later
<1>6. Sound(memory)'
  <2>1. Approved(A)
    BY <1>4, MemoryParts DEF Approved
  <2>2. ApplicationsRefer(memory')
    BY <1>3, <1>4, MemoryParts DEF ApplicationsRefer
  <2> QED  BY <1>3, <2>1, <2>2, MemoryParts DEF Sound, Tabled
<1>7. Fresh'
  BY <1>3, <1>5, MemoryParts, FreshKept DEF Later
<1> QED  BY <1>3, <1>5, <1>6, <1>7 DEF Changed

\* An application becomes a service.
LEMMA ApprovalChanged ==
  ASSUME IInv, UNCHANGED restarted,
         NEW a \in Applications, memory.applications[a] # None,
         memory.applications[a].status # "approved",
         NEW s \in Services, memory.services[s] = None,
         NEW status \in Statuses, NEW grant \in BOOLEAN, NEW D \in SUBSET Domains,
         Approval(a, s, status, grant, D)
  PROVE  /\ Changed
         /\ allowed \subseteq allowed' /\ allowed' \subseteq Services \X Scopes
         /\ memory'.services[s] # None
         /\ Holds(memory', <<a, "approved">>)
<1> DEFINE r == memory.applications[a]
<1> DEFINE granted == IF grant THEN r.scopes ELSE {}
<1>1. r \in ApplicationRecords /\ r.scopes \in SUBSET Scopes /\ granted \subseteq r.scopes
  <2>1. r \in ApplicationRecords
    BY MemoryParts, Records
  <2> QED  BY <2>1 DEF ApplicationRecords
<1>2. PICK p : p = [r EXCEPT !.status = "approved", !.service = s]
  OBVIOUS
<1>3. /\ p \in ApplicationRecords /\ p.status = "approved" /\ p.service = s
      /\ p.scopes = r.scopes
  BY <1>1, <1>2 DEF ApplicationRecords
<1>4. PICK q : q = [status |-> status, environments |-> r.environments,
                    granted |-> granted, pending |-> r.scopes \ granted,
                    domains |-> D, verified |-> {}]
  OBVIOUS
<1>5. /\ q \in ServiceRecords /\ q.granted = granted
      /\ q.pending = r.scopes \ granted
  BY <1>1, <1>4 DEF ApplicationRecords, ServiceRecords
<1> DEFINE A == [memory.applications EXCEPT ![a] = p]
<1> DEFINE S == [memory.services EXCEPT ![s] = q]
<1>6. /\ A \in [Applications -> ApplicationRecords \cup {None}]
      /\ S \in [Services -> ServiceRecords \cup {None}]
  BY <1>3, <1>5, MemoryParts, Replace
<1>7. memory' = [[memory EXCEPT !.applications = A] EXCEPT !.services = S]
  BY <1>2, <1>4, MemoryParts DEF Approval, States
<1>8. allowed' = allowed \cup ({s} \X granted)
  BY DEF Approval
<1>9. /\ memory' \in States /\ memory'.applications = A
      /\ memory'.services = S /\ memory'.requests = memory.requests
      /\ memory'.credentials = memory.credentials
  <2>0. PICK mid : mid = [memory EXCEPT !.applications = A]
    OBVIOUS
  <2>1. /\ mid \in States /\ mid.applications = A
        /\ mid.requests = memory.requests /\ mid.services = memory.services
        /\ mid.credentials = memory.credentials
    BY <1>6, <2>0, MemoryParts, Replace
  <2>2. memory' = [mid EXCEPT !.services = S]
    BY <1>7, <2>0
  <2> QED  BY <1>6, <2>1, <2>2, Replace
<1>10. /\ A[a] = p /\ \A z \in Applications : z # a => A[z] = memory.applications[z]
       /\ S[s] = q /\ \A z \in Services : z # s => S[z] = memory.services[z]
       /\ p # None /\ q # None /\ s # None
  BY <1>3, <1>5, MemoryParts, Replace, NoRecord, RegistryAssumption
<1>11. allowed \subseteq allowed' /\ allowed' \subseteq Services \X Scopes
  BY <1>1, <1>8 DEF IInv, TypeOK
<1>12. Later(memory, memory')
  <2>1. LaterApplications(memory.applications, A)
    BY <1>10 DEF LaterApplications
  <2>2. LaterServices(memory.services, S)
    BY <1>10 DEF LaterServices
  <2> QED  BY <1>9, <2>1, <2>2, LaterReflexive DEF Later
<1>13. ~restarted => \A z \in Requests : memory.requests[z] # None =>
         memory.requests[z].service # s
  BY MemoryParts DEF Fresh, RequestsRefer
<1>14. Sound(memory)'
  <2>1. Approved(A)
    BY <1>3, <1>10, MemoryParts DEF Approved
  <2>2. ApplicationsRefer(memory')
    BY <1>3, <1>9, <1>10, MemoryParts DEF ApplicationsRefer
  <2>4. Explained(S, memory.requests, allowed')
    <3>1. \A x \in q.granted : <<s, x>> \in allowed'
      BY <1>5, <1>8
    <3>2. Explained(memory.services, memory.requests, allowed')
      BY <1>11, MemoryParts DEF Explained
    <3> QED  BY <1>10, <3>1, <3>2 DEF Explained
  <2> QED  BY <1>9, <2>1, <2>2, <2>4, MemoryParts DEF Sound, Tabled
<1>15. Fresh'
  <2> SUFFICES ASSUME ~restarted
               PROVE  Apart' /\ AllAppliedFor' /\ PendingAgrees' /\ RequestsRefer'
    BY DEF Fresh
  <2>1. Apart /\ AllAppliedFor /\ PendingAgrees /\ RequestsRefer
    BY MemoryParts DEF Fresh
  <2>2. Apart'
    BY <1>9, <2>1 DEF Apart
  <2>3. \A z \in Services, x \in Scopes : AppliedFor(z, x) => AppliedFor(z, x)'
    BY <1>12, MemoryParts, AppliedLater DEF Later
  <2>4. \A x \in r.scopes : AppliedFor(s, x)'
    BY <1>3, <1>9, <1>10 DEF AppliedFor
  <2>5. AllAppliedFor'
    BY <1>1, <1>8, <2>1, <2>3, <2>4 DEF AllAppliedFor
  <2>6. \A z \in Services, x \in Scopes : AskedFor(z, x)' <=> AskedFor(z, x)
    BY <1>9 DEF AskedFor
  <2>7. \A x \in Scopes : ~AskedFor(s, x)
    BY <1>13 DEF AskedFor
  <2>8. PendingAgrees'
    BY <1>5, <1>9, <1>10, <2>1, <2>3, <2>4, <2>6, <2>7 DEF PendingAgrees
  <2>9. RequestsRefer'
    BY <1>9, <1>12, <2>1, MemoryParts, Records DEF RequestsRefer, Later, LaterServices
  <2> QED  BY <2>2, <2>5, <2>8, <2>9
<1>16. Holds(memory', <<a, "approved">>)
  BY <1>3, <1>9, <1>10, HoldsOfApplication
<1>17. Changed
  BY <1>9, <1>12, <1>14, <1>15 DEF Changed
<1> QED  BY <1>9, <1>10, <1>11, <1>16, <1>17

Submitted(s, r, X) ==
  memory' = [memory EXCEPT
    !.services[s].pending = @ \cup X,
    !.requests[r] = [service |-> s, scopes |-> X, status |-> "pending_review"]]

\* A request is made for scopes that the service neither has nor waits for.
LEMMA RequestSubmitted ==
  ASSUME IInv, UNCHANGED <<allowed, restarted>>,
         NEW s \in Services, memory.services[s] # None,
         NEW r \in Requests, memory.requests[r] = None,
         NEW X \in SUBSET Scopes,
         X \cap memory.services[s].granted = {},
         X \cap memory.services[s].pending = {},
         Submitted(s, r, X)
  PROVE  Changed
<1> DEFINE old == memory.services[s]
<1>1. PICK p : p = [service |-> s, scopes |-> X, status |-> "pending_review"]
  OBVIOUS
<1>2. /\ p \in RequestRecords /\ p.service = s /\ p.scopes = X
      /\ p.status = "pending_review"
  BY <1>1 DEF RequestRecords
<1>3. PICK q : q = [old EXCEPT !.pending = @ \cup X]
  OBVIOUS
<1>4. old \in ServiceRecords
  BY MemoryParts, Records
<1>5. q \in ServiceRecords /\ q.granted = old.granted /\ q.pending = old.pending \cup X
  BY <1>3, <1>4 DEF ServiceRecords
<1> DEFINE Q == [memory.requests EXCEPT ![r] = p]
<1> DEFINE S == [memory.services EXCEPT ![s] = q]
<1>6. /\ Q \in [Requests -> RequestRecords \cup {None}]
      /\ S \in [Services -> ServiceRecords \cup {None}]
  BY <1>2, <1>5, MemoryParts, Replace
<1>7. memory' = [[memory EXCEPT !.services = S] EXCEPT !.requests = Q]
  BY <1>1, <1>3, MemoryParts DEF States, Submitted
<1>9. /\ memory' \in States /\ memory'.requests = Q
      /\ memory'.services = S /\ memory'.applications = memory.applications
      /\ memory'.credentials = memory.credentials
  <2>0. PICK mid : mid = [memory EXCEPT !.services = S]
    OBVIOUS
  <2>1. /\ mid \in States /\ mid.services = S
        /\ mid.requests = memory.requests
        /\ mid.applications = memory.applications
        /\ mid.credentials = memory.credentials
    BY <1>6, <2>0, MemoryParts, Replace
  <2>2. memory' = [mid EXCEPT !.requests = Q]
    BY <1>7, <2>0
  <2>3. /\ memory' \in States /\ memory'.requests = Q
        /\ memory'.services = mid.services
        /\ memory'.applications = mid.applications
        /\ memory'.credentials = mid.credentials
    <3> HIDE DEF Q
    <3> QED  BY <1>6, <2>1, <2>2 DEF States
  <2> QED  BY <2>1, <2>3
<1>10. /\ Q[r] = p /\ \A z \in Requests : z # r => Q[z] = memory.requests[z]
       /\ S[s] = q /\ \A z \in Services : z # s => S[z] = memory.services[z]
       /\ p # None /\ q # None
  BY <1>2, <1>5, MemoryParts, Replace, NoRecord
<1>12. Later(memory, memory')
  <2>1. LaterRequests(memory.requests, Q)
    BY <1>10 DEF LaterRequests
  <2>2. LaterServices(memory.services, S)
    BY <1>5, <1>10 DEF LaterServices
  <2> QED  BY <1>9, <2>1, <2>2, LaterReflexive DEF Later
<1>14. Sound(memory)'
  <2>2. ApplicationsRefer(memory')
    <3>1. \A a \in Applications : memory.applications[a] # None =>
            memory.applications[a].service \in Services \cup {None}
      BY MemoryParts, Records DEF ApplicationRecords
    <3>2. \A z \in Services : memory.services[z] # None => S[z] # None
      BY <1>10
    <3> QED  BY <1>9, <3>1, <3>2, MemoryParts DEF ApplicationsRefer
  <2>4. Explained(S, Q, allowed)
    <3>1. LaterRequests(memory.requests, Q)
      BY <1>9, <1>12 DEF Later
    <3>2. Explained(memory.services, Q, allowed)
      BY <3>1, MemoryParts, ExplainedLater
    <3> QED  BY <1>5, <1>10, <3>2 DEF Explained
  <2> QED  BY <1>9, <2>2, <2>4, MemoryParts DEF Sound, Tabled
<1>15. Fresh'
  <2> SUFFICES ASSUME ~restarted
               PROVE  Apart' /\ AllAppliedFor' /\ PendingAgrees' /\ RequestsRefer'
    BY DEF Fresh
  <2>1. Apart /\ AllAppliedFor /\ PendingAgrees /\ RequestsRefer
    BY MemoryParts DEF Fresh
  <2>2. \A z \in Requests :
          /\ memory.requests[z] # None
          /\ memory.requests[z].service = s
          /\ memory.requests[z].status = "pending_review"
          => memory.requests[z].scopes \cap X = {}
    <3> SUFFICES ASSUME NEW z \in Requests, memory.requests[z] # None,
                        memory.requests[z].service = s,
                        memory.requests[z].status = "pending_review",
                        NEW x \in memory.requests[z].scopes
                 PROVE  x \in old.pending
      OBVIOUS
    <3>1. x \in Scopes
      BY MemoryParts, Records DEF RequestRecords
    <3>2. AskedFor(s, x)
      BY DEF AskedFor
    <3> QED  BY <2>1, <3>1, <3>2 DEF PendingAgrees
  <2>3. Apart'
    <3> SUFFICES ASSUME NEW y \in Requests, NEW z \in Requests,
                        y # z, Q[y] # None, Q[z] # None,
                        Q[y].service = Q[z].service,
                        Q[y].status = "pending_review",
                        Q[z].status = "pending_review"
                 PROVE  Q[y].scopes \cap Q[z].scopes = {}
      BY <1>9 DEF Apart
    <3>1. CASE y = r
      BY <1>2, <1>10, <2>2, <3>1
    <3>2. CASE z = r
      BY <1>2, <1>10, <2>2, <3>2
    <3>3. CASE y # r /\ z # r
      BY <1>10, <2>1, <3>3 DEF Apart
    <3> QED  BY <3>1, <3>2, <3>3
  <2>4. \A z \in Services, x \in Scopes : AppliedFor(z, x) => AppliedFor(z, x)'
    BY <1>12, MemoryParts, AppliedLater DEF Later
  <2>5. AllAppliedFor'
    BY <2>1, <2>4 DEF AllAppliedFor
  <2>6. \A z \in Services, x \in Scopes :
          AskedFor(z, x)' <=> AskedFor(z, x) \/ (z = s /\ x \in X)
    BY <1>2, <1>9, <1>10 DEF AskedFor
  <2>8. PendingAgrees'
    <3> SUFFICES ASSUME NEW z \in Services, S[z] # None, NEW x \in Scopes
                 PROVE  /\ AskedFor(z, x)' => x \in S[z].pending
                        /\ x \in S[z].pending =>
                             AskedFor(z, x)' \/ AppliedFor(z, x)'
                        /\ ~(x \in S[z].pending /\ x \in S[z].granted)
      BY <1>9 DEF PendingAgrees
    <3>1. CASE z = s
      BY <1>5, <1>10, <2>1, <2>4, <2>6, <3>1 DEF PendingAgrees
    <3>2. CASE z # s
      BY <1>10, <2>1, <2>4, <2>6, <3>2 DEF PendingAgrees
    <3> QED  BY <3>1, <3>2
  <2>9. RequestsRefer'
    <3>1. \A z \in Services : memory.services[z] # None => S[z] # None
      BY <1>10
    <3>2. ASSUME NEW z \in Requests, Q[z] # None
          PROVE  S[Q[z].service] # None
      <4>1. CASE z = r
        BY <1>2, <1>10, <4>1
      <4>2. CASE z # r
        BY <1>10, <2>1, <3>1, <3>2, <4>2, MemoryParts, Records DEF RequestsRefer
      <4> QED  BY <4>1, <4>2
    <3> QED  BY <1>9, <3>2 DEF RequestsRefer
  <2> QED  BY <2>3, <2>5, <2>8, <2>9
<1> QED  BY <1>9, <1>12, <1>14, <1>15 DEF Changed

Decided(r, decision) ==
  memory' = [memory EXCEPT
    !.requests[r].status = decision,
    !.services[memory.requests[r].service].granted =
      IF decision = "approved" THEN @ \cup memory.requests[r].scopes ELSE @,
    !.services[memory.requests[r].service].pending =
      @ \ memory.requests[r].scopes]

\* A request is decided, and its scopes are not pending any more.
LEMMA RequestDecided ==
  ASSUME IInv, UNCHANGED <<allowed, restarted>>,
         NEW r \in Requests, memory.requests[r] # None,
         memory.requests[r].status = "pending_review",
         memory.services[memory.requests[r].service] # None,
         NEW decision \in {"approved", "rejected"},
         Decided(r, decision)
  PROVE  Changed /\ Holds(memory', <<r, decision>>)
<1>0. PICK o : o = memory.requests[r]
  OBVIOUS
<1>1. /\ o \in RequestRecords /\ o.service \in Services /\ o.scopes \in SUBSET Scopes
      /\ memory.services[o.service] # None
  BY <1>0, MemoryParts, Records DEF RequestRecords
<1>2. PICK s \in Services : s = o.service
  BY <1>1
<1>3. PICK old \in ServiceRecords : old = memory.services[s]
  BY <1>1, <1>2, MemoryParts, Records
<1>4. PICK p : p = [o EXCEPT !.status = decision]
  OBVIOUS
<1>5. /\ p \in RequestRecords /\ p.service = s /\ p.scopes = o.scopes
      /\ p.status = decision
  BY <1>1, <1>2, <1>4 DEF RequestRecords
<1> DEFINE more == IF decision = "approved" THEN o.scopes ELSE {}
<1>6. PICK q : q = [old EXCEPT !.granted = @ \cup more, !.pending = @ \ o.scopes]
  OBVIOUS
<1>7. /\ q \in ServiceRecords /\ q.granted = old.granted \cup more
      /\ q.pending = old.pending \ o.scopes
  BY <1>1, <1>6 DEF ServiceRecords
<1> DEFINE Q == [memory.requests EXCEPT ![r] = p]
<1> DEFINE S == [memory.services EXCEPT ![s] = q]
<1>8. /\ Q \in [Requests -> RequestRecords \cup {None}]
      /\ S \in [Services -> ServiceRecords \cup {None}]
  BY <1>5, <1>7, MemoryParts, Replace
<1>9. /\ memory' \in States /\ memory'.requests = Q
      /\ memory'.services = S /\ memory'.applications = memory.applications
      /\ memory'.credentials = memory.credentials
  <2>1. memory'.requests = Q
    BY <1>0, <1>4, MemoryParts DEF States, Decided
  <2>2. memory'.services = S
    <3>1. (IF decision = "approved" THEN old.granted \cup o.scopes ELSE old.granted)
            = old.granted \cup more
      OBVIOUS
    <3>2. q = [[old EXCEPT !.granted = IF decision = "approved"
                                       THEN old.granted \cup o.scopes
                                       ELSE old.granted]
                 EXCEPT !.pending = old.pending \ o.scopes]
      BY <1>6, <3>1 DEF ServiceRecords
    <3> QED  BY <1>0, <1>2, <1>3, <3>2, MemoryParts
          DEF States, ServiceRecords, Decided
  <2>3. /\ memory'.applications = memory.applications
        /\ memory'.credentials = memory.credentials
        /\ memory' = [applications |-> memory'.applications,
                      services |-> memory'.services,
                      requests |-> memory'.requests,
                      credentials |-> memory'.credentials]
    BY MemoryParts DEF States, Decided
  <2>4. /\ memory.applications \in [Applications -> ApplicationRecords \cup {None}]
        /\ memory.credentials \in [Credentials -> CredentialRecords \cup {None}]
    BY MemoryParts, Replace
  <2> QED  BY <1>8, <2>1, <2>2, <2>3, <2>4 DEF States
<1>10. /\ Q[r] = p /\ \A z \in Requests : z # r => Q[z] = memory.requests[z]
       /\ S[s] = q /\ \A z \in Services : z # s => S[z] = memory.services[z]
       /\ p # None /\ q # None /\ old # None
  BY <1>5, <1>7, MemoryParts, Replace, NoRecord
<1> HIDE DEF Q, S
<1>11. \A z \in Services : memory.services[z] # None => S[z] # None
  BY <1>10
<1>12. Later(memory, memory')
  <2>1. LaterRequests(memory.requests, Q)
    BY <1>0, <1>2, <1>5, <1>10 DEF LaterRequests
  <2>2. LaterServices(memory.services, S)
    BY <1>3, <1>7, <1>10 DEF LaterServices
  <2> QED  BY <1>9, <2>1, <2>2, LaterReflexive DEF Later
<1>14. Sound(memory)'
  <2>2. ApplicationsRefer(memory')
    <3>1. \A a \in Applications : memory.applications[a] # None =>
            memory.applications[a].service \in Services \cup {None}
      BY MemoryParts, Records DEF ApplicationRecords
    <3> QED  BY <1>9, <1>11, <3>1, MemoryParts DEF ApplicationsRefer
  <2>4. Explained(S, Q, allowed)
    <3>1. LaterRequests(memory.requests, Q)
      BY <1>9, <1>12 DEF Later
    <3>2. Explained(memory.services, Q, allowed)
      BY <3>1, MemoryParts, ExplainedLater
    <3>3. \A x \in more : Q[r] # None /\ Q[r].service = s
                          /\ Q[r].status = "approved" /\ x \in Q[r].scopes
      BY <1>5, <1>10
    <3>4. \A z \in Services : z # s => S[z] = memory.services[z]
      BY <1>10
    <3>5. \A x \in S[s].granted : x \in old.granted \/ x \in more
      BY <1>7, <1>10
    <3> HIDE DEF more
    <3> QED  BY <1>3, <1>10, <3>2, <3>3, <3>4, <3>5 DEF Explained
  <2> QED  BY <1>9, <2>2, <2>4, MemoryParts DEF Sound, Tabled
<1>15. Fresh'
  <2> SUFFICES ASSUME ~restarted
               PROVE  Apart' /\ AllAppliedFor' /\ PendingAgrees' /\ RequestsRefer'
    BY DEF Fresh
  <2>1. Apart /\ AllAppliedFor /\ PendingAgrees /\ RequestsRefer
    BY MemoryParts DEF Fresh
  <2>3. Apart'
    <3> SUFFICES ASSUME NEW y \in Requests, NEW z \in Requests,
                        y # z, Q[y] # None, Q[z] # None,
                        Q[y].service = Q[z].service,
                        Q[y].status = "pending_review",
                        Q[z].status = "pending_review"
                 PROVE  Q[y].scopes \cap Q[z].scopes = {}
      BY <1>9 DEF Apart
    <3>1. y # r /\ z # r
      BY <1>5, <1>10
    <3> QED  BY <1>10, <2>1, <3>1 DEF Apart
  <2>4. \A z \in Services, x \in Scopes : AppliedFor(z, x) => AppliedFor(z, x)'
    BY <1>12, MemoryParts, AppliedLater DEF Later
  <2>5. AllAppliedFor'
    BY <2>1, <2>4 DEF AllAppliedFor
  <2>6. \A z \in Services, x \in Scopes :
          AskedFor(z, x)' <=> AskedFor(z, x) /\ ~(z = s /\ x \in o.scopes)
    <3> SUFFICES ASSUME NEW z \in Services, NEW x \in Scopes
                 PROVE  AskedFor(z, x)' <=>
                          AskedFor(z, x) /\ ~(z = s /\ x \in o.scopes)
      OBVIOUS
    <3>1. ASSUME NEW y \in Requests, Q[y] # None, Q[y].service = z,
                 Q[y].status = "pending_review", x \in Q[y].scopes
          PROVE  AskedFor(z, x) /\ ~(z = s /\ x \in o.scopes)
      <4>1. y # r /\ Q[y] = memory.requests[y]
        BY <1>5, <1>10, <3>1
      <4>2. AskedFor(z, x)
        BY <3>1, <4>1 DEF AskedFor
      <4>3. z = s => memory.requests[y].scopes \cap o.scopes = {}
        BY <1>0, <1>2, <2>1, <3>1, <4>1 DEF Apart
      <4> QED  BY <3>1, <4>1, <4>2, <4>3
    <3>2. ASSUME NEW y \in Requests, memory.requests[y] # None,
                 memory.requests[y].service = z, x \in memory.requests[y].scopes,
                 memory.requests[y].status = "pending_review",
                 ~(z = s /\ x \in o.scopes)
          PROVE  AskedFor(z, x)'
      <4>1. y # r
        BY <1>0, <1>2, <3>2
      <4>2. Q[y] = memory.requests[y]
        BY <1>10, <4>1
      <4> QED  BY <1>9, <3>2, <4>2 DEF AskedFor
    <3>3. AskedFor(z, x)' => AskedFor(z, x) /\ ~(z = s /\ x \in o.scopes)
      BY <1>9, <3>1 DEF AskedFor
    <3>4. AskedFor(z, x) /\ ~(z = s /\ x \in o.scopes) => AskedFor(z, x)'
      BY <3>2 DEF AskedFor
    <3> QED  BY <3>3, <3>4
  <2>7. \A x \in o.scopes : AskedFor(s, x)
    BY <1>0, <1>2 DEF AskedFor
  <2>8. PendingAgrees'
    <3> SUFFICES ASSUME NEW z \in Services, S[z] # None, NEW x \in Scopes
                 PROVE  /\ AskedFor(z, x)' => x \in S[z].pending
                        /\ x \in S[z].pending =>
                             AskedFor(z, x)' \/ AppliedFor(z, x)'
                        /\ ~(x \in S[z].pending /\ x \in S[z].granted)
      BY <1>9 DEF PendingAgrees
    <3>1. CASE z = s
      <4>1. /\ AskedFor(s, x) => x \in old.pending
            /\ x \in old.pending => AskedFor(s, x) \/ AppliedFor(s, x)
            /\ ~(x \in old.pending /\ x \in old.granted)
        BY <1>3, <1>10, <2>1 DEF PendingAgrees
      <4>2. more \subseteq o.scopes
        OBVIOUS
      <4> QED  BY <1>7, <1>10, <2>4, <2>6, <3>1, <4>1, <4>2
    <3>2. CASE z # s
      BY <1>10, <2>1, <2>4, <2>6, <3>2 DEF PendingAgrees
    <3> QED  BY <3>1, <3>2
  <2>9. RequestsRefer'
    <3> SUFFICES ASSUME NEW z \in Requests, Q[z] # None
                 PROVE  S[Q[z].service] # None
      BY <1>9 DEF RequestsRefer
    <3>1. CASE z = r
      BY <1>5, <1>10, <3>1
    <3>2. CASE z # r
      BY <1>10, <1>11, <2>1, <3>2, MemoryParts, Records DEF RequestsRefer
    <3> QED  BY <3>1, <3>2
  <2> QED  BY <2>3, <2>5, <2>8, <2>9
<1>16. Holds(memory', <<r, decision>>)
  <2>1. decision = "approved" => o.scopes \subseteq S[s].granted
    BY <1>7, <1>10
  <2>2. /\ memory'.requests[r] = p /\ p # None /\ p.status = decision
        /\ p.scopes = o.scopes /\ memory'.services[p.service] = S[s]
        /\ S[s] # None
    BY <1>5, <1>9, <1>10
  <2> QED  BY <2>1, <2>2, HoldsOfRequest
<1> QED  BY <1>9, <1>12, <1>14, <1>15, <1>16 DEF Changed

\* A credential is issued, and the active one of the same use gives way.
LEMMA CredentialAdded ==
  ASSUME IInv, UNCHANGED <<allowed, restarted>>,
         NEW c \in Credentials, NEW s \in Services, NEW env \in Environments,
         NEW kind \in Kinds, NEW old \in {"pending_cutover", "revoked"},
         memory.credentials[c] = None, AddCredential(c, s, env, kind, old)
  PROVE  /\ Changed
         /\ Holds(memory', <<c, "issued">>)
         /\ old = "revoked" => \A x \in Credentials :
              /\ SameUse(memory.credentials[x], s, env, kind)
              /\ memory.credentials[x].status = "active"
              => Holds(memory', <<x, "revoked">>)
<1> DEFINE M == memory.credentials
<1> DEFINE Gives(x) == SameUse(M[x], s, env, kind) /\ M[x].status = "active"
<1>1. PICK p : p = [service |-> s, environment |-> env, kind |-> kind,
                    status |-> "active"]
  OBVIOUS
<1>2. /\ p \in CredentialRecords /\ p.status = "active" /\ p.service = s
      /\ p.environment = env /\ p.kind = kind
  BY <1>1 DEF CredentialRecords
<1> DEFINE C == [x \in Credentials |-> IF x = c THEN p
                   ELSE IF Gives(x) THEN [M[x] EXCEPT !.status = old] ELSE M[x]]
<1>3. memory' = [memory EXCEPT !.credentials = C]
  BY <1>1 DEF AddCredential
<1>4. C[c] = p /\ p # None
  BY <1>2, NoRecord
<1>5. \A x \in Credentials : x # c /\ ~Gives(x) => C[x] = M[x]
  OBVIOUS
<1>6. \A x \in Credentials : x # c /\ Gives(x) =>
        /\ C[x] \in CredentialRecords /\ C[x].status = old /\ M[x] # None
  <2> SUFFICES ASSUME NEW x \in Credentials, x # c, Gives(x)
               PROVE  C[x] \in CredentialRecords /\ C[x].status = old /\ M[x] # None
    OBVIOUS
  <2>1. M[x] # None
    BY DEF SameUse
  <2>2. M[x] \in CredentialRecords
    BY <2>1, MemoryParts, Records
  <2>3. C[x] = [M[x] EXCEPT !.status = old]
    OBVIOUS
  <2> QED  BY <2>1, <2>2, <2>3 DEF CredentialRecords
<1>7. C \in [Credentials -> CredentialRecords \cup {None}]
  <2>1. \A x \in Credentials : M[x] \in CredentialRecords \cup {None}
    BY MemoryParts, Replace
  <2>2. \A x \in Credentials : C[x] \in CredentialRecords \cup {None}
    BY <1>2, <1>4, <1>5, <1>6, <2>1
  <2> QED  BY <2>2
<1>8. \A x \in Credentials : C[x].status = "active" => x = c \/ ~Gives(x)
  BY <1>6
<1>9. memory'.credentials = C
  BY <1>3, <1>7, MemoryParts, Replace
<1> HIDE DEF C
<1>10. LaterCredentials(M, C)
  <2> SUFFICES ASSUME NEW x \in Credentials, M[x] # None
               PROVE  /\ C[x] # None
                      /\ M[x].status # "active" => C[x].status # "active"
                      /\ M[x].status = "revoked" => C[x].status = "revoked"
    BY DEF LaterCredentials
  <2>1. x # c
    OBVIOUS
  <2>2. CASE Gives(x)
    BY <1>6, <2>1, <2>2, NoRecord
  <2>3. CASE ~Gives(x)
    BY <1>5, <2>1, <2>3
  <2> QED  BY <2>2, <2>3
<1>11. OneActiveIn(C)
  <2> SUFFICES ASSUME NEW x \in Credentials, NEW y \in Credentials, x # y,
                      C[x] # None, C[y] # None,
                      C[x].status = "active", C[y].status = "active",
                      C[x].service = C[y].service,
                      C[x].environment = C[y].environment,
                      C[x].kind = C[y].kind
               PROVE  FALSE
    BY DEF OneActiveIn
  <2>1. \A z \in {x, y} : z # c => C[z] = M[z] /\ ~Gives(z)
    BY <1>5, <1>8
  <2>2. CASE x # c /\ y # c
    BY <2>1, <2>2, MemoryParts DEF OneActiveIn
  <2>3. CASE x = c
    BY <1>2, <1>4, <2>1, <2>3 DEF SameUse
  <2>4. CASE y = c
    BY <1>2, <1>4, <2>1, <2>4 DEF SameUse
  <2> QED  BY <2>2, <2>3, <2>4
<1>12. Changed
  BY <1>3, <1>7, <1>10, <1>11, CredentialsChanged
<1>13. Holds(memory', <<c, "issued">>)
  BY <1>4, <1>9, HoldsOfCredential
<1>14. ASSUME NEW x \in Credentials, Gives(x), old = "revoked"
       PROVE  Holds(memory', <<x, "revoked">>)
  <2>1. x # c
    BY <1>14 DEF SameUse
  <2>2. C[x] # None /\ C[x].status = "revoked"
    BY <1>6, <1>14, <2>1, NoRecord
  <2> QED  BY <1>9, <2>2, HoldsOfCredential
<1> QED  BY <1>12, <1>13, <1>14

\* Credentials come to their end.
LEMMA CredentialsRevoked ==
  ASSUME IInv, UNCHANGED <<allowed, restarted>>,
         NEW R \in SUBSET Credentials, \A x \in R : memory.credentials[x] # None,
         memory' = [memory EXCEPT !.credentials = [x \in Credentials |->
           IF x \in R THEN [memory.credentials[x] EXCEPT !.status = "revoked"]
           ELSE memory.credentials[x]]]
  PROVE  Changed /\ \A x \in R : Holds(memory', <<x, "revoked">>)
<1> DEFINE M == memory.credentials
<1> DEFINE C == [x \in Credentials |->
                   IF x \in R THEN [M[x] EXCEPT !.status = "revoked"] ELSE M[x]]
<1>1. \A x \in R : /\ C[x] \in CredentialRecords /\ C[x] # None
                   /\ C[x].status = "revoked"
  <2> SUFFICES ASSUME NEW x \in R
               PROVE  /\ C[x] \in CredentialRecords /\ C[x] # None
                      /\ C[x].status = "revoked"
    OBVIOUS
  <2>1. M[x] \in CredentialRecords
    BY MemoryParts, Records
  <2>2. C[x] = [M[x] EXCEPT !.status = "revoked"]
    OBVIOUS
  <2> QED  BY <2>1, <2>2, NoRecord DEF CredentialRecords
<1>2. \A x \in Credentials : x \notin R => C[x] = M[x]
  OBVIOUS
<1>3. C \in [Credentials -> CredentialRecords \cup {None}]
  <2>1. \A x \in Credentials : M[x] \in CredentialRecords \cup {None}
    BY MemoryParts, Replace
  <2>2. \A x \in Credentials : C[x] \in CredentialRecords \cup {None}
    BY <1>1, <1>2, <2>1
  <2> QED  BY <2>2
<1>4. memory'.credentials = C
  BY <1>3, MemoryParts, Replace
<1>5. memory' = [memory EXCEPT !.credentials = C]
  OBVIOUS
<1> HIDE DEF C
<1>6. LaterCredentials(M, C)
  BY <1>1, <1>2 DEF LaterCredentials
<1>7. OneActiveIn(C)
  <2> SUFFICES ASSUME NEW x \in Credentials, NEW y \in Credentials, x # y,
                      C[x] # None, C[y] # None,
                      C[x].status = "active", C[y].status = "active",
                      C[x].service = C[y].service,
                      C[x].environment = C[y].environment,
                      C[x].kind = C[y].kind
               PROVE  FALSE
    BY DEF OneActiveIn
  <2>1. C[x] = M[x] /\ C[y] = M[y]
    BY <1>1, <1>2
  <2> QED  BY <2>1, MemoryParts DEF OneActiveIn
<1>8. Changed
  BY <1>3, <1>5, <1>6, <1>7, CredentialsChanged
<1>9. \A x \in R : Holds(memory', <<x, "revoked">>)
  BY <1>1, <1>4, HoldsOfCredential
<1> QED  BY <1>8, <1>9

-----------------------------------------------------------------------------
(* The handlers.                                                           *)

\* The names of the steps are distinct.
LEMMA Words ==
  /\ "applications" \in Tables /\ "applications" \notin Behind
  /\ "applications" \notin Kinds \cup {"verify", "answer", "approve"}
  /\ "begin" \notin Tables \cup Behind \cup Kinds \cup {"verify", "answer", "approve"}
  /\ \A op \in Kinds \cup {"idle", "verify", "answer", "approve"} : op \notin Tables
  /\ "idle" \notin Behind \cup Kinds \cup {"verify", "answer", "approve"}
  /\ "approve" \notin Behind \cup Kinds \cup {"verify", "answer"}
  /\ "verify" \notin Behind \cup Kinds \cup {"answer", "approve"}
  /\ "answer" \notin Behind \cup Kinds \cup {"verify", "approve"}
  /\ \A kind \in Kinds : kind \notin Behind \cup {"verify", "answer", "approve"}
  /\ Kinds \subseteq Steps /\ "approve" \in Steps /\ "answer" \in Steps
BY DEF Tables, Behind, Kinds, Steps

\* The tables are written in a fixed order, after the first under the lock.
LEMMA TableWords ==
  /\ "services" \in Behind /\ "requests" \in Behind /\ "credentials" \in Behind
  /\ "events" \in Behind /\ "commit" \in Behind
  /\ \A op \in Behind : /\ op \in Tables
                        /\ op \notin Kinds \cup {"verify", "answer", "approve"}
                        /\ op \in {"services", "requests", "credentials", "events", "commit"}
  /\ \A op \in Tables : op = "applications" \/ op \in Behind
  /\ \A op \in Steps : op \notin Behind
  /\ Tables \subseteq {"idle", "verify", "begin"} \cup Tables \cup Steps
BY DEF Tables, Behind, Kinds, Steps

\* A handler at rest reports nothing.
LEMMA IdleCall ==
  /\ Idle \in Calls
  /\ Idle.op = "idle" /\ Idle.then = "answer" /\ Idle.facts = {}
  /\ Idle.application = None /\ Idle.service = None /\ Idle.environment = None
  /\ Idle.sent = Nothing
BY EmptyTables DEF Idle, Calls, Steps

\* A call that only has its facts to tell once it is stored
Reporting(F) == [Idle EXCEPT !.op = "begin", !.facts = F]

\* A call that persists, then reports its facts.
LEMMA ReportingCall ==
  ASSUME NEW F \in SUBSET Facts
  PROVE  /\ Reporting(F) \in Calls
         /\ Reporting(F).op = "begin" /\ Reporting(F).then = "answer"
         /\ Reporting(F).facts = F /\ Reporting(F).sent = Nothing
BY EmptyTables DEF Reporting, Idle, Calls, Steps

\* Requests begun stay within their bound, and begin at rest.
LEMMA BeginCounts ==
  ASSUME IInv, NEW h \in Handlers, Begin(h)
  PROVE  begun' \in 0 .. MaxRequests /\ Op(h) = "idle"
<1>1. begun \in 0 .. MaxRequests /\ MaxRequests \in Nat
  BY RegistryAssumption DEF IInv, TypeOK
<1> QED  BY <1>1 DEF Begin, Idling, Op

\* A handler has changed the memory, and its next step is as it remembers.
LEMMA Goes ==
  ASSUME IInv, Changed,
         NEW h \in Handlers, Op(h) \notin Behind,
         NEW c \in Calls, c.op \notin Tables, Wait(h, c), Remembers(c)',
         c.sent \in {calls[h].sent, Nothing},
         UNCHANGED <<disk, draft, writer, answered, exposed, restarted, faults>>,
         allowed \subseteq allowed', allowed' \subseteq Services \X Scopes,
         begun' \in 0 .. MaxRequests, stray' \in BOOLEAN,
         rotations' \subseteq Services \X Environments \X Kinds
  PROVE  IInv'
<1>1. calls' = [calls EXCEPT ![h] = c]
  BY DEF Wait
<1>2. calls' \in [Handlers -> Calls]
  BY <1>1, Parts DEF IInv
<1>3. TypeOK'
  BY <1>2 DEF IInv, TypeOK, Changed
<1>4. c.op \notin Behind /\ c.op # "applications" /\ c.op # "services"
  BY Words, TableWords
<1>5. calls'[h] = c
  BY <1>1, Parts DEF IInv
<1>6. \A fact : Written(h, fact)'
  BY <1>4, <1>5, TableWords DEF Written, Op
<1>7. ASSUME NEW fact \in answered \ exposed
      PROVE  ~Endangers(h, fact)'
  <2>1. /\ calls'[h].sent.applications \in
             {calls[h].sent.applications, Empty.applications}
        /\ calls'[h].sent.services \in {calls[h].sent.services, Empty.services}
    BY <1>5, EmptyTables
  <2>2. fact[1] \in Requests =>
          memory'.requests[fact[1]] = memory.requests[fact[1]]
    BY KeptHolds DEF Changed, Later, LaterRequests
  <2> QED  BY <2>1, <2>2, KeptHolds, EndangersLess
<1> QED  BY <1>1, <1>3, <1>4, <1>6, <1>7, Handled

\* A handler has changed the memory and stores it, to answer then.
LEMMA Reports ==
  ASSUME IInv, Changed, allowed' = allowed,
         NEW h \in Handlers, Op(h) \notin Behind,
         NEW F \in SUBSET Facts,
         \A fact \in F : Telling(fact) /\ Holds(memory', fact),
         Store(h, [Idle EXCEPT !.facts = F]),
         begun' \in 0 .. MaxRequests, stray' \in BOOLEAN,
         rotations' \subseteq Services \X Environments \X Kinds
  PROVE  IInv'
<1>1. Wait(h, Reporting(F))
  <2>1. [[Idle EXCEPT !.facts = F] EXCEPT !.op = "begin"] = Reporting(F)
    BY DEF Reporting, Idle
  <2> QED  BY <2>1 DEF Store
<1>2. Remembers(Reporting(F))'
  BY ReportingCall, Words, NothingSending DEF Remembers
<1>3. Reporting(F).op \notin Tables
  BY ReportingCall, Words
<1>4. UNCHANGED <<disk, draft, writer, answered, exposed, restarted, faults>>
  BY DEF Store
<1>5. allowed' \subseteq Services \X Scopes
  BY DEF IInv, TypeOK
<1> QED  BY <1>1, <1>2, <1>3, <1>4, <1>5, ReportingCall, Goes

\* A sound change of memory with nothing to report preserves the invariant.
LEMMA ReportsNothing ==
  ASSUME IInv, Changed,
         NEW h \in Handlers, Op(h) \notin Behind, Persist(h, Idle),
         begun' \in 0 .. MaxRequests, stray' \in BOOLEAN,
         rotations' \subseteq Services \X Environments \X Kinds
  PROVE  IInv'
<1>1. [Idle EXCEPT !.facts = {}] = Idle
  BY DEF Idle
<1>2. Store(h, [Idle EXCEPT !.facts = {}]) /\ allowed' = allowed
  BY <1>1 DEF Persist
<1>3. {} \in SUBSET Facts /\ \A fact \in {} : Telling(fact) /\ Holds(memory', fact)
  OBVIOUS
<1> QED  BY <1>2, <1>3, Reports

\* Nothing but memory, calls and history changes for a handler that stores.
LEMMA Unmoved ==
  ASSUME IInv
  PROVE  /\ begun \in 0 .. MaxRequests /\ stray \in BOOLEAN
         /\ rotations \subseteq Services \X Environments \X Kinds
         /\ allowed \subseteq Services \X Scopes
BY DEF IInv, TypeOK

\* A step that changes nothing but the histories of answers preserves what does
\* not depend on them.
LEMMA BesideAnswers ==
  ASSUME IInv,
         UNCHANGED <<memory, disk, draft, writer, rotations, stray, calls, allowed,
                     restarted, faults>>,
         begun' \in 0 .. MaxRequests,
         answered' \subseteq Facts, exposed' \subseteq Facts, AnswersKept'
  PROVE  IInv'
<1>1. TypeOK' /\ Chain'
  BY DEF IInv, TypeOK, Chain
<1>2. Sound(memory)' /\ Sound(disk)' /\ Fresh'
  BY DEF IInv, Sound, Fresh, Apart, AllAppliedFor, PendingAgrees, RequestsRefer,
         AppliedFor, AskedFor
<1>3. DraftSound'
  BY DEF IInv, DraftSound, Op, WaitsForServices
<1>4. CallsKnow'
  <2>1. ASSUME NEW h \in Handlers
        PROVE  /\ Remembers(calls[h])'
               /\ \A fact \in calls'[h].facts : Written(h, fact)'
    <3>1. Remembers(calls[h]) /\ \A fact \in calls[h].facts : Written(h, fact)
      BY DEF IInv, CallsKnow
    <3>2. Remembers(calls[h])'
      BY <3>1 DEF Remembers, Sending
    <3>3. \A fact : Written(h, fact) => Written(h, fact)'
      BY DEF Written, Op, WaitsForServices
    <3> QED  BY <3>1, <3>2, <3>3
  <2> QED  BY <2>1 DEF CallsKnow
<1> QED  BY <1>1, <1>2, <1>3, <1>4 DEF IInv

\* A step that changes nothing preserves the invariant.
LEMMA StutterSafe ==
  ASSUME IInv, UNCHANGED vars
  PROVE  IInv'
<1>1. AnswersKept'
  BY DEF IInv, vars, AnswersKept, Kept, Endangers
<1>2. answered' \subseteq Facts /\ exposed' \subseteq Facts
  BY Parts DEF IInv, vars
<1> QED  BY <1>1, <1>2, Unmoved, BesideAnswers DEF vars

\* Submit preserves the invariant.
LEMMA SubmitSafe ==
  ASSUME IInv, NEW h \in Handlers, NEW a \in Applications,
         NEW E \in SUBSET Environments, NEW X \in SUBSET Scopes, Submit(h, a, E, X)
  PROVE  IInv'
<1>1. PICK r : r = [status |-> "pending_review", environments |-> E,
                    scopes |-> X, service |-> None]
  OBVIOUS
<1>2. r \in ApplicationRecords /\ r.status # "approved" /\ r.service = None /\ r # None
  <2>1. r \in ApplicationRecords /\ r.status # "approved" /\ r.service = None
    BY <1>1 DEF ApplicationRecords
  <2> QED  BY <2>1, NoRecord
<1>3. /\ memory.applications[a] = None
      /\ memory' = [memory EXCEPT !.applications[a] = r]
      /\ UNCHANGED <<allowed, restarted>>
  BY <1>1 DEF Submit, Persist, Store
<1>4. Changed
  BY <1>2, <1>3, ApplicationChanged
<1>5. begun' \in 0 .. MaxRequests /\ Op(h) \notin Behind
  BY BeginCounts, Words DEF Submit
<1>6. CASE Persist(h, Idle)
  BY <1>4, <1>5, <1>6, Unmoved, ReportsNothing DEF Submit
<1>7. CASE /\ E = {"sandbox"}
           /\ Persist(h, [Idle EXCEPT !.then = "approve", !.application = a,
                                      !.environment = "sandbox"])
  <2>1. PICK c : c = [Idle EXCEPT !.op = "begin", !.then = "approve",
                                  !.application = a, !.environment = "sandbox"]
    OBVIOUS
  <2>2. "sandbox" \in Environments /\ "sandbox" # None
    BY <1>7, RegistryAssumption
  <2>4. /\ c \in Calls /\ c.op = "begin" /\ c.then = "approve"
        /\ c.application = a /\ c.environment = "sandbox" /\ c.facts = {}
        /\ c.sent = Nothing
    BY <2>1, <2>2, Words, EmptyTables DEF Idle, Calls
  <2>5. memory'.applications[a] = r /\ a # None
    BY <1>3, MemoryParts, Replace, RegistryAssumption DEF States
  <2>6. Remembers(c)'
    BY <1>2, <2>2, <2>4, <2>5, Words, NothingSending DEF Remembers
  <2>7. /\ Wait(h, c)
        /\ UNCHANGED <<disk, draft, writer, answered, exposed, restarted, faults>>
    <3>1. [[Idle EXCEPT !.then = "approve", !.application = a,
                        !.environment = "sandbox"] EXCEPT !.op = "begin"] = c
      BY <2>1 DEF Idle
    <3> QED  BY <1>7, <3>1 DEF Persist, Store
  <2>8. UNCHANGED <<rotations, stray>>
    BY DEF Submit
  <2> QED  BY <1>3, <1>4, <1>5, <2>4, <2>6, <2>7, <2>8, Words, Unmoved, Goes
<1> QED  BY <1>6, <1>7 DEF Submit

\* Reject preserves the invariant.
LEMMA RejectSafe ==
  ASSUME IInv, NEW h \in Handlers, NEW a \in Applications, Reject(h, a)
  PROVE  IInv'
<1>0. PICK o \in ApplicationRecords : o = memory.applications[a]
  BY MemoryParts, Records DEF Reject
<1>1. o.status = "pending_review" /\ o.service = None
  <2>1. o.status = "pending_review"
    BY <1>0 DEF Reject
  <2> QED  BY <1>0, <2>1, MemoryParts, NoRecord DEF Approved
<1>2. PICK r : r = [o EXCEPT !.status = "rejected"]
  OBVIOUS
<1>3. r \in ApplicationRecords /\ r.status # "approved" /\ r.service = None
  BY <1>1, <1>2 DEF ApplicationRecords
<1>4. memory' = [memory EXCEPT !.applications[a] = r]
  BY <1>0, <1>2 DEF Reject
<1>5. UNCHANGED <<allowed, restarted>> /\ Persist(h, Idle)
  BY DEF Reject, Persist, Store
<1>6. Changed
  BY <1>0, <1>1, <1>3, <1>4, <1>5, ApplicationChanged
<1>7. begun' \in 0 .. MaxRequests /\ Op(h) \notin Behind
  BY BeginCounts, Words DEF Reject
<1>8. stray' \in BOOLEAN /\ rotations' = rotations
  BY DEF Reject
<1> QED  BY <1>5, <1>6, <1>7, <1>8, Unmoved, ReportsNothing

\* Approve preserves the invariant.
LEMMA ApproveSafe ==
  ASSUME IInv, NEW h \in Handlers, NEW a \in Applications, NEW s \in Services,
         NEW status \in {"draft", "active"}, NEW grant \in BOOLEAN,
         NEW D \in SUBSET Domains, NEW env \in Environments \cup {None},
         Approve(h, a, s, status, grant, D, env)
  PROVE  IInv'
<1>1. /\ Changed
      /\ allowed \subseteq allowed' /\ allowed' \subseteq Services \X Scopes
      /\ memory'.services[s] # None
      /\ Holds(memory', <<a, "approved">>)
  <2>1. status \in Statuses
    BY DEF Statuses
  <2>2. /\ memory.applications[a] # None
        /\ memory.applications[a].status # "approved"
        /\ memory.services[s] = None
        /\ Approval(a, s, status, grant, D) /\ UNCHANGED restarted
    BY DEF Approve, Store
  <2> QED  BY <2>1, <2>2, ApprovalChanged
<1>2. PICK c : c = [Idle EXCEPT !.op = "begin",
                      !.then = IF env = None THEN "answer" ELSE "key",
                      !.service = IF env = None THEN None ELSE s,
                      !.environment = env, !.facts = {<<a, "approved">>}]
  OBVIOUS
<1>3. /\ Wait(h, c)
      /\ UNCHANGED <<disk, draft, writer, answered, exposed, restarted, faults>>
  <2>1. [[Idle EXCEPT !.then = IF env = None THEN "answer" ELSE "key",
                      !.service = IF env = None THEN None ELSE s,
                      !.environment = env, !.facts = {<<a, "approved">>}]
           EXCEPT !.op = "begin"] = c
    BY <1>2 DEF Idle
  <2> QED  BY <2>1 DEF Approve, Store
<1>4. /\ c \in Calls /\ c.op = "begin" /\ c.sent = Nothing
      /\ c.then = IF env = None THEN "answer" ELSE "key"
      /\ c.service = IF env = None THEN None ELSE s
      /\ c.environment = env /\ c.facts = {<<a, "approved">>}
  <2>2. {<<a, "approved">>} \in SUBSET Facts
    BY DEF Facts
  <2>3. (IF env = None THEN "answer" ELSE "key") \in Steps
    BY DEF Steps
  <2> QED  BY <1>2, <2>2, <2>3, EmptyTables DEF Idle, Calls
<1>5. Remembers(c)'
  <2>1. \A fact \in c.facts : Telling(fact) /\ Holds(memory', fact)
    BY <1>1, <1>4 DEF Telling
  <2>2. s # None /\ "key" # "approve" /\ "key" # "answer"
    BY RegistryAssumption
  <2>3. CASE env = None
    BY <1>4, <2>1, <2>3, Words, NothingSending DEF Remembers
  <2>4. CASE env # None
    BY <1>1, <1>4, <2>1, <2>2, <2>4, Words, NothingSending DEF Remembers
  <2> QED  BY <2>3, <2>4
<1>6. begun' \in 0 .. MaxRequests /\ Op(h) \notin Behind
  BY BeginCounts, Words DEF Approve
<1>7. UNCHANGED <<rotations, stray>>
  BY DEF Approve
<1> QED  BY <1>1, <1>3, <1>4, <1>5, <1>6, <1>7, Words, Unmoved, Goes

\* What a handler that is at a step remembers
LEMMA CallParts ==
  ASSUME IInv, NEW h \in Handlers
  PROVE  /\ calls[h] \in Calls /\ Remembers(calls[h])
         /\ calls[h].op = Op(h)
         /\ calls[h].application \in Applications \cup {None}
         /\ calls[h].service \in Services \cup {None}
         /\ calls[h].environment \in Environments \cup {None}
         /\ calls[h].facts \in SUBSET Facts
         /\ calls[h].sent \in Sendings /\ Sending(calls[h].sent)
BY Parts DEF IInv, CallsKnow, Remembers, Op, Calls

\* What a handler has sent stays in order when memory advances.
LEMMA SentLater ==
  ASSUME IInv, NEW h \in Handlers, Later(memory, memory'),
         NEW sent, sent = calls[h].sent
  PROVE  Sending(sent)'
BY CallParts, SendingLater

\* What is told of an approval found in memory is kept or exposed.
LEMMA ApproveAgainSafe ==
  ASSUME IInv, NEW h \in Handlers, NEW a \in Applications,
         NEW env \in Environments \cup {None}, ApproveAgain(h, a, env)
  PROVE  IInv'
<1>1. PICK fact : fact = <<a, "approved">>
  OBVIOUS
<1>2. fact \in Facts /\ Telling(fact) /\ Holds(memory, fact)
  <2>1. fact \in Facts /\ Telling(fact) /\ fact[1] = a /\ fact[2] = "approved"
    BY <1>1 DEF Facts, Telling
  <2>2. memory.applications[a] # None /\ memory.applications[a].status = "approved"
    BY DEF ApproveAgain
  <2> QED  BY <2>1, <2>2, HoldsOfApplication
<1>3. /\ UNCHANGED <<memory, disk, draft, writer, rotations, stray, allowed,
                     restarted, faults>>
      /\ begun' \in 0 .. MaxRequests /\ Op(h) \notin Behind
  BY BeginCounts, Words DEF ApproveAgain
<1>4. CASE env = None
  <2>1. /\ UNCHANGED calls /\ answered' = answered \cup {fact}
        /\ exposed' \in {exposed, exposed \cup {fact}}
        /\ fact \notin exposed' =>
             /\ Holds(disk, fact) /\ Holds(draft, fact)
             /\ \A g \in Handlers : ~Endangers(g, fact)
        /\ fact \in exposed' \/ exposed' = exposed
    BY <1>1, <1>4 DEF ApproveAgain, Tell
  <2>2. ASSUME NEW other \in answered' \ exposed'
        PROVE  Kept(other)
    <3>1. CASE other \in answered \ exposed
      BY <3>1 DEF IInv, AnswersKept
    <3>2. CASE other = fact /\ fact \notin exposed'
      BY <1>2, <2>1, <3>2 DEF Kept
    <3> QED  BY <2>1, <2>2, <3>1, <3>2
  <2>3. AnswersKept'
    BY <1>3, <2>1, <2>2 DEF AnswersKept, Kept, Endangers
  <2>4. answered' \subseteq Facts /\ exposed' \subseteq Facts
    BY <1>2, <2>1, Parts DEF IInv
  <2> QED  BY <1>3, <2>1, <2>3, <2>4, BesideAnswers
<1>5. CASE env # None
  <2>1. PICK s : s = memory.applications[a].service
    OBVIOUS
  <2>2. s \in Services /\ memory.services[s] # None
    <3>1. /\ memory.applications[a] # None
          /\ memory.applications[a].status = "approved"
      BY DEF ApproveAgain
    <3>2. s # None
      BY <2>1, <3>1, MemoryParts DEF Approved
    <3>3. s \in Services \cup {None}
      BY <2>1, <3>1, MemoryParts, Records DEF ApplicationRecords
    <3> QED  BY <2>1, <3>1, <3>2, <3>3, MemoryParts DEF ApplicationsRefer
  <2>3. PICK c : c = [Idle EXCEPT !.op = "key", !.service = s,
                                  !.environment = env, !.facts = {fact}]
    OBVIOUS
  <2>4. /\ Wait(h, c) /\ UNCHANGED <<answered, exposed>>
    BY <1>1, <1>5, <2>1, <2>3 DEF ApproveAgain
  <2>5. "key" \in Steps /\ "key" \in Kinds
    BY DEF Steps, Kinds
  <2>6. /\ c \in Calls /\ c.op = "key" /\ c.then = "answer" /\ c.service = s
        /\ c.environment = env /\ c.facts = {fact} /\ c.sent = Nothing
    BY <1>2, <1>5, <2>2, <2>3, <2>5, EmptyTables DEF Idle, Calls, Steps
  <2>7. Remembers(c)'
    <3>1. s # None /\ "key" # "approve" /\ "key" # "answer"
      BY <2>2, RegistryAssumption
    <3> QED  BY <1>2, <1>3, <1>5, <2>2, <2>6, <3>1, Words, NothingSending DEF Remembers
  <2>8. Changed
    BY <1>3, MemorySame
  <2>9. c.op \notin Tables
    BY <2>5, <2>6, Words
  <2> QED  BY <1>3, <2>4, <2>6, <2>7, <2>8, <2>9, Unmoved, Goes
<1> QED  BY <1>4, <1>5

\* ApproveOnboarding preserves the invariant.
LEMMA ApproveOnboardingSafe ==
  ASSUME IInv, NEW h \in Handlers, NEW s \in Services, NEW D \in SUBSET Domains,
         ApproveOnboarding(h, s, D)
  PROVE  IInv'
<1>0. Op(h) = "approve"
  BY DEF ApproveOnboarding, Op
<1>1. PICK a \in Applications : /\ a = calls[h].application
                                /\ memory.applications[a] # None
                                /\ calls[h].environment # None
  BY <1>0, CallParts DEF Remembers
<1>2. /\ Changed
      /\ allowed \subseteq allowed' /\ allowed' \subseteq Services \X Scopes
      /\ memory'.services[s] # None
      /\ Holds(memory', <<a, "approved">>)
  <2>1. "active" \in Statuses
    BY DEF Statuses
  <2>2. /\ memory.applications[a].status # "approved"
        /\ memory.services[s] = None
        /\ Approval(a, s, "active", TRUE, D) /\ UNCHANGED restarted
    BY <1>1 DEF ApproveOnboarding, Store
  <2> QED  BY <1>1, <2>1, <2>2, ApprovalChanged
<1>3. PICK c : c = [calls[h] EXCEPT !.op = "begin", !.then = "key",
                      !.service = s, !.facts = {<<a, "approved">>}]
  OBVIOUS
<1>4. /\ Wait(h, c)
      /\ UNCHANGED <<disk, draft, writer, answered, exposed, restarted, faults>>
  <2>1. [[calls[h] EXCEPT !.then = "key", !.service = s,
                          !.facts = {<<a, "approved">>}]
           EXCEPT !.op = "begin"] = c
    BY <1>3, CallParts DEF Calls
  <2> QED  BY <1>1, <2>1 DEF ApproveOnboarding, Store
<1>5. /\ c \in Calls /\ c.op = "begin" /\ c.then = "key"
      /\ c.service = s /\ c.environment = calls[h].environment
      /\ c.facts = {<<a, "approved">>} /\ c.sent = calls[h].sent
  <2>2. {<<a, "approved">>} \in SUBSET Facts
    BY DEF Facts
  <2>3. "key" \in Steps
    BY DEF Steps
  <2> QED  BY <1>3, <2>2, <2>3, CallParts DEF Calls
<1>6. Remembers(c)'
  <2>1. \A fact \in c.facts : Telling(fact) /\ Holds(memory', fact)
    BY <1>2, <1>5 DEF Telling
  <2>2. s # None /\ "key" # "approve" /\ "key" # "answer"
    BY RegistryAssumption
  <2>3. Sending(c.sent)'
    BY <1>2, <1>5, SentLater DEF Changed, Sending
  <2> QED  BY <1>1, <1>2, <1>5, <2>1, <2>2, <2>3, Words DEF Remembers
<1>7. UNCHANGED <<rotations, stray, begun>>
  BY DEF ApproveOnboarding
<1> QED  BY <1>0, <1>2, <1>4, <1>5, <1>6, <1>7, Words, Unmoved, Goes

\* FindApproved preserves the invariant.
LEMMA FindApprovedSafe ==
  ASSUME IInv, NEW h \in Handlers, FindApproved(h)
  PROVE  IInv'
<1>0. Op(h) = "approve"
  BY DEF FindApproved, Op
<1>1. PICK a \in Applications : /\ a = calls[h].application
                                /\ memory.applications[a] # None
                                /\ calls[h].environment # None
  BY <1>0, CallParts DEF Remembers
<1>2. /\ memory.applications[a].service \in Services
      /\ memory.services[memory.applications[a].service] # None
  <2>1. memory.applications[a].service # None
    BY <1>1, MemoryParts DEF FindApproved, Approved
  <2>2. memory.applications[a].service \in Services \cup {None}
    BY <1>1, MemoryParts, Records DEF ApplicationRecords
  <2> QED  BY <1>1, <2>1, <2>2, MemoryParts DEF ApplicationsRefer
<1>3. PICK c : c = [calls[h] EXCEPT !.op = "key",
                      !.service = memory.applications[a].service]
  OBVIOUS
<1>4. Wait(h, c)
  BY <1>1, <1>3 DEF FindApproved
<1>5. "key" \in {"idle", "verify", "begin"} \cup Tables \cup Steps /\ "key" \in Kinds
  BY DEF Steps, Kinds
<1>6. /\ c \in Calls /\ c.op = "key" /\ c.then = calls[h].then
      /\ c.application = a
      /\ c.service = memory.applications[a].service
      /\ c.environment = calls[h].environment /\ c.facts = calls[h].facts
      /\ c.sent = calls[h].sent
  BY <1>1, <1>2, <1>3, <1>5, CallParts DEF Calls
<1>7. UNCHANGED <<memory, disk, draft, writer, rotations, stray, begun, answered,
                  exposed, allowed, restarted, faults>>
  BY DEF FindApproved
<1>8. Remembers(c)'
  <2>1. \A fact \in c.facts : Telling(fact) /\ Holds(memory', fact)
    BY <1>6, <1>7, CallParts DEF Remembers
  <2>2. a # None /\ memory.applications[a].service # None /\ "key" # "answer"
    BY <1>2, RegistryAssumption
  <2>3. Sending(c.sent)'
    BY <1>6, <1>7, CallParts DEF Sending
  <2> QED  BY <1>1, <1>2, <1>6, <1>7, <2>1, <2>2, <2>3 DEF Remembers
<1>9. Changed
  BY <1>7, MemorySame
<1>10. c.op \notin Tables
  BY <1>5, <1>6, Words
<1> QED  BY <1>0, <1>4, <1>6, <1>7, <1>8, <1>9, <1>10, Words, Unmoved, Goes

\* A handler that changes a service, but not its scopes, and stores it
LEMMA ServiceSafe ==
  ASSUME IInv, NEW h \in Handlers, Op(h) \notin Behind,
         NEW s \in Services, memory.services[s] # None,
         NEW r \in ServiceRecords, SetService(s, r),
         r.granted = memory.services[s].granted,
         r.pending = memory.services[s].pending,
         begun' \in 0 .. MaxRequests, UNCHANGED <<rotations, stray>>,
         Persist(h, Idle)
  PROVE  IInv'
<1>1. UNCHANGED <<allowed, restarted>>
  BY DEF Persist, Store
<1>2. Changed
  BY <1>1, ServiceChanged
<1> QED  BY <1>2, Unmoved, ReportsNothing

\* UpdateStatus preserves the invariant.
LEMMA UpdateStatusSafe ==
  ASSUME IInv, NEW h \in Handlers, NEW s \in Services, NEW status \in StatusUpdates,
         UpdateStatus(h, s, status)
  PROVE  IInv'
<1>1. PICK old \in ServiceRecords : old = memory.services[s]
  BY MemoryParts, Records DEF UpdateStatus
<1>2. PICK r : r = [old EXCEPT !.status = status]
  OBVIOUS
<1>3. r \in ServiceRecords /\ r.granted = old.granted /\ r.pending = old.pending
  BY <1>2, RegistryAssumption DEF ServiceRecords
<1>4. /\ memory.services[s] # None /\ SetService(s, r)
      /\ Persist(h, Idle) /\ UNCHANGED <<rotations, stray>>
  BY <1>1, <1>2 DEF UpdateStatus
<1>5. begun' \in 0 .. MaxRequests /\ Op(h) \notin Behind
  BY BeginCounts, Words DEF UpdateStatus
<1> QED  BY <1>1, <1>3, <1>4, <1>5, ServiceSafe

\* UpdateAllowlist preserves the invariant.
LEMMA UpdateAllowlistSafe ==
  ASSUME IInv, NEW h \in Handlers, NEW s \in Services, NEW d \in Domains,
         UpdateAllowlist(h, s, d)
  PROVE  IInv'
<1>1. PICK old \in ServiceRecords : old = memory.services[s]
  BY MemoryParts, Records DEF UpdateAllowlist
<1>2. PICK r : r = [old EXCEPT !.domains = @ \cup {d}]
  OBVIOUS
<1>3. r \in ServiceRecords /\ r.granted = old.granted /\ r.pending = old.pending
  BY <1>2 DEF ServiceRecords
<1>4. /\ memory.services[s] # None /\ SetService(s, r)
      /\ Persist(h, Idle) /\ UNCHANGED <<rotations, stray>>
  BY <1>1, <1>2 DEF UpdateAllowlist
<1>5. begun' \in 0 .. MaxRequests /\ Op(h) \notin Behind
  BY BeginCounts, Words DEF UpdateAllowlist
<1> QED  BY <1>1, <1>3, <1>4, <1>5, ServiceSafe

\* VerifyDomains preserves the invariant.
LEMMA VerifyDomainsSafe ==
  ASSUME IInv, NEW h \in Handlers, NEW s \in Services, NEW D \in SUBSET Domains,
         VerifyDomains(h, s, D)
  PROVE  IInv'
<1>1. PICK old \in ServiceRecords : old = memory.services[s]
  BY MemoryParts, Records DEF VerifyDomains
<1>2. PICK r : r = [old EXCEPT !.verified = @ \cup D]
  OBVIOUS
<1>3. r \in ServiceRecords /\ r.granted = old.granted /\ r.pending = old.pending
  BY <1>2 DEF ServiceRecords
<1>4. /\ memory.services[s] # None /\ SetService(s, r)
      /\ Persist(h, Idle) /\ UNCHANGED <<rotations, stray>>
  BY <1>1, <1>2 DEF VerifyDomains
<1>5. begun' \in 0 .. MaxRequests /\ Op(h) \notin Behind
  BY BeginCounts, Words DEF VerifyDomains
<1> QED  BY <1>1, <1>3, <1>4, <1>5, ServiceSafe

\* The service is still there when the lookups end.
LEMMA FinishVerificationSafe ==
  ASSUME IInv, NEW h \in Handlers, NEW D \in SUBSET Domains,
         FinishVerification(h, D)
  PROVE  IInv'
<1>0. Op(h) = "verify"
  BY DEF FinishVerification, Op
<1>1. PICK s \in Services : s = calls[h].service /\ memory.services[s] # None
  BY <1>0, CallParts DEF Remembers
<1>2. PICK old \in ServiceRecords : old = memory.services[s]
  BY <1>1, MemoryParts, Records
<1>3. PICK r : r = [old EXCEPT !.verified = calls[h].seen \cup D]
  OBVIOUS
<1>4. calls[h].seen \in SUBSET Domains
  BY CallParts DEF Calls
<1>5. r \in ServiceRecords /\ r.granted = old.granted /\ r.pending = old.pending
  BY <1>3, <1>4 DEF ServiceRecords
<1>6. /\ SetService(s, r)
      /\ Persist(h, Idle) /\ UNCHANGED <<rotations, stray, begun>>
  BY <1>1, <1>2, <1>3 DEF FinishVerification
<1> QED  BY <1>0, <1>1, <1>2, <1>5, <1>6, Words, Unmoved, ServiceSafe

\* StartVerification preserves the invariant.
LEMMA StartVerificationSafe ==
  ASSUME IInv, NEW h \in Handlers, NEW s \in Services, NEW D \in SUBSET Domains,
         StartVerification(h, s, D)
  PROVE  IInv'
<1>1. memory.services[s] # None /\ memory.services[s] \in ServiceRecords
  BY MemoryParts, Records DEF StartVerification
<1>2. memory.services[s].verified \in SUBSET Domains
  BY <1>1 DEF ServiceRecords
<1>3. PICK c : c = [Idle EXCEPT !.op = "verify", !.service = s, !.asked = D,
                                !.seen = memory.services[s].verified]
  OBVIOUS
<1>5. /\ c \in Calls /\ c.op = "verify" /\ c.then = "answer" /\ c.service = s
      /\ c.facts = {} /\ c.sent = Nothing
  BY <1>2, <1>3, Words, EmptyTables DEF Idle, Calls
<1>6. Wait(h, c) /\ UNCHANGED <<memory, disk, draft, writer, rotations, stray,
                                answered, exposed, allowed, restarted, faults>>
  BY <1>3 DEF StartVerification
<1>7. Remembers(c)'
  <2>1. s # None
    BY RegistryAssumption
  <2> QED  BY <1>1, <1>5, <1>6, <2>1, Words, NothingSending DEF Remembers
<1>8. begun' \in 0 .. MaxRequests /\ Op(h) \notin Behind
  BY BeginCounts, Words DEF StartVerification
<1>9. Changed
  BY <1>6, MemorySame
<1>10. c.op \notin Tables
  BY <1>5, Words
<1> QED  BY <1>5, <1>6, <1>7, <1>8, <1>9, <1>10, Unmoved, Goes

\* SubmitScopeRequest preserves the invariant.
LEMMA SubmitScopeRequestSafe ==
  ASSUME IInv, NEW h \in Handlers, NEW s \in Services, NEW r \in Requests,
         NEW X \in SUBSET Scopes, SubmitScopeRequest(h, s, r, X)
  PROVE  IInv'
<1>1. /\ memory.services[s] # None /\ memory.requests[r] = None
      /\ X \cap memory.services[s].granted = {}
      /\ X \cap memory.services[s].pending = {}
      /\ Persist(h, Idle) /\ UNCHANGED <<rotations, stray>>
  BY DEF SubmitScopeRequest
<1>2. Submitted(s, r, X)
  BY DEF SubmitScopeRequest, Submitted
<1>3. UNCHANGED <<allowed, restarted>>
  BY <1>1 DEF Persist, Store
<1>4. Changed
  BY <1>1, <1>2, <1>3, RequestSubmitted
<1>5. begun' \in 0 .. MaxRequests /\ Op(h) \notin Behind
  BY BeginCounts, Words DEF SubmitScopeRequest
<1> QED  BY <1>1, <1>4, <1>5, Unmoved, ReportsNothing

\* DecideScopeRequest preserves the invariant.
LEMMA DecideScopeRequestSafe ==
  ASSUME IInv, NEW h \in Handlers, NEW r \in Requests,
         NEW decision \in {"approved", "rejected"}, DecideScopeRequest(h, r, decision)
  PROVE  IInv'
<1>1. /\ memory.requests[r] # None
      /\ memory.requests[r].status = "pending_review"
      /\ memory.services[memory.requests[r].service] # None
      /\ Persist(h, [Idle EXCEPT !.facts = {<<r, decision>>}])
      /\ UNCHANGED <<rotations, stray>>
  BY DEF DecideScopeRequest
<1>2. Decided(r, decision)
  BY DEF DecideScopeRequest, Decided
<1>3. /\ Store(h, [Idle EXCEPT !.facts = {<<r, decision>>}])
      /\ UNCHANGED <<allowed, restarted>>
  BY <1>1 DEF Persist, Store
<1>4. Changed /\ Holds(memory', <<r, decision>>)
  BY <1>1, <1>2, <1>3, RequestDecided
<1>5. begun' \in 0 .. MaxRequests /\ Op(h) \notin Behind
  BY BeginCounts, Words DEF DecideScopeRequest
<1>6. {<<r, decision>>} \in SUBSET Facts
  BY DEF Facts
<1>7. Telling(<<r, decision>>)
  BY RegistryAssumption DEF Telling
<1>8. \A fact \in {<<r, decision>>} : Telling(fact) /\ Holds(memory', fact)
  BY <1>4, <1>7
<1> QED  BY <1>1, <1>3, <1>4, <1>5, <1>6, <1>8, Unmoved, Reports

\* RecordEvent preserves the invariant.
LEMMA RecordEventSafe ==
  ASSUME IInv, NEW h \in Handlers, RecordEvent(h)
  PROVE  IInv'
<1>1. UNCHANGED <<memory, rotations, stray, begun>> /\ Op(h) \notin Behind
  BY Words DEF RecordEvent, Idling, Op
<1>2. CASE Persist(h, Idle)
  <2>1. UNCHANGED <<allowed, restarted>>
    BY <1>2 DEF Persist, Store
  <2>2. Changed
    BY <1>1, <2>1, MemorySame
  <2> QED  BY <1>1, <1>2, <2>2, Unmoved, ReportsNothing
<1>3. CASE UNCHANGED <<disk, draft, writer, calls, answered, exposed, allowed,
                       restarted, faults>>
  BY <1>1, <1>3, StutterSafe DEF vars
<1> QED  BY <1>2, <1>3 DEF RecordEvent

-----------------------------------------------------------------------------

\* Facts of credentials that hold may be told.
LEMMA CredentialFacts ==
  \A c \in Credentials : /\ <<c, "issued">> \in Facts /\ <<c, "revoked">> \in Facts
                         /\ Telling(<<c, "issued">>) /\ Telling(<<c, "revoked">>)
BY RegistryAssumption DEF Facts, Telling

\* Issue preserves the invariant.
LEMMA IssueSafe ==
  ASSUME IInv, NEW h \in Handlers, NEW c \in Credentials, NEW s \in Services,
         NEW env \in Environments, NEW kind \in Kinds, Issue(h, c, s, env, kind)
  PROVE  IInv'
<1>1. /\ memory.credentials[c] = None
      /\ AddCredential(c, s, env, kind, "pending_cutover")
      /\ Persist(h, [Idle EXCEPT !.facts = {<<c, "issued">>}])
      /\ UNCHANGED <<rotations, stray>>
  BY DEF Issue
<1>2. /\ Store(h, [Idle EXCEPT !.facts = {<<c, "issued">>}])
      /\ UNCHANGED <<allowed, restarted>>
  BY <1>1 DEF Persist, Store
<1>3. Changed /\ Holds(memory', <<c, "issued">>)
  BY <1>1, <1>2, CredentialAdded
<1>4. begun' \in 0 .. MaxRequests /\ Op(h) \notin Behind
  BY BeginCounts, Words DEF Issue
<1>5. {<<c, "issued">>} \in SUBSET Facts
  BY CredentialFacts
<1>6. \A fact \in {<<c, "issued">>} : Telling(fact) /\ Holds(memory', fact)
  BY <1>3, CredentialFacts
<1> QED  BY <1>1, <1>2, <1>3, <1>4, <1>5, <1>6, Unmoved, Reports

\* Provision preserves the invariant.
LEMMA ProvisionSafe ==
  ASSUME IInv, NEW h \in Handlers, NEW x \in Credentials, Provision(h, x)
  PROVE  IInv'
<1>1. PICK kind \in Kinds : kind = Op(h) /\ kind = calls[h].op
  BY DEF Provision, Op
<1>2. PICK s \in Services, env \in Environments :
        /\ s = calls[h].service /\ env = calls[h].environment
        /\ memory.services[s] # None
  BY <1>1, CallParts DEF Remembers
<1>3. /\ memory.credentials[x] = None
      /\ AddCredential(x, s, env, kind, "pending_cutover")
      /\ UNCHANGED <<rotations, stray, begun>>
  BY <1>1, <1>2 DEF Provision
<1>4. UNCHANGED <<disk, draft, writer, answered, exposed, allowed, restarted,
                  faults>>
  BY DEF Provision, Persist, Store
<1>5. Changed /\ Holds(memory', <<x, "issued">>)
  BY <1>3, <1>4, CredentialAdded
<1> DEFINE then == IF kind = "key" THEN "secret" ELSE "answer"
<1>6. PICK c : c = [calls[h] EXCEPT !.op = "begin", !.then = then,
                                    !.facts = @ \cup {<<x, "issued">>}]
  OBVIOUS
<1>7. Wait(h, c)
  <2>1. [[calls[h] EXCEPT !.then = then, !.facts = @ \cup {<<x, "issued">>}]
           EXCEPT !.op = "begin"] = c
    BY <1>6, CallParts DEF Calls
  <2> QED  BY <1>1, <2>1 DEF Provision, Persist, Store
<1>8. /\ c \in Calls /\ c.op = "begin" /\ c.then = then
      /\ c.application = calls[h].application /\ c.service = s
      /\ c.environment = env /\ c.facts = calls[h].facts \cup {<<x, "issued">>}
      /\ c.sent = calls[h].sent
  <2>2. <<x, "issued">> \in Facts
    BY CredentialFacts
  <2>3. then \in Steps
    BY DEF Steps
  <2> QED  BY <1>2, <1>6, <2>2, <2>3, CallParts DEF Calls
<1>9. Remembers(c)'
  <2>1. \A fact \in calls[h].facts : Telling(fact) /\ Holds(memory', fact)
    <3> SUFFICES ASSUME NEW fact \in calls[h].facts
                 PROVE  Telling(fact) /\ Holds(memory', fact)
      OBVIOUS
    <3>1. fact \in Facts /\ Telling(fact) /\ Holds(memory, fact)
      BY CallParts DEF Remembers
    <3>2. Later(memory, memory')
      BY <1>5 DEF Changed
    <3> QED  BY <3>1, <3>2, MemoryParts, HoldsLater
  <2>2. \A fact \in c.facts : Telling(fact) /\ Holds(memory', fact)
    BY <1>5, <1>8, <2>1, CredentialFacts
  <2>3. s # None /\ env # None /\ memory'.services[s] # None
    BY <1>2, <1>5, RegistryAssumption DEF Changed, Later, LaterServices
  <2>4. then # "approve" /\ c.op # "approve"
    BY <1>8, Words
  <2>5. c.op # "answer" /\ c.op \notin Kinds \cup {"verify"}
    BY <1>8, Words
  <2>6. Sending(c.sent)'
    BY <1>5, <1>8, SentLater DEF Changed, Sending
  <2> QED  BY <1>8, <2>2, <2>3, <2>4, <2>5, <2>6 DEF Remembers
<1>10. c.op \notin Tables /\ Op(h) \notin Behind
  BY <1>1, <1>8, Words
<1> QED  BY <1>3, <1>4, <1>5, <1>7, <1>8, <1>9, <1>10, Unmoved, Goes

\* RefuseProvision preserves the invariant.
LEMMA RefuseProvisionSafe ==
  ASSUME IInv, NEW h \in Handlers, RefuseProvision(h)
  PROVE  IInv'
<1>1. /\ Wait(h, Idle) /\ Op(h) \notin Behind
      /\ UNCHANGED <<memory, disk, draft, writer, rotations, stray, begun,
                     answered, exposed, allowed, restarted, faults>>
  BY Words DEF RefuseProvision, Op
<1>2. Changed
  BY <1>1, MemorySame
<1>3. Remembers(Idle)'
  BY IdleCall, Words, NothingSending DEF Remembers
<1>4. Idle.op \notin Tables
  BY IdleCall, Words
<1> QED  BY <1>1, <1>2, <1>3, <1>4, IdleCall, Unmoved, Goes

\* EmergencyRotate preserves the invariant.
LEMMA EmergencyRotateSafe ==
  ASSUME IInv, NEW h \in Handlers, NEW c \in Credentials, NEW s \in Services,
         NEW env \in Environments, NEW old \in {"revoked", "pending_cutover"},
         EmergencyRotate(h, c, s, env, old)
  PROVE  IInv'
<1> DEFINE R == {x \in Credentials :
                   /\ SameUse(memory.credentials[x], s, env, "key")
                   /\ memory.credentials[x].status = "active"}
<1>0. PICK F : F = {<<c, "issued">>} \cup
                     (IF old = "revoked" THEN R \X {"revoked"} ELSE {})
  OBVIOUS
<1>1. /\ memory.credentials[c] = None
      /\ AddCredential(c, s, env, "key", old)
      /\ Persist(h, [Idle EXCEPT !.facts = F])
      /\ UNCHANGED <<rotations, stray>>
  BY <1>0 DEF EmergencyRotate
<1>2. /\ Store(h, [Idle EXCEPT !.facts = F])
      /\ UNCHANGED <<allowed, restarted>>
  BY <1>1 DEF Persist, Store
<1>3. /\ Changed /\ Holds(memory', <<c, "issued">>)
      /\ old = "revoked" => \A x \in R : Holds(memory', <<x, "revoked">>)
  <2>1. "key" \in Kinds
    BY DEF Kinds
  <2> QED  BY <1>1, <1>2, <2>1, CredentialAdded
<1>4. begun' \in 0 .. MaxRequests /\ Op(h) \notin Behind
  BY BeginCounts, Words DEF EmergencyRotate
<1>5. \A fact \in F : \/ fact = <<c, "issued">>
                      \/ old = "revoked" /\ \E x \in R : fact = <<x, "revoked">>
  BY <1>0
<1>6. F \in SUBSET Facts
  BY <1>5, CredentialFacts
<1>7. \A fact \in F : Telling(fact) /\ Holds(memory', fact)
  BY <1>3, <1>5, CredentialFacts
<1> QED  BY <1>1, <1>2, <1>3, <1>4, <1>6, <1>7, Unmoved, Reports

\* Revoke preserves the invariant.
LEMMA RevokeSafe ==
  ASSUME IInv, NEW h \in Handlers, NEW c \in Credentials, NEW kind,
         Revoke(h, c, kind)
  PROVE  IInv'
<1>1. /\ memory.credentials[c] # None
      /\ memory' = [memory EXCEPT !.credentials[c].status = "revoked"]
      /\ Persist(h, [Idle EXCEPT !.facts = {<<c, "revoked">>}])
      /\ UNCHANGED <<rotations, stray>>
  BY DEF Revoke
<1>2. /\ Store(h, [Idle EXCEPT !.facts = {<<c, "revoked">>}])
      /\ UNCHANGED <<allowed, restarted>>
  BY <1>1 DEF Persist, Store
<1> DEFINE R == {c}
<1>3. memory' = [memory EXCEPT !.credentials = [x \in Credentials |->
           IF x \in R THEN [memory.credentials[x] EXCEPT !.status = "revoked"]
           ELSE memory.credentials[x]]]
  <2>1. [memory.credentials EXCEPT ![c].status = "revoked"] = [x \in Credentials |->
           IF x \in R THEN [memory.credentials[x] EXCEPT !.status = "revoked"]
           ELSE memory.credentials[x]]
    BY MemoryParts, Replace
  <2> QED  BY <1>1, <2>1
<1>4. Changed /\ Holds(memory', <<c, "revoked">>)
  <2>1. R \in SUBSET Credentials /\ c \in R /\ \A x \in R : memory.credentials[x] # None
    BY <1>1
  <2> HIDE DEF R
  <2> QED  BY <1>2, <1>3, <2>1, CredentialsRevoked
<1>5. begun' \in 0 .. MaxRequests /\ Op(h) \notin Behind
  BY BeginCounts, Words DEF Revoke
<1>6. {<<c, "revoked">>} \in SUBSET Facts
  BY CredentialFacts
<1>7. \A fact \in {<<c, "revoked">>} : Telling(fact) /\ Holds(memory', fact)
  BY <1>4, CredentialFacts
<1> QED  BY <1>1, <1>2, <1>4, <1>5, <1>6, <1>7, Unmoved, Reports

\* RequestRotation preserves the invariant.
LEMMA RequestRotationSafe ==
  ASSUME IInv, NEW h \in Handlers, NEW s \in Services, NEW env \in Environments,
         NEW kind \in Kinds, RequestRotation(h, s, env, kind)
  PROVE  IInv'
<1>1. /\ Persist(h, Idle) /\ UNCHANGED <<memory, stray>>
      /\ rotations' = rotations \cup {<<s, env, kind>>}
  BY DEF RequestRotation
<1>2. UNCHANGED <<allowed, restarted>>
  BY <1>1 DEF Persist, Store
<1>3. Changed
  BY <1>1, <1>2, MemorySame
<1>4. begun' \in 0 .. MaxRequests /\ Op(h) \notin Behind
  BY BeginCounts, Words DEF RequestRotation
<1>5. rotations' \subseteq Services \X Environments \X Kinds
  BY <1>1, Unmoved
<1> QED  BY <1>1, <1>3, <1>4, <1>5, Unmoved, ReportsNothing

\* CutOver preserves the invariant.
LEMMA CutOverSafe ==
  ASSUME IInv, NEW h \in Handlers, NEW s \in Services, NEW env \in Environments,
         NEW kind \in Kinds, CutOver(h, s, env, kind)
  PROVE  IInv'
<1>0. PICK R : R = {x \in Credentials :
                      /\ SameUse(memory.credentials[x], s, env, kind)
                      /\ memory.credentials[x].status = "pending_cutover"}
  OBVIOUS
<1>1. /\ memory' = [memory EXCEPT !.credentials = [x \in Credentials |->
           IF x \in R THEN [memory.credentials[x] EXCEPT !.status = "revoked"]
           ELSE memory.credentials[x]]]
      /\ Persist(h, [Idle EXCEPT !.facts = R \X {"revoked"}])
      /\ UNCHANGED <<rotations, stray>>
  BY <1>0 DEF CutOver
<1>2. /\ Store(h, [Idle EXCEPT !.facts = R \X {"revoked"}])
      /\ UNCHANGED <<allowed, restarted>>
  BY <1>1 DEF Persist, Store
<1>3. Changed /\ \A x \in R : Holds(memory', <<x, "revoked">>)
  <2>1. R \in SUBSET Credentials /\ \A x \in R : memory.credentials[x] # None
    BY <1>0 DEF SameUse
  <2> QED  BY <1>1, <1>2, <2>1, CredentialsRevoked
<1>4. begun' \in 0 .. MaxRequests /\ Op(h) \notin Behind
  BY BeginCounts, Words DEF CutOver
<1>5. \A fact \in R \X {"revoked"} : \E x \in R : fact = <<x, "revoked">>
  OBVIOUS
<1>6. R \X {"revoked"} \in SUBSET Facts
  BY <1>0 DEF Facts
<1>7. \A fact \in R \X {"revoked"} : Telling(fact) /\ Holds(memory', fact)
  BY <1>0, <1>3, <1>5, CredentialFacts
<1> QED  BY <1>1, <1>2, <1>3, <1>4, <1>6, <1>7, Unmoved, Reports

\* Rotate preserves the invariant.
LEMMA RotateSafe ==
  ASSUME IInv, NEW h \in Handlers, Rotate(h)
  PROVE  IInv'
<1>1. CASE \E c \in Credentials, s \in Services, env \in Environments, kind \in Kinds :
             Issue(h, c, s, env, kind)
  BY <1>1, IssueSafe
<1>2. CASE \E c \in Credentials, s \in Services, env \in Environments,
              old \in {"revoked", "pending_cutover"} :
             EmergencyRotate(h, c, s, env, old)
  BY <1>2, EmergencyRotateSafe
<1>3. CASE \E c \in Credentials : RevokeKey(h, c) \/ RevokeSecret(h, c)
  BY <1>3, RevokeSafe DEF RevokeKey, RevokeSecret
<1>4. CASE \E s \in Services, env \in Environments :
             \/ RequestKeyRotation(h, s, env) \/ RequestSecretRotation(h, s, env)
             \/ CompleteKeyRotation(h, s, env) \/ CompleteSecretRotation(h, s, env)
  <2>1. "key" \in Kinds /\ "secret" \in Kinds
    BY DEF Kinds
  <2> QED  BY <1>4, <2>1, RequestRotationSafe, CutOverSafe
             DEF RequestKeyRotation, RequestSecretRotation, CompleteKeyRotation,
                 CompleteSecretRotation
<1> QED  BY <1>1, <1>2, <1>3, <1>4 DEF Rotate

\* Onboard preserves the invariant.
LEMMA OnboardSafe ==
  ASSUME IInv, NEW h \in Handlers, Onboard(h)
  PROVE  IInv'
<1>1. CASE \E a \in Applications, E \in Applied,
              X \in SUBSET Scopes \ {{}} : Submit(h, a, E, X)
  BY <1>1, SubmitSafe, RegistryAssumption
<1>2. CASE \E a \in Applications, s \in Services, status \in {"draft", "active"},
              grant \in BOOLEAN, D \in SUBSET Domains,
              env \in Environments \cup {None} :
             Approve(h, a, s, status, grant, D, env)
  BY <1>2, ApproveSafe
<1>8. CASE \E a \in Applications, env \in Environments \cup {None} :
             ApproveAgain(h, a, env)
  BY <1>8, ApproveAgainSafe
<1>3. CASE \E s \in Services, D \in SUBSET Domains : ApproveOnboarding(h, s, D)
  BY <1>3, ApproveOnboardingSafe
<1>4. CASE FindApproved(h)
  BY <1>4, FindApprovedSafe
<1>5. CASE \E a \in Applications : Reject(h, a)
  BY <1>5, RejectSafe
<1>6. CASE \E c \in Credentials : Provision(h, c)
  BY <1>6, ProvisionSafe
<1>7. CASE RefuseProvision(h)
  BY <1>7, RefuseProvisionSafe
<1> QED  BY <1>1, <1>2, <1>3, <1>4, <1>5, <1>6, <1>7, <1>8 DEF Onboard

\* Administer preserves the invariant.
LEMMA AdministerSafe ==
  ASSUME IInv, NEW h \in Handlers, Administer(h)
  PROVE  IInv'
<1>1. CASE \E s \in Services, status \in StatusUpdates : UpdateStatus(h, s, status)
  BY <1>1, UpdateStatusSafe
<1>2. CASE \E s \in Services, r \in Requests, X \in SUBSET Scopes \ {{}} :
             SubmitScopeRequest(h, s, r, X)
  BY <1>2, SubmitScopeRequestSafe
<1>3. CASE \E r \in Requests, decision \in {"approved", "rejected"} :
             DecideScopeRequest(h, r, decision)
  BY <1>3, DecideScopeRequestSafe
<1>4. CASE \E s \in Services, d \in Domains : UpdateAllowlist(h, s, d)
  BY <1>4, UpdateAllowlistSafe
<1>5. CASE \E s \in Services, D \in SUBSET Domains :
             VerifyDomains(h, s, D) \/ StartVerification(h, s, D)
  BY <1>5, VerifyDomainsSafe, StartVerificationSafe
<1>6. CASE \E D \in SUBSET Domains : FinishVerification(h, D)
  BY <1>6, FinishVerificationSafe
<1>7. CASE RecordEvent(h)
  BY <1>7, RecordEventSafe
<1> QED  BY <1>1, <1>2, <1>3, <1>4, <1>5, <1>6, <1>7 DEF Administer

-----------------------------------------------------------------------------
(* The transaction.                                                        *)

\* What holds of the draft while h is about to write one of its tables
LEMMA DraftParts ==
  ASSUME IInv, NEW h \in Handlers
  PROVE  /\ Tabled(draft)
         /\ Op(h) \in Behind <=> writer = h
         /\ Op(h) \in Behind /\ (Op(h) = "services" => WaitsForServices(h)) =>
              ApplicationsRefer(draft)
         /\ Op(h) \in Behind \ {"requests"} =>
              Explained(draft.services, draft.requests, allowed)
         /\ \A fact \in calls[h].facts : Written(h, fact)
         /\ draft \in States /\ disk \in States
         /\ Later(draft, memory) /\ Later(disk, memory)
         /\ Sound(disk)
BY Parts DEF IInv, DraftSound, CallsKnow, Chain

\* Who does not write has what waits to be written, and nothing in the draft.
LEMMA WrittenOutside ==
  ASSUME NEW g \in Handlers, calls'[g] = calls[g], Op(g) \notin Behind,
         UNCHANGED memory, NEW fact, Written(g, fact)
  PROVE  Written(g, fact)'
<1>1. Op(g)' = Op(g) /\ (WaitsForServices(g)' <=> WaitsForServices(g))
  BY DEF Op, WaitsForServices
<1>2. Op(g) \notin {"services", "credentials", "events", "commit"}
  BY TableWords
<1> QED  BY <1>1, <1>2 DEF Written

\* h has written a table, and goes on to the table next.
LEMMA TableWritten ==
  ASSUME IInv, NEW h \in Handlers, NEW next \in Behind, NEW rest \in Sendings,
         rest.applications \in {calls[h].sent.applications, Empty.applications},
         rest.services \in {calls[h].sent.services, Empty.services},
         UNCHANGED <<memory, disk, rotations, stray, begun, answered, exposed,
                     allowed, restarted, faults>>,
         Wait(h, [calls[h] EXCEPT !.op = next, !.sent = rest]),
         writer \in {None, h}, writer' = h,
         draft' \in States, Later(draft', memory), Tabled(draft'),
         (next = "services" /\ rest.services = Empty.services)
           \/ ApplicationsRefer(draft'),
         next # "requests" => Explained(draft'.services, draft'.requests, allowed),
         \A fact \in calls[h].facts : Written(h, fact)',
         \A fact \in answered \ exposed : Holds(draft', fact)
  PROVE  IInv'
<1>1. PICK c : c = [calls[h] EXCEPT !.op = next, !.sent = rest]
  OBVIOUS
<1>2. /\ c \in Calls /\ c.op = next /\ c.then = calls[h].then
      /\ c.application = calls[h].application /\ c.service = calls[h].service
      /\ c.environment = calls[h].environment /\ c.facts = calls[h].facts
      /\ c.sent = rest
  BY <1>1, CallParts, TableWords DEF Calls
<1>3. /\ calls' = [calls EXCEPT ![h] = c] /\ calls'[h] = c
      /\ \A g \in Handlers : g # h => calls'[g] = calls[g]
  BY <1>1, Parts DEF Wait, IInv
<1>4. \A g \in Handlers : g # h => Op(g) \notin Behind /\ Op(g)' = Op(g)
  <2>1. \A g \in Handlers : g # h => writer # g
    BY RegistryAssumption
  <2> QED  BY <1>3, <2>1, DraftParts DEF Op
<1>5. Op(h)' = next /\ (WaitsForServices(h)' <=> rest.services # Empty.services)
  BY <1>2, <1>3 DEF Op, WaitsForServices
<1>6. TypeOK'
  <2>1. calls' \in [Handlers -> Calls]
    BY <1>2, <1>3, Parts DEF IInv
  <2> QED  BY <2>1 DEF IInv, TypeOK
<1>7. DraftSound'
  <2>1. writer' # None
    BY RegistryAssumption
  <2>2. ASSUME NEW g \in Handlers
        PROVE  /\ (Op(g)' \in Behind) <=> (writer' = g)
               /\ Op(g)' \in Behind /\ (Op(g)' = "services" => WaitsForServices(g)')
                    => ApplicationsRefer(draft')
               /\ Op(g)' \in Behind \ {"requests"} =>
                    Explained(draft'.services, draft'.requests, allowed')
    BY <1>4, <1>5, TableWords
  <2> QED  BY <2>1, <2>2 DEF DraftSound
<1>8. CallsKnow'
  <2> SUFFICES ASSUME NEW g \in Handlers
               PROVE  /\ Remembers(calls[g])'
                      /\ \A fact \in calls'[g].facts : Written(g, fact)'
    BY DEF CallsKnow
  <2>1. CASE g = h
    <3>1. Sending(rest)'
      BY CallParts, SendingLater, LaterReflexive
    <3>2. Remembers(c)'
      BY <1>2, <3>1, CallParts, TableWords DEF Remembers
    <3> QED  BY <1>2, <1>3, <2>1, <3>2 DEF Remembers
  <2>2. CASE g # h
    <3>1. Remembers(calls[g])'
      BY <1>3, <2>2, CallParts DEF Remembers, Sending
    <3>2. \A fact \in calls[g].facts : Written(g, fact)
      BY DraftParts
    <3>3. \A fact : Written(g, fact) => Written(g, fact)'
      BY <1>3, <1>4, <2>2, WrittenOutside
    <3> QED  BY <1>3, <2>2, <3>1, <3>2, <3>3
  <2> QED  BY <2>1, <2>2
<1>9. AnswersKept'
  <2> SUFFICES ASSUME NEW fact \in answered \ exposed, NEW g \in Handlers
               PROVE  Telling(fact) /\ Holds(disk, fact) /\ Holds(draft', fact)
                        /\ ~Endangers(g, fact)'
    BY DEF AnswersKept, Kept
  <2>1. /\ calls'[g].sent.applications \in
             {calls[g].sent.applications, Empty.applications}
        /\ calls'[g].sent.services \in {calls[g].sent.services, Empty.services}
    BY <1>2, <1>3
  <2> QED  BY <2>1, KeptHolds, EndangersLess
<1>10. Sound(memory)' /\ Sound(disk)' /\ Chain'
  BY DraftParts DEF IInv, Sound, Chain
<1>11. Fresh'
  BY DEF IInv, Fresh, Apart, AllAppliedFor, PendingAgrees, RequestsRefer,
         AppliedFor, AskedFor
<1> QED  BY <1>6, <1>7, <1>8, <1>9, <1>10, <1>11 DEF IInv

\* Send preserves the invariant: what is sent is as memory is.
LEMMA SendSafe ==
  ASSUME IInv, NEW h \in Handlers, Send(h)
  PROVE  IInv'
<1>1. PICK sent : /\ sent \in Sendings /\ sent.applications = memory.applications
                  /\ sent.services \in {memory.services, Empty.services}
                  /\ sent.services # Empty.services =>
                       \A a \in Applications : memory.applications[a] = None
                  /\ Wait(h, [calls[h] EXCEPT !.op = "applications",
                                              !.sent = sent])
  <2> DEFINE first == \A a \in Applications : memory.applications[a] = None
  <2> DEFINE sent == [applications |-> memory.applications,
               services |-> IF first THEN memory.services ELSE Empty.services]
  <2>1. sent \in Sendings
    BY MemoryParts, EmptyTables DEF Sendings, States
  <2>2. Wait(h, [calls[h] EXCEPT !.op = "applications", !.sent = sent])
    BY DEF Send
  <2> QED  BY <2>1, <2>2
<1>2. /\ Op(h) = "begin"
      /\ UNCHANGED <<memory, disk, draft, writer, rotations, stray, begun,
                     answered, exposed, allowed, restarted, faults>>
  BY DEF Send, Op
<1>3. PICK c : c = [calls[h] EXCEPT !.op = "applications", !.sent = sent]
  OBVIOUS
<1>4. /\ c \in Calls /\ c.op = "applications" /\ c.then = calls[h].then
      /\ c.application = calls[h].application /\ c.service = calls[h].service
      /\ c.environment = calls[h].environment /\ c.facts = calls[h].facts
      /\ c.sent = sent
  BY <1>1, <1>3, CallParts, Words DEF Calls
<1>5. calls' = [calls EXCEPT ![h] = c] /\ calls'[h] = c
  BY <1>1, <1>3, Parts DEF Wait, IInv
<1>6. TypeOK'
  <2>1. calls' \in [Handlers -> Calls]
    BY <1>4, <1>5, Parts DEF IInv
  <2> QED  BY <1>2, <2>1 DEF IInv, TypeOK
<1>7. Remembers(c)'
  <2>1. Sending(sent)'
    BY <1>1, <1>2, MemoryParts, EmptyTables, LaterReflexive
       DEF Sending, Later, LaterServices
  <2> QED  BY <1>2, <1>4, <2>1, CallParts, Words DEF Remembers
<1>8. ASSUME NEW fact \in Facts, Holds(memory, fact)
      PROVE  Written(h, fact)' /\ ~Endangers(h, fact)'
  <2>1. Op(h)' = "applications"
    BY <1>4, <1>5 DEF Op
  <2>2. fact[1] \in Applications =>
          /\ memory.applications[fact[1]] # None
          /\ memory.applications[fact[1]].status = fact[2]
    BY <1>8, HoldsOfApplication
  <2>3. fact[1] \in Requests /\ fact[2] = "approved" =>
          LET s == memory.requests[fact[1]].service
          IN /\ s \in Services /\ memory.services[s] # None
             /\ memory.requests[fact[1]].scopes \subseteq memory.services[s].granted
    BY <1>8, MemoryParts, HoldsOfRequest, Records
  <2>4. Written(h, fact)'
    BY <1>1, <1>2, <1>4, <1>5, <2>1, <2>2, <2>3, Words, TableWords
       DEF Written, WaitsForServices
  <2>5. /\ calls'[h].sent.applications = memory.applications
        /\ calls'[h].sent.services \in {memory.services, Empty.services}
        /\ memory' = memory
    BY <1>1, <1>2, <1>4, <1>5
  <2>6. fact[1] \in Applications => ~Endangers(h, fact)'
    BY <2>2, <2>5, RegistryAssumption DEF Endangers
  <2>7. fact[1] \in Requests => ~Endangers(h, fact)'
    BY <2>3, <2>5, EmptyTables, RegistryAssumption DEF Endangers
  <2>8. fact[1] \in Credentials => ~Endangers(h, fact)'
    BY RegistryAssumption DEF Endangers
  <2>9. ~Endangers(h, fact)'
    BY <2>6, <2>7, <2>8, FactKinds
  <2> QED  BY <2>4, <2>9
<1>9. \A fact \in c.facts : Written(h, fact)'
  BY <1>4, <1>8, CallParts DEF Remembers
<1>10. \A fact \in answered \ exposed : ~Endangers(h, fact)'
  BY <1>8, KeptHolds
<1>11. Changed
  BY <1>2, MemorySame
<1>12. Op(h) \notin Behind /\ c.op \notin Behind
  BY <1>2, <1>4, Words
<1> QED  BY <1>2, <1>4, <1>5, <1>6, <1>7, <1>9, <1>10, <1>11, <1>12, Handled

\* WriteApplications preserves the invariant.
LEMMA WriteApplicationsSafe ==
  ASSUME IInv, NEW h \in Handlers, WriteApplications(h)
  PROVE  IInv'
<1> DEFINE sent == calls[h].sent
<1>1. /\ writer = None /\ writer' = h /\ Op(h) = "applications"
      /\ UNCHANGED <<memory, disk, rotations, stray, begun, answered, exposed,
                     allowed, restarted, faults>>
  BY DEF WriteApplications, WriteTable, Op
<1>2. PICK A \in RowsAfter(sent.applications, memory.applications,
                           disk.applications) :
        draft' = [disk EXCEPT !.applications = A]
  BY DEF WriteApplications, WriteTable, Outcomes
<1>3. PICK rest : rest = [sent EXCEPT !.applications = Empty.applications]
  OBVIOUS
<1>4. /\ rest \in Sendings /\ rest.applications = Empty.applications
      /\ rest.services = sent.services
  BY <1>3, CallParts, EmptyTables DEF Sendings, States
<1>5. Wait(h, [calls[h] EXCEPT !.op = "services", !.sent = rest])
  BY <1>3, CallParts DEF WriteApplications, WriteTable, Calls
<1>6. /\ A \in [Applications -> ApplicationRecords \cup {None}]
      /\ \A a \in Applications :
           \/ sent.applications[a] = None /\ A[a] = disk.applications[a]
           \/ /\ sent.applications[a] # None
              /\ A[a] \in {sent.applications[a], memory.applications[a]}
  <2>1. /\ sent.applications \in [Applications -> ApplicationRecords \cup {None}]
        /\ memory.applications \in [Applications -> ApplicationRecords \cup {None}]
        /\ disk.applications \in [Applications -> ApplicationRecords \cup {None}]
    BY CallParts, MemoryParts, DraftParts, Replace DEF Sendings
  <2>2. PICK early : A = [a \in DOMAIN sent.applications |->
          IF a \notin {x \in DOMAIN sent.applications : sent.applications[x] # None}
          THEN disk.applications[a]
          ELSE IF a \in early THEN sent.applications[a]
          ELSE memory.applications[a]]
    BY DEF RowsAfter
  <2> QED  BY <2>1, <2>2
<1>7. /\ draft' \in States /\ draft'.applications = A
      /\ draft'.services = disk.services /\ draft'.requests = disk.requests
      /\ draft'.credentials = disk.credentials
  BY <1>2, <1>6, DraftParts, Replace
<1>8. Later(draft', memory)
  <2>1. LaterApplications(A, memory.applications)
    BY <1>6, CallParts, DraftParts DEF Sending, Later, LaterApplications
  <2> QED  BY <1>7, <2>1, DraftParts DEF Later
<1>9. /\ Tabled(draft')
      /\ Explained(draft'.services, draft'.requests, allowed)
  <2>1. Approved(A)
    BY <1>6, CallParts, DraftParts, MemoryParts DEF Sending, Sound, Tabled, Approved
  <2> QED  BY <1>7, <2>1, DraftParts DEF Sound, Tabled
<1>10. rest.services = Empty.services \/ ApplicationsRefer(draft')
  <2>1. ASSUME rest.services # Empty.services
        PROVE  ApplicationsRefer(draft')
    <3>1. \A a \in Applications : A[a] = disk.applications[a]
      BY <1>4, <1>6, <2>1, CallParts DEF Sending
    <3> QED  BY <1>7, <3>1, DraftParts DEF Sound, ApplicationsRefer
  <2> QED  BY <2>1
<1>11. ASSUME NEW fact \in calls[h].facts
       PROVE  Written(h, fact)'
  <2>1. Op(h)' = "services" /\ calls'[h].sent = rest
    BY <1>4, <1>5, CallParts, Parts DEF Op, Wait, IInv, Calls
  <2>2. fact \in Facts /\ Holds(memory, fact) /\ Written(h, fact)
    BY CallParts, DraftParts DEF Remembers
  <2>3. fact[1] \in Applications => Holds(draft', fact)
    <3>1. fact[1] \in Applications =>
            /\ sent.applications[fact[1]] # None
            /\ sent.applications[fact[1]].status = fact[2]
      BY <1>1, <2>2 DEF Written
    <3> QED  BY <1>6, <1>7, <2>2, <3>1, HoldsOfApplication
  <2>4. fact[1] \in Requests /\ fact[2] = "approved" /\ WaitsForServices(h)' =>
          LET q == memory.requests[fact[1]]
          IN /\ rest.services[q.service] # None
             /\ q.scopes \subseteq rest.services[q.service].granted
    BY <1>1, <1>4, <2>1, <2>2 DEF Written, WaitsForServices
  <2> QED  BY <1>1, <2>1, <2>3, <2>4 DEF Written
<1>12. ASSUME NEW fact \in answered \ exposed
       PROVE  Holds(draft', fact)
  <2>1. CASE fact[1] \in Applications
    <3>1. sent.applications[fact[1]] # None =>
            sent.applications[fact[1]].status = fact[2]
      BY <2>1, KeptHolds DEF Endangers
    <3> QED  BY <1>6, <1>7, <2>1, <3>1, KeptHolds, HoldsOfApplication
  <2>2. CASE fact[1] \in Requests
    BY <1>7, <2>2, KeptHolds, HoldsOfRequest
  <2>3. CASE fact[1] \in Credentials
    BY <1>7, <2>3, KeptHolds, HoldsOfCredential
  <2> QED  BY <2>1, <2>2, <2>3, KeptHolds, FactKinds
<1>13. "services" \in Behind /\ "services" # "requests"
  BY TableWords
<1> QED  BY <1>1, <1>4, <1>5, <1>7, <1>8, <1>9, <1>10, <1>11, <1>12, <1>13,
            TableWritten

\* WriteServices preserves the invariant.
LEMMA WriteServicesSafe ==
  ASSUME IInv, NEW h \in Handlers, WriteServices(h)
  PROVE  IInv'
<1> DEFINE sent == calls[h].sent
<1>1. /\ Op(h) = "services"
      /\ UNCHANGED <<memory, disk, writer, rotations, stray, begun, answered,
                     exposed, allowed, restarted, faults>>
      /\ Wait(h, [calls[h] EXCEPT !.op = "requests", !.sent = Nothing])
  BY DEF WriteServices, WriteTable, Op
<1>2. PICK S \in ServicesAfter(h) : draft' = [draft EXCEPT !.services = S]
  BY DEF WriteServices, WriteTable, Outcomes
<1>3. /\ S \in [Services -> ServiceRecords \cup {None}]
      /\ sent.services = Empty.services => S = memory.services
      /\ sent.services # Empty.services => \A s \in Services :
           \/ sent.services[s] = None /\ S[s] = draft.services[s]
           \/ /\ sent.services[s] # None
              /\ S[s] \in {sent.services[s], memory.services[s]}
  <2>1. /\ sent.services \in [Services -> ServiceRecords \cup {None}]
        /\ memory.services \in [Services -> ServiceRecords \cup {None}]
        /\ draft.services \in [Services -> ServiceRecords \cup {None}]
    BY CallParts, MemoryParts, DraftParts, Replace DEF Sendings
  <2>2. CASE sent.services = Empty.services
    BY <2>1, <2>2 DEF ServicesAfter
  <2>3. CASE sent.services # Empty.services
    <3>1. S \in RowsAfter(sent.services, memory.services, draft.services)
      BY <2>3 DEF ServicesAfter
    <3>2. PICK early : S = [s \in DOMAIN sent.services |->
            IF s \notin {x \in DOMAIN sent.services : sent.services[x] # None}
            THEN draft.services[s]
            ELSE IF s \in early THEN sent.services[s] ELSE memory.services[s]]
      BY <3>1 DEF RowsAfter
    <3> QED  BY <2>1, <2>3, <3>2
  <2> QED  BY <2>2, <2>3
<1>4. /\ draft' \in States /\ draft'.services = S
      /\ draft'.applications = draft.applications
      /\ draft'.requests = draft.requests
      /\ draft'.credentials = draft.credentials
  BY <1>2, <1>3, DraftParts, Replace
<1>5. Later(draft', memory)
  <2>1. LaterServices(S, memory.services)
    BY <1>3, CallParts, DraftParts DEF Sending, Later, LaterServices
  <2> QED  BY <1>4, <2>1, DraftParts DEF Later
<1>6. Tabled(draft')
  BY <1>4, DraftParts DEF Tabled
<1>7. ApplicationsRefer(draft')
  <2> SUFFICES ASSUME NEW a \in Applications, draft.applications[a] # None,
                      draft.applications[a].service # None
               PROVE  S[draft.applications[a].service] # None
    BY <1>4 DEF ApplicationsRefer
  <2>1. draft.applications[a].service \in Services
    BY DraftParts, Records DEF ApplicationRecords
  <2>2. CASE sent.services = Empty.services
    <3>1. draft.applications[a].status = "approved"
      BY DraftParts DEF Tabled, Approved
    <3>2. memory.applications[a] = draft.applications[a]
      BY <3>1, DraftParts DEF Later, LaterApplications
    <3> QED  BY <1>3, <2>2, <3>2, MemoryParts DEF ApplicationsRefer
  <2>3. CASE sent.services # Empty.services
    <3>1. ApplicationsRefer(draft)
      BY <1>1, <2>3, TableWords, DraftParts DEF WaitsForServices
    <3>2. \A s \in Services : sent.services[s] # None => memory.services[s] # None
      BY CallParts DEF Sending, LaterServices
    <3> QED  BY <1>3, <2>1, <2>3, <3>1, <3>2 DEF ApplicationsRefer
  <2> QED  BY <2>2, <2>3
<1>8. ASSUME NEW fact \in calls[h].facts
      PROVE  Written(h, fact)'
  <2>1. Op(h)' = "requests"
    BY <1>1, CallParts, Parts DEF Op, Wait, IInv, Calls
  <2>2. fact \in Facts /\ Holds(memory, fact) /\ Written(h, fact)
    BY CallParts, DraftParts DEF Remembers
  <2>3. fact[1] \in Applications => Holds(draft', fact)
    <3>1. Op(h) \in Behind
      BY <1>1, TableWords
    <3>2. fact[1] \in Applications => Holds(draft, fact)
      BY <2>2, <3>1 DEF Written
    <3> QED  BY <1>4, <3>2, HoldsOfApplication
  <2>4. ASSUME fact[1] \in Requests, fact[2] = "approved"
        PROVE  LET s == memory.requests[fact[1]].service
               IN /\ S[s] # None
                  /\ memory.requests[fact[1]].scopes \subseteq S[s].granted
    <3>1. LET s == memory.requests[fact[1]].service
          IN /\ s \in Services /\ memory.services[s] # None
             /\ memory.requests[fact[1]].scopes \subseteq memory.services[s].granted
      BY <2>2, <2>4, MemoryParts, HoldsOfRequest, Records
    <3>2. CASE sent.services = Empty.services
      BY <1>3, <3>1, <3>2
    <3>3. CASE sent.services # Empty.services
      <4>1. LET s == memory.requests[fact[1]].service
            IN /\ sent.services[s] # None
               /\ memory.requests[fact[1]].scopes \subseteq sent.services[s].granted
        BY <1>1, <2>2, <2>4, <3>3 DEF Written, WaitsForServices
      <4> QED  BY <1>3, <3>1, <3>3, <4>1
    <3> QED  BY <3>2, <3>3
  <2> QED  BY <1>1, <1>4, <2>1, <2>3, <2>4 DEF Written
<1>9. ASSUME NEW fact \in answered \ exposed
      PROVE  Holds(draft', fact)
  <2>1. CASE fact[1] \in Applications
    BY <1>4, <2>1, KeptHolds, HoldsOfApplication
  <2>2. CASE fact[1] \in Requests
    <3> DEFINE q == memory.requests[fact[1]]
    <3>1. /\ q # None /\ q.status = fact[2] /\ q.service \in Services
          /\ draft.requests[fact[1]] = q
      BY <2>2, KeptHolds, HoldsOfRequest
    <3>2. CASE fact[2] = "approved"
      <4>1. /\ draft.services[q.service] # None
            /\ q.scopes \subseteq draft.services[q.service].granted
            /\ memory.services[q.service] # None
            /\ q.scopes \subseteq memory.services[q.service].granted
        BY <2>2, <3>1, <3>2, KeptHolds, HoldsOfRequest
      <4>2. sent.services[q.service] # None =>
              q.scopes \subseteq sent.services[q.service].granted
        BY <2>2, <3>2, KeptHolds DEF Endangers
      <4>3. S[q.service] # None /\ q.scopes \subseteq S[q.service].granted
        BY <1>3, <3>1, <4>1, <4>2
      <4> QED  BY <1>4, <2>2, <3>1, <4>3, HoldsOfRequest
    <3>3. CASE fact[2] # "approved"
      BY <1>4, <2>2, <3>1, <3>3, HoldsOfRequest
    <3> QED  BY <3>2, <3>3
  <2>3. CASE fact[1] \in Credentials
    BY <1>4, <2>3, KeptHolds, HoldsOfCredential
  <2> QED  BY <2>1, <2>2, <2>3, KeptHolds, FactKinds
<1>10. "requests" \in Behind /\ writer = h
  BY <1>1, TableWords, DraftParts
<1>11. /\ Nothing \in Sendings /\ Nothing.applications = Empty.applications
       /\ Nothing.services = Empty.services
  BY EmptyTables
<1> QED  BY <1>1, <1>4, <1>5, <1>6, <1>7, <1>8, <1>9, <1>10, <1>11, TableWritten

\* h goes on to the table next, with what it sent.
LEMMA SameSent ==
  ASSUME IInv, NEW h \in Handlers, NEW next,
         Wait(h, [calls[h] EXCEPT !.op = next])
  PROVE  /\ Wait(h, [calls[h] EXCEPT !.op = next, !.sent = calls[h].sent])
         /\ calls[h].sent \in Sendings
BY CallParts DEF Calls, Wait

\* WriteRequests preserves the invariant.
LEMMA WriteRequestsSafe ==
  ASSUME IInv, NEW h \in Handlers, WriteRequests(h)
  PROVE  IInv'
<1>1. /\ Op(h) = "requests"
      /\ draft' = [draft EXCEPT !.requests = memory.requests]
      /\ Wait(h, [calls[h] EXCEPT !.op = "credentials"])
      /\ UNCHANGED <<memory, disk, writer, rotations, stray, begun, answered,
                     exposed, allowed, restarted, faults>>
  BY DEF WriteRequests, WriteTable, Outcomes, Op
<1>2. memory.requests \in [Requests -> RequestRecords \cup {None}]
  BY MemoryParts, Replace
<1>3. /\ draft' \in States /\ draft'.requests = memory.requests
      /\ draft'.applications = draft.applications
      /\ draft'.services = draft.services
      /\ draft'.credentials = draft.credentials
  BY <1>1, <1>2, DraftParts, Replace
<1>4. Later(draft', memory)
  BY <1>3, DraftParts, LaterReflexive DEF Later
<1>5. Tabled(draft') /\ ApplicationsRefer(draft')
  BY <1>1, <1>3, TableWords, DraftParts DEF ApplicationsRefer, Tabled
<1>6. Explained(draft'.services, draft'.requests, allowed)
  BY <1>3, <1>4, MemoryParts, ExplainedEarlier DEF Later
<1>7. ASSUME NEW fact \in calls[h].facts
      PROVE  Written(h, fact)'
  <2>1. Op(h)' = "credentials"
    BY <1>1, CallParts, Parts DEF Op, Wait, IInv, Calls
  <2>2. fact \in Facts /\ Holds(memory, fact) /\ Written(h, fact)
    BY CallParts, DraftParts DEF Remembers
  <2>3. fact[1] \in Applications => Holds(draft', fact)
    <3>1. Op(h) \in Behind
      BY <1>1, TableWords
    <3>2. fact[1] \in Applications => Holds(draft, fact)
      BY <2>2, <3>1 DEF Written
    <3> QED  BY <1>3, <3>2, HoldsOfApplication
  <2>4. fact[1] \in Requests /\ fact[2] = "approved" =>
          /\ draft.services[memory.requests[fact[1]].service] # None
          /\ memory.requests[fact[1]].scopes \subseteq
               draft.services[memory.requests[fact[1]].service].granted
    BY <1>1, <2>2, TableWords DEF Written
  <2>5. fact[1] \in Requests => Holds(draft', fact)
    BY <1>3, <2>2, <2>4, HoldsOfRequest
  <2> QED  BY <1>1, <1>3, <2>1, <2>3, <2>4, <2>5 DEF Written
<1>8. ASSUME NEW fact \in answered \ exposed
      PROVE  Holds(draft', fact)
  <2>1. CASE fact[1] \in Applications
    BY <1>3, <2>1, KeptHolds, HoldsOfApplication
  <2>2. CASE fact[1] \in Requests
    BY <1>3, <2>2, KeptHolds, HoldsOfRequest
  <2>3. CASE fact[1] \in Credentials
    BY <1>3, <2>3, KeptHolds, HoldsOfCredential
  <2> QED  BY <2>1, <2>2, <2>3, KeptHolds, FactKinds
<1>9. "credentials" \in Behind /\ writer = h
  BY <1>1, TableWords, DraftParts
<1> QED  BY <1>1, <1>3, <1>4, <1>5, <1>6, <1>7, <1>8, <1>9, SameSent, TableWritten

\* WriteCredentials preserves the invariant.
LEMMA WriteCredentialsSafe ==
  ASSUME IInv, NEW h \in Handlers, WriteCredentials(h)
  PROVE  IInv'
<1>1. /\ Op(h) = "credentials"
      /\ draft' = [draft EXCEPT !.credentials = memory.credentials]
      /\ Wait(h, [calls[h] EXCEPT !.op = "events"])
      /\ UNCHANGED <<memory, disk, writer, rotations, stray, begun, answered,
                     exposed, allowed, restarted, faults>>
  BY DEF WriteCredentials, WriteTable, Outcomes, Op
<1>2. memory.credentials \in [Credentials -> CredentialRecords \cup {None}]
  BY MemoryParts, Replace
<1>3. /\ draft' \in States /\ draft'.credentials = memory.credentials
      /\ draft'.applications = draft.applications
      /\ draft'.services = draft.services
      /\ draft'.requests = draft.requests
  BY <1>1, <1>2, DraftParts, Replace
<1>4. Later(draft', memory)
  BY <1>3, DraftParts, LaterReflexive DEF Later
<1>5. /\ Tabled(draft') /\ ApplicationsRefer(draft')
      /\ Explained(draft'.services, draft'.requests, allowed)
  BY <1>1, <1>3, TableWords, DraftParts, MemoryParts
     DEF Tabled, ApplicationsRefer
<1>7. ASSUME NEW fact \in calls[h].facts
      PROVE  Written(h, fact)'
  <2>1. Op(h)' = "events"
    BY <1>1, CallParts, Parts DEF Op, Wait, IInv, Calls
  <2>2. fact \in Facts /\ Holds(memory, fact) /\ Written(h, fact)
    BY CallParts, DraftParts DEF Remembers
  <2>3. fact[1] \in Applications => Holds(draft', fact)
    <3>1. Op(h) \in Behind
      BY <1>1, TableWords
    <3>2. fact[1] \in Applications => Holds(draft, fact)
      BY <2>2, <3>1 DEF Written
    <3> QED  BY <1>3, <3>2, HoldsOfApplication
  <2>4. fact[1] \in Requests /\ fact[2] = "approved" =>
          /\ draft.services[memory.requests[fact[1]].service] # None
          /\ memory.requests[fact[1]].scopes \subseteq
               draft.services[memory.requests[fact[1]].service].granted
    BY <1>1, <2>2, TableWords DEF Written
  <2>5. fact[1] \in Requests => Holds(draft', fact)
    <3>1. fact[1] \in Requests => Holds(draft, fact)
      BY <1>1, <2>2 DEF Written
    <3> QED  BY <1>3, <3>1, HoldsOfRequest
  <2>6. fact[1] \in Credentials => Holds(draft', fact)
    BY <1>3, <2>2, HoldsOfCredential
  <2> QED  BY <1>1, <1>3, <2>1, <2>3, <2>4, <2>5, <2>6 DEF Written
<1>8. ASSUME NEW fact \in answered \ exposed
      PROVE  Holds(draft', fact)
  <2>1. CASE fact[1] \in Applications
    BY <1>3, <2>1, KeptHolds, HoldsOfApplication
  <2>2. CASE fact[1] \in Requests
    BY <1>3, <2>2, KeptHolds, HoldsOfRequest
  <2>3. CASE fact[1] \in Credentials
    BY <1>3, <2>3, KeptHolds, HoldsOfCredential
  <2> QED  BY <2>1, <2>2, <2>3, KeptHolds, FactKinds
<1>9. "events" \in Behind /\ writer = h
  BY <1>1, TableWords, DraftParts
<1> QED  BY <1>1, <1>3, <1>4, <1>5, <1>7, <1>8, <1>9, SameSent, TableWritten

\* WriteEvents preserves the invariant.
LEMMA WriteEventsSafe ==
  ASSUME IInv, NEW h \in Handlers, WriteEvents(h)
  PROVE  IInv'
<1>1. /\ Op(h) = "events"
      /\ Wait(h, [calls[h] EXCEPT !.op = "commit"])
      /\ UNCHANGED <<memory, disk, draft, writer, rotations, stray, begun, answered,
                     exposed, allowed, restarted, faults>>
  BY DEF WriteEvents, WriteTable, Outcomes, Op
<1>2. ASSUME NEW fact \in calls[h].facts
      PROVE  Written(h, fact)'
  <2>1. Op(h)' = "commit"
    BY <1>1, CallParts, Parts DEF Op, Wait, IInv, Calls
  <2>2. Written(h, fact)
    BY DraftParts
  <2> QED  BY <1>1, <2>1, <2>2, TableWords DEF Written
<1>3. "commit" \in Behind /\ writer = h
  BY <1>1, TableWords, DraftParts
<1>4. /\ ApplicationsRefer(draft)
      /\ Explained(draft.services, draft.requests, allowed)
  BY <1>1, TableWords, DraftParts
<1>5. /\ draft' \in States /\ Later(draft', memory)
      /\ Tabled(draft') /\ ApplicationsRefer(draft')
      /\ Explained(draft'.services, draft'.requests, allowed)
  BY <1>1, <1>4, DraftParts
<1>6. \A fact \in answered \ exposed : Holds(draft', fact)
  BY <1>1, KeptHolds
<1> QED  BY <1>1, <1>2, <1>3, <1>5, <1>6, SameSent, TableWritten

\* The transaction of h is over: what it has made is on disk, or nothing.
LEMMA Ended ==
  ASSUME IInv, NEW h \in Handlers, writer = h, writer' = None,
         UNCHANGED <<memory, rotations, stray, begun, allowed, restarted>>,
         faults' \in 0 .. MaxFaults, answered' \subseteq Facts,
         exposed' \subseteq Facts,
         draft' = disk', disk' \in {disk, draft}, disk' = draft => Sound(draft),
         NEW c \in Calls, Wait(h, c), c.op \notin Behind \cup {"applications"},
         Remembers(c), c.sent \in {calls[h].sent, Nothing},
         \A fact \in answered' \ exposed' :
           /\ Telling(fact) /\ Holds(disk', fact)
           /\ \A g \in Handlers : ~Endangers(g, fact)
  PROVE  IInv'
<1>1. /\ calls' = [calls EXCEPT ![h] = c] /\ calls'[h] = c
      /\ \A g \in Handlers : g # h => calls'[g] = calls[g]
  BY Parts DEF Wait, IInv
<1>2. \A g \in Handlers : /\ Op(g)' \notin Behind
                          /\ Op(g)' = "applications" => g # h
  <2>1. \A g \in Handlers : g # h => Op(g) \notin Behind
    BY DraftParts
  <2> QED  BY <1>1, <2>1 DEF Op
<1>3. disk' \in States /\ Later(disk', memory)
  BY DraftParts
<1>4. TypeOK'
  <2>1. calls' \in [Handlers -> Calls]
    BY <1>1, Parts DEF IInv
  <2> QED  BY <1>3, <2>1 DEF IInv, TypeOK
<1>5. Sound(disk')
  BY DraftParts
<1>6. DraftSound'
  <2>1. \A g \in Handlers : writer' # g
    BY RegistryAssumption
  <2>2. Tabled(draft')
    BY <1>5 DEF Sound
  <2> QED  BY <1>2, <2>1, <2>2 DEF DraftSound
<1>7. CallsKnow'
  <2> SUFFICES ASSUME NEW g \in Handlers
               PROVE  /\ Remembers(calls[g])'
                      /\ \A fact \in calls'[g].facts : Written(g, fact)'
    BY DEF CallsKnow
  <2>1. Remembers(calls[g])'
    BY <1>1, CallParts DEF Remembers, Sending
  <2>2. \A fact \in calls'[g].facts : Written(g, fact)'
    <3>1. CASE Op(g)' = "applications"
      <4>1. \A fact \in calls[g].facts : Written(g, fact)
        BY DraftParts
      <4>2. calls'[g] = calls[g] /\ Op(g) \notin Behind
        BY <1>1, <1>2, <3>1 DEF Op
      <4> QED  BY <4>1, <4>2, WrittenOutside
    <3>2. CASE Op(g)' # "applications"
      BY <1>2, <3>2, TableWords DEF Written
    <3> QED  BY <3>1, <3>2
  <2> QED  BY <2>1, <2>2
<1>8. Chain'
  BY <1>3 DEF Chain
<1>9. Sound(memory)' /\ Sound(disk)'
  BY <1>5 DEF IInv, Sound
<1>10. Fresh'
  BY DEF IInv, Fresh, Apart, AllAppliedFor, PendingAgrees, RequestsRefer,
         AppliedFor, AskedFor
<1>11. AnswersKept'
  <2> SUFFICES ASSUME NEW fact \in answered' \ exposed', NEW g \in Handlers
               PROVE  Telling(fact) /\ Holds(disk', fact) /\ Holds(draft', fact)
                        /\ ~Endangers(g, fact)'
    BY DEF AnswersKept, Kept
  <2>1. fact \in Facts /\ Telling(fact) /\ Holds(disk', fact) /\ ~Endangers(g, fact)
    OBVIOUS
  <2>2. Holds(memory, fact)
    BY <1>3, <2>1, HoldsLater
  <2>3. fact[1] \in Requests => memory.requests[fact[1]].service \in Services
    BY <2>2, MemoryParts, HoldsOfRequest, Records
  <2>4. /\ calls'[g].sent.applications \in
             {calls[g].sent.applications, Empty.applications}
        /\ calls'[g].sent.services \in {calls[g].sent.services, Empty.services}
    BY <1>1, EmptyTables
  <2> QED  BY <2>1, <2>3, <2>4, EndangersLess
<1> QED  BY <1>4, <1>6, <1>7, <1>8, <1>9, <1>10, <1>11 DEF IInv

\* A handler at rest has nothing left to remember.
LEMMA Resting ==
  /\ Idle \in Calls /\ Idle.op \notin Behind \cup {"applications"}
  /\ Remembers(Idle) /\ Remembers(Idle)' /\ Idle.sent = Nothing
BY IdleCall, Words, NothingSending DEF Remembers

\* Rollback preserves the invariant.
LEMMA RollbackSafe ==
  ASSUME IInv, NEW h \in Handlers, calls[h].op \in Tables, Rollback(h),
         faults' \in 0 .. MaxFaults
  PROVE  IInv'
<1>1. /\ Wait(h, Idle)
      /\ UNCHANGED <<memory, disk, rotations, stray, begun, answered, exposed,
                     allowed, restarted>>
  BY DEF Rollback
<1>3. CASE writer = h
  <2>1. writer' = None /\ draft' = disk'
    BY <1>1, <1>3 DEF Rollback
  <2>2. /\ answered' \subseteq Facts /\ exposed' \subseteq Facts
        /\ \A fact \in answered' \ exposed' :
             /\ Telling(fact) /\ Holds(disk', fact)
             /\ \A g \in Handlers : ~Endangers(g, fact)
    BY <1>1, Parts, KeptHolds DEF IInv
  <2>3. disk' \in {disk, draft} /\ (disk' = draft => Sound(draft))
    BY <1>1, DraftParts
  <2> QED  BY <1>1, <1>3, <2>1, <2>2, <2>3, Resting, Ended
<1>4. CASE writer # h
  <2>1. UNCHANGED <<writer, draft>> /\ Op(h) \notin Behind
    BY <1>4, DraftParts DEF Rollback
  <2>2. calls' = [calls EXCEPT ![h] = Idle] /\ calls'[h] = Idle
    BY <1>1, Parts DEF Wait, IInv
  <2>3. TypeOK'
    <3>1. calls' \in [Handlers -> Calls]
      BY <2>2, Resting, Parts DEF IInv
    <3> QED  BY <1>1, <2>1, <3>1 DEF IInv, TypeOK
  <2>4. Changed
    BY <1>1, MemorySame
  <2>5. \A fact \in Idle.facts : Written(h, fact)'
    BY IdleCall
  <2>6. ASSUME NEW fact \in answered \ exposed
        PROVE  ~Endangers(h, fact)'
    BY <1>1, <2>2, KeptHolds, IdleCall, EmptyTables, EndangersLess
  <2> QED  BY <1>1, <2>1, <2>2, <2>3, <2>4, <2>5, <2>6, Resting, Handled
<1> QED  BY <1>3, <1>4

\* What its transaction has written is all that a handler may tell.
LEMMA CommitKeeps ==
  ASSUME IInv, NEW h \in Handlers, Op(h) = "commit", disk' = draft,
         answered' \subseteq answered \cup calls[h].facts,
         exposed' \subseteq exposed \cup calls[h].facts,
         \A fact \in answered' \ exposed' :
           \/ fact \in answered \ exposed
           \/ /\ fact \in calls[h].facts
              /\ \A g \in Handlers : ~Endangers(g, fact)
  PROVE  /\ writer = h /\ Sound(draft)
         /\ answered' \subseteq Facts /\ exposed' \subseteq Facts
         /\ \A fact \in answered' \ exposed' :
              /\ Telling(fact) /\ Holds(disk', fact)
              /\ \A g \in Handlers : ~Endangers(g, fact)
<1>1. writer = h /\ Sound(draft)
  BY TableWords, DraftParts DEF Sound
<1>2. ASSUME NEW fact \in calls[h].facts
      PROVE  Telling(fact) /\ Holds(draft, fact) /\ fact \in Facts
  <2>1. Telling(fact) /\ fact \in Facts /\ Written(h, fact)
    BY CallParts, DraftParts DEF Remembers
  <2> QED  BY <2>1, TableWords, FactKinds DEF Written
<1>3. \A fact \in answered' \ exposed' :
        /\ Telling(fact) /\ Holds(disk', fact)
        /\ \A g \in Handlers : ~Endangers(g, fact)
  BY <1>2, KeptHolds
<1>4. answered' \subseteq Facts /\ exposed' \subseteq Facts
  BY <1>2, Parts DEF IInv
<1> QED  BY <1>1, <1>3, <1>4

\* Commit preserves the invariant.
LEMMA CommitSafe ==
  ASSUME IInv, NEW h \in Handlers, Commit(h)
  PROVE  IInv'
<1>1. /\ Op(h) = "commit" /\ disk' = draft /\ writer' = None
      /\ UNCHANGED <<memory, draft, rotations, stray, begun, allowed, restarted,
                     faults>>
  BY DEF Commit, Op
<1>2. /\ answered' \subseteq answered \cup calls[h].facts
      /\ exposed' \subseteq exposed \cup calls[h].facts
      /\ \A fact \in answered' \ exposed' :
           \/ fact \in answered \ exposed
           \/ /\ fact \in calls[h].facts
              /\ \A g \in Handlers : ~Endangers(g, fact)
  BY DEF Commit, Acknowledged, Tell
<1>3. /\ writer = h /\ Sound(draft)
      /\ answered' \subseteq Facts /\ exposed' \subseteq Facts
      /\ \A fact \in answered' \ exposed' :
           /\ Telling(fact) /\ Holds(disk', fact)
           /\ \A g \in Handlers : ~Endangers(g, fact)
  BY <1>1, <1>2, CommitKeeps
<1>4. faults' \in 0 .. MaxFaults
  BY <1>1 DEF IInv, TypeOK
<1>5. PICK c \in Calls : /\ Wait(h, c) /\ c.op \notin Behind \cup {"applications"}
                         /\ Remembers(c) /\ c.sent \in {calls[h].sent, Nothing}
  <2>1. CASE calls[h].then = "answer"
    <3>1. Wait(h, Idle)
      BY <2>1 DEF Commit, Acknowledged
    <3> QED  BY <3>1, Resting
  <2>2. CASE calls[h].then # "answer"
    <3>1. PICK c : c = [calls[h] EXCEPT !.op = calls[h].then]
      OBVIOUS
    <3>2. Wait(h, c)
      BY <2>2, <3>1 DEF Commit, Acknowledged
    <3>3. calls[h].then \in Steps
      BY CallParts DEF Calls
    <3>4. /\ c \in Calls /\ c.op = calls[h].then /\ c.then = calls[h].then
          /\ c.application = calls[h].application /\ c.service = calls[h].service
          /\ c.environment = calls[h].environment /\ c.facts = calls[h].facts
          /\ c.sent = calls[h].sent
      BY <3>1, <3>3, CallParts DEF Calls
    <3>5. c.op # "verify" /\ c.op \notin Behind \cup {"applications"}
      BY <3>3, <3>4, TableWords DEF Steps
    <3>6. Remembers(c)
      BY <2>2, <3>4, <3>5, CallParts DEF Remembers
    <3> QED  BY <3>2, <3>4, <3>5, <3>6
  <2> QED  BY <2>1, <2>2
<1> QED  BY <1>1, <1>3, <1>4, <1>5, Ended

\* Faults stay within their bound.
LEMMA FaultCounts ==
  ASSUME IInv, faults < MaxFaults, faults' = faults + 1
  PROVE  faults' \in 0 .. MaxFaults
<1>1. faults \in 0 .. MaxFaults /\ MaxFaults \in Nat
  BY RegistryAssumption DEF IInv, TypeOK
<1> QED  BY <1>1

\* CommitUnnoticed preserves the invariant.
LEMMA CommitUnnoticedSafe ==
  ASSUME IInv, NEW h \in Handlers, CommitUnnoticed(h)
  PROVE  IInv'
<1>1. /\ Op(h) = "commit" /\ disk' = draft /\ writer' = None /\ Wait(h, Idle)
      /\ UNCHANGED <<memory, draft, rotations, stray, begun, answered, exposed,
                     allowed, restarted>>
  BY DEF CommitUnnoticed, Op
<1>2. /\ writer = h /\ Sound(draft)
      /\ answered' \subseteq Facts /\ exposed' \subseteq Facts
      /\ \A fact \in answered' \ exposed' :
           /\ Telling(fact) /\ Holds(disk', fact)
           /\ \A g \in Handlers : ~Endangers(g, fact)
  BY <1>1, CommitKeeps
<1>3. faults' \in 0 .. MaxFaults
  BY FaultCounts DEF CommitUnnoticed
<1> QED  BY <1>1, <1>2, <1>3, Resting, Ended

\* Every write of a table preserves the invariant.
LEMMA WriteSafe ==
  ASSUME IInv, NEW h \in Handlers, Write(h)
  PROVE  IInv'
<1>0. CASE Send(h)
  BY <1>0, SendSafe
<1>1. CASE WriteApplications(h)
  BY <1>1, WriteApplicationsSafe
<1>2. CASE WriteServices(h)
  BY <1>2, WriteServicesSafe
<1>3. CASE WriteRequests(h)
  BY <1>3, WriteRequestsSafe
<1>4. CASE WriteCredentials(h)
  BY <1>4, WriteCredentialsSafe
<1>5. CASE WriteEvents(h)
  BY <1>5, WriteEventsSafe
<1>6. CASE Refuse(h)
  <2>1. faults' \in 0 .. MaxFaults
    BY <1>6 DEF Refuse, IInv, TypeOK
  <2> QED  BY <1>6, <2>1, RollbackSafe DEF Refuse
<1>7. CASE Commit(h)
  BY <1>7, CommitSafe
<1>8. CASE PersistFails(h)
  BY <1>8, FaultCounts, RollbackSafe DEF PersistFails
<1>9. CASE CommitUnnoticed(h)
  BY <1>9, CommitUnnoticedSafe
<1> QED  BY <1>0, <1>1, <1>2, <1>3, <1>4, <1>5, <1>6, <1>7, <1>8, <1>9 DEF Write

\* The restarted process has what was committed last.
LEMMA RestartSafe ==
  ASSUME IInv, Restart
  PROVE  IInv'
<1>1. /\ memory' = disk /\ draft' = disk /\ disk' = disk /\ writer' = None
      /\ rotations' = {} /\ stray' = FALSE
      /\ calls' = [h \in Handlers |-> Idle] /\ restarted' = TRUE
      /\ UNCHANGED <<begun, answered, exposed, allowed>>
  BY DEF Restart, RestartWith
<1>2. faults' \in 0 .. MaxFaults
  BY FaultCounts DEF Restart, RestartWith
<1>3. \A h \in Handlers : /\ calls'[h] = Idle
                          /\ Op(h)' \notin Behind /\ writer' # h
  BY <1>1, IdleCall, Words, RegistryAssumption DEF Op
<1>4. TypeOK'
  <2>1. calls' \in [Handlers -> Calls]
    BY <1>1, IdleCall
  <2> QED  BY <1>1, <1>2, <2>1 DEF IInv, TypeOK
<1>5. Chain'
  BY <1>1, LaterReflexive DEF Chain
<1>6. Sound(memory)' /\ Sound(disk)'
  BY <1>1 DEF IInv, Sound
<1>7. DraftSound'
  <2>1. Tabled(draft')
    BY <1>1 DEF IInv, Sound
  <2> QED  BY <1>1, <1>3, <2>1 DEF DraftSound
<1>8. CallsKnow'
  <2>1. \A h \in Handlers : Remembers(calls[h])'
    <3>1. Remembers(Idle)'
      BY Resting
    <3> QED  BY <1>3, <3>1 DEF Remembers
  <2>2. \A h \in Handlers : calls'[h].facts = {}
    BY <1>3, IdleCall
  <2> QED  BY <2>1, <2>2 DEF CallsKnow
<1>9. AnswersKept'
  <2> SUFFICES ASSUME NEW fact \in answered \ exposed
               PROVE  /\ Telling(fact) /\ Holds(disk, fact)
                      /\ \A g \in Handlers : ~Endangers(g, fact)'
    BY <1>1 DEF AnswersKept, Kept
  <2>1. fact[1] \in Requests => disk.requests[fact[1]].service \in Services
    BY KeptHolds
  <2>2. \A g \in Handlers : ~Endangers(g, fact)'
    BY <1>1, <1>3, <2>1, IdleCall, EmptyTables DEF Endangers
  <2> QED  BY <2>2, KeptHolds
<1>10. Fresh'
  BY <1>1 DEF Fresh
<1> QED  BY <1>4, <1>5, <1>6, <1>7, <1>8, <1>9, <1>10 DEF IInv

-----------------------------------------------------------------------------
(* The beginning.                                                          *)

\* What the tool leaves: one service, with a key and a secret
OneService(st, s, c, d) ==
  /\ st \in States
  /\ st.applications = Empty.applications
  /\ st.requests = Empty.requests
  /\ st.services[s].granted = MigratedScopes
  /\ st.services[s].pending = {}
  /\ \A z \in Services : z # s => st.services[z] = None
  /\ st.credentials[c].kind = "key" /\ st.credentials[d].kind = "secret"
  /\ \A x \in Credentials : x \notin {c, d} => st.credentials[x] = None

\* The migrated state has one service and its two credentials.
LEMMA MigratedTables ==
  ASSUME NEW s \in Services, NEW env \in Environments,
         NEW c \in Credentials, NEW d \in Credentials, c # d,
         NEW st, st = Migrated(s, env, c, d)
  PROVE  OneService(st, s, c, d)
<1>1. PICK r : r = [status |-> "active", environments |-> {env},
                    granted |-> MigratedScopes, pending |-> {},
                    domains |-> MigratedDomains, verified |-> {}]
  OBVIOUS
<1>2. r \in ServiceRecords /\ r.granted = MigratedScopes /\ r.pending = {}
  BY <1>1, RegistryAssumption DEF ServiceRecords, Statuses
<1>3. PICK p : p = [service |-> s, environment |-> env, kind |-> "key",
                    status |-> "active"]
  OBVIOUS
<1>4. PICK q : q = [service |-> s, environment |-> env, kind |-> "secret",
                    status |-> "active"]
  OBVIOUS
<1>5. /\ p \in CredentialRecords /\ p.kind = "key"
      /\ q \in CredentialRecords /\ q.kind = "secret"
  BY <1>3, <1>4 DEF CredentialRecords, Kinds
<1>7. /\ st.applications = Empty.applications /\ st.requests = Empty.requests
      /\ st.services = [Empty.services EXCEPT ![s] = r]
      /\ st.credentials = [[Empty.credentials EXCEPT ![c] = p] EXCEPT ![d] = q]
      /\ st = [applications |-> st.applications, services |-> st.services,
               requests |-> st.requests, credentials |-> st.credentials]
  BY <1>1, <1>3, <1>4 DEF Migrated, Empty
<1>8. /\ Empty.applications \in [Applications -> ApplicationRecords \cup {None}]
      /\ Empty.services \in [Services -> ServiceRecords \cup {None}]
      /\ Empty.requests \in [Requests -> RequestRecords \cup {None}]
      /\ Empty.credentials \in [Credentials -> CredentialRecords \cup {None}]
  BY EmptyTables, Replace
<1>9. st.services \in [Services -> ServiceRecords \cup {None}]
  BY <1>2, <1>7, <1>8
<1>10. st.credentials \in [Credentials -> CredentialRecords \cup {None}]
  BY <1>5, <1>7, <1>8
<1>11. st \in States
  BY <1>7, <1>8, <1>9, <1>10 DEF States
<1>12. st.services[s] = r /\ \A z \in Services : z # s => st.services[z] = None
  BY <1>7, <1>8, EmptyTables
<1>13. /\ st.credentials[c] = p /\ st.credentials[d] = q
       /\ \A x \in Credentials : x \notin {c, d} => st.credentials[x] = None
  BY <1>7, <1>8, EmptyTables
<1> QED  BY <1>2, <1>5, <1>7, <1>11, <1>12, <1>13 DEF OneService

\* The tables as they are found
LEMMA FoundTables ==
  ASSUME Init
  PROVE  /\ disk \in States
         /\ \A a \in Applications : disk.applications[a] = None
         /\ \A r \in Requests : disk.requests[r] = None
         /\ \A s \in Services : disk.services[s] # None =>
              disk.services[s].granted = MigratedScopes /\ disk.services[s].pending = {}
         /\ OneActiveIn(disk.credentials)
<1>1. CASE disk = Empty
  BY <1>1, EmptyTables DEF OneActiveIn
<1>2. CASE \E s \in Services, env \in Environments, c, d \in Credentials :
             c # d /\ disk = Migrated(s, env, c, d)
  <2>1. PICK s \in Services, env \in Environments,
             c \in Credentials, d \in Credentials :
               c # d /\ disk = Migrated(s, env, c, d)
    BY <1>2
  <2>2. OneService(disk, s, c, d)
    BY <2>1, MigratedTables
  <2>3. OneActiveIn(disk.credentials)
    BY <2>2 DEF OneActiveIn, OneService
  <2> QED  BY <2>2, <2>3, EmptyTables DEF OneService
<1> QED  BY <1>1, <1>2 DEF Init

\* Both initial states, empty and migrated, are sound.
LEMMA InitSafe == Init => IInv
<1> SUFFICES ASSUME Init  PROVE IInv
  OBVIOUS
<1>1. /\ memory = disk /\ draft = disk /\ writer = None
      /\ rotations = {} /\ stray = FALSE /\ begun = 0
      /\ calls = [h \in Handlers |-> Idle]
      /\ answered = {} /\ exposed = {} /\ allowed = {} /\ restarted = FALSE
      /\ faults = 0
  BY DEF Init
<1>2. TypeOK
  <2>1. calls \in [Handlers -> Calls]
    BY <1>1, IdleCall
  <2>2. begun \in 0 .. MaxRequests /\ faults \in 0 .. MaxFaults
    BY <1>1, RegistryAssumption
  <2> QED  BY <1>1, <2>1, <2>2, FoundTables DEF TypeOK
<1>3. Chain
  BY <1>1, LaterReflexive DEF Chain
<1>4. Sound(disk)
  BY FoundTables DEF Sound, Tabled, Approved, ApplicationsRefer, Explained
<1>5. Sound(memory)
  BY <1>1, <1>4
<1>6. \A h \in Handlers : calls[h] = Idle /\ Op(h) \notin Behind /\ writer # h
  BY <1>1, IdleCall, Words, RegistryAssumption DEF Op
<1>7. DraftSound
  BY <1>1, <1>4, <1>6 DEF DraftSound, Sound
<1>8. CallsKnow
  BY <1>6, IdleCall, Resting DEF CallsKnow
<1>9. AnswersKept
  BY <1>1 DEF AnswersKept
<1>10. Fresh
  BY <1>1, FoundTables DEF Fresh, Apart, AllAppliedFor, PendingAgrees,
                           RequestsRefer, AskedFor
<1> QED  BY <1>2, <1>3, <1>4, <1>5, <1>7, <1>8, <1>9, <1>10 DEF IInv

-----------------------------------------------------------------------------
(* What follows.                                                           *)

\* Every step preserves the invariant.
LEMMA NextSafe == IInv /\ [Next]_vars => IInv'
<1> SUFFICES ASSUME IInv, [Next]_vars  PROVE IInv'
  OBVIOUS
<1>1. ASSUME NEW h \in Handlers, Onboard(h) \/ Administer(h) \/ Rotate(h) \/ Write(h)
      PROVE  IInv'
  BY <1>1, OnboardSafe, AdministerSafe, RotateSafe, WriteSafe
<1>2. CASE Restart
  BY <1>2, RestartSafe
<1>3. CASE UNCHANGED vars
  BY <1>3, StutterSafe
<1> QED  BY <1>1, <1>2, <1>3 DEF Next

\* The inductive invariant holds in every reachable state: the order of disk,
\* draft and memory, and what each of them keeps to.
THEOREM Invariance == Spec => []IInv
  BY InitSafe, NextSafe, PTL DEF Spec

\* What a client was told stays true, in memory and on disk, however many
\* handlers tear each other's snapshots and whatever transaction is refused,
\* fails, or commits without its handler knowing: unless it was exposed when it
\* was told, to a row sent before that still waits or by never being stored.
THEOREM Lasting == Spec => []AnswersLast
<1>1. IInv => AnswersLast
  BY KeptHolds DEF AnswersLast
<1> QED  BY <1>1, Invariance, PTL

\* The disk trails the memory: the memory, which guards read, has every
\* service, decision and credential the disk has, the credentials at least as
\* far in their lives.
THEOREM Trailing == Spec => []DiskTrails
<1>1. IInv => DiskTrails
  <2> SUFFICES ASSUME IInv  PROVE DiskTrails
    OBVIOUS
  <2>1. Later(disk, memory) /\ disk \in States /\ memory \in States /\ TypeOK
    BY Parts DEF IInv, Chain
  <2>2. \A s \in Services : disk.services[s] # None => memory.services[s] # None
    BY <2>1 DEF Later, LaterServices
  <2>3. \A r \in Requests : disk.requests[r] # None
          /\ disk.requests[r].status # "pending_review" =>
            memory.requests[r] = disk.requests[r]
    BY <2>1 DEF Later, LaterRequests
  <2>4. ASSUME NEW c \in Credentials, disk.credentials[c] # None
        PROVE  /\ memory.credentials[c] # None
               /\ Rank(memory.credentials[c]) >= Rank(disk.credentials[c])
    <3>1. PICK p \in CredentialRecords : p = disk.credentials[c]
      BY <2>1, <2>4, Records
    <3>2. memory.credentials[c] # None
      BY <2>1, <2>4 DEF Later, LaterCredentials
    <3>3. PICK q \in CredentialRecords : q = memory.credentials[c]
      BY <2>1, <3>2, Records
    <3>4. /\ p.status # "active" => q.status # "active"
          /\ p.status = "revoked" => q.status = "revoked"
      BY <2>1, <2>4, <3>1, <3>3 DEF Later, LaterCredentials
    <3>5. /\ p.status \in {"active", "pending_cutover", "revoked"}
          /\ q.status \in {"active", "pending_cutover", "revoked"}
      BY DEF CredentialRecords
    <3>6. Rank(q) >= Rank(p)
      BY <3>4, <3>5 DEF Rank
    <3> QED  BY <3>1, <3>2, <3>3, <3>6
  <2> QED  BY <2>1, <2>2, <2>3, <2>4 DEF DiskTrails
<1> QED  BY <1>1, Invariance, PTL

\* No service has a scope that was not asked for and approved, whichever
\* snapshot a restart loads, and until then the pending scopes are those that
\* are waited for.
THEOREM Explaining == Spec => []ScopesExplained
<1>1. IInv => GrantsExplained
  <2> SUFFICES ASSUME IInv, NEW st \in {memory, disk}, NEW s \in Services,
                      st.services[s] # None, NEW x \in st.services[s].granted
               PROVE  \/ x \in MigratedScopes
                      \/ <<s, x>> \in allowed /\ (restarted \/ AppliedFor(s, x))
                      \/ \E r \in Requests :
                           LET q == st.requests[r]
                           IN /\ q # None /\ q.service = s
                              /\ q.status = "approved" /\ x \in q.scopes
    BY DEF GrantsExplained
  <2>1. st \in States /\ Sound(st)
    BY Parts DEF IInv
  <2>2. x \in Scopes
    BY <2>1, Records DEF ServiceRecords
  <2>3. <<s, x>> \in allowed => restarted \/ AppliedFor(s, x)
    BY <2>2 DEF IInv, Fresh, AllAppliedFor
  <2> QED  BY <2>1, <2>3 DEF Sound, Explained
<1>2. IInv => PendingExplained
  <2> SUFFICES ASSUME IInv, ~restarted, NEW s \in Services,
                      memory.services[s] # None
               PROVE  LET asked == UNION {memory.requests[r].scopes : r \in
                            {r \in Requests :
                               /\ memory.requests[r] # None
                               /\ memory.requests[r].service = s
                               /\ memory.requests[r].status = "pending_review"}}
                          first == UNION {memory.applications[a].scopes : a \in
                            {a \in Applications :
                               /\ memory.applications[a] # None
                               /\ memory.applications[a].service = s}}
                      IN /\ asked \subseteq memory.services[s].pending
                         /\ memory.services[s].pending \subseteq asked \cup first
                         /\ memory.services[s].pending \cap
                              memory.services[s].granted = {}
    BY DEF PendingExplained
  <2> DEFINE asked == UNION {memory.requests[r].scopes : r \in
                        {r \in Requests :
                           /\ memory.requests[r] # None
                           /\ memory.requests[r].service = s
                           /\ memory.requests[r].status = "pending_review"}}
  <2> DEFINE first == UNION {memory.applications[a].scopes : a \in
                        {a \in Applications :
                           /\ memory.applications[a] # None
                           /\ memory.applications[a].service = s}}
  <2>1. PendingAgrees
    BY DEF IInv, Fresh
  <2>2. \A x : x \in asked <=> AskedFor(s, x)
    BY DEF AskedFor
  <2>3. \A x : x \in first <=> AppliedFor(s, x)
    BY DEF AppliedFor
  <2>4. asked \subseteq Scopes
    BY MemoryParts, Records DEF RequestRecords
  <2>5. memory.services[s].pending \subseteq Scopes
    BY MemoryParts, Records DEF ServiceRecords
  <2> HIDE DEF asked, first
  <2>6. /\ asked \subseteq memory.services[s].pending
        /\ memory.services[s].pending \subseteq asked \cup first
        /\ memory.services[s].pending \cap memory.services[s].granted = {}
    BY <2>1, <2>2, <2>3, <2>4, <2>5 DEF PendingAgrees
  <2> QED  BY <2>6 DEF asked, first
<1> QED  BY <1>1, <1>2, Invariance, PTL DEF ScopesExplained

\* Of the credentials of one service, environment and kind at most one is
\* active, in memory and on disk.
THEOREM OneActiveAlways == Spec => []OneActive
<1>1. IInv => OneActive
  <2> SUFFICES ASSUME IInv, NEW st \in {memory, disk},
                      NEW c \in Credentials, NEW x \in Credentials,
                      c # x, st.credentials[c] # None, st.credentials[x] # None,
                      st.credentials[c].status = "active",
                      st.credentials[x].status = "active"
               PROVE  <<st.credentials[c].service, st.credentials[c].environment,
                        st.credentials[c].kind>>
                      # <<st.credentials[x].service, st.credentials[x].environment,
                          st.credentials[x].kind>>
    BY DEF OneActive
  <2>1. OneActiveIn(st.credentials)
    BY DEF IInv, Sound, Tabled
  <2> QED  BY <2>1 DEF OneActiveIn
<1> QED  BY <1>1, Invariance, PTL
=============================================================================
