--------------------------- MODULE ServiceRegistry ---------------------------
(***************************************************************************)
(* The developer registry: applications, the services they become, the     *)
(* scopes and credentials of the services, and how all of it is persisted. *)
(*                                                                         *)
(* The state in memory is what the gateway acts upon: a handler changes it *)
(* at once and then writes the whole of it to the database, one table      *)
(* after the other in one transaction.  The transactions wait for each     *)
(* other at the first row they share, an application or, while there is    *)
(* none, a service; the row that waits is as it was when it was sent,      *)
(* whatever has become of it in memory meanwhile.  The tables after it are *)
(* read when they are written, and a handler may change the memory between *)
(* two tables of somebody else's transaction.  A row that breaks a         *)
(* constraint of the schema (database/main.sql) is refused.  A transaction *)
(* that is refused or fails leaves the change in memory; a restart loads   *)
(* what was committed last.                                                *)
(*                                                                         *)
(* Keys and webhook secrets are credentials of two kinds.  The summaries   *)
(* keyStatus and webhookSecretStatus, which no guard reads, are left out,  *)
(* and of the events only whether all of them name a service is kept.      *)
(***************************************************************************)
EXTENDS Naturals, FiniteSets

CONSTANTS
  Applications, Services, Requests, Credentials,  \* identifiers
  Scopes, Domains,
  Environments,     \* of which "live" asks for verified domains
  Runtime,          \* the environment this gateway serves
  MigratedScopes,   \* the scopes of a service that did not apply
  MigratedDomains,  \* its hosts
  Applied,          \* bound: the environments that an application may ask for
  StatusUpdates,    \* bound: what operators set the status of a service to
  Handlers,
  ReferenceChecked, \* whether main.sql made the tables of applications and
                    \* requests, which then refer to services; else
                    \* ensureDatabaseSchema did, without the reference
  MaxRequests,      \* bound: requests that change the memory
  MaxFaults,        \* bound: failed transactions and restarts
  None

Statuses == {"draft", "active", "suspended", "archived"}
Kinds    == {"key", "secret"}

ApplicationRecords ==
  [status : {"pending_review", "approved", "rejected"},
   environments : SUBSET Environments, scopes : SUBSET Scopes,
   service : Services \cup {None}]

\* domains: the hosts of the allowlists; verified: those with a proof.
ServiceRecords ==
  [status : Statuses, environments : SUBSET Environments,
   granted : SUBSET Scopes, pending : SUBSET Scopes,
   domains : SUBSET Domains, verified : SUBSET Domains]

RequestRecords ==
  [service : Services, scopes : SUBSET Scopes,
   status : {"pending_review", "approved", "rejected"}]

CredentialRecords ==
  [service : Services, environment : Environments, kind : Kinds,
   status : {"active", "pending_cutover", "revoked"}]

\* The four tables, and the same in memory.
States ==
  [applications : [Applications -> ApplicationRecords \cup {None}],
   services : [Services -> ServiceRecords \cup {None}],
   requests : [Requests -> RequestRecords \cup {None}],
   credentials : [Credentials -> CredentialRecords \cup {None}]]

Empty ==
  [applications |-> [a \in Applications |-> None],
   services |-> [s \in Services |-> None],
   requests |-> [r \in Requests |-> None],
   credentials |-> [c \in Credentials |-> None]]

ASSUME RegistryAssumption ==
  /\ None \notin Applications \cup Services \cup Requests \cup Credentials
                 \cup Handlers \cup Environments
  /\ None \notin ApplicationRecords \cup ServiceRecords \cup RequestRecords
                 \cup CredentialRecords
  \* an identifier begins with its kind: dev_app_, scope_req_, key_, whsec_
  /\ Applications \cap Requests = {} /\ Applications \cap Credentials = {}
  /\ Requests \cap Credentials = {}
  /\ MigratedScopes \subseteq Scopes /\ MigratedDomains \subseteq Domains
  /\ Applied \subseteq SUBSET Environments \ {{}}
  /\ Runtime \in Environments
  /\ ReferenceChecked \in BOOLEAN
  /\ StatusUpdates \subseteq Statuses
  /\ MaxRequests \in Nat /\ MaxFaults \in Nat

\* What a handler's answer tells its client.
Facts ==
  ((Applications \cup Requests) \X {"approved", "rejected"})
    \cup (Credentials \X {"issued", "revoked"})

Tables == {"applications", "services", "requests", "credentials", "events",
           "commit"}
Steps  == {"approve", "key", "secret", "answer"}

\* The rows of the first table a transaction has rows for, as they were sent
Sendings ==
  [applications : [Applications -> ApplicationRecords \cup {None}],
   services : [Services -> ServiceRecords \cup {None}]]

Nothing == [applications |-> Empty.applications, services |-> Empty.services]

\* op: the table to be written next, or the step that follows a commit;
\* then: that step; sent: what waits to be written.
Calls ==
  [op : {"idle", "verify", "begin"} \cup Tables \cup Steps, then : Steps,
   sent : Sendings,
   application : Applications \cup {None}, service : Services \cup {None},
   environment : Environments \cup {None},
   seen : SUBSET Domains, asked : SUBSET Domains, facts : SUBSET Facts]

Idle == [op |-> "idle", then |-> "answer", sent |-> Nothing,
         application |-> None, service |-> None, environment |-> None,
         seen |-> {}, asked |-> {}, facts |-> {}]

VARIABLES
  memory, disk,
  draft,      \* what the open transaction has made of the tables
  writer,     \* the handler whose transaction is open
  rotations,  \* requests of a rotation, in memory only
  stray,      \* an event in memory names what is no service
  calls,
  begun,      \* requests so far that change the memory
  answered,   \* facts a client was told
  exposed,    \* of these, those that were not safe when they were told
  allowed,    \* scopes granted with an application, by service
              \* (histories, these three: no action reads them)
  restarted,
  faults

vars == <<memory, disk, draft, writer, rotations, stray, calls, begun,
          answered, exposed, allowed, restarted, faults>>

TypeOK ==
  /\ memory \in States /\ disk \in States /\ draft \in States
  /\ writer \in Handlers \cup {None}
  /\ rotations \subseteq Services \X Environments \X Kinds
  /\ stray \in BOOLEAN
  /\ begun \in 0 .. MaxRequests
  /\ calls \in [Handlers -> Calls]
  /\ answered \subseteq Facts /\ exposed \subseteq Facts
  /\ allowed \subseteq Services \X Scopes
  /\ restarted \in BOOLEAN
  /\ faults \in 0 .. MaxFaults

\* The tool that moves a configured service into the registry has stored it
\* with a key and a webhook secret, or has not run.
Migrated(s, env, c, d) ==
  LET credential(kind) == [service |-> s, environment |-> env,
                           kind |-> kind, status |-> "active"]
  IN [Empty EXCEPT
        !.services[s] = [status |-> "active", environments |-> {env},
                         granted |-> MigratedScopes, pending |-> {},
                         domains |-> MigratedDomains, verified |-> {}],
        !.credentials[c] = credential("key"),
        !.credentials[d] = credential("secret")]

Init ==
  /\ \/ disk = Empty
     \/ \E s \in Services, env \in Environments, c, d \in Credentials :
          c # d /\ disk = Migrated(s, env, c, d)
  /\ memory = disk /\ draft = disk
  /\ writer = None
  /\ rotations = {} /\ stray = FALSE /\ begun = 0
  /\ calls = [h \in Handlers |-> Idle]
  /\ answered = {} /\ exposed = {} /\ allowed = {}
  /\ restarted = FALSE
  /\ faults = 0

-----------------------------------------------------------------------------
(* Helpers.                                                                *)

Idling(h)  == calls[h].op = "idle"
\* Bound: the requests that change the memory.
Begin(h) ==
  /\ Idling(h)
  /\ begun < MaxRequests
  /\ begun' = begun + 1

\* Bound: a request begins while enough identifiers are left for the steps it
\* and the requests in progress still have to make.
Due(h) ==
  LET steps == {calls[h].op, calls[h].then}
  IN IF steps \cap {"approve", "key"} # {} THEN 2
     ELSE IF "secret" \in steps THEN 1 ELSE 0

EnoughCredentials(n) ==
  LET due == {p \in Handlers \X {1, 2} : p[2] <= Due(p[1])}
      unused == {c \in Credentials : memory.credentials[c] = None}
  IN n + Cardinality(due) <= Cardinality(unused)

EnoughServices(a) ==
  LET due == {h \in Handlers : /\ "approve" \in {calls[h].op, calls[h].then}
                              /\ calls[h].application # a}
      unused == {s \in Services : memory.services[s] = None}
  IN Cardinality(due) < Cardinality(unused)

Wait(h, c) == calls' = [calls EXCEPT ![h] = c]

\* A handler calls persist ...
Store(h, c) ==
  /\ Wait(h, [c EXCEPT !.op = "begin"])
  /\ UNCHANGED <<disk, draft, writer, answered, exposed, restarted, faults>>

\* ... after it changed the memory, and granted no application its scopes.
Persist(h, c) == Store(h, c) /\ UNCHANGED allowed

SetService(s, r) == memory' = [memory EXCEPT !.services[s] = r]

\* assertLiveCredentialEligibility
Eligible(s, env) ==
  LET r == memory.services[s]
  IN env = "live" => "live" \in r.environments /\ r.domains \subseteq r.verified

Eligible4Scopes(s) ==
  /\ Runtime \in memory.services[s].environments
  /\ memory.services[s].status \notin {"suspended", "archived"}

SameUse(r, s, env, kind) ==
  r # None /\ r.service = s /\ r.environment = env /\ r.kind = kind

\* A credential is added and the active one of the same use gives way.
AddCredential(c, s, env, kind, old) ==
  memory' = [memory EXCEPT !.credentials = [x \in Credentials |->
    LET r == memory.credentials[x]
    IN IF x = c
       THEN [service |-> s, environment |-> env, kind |-> kind,
             status |-> "active"]
       ELSE IF SameUse(r, s, env, kind) /\ r.status = "active"
       THEN [r EXCEPT !.status = old] ELSE r]]

\* What the fact says is so in these tables.
Holds(st, fact) ==
  LET x == fact[1]
      claim == fact[2]
  IN CASE x \in Applications ->
            st.applications[x] # None /\ st.applications[x].status = claim
       [] x \in Requests ->
            LET q == st.requests[x]
            IN /\ q # None /\ q.status = claim
               /\ claim = "approved" =>
                    /\ st.services[q.service] # None
                    /\ q.scopes \subseteq st.services[q.service].granted
       [] x \in Credentials ->
            /\ st.credentials[x] # None
            /\ claim = "revoked" => st.credentials[x].status = "revoked"

\* What g has sent will undo what the fact says, if it is the row that waits.
Endangers(g, fact) ==
  LET x == fact[1]
      sent == calls[g].sent
  IN \/ /\ x \in Applications
        /\ sent.applications[x] # None
        /\ sent.applications[x].status # fact[2]
     \/ /\ x \in Requests /\ fact[2] = "approved"
        /\ LET q == memory.requests[x]
           IN /\ sent.services[q.service] # None
              /\ ~(q.scopes \subseteq sent.services[q.service].granted)

\* A client is told these facts, of which unsafe are not stored for good.
Tell(F, unsafe) ==
  /\ answered' = answered \cup F
  /\ exposed' = exposed \cup unsafe

-----------------------------------------------------------------------------
(* Applications.                                                           *)

\* A developer's application for the sandbox alone is approved at once.
Submit(h, a, E, X) ==
  /\ Begin(h)
  /\ memory.applications[a] = None
  /\ memory' = [memory EXCEPT !.applications[a] =
       [status |-> "pending_review", environments |-> E, scopes |-> X,
        service |-> None]]
  /\ \/ Persist(h, Idle)
     \/ /\ E = {"sandbox"}
        /\ EnoughServices(a) /\ EnoughCredentials(2)
        /\ Persist(h, [Idle EXCEPT !.then = "approve", !.application = a,
                                   !.environment = "sandbox"])
  /\ UNCHANGED <<rotations, stray>>

\* The application becomes service s; D are the hosts it names.
Approval(a, s, status, grant, D) ==
  LET r == memory.applications[a]
      granted == IF grant THEN r.scopes ELSE {}
  IN /\ memory' = [memory EXCEPT
          !.applications[a] = [r EXCEPT !.status = "approved", !.service = s],
          !.services[s] = [status |-> status, environments |-> r.environments,
                           granted |-> granted, pending |-> r.scopes \ granted,
                           domains |-> D, verified |-> {}]]
     /\ allowed' = allowed \cup ({s} \X granted)

\* POST .../approve, with credentials to issue if env is given
Approve(h, a, s, status, grant, D, env) ==
  /\ Begin(h)
  /\ memory.applications[a] # None
  /\ memory.applications[a].status # "approved"
  /\ EnoughServices(a) /\ memory.services[s] = None
  /\ env # None => EnoughCredentials(2)
  /\ Approval(a, s, status, grant, D)
  /\ Store(h, [Idle EXCEPT !.then = IF env = None THEN "answer" ELSE "key",
                           !.service = IF env = None THEN None ELSE s,
                           !.environment = env,
                           !.facts = {<<a, "approved">>}])
  /\ UNCHANGED <<rotations, stray>>

\* An application that was approved before is not stored again: the answer
\* rests on the memory.
ApproveAgain(h, a, env) ==
  LET r == memory.applications[a]
      fact == <<a, "approved">>
      safe == /\ Holds(disk, fact) /\ Holds(draft, fact)
              /\ \A g \in Handlers : ~Endangers(g, fact)
  IN /\ Begin(h)
     /\ r # None /\ r.status = "approved"
     /\ IF env = None
        THEN /\ Tell({fact}, IF safe THEN {} ELSE {fact})
             /\ UNCHANGED calls
        ELSE /\ EnoughCredentials(2)
             /\ Wait(h, [Idle EXCEPT !.op = "key", !.service = r.service,
                                     !.environment = env, !.facts = {fact}])
             /\ UNCHANGED <<answered, exposed>>
     /\ UNCHANGED <<memory, disk, draft, writer, rotations, stray, allowed,
                    restarted, faults>>

\* The portal's onboarding goes on after submitApplication, ...
ApproveOnboarding(h, s, D) ==
  LET a == calls[h].application
  IN /\ calls[h].op = "approve"
     /\ memory.applications[a].status # "approved"
     /\ memory.services[s] = None
     /\ Approval(a, s, "active", TRUE, D)
     /\ Store(h, [calls[h] EXCEPT !.then = "key", !.service = s,
                                  !.facts = {<<a, "approved">>}])
     /\ UNCHANGED <<rotations, stray, begun>>

\* ... or finds the application approved.
FindApproved(h) ==
  LET a == calls[h].application
  IN /\ calls[h].op = "approve"
     /\ memory.applications[a].status = "approved"
     /\ Wait(h, [calls[h] EXCEPT !.op = "key",
                                 !.service = memory.applications[a].service])
     /\ UNCHANGED <<memory, disk, draft, writer, rotations, stray, begun,
                    answered, exposed, allowed, restarted, faults>>

\* Its event names the application in place of a service.
Reject(h, a) ==
  /\ Begin(h)
  /\ memory.applications[a] # None
  /\ memory.applications[a].status = "pending_review"
  /\ memory' = [memory EXCEPT !.applications[a].status = "rejected"]
  /\ stray' = TRUE
  /\ Persist(h, Idle)
  /\ UNCHANGED rotations

-----------------------------------------------------------------------------
(* Services, scopes and domains.                                           *)

UpdateStatus(h, s, status) ==
  /\ Begin(h)
  /\ memory.services[s] # None
  /\ SetService(s, [memory.services[s] EXCEPT !.status = status])
  /\ Persist(h, Idle)
  /\ UNCHANGED <<rotations, stray>>

SubmitScopeRequest(h, s, r, X) ==
  /\ Begin(h)
  /\ memory.services[s] # None /\ memory.requests[r] = None
  /\ Eligible4Scopes(s)
  /\ X \cap memory.services[s].granted = {}
  /\ X \cap memory.services[s].pending = {}
  /\ memory' = [memory EXCEPT
       !.services[s].pending = @ \cup X,
       !.requests[r] = [service |-> s, scopes |-> X,
                        status |-> "pending_review"]]
  /\ Persist(h, Idle)
  /\ UNCHANGED <<rotations, stray>>

\* Seeded change: the scopes stay pending after the decision.
DecideLeavesPending(h, r, decision) ==
  LET q == memory.requests[r]
      s == q.service
  IN /\ Begin(h)
     /\ q # None /\ q.status = "pending_review"
     /\ memory.services[s] # None /\ Eligible4Scopes(s)
     /\ memory' = [memory EXCEPT
          !.requests[r].status = decision,
          !.services[s].granted = IF decision = "approved"
                                  THEN @ \cup q.scopes ELSE @]
     /\ Persist(h, [Idle EXCEPT !.facts = {<<r, decision>>}])
     /\ UNCHANGED <<rotations, stray>>

\* Seeded change: the decision is not looked at.
DecideGrants(h, r, decision) ==
  LET q == memory.requests[r]
      s == q.service
  IN /\ Begin(h)
     /\ q # None /\ q.status = "pending_review"
     /\ memory.services[s] # None /\ Eligible4Scopes(s)
     /\ memory' = [memory EXCEPT
          !.requests[r].status = decision,
          !.services[s].granted = @ \cup q.scopes,
          !.services[s].pending = @ \ q.scopes]
     /\ Persist(h, [Idle EXCEPT !.facts = {<<r, decision>>}])
     /\ UNCHANGED <<rotations, stray>>

DecideScopeRequest(h, r, decision) ==
  LET q == memory.requests[r]
      s == q.service
  IN /\ Begin(h)
     /\ q # None /\ q.status = "pending_review"
     /\ memory.services[s] # None /\ Eligible4Scopes(s)
     /\ memory' = [memory EXCEPT
          !.requests[r].status = decision,
          !.services[s].granted = IF decision = "approved"
                                  THEN @ \cup q.scopes ELSE @,
          !.services[s].pending = @ \ q.scopes]
     /\ Persist(h, [Idle EXCEPT !.facts = {<<r, decision>>}])
     /\ UNCHANGED <<rotations, stray>>

UpdateAllowlist(h, s, d) ==
  /\ Begin(h)
  /\ memory.services[s] # None
  /\ SetService(s, [memory.services[s] EXCEPT !.domains = @ \cup {d}])
  /\ Persist(h, Idle)
  /\ UNCHANGED <<rotations, stray>>

\* verifyServiceDomains: an operator vouches for the hosts D.
VerifyDomains(h, s, D) ==
  /\ Begin(h)
  /\ memory.services[s] # None
  /\ D # {} /\ D \subseteq memory.services[s].domains
  /\ SetService(s, [memory.services[s] EXCEPT !.verified = @ \cup D])
  /\ Persist(h, Idle)
  /\ UNCHANGED <<rotations, stray>>

\* verifyServiceDomainsAutomatically, up to the first lookup
StartVerification(h, s, D) ==
  /\ Begin(h)
  /\ memory.services[s] # None
  /\ D \subseteq memory.services[s].domains
  /\ ~(D \subseteq memory.services[s].verified)
  /\ Wait(h, [Idle EXCEPT !.op = "verify", !.service = s, !.asked = D,
                          !.seen = memory.services[s].verified])
  /\ UNCHANGED <<memory, disk, draft, writer, rotations, stray, answered,
                 exposed, allowed, restarted, faults>>

\* The lookups found the proofs of D; what was read before them is written.
FinishVerification(h, D) ==
  LET s == calls[h].service
  IN /\ calls[h].op = "verify"
     /\ D \subseteq calls[h].asked \ calls[h].seen
     /\ SetService(s, [memory.services[s] EXCEPT !.verified =
                         calls[h].seen \cup D])
     /\ Persist(h, Idle)
     /\ UNCHANGED <<rotations, stray, begun>>

-----------------------------------------------------------------------------
(* Credentials.                                                            *)

\* Seeded change: the active credential stays active.
IssueBeside(h, c, s, env, kind) ==
  /\ Begin(h)
  /\ memory.services[s] # None
  /\ EnoughCredentials(1) /\ memory.credentials[c] = None
  /\ Eligible(s, env)
  /\ AddCredential(c, s, env, kind, "active")
  /\ Persist(h, [Idle EXCEPT !.facts = {<<c, "issued">>}])
  /\ UNCHANGED <<rotations, stray>>

Issue(h, c, s, env, kind) ==
  /\ Begin(h)
  /\ memory.services[s] # None
  /\ EnoughCredentials(1) /\ memory.credentials[c] = None
  /\ Eligible(s, env)
  /\ AddCredential(c, s, env, kind, "pending_cutover")
  /\ Persist(h, [Idle EXCEPT !.facts = {<<c, "issued">>}])
  /\ UNCHANGED <<rotations, stray>>

\* provisionServiceCredentials: a key, then a webhook secret
Provision(h, c) ==
  LET s == calls[h].service
      env == calls[h].environment
      kind == calls[h].op
  IN /\ kind \in Kinds
     /\ memory.credentials[c] = None
     /\ Eligible(s, env)
     /\ AddCredential(c, s, env, kind, "pending_cutover")
     /\ Persist(h, [calls[h] EXCEPT
                      !.then = IF kind = "key" THEN "secret" ELSE "answer",
                      !.facts = @ \cup {<<c, "issued">>}])
     /\ UNCHANGED <<rotations, stray, begun>>

\* The error is the answer, whatever was done before.
RefuseProvision(h) ==
  /\ calls[h].op \in Kinds
  /\ ~Eligible(calls[h].service, calls[h].environment)
  /\ Wait(h, Idle)
  /\ UNCHANGED <<memory, disk, draft, writer, rotations, stray, begun,
                 answered, exposed, allowed, restarted, faults>>

\* old: "revoked" after an exposure, else "pending_cutover"
EmergencyRotate(h, c, s, env, old) ==
  LET replaced == {x \in Credentials :
                     /\ SameUse(memory.credentials[x], s, env, "key")
                     /\ memory.credentials[x].status = "active"}
  IN /\ Begin(h)
     /\ memory.services[s] # None
     /\ EnoughCredentials(1) /\ memory.credentials[c] = None
     /\ AddCredential(c, s, env, "key", old)
     /\ Persist(h, [Idle EXCEPT !.facts =
                      {<<c, "issued">>} \cup
                      (IF old = "revoked" THEN replaced \X {"revoked"} ELSE {})])
     /\ UNCHANGED <<rotations, stray>>

Revoke(h, c, kind) ==
  /\ Begin(h)
  /\ memory.credentials[c] # None /\ memory.credentials[c].kind = kind
  /\ memory' = [memory EXCEPT !.credentials[c].status = "revoked"]
  /\ Persist(h, [Idle EXCEPT !.facts = {<<c, "revoked">>}])
  /\ UNCHANGED <<rotations, stray>>

RevokeKey(h, c)    == Revoke(h, c, "key")
RevokeSecret(h, c) == Revoke(h, c, "secret")

RequestRotation(h, s, env, kind) ==
  /\ Begin(h)
  /\ memory.services[s] # None
  /\ rotations' = rotations \cup {<<s, env, kind>>}
  /\ Persist(h, Idle)
  /\ UNCHANGED <<memory, stray>>

RequestKeyRotation(h, s, env)    == RequestRotation(h, s, env, "key")
RequestSecretRotation(h, s, env) == RequestRotation(h, s, env, "secret")

\* The decision "complete", in whatever status the rotation is.  The other
\* decisions change no credential.
CutOver(h, s, env, kind) ==
  LET replaced == {x \in Credentials :
                     /\ SameUse(memory.credentials[x], s, env, kind)
                     /\ memory.credentials[x].status = "pending_cutover"}
  IN /\ Begin(h)
     /\ <<s, env, kind>> \in rotations
     /\ memory' = [memory EXCEPT !.credentials = [x \in Credentials |->
          IF x \in replaced THEN [memory.credentials[x] EXCEPT !.status = "revoked"]
          ELSE memory.credentials[x]]]
     /\ Persist(h, [Idle EXCEPT !.facts = replaced \X {"revoked"}])
     /\ UNCHANGED <<rotations, stray>>

CompleteKeyRotation(h, s, env)    == CutOver(h, s, env, "key")
CompleteSecretRotation(h, s, env) == CutOver(h, s, env, "secret")

\* Everything else that calls persist: an event is recorded, a rotation is
\* approved or rejected.  While nothing is registered, an event is all there is
\* to write.
RecordEvent(h) ==
  /\ Idling(h)
  /\ IF \/ \E a \in Applications : memory.applications[a] # None
        \/ \E s \in Services : memory.services[s] # None
     THEN Persist(h, Idle)
     ELSE UNCHANGED <<disk, draft, writer, calls, answered, exposed, allowed,
                      restarted, faults>>
  /\ UNCHANGED <<memory, rotations, stray, begun>>

-----------------------------------------------------------------------------
(* Persistence.                                                            *)

\* The tables that break the schema: the rows of a table are checked against
\* the services committed so far or, once it has written them, against those
\* of the transaction.
Violates(table, st) ==
  CASE table = "applications" ->
         ReferenceChecked /\ \E a \in Applications :
           LET r == st.applications[a]
           IN r # None /\ r.service # None /\ st.services[r.service] = None
    [] table = "services" ->
         \E s \in Services : /\ st.services[s] # None
                            /\ st.services[s].status = "archived"
    [] table = "requests" ->
         ReferenceChecked /\ \E r \in Requests :
           /\ st.requests[r] # None
           /\ st.services[st.requests[r].service] = None
    [] table = "credentials" ->
         \E c \in Credentials :
           /\ st.credentials[c] # None
           /\ st.services[st.credentials[c].service] = None
    [] table = "events" -> stray
    [] OTHER -> FALSE

\* The transaction of h begins, and its first statement is sent.
Send(h) ==
  LET first == \A a \in Applications : memory.applications[a] = None
      sent == [applications |-> memory.applications,
               services |-> IF first THEN memory.services ELSE Empty.services]
  IN /\ calls[h].op = "begin"
     /\ Wait(h, [calls[h] EXCEPT !.op = "applications", !.sent = sent])
     /\ UNCHANGED <<memory, disk, draft, writer, rotations, stray, begun,
                    answered, exposed, allowed, restarted, faults>>

\* What becomes of a table with rows that were sent: the row that waited is
\* written as it was sent, the rows after it as they are now, and a row that
\* was added meanwhile stays as the table has it.
RowsAfter(sent, now, table) ==
  LET waiting == {x \in DOMAIN sent : sent[x] # None}
  IN {[x \in DOMAIN sent |-> IF x \notin waiting THEN table[x]
                             ELSE IF x \in early THEN sent[x] ELSE now[x]] :
        early \in {E \in SUBSET waiting : waiting # {} => E # {}}}

\* The services wait only where no application does.
ServicesAfter(h) ==
  IF calls[h].sent.services = Empty.services THEN {memory.services}
  ELSE RowsAfter(calls[h].sent.services, memory.services, draft.services)

\* What the next table of h makes of the tables.
Outcomes(h) ==
  CASE calls[h].op = "applications" ->
         {[disk EXCEPT !.applications = A] : A \in
            RowsAfter(calls[h].sent.applications, memory.applications,
                    disk.applications)}
    [] calls[h].op = "services" ->
         {[draft EXCEPT !.services = S] : S \in ServicesAfter(h)}
    [] calls[h].op = "requests" -> {[draft EXCEPT !.requests = memory.requests]}
    [] calls[h].op = "credentials" ->
         {[draft EXCEPT !.credentials = memory.credentials]}
    [] OTHER -> {draft}

\* h writes a table, and then goes on to the next.
WriteTable(h, table, st, call) ==
  /\ calls[h].op = table
  /\ ~Violates(table, st)
  /\ draft' = st
  /\ Wait(h, call)
  /\ UNCHANGED <<memory, disk, rotations, stray, begun, answered, exposed,
                 allowed, restarted, faults>>

WriteApplications(h) ==
  /\ writer = None
  /\ writer' = h
  /\ \E st \in Outcomes(h) :
       WriteTable(h, "applications", st,
         [calls[h] EXCEPT !.op = "services",
                          !.sent.applications = Empty.applications])

WriteServices(h) ==
  /\ \E st \in Outcomes(h) :
       WriteTable(h, "services", st,
         [calls[h] EXCEPT !.op = "requests", !.sent = Nothing])
  /\ UNCHANGED writer

WriteRequests(h) ==
  /\ \E st \in Outcomes(h) :
       WriteTable(h, "requests", st, [calls[h] EXCEPT !.op = "credentials"])
  /\ UNCHANGED writer

\* Seeded change: only the credentials the table lacks are written.
WriteNewCredentials(h) ==
  /\ WriteTable(h, "credentials",
       [draft EXCEPT !.credentials = [c \in Credentials |->
          IF draft.credentials[c] # None THEN draft.credentials[c]
          ELSE memory.credentials[c]]],
       [calls[h] EXCEPT !.op = "events"])
  /\ UNCHANGED writer

WriteCredentials(h) ==
  /\ \E st \in Outcomes(h) :
       WriteTable(h, "credentials", st, [calls[h] EXCEPT !.op = "events"])
  /\ UNCHANGED writer

WriteEvents(h) ==
  /\ \E st \in Outcomes(h) :
       WriteTable(h, "events", st, [calls[h] EXCEPT !.op = "commit"])
  /\ UNCHANGED writer

Rollback(h) ==
  /\ IF writer = h THEN writer' = None /\ draft' = disk
     ELSE UNCHANGED <<writer, draft>>
  /\ Wait(h, Idle)
  /\ UNCHANGED <<memory, disk, rotations, stray, begun, answered, exposed,
                 allowed, restarted>>

Refuse(h) ==
  /\ calls[h].op \in Tables
  /\ calls[h].op = "applications" => writer = None
  /\ \E st \in Outcomes(h) : Violates(calls[h].op, st)
  /\ Rollback(h)
  /\ UNCHANGED faults

\* The commit is acknowledged: the handler answers or goes on.
Acknowledged(h) ==
  LET F == calls[h].facts
  IN IF calls[h].then = "answer"
     THEN /\ Tell(F, {fact \in F : \E g \in Handlers : Endangers(g, fact)})
          /\ Wait(h, Idle)
     ELSE /\ Wait(h, [calls[h] EXCEPT !.op = calls[h].then])
          /\ UNCHANGED <<answered, exposed>>

Commit(h) ==
  /\ calls[h].op = "commit"
  /\ disk' = draft
  /\ writer' = None
  /\ Acknowledged(h)
  /\ UNCHANGED <<memory, draft, rotations, stray, begun, allowed, restarted,
                 faults>>

\* A query fails and the handler answers with an error, ...
PersistFails(h) ==
  /\ calls[h].op \in Tables
  /\ faults < MaxFaults
  /\ faults' = faults + 1
  /\ Rollback(h)

\* ... or the acknowledgement of a commit is lost.
CommitUnnoticed(h) ==
  /\ calls[h].op = "commit"
  /\ faults < MaxFaults
  /\ faults' = faults + 1
  /\ disk' = draft
  /\ writer' = None
  /\ Wait(h, Idle)
  /\ UNCHANGED <<memory, draft, rotations, stray, begun, answered, exposed,
                 allowed, restarted>>

\* The process restarts with the given state.
RestartWith(state) ==
  /\ faults < MaxFaults
  /\ faults' = faults + 1
  /\ memory' = state
  /\ draft' = disk
  /\ writer' = None
  /\ rotations' = {} /\ stray' = FALSE
  /\ calls' = [h \in Handlers |-> Idle]
  /\ restarted' = TRUE
  /\ UNCHANGED <<disk, begun, answered, exposed, allowed>>

\* Seeded change: every credential is loaded as an active one.
RestartRevives ==
  RestartWith([disk EXCEPT !.credentials = [c \in Credentials |->
    IF disk.credentials[c] = None THEN None
    ELSE [disk.credentials[c] EXCEPT !.status = "active"]]])

\* loadFromDatabase
Restart == RestartWith(disk)

Onboard(h) ==
  \/ \E a \in Applications, E \in Applied,
        X \in SUBSET Scopes \ {{}} : Submit(h, a, E, X)
  \/ \E a \in Applications, s \in Services, status \in {"draft", "active"},
        grant \in BOOLEAN, D \in SUBSET Domains,
        env \in Environments \cup {None} :
       Approve(h, a, s, status, grant, D, env)
  \/ \E a \in Applications, env \in Environments \cup {None} :
       ApproveAgain(h, a, env)
  \/ \E s \in Services, D \in SUBSET Domains : ApproveOnboarding(h, s, D)
  \/ FindApproved(h)
  \/ \E a \in Applications : Reject(h, a)
  \/ \E c \in Credentials : Provision(h, c)
  \/ RefuseProvision(h)

Administer(h) ==
  \/ \E s \in Services, status \in StatusUpdates : UpdateStatus(h, s, status)
  \/ \E s \in Services, r \in Requests, X \in SUBSET Scopes \ {{}} :
       SubmitScopeRequest(h, s, r, X)
  \/ \E r \in Requests, decision \in {"approved", "rejected"} :
       DecideScopeRequest(h, r, decision)
  \/ \E s \in Services, d \in Domains : UpdateAllowlist(h, s, d)
  \/ \E s \in Services, D \in SUBSET Domains :
       VerifyDomains(h, s, D) \/ StartVerification(h, s, D)
  \/ \E D \in SUBSET Domains : FinishVerification(h, D)
  \/ RecordEvent(h)

Rotate(h) ==
  \/ \E c \in Credentials, s \in Services, env \in Environments :
       \/ \E kind \in Kinds : Issue(h, c, s, env, kind)
       \/ \E old \in {"revoked", "pending_cutover"} :
            EmergencyRotate(h, c, s, env, old)
  \/ \E c \in Credentials : RevokeKey(h, c) \/ RevokeSecret(h, c)
  \/ \E s \in Services, env \in Environments :
       \/ RequestKeyRotation(h, s, env) \/ RequestSecretRotation(h, s, env)
       \/ CompleteKeyRotation(h, s, env) \/ CompleteSecretRotation(h, s, env)

Write(h) ==
  \/ Send(h) \/ WriteApplications(h) \/ WriteServices(h) \/ WriteRequests(h)
  \/ WriteCredentials(h) \/ WriteEvents(h) \/ Refuse(h) \/ Commit(h)
  \/ PersistFails(h) \/ CommitUnnoticed(h)

Next ==
  \/ \E h \in Handlers :
       Onboard(h) \/ Administer(h) \/ Rotate(h) \/ Write(h)
  \/ Restart

Spec == Init /\ [][Next]_vars

-----------------------------------------------------------------------------
(* Properties.                                                             *)

\* What a client was told - an approval, a decision on scopes, a credential
\* issued or revoked - stays true in memory and on disk, whatever other
\* transactions fail, commit or are torn, restarts included: unless it was told
\* of an application or a grant while somebody waited to write what it was
\* before, or of an approval that was not stored.
AnswersLast ==
  \A fact \in answered \ exposed : Holds(memory, fact) /\ Holds(disk, fact)

Rank(r) == CASE r.status = "active" -> 0
             [] r.status = "pending_cutover" -> 1
             [] r.status = "revoked" -> 2

\* Memory and disk are of their types, and the disk trails the memory: it holds
\* no credential, service or decision the memory lacks, and no credential
\* further in its life, so that a handler's guards, which read the memory, are
\* at least as strict as the disk.
DiskTrails ==
  /\ TypeOK
  /\ \A s \in Services : disk.services[s] # None => memory.services[s] # None
  /\ \A r \in Requests : LET q == disk.requests[r]
                          IN q # None /\ q.status # "pending_review" =>
                               memory.requests[r] = q
  /\ \A c \in Credentials :
       disk.credentials[c] # None =>
         /\ memory.credentials[c] # None
         /\ Rank(memory.credentials[c]) >= Rank(disk.credentials[c])

\* The application that asked for scope x became service s.
AppliedFor(s, x) ==
  \E a \in Applications : LET r == memory.applications[a]
                         IN r # None /\ r.service = s /\ x \in r.scopes

\* A service holds no scope that was not asked for and approved, in memory or
\* in a snapshot on disk, torn as it may be: a scope it did not have from the
\* start was granted with its application or in a decision the same snapshot
\* has.  Until a restart loads a torn snapshot, the memory has the application
\* too.
GrantsExplained ==
  \A st \in {memory, disk}, s \in Services : st.services[s] # None =>
    \A x \in st.services[s].granted :
      \/ x \in MigratedScopes
      \/ <<s, x>> \in allowed /\ (restarted \/ AppliedFor(s, x))
      \/ \E r \in Requests : LET q == st.requests[r]
                             IN /\ q # None /\ q.service = s
                                /\ q.status = "approved" /\ x \in q.scopes

\* Until a restart, the pending scopes of a service that were not left over
\* by its approval are those of its pending requests.
PendingExplained ==
  ~restarted => \A s \in Services : memory.services[s] # None =>
    LET asked == UNION {memory.requests[r].scopes : r \in
                   {r \in Requests : /\ memory.requests[r] # None
                                     /\ memory.requests[r].service = s
                                     /\ memory.requests[r].status =
                                          "pending_review"}}
        first == UNION {memory.applications[a].scopes : a \in
                   {a \in Applications : /\ memory.applications[a] # None
                                         /\ memory.applications[a].service = s}}
    IN /\ asked \subseteq memory.services[s].pending
       /\ memory.services[s].pending \subseteq asked \cup first
       /\ memory.services[s].pending \cap memory.services[s].granted = {}

\* Every scope of a service, granted or pending, is explained by the requests
\* and decisions that are kept beside it.
ScopesExplained == GrantsExplained /\ PendingExplained

\* However issues, rotations and restarts interleave, a service has at most
\* one active credential of a kind in an environment.
OneActive ==
  \A st \in {memory, disk}, c, x \in Credentials :
    LET p == st.credentials[c]
        q == st.credentials[x]
    IN /\ c # x /\ p # None /\ q # None
       /\ p.status = "active" /\ q.status = "active"
       => <<p.service, p.environment, p.kind>> # <<q.service, q.environment, q.kind>>
=============================================================================
