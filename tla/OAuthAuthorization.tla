-------------------------- MODULE OAuthAuthorization --------------------------
(***************************************************************************)
(* The front half of the authorization server: a client pushes a request,  *)
(* its user's browser brings it to the gateway, which sends it on to the   *)
(* identity provider; the provider's callback identifies the user, who is  *)
(* shown the request and approves or denies it; an approval is followed by *)
(* a consent and a code.                                                   *)
(*                                                                         *)
(* Each statement of the database, and the transaction that consumes a     *)
(* pushed request, is one step.  What the registry says of the client      *)
(* (active, scopes, redirect address) is a choice here.  The state sent to *)
(* the provider, the pushed request's address and the approval token are   *)
(* random: only who was given one presents it.  What is done with a code   *)
(* is in OAuthTokens.                                                      *)
(***************************************************************************)
EXTENDS Naturals, FiniteSets

CONSTANTS
  Services, Subjects,
  Pushes, Requests, Consents, Codes,  \* random identifiers
  Placeholder,  \* a subject that stands for nobody
  Handlers,
  MaxFaults,    \* bound: failed calls and restarts
  None

PushRecords == [service : Services, consumed : BOOLEAN, due : BOOLEAN]

\* push is history: the pushed request this one was made of.
RequestRecords ==
  [service : Services, push : Pushes \cup {None},
   status : {"pending_identity", "pending_consent", "approved", "denied"},
   subject : Subjects \cup {Placeholder, None}, due : BOOLEAN]

ConsentRecords ==
  [request : Requests, subject : Subjects \cup {Placeholder, None}]

CodeRecords ==
  [request : Requests, subject : Subjects \cup {Placeholder, None},
   consent : Consents]

ASSUME AuthorizationAssumption ==
  /\ Placeholder \notin Subjects
  /\ None \notin Services \cup Subjects \cup Pushes \cup Requests \cup Consents
                 \cup Codes \cup {Placeholder}
  /\ None \notin PushRecords \cup RequestRecords \cup ConsentRecords
                 \cup CodeRecords
  /\ MaxFaults \in Nat

Steps == {"idle", "push", "consume", "create", "claim", "identity", "replace",
          "page", "decide", "consent", "code"}

\* What a handler waits for.  subject: of the record it last read, or the one
\* the provider told it.
Calls ==
  [do : Steps, service : Services \cup {None}, push : Pushes \cup {None},
   request : Requests \cup {None}, decision : {"approved", "denied"},
   subject : Subjects \cup {Placeholder, None}, consent : Consents \cup {None}]

Idle == [do |-> "idle", service |-> None, push |-> None, request |-> None,
         decision |-> "denied", subject |-> None, consent |-> None]

VARIABLES
  pushed, requests, consents, codes,  \* tables
  calls,
  shown,      \* requests whose page, with the approval token, was delivered
  identified, \* whom the provider named in answer to the request, or None
  faults

tables == <<pushed, requests, consents, codes>>
vars   == <<tables, calls, shown, identified, faults>>

TypeOK ==
  /\ pushed \in [Pushes -> PushRecords \cup {None}]
  /\ requests \in [Requests -> RequestRecords \cup {None}]
  /\ consents \in [Consents -> ConsentRecords \cup {None}]
  /\ codes \in [Codes -> CodeRecords \cup {None}]
  /\ calls \in [Handlers -> Calls]
  /\ shown \subseteq {r \in Requests : requests[r] # None}
  /\ identified \in [Requests -> Subjects \cup {None}]
  /\ faults \in 0 .. MaxFaults

Init ==
  /\ pushed = [p \in Pushes |-> None]
  /\ requests = [r \in Requests |-> None]
  /\ consents = [c \in Consents |-> None]
  /\ codes = [k \in Codes |-> None]
  /\ calls = [h \in Handlers |-> Idle]
  /\ shown = {} /\ identified = [r \in Requests |-> None]
  /\ faults = 0

-----------------------------------------------------------------------------
(* Helpers.                                                                *)

Wait(h, call) == calls' = [calls EXCEPT ![h] = call]
Return(h) == Wait(h, Idle)

\* A request arrives; nothing is changed before the first await.
Begin(h, call) ==
  /\ calls[h].do = "idle"
  /\ Wait(h, call)
  /\ UNCHANGED <<tables, shown, identified, faults>>

Resumes(h, step) == calls[h].do = step /\ UNCHANGED faults

\* Bound: a request that stores a row begins while rows are left.
RowsLeft(table, steps) ==
  Cardinality({h \in Handlers : calls[h].do \in steps})
    < Cardinality({i \in DOMAIN table : table[i] = None})

\* A new random identifier; which one makes no difference.
IsNew(i, table) ==
  LET unused == {j \in DOMAIN table : table[j] = None}
  IN i \in unused /\ i = CHOOSE j \in unused : TRUE

\* The condition of the updates of an authorization request.
Open(r, status) == requests[r].status = status /\ ~requests[r].due

-----------------------------------------------------------------------------
(* From the client to the identity provider.                               *)

\* POST /oauth/par
Push(h, s) ==
  /\ RowsLeft(pushed, {"push"})
  /\ Begin(h, [Idle EXCEPT !.do = "push", !.service = s])

StorePush(h, p) ==
  /\ Resumes(h, "push")
  /\ IsNew(p, pushed)
  /\ pushed' = [pushed EXCEPT ![p] =
       [service |-> calls[h].service, consumed |-> FALSE, due |-> FALSE]]
  /\ Return(h)
  /\ UNCHANGED <<requests, consents, codes, shown, identified>>

\* GET /oauth/authorize, with the request itself or the address of one pushed.
Authorize(h, s) ==
  /\ RowsLeft(requests, {"consume", "create"})
  /\ Begin(h, [Idle EXCEPT !.do = "create", !.service = s])

AuthorizePushed(h, s, p) ==
  /\ RowsLeft(requests, {"consume", "create"})
  /\ pushed[p] # None
  /\ Begin(h, [Idle EXCEPT !.do = "consume", !.service = s, !.push = p])

\* Seeded change: the request is looked up and not marked.
ConsumePushUnmarked(h) ==
  LET p == calls[h].push IN
  /\ Resumes(h, "consume")
  /\ IF /\ ~pushed[p].consumed /\ ~pushed[p].due
        /\ pushed[p].service = calls[h].service
     THEN Wait(h, [calls[h] EXCEPT !.do = "create"])
     ELSE Return(h)
  /\ UNCHANGED <<tables, shown, identified>>

\* consume; the second end: by now the registry refuses the client.
ConsumePush(h) ==
  LET p == calls[h].push IN
  /\ Resumes(h, "consume")
  /\ IF /\ ~pushed[p].consumed /\ ~pushed[p].due
        /\ pushed[p].service = calls[h].service
     THEN /\ pushed' = [pushed EXCEPT ![p].consumed = TRUE]
          /\ Wait(h, [calls[h] EXCEPT !.do = "create"]) \/ Return(h)
     ELSE Return(h) /\ UNCHANGED pushed
  /\ UNCHANGED <<requests, consents, codes, shown, identified>>

CreateRequest(h, r) ==
  /\ Resumes(h, "create")
  /\ IsNew(r, requests)
  /\ requests' = [requests EXCEPT ![r] =
       [service |-> calls[h].service, push |-> calls[h].push,
        status |-> "pending_identity", subject |-> None, due |-> FALSE]]
  /\ Return(h)
  /\ UNCHANGED <<pushed, consents, codes, shown, identified>>

-----------------------------------------------------------------------------
(* GET /oauth/identity/callback                                            *)

Callback(h, r) ==
  /\ requests[r] # None
  /\ Begin(h, [Idle EXCEPT !.do = "claim", !.request = r])

\* completeIdentity, with a subject that stands for nobody yet.
ClaimState(h) ==
  LET r == calls[h].request IN
  /\ Resumes(h, "claim")
  /\ IF Open(r, "pending_identity")
     THEN /\ requests' = [requests EXCEPT ![r].status = "pending_consent",
                                          ![r].subject = Placeholder]
          /\ Wait(h, [calls[h] EXCEPT !.do = "identity"])
     ELSE Return(h) /\ UNCHANGED requests
  /\ UNCHANGED <<pushed, consents, codes, shown, identified>>

\* The provider exchanges the code and its ID token names the user, ...
ProviderIdentifies(h, u) ==
  /\ Resumes(h, "identity")
  /\ identified' = [identified EXCEPT ![calls[h].request] = u]
  /\ Wait(h, [calls[h] EXCEPT !.do = "replace", !.subject = u])
  /\ UNCHANGED <<tables, shown>>

\* ... or the exchange or the verification of the token fails.
ProviderRefuses(h) ==
  /\ Resumes(h, "identity")
  /\ Return(h)
  /\ UNCHANGED <<tables, shown, identified>>

\* Seeded change: whatever the state of the request.
ReplaceAnySubject(h) ==
  LET r == calls[h].request IN
  /\ Resumes(h, "replace")
  /\ requests' = [requests EXCEPT ![r].subject = calls[h].subject]
  /\ Wait(h, [calls[h] EXCEPT !.do = "page"])
  /\ UNCHANGED <<pushed, consents, codes, shown, identified>>

\* replacePendingSubject
ReplaceSubject(h) ==
  LET r == calls[h].request IN
  /\ Resumes(h, "replace")
  /\ IF Open(r, "pending_consent")
     THEN /\ requests' = [requests EXCEPT ![r].subject = calls[h].subject]
          /\ Wait(h, [calls[h] EXCEPT !.do = "page"])
     ELSE Return(h) /\ UNCHANGED requests
  /\ UNCHANGED <<pushed, consents, codes, shown, identified>>

\* oauthConsentHtml: with the page the browser has the approval token.
ShowPage(h) ==
  /\ Resumes(h, "page")
  /\ shown' = shown \cup {calls[h].request}
  /\ Return(h)
  /\ UNCHANGED <<tables, identified>>

-----------------------------------------------------------------------------
(* POST /oauth/authorize/decision                                          *)

Decide(h, r, decision) ==
  /\ r \in shown
  /\ Begin(h, [Idle EXCEPT !.do = "decide", !.request = r,
                           !.decision = decision])

\* decide
RecordDecision(h) ==
  LET r == calls[h].request IN
  /\ Resumes(h, "decide")
  /\ IF Open(r, "pending_consent")
     THEN /\ requests' = [requests EXCEPT ![r].status = calls[h].decision]
          /\ IF calls[h].decision = "approved"
             THEN Wait(h, [calls[h] EXCEPT !.do = "consent",
                                           !.subject = requests[r].subject])
             ELSE Return(h)
     ELSE Return(h) /\ UNCHANGED requests
  /\ UNCHANGED <<pushed, consents, codes, shown, identified>>

\* Seeded change: a subject has at most one consent.
CreateFirstConsent(h, c) ==
  LET call == calls[h]
      known == \E d \in Consents : /\ consents[d] # None
                                   /\ consents[d].subject = call.subject
  IN /\ Resumes(h, "consent")
     /\ IsNew(c, consents)
     /\ IF known THEN Return(h) /\ UNCHANGED consents
        ELSE /\ consents' = [consents EXCEPT ![c] =
                  [request |-> call.request, subject |-> call.subject]]
             /\ Wait(h, [call EXCEPT !.do = "code", !.consent = c])
     /\ UNCHANGED <<pushed, requests, codes, shown, identified>>

\* consentReceiptStore.create; no two approvals have the same evidence.
CreateConsent(h, c) ==
  LET call == calls[h] IN
  /\ Resumes(h, "consent")
  /\ IsNew(c, consents)
  /\ consents' = [consents EXCEPT ![c] =
       [request |-> call.request, subject |-> call.subject]]
  /\ Wait(h, [call EXCEPT !.do = "code", !.consent = c])
  /\ UNCHANGED <<pushed, requests, codes, shown, identified>>

\* Seeded change: the insert may be repeated.
IssueCodes(h, k) ==
  LET call == calls[h] IN
  /\ Resumes(h, "code")
  /\ IsNew(k, codes)
  /\ codes' = [codes EXCEPT ![k] =
       [request |-> call.request, subject |-> call.subject,
        consent |-> call.consent]]
  /\ Return(h) \/ UNCHANGED calls
  /\ UNCHANGED <<pushed, requests, consents, shown, identified>>

\* issueCode
IssueCode(h, k) ==
  LET call == calls[h] IN
  /\ Resumes(h, "code")
  /\ IsNew(k, codes)
  /\ codes' = [codes EXCEPT ![k] =
       [request |-> call.request, subject |-> call.subject,
        consent |-> call.consent]]
  /\ Return(h)
  /\ UNCHANGED <<pushed, requests, consents, shown, identified>>

-----------------------------------------------------------------------------
(* Time, faults, and the whole.                                            *)

\* The time of a row matters until it is consumed or decided.
PushExpires(p) ==
  /\ pushed[p] # None /\ ~pushed[p].consumed /\ ~pushed[p].due
  /\ pushed' = [pushed EXCEPT ![p].due = TRUE]
  /\ UNCHANGED <<requests, consents, codes, calls, shown, identified, faults>>

RequestExpires(r) ==
  /\ requests[r] # None /\ ~requests[r].due
  /\ requests[r].status \notin {"approved", "denied"}
  /\ requests' = [requests EXCEPT ![r].due = TRUE]
  /\ UNCHANGED <<pushed, consents, codes, calls, shown, identified, faults>>

\* A query fails, or the answer to the one before it was lost.
QueryFails(h) ==
  /\ calls[h].do # "idle"
  /\ faults < MaxFaults
  /\ faults' = faults + 1
  /\ Return(h)
  /\ UNCHANGED <<tables, shown, identified>>

Restart ==
  /\ faults < MaxFaults
  /\ faults' = faults + 1
  /\ calls' = [h \in Handlers |-> Idle]
  /\ UNCHANGED <<tables, shown, identified>>

HandlerStep(h) ==
  \/ \E p \in Pushes : StorePush(h, p)
  \/ ConsumePush(h)
  \/ \E r \in Requests : CreateRequest(h, r)
  \/ ClaimState(h) \/ ProviderRefuses(h) \/ ReplaceSubject(h) \/ ShowPage(h)
  \/ \E u \in Subjects : ProviderIdentifies(h, u)
  \/ RecordDecision(h)
  \/ \E c \in Consents : CreateConsent(h, c)
  \/ \E k \in Codes : IssueCode(h, k)

Next ==
  \/ \E h \in Handlers :
       \/ \E s \in Services : \/ Push(h, s) \/ Authorize(h, s)
                              \/ \E p \in Pushes : AuthorizePushed(h, s, p)
       \/ \E r \in Requests :
            \/ Callback(h, r)
            \/ \E decision \in {"approved", "denied"} : Decide(h, r, decision)
       \/ HandlerStep(h)
       \/ QueryFails(h)
  \/ \E p \in Pushes : PushExpires(p)
  \/ \E r \in Requests : RequestExpires(r)
  \/ Restart

Spec == Init /\ [][Next]_vars

\* Queries end, and so does the call to the identity provider.
FairSpec == Spec /\ \A h \in Handlers : WF_vars(HandlerStep(h))

-----------------------------------------------------------------------------
(* Properties.                                                             *)

\* The address of a pushed request is good for one authorization, by the
\* client that pushed it, however often and by whom it is presented.
OneUse ==
  \A q, r \in {r \in Requests : requests[r] # None} :
    LET p == requests[r].push IN
    /\ p # None => requests[r].service = pushed[p].service
    /\ p # None /\ requests[q].push = p => q = r

\* A code and a consent name the user whom the provider identified for their
\* request, never a placeholder (and all records are of their types); each code has a consent of its own, and no
\* request two codes.
CodeBacked ==
  LET issued == {k \in Codes : codes[k] # None} IN
  /\ TypeOK
  /\ \A c \in Consents : consents[c] # None =>
       consents[c].subject = identified[consents[c].request]
  /\ \A k \in issued :
       consents[codes[k].consent] = [request |-> codes[k].request,
                                     subject |-> codes[k].subject]
  /\ \A j, k \in issued : codes[j].request = codes[k].request => j = k

Granted(r) == \E k \in Codes : codes[k] # None /\ codes[k].request = r

Phase(r) ==
  IF requests[r] = None THEN "none"
  ELSE IF Granted(r) THEN "granted"
  ELSE IF requests[r].status \in {"approved", "denied"} THEN requests[r].status
  ELSE IF requests[r].subject \in Subjects THEN "identified" ELSE "asked"

Subject(r) ==
  IF requests[r] # None /\ requests[r].subject \in Subjects
  THEN requests[r].subject ELSE None

Abstract == INSTANCE AuthorizationGrant WITH
  phase <- [r \in Requests |-> Phase(r)],
  subject <- [r \in Requests |-> Subject(r)],
  over <- {r \in Requests : requests[r] # None /\ requests[r].due}

\* The handlers and tables implement the abstract authorization: identified
\* once, decided once, in time, and a code only for an approval.
ImplementsGrant == Abstract!Spec

\* Unless a query fails, an approval is followed by its code.
ApprovalAnswered ==
  \A r \in Requests :
    requests[r] # None /\ requests[r].status = "approved" ~>
      Granted(r) \/ faults > 0
=============================================================================
