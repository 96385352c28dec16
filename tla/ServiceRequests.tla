---------------------------- MODULE ServiceRequests ----------------------------
(***************************************************************************)
(* The way of a service's request through the gateway: its credential is   *)
(* read, with a DPoP proof if the token is bound to a key and with the     *)
(* consent behind the token if it has one; the guards count it and check   *)
(* its signature and nonce; a consent of the person it is about is looked  *)
(* up; and ORBI Core, or a payment provider and then Core, is called.      *)
(*                                                                         *)
(* A request on the wire may arrive any number of times and at any time.   *)
(* Handlers give way to each other at their awaits: the proof, the two     *)
(* queries, the provider and Core.  The guards have no await in them.      *)
(***************************************************************************)
EXTENDS RequestGuards, Sequences

CONSTANTS
  Shapes,         \* requests up to their nonce and timestamp
  Consents,       \* random identifiers
  People,         \* the names by which persons and businesses are known
  Grants,         \* what a person may consent to
  References,     \* of operations that providers execute
  Signing,        \* those of providers whose manifest has a webhookSignature
  Words,          \* what a provider says of an operation
  Handlers,
  MaxTime,        \* bound: seconds
  MaxSent,        \* bound: requests
  MaxDelay,       \* bound: seconds until a request arrives for the first time
  MaxArrivals,    \* bound: arrivals of requests and of provider webhooks
  MaxChanges,     \* bound: changes of consents, and restarts
  None

ConsentScopes == {"balance:read", "payment_profile:create"}
ProviderWords == {"paid", "approved", "queued", "declined", "error"}

Environments == {"sandbox", "live"}

\* op: the endpoint; token: the consent of a financial access token, None for
\* other credentials; subject: the person of that token; environment: of the
\* credential; bound: to a DPoP key; signed: with the right signature; keyed: with
\* an idempotency key; person: whom the request names, if anybody; inPath: in the
\* path, not in the body or the query; about: the reference of an operation.
ShapeRecords ==
  [op : {"balance", "merchant", "resolve", "register", "profile", "operate"},
   service : Services, token : Consents \cup {None}, subject : People \cup {None},
   environment : Environments, bound : BOOLEAN, signed : BOOLEAN, keyed : BOOLEAN,
   person : People \cup {None}, inPath : BOOLEAN, about : References \cup {None}]

RequestRecords == [shape : Shapes, nonce : Nonces, ts : Nat]

\* alias: externalSubjectId, the name that the service has for the subject.
ConsentRecords ==
  [service : Services, environment : Environments, subject : People,
   alias : People \cup {None}, scopes : SUBSET ConsentScopes, until : Nat,
   revoked : BOOLEAN]

ASSUME RequestsAssumption ==
  /\ Shapes \subseteq ShapeRecords
  /\ \A s \in Shapes : s.op = "operate" => s.about \in References
  /\ \A s \in Shapes : s.token # None => s.subject \in People
  /\ Signing \subseteq References
  /\ Grants \subseteq {g \in ConsentRecords : ~g.revoked}
  /\ Words \subseteq ProviderWords
  /\ None \notin Consents \cup People \cup References \cup RequestRecords
  /\ {MaxTime, MaxSent, MaxDelay, MaxArrivals, MaxChanges} \subseteq Nat

\* The statuses of the gateway.
Statuses == {"completed", "pending", "processing", "failed"}
Events == [about : References, status : Statuses]

Steps == {"idle", "proof", "token", "guard", "consent", "core",
          "provider", "response"}

\* held: history, what was in force at some moment since the request arrived.
Calls ==
  [do : Steps, request : RequestRecords \cup {None},
   held : SUBSET {"token", "consent"}]

Idle == [do |-> "idle", request |-> None, held |-> {}]

VARIABLES
  wire,       \* requests that have arrived, and may arrive again
  consents,   \* pay_gateway_consent_receipts
  words,      \* what the provider has said of each operation
  told,       \* events that Core has taken
  calls,
  \* Histories, of what the gateway still could know, as it was not lost to a
  \* restart or to a full cache:
  accepted,   \* nonces and proofs that were accepted, with their request
  again,      \* those that were accepted once more, and when
  passes,     \* when requests of a service were within its rate
  arrivals, changes

vars == <<guards, wire, consents, words, told, calls,
          accepted, again, passes, arrivals, changes>>

registry == <<consents, changes>>
providers == <<words, told>>
seen == <<accepted, again>>
rate == <<buckets, passes>>

TypeOK ==
  /\ GuardsTypeOK
  /\ wire \in SUBSET RequestRecords
  /\ consents \in [Consents -> ConsentRecords \cup {None}]
  /\ words \in [References -> SUBSET Words]
  /\ told \in SUBSET Events
  /\ calls \in [Handlers -> Calls]
  /\ accepted \in SUBSET (Keys \X RequestRecords)
  /\ again \in SUBSET [key : Keys, request : RequestRecords, at : Nat]
  /\ passes \in [Services -> Seq(Nat)]
  /\ arrivals \in 0 .. MaxArrivals
  /\ changes \in 0 .. MaxChanges

Init ==
  /\ GuardsInit
  /\ wire = {}
  /\ consents \in [Consents -> Grants \cup {None}]
  /\ words = [r \in References |-> {}]
  /\ told = {}
  /\ calls = [h \in Handlers |-> Idle]
  /\ accepted = {}
  /\ again = {}
  /\ passes = [s \in Services |-> <<>>]
  /\ arrivals = 0
  /\ changes = 0

-----------------------------------------------------------------------------
(* Consents, which handlers read.                                          *)

Expired(c) == consents[c].until <= now

\* deriveStatus
Status(c) == IF consents[c].revoked THEN "revoked"
             ELSE IF Expired(c) THEN "expired" ELSE "active"

\* Seeded change: the consents of anybody are listed.
ListedOfAnybody(service, person) ==
  {c \in Consents : /\ consents[c] # None
                    /\ consents[c].service = service
                    /\ Status(c) = "active"}

\* filterReceipts, for active ones.  The alias is not looked at.
Listed(service, person) ==
  {c \in Consents : /\ consents[c] # None
                    /\ consents[c].service = service
                    /\ person # None => consents[c].subject = person
                    /\ Status(c) = "active"}

HasActiveConsent(service, person, scopes, environment) ==
  \E c \in Listed(service, person) :
    consents[c].environment = environment /\ scopes \subseteq consents[c].scopes

\* The consent behind a financial access token.
TokenConsentActive(shape) ==
  LET c == consents[shape.token] IN
  /\ shape.token # None /\ c # None
  /\ Status(shape.token) = "active"
  /\ c.service = shape.service /\ c.environment = shape.environment
  /\ shape.subject \in {c.subject, c.alias}

\* A person named in the body or the query is the token's.  A name in the path,
\* as of GET /v1/paysafe/users/:userId/balance, is not looked at.
NamesItsSubject(shape) == shape.inPath \/ shape.person \in {None, shape.subject}

\* A profile asks for the scopes that its body names: here for one.  Services
\* that only the environment configures are not asked for a consent: the
\* requests here are of services in the registry.
ScopesAskedFor(op) == CASE op = "balance" -> {"balance:read"}
                        [] op = "profile" -> {"payment_profile:create"}
                        [] OTHER -> {}

\* History: the consents of a service that are in force at the moment, and what
\* a request may rely on: the consent behind its token, if it is of the token's
\* environment and person, and a live consent of the person that it names.
Given(service) ==
  {c \in Consents : /\ consents[c] # None
                    /\ consents[c].service = service
                    /\ consents[c].until > now
                    /\ ~consents[c].revoked}

OfItsToken(shape) ==
  {c \in Given(shape.service) \cap {shape.token} :
     /\ consents[c].environment = shape.environment
     /\ shape.subject \in {consents[c].subject, consents[c].alias}}

OfThePerson(shape) ==
  {c \in Given(shape.service) :
     /\ consents[c].subject = shape.person
     /\ consents[c].environment = "live"
     /\ ScopesAskedFor(shape.op) \subseteq consents[c].scopes}

InForce(shape) ==
  {"token" : c \in OfItsToken(shape)} \cup {"consent" : c \in OfThePerson(shape)}

\* History: requests that are being served see what comes into force.
Witness ==
  \E old \in {calls} :
    calls' = [h \in Handlers |->
                IF old[h].request = None THEN old[h]
                ELSE [old[h] EXCEPT !.held =
                        @ \cup InForce(old[h].request.shape)']]

Change ==
  /\ changes < MaxChanges
  /\ changes' = changes + 1
  /\ UNCHANGED <<guards, wire, providers, seen, passes, arrivals>>

GiveConsent(c, grant) ==
  /\ Change
  /\ consents[c] = None
  /\ grant.until > now
  /\ consents' = [consents EXCEPT ![c] = grant]
  /\ Witness

\* ConsentReceiptStore.revoke
Revoke(c) ==
  /\ consents[c] # None /\ Status(c) # "revoked"
  /\ consents' = [consents EXCEPT ![c].revoked = TRUE]

\* The endpoints that withdraw a consent, of the person and of an operator.
RevokeConsent(c) ==
  /\ Change
  /\ Revoke(c)
  /\ UNCHANGED calls

-----------------------------------------------------------------------------
(* Requests arrive.                                                        *)

Doing(h, step) == calls[h].do = step
Request(h) == calls[h].request
Shape(h) == Request(h).shape
Goto(h, step) == calls' = [calls EXCEPT ![h].do = step]
Answer(h) == calls' = [calls EXCEPT ![h] = Idle]

Begin(h, c) ==
  /\ Doing(h, "idle")
  /\ arrivals < MaxArrivals
  /\ arrivals' = arrivals + 1
  /\ calls' = [calls EXCEPT ![h] = c]

Tick ==
  /\ now < MaxTime
  /\ now' = now + 1
  /\ UNCHANGED <<nonces, buckets, wire, registry, providers, calls,
                 seen, passes, arrivals>>

\* A request that was sent by now, by a clock that may be ahead, or one that
\* has arrived before.  A nonce may have been used before as well.
Arrive(h, q, step) ==
  /\ q \in wire \/ (Cardinality(wire) < MaxSent /\ q.ts \in now - MaxDelay .. now + Ahead)
  /\ wire' = wire \cup {q}
  /\ Begin(h, [Idle EXCEPT !.do = step, !.request = q,
                           !.held = InForce(q.shape)])
  /\ UNCHANGED <<guards, registry, providers, seen, passes>>

ArriveWithToken(h, q) ==
  /\ q.shape.bound \/ q.shape.token # None
  /\ Arrive(h, q, "proof")

\* An API key needs no query: it is the key of a service.
ArriveWithKey(h, q) ==
  /\ ~q.shape.bound /\ q.shape.token = None
  /\ Arrive(h, q, "guard")

SignatureKey(q) == <<"signature", q.shape.service, q.nonce>>
ProofKey(q) == <<"proof", q.shape.service, q.nonce>>

\* A nonce or a proof is met.
Record(key, ttl, max, q) ==
  LET lost == Lost(nonces, Prune(nonces, max))
      before == {a \in accepted : a[1] \notin lost}
      new == IF Remembered(key, max) THEN {} ELSE {<<key, q>>}
  IN
  /\ Meet(key, ttl, max)
  /\ accepted' = before \cup new
  /\ again' = again \cup {[key |-> key, request |-> q, at |-> now] : a \in before \cap new}

\* verifyDpopProof, and then the service.  It may be suspended, and the scopes
\* of the token may have been withdrawn as well.
Authenticate(h) ==
  LET q == Request(h)
      fresh == q.shape.bound /\ Fresh(q.ts, ProofTolerance)
      proved == fresh /\ ~Remembered(ProofKey(q), MaxProofs)
  IN
  /\ Doing(h, "proof")
  /\ IF fresh THEN Record(ProofKey(q), ProofTolerance, MaxProofs, q)
              ELSE UNCHANGED <<nonces, seen>>
  /\ \/ /\ proved \/ ~q.shape.bound
        /\ Goto(h, IF q.shape.token = None THEN "guard" ELSE "token")
     \/ Answer(h)
  /\ UNCHANGED <<now, rate, wire, registry, providers, arrivals>>

Keep == UNCHANGED <<guards, wire, registry, providers, seen, passes,
                    arrivals>>

\* requirePayServiceAccess: the consent of a financial access token.  The query
\* may fail, or the consent may lack a scope of the token.
ReadTokenConsent(h) ==
  /\ Doing(h, "token")
  /\ \/ /\ TokenConsentActive(Shape(h)) /\ NamesItsSubject(Shape(h))
        /\ Goto(h, "guard")
     \/ Answer(h)
  /\ Keep

-----------------------------------------------------------------------------
(* The guards of the handlers.                                             *)

\* The request is counted, and passes if it is within the rate.
CountPass(s) ==
  LET lost == Lost(buckets, Prune(buckets, MaxSubjects)) IN
  /\ CountRequest(s)
  /\ passes' = [k \in Services |->
       (IF k \in lost THEN <<>> ELSE passes[k])
       \o (IF k = s /\ WithinRate(s) THEN <<now>> ELSE <<>>)]

SignatureHolds(q) == Fresh(q.ts, Tolerance) /\ q.shape.signed

At(h, op) == Doing(h, "guard") /\ Shape(h).op = op

\* The request is counted, then its timestamp and its signature are checked, and
\* only then its nonce is remembered.  before and after are what the handler
\* asks for before and after the signature.  A handler that goes on does so at
\* next, unless the scope it asks for is not granted to the service.
Guard(h, before, after, next) ==
  LET q == Request(h)
      signed == WithinRate(q.shape.service) /\ before /\ SignatureHolds(q)
      new == signed /\ ~Remembered(SignatureKey(q), MaxNonces)
  IN
  /\ CountPass(q.shape.service)
  /\ IF signed THEN Record(SignatureKey(q), NonceTtl, MaxNonces, q)
               ELSE UNCHANGED <<nonces, seen>>
  /\ \/ new /\ after /\ Goto(h, next)
     \/ Answer(h)
  /\ UNCHANGED <<now, wire, registry, providers, arrivals>>

\* assertSignedRuntimeRequest
SignedRequest(h, op, next) ==
  At(h, op) /\ Guard(h, TRUE, TRUE, next)

\* assertSignedRuntimeMutationRequest: the idempotency key is asked for last.
SignedMutation(h, op, next) ==
  At(h, op) /\ Guard(h, TRUE, Shape(h).keyed, next)

\* assertFinancialRuntimeRequest: the idempotency key is asked for first.
FinancialRequest(h, op, next) ==
  At(h, op) /\ Guard(h, Shape(h).keyed, TRUE, next)

QueryBalances(h) == SignedRequest(h, "balance", "consent")
QueryMerchant(h) == SignedRequest(h, "merchant", "core")
ResolveIdentity(h) == SignedRequest(h, "resolve", "core")
RegisterBusiness(h) == SignedMutation(h, "register", "core")
CreateProfile(h) == SignedMutation(h, "profile", "consent")
Operate(h) == FinancialRequest(h, "operate", "provider")

\* The body or the environment is not right: nothing is counted or remembered.
Refuse(h) ==
  /\ Doing(h, "guard")
  /\ Answer(h)
  /\ Keep

\* assertActiveConsent, of the person that the request names, in the live
\* environment.  The query may fail.
ReadConsent(h) ==
  /\ Doing(h, "consent")
  /\ \/ /\ Shape(h).person # None
        /\ HasActiveConsent(Shape(h).service, Shape(h).person,
                            ScopesAskedFor(Shape(h).op), "live")
        /\ Goto(h, "core")
     \/ Answer(h)
  /\ Keep

\* Core answers, or the call to it fails; either is passed on.
CoreAnswers(h) ==
  /\ Doing(h, "core")
  /\ Answer(h)
  /\ Keep

-----------------------------------------------------------------------------
(* Operations of providers.  External: a provider executes an operation    *)
(* once for a reference, and what it says may be late or repeated.         *)

ProviderExecutes(h, word) ==
  /\ Doing(h, "provider")
  /\ words' = [words EXCEPT ![Shape(h).about] = IF @ = {} THEN {word} ELSE @]
  /\ Goto(h, "response")
  /\ UNCHANGED <<guards, wire, registry, told, seen, passes,
                 arrivals>>

ProviderSettles(r, word) ==
  /\ words[r] = {"queued"} /\ word # "queued"
  /\ words' = [words EXCEPT ![r] = @ \cup {word}]
  /\ UNCHANGED <<guards, wire, registry, told, calls, seen, passes,
                 arrivals>>

\* Seeded change: what is queued is reported as done.
ResponseStatusEarly(word) == IF word \in {"declined", "error"} THEN "failed"
                             ELSE "completed"

\* normalizeProviderStatus, of responses
ResponseStatus(word) == CASE word \in {"paid", "approved"} -> "completed"
                          [] word \in {"declined", "error"} -> "failed"
                          [] word = "queued" -> "pending"

\* The engine that sends XML does not read the response.
XmlStatus == "processing"

\* Seeded change: a word that is not known is passed on as it is.
WebhookStatusRaw(word) == CASE word = "paid" -> "completed"
                            [] word = "declined" -> "failed"
                            [] OTHER -> word

\* normalizeStatus, of webhooks: it knows fewer words.
WebhookStatus(word) == CASE word = "paid" -> "completed"
                         [] word = "declined" -> "failed"
                         [] OTHER -> "processing"

\* Core is told of an event, or the call to it fails.
TellCore(r, status) ==
  told' = told \cup {[about |-> r, status |-> status]} \/ UNCHANGED told

\* The response is read, and Core is told.  The handler keeps nothing but its
\* answer while Core is.
ProviderAnswers(h, word) ==
  LET r == Shape(h).about IN
  /\ Doing(h, "response")
  /\ word \in words[r]
  /\ \E status \in {ResponseStatus(word), XmlStatus} : TellCore(r, status)
  /\ Answer(h)
  /\ UNCHANGED <<guards, wire, registry, words, seen, passes, arrivals>>

\* The operation is not mapped, lacks strong authentication or is refused; or
\* the response does not come in time, or cannot be read.
ProviderFails(h) ==
  /\ Doing(h, "provider") \/ Doing(h, "response")
  /\ Answer(h)
  /\ Keep

\* verifyProviderWebhookSignature: what is signed was said by the provider, be it
\* for the first time or again.  Nothing is verified if the provider's manifest has
\* no webhookSignature: then anybody may say anything.
Genuine(r, word) == r \in Signing => word \in words[r]

\* POST /v1/webhooks/:providerCode.  The handler keeps nothing while Core takes
\* the event.
ProviderPushes(r, word) ==
  /\ Genuine(r, word)
  /\ arrivals < MaxArrivals
  /\ arrivals' = arrivals + 1
  /\ TellCore(r, WebhookStatus(word))
  /\ UNCHANGED <<guards, wire, registry, words, calls, seen, passes>>

-----------------------------------------------------------------------------

Restart ==
  /\ changes < MaxChanges
  /\ changes' = changes + 1
  /\ ForgetAll
  /\ calls' = [h \in Handlers |-> Idle]
  /\ accepted' = {a \in accepted : a[1] \notin Lost(nonces, {})}
  /\ passes' = [s \in Services |->
       IF s \in Lost(buckets, {}) THEN <<>> ELSE passes[s]]
  /\ UNCHANGED <<wire, consents, providers, again, arrivals>>

\* The steps of a request that has arrived.
Serve(h) ==
  \/ Authenticate(h) \/ ReadTokenConsent(h)
  \/ QueryBalances(h) \/ QueryMerchant(h) \/ ResolveIdentity(h)
  \/ RegisterBusiness(h) \/ CreateProfile(h) \/ Operate(h)
  \/ Refuse(h) \/ ReadConsent(h) \/ CoreAnswers(h)
  \/ \E w \in Words : ProviderExecutes(h, w) \/ ProviderAnswers(h, w)
  \/ ProviderFails(h)

Next ==
  \/ \E h \in Handlers :
       \/ Serve(h)
       \/ \E shape \in Shapes, n \in Nonces, ts \in 0 .. MaxTime + Ahead :
            LET q == [shape |-> shape, nonce |-> n, ts |-> ts] IN
            ArriveWithToken(h, q) \/ ArriveWithKey(h, q)
  \/ \E r \in References, w \in Words : ProviderSettles(r, w) \/ ProviderPushes(r, w)
  \/ \E c \in Consents : RevokeConsent(c)
  \/ \E c \in Consents, g \in Grants : GiveConsent(c, g)
  \/ Tick
  \/ Restart

Spec == Init /\ [][Next]_vars

-----------------------------------------------------------------------------
(* Properties.                                                             *)

\* A signed request is accepted once, however often and whenever it arrives, as
\* long as the memory of its nonce is not lost to a restart or to a full cache.
AcceptedOnce ==
  \A a \in again : a.key[1] # "signature"

\* A DPoP proof is kept as long as it is fresh, but for its last second: it can
\* be accepted again only then (or earlier, by as much as the client's clock was
\* ahead).
ProofOnceButAtTheEnd ==
  \A a \in again :
    a.key[1] = "proof"
      => a.at + Ahead >= a.request.ts + ProofTolerance

\* Core and providers are called for a request only if what it needs was in
\* force at some moment since it arrived: the consent behind its token, given for
\* the token's environment by the token's person, and a live consent of the person
\* it names, with the scopes it asks for.  The consent of somebody else does not
\* do.  A withdrawal that was answered before the request arrived is respected, by
\* each of the handlers; one in between may not be.
AuthorityHeld ==
  \A h \in Handlers :
    calls[h].request # None /\ calls[h].do \in {"core", "provider", "response"}
      => /\ Shape(h).token # None => "token" \in calls[h].held
         /\ Shape(h).op \in {"balance", "profile"} => "consent" \in calls[h].held

\* In no window are more than twice as many requests of a service let through
\* as the limit says, unless its counter was lost.
WithinTwiceTheRate ==
  \A s \in Services :
    \A i \in DOMAIN passes[s] :
      i + 2 * RateLimit \in DOMAIN passes[s]
        => passes[s][i + 2 * RateLimit] - passes[s][i] > Window

ProviderReported(e) ==
  /\ e.status = "completed" => words[e.about] \cap {"paid", "approved"} # {}
  /\ e.status = "failed" => words[e.about] \cap {"declined", "error"} # {}

\* Core is not told of a success or a failure that the provider has not reported,
\* whichever way the report came and whatever the gateway made of its words: of
\* the operations of providers that sign their webhooks.
EventsReported == \A e \in told : e.about \in Signing => ProviderReported(e)
=============================================================================
