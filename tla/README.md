# ORBI Pay Gateway: a verification project

This directory holds TLA+ models of the ORBI Pay Gateway (the TypeScript
service under `src/`), the TLC configurations that check them on small
instances, and theorems about them that TLAPS proves for every value of the
constants.  Paths are relative to the root of the repository; where a file is
named without a directory it is in `src/services/`.  Line numbers refer to the
commit the models were written from.

Contents: 1 the system - 2 inventory - 3 how the models read the code -
4 modules - 5 runs - 6 fairness - 7 theorems - 8 what is only model-checked,
what is not modelled - 9 where the code and its documents disagree -
10 plan.

## 1. The system

One Node process (`src/server.ts`) serves Express handlers.  JavaScript runs
one handler at a time, and a handler gives way to others at each `await` and
nowhere else.  The hard behaviours of the program therefore sit at its awaits:
what a handler read before one may have changed after it, a call may fail or
be answered after a time-out, and the process may stop at any of them.

The process talks to
- **ORBI Core**, which executes payments: signed requests to it, its signed
  events (`/v1/internal/core/...`) from it;
- **PostgreSQL**, through connection pools of the stores, most of which also
  keep a copy of their tables in memory and read only that copy;
- **merchants**, whose requests it authenticates and to whom it posts webhooks;
- **browsers**: the hosted challenge page, the OAuth authorization page and
  the developer portal;
- an **identity provider**, **ORBI Talk** (messages), alert and audit sinks.

## 2. Inventory

| component | state | operations | hard behaviours | correct when | module |
|---|---|---|---|---|---|
| payment intents (`paymentIntentStore.ts`, `server.ts` 2327-2486, 2798-2841) | a map of intents and two indexes (by reference, by idempotency key), in memory only | create, confirm, submit to Core, Core's event, webhook result | every update writes a snapshot read before an await; retries; Core's events before, after or instead of its answer; loss at a restart | indexes and map agree; an intent stays what it was created for; a status is explained; only Core completes; requests end | `PaymentIntents`, `PaymentIntake` |
| hosted challenge (`server.ts` 1472-1573, `hostedChallengeConsent.ts`) | one promise for each challenge and decision, forgotten by a timer | respond, settle, forget, write a consent receipt | several requests share a promise; opposite decisions race | all who share are resumed; a receipt is of an approval and of Core's answer to it | `PaymentIntents` |
| OAuth authorization (`pushedAuthorizationRequestStore.ts`, `oauthAuthorizationStore.ts`, `consentReceiptStore.ts`, `server.ts` 1661-1829) | tables of pushed requests, requests, codes, consents | push, authorize, identity callback, decide, consent, code | the browser repeats and races; four statements without a transaction | used once, identified once, decided once; a code has its user's consent | `OAuthAuthorization`, `AuthorizationGrant` |
| OAuth tokens (`refreshTokenStore.ts`, `serviceAccessTokenRevocationStore.ts`, `server.ts` 1831-2320, 2849-2880, 3647-3668) | families, refresh tokens, revoked access tokens (table and memory) | exchange, refresh, replay, revoke (token, consent, service, subject), use | replays race with rotations; revocation in several steps, each of which may fail | one live token in a family, none in a revoked one; a revoked access token is refused | `OAuthTokens` |
| developer registry (`developerPortalStore.ts`, `server.ts` 3375-3427, 3693-3998, `database/main.sql`) | applications, services, scope requests, keys, webhook secrets: in memory, and five tables written one after the other | onboarding, scopes, domains, status, issue, rotate, revoke | memory is changed before the transaction; transactions overlap, fail, are refused, are torn | what was answered lasts; the disk trails the memory; one active credential | `ServiceRegistry` |
| portal access (`portalAccessStore.ts`, `server.ts` 3197-3303) | accounts, sessions, recovery codes, resets, invitations, verifications; `activeSessions` in memory | sign-in, factor, reset, sign-up, verify, invite, administer | account rows read before awaits and written after; memory changed outside the transaction | ended sessions stay ended; a recovery code is used once; rights are granted, and taken away | `PortalAccess` |
| incidents and alerts (`operatorIncidentStore.ts`, the two schedulers, `operatorAlertSink.ts`) | incidents in memory and a table; one `running` flag each | raise, acknowledge, assign, resolve, escalate | updates overlap; a schedule must survive its failures | losses only by overlap; overdue is escalated; failures are reported | `OperatorIncidents` |
| webhook log and replays (`webhookDeliveryStore.ts`, `server.ts` 4370-4416) | list of deliveries, in memory and a file | record, replay | attempt number read before the post | lineage is kept | `OperatorIncidents` |
| reconciliation reports (`reconciliationEvidenceService.ts`) | none (files) | generate, export | - | they name every failed delivery | reading of the log in `OperatorIncidents` |
| guards of financial requests (`financialRequestGuard.ts`, `dpopProof.ts`, `server.ts` 639-835) | one map of nonces and proofs, one of rate counters, in memory | count, check the timestamp and the signature, remember the nonce; check a proof | expiry to the second; eviction from a full map that two users share; loss at a restart | a signed request is accepted once; bounded rates | `RequestGuards` |
| service requests (`payServiceAuth.ts`, `serviceConsentGuard.ts`, `server.ts` 1589-1626, 2557-2796) | consents, in a table | balances, identity, business registration, payment profiles, merchant queries | consents read before the awaits of a request, and withdrawn meanwhile | nothing is done for a person who did not agree, in that environment | `ServiceRequests` |
| provider operations and webhooks (`server.ts` 921-960, 4596-4638, `src/adapters/`, `src/protocols/`) | none here; the provider's and Core's | collect, pay out, refund; a provider's webhook | response and webhook in any order, late or repeated; two tables of statuses; Core told or not | Core hears only what a provider said, if the provider signs | `ServiceRequests` |
| client of merchants (`src/sdk/node/src/client.ts`) | the cached token, the promise of the next one | request, revoke, wait for a payment | callers share one promise; tokens age on the way | one token is asked for; it lives long enough; a revoked one is dropped; calls end | `MerchantClient` |
| messages, metering, billing, audit, portal forwarding, discovery, simulator, catalogues | records nobody else reads, or none | one call, or one append | - | - | not modelled, see 8 |

How they meet: the registry tells every other component whether a client is
active and which scopes it has (`payServiceAuth.ts`, `serviceConsentGuard.ts`);
the authorization writes the grants that tokens are made of; suspending a
service (registry) revokes its families (tokens); withdrawing a consent revokes
the families of its grant; a payment event leads to a webhook, whose failure is
in the log that the schedule reads; the hosted challenge writes consent
receipts.

## 3. How the models read the code

* **An action is the code between two awaits.**  A handler that waits is a
  record in the variable `calls`: what it waits for and what it had read.
  That snapshot is what makes stale writes possible, so it is kept whole.
* **A database statement is one step**, and so is a transaction where its
  inner steps cannot be seen (rows locked, or a single table); where they can
  (the five tables of the registry, the reset of a password) it is several.
* **A call may fail at every await**, before or after it had its effect.
  Failed queries and restarts are bounded together by `MaxFaults`.
* **A restart** empties what is in memory and loads what the code loads.
* **Random identifiers** (UUIDs, hashed secrets) are model values that are
  used once.  Where which one is taken makes no difference a `CHOOSE` takes the
  next one, or the set is symmetric.
* **Bounds** are in guards that are marked `bound` in the modules.
* **Time** is left out where only the order of events matters, a choice where
  something expires, and counted in seconds in `RequestGuards` and
  `MerchantClient`, whose properties are about seconds.
* Definitions whose comment begins with *Seeded change* are variants of the
  definition after them, with a plausible mistake.  No specification uses
  them.  Putting one in the place of its original shows that the property
  named with it in `PROJECT.json` ("mutants") can fail.

The stores are modelled in their database mode (some have a memory or file
mode for tests).  Logging, metrics, audit events, response texts, hashing and
signatures are left out.

## 4. Modules

### PaymentIntents, PaymentIntake

State: `intents`, `referenceIndex`, `idempotencyIndex` (the maps of
`PaymentIntentStore`), `promises` (`hostedChallengeResponses`), `calls`; and
history that properties speak of: Core's events (`coreEvents`), what Core was
sent (`sent`, and `answered` for responses to challenges) and what it replied to
the responses (`replies`), what merchants were told (`notified`), what
creations were answered (`accepted`), identifiers in use so far (`issued`),
`receipts`.

The handler of a response stores `result?.data || result` (`server.ts`
1512-1513) and compares it with nothing.  So Core's reply in the model names any
challenge or none and any status, one that `PaymentIntentStatus` does not have
(`unlisted`) included.  Its `intentId` and `serviceCode` are read by no one and
are not in the model: the reply is stored with the intent that was responded to.
`replies` keeps, for each reply, the intent and the challenge that were responded to
(`asked`), the decision, and the challenge and the status that came back.

| code | actions |
|---|---|
| `createPaymentIntentForService` with `create` | `CreateNew`, `CreateExisting` |
| confirmation | `Confirm` |
| `submitPaymentIntentToCore` | `Submit`, then `CoreAnswers`, `CoreAcknowledges` or `CoreCallFails` |
| Core's event and its webhook | `ReceiveCoreEvent`, then `FinishWebhook` or `AbortWebhook` |
| the hosted challenge | `RespondToChallenge`, `CoreAnswersChallenge`, `ChallengeCallFails`, `Resume`, `FinishConsent`, `ForgetResponse` |
| a new process | `Restart` |
| Core (external) | `CoreDecides` |

An intent is reduced to what control depends on: service, reference, key,
action, amount (everything the fingerprint covers), status, submission, and
Core's last result.  `PaymentIntake` is what creation promises: a registry with
one intent for each name, never renamed, emptied only as a whole.

### OAuthAuthorization, AuthorizationGrant

State: the tables `pushed`, `requests`, `consents`, `codes`, with `calls`, and
`identified`, the user whom the provider named.  Actions follow the statements:
`Push`, `StorePush`; `Authorize` or `AuthorizePushed`, `ConsumePush`,
`CreateRequest`; `Callback`, `ClaimState`, `ProviderIdentifies` or
`ProviderRefuses`, `ReplaceSubject`, `ShowPage`; `Decide`, `RecordDecision`,
`CreateConsent`, `IssueCode`; expiry, `QueryFails`, `Restart`.  What the
registry says of a client is a choice; scopes travel with the request's record
and are not kept apart from it; expiry matters only until a record is consumed
or decided.  `AuthorizationGrant` is the promise: asked, identified once,
approved or denied once and in time, granted only after an approval.

### OAuthTokens

State: `grants` (a decided authorization with its consent and code),
`families`, `tokens`, `access` (access tokens issued), `revocations` and their
copy in memory `revokedIds`, `suspended` services, `calls`, and history.  `Approve` merges the steps that `OAuthAuthorization`
details.  `rotate` is one transaction with four outcomes: `RefuseToken`,
`DetectReplay`, `RotateToken`, `QueryFails`.  The handler that found a replay
revokes the access tokens one by one (`CleanUp`, `RecordRevocation`).
`Present` and `Admit` are the two halves of the check of a request.
`rotate` locks a token before its family and revocations lock them in the other
order; the database ends such a deadlock with an error for one of the two,
which is `QueryFails`.  Expiry is left out: it only refuses more.

### ServiceRegistry

State: `memory` and `disk`, each with applications, services, scope requests
and credentials; `draft` and `writer`, the open transaction; `calls`; `answered`,
what clients were told, and `exposed`, the part of it that was not safe when it
was told; `allowed`, a history of the scopes that were granted with an
application.

Each handler changes `memory` at once and calls `persist` (`Store`, or `Persist`
where no scope is granted with an application).  `Send` is the beginning of its
transaction: the rows of the first table are computed *then* and kept in
`sent`, and the first of them waits for the row of whoever has written it.  The
database grants it at some time, in no particular order (`WriteApplications`):
that row is written as it was sent, however old it has become; the rows after it
are statements of their own, which are computed when the one before them is
answered.  Which of the rows is the one that waited is not known, so `RowsAfter`
lets any non-empty set of them be early.  Where there is no application the
first table is that of the services, and they wait.  The other tables are read
as they are written (`WriteServices` ... `Commit`), since nobody else has a
transaction open then.  `Violates` has the constraints of the schema: those of
`database/main.sql`, or (`ReferenceChecked = FALSE`) of the tables that
`ensureDatabaseSchema` makes, where applications and scope requests refer to no
service.  With the foreign key of `main.sql` no approval is ever stored (section
9), so the run has the latter; the theorems are for both.  `ApproveAgain` is the approval of what was approved before: it is
answered from memory, with credentials or without.

Two ways are known in which an answer may not last: a row of the application,
or of the service whose scopes were decided, was waiting when the client was
told, with what was there before (`Endangers`); or the approval was found in
memory but not in the table (`ApproveAgain`).  `exposed` collects exactly these
answers, and `AnswersLast` speaks of all others.  Both do happen (section 9).

Keys and webhook secrets are credentials of two kinds.  `keyStatus` and
`webhookSecretStatus`, which no guard reads, contents of events, and expiry
dates of credentials are left out; so is the cutover window, which no code
enforces.  A statement that waits a second time, for a second transaction that
overtakes it too, would do so with a row computed in between; the model has
one wait for each transaction, whose early rows may be any.

### PortalAccess

State: `users`, `sessions`, recovery codes, resets, invitations and
verifications as tables, `active` (the set `activeSessions`), `calls`, and
history (`out`: sessions that were ended while active; `raised`: whom an
administrator ever decided to make one; `decided`: the role that was last decided
for an account, at its creation or by an edit that names the role; `overlapped`:
accounts of which an edit of another field, or another write of the whole row,
was under way when that decision was written).  Only a decision changes
`raised` and `decided`: the write-back of a role that was read changes neither.
Handlers keep the account row they read.  Left out:
the audit log, mails, names, operators (their permissions differ, not their
state), expiry of sessions by time.  `operatorMfaRequired` has its default
`true`; the resend cooldown is a choice; `updateUser` edits one field at a
time.  A recovery code stands for a set of ten.

### OperatorIncidents

State: `incidents` (memory) and `rows`; `deliveries` (memory) and `file`;
`running` and `due`, the flags and the list of the schedules; `overdue`;
`calls`.  Updates of operators and schedules share their second half:
`WriteRow`, `StoreIncident`, `QueryFails`.  Connections are pooled, so rows may
be written, and answers come, in any order.  The log's file is written in the
step that changes it; a write that fails leaves a file that cannot be parsed,
which is an empty log at the next start.  Severity and the two time limits
are one set of overdue incidents; stuck payments, the other reason for an
incident, are a choice.  A report looks back `Window` intervals; `age` counts
the intervals since a delivery was recorded (the drift of the timer and the
time a report takes are neglected).  Both schedules are taken to be enabled,
and the `LIMIT 500` of the load is left out.

### RequestGuards, ServiceRequests

`RequestGuards` is the memory of the guards: `nonces` (`nonceCache`) with the
deadline and the place of each entry, `buckets` (`rateBuckets`), and `now`.
`Prune` drops what has expired and then the oldest entries down to a limit;
`Meet` prunes, looks up and inserts; `CountRequest` does so with counters.  The
check of a DPoP proof uses the map of the nonces with a limit of its own.

`ServiceRequests` adds requests (`wire`: those that have arrived and may arrive
again), consents, what providers said of each operation (`words`), what Core
was told (`told`), and `calls`.  A consent has its service, environment,
person (`subjectId`), the service's name for the person (`externalSubjectId`,
here `alias`), scopes and expiry.  The consent behind a token is compared with
the token's service, environment and person, under either name
(`TokenConsentActive`), and a person whom the body or the query names with the
token's (`NamesItsSubject`; a name in the path is not looked at).  The consent
that the guard looks up is of the person whom the request names, under its own
name only, and of the live environment (`HasActiveConsent`).

| code | actions |
|---|---|
| `authenticatePayServiceRequest`, `verifyDpopProof` | `ArriveWithKey`, `ArriveWithToken`, `Authenticate` |
| the consent behind a financial token | `ReadTokenConsent` |
| the guards, in the three orders of `assertSignedRuntimeRequest`, `assertSignedRuntimeMutationRequest`, `assertFinancialRuntimeRequest` | `Guard`, as `QueryBalances`, `QueryMerchant`, `ResolveIdentity`, `RegisterBusiness`, `CreateProfile`, `Operate`; `Refuse` before them |
| `assertActiveConsent` | `ReadConsent` |
| the call to Core | `CoreAnswers` |
| `executeProviderOperation` | `ProviderExecutes`, then `ProviderAnswers` or `ProviderFails` |
| a provider's webhook | `ProviderPushes` (`ProviderSettles`: the provider's side) |
| consents given and withdrawn | `GiveConsent`, `RevokeConsent` |

A request is its endpoint, service, the consent of its token, whether it is
bound to a key, signed and keyed (a *shape*), with a nonce and a timestamp; a
signature is right or wrong.  Deadlines are in milliseconds in the code and
timestamps in seconds: the model puts deadlines at the beginning of a second,
the tightest case.  `held` is history: which of the consents a request needs
was in force at some moment since it arrived.  `accepted`, `again` and `passes`
are history too, and forget what a restart or a full map makes the gateway
forget, so that the properties speak of what it still could know.

Webhooks of a provider whose manifest has a `webhookSignature` are verified; for
the others (it is optional, `providerManifest.ts` 65-71)
`verifyProviderWebhookSignature` returns at once (`webhookSignature.ts` 15), and
anybody may say anything.  `Signing` are the operations of the former; the others
are open to any word (`Genuine`).  `EventsReported` is claimed for the former
only; what the guide says of all providers does not hold (section 9).

### MerchantClient

State: `cache` and `promise` (`accessTokenCache`, `accessTokenPromise`), the
`calls` of concurrent callers, the gateway's `tokens`, whether the payment is
`completed`, and history.  `Authorize` is `getServiceAccessToken`: take the
cached token, or wait for the promise, which the first who needs it makes.
`TokenArrives` resumes all who wait; `TokenFails` fails all of them; `finally`
clears the promise.  A request is sent, served (`Serve`) and answered
(`FinishRequest`, `FinishPoll`, `FinishRevoke`) or lost before or after it was
served (`FetchFails`).  The client computes the expiry from the arrival of the
answer, the gateway from its issue: the properties bound the difference.
`Delay` bounds how long messages take and how late timers are.

## 5. Runs

Each MC module only instantiates its component; the `.cfg` gives the bounds.

| run | bounds | what it checks |
|---|---|---|
| `payment_intake` | 2 services, 2 references, 2 keys, 2 amounts, 3 intents, 1 handler, restarts without limit | the store's maps agree (`IndexesAgree`), purposes and identifiers are stable (`IdentityStable`), and `PaymentIntake` is implemented. Names and keys collide in every way with two of each; a third intent shows that an identifier never comes back. Creation has no await, so one handler is enough |
| `payment_lifecycle` | 1 intent, 2 handlers, 1 event of Core, 2 challenges, 1 reply of Core to responses, 4 statuses of which one is unknown to the gateway | statuses are explained (`StatusExplained`), the gateway invents no decision and a receipt is of an approval and of the challenge that Core's reply to it names (`NothingInvented`), nothing is unsubmitted (`NeverUnsubmitted`). Intents do not influence each other but through the indexes, so one is enough; two handlers are what it takes to overlap; with two challenges the reply can name another one than was responded to. A second reply makes the instance too large for TLC: the theorems are for any number |
| `payment_progress` | the same with 1 challenge and 1 status of Core | every waiting request ends (`RequestsFinish`), those that share a response among them. No guard of a waiting step depends on the status, and one challenge is what the requests share |
| `token_families` | 1 grant, 2 families, 3 refresh tokens, 3 access tokens, 2 handlers, 1 fault | `OneChain`, `RevokedFamilyDead`, `CodeOnce`, `RevocationReaches`, `RevokedIsRefused`. Three tokens make a chain with a replayed member in the middle; a second family is what a code used twice would make |
| `registry` | 1 application, service, request, scope and domain; 2 credentials, the live environment, 2 handlers, 3 requests, 1 fault; the schema of `ensureDatabaseSchema` | `AnswersLast`, `DiskTrails`, `ScopesExplained`, `OneActive`. Two handlers tear a snapshot or overtake each other's rows, the third request commits or trips over it, the fault loses it. What takes a second service or environment or a third handler is left to the theorems, which hold for any number |
| `authorization` | 2 clients, 1 pushed request, 2 requests, 2 handlers, 1 fault | `OneUse`, `CodeBacked`, `ImplementsGrant` (refinement of `AuthorizationGrant`), `ApprovalAnswered`. Codes and consents of two requests can be mixed up |
| `portal_access` | an administrator and another user, 4 sessions, 2 handlers, 3 requests, 1 fault | `SignedOutStays`, `RecoveryOnce`, `SignedInStays`, `RoleAsDecided`. Two requests overlap and a third meets what they left |
| `operator_incidents` | 1 incident, 3 deliveries of which 1 original, 2 operators' requests, 1 fault, a window of 2 intervals | `ReplaysNumbered`, `LosesOnlyOverlapped`, `Escalates`, `FailuresReported`. Three deliveries are a replay of an original, another of the original or of the replay |
| `service_requests` | 2 services, 2 persons, a request of each endpoint, operations of 2 providers of which one signs its webhooks, 2 words of theirs (paid, queued), 1 nonce, 1 consent that may be of either person, of an alias or of the sandbox, 2 handlers, 2 requests that arrive 3 times in all, 1 change of a consent or restart, 3 seconds; maps that hold one entry | `AcceptedOnce`, `ProofOnceButAtTheEnd`, `AuthorityHeld`, `WithinTwiceTheRate`, `EventsReported`, `TypeOK`. Two requests are what it takes to meet one nonce or one place in a map; the third arrival repeats after an eviction, a window or a deadline; all limits are one, so that they are reached; the consents that may be given differ from the one that is needed in one respect each; an operation may be answered, settled later, and pushed before and after, and what is said of the one must not be taken for the other; the other words are left to the theorem |
| `merchant_client` | 2 callers, 3 calls, tokens of 3 seconds, a skew, an interval and delays of 1, 8 seconds | `OneTokenRequest`, `WaitsExplained`, `TokenOutlivesRequest`, `RevokedNotSent`, `CallsEnd`. Two share a promise; the third call uses, loses or revokes what they got; a token expires and another is asked for within the time |

Types are checked together with a property that relies on them: `DiskTrails` of the registry, `SignedInStays` of the portal,
`CodeBacked` of the authorization and `ReplaysNumbered` of the incidents have
`TypeOK` as their first conjunct.  The bounds on requests and faults count all
behaviours up to that many; a request that is refused changes nothing and does
not count.

`CHECK_DEADLOCK FALSE` is said where the bounds stop the model:
`service_requests` and `merchant_client` count arrivals, calls and seconds.

Two runs end with a violation, on purpose: each states what a document, or
the code itself, says, and TLC shows how the code does otherwise.

| run | statement | what happens |
|---|---|---|
| `payment_completed_undone` | a completed intent stays completed (`server.ts` 2471) | a submission times out or is answered late, after Core's event completed the intent: the update of a snapshot from before the event makes it failed or processing |
| `token_replay_escapes` | a replay revokes every access token of the family (OAUTH_OIDC_STAGE_1_DESIGN.md:125) | the replay is found while the rotation has issued, but not recorded, an access token: `recordAccessToken` updates no row of a revoked family and does not say so |

## 6. Fairness

Safety runs use `Spec`, without fairness.  The liveness runs assume:

- `PaymentIntents`: weak fairness of every step of a waiting handler and of a
  pending challenge response.  Calls to Core end by the time-out of
  `postJsonWithNodeHttp`, webhook posts by the time-outs of `fetch`, queries by
  an answer or a lost connection, the timer that forgets a response goes off.
- `OAuthAuthorization`: weak fairness of the waiting handlers' steps.
- `OperatorIncidents`: weak fairness of the two schedules as a whole
  (`setInterval` goes off, queries and alerts end).  None for operators.
- `MerchantClient`: weak fairness of each caller's steps, of the answer to a
  request for a token, and of time: `fetch` ends in an answer or a failure,
  timers fire.  The client sets no time-out itself (section 9).

Nothing is assumed of clients, Core's decisions, expiry, faults or restarts;
and no strong fairness anywhere.

## 7. Theorems

Checked by TLAPS for every value of the constants that the named assumptions
allow (bounds are naturals, `None` is no identifier, identifiers of different
kinds differ, and the like; an assumption is in the module that declares the
constants).  One of them is more than form: `NonceTtl >= Tolerance + Ahead + 1`
in `GuardsAssumption`, that a nonce is kept for as long as its timestamp is
accepted from a clock that is ahead.  The defaults (600 and 300 seconds)
satisfy it up to 299 seconds.  That the kinds of identifiers in the registry
differ (`RegistryAssumption`) is what the prefixes of `developerPortalStore.ts`
307, 555, 909 and 1110 do.

Every safety invariant and every safety action property that a run checks is a
theorem, and so are both refinements.  Each proof has the same shape: an
inductive invariant `IInv`, checked by TLC on the run's instance before it was
proved; `Init => IInv`; one lemma for each action, or for each group of actions
that does the same to the state; and the property as a consequence.

| module of proofs | theorems (property of a run) |
|---|---|
| `PaymentIntents_proofs` | `Types` (`TypeOK`), `Consistency` (`IndexesAgree`), `Identity` (`IdentityStable`), `Refinement` (`ImplementsIntake`), `Explaining` (`StatusExplained`), `Backing` (`NothingInvented`), `Onward` (`NeverUnsubmitted`) |
| `OAuthAuthorization_proofs` | `PushedOnce` (`OneUse`), `Backed` (`CodeBacked`), `Refinement` (`ImplementsGrant`) |
| `OAuthTokens_proofs` | `Chain` (`OneChain`), `Death` (`RevokedFamilyDead`), `SingleUse` (`CodeOnce`), `Reach` (`RevocationReaches`), `Refusal` (`RevokedIsRefused`) |
| `ServiceRegistry_proofs` | `Lasting` (`AnswersLast`), `Trailing` (`DiskTrails`), `Explaining` (`ScopesExplained`), `OneActiveAlways` (`OneActive`) |
| `PortalAccess_proofs` | `SignedOut` (`SignedOutStays`), `OneSessionPerCode` (`RecoveryOnce`), `MemoryMatches` (`SignedInStays`), `Decided` (`RoleAsDecided`) |
| `OperatorIncidents_proofs` | `Lineages` (`ReplaysNumbered`), `Losses` (`LosesOnlyOverlapped`) |
| `ServiceRequests_proofs` | `SignedOnce` (`AcceptedOnce`), `ProofOnce` (`ProofOnceButAtTheEnd`), `Authority` (`AuthorityHeld`), `Reported` (`EventsReported`), `TwiceTheRate` (`WithinTwiceTheRate`), `TypesHold` (`TypeOK`) |
| `MerchantClient_proofs` | `OneAsked` (`OneTokenRequest`), `Withdrawn` (`RevokedNotSent`), `Outlives` (`TokenOutlivesRequest`), `Waiting` (`WaitsExplained`) |

`PaymentIntents_proofs`: `Types`, `Consistency` (`IndexesAgree`), `Identity`
(`IdentityStable`), `Refinement` (`ImplementsIntake`), from `Invariance`.
`IndexesAgree` is not inductive: a late update writes a whole intent, and
would break the indexes if its snapshot had another reference or key.  The
invariant `IInv` adds types, `SnapshotsAgree` (what a waiting handler or a
pending response holds is a version of the stored intent, with the same
purpose) and `Live \subseteq issued`.  The steps are of four kinds - register an intent,
rewrite one for the same purpose, empty the store, leave it alone
(`StoreStep`) - and one lemma shows for each what it does to the indexes.
For the refinement, `RegistryIsIndex` identifies the abstract registry with
`referenceIndex`.

The history of a payment has an invariant of its own, `Evidence`.
`StatusExplained` and `NothingInvented` are not inductive either: a stored
intent is replaced by whatever snapshot a handler or a shared response held, so
each of these must already rest on what Core said, in an event or in a reply
(`Told`; `FromCore` for those made from it), and a waiting webhook may post only
a status that is Core's.  A response to an approval, shared or being written
down, holds an intent whose challenge is the one that a reply of Core to an
approval of this intent names (`Consented`), and this challenge is what the
receipt is written for: not, in general, the one that was approved.  All this
only ever grows: Core does not take back what it said, and a restart of the
gateway does not make it forget.  One lemma, `NextEvidenceStep`, shows
for each action that what it adds rests on it; the three theorems follow.

`OAuthAuthorization_proofs`.  The conditional updates let one handler at a time
work on a request.  `IInv` says what such a handler may rely on (`CallsAgree`:
the request it claimed is still without a user, the approval it recorded is
still without a code), that no two of them work on the same request or push
(`Alone`), and that rows agree with one another: a consumed push is of one
request (`PushOnce`), a request that is past its identification names the user
whom the provider named (`RequestsAgree`), a code and a consent are of an
approved request and no request has two (`GrantsAgree`).  `CodeBacked` speaks
of rows only, but its proof needs the handlers, since consent and code are
written by different statements.  For `Refinement` each action either leaves
the phases of all requests alone or moves one of them by a step of
`AuthorizationGrant`.  (The attempt showed that `Phase`, the refinement
mapping, was a `CASE` with overlapping guards, whose value no prover may
choose: it is an `IF` now, in the order that was meant.)

`OperatorIncidents_proofs`.  The copy that a handler stores carries over a
resolution and a mark that it has read (`CallsAgree`), rows are ahead of the
memory by what is on its way to it (`RowsAhead`), and the log keeps the
originals of its replays and at least as many posts as their numbers say
(`LogAgrees`).  So only a store that is late loses something, which is
`Losses`.

`PortalAccess_proofs`.  Rows are not removed and a revocation is not taken
back, so what a handler has in hand exists for good (`CallsAgree`).  A session
that is being opened is in nobody else's hands, and one that is being ended is
out of the memory before it is out of the table (`SessionsAgree`): this is what
`SignedOutStays` takes to be inductive.  `CodesAgree` follows a recovery code
from the handler that found it unused to the one session it opens; `RolesAgree`
follows a role from accounts through sessions and invitations, and `CallsAgree`
through the snapshots in between: a handler that is going to write a role back
has read the one that was decided, or the account is in `overlapped`.

`ServiceRegistry_proofs`.  `Later` is an order between states *table by table* -
a later state may have more rows, more decisions, more scopes, and credentials
further in their lives - so a snapshot that is torn between two tables still has
its place in it.  The disk, the draft of the open transaction (`Chain`) and the
rows that each handler has sent (`Sending`) are all before the memory; the draft
need not be after the disk, since a row that waited may undo what was written
meanwhile.  `DiskTrails` is one of these facts.  A client's answer that is not
`exposed` is in the disk and in the draft, and no row that waits could undo it
(`Kept`, `AnswersKept`): a row that is sent later is computed from a memory that
has it.  While the handler that is to answer waits, the fact is in the rows it
has sent and in the tables that have been written so far (`Written`), which is
what makes it true of the disk at the commit, whoever commits.  `Sound` (approved
applications have services, one active credential of a use, scopes explained)
is required of memory and disk, and of the draft only for the tables it has
(`DraftSound`): in the middle of a transaction scopes are explained by requests
that are still to be written.  `Fresh` is what holds only until a restart: what
is pending is asked for by one request, or was applied for.

The proof of `ScopesExplained` failed at first, for a reason that the run's one
service cannot show: a torn snapshot may store a service with its scopes while
its application is still pending in it, or missing.  After a restart the
application can be approved again, for another service, and the first keeps
scopes that no application on the table explains.  TLC finds this with two
services.  The property now says what is true: such scopes were granted with an
application, which until a restart is there to be seen (history `allowed`,
`AppliedFor`).

`OAuthTokens_proofs`: `Types`, `Chain` (`OneChain`), `Death`
(`RevokedFamilyDead`), `SingleUse` (`CodeOnce`), `Reach`
(`RevocationReaches`), `Refusal` (`RevokedIsRefused`), from `Invariance`.
`IInv` adds that references between rows lead to rows (`Linked`), that a
waiting handler refers to rows that exist (`CallsLinked`), that the parent of a
token is consumed and of the same family (`ParentSpent`), that the code of a
family, or of a handler about to make one, is consumed and nobody else's
(`CodeSpent`), and that completed revocations are in the table and in memory
(`Remembered`).  The properties are proved together because they lean on each
other: a family's last token can be rotated only while the family lives, and
the family a handler adds a claim to must exist.  Rows are never removed, which
the lemmas `FamiliesKept`, `GrantsKept` and `AccessKept` say once for all
actions.

`ServiceRequests_proofs` has three arguments, for any numbers of services,
handlers, nonces, consents and requests, and any delays.  *Memory*:
`MemoryInvariant` says that the nonce of an accepted request which is not among
those lost is in the map until a deadline that its timestamp bounds (`Kept`);
`SignedOnce` (`AcceptedOnce`) and `ProofOnce` (`ProofOnceButAtTheEnd`) follow,
the second with the last second as the exception.  *Authority*: a handler past
its consent checks has them in its history (`AuthorityInvariant`, `Authority`
for `AuthorityHeld`), since what is active when it is read is in force: the
consent that its token names, of the token's person and environment, and one of
the person whom the request names, of the live environment.  `Reported`
(`EventsReported`) adds that statuses are translated only from words, that words
are never taken back, and that only the provider speaks for the operations in
`Signing`.  *Rate*: `TwiceTheRate`
(`WithinTwiceTheRate`), from the invariant that the last counter of a service
has let through at most `RateLimit` requests, that all earlier ones are older
than its start, and those before the previous counter by more than a window.
*Types*: `TypesHold` puts the other invariants together; it adds that the
places in a map are bounded, without which `NextPlace` would choose a place
from none (`PlaceAfterAll`, by the well-ordering of the naturals, since the
size of a set admits no induction here).

`MerchantClient_proofs`: `TypesHold`, `OneAsked` (`OneTokenRequest`),
`Withdrawn` (`RevokedNotSent`), `Outlives` (`TokenOutlivesRequest`) and
`Waiting` (`WaitsExplained`), from `TokenInvariant` - a promise is there exactly
while its request is under way; what the client takes for the expiry of a token
is the gateway's plus the time that the answer took; a token whose revocation
was confirmed is revoked and not cached - and `WaitInvariant`, which says when
a wait last asked and how long each of its states may last.

## 8. What is only model-checked, and what is not modelled

Only model-checked: all liveness (`RequestsFinish`, `ApprovalAnswered`,
`Escalates`, `FailuresReported`, `CallsEnd`), which the prover cannot treat with
fairness; and the two statements that do not hold (section 5).  Everything
else that a run checks is also proved.

Not modelled:
- messages (ORBI Talk), metering, billing plans, audit events: records appended
  by one statement each, which no other part reads;
- portal forwarding: `POST /v1/portal/gateway` checks the session and calls the
  gateway's own endpoints, whose handlers are modelled; the realtime hub
  broadcasts without state;
- discovery (read-only calls to a sandbox bank), the sandbox simulator (its
  state meets nothing else), catalogues, contracts, types, configuration;
- formats: JSON and XML of providers, ISO 20022, HTML, payloads of webhooks;
- cryptography: signatures, tokens, certificates, strong authentication are
  right or wrong;
- evaluation for display, list and export of consents; hashes and signatures of
  reports; introspection of tokens: they change nothing;
- of the Node client: the wrappers of one call each (pushed authorization
  requests, exchange and refresh of codes, introspection, developer and
  operator calls, replays of deliveries), whose state is the caller's, and its
  helpers; the clients in PHP and Python, which keep no token between calls;
  examples and scripts.

## 9. Where the code and its documents disagree

Beyond the two violation runs, seen while modelling; the models have these
behaviours, and the properties are stated so that they hold in spite of them.

Payments:
- what Core replies to the response to a challenge is stored without a look at
  its challenge, intent or service (`server.ts` 1512-1513), and the receipt names
  the reply's challenge (`hostedChallengeConsent.ts` 57): if Core answers the
  approval of one challenge with the next one, the receipt is for a challenge
  that nobody has approved (PLATFORM_INTEGRATION_CONTRACTS.md:636-639);
- a PaySafe release, dispute or refund with the reference of its escrow is
  answered 201 with the escrow's intent, and Core gets the first request again
  (API_REFERENCE.md:311; `paymentIntentStore.ts` 57-59, `server.ts` 2424);
- reuse of a key with another payload is not noticed if the first request was
  answered by its reference (CONTRACT_VERSIONING_AND_ERROR_CODES.md:262);
- a retry after a restart sends a second request to Core
  (COMPLIANCE_POLICY_BASELINE.md:23, DEVELOPER_CONFIGURATION_GUIDE.md:182);
- if the receipt of an accepted challenge cannot be written the browser is told
  that the payment failed (`server.ts` 1533).

Authorization and tokens:
- the exchange of a code does not read the consent
  (OAUTH_OIDC_STAGE_1_DESIGN.md:144, `server.ts` 1845-1864);
- a failure after the decision leaves an approval without a code;
- the promise returned in `GET /oauth/authorize` is not awaited in its `try`;
- a service that revokes its own token with itself is answered
  `SERVICE_ACCESS_TOKEN_REVOKED` (DEVELOPER_PORTAL_CONTRACTS.md:570, `server.ts`
  2277-2286).

Registry:
- the registry's records are persistent (DEVELOPER_PORTAL_CONTRACTS.md:89,
  `main.sql` 2), but `persist` stores applications (`developerPortalStore.ts`
  1530) before services, and with the foreign key of `main.sql` (197) the database
  refuses the approval of an application and every later transaction;
- a transaction computes the row of an application when it sends it (1545): one
  that was sent before an approval, and waited for the row, is written after it,
  and the client was told of an approval that the table does not have;
- when the transaction of an approval has failed, the operator who tries again is
  answered from memory (427), and nothing is stored;
- scopes of an application approved without them stay pending with no request
  that could be decided (CONTRACT_VERSIONING_AND_ERROR_CODES.md:204,
  DEVELOPER_PORTAL_CONTRACTS.md:1199);
- `emergencyRotateApiKey` does not ask for verified domains
  (BANK_GRADE_REVIEW_PACK.md:26 and 64, DEVELOPER_PORTAL_CONTRACTS.md:208);
- the cutover window is never enforced (DEVELOPER_PORTAL_CONTRACTS.md:818, 924);
- `archived` breaks a check of `main.sql` (173), and the event of a rejection,
  which names the application, a foreign key (282): both refuse the transaction;
- an application that was rejected can be approved; after a torn snapshot and a
  crash a second approval makes a second service;
- concurrent domain verifications lose each other's result
  (`developerPortalStore.ts` 747, 796);
- `keyStatus` may be active without an active key.

Portal:
- a token is to be valid only while its session's record is active
  (SECURITY_MODEL.md:191); `issueSession` inserts the row (`portalAccessStore.ts`
  1325) and adds the session to `activeSessions` after the await (1339), so that
  a reset which commits in between revokes the row and misses the session, whose
  token is honoured until it expires or the process restarts;
- two sign-ins at once can use one authenticator code, and the counter can go
  back (SECURITY_MODEL.md:183); a confirmation that races with a new start or a
  reset makes a factor active whose secret was not verified (176);
- after a lock expires the count of failures is not reset; counts are lost when
  failures overlap;
- a disabled user's sessions live on; sessions keep the role they were opened
  with; `updateUser` writes back fields as it read them;
- an invitation that is revoked while it is accepted is accepted; a reset link
  can be completed twice at once; two requests at once leave two open links.

Incidents and webhooks:
- the one-time escalation alert (CORE_ENVIRONMENT_REFERENCE.md:130,
  ENGINEERING_PLAN.md:392) is repeated when an overlapping update erases the
  mark, is lost when the process ends between mark and alert, and is sent for an
  incident that was resolved meanwhile;
- a resolution is undone by an update that overlaps it; rows and memory may
  disagree until the next write;
- concurrent replays share an attempt number
  (DEVELOPER_PORTAL_CONTRACTS.md:1289); a replay without a callback address is
  recorded as a failed attempt;
- a failed delivery stays failed after a successful replay, so each report
  within the window raises a new incident about it;
- with the defaults (DEPLOYMENT_RUNBOOK.md:50-52: every 1440 minutes, 24 hours
  back, not on start) a delivery that failed before a restart or a report that
  failed is in no later report: `FailuresReported` holds up to
  `faults < Window`, and the default is a `Window` of one.

Service requests and providers:
- an unverified success is never told to Core, and an unsigned callback is
  rejected (PROVIDER_ADAPTER_GUIDE.md:44 and 47), but `webhookSignature` is
  optional in a manifest (`providerManifest.ts` 65-71), `bank-switch-code` in
  `config/providers.example.json` (68) has none, and
  `verifyProviderWebhookSignature` then returns at once (`webhookSignature.ts`
  15): Core is told of a success that nobody signed;
- the identifier of a DPoP proof is kept exactly as long as the proof is fresh
  and can be used again in its last second (OAUTH_OIDC_STAGE_1_DESIGN.md:251,
  `dpopProof.ts` 77-81); a signed request dated 300 seconds ahead can be repeated
  in one second, 600 seconds later;
- the check of a proof prunes the shared map to its own limit of 20000, though
  signatures may fill it to 100000: nonces are lost early;
- a signed mutation without an idempotency key is refused after its nonce was
  remembered; business registrations and `/v1/collections` demand such a key and
  never use it;
- `assertServiceScopeGranted` reads the scopes of the registry, not those of the
  token (DEVELOPER_PORTAL_CONTRACTS.md:450, BANK_GRADE_REVIEW_PACK.md:40);
  provider operations look at neither scopes nor consents;
- responses and webhooks of providers are translated by two tables: `approved`,
  `error` and `queued` are known to one of them only;
- when a provider has executed an operation and Core cannot be told, the caller
  gets a 502, and its retry goes to the provider again.

Client:
- `fetch` is called without a time-out: while a request for a token is not
  answered, every caller waits;
- when the answer of a revocation is lost the dead token stays in the cache;
- the refresh of a user's token is not shared between callers, as the service's
  token is: two of them are a replay, which revokes the family.

## 10. Plan

Done: survey; every component of section 2 with a model and a run; proofs of
all safety properties and of both refinements.

Next, in this order:
1. composition: suspension in the registry with the revocation of families in
   the tokens, which a handler does one after the other; and the consent behind
   a token, which the authorization writes and the requests read;
2. further invariants that the proofs suggest as properties in their own right:
   the size of the guards' maps, and which entry they give up when full;
3. abstract specifications for the registry (decisions that last) and the
   sessions of the portal, to which the existing invariants are most of a
   refinement proof.
