--------------------------- MODULE PaymentIntents ---------------------------
(***************************************************************************)
(* Payment intents of the gateway: the in-memory store, the handlers that  *)
(* create and confirm an intent, the submission to ORBI Core, the signed   *)
(* Core event callback with its merchant webhook, and the hosted challenge.*)
(*                                                                         *)
(* The gateway is one Node process.  A handler runs without interruption   *)
(* up to its next await, so an action is the code between two awaits, and  *)
(* a handler that waits keeps, in calls[h].snap, the intent object it read *)
(* before the await: every update of the store is {...snapshot, ...patch}. *)
(*                                                                         *)
(* Core is external: coreEvents is what it has decided so far.  A decision *)
(* may reach the gateway as the answer of a submission or as a signed      *)
(* callback, any number of times and in any order.  The answer to a        *)
(* challenge response is not compared with anything: replies are whatever  *)
(* Core has answered there.                                                *)
(***************************************************************************)
EXTENDS Naturals, FiniteSets

CONSTANTS
  Services, References, Keys, Actions, Amounts,
  IntentIds,     \* random identifiers, never issued twice
  Handlers,      \* HTTP requests that can be in progress together
  CoreStatuses,  \* statuses Core reports in this instance
  Challenges, InAppChallenges,
  Decisions,     \* a customer approves or rejects
  MaxCoreEvents, \* bound: decisions of Core about one intent
  MaxReplies,    \* bound: answers of Core to challenge responses
  MaxAccepted,   \* bound: creations answered in one life of the process
  None

\* What a callback of Core may say.
AllCoreStatuses ==
  {"requires_action", "submitted_to_core", "processing", "pending",
   "completed", "failed"}

\* The answer of a call may say anything else, or nothing: it is stored as well.
\* (Core does not use the gateway's own word for an intent not yet confirmed.)
Statuses == AllCoreStatuses \cup {"unlisted", "requires_confirmation"}

\* Core finishes a payment one way only.
Final == {"completed", "failed"}

Results ==
  [status : CoreStatuses, challenge : Challenges \cup {None}] \cup {None}

(***************************************************************************)
(* The fields of a PaymentIntent that control depends on.  action stands   *)
(* for the metadata (paySafeAction, escrowId), which the fingerprint of a  *)
(* payload leaves out; amount for everything the fingerprint covers beside *)
(* the reference.  webhook is what applyWebhookDelivery stored, whatever   *)
(* the merchant answered.                                                  *)
(***************************************************************************)
Intents ==
  [service : Services, reference : References, key : Keys \cup {None},
   action : Actions, amount : Amounts, status : Statuses,
   submission : {"none", "submitted", "failed"}, result : Results,
   webhook : {"none", "skipped", "attempted"}]

Idle == [op |-> "idle", id |-> None, snap |-> None, decision |-> None]

Calls ==
  {Idle}
  \cup [op : {"submit", "webhook"}, id : IntentIds, snap : Intents,
        decision : {None}]
  \cup [op : {"challenge"}, id : IntentIds, snap : {None},
        decision : Decisions]
  \cup [op : {"consent"}, id : IntentIds, snap : Intents,
        decision : Decisions]

CoreEvents == [id : IntentIds, status : CoreStatuses,
               challenge : Challenges \cup {None}]

\* asked: the challenge that was responded to; challenge: the one answered with.
Replies == [id : IntentIds, asked : Challenges \cup {None}, decision : Decisions,
            status : CoreStatuses, challenge : Challenges \cup {None}]

NoPromise == [state |-> "none", snap |-> None]
Rejected  == [state |-> "rejected", snap |-> None]

Promises == {NoPromise, Rejected} \cup
            [state : {"pending", "settled"}, snap : Intents]

Requests == [service : Services, key : Keys \cup {None}, action : Actions,
             reference : References, amount : Amounts]

ASSUME PaymentAssumption ==
  /\ CoreStatuses \subseteq AllCoreStatuses \cup {"unlisted"}
  /\ InAppChallenges \subseteq Challenges
  /\ Decisions \subseteq {"approve", "reject"}
  /\ {MaxCoreEvents, MaxReplies, MaxAccepted} \subseteq Nat
  /\ None \notin IntentIds \cup Keys \cup Challenges \cup Decisions
  /\ None \notin Intents
  /\ None \notin [status : CoreStatuses, challenge : Challenges \cup {None}]

VARIABLES
  intents,     \* id -> the stored intent, or None
  referenceIndex, idempotencyIndex,
  calls,       \* handler -> what it is waiting for
  promises,    \* id -> decision -> entry of hostedChallengeResponses
  issued,      \* identifiers given out, over all lives of the process
  accepted,    \* history: creations this process answered, with their intent
  sent,        \* Core: payment requests sent to it
  coreEvents,  \* Core: what it decided
  answered,    \* Core: challenge responses sent to it
  replies,     \* Core: what it answered to them
  receipts,    \* consent receipts (database), one per evidence hash
  notified     \* statuses posted to the merchant's webhook

store    == <<intents, referenceIndex, idempotencyIndex>>
external == <<sent, coreEvents, answered, replies>>
vars     == <<store, calls, promises, issued, accepted, external, receipts,
              notified>>

Live == {id \in IntentIds : intents[id] # None}

NoIntents     == [id \in IntentIds |-> None]
NoReferences  == [s \in Services |-> [r \in References |-> None]]
NoKeysUsed    == [s \in Services |-> [k \in Keys |-> None]]
AllIdle       == [h \in Handlers |-> Idle]
NoResponses   == [id \in IntentIds |-> [d \in Decisions |-> NoPromise]]

Init ==
  /\ intents = NoIntents
  /\ referenceIndex = NoReferences /\ idempotencyIndex = NoKeysUsed
  /\ calls = AllIdle /\ promises = NoResponses
  /\ accepted = {}
  /\ issued = {} /\ sent = {} /\ coreEvents = {} /\ answered = {}
  /\ replies = {} /\ receipts = {} /\ notified = {}

-----------------------------------------------------------------------------
(* Updates of the store.                                                   *)

AppliedCoreEvent(intent, e) ==
  [intent EXCEPT !.status = e.status,
                 !.result = [status |-> e.status, challenge |-> e.challenge]]

\* Mutations: any answer of Core counts as success; a misspelt status; the
\* submission is not noted.
AcknowledgedIsCompleted(intent) ==
  [intent EXCEPT !.status = "completed", !.submission = "submitted"]
SubmittedMisspelt(intent) ==
  [intent EXCEPT !.status = "submitted", !.submission = "submitted"]
SubmissionNotNoted(intent) == [intent EXCEPT !.status = "submitted_to_core"]

SubmittedToCore(intent) ==
  [intent EXCEPT !.status = "submitted_to_core", !.submission = "submitted"]

CoreSubmissionFailed(intent) ==
  [intent EXCEPT !.status = "failed", !.submission = "failed"]

AppliedWebhookDelivery(intent, outcome) == [intent EXCEPT !.webhook = outcome]

ChallengeOf(intent) ==
  IF intent.result = None THEN None ELSE intent.result.challenge

\* challengeModeForIntent: the challenge is answered in Core's app, not here.
InAppRequired(intent) == ChallengeOf(intent) \in InAppChallenges

Waiting(op, id, snap, decision) ==
  [op |-> op, id |-> id, snap |-> snap, decision |-> decision]

\* submitPaymentIntentToCore up to its await
Submit(h, id, intent) ==
  /\ calls' = [calls EXCEPT ![h] = Waiting("submit", id, intent, None)]
  /\ sent' = sent \cup {[id |-> id, service |-> intent.service,
                         key |-> intent.key, reference |-> intent.reference]}

\* the tail of createPaymentIntentForService
Answer(h, request, id, intent, confirm) ==
  /\ Cardinality(accepted) < MaxAccepted
  /\ accepted' = accepted \cup {[request |-> request, id |-> id]}
  /\ IF confirm THEN Submit(h, id, intent) ELSE UNCHANGED <<calls, sent>>

-----------------------------------------------------------------------------
(* Handlers.                                                               *)

\* The intent PaymentIntentStore.create finds for a request, or None.
ByKey(q) == IF q.key = None THEN None ELSE idempotencyIndex[q.service][q.key]
\* Seeded change: no lookup by reference.
ByReferenceDropped(q) == None
ByReference(q) == referenceIndex[q.service][q.reference]

Fingerprint(q) == <<q.reference, q.amount>>

Found(q) == IF ByKey(q) # None THEN ByKey(q) ELSE ByReference(q)

\* PAYMENT_INTENT_IDEMPOTENCY_MISMATCH
Mismatch(q) ==
  ByKey(q) # None /\ Fingerprint(q) # Fingerprint(intents[ByKey(q)])

CreateNew(h, q, id, confirm) ==
  LET intent == [service |-> q.service, reference |-> q.reference,
                 key |-> q.key, action |-> q.action, amount |-> q.amount,
                 status |-> "requires_confirmation", submission |-> "none",
                 result |-> None, webhook |-> "none"]
  IN /\ calls[h].op = "idle"
     /\ Found(q) = None
     /\ id \notin issued
     /\ issued' = issued \cup {id}
     /\ intents' = [intents EXCEPT ![id] = intent]
     /\ referenceIndex' =
          [referenceIndex EXCEPT ![q.service][q.reference] = id]
     /\ idempotencyIndex' =
          IF q.key = None THEN idempotencyIndex
          ELSE [idempotencyIndex EXCEPT ![q.service][q.key] = id]
     /\ Answer(h, q, id, intent, confirm)
     /\ UNCHANGED <<promises, coreEvents, answered, replies, receipts, notified>>

\* Seeded change: a repeated creation updates the stored intent.
CreateUpserts(h, q, confirm) ==
  /\ calls[h].op = "idle"
  /\ Found(q) # None
  /\ ~Mismatch(q)
  /\ intents' = [intents EXCEPT ![Found(q)].action = q.action,
                                ![Found(q)].amount = q.amount]
  /\ Answer(h, q, Found(q), intents'[Found(q)], confirm)
  /\ UNCHANGED <<referenceIndex, idempotencyIndex, promises, issued,
                 coreEvents, answered, replies, receipts, notified>>

CreateExisting(h, q, confirm) ==
  /\ calls[h].op = "idle"
  /\ Found(q) # None
  /\ ~Mismatch(q)
  /\ intents[Found(q)] # None
  /\ intents[Found(q)].service = q.service
  /\ Answer(h, q, Found(q), intents[Found(q)], confirm)
  /\ UNCHANGED <<store, promises, issued, coreEvents, answered, replies,
                 receipts, notified>>

Confirm(h, id) ==
  /\ calls[h].op = "idle"
  /\ id \in Live
  /\ intents[id].status \in {"requires_confirmation", "pending", "failed"}
  /\ Submit(h, id, intents[id])
  /\ UNCHANGED <<store, promises, issued, accepted, coreEvents, answered,
                 replies, receipts, notified>>

\* The three ends of submitPaymentIntentToCore: Core's answer carries its
\* decision, or anything else, or the call fails or times out.
EndSubmission(h, intent) ==
  /\ intents' = [intents EXCEPT ![calls[h].id] = intent]
  /\ calls' = [calls EXCEPT ![h] = Idle]
  /\ UNCHANGED <<referenceIndex, idempotencyIndex, promises, issued, accepted,
                 external, receipts, notified>>

CoreAnswers(h, e) ==
  /\ calls[h].op = "submit"
  /\ e.id = calls[h].id       \* compared, with the service, at 2350-2351
  /\ EndSubmission(h, AppliedCoreEvent(calls[h].snap, e))

CoreAcknowledges(h) ==
  /\ calls[h].op = "submit"
  /\ EndSubmission(h, SubmittedToCore(calls[h].snap))

CoreCallFails(h) ==
  /\ calls[h].op = "submit"
  /\ EndSubmission(h, CoreSubmissionFailed(calls[h].snap))

\* Seeded change: the webhook's outcome is later stored over the intent as it was
\* before the event.
ReceiveCoreEventStale(h, e) ==
  /\ calls[h].op = "idle"
  /\ e.id \in Live
  /\ intents' = [intents EXCEPT ![e.id] = AppliedCoreEvent(@, e)]
  /\ calls' = [calls EXCEPT ![h] =
                 Waiting("webhook", e.id, intents[e.id], None)]
  /\ UNCHANGED <<referenceIndex, idempotencyIndex, promises, issued, accepted,
                 external, receipts, notified>>

\* POST /v1/internal/core/service-payment-events up to the webhook's await
ReceiveCoreEvent(h, e) ==
  LET updated == AppliedCoreEvent(intents[e.id], e)
  IN /\ calls[h].op = "idle"
     /\ e.id \in Live /\ e.status \in AllCoreStatuses
     /\ intents' = [intents EXCEPT ![e.id] = updated]
     /\ calls' = [calls EXCEPT ![h] = Waiting("webhook", e.id, updated, None)]
     /\ UNCHANGED <<referenceIndex, idempotencyIndex, promises, issued,
                    accepted, external, receipts, notified>>

\* The webhook answered or failed (its delivery is recorded), or was skipped
\* because the service has no callback URL or secret reference.
FinishWebhook(h, outcome) ==
  LET snap == calls[h].snap
  IN /\ calls[h].op = "webhook"
     /\ notified' = IF outcome = "skipped" THEN notified
                    ELSE notified \cup {<<calls[h].id, snap.status>>}
     /\ intents' = [intents EXCEPT ![calls[h].id] =
                      AppliedWebhookDelivery(snap, outcome)]
     /\ calls' = [calls EXCEPT ![h] = Idle]
     /\ UNCHANGED <<referenceIndex, idempotencyIndex, promises, issued,
                    accepted, external, receipts>>

\* deliverServiceWebhook throws (a portal service without a signing secret).
AbortWebhook(h) ==
  /\ calls[h].op = "webhook"
  /\ calls' = [calls EXCEPT ![h] = Idle]
  /\ UNCHANGED <<store, promises, issued, accepted, external, receipts,
                 notified>>

-----------------------------------------------------------------------------
(* Hosted challenge: concurrent responses with the same decision share one *)
(* promise, which stays joinable for five seconds after it settled.        *)

\* Seeded change: the customer's decision is not looked at.
AfterAnyResponse(id, updated, decision) ==
  IF updated.status # "failed"
  THEN Waiting("consent", id, updated, decision) ELSE Idle

\* What a handler does when the promise it awaits resolves with `updated`.
AfterResponse(id, updated, decision) ==
  IF decision = "approve" /\ updated.status # "failed"
  THEN Waiting("consent", id, updated, decision) ELSE Idle

RespondToChallenge(h, id, decision) ==
  LET promise == promises[id][decision]
  IN /\ calls[h].op = "idle"
     /\ id \in Live
     /\ ChallengeOf(intents[id]) # None
     /\ ~InAppRequired(intents[id])
     /\ \/ /\ promise.state = "none"
           /\ promises' = [promises EXCEPT ![id][decision] =
                             [state |-> "pending", snap |-> intents[id]]]
           /\ answered' = answered \cup
                {<<id, ChallengeOf(intents[id]), decision>>}
           /\ calls' = [calls EXCEPT ![h] =
                          Waiting("challenge", id, None, decision)]
        \/ /\ promise.state = "pending"
           /\ calls' = [calls EXCEPT ![h] =
                          Waiting("challenge", id, None, decision)]
           /\ UNCHANGED <<promises, answered>>
        \/ /\ promise.state = "settled"
           /\ calls' = [calls EXCEPT ![h] =
                          AfterResponse(id, promise.snap, decision)]
           /\ UNCHANGED <<promises, answered>>
     /\ UNCHANGED <<store, issued, accepted, sent, coreEvents, replies,
                    receipts, notified>>

\* Seeded change: only one of the handlers that share the promise resumes.
ResumeOne(id, decision, next) ==
  \E h \in Handlers :
    /\ calls[h].op = "challenge"
    /\ calls[h].id = id
    /\ calls[h].decision = decision
    /\ calls' = [calls EXCEPT ![h] = next]

\* Every handler that awaits the promise resumes before anything else runs.
Resume(id, decision, next) ==
  calls' = [h \in Handlers |->
              IF /\ calls[h].op = "challenge" /\ calls[h].id = id
                 /\ calls[h].decision = decision
              THEN next ELSE calls[h]]

\* Whatever Core answers is stored: nothing of it is compared with the intent, with
\* the challenge that was responded to, or with the statuses there are.
CoreAnswersChallenge(id, decision, status, challenge) ==
  LET promise == promises[id][decision]
      reply == [id |-> id, asked |-> ChallengeOf(promise.snap),
                decision |-> decision, status |-> status,
                challenge |-> challenge]
      updated == AppliedCoreEvent(promise.snap, reply)
  IN /\ promise.state = "pending"
     /\ reply \in replies \/ Cardinality(replies) < MaxReplies
     /\ replies' = replies \cup {reply}
     /\ intents' = [intents EXCEPT ![id] = updated]
     /\ promises' = [promises EXCEPT ![id][decision] =
                       [state |-> "settled", snap |-> updated]]
     /\ Resume(id, decision, AfterResponse(id, updated, decision))
     /\ UNCHANGED <<referenceIndex, idempotencyIndex, issued, accepted,
                    sent, coreEvents, answered, receipts, notified>>

ChallengeCallFails(id, decision) ==
  /\ promises[id][decision].state = "pending"
  /\ promises' = [promises EXCEPT ![id][decision] = Rejected]
  /\ Resume(id, decision, Idle)
  /\ UNCHANGED <<store, issued, accepted, external, receipts, notified>>

\* The timer set when the promise settled.
ForgetResponse(id, decision) ==
  /\ promises[id][decision].state \in {"settled", "rejected"}
  /\ promises' = [promises EXCEPT ![id][decision] = NoPromise]
  /\ UNCHANGED <<store, calls, issued, accepted, external, receipts, notified>>

\* createConsentReceiptFromHostedChallenge, once its queries are answered:
\* no receipt without a challenge in Core's answer, or when the metadata
\* names no subject or no scopes.
FinishConsent(h) ==
  LET challenge == ChallengeOf(calls[h].snap)
  IN /\ calls[h].op = "consent"
     /\ \/ /\ challenge # None
           /\ receipts' = receipts \cup {<<calls[h].id, challenge>>}
        \/ UNCHANGED receipts
     /\ calls' = [calls EXCEPT ![h] = Idle]
     /\ UNCHANGED <<store, promises, issued, accepted, external, notified>>

-----------------------------------------------------------------------------
(* Environment.                                                            *)

\* Core decides about an intent it was sent; its final word is one of two.
CoreDecides(e) ==
  /\ \E r \in sent : r.id = e.id
  /\ e \notin coreEvents
  /\ Cardinality({d \in coreEvents : d.id = e.id}) < MaxCoreEvents
  /\ e.status \in Final =>
       \A d \in coreEvents : d.id = e.id => d.status \notin Final
  /\ e.challenge # None => e.status \notin Final
  /\ coreEvents' = coreEvents \cup {e}
  /\ UNCHANGED <<store, calls, promises, issued, accepted, sent, answered,
                 replies, receipts, notified>>

\* The process restarts: everything in memory is lost.
Restart ==
  /\ intents' = NoIntents
  /\ referenceIndex' = NoReferences /\ idempotencyIndex' = NoKeysUsed
  /\ calls' = AllIdle /\ promises' = NoResponses
  /\ accepted' = {}
  /\ UNCHANGED <<issued, external, receipts, notified>>

HandlerStep(h) ==
  \/ \E e \in coreEvents : CoreAnswers(h, e)
  \/ CoreAcknowledges(h)
  \/ CoreCallFails(h)
  \/ \E outcome \in {"skipped", "attempted"} : FinishWebhook(h, outcome)
  \/ AbortWebhook(h)
  \/ FinishConsent(h)

PromiseStep(id, decision) ==
  \/ \E status \in CoreStatuses, challenge \in Challenges \cup {None} :
       CoreAnswersChallenge(id, decision, status, challenge)
  \/ ChallengeCallFails(id, decision)
  \/ ForgetResponse(id, decision)

Next ==
  \/ \E h \in Handlers :
       \/ \E q \in Requests, confirm \in BOOLEAN :
            \/ \E id \in IntentIds : CreateNew(h, q, id, confirm)
            \/ CreateExisting(h, q, confirm)
       \/ \E id \in IntentIds : Confirm(h, id)
       \/ \E e \in coreEvents : ReceiveCoreEvent(h, e)
       \/ \E id \in IntentIds, decision \in Decisions :
            RespondToChallenge(h, id, decision)
       \/ HandlerStep(h)
  \/ \E id \in IntentIds, decision \in Decisions : PromiseStep(id, decision)
  \/ \E e \in CoreEvents : CoreDecides(e)
  \/ Restart

Spec == Init /\ [][Next]_vars

\* A call to Core ends (postJsonWithNodeHttp times out), a webhook post and
\* the database queries of the consent store end, a timer fires.
Fairness ==
  /\ \A h \in Handlers : WF_vars(HandlerStep(h))
  /\ \A id \in IntentIds, decision \in Decisions :
       WF_vars(PromiseStep(id, decision))

FairSpec == Spec /\ Fairness

-----------------------------------------------------------------------------
(* Properties.                                                             *)

\* Every variable keeps its type.
TypeOK ==
  /\ intents \in [IntentIds -> Intents \cup {None}]
  /\ referenceIndex \in [Services -> [References -> IntentIds \cup {None}]]
  /\ idempotencyIndex \in [Services -> [Keys -> IntentIds \cup {None}]]
  /\ calls \in [Handlers -> Calls]
  /\ promises \in [IntentIds -> [Decisions -> Promises]]
  /\ issued \subseteq IntentIds
  /\ accepted \subseteq [request : Requests, id : IntentIds]
  /\ sent \subseteq [id : IntentIds, service : Services,
                     key : Keys \cup {None}, reference : References]
  /\ coreEvents \subseteq CoreEvents
  /\ answered \subseteq IntentIds \X Challenges \X Decisions
  /\ replies \subseteq Replies
  /\ receipts \subseteq IntentIds \X Challenges
  /\ notified \subseteq IntentIds \X Statuses

\* The two indexes and the map of intents agree: an entry leads to a stored
\* intent of that service and reference (or key), and no stored intent is
\* hidden behind another one with the same service and reference.  create
\* and every get rely on it.
IndexesAgree ==
  /\ \A s \in Services, r \in References :
       LET id == referenceIndex[s][r]
       IN id # None => /\ intents[id] # None
                       /\ intents[id].service = s
                       /\ intents[id].reference = r
  /\ \A id \in Live :
       referenceIndex[intents[id].service][intents[id].reference] = id
  /\ \A s \in Services, k \in Keys :
       LET id == idempotencyIndex[s][k]
       IN id # None => /\ intents[id] # None
                       /\ intents[id].service = s
                       /\ intents[id].key = k

\* What a waiting handler, or a pending challenge response, will write back is
\* a version of the stored intent: same identifier, same purpose.  (This makes
\* IndexesAgree inductive.)
Purpose(intent) == <<intent.service, intent.reference, intent.key,
                     intent.action, intent.amount>>

VersionOf(id, snap) ==
  id \in Live /\ snap # None /\ Purpose(snap) = Purpose(intents[id])

SnapshotsAgree ==
  /\ \A h \in Handlers : calls[h].op \in {"submit", "webhook", "consent"} =>
       VersionOf(calls[h].id, calls[h].snap)
  /\ \A id \in IntentIds, d \in Decisions :
       promises[id][d].state \in {"pending", "settled"} =>
         VersionOf(id, promises[id][d].snap)

\* A status is explained by the rest of the intent: by Core's last decision
\* stored with it or by the fate of the submission, however the updates of
\* concurrent handlers overwrote each other.
Explained(intent) ==
  \/ /\ intent.status = "requires_confirmation"
     /\ intent.submission = "none" /\ intent.result = None
  \/ intent.status = "submitted_to_core" /\ intent.submission = "submitted"
  \/ intent.status = "failed" /\ intent.submission = "failed"
  \/ intent.result # None /\ intent.status = intent.result.status

StatusExplained == \A id \in Live : Explained(intents[id])

\* The gateway invents no decision: a decision it stores and a completion it shows
\* are what Core said of this intent, in an event or in reply to a response to its
\* challenge, and a status it posts to the merchant is that of an event.  (failed
\* and submitted_to_core are also set by the gateway itself.)  A consent receipt
\* rests on an approval of this intent that was sent to Core, on Core's reply to
\* that approval, which was no failure, and is for the challenge that this reply
\* names: never on a rejection, an event, or the reply to another intent.
SaidInEvent(id, status) ==
  \E e \in coreEvents : e.id = id /\ e.status = status

SaidByCore(id, status) ==
  \/ SaidInEvent(id, status)
  \/ \E a \in replies : a.id = id /\ a.status = status

Approval(a, id) ==
  /\ a.id = id /\ a.decision = "approve" /\ a.status # "failed"
  /\ <<id, a.asked, "approve">> \in answered

NothingInvented ==
  /\ \A id \in Live :
       /\ intents[id].result # None => SaidByCore(id, intents[id].result.status)
       /\ intents[id].status = "completed" => SaidByCore(id, "completed")
  /\ \A n \in notified : SaidInEvent(n[1], n[2])
  /\ \A r \in receipts :
       \E a \in replies : Approval(a, r[1]) /\ a.challenge = r[2]

\* Once an intent was submitted or decided no late update of a handler that
\* read it earlier makes it wait for its first confirmation again.
NeverUnsubmitted ==
  [][\A id \in IntentIds :
       /\ intents[id] # None /\ intents'[id] # None
       /\ intents[id].status # "requires_confirmation"
       => intents'[id].status # "requires_confirmation"]_vars

\* What an intent was created for never changes, an identifier is never
\* brought back, and intents disappear only all together, at a restart.
IdentityStable ==
  [][\A id \in IntentIds :
       /\ intents[id] # None /\ intents'[id] # None
            => Purpose(intents'[id]) = Purpose(intents[id])
       /\ intents[id] = None /\ intents'[id] # None => id \notin issued
       /\ intents[id] # None /\ intents'[id] = None
            => \A other \in IntentIds : intents'[other] = None]_vars

\* Every request that waits (for Core, a webhook, the consent store or another
\* request's response to the same challenge) is finished at last.
RequestsFinish ==
  \A h \in Handlers : calls[h].op # "idle" ~> calls[h].op = "idle"

\* Seen from outside, creation is an intake that registers one intent for
\* each service and reference and is emptied by a restart.
IntentFor(s, r) ==
  LET found == {id \in Live : /\ intents[id].service = s
                              /\ intents[id].reference = r}
  IN IF found = {} THEN None ELSE CHOOSE id \in found : TRUE

Intake == INSTANCE PaymentIntake
  WITH Names <- Services \X References, Ids <- IntentIds,
       registry <- [n \in Services \X References |-> IntentFor(n[1], n[2])],
       used <- issued

ImplementsIntake == Intake!Spec

-----------------------------------------------------------------------------
(* Claims of the documentation that the code does not keep.                *)

\* A final intent stays final (the SDK waits for it and stops; confirming it
\* is PAYMENT_INTENT_ALREADY_FINALIZED).
CompletedStays ==
  [][\A id \in IntentIds :
       /\ intents[id] # None /\ intents'[id] # None
       /\ intents[id].status = "completed"
       => intents'[id].status = "completed"]_vars
=============================================================================
