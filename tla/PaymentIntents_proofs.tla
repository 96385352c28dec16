----------------------- MODULE PaymentIntents_proofs -----------------------
(***************************************************************************)
(* Proofs about PaymentIntents, for every value of its constants: types,   *)
(* agreement of the store's indexes (with the snapshots that handlers keep *)
(* over an await), the stability of an intent's identity, the evidence     *)
(* behind statuses, decisions and receipts, and the refinement of          *)
(* PaymentIntake.                                                          *)
(***************************************************************************)
EXTENDS PaymentIntents, TLAPS

(* What the updates of the store preserve. *)

\* A Core event sets status and result, and leaves the purpose of the intent.
LEMMA CoreEventUpdate ==
  ASSUME NEW i \in Intents, NEW e \in CoreEvents
  PROVE  /\ AppliedCoreEvent(i, e) \in Intents
         /\ Purpose(AppliedCoreEvent(i, e)) = Purpose(i)
         /\ AppliedCoreEvent(i, e).status = e.status
         /\ AppliedCoreEvent(i, e).result =
              [status |-> e.status, challenge |-> e.challenge]
  BY PaymentAssumption
     DEF AppliedCoreEvent, Intents, CoreEvents, Results, Statuses, Purpose

\* So do the two ends of a submission,
LEMMA SubmissionUpdate ==
  ASSUME NEW i \in Intents
  PROVE  /\ SubmittedToCore(i) \in Intents
         /\ Purpose(SubmittedToCore(i)) = Purpose(i)
         /\ CoreSubmissionFailed(i) \in Intents
         /\ Purpose(CoreSubmissionFailed(i)) = Purpose(i)
  BY DEF SubmittedToCore, CoreSubmissionFailed, Intents, Statuses,
         AllCoreStatuses, Purpose

\* and the outcome of a webhook.
LEMMA WebhookUpdate ==
  ASSUME NEW i \in Intents, NEW outcome \in {"skipped", "attempted"}
  PROVE  /\ AppliedWebhookDelivery(i, outcome) \in Intents
         /\ Purpose(AppliedWebhookDelivery(i, outcome)) = Purpose(i)
  BY DEF AppliedWebhookDelivery, Intents, Purpose

\* An idle handler is well typed.
LEMMA IdleType == Idle \in Calls
  BY DEF Idle, Calls

\* So is one that waits.
LEMMA WaitingType ==
  ASSUME NEW id \in IntentIds
  PROVE  /\ \A op \in {"submit", "webhook"}, i \in Intents :
              Waiting(op, id, i, None) \in Calls
         /\ \A d \in Decisions : Waiting("challenge", id, None, d) \in Calls
         /\ \A i \in Intents, d \in Decisions :
              Waiting("consent", id, i, d) \in Calls
  BY DEF Waiting, Calls

(* What Core says, as an event or in reply to a challenge response. *)
Spoken(E, A) ==
  E \cup {[id |-> a.id, status |-> a.status, challenge |-> a.challenge] : a \in A}

Heard == Spoken(coreEvents, replies)

\* Whatever Core says has the form of an event.
LEMMA SpokenType ==
  ASSUME NEW E \in SUBSET CoreEvents, NEW A \in SUBSET Replies
  PROVE  Spoken(E, A) \in SUBSET CoreEvents
  BY DEF Spoken, CoreEvents, Replies

(* What a waiting handler holds. *)
LEMMA CallShape ==
  ASSUME TypeOK, NEW h \in Handlers
  PROVE  /\ calls[h].op \in {"submit", "webhook", "consent"} =>
              calls[h].id \in IntentIds /\ calls[h].snap \in Intents
         /\ calls[h].op = "challenge" =>
              calls[h].id \in IntentIds /\ calls[h].decision \in Decisions
  <1>1. calls[h] \in Calls
    BY DEF TypeOK
  <1> QED BY <1>1 DEF Calls, Idle

\* A pending or settled response holds a snapshot of its intent.
LEMMA PromiseShape ==
  ASSUME TypeOK, NEW id \in IntentIds, NEW d \in Decisions,
         promises[id][d].state \in {"pending", "settled"}
  PROVE  promises[id][d].snap \in Intents
  <1>1. promises[id][d] \in Promises
    BY DEF TypeOK
  <1> QED BY <1>1 DEF Promises, NoPromise, Rejected

\* A reply of Core updates the snapshot of its response as an event would.
LEMMA ReplyUpdate ==
  ASSUME TypeOK, NEW id \in IntentIds, NEW d \in Decisions,
         NEW s \in CoreStatuses, NEW c \in Challenges \cup {None},
         CoreAnswersChallenge(id, d, s, c)
  PROVE  \E e \in CoreEvents, a \in Replies, i \in Intents :
           /\ e = [id |-> id, status |-> s, challenge |-> c]
           /\ a.id = id /\ a.status = s /\ a.challenge = c /\ a.decision = d
           /\ a.asked = ChallengeOf(promises[id][d].snap)
           /\ replies' = replies \cup {a}
           /\ promises[id][d].state = "pending"
           /\ promises[id][d].snap \in Intents
           /\ i = AppliedCoreEvent(promises[id][d].snap, e)
           /\ intents' = [intents EXCEPT ![id] = i]
           /\ promises' = [promises EXCEPT ![id][d] =
                             [state |-> "settled", snap |-> i]]
           /\ Resume(id, d, AfterResponse(id, i, d))
           /\ UNCHANGED <<referenceIndex, idempotencyIndex, issued, accepted,
                          sent, coreEvents, answered, receipts, notified>>
  <1> DEFINE snap == promises[id][d].snap
             e == [id |-> id, status |-> s, challenge |-> c]
             a == [id |-> id, asked |-> ChallengeOf(snap), decision |-> d,
                   status |-> s, challenge |-> c]
             i == AppliedCoreEvent(snap, e)
  <1>1. promises[id][d].state = "pending"
    BY DEF CoreAnswersChallenge
  <1>2. snap \in Intents
    BY <1>1, PromiseShape
  <1>3. e \in CoreEvents
    BY DEF CoreEvents
  <1>4. ChallengeOf(snap) \in Challenges \cup {None}
    BY <1>2 DEF ChallengeOf, Intents, Results
  <1>5. a \in Replies
    BY <1>4 DEF Replies
  <1>6. i \in Intents
    BY <1>2, <1>3, CoreEventUpdate
  <1>7. AppliedCoreEvent(snap, a) = i
    BY DEF AppliedCoreEvent
  <1>8. /\ replies' = replies \cup {a}
        /\ intents' = [intents EXCEPT ![id] = i]
        /\ promises' = [promises EXCEPT ![id][d] =
                          [state |-> "settled", snap |-> i]]
        /\ Resume(id, d, AfterResponse(id, i, d))
        /\ UNCHANGED <<referenceIndex, idempotencyIndex, issued, accepted,
                       sent, coreEvents, answered, receipts, notified>>
    BY <1>7 DEF CoreAnswersChallenge
  <1>9. /\ a.id = id /\ a.status = s /\ a.challenge = c /\ a.decision = d
        /\ a.asked = ChallengeOf(snap)
    OBVIOUS
  <1> HIDE DEF e, a, i
  <1>10. i = AppliedCoreEvent(snap, e) /\ e = [id |-> id, status |-> s, challenge |-> c]
    BY DEF i, e
  <1> QED BY <1>1, <1>2, <1>3, <1>5, <1>6, <1>8, <1>9, <1>10

\* A handler that learnt the outcome of a response is well typed.
LEMMA AfterResponseType ==
  ASSUME NEW id \in IntentIds, NEW i \in Intents, NEW decision \in Decisions
  PROVE  AfterResponse(id, i, decision) \in Calls
  BY IdleType, WaitingType DEF AfterResponse

-----------------------------------------------------------------------------
(* Types. *)

\* The first state is well typed.
LEMMA InitType == Init => TypeOK
  BY DEF Init, TypeOK, NoIntents, NoReferences, NoKeysUsed, AllIdle,
         NoResponses, Idle, Calls, NoPromise, Promises

\* Answering a creation leaves calls and histories well typed.
LEMMA AnswerType ==
  ASSUME TypeOK, NEW h \in Handlers, NEW q \in Requests, NEW id \in IntentIds,
         NEW i \in Intents, NEW confirm \in BOOLEAN, Answer(h, q, id, i, confirm)
  PROVE  /\ calls' \in [Handlers -> Calls]
         /\ accepted' \subseteq [request : Requests, id : IntentIds]
         /\ sent' \subseteq [id : IntentIds, service : Services,
                             key : Keys \cup {None}, reference : References]
  <1>1. accepted' \subseteq [request : Requests, id : IntentIds]
    BY DEF Answer, TypeOK
  <1>2. CASE confirm
    <2>1. Waiting("submit", id, i, None) \in Calls
      BY WaitingType
    <2>2. [id |-> id, service |-> i.service, key |-> i.key,
           reference |-> i.reference]
            \in [id : IntentIds, service : Services,
                 key : Keys \cup {None}, reference : References]
      BY DEF Intents
    <2> QED BY <1>1, <1>2, <2>1, <2>2 DEF Answer, Submit, TypeOK
  <1>3. CASE ~confirm
    BY <1>1, <1>3 DEF Answer, TypeOK
  <1> QED BY <1>2, <1>3

\* Every step preserves the types.
LEMMA NextType == TypeOK /\ [Next]_vars => TypeOK'
  <1> SUFFICES ASSUME TypeOK, [Next]_vars PROVE TypeOK'
    OBVIOUS
  <1>1. ASSUME NEW h \in Handlers, NEW q \in Requests, NEW id \in IntentIds,
               NEW confirm \in BOOLEAN, CreateNew(h, q, id, confirm)
        PROVE  TypeOK'
    <2> DEFINE i == [service |-> q.service, reference |-> q.reference,
                     key |-> q.key, action |-> q.action, amount |-> q.amount,
                     status |-> "requires_confirmation", submission |-> "none",
                     result |-> None, webhook |-> "none"]
    <2>1. i \in Intents
      BY DEF Intents, Requests, Statuses, Results
    <2>2. Answer(h, q, id, i, confirm)
      BY <1>1 DEF CreateNew
    <2> HIDE DEF i
    <2>3. /\ calls' \in [Handlers -> Calls]
          /\ accepted' \subseteq [request : Requests, id : IntentIds]
          /\ sent' \subseteq [id : IntentIds, service : Services,
                              key : Keys \cup {None}, reference : References]
      BY <2>1, <2>2, AnswerType
    <2>4. intents' = [intents EXCEPT ![id] = i]
      BY <1>1 DEF CreateNew, i
    <2>5. intents' \in [IntentIds -> Intents \cup {None}]
      BY <2>1, <2>4 DEF TypeOK
    <2>6. /\ referenceIndex' \in [Services -> [References -> IntentIds \cup {None}]]
          /\ idempotencyIndex' \in [Services -> [Keys -> IntentIds \cup {None}]]
          /\ issued' \subseteq IntentIds
      BY <1>1 DEF CreateNew, TypeOK, Requests
    <2>7. UNCHANGED <<promises, coreEvents, answered, replies, receipts, notified>>
      BY <1>1 DEF CreateNew
    <2> QED BY <2>3, <2>5, <2>6, <2>7 DEF TypeOK
  <1>2. ASSUME NEW h \in Handlers, NEW q \in Requests,
               NEW confirm \in BOOLEAN, CreateExisting(h, q, confirm)
        PROVE  TypeOK'
    <2>1. Found(q) \in IntentIds
      BY <1>2, PaymentAssumption
         DEF CreateExisting, Found, ByKey, ByReference, TypeOK, Requests
    <2>2. intents[Found(q)] \in Intents
      BY <1>2, <2>1 DEF CreateExisting, TypeOK
    <2>3. Answer(h, q, Found(q), intents[Found(q)], confirm)
      BY <1>2 DEF CreateExisting
    <2>4. /\ calls' \in [Handlers -> Calls]
          /\ accepted' \subseteq [request : Requests, id : IntentIds]
          /\ sent' \subseteq [id : IntentIds, service : Services,
                              key : Keys \cup {None}, reference : References]
      BY <2>1, <2>2, <2>3, AnswerType
    <2>5. UNCHANGED <<store, promises, issued, coreEvents, answered, replies,
                      receipts, notified>>
      BY <1>2 DEF CreateExisting
    <2> QED BY <2>4, <2>5 DEF TypeOK, store
  <1>3. ASSUME NEW h \in Handlers, NEW id \in IntentIds, Confirm(h, id)
        PROVE  TypeOK'
    <2>1. intents[id] \in Intents
      BY <1>3 DEF Confirm, Live, TypeOK
    <2>2. Waiting("submit", id, intents[id], None) \in Calls
      BY <2>1, WaitingType
    <2>3. [id |-> id, service |-> intents[id].service, key |-> intents[id].key,
           reference |-> intents[id].reference]
            \in [id : IntentIds, service : Services,
                 key : Keys \cup {None}, reference : References]
      BY <2>1 DEF Intents
    <2> QED BY <1>3, <2>2, <2>3 DEF Confirm, Submit, TypeOK, store
  <1>4. ASSUME NEW h \in Handlers, NEW i \in Intents, EndSubmission(h, i)
        PROVE  TypeOK'
    BY <1>4, IdleType DEF EndSubmission, TypeOK, external
  <1>5. ASSUME NEW h \in Handlers, NEW e \in coreEvents, CoreAnswers(h, e)
        PROVE  TypeOK'
    <2>1. AppliedCoreEvent(calls[h].snap, e) \in Intents
      BY <1>5, CallShape, CoreEventUpdate DEF CoreAnswers, TypeOK
    <2> QED BY <1>4, <1>5, <2>1 DEF CoreAnswers
  <1>6. ASSUME NEW h \in Handlers, CoreAcknowledges(h) \/ CoreCallFails(h)
        PROVE  TypeOK'
    <2>1. /\ SubmittedToCore(calls[h].snap) \in Intents
          /\ CoreSubmissionFailed(calls[h].snap) \in Intents
      BY <1>6, CallShape, SubmissionUpdate DEF CoreAcknowledges, CoreCallFails
    <2> QED BY <1>4, <1>6, <2>1 DEF CoreAcknowledges, CoreCallFails
  <1>7. ASSUME NEW h \in Handlers, NEW e \in coreEvents, ReceiveCoreEvent(h, e)
        PROVE  TypeOK'
    <2>1. e \in CoreEvents /\ e.id \in IntentIds
      BY DEF TypeOK, CoreEvents
    <2>2. intents[e.id] \in Intents
      BY <1>7, <2>1 DEF ReceiveCoreEvent, Live, TypeOK
    <2> DEFINE updated == AppliedCoreEvent(intents[e.id], e)
    <2>3. updated \in Intents
      BY <2>1, <2>2, CoreEventUpdate
    <2>4. Waiting("webhook", e.id, updated, None) \in Calls
      BY <2>1, <2>3, WaitingType
    <2>5. /\ intents' = [intents EXCEPT ![e.id] = updated]
          /\ calls' = [calls EXCEPT ![h] = Waiting("webhook", e.id, updated, None)]
          /\ UNCHANGED <<referenceIndex, idempotencyIndex, promises, issued,
                         accepted, external, receipts, notified>>
      BY <1>7 DEF ReceiveCoreEvent
    <2> HIDE DEF updated
    <2> QED BY <2>3, <2>4, <2>5 DEF TypeOK, external
  <1>8. ASSUME NEW h \in Handlers, NEW outcome \in {"skipped", "attempted"},
               FinishWebhook(h, outcome)
        PROVE  TypeOK'
    <2>1. calls[h].id \in IntentIds /\ calls[h].snap \in Intents
      BY <1>8, CallShape DEF FinishWebhook
    <2>2. AppliedWebhookDelivery(calls[h].snap, outcome) \in Intents
      BY <2>1, WebhookUpdate
    <2>3. notified' \subseteq IntentIds \X Statuses
      BY <1>8, <2>1 DEF FinishWebhook, TypeOK, Intents
    <2> QED BY <1>8, <2>1, <2>2, <2>3, IdleType
            DEF FinishWebhook, TypeOK, external
  <1>9. ASSUME NEW h \in Handlers, AbortWebhook(h)
        PROVE  TypeOK'
    BY <1>9, IdleType DEF AbortWebhook, TypeOK, store, external
  <1>10. ASSUME NEW h \in Handlers, NEW id \in IntentIds, NEW d \in Decisions,
                RespondToChallenge(h, id, d)
         PROVE  TypeOK'
    <2>1. intents[id] \in Intents
      BY <1>10 DEF RespondToChallenge, Live, TypeOK
    <2> DEFINE pending == [state |-> "pending", snap |-> intents[id]]
    <2>0. pending \in Promises
      BY <2>1 DEF Promises
    <2>a. promises' = [promises EXCEPT ![id][d] = pending] \/ promises' = promises
      BY <1>10 DEF RespondToChallenge
    <2>2. promises' \in [IntentIds -> [Decisions -> Promises]]
      <3> HIDE DEF pending
      <3> QED BY <2>0, <2>a DEF TypeOK
    <2>3. Waiting("challenge", id, None, d) \in Calls
      BY WaitingType
    <2>4. promises[id][d].state = "settled" =>
            AfterResponse(id, promises[id][d].snap, d) \in Calls
      BY PromiseShape, AfterResponseType
    <2>5. calls' \in [Handlers -> Calls]
      BY <1>10, <2>3, <2>4 DEF RespondToChallenge, TypeOK
    <2>6. ChallengeOf(intents[id]) \in Challenges \cup {None}
      BY <2>1 DEF ChallengeOf, Intents, Results
    <2>7. answered' \subseteq IntentIds \X Challenges \X Decisions
      BY <1>10, <2>6 DEF RespondToChallenge, TypeOK
    <2>8. UNCHANGED <<store, issued, accepted, sent, coreEvents, replies,
                      receipts, notified>>
      BY <1>10 DEF RespondToChallenge
    <2> QED BY <2>2, <2>5, <2>7, <2>8 DEF TypeOK, store
  <1>11. ASSUME NEW id \in IntentIds, NEW d \in Decisions,
                NEW s \in CoreStatuses, NEW c \in Challenges \cup {None},
                CoreAnswersChallenge(id, d, s, c)
         PROVE  TypeOK'
    <2>1. PICK a \in Replies, updated \in Intents :
            /\ replies' = replies \cup {a}
            /\ intents' = [intents EXCEPT ![id] = updated]
            /\ promises' = [promises EXCEPT ![id][d] =
                              [state |-> "settled", snap |-> updated]]
            /\ Resume(id, d, AfterResponse(id, updated, d))
            /\ UNCHANGED <<referenceIndex, idempotencyIndex, issued, accepted,
                           sent, coreEvents, answered, receipts, notified>>
      BY <1>11, ReplyUpdate
    <2>2. replies' \subseteq Replies
      BY <2>1 DEF TypeOK
    <2>3. AfterResponse(id, updated, d) \in Calls
      BY AfterResponseType
    <2>4. calls' \in [Handlers -> Calls]
      BY <2>1, <2>3 DEF Resume, TypeOK
    <2>5. promises' \in [IntentIds -> [Decisions -> Promises]]
      BY <2>1 DEF TypeOK, Promises
    <2> QED BY <2>1, <2>2, <2>4, <2>5 DEF TypeOK
  <1>12. ASSUME NEW id \in IntentIds, NEW d \in Decisions,
                ChallengeCallFails(id, d)
         PROVE  TypeOK'
    <2>1. calls' \in [Handlers -> Calls]
      BY <1>12, IdleType DEF ChallengeCallFails, Resume, TypeOK
    <2>2. promises' \in [IntentIds -> [Decisions -> Promises]]
      BY <1>12 DEF ChallengeCallFails, TypeOK, Promises
    <2> QED BY <1>12, <2>1, <2>2 DEF ChallengeCallFails, TypeOK, store, external
  <1>13. ASSUME NEW id \in IntentIds, NEW d \in Decisions,
                ForgetResponse(id, d)
         PROVE  TypeOK'
    <2>1. promises' \in [IntentIds -> [Decisions -> Promises]]
      BY <1>13 DEF ForgetResponse, TypeOK, Promises
    <2> QED BY <1>13, <2>1 DEF ForgetResponse, TypeOK, store, external
  <1>14. ASSUME NEW h \in Handlers, FinishConsent(h)
         PROVE  TypeOK'
    <2>1. calls[h].id \in IntentIds /\ calls[h].snap \in Intents
      BY <1>14, CallShape DEF FinishConsent
    <2>2. ChallengeOf(calls[h].snap) \in Challenges \cup {None}
      BY <2>1 DEF ChallengeOf, Intents, Results
    <2>3. receipts' \subseteq IntentIds \X Challenges
      BY <1>14, <2>1, <2>2 DEF FinishConsent, TypeOK
    <2> QED BY <1>14, <2>3, IdleType DEF FinishConsent, TypeOK, store, external
  <1>15. ASSUME NEW e \in CoreEvents, CoreDecides(e)
         PROVE  TypeOK'
    BY <1>15 DEF CoreDecides, TypeOK, store
  <1>16. ASSUME Restart
         PROVE  TypeOK'
    <2>1. /\ NoIntents \in [IntentIds -> Intents \cup {None}]
          /\ NoReferences \in [Services -> [References -> IntentIds \cup {None}]]
          /\ NoKeysUsed \in [Services -> [Keys -> IntentIds \cup {None}]]
          /\ AllIdle \in [Handlers -> Calls]
          /\ NoResponses \in [IntentIds -> [Decisions -> Promises]]
      BY IdleType DEF NoIntents, NoReferences, NoKeysUsed, AllIdle, NoResponses,
                      Promises
    <2> QED BY <1>16, <2>1 DEF Restart, TypeOK, external
  <1>17. CASE UNCHANGED vars
    BY <1>17 DEF vars, store, external, TypeOK
  <1> QED BY <1>1, <1>2, <1>3, <1>5, <1>6, <1>7, <1>8, <1>9, <1>10, <1>11,
             <1>12, <1>13, <1>14, <1>15, <1>16, <1>17
          DEF Next, HandlerStep, PromiseStep

\* TypeOK holds of every state.
THEOREM Types == Spec => []TypeOK
  BY InitType, NextType, PTL DEF Spec

-----------------------------------------------------------------------------
(* What a step does to the store: it registers one new intent, rewrites one *)
(* stored intent without touching its purpose, empties the store, or leaves *)
(* it alone.                                                                *)

IInv == TypeOK /\ IndexesAgree /\ SnapshotsAgree /\ Live \subseteq issued

Registers(q, id, i) ==
  /\ q \in Requests /\ id \in IntentIds /\ i \in Intents
  /\ i.service = q.service /\ i.reference = q.reference /\ i.key = q.key
  /\ Found(q) = None
  /\ id \notin issued
  /\ issued' = issued \cup {id}
  /\ intents' = [intents EXCEPT ![id] = i]
  /\ referenceIndex' = [referenceIndex EXCEPT ![q.service][q.reference] = id]
  /\ idempotencyIndex' =
       IF q.key = None THEN idempotencyIndex
       ELSE [idempotencyIndex EXCEPT ![q.service][q.key] = id]

Rewrites(id, i) ==
  /\ id \in Live /\ i \in Intents /\ Purpose(i) = Purpose(intents[id])
  /\ intents' = [intents EXCEPT ![id] = i]
  /\ UNCHANGED <<referenceIndex, idempotencyIndex, issued>>

Empties ==
  /\ intents' = NoIntents
  /\ referenceIndex' = NoReferences
  /\ idempotencyIndex' = NoKeysUsed
  /\ UNCHANGED issued

StoreStep ==
  \/ \E q \in Requests, id \in IntentIds, i \in Intents : Registers(q, id, i)
  \/ \E id \in IntentIds, i \in Intents : Rewrites(id, i)
  \/ Empties
  \/ UNCHANGED <<store, issued>>

(* Intents differ only in the fields of Purpose that are not compared. *)
LEMMA SamePurpose ==
  ASSUME NEW i, NEW j, Purpose(i) = Purpose(j)
  PROVE  /\ i.service = j.service /\ i.reference = j.reference
         /\ i.key = j.key
  BY DEF Purpose

\* Storing a new intent keeps the indexes in agreement.
LEMMA RegisterStep ==
  ASSUME IInv, NEW q, NEW id, NEW i, Registers(q, id, i)
  PROVE  /\ IndexesAgree' /\ (Live \subseteq issued)'
         /\ \A j, snap : VersionOf(j, snap) => VersionOf(j, snap)'
  <1> USE DEF IInv, TypeOK
  <1>1. intents[id] = None /\ id # None /\ i # None
    BY PaymentAssumption DEF Registers, Live
  <1>2. \A j \in IntentIds : j # id => intents'[j] = intents[j]
    BY DEF Registers
  <1>3. intents'[id] = i
    BY DEF Registers
  <1>4. ByReference(q) = None
    BY DEF Registers, Found
  <1>5. \A s \in Services, r \in References :
          referenceIndex'[s][r] = IF s = q.service /\ r = q.reference THEN id
                                  ELSE referenceIndex[s][r]
    BY DEF Registers, Requests
  <1>6. \A s \in Services, k \in Keys :
          \/ idempotencyIndex'[s][k] = idempotencyIndex[s][k]
          \/ s = q.service /\ k = q.key /\ idempotencyIndex'[s][k] = id
    BY DEF Registers, Requests
  <1>7. Live' = Live \cup {id}
    BY <1>1, <1>2, <1>3 DEF Live, Registers
  <1>8. (Live \subseteq issued)'
    BY <1>7 DEF Registers
  <1>9. \A j, snap : VersionOf(j, snap) => VersionOf(j, snap)'
    BY <1>1, <1>2, <1>7 DEF VersionOf, Live
  <1>10. ASSUME NEW s \in Services, NEW r \in References,
                referenceIndex'[s][r] # None
         PROVE  /\ intents'[referenceIndex'[s][r]] # None
                /\ intents'[referenceIndex'[s][r]].service = s
                /\ intents'[referenceIndex'[s][r]].reference = r
    <2>1. CASE s = q.service /\ r = q.reference
      BY <2>1, <1>1, <1>3, <1>5 DEF Registers
    <2>2. CASE ~(s = q.service /\ r = q.reference)
      <3>1. referenceIndex'[s][r] = referenceIndex[s][r]
        BY <2>2, <1>5
      <3>2. /\ intents[referenceIndex[s][r]] # None
            /\ intents[referenceIndex[s][r]].service = s
            /\ intents[referenceIndex[s][r]].reference = r
        BY <1>10, <3>1 DEF IndexesAgree
      <3>3. referenceIndex[s][r] # id /\ referenceIndex[s][r] \in IntentIds
        BY <1>1, <3>2, <1>10, <3>1
      <3> QED BY <1>2, <3>1, <3>2, <3>3
    <2> QED BY <2>1, <2>2
  <1>11. ASSUME NEW j \in Live'
         PROVE  referenceIndex'[intents'[j].service][intents'[j].reference] = j
    <2>1. CASE j = id
      BY <2>1, <1>3, <1>5 DEF Registers, Requests
    <2>2. CASE j # id
      <3>1. j \in Live /\ intents'[j] = intents[j]
        BY <2>2, <1>2, <1>7 DEF Live
      <3>2. intents[j].service \in Services /\ intents[j].reference \in References
        BY <3>1 DEF Live, Intents
      <3>3. referenceIndex[intents[j].service][intents[j].reference] = j
        BY <3>1 DEF IndexesAgree
      <3>4. ~(intents[j].service = q.service /\ intents[j].reference = q.reference)
        BY <3>1, <3>3, <1>4, PaymentAssumption DEF ByReference, Live
      <3> QED BY <3>1, <3>2, <3>3, <3>4, <1>5
    <2> QED BY <2>1, <2>2
  <1>12. ASSUME NEW s \in Services, NEW k \in Keys,
                idempotencyIndex'[s][k] # None
         PROVE  /\ intents'[idempotencyIndex'[s][k]] # None
                /\ intents'[idempotencyIndex'[s][k]].service = s
                /\ intents'[idempotencyIndex'[s][k]].key = k
    <2>1. CASE s = q.service /\ k = q.key /\ idempotencyIndex'[s][k] = id
      BY <2>1, <1>1, <1>3 DEF Registers
    <2>2. CASE idempotencyIndex'[s][k] = idempotencyIndex[s][k]
      <3>1. /\ intents[idempotencyIndex[s][k]] # None
            /\ intents[idempotencyIndex[s][k]].service = s
            /\ intents[idempotencyIndex[s][k]].key = k
        BY <1>12, <2>2 DEF IndexesAgree
      <3>2. /\ idempotencyIndex[s][k] # id
            /\ idempotencyIndex[s][k] \in IntentIds
        BY <1>1, <3>1, <1>12, <2>2
      <3> QED BY <1>2, <2>2, <3>1, <3>2
    <2> QED BY <2>1, <2>2, <1>6
  <1>13. IndexesAgree'
    BY <1>10, <1>11, <1>12 DEF IndexesAgree
  <1> QED BY <1>8, <1>9, <1>13

\* Storing an update over an intent keeps the indexes in agreement.
LEMMA RewriteStep ==
  ASSUME IInv, NEW id, NEW i, Rewrites(id, i)
  PROVE  /\ IndexesAgree' /\ (Live \subseteq issued)'
         /\ \A j, snap : VersionOf(j, snap) => VersionOf(j, snap)'
         /\ VersionOf(id, i)'
  <1> USE DEF IInv, TypeOK
  <1>1. id \in IntentIds /\ intents[id] # None /\ i # None
    BY PaymentAssumption DEF Rewrites, Live
  <1>2. \A j \in IntentIds : j # id => intents'[j] = intents[j]
    BY DEF Rewrites
  <1>3. intents'[id] = i
    BY <1>1 DEF Rewrites
  <1>4. Live' = Live
    BY <1>1, <1>2, <1>3 DEF Live
  <1>5. \A j \in IntentIds : Purpose(intents'[j]) = Purpose(intents[j])
    BY <1>2, <1>3 DEF Rewrites
  <1>6. \A j \in IntentIds :
          /\ intents'[j].service = intents[j].service
          /\ intents'[j].reference = intents[j].reference
          /\ intents'[j].key = intents[j].key
    BY <1>5, SamePurpose
  <1>7. \A j \in IntentIds : intents'[j] # None <=> intents[j] # None
    BY <1>1, <1>2, <1>3
  <1>8. \A j, snap : VersionOf(j, snap) => VersionOf(j, snap)'
    BY <1>4, <1>5 DEF VersionOf, Live
  <1>9. VersionOf(id, i)'
    BY <1>1, <1>3, <1>4 DEF VersionOf, Rewrites
  <1>10. UNCHANGED <<referenceIndex, idempotencyIndex, issued>>
    BY DEF Rewrites
  <1>11. IndexesAgree'
    <2>1. ASSUME NEW s \in Services, NEW r \in References,
                 referenceIndex'[s][r] # None
          PROVE  /\ intents'[referenceIndex'[s][r]] # None
                 /\ intents'[referenceIndex'[s][r]].service = s
                 /\ intents'[referenceIndex'[s][r]].reference = r
      BY <2>1, <1>6, <1>7, <1>10 DEF IndexesAgree
    <2>2. ASSUME NEW j \in Live'
          PROVE  referenceIndex'[intents'[j].service][intents'[j].reference] = j
      BY <1>4, <1>6, <1>10 DEF IndexesAgree, Live
    <2>3. ASSUME NEW s \in Services, NEW k \in Keys,
                 idempotencyIndex'[s][k] # None
          PROVE  /\ intents'[idempotencyIndex'[s][k]] # None
                 /\ intents'[idempotencyIndex'[s][k]].service = s
                 /\ intents'[idempotencyIndex'[s][k]].key = k
      BY <2>3, <1>6, <1>7, <1>10 DEF IndexesAgree
    <2> QED BY <2>1, <2>2, <2>3 DEF IndexesAgree
  <1> QED BY <1>4, <1>8, <1>9, <1>10, <1>11

\* So does losing all of them.
LEMMA EmptyStep ==
  ASSUME IInv, Empties
  PROVE  IndexesAgree' /\ (Live \subseteq issued)'
  BY DEF Empties, IndexesAgree, Live, NoIntents, NoReferences, NoKeysUsed

\* A step that stores nothing keeps the agreement and the versions.
LEMMA UnchangedStep ==
  ASSUME IInv, UNCHANGED <<store, issued>>
  PROVE  /\ IndexesAgree' /\ (Live \subseteq issued)'
         /\ \A j, snap : VersionOf(j, snap) => VersionOf(j, snap)'
  BY DEF IInv, IndexesAgree, Live, VersionOf, store

-----------------------------------------------------------------------------
(* Every step is one of these, and leaves the waiting handlers and pending *)
(* challenge responses with versions of stored intents.                    *)

HandlerHolds(h) ==
  calls[h].op \in {"submit", "webhook", "consent"} =>
    VersionOf(calls[h].id, calls[h].snap)

PromiseHolds(id, d) ==
  promises[id][d].state \in {"pending", "settled"} =>
    VersionOf(id, promises[id][d].snap)

\* Snapshots stay versions of stored intents if every new one is.
LEMMA SnapshotsKept ==
  ASSUME IInv,
         \A j, snap : VersionOf(j, snap) => VersionOf(j, snap)',
         \A h \in Handlers : calls'[h] = calls[h] \/ HandlerHolds(h)',
         \A id \in IntentIds, d \in Decisions :
           promises'[id][d] = promises[id][d] \/ PromiseHolds(id, d)'
  PROVE  SnapshotsAgree'
  <1>1. ASSUME NEW h \in Handlers
        PROVE  HandlerHolds(h)'
    BY DEF IInv, SnapshotsAgree, HandlerHolds
  <1>2. ASSUME NEW id \in IntentIds, NEW d \in Decisions
        PROVE  PromiseHolds(id, d)'
    BY DEF IInv, SnapshotsAgree, PromiseHolds
  <1> QED BY <1>1, <1>2 DEF SnapshotsAgree, HandlerHolds, PromiseHolds

(* Handler h takes a new call, or stops waiting; no promise changes. *)
LEMMA CallsStep ==
  ASSUME IInv,
         \A j, snap : VersionOf(j, snap) => VersionOf(j, snap)',
         NEW h \in Handlers, NEW c, calls' = [calls EXCEPT ![h] = c],
         c.op \in {"submit", "webhook", "consent"} => VersionOf(c.id, c.snap)',
         UNCHANGED promises
  PROVE  SnapshotsAgree'
  <1>1. calls'[h] = c /\ \A g \in Handlers : g # h => calls'[g] = calls[g]
    BY DEF IInv, TypeOK
  <1>2. HandlerHolds(h)'
    BY <1>1 DEF HandlerHolds
  <1> QED BY <1>1, <1>2, SnapshotsKept

\* A stored intent is a version of itself.
LEMMA LiveVersion ==
  ASSUME IInv, NEW id \in Live
  PROVE  VersionOf(id, intents[id]) /\ intents[id] \in Intents
  BY DEF IInv, TypeOK, Live, VersionOf

\* What a waiting handler holds is a version of a stored intent.
LEMMA HeldVersion ==
  ASSUME IInv, NEW h \in Handlers,
         calls[h].op \in {"submit", "webhook", "consent"}
  PROVE  /\ VersionOf(calls[h].id, calls[h].snap)
         /\ calls[h].id \in Live /\ calls[h].snap \in Intents
  BY CallShape DEF IInv, SnapshotsAgree, VersionOf

\* Answering a creation leaves the snapshots in agreement.
LEMMA AnswerStep ==
  ASSUME IInv, NEW h \in Handlers, NEW q, NEW id, NEW i, NEW confirm \in BOOLEAN,
         Answer(h, q, id, i, confirm), VersionOf(id, i)',
         \A j, snap : VersionOf(j, snap) => VersionOf(j, snap)',
         UNCHANGED promises
  PROVE  SnapshotsAgree'
  <1>1. CASE confirm
    <2>1. calls' = [calls EXCEPT ![h] = Waiting("submit", id, i, None)]
      BY <1>1 DEF Answer, Submit
    <2>2. /\ Waiting("submit", id, i, None).id = id
          /\ Waiting("submit", id, i, None).snap = i
      BY DEF Waiting
    <2> QED BY <2>1, <2>2, CallsStep
  <1>2. CASE ~confirm
    <2>1. \A g \in Handlers : calls'[g] = calls[g]
      BY <1>2 DEF Answer
    <2> QED BY <2>1, SnapshotsKept
  <1> QED BY <1>1, <1>2

\* Every step stores an intent, rewrites one, empties the store or leaves it.
LEMMA NextStep == IInv /\ [Next]_vars => StoreStep /\ SnapshotsAgree'
  <1> SUFFICES ASSUME IInv, [Next]_vars PROVE StoreStep /\ SnapshotsAgree'
    OBVIOUS
  <1> USE DEF IInv
  <1>u. ASSUME UNCHANGED <<store, issued>>
        PROVE  /\ StoreStep
               /\ \A j, snap : VersionOf(j, snap) => VersionOf(j, snap)'
    BY <1>u, UnchangedStep DEF StoreStep
  <1>r. ASSUME NEW id, NEW i, Rewrites(id, i)
        PROVE  /\ StoreStep
               /\ VersionOf(id, i)'
               /\ \A j, snap : VersionOf(j, snap) => VersionOf(j, snap)'
    BY <1>r, RewriteStep DEF StoreStep, Rewrites, Live
  <1>i. ASSUME NEW h \in Handlers, calls' = [calls EXCEPT ![h] = Idle],
               UNCHANGED promises,
               \A j, snap : VersionOf(j, snap) => VersionOf(j, snap)'
        PROVE  SnapshotsAgree'
    BY <1>i, CallsStep DEF Idle
  <1>1. ASSUME NEW h \in Handlers, NEW q \in Requests, NEW id \in IntentIds,
               NEW confirm \in BOOLEAN, CreateNew(h, q, id, confirm)
        PROVE  StoreStep /\ SnapshotsAgree'
    <2> DEFINE i == [service |-> q.service, reference |-> q.reference,
                     key |-> q.key, action |-> q.action, amount |-> q.amount,
                     status |-> "requires_confirmation", submission |-> "none",
                     result |-> None, webhook |-> "none"]
    <2>1. i \in Intents
      BY DEF Intents, Requests, Statuses, Results
    <2>2. id \notin Live
      BY <1>1 DEF CreateNew
    <2>3. Registers(q, id, i)
      BY <1>1, <2>1, <2>2 DEF CreateNew, Registers
    <2>4. Answer(h, q, id, i, confirm) /\ UNCHANGED promises
      BY <1>1 DEF CreateNew
    <2> HIDE DEF i
    <2>5. \A j, snap : VersionOf(j, snap) => VersionOf(j, snap)'
      BY <2>3, RegisterStep
    <2>6. VersionOf(id, i)'
      <3>1. intents'[id] = i /\ i # None /\ id \in IntentIds
        BY <2>1, <2>3, PaymentAssumption DEF Registers, TypeOK
      <3> QED BY <3>1 DEF VersionOf, Live
    <2>7. SnapshotsAgree'
      BY <2>4, <2>5, <2>6, AnswerStep
    <2> QED BY <2>1, <2>3, <2>7 DEF StoreStep
  <1>2. ASSUME NEW h \in Handlers, NEW q \in Requests,
               NEW confirm \in BOOLEAN, CreateExisting(h, q, confirm)
        PROVE  StoreStep /\ SnapshotsAgree'
    <2>1. /\ UNCHANGED <<store, issued>> /\ UNCHANGED promises
          /\ Answer(h, q, Found(q), intents[Found(q)], confirm)
      BY <1>2 DEF CreateExisting
    <2>2. Found(q) \in Live
      BY <1>2, PaymentAssumption
         DEF CreateExisting, Found, ByKey, ByReference, TypeOK, Requests, Live
    <2>3. VersionOf(Found(q), intents[Found(q)])
      BY <2>2, LiveVersion
    <2>6. ASSUME NEW j, NEW snap, j = Found(q), snap = intents[Found(q)],
                 Answer(h, q, j, snap, confirm)
          PROVE  SnapshotsAgree'
      <3>1. VersionOf(j, snap)
        BY <2>3, <2>6
      <3>2. VersionOf(j, snap)'
        BY <3>1, <2>1, <1>u
      <3> QED BY <2>1, <2>6, <3>2, <1>u, AnswerStep
    <2> QED BY <2>1, <2>6, <1>u
  <1>3. ASSUME NEW h \in Handlers, NEW id \in IntentIds, Confirm(h, id)
        PROVE  StoreStep /\ SnapshotsAgree'
    <2>1. /\ UNCHANGED <<store, issued>> /\ UNCHANGED promises /\ id \in Live
          /\ calls' = [calls EXCEPT ![h] =
                         Waiting("submit", id, intents[id], None)]
      BY <1>3 DEF Confirm, Submit
    <2>2. VersionOf(id, intents[id])
      BY <2>1, LiveVersion
    <2>3. ASSUME NEW snap, snap = intents[id]
          PROVE  SnapshotsAgree'
      <3>1. VersionOf(id, snap)'
        BY <2>1, <2>2, <2>3, <1>u
      <3>2. /\ Waiting("submit", id, snap, None).id = id
            /\ Waiting("submit", id, snap, None).snap = snap
        BY DEF Waiting
      <3> QED BY <2>1, <2>3, <3>1, <3>2, <1>u, CallsStep
    <2> QED BY <2>1, <2>3, <1>u
  <1>4. ASSUME NEW h \in Handlers, calls[h].op = "submit", NEW i \in Intents,
               Purpose(i) = Purpose(calls[h].snap), EndSubmission(h, i)
        PROVE  StoreStep /\ SnapshotsAgree'
    <2>1. calls[h].id \in Live /\ Purpose(i) = Purpose(intents[calls[h].id])
      BY <1>4, HeldVersion DEF VersionOf
    <2>2. Rewrites(calls[h].id, i)
      BY <1>4, <2>1 DEF EndSubmission, Rewrites
    <2> QED BY <1>4, <2>2, <1>r, <1>i DEF EndSubmission
  <1>5. ASSUME NEW h \in Handlers, NEW e \in coreEvents, CoreAnswers(h, e)
        PROVE  StoreStep /\ SnapshotsAgree'
    <2>1. e \in CoreEvents /\ calls[h].op = "submit" /\ calls[h].snap \in Intents
      BY <1>5, CallShape DEF CoreAnswers, TypeOK
    <2> QED BY <1>4, <1>5, <2>1, CoreEventUpdate DEF CoreAnswers
  <1>6. ASSUME NEW h \in Handlers, CoreAcknowledges(h) \/ CoreCallFails(h)
        PROVE  StoreStep /\ SnapshotsAgree'
    <2>1. calls[h].op = "submit" /\ calls[h].snap \in Intents
      BY <1>6, CallShape DEF CoreAcknowledges, CoreCallFails
    <2> QED BY <1>4, <1>6, <2>1, SubmissionUpdate
            DEF CoreAcknowledges, CoreCallFails
  <1>7. ASSUME NEW h \in Handlers, NEW e \in coreEvents, ReceiveCoreEvent(h, e)
        PROVE  StoreStep /\ SnapshotsAgree'
    <2> DEFINE i == AppliedCoreEvent(intents[e.id], e)
    <2>1. e \in CoreEvents /\ e.id \in Live
      BY <1>7 DEF ReceiveCoreEvent, TypeOK
    <2>2. i \in Intents /\ Purpose(i) = Purpose(intents[e.id])
      BY <2>1, LiveVersion, CoreEventUpdate
    <2>3. /\ intents' = [intents EXCEPT ![e.id] = i]
          /\ calls' = [calls EXCEPT ![h] = Waiting("webhook", e.id, i, None)]
          /\ UNCHANGED <<referenceIndex, idempotencyIndex, issued>>
          /\ UNCHANGED promises
      BY <1>7 DEF ReceiveCoreEvent
    <2> HIDE DEF i
    <2>4. Rewrites(e.id, i)
      BY <2>1, <2>2, <2>3 DEF Rewrites
    <2>5. ASSUME NEW snap, snap = i
          PROVE  SnapshotsAgree'
      <3>1. /\ Waiting("webhook", e.id, snap, None).id = e.id
            /\ Waiting("webhook", e.id, snap, None).snap = snap
        BY DEF Waiting
      <3>2. Rewrites(e.id, snap)
        BY <2>4, <2>5
      <3> DEFINE c == Waiting("webhook", e.id, snap, None)
      <3>3. ASSUME NEW j, j = e.id PROVE VersionOf(j, snap)'
        BY <3>2, <3>3, <1>r
      <3>4. VersionOf(c.id, c.snap)'
        BY <3>1, <3>3
      <3> QED BY <2>3, <2>5, <3>2, <3>4, <1>r, CallsStep
    <2> QED BY <2>4, <2>5, <1>r
  <1>8. ASSUME NEW h \in Handlers, NEW outcome \in {"skipped", "attempted"},
               FinishWebhook(h, outcome)
        PROVE  StoreStep /\ SnapshotsAgree'
    <2> DEFINE i == AppliedWebhookDelivery(calls[h].snap, outcome)
    <2>1. /\ calls[h].op = "webhook" /\ UNCHANGED promises
          /\ intents' = [intents EXCEPT ![calls[h].id] = i]
          /\ calls' = [calls EXCEPT ![h] = Idle]
          /\ UNCHANGED <<referenceIndex, idempotencyIndex, issued>>
      BY <1>8 DEF FinishWebhook
    <2>2. calls[h].id \in Live /\ i \in Intents
          /\ Purpose(i) = Purpose(intents[calls[h].id])
      BY <2>1, HeldVersion, WebhookUpdate DEF VersionOf
    <2>3. Rewrites(calls[h].id, i)
      BY <2>1, <2>2 DEF Rewrites
    <2> QED BY <2>1, <2>3, <1>r, <1>i
  <1>9. ASSUME NEW h \in Handlers, AbortWebhook(h)
        PROVE  StoreStep /\ SnapshotsAgree'
    BY <1>9, <1>u, <1>i DEF AbortWebhook
  <1>10. ASSUME NEW h \in Handlers, NEW id \in IntentIds, NEW d \in Decisions,
                RespondToChallenge(h, id, d)
         PROVE  StoreStep /\ SnapshotsAgree'
    <2>1. id \in Live /\ UNCHANGED <<store, issued>>
      BY <1>10 DEF RespondToChallenge
    <2>2. ASSUME NEW g \in Handlers
          PROVE  calls'[g] = calls[g] \/ HandlerHolds(g)'
      <3>1. CASE calls' = [calls EXCEPT ![h] = Waiting("challenge", id, None, d)]
        BY <3>1 DEF HandlerHolds, Waiting, TypeOK
      <3>2. CASE /\ promises[id][d].state = "settled"
                 /\ calls' = [calls EXCEPT ![h] =
                                AfterResponse(id, promises[id][d].snap, d)]
        <4>1. ASSUME NEW snap, snap = promises[id][d].snap
              PROVE  calls'[g] = calls[g] \/ HandlerHolds(g)'
          <5>1. VersionOf(id, snap)'
            BY <3>2, <4>1, <2>1, <1>u DEF SnapshotsAgree
          <5>2. /\ calls'[g] # calls[g] => g = h
                /\ calls'[h] = AfterResponse(id, snap, d)
            BY <3>2, <4>1 DEF TypeOK
          <5> QED BY <5>1, <5>2
                  DEF HandlerHolds, AfterResponse, Waiting, Idle
        <4> QED BY <4>1
      <3> QED BY <1>10, <3>1, <3>2 DEF RespondToChallenge
    <2>3. ASSUME NEW j \in IntentIds, NEW dd \in Decisions
          PROVE  promises'[j][dd] = promises[j][dd] \/ PromiseHolds(j, dd)'
      <3>1. CASE promises' = promises
        BY <3>1
      <3>2. CASE promises' = [promises EXCEPT ![id][d] =
                                [state |-> "pending", snap |-> intents[id]]]
        <4>1. ASSUME NEW snap, snap = intents[id]
              PROVE  promises'[j][dd] = promises[j][dd] \/ PromiseHolds(j, dd)'
          <5>1. VersionOf(id, snap)'
            BY <4>1, <2>1, <1>u, LiveVersion
          <5>2. /\ promises'[j][dd] # promises[j][dd] => j = id /\ dd = d
                /\ promises'[id][d].snap = snap
            BY <3>2, <4>1 DEF TypeOK
          <5> QED BY <5>1, <5>2 DEF PromiseHolds
        <4> QED BY <4>1
      <3> QED BY <1>10, <3>1, <3>2 DEF RespondToChallenge
    <2> QED BY <2>1, <2>2, <2>3, <1>u, SnapshotsKept
  <1>11. ASSUME NEW id \in IntentIds, NEW d \in Decisions,
                NEW s \in CoreStatuses, NEW c \in Challenges \cup {None},
                CoreAnswersChallenge(id, d, s, c)
         PROVE  StoreStep /\ SnapshotsAgree'
    <2>3. PICK e \in CoreEvents, i \in Intents :
            /\ promises[id][d].state = "pending"
            /\ promises[id][d].snap \in Intents
            /\ i = AppliedCoreEvent(promises[id][d].snap, e)
            /\ intents' = [intents EXCEPT ![id] = i]
            /\ promises' = [promises EXCEPT ![id][d] =
                              [state |-> "settled", snap |-> i]]
            /\ Resume(id, d, AfterResponse(id, i, d))
            /\ UNCHANGED <<referenceIndex, idempotencyIndex, issued>>
      BY <1>11, ReplyUpdate
    <2>1. VersionOf(id, promises[id][d].snap)
      BY <2>3 DEF SnapshotsAgree
    <2>2. id \in Live /\ Purpose(i) = Purpose(intents[id])
      BY <2>1, <2>3, CoreEventUpdate DEF VersionOf
    <2>4. ASSUME NEW snap, snap = i
          PROVE  StoreStep /\ SnapshotsAgree'
      <3>1. Rewrites(id, snap)
        BY <2>2, <2>3, <2>4 DEF Rewrites
      <3>2. VersionOf(id, snap)'
        BY <3>1, <1>r
      <3>3. ASSUME NEW g \in Handlers
            PROVE  calls'[g] = calls[g] \/ HandlerHolds(g)'
        <4>1. calls'[g] = calls[g] \/ calls'[g] = AfterResponse(id, snap, d)
          BY <2>3, <2>4 DEF Resume
        <4> QED BY <4>1, <3>2 DEF HandlerHolds, AfterResponse, Waiting, Idle
      <3>4. ASSUME NEW j \in IntentIds, NEW dd \in Decisions
            PROVE  promises'[j][dd] = promises[j][dd] \/ PromiseHolds(j, dd)'
        <4>1. /\ promises'[j][dd] # promises[j][dd] => j = id /\ dd = d
              /\ promises'[id][d].snap = snap
          BY <2>3, <2>4 DEF TypeOK
        <4> QED BY <4>1, <3>2 DEF PromiseHolds
      <3> QED BY <3>1, <3>3, <3>4, <1>r, SnapshotsKept
    <2> QED BY <2>4
  <1>12. ASSUME NEW id \in IntentIds, NEW d \in Decisions,
                ChallengeCallFails(id, d)
         PROVE  StoreStep /\ SnapshotsAgree'
    <2>1. \A g \in Handlers : calls'[g] = calls[g] \/ HandlerHolds(g)'
      BY <1>12 DEF ChallengeCallFails, Resume, HandlerHolds, Idle
    <2>2. ASSUME NEW j \in IntentIds, NEW dd \in Decisions
          PROVE  promises'[j][dd] = promises[j][dd] \/ PromiseHolds(j, dd)'
      <3>1. promises'[j][dd] = promises[j][dd] \/ promises'[j][dd] = Rejected
        BY <1>12 DEF ChallengeCallFails, TypeOK
      <3> QED BY <3>1 DEF PromiseHolds, Rejected
    <2> QED BY <1>12, <2>1, <2>2, <1>u, SnapshotsKept DEF ChallengeCallFails
  <1>13. ASSUME NEW id \in IntentIds, NEW d \in Decisions,
                ForgetResponse(id, d)
         PROVE  StoreStep /\ SnapshotsAgree'
    <2>1. ASSUME NEW j \in IntentIds, NEW dd \in Decisions
          PROVE  promises'[j][dd] = promises[j][dd] \/ PromiseHolds(j, dd)'
      <3>1. promises'[j][dd] = promises[j][dd] \/ promises'[j][dd] = NoPromise
        BY <1>13 DEF ForgetResponse, TypeOK
      <3> QED BY <3>1 DEF PromiseHolds, NoPromise
    <2> QED BY <1>13, <2>1, <1>u, SnapshotsKept DEF ForgetResponse
  <1>14. ASSUME NEW h \in Handlers, FinishConsent(h)
         PROVE  StoreStep /\ SnapshotsAgree'
    BY <1>14, <1>u, <1>i DEF FinishConsent
  <1>15. ASSUME NEW e \in CoreEvents, CoreDecides(e)
         PROVE  StoreStep /\ SnapshotsAgree'
    BY <1>15, <1>u, SnapshotsKept DEF CoreDecides
  <1>16. ASSUME Restart
         PROVE  StoreStep /\ SnapshotsAgree'
    <2>1. StoreStep
      BY <1>16 DEF Restart, StoreStep, Empties
    <2> QED BY <1>16, <2>1
            DEF Restart, SnapshotsAgree, AllIdle, Idle, NoResponses, NoPromise
  <1>17. CASE UNCHANGED vars
    BY <1>17, <1>u, SnapshotsKept DEF vars
  <1> QED BY <1>1, <1>2, <1>3, <1>5, <1>6, <1>7, <1>8, <1>9, <1>10, <1>11,
             <1>12, <1>13, <1>14, <1>15, <1>16, <1>17
          DEF Next, HandlerStep, PromiseStep

-----------------------------------------------------------------------------
(* The theorems. *)

\* The first state satisfies the invariant.
LEMMA InitIInv == Init => IInv
  <1> SUFFICES ASSUME Init PROVE IInv
    OBVIOUS
  <1>1. Live = {}
    BY DEF Init, Live, NoIntents
  <1>2. IndexesAgree
    BY <1>1 DEF Init, IndexesAgree, NoReferences, NoKeysUsed
  <1>3. SnapshotsAgree
    BY DEF Init, SnapshotsAgree, AllIdle, Idle, NoResponses, NoPromise
  <1> QED BY <1>1, <1>2, <1>3, InitType DEF IInv

\* Each of the four kinds of step keeps the indexes in agreement.
LEMMA StoreStepAgrees ==
  ASSUME IInv, StoreStep
  PROVE  IndexesAgree' /\ (Live \subseteq issued)'
  BY RegisterStep, RewriteStep, EmptyStep, UnchangedStep DEF StoreStep

\* Every step preserves the invariant.
LEMMA NextIInv == IInv /\ [Next]_vars => IInv'
  BY NextType, NextStep, StoreStepAgrees DEF IInv

\* The inductive invariant holds in every reachable state.
THEOREM Invariance == Spec => []IInv
  BY InitIInv, NextIInv, PTL DEF Spec

\* The two indexes and the map of intents agree in every state: a creation
\* never follows an entry that leads nowhere or to somebody else's intent.
THEOREM Consistency == Spec => []IndexesAgree
  <1>1. IInv => IndexesAgree
    BY DEF IInv
  <1> QED BY <1>1, Invariance, PTL

(* A step of the store, as IdentityStable sees it. *)
LEMMA StableStep ==
  ASSUME IInv, StoreStep, NEW id \in IntentIds
  PROVE  /\ intents[id] # None /\ intents'[id] # None
              => Purpose(intents'[id]) = Purpose(intents[id])
         /\ intents[id] = None /\ intents'[id] # None => id \notin issued
         /\ intents[id] # None /\ intents'[id] = None
              => \A other \in IntentIds : intents'[other] = None
  <1> USE DEF IInv, TypeOK
  <1>1. ASSUME NEW q \in Requests, NEW j \in IntentIds, NEW i \in Intents,
               Registers(q, j, i)
        PROVE  /\ intents'[id] = IF id = j THEN i ELSE intents[id]
               /\ intents[j] = None /\ j \notin issued /\ i # None
    BY <1>1, PaymentAssumption DEF Registers, Live
  <1>2. ASSUME NEW j \in IntentIds, NEW i \in Intents, Rewrites(j, i)
        PROVE  /\ intents'[id] = IF id = j THEN i ELSE intents[id]
               /\ intents[j] # None /\ Purpose(i) = Purpose(intents[j])
               /\ i # None
    BY <1>2, PaymentAssumption DEF Rewrites, Live
  <1>3. ASSUME Empties
        PROVE  \A other \in IntentIds : intents'[other] = None
    BY <1>3 DEF Empties, NoIntents
  <1>4. CASE UNCHANGED <<store, issued>>
    BY <1>4 DEF store
  <1>5. ASSUME NEW q \in Requests, NEW j \in IntentIds, NEW i \in Intents,
               Registers(q, j, i)
        PROVE  /\ intents[id] # None => intents'[id] = intents[id]
               /\ intents[id] = None /\ intents'[id] # None => id \notin issued
    BY <1>5, <1>1
  <1>6. ASSUME NEW j \in IntentIds, NEW i \in Intents, Rewrites(j, i)
        PROVE  /\ intents[id] # None => intents'[id] # None
               /\ intents[id] # None => Purpose(intents'[id]) = Purpose(intents[id])
               /\ intents[id] = None => intents'[id] = None
    BY <1>6, <1>2
  <1> QED BY <1>3, <1>4, <1>5, <1>6 DEF StoreStep

\* What an intent was created for never changes, no identifier returns and
\* intents disappear only together, at a restart: no handler that writes back
\* an old snapshot can break this.
THEOREM Identity == Spec => IdentityStable
  <1>1. IInv /\ [Next]_vars =>
          [\A id \in IntentIds :
             /\ intents[id] # None /\ intents'[id] # None
                  => Purpose(intents'[id]) = Purpose(intents[id])
             /\ intents[id] = None /\ intents'[id] # None => id \notin issued
             /\ intents[id] # None /\ intents'[id] = None
                  => \A other \in IntentIds : intents'[other] = None]_vars
    BY NextStep, StableStep
  <1> QED BY <1>1, Invariance, PTL DEF Spec, IdentityStable

(* The intake's registry is the index by reference. *)
LEMMA RegistryIsIndex ==
  ASSUME IInv, NEW s \in Services, NEW r \in References
  PROVE  IntentFor(s, r) = referenceIndex[s][r]
  <1> DEFINE found == {id \in Live : /\ intents[id].service = s
                                     /\ intents[id].reference = r}
  <1>1. \A id \in found : id = referenceIndex[s][r]
    BY DEF IInv, IndexesAgree
  <1>2. referenceIndex[s][r] # None => referenceIndex[s][r] \in found
    BY DEF IInv, IndexesAgree, Live, TypeOK
  <1>3. None \notin found
    BY PaymentAssumption DEF Live
  <1>4. IntentFor(s, r) = IF found = {} THEN None ELSE CHOOSE id \in found : TRUE
    BY DEF IntentFor
  <1> HIDE DEF found
  <1>5. CASE found = {}
    BY <1>2, <1>4, <1>5
  <1>6. CASE found # {}
    <2>1. (CHOOSE id \in found : TRUE) \in found
      BY <1>6
    <2> QED BY <1>1, <1>4, <1>6, <2>1
  <1> QED BY <1>5, <1>6

IndexIsRegistry ==
  \A s \in Services, r \in References : IntentFor(s, r) = referenceIndex[s][r]

\* The registry is the index in the next state too.
LEMMA RegistryLater == IInv' => IndexIsRegistry'
  <1>1. IInv => IndexIsRegistry
    BY RegistryIsIndex DEF IndexIsRegistry
  <1> QED BY <1>1, PTL

Registry == [n \in Services \X References |-> IntentFor(n[1], n[2])]

\* A step of the store is a step of the intake, or a stutter.
LEMMA IntakeStep ==
  ASSUME IInv, IInv', StoreStep
  PROVE  Intake!Next \/ UNCHANGED Intake!vars
  <1>1. Registry = [n \in Services \X References |-> referenceIndex[n[1]][n[2]]]
    BY RegistryIsIndex DEF Registry
  <1>2. Registry' = [n \in Services \X References |-> referenceIndex'[n[1]][n[2]]]
    BY RegistryLater DEF IndexIsRegistry, Registry
  <1>3. ASSUME NEW q \in Requests, NEW id \in IntentIds, NEW i \in Intents,
               Registers(q, id, i)
        PROVE  Intake!Next
    <2> DEFINE n == <<q.service, q.reference>>
    <2>1. n \in Services \X References
      BY DEF Requests
    <2>2. Registry[n] = None
      BY <1>1, <1>3, <2>1 DEF Registers, Found, ByReference
    <2>3. Registry' = [Registry EXCEPT ![n] = id]
      <3>1. \A s \in Services, r \in References :
              referenceIndex'[s][r] = IF s = q.service /\ r = q.reference
                                      THEN id ELSE referenceIndex[s][r]
        BY <1>3 DEF Registers, IInv, TypeOK
      <3> DEFINE old == [m \in Services \X References |->
                           referenceIndex[m[1]][m[2]]]
                 new == [m \in Services \X References |->
                           referenceIndex'[m[1]][m[2]]]
      <3>2. ASSUME NEW m \in Services \X References
            PROVE  new[m] = IF m = n THEN id ELSE old[m]
        <4>1. m = <<m[1], m[2]>> /\ m[1] \in Services /\ m[2] \in References
          OBVIOUS
        <4> QED BY <4>1, <3>1
      <3>3. new = [old EXCEPT ![n] = id]
        BY <3>2
      <3> QED BY <1>1, <1>2, <3>3
    <2>4. id \notin issued /\ issued' = issued \cup {id}
      BY <1>3 DEF Registers
    <2>5. Intake!Register(n, id)
      BY <2>2, <2>3, <2>4 DEF Intake!Register, Registry
    <2> QED BY <2>1, <2>5 DEF Intake!Next
  <1>4. ASSUME NEW id \in IntentIds, NEW i \in Intents, Rewrites(id, i)
        PROVE  UNCHANGED Intake!vars
    BY <1>1, <1>2, <1>4 DEF Rewrites, Intake!vars, Registry
  <1>5. ASSUME Empties
        PROVE  Intake!Next
    <2>1. Registry' = [n \in Services \X References |-> None]
      BY <1>2, <1>5 DEF Empties, NoReferences
    <2> QED BY <1>5, <2>1 DEF Empties, Intake!Next, Intake!Forget, Registry
  <1>6. ASSUME UNCHANGED <<store, issued>>
        PROVE  UNCHANGED Intake!vars
    BY <1>1, <1>2, <1>6 DEF store, Intake!vars, Registry
  <1> QED BY <1>3, <1>4, <1>5, <1>6 DEF StoreStep

\* Creation implements the intake: whatever retries, keys, snapshots and
\* restarts do, a service's reference is registered under one identifier.
THEOREM Refinement == Spec => ImplementsIntake
  <1>1. Init => Intake!Init
    <2> SUFFICES ASSUME Init PROVE Intake!Init
      OBVIOUS
    <2>1. Registry = [n \in Services \X References |-> None]
      BY InitIInv, RegistryIsIndex DEF Registry, Init, NoReferences
    <2> QED BY <2>1 DEF Init, Intake!Init, Registry
  <1>2. IInv /\ IInv' /\ [Next]_vars => [Intake!Next]_(Intake!vars)
    BY NextStep, IntakeStep
  <1> QED BY <1>1, <1>2, Invariance, PTL DEF Spec, ImplementsIntake, Intake!Spec

-----------------------------------------------------------------------------
(* What is stored, held or told rests on what Core said and on what was    *)
(* sent to it: on events and replies that are never lost, a restart of the  *)
(* gateway included.                                                        *)

\* The decision kept in intent i is one Core took about id, and so is a
\* completion shown without one.
Told(id, i, events) ==
  /\ i.result # None =>
       \E e \in events : /\ e.id = id /\ e.status = i.result.status
                         /\ e.challenge = i.result.challenge
  /\ i.status = "completed" =>
       \E e \in events : e.id = id /\ e.status = "completed"

\* i is as a decision of Core left it.
FromCore(id, i, events) ==
  /\ Told(id, i, events)
  /\ i.result # None /\ i.status = i.result.status

\* Core answered an approval for id with challenge c, and not with a failure.
Consented(id, c, answers) ==
  \E a \in answers : /\ a.id = id /\ a.decision = "approve"
                     /\ a.status # "failed" /\ a.challenge = c

Kept(id, i, events) == i # None => Explained(i) /\ Told(id, i, events)

Carries(c, events, answers) ==
  /\ c.op = "submit" => Told(c.id, c.snap, events)
  /\ c.op \in {"webhook", "consent"} => FromCore(c.id, c.snap, events)
  /\ c.op = "consent" => Consented(c.id, ChallengeOf(c.snap), answers)

Owes(id, d, p, events, answers) ==
  p.state = "settled" =>
    /\ FromCore(id, p.snap, events)
    /\ d = "approve" /\ p.snap.status # "failed" =>
         Consented(id, ChallengeOf(p.snap), answers)

Receipted(r, answers) == Consented(r[1], r[2], answers)

Evidence ==
  /\ \A id \in IntentIds : Kept(id, intents[id], Heard)
  /\ \A h \in Handlers : Carries(calls[h], Heard, replies)
  /\ \A id \in IntentIds, d \in Decisions :
       Owes(id, d, promises[id][d], Heard, replies)
  /\ \A r \in receipts : Receipted(r, replies)

\* What Core said before it has still said later.
LEMMA HeardGrows ==
  ASSUME [Next]_vars
  PROVE  /\ coreEvents \subseteq coreEvents' /\ replies \subseteq replies'
         /\ answered \subseteq answered' /\ Heard \subseteq Heard'
  <1>1. ASSUME NEW h \in Handlers, HandlerStep(h)
        PROVE  UNCHANGED external
    BY <1>1 DEF HandlerStep, CoreAnswers, CoreAcknowledges, CoreCallFails,
                EndSubmission, FinishWebhook, AbortWebhook, FinishConsent
  <1>2. ASSUME NEW id \in IntentIds, NEW d \in Decisions, PromiseStep(id, d)
        PROVE  UNCHANGED <<coreEvents, answered>> /\ replies \subseteq replies'
    BY <1>2 DEF PromiseStep, CoreAnswersChallenge, ChallengeCallFails,
                ForgetResponse, external
  <1> DEFINE Grows == /\ coreEvents \subseteq coreEvents' /\ replies \subseteq replies'
                      /\ answered \subseteq answered'
  <1>3. ASSUME NEW h \in Handlers, NEW q \in Requests, NEW confirm \in BOOLEAN,
               \/ \E id \in IntentIds : CreateNew(h, q, id, confirm)
               \/ CreateExisting(h, q, confirm)
        PROVE  Grows
    <2>1. CASE CreateExisting(h, q, confirm)
      BY <2>1 DEF CreateExisting
    <2>2. ASSUME NEW id \in IntentIds, CreateNew(h, q, id, confirm)
          PROVE  Grows
      BY <2>2 DEF CreateNew
    <2> QED BY <1>3, <2>1, <2>2
  <1>4. ASSUME NEW h \in Handlers, NEW id \in IntentIds, NEW d \in Decisions,
               Confirm(h, id) \/ RespondToChallenge(h, id, d)
        PROVE  Grows
    BY <1>4 DEF Confirm, RespondToChallenge
  <1>5. ASSUME NEW h \in Handlers, NEW e, ReceiveCoreEvent(h, e)
        PROVE  Grows
    BY <1>5 DEF ReceiveCoreEvent, external
  <1>6. ASSUME NEW e, CoreDecides(e) PROVE Grows
    BY <1>6 DEF CoreDecides
  <1>7. ASSUME Restart PROVE Grows
    BY <1>7 DEF Restart, external
  <1>8. ASSUME UNCHANGED vars PROVE Grows
    BY <1>8 DEF vars, external
  <1>9. \A h \in Handlers, id \in IntentIds : Confirm(h, id) => Grows
    BY DEF Confirm
  <1>10. Grows
    <2>1. \A h \in Handlers : HandlerStep(h) => Grows
      BY <1>1 DEF external
    <2>2. \A id \in IntentIds, d \in Decisions : PromiseStep(id, d) => Grows
      BY <1>2
    <2> HIDE DEF Grows
    <2> QED BY <2>1, <2>2, <1>3, <1>4, <1>5, <1>6, <1>7, <1>8, <1>9 DEF Next
  <1> QED BY <1>10 DEF Heard, Spoken

\* An event is something Core said.
LEMMA EventHeard == coreEvents \subseteq Heard
  BY DEF Heard, Spoken

\* What rests on some decisions and responses rests on more of them.
LEMMA ToldLater ==
  ASSUME NEW E, NEW F, E \subseteq F, NEW id, NEW i
  PROVE  /\ Told(id, i, E) => Told(id, i, F)
         /\ FromCore(id, i, E) => FromCore(id, i, F)
         /\ Kept(id, i, E) => Kept(id, i, F)
  BY DEF Told, FromCore, Kept

\* The same of calls, promises and receipts.
LEMMA CarriesLater ==
  ASSUME NEW E, NEW F, E \subseteq F, NEW A, NEW B, A \subseteq B
  PROVE  /\ \A c : Carries(c, E, A) => Carries(c, F, B)
         /\ \A id, d, p : Owes(id, d, p, E, A) => Owes(id, d, p, F, B)
         /\ \A r : Receipted(r, A) => Receipted(r, B)
  <1>1. \A id, c : Consented(id, c, A) => Consented(id, c, B)
    BY DEF Consented
  <1>2. \A id, i : /\ Told(id, i, E) => Told(id, i, F)
                   /\ FromCore(id, i, E) => FromCore(id, i, F)
    BY ToldLater
  <1>3. \A c : Carries(c, E, A) => Carries(c, F, B)
    BY <1>1, <1>2 DEF Carries
  <1>4. \A id, d, p : Owes(id, d, p, E, A) => Owes(id, d, p, F, B)
    BY <1>1, <1>2 DEF Owes
  <1>5. \A r : Receipted(r, A) => Receipted(r, B)
    BY <1>1 DEF Receipted
  <1> QED BY <1>3, <1>4, <1>5

\* An idle handler rests on nothing.
LEMMA IdleCarries ==
  \A events, answers : Carries(Idle, events, answers)
  BY DEF Carries, Idle

\* What a waiting handler must be able to show.
LEMMA WaitingCarries ==
  ASSUME NEW id, NEW i, NEW d, NEW E, NEW A
  PROVE  /\ Told(id, i, E) => Carries(Waiting("submit", id, i, d), E, A)
         /\ FromCore(id, i, E) => Carries(Waiting("webhook", id, i, d), E, A)
         /\ Carries(Waiting("challenge", id, i, d), E, A)
         /\ FromCore(id, i, E) /\ Consented(id, ChallengeOf(i), A)
              => Carries(Waiting("consent", id, i, d), E, A)
  BY DEF Carries, Waiting

\* A decision of Core, stored with an intent, explains it.
LEMMA DecisionExplains ==
  ASSUME NEW i \in Intents, NEW E \in SUBSET CoreEvents, NEW e \in E
  PROVE  /\ FromCore(e.id, AppliedCoreEvent(i, e), E)
         /\ Explained(AppliedCoreEvent(i, e))
         /\ AppliedCoreEvent(i, e).status # "requires_confirmation"
  <1> DEFINE u == AppliedCoreEvent(i, e)
  <1>1. e \in CoreEvents
    OBVIOUS
  <1>2. /\ u.status = e.status
        /\ u.result = [status |-> e.status, challenge |-> e.challenge]
        /\ u \in Intents
    BY <1>1, CoreEventUpdate
  <1>3. u.result \in [status : CoreStatuses, challenge : Challenges \cup {None}]
    BY <1>1, <1>2 DEF CoreEvents
  <1>4. u.result # None
    BY <1>3, PaymentAssumption
  <1>5. u.result.status = e.status /\ u.result.challenge = e.challenge
    BY <1>2
  <1>6. e.status # "requires_confirmation"
    BY <1>1, PaymentAssumption DEF CoreEvents, AllCoreStatuses
  <1> HIDE DEF u
  <1>7. FromCore(e.id, u, E) /\ Explained(u)
    BY <1>2, <1>4, <1>5 DEF FromCore, Told, Explained
  <1> QED BY <1>2, <1>6, <1>7 DEF u

\* The two other ends of a submission explain the status they set.
LEMMA SubmissionExplains ==
  ASSUME NEW i \in Intents, NEW id, NEW E, Told(id, i, E)
  PROVE  /\ Kept(id, SubmittedToCore(i), E)
         /\ Kept(id, CoreSubmissionFailed(i), E)
         /\ SubmittedToCore(i).status # "requires_confirmation"
         /\ CoreSubmissionFailed(i).status # "requires_confirmation"
  <1>1. /\ SubmittedToCore(i).status = "submitted_to_core"
        /\ SubmittedToCore(i).submission = "submitted"
        /\ SubmittedToCore(i).result = i.result
        /\ CoreSubmissionFailed(i).status = "failed"
        /\ CoreSubmissionFailed(i).submission = "failed"
        /\ CoreSubmissionFailed(i).result = i.result
    BY DEF SubmittedToCore, CoreSubmissionFailed, Intents
  <1>2. /\ Explained(SubmittedToCore(i)) /\ Explained(CoreSubmissionFailed(i))
    BY <1>1 DEF Explained
  <1>3. Told(id, SubmittedToCore(i), E) /\ Told(id, CoreSubmissionFailed(i), E)
    BY <1>1 DEF Told
  <1> QED BY <1>1, <1>2, <1>3 DEF Kept

\* So does the outcome of a webhook, stored with the intent it told of.
LEMMA WebhookExplains ==
  ASSUME NEW i \in Intents, NEW id, NEW E, FromCore(id, i, E),
         NEW outcome \in {"skipped", "attempted"}
  PROVE  /\ Kept(id, AppliedWebhookDelivery(i, outcome), E)
         /\ AppliedWebhookDelivery(i, outcome).status # "requires_confirmation"
  <1>1. /\ AppliedWebhookDelivery(i, outcome).status = i.status
        /\ AppliedWebhookDelivery(i, outcome).result = i.result
    BY DEF AppliedWebhookDelivery, Intents
  <1>2. i.result # None /\ i.status = i.result.status /\ Told(id, i, E)
    BY DEF FromCore
  <1>3. i.status # "requires_confirmation"
    <2>1. i.result \in [status : CoreStatuses, challenge : Challenges \cup {None}]
      BY <1>2 DEF Intents, Results
    <2> QED BY <1>2, <2>1, PaymentAssumption DEF AllCoreStatuses
  <1> QED BY <1>1, <1>2, <1>3 DEF Kept, Explained, Told

\* A handler that learns the outcome of a response can show what it needs.
LEMMA AfterResponseCarries ==
  ASSUME NEW id, NEW i, NEW d, NEW E, NEW A,
         FromCore(id, i, E),
         d = "approve" /\ i.status # "failed" => Consented(id, ChallengeOf(i), A)
  PROVE  Carries(AfterResponse(id, i, d), E, A)
  BY IdleCarries, WaitingCarries DEF AfterResponse

-----------------------------------------------------------------------------
\* An intent that is stored again is not waiting for its confirmation.
Advances(id) ==
  \/ intents[id] = None \/ intents'[id] = None
  \/ intents'[id] = intents[id]
  \/ intents'[id].status # "requires_confirmation"

\* What a step adds rests on E and A, what Core said before the step or after it.
EvidenceStep(E, A) ==
  /\ \A id \in IntentIds :
       /\ intents'[id] = intents[id] \/ Kept(id, intents'[id], E)
       /\ Advances(id)
  /\ \A h \in Handlers :
       calls'[h] = calls[h] \/ Carries(calls'[h], E, A)
  /\ \A id \in IntentIds, d \in Decisions :
       \/ promises'[id][d] = promises[id][d]
       \/ Owes(id, d, promises'[id][d], E, A)
  /\ \A r \in receipts' : r \in receipts \/ Receipted(r, A)

\* Evidence is kept by a step whose every addition rests on it.
LEMMA EvidenceKept ==
  ASSUME Evidence, Heard \subseteq Heard', replies \subseteq replies',
         NEW E, E \subseteq Heard', NEW A, A \subseteq replies',
         EvidenceStep(E, A)
  PROVE  Evidence'
  <1>1. ASSUME NEW id \in IntentIds
        PROVE  Kept(id, intents'[id], Heard')
    <2>1. Kept(id, intents'[id], Heard) \/ Kept(id, intents'[id], E)
      BY DEF Evidence, EvidenceStep
    <2> QED BY <2>1, ToldLater
  <1>2. ASSUME NEW h \in Handlers
        PROVE  Carries(calls'[h], Heard', replies')
    <2>1. Carries(calls'[h], Heard, replies) \/ Carries(calls'[h], E, A)
      BY DEF Evidence, EvidenceStep
    <2> QED BY <2>1, CarriesLater
  <1>3. ASSUME NEW id \in IntentIds, NEW d \in Decisions
        PROVE  Owes(id, d, promises'[id][d], Heard', replies')
    <2>1. \/ Owes(id, d, promises'[id][d], Heard, replies)
          \/ Owes(id, d, promises'[id][d], E, A)
      BY DEF Evidence, EvidenceStep
    <2> QED BY <2>1, CarriesLater
  <1>4. ASSUME NEW r \in receipts'
        PROVE  Receipted(r, replies')
    <2>1. Receipted(r, replies) \/ Receipted(r, A)
      BY DEF Evidence, EvidenceStep
    <2> QED BY <2>1, CarriesLater
  <1> QED BY <1>1, <1>2, <1>3, <1>4 DEF Evidence

\* Handler h takes a new call, or stops waiting.
LEMMA OneCall ==
  ASSUME TypeOK, NEW h \in Handlers, NEW c, calls' = [calls EXCEPT ![h] = c],
         NEW E, NEW A, Carries(c, E, A)
  PROVE  \A g \in Handlers :
           calls'[g] = calls[g] \/ Carries(calls'[g], E, A)
  BY DEF TypeOK

\* One intent is stored.
LEMMA OneIntent ==
  ASSUME TypeOK, NEW id \in IntentIds, NEW i,
         intents' = [intents EXCEPT ![id] = i], NEW E, Kept(id, i, E),
         i.status # "requires_confirmation" \/ intents[id] = None
  PROVE  \A j \in IntentIds :
           /\ intents'[j] = intents[j] \/ Kept(j, intents'[j], E)
           /\ Advances(j)
  <1>1. intents'[id] = i /\ \A j \in IntentIds : j # id => intents'[j] = intents[j]
    BY DEF TypeOK
  <1> QED BY <1>1 DEF Advances

\* Answering a creation gives the handler an intent that is kept.
LEMMA AnswerCarries ==
  ASSUME TypeOK, NEW h \in Handlers, NEW q, NEW id, NEW i, NEW confirm \in BOOLEAN,
         Answer(h, q, id, i, confirm), Told(id, i, Heard)
  PROVE  \A g \in Handlers :
           calls'[g] = calls[g] \/ Carries(calls'[g], Heard, replies)
  <1>1. CASE confirm
    <2>1. calls' = [calls EXCEPT ![h] = Waiting("submit", id, i, None)]
      BY <1>1 DEF Answer, Submit
    <2>2. Carries(Waiting("submit", id, i, None), Heard, replies)
      BY WaitingCarries
    <2> QED BY <2>1, <2>2, OneCall
  <1>2. CASE ~confirm
    BY <1>2 DEF Answer
  <1> QED BY <1>1, <1>2

\* A stored intent is explained by what Core said of it.
LEMMA LiveTold ==
  ASSUME Evidence, NEW id \in Live
  PROVE  Told(id, intents[id], Heard)
  BY DEF Evidence, Live, Kept

\* A step that stores nothing advances nothing.
LEMMA SameStoreStep ==
  ASSUME UNCHANGED intents
  PROVE  \A id \in IntentIds :
           /\ intents'[id] = intents[id] \/ Kept(id, intents'[id], Heard)
           /\ Advances(id)
  BY DEF Advances

\* Whatever a step stores, hands to a handler or records, rests on what Core said
\* before it or in it.
SaidBefore == EvidenceStep(Heard, replies)
SaidMeanwhile == EvidenceStep(Heard', replies')

LEMMA NextEvidenceStep ==
  IInv /\ Evidence /\ [Next]_vars => SaidBefore \/ SaidMeanwhile
  <1> SUFFICES ASSUME IInv, Evidence, [Next]_vars PROVE SaidBefore \/ SaidMeanwhile
    OBVIOUS
  <1>t. TypeOK
    BY DEF IInv
  <1>c. Heard \in SUBSET CoreEvents /\ coreEvents \subseteq Heard
    BY <1>t, SpokenType, EventHeard DEF TypeOK, Heard
  <1>1. ASSUME NEW h \in Handlers, NEW q \in Requests, NEW id \in IntentIds,
               NEW confirm \in BOOLEAN, CreateNew(h, q, id, confirm)
        PROVE  SaidBefore
    <2> DEFINE i == [service |-> q.service, reference |-> q.reference,
                     key |-> q.key, action |-> q.action, amount |-> q.amount,
                     status |-> "requires_confirmation", submission |-> "none",
                     result |-> None, webhook |-> "none"]
    <2>1. /\ intents' = [intents EXCEPT ![id] = i]
          /\ Answer(h, q, id, i, confirm)
          /\ UNCHANGED <<promises, receipts>>
      BY <1>1 DEF CreateNew
    <2>2. intents[id] = None
      BY <1>1 DEF CreateNew, IInv, Live
    <2>3. Told(id, i, Heard) /\ Kept(id, i, Heard)
      BY DEF Told, Kept, Explained
    <2> HIDE DEF i
    <2>4. \A j \in IntentIds :
            /\ intents'[j] = intents[j] \/ Kept(j, intents'[j], Heard)
            /\ Advances(j)
      BY <1>t, <2>1, <2>2, <2>3, OneIntent
    <2>5. \A g \in Handlers :
            calls'[g] = calls[g] \/ Carries(calls'[g], Heard, replies)
      BY <1>t, <2>1, <2>3, AnswerCarries
    <2> QED BY <2>1, <2>4, <2>5 DEF SaidBefore, EvidenceStep
  <1>2. ASSUME NEW h \in Handlers, NEW q \in Requests,
               NEW confirm \in BOOLEAN, CreateExisting(h, q, confirm)
        PROVE  SaidBefore
    <2>1. /\ UNCHANGED <<store, promises, receipts>>
          /\ Answer(h, q, Found(q), intents[Found(q)], confirm)
      BY <1>2 DEF CreateExisting
    <2>2. Found(q) \in Live
      BY <1>2, <1>t, PaymentAssumption
         DEF CreateExisting, Found, ByKey, ByReference, TypeOK, Requests, Live
    <2>3. Told(Found(q), intents[Found(q)], Heard)
      BY <2>2, LiveTold
    <2>4. \A g \in Handlers :
            calls'[g] = calls[g] \/ Carries(calls'[g], Heard, replies)
      BY <1>t, <2>1, <2>3, AnswerCarries
    <2> QED BY <2>1, <2>4, SameStoreStep DEF SaidBefore, EvidenceStep, store
  <1>3. ASSUME NEW h \in Handlers, NEW id \in IntentIds, Confirm(h, id)
        PROVE  SaidBefore
    <2>1. /\ UNCHANGED <<store, promises, receipts>>
          /\ id \in Live
          /\ calls' = [calls EXCEPT ![h] =
                         Waiting("submit", id, intents[id], None)]
      BY <1>3 DEF Confirm, Submit
    <2>2. Carries(Waiting("submit", id, intents[id], None), Heard, replies)
      BY <2>1, LiveTold, WaitingCarries
    <2>3. \A g \in Handlers :
            calls'[g] = calls[g] \/ Carries(calls'[g], Heard, replies)
      BY <1>t, <2>1, <2>2, OneCall
    <2> QED BY <2>1, <2>3, SameStoreStep DEF SaidBefore, EvidenceStep, store
  <1>4. ASSUME NEW h \in Handlers, calls[h].op = "submit", NEW i,
               Kept(calls[h].id, i, Heard),
               i.status # "requires_confirmation", EndSubmission(h, i)
        PROVE  SaidBefore
    <2>1. /\ intents' = [intents EXCEPT ![calls[h].id] = i]
          /\ calls' = [calls EXCEPT ![h] = Idle]
          /\ UNCHANGED <<promises, external, receipts, notified>>
      BY <1>4 DEF EndSubmission
    <2>2. calls[h].id \in IntentIds
      BY <1>4, <1>t, CallShape
    <2>3. \A j \in IntentIds :
            /\ intents'[j] = intents[j] \/ Kept(j, intents'[j], Heard)
            /\ Advances(j)
      BY <1>t, <1>4, <2>1, <2>2, OneIntent
    <2>4. \A g \in Handlers :
            calls'[g] = calls[g] \/ Carries(calls'[g], Heard, replies)
      BY <1>t, <2>1, IdleCarries, OneCall
    <2> QED BY <2>1, <2>3, <2>4 DEF SaidBefore, EvidenceStep, external
  <1>5. ASSUME NEW h \in Handlers, NEW e \in coreEvents, CoreAnswers(h, e)
        PROVE  SaidBefore
    <2> DEFINE i == AppliedCoreEvent(calls[h].snap, e)
    <2>1. /\ calls[h].op = "submit" /\ e.id = calls[h].id
          /\ EndSubmission(h, i) /\ calls[h].snap \in Intents
      BY <1>5, <1>t, CallShape DEF CoreAnswers
    <2>2. /\ FromCore(calls[h].id, i, Heard) /\ Explained(i)
          /\ i.status # "requires_confirmation"
      BY <1>c, <2>1, DecisionExplains
    <2> HIDE DEF i
    <2>3. Kept(calls[h].id, i, Heard)
      BY <2>2 DEF Kept, FromCore
    <2> QED BY <1>4, <2>1, <2>2, <2>3
  <1>6. ASSUME NEW h \in Handlers, CoreAcknowledges(h) \/ CoreCallFails(h)
        PROVE  SaidBefore
    <2>1. calls[h].op = "submit" /\ calls[h].snap \in Intents
      BY <1>6, <1>t, CallShape DEF CoreAcknowledges, CoreCallFails
    <2>2. Told(calls[h].id, calls[h].snap, Heard)
      BY <2>1 DEF Evidence, Carries
    <2> QED BY <1>4, <1>6, <2>1, <2>2, SubmissionExplains
            DEF CoreAcknowledges, CoreCallFails
  <1>7. ASSUME NEW h \in Handlers, NEW e \in coreEvents, ReceiveCoreEvent(h, e)
        PROVE  SaidBefore
    <2> DEFINE i == AppliedCoreEvent(intents[e.id], e)
    <2>1. /\ e.id \in Live /\ intents[e.id] \in Intents /\ e.id \in IntentIds
          /\ intents' = [intents EXCEPT ![e.id] = i]
          /\ calls' = [calls EXCEPT ![h] = Waiting("webhook", e.id, i, None)]
          /\ UNCHANGED <<promises, external, receipts, notified>>
      BY <1>7, LiveVersion DEF ReceiveCoreEvent, Live
    <2>2. /\ FromCore(e.id, i, Heard) /\ Explained(i)
          /\ i.status # "requires_confirmation"
      BY <1>c, <2>1, DecisionExplains
    <2> HIDE DEF i
    <2>3. \A j \in IntentIds :
            /\ intents'[j] = intents[j] \/ Kept(j, intents'[j], Heard)
            /\ Advances(j)
      BY <1>t, <2>1, <2>2, OneIntent DEF Kept, FromCore
    <2>4. \A g \in Handlers :
            calls'[g] = calls[g] \/ Carries(calls'[g], Heard, replies)
      BY <1>t, <2>1, <2>2, WaitingCarries, OneCall
    <2> QED BY <2>1, <2>3, <2>4 DEF SaidBefore, EvidenceStep, external
  <1>8. ASSUME NEW h \in Handlers, NEW outcome \in {"skipped", "attempted"},
               FinishWebhook(h, outcome)
        PROVE  SaidBefore
    <2> DEFINE i == AppliedWebhookDelivery(calls[h].snap, outcome)
    <2>1. /\ calls[h].op = "webhook"
          /\ calls[h].id \in IntentIds /\ calls[h].snap \in Intents
          /\ intents' = [intents EXCEPT ![calls[h].id] = i]
          /\ calls' = [calls EXCEPT ![h] = Idle]
          /\ UNCHANGED <<promises, external, receipts>>
      BY <1>8, <1>t, CallShape DEF FinishWebhook
    <2>2. FromCore(calls[h].id, calls[h].snap, Heard)
      BY <2>1 DEF Evidence, Carries
    <2>3. /\ Kept(calls[h].id, i, Heard)
          /\ i.status # "requires_confirmation"
      BY <2>1, <2>2, WebhookExplains
    <2> HIDE DEF i
    <2>4. \A j \in IntentIds :
            /\ intents'[j] = intents[j] \/ Kept(j, intents'[j], Heard)
            /\ Advances(j)
      BY <1>t, <2>1, <2>3, OneIntent
    <2>5. \A g \in Handlers :
            calls'[g] = calls[g] \/ Carries(calls'[g], Heard, replies)
      BY <1>t, <2>1, IdleCarries, OneCall
    <2> QED BY <2>1, <2>3, <2>4, <2>5 DEF SaidBefore, EvidenceStep, external
  <1>9. ASSUME NEW h \in Handlers, AbortWebhook(h)
        PROVE  SaidBefore
    <2>1. \A g \in Handlers :
            calls'[g] = calls[g] \/ Carries(calls'[g], Heard, replies)
      BY <1>t, <1>9, IdleCarries, OneCall DEF AbortWebhook
    <2> QED BY <1>9, <2>1, SameStoreStep
            DEF AbortWebhook, SaidBefore, EvidenceStep, store
  <1>10. ASSUME NEW h \in Handlers, NEW id \in IntentIds, NEW d \in Decisions,
                RespondToChallenge(h, id, d)
         PROVE  SaidBefore
    <2> DEFINE p == promises[id][d]
    <2>1. UNCHANGED <<store, receipts>>
      BY <1>10 DEF RespondToChallenge
    <2>2. Owes(id, d, p, Heard, replies)
      BY DEF Evidence
    <2>3. CASE /\ p.state = "none"
               /\ promises' = [promises EXCEPT ![id][d] =
                                 [state |-> "pending", snap |-> intents[id]]]
               /\ calls' = [calls EXCEPT ![h] = Waiting("challenge", id, None, d)]
      <3>2. \A g \in Handlers :
              calls'[g] = calls[g] \/ Carries(calls'[g], Heard, replies)
        BY <1>t, <2>3, WaitingCarries, OneCall
      <3>3. Owes(id, d, [state |-> "pending", snap |-> intents[id]],
                 Heard, replies)
        BY DEF Owes
      <3>4. ASSUME NEW j \in IntentIds, NEW dd \in Decisions
            PROVE  \/ promises'[j][dd] = promises[j][dd]
                   \/ Owes(j, dd, promises'[j][dd], Heard, replies)
        <4>1. \/ promises'[j][dd] = promises[j][dd]
              \/ /\ j = id /\ dd = d
                 /\ promises'[j][dd] = [state |-> "pending", snap |-> intents[id]]
          BY <1>t, <2>3 DEF TypeOK
        <4> QED BY <3>3, <4>1
      <3> QED BY <2>1, <2>3, <3>2, <3>4, SameStoreStep DEF SaidBefore, EvidenceStep, store
    <2>4. CASE /\ p.state = "pending" /\ UNCHANGED promises
               /\ calls' = [calls EXCEPT ![h] = Waiting("challenge", id, None, d)]
      <3>1. \A g \in Handlers :
              calls'[g] = calls[g] \/ Carries(calls'[g], Heard, replies)
        BY <1>t, <2>4, WaitingCarries, OneCall
      <3> QED BY <2>1, <2>4, <3>1, SameStoreStep DEF SaidBefore, EvidenceStep, store
    <2>5. CASE /\ p.state = "settled" /\ UNCHANGED promises
               /\ calls' = [calls EXCEPT ![h] = AfterResponse(id, p.snap, d)]
      <3>1. Carries(AfterResponse(id, p.snap, d), Heard, replies)
        BY <2>2, <2>5, AfterResponseCarries DEF Owes
      <3>2. \A g \in Handlers :
              calls'[g] = calls[g] \/ Carries(calls'[g], Heard, replies)
        BY <1>t, <2>5, <3>1, OneCall
      <3> QED BY <2>1, <2>5, <3>2, SameStoreStep DEF SaidBefore, EvidenceStep, store
    <2> QED BY <1>10, <2>3, <2>4, <2>5 DEF RespondToChallenge
  <1>11. ASSUME NEW id \in IntentIds, NEW d \in Decisions,
                NEW s \in CoreStatuses, NEW c \in Challenges \cup {None},
                CoreAnswersChallenge(id, d, s, c)
         PROVE  SaidMeanwhile
    <2>1. PICK e \in CoreEvents, a \in Replies, i \in Intents :
            /\ e = [id |-> id, status |-> s, challenge |-> c]
            /\ a.id = id /\ a.status = s /\ a.challenge = c /\ a.decision = d
            /\ replies' = replies \cup {a} /\ coreEvents' = coreEvents
            /\ promises[id][d].snap \in Intents
            /\ i = AppliedCoreEvent(promises[id][d].snap, e)
            /\ intents' = [intents EXCEPT ![id] = i]
            /\ promises' = [promises EXCEPT ![id][d] =
                              [state |-> "settled", snap |-> i]]
            /\ Resume(id, d, AfterResponse(id, i, d))
            /\ UNCHANGED receipts
      BY <1>11, <1>t, ReplyUpdate
    <2>2. Heard' \in SUBSET CoreEvents
      <3>1. coreEvents' \in SUBSET CoreEvents /\ replies' \in SUBSET Replies
        BY <1>t, <2>1 DEF TypeOK
      <3> QED BY <3>1, SpokenType DEF Heard
    <2>3. e \in Heard' /\ e.id = id
      <3>1. a \in replies' /\ e = [id |-> a.id, status |-> a.status,
                                   challenge |-> a.challenge]
        BY <2>1
      <3> QED BY <2>1, <3>1 DEF Heard, Spoken
    <2>4. /\ FromCore(id, i, Heard') /\ Explained(i)
          /\ i.status # "requires_confirmation"
      BY <2>1, <2>2, <2>3, DecisionExplains
    <2>5. d = "approve" /\ i.status # "failed"
            => Consented(id, ChallengeOf(i), replies')
      <3>1. i.status = s /\ ChallengeOf(i) = c
        <4>1. i.result # None
          BY <2>4 DEF FromCore
        <4>2. i.status = e.status
              /\ i.result = [status |-> e.status, challenge |-> e.challenge]
          BY <2>1, CoreEventUpdate
        <4>3. e.status = s /\ e.challenge = c
          BY <2>1
        <4> QED BY <4>1, <4>2, <4>3 DEF ChallengeOf
      <3>2. a \in replies'
        BY <2>1
      <3> QED BY <2>1, <3>1, <3>2 DEF Consented
    <2>6. \A j \in IntentIds :
            /\ intents'[j] = intents[j] \/ Kept(j, intents'[j], Heard')
            /\ Advances(j)
      BY <1>t, <2>1, <2>4, OneIntent DEF Kept, FromCore
    <2>7. Carries(AfterResponse(id, i, d), Heard', replies')
      BY <2>4, <2>5, AfterResponseCarries
    <2>8. \A g \in Handlers :
            calls'[g] = calls[g] \/ Carries(calls'[g], Heard', replies')
      BY <2>1, <2>7 DEF Resume
    <2>9. Owes(id, d, [state |-> "settled", snap |-> i], Heard', replies')
      BY <2>4, <2>5 DEF Owes
    <2>10. ASSUME NEW j \in IntentIds, NEW dd \in Decisions
           PROVE  \/ promises'[j][dd] = promises[j][dd]
                  \/ Owes(j, dd, promises'[j][dd], Heard', replies')
      <3>1. \/ promises'[j][dd] = promises[j][dd]
            \/ /\ j = id /\ dd = d
               /\ promises'[j][dd] = [state |-> "settled", snap |-> i]
        BY <1>t, <2>1 DEF TypeOK
      <3> QED BY <2>9, <3>1
    <2> QED BY <2>1, <2>6, <2>8, <2>10 DEF SaidMeanwhile, EvidenceStep
  <1>12. ASSUME NEW id \in IntentIds, NEW d \in Decisions,
                ChallengeCallFails(id, d) \/ ForgetResponse(id, d)
         PROVE  SaidBefore
    <2>1. UNCHANGED <<store, receipts>>
      BY <1>12 DEF ChallengeCallFails, ForgetResponse
    <2>2. \A g \in Handlers :
            calls'[g] = calls[g] \/ Carries(calls'[g], Heard, replies)
      BY <1>12, IdleCarries DEF ChallengeCallFails, ForgetResponse, Resume
    <2>3. ASSUME NEW j \in IntentIds, NEW dd \in Decisions
          PROVE  \/ promises'[j][dd] = promises[j][dd]
                 \/ Owes(j, dd, promises'[j][dd], Heard, replies)
      <3>1. promises'[j][dd] \in {promises[j][dd], Rejected, NoPromise}
        BY <1>t, <1>12 DEF ChallengeCallFails, ForgetResponse, TypeOK
      <3> QED BY <3>1 DEF Owes, Rejected, NoPromise
    <2> QED BY <2>1, <2>2, <2>3, SameStoreStep DEF SaidBefore, EvidenceStep, store, external
  <1>14. ASSUME NEW h \in Handlers, FinishConsent(h)
         PROVE  SaidBefore
    <2> DEFINE c == calls[h]
               r == <<c.id, ChallengeOf(c.snap)>>
    <2>1. /\ c.op = "consent" /\ c.id \in IntentIds /\ c.snap \in Intents
          /\ UNCHANGED <<store, promises, external, notified>>
          /\ calls' = [calls EXCEPT ![h] = Idle]
      BY <1>14, <1>t, CallShape DEF FinishConsent
    <2>2. \/ r[2] # None /\ receipts' = receipts \cup {r}
          \/ receipts' = receipts
      BY <1>14 DEF FinishConsent
    <2>4. Receipted(r, replies)
      BY <2>1 DEF Evidence, Carries, Receipted
    <2>5. \A g \in Handlers :
            calls'[g] = calls[g] \/ Carries(calls'[g], Heard, replies)
      BY <1>t, <2>1, IdleCarries, OneCall
    <2> HIDE DEF r, c
    <2> QED BY <2>1, <2>2, <2>4, <2>5, SameStoreStep
            DEF SaidBefore, EvidenceStep, store, external
  <1>15. ASSUME NEW e \in CoreEvents, CoreDecides(e)
         PROVE  SaidBefore
    BY <1>15, SameStoreStep DEF CoreDecides, SaidBefore, EvidenceStep, store
  <1>16. ASSUME Restart
         PROVE  SaidBefore
    <2>1. /\ intents' = NoIntents /\ calls' = AllIdle /\ promises' = NoResponses
          /\ UNCHANGED <<external, receipts, notified>>
      BY <1>16 DEF Restart
    <2>2. \A j \in IntentIds : Kept(j, intents'[j], Heard) /\ Advances(j)
      BY <2>1 DEF NoIntents, Kept, Advances
    <2>3. \A g \in Handlers : Carries(calls'[g], Heard, replies)
      BY <2>1, IdleCarries DEF AllIdle
    <2>4. \A j \in IntentIds, dd \in Decisions :
            Owes(j, dd, promises'[j][dd], Heard, replies)
      BY <2>1 DEF NoResponses, NoPromise, Owes
    <2> QED BY <2>1, <2>2, <2>3, <2>4 DEF SaidBefore, EvidenceStep, external
  <1>17. CASE UNCHANGED vars
    BY <1>17, SameStoreStep DEF vars, store, SaidBefore, EvidenceStep
  <1> QED BY <1>1, <1>2, <1>3, <1>5, <1>6, <1>7, <1>8, <1>9, <1>10, <1>11,
             <1>12, <1>14, <1>15, <1>16, <1>17
          DEF Next, HandlerStep, PromiseStep

\* Nothing is stored, held or recorded before Core said it.
LEMMA InitEvidence == Init => Evidence
  <1> SUFFICES ASSUME Init PROVE Evidence
    OBVIOUS
  <1>1. \A id \in IntentIds : Kept(id, intents[id], Heard)
    BY DEF Init, NoIntents, Kept
  <1>2. \A h \in Handlers : Carries(calls[h], Heard, replies)
    BY IdleCarries DEF Init, AllIdle
  <1>3. \A id \in IntentIds, d \in Decisions :
          Owes(id, d, promises[id][d], Heard, replies)
    BY DEF Init, NoResponses, NoPromise, Owes
  <1> QED BY <1>1, <1>2, <1>3 DEF Init, Evidence

\* In every reachable state what is stored, held or recorded rests on what Core said.
THEOREM EvidenceHolds == Spec => []Evidence
  <1>1. ASSUME IInv, Evidence, [Next]_vars PROVE Evidence'
    <2>1. Heard \subseteq Heard' /\ replies \subseteq replies'
      BY <1>1, HeardGrows
    <2>2. SaidBefore \/ SaidMeanwhile
      BY <1>1, NextEvidenceStep
    <2>3. CASE SaidBefore
      BY <1>1, <2>1, <2>3, EvidenceKept DEF SaidBefore
    <2>4. CASE SaidMeanwhile
      BY <1>1, <2>1, <2>4, EvidenceKept DEF SaidMeanwhile
    <2> QED BY <2>2, <2>3, <2>4
  <1> QED BY <1>1, InitEvidence, Invariance, PTL DEF Spec

\* However the updates of concurrent handlers overwrote each other, a status
\* is explained by the rest of the intent.
THEOREM Explaining == Spec => []StatusExplained
  <1>1. Evidence => StatusExplained
    BY DEF Evidence, StatusExplained, Kept, Live
  <1> QED BY <1>1, EvidenceHolds, PTL

-----------------------------------------------------------------------------
(* What left the gateway: statuses posted rest on events alone, and a       *)
(* response that waits, or was answered, was sent for the challenge of the   *)
(* snapshot it holds.                                                       *)

Posted(n, events) == \E e \in events : e.id = n[1] /\ e.status = n[2]

\* The handler tells the merchant what an event said.
TellsOf(c, events) == c.op = "webhook" => Posted(<<c.id, c.snap.status>>, events)

Asked(id, d, p, responses) ==
  p.state = "pending" => <<id, ChallengeOf(p.snap), d>> \in responses

Left ==
  /\ \A h \in Handlers : TellsOf(calls[h], coreEvents)
  /\ \A n \in notified : Posted(n, coreEvents)
  /\ \A id \in IntentIds, d \in Decisions :
       Asked(id, d, promises[id][d], answered)
  /\ \A a \in replies : <<a.id, a.asked, a.decision>> \in answered

LeftStep ==
  /\ \A h \in Handlers :
       calls'[h] = calls[h] \/ TellsOf(calls'[h], coreEvents')
  /\ \A n \in notified' : n \in notified \/ Posted(n, coreEvents')
  /\ \A id \in IntentIds, d \in Decisions :
       \/ promises'[id][d] = promises[id][d]
       \/ Asked(id, d, promises'[id][d], answered')
  /\ \A a \in replies' : a \in replies \/ <<a.id, a.asked, a.decision>> \in answered'

\* A step whose every addition is accounted for keeps the account.
LEMMA LeftKept ==
  ASSUME Left, LeftStep, [Next]_vars
  PROVE  Left'
  <1>1. coreEvents \subseteq coreEvents' /\ answered \subseteq answered'
    BY HeardGrows
  <1>2. \A n : Posted(n, coreEvents) => Posted(n, coreEvents')
    BY <1>1 DEF Posted
  <1>3. \A h \in Handlers : TellsOf(calls'[h], coreEvents')
    BY <1>2 DEF Left, LeftStep, TellsOf
  <1>4. \A n \in notified' : Posted(n, coreEvents')
    BY <1>2 DEF Left, LeftStep
  <1>5. \A id \in IntentIds, d \in Decisions :
          Asked(id, d, promises'[id][d], answered')
    BY <1>1 DEF Left, LeftStep, Asked
  <1>6. \A a \in replies' : <<a.id, a.asked, a.decision>> \in answered'
    BY <1>1 DEF Left, LeftStep
  <1> QED BY <1>3, <1>4, <1>5, <1>6 DEF Left

\* A handler that leaves the gateway's other operations tells nothing.
LEMMA OtherTells ==
  ASSUME NEW id, NEW i, NEW d, NEW E
  PROVE  /\ TellsOf(Idle, E) /\ TellsOf(Waiting("submit", id, i, d), E)
         /\ TellsOf(Waiting("challenge", id, i, d), E)
         /\ TellsOf(AfterResponse(id, i, d), E)
  BY DEF TellsOf, Idle, Waiting, AfterResponse

\* Handler h takes a new call.
LEMMA OneTells ==
  ASSUME TypeOK, NEW h \in Handlers, NEW c, calls' = [calls EXCEPT ![h] = c],
         TellsOf(c, coreEvents')
  PROVE  \A g \in Handlers :
           calls'[g] = calls[g] \/ TellsOf(calls'[g], coreEvents')
  BY DEF TypeOK

\* Whatever a step tells the merchant is what an event said, and whatever Core
\* answers was asked.
LEMMA NextLeftStep == IInv /\ Left /\ [Next]_vars => LeftStep
  <1> SUFFICES ASSUME IInv, Left, [Next]_vars PROVE LeftStep
    OBVIOUS
  <1>t. TypeOK
    BY DEF IInv
  <1>1. ASSUME NEW h \in Handlers, NEW q, NEW id, NEW i, NEW confirm \in BOOLEAN,
               Answer(h, q, id, i, confirm),
               UNCHANGED <<promises, replies, notified>>
        PROVE  LeftStep
    <2>1. CASE confirm
      <3>1. calls' = [calls EXCEPT ![h] = Waiting("submit", id, i, None)]
        BY <1>1, <2>1 DEF Answer, Submit
      <3> QED BY <1>1, <1>t, <3>1, OtherTells, OneTells DEF LeftStep
    <2>2. CASE ~confirm
      BY <1>1, <2>2 DEF Answer, LeftStep
    <2> QED BY <2>1, <2>2
  <1>2. ASSUME NEW h \in Handlers, NEW q \in Requests, NEW confirm \in BOOLEAN,
               \/ \E id \in IntentIds : CreateNew(h, q, id, confirm)
               \/ CreateExisting(h, q, confirm)
        PROVE  LeftStep
    <2>1. CASE CreateExisting(h, q, confirm)
      BY <1>1, <2>1 DEF CreateExisting
    <2>2. ASSUME NEW id \in IntentIds, CreateNew(h, q, id, confirm)
          PROVE  LeftStep
      BY <1>1, <2>2 DEF CreateNew
    <2> QED BY <1>2, <2>1, <2>2
  <1>3. ASSUME NEW h \in Handlers, NEW id \in IntentIds, Confirm(h, id)
        PROVE  LeftStep
    <2>1. calls' = [calls EXCEPT ![h] = Waiting("submit", id, intents[id], None)]
      BY <1>3 DEF Confirm, Submit
    <2> QED BY <1>3, <1>t, <2>1, OtherTells, OneTells DEF Confirm, LeftStep
  <1>4. ASSUME NEW h \in Handlers, calls' = [calls EXCEPT ![h] = Idle],
               UNCHANGED <<promises, replies>>,
               \A n \in notified' : n \in notified \/ Posted(n, coreEvents')
        PROVE  LeftStep
    BY <1>4, <1>t, OtherTells, OneTells DEF LeftStep
  <1>5. ASSUME NEW h \in Handlers, HandlerStep(h)
        PROVE  LeftStep
    <2>1. ASSUME NEW outcome, FinishWebhook(h, outcome)
          PROVE  \A n \in notified' : n \in notified \/ Posted(n, coreEvents')
      <3>1. Posted(<<calls[h].id, calls[h].snap.status>>, coreEvents)
        BY <2>1 DEF FinishWebhook, Left, TellsOf
      <3> QED BY <2>1, <3>1 DEF FinishWebhook, external
    <2> QED BY <1>4, <1>5, <2>1
            DEF HandlerStep, CoreAnswers, CoreAcknowledges, CoreCallFails,
                EndSubmission, FinishWebhook, AbortWebhook, FinishConsent, external
  <1>6. ASSUME NEW h \in Handlers, NEW e \in coreEvents, ReceiveCoreEvent(h, e)
        PROVE  LeftStep
    <2> DEFINE i == AppliedCoreEvent(intents[e.id], e)
               c == Waiting("webhook", e.id, i, None)
    <2>1. e.id \in Live /\ intents[e.id] \in Intents /\ e \in CoreEvents
      BY <1>6, <1>t, LiveVersion DEF ReceiveCoreEvent, IInv, TypeOK
    <2>2. i.status = e.status
      BY <2>1, CoreEventUpdate
    <2>3. /\ calls' = [calls EXCEPT ![h] = c]
          /\ UNCHANGED <<promises, coreEvents, replies, notified>>
      BY <1>6 DEF ReceiveCoreEvent, external
    <2>4. TellsOf(c, coreEvents')
      BY <2>2, <2>3 DEF TellsOf, Waiting, Posted
    <2> HIDE DEF i, c
    <2> QED BY <1>t, <2>3, <2>4, OneTells DEF LeftStep
  <1>7. ASSUME NEW h \in Handlers, NEW id \in IntentIds, NEW d \in Decisions,
               RespondToChallenge(h, id, d)
        PROVE  LeftStep
    <2> DEFINE p == [state |-> "pending", snap |-> intents[id]]
    <2>1. UNCHANGED <<coreEvents, replies, notified>>
      BY <1>7 DEF RespondToChallenge
    <2>2. \/ calls' = [calls EXCEPT ![h] = Waiting("challenge", id, None, d)]
          \/ calls' = [calls EXCEPT ![h] =
                         AfterResponse(id, promises[id][d].snap, d)]
      BY <1>7 DEF RespondToChallenge
    <2>3. \A g \in Handlers :
            calls'[g] = calls[g] \/ TellsOf(calls'[g], coreEvents')
      BY <1>t, <2>2, OtherTells, OneTells
    <2>4. \/ promises' = promises
          \/ /\ promises' = [promises EXCEPT ![id][d] = p]
             /\ <<id, ChallengeOf(intents[id]), d>> \in answered'
      BY <1>7 DEF RespondToChallenge
    <2>5. ASSUME NEW j \in IntentIds, NEW dd \in Decisions
          PROVE  \/ promises'[j][dd] = promises[j][dd]
                 \/ Asked(j, dd, promises'[j][dd], answered')
      <3>1. p.snap = intents[id]
        OBVIOUS
      <3> HIDE DEF p
      <3>2. \/ promises'[j][dd] = promises[j][dd]
            \/ /\ j = id /\ dd = d /\ promises'[j][dd] = p
               /\ <<id, ChallengeOf(intents[id]), d>> \in answered'
        BY <1>t, <2>4 DEF TypeOK
      <3> QED BY <3>1, <3>2 DEF Asked
    <2> QED BY <2>1, <2>3, <2>5 DEF LeftStep
  <1>8. ASSUME NEW id \in IntentIds, NEW d \in Decisions,
               NEW s \in CoreStatuses, NEW c \in Challenges \cup {None},
               CoreAnswersChallenge(id, d, s, c)
        PROVE  LeftStep
    <2>1. PICK a \in Replies, i \in Intents :
            /\ a.id = id /\ a.decision = d
            /\ a.asked = ChallengeOf(promises[id][d].snap)
            /\ replies' = replies \cup {a}
            /\ promises[id][d].state = "pending"
            /\ promises' = [promises EXCEPT ![id][d] =
                              [state |-> "settled", snap |-> i]]
            /\ Resume(id, d, AfterResponse(id, i, d))
            /\ UNCHANGED <<answered, notified>>
      BY <1>8, <1>t, ReplyUpdate
    <2>2. <<a.id, a.asked, a.decision>> \in answered'
      BY <2>1 DEF Left, Asked
    <2>3. \A g \in Handlers :
            calls'[g] = calls[g] \/ TellsOf(calls'[g], coreEvents')
      BY <2>1, OtherTells DEF Resume
    <2>4. ASSUME NEW j \in IntentIds, NEW dd \in Decisions
          PROVE  \/ promises'[j][dd] = promises[j][dd]
                 \/ Asked(j, dd, promises'[j][dd], answered')
      <3>1. \/ promises'[j][dd] = promises[j][dd]
            \/ promises'[j][dd] = [state |-> "settled", snap |-> i]
        BY <1>t, <2>1 DEF TypeOK
      <3> QED BY <3>1 DEF Asked
    <2> QED BY <2>1, <2>2, <2>3, <2>4 DEF LeftStep
  <1>9. ASSUME NEW id \in IntentIds, NEW d \in Decisions,
               ChallengeCallFails(id, d) \/ ForgetResponse(id, d)
        PROVE  LeftStep
    <2>1. UNCHANGED <<replies, notified>>
      BY <1>9 DEF ChallengeCallFails, ForgetResponse, external
    <2>2. \A g \in Handlers :
            calls'[g] = calls[g] \/ TellsOf(calls'[g], coreEvents')
      BY <1>9, OtherTells DEF ChallengeCallFails, ForgetResponse, Resume
    <2>3. ASSUME NEW j \in IntentIds, NEW dd \in Decisions
          PROVE  \/ promises'[j][dd] = promises[j][dd]
                 \/ Asked(j, dd, promises'[j][dd], answered')
      <3>1. promises'[j][dd] \in {promises[j][dd], Rejected, NoPromise}
        BY <1>t, <1>9 DEF ChallengeCallFails, ForgetResponse, TypeOK
      <3> QED BY <3>1 DEF Asked, Rejected, NoPromise
    <2> QED BY <2>1, <2>2, <2>3 DEF LeftStep
  <1>10. ASSUME NEW e \in CoreEvents, CoreDecides(e)
         PROVE  LeftStep
    BY <1>10 DEF CoreDecides, LeftStep
  <1>11. CASE Restart
    <2>1. /\ calls' = AllIdle /\ promises' = NoResponses
          /\ UNCHANGED <<replies, notified>>
      BY <1>11 DEF Restart, external
    <2>2. \A g \in Handlers : TellsOf(calls'[g], coreEvents')
      BY <2>1, OtherTells DEF AllIdle
    <2>3. \A j \in IntentIds, dd \in Decisions :
            Asked(j, dd, promises'[j][dd], answered')
      BY <2>1 DEF NoResponses, NoPromise, Asked
    <2> QED BY <2>1, <2>2, <2>3 DEF LeftStep
  <1>12. CASE UNCHANGED vars
    BY <1>12 DEF vars, external, LeftStep
  <1> QED BY <1>2, <1>3, <1>5, <1>6, <1>7, <1>8, <1>9, <1>10, <1>11, <1>12
          DEF Next, PromiseStep

\* In every reachable state the account of what left the gateway is kept.
THEOREM LeftHolds == Spec => []Left
  <1>1. Init => Left
    BY DEF Init, AllIdle, Idle, NoResponses, NoPromise, Left, TellsOf, Asked
  <1>2. IInv /\ Left /\ [Next]_vars => Left'
    BY NextLeftStep, LeftKept
  <1> QED BY <1>1, <1>2, Invariance, PTL DEF Spec

\* A stored decision and a completion are what Core said, in an event or in reply
\* to a challenge response, a status posted to the merchant is that of an event, and
\* a consent receipt is for the challenge that Core named in reply to an approval of
\* this intent that was sent to it and that it did not fail.
THEOREM Backing == Spec => []NothingInvented
  <1>1. ASSUME TypeOK, Evidence, Left PROVE NothingInvented
    <2>0. \A e \in Heard : \/ e \in coreEvents
                           \/ \E a \in replies : a.id = e.id /\ a.status = e.status
      BY DEF Heard, Spoken
    <2>1. ASSUME NEW id \in Live
          PROVE  /\ intents[id].result # None =>
                      SaidByCore(id, intents[id].result.status)
                 /\ intents[id].status = "completed" =>
                      SaidByCore(id, "completed")
      <3>1. Told(id, intents[id], Heard)
        BY <1>1, LiveTold
      <3>2. \A e \in Heard : SaidByCore(e.id, e.status)
        BY <2>0 DEF SaidByCore, SaidInEvent
      <3> QED BY <3>1, <3>2 DEF Told
    <2>2. \A n \in notified : SaidInEvent(n[1], n[2])
      BY <1>1 DEF Left, Posted, SaidInEvent
    <2>3. ASSUME NEW r \in receipts
          PROVE  \E a \in replies : Approval(a, r[1]) /\ a.challenge = r[2]
      <3>1. PICK a \in replies : /\ a.id = r[1] /\ a.decision = "approve"
                                 /\ a.status # "failed" /\ a.challenge = r[2]
        BY <1>1 DEF Evidence, Receipted, Consented
      <3>2. <<a.id, a.asked, a.decision>> \in answered
        BY <1>1 DEF Left
      <3> QED BY <3>1, <3>2 DEF Approval
    <2> QED BY <2>1, <2>2, <2>3 DEF NothingInvented
  <1>2. IInv => TypeOK
    BY DEF IInv
  <1> QED BY <1>1, <1>2, Invariance, EvidenceHolds, LeftHolds, PTL

\* No late write of a handler that read the intent earlier takes it back to
\* waiting for its first confirmation.
THEOREM Onward == Spec => NeverUnsubmitted
  <1>1. IInv /\ Evidence /\ [Next]_vars =>
          [\A id \in IntentIds :
             /\ intents[id] # None /\ intents'[id] # None
             /\ intents[id].status # "requires_confirmation"
             => intents'[id].status # "requires_confirmation"]_vars
    <2> SUFFICES ASSUME SaidBefore \/ SaidMeanwhile, NEW id \in IntentIds,
                        intents[id] # None, intents'[id] # None,
                        intents[id].status # "requires_confirmation"
                 PROVE  intents'[id].status # "requires_confirmation"
      BY NextEvidenceStep
    <2> QED BY DEF SaidBefore, SaidMeanwhile, EvidenceStep, Advances
  <1> QED BY <1>1, Invariance, EvidenceHolds, PTL DEF Spec, NeverUnsubmitted
=============================================================================
