------------------------- MODULE ServiceRequests_proofs -------------------------
(***************************************************************************)
(* Proofs about ServiceRequests, for every value of its constants.         *)
(*                                                                         *)
(* What was accepted is remembered until its deadline: the second in which *)
(* its timestamp, or nearly so in the case of a proof, is not fresh any    *)
(* more.  From this memory it follows that a signed request is accepted    *)
(* once, and a proof a second time only at the end of its freshness.  Then *)
(* what a handler read of tokens and consents, what Core is told of        *)
(* events, the pace of the rate limit, and the types of the rest.          *)
(***************************************************************************)
EXTENDS ServiceRequests, WellFoundedInduction, TLAPS

Deadline(kind, q) ==
  IF kind = "signature" THEN q.ts + Tolerance + 1 ELSE q.ts + ProofTolerance - Ahead

Types ==
  /\ now \in Nat
  /\ \A e \in nonces : e.until \in Nat
  /\ calls \in [Handlers -> Calls]
  /\ wire \in SUBSET RequestRecords
  /\ accepted \in SUBSET (Keys \X RequestRecords)

\* Requests are not from further in the future than clocks allow.
Timely ==
  /\ \A q \in wire : q.ts <= now + Ahead
  /\ \A h \in Handlers :
       calls[h].do # "idle" => calls[h].request # None /\ calls[h].request.ts <= now + Ahead

Kept ==
  \A a \in accepted :
    \/ Deadline(a[1][1], a[2]) <= now
    \/ \E e \in nonces : e.key = a[1] /\ e.until >= Deadline(a[1][1], a[2])

AgainExplained ==
  \A r \in again :
    /\ r.key[1] # "signature"
    /\ r.at + Ahead >= r.request.ts + ProofTolerance

IInv == Types /\ Timely /\ Kept /\ AgainExplained

\* Pruning takes away what has expired, and more.
LEMMA PruneLive ==
  ASSUME NEW cache, NEW max
  PROVE  Prune(cache, max) \subseteq Live(cache)
  BY DEF Prune

\* When a nonce or a proof is met in time to be remembered until its deadline,
\* all that was accepted still is; and it was accepted before only if its
\* deadline is over.
LEMMA RecordKeeps ==
  ASSUME Types, Kept, AgainExplained,
         NEW kind \in {"signature", "proof"}, NEW q \in RequestRecords,
         NEW ttl \in Nat, NEW max, NEW key, key \in Keys, key[1] = kind,
         now + ttl >= Deadline(kind, q),
         kind = "signature" => now < Deadline(kind, q),
         Record(key, ttl, max, q), now' = now
  PROVE  /\ \A e \in nonces' : e.until \in Nat
         /\ accepted' \in SUBSET (Keys \X RequestRecords)
         /\ Kept'
         /\ AgainExplained'
<1> DEFINE kept == Prune(nonces, max)
           lost == Lost(nonces, kept)
           before == {a \in accepted : a[1] \notin lost}
           new == IF Remembered(key, max) THEN {} ELSE {<<key, q>>}
           entry == [key |-> key, until |-> now + ttl, place |-> NextPlace(kept)]
<1>1. kept \subseteq Live(nonces) /\ Live(nonces) \subseteq nonces
  BY PruneLive DEF Live
<1>2. nonces' = IF Remembered(key, max) THEN kept ELSE kept \cup {entry}
  BY DEF Record, Meet
<1>3. /\ accepted' = before \cup new
      /\ again' = again \cup {[key |-> key, request |-> q, at |-> now] : a \in before \cap new}
  BY DEF Record
<1>4. now + ttl \in Nat /\ entry.until = now + ttl /\ entry.key = key
  BY DEF Types
<1>5. \A e \in nonces' : e.until \in Nat
  BY <1>1, <1>2, <1>4 DEF Types
<1>6. accepted' \in SUBSET (Keys \X RequestRecords)
  BY <1>3 DEF Types
<1>7. \A a \in before : \/ Deadline(a[1][1], a[2]) <= now
                        \/ \E e \in kept : e.key = a[1] /\ e.until >= Deadline(a[1][1], a[2])
  <2> SUFFICES ASSUME NEW a \in before, ~(Deadline(a[1][1], a[2]) <= now)
               PROVE  \E e \in kept : e.key = a[1] /\ e.until >= Deadline(a[1][1], a[2])
    OBVIOUS
  <2>1. PICK e \in nonces : e.key = a[1] /\ e.until >= Deadline(a[1][1], a[2])
    BY DEF Kept
  <2>2. Deadline(a[1][1], a[2]) \in Int
    <3>1. a[2] \in RequestRecords
      BY DEF Types
    <3>2. a[2].ts \in Nat
      BY <3>1 DEF RequestRecords
    <3> QED
      BY <3>2, GuardsAssumption DEF Deadline
  <2>3. e \in Live(nonces)
    BY <2>1, <2>2 DEF Types, Live
  <2>4. e \in kept
    BY <2>1, <2>3 DEF Lost
  <2> QED
    BY <2>1, <2>4
<1>8. Kept'
  <2> SUFFICES ASSUME NEW a \in accepted'
               PROVE  \/ Deadline(a[1][1], a[2]) <= now
                      \/ \E e \in nonces' : e.key = a[1] /\ e.until >= Deadline(a[1][1], a[2])
    BY DEF Kept, Deadline
  <2>1. CASE a \in before
    BY <1>2, <1>7, <2>1
  <2>2. CASE a \in new
    <3>1. a = <<key, q>> /\ ~Remembered(key, max)
      BY <2>2
    <3>2. entry \in nonces'
      BY <1>2, <3>1
    <3> QED
      BY <1>4, <3>1, <3>2
  <2> QED
    BY <1>3, <2>1, <2>2
<1>9. AgainExplained'
  <2> SUFFICES ASSUME NEW r \in again', r \notin again
               PROVE  r.key[1] # "signature" /\ r.at + Ahead >= r.request.ts + ProofTolerance
    BY DEF AgainExplained
  <2>1. /\ r = [key |-> key, request |-> q, at |-> now]
        /\ <<key, q>> \in before /\ ~Remembered(key, max)
    BY <1>3
  <2>2. ~\E e \in kept : e.key = key
    BY <2>1 DEF Remembered
  <2>3. Deadline(kind, q) <= now
    BY <1>7, <2>1, <2>2
  <2>4. q.ts \in Nat
    BY DEF RequestRecords
  <2> QED
    BY <2>1, <2>3, <2>4, GuardsAssumption DEF Deadline, Types
<1> QED
  BY <1>5, <1>6, <1>8, <1>9

-----------------------------------------------------------------------------
(* The steps, by what they do to the memory.                               *)

\* At the start nothing was accepted.
LEMMA InitMemory == Init => IInv
<1> SUFFICES ASSUME Init PROVE IInv
  OBVIOUS
<1>1. Idle \in Calls /\ Idle.do = "idle"
  BY DEF Idle, Calls, Steps
<1>2. Types
  BY <1>1 DEF Init, GuardsInit, Types
<1>3. Timely
  BY <1>1 DEF Init, Timely
<1>4. Kept /\ AgainExplained
  BY DEF Init, Kept, AgainExplained
<1> QED
  BY <1>2, <1>3, <1>4 DEF IInv

\* A request that is served moves to another step, or is answered.
LEMMA Moved ==
  ASSUME Types, Timely, NEW h \in Handlers, ~Doing(h, "idle"),
         NEW step \in Steps, Goto(h, step) \/ Answer(h), UNCHANGED <<now, wire>>
  PROVE  calls' \in [Handlers -> Calls] /\ Timely'
<1>1. Idle \in Calls /\ Idle.do = "idle"
  BY DEF Idle, Calls, Steps
<1>2. CASE Answer(h)
  <2>1. calls' = [calls EXCEPT ![h] = Idle]
    BY <1>2 DEF Answer
  <2>2. calls' \in [Handlers -> Calls]
    BY <1>1, <2>1 DEF Types
  <2>3. \A k \in Handlers : calls'[k].do # "idle" => calls'[k] = calls[k]
    BY <1>1, <2>1 DEF Types
  <2> QED
    BY <2>2, <2>3 DEF Timely
<1>3. CASE Goto(h, step)
  <2>1. calls' = [calls EXCEPT ![h].do = step]
    BY <1>3 DEF Goto
  <2>2. calls[h] \in Calls /\ [calls[h] EXCEPT !.do = step] \in Calls
    BY DEF Types, Calls
  <2>3. calls' \in [Handlers -> Calls]
    BY <2>1, <2>2 DEF Types
  <2>4. \A k \in Handlers : calls'[k].request = calls[k].request
    BY <2>1, <2>2 DEF Types, Calls
  <2>5. \A k \in Handlers : calls'[k].do # "idle" => calls[k].do # "idle"
    BY <2>1 DEF Types, Doing
  <2> QED
    BY <2>3, <2>4, <2>5 DEF Timely
<1> QED
  BY <1>2, <1>3

\* A step that neither meets a nonce nor takes time.
LEMMA NothingMet ==
  ASSUME IInv, UNCHANGED <<now, nonces, seen>>,
         calls' \in [Handlers -> Calls], wire' \in SUBSET RequestRecords, Timely'
  PROVE  IInv'
<1>1. Types'
  BY DEF IInv, Types, seen
<1>2. Kept' /\ AgainExplained'
  BY DEF IInv, Kept, AgainExplained, Deadline, seen
<1> QED
  BY <1>1, <1>2 DEF IInv

\* A handler that moves on without accepting anything preserves the memory.
LEMMA KeepMemory ==
  ASSUME IInv, NEW h \in Handlers, ~Doing(h, "idle"), NEW step \in Steps,
         Goto(h, step) \/ Answer(h), UNCHANGED <<now, nonces, seen, wire>>
  PROVE  IInv'
<1>1. calls' \in [Handlers -> Calls] /\ Timely'
  BY Moved DEF IInv
<1>2. wire' \in SUBSET RequestRecords
  BY DEF IInv, Types
<1> QED
  BY <1>1, <1>2, NothingMet

\* The request that a handler serves.
LEMMA Served ==
  ASSUME IInv, NEW h \in Handlers, ~Doing(h, "idle")
  PROVE  /\ Request(h) \in RequestRecords
         /\ Request(h).ts \in Nat /\ Request(h).ts <= now + Ahead
         /\ Shape(h) \in Shapes /\ Shape(h).service \in Services
         /\ SignatureKey(Request(h)) \in Keys /\ ProofKey(Request(h)) \in Keys
<1>1. calls[h] \in Calls /\ Request(h) # None /\ Request(h).ts <= now + Ahead
  BY DEF IInv, Types, Timely, Doing, Request
<1>2. Request(h) \in RequestRecords
  BY <1>1 DEF Calls, Request
<1>3. Shape(h) \in Shapes /\ Request(h).ts \in Nat /\ Request(h).nonce \in Nonces
  BY <1>2 DEF RequestRecords, Shape
<1>4. Shape(h).service \in Services
  BY <1>3, RequestsAssumption DEF ShapeRecords
<1> QED
  BY <1>1, <1>2, <1>3, <1>4 DEF SignatureKey, ProofKey, Keys, Shape

\* Arrive preserves the memory of what was accepted.
LEMMA ArriveMemory ==
  ASSUME IInv, NEW h \in Handlers, NEW q \in RequestRecords,
         NEW step \in Steps, Arrive(h, q, step)
  PROVE  IInv'
<1>1. /\ wire' = wire \cup {q}
      /\ UNCHANGED <<now, nonces, seen>>
      /\ calls' = [calls EXCEPT ![h] = [Idle EXCEPT !.do = step, !.request = q,
                                                   !.held = InForce(q.shape)]]
  BY DEF Arrive, Begin, guards
<1>2. q.ts <= now + Ahead
  <2>1. CASE q \in wire
    BY <2>1 DEF IInv, Timely
  <2>2. CASE q.ts \in now - MaxDelay .. now + Ahead
    BY <2>2
  <2> QED
    BY <2>1, <2>2 DEF Arrive
<1>3. InForce(q.shape) \in SUBSET {"token", "consent"}
  BY DEF InForce
<1> DEFINE call == [Idle EXCEPT !.do = step, !.request = q, !.held = InForce(q.shape)]
<1>4. call \in Calls /\ call.request = q
  BY <1>3 DEF Idle, Calls
<1>5. calls' \in [Handlers -> Calls]
  BY <1>1, <1>4 DEF IInv, Types
<1>6. q # None
  BY RequestsAssumption
<1>7. Timely'
  BY <1>1, <1>2, <1>4, <1>6 DEF IInv, Types, Timely
<1>8. wire' \in SUBSET RequestRecords
  BY <1>1 DEF IInv, Types
<1> QED
  BY <1>1, <1>5, <1>7, <1>8, NothingMet

\* The proof is kept for as long as it is fresh, but for the client's clock.
LEMMA AuthenticateMemory ==
  ASSUME IInv, NEW h \in Handlers, Authenticate(h)
  PROVE  IInv'
<1> DEFINE q == Request(h)
           step == IF q.shape.token = None THEN "guard" ELSE "token"
<1>1. /\ ~Doing(h, "idle")
      /\ Goto(h, step) \/ Answer(h)
      /\ UNCHANGED <<now, wire>>
  BY DEF Authenticate, Doing
<1>2. step \in Steps
  BY DEF Steps
<1>3. calls' \in [Handlers -> Calls] /\ Timely'
  <2> HIDE DEF step
  <2> QED
    BY <1>1, <1>2, Moved DEF IInv
<1>4. CASE UNCHANGED <<nonces, seen>>
  <2>1. wire' \in SUBSET RequestRecords
    BY <1>1 DEF IInv, Types
  <2> QED
    BY <1>1, <1>3, <1>4, <2>1, NothingMet
<1>5. CASE Record(ProofKey(q), ProofTolerance, MaxProofs, q)
  <2>1. /\ q \in RequestRecords /\ q.ts \in Nat /\ q.ts <= now + Ahead
        /\ ProofKey(q) \in Keys
    BY <1>1, Served
  <2>2. ProofKey(q)[1] = "proof"
    BY DEF ProofKey
  <2>3. now + ProofTolerance >= Deadline("proof", q)
    BY <2>1, GuardsAssumption DEF Deadline, IInv, Types
  <2>4. /\ \A e \in nonces' : e.until \in Nat
        /\ accepted' \in SUBSET (Keys \X RequestRecords)
        /\ Kept' /\ AgainExplained'
    <3> HIDE DEF q
    <3> QED
      BY <1>1, <1>5, <2>1, <2>2, <2>3, RecordKeeps, GuardsAssumption DEF IInv
  <2> QED
    BY <1>1, <1>3, <2>4 DEF IInv, Types
<1> QED
  BY <1>4, <1>5 DEF Authenticate

\* The nonce of a signature outlives the freshness of its timestamp.
LEMMA GuardMemory ==
  ASSUME IInv, NEW h \in Handlers, NEW op, NEW next \in Steps,
         \/ SignedRequest(h, op, next)
         \/ SignedMutation(h, op, next)
         \/ FinancialRequest(h, op, next)
  PROVE  IInv'
<1> DEFINE q == Request(h)
<1>1. /\ ~Doing(h, "idle")
      /\ Goto(h, next) \/ Answer(h)
      /\ UNCHANGED <<now, wire>>
  BY DEF SignedRequest, SignedMutation, FinancialRequest, Guard, At, Doing
<1>2. calls' \in [Handlers -> Calls] /\ Timely'
  BY <1>1, Moved DEF IInv
<1>3. \/ UNCHANGED <<nonces, seen>>
      \/ SignatureHolds(q) /\ Record(SignatureKey(q), NonceTtl, MaxNonces, q)
  BY DEF SignedRequest, SignedMutation, FinancialRequest, Guard
<1>4. CASE UNCHANGED <<nonces, seen>>
  <2>1. wire' \in SUBSET RequestRecords
    BY <1>1 DEF IInv, Types
  <2> QED
    BY <1>1, <1>2, <1>4, <2>1, NothingMet
<1>5. CASE SignatureHolds(q) /\ Record(SignatureKey(q), NonceTtl, MaxNonces, q)
  <2>1. /\ q \in RequestRecords /\ q.ts \in Nat /\ q.ts <= now + Ahead
        /\ SignatureKey(q) \in Keys
    BY <1>1, Served
  <2>2. SignatureKey(q)[1] = "signature"
    BY DEF SignatureKey
  <2>3. now - q.ts <= Tolerance
    BY <1>5 DEF SignatureHolds, Fresh
  <2>4. /\ now + NonceTtl >= Deadline("signature", q)
        /\ now < Deadline("signature", q)
    BY <2>1, <2>3, GuardsAssumption DEF Deadline, IInv, Types
  <2>5. /\ \A e \in nonces' : e.until \in Nat
        /\ accepted' \in SUBSET (Keys \X RequestRecords)
        /\ Kept' /\ AgainExplained'
    <3> HIDE DEF q
    <3> QED
      BY <1>1, <1>5, <2>1, <2>2, <2>4, RecordKeeps, GuardsAssumption DEF IInv
  <2> QED
    BY <1>1, <1>2, <2>5 DEF IInv, Types
<1> QED
  BY <1>3, <1>4, <1>5

\* A restart loses what is remembered, and the history of it.
LEMMA RestartMemory == IInv /\ Restart => IInv'
<1> SUFFICES ASSUME IInv, Restart PROVE IInv'
  OBVIOUS
<1>1. Idle \in Calls /\ Idle.do = "idle"
  BY DEF Idle, Calls, Steps
<1>2. /\ now' = now /\ nonces' = {} /\ wire' = wire /\ again' = again
      /\ calls' = [h \in Handlers |-> Idle]
      /\ accepted' = {a \in accepted : a[1] \notin Lost(nonces, {})}
  BY DEF Restart, ForgetAll
<1>3. Types' /\ Timely'
  BY <1>1, <1>2 DEF IInv, Types, Timely
<1>4. Kept'
  <2> SUFFICES ASSUME NEW a \in accepted'
               PROVE  Deadline(a[1][1], a[2]) <= now
    BY <1>2 DEF Kept, Deadline
  <2>1. a \in accepted /\ ~\E e \in Live(nonces) : e.key = a[1]
    BY <1>2 DEF Lost
  <2>2. \A e \in nonces : e.key = a[1] => e.until <= now
    BY <2>1 DEF Live, IInv, Types
  <2>3. Deadline(a[1][1], a[2]) \in Int
    <3>1. a[2].ts \in Nat
      BY <2>1 DEF IInv, Types, RequestRecords
    <3> QED
      BY <3>1, GuardsAssumption DEF Deadline
  <2> QED
    BY <2>1, <2>2, <2>3 DEF IInv, Kept, Types
<1>5. AgainExplained'
  BY <1>2 DEF IInv, AgainExplained
<1> QED
  BY <1>3, <1>4, <1>5 DEF IInv

\* A tick forgets only what is past its deadline.
LEMMA TickMemory == IInv /\ Tick => IInv'
<1> SUFFICES ASSUME IInv, Tick PROVE IInv'
  OBVIOUS
<1>1. now' = now + 1 /\ UNCHANGED <<nonces, wire, calls, seen>>
  BY DEF Tick
<1>2. Types' /\ AgainExplained'
  BY <1>1 DEF IInv, Types, AgainExplained, seen
<1>3. Timely'
  <2>1. \A q \in RequestRecords : q.ts <= now + Ahead => q.ts <= now + 1 + Ahead
    BY GuardsAssumption DEF IInv, Types, RequestRecords
  <2>2. \A h \in Handlers : calls[h].request # None => calls[h].request \in RequestRecords
    BY DEF IInv, Types, Calls
  <2> QED
    BY <1>1, <2>1, <2>2 DEF IInv, Types, Timely
<1>4. Kept'
  <2> SUFFICES ASSUME NEW a \in accepted, Deadline(a[1][1], a[2]) <= now
               PROVE  Deadline(a[1][1], a[2]) <= now + 1
    BY <1>1 DEF IInv, Kept, Deadline, seen
  <2>1. Deadline(a[1][1], a[2]) \in Int
    <3>1. a[2].ts \in Nat
      BY DEF IInv, Types, RequestRecords
    <3> QED
      BY <3>1, GuardsAssumption DEF Deadline
  <2> QED
    BY <2>1 DEF IInv, Types
<1> QED
  BY <1>2, <1>3, <1>4 DEF IInv

\* What is in force while a request is served is in its history.
Sight ==
  \A h \in Handlers : Request(h) # None => InForce(Shape(h)) \subseteq calls[h].held

\* Requests that are being served see what comes into force.
LEMMA Witnessed ==
  ASSUME Types, Witness
  PROVE  /\ calls' \in [Handlers -> Calls]
         /\ \A h \in Handlers :
              /\ calls'[h].do = calls[h].do /\ calls'[h].request = calls[h].request
              /\ calls[h].held \subseteq calls'[h].held
         /\ Sight'
<1>1. PICK old :
        /\ old = calls
        /\ calls' = [h \in Handlers |->
                       IF old[h].request = None THEN old[h]
                       ELSE [old[h] EXCEPT !.held = @ \cup InForce(old[h].request.shape)']]
  BY DEF Witness
<1>2. ASSUME NEW h \in Handlers
      PROVE  /\ calls'[h] \in Calls
             /\ calls'[h].do = calls[h].do /\ calls'[h].request = calls[h].request
             /\ calls[h].held \subseteq calls'[h].held
             /\ old[h].request # None
                  => InForce(old[h].request.shape)' \subseteq calls'[h].held
  <2>1. old[h] \in Calls
    BY <1>1 DEF Types
  <2>2. InForce(old[h].request.shape)' \in SUBSET {"token", "consent"}
    BY DEF InForce
  <2> DEFINE seenNow == InForce(old[h].request.shape)'
  <2>3. calls'[h] = IF old[h].request = None THEN old[h]
                    ELSE [old[h] EXCEPT !.held = @ \cup seenNow]
    BY <1>1
  <2> HIDE DEF seenNow
  <2>4. /\ calls'[h] \in Calls
        /\ calls'[h].do = old[h].do /\ calls'[h].request = old[h].request
        /\ old[h].held \subseteq calls'[h].held
        /\ old[h].request # None => seenNow \subseteq calls'[h].held
    <3>1. seenNow \in SUBSET {"token", "consent"}
      BY <2>2 DEF seenNow
    <3> QED
      BY <2>1, <2>3, <3>1 DEF Calls
  <2> QED
    BY <1>1, <2>4 DEF seenNow
<1>3. calls' \in [Handlers -> Calls]
  BY <1>1, <1>2
<1>4. Sight'
  <2> SUFFICES ASSUME NEW h \in Handlers, Request(h)' # None
               PROVE  InForce(Shape(h))' \subseteq calls'[h].held
    BY DEF Sight
  <2>1. Request(h)' = old[h].request
    BY <1>1, <1>2 DEF Request
  <2>2. Shape(h)' = old[h].request.shape
    BY <2>1 DEF Shape
  <2> QED
    BY <1>2, <2>1, <2>2 DEF InForce, OfItsToken, OfThePerson, Given
<1> QED
  BY <1>2, <1>3, <1>4

\* Consents change while requests are served, who see it.
LEMMA ChangeMemory ==
  IInv /\ (\/ \E c \in Consents, g \in Grants : GiveConsent(c, g)
           \/ \E c \in Consents : RevokeConsent(c)) => IInv'
<1> SUFFICES ASSUME IInv,
                    \/ \E c \in Consents, g \in Grants : GiveConsent(c, g)
                    \/ \E c \in Consents : RevokeConsent(c)
             PROVE  IInv'
  OBVIOUS
<1>1. UNCHANGED <<now, nonces, wire, seen>>
  BY DEF GiveConsent, RevokeConsent, Change, guards
<1>2. CASE UNCHANGED calls
  BY <1>1, <1>2, NothingMet DEF IInv, Types, Timely
<1>3. CASE Witness
  <2>1. /\ calls' \in [Handlers -> Calls]
        /\ \A h \in Handlers : calls'[h].do = calls[h].do /\ calls'[h].request = calls[h].request
    BY <1>3, Witnessed DEF IInv
  <2>2. Timely'
    BY <1>1, <2>1 DEF IInv, Timely
  <2>3. wire' \in SUBSET RequestRecords
    BY <1>1 DEF IInv, Types
  <2> QED
    BY <1>1, <2>1, <2>2, <2>3, NothingMet
<1> QED
  BY <1>2, <1>3 DEF GiveConsent, RevokeConsent

\* Serve preserves the memory of what was accepted.
LEMMA ServeMemory ==
  ASSUME IInv, NEW h \in Handlers, Serve(h)
  PROVE  IInv'
<1>1. CASE Authenticate(h)
  BY <1>1, AuthenticateMemory
<1>2. CASE ReadTokenConsent(h)
  BY <1>2, KeepMemory DEF ReadTokenConsent, Keep, Doing, Steps, guards
<1>3. CASE QueryBalances(h) \/ QueryMerchant(h) \/ ResolveIdentity(h)
  BY <1>3, GuardMemory DEF QueryBalances, QueryMerchant, ResolveIdentity, Steps
<1>4. CASE RegisterBusiness(h) \/ CreateProfile(h)
  BY <1>4, GuardMemory DEF RegisterBusiness, CreateProfile, Steps
<1>5. CASE Operate(h)
  BY <1>5, GuardMemory DEF Operate, Steps
<1>6. CASE Refuse(h) \/ ReadConsent(h) \/ CoreAnswers(h) \/ ProviderFails(h)
  BY <1>6, KeepMemory
     DEF Refuse, ReadConsent, CoreAnswers, ProviderFails, Keep, Doing, Steps, guards
<1>7. CASE \E w \in Words : ProviderExecutes(h, w) \/ ProviderAnswers(h, w)
  BY <1>7, KeepMemory DEF ProviderExecutes, ProviderAnswers, Doing, Steps, guards
<1> QED
  BY <1>1, <1>2, <1>3, <1>4, <1>5, <1>6, <1>7 DEF Serve

\* The memory of the guards and the history agree in every state.
THEOREM MemoryInvariant == Spec => []IInv
<1>1. IInv /\ [Next]_vars => IInv'
  <2> SUFFICES ASSUME IInv, [Next]_vars PROVE IInv'
    OBVIOUS
  <2>1. CASE \E h \in Handlers : Serve(h)
    BY <2>1, ServeMemory
  <2>2. CASE \E h \in Handlers, shape \in Shapes, n \in Nonces, ts \in 0 .. MaxTime + Ahead :
               LET q == [shape |-> shape, nonce |-> n, ts |-> ts] IN
               ArriveWithToken(h, q) \/ ArriveWithKey(h, q)
    <3>1. PICK h \in Handlers, shape \in Shapes, n \in Nonces, ts \in 0 .. MaxTime + Ahead :
            LET q == [shape |-> shape, nonce |-> n, ts |-> ts] IN
            ArriveWithToken(h, q) \/ ArriveWithKey(h, q)
      BY <2>2
    <3> DEFINE q == [shape |-> shape, nonce |-> n, ts |-> ts]
    <3>2. q \in RequestRecords
      BY DEF RequestRecords
    <3>3. Arrive(h, q, "proof") \/ Arrive(h, q, "guard")
      BY <3>1 DEF ArriveWithToken, ArriveWithKey
    <3> HIDE DEF q
    <3> QED
      BY <3>2, <3>3, ArriveMemory DEF Steps
  <2>3. CASE \E r \in References, w \in Words : ProviderSettles(r, w) \/ ProviderPushes(r, w)
    BY <2>3, NothingMet
       DEF ProviderSettles, ProviderPushes, guards, IInv, Types, Timely
  <2>4. CASE \/ \E c \in Consents : RevokeConsent(c)
             \/ \E c \in Consents, g \in Grants : GiveConsent(c, g)
    BY <2>4, ChangeMemory
  <2>5. CASE Tick
    BY <2>5, TickMemory
  <2>6. CASE Restart
    BY <2>6, RestartMemory
  <2>7. CASE UNCHANGED vars
    BY <2>7, NothingMet DEF vars, guards, seen, IInv, Types, Timely
  <2> QED
    BY <2>1, <2>2, <2>3, <2>4, <2>5, <2>6, <2>7 DEF Next
<1> QED
  BY <1>1, InitMemory, PTL DEF Spec

\* A signed request is accepted once, whatever the values of the constants, as
\* long as a nonce is kept for longer than its timestamp is fresh.
THEOREM SignedOnce == Spec => []AcceptedOnce
<1>1. IInv => AcceptedOnce
  BY DEF IInv, AgainExplained, AcceptedOnce
<1> QED
  BY <1>1, MemoryInvariant, PTL

\* A proof is accepted again only in the last second in which it is fresh.
THEOREM ProofOnce == Spec => []ProofOnceButAtTheEnd
<1>1. IInv => ProofOnceButAtTheEnd
  BY DEF IInv, AgainExplained, ProofOnceButAtTheEnd
<1> QED
  BY <1>1, MemoryInvariant, PTL

-----------------------------------------------------------------------------
(* Authority.  A handler that goes on has read what was in force when it   *)
(* was read, and this is in its history.                                   *)

TokenRead ==
  \A h \in Handlers :
    calls[h].do \in {"guard", "consent", "core", "provider", "response"}
      => (Shape(h).token # None => "token" \in calls[h].held)

ConsentRead ==
  \A h \in Handlers :
    calls[h].do \in {"core", "provider", "response"}
      => (Shape(h).op \in {"balance", "profile"} => "consent" \in calls[h].held)

ProvidersOperate ==
  \A h \in Handlers : calls[h].do \in {"provider", "response"} => Shape(h).op = "operate"

AInv ==
  /\ consents \in [Consents -> ConsentRecords \cup {None}]
  /\ Sight /\ TokenRead /\ ConsentRead /\ ProvidersOperate

\* A handler that moves has what its next step asks for.
LEMMA MovedAuthority ==
  ASSUME IInv, AInv, NEW h \in Handlers, ~Doing(h, "idle"), NEW step \in Steps,
         \/ /\ Goto(h, step)
            /\ step # "token" /\ Shape(h).token # None => "token" \in calls[h].held
            /\ step \in {"core", "provider", "response"} /\ Shape(h).op \in {"balance", "profile"}
                 => "consent" \in calls[h].held
            /\ step \in {"provider", "response"} => Shape(h).op = "operate"
         \/ Answer(h),
         UNCHANGED <<now, consents>>
  PROVE  AInv'
<1>1. Idle.do = "idle" /\ Idle.request = None
  BY DEF Idle
<1>2. calls \in [Handlers -> Calls]
  BY DEF IInv, Types
<1>3. \A k \in Handlers : k # h => calls'[k] = calls[k]
  BY <1>2 DEF Goto, Answer
<1>4. \/ calls'[h] = Idle
      \/ /\ calls'[h].do = step /\ calls'[h].request = Request(h)
         /\ calls'[h].held = calls[h].held
         /\ step # "token" /\ Shape(h).token # None => "token" \in calls[h].held
         /\ step \in {"core", "provider", "response"} /\ Shape(h).op \in {"balance", "profile"}
              => "consent" \in calls[h].held
         /\ step \in {"provider", "response"} => Shape(h).op = "operate"
  BY <1>2 DEF Goto, Answer, Calls, Request
<1>5. \A shape : InForce(shape)' = InForce(shape)
  BY DEF InForce, OfItsToken, OfThePerson, Given
<1>6. Sight'
  BY <1>1, <1>3, <1>4, <1>5 DEF AInv, Sight, Request, Shape
<1>7. TokenRead' /\ ConsentRead' /\ ProvidersOperate'
  BY <1>1, <1>3, <1>4 DEF AInv, TokenRead, ConsentRead, ProvidersOperate, Request, Shape
<1> QED
  BY <1>6, <1>7 DEF AInv

\* What a consent says stays as it is.
SameTerms(c, d) ==
  /\ c.environment = d.environment /\ c.subject = d.subject
  /\ c.alias = d.alias /\ c.scopes = d.scopes

\* What time and withdrawals do: nothing comes into force.
LEMMA NothingGiven ==
  ASSUME IInv, AInv, calls' = calls, now <= now', now' \in Nat,
         consents' \in [Consents -> ConsentRecords \cup {None}],
         \A c \in Consents :
           consents'[c] # None
             => /\ consents[c] # None
                /\ consents'[c].service = consents[c].service
                /\ SameTerms(consents'[c], consents[c])
                /\ consents'[c].until = consents[c].until
                /\ consents[c].revoked => consents'[c].revoked
  PROVE  AInv'
<1>1. \A service : Given(service)' \subseteq Given(service)
  <2> SUFFICES ASSUME NEW service, NEW c \in Given(service)'
               PROVE  c \in Given(service)
    OBVIOUS
  <2>1. /\ c \in Consents /\ consents'[c] # None /\ consents'[c].service = service
        /\ consents'[c].until > now' /\ ~consents'[c].revoked
    BY DEF Given
  <2>2. consents'[c] \in ConsentRecords
    BY <2>1
  <2>3. consents'[c].until \in Nat /\ now \in Nat
    BY <2>2 DEF ConsentRecords, IInv, Types
  <2>4. consents[c].until > now
    BY <2>1, <2>3
  <2> QED
    BY <2>1, <2>4 DEF Given
<1>2. \A service : \A c \in Given(service)' : SameTerms(consents'[c], consents[c])
  BY DEF Given
<1>3. \A shape : /\ OfItsToken(shape)' \subseteq OfItsToken(shape)
                 /\ OfThePerson(shape)' \subseteq OfThePerson(shape)
  BY <1>1, <1>2 DEF OfItsToken, OfThePerson, SameTerms
<1>4. Sight'
  BY <1>3 DEF AInv, Sight, Request, Shape, InForce
<1>5. TokenRead' /\ ConsentRead' /\ ProvidersOperate'
  BY DEF AInv, TokenRead, ConsentRead, ProvidersOperate, Request, Shape
<1> QED
  BY <1>4, <1>5 DEF AInv

\* Give preserves what is known of authority.
LEMMA GiveAuthority ==
  ASSUME IInv, AInv, NEW c \in Consents, NEW grant \in Grants, GiveConsent(c, grant)
  PROVE  AInv'
<1>1. consents' \in [Consents -> ConsentRecords \cup {None}]
  BY RequestsAssumption DEF AInv, GiveConsent
<1>2. /\ \A h \in Handlers :
           /\ calls'[h].do = calls[h].do /\ calls'[h].request = calls[h].request
           /\ calls[h].held \subseteq calls'[h].held
      /\ Sight'
  BY Witnessed DEF IInv, GiveConsent
<1>3. TokenRead' /\ ConsentRead' /\ ProvidersOperate'
  BY <1>2 DEF AInv, TokenRead, ConsentRead, ProvidersOperate, Request, Shape
<1> QED
  BY <1>1, <1>2, <1>3 DEF AInv

\* Arrive preserves what is known of authority.
LEMMA ArriveAuthority ==
  ASSUME IInv, AInv, NEW h \in Handlers, NEW q \in RequestRecords,
         ArriveWithToken(h, q) \/ ArriveWithKey(h, q)
  PROVE  AInv'
<1> DEFINE call(step) == [Idle EXCEPT !.do = step, !.request = q, !.held = InForce(q.shape)]
<1>1. PICK step \in {"proof", "guard"} :
        /\ calls' = [calls EXCEPT ![h] = call(step)]
        /\ step = "guard" => q.shape.token = None
        /\ UNCHANGED <<now, consents>>
  BY DEF ArriveWithToken, ArriveWithKey, Arrive, Begin, guards, registry
<1>2. calls \in [Handlers -> Calls]
  BY DEF IInv, Types
<1>3. \A k \in Handlers : k # h => calls'[k] = calls[k]
  BY <1>1, <1>2
<1>4. calls'[h].do = step /\ calls'[h].request = q /\ calls'[h].held = InForce(q.shape)
  <2> DEFINE inForce == InForce(q.shape)
  <2>1. calls'[h] = [Idle EXCEPT !.do = step, !.request = q, !.held = inForce]
    BY <1>1, <1>2
  <2> HIDE DEF inForce
  <2>2. calls'[h].do = step /\ calls'[h].request = q /\ calls'[h].held = inForce
    BY <2>1 DEF Idle
  <2> QED
    BY <2>2 DEF inForce
<1>5. \A shape : InForce(shape)' = InForce(shape)
  BY <1>1 DEF InForce, OfItsToken, OfThePerson, Given
<1>6. Sight'
  BY <1>3, <1>4, <1>5 DEF AInv, Sight, Request, Shape
<1>7. TokenRead' /\ ConsentRead' /\ ProvidersOperate'
  BY <1>1, <1>3, <1>4 DEF AInv, TokenRead, ConsentRead, ProvidersOperate, Request, Shape
<1> QED
  BY <1>1, <1>6, <1>7 DEF AInv

\* A consent that is found active is in force.
LEMMA ActiveIsInForce ==
  ASSUME IInv, AInv, NEW h \in Handlers, ~Doing(h, "idle")
  PROVE  /\ TokenConsentActive(Shape(h)) => "token" \in calls[h].held
         /\ /\ Shape(h).person # None
            /\ HasActiveConsent(Shape(h).service, Shape(h).person,
                                ScopesAskedFor(Shape(h).op), "live")
            => "consent" \in calls[h].held
<1>1. InForce(Shape(h)) \subseteq calls[h].held
  BY DEF IInv, Timely, AInv, Sight, Request, Doing
<1>2. \A c \in Consents : consents[c] # None => consents[c].until \in Nat /\ now \in Nat
  BY DEF AInv, ConsentRecords, IInv, Types
<1>3. \A c \in Consents : consents[c] # None /\ Status(c) = "active"
                        => c \in Given(consents[c].service)
  <2> SUFFICES ASSUME NEW c \in Consents, consents[c] # None, Status(c) = "active"
               PROVE  ~consents[c].revoked /\ consents[c].until > now
    BY DEF Given
  <2>1. ~consents[c].revoked /\ ~Expired(c)
    BY DEF Status
  <2> QED
    BY <1>2, <2>1 DEF Expired
<1>4. TokenConsentActive(Shape(h)) => "token" \in InForce(Shape(h))
  <2>1. Shape(h).token \in Consents \cup {None}
    BY Served, RequestsAssumption DEF ShapeRecords
  <2> QED
    BY <1>3, <2>1 DEF TokenConsentActive, InForce, OfItsToken
<1>5. Shape(h).person # None
      /\ HasActiveConsent(Shape(h).service, Shape(h).person, ScopesAskedFor(Shape(h).op), "live")
        => "consent" \in InForce(Shape(h))
  BY <1>3 DEF HasActiveConsent, Listed, InForce, OfThePerson
<1> QED
  BY <1>1, <1>4, <1>5

\* Serve preserves what is known of authority.
LEMMA ServeAuthority ==
  ASSUME IInv, AInv, NEW h \in Handlers, Serve(h)
  PROVE  AInv'
<1>1. CASE Authenticate(h)
  <2>1. \/ Goto(h, "guard") /\ Shape(h).token = None
        \/ Goto(h, "token")
        \/ Answer(h)
    BY <1>1 DEF Authenticate, Shape
  <2> QED
    BY <1>1, <2>1, MovedAuthority DEF Authenticate, Doing, Steps, registry
<1>2. CASE ReadTokenConsent(h)
  BY <1>2, MovedAuthority, ActiveIsInForce
     DEF ReadTokenConsent, Keep, Doing, Steps, registry, guards
<1>3. CASE QueryBalances(h) \/ CreateProfile(h)
  BY <1>3, MovedAuthority
     DEF QueryBalances, CreateProfile, SignedRequest, SignedMutation, At, Guard,
         Doing, Steps, registry, AInv, TokenRead
<1>4. CASE QueryMerchant(h) \/ ResolveIdentity(h) \/ RegisterBusiness(h)
  <2>1. /\ calls[h].do = "guard" /\ Shape(h).op \notin {"balance", "profile"}
        /\ Goto(h, "core") \/ Answer(h)
        /\ UNCHANGED <<now, consents>>
    BY <1>4 DEF QueryMerchant, ResolveIdentity, RegisterBusiness, SignedRequest,
                SignedMutation, At, Guard, Doing, registry
  <2> QED
    BY <2>1, MovedAuthority DEF Doing, Steps, AInv, TokenRead
<1>5. CASE Operate(h)
  <2>1. /\ calls[h].do = "guard" /\ Shape(h).op = "operate"
        /\ Goto(h, "provider") \/ Answer(h)
        /\ UNCHANGED <<now, consents>>
    BY <1>5 DEF Operate, FinancialRequest, At, Guard, Doing, registry
  <2> QED
    BY <2>1, MovedAuthority DEF Doing, Steps, AInv, TokenRead
<1>6. CASE ReadConsent(h)
  <2>1. /\ calls[h].do = "consent"
        /\ \/ Goto(h, "core") /\ "consent" \in calls[h].held
           \/ Answer(h)
        /\ UNCHANGED <<now, consents>>
    BY <1>6, ActiveIsInForce DEF ReadConsent, Keep, Doing, registry, guards
  <2> QED
    BY <2>1, MovedAuthority DEF Doing, Steps, AInv, TokenRead
<1>7. CASE Refuse(h) \/ CoreAnswers(h) \/ ProviderFails(h)
  BY <1>7, MovedAuthority
     DEF Refuse, CoreAnswers, ProviderFails, Keep, Doing, Steps, registry, guards
<1>8. CASE \E w \in Words : ProviderExecutes(h, w) \/ ProviderAnswers(h, w)
  <2>1. /\ \/ calls[h].do = "provider" /\ Goto(h, "response")
           \/ calls[h].do = "response" /\ Answer(h)
        /\ UNCHANGED <<now, consents>>
    BY <1>8 DEF ProviderExecutes, ProviderAnswers, Doing, registry, guards
  <2> QED
    BY <2>1, MovedAuthority DEF Doing, Steps, AInv, TokenRead, ConsentRead, ProvidersOperate
<1> QED
  BY <1>1, <1>2, <1>3, <1>4, <1>5, <1>6, <1>7, <1>8 DEF Serve

\* Every step preserves what is known of authority.
LEMMA NextAuthority == IInv /\ AInv /\ [Next]_vars => AInv'
<1> SUFFICES ASSUME IInv, AInv, [Next]_vars PROVE AInv'
  OBVIOUS
<1>1. CASE \E h \in Handlers : Serve(h)
  BY <1>1, ServeAuthority
<1>2. CASE \E h \in Handlers, shape \in Shapes, n \in Nonces, ts \in 0 .. MaxTime + Ahead :
             LET q == [shape |-> shape, nonce |-> n, ts |-> ts] IN
             ArriveWithToken(h, q) \/ ArriveWithKey(h, q)
  BY <1>2, ArriveAuthority DEF RequestRecords
<1>3. CASE \/ \E r \in References, w \in Words : ProviderSettles(r, w) \/ ProviderPushes(r, w)
           \/ UNCHANGED vars
  <2>1. UNCHANGED <<now, consents, calls>>
    BY <1>3 DEF ProviderSettles, ProviderPushes, vars, guards, registry
  <2> QED
    BY <2>1, NothingGiven DEF AInv, IInv, Types, SameTerms
<1>4. CASE \E c \in Consents : RevokeConsent(c)
  <2>1. PICK c \in Consents : RevokeConsent(c)
    BY <1>4
  <2>2. /\ consents' = [consents EXCEPT ![c].revoked = TRUE]
        /\ consents[c] # None /\ UNCHANGED <<now, calls>>
    BY <2>1 DEF RevokeConsent, Revoke, Change, guards
  <2>3. consents[c] \in ConsentRecords
    BY <2>2 DEF AInv
  <2>4. [consents[c] EXCEPT !.revoked = TRUE] \in ConsentRecords
    BY <2>3 DEF ConsentRecords
  <2>5. consents' \in [Consents -> ConsentRecords \cup {None}]
    BY <2>2, <2>4 DEF AInv
  <2>6. \A d \in Consents :
          consents'[d] # None
             => /\ consents[d] # None
                /\ consents'[d].service = consents[d].service
                /\ SameTerms(consents'[d], consents[d])
                /\ consents'[d].until = consents[d].until
                /\ consents[d].revoked => consents'[d].revoked
    BY <2>2, <2>3 DEF AInv, ConsentRecords, SameTerms
  <2> QED
    BY <2>2, <2>5, <2>6, NothingGiven DEF IInv, Types, SameTerms
<1>5. CASE \E c \in Consents, g \in Grants : GiveConsent(c, g)
  BY <1>5, GiveAuthority
<1>6. CASE Tick
  BY <1>6, NothingGiven DEF Tick, registry, AInv, IInv, Types, SameTerms
<1>7. CASE Restart
  <2>1. /\ calls' = [h \in Handlers |-> Idle] /\ consents' = consents
        /\ Idle.do = "idle" /\ Idle.request = None
    BY <1>7 DEF Restart, Idle
  <2> QED
    BY <2>1 DEF AInv, Sight, TokenRead, ConsentRead, ProvidersOperate, Request
<1> QED
  BY <1>1, <1>2, <1>3, <1>4, <1>5, <1>6, <1>7 DEF Next

\* What handlers hold of tokens and consents was true when they read it.
THEOREM AuthorityInvariant == Spec => []AInv
<1>1. Init => AInv
  <2> SUFFICES ASSUME Init PROVE AInv
    OBVIOUS
  <2>1. Idle.do = "idle" /\ Idle.request = None
    BY DEF Idle
  <2>2. consents \in [Consents -> ConsentRecords \cup {None}]
    BY RequestsAssumption DEF Init
  <2> QED
    BY <2>1, <2>2 DEF Init, AInv, Sight, TokenRead, ConsentRead, ProvidersOperate, Request
<1> QED
  BY <1>1, NextAuthority, MemoryInvariant, PTL DEF Spec

\* Core and providers are called for a request only if the consents it needs were
\* in force at some moment since it arrived.
THEOREM Authority == Spec => []AuthorityHeld
<1>1. IInv /\ AInv => AuthorityHeld
  BY DEF IInv, AInv, TokenRead, ConsentRead, AuthorityHeld
<1> QED
  BY <1>1, MemoryInvariant, AuthorityInvariant, PTL

-----------------------------------------------------------------------------
(* What Core is told.                                                      *)

EInv ==
  /\ words \in [References -> SUBSET Words]
  /\ told \in SUBSET Events
  /\ EventsReported

\* The two tables of statuses do not make a success or a failure of other words.
LEMMA StatusesReported ==
  ASSUME NEW word \in Words, NEW status,
         status \in {ResponseStatus(word), XmlStatus} \/ status = WebhookStatus(word)
  PROVE  /\ status \in Statuses
         /\ status = "completed" => word \in {"paid", "approved"}
         /\ status = "failed" => word \in {"declined", "error"}
<1>1. word \in ProviderWords
  BY RequestsAssumption
<1> QED
  BY <1>1 DEF ResponseStatus, XmlStatus, WebhookStatus, ProviderWords, Statuses

\* Core is told only what an event reported, unless nobody signs it.
LEMMA TellReported ==
  ASSUME EInv, NEW r \in References, NEW word \in Words, Genuine(r, word), NEW status,
         status \in {ResponseStatus(word), XmlStatus} \/ status = WebhookStatus(word),
         TellCore(r, status), words' = words
  PROVE  EInv'
<1>1. /\ status \in Statuses
      /\ status = "completed" => word \in {"paid", "approved"}
      /\ status = "failed" => word \in {"declined", "error"}
  BY StatusesReported
<1>2. told' = told \cup {[about |-> r, status |-> status]} \/ told' = told
  BY DEF TellCore
<1>3. told' \in SUBSET Events
  BY <1>1, <1>2 DEF EInv, Events
<1>4. EventsReported'
  BY <1>1, <1>2 DEF EInv, EventsReported, ProviderReported, Genuine
<1> QED
  BY <1>3, <1>4 DEF EInv

\* What a provider has said stays said.
LEMMA WordsGrow ==
  ASSUME EInv, words' \in [References -> SUBSET Words], told' = told,
         \A r \in References : words[r] \subseteq words'[r]
  PROVE  EInv'
<1>1. \A e \in told : words[e.about] \subseteq words'[e.about]
  BY DEF EInv, Events
<1> QED
  BY <1>1 DEF EInv, EventsReported, ProviderReported

\* Every step preserves what is known of events.
LEMMA NextEvents == IInv /\ AInv /\ EInv /\ [Next]_vars => EInv'
<1> SUFFICES ASSUME IInv, AInv, EInv, [Next]_vars PROVE EInv'
  OBVIOUS
<1>1. CASE UNCHANGED providers
  BY <1>1 DEF EInv, EventsReported, ProviderReported, providers
<1>2. ASSUME NEW h \in Handlers, NEW w \in Words, ProviderExecutes(h, w)
      PROVE  EInv'
  BY <1>2, WordsGrow DEF ProviderExecutes, EInv
<1>3. ASSUME NEW h \in Handlers, NEW w \in Words, ProviderAnswers(h, w)
      PROVE  EInv'
  <2>1. Shape(h).about \in References
    BY <1>3, Served, RequestsAssumption DEF ProviderAnswers, Doing, AInv, ProvidersOperate
  <2>2. w \in words[Shape(h).about] /\ words' = words
    BY <1>3 DEF ProviderAnswers
  <2>3. PICK status \in {ResponseStatus(w), XmlStatus} : TellCore(Shape(h).about, status)
    BY <1>3 DEF ProviderAnswers
  <2> QED
    BY <2>1, <2>2, <2>3, TellReported DEF Genuine
<1>4. ASSUME NEW r \in References, NEW w \in Words, ProviderSettles(r, w)
      PROVE  EInv'
  BY <1>4, WordsGrow DEF ProviderSettles, EInv
<1>5. ASSUME NEW r \in References, NEW w \in Words, ProviderPushes(r, w)
      PROVE  EInv'
  BY <1>5, TellReported DEF ProviderPushes
<1>6. ASSUME NEW h \in Handlers, Serve(h)
      PROVE  EInv'
  <2>1. CASE \E w \in Words : ProviderExecutes(h, w) \/ ProviderAnswers(h, w)
    BY <1>2, <1>3, <2>1
  <2>2. CASE \/ Authenticate(h) \/ ReadTokenConsent(h) \/ Refuse(h) \/ ReadConsent(h)
             \/ CoreAnswers(h) \/ ProviderFails(h)
    BY <1>1, <2>2 DEF Authenticate, ReadTokenConsent, Refuse, ReadConsent, CoreAnswers,
                      ProviderFails, Keep
  <2>3. CASE \/ QueryBalances(h) \/ QueryMerchant(h) \/ ResolveIdentity(h)
             \/ RegisterBusiness(h) \/ CreateProfile(h) \/ Operate(h)
    BY <1>1, <2>3 DEF QueryBalances, QueryMerchant, ResolveIdentity, RegisterBusiness,
                      CreateProfile, Operate, SignedRequest, SignedMutation,
                      FinancialRequest, Guard
  <2> QED
    BY <1>6, <2>1, <2>2, <2>3 DEF Serve
<1>7. CASE \E h \in Handlers, shape \in Shapes, n \in Nonces, ts \in 0 .. MaxTime + Ahead :
             LET q == [shape |-> shape, nonce |-> n, ts |-> ts] IN
             ArriveWithToken(h, q) \/ ArriveWithKey(h, q)
  BY <1>1, <1>7 DEF ArriveWithToken, ArriveWithKey, Arrive
<1>8. CASE \/ Tick \/ Restart \/ UNCHANGED vars
           \/ \E c \in Consents : RevokeConsent(c)
           \/ \E c \in Consents, g \in Grants : GiveConsent(c, g)
  BY <1>1, <1>8 DEF Tick, Restart, RevokeConsent, GiveConsent, Change, vars, providers
<1> QED
  BY <1>4, <1>5, <1>6, <1>7, <1>8 DEF Next

\* Core has been told of nothing at first.
LEMMA StartEvents == Init => EInv
  BY DEF Init, EInv, EventsReported

\* Core is told of no success and no failure that a provider who signs its webhooks
\* has not reported.
THEOREM Reported == Spec => []EventsReported
<1>1. EInv => EventsReported
  BY DEF EInv
<1> QED
  BY <1>1, StartEvents, NextEvents, MemoryInvariant, AuthorityInvariant, PTL DEF Spec

-----------------------------------------------------------------------------
(* The rate.  A counter starts with a request and lives for a window; the  *)
(* requests let through by one counter are at most RateLimit.  Of more     *)
(* than twice as many in a row, the first was before the last counter but  *)
(* one had ended, and the last is in one that started a window later.      *)

\* p: when requests passed; t: when the last counter started; n: how many
\* requests it has let through.
Spaced(p, t, n) ==
  /\ n <= Len(p) /\ t <= now
  /\ \A i \in 1 .. Len(p) : p[i] < t + Window
  /\ \A i \in 1 .. Len(p) : i + n <= Len(p) => p[i] < t
  /\ \A i \in 1 .. Len(p) : i + n + RateLimit <= Len(p) => p[i] + Window < t
  /\ \A i \in 1 .. Len(p) :
       i + 2 * RateLimit <= Len(p) => p[i + 2 * RateLimit] - p[i] > Window

\* bs: the counters that there are.
Counted(bs, t, n) ==
  /\ \A b \in bs : b.until > now => b.until = t + Window /\ n <= b.count
  /\ t + Window <= now \/ \E b \in bs : b.until > now

Paced(p, bs, t, n) == Spaced(p, t, n) /\ Counted(bs, t, n)

BucketsTyped(bs) ==
  \A b \in bs :
    /\ b.until \in Nat /\ b.count \in Nat
    /\ b = [key |-> b.key, until |-> b.until, place |-> b.place, count |-> b.count]

Counters(bs, s) == {b \in bs : b.key = s}

RInv ==
  /\ passes \in [Services -> Seq(Nat)]
  /\ BucketsTyped(buckets)
  /\ \A s \in Services :
       \E t \in Int, n \in 0 .. RateLimit : Paced(passes[s], Counters(buckets, s), t, n)

\* What a sequence with one more element is.
LEMMA OneMore ==
  ASSUME NEW p \in Seq(Nat), NEW x \in Nat
  PROVE  /\ p \o <<x>> \in Seq(Nat) /\ Len(p \o <<x>>) = Len(p) + 1
         /\ \A i \in 1 .. Len(p) : (p \o <<x>>)[i] = p[i]
         /\ (p \o <<x>>)[Len(p) + 1] = x
         /\ p \o <<>> = p
  OBVIOUS

\* The rate limit and its window are positive, as assumed.
LEMMA RateBounds ==
  RateLimit \in Nat /\ RateLimit >= 1 /\ Window \in Nat /\ Window >= 1
<1>1. RateLimit \in Nat \ {0} /\ Window \in Nat \ {0}
  BY GuardsAssumption
<1> QED
  BY <1>1

\* No request has passed, or none that is known of.
LEMMA SpacedAtFirst ==
  ASSUME NEW t \in Int, t <= now
  PROVE  Spaced(<<>>, t, 0)
  BY DEF Spaced

\* What both of the next lemmas use: q is p with another request, of now.
Longer(p, q, L, t, n) ==
  /\ Len(q) = L + 1 /\ L \in Nat /\ q[L + 1] = now
  /\ n \in Int /\ 0 <= n /\ n <= RateLimit /\ n <= L /\ t <= now
  /\ \A i \in 1 .. L + 1 : i \in Int /\ (i \in 1 .. L \/ i = L + 1)
  /\ \A i \in 1 .. L :
       /\ q[i] = p[i] /\ p[i] \in Int
       /\ p[i] < t + Window
       /\ i + n <= L => p[i] < t
       /\ i + n + RateLimit <= L => p[i] + Window < t
       /\ i + 2 * RateLimit <= L => q[i + 2 * RateLimit] - q[i] > Window

\* Passes stay spaced when one more is appended.
LEMMA SpacedLonger ==
  ASSUME now \in Nat, NEW p \in Seq(Nat), NEW t \in Int, NEW n \in 0 .. RateLimit,
         Spaced(p, t, n)
  PROVE  \E q, L : q = p \o <<now>> /\ Longer(p, q, L, t, n)
<1> DEFINE q == p \o <<now>>
           L == Len(p)
<1>1. /\ L \in Nat /\ Len(q) = L + 1 /\ q[L + 1] = now
      /\ \A i \in 1 .. L : q[i] = p[i] /\ p[i] \in Int
  BY OneMore
<1>2. n \in Int /\ 0 <= n /\ n <= RateLimit
  BY RateBounds
<1>3. n <= L /\ t <= now
  BY DEF Spaced
<1>4. \A i \in 1 .. L + 1 : i \in Int /\ (i \in 1 .. L \/ i = L + 1)
  BY <1>1
<1>5. ASSUME NEW i \in 1 .. L
      PROVE  /\ p[i] < t + Window
             /\ i + n <= L => p[i] < t
             /\ i + n + RateLimit <= L => p[i] + Window < t
  BY DEF Spaced
<1>6. ASSUME NEW i \in 1 .. L, i + 2 * RateLimit <= L
      PROVE  q[i + 2 * RateLimit] - q[i] > Window
  <2>1. i + 2 * RateLimit \in 1 .. L
    BY <1>1, <1>6, RateBounds
  <2>2. p[i + 2 * RateLimit] - p[i] > Window
    BY <1>6 DEF Spaced
  <2> QED
    BY <1>1, <2>1, <2>2
<1> HIDE DEF q, L
<1>7. Longer(p, q, L, t, n)
  BY <1>1, <1>2, <1>3, <1>4, <1>5, <1>6 DEF Longer
<1> QED
  BY <1>7 DEF q

\* A request passes, and is the first of a new counter.
LEMMA SpacedByNew ==
  ASSUME now \in Nat, NEW p \in Seq(Nat), NEW t \in Int, NEW n \in 0 .. RateLimit,
         Spaced(p, t, n), t + Window <= now
  PROVE  Spaced(p \o <<now>>, now, 1)
<1>1. PICK q, L : q = p \o <<now>> /\ Longer(p, q, L, t, n)
  BY SpacedLonger
<1>2. Longer(p, q, L, t, n)
  BY <1>1
<1> USE DEF Longer
<1>3. ASSUME NEW i \in 1 .. L
      PROVE  p[i] < now /\ (i + RateLimit <= L => p[i] + Window < now)
  BY <1>2, RateBounds
<1>4. ASSUME NEW i \in 1 .. L + 1
      PROVE  /\ q[i] < now + Window
             /\ i + 1 <= L + 1 => q[i] < now
             /\ i + 1 + RateLimit <= L + 1 => q[i] + Window < now
  <2>1. CASE i \in 1 .. L
    BY <1>2, <1>3, <2>1, RateBounds
  <2>2. CASE i = L + 1
    BY <1>2, <2>2, RateBounds
  <2> QED
    BY <1>2, <2>1, <2>2
<1>5. ASSUME NEW i \in 1 .. L + 1, i + 2 * RateLimit <= L + 1
      PROVE  q[i + 2 * RateLimit] - q[i] > Window
  <2>1. i \in 1 .. L /\ i + RateLimit <= L
    BY <1>2, <1>5, RateBounds
  <2>2. CASE i + 2 * RateLimit <= L
    BY <1>2, <2>1, <2>2
  <2>3. CASE i + 2 * RateLimit = L + 1
    <3>1. q[i + 2 * RateLimit] = now /\ q[i] = p[i] /\ p[i] \in Int
      BY <1>2, <2>1, <2>3
    <3>2. p[i] + Window < now
      BY <1>3, <2>1
    <3> QED
      BY <3>1, <3>2, RateBounds
  <2> QED
    BY <1>2, <1>5, <2>1, <2>2, <2>3, RateBounds
<1>6. Spaced(q, now, 1)
  BY <1>2, <1>4, <1>5 DEF Spaced
<1> QED
  BY <1>1, <1>6

\* A request passes, by a counter that has room for it.
LEMMA SpacedByOld ==
  ASSUME now \in Nat, NEW p \in Seq(Nat), NEW t \in Int, NEW n \in 0 .. RateLimit,
         Spaced(p, t, n), n < RateLimit, t + Window > now
  PROVE  Spaced(p \o <<now>>, t, n + 1)
<1>1. PICK q, L : q = p \o <<now>> /\ Longer(p, q, L, t, n)
  BY SpacedLonger
<1>2. Longer(p, q, L, t, n)
  BY <1>1
<1> USE DEF Longer
<1>3. ASSUME NEW i \in 1 .. L + 1
      PROVE  /\ q[i] < t + Window
             /\ i + (n + 1) <= L + 1 => q[i] < t
             /\ i + (n + 1) + RateLimit <= L + 1 => q[i] + Window < t
  <2>1. CASE i \in 1 .. L
    BY <1>2, <2>1, RateBounds
  <2>2. CASE i = L + 1
    BY <1>2, <2>2, RateBounds
  <2> QED
    BY <1>2, <2>1, <2>2
<1>4. ASSUME NEW i \in 1 .. L + 1, i + 2 * RateLimit <= L + 1
      PROVE  q[i + 2 * RateLimit] - q[i] > Window
  <2>1. i \in 1 .. L /\ i + n + RateLimit <= L
    BY <1>2, <1>4, RateBounds
  <2>2. CASE i + 2 * RateLimit <= L
    BY <1>2, <2>1, <2>2
  <2>3. CASE i + 2 * RateLimit = L + 1
    <3>1. q[i + 2 * RateLimit] = now /\ q[i] = p[i] /\ p[i] \in Int
      BY <1>2, <2>1, <2>3
    <3>2. p[i] + Window < t
      BY <1>2, <2>1
    <3> QED
      BY <1>2, <3>1, <3>2, RateBounds
  <2> QED
    BY <1>2, <1>4, <2>1, <2>2, <2>3, RateBounds
<1>5. Spaced(q, t, n + 1)
  BY <1>2, <1>3, <1>4 DEF Spaced
<1> QED
  BY <1>1, <1>5

\* When counters that have expired, and others, are dropped, and with the latter
\* the history of their services, what is left is still paced.
LEMMA PacedWhenPruned ==
  ASSUME now \in Nat, NEW bs, NEW kept, kept \subseteq Live(bs), BucketsTyped(bs),
         NEW p \in Seq(Nat), NEW s, NEW t \in Int, NEW n \in 0 .. RateLimit,
         Paced(p, Counters(bs, s), t, n), NEW q,
         q = IF s \in Lost(bs, kept) THEN <<>> ELSE p
  PROVE  \E u \in Int, m \in 0 .. RateLimit : Paced(q, Counters(kept, s), u, m)
<1>1. \A b \in Counters(kept, s) :
        b \in Counters(bs, s) /\ b.until > now /\ b.until = t + Window /\ b.count \in Nat
  BY DEF Counters, Live, Paced, Counted, BucketsTyped
<1>2. 0 \in 0 .. RateLimit
  BY RateBounds
<1>3. CASE s \notin Lost(bs, kept)
  <2>1. \A b \in Counters(bs, s) : b.until > now => b \in Counters(kept, s)
    BY <1>3 DEF Counters, Lost, Live
  <2>2. Counted(Counters(kept, s), t, n)
    BY <1>1, <2>1 DEF Paced, Counted
  <2> QED
    BY <1>3, <2>2 DEF Paced
<1>4. CASE s \in Lost(bs, kept) /\ Counters(kept, s) # {}
  <2>1. Spaced(<<>>, t, 0)
    BY SpacedAtFirst DEF Paced, Spaced
  <2>2. Counted(Counters(kept, s), t, 0)
    BY <1>1, <1>4 DEF Counted
  <2> QED
    BY <1>2, <1>4, <2>1, <2>2 DEF Paced
<1>5. CASE s \in Lost(bs, kept) /\ Counters(kept, s) = {}
  <2>1. now - Window \in Int /\ now - Window <= now /\ (now - Window) + Window <= now
    BY RateBounds
  <2>2. Spaced(<<>>, now - Window, 0)
    BY <2>1, SpacedAtFirst
  <2>3. Counted(Counters(kept, s), now - Window, 0)
    BY <1>5, <2>1 DEF Counted
  <2> QED
    BY <1>2, <1>5, <2>1, <2>2, <2>3 DEF Paced
<1> QED
  BY <1>3, <1>4, <1>5

\* A counted pass keeps the passes of its service paced.
LEMMA CountPassPaced ==
  ASSUME RInv, now \in Nat, now' = now, NEW s \in Services, CountPass(s)
  PROVE  RInv'
<1> DEFINE kept == Prune(buckets, MaxSubjects)
           base(k) == IF k \in Lost(buckets, kept) THEN <<>> ELSE passes[k]
           new == [key |-> s, until |-> now + Window, place |-> NextPlace(kept), count |-> 1]
           more(b) == IF b.key = s THEN [b EXCEPT !.count = @ + 1] ELSE b
<1>1. kept \subseteq Live(buckets) /\ kept \subseteq buckets /\ BucketsTyped(kept)
  BY PruneLive DEF Live, BucketsTyped, RInv
<1>2. \A b \in kept : b.until > now
  BY <1>1 DEF Live
<1>3. /\ buckets' = IF BucketsOf(s) = {} THEN kept \cup {new} ELSE {more(b) : b \in kept}
      /\ passes' = [k \in Services |->
                      base(k) \o (IF k = s /\ WithinRate(s) THEN <<now>> ELSE <<>>)]
  BY DEF CountPass, CountRequest
<1>4. BucketsOf(s) = Counters(kept, s)
  BY DEF BucketsOf, Counters
<1>5. \A k \in Services : base(k) \in Seq(Nat)
  BY DEF RInv
<1>6. ASSUME NEW k \in Services
      PROVE  \E t \in Int, n \in 0 .. RateLimit : Paced(base(k), Counters(kept, k), t, n)
  BY <1>1, PacedWhenPruned DEF RInv
<1> HIDE DEF kept, base
<1>7. ASSUME NEW b \in kept
      PROVE  /\ more(b).key = b.key /\ more(b).until = b.until /\ more(b).place = b.place
             /\ more(b).count = IF b.key = s THEN b.count + 1 ELSE b.count
             /\ more(b) = [key |-> more(b).key, until |-> more(b).until,
                           place |-> more(b).place, count |-> more(b).count]
             /\ b.count \in Nat /\ b.until \in Nat /\ b.until > now
  <2>1. /\ b.count \in Nat /\ b.until \in Nat
        /\ b = [key |-> b.key, until |-> b.until, place |-> b.place, count |-> b.count]
    BY <1>1 DEF BucketsTyped
  <2>2. [b EXCEPT !.count = @ + 1]
          = [key |-> b.key, until |-> b.until, place |-> b.place, count |-> b.count + 1]
    BY <2>1
  <2> QED
    BY <1>2, <2>1, <2>2
<1>8. /\ new.key = s /\ new.until = now + Window /\ new.count = 1
      /\ new.until \in Nat /\ new.until > now
      /\ new = [key |-> new.key, until |-> new.until, place |-> new.place, count |-> new.count]
  BY RateBounds
<1> HIDE DEF more, new
<1>9. BucketsTyped(buckets')
  BY <1>1, <1>3, <1>7, <1>8 DEF BucketsTyped
<1>10. passes' \in [Services -> Seq(Nat)]
  BY <1>3, <1>5, OneMore
<1>11. ASSUME NEW k \in Services
       PROVE  \E t \in Int, n \in 0 .. RateLimit : Paced(passes'[k], Counters(buckets', k), t, n)
  <2>1. PICK t \in Int, n \in 0 .. RateLimit : Paced(base(k), Counters(kept, k), t, n)
    BY <1>6
  <2>2. base(k) \in Seq(Nat) /\ base(k) \o <<>> = base(k)
    BY <1>5, OneMore
  <2>3. CASE k # s
    <3>1. passes'[k] = base(k)
      BY <1>3, <2>2, <2>3
    <3>2. Counters(buckets', k) = Counters(kept, k)
      <4>1. CASE BucketsOf(s) = {}
        BY <1>3, <1>8, <2>3, <4>1 DEF Counters
      <4>2. CASE BucketsOf(s) # {}
        <5>1. \A b \in kept : b.key = k => more(b) = b
          BY <2>3 DEF more
        <5>2. \A b \in kept : more(b).key = b.key
          BY <1>7
        <5>3. buckets' = {more(b) : b \in kept}
          BY <1>3, <4>2
        <5> QED
          BY <5>1, <5>2, <5>3 DEF Counters
      <4> QED
        BY <4>1, <4>2
    <3> QED
      BY <2>1, <3>1, <3>2
  <2>4. CASE k = s /\ BucketsOf(s) = {}
    <3>1. passes'[k] = base(k) \o <<now>>
      BY <1>3, <2>4 DEF WithinRate
    <3>2. Counters(buckets', k) = {new}
      BY <1>3, <1>4, <1>8, <2>4 DEF Counters
    <3>3. t + Window <= now
      BY <1>4, <2>1, <2>4 DEF Paced, Counted
    <3>4. Spaced(base(k) \o <<now>>, now, 1)
      BY <2>1, <2>2, <3>3, SpacedByNew DEF Paced
    <3>5. Counted({new}, now, 1)
      BY <1>8 DEF Counted
    <3>6. 1 \in 0 .. RateLimit /\ now \in Int
      BY RateBounds
    <3> QED
      BY <3>1, <3>2, <3>4, <3>5, <3>6 DEF Paced
  <2>5. CASE k = s /\ BucketsOf(s) # {}
    <3>1. PICK b \in kept : b.key = s
      BY <1>4, <2>5 DEF Counters
    <3>2. b.until = t + Window /\ n <= b.count /\ t + Window > now
      BY <1>7, <2>1, <2>5, <3>1 DEF Paced, Counted, Counters
    <3>3. Counters(buckets', k) = {more(c) : c \in Counters(kept, s)}
      BY <1>3, <1>7, <2>5 DEF Counters
    <3>4. \A c \in Counters(kept, s) :
            more(c).until = t + Window /\ n + 1 <= more(c).count
      BY <1>7, <2>1, <2>5 DEF Paced, Counted, Counters
    <3>5. more(b) \in Counters(buckets', k) /\ more(b).until > now
      BY <1>7, <3>1, <3>3 DEF Counters
    <3>6. CASE WithinRate(s)
      <4>1. passes'[k] = base(k) \o <<now>>
        BY <1>3, <2>5, <3>6
      <4>2. n < RateLimit
        BY <1>4, <1>7, <3>1, <3>2, <3>6, RateBounds DEF WithinRate, Counters
      <4>3. n + 1 \in 0 .. RateLimit
        BY <4>2, RateBounds
      <4>4. Spaced(base(k) \o <<now>>, t, n + 1)
        BY <2>1, <2>2, <3>2, <4>2, SpacedByOld DEF Paced
      <4>5. Counted(Counters(buckets', k), t, n + 1)
        BY <3>3, <3>4, <3>5 DEF Counted
      <4> QED
        BY <4>1, <4>3, <4>4, <4>5 DEF Paced
    <3>7. CASE ~WithinRate(s)
      <4>1. passes'[k] = base(k)
        BY <1>3, <2>2, <2>5, <3>7
      <4>2. \A c \in Counters(kept, s) : n <= more(c).count
        BY <1>7, <2>1, <2>5 DEF Paced, Counted, Counters
      <4>3. Counted(Counters(buckets', k), t, n)
        BY <3>3, <3>4, <3>5, <4>2 DEF Counted
      <4> QED
        BY <2>1, <4>1, <4>3 DEF Paced
    <3> QED
      BY <3>6, <3>7
  <2> QED
    BY <2>3, <2>4, <2>5
<1> QED
  BY <1>9, <1>10, <1>11 DEF RInv, Paced, Spaced, Counted

\* A restart empties the windows.
LEMMA RestartPaced == RInv /\ now \in Nat /\ Restart => RInv'
<1> SUFFICES ASSUME RInv, now \in Nat, Restart PROVE RInv'
  OBVIOUS
<1>1. /\ buckets' = {} /\ now' = now
      /\ passes' = [s \in Services |->
           IF s \in Lost(buckets, {}) THEN <<>> ELSE passes[s]]
  BY DEF Restart, ForgetAll
<1>2. passes' \in [Services -> Seq(Nat)] /\ BucketsTyped(buckets')
  BY <1>1 DEF RInv, BucketsTyped
<1>3. ASSUME NEW s \in Services
      PROVE  \E t \in Int, n \in 0 .. RateLimit : Paced(passes'[s], Counters(buckets', s), t, n)
  <2>1. PICK t \in Int, n \in 0 .. RateLimit : Paced(passes[s], Counters(buckets, s), t, n)
    BY DEF RInv
  <2>2. passes'[s] = IF s \in Lost(buckets, {}) THEN <<>> ELSE passes[s]
    BY <1>1
  <2>3. passes[s] \in Seq(Nat) /\ BucketsTyped(buckets) /\ {} \subseteq Live(buckets)
    BY DEF RInv
  <2>4. \E u \in Int, m \in 0 .. RateLimit : Paced(passes'[s], Counters({}, s), u, m)
    BY <2>1, <2>2, <2>3, PacedWhenPruned
  <2> QED
    BY <1>1, <2>4
<1> QED
  BY <1>1, <1>2, <1>3 DEF RInv, Paced, Spaced, Counted

\* A tick only widens the distance of passes.
LEMMA TickPaced == RInv /\ now \in Nat /\ Tick => RInv'
<1> SUFFICES ASSUME RInv, now \in Nat, Tick PROVE RInv'
  OBVIOUS
<1>1. now' = now + 1 /\ UNCHANGED <<buckets, passes>>
  BY DEF Tick
<1>2. ASSUME NEW s \in Services, NEW t \in Int, NEW n \in 0 .. RateLimit,
             Paced(passes[s], Counters(buckets, s), t, n)
      PROVE  Paced(passes[s], Counters(buckets, s), t, n)'
  <2>1. \A b \in Counters(buckets, s) : b.until \in Nat
    BY DEF RInv, BucketsTyped, Counters
  <2>2. \A b \in Counters(buckets, s) : b.until > now + 1 => b.until > now
    BY <2>1
  <2>3. t + Window <= now + 1 \/ \E b \in Counters(buckets, s) : b.until > now + 1
    BY <1>2, <2>1, RateBounds DEF Paced, Counted
  <2>4. t <= now + 1
    BY <1>2 DEF Paced, Spaced
  <2> QED
    BY <1>1, <1>2, <2>2, <2>3, <2>4 DEF Paced, Spaced, Counted, Counters
<1>3. BucketsTyped(buckets)' /\ passes' \in [Services -> Seq(Nat)]
  BY <1>1 DEF RInv, BucketsTyped
<1>4. ASSUME NEW s \in Services
      PROVE  \E t \in Int, n \in 0 .. RateLimit : Paced(passes[s], Counters(buckets, s), t, n)'
  BY <1>2 DEF RInv
<1> QED
  BY <1>3, <1>4 DEF RInv

\* Every step preserves the pace of passes.
LEMMA NextPaced == IInv /\ RInv /\ [Next]_vars => RInv'
<1> SUFFICES ASSUME IInv, RInv, [Next]_vars PROVE RInv'
  OBVIOUS
<1>1. now \in Nat
  BY DEF IInv, Types
<1>2. CASE UNCHANGED <<now, buckets, passes>>
  BY <1>2 DEF RInv, Paced, Spaced, Counted, Counters, BucketsTyped
<1>3. ASSUME NEW h \in Handlers, Serve(h)
      PROVE  RInv'
  <2>1. CASE \/ QueryBalances(h) \/ QueryMerchant(h) \/ ResolveIdentity(h)
             \/ RegisterBusiness(h) \/ CreateProfile(h) \/ Operate(h)
    <3>1. CountPass(Shape(h).service) /\ now' = now /\ ~Doing(h, "idle")
      BY <2>1 DEF QueryBalances, QueryMerchant, ResolveIdentity, RegisterBusiness,
                  CreateProfile, Operate, SignedRequest, SignedMutation,
                  FinancialRequest, Guard, At, Doing, Shape
    <3>2. Shape(h).service \in Services
      BY <3>1, Served
    <3>3. PICK s \in Services : s = Shape(h).service
      BY <3>2
    <3>4. CountPass(s)
      BY <3>1, <3>3
    <3> QED
      BY <1>1, <3>1, <3>4, CountPassPaced
  <2>2. CASE \/ Authenticate(h) \/ ReadTokenConsent(h) \/ Refuse(h) \/ ReadConsent(h)
             \/ CoreAnswers(h) \/ ProviderFails(h)
             \/ \E w \in Words : ProviderExecutes(h, w) \/ ProviderAnswers(h, w)
    BY <1>2, <2>2 DEF Authenticate, ReadTokenConsent, Refuse, ReadConsent, CoreAnswers,
                      ProviderFails, ProviderExecutes, ProviderAnswers, Keep, rate, guards
  <2> QED
    BY <1>3, <2>1, <2>2 DEF Serve
<1>4. CASE \E h \in Handlers, shape \in Shapes, n \in Nonces, ts \in 0 .. MaxTime + Ahead :
             LET q == [shape |-> shape, nonce |-> n, ts |-> ts] IN
             ArriveWithToken(h, q) \/ ArriveWithKey(h, q)
  BY <1>2, <1>4 DEF ArriveWithToken, ArriveWithKey, Arrive, guards
<1>5. CASE \/ \E r \in References, w \in Words : ProviderSettles(r, w) \/ ProviderPushes(r, w)
           \/ \E c \in Consents : RevokeConsent(c)
           \/ \E c \in Consents, g \in Grants : GiveConsent(c, g)
           \/ UNCHANGED vars
  BY <1>2, <1>5 DEF ProviderSettles, ProviderPushes, RevokeConsent, GiveConsent, Change,
                    vars, guards
<1> QED
  BY <1>1, <1>3, <1>4, <1>5, TickPaced, RestartPaced DEF Next

\* No request has passed at first.
LEMMA StartPaced == Init => RInv
<1> SUFFICES ASSUME Init PROVE RInv
  OBVIOUS
<1>1. /\ now = 0 /\ buckets = {} /\ passes = [s \in Services |-> <<>>]
  BY DEF Init, GuardsInit
<1>2. 0 - Window \in Int /\ 0 - Window <= 0 /\ (0 - Window) + Window <= 0 /\ 0 \in 0 .. RateLimit
  BY RateBounds
<1>3. Spaced(<<>>, 0 - Window, 0)
  BY <1>1, <1>2, SpacedAtFirst
<1>4. Counted({}, 0 - Window, 0)
  BY <1>1, <1>2 DEF Counted
<1>5. \A s \in Services : passes[s] = <<>> /\ Counters(buckets, s) = {}
  BY <1>1 DEF Counters
<1>6. \A s \in Services : Paced(passes[s], Counters(buckets, s), 0 - Window, 0)
  BY <1>3, <1>4, <1>5 DEF Paced
<1>7. passes \in [Services -> Seq(Nat)] /\ BucketsTyped(buckets)
  BY <1>1 DEF BucketsTyped
<1> QED
  BY <1>2, <1>6, <1>7 DEF RInv

\* In no window are more than twice as many requests of a service let through as
\* the limit says.
THEOREM TwiceTheRate == Spec => []WithinTwiceTheRate
<1>1. RInv => WithinTwiceTheRate
  <2> SUFFICES ASSUME RInv, NEW s \in Services, NEW i \in DOMAIN passes[s],
                      i + 2 * RateLimit \in DOMAIN passes[s]
               PROVE  passes[s][i + 2 * RateLimit] - passes[s][i] > Window
    BY DEF WithinTwiceTheRate
  <2>1. PICK p \in Seq(Nat) : p = passes[s]
    BY DEF RInv
  <2>2. i \in 1 .. Len(p) /\ i + 2 * RateLimit <= Len(p)
    BY <2>1
  <2>3. \E t \in Int, n \in 0 .. RateLimit : Spaced(p, t, n)
    BY <2>1 DEF RInv, Paced
  <2> QED
    BY <2>1, <2>2, <2>3 DEF Spaced
<1> QED
  BY <1>1, StartPaced, NextPaced, MemoryInvariant, PTL DEF Spec

-----------------------------------------------------------------------------
(* Types.  A new entry goes after all others: there is such a place        *)
(* because places do not grow without bound.                               *)

Bounded(cache) == \E n \in Nat : \A e \in cache : e.place < n

\* The place after all others, in a cache in which one exists.
LEMMA PlaceAfterAll ==
  ASSUME NEW cache, \A e \in cache : e.place \in Nat, Bounded(cache)
  PROVE  /\ NextPlace(cache) \in Nat
         /\ \A e \in cache : e.place < NextPlace(cache)
<1> DEFINE U == {n \in Nat : \A e \in cache : e.place < n}
           P == {1} \cup {e.place + 1 : e \in cache}
<1>1. PICK m \in U : \A n \in U : ~(<<n, m>> \in OpToRel(<, Nat))
  <2>1. U \subseteq Nat /\ U # {}
    BY DEF Bounded
  <2> HIDE DEF U
  <2> QED
    BY <2>1, NatLessThanWellFounded, WFMin
<1>2. \A n \in U : m <= n
  <2> SUFFICES ASSUME NEW n \in U, n < m PROVE FALSE
    OBVIOUS
  <2>1. <<n, m>> \in Nat \X Nat /\ n < m
    OBVIOUS
  <2>2. <<n, m>> \in OpToRel(<, Nat)
    BY <2>1, Zenon DEF OpToRel
  <2> QED
    BY <1>1, <2>2
<1>3. \E p \in P : \A e \in cache : e.place < p
  <2>1. CASE m <= 1
    <3>1. \A e \in cache : e.place < 1
      BY <2>1
    <3> QED
      BY <3>1
  <2>2. CASE m > 1
    <3>1. m - 1 \in Nat /\ m - 1 \notin U
      BY <1>2, <2>2
    <3>2. PICK e \in cache : ~(e.place < m - 1)
      BY <3>1
    <3>3. e.place \in Nat /\ e.place < m
      BY <1>1
    <3>4. e.place + 1 = m
      BY <3>2, <3>3
    <3> QED
      BY <1>1, <3>4
  <2> QED
    BY <2>1, <2>2
<1>4. NextPlace(cache) \in P /\ \A e \in cache : e.place < NextPlace(cache)
  <2> HIDE DEF P
  <2>1. NextPlace(cache) = CHOOSE p \in P : \A e \in cache : e.place < p
    BY DEF NextPlace, P
  <2> QED
    BY <1>3, <2>1
<1>5. P \subseteq Nat
  OBVIOUS
<1> QED
  BY <1>4, <1>5

Placed(cache) == (\A e \in cache : e.place \in Nat) /\ Bounded(cache)

\* What is left of a cache is placed, and so is an entry after it.
LEMMA PlacedNext ==
  ASSUME NEW cache, Placed(cache), NEW max
  PROVE  /\ Placed(Prune(cache, max))
         /\ NextPlace(Prune(cache, max)) \in Nat
         /\ \A e : e.place = NextPlace(Prune(cache, max))
                     => Placed(Prune(cache, max) \cup {e})
<1> DEFINE kept == Prune(cache, max)
<1>1. kept \subseteq cache
  BY DEF Prune, Live
<1> HIDE DEF kept
<1>2. Placed(kept)
  BY <1>1 DEF Placed, Bounded
<1>3. NextPlace(kept) \in Nat /\ \A e \in kept : e.place < NextPlace(kept)
  BY <1>2, PlaceAfterAll DEF Placed
<1>4. ASSUME NEW e, e.place = NextPlace(kept)
      PROVE  Placed(kept \cup {e})
  <2>1. NextPlace(kept) + 1 \in Nat
    BY <1>3
  <2>2. \A f \in kept \cup {e} : f.place \in Nat /\ f.place < NextPlace(kept) + 1
    BY <1>2, <1>3, <1>4 DEF Placed
  <2> QED
    BY <2>1, <2>2 DEF Placed, Bounded
<1> QED
  BY <1>2, <1>3, <1>4 DEF kept

Repeats == [key : Keys, request : RequestRecords, at : Nat]

NoncesTyped == nonces \in SUBSET NonceRecords /\ Placed(nonces)
BucketsPlaced == buckets \in SUBSET RateRecords /\ Placed(buckets)

TInv ==
  /\ NoncesTyped /\ BucketsPlaced
  /\ again \in SUBSET Repeats
  /\ arrivals \in 0 .. MaxArrivals
  /\ changes \in 0 .. MaxChanges

\* Meeting a nonce keeps the types of the memory and of its history.
LEMMA RecordTypes ==
  ASSUME NoncesTyped, again \in SUBSET Repeats, now \in Nat,
         NEW key \in Keys, NEW ttl \in Nat, NEW max, NEW q \in RequestRecords,
         Record(key, ttl, max, q)
  PROVE  NoncesTyped' /\ again' \in SUBSET Repeats
<1> DEFINE kept == Prune(nonces, max)
           entry == [key |-> key, until |-> now + ttl, place |-> NextPlace(kept)]
<1>1. /\ Placed(kept) /\ NextPlace(kept) \in Nat
      /\ \A e : e.place = NextPlace(kept) => Placed(kept \cup {e})
  BY PlacedNext DEF NoncesTyped
<1>2. entry \in NonceRecords /\ Placed(kept \cup {entry})
  BY <1>1 DEF NonceRecords
<1>3. kept \subseteq nonces
  BY DEF Prune, Live
<1>4. nonces' = kept \/ nonces' = kept \cup {entry}
  BY DEF Record, Meet
<1> HIDE DEF kept, entry
<1>5. NoncesTyped'
  <2>1. CASE nonces' = kept
    BY <1>1, <1>3, <2>1 DEF NoncesTyped, Placed, Bounded
  <2>2. CASE nonces' = kept \cup {entry}
    BY <1>2, <1>3, <2>2 DEF NoncesTyped, Placed, Bounded
  <2> QED
    BY <1>4, <2>1, <2>2
<1>6. [key |-> key, request |-> q, at |-> now] \in Repeats
  BY DEF Repeats
<1>7. again' \subseteq again \cup {[key |-> key, request |-> q, at |-> now]}
  BY DEF Record
<1> QED
  BY <1>5, <1>6, <1>7

\* So does counting a request.
LEMMA CountTypes ==
  ASSUME BucketsPlaced, now \in Nat, NEW service \in Services, CountRequest(service)
  PROVE  BucketsPlaced'
<1> DEFINE kept == Prune(buckets, MaxSubjects)
           entry == [key |-> service, until |-> now + Window,
                     place |-> NextPlace(kept), count |-> 1]
           OneMoreOf(b) == IF b.key = service THEN [b EXCEPT !.count = @ + 1] ELSE b
           counted == {OneMoreOf(b) : b \in kept}
<1>1. /\ Placed(kept) /\ NextPlace(kept) \in Nat
      /\ \A e : e.place = NextPlace(kept) => Placed(kept \cup {e})
  BY PlacedNext DEF BucketsPlaced
<1>2. entry \in RateRecords /\ Placed(kept \cup {entry})
  BY <1>1, RateBounds DEF RateRecords
<1>3. kept \subseteq buckets /\ kept \subseteq RateRecords
  BY DEF Prune, Live, BucketsPlaced
<1>4. buckets' = kept \cup {entry} \/ buckets' = counted
  BY DEF CountRequest
<1>5. \A b \in RateRecords : OneMoreOf(b) \in RateRecords /\ OneMoreOf(b).place = b.place
  BY DEF RateRecords
<1> HIDE DEF kept, entry, OneMoreOf
<1>6. \A c \in counted : c \in RateRecords /\ \E b \in kept : c.place = b.place
  BY <1>3, <1>5
<1> HIDE DEF counted
<1>7. CASE buckets' = kept \cup {entry}
  BY <1>2, <1>3, <1>7 DEF BucketsPlaced, Placed, Bounded
<1>8. CASE buckets' = counted
  <2>1. PICK n \in Nat : \A b \in kept : b.place \in Nat /\ b.place < n
    BY <1>1 DEF Placed, Bounded
  <2>2. \A c \in counted : c.place \in Nat /\ c.place < n
    BY <1>6, <2>1
  <2> QED
    BY <1>6, <1>8, <2>2 DEF BucketsPlaced, Placed, Bounded
<1> QED
  BY <1>4, <1>7, <1>8

\* Nothing is remembered by a new process.
LEMMA EmptyPlaced == Placed({})
  BY DEF Placed, Bounded

Arrivals == arrivals' = arrivals \/ (arrivals < MaxArrivals /\ arrivals' = arrivals + 1)
Changes == changes' = changes \/ (changes < MaxChanges /\ changes' = changes + 1)

\* Bounded numbers stay within their bounds.
LEMMA Bounds ==
  ASSUME TInv, Arrivals, Changes
  PROVE  arrivals' \in 0 .. MaxArrivals /\ changes' \in 0 .. MaxChanges
<1>1. MaxArrivals \in Nat /\ MaxChanges \in Nat
  BY RequestsAssumption
<1> QED
  BY <1>1 DEF TInv, Arrivals, Changes

\* A step that leaves the memory of the guards alone.
LEMMA NothingTyped ==
  ASSUME TInv, UNCHANGED <<nonces, buckets, again>>, Arrivals, Changes
  PROVE  TInv'
<1>1. NoncesTyped' /\ BucketsPlaced' /\ again' \in SUBSET Repeats
  BY DEF TInv, NoncesTyped, BucketsPlaced, Placed, Bounded
<1> QED
  BY <1>1, Bounds DEF TInv

\* A proof is met, and then the step goes on.
LEMMA AuthenticateTypes ==
  ASSUME IInv, TInv, NEW h \in Handlers, Authenticate(h)
  PROVE  TInv'
<1>1. /\ ~Doing(h, "idle") /\ Arrivals /\ Changes /\ UNCHANGED buckets
      /\ \/ UNCHANGED <<nonces, again>>
         \/ Record(ProofKey(Request(h)), ProofTolerance, MaxProofs, Request(h))
  BY DEF Authenticate, Doing, Arrivals, Changes, rate, registry, seen
<1>2. CASE UNCHANGED <<nonces, again>>
  BY <1>1, <1>2, NothingTyped
<1>3. CASE Record(ProofKey(Request(h)), ProofTolerance, MaxProofs, Request(h))
  <2>1. Request(h) \in RequestRecords /\ ProofKey(Request(h)) \in Keys
    BY <1>1, Served
  <2>2. now \in Nat /\ ProofTolerance \in Nat
    BY GuardsAssumption DEF IInv, Types
  <2>3. NoncesTyped' /\ again' \in SUBSET Repeats
    BY <1>3, <2>1, <2>2, RecordTypes DEF TInv
  <2>4. BucketsPlaced'
    BY <1>1 DEF TInv, BucketsPlaced, Placed, Bounded
  <2> QED
    BY <1>1, <2>3, <2>4, Bounds DEF TInv
<1> QED
  BY <1>1, <1>2, <1>3

\* A request is counted, and its nonce met.
LEMMA GuardTypes ==
  ASSUME IInv, TInv, NEW h \in Handlers, ~Doing(h, "idle"),
         NEW before, NEW after, NEW next, Guard(h, before, after, next)
  PROVE  TInv'
<1>1. /\ CountRequest(Shape(h).service) /\ Arrivals /\ Changes
      /\ \/ UNCHANGED <<nonces, again>>
         \/ Record(SignatureKey(Request(h)), NonceTtl, MaxNonces, Request(h))
  BY DEF Guard, CountPass, Arrivals, Changes, registry, seen, Shape
<1>2. /\ Request(h) \in RequestRecords /\ SignatureKey(Request(h)) \in Keys
      /\ Shape(h).service \in Services
  BY Served
<1>3. now \in Nat /\ NonceTtl \in Nat
  BY GuardsAssumption DEF IInv, Types
<1>4. BucketsPlaced'
  BY <1>1, <1>2, <1>3, CountTypes DEF TInv
<1>5. NoncesTyped' /\ again' \in SUBSET Repeats
  <2>1. CASE UNCHANGED <<nonces, again>>
    BY <2>1 DEF TInv, NoncesTyped, Placed, Bounded
  <2>2. CASE Record(SignatureKey(Request(h)), NonceTtl, MaxNonces, Request(h))
    BY <1>2, <1>3, <2>2, RecordTypes DEF TInv
  <2> QED
    BY <1>1, <2>1, <2>2
<1> QED
  BY <1>1, <1>4, <1>5, Bounds DEF TInv

\* Every step preserves the types of what the guards remember.
LEMMA NextTypes == IInv /\ TInv /\ [Next]_vars => TInv'
<1> SUFFICES ASSUME IInv, TInv, [Next]_vars PROVE TInv'
  OBVIOUS
<1>1. ASSUME NEW h \in Handlers, Serve(h)
      PROVE  TInv'
  <2>1. CASE Authenticate(h)
    BY <2>1, AuthenticateTypes
  <2>2. CASE \/ QueryBalances(h) \/ QueryMerchant(h) \/ ResolveIdentity(h)
             \/ RegisterBusiness(h) \/ CreateProfile(h) \/ Operate(h)
    BY <2>2, GuardTypes
       DEF QueryBalances, QueryMerchant, ResolveIdentity, RegisterBusiness,
           CreateProfile, Operate, SignedRequest, SignedMutation,
           FinancialRequest, At, Doing
  <2>3. CASE \/ ReadTokenConsent(h) \/ Refuse(h) \/ ReadConsent(h)
             \/ CoreAnswers(h) \/ ProviderFails(h)
             \/ \E w \in Words : ProviderExecutes(h, w) \/ ProviderAnswers(h, w)
    <3>1. UNCHANGED <<nonces, buckets, again, arrivals, changes>>
      BY <2>3 DEF ReadTokenConsent, Refuse, ReadConsent, CoreAnswers, ProviderFails,
                  ProviderExecutes, ProviderAnswers, Keep, guards, registry, seen
    <3> QED
      BY <3>1, NothingTyped DEF Arrivals, Changes
  <2> QED
    BY <1>1, <2>1, <2>2, <2>3 DEF Serve
<1>2. CASE \E h \in Handlers, shape \in Shapes, n \in Nonces, ts \in 0 .. MaxTime + Ahead :
             LET q == [shape |-> shape, nonce |-> n, ts |-> ts] IN
             ArriveWithToken(h, q) \/ ArriveWithKey(h, q)
  <2>1. UNCHANGED <<nonces, buckets, again>> /\ Arrivals /\ Changes
    BY <1>2 DEF ArriveWithToken, ArriveWithKey, Arrive, Begin, Arrivals, Changes,
                guards, registry, seen
  <2> QED
    BY <2>1, NothingTyped
<1>3. CASE \E r \in References, w \in Words : ProviderSettles(r, w) \/ ProviderPushes(r, w)
  <2>1. UNCHANGED <<nonces, buckets, again>> /\ Arrivals /\ Changes
    BY <1>3 DEF ProviderSettles, ProviderPushes, Arrivals, Changes, guards, registry, seen
  <2> QED
    BY <2>1, NothingTyped
<1>4. CASE \/ \E c \in Consents : RevokeConsent(c)
           \/ \E c \in Consents, g \in Grants : GiveConsent(c, g)
           \/ Tick \/ UNCHANGED vars
  <2>1. UNCHANGED <<nonces, buckets, again>> /\ Arrivals /\ Changes
    BY <1>4 DEF RevokeConsent, GiveConsent, Change, Tick, vars, Arrivals, Changes,
                guards, registry, seen
  <2> QED
    BY <2>1, NothingTyped
<1>5. CASE Restart
  <2>1. /\ nonces' = {} /\ buckets' = {} /\ again' = again
        /\ Arrivals /\ Changes
    BY <1>5 DEF Restart, ForgetAll, Arrivals, Changes
  <2>2. NoncesTyped' /\ BucketsPlaced'
    BY <2>1, EmptyPlaced DEF NoncesTyped, BucketsPlaced, Placed, Bounded
  <2> QED
    BY <2>1, <2>2, Bounds DEF TInv
<1> QED
  BY <1>1, <1>2, <1>3, <1>4, <1>5 DEF Next

\* Every variable keeps its type; the guards find a place for each new entry.
THEOREM TypesHold == Spec => []TypeOK
<1>1. Init => TInv
  <2>1. Init => NoncesTyped /\ BucketsPlaced
    BY EmptyPlaced DEF Init, GuardsInit, NoncesTyped, BucketsPlaced
  <2>2. 0 \in 0 .. MaxArrivals /\ 0 \in 0 .. MaxChanges
    BY RequestsAssumption
  <2> QED
    BY <2>1, <2>2 DEF Init, TInv
<1>2. IInv /\ AInv /\ EInv /\ RInv /\ TInv => TypeOK
  BY DEF IInv, Types, AInv, EInv, RInv, TInv, NoncesTyped, BucketsPlaced, Repeats,
         TypeOK, GuardsTypeOK
<1>3. Spec => [](EInv /\ RInv)
  BY StartEvents, StartPaced, NextEvents, NextPaced, MemoryInvariant,
     AuthorityInvariant, PTL DEF Spec
<1> QED
  BY <1>1, <1>2, <1>3, NextTypes, MemoryInvariant, AuthorityInvariant, PTL DEF Spec
=============================================================================
