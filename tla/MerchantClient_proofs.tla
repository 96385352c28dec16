------------------------- MODULE MerchantClient_proofs -------------------------
(***************************************************************************)
(* Proofs about MerchantClient, for every value of its constants.          *)
(*                                                                         *)
(* Two inductive invariants.  The first follows tokens: from the gateway,  *)
(* over the promise, into the cache and into requests.  The second follows *)
(* waits and the time that each of their steps takes.                      *)
(***************************************************************************)
EXTENDS MerchantClient, SequenceTheorems, TLAPS

\* The tokens that have reached the client.
Arrived == {t \in DOMAIN took : took[t] # None}

Asked ==
  /\ asked \in {0, 1}
  /\ asked = 1 <=> promise # None

\* The client counts the life of a token from its arrival: its answer's way later
\* than the gateway does.
TokensKept ==
  /\ Len(took) = Len(tokens)
  /\ \A t \in DOMAIN tokens : tokens[t].until \in Lifetime .. now + Lifetime
  /\ withdrawn \subseteq Arrived
  /\ promise # None /\ promise.token # None
       => promise.token \in DOMAIN took /\ took[promise.token] = None
  /\ cache # None
       => /\ cache.token \in Arrived \ withdrawn
          /\ cache.until = tokens[cache.token].until + took[cache.token]

\* When it was sent, the token was good for a while, or had just arrived.
SentInTime(c) ==
  LET until == tokens[calls[c].token].until + took[calls[c].token] IN
  until > calls[c].since + Skew \/ until >= calls[c].since + Lifetime

CallsKept ==
  \A c \in Callers :
    /\ calls[c].do \in {"sent", "answered"} => calls[c].token \in Arrived
    /\ calls[c].do = "sent" /\ calls[c].kind # "revoke" => SentInTime(c)

IInv == TypeOK /\ Asked /\ TokensKept /\ CallsKept

\* A caller that waits for nothing is a call.
LEMMA NoCallTyped == NoCall \in Calls
  BY DEF NoCall, Calls

\* What the proofs read off the types and off the lengths of the two records.
LEMMA Typed ==
  ASSUME IInv
  PROVE  /\ now \in Nat
         /\ cache \in [token : TokenIds, until : Nat] \cup {None}
         /\ promise \in Promises \cup {None}
         /\ calls \in [Callers -> Calls]
         /\ tokens \in Seq([until : Nat, revoked : BOOLEAN])
         /\ took \in Seq(Nat \cup {None})
         /\ Len(took) = Len(tokens)
         /\ asked \in Nat
         /\ waits \in SUBSET Waits
         /\ Lifetime \in Nat /\ Skew \in Nat
  BY ClientAssumption DEF IInv, TypeOK, TokensKept

\* The sequences of tokens and of what their answers took have the same domain.
LEMMA Indexed ==
  ASSUME IInv
  PROVE  /\ DOMAIN tokens = 1 .. Len(tokens) /\ DOMAIN took = 1 .. Len(tokens)
         /\ Len(tokens) \in Nat
         /\ \A t \in 1 .. Len(tokens) :
              /\ t \in TokenIds
              /\ tokens[t] \in [until : Nat, revoked : BOOLEAN]
              /\ took[t] \in Nat \cup {None}
         /\ \A t \in Arrived : t \in 1 .. Len(tokens) /\ took[t] \in Nat
<1>1. tokens \in Seq([until : Nat, revoked : BOOLEAN]) /\ took \in Seq(Nat \cup {None})
      /\ Len(took) = Len(tokens)
  BY Typed
<1>2. /\ DOMAIN tokens = 1 .. Len(tokens) /\ DOMAIN took = 1 .. Len(tokens)
      /\ Len(tokens) \in Nat
  BY <1>1
<1>3. \A t \in 1 .. Len(tokens) :
        /\ tokens[t] \in [until : Nat, revoked : BOOLEAN]
        /\ took[t] \in Nat \cup {None}
  BY <1>1, <1>2, ElementOfSeq
<1> QED BY <1>2, <1>3 DEF Arrived, TokenIds

\* A call with a changed step is a call.
LEMMA SentTyped ==
  ASSUME NEW call \in Calls, NEW token \in TokenIds \cup {None}, now \in Nat
  PROVE  /\ Sent(call, token) \in Calls
         /\ Sent(call, token).do = "sent"
         /\ Sent(call, token).token = token
         /\ Sent(call, token).since = now
  BY DEF Sent, Calls

\* A call moved to another step is a call.
LEMMA StepTyped ==
  ASSUME NEW call \in Calls, NEW step \in {"idle", "token", "sent", "answered", "asleep"},
         NEW since \in Nat
  PROVE  /\ [call EXCEPT !.do = step] \in Calls
         /\ [call EXCEPT !.do = step].do = step
         /\ [call EXCEPT !.do = step, !.since = since] \in Calls
         /\ [call EXCEPT !.do = step, !.since = since].do = step
  BY DEF Calls

\* Authorization sends a call with the cached token, or lets it wait.
LEMMA AuthorizeKeeps ==
  ASSUME IInv, NEW c \in Callers, NEW call \in Calls,
         call.do \notin {"sent", "answered"}, Authorize(c, call),
         UNCHANGED <<now, cache, tokens, took, withdrawn>>
  PROVE  /\ calls' \in [Callers -> Calls]
         /\ promise' \in Promises \cup {None}
         /\ asked' \in Nat
         /\ Asked'
         /\ TokensKept'
         /\ CallsKept'
<1>1. CASE Cached /\ calls' = [calls EXCEPT ![c] = Sent(call, cache.token)]
           /\ UNCHANGED <<promise, asked>>
  <2>1. calls' \in [Callers -> Calls]
    BY <1>1, Typed, SentTyped DEF Cached
  <2>2. /\ calls'[c].token = cache.token /\ calls'[c].since = now
        /\ \A d \in Callers \ {c} : calls'[d] = calls[d]
    BY <1>1, <2>1, Typed, SentTyped DEF Cached
  <2>3. /\ cache.token \in Arrived
        /\ tokens[cache.token].until + took[cache.token] > now + Skew
    BY <1>1, Typed, ClientAssumption DEF IInv, TokensKept, Cached
  <2>4. CallsKept'
    BY <2>2, <2>3 DEF IInv, CallsKept, SentInTime, Arrived
  <2> QED BY <1>1, <2>1, <2>4, Typed DEF IInv, Asked, TokensKept, Arrived
<1>2. CASE /\ ~Cached
           /\ calls' = [calls EXCEPT ![c] = [call EXCEPT !.do = "token"]]
           /\ promise' = IF promise = None THEN [sent |-> now, token |-> None] ELSE promise
           /\ asked' = IF promise = None THEN asked + 1 ELSE asked
  <2>1. calls' \in [Callers -> Calls]
    BY <1>2, Typed, StepTyped
  <2>2. CallsKept'
    BY <1>2, <2>1 DEF IInv, TypeOK, Calls, CallsKept, SentInTime, Arrived
  <2>3. promise' \in Promises \cup {None} /\ promise' # None
    BY <1>2, NoneAssumption DEF IInv, TypeOK, Promises
  <2>4. asked' \in Nat /\ Asked'
    BY <1>2, <2>3 DEF IInv, TypeOK, Asked
  <2>5. TokensKept'
    BY <1>2 DEF IInv, TokensKept, Arrived
  <2> QED BY <2>1, <2>2, <2>3, <2>4, <2>5
<1> QED BY <1>1, <1>2 DEF Authorize

\* The client starts with nothing cached and nothing asked.
LEMMA InitIInv == Init => IInv
<1> SUFFICES ASSUME Init PROVE IInv
  OBVIOUS
<1>1. TypeOK
  BY NoCallTyped, ClientAssumption DEF Init, TypeOK
<1>2. Asked /\ TokensKept /\ CallsKept
  BY NoneAssumption, ClientAssumption
     DEF Init, Asked, TokensKept, CallsKept, Arrived, NoCall, SentInTime
<1> QED BY <1>1, <1>2 DEF IInv

\* The call of a caller ends, with everything about tokens as it was.
LEMMA EndKeeps ==
  ASSUME IInv, NEW c \in Callers, End(c),
         UNCHANGED <<now, cache, promise, gateway, begun, asked, took, withdrawn>>
  PROVE  (waits' \in SUBSET Waits => TypeOK') /\ Asked' /\ TokensKept' /\ CallsKept'
<1>1. calls' \in [Callers -> Calls]
  BY NoCallTyped DEF IInv, TypeOK, End
<1>2. CallsKept'
  BY <1>1, NoCallTyped DEF IInv, TypeOK, CallsKept, SentInTime, Arrived, End, NoCall, gateway
<1> QED BY <1>1, <1>2 DEF IInv, TypeOK, Asked, TokensKept, Arrived, gateway

\* Every step of the client, the gateway and the clock preserves the invariant.
LEMMA NextIInv == IInv /\ [Next]_vars => IInv'
<1> SUFFICES ASSUME IInv, [Next]_vars PROVE IInv'
  OBVIOUS
<1> USE ClientAssumption
<1>1. ASSUME NEW c \in Callers, Serve(c) PROVE IInv'
  <2>1. calls[c].token \in DOMAIN took /\ DOMAIN took = DOMAIN tokens
    BY <1>1 DEF IInv, TypeOK, TokensKept, CallsKept, Arrived, Serve, Doing
  <2>2. /\ tokens' \in Seq([until : Nat, revoked : BOOLEAN])
        /\ Len(tokens') = Len(tokens)
        /\ \A t \in DOMAIN tokens : tokens'[t].until = tokens[t].until
    <3> DEFINE token == calls[c].token
               revoked == [tokens[token] EXCEPT !.revoked = TRUE]
    <3>1. CASE UNCHANGED tokens
      BY <3>1, Typed
    <3>2. CASE tokens' = [tokens EXCEPT ![token].revoked = TRUE]
      <4>1. /\ token \in 1 .. Len(tokens)
            /\ tokens[token] \in [until : Nat, revoked : BOOLEAN]
        BY <2>1, Indexed
      <4>2. /\ revoked \in [until : Nat, revoked : BOOLEAN]
            /\ revoked.until = tokens[token].until
        BY <4>1
      <4>3. tokens' = [tokens EXCEPT ![token] = revoked]
        BY <3>2
      <4> HIDE DEF revoked
      <4> QED BY <4>1, <4>2, <4>3, Typed, ExceptSeq
    <3> QED BY <1>1, <3>1, <3>2 DEF Serve
  <2>3. /\ calls' \in [Callers -> Calls]
        /\ \A d \in Callers : /\ calls'[d].token = calls[d].token
                              /\ calls'[d].kind = calls[d].kind
                              /\ calls'[d].since = calls[d].since
                              /\ calls'[d].do \in {calls[d].do, "answered"}
        /\ calls[c].do = "sent"
        /\ \A d \in Callers \ {c} : calls'[d] = calls[d]
    <3>1. calls[c] \in Calls /\ calls[c].do = "sent" /\ Live(calls[c].token) \in BOOLEAN
      BY <1>1, Typed DEF Serve, Doing, Live
    <3>2. CASE calls' = [calls EXCEPT ![c].do = "answered"]
      BY <3>1, <3>2, Typed DEF Calls
    <3>3. CASE calls' = [calls EXCEPT ![c].do = "answered", ![c].ok = Live(calls[c].token),
               ![c].status = IF completed = None THEN "processing" ELSE "completed"]
      <4> DEFINE now_answered == [calls[c] EXCEPT !.do = "answered", !.ok = Live(calls[c].token),
               !.status = IF completed = None THEN "processing" ELSE "completed"]
      <4>1. /\ now_answered \in Calls /\ now_answered.do = "answered"
            /\ now_answered.token = calls[c].token /\ now_answered.kind = calls[c].kind
            /\ now_answered.since = calls[c].since
        BY <3>1 DEF Calls
      <4>2. calls' = [calls EXCEPT ![c] = now_answered]
        BY <3>3
      <4> HIDE DEF now_answered
      <4> QED BY <3>1, <4>1, <4>2, Typed
    <3> QED BY <1>1, <3>2, <3>3 DEF Serve
  <2>4. TypeOK'
    BY <1>1, <2>2, <2>3 DEF IInv, TypeOK, Serve
  <2>5. Asked'
    BY <1>1 DEF IInv, Asked, Serve
  <2>6. TokensKept'
    BY <1>1, <2>1, <2>2 DEF IInv, TypeOK, TokensKept, Arrived, Serve
  <2>7. CallsKept'
    <3>1. Arrived' = Arrived /\ took' = took
      BY <1>1 DEF Arrived, Serve
    <3>2. \A t \in Arrived : tokens'[t].until = tokens[t].until
      BY <2>1, <2>2 DEF Arrived
    <3>3. \A d \in Callers : calls'[d].do \in {"sent", "answered"} => calls'[d].token \in Arrived
      BY <2>3 DEF IInv, CallsKept
    <3>4. ASSUME NEW d \in Callers, calls'[d].do = "sent", calls'[d].kind # "revoke"
          PROVE  SentInTime(d)'
      <4>1. calls[d].do = "sent" /\ SentInTime(d) /\ calls[d].token \in Arrived
        BY <2>3, <3>4 DEF IInv, CallsKept
      <4> QED BY <2>3, <3>1, <3>2, <4>1 DEF SentInTime
    <3> QED BY <3>1, <3>3, <3>4 DEF CallsKept
  <2> QED BY <2>4, <2>5, <2>6, <2>7 DEF IInv
<1>2. ASSUME NEW c \in Callers, FetchFails(c) \/ FinishRequest(c) PROVE IInv'
  BY <1>2, EndKeeps DEF FetchFails, FinishRequest, IInv, TypeOK
<1>3. ASSUME NEW c \in Callers, FinishRevoke(c) PROVE IInv'
  <2>1. calls[c].token \in Arrived
    BY <1>3 DEF FinishRevoke, Doing, IInv, CallsKept
  <2>2. calls' \in [Callers -> Calls]
    BY <1>3, NoCallTyped DEF IInv, TypeOK, FinishRevoke, End
  <2>3. TypeOK'
    <3>1. calls[c].token \in TokenIds
      BY <2>1, Indexed DEF Arrived
    <3> QED BY <1>3, <2>2, <3>1 DEF IInv, TypeOK, FinishRevoke, CacheWithout, gateway
  <2>4. TokensKept'
    BY <1>3, <2>1 DEF IInv, TokensKept, FinishRevoke, CacheWithout, Arrived, gateway
  <2>5. CallsKept'
    BY <1>3, <2>2 DEF IInv, TypeOK, CallsKept, SentInTime, Arrived, FinishRevoke, End, NoCall, gateway
  <2> QED BY <1>3, <2>3, <2>4, <2>5 DEF IInv, Asked, FinishRevoke
<1>4. ASSUME NEW c \in Callers, FinishPoll(c) PROVE IInv'
  <2>1. CASE End(c)
    <3>1. waits' \in SUBSET Waits
      BY <1>4 DEF IInv, TypeOK, FinishPoll, WaitEnds, Waits, Calls
    <3> QED BY <1>4, <2>1, <3>1, EndKeeps DEF FinishPoll, IInv
  <2>2. CASE calls' = [calls EXCEPT ![c].do = "asleep", ![c].since = now] /\ UNCHANGED waits
    <3>0. calls' = [calls EXCEPT ![c] = [calls[c] EXCEPT !.do = "asleep", !.since = now]]
      BY <2>2
    <3>1. calls' \in [Callers -> Calls] /\ calls'[c].do = "asleep"
      <4> DEFINE call == [calls[c] EXCEPT !.do = "asleep", !.since = now]
      <4>1. call \in Calls /\ call.do = "asleep"
        <5>1. calls[c] \in Calls /\ now \in Nat
          BY Typed
        <5> QED BY <5>1 DEF Calls
      <4>2. calls' = [calls EXCEPT ![c] = call]
        BY <3>0
      <4> HIDE DEF call
      <4> QED BY <4>1, <4>2, Typed
    <3>2. CallsKept'
      BY <1>4, <3>0, <3>1 DEF IInv, CallsKept, SentInTime, Arrived, FinishPoll, gateway
    <3> QED BY <1>4, <2>2, <3>1, <3>2
            DEF IInv, TypeOK, Asked, TokensKept, Arrived, FinishPoll, gateway
  <2> QED BY <1>4, <2>1, <2>2 DEF FinishPoll, WaitEnds
<1>5. ASSUME NEW c \in Callers, Wake(c) PROVE IInv'
  <2>1. CASE WaitEnds(c, "timeout") /\ UNCHANGED <<promise, asked>>
    <3>1. waits' \in SUBSET Waits
      BY <2>1 DEF IInv, TypeOK, WaitEnds, Waits, Calls
    <3> QED BY <1>5, <2>1, <3>1, EndKeeps DEF Wake, WaitEnds, IInv
  <2>2. CASE Authorize(c, calls[c]) /\ UNCHANGED waits
    <3>1. calls[c] \in Calls /\ calls[c].do = "asleep"
      BY <1>5 DEF Wake, Doing, IInv, TypeOK
    <3> QED BY <1>5, <2>2, <3>1, AuthorizeKeeps DEF Wake, IInv, TypeOK, gateway
  <2> QED BY <1>5, <2>1, <2>2 DEF Wake
<1>6. ASSUME NEW c \in Callers, NEW kind \in {"request", "wait"}, Call(c, kind) PROVE IInv'
  <2> DEFINE call == [NoCall EXCEPT !.kind = kind, !.began = now]
  <2>1. call \in Calls /\ call.do = "idle"
    BY Typed DEF NoCall, Calls
  <2>2. /\ calls' \in [Callers -> Calls] /\ promise' \in Promises \cup {None}
        /\ asked' \in Nat /\ Asked' /\ TokensKept' /\ CallsKept'
    BY <1>6, <2>1, AuthorizeKeeps DEF Call, gateway
  <2> QED BY <1>6, <2>2 DEF Call, Begin, IInv, TypeOK, gateway
<1>7. ASSUME NEW c \in Callers, NEW token \in DOMAIN tokens, Revoke(c, token) PROVE IInv'
  <2> DEFINE call == [NoCall EXCEPT !.kind = "revoke"]
  <2>1. token \in TokenIds /\ token \in Arrived
    BY <1>7, Typed DEF TokenIds, Revoke, Arrived
  <2>2. call \in Calls /\ call.kind = "revoke"
    BY DEF NoCall, Calls
  <2>3. /\ Sent(call, token) \in Calls /\ Sent(call, token).token = token
        /\ Sent(call, token).kind = "revoke"
    <3>1. Sent(call, token).kind = call.kind
      BY <2>2 DEF Sent, Calls
    <3> HIDE DEF call
    <3> QED BY <2>1, <2>2, <3>1, SentTyped, Typed
  <2>4. calls' = [calls EXCEPT ![c] = Sent(call, token)]
    BY <1>7 DEF Revoke
  <2> HIDE DEF call
  <2>5. calls' \in [Callers -> Calls]
    BY <2>3, <2>4, Typed
  <2>6. CallsKept'
    BY <1>7, <2>1, <2>3, <2>4, Typed DEF IInv, CallsKept, SentInTime, Arrived, Revoke, gateway
  <2>7. TypeOK'
    BY <1>7, <2>5 DEF IInv, TypeOK, Revoke, Begin, gateway
  <2> QED BY <1>7, <2>6, <2>7 DEF IInv, Asked, TokensKept, Arrived, Revoke, gateway
<1>8. CASE IssueToken
  <2>1. promise \in Promises /\ now \in Nat
    BY <1>8, NoneAssumption DEF IInv, TypeOK, Asked, IssueToken
  <2>2. /\ tokens' \in Seq([until : Nat, revoked : BOOLEAN])
        /\ took' \in Seq(Nat \cup {None})
        /\ Len(tokens') = Len(tokens) + 1 /\ Len(took') = Len(took) + 1
        /\ tokens'[Len(tokens')].until = now + Lifetime
        /\ took'[Len(took')] = None
        /\ \A t \in DOMAIN tokens : tokens'[t] = tokens[t]
        /\ \A t \in DOMAIN took : took'[t] = took[t]
    <3> DEFINE token == [until |-> now + Lifetime, revoked |-> FALSE]
    <3>1. token \in [until : Nat, revoked : BOOLEAN] /\ token.until = now + Lifetime
      BY <2>1
    <3>2. tokens' = Append(tokens, token) /\ took' = Append(took, None)
      BY <1>8 DEF IssueToken
    <3> HIDE DEF token
    <3>3. /\ tokens' \in Seq([until : Nat, revoked : BOOLEAN])
          /\ Len(tokens') = Len(tokens) + 1
          /\ tokens'[Len(tokens) + 1] = token
          /\ \A t \in 1 .. Len(tokens) : tokens'[t] = tokens[t]
      BY <3>1, <3>2, Typed, AppendProperties
    <3>4. /\ took' \in Seq(Nat \cup {None})
          /\ Len(took') = Len(took) + 1
          /\ took'[Len(took) + 1] = None
          /\ \A t \in 1 .. Len(took) : took'[t] = took[t]
      BY <3>2, Typed, AppendProperties
    <3> QED BY <3>1, <3>3, <3>4, Typed, Indexed
  <2>3. promise' = [promise EXCEPT !.token = Len(tokens')] /\ promise' \in Promises
    <3>1. Len(tokens') \in TokenIds
      BY <2>2, Typed DEF TokenIds
    <3> QED BY <1>8, <2>1, <3>1 DEF IssueToken, Promises
  <2>4. TypeOK'
    BY <1>8, <2>2, <2>3 DEF IInv, TypeOK, IssueToken
  <2>5. Asked'
    BY <1>8, <2>1, <2>3, NoneAssumption DEF IInv, Asked, IssueToken
  <2>6. Arrived \subseteq Arrived'
    BY <2>2, Typed, Indexed DEF Arrived
  <2>7. \A t \in Arrived : /\ t \in DOMAIN tokens /\ tokens'[t] = tokens[t]
                           /\ took'[t] = took[t]
    BY <2>2, Typed, Indexed DEF Arrived
  <2>8. promise'.token \in DOMAIN took' /\ took'[promise'.token] = None
    BY <2>1, <2>2, <2>3 DEF IInv, TypeOK, TokensKept, Promises
  <2>9. \A t \in DOMAIN tokens' : tokens'[t].until \in Lifetime .. now' + Lifetime
    BY <1>8, <2>1, <2>2 DEF IInv, TypeOK, TokensKept, IssueToken
  <2>10. TokensKept'
    BY <1>8, <2>2, <2>6, <2>7, <2>8, <2>9 DEF IInv, TokensKept, IssueToken
  <2>11. CallsKept'
    BY <1>8, <2>6, <2>7 DEF IInv, CallsKept, SentInTime, IssueToken
  <2> QED BY <2>4, <2>5, <2>10, <2>11 DEF IInv
<1>9. CASE TokenArrives
  <2> DEFINE token == promise.token
  <2>1. /\ promise \in Promises /\ token \in DOMAIN took /\ token \in DOMAIN tokens
        /\ token \in TokenIds /\ token \notin Arrived
    BY <1>9, NoneAssumption DEF IInv, TypeOK, Asked, TokensKept, TokenArrives, Promises, Arrived
  <2> DEFINE late == now - (tokens[token].until - Lifetime)
  <2>2. late \in Nat /\ now + Lifetime = tokens[token].until + late
    <3>1. /\ tokens[token].until \in Nat /\ Lifetime \in Nat /\ now \in Nat
          /\ tokens[token].until <= now + Lifetime
      BY <2>1, Typed, Indexed DEF IInv, TokensKept
    <3>2. tokens[token].until >= Lifetime
      BY <2>1 DEF IInv, TokensKept
    <3> QED BY <3>1, <3>2
  <2>3. /\ took' = [took EXCEPT ![token] = late]
        /\ took' \in Seq(Nat \cup {None}) /\ DOMAIN took' = DOMAIN took
        /\ Len(took') = Len(took)
        /\ took'[token] = late
        /\ \A t \in DOMAIN took : t # token => took'[t] = took[t]
    <3>1. took' = [took EXCEPT ![token] = late]
      BY <1>9 DEF TokenArrives
    <3> HIDE DEF late
    <3> QED BY <2>1, <2>2, <3>1, Typed, ExceptSeq
  <2>4. Arrived' = Arrived \cup {token}
    BY <2>1, <2>2, <2>3, NoneAssumption DEF Arrived
  <2>5. calls' \in [Callers -> Calls]
    <3>1. \A d \in Callers : Sent(calls[d], token) \in Calls
      BY <2>1, Typed, SentTyped
    <3> QED BY <1>9, <3>1, Typed DEF TokenArrives
  <2>6. TypeOK'
    <3>1. now + Lifetime \in Nat /\ asked' \in Nat
      BY <1>9, Typed DEF TokenArrives
    <3>2. cache' \in [token : TokenIds, until : Nat]
      BY <1>9, <2>1, <3>1 DEF TokenArrives
    <3> QED BY <1>9, <2>3, <2>5, <3>1, <3>2 DEF IInv, TypeOK, TokenArrives, gateway
  <2>7. Asked'
    BY <1>9 DEF IInv, Asked, TokenArrives
  <2>8. TokensKept'
    BY <1>9, <2>1, <2>2, <2>3, <2>4 DEF IInv, TypeOK, TokensKept, TokenArrives, gateway
  <2>9. ASSUME NEW c \in Callers, calls[c].do = "token"
        PROVE  calls'[c].token = token /\ calls'[c].since = now
    <3>1. calls'[c] = Sent(calls[c], token)
      BY <1>9, <2>9 DEF TokenArrives, Doing
    <3>2. token \in TokenIds \cup {None} /\ calls[c] \in Calls /\ now \in Nat
      BY <2>1, Typed
    <3> QED BY <3>1, <3>2, SentTyped
  <2>10. ASSUME NEW c \in Callers, calls[c].do # "token"
         PROVE  calls'[c] = calls[c]
    BY <1>9, <2>10 DEF IInv, TypeOK, TokenArrives, Doing
  <2>11. CallsKept'
    <3>1. tokens' = tokens /\ token \in Arrived' /\ Arrived \subseteq Arrived'
      BY <1>9, <2>4 DEF TokenArrives, gateway
    <3>2. ASSUME NEW c \in Callers, calls[c].do = "token"
          PROVE  calls'[c].token \in Arrived' /\ SentInTime(c)'
      <4>1. calls'[c].token = token /\ calls'[c].since = now
        BY <2>9, <3>2
      <4>2. tokens'[token].until + took'[token] = now + Lifetime
        BY <2>2, <2>3, <3>1
      <4> QED BY <3>1, <4>1, <4>2, Typed DEF SentInTime
    <3>3. ASSUME NEW c \in Callers, calls[c].do # "token", calls[c].do = "sent",
                 calls[c].kind # "revoke"
          PROVE  SentInTime(c)'
      <4>1. calls[c].token \in Arrived /\ SentInTime(c)
        BY <3>3 DEF IInv, CallsKept
      <4>2. took'[calls[c].token] = took[calls[c].token]
        BY <2>1, <2>3, <4>1 DEF Arrived
      <4> QED BY <2>10, <3>1, <3>3, <4>1, <4>2 DEF SentInTime
    <3> QED BY <2>10, <3>1, <3>2, <3>3 DEF IInv, CallsKept
  <2> QED BY <2>6, <2>7, <2>8, <2>11 DEF IInv
<1>10. CASE TokenFails
  <2>1. calls' \in [Callers -> Calls]
    BY <1>10, NoCallTyped DEF IInv, TypeOK, TokenFails
  <2>2. CallsKept'
    BY <1>10, <2>1
       DEF IInv, TypeOK, CallsKept, SentInTime, Arrived, TokenFails, NoCall, gateway, Doing
  <2>3. promise' = None /\ asked' = 0
    BY <1>10 DEF TokenFails, PromiseAfterFailure, IInv, Asked
  <2>4. TypeOK'
    BY <1>10, <2>1, <2>3 DEF IInv, TypeOK, TokenFails, gateway
  <2>5. TokensKept'
    BY <1>10, <2>3 DEF IInv, TokensKept, Arrived, TokenFails, gateway
  <2> QED BY <2>2, <2>3, <2>4, <2>5 DEF IInv, Asked
<1>11. CASE Complete
  BY <1>11 DEF Complete, IInv, TypeOK, Asked, TokensKept, CallsKept, SentInTime, Arrived
<1>12. CASE Tick
  <2>1. TypeOK'
    BY <1>12 DEF Tick, IInv, TypeOK, gateway
  <2>2. TokensKept'
    <3>1. now' = now + 1 /\ Arrived' = Arrived
          /\ UNCHANGED <<tokens, took, withdrawn, promise, cache>>
      BY <1>12 DEF Tick, gateway, Arrived
    <3>2. \A t \in DOMAIN tokens' : tokens'[t].until \in Lifetime .. now' + Lifetime
      <4>1. \A n : n \in Lifetime .. now + Lifetime => n \in Lifetime .. now + 1 + Lifetime
        BY ClientAssumption, Typed
      <4> QED BY <3>1, <4>1 DEF IInv, TokensKept
    <3> QED BY <3>1, <3>2 DEF IInv, TokensKept
  <2>3. Asked' /\ CallsKept'
    BY <1>12 DEF Tick, IInv, Asked, CallsKept, SentInTime, Arrived, gateway
  <2> QED BY <2>1, <2>2, <2>3 DEF IInv
<1>13. CASE UNCHANGED vars
  BY <1>13 DEF vars, IInv, TypeOK, Asked, TokensKept, CallsKept, SentInTime, Arrived
<1> QED BY <1>1, <1>2, <1>3, <1>4, <1>5, <1>6, <1>7, <1>8, <1>9, <1>10, <1>11, <1>12, <1>13
        DEF Next, Proceed

\* What the client knows of its tokens, in the cache and in requests, holds
\* always.
THEOREM TokenInvariant == Spec => []IInv
  BY InitIInv, NextIInv, PTL DEF Spec

\* Every value is of its type, always.
THEOREM TypesHold == Spec => []TypeOK
  BY TokenInvariant, PTL DEF IInv

\* However many callers need a token at once, one request for it is under way.
THEOREM OneAsked == Spec => []OneTokenRequest
<1>1. IInv => OneTokenRequest
  BY DEF IInv, Asked, OneTokenRequest
<1> QED BY <1>1, TokenInvariant, PTL

\* A request that is being sent carries a token that has reached the client, and
\* whose revocation was not confirmed.
THEOREM Withdrawn == Spec => RevokedNotSent
<1> DEFINE Sending ==
      \A c \in Callers :
        calls'[c].do = "sent" /\ ~Doing(c, "sent") /\ calls'[c].kind # "revoke"
          => calls'[c].token \notin withdrawn
<1>1. IInv /\ [Next]_vars => [Sending]_vars
  <2> SUFFICES ASSUME IInv, Next, NEW c \in Callers,
                      calls'[c].do = "sent", calls[c].do # "sent", calls'[c].kind # "revoke"
               PROVE  calls'[c].token \notin withdrawn
    BY DEF Doing
  <2>1. ASSUME NEW d \in Callers, NEW call \in Calls, call.do # "sent", Authorize(d, call)
        PROVE  calls'[c].token \notin withdrawn
    <3>1. CASE Cached /\ calls' = [calls EXCEPT ![d] = Sent(call, cache.token)]
      <4>1. cache.token \in TokenIds /\ cache.token \notin withdrawn /\ now \in Nat
        BY <3>1, Typed DEF Cached, IInv, TokensKept
      <4>2. Sent(call, cache.token).token = cache.token
        BY <4>1, SentTyped
      <4> QED BY <3>1, <4>1, <4>2, Typed
    <3>2. CASE calls' = [calls EXCEPT ![d] = [call EXCEPT !.do = "token"]]
      <4>1. [call EXCEPT !.do = "token"].do # "sent"
        BY DEF Calls
      <4> QED BY <3>2, <4>1, Typed
    <3> QED BY <2>1, <3>1, <3>2 DEF Authorize
  <2>2. ASSUME NEW d \in Callers, Wake(d)
        PROVE  calls'[c].token \notin withdrawn
    <3>1. calls[d] \in Calls /\ calls[d].do # "sent"
      BY <2>2, Typed DEF Wake, Doing
    <3>2. CASE Authorize(d, calls[d])
      BY <2>1, <3>1, <3>2
    <3>3. CASE End(d)
      BY <3>3, Typed DEF End, NoCall
    <3> QED BY <2>2, <3>2, <3>3 DEF Wake, WaitEnds
  <2>3. ASSUME NEW d \in Callers, NEW kind \in {"request", "wait"}, Call(d, kind)
        PROVE  calls'[c].token \notin withdrawn
    <3> DEFINE call == [NoCall EXCEPT !.kind = kind, !.began = now]
    <3>1. call \in Calls /\ call.do # "sent"
      BY Typed DEF NoCall, Calls
    <3> QED BY <2>1, <2>3, <3>1 DEF Call
  <2>4. ASSUME NEW d \in Callers, NEW token, Revoke(d, token)
        PROVE  FALSE
    <3>1. Sent([NoCall EXCEPT !.kind = "revoke"], token).kind = "revoke"
      BY DEF Sent, NoCall
    <3>2. calls'[d].kind = "revoke" /\ \A e \in Callers \ {d} : calls'[e] = calls[e]
      BY <2>4, <3>1, Typed DEF Revoke
    <3> QED BY <3>2
  <2>5. CASE TokenArrives
    <3>1. promise.token \in TokenIds /\ promise.token \notin withdrawn
      BY <2>5, NoneAssumption DEF IInv, TypeOK, Asked, TokensKept, TokenArrives, Promises, Arrived
    <3>2. calls'[c] = Sent(calls[c], promise.token)
      BY <2>5, Typed DEF TokenArrives
    <3> QED BY <3>1, <3>2, SentTyped, Typed
  <2>6. CASE TokenFails
    BY <2>6, Typed DEF TokenFails, NoCall
  <2>7. ASSUME NEW d \in Callers,
               Serve(d) \/ FetchFails(d) \/ FinishRequest(d) \/ FinishRevoke(d) \/ FinishPoll(d)
        PROVE  FALSE
    <3>1. CASE Serve(d)
      <4>1. CASE calls' = [calls EXCEPT ![d].do = "answered"]
        BY <4>1, Typed DEF Calls
      <4>2. CASE calls' = [calls EXCEPT ![d].do = "answered", ![d].ok = Live(calls[d].token),
              ![d].status = IF completed = None THEN "processing" ELSE "completed"]
        BY <4>2, Typed DEF Calls
      <4> QED BY <3>1, <4>1, <4>2 DEF Serve
    <3>2. CASE End(d)
      BY <3>2, Typed DEF End, NoCall
    <3>3. CASE calls' = [calls EXCEPT ![d].do = "asleep", ![d].since = now]
      BY <3>3, Typed DEF Calls
    <3> QED BY <2>7, <3>1, <3>2, <3>3
            DEF FetchFails, FinishRequest, FinishRevoke, FinishPoll, WaitEnds
  <2>8. CASE IssueToken \/ Complete \/ Tick
    BY <2>8 DEF IssueToken, Complete, Tick
  <2> QED BY <2>2, <2>3, <2>4, <2>5, <2>6, <2>7, <2>8 DEF Next, Proceed
<1> QED BY <1>1, TokenInvariant, PTL DEF Spec, RevokedNotSent

\* A token that is served too late to be good was late itself, with the request
\* that carries it.
THEOREM Outlives == Spec => TokenOutlivesRequest
<1> DEFINE Late ==
      \A c \in Callers :
        LET token == calls[c].token IN
        /\ Doing(c, "sent") /\ calls'[c].do = "answered" /\ calls[c].kind # "revoke"
        /\ ~calls'[c].ok /\ ~tokens[token].revoked
        => LET late == took[token] + now - calls[c].since IN
           late > Skew \/ late >= Lifetime
<1>1. IInv /\ [Next]_vars => [Late]_vars
  <2> SUFFICES ASSUME IInv, Next, NEW c \in Callers,
                      calls[c].do = "sent", calls'[c].do = "answered",
                      calls[c].kind # "revoke", ~calls'[c].ok,
                      ~tokens[calls[c].token].revoked
               PROVE  LET late == took[calls[c].token] + now - calls[c].since IN
                      late > Skew \/ late >= Lifetime
    BY DEF Doing
  <2> DEFINE token == calls[c].token
  <2>1. SentInTime(c) /\ token \in Arrived /\ calls[c] \in Calls
    BY Typed DEF IInv, CallsKept
  <2>2. /\ tokens[token].until \in Nat /\ took[token] \in Nat
        /\ now \in Nat /\ Skew \in Nat /\ Lifetime \in Nat /\ calls[c].since \in Nat
    BY <2>1, Typed, Indexed DEF Calls
  <2>3. Serve(c)
    <3>1. ASSUME NEW d \in Callers, d # c, Proceed(d) PROVE calls'[c] = calls[c]
      <4>1. CASE Serve(d)
        BY <3>1, <4>1, Typed DEF Serve
      <4>2. CASE FetchFails(d) \/ FinishRequest(d) \/ FinishRevoke(d) \/ FinishPoll(d)
        BY <3>1, <4>2, Typed DEF FetchFails, FinishRequest, FinishRevoke, FinishPoll, WaitEnds, End
      <4>3. CASE Wake(d)
        BY <3>1, <4>3, Typed DEF Wake, Authorize, WaitEnds, End
      <4> QED BY <3>1, <4>1, <4>2, <4>3 DEF Proceed
    <3>2. CASE FetchFails(c) \/ FinishRequest(c) \/ FinishRevoke(c) \/ FinishPoll(c) \/ Wake(c)
      BY <3>2, Typed DEF FetchFails, FinishRequest, FinishRevoke, FinishPoll, WaitEnds, End,
                         NoCall, Wake, Doing
    <3>3. ASSUME NEW d \in Callers,
                 (\E kind \in {"request", "wait"} : Call(d, kind))
                 \/ \E t \in DOMAIN tokens : Revoke(d, t)
          PROVE  calls'[c] = calls[c]
      <4>1. d # c
        BY <3>3 DEF Call, Revoke, Begin, Doing
      <4> QED BY <3>3, <4>1, Typed DEF Call, Authorize, Revoke
    <3>4. CASE TokenArrives \/ TokenFails
      BY <3>4, Typed DEF TokenArrives, TokenFails, Doing
    <3>5. CASE IssueToken \/ Complete \/ Tick
      BY <3>5 DEF IssueToken, Complete, Tick
    <3> QED BY <3>1, <3>2, <3>3, <3>4, <3>5 DEF Next, Proceed
  <2>4. ~Live(token)
    <3>1. calls' = [calls EXCEPT ![c].do = "answered", ![c].ok = Live(calls[c].token),
            ![c].status = IF completed = None THEN "processing" ELSE "completed"]
      BY <2>3 DEF Serve
    <3>2. calls'[c].ok = Live(token)
      BY <2>1, <3>1, Typed DEF Calls
    <3> QED BY <3>2
  <2>5. tokens[token].until <= now
    BY <2>2, <2>4 DEF Live
  <2> HIDE DEF token
  <2> QED BY <2>1, <2>2, <2>5 DEF SentInTime, token
<1> QED BY <1>1, TokenInvariant, PTL DEF Spec, TokenOutlivesRequest

-----------------------------------------------------------------------------
(* Waits.                                                                  *)

\* How long the steps of a call take, and how far a wait may have come in each.
TimedCall(c) ==
  LET call == calls[c] IN
  /\ call.do = "token" => /\ promise # None
                          /\ call.kind = "wait" => promise.sent <= call.began + Timeout
  /\ call.do \in {"sent", "answered"} =>
       /\ call.since <= now /\ now <= call.since + Delay
       /\ call.kind = "wait" => call.since <= call.began + Timeout + Delay
  /\ call.do = "asleep" =>
       /\ call.since <= now /\ now <= call.since + Interval + Delay
       /\ call.since <= call.began + Timeout + 2 * Delay

\* What the gateway's answer says of the payment intent.
PolledCall(c) ==
  LET call == calls[c] IN
  /\ call.do = "answered" /\ call.kind # "revoke" =>
       IF call.status = "completed" THEN completed # None
       ELSE completed # None => completed >= call.since
  /\ call.do = "asleep" /\ completed # None => completed >= call.since - Delay

WInv ==
  /\ promise # None => promise.sent <= now /\ now <= promise.sent + Delay
  /\ completed # None => completed <= now
  /\ \A c \in Callers : TimedCall(c) /\ PolledCall(c)
  /\ \A w \in waits : w.ended <= now
  /\ WaitsExplained

\* What the proofs about waits use of the first invariant.
LEMMA WTyped ==
  ASSUME IInv
  PROVE  /\ now \in Nat /\ Delay \in Nat /\ Timeout \in Nat /\ Interval \in Nat
         /\ completed \in Nat \cup {None}
         /\ promise \in Promises \cup {None}
         /\ \A c \in Callers : calls[c] \in Calls
         /\ calls \in [Callers -> Calls]
         /\ waits \in SUBSET Waits
         /\ asked > 0 => promise \in Promises
         /\ promise # None => asked > 0 /\ promise.sent \in Nat
  BY ClientAssumption DEF IInv, TypeOK, Asked, Promises

\* At the start nobody waits.
LEMMA InitWInv == Init => WInv
  BY DEF Init, WInv, TimedCall, PolledCall, NoCall, WaitsExplained

\* A step that only changes calls keeps what is known of those it leaves, or ends.
LEMMA CallsChange ==
  ASSUME IInv, WInv, UNCHANGED <<now, promise, completed>>,
         \A c \in Callers : \/ calls'[c] = calls[c]
                            \/ calls'[c].do = "idle"
                            \/ TimedCall(c)' /\ PolledCall(c)',
         waits' # waits => WaitsExplained' /\ \A w \in waits' : w.ended <= now
  PROVE  WInv'
<1>1. \A c \in Callers : TimedCall(c)' /\ PolledCall(c)'
  BY DEF WInv, TimedCall, PolledCall
<1> QED BY <1>1 DEF WInv, WaitsExplained

\* Authorization, of a wait whose time is not over or of another call.
LEMMA AuthorizeInTime ==
  ASSUME IInv, WInv, NEW c \in Callers, NEW call \in Calls, Authorize(c, call),
         call.do \in {"idle", "asleep"},
         call.kind = "wait" => now <= call.began + Timeout,
         UNCHANGED <<now, completed, waits>>
  PROVE  WInv'
<1>1. CASE Cached /\ calls' = [calls EXCEPT ![c] = Sent(call, cache.token)]
           /\ UNCHANGED <<promise, asked>>
  <2>1. /\ Sent(call, cache.token).do = "sent" /\ Sent(call, cache.token).since = now
        /\ Sent(call, cache.token).kind = call.kind
        /\ Sent(call, cache.token).began = call.began
    BY DEF Sent, Calls
  <2>2. calls'[c] = Sent(call, cache.token) /\ \A d \in Callers \ {c} : calls'[d] = calls[d]
    BY <1>1, WTyped
  <2>3. call.began \in Nat
    BY DEF Calls
  <2>4. TimedCall(c)' /\ PolledCall(c)'
    BY <2>1, <2>2, <2>3, WTyped DEF TimedCall, PolledCall
  <2> QED BY <1>1, <2>2, <2>4, CallsChange
<1>2. CASE /\ calls' = [calls EXCEPT ![c] = [call EXCEPT !.do = "token"]]
           /\ promise' = IF promise = None THEN [sent |-> now, token |-> None] ELSE promise
  <2>1. /\ [call EXCEPT !.do = "token"].do = "token"
        /\ [call EXCEPT !.do = "token"].kind = call.kind
        /\ [call EXCEPT !.do = "token"].began = call.began
    BY DEF Calls
  <2>2. /\ calls'[c] = [call EXCEPT !.do = "token"]
        /\ \A d \in Callers \ {c} : calls'[d] = calls[d]
    BY <1>2, WTyped
  <2>3. /\ promise' # None /\ promise'.sent \in Nat /\ promise'.sent <= now
        /\ now <= promise'.sent + Delay
        /\ promise # None => promise' = promise
    BY <1>2, WTyped, NoneAssumption DEF WInv, Promises
  <2>4. call.began \in Nat
    BY DEF Calls
  <2>5. TimedCall(c)' /\ PolledCall(c)'
    BY <2>1, <2>2, <2>3, <2>4, WTyped DEF TimedCall, PolledCall
  <2>6. \A d \in Callers \ {c} : TimedCall(d)' /\ PolledCall(d)'
    BY <2>2, <2>3 DEF WInv, TimedCall, PolledCall
  <2> QED BY <2>3, <2>5, <2>6 DEF WInv, WaitsExplained
<1> QED BY <1>1, <1>2 DEF Authorize

\* The end of a wait.
LEMMA EndExplained ==
  ASSUME IInv, WInv, NEW c \in Callers, NEW result, WaitEnds(c, result),
         UNCHANGED <<now, promise, completed>>,
         result = "answer" => completed # None,
         result = "timeout" => calls[c].do = "asleep" /\ ~InTime(c)
  PROVE  WInv'
<1> DEFINE wait == [result |-> result, began |-> calls[c].began, ended |-> now]
<1>1. calls[c].began \in Nat /\ calls[c].since \in Nat
  BY WTyped DEF Calls
<1>2. result = "answer" => completed # None /\ completed <= now
  BY DEF WInv
<1>3. ASSUME result = "timeout"
      PROVE  /\ now - calls[c].began > Timeout
             /\ now - calls[c].began <= Timeout + Interval + 3 * Delay
             /\ completed # None => completed >= now - Interval - 2 * Delay
  BY <1>1, <1>3, WTyped DEF WInv, TimedCall, PolledCall, InTime
<1>4. /\ wait.result = result /\ wait.began = calls[c].began /\ wait.ended = now
      /\ waits' = waits \cup {wait}
  BY DEF WaitEnds
<1> HIDE DEF wait
<1>5. WaitsExplained'
  BY <1>2, <1>3, <1>4 DEF WInv, WaitsExplained
<1>6. \A w \in waits' : w.ended <= now
  BY <1>4, WTyped DEF WInv
<1>7. calls'[c].do = "idle" /\ \A d \in Callers \ {c} : calls'[d] = calls[d]
  BY WTyped DEF WaitEnds, End, NoCall
<1> QED BY <1>5, <1>6, <1>7, CallsChange

\* No step makes a wait end outside the bounds of its request.
LEMMA NextWInv == IInv /\ WInv /\ [Next]_vars => WInv'
<1> SUFFICES ASSUME IInv, WInv, [Next]_vars PROVE WInv'
  OBVIOUS
<1>1. ASSUME NEW c \in Callers, Serve(c) PROVE WInv'
  <2> DEFINE status == IF completed = None THEN "processing" ELSE "completed"
  <2>1. calls[c] \in Calls /\ calls[c].do = "sent"
    BY <1>1, WTyped DEF Serve, Doing
  <2>2. /\ calls'[c].do = "answered" /\ calls'[c].kind = calls[c].kind
        /\ calls'[c].since = calls[c].since /\ calls'[c].began = calls[c].began
        /\ calls[c].kind # "revoke" => calls'[c].status = status
    <3>1. CASE calls' = [calls EXCEPT ![c].do = "answered"] /\ calls[c].kind = "revoke"
      BY <2>1, <3>1, WTyped DEF Calls
    <3>2. CASE calls' = [calls EXCEPT ![c].do = "answered", ![c].ok = Live(calls[c].token),
            ![c].status = IF completed = None THEN "processing" ELSE "completed"]
      BY <2>1, <3>2, WTyped DEF Calls
    <3> QED BY <1>1, <3>1, <3>2 DEF Serve
  <2>3. TimedCall(c)
    BY DEF WInv
  <2>4. TimedCall(c)' /\ PolledCall(c)'
    BY <1>1, <2>1, <2>2, <2>3, WTyped DEF TimedCall, PolledCall, Serve, WInv, Calls
  <2>5. \A d \in Callers \ {c} : calls'[d] = calls[d]
    BY <1>1, WTyped DEF Serve
  <2> QED BY <1>1, <2>4, <2>5, CallsChange DEF Serve
<1>2. ASSUME NEW c \in Callers, FetchFails(c) \/ FinishRequest(c) \/ FinishRevoke(c)
      PROVE  WInv'
  <2>1. \A d \in Callers : calls'[d] = calls[d] \/ calls'[d].do = "idle"
    BY <1>2, WTyped DEF FetchFails, FinishRequest, FinishRevoke, End, NoCall
  <2> QED BY <1>2, <2>1, CallsChange DEF FetchFails, FinishRequest, FinishRevoke, gateway
<1>3. ASSUME NEW c \in Callers, FinishPoll(c) PROVE WInv'
  <2>1. CASE WaitEnds(c, "refusal")
    BY <1>3, <2>1, EndExplained DEF FinishPoll, gateway
  <2>2. CASE WaitEnds(c, "answer") /\ calls[c].status = "completed"
    <3>1. completed # None
      BY <1>3, <2>2 DEF FinishPoll, Doing, WInv, PolledCall
    <3> QED BY <1>3, <2>2, <3>1, EndExplained DEF FinishPoll, gateway
  <2>3. CASE /\ calls' = [calls EXCEPT ![c].do = "asleep", ![c].since = now]
             /\ calls[c].status # "completed" /\ UNCHANGED waits
    <3>1. /\ calls[c] \in Calls /\ calls[c].do = "answered" /\ calls[c].kind = "wait"
          /\ calls[c].began \in Nat /\ calls[c].since \in Nat
      BY <1>3, WTyped DEF FinishPoll, Doing, Calls
    <3>2. /\ calls'[c].do = "asleep" /\ calls'[c].kind = "wait"
          /\ calls'[c].since = now /\ calls'[c].began = calls[c].began
      BY <2>3, <3>1, WTyped DEF Calls
    <3>3. /\ calls[c].since <= now /\ now <= calls[c].since + Delay
          /\ calls[c].since <= calls[c].began + Timeout + Delay
          /\ completed # None => completed >= calls[c].since
      BY <2>3, <3>1 DEF WInv, TimedCall, PolledCall
    <3>4. TimedCall(c)' /\ PolledCall(c)'
      BY <1>3, <3>1, <3>2, <3>3, WTyped DEF TimedCall, PolledCall, FinishPoll, gateway
    <3>5. \A d \in Callers \ {c} : calls'[d] = calls[d]
      BY <2>3, WTyped
    <3> QED BY <1>3, <2>3, <3>4, <3>5, CallsChange DEF FinishPoll, gateway
  <2> QED BY <1>3, <2>1, <2>2, <2>3 DEF FinishPoll
<1>4. ASSUME NEW c \in Callers, Wake(c) PROVE WInv'
  <2>1. calls[c] \in Calls /\ calls[c].do = "asleep" /\ calls[c].began \in Nat
    BY <1>4, WTyped DEF Wake, Doing, Calls
  <2>2. CASE InTime(c) /\ Authorize(c, calls[c]) /\ UNCHANGED waits
    <3>1. now <= calls[c].began + Timeout
      BY <2>1, <2>2, WTyped DEF InTime
    <3> QED BY <1>4, <2>1, <2>2, <3>1, AuthorizeInTime DEF Wake, gateway
  <2>3. CASE ~InTime(c) /\ WaitEnds(c, "timeout") /\ UNCHANGED <<promise, asked>>
    BY <1>4, <2>1, <2>3, EndExplained DEF Wake, gateway
  <2> QED BY <1>4, <2>2, <2>3 DEF Wake
<1>5. ASSUME NEW c \in Callers, NEW kind \in {"request", "wait"}, Call(c, kind) PROVE WInv'
  <2> DEFINE call == [NoCall EXCEPT !.kind = kind, !.began = now]
  <2>1. call \in Calls /\ call.do = "idle" /\ call.began = now
    BY WTyped DEF NoCall, Calls
  <2>2. now <= call.began + Timeout
    BY <2>1, WTyped
  <2>3. Authorize(c, call) /\ UNCHANGED <<now, completed, waits>>
    BY <1>5 DEF Call, gateway
  <2> HIDE DEF call
  <2> QED BY <2>1, <2>2, <2>3, AuthorizeInTime
<1>6. ASSUME NEW c \in Callers, NEW token, Revoke(c, token) PROVE WInv'
  <2> DEFINE call == Sent([NoCall EXCEPT !.kind = "revoke"], token)
  <2>1. call.do = "sent" /\ call.kind = "revoke" /\ call.since = now
    BY DEF Sent, NoCall
  <2>2. calls'[c] = call /\ \A d \in Callers \ {c} : calls'[d] = calls[d]
    BY <1>6, WTyped DEF Revoke
  <2> HIDE DEF call
  <2>3. TimedCall(c)' /\ PolledCall(c)'
    BY <1>6, <2>1, <2>2, WTyped DEF TimedCall, PolledCall, Revoke
  <2> QED BY <1>6, <2>2, <2>3, CallsChange DEF Revoke, gateway
<1>7. CASE IssueToken
  <2>1. promise \in Promises /\ promise' # None /\ promise'.sent = promise.sent
    <3>1. promise \in Promises /\ promise # None
      BY <1>7, WTyped, NoneAssumption DEF IssueToken
    <3>2. promise' = [promise EXCEPT !.token = Len(tokens')]
      BY <1>7 DEF IssueToken
    <3>3. promise' # None
      BY <1>7, NextIInv DEF IInv, Asked, IssueToken
    <3> QED BY <3>1, <3>2, <3>3 DEF Promises
  <2> QED BY <1>7, <2>1, NoneAssumption
          DEF IssueToken, WInv, TimedCall, PolledCall, WaitsExplained
<1>8. CASE TokenArrives
  <2>1. promise \in Promises /\ promise # None /\ promise' = None
    BY <1>8, WTyped, NoneAssumption DEF TokenArrives
  <2>2. ASSUME NEW c \in Callers PROVE TimedCall(c)' /\ PolledCall(c)'
    <3>1. calls[c] \in Calls /\ calls[c].began \in Nat /\ promise.sent \in Nat
      BY <2>1, WTyped DEF Calls, Promises
    <3>2. CASE calls[c].do = "token"
      <4>1. calls'[c] = Sent(calls[c], promise.token)
        BY <1>8, <3>2 DEF TokenArrives, Doing
      <4>2. /\ calls'[c].do = "sent" /\ calls'[c].since = now
            /\ calls'[c].kind = calls[c].kind /\ calls'[c].began = calls[c].began
        BY <3>1, <4>1 DEF Sent, Calls
      <4>3. calls[c].kind = "wait" => now <= calls[c].began + Timeout + Delay
        BY <2>1, <3>1, <3>2, WTyped DEF WInv, TimedCall
      <4> QED BY <1>8, <4>2, <4>3, WTyped DEF TimedCall, PolledCall, TokenArrives
    <3>3. CASE calls[c].do # "token"
      <4>1. calls'[c] = calls[c]
        BY <1>8, <3>3 DEF TokenArrives, Doing
      <4> QED BY <1>8, <3>3, <4>1 DEF WInv, TimedCall, PolledCall, TokenArrives, gateway
    <3> QED BY <3>2, <3>3
  <2> QED BY <1>8, <2>1, <2>2 DEF TokenArrives, WInv, WaitsExplained, gateway
<1>9. CASE TokenFails
  <2>1. promise' = None
    BY <1>9 DEF TokenFails, PromiseAfterFailure
  <2>2. ASSUME NEW c \in Callers PROVE TimedCall(c)' /\ PolledCall(c)'
    BY <1>9, <2>1 DEF TokenFails, WInv, TimedCall, PolledCall, NoCall, Doing, gateway
  <2> QED BY <1>9, <2>1, <2>2 DEF TokenFails, WInv, WaitsExplained, gateway
<1>10. CASE Complete
  <2>1. /\ completed = None /\ completed' = now /\ completed' # None
        /\ UNCHANGED <<now, promise, calls, waits>>
    BY <1>10, WTyped, NoneAssumption DEF Complete
  <2>2. ASSUME NEW c \in Callers PROVE TimedCall(c)' /\ PolledCall(c)'
    BY <2>1, WTyped DEF WInv, TimedCall, PolledCall, Calls
  <2>3. WaitsExplained'
    BY <2>1, WTyped DEF WInv, WaitsExplained, Waits
  <2> QED BY <2>1, <2>2, <2>3, WTyped DEF WInv
<1>11. CASE Tick
  <2>1. /\ now' = now + 1 /\ UNCHANGED <<promise, calls, completed, waits>>
        /\ promise # None => now < promise.sent + Delay
        /\ \A c \in Callers :
             /\ calls[c].do \in {"sent", "answered"} => now < calls[c].since + Delay
             /\ calls[c].do = "asleep" => now < calls[c].since + Interval + Delay
    BY <1>11 DEF Tick, Doing, gateway
  <2>2. ASSUME NEW c \in Callers PROVE TimedCall(c)' /\ PolledCall(c)'
    BY <2>1, WTyped DEF WInv, TimedCall, PolledCall, Calls
  <2>3. completed # None => completed <= now + 1
    BY <2>1, WTyped DEF WInv
  <2>4. \A w \in waits' : w.ended <= now'
    BY <2>1, WTyped DEF WInv, Waits
  <2> QED BY <2>1, <2>2, <2>3, <2>4, WTyped DEF WInv, WaitsExplained
<1>12. CASE UNCHANGED vars
  BY <1>12 DEF vars, WInv, TimedCall, PolledCall, WaitsExplained
<1> QED BY <1>1, <1>2, <1>3, <1>4, <1>5, <1>6, <1>7, <1>8, <1>9, <1>10, <1>11, <1>12
        DEF Next, Proceed

\* What is known of waits holds always, and with it what they come to.
THEOREM WaitInvariant == Spec => []WInv
  BY InitWInv, NextWInv, TokenInvariant, PTL DEF Spec

\* A wait for a payment returns a final status only if there is one, and gives up
\* only after its time-out, within one more poll and nap of it.
THEOREM Waiting == Spec => []WaitsExplained
  BY WaitInvariant, PTL DEF WInv
=============================================================================
