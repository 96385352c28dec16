----------------------------- MODULE MerchantClient -----------------------------
(***************************************************************************)
(* The client that merchants put in their servers: one object that many    *)
(* requests of a shop use at once.  In the mode with access tokens it      *)
(* exchanges its service key for a token, keeps the token until shortly    *)
(* before it expires, and lets all who need one while it is being asked    *)
(* for wait for that one.  It can also wait for a payment intent.          *)
(*                                                                         *)
(* The gateway, the network and the clock are outside the client: an       *)
(* answer may take its time or never come, but then fetch fails at last.   *)
(* Between two of its awaits the client is not interrupted, and a caller   *)
(* that gets a token sends its request in the same step.                   *)
(***************************************************************************)
EXTENDS Integers, Sequences

CONSTANTS
  Callers,
  Lifetime,    \* expires_in of a token, in seconds
  Skew,        \* accessTokenRefreshSkewSeconds
  Interval,    \* intervalMs of waitForPaymentIntent
  Timeout,     \* its timeoutMs
  Delay,       \* bound: how long messages take and how late timers are
  MaxTime,     \* bound: seconds
  LastStart,   \* bound: the last second in which a call begins
  MaxCalls,    \* bound: calls
  None

ASSUME ClientAssumption ==
  /\ {Skew, Delay, MaxTime, LastStart, MaxCalls} \subseteq Nat
  /\ {Lifetime, Interval} \subseteq Nat \ {0}
  /\ Timeout \in Nat /\ Timeout >= Interval

TokenIds == Nat \ {0}

Promises == [sent : Nat, token : TokenIds \cup {None}]

ASSUME NoneAssumption == None \notin Nat \cup Promises

\* do: what the call waits for.  token: the one it was sent with, or is about;
\* since: when it was sent, or fell asleep; began: when a wait began; ok and
\* status: the answer of the gateway.
Calls ==
  [do : {"idle", "token", "sent", "answered", "asleep"},
   kind : {"request", "wait", "revoke"}, token : TokenIds \cup {None},
   since : Nat, began : Nat, ok : BOOLEAN, status : {"processing", "completed"}]

NoCall == [do |-> "idle", kind |-> "request", token |-> None, since |-> 0,
           began |-> 0, ok |-> FALSE, status |-> "processing"]

VARIABLES
  now,
  cache,      \* accessTokenCache
  promise,    \* accessTokenPromise: when its request was sent, and the token
              \* that the gateway has given for it
  calls,
  \* The gateway:
  tokens,     \* the access tokens it has issued, in order
  completed,  \* when the payment intent was completed
  \* Histories:
  begun,      \* the number of calls
  asked,      \* the number of requests for tokens that are on their way
  took,       \* how long the answer with each token took
  withdrawn,  \* tokens whose revocation was confirmed to the client
  waits       \* what waits have come to

vars == <<now, cache, promise, calls, tokens, completed, begun, asked, took,
          withdrawn, waits>>

gateway == <<tokens, completed>>

Waits == [result : {"answer", "refusal", "timeout"}, began : Nat, ended : Nat]

TypeOK ==
  /\ now \in 0 .. MaxTime
  /\ cache \in [token : TokenIds, until : Nat] \cup {None}
  /\ promise \in Promises \cup {None}
  /\ calls \in [Callers -> Calls]
  /\ tokens \in Seq([until : Nat, revoked : BOOLEAN])
  /\ completed \in Nat \cup {None}
  /\ begun \in 0 .. MaxCalls
  /\ asked \in Nat
  /\ took \in Seq(Nat \cup {None})
  /\ withdrawn \in SUBSET TokenIds
  /\ waits \in SUBSET Waits

Init ==
  /\ now = 0
  /\ cache = None
  /\ promise = None
  /\ calls = [c \in Callers |-> NoCall]
  /\ tokens = <<>>
  /\ completed = None
  /\ begun = 0
  /\ asked = 0
  /\ took = <<>>
  /\ withdrawn = {}
  /\ waits = {}

-----------------------------------------------------------------------------
(* Tokens.                                                                 *)

Doing(c, step) == calls[c].do = step

\* Seeded change: a token is used until it expires.
CachedTillExpiry == cache # None /\ cache.until > now

\* Is there a token that will live for a while?
Cached == cache # None /\ cache.until - Skew > now

\* serviceAuthorization and fetch
Sent(call, token) == [call EXCEPT !.do = "sent", !.token = token, !.since = now]

\* Seeded change: nobody waits for the request of another.
AuthorizeAlone(c, call) ==
  \/ /\ Cached
     /\ calls' = [calls EXCEPT ![c] = Sent(call, cache.token)]
     /\ UNCHANGED <<promise, asked>>
  \/ /\ ~Cached
     /\ calls' = [calls EXCEPT ![c] = [call EXCEPT !.do = "token"]]
     /\ promise' = [sent |-> now, token |-> None]
     /\ asked' = asked + 1

\* getServiceAccessToken: the token is there, or is asked for, or was already.
Authorize(c, call) ==
  \/ /\ Cached
     /\ calls' = [calls EXCEPT ![c] = Sent(call, cache.token)]
     /\ UNCHANGED <<promise, asked>>
  \/ /\ ~Cached
     /\ calls' = [calls EXCEPT ![c] = [call EXCEPT !.do = "token"]]
     /\ promise' = IF promise = None THEN [sent |-> now, token |-> None] ELSE promise
     /\ asked' = IF promise = None THEN asked + 1 ELSE asked

\* External: the gateway gives a token.
IssueToken ==
  /\ asked > 0 /\ promise.token = None
  /\ tokens' = Append(tokens, [until |-> now + Lifetime, revoked |-> FALSE])
  /\ took' = Append(took, None)
  /\ promise' = [promise EXCEPT !.token = Len(tokens')]
  /\ UNCHANGED <<now, cache, calls, completed, begun, asked, withdrawn, waits>>

\* issueServiceAccessToken ends; whoever waits for it goes on.
TokenArrives ==
  LET token == promise.token IN
  /\ asked > 0 /\ token # None
  /\ cache' = [token |-> token, until |-> now + Lifetime]
  /\ promise' = None
  /\ asked' = asked - 1
  /\ calls' = [c \in Callers |->
                 IF Doing(c, "token") THEN Sent(calls[c], token) ELSE calls[c]]
  /\ took' = [took EXCEPT ![token] = now - (tokens[token].until - Lifetime)]
  /\ UNCHANGED <<now, gateway, begun, withdrawn, waits>>

\* Seeded change: the promise is cleared only if it is kept.
PromiseAfterFailureStays == promise

\* finally
PromiseAfterFailure == None

\* It fails for all of them.
TokenFails ==
  /\ asked > 0
  /\ promise' = PromiseAfterFailure
  /\ asked' = asked - 1
  /\ calls' = [c \in Callers |-> IF Doing(c, "token") THEN NoCall ELSE calls[c]]
  /\ UNCHANGED <<now, cache, gateway, begun, took, withdrawn, waits>>

-----------------------------------------------------------------------------
(* Requests, and waits that make several.                                  *)

Begin(c) ==
  /\ Doing(c, "idle")
  /\ begun < MaxCalls /\ now <= LastStart
  /\ begun' = begun + 1

\* The methods of the client that send one request, and waitForPaymentIntent.
Call(c, kind) ==
  /\ Begin(c)
  /\ Authorize(c, [NoCall EXCEPT !.kind = kind, !.began = now])
  /\ UNCHANGED <<now, cache, gateway, took, withdrawn, waits>>

\* revokeAccessToken: it needs no token of its own.
Revoke(c, token) ==
  /\ Begin(c)
  /\ token \in DOMAIN took /\ took[token] # None
  /\ calls' = [calls EXCEPT ![c] = Sent([NoCall EXCEPT !.kind = "revoke"], token)]
  /\ UNCHANGED <<now, cache, promise, gateway, asked, took, withdrawn, waits>>

Live(token) == tokens[token].until > now /\ ~tokens[token].revoked

\* External: the gateway serves a request, if its token is good.
Serve(c) ==
  LET token == calls[c].token IN
  /\ Doing(c, "sent")
  /\ IF calls[c].kind = "revoke"
     THEN /\ tokens' = [tokens EXCEPT ![token].revoked = TRUE]
          /\ calls' = [calls EXCEPT ![c].do = "answered"]
     ELSE /\ calls' = [calls EXCEPT ![c].do = "answered", ![c].ok = Live(token),
               ![c].status = IF completed = None THEN "processing" ELSE "completed"]
          /\ UNCHANGED tokens
  /\ UNCHANGED <<now, cache, promise, completed, begun, asked, took, withdrawn, waits>>

End(c) == calls' = [calls EXCEPT ![c] = NoCall]

WaitEnds(c, result) ==
  /\ End(c)
  /\ waits' = waits \cup {[result |-> result, began |-> calls[c].began, ended |-> now]}

\* fetch fails, before or after the gateway has served the request.
FetchFails(c) ==
  /\ Doing(c, "sent") \/ Doing(c, "answered")
  /\ End(c)
  /\ UNCHANGED <<now, cache, promise, gateway, begun, asked, took, withdrawn, waits>>

\* The caller gets the answer, be it a refusal.
FinishRequest(c) ==
  /\ Doing(c, "answered") /\ calls[c].kind = "request"
  /\ End(c)
  /\ UNCHANGED <<now, cache, promise, gateway, begun, asked, took, withdrawn, waits>>

\* Seeded change: a revoked token stays in the cache.
CacheWithoutNone(token) == cache

CacheWithout(token) ==
  IF cache # None /\ cache.token = token THEN None ELSE cache

FinishRevoke(c) ==
  /\ Doing(c, "answered") /\ calls[c].kind = "revoke"
  /\ cache' = CacheWithout(calls[c].token)
  /\ withdrawn' = withdrawn \cup {calls[c].token}
  /\ End(c)
  /\ UNCHANGED <<now, promise, gateway, begun, asked, took, waits>>

\* waitForPaymentIntent: the loop goes on unless the answer is a refusal or the
\* status is terminal.
FinishPoll(c) ==
  /\ Doing(c, "answered") /\ calls[c].kind = "wait"
  /\ \/ /\ ~calls[c].ok
        /\ WaitEnds(c, "refusal")
     \/ /\ calls[c].ok /\ calls[c].status = "completed"
        /\ WaitEnds(c, "answer")
     \/ /\ calls[c].ok /\ calls[c].status # "completed"
        /\ calls' = [calls EXCEPT ![c].do = "asleep", ![c].since = now]
        /\ UNCHANGED waits
  /\ UNCHANGED <<now, cache, promise, gateway, begun, asked, took, withdrawn>>

\* Seeded change: the time must suffice for one more nap.
InTimeForNap(c) == now + Interval - calls[c].began <= Timeout

InTime(c) == now - calls[c].began <= Timeout

Wake(c) ==
  /\ Doing(c, "asleep")
  /\ now >= calls[c].since + Interval
  /\ \/ /\ InTime(c)
        /\ Authorize(c, calls[c])
        /\ UNCHANGED waits
     \/ /\ ~InTime(c)
        /\ WaitEnds(c, "timeout")
        /\ UNCHANGED <<promise, asked>>
  /\ UNCHANGED <<now, cache, gateway, begun, took, withdrawn>>

-----------------------------------------------------------------------------

\* External: the customer pays.
Complete ==
  /\ completed = None
  /\ completed' = now
  /\ UNCHANGED <<now, cache, promise, calls, tokens, begun, asked, took, withdrawn, waits>>

\* Messages and timers are late by Delay at most.
Tick ==
  /\ now < MaxTime
  /\ promise # None => now < promise.sent + Delay
  /\ \A c \in Callers :
       /\ Doing(c, "sent") \/ Doing(c, "answered") => now < calls[c].since + Delay
       /\ Doing(c, "asleep") => now < calls[c].since + Interval + Delay
  /\ now' = now + 1
  /\ UNCHANGED <<cache, promise, calls, gateway, begun, asked, took, withdrawn, waits>>

Proceed(c) ==
  Serve(c) \/ FetchFails(c) \/ FinishRequest(c) \/ FinishRevoke(c) \/ FinishPoll(c)
  \/ Wake(c)

Next ==
  \/ \E c \in Callers :
       \/ Proceed(c)
       \/ \E kind \in {"request", "wait"} : Call(c, kind)
       \/ \E token \in DOMAIN tokens : Revoke(c, token)
  \/ IssueToken \/ TokenArrives \/ TokenFails
  \/ Complete \/ Tick

Spec == Init /\ [][Next]_vars

\* fetch ends in an answer or in a failure, timers fire, and time passes.
FairSpec ==
  /\ Spec
  /\ \A c \in Callers : WF_vars(Proceed(c))
  /\ WF_vars(IssueToken \/ TokenArrives \/ TokenFails)
  /\ WF_vars(Tick)

-----------------------------------------------------------------------------
(* Properties.                                                             *)

\* A token that was not revoked is refused only if the answer that brought it
\* and the request that carries it took longer together than the client allows
\* for, or than the token lives.
TokenOutlivesRequest ==
  [][\A c \in Callers :
       LET token == calls[c].token IN
       /\ Doing(c, "sent") /\ calls'[c].do = "answered" /\ calls[c].kind # "revoke"
       /\ ~calls'[c].ok /\ ~tokens[token].revoked
       => LET late == took[token] + now - calls[c].since IN
          late > Skew \/ late >= Lifetime]_vars

\* However many need a token at once, the gateway is asked for one.
OneTokenRequest == asked <= 1

\* A token is not used when its revocation was confirmed.
RevokedNotSent ==
  [][\A c \in Callers :
       calls'[c].do = "sent" /\ ~Doing(c, "sent") /\ calls'[c].kind # "revoke"
         => calls'[c].token \notin withdrawn]_vars

\* A wait returns a final status only if there is one, and gives up only when its
\* time is over, but for one more poll and one more nap, and if there was none
\* when it asked last.
WaitsExplained ==
  \A w \in waits :
    /\ w.result = "answer" => completed # None /\ completed <= w.ended
    /\ w.result = "timeout" =>
         /\ w.ended - w.began > Timeout
         /\ w.ended - w.began <= Timeout + Interval + 3 * Delay
         /\ completed # None => completed >= w.ended - Interval - 2 * Delay

\* Every call ends: an answer, an exception or a time-out.
CallsEnd == \A c \in Callers : ~Doing(c, "idle") ~> Doing(c, "idle")
=============================================================================
