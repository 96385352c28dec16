----------------------------- MODULE RequestGuards -----------------------------
(***************************************************************************)
(* What the gateway remembers of the requests it has seen: the nonces of   *)
(* signed requests and of DPoP proofs, in one map, and a counter of        *)
(* requests for each credential, in another.  Both are in memory, both     *)
(* are pruned before they are used: entries that have expired go, then the *)
(* oldest ones until the map is not larger than its limit.  A JavaScript   *)
(* map is in the order of insertion; an entry carries its place.           *)
(*                                                                         *)
(* Time is in seconds.  The code keeps deadlines in milliseconds, but      *)
(* compares timestamps in whole seconds: a deadline set at the beginning   *)
(* of a second is the tightest case, and it is the one modelled.           *)
(***************************************************************************)
EXTENDS Integers, FiniteSets

CONSTANTS
  Services,        \* credentials that sign requests, a key and its service
  Nonces,          \* what a client may choose as a nonce or as a proof's jti
  Tolerance,       \* financialSignatureToleranceSeconds
  NonceTtl,        \* financialNonceTtlSeconds
  MaxNonces,       \* financialNonceMaxEntries
  ProofTolerance,  \* DPOP_IAT_TOLERANCE_SECONDS, also how long a jti is kept
  MaxProofs,       \* maxNonces of verifyDpopProof
  Window,          \* financialRateLimitWindowSeconds
  RateLimit,       \* financialRateLimitMaxRequests
  MaxSubjects,     \* financialRateLimitMaxSubjects
  Ahead            \* how far a client's clock may be ahead of the gateway's

\* A nonce outlives the timestamp it came with.  In the defaults it is kept for
\* 600 seconds, and a timestamp is accepted for 300: clocks of clients may be
\* up to 299 seconds ahead.
ASSUME GuardsAssumption ==
  /\ {Tolerance, NonceTtl, MaxNonces, ProofTolerance, MaxProofs, Ahead}
       \subseteq Nat
  /\ {Window, RateLimit, MaxSubjects} \subseteq Nat \ {0}
  /\ NonceTtl >= Tolerance + Ahead + 1

VARIABLES
  now,
  nonces,     \* nonceCache
  buckets     \* rateBuckets

guards == <<now, nonces, buckets>>

Keys == {"signature", "proof"} \X Services \X Nonces

NonceRecords == [key : Keys, until : Nat, place : Nat]
RateRecords == [key : Services, until : Nat, place : Nat, count : Nat]

GuardsTypeOK ==
  /\ now \in Nat
  /\ nonces \in SUBSET NonceRecords
  /\ buckets \in SUBSET RateRecords

GuardsInit ==
  /\ now = 0
  /\ nonces = {}
  /\ buckets = {}

-----------------------------------------------------------------------------

\* Seeded change: an entry is dropped a second before it expires.
LiveEarly(cache) == {e \in cache : e.until > now + 1}

\* pruneExpired, its first loop
Live(cache) == {e \in cache : e.until > now}

\* What is left when expired entries, and the oldest beyond max, are gone.
Prune(cache, max) ==
  {e \in Live(cache) :
     Cardinality({f \in Live(cache) : f.place >= e.place}) <= max}

\* The place after all others.
NextPlace(cache) ==
  CHOOSE p \in {1} \cup {e.place + 1 : e \in cache} : \A e \in cache : e.place < p

\* Seeded change: a timestamp is fresh for a second more.
FreshLonger(timestamp, tolerance) ==
  /\ now - timestamp <= tolerance + 1
  /\ timestamp - now <= tolerance + 1

\* assertFreshTimestamp
Fresh(timestamp, tolerance) ==
  /\ now - timestamp <= tolerance
  /\ timestamp - now <= tolerance

Remembered(key, max) == \E e \in Prune(nonces, max) : e.key = key

\* assertNonceNotReplayed: a key that is not remembered is from now on.
Meet(key, ttl, max) ==
  LET kept == Prune(nonces, max) IN
  nonces' = IF Remembered(key, max) THEN kept
            ELSE kept \cup {[key |-> key, until |-> now + ttl,
                             place |-> NextPlace(kept)]}

BucketsOf(service) == {b \in Prune(buckets, MaxSubjects) : b.key = service}

\* Seeded change: the limit is tested before the request is counted.
WithinRateBefore(service) == \A b \in BucketsOf(service) : b.count <= RateLimit

\* Is the request that is being counted within the limit?
WithinRate(service) == \A b \in BucketsOf(service) : b.count < RateLimit

\* assertFinancialRateLimit: refused requests count as well.
CountRequest(service) ==
  LET kept == Prune(buckets, MaxSubjects) IN
  buckets' =
    IF BucketsOf(service) = {}
    THEN kept \cup {[key |-> service, until |-> now + Window,
                     place |-> NextPlace(kept), count |-> 1]}
    ELSE {IF b.key = service THEN [b EXCEPT !.count = @ + 1] ELSE b : b \in kept}

\* A new process has seen nothing.
ForgetAll ==
  /\ nonces' = {}
  /\ buckets' = {}
  /\ UNCHANGED now

\* History: what was dropped, though it had not expired.
Lost(cache, kept) == {e.key : e \in Live(cache) \ kept}
=============================================================================
