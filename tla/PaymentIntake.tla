---------------------------- MODULE PaymentIntake ----------------------------
(***************************************************************************)
(* What the creation of payment intents promises its callers: a name (a    *)
(* service with its reference) is registered under one identifier, which   *)
(* it keeps, and no identifier is ever given out twice.  The registry is   *)
(* kept in memory: a restart empties it.                                   *)
(***************************************************************************)
CONSTANTS Names, Ids, None

VARIABLES registry, used

vars == <<registry, used>>

Init == registry = [n \in Names |-> None] /\ used = {}

Register(n, id) ==
  /\ registry[n] = None
  /\ id \notin used
  /\ registry' = [registry EXCEPT ![n] = id]
  /\ used' = used \cup {id}

Forget ==
  /\ registry' = [n \in Names |-> None]
  /\ UNCHANGED used

Next == Forget \/ \E n \in Names, id \in Ids : Register(n, id)

Spec == Init /\ [][Next]_vars

\* Two names never share an identifier.
Distinct ==
  \A m, n \in Names : registry[m] # None /\ registry[m] = registry[n] => m = n
=============================================================================
