-------------------------- MODULE AuthorizationGrant --------------------------
(***************************************************************************)
(* What the authorization server promises about one authorization request: *)
(* the end user is identified once, then decides once, both before the     *)
(* request expires, and only an approval is followed by a code.            *)
(***************************************************************************)
CONSTANTS Requests, Subjects, None

VARIABLES
  phase,
  subject,  \* the end user who was identified, or None
  over      \* requests whose time has run out

vars == <<phase, subject, over>>

Phases ==
  {"none", "asked", "identified", "approved", "denied", "granted"}

Init ==
  /\ phase = [r \in Requests |-> "none"]
  /\ subject = [r \in Requests |-> None]
  /\ over = {}

Advance(r, from, to) ==
  /\ phase[r] = from
  /\ phase' = [phase EXCEPT ![r] = to]
  /\ UNCHANGED over

Ask(r) == Advance(r, "none", "asked") /\ UNCHANGED subject

Identify(r, u) ==
  /\ r \notin over
  /\ Advance(r, "asked", "identified")
  /\ subject' = [subject EXCEPT ![r] = u]

Decide(r) ==
  /\ r \notin over
  /\ Advance(r, "identified", "approved") \/ Advance(r, "identified", "denied")
  /\ UNCHANGED subject

Grant(r) == Advance(r, "approved", "granted") /\ UNCHANGED subject

Expire(r) == over' = over \cup {r} /\ UNCHANGED <<phase, subject>>

Next ==
  \E r \in Requests :
    \/ Ask(r) \/ Decide(r) \/ Grant(r) \/ Expire(r)
    \/ \E u \in Subjects : Identify(r, u)

Spec == Init /\ [][Next]_vars
=============================================================================
