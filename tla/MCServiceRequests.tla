--------------------------- MODULE MCServiceRequests ---------------------------
(* An instance of ServiceRequests for TLC. *)
EXTENDS ServiceRequests, TLC

CONSTANTS s1, s2, c1, r1, r2, ann, bob

\* A request of each endpoint, and the variants that the guards tell apart.
Balance == [op |-> "balance", service |-> s1, token |-> None, subject |-> None,
            environment |-> "live", bound |-> FALSE, signed |-> TRUE, keyed |-> TRUE,
            person |-> ann, inPath |-> TRUE, about |-> None]

MCShapes ==
  {Balance,
   [Balance EXCEPT !.op = "resolve", !.signed = FALSE],
   [Balance EXCEPT !.op = "merchant", !.service = s2],
   [Balance EXCEPT !.op = "profile", !.token = c1, !.subject = bob, !.person = bob,
                   !.inPath = FALSE, !.bound = TRUE],
   [Balance EXCEPT !.op = "register", !.keyed = FALSE],
   [Balance EXCEPT !.op = "operate", !.about = r1]}

\* Bob's consent, Ann's whose name at the service is bob, and one for the sandbox.
Consent == [service |-> s1, environment |-> "live", subject |-> bob, alias |-> None,
            scopes |-> ConsentScopes, until |-> 2, revoked |-> FALSE]

MCGrants ==
  {Consent,
   [Consent EXCEPT !.subject = ann, !.alias = bob],
   [Consent EXCEPT !.environment = "sandbox"]}

Interchangeable == Permutations(Handlers)
=============================================================================
