----------------------------- MODULE OAuthTokens -----------------------------
(***************************************************************************)
(* Tokens of the gateway's authorization server: the exchange of a code,   *)
(* the rotation of refresh tokens with detection of replays, the           *)
(* revocations (of a consent, a service, a subject, a token), the table of *)
(* revoked access tokens with its copy in memory, and the check of an      *)
(* access token by a request.                                              *)
(*                                                                         *)
(* A transaction of the database is one step; the handler's code between   *)
(* two awaits runs without interruption, so it joins the step of the       *)
(* transaction it follows.  A call may fail at any await.  Tokens expire,  *)
(* which only turns a presentation into one without effect: expiry is left *)
(* out, and the access tokens below are those that have not expired.       *)
(***************************************************************************)
EXTENDS Naturals, FiniteSets

CONSTANTS
  Services, Subjects,
  Grants,         \* approved authorization requests, each with its consent
  Families, RefreshTokens, AccessTokens,  \* random identifiers
  Handlers,
  MaxFaults,      \* bound: failed calls and restarts
  None

GrantRecords ==
  [service : Services, subject : Subjects,
   consent : {"active", "revoked"}, code : {"open", "consumed"}]

FamilyRecords ==
  [grant : Grants, revoked : BOOLEAN, claims : SUBSET AccessTokens]

\* parent is history: the token that was rotated into this one.
TokenRecords ==
  [family : Families, parent : RefreshTokens \cup {None},
   consumed : BOOLEAN, revoked : BOOLEAN]

\* grant is None for a token issued to a service for itself.
AccessRecords ==
  [service : Services, grant : Grants \cup {None},
   family : Families \cup {None}]

ASSUME TokenAssumption ==
  /\ None \notin Grants \cup Families \cup RefreshTokens \cup AccessTokens
  /\ None \notin Services
  /\ None \notin GrantRecords \cup FamilyRecords \cup TokenRecords
                 \cup AccessRecords
  /\ RefreshTokens \cap AccessTokens = {}
  /\ MaxFaults \in Nat

Ops == {"idle", "consume", "issue", "rotate", "check", "record", "withdraw",
        "revoke_consent", "revoke_service", "cleanup", "client_revoke",
        "access"}

\* What a handler waits for.  todo: revocations it has still to record;
\* late: the request began when a revocation that covers it was answered.
Calls ==
  [op : Ops, grant : Grants \cup {None}, family : Families \cup {None},
   token : RefreshTokens \cup {None}, access : AccessTokens \cup {None},
   service : Services \cup {None}, todo : SUBSET AccessTokens, late : BOOLEAN]

Idle == [op |-> "idle", grant |-> None, family |-> None, token |-> None,
         access |-> None, service |-> None, todo |-> {}, late |-> FALSE]

VARIABLES
  grants, families, tokens,   \* database
  access,       \* access tokens issued (they are not stored)
  revocations,  \* database: revoked access tokens
  revokedIds,   \* memory: their identifiers
  suspended,    \* services that are not active
  calls,
  known,        \* refresh and access tokens a client was given
  revoked,      \* access tokens whose revocation a handler completed
  withdrawn,    \* grants whose withdrawal was answered
  replayed,     \* families in which a replay was detected
  granted,      \* requests admitted: the token and whether they began late
  faults

stored  == <<grants, families, tokens>>
history == <<known, revoked, withdrawn, replayed, granted>>
vars    == <<stored, access, revocations, revokedIds, suspended, calls,
             history, faults>>

TypeOK ==
  /\ grants \in [Grants -> GrantRecords \cup {None}]
  /\ families \in [Families -> FamilyRecords \cup {None}]
  /\ tokens \in [RefreshTokens -> TokenRecords \cup {None}]
  /\ access \in [AccessTokens -> AccessRecords \cup {None}]
  /\ revocations \subseteq AccessTokens /\ revokedIds \subseteq AccessTokens
  /\ suspended \subseteq Services
  /\ calls \in [Handlers -> Calls]
  /\ known \subseteq RefreshTokens \cup AccessTokens
  /\ revoked \subseteq AccessTokens
  /\ withdrawn \subseteq Grants /\ replayed \subseteq Families
  /\ granted \subseteq AccessTokens \X BOOLEAN
  /\ faults \in 0 .. MaxFaults

Init ==
  /\ grants = [g \in Grants |-> None]
  /\ families = [f \in Families |-> None]
  /\ tokens = [t \in RefreshTokens |-> None]
  /\ access = [a \in AccessTokens |-> None]
  /\ revocations = {} /\ revokedIds = {} /\ suspended = {}
  /\ calls = [h \in Handlers |-> Idle]
  /\ known = {} /\ revoked = {} /\ withdrawn = {}
  /\ replayed = {} /\ granted = {} /\ faults = 0

-----------------------------------------------------------------------------
(* Helpers.                                                                *)

Idling(h)  == calls[h].op = "idle"
Wait(h, c) == calls' = [calls EXCEPT ![h] = c]
Return(h)  == Wait(h, Idle)

GrantOf(f) == grants[families[f].grant]
FamilyOf(t) == families[tokens[t].family]

FamiliesOfGrant(g) ==
  {f \in Families : families[f] # None /\ families[f].grant = g}

FamiliesOfService(s) ==
  {f \in Families : families[f] # None /\ GrantOf(f).service = s}

FamiliesOfSubject(u, s) ==
  {f \in Families : /\ families[f] # None
                    /\ GrantOf(f).subject = u
                    /\ s # None => GrantOf(f).service = s}

\* Bound: a request that may issue tokens begins while enough identifiers are
\* left for it and for those in progress.
EnoughIdentifiers ==
  LET issuing == {h \in Handlers :
                    calls[h].op \in {"consume", "issue", "rotate", "check"}}
      unused(f) == {x \in DOMAIN f : f[x] = None}
  IN /\ Cardinality(issuing) < Cardinality(unused(tokens))
     /\ Cardinality(issuing) < Cardinality(unused(access))

NewToken(f, parent) ==
  [family |-> f, parent |-> parent, consumed |-> FALSE, revoked |-> FALSE]

\* Seeded change: the refresh tokens of the families are left alone.
RevokeFamiliesOnly(F) ==
  /\ families' = [f \in Families |->
       IF f \in F THEN [families[f] EXCEPT !.revoked = TRUE] ELSE families[f]]
  /\ UNCHANGED tokens

\* The two updates of every revoking transaction.
RevokeFamilies(F) ==
  /\ families' = [f \in Families |->
       IF f \in F THEN [families[f] EXCEPT !.revoked = TRUE] ELSE families[f]]
  /\ tokens' = [t \in RefreshTokens |->
       IF tokens[t] # None /\ tokens[t].family \in F
       THEN [tokens[t] EXCEPT !.revoked = TRUE] ELSE tokens[t]]

-----------------------------------------------------------------------------
(* Authorization code.                                                     *)

\* The subject approves: a consent and a code are created.  (The three inserts
\* are one step: until the code is answered nobody can exchange it, and a
\* consent without a code is one whose code is never used.)
Approve(g, s, u) ==
  /\ grants[g] = None
  /\ s \notin suspended
  /\ grants' = [grants EXCEPT ![g] = [service |-> s, subject |-> u,
                                      consent |-> "active", code |-> "open"]]
  /\ UNCHANGED <<families, tokens, access, revocations, revokedIds, suspended,
                 calls, history, faults>>

StartExchange(h, g) ==
  /\ Idling(h)
  /\ EnoughIdentifiers
  /\ grants[g] # None
  /\ grants[g].service \notin suspended
  /\ Wait(h, [Idle EXCEPT !.op = "consume", !.grant = g])
  /\ UNCHANGED <<stored, access, revocations, revokedIds, suspended, history,
                 faults>>

\* Seeded change: the code is not marked as consumed.
ConsumeCodeUnmarked(h) ==
  /\ calls[h].op = "consume"
  /\ \/ Wait(h, [calls[h] EXCEPT !.op = "issue"])
     \/ Return(h)
  /\ UNCHANGED <<stored, access, revocations, revokedIds, suspended, history,
                 faults>>

\* The second end: the code is burnt, but the service has no active key or
\* asks for a scope it was not granted.
ConsumeCode(h) ==
  LET g == calls[h].grant
  IN /\ calls[h].op = "consume"
     /\ IF grants[g].code = "open"
        THEN /\ grants' = [grants EXCEPT ![g].code = "consumed"]
             /\ \/ Wait(h, [calls[h] EXCEPT !.op = "issue"])
                \/ Return(h)
        ELSE Return(h) /\ UNCHANGED grants
     /\ UNCHANGED <<families, tokens, access, revocations, revokedIds,
                    suspended, history, faults>>

IssueFamily(h, f, t, a) ==
  LET g == calls[h].grant
  IN /\ calls[h].op = "issue"
     /\ families[f] = None /\ tokens[t] = None /\ access[a] = None
     /\ families' = [families EXCEPT ![f] =
                       [grant |-> g, revoked |-> FALSE, claims |-> {}]]
     /\ tokens' = [tokens EXCEPT ![t] = NewToken(f, None)]
     /\ access' = [access EXCEPT ![a] = [service |-> grants[g].service,
                                         grant |-> g, family |-> f]]
     /\ Wait(h, [calls[h] EXCEPT !.op = "record", !.family = f, !.token = t,
                                 !.access = a])
     /\ UNCHANGED <<grants, revocations, revokedIds, suspended, history,
                    faults>>

\* Seeded change: the tokens are handed out without being recorded.
RecordNothing(h) ==
  /\ calls[h].op = "record"
  /\ known' = known \cup {calls[h].access, calls[h].token}
  /\ Return(h)
  /\ UNCHANGED <<stored, access, revocations, revokedIds, suspended, revoked,
                 withdrawn, replayed, granted, faults>>

\* recordAccessToken, which says nothing of a revoked family, and the answer
RecordAccessToken(h) ==
  LET f == calls[h].family
  IN /\ calls[h].op = "record"
     /\ families' = IF families[f].revoked THEN families
                    ELSE [families EXCEPT ![f].claims =
                            @ \cup {calls[h].access}]
     /\ known' = known \cup {calls[h].access, calls[h].token}
     /\ Return(h)
     /\ UNCHANGED <<grants, tokens, access, revocations, revokedIds, suspended,
                    revoked, withdrawn, replayed, granted, faults>>

-----------------------------------------------------------------------------
(* Refresh.                                                                *)

StartRefresh(h, t) ==
  /\ Idling(h)
  /\ EnoughIdentifiers
  /\ t \in known
  /\ grants[FamilyOf(t).grant].service \notin suspended
  /\ Wait(h, [Idle EXCEPT !.op = "rotate", !.token = t])
  /\ UNCHANGED <<stored, access, revocations, revokedIds, suspended, history,
                 faults>>

Dead(t) == tokens[t].revoked \/ FamilyOf(t).revoked

RefuseToken(h) ==
  /\ calls[h].op = "rotate"
  /\ Dead(calls[h].token)
  /\ Return(h)
  /\ UNCHANGED <<stored, access, revocations, revokedIds, suspended, history,
                 faults>>

\* A loop that records revocations follows, unless there is none to record.
CleanUp(h, todo) ==
  IF todo = {} THEN Return(h)
  ELSE Wait(h, [Idle EXCEPT !.op = "cleanup", !.todo = todo])

DetectReplay(h) ==
  LET t == calls[h].token
      f == tokens[t].family
  IN /\ calls[h].op = "rotate"
     /\ ~Dead(t) /\ tokens[t].consumed
     /\ RevokeFamilies({f})
     /\ replayed' = replayed \cup {f}
     /\ CleanUp(h, families[f].claims)
     /\ UNCHANGED <<grants, access, revocations, revokedIds, suspended, known,
                    revoked, withdrawn, granted, faults>>

\* Seeded change: two presentations of a token may both be rotated.
RotateAgain(h, u) ==
  LET t == calls[h].token
      f == tokens[t].family
  IN /\ calls[h].op = "rotate"
     /\ ~Dead(t)
     /\ tokens[u] = None
     /\ tokens' = [tokens EXCEPT ![t].consumed = TRUE, ![u] = NewToken(f, t)]
     /\ Wait(h, [Idle EXCEPT !.op = "check", !.family = f, !.token = u])
     /\ UNCHANGED <<grants, families, access, revocations, revokedIds,
                    suspended, history, faults>>

RotateToken(h, u) ==
  LET t == calls[h].token
      f == tokens[t].family
  IN /\ calls[h].op = "rotate"
     /\ ~Dead(t) /\ ~tokens[t].consumed
     /\ tokens[u] = None
     /\ tokens' = [tokens EXCEPT ![t].consumed = TRUE, ![u] = NewToken(f, t)]
     /\ Wait(h, [Idle EXCEPT !.op = "check", !.family = f, !.token = u])
     /\ UNCHANGED <<grants, families, access, revocations, revokedIds,
                    suspended, history, faults>>

\* The consent is read.  Everything is in order, ...
IssueRefreshed(h, a) ==
  LET f == calls[h].family
  IN /\ calls[h].op = "check"
     /\ GrantOf(f).consent = "active"
     /\ access[a] = None
     /\ access' = [access EXCEPT ![a] = [service |-> GrantOf(f).service,
                                         grant |-> families[f].grant,
                                         family |-> f]]
     /\ Wait(h, [calls[h] EXCEPT !.op = "record", !.access = a])
     /\ UNCHANGED <<stored, revocations, revokedIds, suspended, history,
                    faults>>

\* ... or the consent has ended, a scope is not covered, the service's key is
\* inactive (revokeByConsent follows), or the service has lost the environment
\* (revokeByService follows).
RefuseRefresh(h) ==
  LET f == calls[h].family
  IN /\ calls[h].op = "check"
     /\ \/ Wait(h, [Idle EXCEPT !.op = "revoke_consent",
                                !.grant = families[f].grant])
        \/ Wait(h, [Idle EXCEPT !.op = "revoke_service",
                                !.service = GrantOf(f).service])
     /\ UNCHANGED <<stored, access, revocations, revokedIds, suspended,
                    history, faults>>

-----------------------------------------------------------------------------
(* Revocations.                                                            *)

\* POST .../consents/:consentId/revoke
Withdraw(h, g) ==
  /\ Idling(h)
  /\ grants[g] # None
  /\ grants' = [grants EXCEPT ![g].consent = "revoked"]
  /\ Wait(h, [Idle EXCEPT !.op = "withdraw", !.grant = g])
  /\ UNCHANGED <<families, tokens, access, revocations, revokedIds, suspended,
                 history, faults>>

RevokeByConsent(h) ==
  LET g == calls[h].grant
  IN /\ calls[h].op \in {"withdraw", "revoke_consent"}
     /\ RevokeFamilies(FamiliesOfGrant(g))
     /\ withdrawn' = IF calls[h].op = "withdraw" THEN withdrawn \cup {g}
                     ELSE withdrawn
     /\ Return(h)
     /\ UNCHANGED <<grants, access, revocations, revokedIds, suspended, known,
                    revoked, replayed, granted, faults>>

\* POST .../services/:serviceCode/status
Suspend(h, s) ==
  /\ Idling(h)
  /\ suspended' = suspended \cup {s}
  /\ Wait(h, [Idle EXCEPT !.op = "revoke_service", !.service = s])
  /\ UNCHANGED <<stored, access, revocations, revokedIds, history, faults>>

Reactivate(s) ==
  /\ s \in suspended
  /\ suspended' = suspended \ {s}
  /\ UNCHANGED <<stored, access, revocations, revokedIds, calls, history,
                 faults>>

RevokeByService(h) ==
  /\ calls[h].op = "revoke_service"
  /\ RevokeFamilies(FamiliesOfService(calls[h].service))
  /\ Return(h)
  /\ UNCHANGED <<grants, access, revocations, revokedIds, suspended, history,
                 faults>>

\* POST /v1/internal/core/oauth/revoke-subject, with or without a service
RevokeBySubject(h, u, s) ==
  LET F == FamiliesOfSubject(u, s)
  IN /\ Idling(h)
     /\ RevokeFamilies(F)
     /\ CleanUp(h, UNION {families[f].claims : f \in F})
     /\ UNCHANGED <<grants, access, revocations, revokedIds, suspended,
                    history, faults>>

\* POST /oauth/revoke of a refresh token
RevokeToken(h, t) ==
  /\ Idling(h)
  /\ t \in known
  /\ RevokeFamilies({tokens[t].family})
  /\ UNCHANGED <<grants, access, revocations, revokedIds, suspended, calls,
                 history, faults>>

\* POST /oauth/revoke of an access token, up to the await
StartRevokeAccess(h, a) ==
  /\ Idling(h)
  /\ a \in known \ revokedIds
  /\ Wait(h, [Idle EXCEPT !.op = "client_revoke", !.todo = {a}])
  /\ UNCHANGED <<stored, access, revocations, revokedIds, suspended, history,
                 faults>>

\* recordRevocation: the table, then the copy in memory
RecordRevocation(h, a) ==
  LET left == calls[h].todo \ {a}
  IN /\ calls[h].op \in {"cleanup", "client_revoke"}
     /\ a \in calls[h].todo
     /\ revocations' = revocations \cup {a}
     /\ revokedIds' = revokedIds \cup {a}
     /\ revoked' = revoked \cup {a}
     /\ IF left = {} THEN Return(h)
        ELSE Wait(h, [calls[h] EXCEPT !.todo = left])
     /\ UNCHANGED <<stored, access, suspended, known, withdrawn, replayed,
                    granted, faults>>

-----------------------------------------------------------------------------
(* Use.                                                                    *)

\* grant_type=client_credentials
IssueServiceToken(s, a) ==
  /\ EnoughIdentifiers
  /\ s \notin suspended
  /\ access[a] = None
  /\ access' = [access EXCEPT ![a] = [service |-> s, grant |-> None,
                                      family |-> None]]
  /\ known' = known \cup {a}
  /\ UNCHANGED <<stored, revocations, revokedIds, suspended, calls, revoked,
                 withdrawn, replayed, granted, faults>>

\* requirePayServiceAccess: a service's token is admitted at once, a financial
\* one once its consent is read.
Present(h, a) ==
  LET late == a \in revoked \/ access[a].grant \in withdrawn
  IN /\ Idling(h)
     /\ a \in known \ revokedIds
     /\ access[a].service \notin suspended
     /\ IF access[a].grant = None
        THEN granted' = granted \cup {<<a, late>>} /\ UNCHANGED calls
        ELSE /\ Wait(h, [Idle EXCEPT !.op = "access", !.access = a,
                                     !.late = late])
             /\ UNCHANGED granted
     /\ UNCHANGED <<stored, access, revocations, revokedIds, suspended, known,
                    revoked, withdrawn, replayed, faults>>

Admit(h) ==
  LET a == calls[h].access
  IN /\ calls[h].op = "access"
     /\ granted' = IF grants[access[a].grant].consent = "active"
                   THEN granted \cup {<<a, calls[h].late>>} ELSE granted
     /\ Return(h)
     /\ UNCHANGED <<stored, access, revocations, revokedIds, suspended, known,
                    revoked, withdrawn, replayed, faults>>

-----------------------------------------------------------------------------
(* Faults.                                                                 *)

\* A query fails and the handler answers with an error; a revocation whose
\* acknowledgement is lost may have been stored all the same.
QueryFails(h) ==
  /\ ~Idling(h)
  /\ faults < MaxFaults
  /\ faults' = faults + 1
  /\ Return(h)
  /\ \/ UNCHANGED revocations
     \/ \E a \in calls[h].todo : revocations' = revocations \cup {a}
  /\ UNCHANGED <<stored, access, revokedIds, suspended, history>>

\* Seeded change: the stored revocations are not loaded.
RestartForgets ==
  /\ faults < MaxFaults
  /\ faults' = faults + 1
  /\ calls' = [h \in Handlers |-> Idle]
  /\ revokedIds' = {}
  /\ UNCHANGED <<stored, access, revocations, suspended, history>>

\* The process restarts and loads the revocations before it listens.
Restart ==
  /\ faults < MaxFaults
  /\ faults' = faults + 1
  /\ calls' = [h \in Handlers |-> Idle]
  /\ revokedIds' = revocations
  /\ UNCHANGED <<stored, access, revocations, suspended, history>>

Progress(h) ==
  \/ ConsumeCode(h)
  \/ \E f \in Families, t \in RefreshTokens, a \in AccessTokens :
       IssueFamily(h, f, t, a)
  \/ RecordAccessToken(h)
  \/ RefuseToken(h)
  \/ DetectReplay(h)
  \/ \E u \in RefreshTokens : RotateToken(h, u)
  \/ \E a \in AccessTokens : IssueRefreshed(h, a)
  \/ RefuseRefresh(h)
  \/ RevokeByConsent(h)
  \/ RevokeByService(h)
  \/ \E a \in AccessTokens : RecordRevocation(h, a)
  \/ Admit(h)

Request(h) ==
  \/ \E g \in Grants : StartExchange(h, g) \/ Withdraw(h, g)
  \/ \E t \in RefreshTokens : StartRefresh(h, t) \/ RevokeToken(h, t)
  \/ \E s \in Services : Suspend(h, s)
  \/ \E u \in Subjects, s \in Services \cup {None} : RevokeBySubject(h, u, s)
  \/ \E a \in AccessTokens : StartRevokeAccess(h, a) \/ Present(h, a)

Next ==
  \/ \E h \in Handlers : Request(h) \/ Progress(h) \/ QueryFails(h)
  \/ \E g \in Grants, s \in Services, u \in Subjects : Approve(g, s, u)
  \/ \E s \in Services : Reactivate(s)
  \/ \E s \in Services, a \in AccessTokens : IssueServiceToken(s, a)
  \/ Restart

Spec == Init /\ [][Next]_vars

-----------------------------------------------------------------------------
(* Properties.                                                             *)

Live(t) == tokens[t] # None /\ ~tokens[t].consumed /\ ~tokens[t].revoked

\* A family has at most one refresh token that can be rotated, and its tokens
\* form a chain: however presentations of one token race, it is rotated into
\* one other token.
OneChain ==
  \A t, u \in RefreshTokens :
    /\ tokens[t] # None /\ tokens[u] # None /\ t # u
    /\ tokens[t].family = tokens[u].family
    => /\ ~(Live(t) /\ Live(u))
       /\ tokens[t].parent # tokens[u].parent

\* No refresh token of a revoked family can be rotated, whichever revocation
\* ended it and whatever rotation it raced with.
RevokedFamilyDead ==
  \A t \in RefreshTokens :
    tokens[t] # None /\ FamilyOf(t).revoked => tokens[t].revoked

\* A code is exchanged once: a grant has at most one family.
CodeOnce ==
  \A f, g \in Families :
    /\ families[f] # None /\ families[g] # None
    /\ families[f].grant = families[g].grant
    => f = g

\* A revocation reaches every access token in the hands of a client: as long
\* as its family lives, the token is recorded with the family.
RevocationReaches ==
  \A a \in AccessTokens :
    a \in known /\ access[a].family # None =>
      LET f == access[a].family
      IN families[f].revoked \/ a \in families[f].claims

\* No request that begins after a revocation of its access token, or the
\* withdrawal of its consent, was completed is admitted, restarts included.
RevokedIsRefused == \A a \in AccessTokens : <<a, TRUE>> \notin granted

-----------------------------------------------------------------------------
(* Claims of the documentation that the code does not keep.                *)

\* "replay of a consumed token revokes the complete family and every unexpired
\* financial access token issued from that family": once nobody is cleaning up
\* a client holds no usable access token of a replayed family.
ReplayRevokesAll ==
  \A a \in AccessTokens :
    /\ a \in known /\ access[a].family \in replayed
    /\ \A h \in Handlers : Idling(h)
    => a \in revokedIds
=============================================================================
