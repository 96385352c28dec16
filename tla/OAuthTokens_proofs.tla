------------------------- MODULE OAuthTokens_proofs -------------------------
(***************************************************************************)
(* Proofs about OAuthTokens, for every value of its constants: types, the  *)
(* chain of a family's refresh tokens, the death of a revoked family, the  *)
(* single use of a code, the reach of a revocation and the refusal of a    *)
(* revoked access token.                                                   *)
(***************************************************************************)
EXTENDS OAuthTokens, TLAPS

\* What refers to a record refers to one that exists.
Linked ==
  /\ \A f \in Families : families[f] # None => grants[families[f].grant] # None
  /\ \A t \in RefreshTokens :
       tokens[t] # None => families[tokens[t].family] # None
  /\ \A a \in AccessTokens :
       access[a] # None /\ access[a].grant # None =>
         grants[access[a].grant] # None
  /\ \A a \in AccessTokens :
       access[a] # None /\ access[a].family # None =>
         families[access[a].family] # None
  /\ \A t \in RefreshTokens : t \in known => tokens[t] # None
  /\ \A a \in AccessTokens : a \in known => access[a] # None

\* So do the calls in progress.
CallLinked(c) ==
  /\ c.op \in {"consume", "issue", "withdraw", "revoke_consent"} =>
       c.grant # None /\ grants[c.grant] # None
  /\ c.op = "withdraw" => grants[c.grant].consent = "revoked"
  /\ c.op = "rotate" => c.token # None /\ tokens[c.token] # None
  /\ c.op \in {"check", "record"} =>
       /\ c.family # None /\ families[c.family] # None
       /\ c.token # None /\ tokens[c.token] # None
  /\ c.op = "record" =>
       /\ c.access # None /\ access[c.access] # None
       /\ access[c.access].family = c.family
  /\ c.op = "access" =>
       /\ c.access # None /\ access[c.access] # None
       /\ access[c.access].grant # None
       /\ c.late => grants[access[c.access].grant].consent = "revoked"

CallsLinked == \A h \in Handlers : CallLinked(calls[h])

\* The token another one was rotated from is spent, and of the same family.
ParentSpent ==
  \A t \in RefreshTokens :
    tokens[t] # None /\ tokens[t].parent # None =>
      /\ tokens[tokens[t].parent] # None
      /\ tokens[tokens[t].parent].consumed
      /\ tokens[tokens[t].parent].family = tokens[t].family

\* A family, or a handler about to create one, has used up the code of its
\* grant, and no two of them share a grant.
CodeSpent ==
  /\ \A f \in Families :
       families[f] # None => grants[families[f].grant].code = "consumed"
  /\ \A h \in Handlers : calls[h].op = "issue" =>
       /\ grants[calls[h].grant].code = "consumed"
       /\ \A f \in Families :
            families[f] # None => families[f].grant # calls[h].grant
       /\ \A g \in Handlers \ {h} :
            calls[g].op = "issue" => calls[g].grant # calls[h].grant

\* A completed revocation is remembered, a completed withdrawal has revoked.
Remembered ==
  /\ revoked \subseteq revocations /\ revoked \subseteq revokedIds
  /\ revokedIds \subseteq revocations
  /\ \A g \in withdrawn : grants[g] # None /\ grants[g].consent = "revoked"

Chains == OneChain /\ ParentSpent /\ RevokedFamilyDead
Codes  == CodeOnce /\ CodeSpent
Use    == Remembered /\ RevokedIsRefused

IInv == /\ TypeOK /\ Linked /\ CallsLinked
        /\ Chains /\ Codes /\ RevocationReaches /\ Use

-----------------------------------------------------------------------------
(* The start. *)

\* The first state has nothing that could refer to anything.
LEMMA InitInv == Init => IInv
  BY TokenAssumption
     DEF Init, IInv, TypeOK, Linked, CallsLinked, CallLinked, Chains, OneChain,
         ParentSpent, RevokedFamilyDead, Codes, CodeOnce, CodeSpent,
         RevocationReaches, Use, Remembered, RevokedIsRefused, Idle, Calls, Ops

-----------------------------------------------------------------------------
(* What the steps change. *)

(* A revocation sets flags and changes nothing else of families and tokens. *)
LEMMA Revocation ==
  ASSUME TypeOK, Linked, NEW F \in SUBSET Families,
         \A f \in F : families[f] # None, RevokeFamilies(F)
  PROVE  /\ families' \in [Families -> FamilyRecords \cup {None}]
         /\ tokens' \in [RefreshTokens -> TokenRecords \cup {None}]
         /\ \A f \in Families :
              /\ families'[f] = None <=> families[f] = None
              /\ families[f] # None =>
                   /\ families'[f].grant = families[f].grant
                   /\ families'[f].claims = families[f].claims
                   /\ families'[f].revoked <=> families[f].revoked \/ f \in F
         /\ \A t \in RefreshTokens :
              /\ tokens'[t] = None <=> tokens[t] = None
              /\ tokens[t] # None =>
                   /\ tokens'[t].family = tokens[t].family
                   /\ tokens'[t].parent = tokens[t].parent
                   /\ tokens'[t].consumed = tokens[t].consumed
                   /\ tokens'[t].revoked <=>
                        tokens[t].revoked \/ tokens[t].family \in F
  <1>1. ASSUME NEW f \in Families
        PROVE  /\ families'[f] \in FamilyRecords \cup {None}
               /\ families'[f] = None <=> families[f] = None
               /\ families[f] # None =>
                    /\ families'[f].grant = families[f].grant
                    /\ families'[f].claims = families[f].claims
                    /\ families'[f].revoked <=> families[f].revoked \/ f \in F
    <2>1. families[f] \in FamilyRecords \cup {None}
      BY DEF TypeOK
    <2>2. CASE f \in F
      <3>1. families'[f] = [families[f] EXCEPT !.revoked = TRUE]
        BY <2>2 DEF RevokeFamilies
      <3>2. families[f] \in FamilyRecords
        BY <2>1, <2>2
      <3> QED BY <2>2, <3>1, <3>2, TokenAssumption DEF FamilyRecords
    <2>3. CASE f \notin F
      BY <2>1, <2>3 DEF RevokeFamilies
    <2> QED BY <2>2, <2>3
  <1>2. ASSUME NEW t \in RefreshTokens
        PROVE  /\ tokens'[t] \in TokenRecords \cup {None}
               /\ tokens'[t] = None <=> tokens[t] = None
               /\ tokens[t] # None =>
                    /\ tokens'[t].family = tokens[t].family
                    /\ tokens'[t].parent = tokens[t].parent
                    /\ tokens'[t].consumed = tokens[t].consumed
                    /\ tokens'[t].revoked <=>
                         tokens[t].revoked \/ tokens[t].family \in F
    <2>1. tokens[t] \in TokenRecords \cup {None}
      BY DEF TypeOK
    <2>2. CASE tokens[t] # None /\ tokens[t].family \in F
      <3>1. tokens'[t] = [tokens[t] EXCEPT !.revoked = TRUE]
        BY <2>2 DEF RevokeFamilies
      <3>2. tokens[t] \in TokenRecords
        BY <2>1, <2>2
      <3> QED BY <2>2, <3>1, <3>2, TokenAssumption DEF TokenRecords
    <2>3. CASE ~(tokens[t] # None /\ tokens[t].family \in F)
      BY <2>1, <2>3 DEF RevokeFamilies
    <2> QED BY <2>2, <2>3
  <1>3. /\ families' = [f \in Families |-> families'[f]]
        /\ tokens' = [t \in RefreshTokens |-> tokens'[t]]
    BY DEF RevokeFamilies
  <1> QED BY <1>1, <1>2, <1>3

RevokesLiveFamilies ==
  \E F \in SUBSET Families :
    (\A f \in F : families[f] # None) /\ RevokeFamilies(F)

(* The families and the tokens change in four ways. *)
LEMMA FamilySteps ==
  ASSUME TypeOK, Linked, CallsLinked, [Next]_vars
  PROVE  \/ UNCHANGED <<families, tokens>>
         \/ \E h \in Handlers, f \in Families, t \in RefreshTokens,
               a \in AccessTokens : IssueFamily(h, f, t, a)
         \/ \E h \in Handlers : RecordAccessToken(h)
         \/ \E h \in Handlers, u \in RefreshTokens : RotateToken(h, u)
         \/ RevokesLiveFamilies
  <1>1. ASSUME NEW h \in Handlers, DetectReplay(h)
        PROVE  RevokesLiveFamilies
    <2>1. calls[h].token \in RefreshTokens /\ tokens[calls[h].token] # None
      BY <1>1 DEF DetectReplay, CallsLinked, CallLinked, TypeOK, Calls
    <2>2. tokens[calls[h].token].family \in Families
      BY <2>1 DEF TypeOK, TokenRecords
    <2> QED BY <1>1, <2>1, <2>2
            DEF DetectReplay, RevokesLiveFamilies, Linked
  <1>2. ASSUME NEW h \in Handlers, RevokeByConsent(h) \/ RevokeByService(h)
        PROVE  RevokesLiveFamilies
    BY <1>2 DEF RevokeByConsent, RevokeByService, RevokesLiveFamilies,
                FamiliesOfGrant, FamiliesOfService
  <1>3. ASSUME NEW h \in Handlers, NEW u \in Subjects,
               NEW s \in Services \cup {None}, RevokeBySubject(h, u, s)
        PROVE  RevokesLiveFamilies
    BY <1>3 DEF RevokeBySubject, RevokesLiveFamilies, FamiliesOfSubject
  <1>4. ASSUME NEW h \in Handlers, NEW t \in RefreshTokens, RevokeToken(h, t)
        PROVE  RevokesLiveFamilies
    <2>1. tokens[t] # None
      BY <1>4 DEF RevokeToken, Linked
    <2>2. tokens[t].family \in Families
      BY <2>1 DEF TypeOK, TokenRecords
    <2> QED BY <1>4, <2>1, <2>2 DEF RevokeToken, RevokesLiveFamilies, Linked
  <1> QED
    BY <1>1, <1>2, <1>3, <1>4
       DEF Next, Request, Progress, vars, stored, Approve, StartExchange,
           ConsumeCode, StartRefresh, RefuseToken, IssueRefreshed,
           RefuseRefresh, Withdraw, Suspend, Reactivate, StartRevokeAccess,
           RecordRevocation, IssueServiceToken, Present, Admit, QueryFails,
           Restart

(* What a step keeps of grants, access tokens and the rest. *)
LEMMA GrantsKept ==
  ASSUME TypeOK, CallsLinked, [Next]_vars, NEW g \in Grants, grants[g] # None
  PROVE  /\ grants'[g] # None
         /\ grants'[g].service = grants[g].service
         /\ grants'[g].subject = grants[g].subject
         /\ grants[g].consent = "revoked" => grants'[g].consent = "revoked"
         /\ grants[g].code = "consumed" => grants'[g].code = "consumed"
  <1>1. grants[g] \in GrantRecords
    BY DEF TypeOK
  <1>2. grants' \in [Grants -> GrantRecords \cup {None}] =>
          grants'[g] \in GrantRecords \cup {None}
    OBVIOUS
  <1>3. ASSUME NEW k \in Grants, NEW s \in Services, NEW u \in Subjects,
               Approve(k, s, u)
        PROVE  grants'[g] = grants[g]
    BY <1>3 DEF Approve, TypeOK
  <1>4. ASSUME NEW h \in Handlers, ConsumeCode(h)
        PROVE  \/ grants'[g] = grants[g]
               \/ grants'[g] = [grants[g] EXCEPT !.code = "consumed"]
    BY <1>4 DEF ConsumeCode, TypeOK
  <1>5. ASSUME NEW h \in Handlers, NEW k \in Grants, Withdraw(h, k)
        PROVE  \/ grants'[g] = grants[g]
               \/ grants'[g] = [grants[g] EXCEPT !.consent = "revoked"]
    BY <1>5 DEF Withdraw, TypeOK
  <1>6. \/ grants'[g] = grants[g]
        \/ grants'[g] = [grants[g] EXCEPT !.code = "consumed"]
        \/ grants'[g] = [grants[g] EXCEPT !.consent = "revoked"]
    <2>1. ASSUME NEW h \in Handlers, Request(h)
          PROVE  grants' = grants \/ \E k \in Grants : Withdraw(h, k)
      BY <2>1 DEF Request, stored, StartExchange, StartRefresh, RevokeToken,
                  Suspend, RevokeBySubject, StartRevokeAccess, Present
    <2>2. ASSUME NEW h \in Handlers, Progress(h)
          PROVE  grants' = grants \/ ConsumeCode(h)
      BY <2>2 DEF Progress, stored, IssueFamily, RecordAccessToken,
                  RefuseToken, DetectReplay, RotateToken, IssueRefreshed,
                  RefuseRefresh, RevokeByConsent, RevokeByService,
                  RecordRevocation, Admit
    <2>3. \/ grants' = grants
          \/ \E h \in Handlers, k \in Grants : Withdraw(h, k)
          \/ \E h \in Handlers : ConsumeCode(h)
          \/ \E k \in Grants, s \in Services, u \in Subjects :
               Approve(k, s, u)
      BY <2>1, <2>2 DEF Next, vars, stored, Reactivate, IssueServiceToken,
                        QueryFails, Restart
    <2> QED BY <2>3, <1>3, <1>4, <1>5
  <1>7. /\ [grants[g] EXCEPT !.code = "consumed"] \in GrantRecords
        /\ [grants[g] EXCEPT !.consent = "revoked"] \in GrantRecords
    BY <1>1 DEF GrantRecords
  <1> QED BY <1>1, <1>6, <1>7, TokenAssumption DEF GrantRecords

\* An access token, once issued, keeps what it was issued for.
LEMMA AccessKept ==
  ASSUME TypeOK, [Next]_vars, NEW a \in AccessTokens, access[a] # None
  PROVE  access'[a] = access[a]
  <1>1. ASSUME NEW h \in Handlers, Request(h)
        PROVE  access' = access
    BY <1>1 DEF Request, StartExchange, StartRefresh, RevokeToken, Withdraw,
                Suspend, RevokeBySubject, StartRevokeAccess, Present
  <1>2. ASSUME NEW h \in Handlers, Progress(h)
        PROVE  \/ access' = access
               \/ \E b \in AccessTokens : \E r :
                    access[b] = None /\ access' = [access EXCEPT ![b] = r]
    BY <1>2 DEF Progress, ConsumeCode, IssueFamily, RecordAccessToken,
                RefuseToken, DetectReplay, RotateToken, IssueRefreshed,
                RefuseRefresh, RevokeByConsent, RevokeByService,
                RecordRevocation, Admit
  <1>3. \/ access' = access
        \/ \E b \in AccessTokens : \E r :
             access[b] = None /\ access' = [access EXCEPT ![b] = r]
    BY <1>1, <1>2 DEF Next, vars, Approve, Reactivate, IssueServiceToken,
                      QueryFails, Restart
  <1> QED BY <1>3 DEF TypeOK

\* Families and refresh tokens stay, keep what they are for, and no mark is
\* taken back.
LEMMA FamiliesKept ==
  ASSUME TypeOK, Linked, CallsLinked, [Next]_vars
  PROVE  /\ \A f \in Families : families[f] # None =>
              /\ families'[f] # None
              /\ families'[f].grant = families[f].grant
              /\ families[f].revoked => families'[f].revoked
              /\ families[f].claims \subseteq families'[f].claims
         /\ \A t \in RefreshTokens : tokens[t] # None =>
              /\ tokens'[t] # None
              /\ tokens'[t].family = tokens[t].family
              /\ tokens'[t].parent = tokens[t].parent
              /\ tokens[t].consumed => tokens'[t].consumed
              /\ tokens[t].revoked => tokens'[t].revoked
  <1> DEFINE Kept ==
         /\ \A f \in Families : families[f] # None =>
              /\ families'[f] # None
              /\ families'[f].grant = families[f].grant
              /\ families[f].revoked => families'[f].revoked
              /\ families[f].claims \subseteq families'[f].claims
         /\ \A t \in RefreshTokens : tokens[t] # None =>
              /\ tokens'[t] # None
              /\ tokens'[t].family = tokens[t].family
              /\ tokens'[t].parent = tokens[t].parent
              /\ tokens[t].consumed => tokens'[t].consumed
              /\ tokens[t].revoked => tokens'[t].revoked
  <1>1. ASSUME NEW h \in Handlers, NEW f \in Families,
               NEW t \in RefreshTokens, NEW a \in AccessTokens,
               IssueFamily(h, f, t, a)
        PROVE  Kept
    BY <1>1 DEF IssueFamily, TypeOK
  <1>2. ASSUME NEW h \in Handlers, RecordAccessToken(h)
        PROVE  Kept
    <2> DEFINE k == calls[h].family
    <2>1. k \in Families /\ families[k] # None
      BY <1>2 DEF RecordAccessToken, CallsLinked, CallLinked, TypeOK, Calls
    <2>2. families[k] \in FamilyRecords
      BY <2>1 DEF TypeOK
    <2>3. \/ families' = families
          \/ families' = [families EXCEPT ![k] =
                [families[k] EXCEPT !.claims = @ \cup {calls[h].access}]]
      BY <1>2, <2>1, <2>2 DEF RecordAccessToken, TypeOK, FamilyRecords
    <2>4. ASSUME NEW r \in FamilyRecords, NEW A,
                 r = [families[k] EXCEPT !.claims = @ \cup A]
          PROVE  /\ r # None /\ r.grant = families[k].grant
                 /\ r.revoked = families[k].revoked
                 /\ families[k].claims \subseteq r.claims
      BY <2>2, <2>4, TokenAssumption DEF FamilyRecords
    <2>5. [families[k] EXCEPT !.claims = @ \cup {calls[h].access}]
            \in FamilyRecords
      BY <1>2, <2>2 DEF RecordAccessToken, FamilyRecords, CallsLinked,
                        CallLinked, TypeOK, Calls
    <2>6. tokens' = tokens
      BY <1>2 DEF RecordAccessToken
    <2> HIDE DEF k
    <2> QED BY <2>1, <2>3, <2>4, <2>5, <2>6 DEF TypeOK
  <1>3. ASSUME NEW h \in Handlers, NEW u \in RefreshTokens,
               RotateToken(h, u)
        PROVE  Kept
    <2> DEFINE t == calls[h].token
    <2>1. t \in RefreshTokens /\ tokens[t] # None
      BY <1>3 DEF RotateToken, CallsLinked, CallLinked, TypeOK, Calls
    <2>2. tokens[t] \in TokenRecords
      BY <2>1 DEF TypeOK
    <2>3. /\ families' = families /\ tokens[u] = None
          /\ tokens' = [tokens EXCEPT
                ![t] = [tokens[t] EXCEPT !.consumed = TRUE],
                ![u] = NewToken(tokens[t].family, t)]
      BY <1>3, <2>1 DEF RotateToken
    <2>4. ASSUME NEW r, r = [tokens[t] EXCEPT !.consumed = TRUE]
          PROVE  /\ r # None /\ r.family = tokens[t].family
                 /\ r.parent = tokens[t].parent
                 /\ r.consumed /\ r.revoked = tokens[t].revoked
      BY <2>2, <2>4, TokenAssumption DEF TokenRecords
    <2> HIDE DEF t
    <2> QED BY <2>1, <2>3, <2>4 DEF TypeOK
  <1>4. ASSUME RevokesLiveFamilies
        PROVE  Kept
    BY <1>4, Revocation DEF RevokesLiveFamilies
  <1>5. ASSUME UNCHANGED <<families, tokens>>
        PROVE  Kept
    BY <1>5
  <1> QED BY <1>1, <1>2, <1>3, <1>4, <1>5, FamilySteps

-----------------------------------------------------------------------------
(* Types. *)

\* What a waiting handler holds.
LEMMA CallShape ==
  ASSUME TypeOK, CallsLinked, NEW h \in Handlers
  PROVE  /\ calls[h] \in Calls
         /\ calls[h].op \in {"consume", "issue", "withdraw", "revoke_consent"}
              => calls[h].grant \in Grants
         /\ calls[h].op = "rotate" =>
              /\ calls[h].token \in RefreshTokens
              /\ tokens[calls[h].token] \in TokenRecords
         /\ calls[h].op \in {"check", "record"} =>
              /\ calls[h].family \in Families
              /\ families[calls[h].family] \in FamilyRecords
              /\ calls[h].token \in RefreshTokens
         /\ calls[h].op \in {"record", "access"} =>
              /\ calls[h].access \in AccessTokens
              /\ access[calls[h].access] \in AccessRecords
         /\ calls[h].todo \subseteq AccessTokens
  BY DEF TypeOK, CallsLinked, CallLinked, Calls

(* The calls a handler waits for are well formed. *)
LEMMA NewCalls ==
  /\ Idle \in Calls
  /\ \A g \in Grants :
       /\ [Idle EXCEPT !.op = "consume", !.grant = g] \in Calls
       /\ [Idle EXCEPT !.op = "withdraw", !.grant = g] \in Calls
       /\ [Idle EXCEPT !.op = "revoke_consent", !.grant = g] \in Calls
  /\ \A t \in RefreshTokens :
       [Idle EXCEPT !.op = "rotate", !.token = t] \in Calls
  /\ \A f \in Families, t \in RefreshTokens :
       [Idle EXCEPT !.op = "check", !.family = f, !.token = t] \in Calls
  /\ \A s \in Services :
       [Idle EXCEPT !.op = "revoke_service", !.service = s] \in Calls
  /\ \A A \in SUBSET AccessTokens :
       /\ [Idle EXCEPT !.op = "cleanup", !.todo = A] \in Calls
       /\ [Idle EXCEPT !.op = "client_revoke", !.todo = A] \in Calls
  /\ \A a \in AccessTokens, late \in BOOLEAN :
       [Idle EXCEPT !.op = "access", !.access = a, !.late = late] \in Calls
  /\ \A c \in Calls :
       /\ [c EXCEPT !.op = "issue"] \in Calls
       /\ \A f \in Families, t \in RefreshTokens, a \in AccessTokens :
            [c EXCEPT !.op = "record", !.family = f, !.token = t,
                      !.access = a] \in Calls
       /\ \A a \in AccessTokens :
            [c EXCEPT !.op = "record", !.access = a] \in Calls
       /\ \A A \in SUBSET AccessTokens : [c EXCEPT !.todo = A] \in Calls
  <1>1. Idle \in Calls
    BY DEF Idle, Calls, Ops
  <1>2. ASSUME NEW c \in Calls, NEW op \in Ops
        PROVE  [c EXCEPT !.op = op] \in Calls
    BY DEF Calls
  <1>4. ASSUME NEW c \in Calls
        PROVE  \A A \in SUBSET AccessTokens : [c EXCEPT !.todo = A] \in Calls
    BY DEF Calls
  <1>5. ASSUME NEW c \in Calls
        PROVE  [c EXCEPT !.op = "issue"] \in Calls
    BY <1>2 DEF Ops
  <1>6. ASSUME NEW c \in Calls, NEW f \in Families,
               NEW t \in RefreshTokens, NEW a \in AccessTokens
        PROVE  [c EXCEPT !.op = "record", !.family = f, !.token = t,
                         !.access = a] \in Calls
    BY DEF Calls, Ops
  <1>7. ASSUME NEW c \in Calls, NEW a \in AccessTokens
        PROVE  [c EXCEPT !.op = "record", !.access = a] \in Calls
    BY DEF Calls, Ops
  <1>8. \A g \in Grants :
          /\ [Idle EXCEPT !.op = "consume", !.grant = g] \in Calls
          /\ [Idle EXCEPT !.op = "withdraw", !.grant = g] \in Calls
          /\ [Idle EXCEPT !.op = "revoke_consent", !.grant = g] \in Calls
    BY DEF Idle, Calls, Ops
  <1>9. /\ \A t \in RefreshTokens :
             [Idle EXCEPT !.op = "rotate", !.token = t] \in Calls
        /\ \A f \in Families, t \in RefreshTokens :
             [Idle EXCEPT !.op = "check", !.family = f, !.token = t] \in Calls
        /\ \A s \in Services :
             [Idle EXCEPT !.op = "revoke_service", !.service = s] \in Calls
    BY DEF Idle, Calls, Ops
  <1>10. /\ \A A \in SUBSET AccessTokens :
              /\ [Idle EXCEPT !.op = "cleanup", !.todo = A] \in Calls
              /\ [Idle EXCEPT !.op = "client_revoke", !.todo = A] \in Calls
         /\ \A a \in AccessTokens, late \in BOOLEAN :
              [Idle EXCEPT !.op = "access", !.access = a, !.late = late]
                \in Calls
    BY DEF Idle, Calls, Ops
  <1> QED BY <1>1, <1>4, <1>5, <1>6, <1>7, <1>8, <1>9, <1>10

\* A handler that waits for a well-formed call keeps the calls well typed.
LEMMA WaitType ==
  ASSUME TypeOK, NEW h \in Handlers, NEW c \in Calls, Wait(h, c)
  PROVE  calls' \in [Handlers -> Calls]
  BY DEF Wait, TypeOK

\* A step leaves families and refresh tokens well typed.
LEMMA FamilyType ==
  ASSUME TypeOK, Linked, CallsLinked, [Next]_vars
  PROVE  /\ families' \in [Families -> FamilyRecords \cup {None}]
         /\ tokens' \in [RefreshTokens -> TokenRecords \cup {None}]
  <1>1. ASSUME NEW h \in Handlers, NEW f \in Families,
               NEW t \in RefreshTokens, NEW a \in AccessTokens,
               IssueFamily(h, f, t, a)
        PROVE  /\ families' \in [Families -> FamilyRecords \cup {None}]
               /\ tokens' \in [RefreshTokens -> TokenRecords \cup {None}]
    <2>1. calls[h].grant \in Grants
      BY <1>1, CallShape DEF IssueFamily
    <2>2. [grant |-> calls[h].grant, revoked |-> FALSE, claims |-> {}]
            \in FamilyRecords
      BY <2>1 DEF FamilyRecords
    <2>3. NewToken(f, None) \in TokenRecords
      BY DEF NewToken, TokenRecords
    <2> QED BY <1>1, <2>2, <2>3 DEF IssueFamily, TypeOK
  <1>2. ASSUME NEW h \in Handlers, RecordAccessToken(h)
        PROVE  /\ families' \in [Families -> FamilyRecords \cup {None}]
               /\ tokens' \in [RefreshTokens -> TokenRecords \cup {None}]
    <2> DEFINE k == calls[h].family
               r == [families[k] EXCEPT !.claims = @ \cup {calls[h].access}]
    <2>1. k \in Families /\ families[k] \in FamilyRecords
      BY <1>2, CallShape DEF RecordAccessToken
    <2>2. r \in FamilyRecords
      BY <1>2, <2>1, CallShape DEF RecordAccessToken, FamilyRecords
    <2>3. \/ families' = families
          \/ families' = [families EXCEPT ![k] = r]
      BY <1>2, <2>1 DEF RecordAccessToken, TypeOK
    <2>4. tokens' = tokens
      BY <1>2 DEF RecordAccessToken
    <2> HIDE DEF k, r
    <2> QED BY <2>1, <2>2, <2>3, <2>4 DEF TypeOK
  <1>3. ASSUME NEW h \in Handlers, NEW u \in RefreshTokens,
               RotateToken(h, u)
        PROVE  /\ families' \in [Families -> FamilyRecords \cup {None}]
               /\ tokens' \in [RefreshTokens -> TokenRecords \cup {None}]
    <2> DEFINE t == calls[h].token
               r == [tokens[t] EXCEPT !.consumed = TRUE]
               n == NewToken(tokens[t].family, t)
    <2>1. t \in RefreshTokens /\ tokens[t] \in TokenRecords
      BY <1>3, CallShape DEF RotateToken
    <2>2. r \in TokenRecords /\ n \in TokenRecords
      BY <2>1 DEF TokenRecords, NewToken
    <2>3. /\ families' = families
          /\ tokens' = [tokens EXCEPT ![t] = r, ![u] = n]
      BY <1>3 DEF RotateToken
    <2> HIDE DEF t, r, n
    <2> QED BY <2>1, <2>2, <2>3 DEF TypeOK
  <1>4. ASSUME RevokesLiveFamilies
        PROVE  /\ families' \in [Families -> FamilyRecords \cup {None}]
               /\ tokens' \in [RefreshTokens -> TokenRecords \cup {None}]
    BY <1>4, Revocation DEF RevokesLiveFamilies
  <1>5. ASSUME UNCHANGED <<families, tokens>>
        PROVE  /\ families' \in [Families -> FamilyRecords \cup {None}]
               /\ tokens' \in [RefreshTokens -> TokenRecords \cup {None}]
    BY <1>5 DEF TypeOK
  <1> QED BY <1>1, <1>2, <1>3, <1>4, <1>5, FamilySteps

(* What a call refers to stays. *)
LEMMA CallKept ==
  ASSUME IInv, [Next]_vars, NEW c \in Calls, CallLinked(c)
  PROVE  CallLinked(c)'
  <1> USE DEF IInv
  <1>1. c.grant # None /\ grants[c.grant] # None =>
          /\ grants'[c.grant] # None
          /\ grants[c.grant].consent = "revoked" =>
               grants'[c.grant].consent = "revoked"
    BY GrantsKept DEF Calls
  <1>2. c.family # None /\ families[c.family] # None =>
          families'[c.family] # None
    BY FamiliesKept DEF Calls
  <1>3. c.token # None /\ tokens[c.token] # None => tokens'[c.token] # None
    BY FamiliesKept DEF Calls
  <1>4. c.access # None /\ access[c.access] # None =>
          access'[c.access] = access[c.access]
    BY AccessKept DEF Calls
  <1>5. ASSUME c.op = "access"
        PROVE  /\ c.access # None /\ access'[c.access] # None
               /\ access'[c.access].grant # None
               /\ c.late => grants'[access'[c.access].grant].consent = "revoked"
    <2>1. /\ c.access \in AccessTokens /\ access[c.access] # None
          /\ access[c.access].grant # None
          /\ c.late => grants[access[c.access].grant].consent = "revoked"
      BY <1>5 DEF CallLinked, Calls
    <2>2. access[c.access].grant \in Grants
      BY <2>1 DEF TypeOK, AccessRecords
    <2>3. grants[access[c.access].grant] # None
      BY <2>1 DEF Linked
    <2>4. /\ grants'[access[c.access].grant] # None
          /\ grants[access[c.access].grant].consent = "revoked" =>
               grants'[access[c.access].grant].consent = "revoked"
      BY <2>2, <2>3, GrantsKept
    <2>5. c.access # None /\ access'[c.access] = access[c.access]
      BY <1>4, <2>1, TokenAssumption
    <2> QED BY <2>1, <2>4, <2>5
  <1> QED BY <1>1, <1>2, <1>3, <1>4, <1>5 DEF CallLinked

(* A step leaves the calls alone, changes one to a call that is well formed *)
(* and refers to what exists, or ends them all.                             *)
LEMMA CallSteps ==
  ASSUME IInv, [Next]_vars
  PROVE  \/ calls' = calls
         \/ calls' = [h \in Handlers |-> Idle]
         \/ \E h \in Handlers, c \in Calls : Wait(h, c) /\ CallLinked(c)'
  <1> USE DEF IInv
  <1> DEFINE Goes(h) == \/ calls' = calls
                        \/ \E c \in Calls : Wait(h, c) /\ CallLinked(c)'
  <1>idle. Idle \in Calls /\ CallLinked(Idle)'
    BY NewCalls DEF Idle, CallLinked
  <1>ret. ASSUME NEW h \in Handlers, Return(h) PROVE Goes(h)
    BY <1>ret, <1>idle DEF Return
  <1>wait. ASSUME NEW h \in Handlers, NEW c \in Calls, Wait(h, c),
                  CallLinked(c)
           PROVE  Goes(h)
    BY <1>wait, CallKept
  <1>1. ASSUME NEW h \in Handlers, NEW g \in Grants, StartExchange(h, g)
        PROVE  Goes(h)
    <2> DEFINE c == [Idle EXCEPT !.op = "consume", !.grant = g]
    <2>1. c \in Calls
      BY NewCalls
    <2>2. CallLinked(c)
      BY <1>1, TokenAssumption DEF StartExchange, CallLinked, Idle
    <2>3. Wait(h, c)
      BY <1>1 DEF StartExchange
    <2> HIDE DEF c
    <2> QED BY <2>1, <2>2, <2>3, <1>wait
  <1>2. ASSUME NEW h \in Handlers, NEW g \in Grants, Withdraw(h, g)
        PROVE  Goes(h)
    <2> DEFINE c == [Idle EXCEPT !.op = "withdraw", !.grant = g]
    <2>1. c \in Calls
      BY NewCalls
    <2>2. grants[g] \in GrantRecords
      BY <1>2 DEF Withdraw, TypeOK
    <2>3. grants'[g] # None /\ grants'[g].consent = "revoked"
      <3>1. grants'[g] = [grants[g] EXCEPT !.consent = "revoked"]
        BY <1>2 DEF Withdraw, TypeOK
      <3>2. [grants[g] EXCEPT !.consent = "revoked"] \in GrantRecords
        BY <2>2 DEF GrantRecords
      <3>3. [grants[g] EXCEPT !.consent = "revoked"].consent = "revoked"
        BY <2>2 DEF GrantRecords
      <3> QED BY <3>1, <3>2, <3>3, TokenAssumption
    <2>4. CallLinked(c)'
      BY <2>3, TokenAssumption DEF CallLinked, Idle
    <2>5. Wait(h, c)
      BY <1>2 DEF Withdraw
    <2> HIDE DEF c
    <2> QED BY <2>1, <2>4, <2>5
  <1>3. ASSUME NEW h \in Handlers, NEW t \in RefreshTokens, StartRefresh(h, t)
        PROVE  Goes(h)
    <2> DEFINE c == [Idle EXCEPT !.op = "rotate", !.token = t]
    <2>1. c \in Calls
      BY NewCalls
    <2>2. CallLinked(c)
      BY <1>3, TokenAssumption DEF StartRefresh, CallLinked, Idle, Linked
    <2>3. Wait(h, c)
      BY <1>3 DEF StartRefresh
    <2> HIDE DEF c
    <2> QED BY <2>1, <2>2, <2>3, <1>wait
  <1>4. ASSUME NEW h \in Handlers, NEW a \in AccessTokens, Present(h, a)
        PROVE  Goes(h)
    <2> DEFINE late == a \in revoked \/ access[a].grant \in withdrawn
               c == [Idle EXCEPT !.op = "access", !.access = a,
                                 !.late = late]
    <2>1. c \in Calls
      BY NewCalls
    <2>2. \/ calls' = calls
          \/ Wait(h, c) /\ access[a].grant # None
      BY <1>4 DEF Present
    <2>3. access[a] # None
      BY <1>4 DEF Present, Linked
    <2>4. late => access[a].grant \in withdrawn
      BY <1>4 DEF Present, Use, Remembered
    <2>5. late => grants[access[a].grant].consent = "revoked"
      BY <2>4 DEF Use, Remembered
    <2>6. access[a].grant # None => CallLinked(c)
      BY <2>3, <2>5, TokenAssumption DEF CallLinked, Idle
    <2> HIDE DEF c
    <2> QED BY <2>1, <2>2, <2>6, <1>wait
  <1>5. ASSUME NEW h \in Handlers, NEW A \in SUBSET AccessTokens,
               CleanUp(h, A)
        PROVE  Goes(h)
    <2> DEFINE c == [Idle EXCEPT !.op = "cleanup", !.todo = A]
    <2>1. c \in Calls
      BY NewCalls
    <2>2. CallLinked(c)
      BY DEF CallLinked, Idle
    <2>3. Wait(h, c) \/ Return(h)
      BY <1>5 DEF CleanUp
    <2> HIDE DEF c
    <2> QED BY <2>1, <2>2, <2>3, <1>wait, <1>ret
  <1>6. ASSUME NEW h \in Handlers, NEW s \in Services,
               Wait(h, [Idle EXCEPT !.op = "revoke_service", !.service = s])
        PROVE  Goes(h)
    <2> DEFINE c == [Idle EXCEPT !.op = "revoke_service", !.service = s]
    <2>1. c \in Calls
      BY NewCalls
    <2>2. CallLinked(c)
      BY DEF CallLinked, Idle
    <2>3. Wait(h, c)
      BY <1>6
    <2> HIDE DEF c
    <2> QED BY <2>1, <2>2, <2>3, <1>wait
  <1>7. ASSUME NEW h \in Handlers, NEW a \in AccessTokens,
               StartRevokeAccess(h, a)
        PROVE  Goes(h)
    <2> DEFINE c == [Idle EXCEPT !.op = "client_revoke", !.todo = {a}]
    <2>1. c \in Calls
      BY NewCalls
    <2>2. CallLinked(c)
      BY DEF CallLinked, Idle
    <2>3. Wait(h, c)
      BY <1>7 DEF StartRevokeAccess
    <2> HIDE DEF c
    <2> QED BY <2>1, <2>2, <2>3, <1>wait
  <1>8. ASSUME NEW h \in Handlers, Request(h)
        PROVE  Goes(h)
    <2>1. ASSUME NEW u \in Subjects, NEW s \in Services \cup {None},
                 RevokeBySubject(h, u, s)
          PROVE  Goes(h)
      <3> DEFINE A == UNION {families[f].claims : f \in FamiliesOfSubject(u, s)}
      <3>1. A \in SUBSET AccessTokens
        BY DEF FamiliesOfSubject, TypeOK, FamilyRecords
      <3>2. CleanUp(h, A)
        BY <2>1 DEF RevokeBySubject
      <3> HIDE DEF A
      <3> QED BY <3>1, <3>2, <1>5
    <2>2. ASSUME NEW t \in RefreshTokens, RevokeToken(h, t)
          PROVE  Goes(h)
      BY <2>2 DEF RevokeToken
    <2>3. ASSUME NEW s \in Services, Suspend(h, s)
          PROVE  Goes(h)
      BY <2>3, <1>6 DEF Suspend
    <2> HIDE DEF Goes
    <2> QED BY <1>8, <1>1, <1>2, <1>3, <1>4, <1>7, <2>1, <2>2, <2>3
            DEF Request
  <1>9. ASSUME NEW h \in Handlers, ConsumeCode(h)
        PROVE  Goes(h)
    <2> DEFINE c == [calls[h] EXCEPT !.op = "issue"]
    <2>1. c \in Calls
      BY CallShape, NewCalls
    <2>2. CallLinked(c)
      BY <1>9, CallShape DEF ConsumeCode, CallLinked, Calls, CallsLinked
    <2>3. Wait(h, c) \/ Return(h)
      BY <1>9 DEF ConsumeCode
    <2> HIDE DEF c
    <2> QED BY <2>1, <2>2, <2>3, <1>wait, <1>ret
  <1>10. ASSUME NEW h \in Handlers, NEW f \in Families, NEW t \in RefreshTokens,
                NEW a \in AccessTokens, IssueFamily(h, f, t, a)
         PROVE  Goes(h)
    <2> DEFINE n == [calls[h] EXCEPT !.op = "record", !.family = f,
                                     !.token = t, !.access = a]
               r == [service |-> grants[calls[h].grant].service,
                     grant |-> calls[h].grant, family |-> f]
    <2>1. PICK c \in Calls : c = n
      BY CallShape, NewCalls
    <2>2. calls[h] \in Calls /\ calls[h].grant \in Grants
      BY <1>10, CallShape DEF IssueFamily
    <2>3. /\ families'[f] = [grant |-> calls[h].grant, revoked |-> FALSE,
                             claims |-> {}]
          /\ tokens'[t] = NewToken(f, None)
          /\ access'[a] = r
      BY <1>10 DEF IssueFamily, TypeOK
    <2>4. /\ [grant |-> calls[h].grant, revoked |-> FALSE, claims |-> {}]
               \in FamilyRecords
          /\ NewToken(f, None) \in TokenRecords
      BY <2>2 DEF FamilyRecords, TokenRecords, NewToken
    <2>5. grants[calls[h].grant] \in GrantRecords
      BY <1>10, <2>2 DEF IssueFamily, TypeOK, CallsLinked, CallLinked
    <2>6. r \in AccessRecords
      BY <2>2, <2>5 DEF AccessRecords, GrantRecords
    <2>7. families'[f] # None /\ tokens'[t] # None /\ access'[a] # None
      BY <2>3, <2>4, <2>6, TokenAssumption
    <2>8. access'[a].family = f
      BY <2>3
    <2>9. /\ c.op = "record" /\ c.family = f /\ c.token = t /\ c.access = a
      BY <2>1, <2>2 DEF Calls
    <2>10. Wait(h, c)
      BY <1>10, <2>1 DEF IssueFamily
    <2> HIDE DEF n, r
    <2>11. CallLinked(c)'
      BY <2>7, <2>8, <2>9, TokenAssumption DEF CallLinked
    <2> QED BY <2>10, <2>11
  <1>11. ASSUME NEW h \in Handlers, NEW u \in RefreshTokens,
                RotateToken(h, u)
         PROVE  Goes(h)
    <2> DEFINE f == tokens[calls[h].token].family
               n == [Idle EXCEPT !.op = "check", !.family = f, !.token = u]
    <2>1. calls[h].token \in RefreshTokens /\ f \in Families
      BY <1>11, CallShape DEF RotateToken, TokenRecords
    <2>2. families[f] # None
      BY <1>11, <2>1, CallShape, TokenAssumption DEF RotateToken, Linked
    <2>3. tokens'[u] = NewToken(f, calls[h].token)
      BY <1>11, <2>1 DEF RotateToken, TypeOK
    <2>4. tokens'[u] # None
      <3>1. NewToken(f, calls[h].token) \in TokenRecords
        BY <2>1 DEF NewToken, TokenRecords
      <3> QED BY <2>3, <3>1, TokenAssumption
    <2>5. families'[f] # None
      BY <2>1, <2>2, FamiliesKept
    <2>6. PICK c \in Calls : c = n
      BY <2>1, NewCalls
    <2>7. Wait(h, c)
      BY <1>11, <2>6 DEF RotateToken
    <2>8. /\ c.op = "check" /\ c.family \in Families /\ c.token = u
          /\ families'[c.family] # None
      BY <2>1, <2>5, <2>6 DEF Idle
    <2> HIDE DEF n, f
    <2>9. CallLinked(c)'
      BY <2>4, <2>8, TokenAssumption DEF CallLinked
    <2> QED BY <2>7, <2>9
  <1>12. ASSUME NEW h \in Handlers, NEW a \in AccessTokens,
                IssueRefreshed(h, a)
         PROVE  Goes(h)
    <2> DEFINE f == calls[h].family
               n == [calls[h] EXCEPT !.op = "record", !.access = a]
               r == [service |-> GrantOf(f).service,
                     grant |-> families[f].grant, family |-> f]
    <2>1. /\ calls[h] \in Calls /\ f \in Families
          /\ families[f] \in FamilyRecords
          /\ calls[h].token \in RefreshTokens
      BY <1>12, CallShape DEF IssueRefreshed
    <2>2. PICK c \in Calls : c = n
      BY <2>1, NewCalls
    <2>3. GrantOf(f) \in GrantRecords
      BY <2>1, TokenAssumption DEF GrantOf, Linked, TypeOK, FamilyRecords
    <2>4. r \in AccessRecords
      BY <2>1, <2>3 DEF AccessRecords, GrantRecords, FamilyRecords
    <2>5. access'[a] = r
      BY <1>12 DEF IssueRefreshed, TypeOK
    <2>6. access'[a] # None /\ access'[a].family = f
      BY <2>4, <2>5, TokenAssumption
    <2>7. UNCHANGED <<families, tokens>>
      BY <1>12 DEF IssueRefreshed, stored
    <2>8. /\ f # None /\ families[f] # None
          /\ calls[h].token # None /\ tokens[calls[h].token] # None
      BY <1>12 DEF IssueRefreshed, CallsLinked, CallLinked
    <2>9. /\ c.op = "record" /\ c.family = f /\ c.access = a
          /\ c.token = calls[h].token
      BY <2>1, <2>2 DEF Calls
    <2>10. Wait(h, c)
      BY <1>12, <2>2 DEF IssueRefreshed
    <2>11. /\ c.family # None /\ families'[c.family] # None
           /\ c.token # None /\ tokens'[c.token] # None
           /\ c.access # None /\ access'[c.access] # None
           /\ access'[c.access].family = c.family
      BY <2>6, <2>7, <2>8, <2>9, TokenAssumption
    <2> HIDE DEF n, f, r
    <2>12. CallLinked(c)'
      BY <2>9, <2>11 DEF CallLinked
    <2> QED BY <2>10, <2>12
  <1>13. ASSUME NEW h \in Handlers, RefuseRefresh(h)
         PROVE  Goes(h)
    <2> DEFINE f == calls[h].family
               g == families[f].grant
               c == [Idle EXCEPT !.op = "revoke_consent", !.grant = g]
    <2>1. f \in Families /\ families[f] \in FamilyRecords
      BY <1>13, CallShape DEF RefuseRefresh
    <2>2. g \in Grants /\ grants[g] \in GrantRecords
      BY <2>1, TokenAssumption DEF FamilyRecords, Linked, TypeOK
    <2>3. GrantOf(f).service \in Services
      BY <2>2 DEF GrantOf, GrantRecords
    <2>4. CASE Wait(h, [Idle EXCEPT !.op = "revoke_service",
                                    !.service = GrantOf(f).service])
      BY <2>3, <2>4, <1>6
    <2>5. CASE Wait(h, c)
      <3>1. c \in Calls
        BY <2>2, NewCalls
      <3>2. CallLinked(c)
        BY <2>2, TokenAssumption DEF CallLinked, Idle
      <3> HIDE DEF c
      <3> QED BY <2>5, <3>1, <3>2, <1>wait
    <2> QED BY <1>13, <2>4, <2>5 DEF RefuseRefresh
  <1>14. ASSUME NEW h \in Handlers, DetectReplay(h)
         PROVE  Goes(h)
    <2> DEFINE f == tokens[calls[h].token].family
    <2>1. f \in Families
      BY <1>14, CallShape DEF DetectReplay, TokenRecords
    <2>2. families[f] \in FamilyRecords
      BY <1>14, <2>1, CallShape, TokenAssumption
         DEF DetectReplay, Linked, TypeOK
    <2>3. families[f].claims \in SUBSET AccessTokens
      BY <2>2 DEF FamilyRecords
    <2>4. CleanUp(h, families[f].claims)
      BY <1>14 DEF DetectReplay
    <2> QED BY <2>3, <2>4, <1>5
  <1>15. ASSUME NEW h \in Handlers, NEW a \in AccessTokens,
                RecordRevocation(h, a)
         PROVE  Goes(h)
    <2> DEFINE left == calls[h].todo \ {a}
               c == [calls[h] EXCEPT !.todo = left]
    <2>1. calls[h] \in Calls /\ left \in SUBSET AccessTokens
      BY CallShape
    <2>2. c \in Calls
      BY <2>1, NewCalls
    <2>3. c.op \in {"cleanup", "client_revoke"}
      BY <1>15, <2>1 DEF RecordRevocation, Calls
    <2>4. CallLinked(c)
      BY <2>3 DEF CallLinked
    <2>5. Wait(h, c) \/ Return(h)
      BY <1>15 DEF RecordRevocation
    <2> HIDE DEF c
    <2> QED BY <2>2, <2>4, <2>5, <1>wait, <1>ret
  <1>16. ASSUME NEW h \in Handlers, Progress(h)
         PROVE  Goes(h)
    <2>1. ASSUME \/ RecordAccessToken(h) \/ RefuseToken(h)
                 \/ RevokeByConsent(h) \/ RevokeByService(h) \/ Admit(h)
          PROVE  Goes(h)
      <3>1. Return(h)
        BY <2>1 DEF RecordAccessToken, RefuseToken, RevokeByConsent,
                    RevokeByService, Admit
      <3> QED BY <3>1, <1>ret
    <2> HIDE DEF Goes
    <2> QED BY <1>16, <1>9, <1>10, <1>11, <1>12, <1>13, <1>14, <1>15, <2>1
            DEF Progress
  <1>17. ASSUME NEW h \in Handlers, QueryFails(h)
         PROVE  Goes(h)
    BY <1>17, <1>ret DEF QueryFails
  <1>18. CASE UNCHANGED vars
    BY <1>18 DEF vars
  <1>19. ASSUME \/ \E g \in Grants, s \in Services, u \in Subjects :
                     Approve(g, s, u)
                \/ \E s \in Services : Reactivate(s)
                \/ \E s \in Services, a \in AccessTokens :
                     IssueServiceToken(s, a)
                \/ Restart
         PROVE  calls' = calls \/ calls' = [h \in Handlers |-> Idle]
    BY <1>19 DEF Approve, Reactivate, IssueServiceToken, Restart
  <1>20. (\E h \in Handlers : Goes(h)) \/ calls' = calls
           \/ calls' = [h \in Handlers |-> Idle]
    <2>1. CASE \E h \in Handlers : Request(h) \/ Progress(h) \/ QueryFails(h)
      <3> HIDE DEF Goes
      <3> QED BY <2>1, <1>8, <1>16, <1>17
    <2>2. CASE ~(\E h \in Handlers :
                   Request(h) \/ Progress(h) \/ QueryFails(h))
      BY <2>2, <1>18, <1>19 DEF Next
    <2> QED BY <2>1, <2>2
  <1> QED BY <1>20

\* A step leaves every call well typed and referring to what exists.
LEMMA CallsStep ==
  ASSUME IInv, [Next]_vars
  PROVE  calls' \in [Handlers -> Calls] /\ CallsLinked'
  <1> USE DEF IInv
  <1>1. Idle \in Calls /\ CallLinked(Idle)'
    BY NewCalls DEF Idle, CallLinked
  <1>2. \A h \in Handlers : calls[h] \in Calls /\ CallLinked(calls[h])
    BY DEF TypeOK, CallsLinked
  <1>3. ASSUME NEW h \in Handlers
        PROVE  \A c \in Calls : CallLinked(c) => CallLinked(c)'
    BY CallKept
  <1>4. ASSUME NEW h \in Handlers
        PROVE  calls'[h] \in Calls /\ CallLinked(calls[h])'
    <2>1. ASSUME NEW c \in Calls, CallLinked(c)', calls'[h] = c
          PROVE  calls'[h] \in Calls /\ CallLinked(calls[h])'
      BY <2>1 DEF CallLinked
    <2>2. CallLinked(calls[h]) /\ calls[h] \in Calls
      BY <1>2
    <2>3. \E c \in Calls : CallLinked(c)' /\ calls'[h] = c
      <3>1. PICK c \in Calls : c = calls[h]
        BY <2>2
      <3>2. CallLinked(c)
        BY <2>2, <3>1 DEF CallLinked
      <3>3. CallLinked(c)'
        BY <3>2, CallKept
      <3>4. calls'[h] = calls[h] => calls'[h] = c /\ CallLinked(c)'
        BY <3>1, <3>3
      <3>5. ASSUME NEW k \in Handlers, NEW d \in Calls, Wait(k, d)
            PROVE  calls'[h] = calls[h] \/ calls'[h] = d
        BY <3>5 DEF Wait, TypeOK
      <3>6. calls' = [k \in Handlers |-> Idle] => calls'[h] = Idle
        OBVIOUS
      <3> QED BY <1>1, <3>4, <3>5, <3>6, CallSteps
    <2> QED BY <2>1, <2>3
  <1>5. calls' = [h \in Handlers |-> calls'[h]]
    BY CallSteps DEF TypeOK, Wait
  <1> QED BY <1>4, <1>5 DEF CallsLinked

(* Where new records come from. *)
LEMMA NewFamily ==
  ASSUME IInv, [Next]_vars, NEW f \in Families,
         families[f] = None, families'[f] # None
  PROVE  \E h \in Handlers, t \in RefreshTokens, a \in AccessTokens :
           IssueFamily(h, f, t, a)
  <1> USE DEF IInv
  <1>1. ASSUME NEW h \in Handlers, RecordAccessToken(h)
        PROVE  FALSE
    <2>1. calls[h].family # f
      BY <1>1 DEF RecordAccessToken, CallsLinked, CallLinked
    <2> QED BY <1>1, <2>1 DEF RecordAccessToken, TypeOK
  <1>2. ASSUME NEW h \in Handlers, NEW u \in RefreshTokens, RotateToken(h, u)
        PROVE  FALSE
    BY <1>2 DEF RotateToken
  <1>3. ASSUME RevokesLiveFamilies
        PROVE  FALSE
    BY <1>3, Revocation DEF RevokesLiveFamilies
  <1>4. ASSUME NEW h \in Handlers, NEW g \in Families, NEW t \in RefreshTokens,
               NEW a \in AccessTokens, IssueFamily(h, g, t, a)
        PROVE  g = f
    BY <1>4 DEF IssueFamily, TypeOK
  <1> QED BY <1>1, <1>2, <1>3, <1>4, FamilySteps

\* A refresh token comes from an exchange or from a rotation.
LEMMA NewRefreshToken ==
  ASSUME IInv, [Next]_vars, NEW t \in RefreshTokens,
         tokens[t] = None, tokens'[t] # None
  PROVE  \/ \E h \in Handlers, f \in Families, a \in AccessTokens :
              IssueFamily(h, f, t, a)
         \/ \E h \in Handlers : RotateToken(h, t)
  <1> USE DEF IInv
  <1>1. ASSUME NEW h \in Handlers, RecordAccessToken(h)
        PROVE  FALSE
    BY <1>1 DEF RecordAccessToken
  <1>2. ASSUME NEW h \in Handlers, NEW u \in RefreshTokens, RotateToken(h, u)
        PROVE  u = t
    <2>1. calls[h].token # t
      BY <1>2, CallShape, TokenAssumption DEF RotateToken
    <2> QED BY <1>2, <2>1 DEF RotateToken, TypeOK
  <1>3. ASSUME RevokesLiveFamilies
        PROVE  FALSE
    BY <1>3, Revocation DEF RevokesLiveFamilies
  <1>4. ASSUME NEW h \in Handlers, NEW f \in Families, NEW u \in RefreshTokens,
               NEW a \in AccessTokens, IssueFamily(h, f, u, a)
        PROVE  u = t
    BY <1>4 DEF IssueFamily, TypeOK
  <1> QED BY <1>1, <1>2, <1>3, <1>4, FamilySteps

\* Access tokens are issued in three ways, and never change.
LEMMA AccessSteps ==
  ASSUME [Next]_vars
  PROVE  \/ access' = access
         \/ \E h \in Handlers, f \in Families, t \in RefreshTokens,
               a \in AccessTokens : IssueFamily(h, f, t, a)
         \/ \E h \in Handlers, a \in AccessTokens : IssueRefreshed(h, a)
         \/ \E s \in Services, a \in AccessTokens : IssueServiceToken(s, a)
  <1>1. ASSUME NEW h \in Handlers, Request(h)
        PROVE  access' = access
    BY <1>1 DEF Request, StartExchange, StartRefresh, RevokeToken, Withdraw,
                Suspend, RevokeBySubject, StartRevokeAccess, Present
  <1>2. ASSUME NEW h \in Handlers, Progress(h)
        PROVE  \/ access' = access
               \/ \E f \in Families, t \in RefreshTokens, a \in AccessTokens :
                    IssueFamily(h, f, t, a)
               \/ \E a \in AccessTokens : IssueRefreshed(h, a)
    BY <1>2 DEF Progress, ConsumeCode, RecordAccessToken,
                RefuseToken, DetectReplay, RotateToken,
                RefuseRefresh, RevokeByConsent, RevokeByService,
                RecordRevocation, Admit
  <1> QED BY <1>1, <1>2 DEF Next, vars, Approve, Reactivate, QueryFails,
                            Restart

(* The record of a new access token. *)
LEMMA NewAccess ==
  ASSUME IInv, [Next]_vars, NEW a \in AccessTokens,
         access[a] = None, access'[a] # None
  PROVE  /\ access'[a] \in AccessRecords
         /\ access'[a].grant # None => grants'[access'[a].grant] # None
         /\ access'[a].family # None => families'[access'[a].family] # None
         /\ a \in known' => access'[a].family = None
  <1> USE DEF IInv
  <1>1. ASSUME NEW h \in Handlers, NEW f \in Families, NEW t \in RefreshTokens,
               NEW b \in AccessTokens, IssueFamily(h, f, t, b)
        PROVE  /\ access'[a] \in AccessRecords
               /\ access'[a].grant # None => grants'[access'[a].grant] # None
               /\ families'[access'[a].family] # None
               /\ a \notin known'
    <2> DEFINE g == calls[h].grant
               r == [service |-> grants[g].service, grant |-> g, family |-> f]
    <2>1. g \in Grants /\ grants[g] \in GrantRecords
      BY <1>1, TokenAssumption
         DEF IssueFamily, CallsLinked, CallLinked, TypeOK, Calls
    <2>2. r \in AccessRecords
      BY <2>1 DEF AccessRecords, GrantRecords
    <2>3. access'[a] = r
      BY <1>1 DEF IssueFamily, TypeOK
    <2>4. a \notin known' /\ grants' = grants
      BY <1>1 DEF IssueFamily, history, Linked
    <2>5. families'[f] = [grant |-> g, revoked |-> FALSE, claims |-> {}]
      BY <1>1 DEF IssueFamily, TypeOK
    <2>6. families'[f] \in FamilyRecords
      BY <2>1, <2>5 DEF FamilyRecords
    <2> QED BY <2>1, <2>2, <2>3, <2>4, <2>6, TokenAssumption
  <1>2. ASSUME NEW h \in Handlers, NEW b \in AccessTokens,
               IssueRefreshed(h, b)
        PROVE  /\ access'[a] \in AccessRecords
               /\ access'[a].grant # None => grants'[access'[a].grant] # None
               /\ families'[access'[a].family] # None
               /\ a \notin known'
    <2> DEFINE f == calls[h].family
               r == [service |-> GrantOf(f).service,
                     grant |-> families[f].grant, family |-> f]
    <2>1. f \in Families /\ families[f] \in FamilyRecords
      BY <1>2, CallShape DEF IssueRefreshed
    <2>2. /\ families[f].grant \in Grants
          /\ grants[families[f].grant] \in GrantRecords
      BY <2>1, TokenAssumption DEF FamilyRecords, Linked, TypeOK
    <2>3. r \in AccessRecords
      BY <2>1, <2>2 DEF AccessRecords, GrantRecords, GrantOf
    <2>4. access'[a] = r
      BY <1>2 DEF IssueRefreshed, TypeOK
    <2>5. a \notin known' /\ grants' = grants /\ families' = families
      BY <1>2 DEF IssueRefreshed, history, stored, Linked
    <2> QED BY <2>1, <2>2, <2>3, <2>4, <2>5, TokenAssumption
  <1>3. ASSUME NEW s \in Services, NEW b \in AccessTokens,
               IssueServiceToken(s, b)
        PROVE  /\ access'[a] \in AccessRecords
               /\ access'[a].grant = None /\ access'[a].family = None
    <2>1. access'[a] = [service |-> s, grant |-> None, family |-> None]
      BY <1>3 DEF IssueServiceToken, TypeOK
    <2> QED BY <2>1 DEF AccessRecords
  <1> QED BY <1>1, <1>2, <1>3, AccessSteps

(* What a client comes to know. *)
LEMMA NewKnown ==
  ASSUME [Next]_vars
  PROVE  \/ known' = known
         \/ \E h \in Handlers : RecordAccessToken(h)
         \/ \E s \in Services, a \in AccessTokens : IssueServiceToken(s, a)
  <1>1. ASSUME NEW h \in Handlers, Request(h)
        PROVE  known' = known
    BY <1>1 DEF Request, StartExchange, StartRefresh, RevokeToken, Withdraw,
                Suspend, RevokeBySubject, StartRevokeAccess, Present, history
  <1>2. ASSUME NEW h \in Handlers, Progress(h)
        PROVE  known' = known \/ RecordAccessToken(h)
    BY <1>2 DEF Progress, ConsumeCode, IssueFamily,
                RefuseToken, DetectReplay, RotateToken, IssueRefreshed,
                RefuseRefresh, RevokeByConsent, RevokeByService,
                RecordRevocation, Admit, history
  <1> QED BY <1>1, <1>2 DEF Next, vars, Approve, Reactivate, QueryFails,
                            Restart, history

\* A step leaves no reference without its record.
LEMMA LinkedStep ==
  ASSUME IInv, [Next]_vars
  PROVE  Linked'
  <1> USE DEF IInv
  <1>1. ASSUME NEW f \in Families, families'[f] # None
        PROVE  grants'[families'[f].grant] # None
    <2>1. CASE families[f] # None
      <3>1. families[f].grant \in Grants /\ grants[families[f].grant] # None
        BY <2>1 DEF TypeOK, FamilyRecords, Linked
      <3> QED BY <2>1, <3>1, FamiliesKept, GrantsKept
    <2>2. CASE families[f] = None
      <3>1. PICK h \in Handlers, t \in RefreshTokens, a \in AccessTokens :
              IssueFamily(h, f, t, a)
        BY <1>1, <2>2, NewFamily
      <3>2. families'[f].grant = calls[h].grant /\ grants' = grants
        BY <3>1 DEF IssueFamily, TypeOK
      <3> QED BY <3>1, <3>2 DEF IssueFamily, CallsLinked, CallLinked
    <2> QED BY <2>1, <2>2
  <1>2. ASSUME NEW t \in RefreshTokens, tokens'[t] # None
        PROVE  families'[tokens'[t].family] # None
    <2>1. CASE tokens[t] # None
      <3>1. /\ tokens[t].family \in Families
            /\ families[tokens[t].family] # None
        BY <2>1 DEF TypeOK, TokenRecords, Linked
      <3> QED BY <2>1, <3>1, FamiliesKept
    <2>2. CASE tokens[t] = None
      <3>1. ASSUME NEW h \in Handlers, NEW f \in Families,
                   NEW a \in AccessTokens, IssueFamily(h, f, t, a)
            PROVE  families'[tokens'[t].family] # None
        <4>1. tokens'[t].family = f
          BY <3>1 DEF IssueFamily, NewToken, TypeOK
        <4>2. families'[f] = [grant |-> calls[h].grant, revoked |-> FALSE,
                              claims |-> {}]
          BY <3>1 DEF IssueFamily, TypeOK
        <4>3. [grant |-> calls[h].grant, revoked |-> FALSE, claims |-> {}]
                \in FamilyRecords
          BY <3>1, CallShape DEF IssueFamily, FamilyRecords
        <4> QED BY <4>1, <4>2, <4>3, TokenAssumption
      <3>2. ASSUME NEW h \in Handlers, RotateToken(h, t)
            PROVE  families'[tokens'[t].family] # None
        <4>1. /\ calls[h].token \in RefreshTokens
              /\ tokens[calls[h].token] \in TokenRecords
          BY <3>2, CallShape DEF RotateToken
        <4>2. tokens'[t].family = tokens[calls[h].token].family
          BY <3>2 DEF RotateToken, NewToken, TypeOK
        <4>3. families[tokens[calls[h].token].family] # None
          BY <4>1, TokenAssumption DEF Linked
        <4> QED BY <3>2, <4>2, <4>3 DEF RotateToken
      <3> QED BY <1>2, <2>2, <3>1, <3>2, NewRefreshToken
    <2> QED BY <2>1, <2>2
  <1>3. ASSUME NEW a \in AccessTokens, access'[a] # None,
               access'[a].grant # None
        PROVE  grants'[access'[a].grant] # None
    <2>1. CASE access[a] # None
      <3>1. access'[a] = access[a]
        BY <2>1, AccessKept
      <3>2. access[a].grant \in Grants /\ grants[access[a].grant] # None
        BY <1>3, <2>1, <3>1 DEF TypeOK, AccessRecords, Linked
      <3> QED BY <3>1, <3>2, GrantsKept
    <2> QED BY <1>3, <2>1, NewAccess
  <1>4. ASSUME NEW a \in AccessTokens, access'[a] # None,
               access'[a].family # None
        PROVE  families'[access'[a].family] # None
    <2>1. CASE access[a] # None
      <3>1. access'[a] = access[a]
        BY <2>1, AccessKept
      <3>2. /\ access[a].family \in Families
            /\ families[access[a].family] # None
        BY <1>4, <2>1, <3>1 DEF TypeOK, AccessRecords, Linked
      <3> QED BY <3>1, <3>2, FamiliesKept
    <2> QED BY <1>4, <2>1, NewAccess
  <1>5. ASSUME NEW h \in Handlers, RecordAccessToken(h)
        PROVE  /\ calls[h].token \in RefreshTokens
               /\ calls[h].access \in AccessTokens
               /\ tokens[calls[h].token] # None
               /\ access[calls[h].access] # None
               /\ known' = known \cup {calls[h].access, calls[h].token}
    BY <1>5, CallShape DEF RecordAccessToken, CallsLinked, CallLinked
  <1>6. ASSUME NEW t \in RefreshTokens, t \in known'
        PROVE  tokens'[t] # None
    <2>1. ASSUME NEW s \in Services, NEW a \in AccessTokens,
                 IssueServiceToken(s, a)
          PROVE  t \in known
      BY <1>6, <2>1, TokenAssumption DEF IssueServiceToken
    <2>2. ASSUME NEW h \in Handlers, RecordAccessToken(h)
          PROVE  t \in known \/ t = calls[h].token
      BY <1>5, <1>6, <2>2, TokenAssumption
    <2>3. tokens[t] # None
      BY <1>5, <1>6, <2>1, <2>2, NewKnown DEF Linked
    <2> QED BY <2>3, FamiliesKept
  <1>7. ASSUME NEW a \in AccessTokens, a \in known'
        PROVE  access'[a] # None
    <2>1. ASSUME NEW s \in Services, NEW b \in AccessTokens,
                 IssueServiceToken(s, b)
          PROVE  a \in known \/ access'[a] # None
      <3>1. CASE a = b
        <4>1. access'[a] = [service |-> s, grant |-> None, family |-> None]
          BY <2>1, <3>1 DEF IssueServiceToken, TypeOK
        <4>2. [service |-> s, grant |-> None, family |-> None]
                \in AccessRecords
          BY DEF AccessRecords
        <4> QED BY <4>1, <4>2, TokenAssumption
      <3> QED BY <1>7, <2>1, <3>1 DEF IssueServiceToken
    <2>2. ASSUME NEW h \in Handlers, RecordAccessToken(h)
          PROVE  access[a] # None
      BY <1>5, <1>7, <2>2, TokenAssumption DEF Linked
    <2>3. access[a] # None \/ access'[a] # None
      BY <1>7, <2>1, <2>2, NewKnown DEF Linked
    <2> QED BY <2>3, AccessKept
  <1> QED BY <1>1, <1>2, <1>3, <1>4, <1>6, <1>7 DEF Linked

-----------------------------------------------------------------------------
(* The parts of the invariant. *)

\* A step leaves the refresh tokens of a family in a chain, dead if it is
\* revoked.
LEMMA ChainsStep ==
  ASSUME IInv, [Next]_vars
  PROVE  Chains'
  <1> USE DEF IInv
  <1>0. OneChain /\ ParentSpent /\ RevokedFamilyDead
    BY DEF Chains
  <1>1. CASE UNCHANGED <<families, tokens>>
    BY <1>0, <1>1 DEF Chains, OneChain, ParentSpent, RevokedFamilyDead, Live,
                      FamilyOf
  <1>2. ASSUME NEW h \in Handlers, NEW f \in Families, NEW t \in RefreshTokens,
               NEW a \in AccessTokens, IssueFamily(h, f, t, a)
        PROVE  Chains'
    <2>1. /\ tokens[t] = None /\ families[f] = None
          /\ tokens' = [tokens EXCEPT ![t] = NewToken(f, None)]
          /\ families' = [families EXCEPT ![f] =
               [grant |-> calls[h].grant, revoked |-> FALSE, claims |-> {}]]
      BY <1>2 DEF IssueFamily
    <2>2. /\ tokens'[t] = NewToken(f, None)
          /\ \A u \in RefreshTokens \ {t} : tokens'[u] = tokens[u]
          /\ ~families'[f].revoked
          /\ \A g \in Families \ {f} : families'[g] = families[g]
      BY <2>1 DEF TypeOK
    <2>3. \A u \in RefreshTokens : tokens[u] # None =>
            /\ tokens[u].family \in Families
            /\ tokens[u].family # f
      BY <2>1 DEF Linked, TypeOK, TokenRecords
    <2>4. OneChain'
      <3> SUFFICES ASSUME NEW u \in RefreshTokens, NEW v \in RefreshTokens,
                          tokens'[u] # None, tokens'[v] # None, u # v,
                          tokens'[u].family = tokens'[v].family
                   PROVE  ~(Live(u) /\ Live(v))' /\ tokens'[u].parent # tokens'[v].parent
        BY DEF OneChain
      <3>1. u # t /\ v # t
        BY <2>2, <2>3 DEF NewToken
      <3>2. tokens'[u] = tokens[u] /\ tokens'[v] = tokens[v]
        BY <2>2, <3>1
      <3> QED BY <1>0, <3>2 DEF OneChain, Live
    <2>5. ParentSpent'
      <3> SUFFICES ASSUME NEW u \in RefreshTokens,
                          tokens'[u] # None, tokens'[u].parent # None
                   PROVE  /\ tokens'[tokens'[u].parent] # None
                          /\ tokens'[tokens'[u].parent].consumed
                          /\ tokens'[tokens'[u].parent].family = tokens'[u].family
        BY DEF ParentSpent
      <3>1. u # t
        BY <2>2 DEF NewToken
      <3>2. tokens'[u] = tokens[u]
        BY <2>2, <3>1
      <3>3. tokens[u].parent \in RefreshTokens
        BY <3>2 DEF TypeOK, TokenRecords
      <3>4. tokens[tokens[u].parent] # None
        BY <1>0, <3>2 DEF ParentSpent
      <3>5. tokens'[tokens[u].parent] = tokens[tokens[u].parent]
        BY <2>1, <2>2, <3>3, <3>4
      <3> QED BY <1>0, <3>2, <3>5 DEF ParentSpent
    <2>6. RevokedFamilyDead'
      <3> SUFFICES ASSUME NEW u \in RefreshTokens, tokens'[u] # None,
                          families'[tokens'[u].family].revoked
                   PROVE  tokens'[u].revoked
        BY DEF RevokedFamilyDead, FamilyOf
      <3>1. u # t
        BY <2>2 DEF NewToken
      <3>2. tokens'[u] = tokens[u]
        BY <2>2, <3>1
      <3>3. families'[tokens[u].family] = families[tokens[u].family]
        BY <2>2, <2>3, <3>2
      <3> QED BY <1>0, <3>2, <3>3 DEF RevokedFamilyDead, FamilyOf
    <2> QED BY <2>4, <2>5, <2>6 DEF Chains
  <1>3. ASSUME NEW h \in Handlers, RecordAccessToken(h)
        PROVE  Chains'
    <2> DEFINE k == calls[h].family
               n == [families[k] EXCEPT !.claims = @ \cup {calls[h].access}]
    <2>1. k \in Families /\ families[k] \in FamilyRecords
      BY <1>3, CallShape DEF RecordAccessToken
    <2>2. tokens' = tokens
      BY <1>3 DEF RecordAccessToken
    <2>3. families' = families \/ families' = [families EXCEPT ![k] = n]
      BY <1>3, <2>1 DEF RecordAccessToken, TypeOK
    <2>4. n.revoked = families[k].revoked
      BY <2>1 DEF FamilyRecords
    <2>5. \A f \in Families : families'[f].revoked = families[f].revoked
      <3> HIDE DEF k, n
      <3> QED BY <2>1, <2>3, <2>4 DEF TypeOK
    <2>6. \A t \in RefreshTokens :
            tokens[t] # None => tokens[t].family \in Families
      BY DEF TypeOK, TokenRecords
    <2>7. OneChain' /\ ParentSpent'
      BY <1>0, <2>2 DEF OneChain, ParentSpent, Live
    <2>8. RevokedFamilyDead'
      BY <1>0, <2>2, <2>5, <2>6 DEF RevokedFamilyDead, FamilyOf
    <2> QED BY <2>7, <2>8 DEF Chains
  <1>4. ASSUME NEW h \in Handlers, NEW n \in RefreshTokens, RotateToken(h, n)
        PROVE  Chains'
    <2>0. PICK t \in RefreshTokens : t = calls[h].token
      BY <1>4, CallShape DEF RotateToken
    <2> DEFINE f == tokens[t].family
               r == [tokens[t] EXCEPT !.consumed = TRUE]
    <2>1. tokens[t] \in TokenRecords /\ f \in Families
      BY <1>4, <2>0, CallShape DEF RotateToken, TokenRecords
    <2>2. /\ ~tokens[t].revoked /\ ~families[f].revoked /\ ~tokens[t].consumed
          /\ tokens[n] = None /\ families' = families
          /\ tokens' = [tokens EXCEPT ![t] = r, ![n] = NewToken(f, t)]
      BY <1>4, <2>0 DEF RotateToken, Dead, FamilyOf
    <2>3. t # n /\ tokens[t] # None
      BY <2>1, <2>2, TokenAssumption
    <2>4. /\ r.family = f /\ r.parent = tokens[t].parent
          /\ r.consumed /\ r.revoked = tokens[t].revoked
      BY <2>1 DEF TokenRecords
    <2>5. /\ tokens'[t] = r
          /\ tokens'[n] = NewToken(f, t)
          /\ \A u \in RefreshTokens \ {t, n} : tokens'[u] = tokens[u]
      BY <2>1, <2>2, <2>3 DEF TypeOK
    <2>6. /\ tokens'[n].family = f /\ tokens'[n].parent = t
          /\ ~tokens'[n].consumed
      BY <2>5 DEF NewToken
    \* The tokens there were keep all but their mark.
    <2>7. \A u \in RefreshTokens \ {n} :
            /\ tokens'[u] # None => tokens[u] # None
            /\ tokens'[u].family = tokens[u].family
            /\ tokens'[u].parent = tokens[u].parent
            /\ tokens'[u].revoked = tokens[u].revoked
            /\ u # t => tokens'[u].consumed = tokens[u].consumed
      BY <2>1, <2>3, <2>4, <2>5
    <2> HIDE DEF f, r
    <2>8. ASSUME NEW u \in RefreshTokens \ {n}, tokens'[u] # None,
                 tokens'[u].family = f
          PROVE  ~Live(u)' /\ tokens'[u].parent # t
      <3>1. tokens[u] # None /\ tokens[u].family = f
        BY <2>7, <2>8
      <3>2. Live(t)
        BY <2>2, <2>3 DEF Live
      <3>3. u # t => ~Live(u)
        BY <1>0, <2>1, <2>3, <3>1, <3>2 DEF OneChain, f
      <3>4. ~Live(u)'
        BY <2>4, <2>5, <2>7, <3>1, <3>3 DEF Live
      <3>5. tokens[u].parent # t
        BY <1>0, <2>1, <2>2, <3>1, TokenAssumption DEF ParentSpent
      <3> QED BY <2>7, <3>4, <3>5
    <2>9. OneChain'
      <3> SUFFICES ASSUME NEW u \in RefreshTokens, NEW v \in RefreshTokens,
                          tokens'[u] # None, tokens'[v] # None, u # v,
                          tokens'[u].family = tokens'[v].family
                   PROVE  /\ ~(Live(u) /\ Live(v))'
                          /\ tokens'[u].parent # tokens'[v].parent
        BY DEF OneChain
      <3>1. CASE u = n
        BY <2>6, <2>8, <3>1
      <3>2. CASE v = n
        BY <2>6, <2>8, <3>2
      <3>3. CASE u # n /\ v # n
        <4>1. /\ tokens[u] # None /\ tokens[v] # None
              /\ tokens[u].family = tokens[v].family
          BY <2>7, <3>3
        <4>2. ~(Live(u) /\ Live(v)) /\ tokens[u].parent # tokens[v].parent
          BY <1>0, <4>1 DEF OneChain
        <4>3. ~Live(t)'
          BY <2>4, <2>5 DEF Live
        <4>4. \A w \in {u, v} : Live(w)' => Live(w)
          <5> SUFFICES ASSUME NEW w \in {u, v}, Live(w)'
                       PROVE  Live(w)
            OBVIOUS
          <5>1. w # t
            BY <4>3
          <5> QED BY <2>7, <3>3, <5>1 DEF Live
        <4> QED BY <2>7, <3>3, <4>2, <4>4
      <3> QED BY <3>1, <3>2, <3>3
    <2>10. ParentSpent'
      <3> SUFFICES ASSUME NEW u \in RefreshTokens,
                          tokens'[u] # None, tokens'[u].parent # None
                   PROVE  /\ tokens'[tokens'[u].parent] # None
                          /\ tokens'[tokens'[u].parent].consumed
                          /\ tokens'[tokens'[u].parent].family
                               = tokens'[u].family
        BY DEF ParentSpent
      <3>1. CASE u = n
        <4>1. tokens'[t] # None
          BY <2>1, <2>3, FamiliesKept
        <4> QED BY <2>4, <2>5, <2>6, <3>1, <4>1
      <3>2. CASE u # n
        <4> DEFINE p == tokens[u].parent
        <4>1. tokens[u] # None /\ p = tokens'[u].parent
          BY <2>7, <3>2
        <4>2. /\ p \in RefreshTokens /\ tokens[p] # None
              /\ tokens[p].consumed
              /\ tokens[p].family = tokens[u].family
          BY <1>0, <4>1 DEF ParentSpent, TypeOK, TokenRecords
        <4>3. p # n /\ p # t
          BY <2>2, <4>2
        <4>4. tokens'[p] = tokens[p]
          BY <2>5, <4>2, <4>3
        <4> QED BY <2>7, <3>2, <4>1, <4>2, <4>4
      <3> QED BY <3>1, <3>2
    <2>11. RevokedFamilyDead'
      <3> SUFFICES ASSUME NEW u \in RefreshTokens, tokens'[u] # None,
                          families'[tokens'[u].family].revoked
                   PROVE  tokens'[u].revoked
        BY DEF RevokedFamilyDead, FamilyOf
      <3>1. u # n
        BY <2>2, <2>6
      <3>2. tokens[u].revoked
        BY <1>0, <2>2, <2>7, <3>1 DEF RevokedFamilyDead, FamilyOf
      <3> QED BY <2>7, <3>1, <3>2
    <2> QED BY <2>9, <2>10, <2>11 DEF Chains
  <1>5. ASSUME RevokesLiveFamilies
        PROVE  Chains'
    <2>1. PICK F \in SUBSET Families :
            (\A f \in F : families[f] # None) /\ RevokeFamilies(F)
      BY <1>5 DEF RevokesLiveFamilies
    <2>2. /\ \A f \in Families :
               /\ families'[f] = None <=> families[f] = None
               /\ families[f] # None =>
                    (families'[f].revoked <=> families[f].revoked \/ f \in F)
          /\ \A t \in RefreshTokens :
               /\ tokens'[t] = None <=> tokens[t] = None
               /\ tokens[t] # None =>
                    /\ tokens'[t].family = tokens[t].family
                    /\ tokens'[t].parent = tokens[t].parent
                    /\ tokens'[t].consumed = tokens[t].consumed
                    /\ tokens'[t].revoked <=>
                         tokens[t].revoked \/ tokens[t].family \in F
      BY <2>1, Revocation
    <2>3. \A t \in RefreshTokens : tokens[t] # None =>
            /\ tokens[t].family \in Families
            /\ families[tokens[t].family] # None
            /\ tokens[t].parent \in RefreshTokens \cup {None}
      BY DEF Linked, TypeOK, TokenRecords
    <2>4. OneChain'
      <3>1. \A t \in RefreshTokens : Live(t)' => Live(t)
        BY <2>2 DEF Live
      <3> QED BY <1>0, <2>2, <3>1 DEF OneChain
    <2>5. ParentSpent'
      BY <1>0, <2>2, <2>3 DEF ParentSpent
    <2>6. RevokedFamilyDead'
      BY <1>0, <2>2, <2>3 DEF RevokedFamilyDead, FamilyOf
    <2> QED BY <2>4, <2>5, <2>6 DEF Chains
  <1> QED BY <1>1, <1>2, <1>3, <1>4, <1>5, FamilySteps

(* A handler that is to issue a family has just consumed the code, or had. *)
LEMMA IssuingCalls ==
  ASSUME IInv, [Next]_vars, NEW h \in Handlers, calls'[h].op = "issue"
  PROVE  \/ calls'[h] = calls[h]
         \/ /\ calls'[h].grant = calls[h].grant
            /\ grants[calls[h].grant].code = "open"
            /\ grants'[calls[h].grant].code = "consumed"
            /\ families' = families
            /\ \A k \in Handlers \ {h} : calls'[k] = calls[k]
  <1> USE DEF IInv
  <1>1. ASSUME NEW k \in Handlers, Request(k)
        PROVE  calls'[h] = calls[h] \/ calls'[h].op # "issue"
    <2>1. ASSUME NEW c, Wait(k, c), c.op # "issue"
          PROVE  calls'[h] = calls[h] \/ calls'[h].op # "issue"
      BY <2>1 DEF Wait, TypeOK
    <2>2. calls' = calls \/ \E c : Wait(k, c) /\ c.op # "issue"
      <3>1. /\ Idle.op = "idle"
            /\ \A g : [Idle EXCEPT !.op = "consume", !.grant = g].op = "consume"
            /\ \A g : [Idle EXCEPT !.op = "withdraw", !.grant = g].op
                        = "withdraw"
            /\ \A t : [Idle EXCEPT !.op = "rotate", !.token = t].op = "rotate"
            /\ \A v : [Idle EXCEPT !.op = "revoke_service", !.service = v].op
                        = "revoke_service"
            /\ \A A : [Idle EXCEPT !.op = "cleanup", !.todo = A].op = "cleanup"
            /\ \A A : [Idle EXCEPT !.op = "client_revoke", !.todo = A].op
                        = "client_revoke"
            /\ \A a, late : [Idle EXCEPT !.op = "access", !.access = a,
                                          !.late = late].op = "access"
        BY DEF Idle
      <3>2. ASSUME NEW g \in Grants, StartExchange(k, g) \/ Withdraw(k, g)
            PROVE  \E c : Wait(k, c) /\ c.op # "issue"
        BY <3>1, <3>2 DEF StartExchange, Withdraw
      <3>3. ASSUME NEW t \in RefreshTokens,
                   StartRefresh(k, t) \/ RevokeToken(k, t)
            PROVE  calls' = calls \/ \E c : Wait(k, c) /\ c.op # "issue"
        <4>1. CASE StartRefresh(k, t)
          <5> DEFINE c == [Idle EXCEPT !.op = "rotate", !.token = t]
          <5>1. Wait(k, c)
            BY <4>1 DEF StartRefresh
          <5>2. c.op # "issue"
            BY <3>1
          <5> HIDE DEF c
          <5> QED BY <5>1, <5>2
        <4>2. CASE RevokeToken(k, t)
          BY <4>2 DEF RevokeToken
        <4> QED BY <3>3, <4>1, <4>2
      <3>4. ASSUME NEW v \in Services, Suspend(k, v)
            PROVE  \E c : Wait(k, c) /\ c.op # "issue"
        BY <3>1, <3>4 DEF Suspend
      <3>5. ASSUME NEW u \in Subjects, NEW v \in Services \cup {None},
                   RevokeBySubject(k, u, v)
            PROVE  \E c : Wait(k, c) /\ c.op # "issue"
        <4>1. Return(k)
                \/ \E A : Wait(k, [Idle EXCEPT !.op = "cleanup", !.todo = A])
          BY <3>5 DEF RevokeBySubject, CleanUp
        <4> QED BY <3>1, <4>1 DEF Return
      <3>6. ASSUME NEW a \in AccessTokens,
                   StartRevokeAccess(k, a) \/ Present(k, a)
            PROVE  calls' = calls \/ \E c : Wait(k, c) /\ c.op # "issue"
        <4>1. CASE StartRevokeAccess(k, a)
          <5> DEFINE c == [Idle EXCEPT !.op = "client_revoke", !.todo = {a}]
          <5>1. Wait(k, c)
            BY <4>1 DEF StartRevokeAccess
          <5>2. c.op # "issue"
            BY <3>1
          <5> HIDE DEF c
          <5> QED BY <5>1, <5>2
        <4>2. CASE Present(k, a)
          <5> DEFINE late == a \in revoked \/ access[a].grant \in withdrawn
                     c == [Idle EXCEPT !.op = "access", !.access = a,
                                       !.late = late]
          <5>1. calls' = calls \/ Wait(k, c)
            BY <4>2 DEF Present
          <5>2. c.op # "issue"
            BY DEF Idle
          <5> HIDE DEF c
          <5> QED BY <5>1, <5>2
        <4> QED BY <3>6, <4>1, <4>2
      <3> QED BY <1>1, <3>2, <3>3, <3>4, <3>5, <3>6 DEF Request
    <2> QED BY <2>1, <2>2
  <1>2. ASSUME NEW k \in Handlers, Progress(k), ~ConsumeCode(k)
        PROVE  calls'[h] = calls[h] \/ calls'[h].op # "issue"
    <2>1. /\ calls[k] \in Calls
          /\ \A c \in Calls : \A A : [c EXCEPT !.todo = A].op = c.op
          /\ \A c \in Calls : \A a : [c EXCEPT !.op = "record", !.access = a].op
                                      = "record"
          /\ \A c \in Calls : \A f, t, a :
               [c EXCEPT !.op = "record", !.family = f, !.token = t,
                         !.access = a].op = "record"
      BY DEF TypeOK, Calls
    <2>2. ASSUME \/ RecordAccessToken(k) \/ RefuseToken(k) \/ RevokeByConsent(k)
                 \/ RevokeByService(k) \/ Admit(k) \/ DetectReplay(k)
                 \/ RefuseRefresh(k)
                 \/ \E u \in RefreshTokens : RotateToken(k, u)
          PROVE  calls'[h] = calls[h] \/ calls'[h].op # "issue"
      <3>1. \/ Return(k)
            \/ \E A : Wait(k, [Idle EXCEPT !.op = "cleanup", !.todo = A])
            \/ \E g : Wait(k, [Idle EXCEPT !.op = "revoke_consent",
                                           !.grant = g])
            \/ \E v : Wait(k, [Idle EXCEPT !.op = "revoke_service",
                                           !.service = v])
            \/ \E f, u : Wait(k, [Idle EXCEPT !.op = "check", !.family = f,
                                              !.token = u])
        BY <2>2 DEF RecordAccessToken, RefuseToken, RevokeByConsent,
                    RevokeByService, Admit, DetectReplay, RefuseRefresh,
                    RotateToken, CleanUp
      <3>2. /\ Idle.op # "issue"
            /\ \A A : [Idle EXCEPT !.op = "cleanup", !.todo = A].op # "issue"
            /\ \A g : [Idle EXCEPT !.op = "revoke_consent", !.grant = g].op
                        # "issue"
            /\ \A v : [Idle EXCEPT !.op = "revoke_service", !.service = v].op
                        # "issue"
            /\ \A f, u : [Idle EXCEPT !.op = "check", !.family = f,
                                      !.token = u].op # "issue"
        BY DEF Idle
      <3>3. \E c : Wait(k, c) /\ c.op # "issue"
        BY <3>1, <3>2 DEF Return
      <3> QED BY <3>3 DEF Wait, TypeOK
    <2>3. ASSUME NEW f \in Families, NEW t \in RefreshTokens,
                 NEW a \in AccessTokens, IssueFamily(k, f, t, a)
          PROVE  calls'[h] = calls[h] \/ calls'[h].op # "issue"
      BY <2>1, <2>3 DEF IssueFamily, Wait, TypeOK
    <2>4. ASSUME NEW a \in AccessTokens, IssueRefreshed(k, a)
          PROVE  calls'[h] = calls[h] \/ calls'[h].op # "issue"
      BY <2>1, <2>4 DEF IssueRefreshed, Wait, TypeOK
    <2>5. ASSUME NEW a \in AccessTokens, RecordRevocation(k, a)
          PROVE  calls'[h] = calls[h] \/ calls'[h].op # "issue"
      <3>1. \E c : Wait(k, c) /\ c.op # "issue"
        <4>1. calls[k].op # "issue"
          BY <2>5 DEF RecordRevocation
        <4>2. Idle.op # "issue"
          BY DEF Idle
        <4> QED BY <2>1, <2>5, <4>1, <4>2 DEF RecordRevocation, Return
      <3> QED BY <3>1 DEF Wait, TypeOK
    <2> QED BY <1>2, <2>2, <2>3, <2>4, <2>5 DEF Progress
  <1>3. ASSUME NEW k \in Handlers, QueryFails(k)
        PROVE  calls'[h] = calls[h] \/ calls'[h].op # "issue"
    BY <1>3 DEF QueryFails, Wait, Return, Idle, TypeOK
  <1>4. ASSUME NEW k \in Handlers, ConsumeCode(k)
        PROVE  \/ calls'[h] = calls[h]
               \/ /\ calls'[h].grant = calls[h].grant
                  /\ grants[calls[h].grant].code = "open"
                  /\ grants'[calls[h].grant].code = "consumed"
                  /\ families' = families
                  /\ \A j \in Handlers \ {h} : calls'[j] = calls[j]
    <2> DEFINE g == calls[k].grant
               n == [calls[k] EXCEPT !.op = "issue"]
    <2>1. /\ calls[k] \in Calls /\ g \in Grants
          /\ grants[g] \in GrantRecords
      BY <1>4, CallShape, TokenAssumption
         DEF ConsumeCode, CallsLinked, CallLinked, TypeOK
    <2>2. n.grant = g
      BY <2>1 DEF Calls
    <2>3. CASE Return(k)
      BY <2>3 DEF Return, Wait, Idle, TypeOK
    <2>4. CASE Wait(k, n) /\ grants[g].code = "open"
      <3>1. grants' = [grants EXCEPT ![g] =
                         [grants[g] EXCEPT !.code = "consumed"]]
        BY <1>4, <2>4 DEF ConsumeCode
      <3>2. grants'[g].code = "consumed"
        BY <2>1, <3>1 DEF TypeOK, GrantRecords
      <3>3. families' = families
        BY <1>4 DEF ConsumeCode
      <3>4. \A j \in Handlers \ {k} : calls'[j] = calls[j]
        BY <2>4 DEF Wait, TypeOK
      <3>5. calls'[k] = n
        BY <2>4 DEF Wait, TypeOK
      <3> HIDE DEF n
      <3> QED BY <2>2, <2>4, <3>2, <3>3, <3>4, <3>5
    <2>5. Return(k) \/ (Wait(k, n) /\ grants[g].code = "open")
      BY <1>4 DEF ConsumeCode
    <2> QED BY <2>3, <2>4, <2>5
  <1>5. ASSUME \/ \E g \in Grants, s \in Services, u \in Subjects :
                    Approve(g, s, u)
               \/ \E s \in Services : Reactivate(s)
               \/ \E s \in Services, a \in AccessTokens :
                    IssueServiceToken(s, a)
               \/ Restart \/ UNCHANGED vars
        PROVE  calls'[h] = calls[h] \/ calls'[h].op # "issue"
    BY <1>5 DEF Approve, Reactivate, IssueServiceToken, Restart, vars, Idle
  <1> QED BY <1>1, <1>2, <1>3, <1>4, <1>5 DEF Next

\* A step leaves at most one family, or one handler about to create it, to a
\* code.
LEMMA CodesStep ==
  ASSUME IInv, [Next]_vars
  PROVE  Codes'
  <1> USE DEF IInv
  <1>0. CodeOnce /\ CodeSpent
    BY DEF Codes
  <1>1. \A f \in Families : families[f] # None =>
          /\ families'[f] # None /\ families'[f].grant = families[f].grant
          /\ families[f].grant \in Grants
          /\ grants[families[f].grant] # None
    BY FamiliesKept DEF TypeOK, FamilyRecords, Linked
  <1>2. ASSUME NEW f \in Families, families[f] = None, families'[f] # None
        PROVE  \E h \in Handlers :
                 /\ calls[h].op = "issue" /\ calls'[h].op # "issue"
                 /\ families'[f].grant = calls[h].grant
                 /\ calls[h].grant \in Grants
                 /\ grants' = grants
                 /\ \A g \in Families \ {f} : families'[g] = families[g]
    <2>1. PICK h \in Handlers, t \in RefreshTokens, a \in AccessTokens :
            IssueFamily(h, f, t, a)
      BY <1>2, NewFamily
    <2>2. /\ calls[h].op = "issue" /\ grants' = grants
          /\ families'[f].grant = calls[h].grant
          /\ \A g \in Families \ {f} : families'[g] = families[g]
      BY <2>1 DEF IssueFamily, TypeOK
    <2>3. calls[h] \in Calls /\ calls[h].grant \in Grants
      BY <2>2, CallShape
    <2>4. calls'[h].op # "issue"
      BY <2>1, <2>3 DEF IssueFamily, Wait, TypeOK, Calls
    <2> QED BY <2>2, <2>3, <2>4
  <1>3. CodeOnce'
    <2> SUFFICES ASSUME NEW f \in Families, NEW g \in Families,
                        families'[f] # None, families'[g] # None,
                        families'[f].grant = families'[g].grant, f # g
                 PROVE  FALSE
      BY DEF CodeOnce
    <2>1. CASE families[f] # None /\ families[g] # None
      BY <1>0, <1>1, <2>1 DEF CodeOnce
    <2>2. CASE families[f] = None
      BY <1>0, <1>1, <1>2, <2>2 DEF CodeSpent
    <2>3. CASE families[g] = None
      BY <1>0, <1>1, <1>2, <2>3 DEF CodeSpent
    <2> QED BY <2>1, <2>2, <2>3
  <1>4. ASSUME NEW f \in Families, families'[f] # None
        PROVE  grants'[families'[f].grant].code = "consumed"
    <2>1. CASE families[f] # None
      BY <1>0, <1>1, <2>1, GrantsKept DEF CodeSpent
    <2>2. CASE families[f] = None
      BY <1>0, <1>2, <1>4, <2>2 DEF CodeSpent
    <2> QED BY <2>1, <2>2
  <1>5. ASSUME NEW h \in Handlers, calls'[h].op = "issue"
        PROVE  /\ grants'[calls'[h].grant].code = "consumed"
               /\ \A f \in Families : families'[f] # None =>
                    families'[f].grant # calls'[h].grant
               /\ \A g \in Handlers \ {h} :
                    calls'[g].op = "issue" => calls'[g].grant # calls'[h].grant
    <2>1. CASE calls'[h] = calls[h]
      <3>1. /\ calls[h].grant \in Grants /\ grants[calls[h].grant] # None
            /\ calls[h].op = "issue"
            /\ grants[calls[h].grant].code = "consumed"
        BY <1>0, <1>5, <2>1, CallShape
           DEF CodeSpent, CallsLinked, CallLinked
      <3>2. grants'[calls'[h].grant].code = "consumed"
        BY <2>1, <3>1, GrantsKept
      <3>3. ASSUME NEW f \in Families, families'[f] # None
            PROVE  families'[f].grant # calls'[h].grant
        <4>1. CASE families[f] # None
          BY <1>0, <1>1, <2>1, <3>1, <4>1 DEF CodeSpent
        <4>2. CASE families[f] = None
          <5>1. PICK k \in Handlers :
                  /\ calls[k].op = "issue" /\ calls'[k].op # "issue"
                  /\ families'[f].grant = calls[k].grant
            BY <1>2, <3>3, <4>2
          <5>2. k # h
            BY <1>5, <5>1
          <5> QED BY <1>0, <2>1, <3>1, <5>1, <5>2 DEF CodeSpent
        <4> QED BY <4>1, <4>2
      <3>4. ASSUME NEW g \in Handlers \ {h}, calls'[g].op = "issue"
            PROVE  calls'[g].grant # calls'[h].grant
        <4>1. CASE calls'[g] = calls[g]
          BY <1>0, <2>1, <3>1, <3>4, <4>1 DEF CodeSpent
        <4>2. CASE /\ calls'[g].grant = calls[g].grant
                   /\ grants[calls[g].grant].code = "open"
          BY <2>1, <3>1, <4>2
        <4> QED BY <3>4, <4>1, <4>2, IssuingCalls
      <3> QED BY <3>2, <3>3, <3>4
    <2>2. CASE /\ calls'[h].grant = calls[h].grant
               /\ grants[calls[h].grant].code = "open"
               /\ grants'[calls[h].grant].code = "consumed"
               /\ families' = families
               /\ \A k \in Handlers \ {h} : calls'[k] = calls[k]
      <3>1. \A f \in Families : families'[f] # None =>
              families'[f].grant # calls'[h].grant
        BY <1>0, <2>2 DEF CodeSpent
      <3>2. \A g \in Handlers \ {h} :
              calls'[g].op = "issue" => calls'[g].grant # calls'[h].grant
        BY <1>0, <2>2 DEF CodeSpent
      <3> QED BY <2>2, <3>1, <3>2
    <2> QED BY <1>5, <2>1, <2>2, IssuingCalls
  <1> QED BY <1>3, <1>4, <1>5 DEF Codes, CodeSpent

\* A step that hands out an access token has recorded it, or found its family
\* revoked.
LEMMA ReachStep ==
  ASSUME IInv, [Next]_vars
  PROVE  RevocationReaches'
  <1> USE DEF IInv
  <1> SUFFICES ASSUME NEW a \in AccessTokens, a \in known',
                      access'[a].family # None
               PROVE  \/ families'[access'[a].family].revoked
                      \/ a \in families'[access'[a].family].claims
    BY DEF RevocationReaches
  <1>1. access[a] # None /\ access'[a] = access[a]
    <2>1. access'[a] # None
      BY LinkedStep DEF Linked
    <2> QED BY <2>1, NewAccess, AccessKept
  <1>2. PICK f \in Families : f = access[a].family
    BY <1>1 DEF TypeOK, AccessRecords
  <1>3. families[f] # None /\ families[f] \in FamilyRecords
    BY <1>1, <1>2 DEF Linked, TypeOK
  <1>4. CASE a \in known
    <2>1. families[f].revoked \/ a \in families[f].claims
      BY <1>1, <1>2, <1>4 DEF RevocationReaches
    <2> QED BY <1>1, <1>2, <1>3, <2>1, FamiliesKept
  <1>5. CASE a \notin known
    <2>1. ASSUME NEW s \in Services, NEW b \in AccessTokens,
                 IssueServiceToken(s, b)
          PROVE  FALSE
      BY <1>1, <1>5, <2>1 DEF IssueServiceToken
    <2>2. PICK h \in Handlers : RecordAccessToken(h)
      BY <1>5, <2>1, NewKnown
    <2>3. /\ calls[h].token \in RefreshTokens
          /\ calls[h].op = "record"
          /\ known' = known \cup {calls[h].access, calls[h].token}
      BY <2>2, CallShape DEF RecordAccessToken
    <2>4. a = calls[h].access
      BY <1>5, <2>3, TokenAssumption
    <2>5. f = calls[h].family
      BY <1>2, <2>3, <2>4 DEF CallsLinked, CallLinked
    <2>6. families' = IF families[f].revoked THEN families
                      ELSE [families EXCEPT ![f] =
                             [families[f] EXCEPT !.claims = @ \cup {a}]]
      BY <2>2, <2>4, <2>5 DEF RecordAccessToken
    <2>7. a \in [families[f] EXCEPT !.claims = @ \cup {a}].claims
      BY <1>3 DEF FamilyRecords
    <2>8. families'[f].revoked \/ a \in families'[f].claims
      <3>1. CASE families[f].revoked
        BY <2>6, <3>1
      <3>2. CASE ~families[f].revoked
        <4>1. families'[f] = [families[f] EXCEPT !.claims = @ \cup {a}]
          BY <2>6, <3>2 DEF TypeOK
        <4> QED BY <2>7, <4>1
      <3> QED BY <3>1, <3>2
    <2> QED BY <1>1, <1>2, <2>8
  <1> QED BY <1>4, <1>5

(* The histories and the revocations change in few steps. *)
LEMMA UseSteps ==
  ASSUME [Next]_vars
  PROVE  \/ UNCHANGED <<revocations, revokedIds, revoked, withdrawn, granted>>
         \/ \E h \in Handlers, a \in AccessTokens : RecordRevocation(h, a)
         \/ \E h \in Handlers : RevokeByConsent(h)
         \/ \E h \in Handlers, a \in AccessTokens : Present(h, a)
         \/ \E h \in Handlers : Admit(h)
         \/ \E h \in Handlers : QueryFails(h)
         \/ Restart
  <1>1. ASSUME NEW h \in Handlers, Request(h)
        PROVE  \/ UNCHANGED <<revocations, revokedIds, revoked, withdrawn,
                              granted>>
               \/ \E a \in AccessTokens : Present(h, a)
    BY <1>1 DEF Request, StartExchange, StartRefresh, RevokeToken, Withdraw,
                Suspend, RevokeBySubject, StartRevokeAccess, history
  <1>2. ASSUME NEW h \in Handlers, Progress(h)
        PROVE  \/ UNCHANGED <<revocations, revokedIds, revoked, withdrawn,
                              granted>>
               \/ \E a \in AccessTokens : RecordRevocation(h, a)
               \/ RevokeByConsent(h) \/ Admit(h)
    BY <1>2 DEF Progress, ConsumeCode, IssueFamily, RecordAccessToken,
                RefuseToken, DetectReplay, RotateToken, IssueRefreshed,
                RefuseRefresh, RevokeByService, history
  <1> QED BY <1>1, <1>2 DEF Next, vars, Approve, Reactivate,
                            IssueServiceToken, history

\* A step admits no request that began late, and forgets no revocation.
LEMMA UseStep ==
  ASSUME IInv, [Next]_vars
  PROVE  Use'
  <1> USE DEF IInv
  <1>0. Remembered /\ RevokedIsRefused
    BY DEF Use
  <1>1. \A g \in withdrawn : grants'[g] # None /\ grants'[g].consent = "revoked"
    BY <1>0, GrantsKept DEF Remembered, TypeOK
  <1>2. CASE UNCHANGED <<revocations, revokedIds, revoked, withdrawn, granted>>
    BY <1>0, <1>1, <1>2 DEF Use, Remembered, RevokedIsRefused
  <1>3. ASSUME NEW h \in Handlers, NEW a \in AccessTokens,
               RecordRevocation(h, a)
        PROVE  Use'
    <2>1. /\ revocations' = revocations \cup {a}
          /\ revokedIds' = revokedIds \cup {a}
          /\ revoked' = revoked \cup {a}
          /\ withdrawn' = withdrawn /\ granted' = granted
      BY <1>3 DEF RecordRevocation
    <2> QED BY <1>0, <1>1, <2>1 DEF Use, Remembered, RevokedIsRefused
  <1>4. ASSUME NEW h \in Handlers, RevokeByConsent(h)
        PROVE  Use'
    <2>1. /\ UNCHANGED <<grants, revocations, revokedIds, revoked, granted>>
          /\ withdrawn' = IF calls[h].op = "withdraw"
                          THEN withdrawn \cup {calls[h].grant} ELSE withdrawn
      BY <1>4 DEF RevokeByConsent
    <2>2. calls[h].op = "withdraw" =>
            /\ grants[calls[h].grant] # None
            /\ grants[calls[h].grant].consent = "revoked"
      BY DEF CallsLinked, CallLinked
    <2> QED BY <1>0, <1>1, <2>1, <2>2 DEF Use, Remembered, RevokedIsRefused
  <1>5. ASSUME NEW h \in Handlers, NEW a \in AccessTokens, Present(h, a)
        PROVE  Use'
    <2> DEFINE late == a \in revoked \/ access[a].grant \in withdrawn
    <2>1. /\ UNCHANGED <<revocations, revokedIds, revoked, withdrawn>>
          /\ \/ granted' = granted
             \/ access[a].grant = None /\ granted' = granted \cup {<<a, late>>}
          /\ a \notin revokedIds
      BY <1>5 DEF Present
    <2>2. access[a].grant = None => late = FALSE
      BY <1>0, <2>1, TokenAssumption DEF Remembered, TypeOK
    <2>3. RevokedIsRefused'
      <3> HIDE DEF late
      <3>1. granted' = granted \/ granted' = granted \cup {<<a, FALSE>>}
        BY <2>1, <2>2
      <3>2. ASSUME NEW b \in AccessTokens
            PROVE  <<b, TRUE>> \notin granted'
        <4>1. <<b, TRUE>> \notin granted
          BY <1>0 DEF RevokedIsRefused
        <4>2. <<b, TRUE>> # <<a, FALSE>>
          OBVIOUS
        <4> QED BY <3>1, <4>1, <4>2
      <3> QED BY <3>2 DEF RevokedIsRefused
    <2> QED BY <1>0, <1>1, <2>1, <2>3 DEF Use, Remembered
  <1>6. ASSUME NEW h \in Handlers, Admit(h)
        PROVE  Use'
    <2> DEFINE a == calls[h].access
    <2>1. /\ UNCHANGED <<revocations, revokedIds, revoked, withdrawn>>
          /\ granted' = IF grants[access[a].grant].consent = "active"
                        THEN granted \cup {<<a, calls[h].late>>} ELSE granted
          /\ calls[h].op = "access"
      BY <1>6 DEF Admit
    <2>2. calls[h].late => grants[access[a].grant].consent = "revoked"
      BY <2>1 DEF CallsLinked, CallLinked
    <2>3. RevokedIsRefused'
      BY <1>0, <2>1, <2>2 DEF RevokedIsRefused
    <2> QED BY <1>0, <1>1, <2>1, <2>3 DEF Use, Remembered
  <1>7. ASSUME NEW h \in Handlers, QueryFails(h)
        PROVE  Use'
    <2>1. /\ UNCHANGED <<revokedIds, revoked, withdrawn, granted>>
          /\ revocations \subseteq revocations'
      BY <1>7 DEF QueryFails, history
    <2> QED BY <1>0, <1>1, <2>1 DEF Use, Remembered, RevokedIsRefused
  <1>8. ASSUME Restart
        PROVE  Use'
    <2>1. /\ UNCHANGED <<revocations, revoked, withdrawn, granted>>
          /\ revokedIds' = revocations
      BY <1>8 DEF Restart, history
    <2> QED BY <1>0, <1>1, <2>1 DEF Use, Remembered, RevokedIsRefused
  <1> QED BY <1>2, <1>3, <1>4, <1>5, <1>6, <1>7, <1>8, UseSteps

(* Types of the variables the lemmas above leave. *)
LEMMA GrantType ==
  ASSUME IInv, [Next]_vars
  PROVE  grants' \in [Grants -> GrantRecords \cup {None}]
  <1> USE DEF IInv
  <1>1. ASSUME NEW g \in Grants, NEW s \in Services, NEW u \in Subjects,
               Approve(g, s, u)
        PROVE  grants' \in [Grants -> GrantRecords \cup {None}]
    <2>1. [service |-> s, subject |-> u, consent |-> "active",
           code |-> "open"] \in GrantRecords
      BY DEF GrantRecords
    <2> QED BY <1>1, <2>1 DEF Approve, TypeOK
  <1>2. ASSUME NEW h \in Handlers, ConsumeCode(h)
        PROVE  grants' \in [Grants -> GrantRecords \cup {None}]
    <2> DEFINE g == calls[h].grant
               r == [grants[g] EXCEPT !.code = "consumed"]
    <2>1. g \in Grants /\ grants[g] \in GrantRecords
      BY <1>2, CallShape DEF ConsumeCode, CallsLinked, CallLinked, TypeOK
    <2>2. r \in GrantRecords
      BY <2>1 DEF GrantRecords
    <2>3. grants' = grants \/ grants' = [grants EXCEPT ![g] = r]
      BY <1>2 DEF ConsumeCode
    <2> HIDE DEF g, r
    <2> QED BY <2>2, <2>3 DEF TypeOK
  <1>3. ASSUME NEW h \in Handlers, NEW g \in Grants, Withdraw(h, g)
        PROVE  grants' \in [Grants -> GrantRecords \cup {None}]
    <2> DEFINE r == [grants[g] EXCEPT !.consent = "revoked"]
    <2>1. grants[g] \in GrantRecords
      BY <1>3 DEF Withdraw, TypeOK
    <2>2. r \in GrantRecords
      BY <2>1 DEF GrantRecords
    <2>3. grants' = [grants EXCEPT ![g] = r]
      BY <1>3 DEF Withdraw
    <2> HIDE DEF r
    <2> QED BY <2>2, <2>3 DEF TypeOK
  <1>4. ASSUME NEW h \in Handlers, Request(h)
        PROVE  grants' = grants \/ \E k \in Grants : Withdraw(h, k)
    BY <1>4 DEF Request, stored, StartExchange, StartRefresh, RevokeToken,
                Suspend, RevokeBySubject, StartRevokeAccess, Present
  <1>5. ASSUME NEW h \in Handlers, Progress(h)
        PROVE  grants' = grants \/ ConsumeCode(h)
    BY <1>5 DEF Progress, stored, IssueFamily, RecordAccessToken,
                RefuseToken, DetectReplay, RotateToken, IssueRefreshed,
                RefuseRefresh, RevokeByConsent, RevokeByService,
                RecordRevocation, Admit
  <1>6. \/ grants' = grants
        \/ \E h \in Handlers, k \in Grants : Withdraw(h, k)
        \/ \E h \in Handlers : ConsumeCode(h)
        \/ \E k \in Grants, s \in Services, u \in Subjects : Approve(k, s, u)
    BY <1>4, <1>5 DEF Next, vars, stored, Reactivate, IssueServiceToken,
                      QueryFails, Restart
  <1> QED BY <1>1, <1>2, <1>3, <1>6 DEF TypeOK

\* A step leaves the access tokens well typed.
LEMMA AccessType ==
  ASSUME IInv, [Next]_vars
  PROVE  access' \in [AccessTokens -> AccessRecords \cup {None}]
  <1> USE DEF IInv
  <1>1. ASSUME NEW a \in AccessTokens
        PROVE  access'[a] \in AccessRecords \cup {None}
    BY NewAccess, AccessKept DEF TypeOK
  <1>2. access' = [a \in AccessTokens |-> access'[a]]
    BY AccessSteps DEF IssueFamily, IssueRefreshed, IssueServiceToken, TypeOK
  <1> QED BY <1>1, <1>2

UseTyped ==
  /\ revocations \subseteq AccessTokens /\ revokedIds \subseteq AccessTokens
  /\ revoked \subseteq AccessTokens /\ withdrawn \subseteq Grants
  /\ granted \subseteq AccessTokens \X BOOLEAN

\* A step leaves revocations and the record of admissions well typed.
LEMMA UseTypes ==
  ASSUME IInv, [Next]_vars
  PROVE  UseTyped'
  <1> USE DEF IInv
  <1>1. CASE UNCHANGED <<revocations, revokedIds, revoked, withdrawn, granted>>
    BY <1>1 DEF TypeOK, UseTyped
  <1>2. ASSUME NEW h \in Handlers, NEW a \in AccessTokens,
               RecordRevocation(h, a)
        PROVE  UseTyped'
    BY <1>2 DEF RecordRevocation, TypeOK, UseTyped
  <1>3. ASSUME NEW h \in Handlers, RevokeByConsent(h)
        PROVE  UseTyped'
    <2>1. calls[h].grant \in Grants
      BY <1>3, CallShape DEF RevokeByConsent
    <2> QED BY <1>3, <2>1 DEF RevokeByConsent, TypeOK, UseTyped
  <1>4. ASSUME NEW h \in Handlers, NEW a \in AccessTokens, Present(h, a)
        PROVE  UseTyped'
    <2> DEFINE late == a \in revoked \/ access[a].grant \in withdrawn
    <2>1. granted' = granted \/ granted' = granted \cup {<<a, late>>}
      BY <1>4 DEF Present
    <2>2. late \in BOOLEAN
      OBVIOUS
    <2>3. UNCHANGED <<revocations, revokedIds, revoked, withdrawn>>
      BY <1>4 DEF Present
    <2> HIDE DEF late
    <2> QED BY <2>1, <2>2, <2>3 DEF TypeOK, UseTyped
  <1>5. ASSUME NEW h \in Handlers, Admit(h)
        PROVE  UseTyped'
    <2>1. calls[h].access \in AccessTokens /\ calls[h].late \in BOOLEAN
      BY <1>5, CallShape DEF Admit, Calls
    <2> QED BY <1>5, <2>1 DEF Admit, TypeOK, UseTyped
  <1>6. ASSUME NEW h \in Handlers, QueryFails(h)
        PROVE  UseTyped'
    <2>1. calls[h].todo \subseteq AccessTokens
      BY CallShape
    <2> QED BY <1>6, <2>1 DEF QueryFails, history, TypeOK, UseTyped
  <1>7. ASSUME Restart
        PROVE  UseTyped'
    BY <1>7 DEF Restart, history, TypeOK, UseTyped
  <1> QED BY <1>1, <1>2, <1>3, <1>4, <1>5, <1>6, <1>7, UseSteps

\* A step leaves the remaining variables well typed.
LEMMA OtherTypes ==
  ASSUME IInv, [Next]_vars
  PROVE  /\ suspended' \subseteq Services
         /\ known' \subseteq RefreshTokens \cup AccessTokens
         /\ replayed' \subseteq Families
         /\ faults' \in 0 .. MaxFaults
  <1> USE DEF IInv
  <1>1. known' \subseteq RefreshTokens \cup AccessTokens
    <2>1. ASSUME NEW h \in Handlers, RecordAccessToken(h)
          PROVE  known' \subseteq RefreshTokens \cup AccessTokens
      <3>1. /\ calls[h].token \in RefreshTokens
            /\ calls[h].access \in AccessTokens
        BY <2>1, CallShape DEF RecordAccessToken
      <3> QED BY <2>1, <3>1 DEF RecordAccessToken, TypeOK
    <2>2. ASSUME NEW s \in Services, NEW a \in AccessTokens,
                 IssueServiceToken(s, a)
          PROVE  known' \subseteq RefreshTokens \cup AccessTokens
      BY <2>2 DEF IssueServiceToken, TypeOK
    <2> QED BY <2>1, <2>2, NewKnown DEF TypeOK
  <1>2. /\ suspended' \subseteq Services
        /\ faults' \in {faults, faults + 1}
        /\ faults' # faults => faults < MaxFaults
    <2>1. ASSUME NEW h \in Handlers, Request(h)
          PROVE  suspended' \subseteq Services /\ faults' = faults
      BY <2>1 DEF Request, StartExchange, StartRefresh, RevokeToken, Withdraw,
                  Suspend, RevokeBySubject, StartRevokeAccess, Present, TypeOK
    <2>2. ASSUME NEW h \in Handlers, Progress(h)
          PROVE  suspended' = suspended /\ faults' = faults
      BY <2>2 DEF Progress, ConsumeCode, IssueFamily, RecordAccessToken,
                  RefuseToken, DetectReplay, RotateToken, IssueRefreshed,
                  RefuseRefresh, RevokeByConsent, RevokeByService,
                  RecordRevocation, Admit
    <2> QED BY <2>1, <2>2
            DEF Next, vars, Approve, Reactivate, IssueServiceToken,
                QueryFails, Restart, TypeOK
  <1>3. replayed' \subseteq Families
    <2>1. ASSUME NEW h \in Handlers, Request(h)
          PROVE  replayed' = replayed
      BY <2>1 DEF Request, StartExchange, StartRefresh, RevokeToken, Withdraw,
                  Suspend, RevokeBySubject, StartRevokeAccess, Present, history
    <2>2. ASSUME NEW h \in Handlers, Progress(h)
          PROVE  replayed' = replayed \/ DetectReplay(h)
      BY <2>2 DEF Progress, ConsumeCode, IssueFamily, RecordAccessToken,
                  RefuseToken, RotateToken, IssueRefreshed,
                  RefuseRefresh, RevokeByConsent, RevokeByService,
                  RecordRevocation, Admit, history
    <2>3. ASSUME NEW h \in Handlers, DetectReplay(h)
          PROVE  replayed' \subseteq Families
      <3>1. tokens[calls[h].token].family \in Families
        BY <2>3, CallShape DEF DetectReplay, TokenRecords
      <3> QED BY <2>3, <3>1 DEF DetectReplay, TypeOK
    <2>4. replayed' = replayed \/ \E h \in Handlers : DetectReplay(h)
      BY <2>1, <2>2 DEF Next, vars, Approve, Reactivate, IssueServiceToken,
                        QueryFails, Restart, history
    <2> QED BY <2>3, <2>4 DEF TypeOK
  <1> QED BY <1>1, <1>2, <1>3, TokenAssumption DEF TypeOK

\* Every step preserves the invariant.
LEMMA StepInv == IInv /\ [Next]_vars => IInv'
  <1> SUFFICES ASSUME IInv, [Next]_vars
               PROVE  IInv'
    OBVIOUS
  <1>1. TypeOK /\ Linked /\ CallsLinked
    BY DEF IInv
  <1>2. TypeOK'
    BY <1>1, GrantType, FamilyType, AccessType, UseTypes, OtherTypes, CallsStep
       DEF TypeOK, UseTyped
  <1> QED BY <1>2, LinkedStep, CallsStep, ChainsStep, CodesStep, ReachStep,
             UseStep DEF IInv

-----------------------------------------------------------------------------
(* Theorems. *)

\* The inductive invariant holds in every reachable state.
THEOREM Invariance == Spec => []IInv
  BY InitInv, StepInv, PTL DEF Spec

\* Every reachable state is well typed: no handler waits with a half-made call
\* and no stored row lacks a value.
THEOREM Types == Spec => []TypeOK
  <1>1. IInv => TypeOK
    BY DEF IInv
  <1> QED BY <1>1, Invariance, PTL

\* However many presentations of refresh tokens race, a family has at most one
\* token that can be rotated and no token is rotated twice.
THEOREM Chain == Spec => []OneChain
  <1>1. IInv => OneChain
    BY DEF IInv, Chains
  <1> QED BY <1>1, Invariance, PTL

\* No refresh token survives the revocation of its family.
THEOREM Death == Spec => []RevokedFamilyDead
  <1>1. IInv => RevokedFamilyDead
    BY DEF IInv, Chains
  <1> QED BY <1>1, Invariance, PTL

\* A code is exchanged for at most one family.
THEOREM SingleUse == Spec => []CodeOnce
  <1>1. IInv => CodeOnce
    BY DEF IInv, Codes
  <1> QED BY <1>1, Invariance, PTL

\* Every access token in a client's hands is recorded with its family, so that
\* the revocation of the family finds it, or the family is revoked already.
THEOREM Reach == Spec => []RevocationReaches
  <1>1. IInv => RevocationReaches
    BY DEF IInv
  <1> QED BY <1>1, Invariance, PTL

\* No request that begins after a completed revocation or withdrawal is
\* admitted, whatever fails and however often the process restarts.
THEOREM Refusal == Spec => []RevokedIsRefused
  <1>1. IInv => RevokedIsRefused
    BY DEF IInv, Use
  <1> QED BY <1>1, Invariance, PTL
=============================================================================
