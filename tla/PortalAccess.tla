----------------------------- MODULE PortalAccess -----------------------------
(***************************************************************************)
(* Accounts and sessions of the developer portal: sign-in with a second    *)
(* factor, enrolment and step-up, sign-out, the reset of a password or of  *)
(* a factor, sign-up with verification of the e-mail address, invitations  *)
(* and the administration of accounts.                                     *)
(*                                                                         *)
(* A session is a row of the database and an entry of the set              *)
(* activeSessions in memory; only the set is asked when a token is         *)
(* presented.  A query is one step; a transaction is one for what it finds *)
(* and voids, and one for its commit.  Handlers work on the account row    *)
(* they read first.  Passwords, secrets and the text of mailed or backup   *)
(* codes are reduced to whether they match; a request that is refused      *)
(* changes nothing but the audit log and is left out.                      *)
(***************************************************************************)
EXTENDS Naturals, FiniteSets

CONSTANTS
  Users,           \* e-mail addresses
  Admin,           \* the one whose account is created at the first start
  Sessions,        \* random identifiers
  AdminSession,    \* a session of Admin's, open from the beginning
  RecoveryCodes,   \* each stands for a set of ten
  FirstCode,
  Resets, Invitations,
  Handlers,
  MaxCounter,      \* bound: time steps of the authenticator
  MaxAttempts,     \* failures until sign-in with a factor is locked
  MaxGuesses,      \* failures until a verification code is of no use
  MaxRequests,     \* bound: requests
  MaxFaults,       \* bound: failed queries and restarts
  None

Roles == {"developer", "admin"}

\* secret: a secret is stored; counter: the last one accepted, or 0.
AccountRecords ==
  [role : Roles, verified : BOOLEAN, enabled : BOOLEAN,
   mfa : {"disabled", "pending", "active"}, secret : BOOLEAN,
   counter : 0 .. MaxCounter, required : BOOLEAN,
   failures : 0 .. MaxAttempts, locked : BOOLEAN]

\* role and mfa are claims of the signed token; code is history: the recovery
\* code that opened the session.
SessionRecords ==
  [user : Users, role : Roles, mfa : BOOLEAN,
   code : RecoveryCodes \cup {None}, revoked : BOOLEAN]

CodeRecords == [user : Users, used : BOOLEAN]

ResetRecords == [user : Users, consumed : BOOLEAN]

\* due: its time has run out.
InvitationRecords ==
  [user : Users, role : Roles, due : BOOLEAN,
   status : {"pending", "accepted", "revoked", "expired"}]

ASSUME PortalAssumption ==
  /\ Admin \in Users /\ AdminSession \in Sessions
  /\ FirstCode \in RecoveryCodes
  /\ None \notin Users \cup Sessions \cup RecoveryCodes \cup Resets
                 \cup Invitations \cup Handlers
  /\ None \notin AccountRecords \cup SessionRecords \cup CodeRecords
                 \cup ResetRecords \cup InvitationRecords
  /\ None \notin Nat
  /\ MaxCounter \in Nat \ {0} /\ MaxAttempts \in Nat \ {0}
  /\ MaxGuesses \in Nat \ {0}
  /\ MaxRequests \in Nat /\ MaxFaults \in Nat

Steps ==
  {"idle", "recovery", "counter", "failure", "clear", "insert", "add",
   "enroll", "activate", "codes", "codes commit", "step up", "replace",
   "logout", "link", "link commit", "password", "password commit", "wipe", "wipe commit", "update",
   "create", "signup", "code", "verify", "verified", "missed",
   "invite", "expire", "accept"}

\* What a handler waits for.  seen: the account row it read, or the one it is
\* to write; own: the session of the request, or the one being opened; names:
\* the form of an edit names the role; rows: what an open transaction has voided; ends: the sessions a reset revokes, of
\* which `open` were active.
Calls ==
  [do : Steps, user : Users \cup {None}, seen : AccountRecords \cup {None},
   otp : 0 .. MaxCounter, code : RecoveryCodes \cup {None}, mfa : BOOLEAN,
   own : Sessions \cup {None}, reset : Resets \cup {None},
   invitation : Invitations \cup {None}, names : BOOLEAN,
   rows : SUBSET (Resets \cup RecoveryCodes),
   ends : SUBSET Sessions, open : SUBSET Sessions]

Idle == [do |-> "idle", user |-> None, seen |-> None, otp |-> 0,
         code |-> None, mfa |-> FALSE, own |-> None, reset |-> None,
         invitation |-> None, names |-> FALSE, rows |-> {}, ends |-> {}, open |-> {}]

VARIABLES
  users, sessions, recovery, resets, invitations,  \* tables
  codes,    \* table: failed attempts at a user's newest verification code
  active,   \* memory: activeSessions
  calls,
  out,      \* sessions that were ended
  raised,     \* history: users whom an administrator ever decided to make, or
              \* invited as, an administrator
  decided,    \* history: the role an account was created with, or an edit gave
              \* it that named the role, whichever was written last
  overlapped, \* history: accounts of which another edit, one that does not name
              \* the role, was under way when that was written
  begun,    \* requests so far
  faults

tables == <<users, sessions, recovery, resets, invitations, codes>>
grants == <<raised, decided, overlapped>>
vars   == <<tables, active, calls, out, grants, begun, faults>>

GrantsOK == /\ raised \subseteq Users /\ overlapped \subseteq Users
            /\ decided \in [Users -> Roles \cup {None}]

TypeOK ==
  /\ users \in [Users -> AccountRecords \cup {None}]
  /\ sessions \in [Sessions -> SessionRecords \cup {None}]
  /\ recovery \in [RecoveryCodes -> CodeRecords \cup {None}]
  /\ resets \in [Resets -> ResetRecords \cup {None}]
  /\ invitations \in [Invitations -> InvitationRecords \cup {None}]
  /\ codes \in [Users -> (0 .. MaxGuesses) \cup {None}]
  /\ active \subseteq {s \in Sessions : sessions[s] # None}
  /\ calls \in [Handlers -> Calls]
  /\ out \subseteq Sessions
  /\ GrantsOK
  /\ begun \in 0 .. MaxRequests /\ faults \in 0 .. MaxFaults

\* A new row of the table of accounts.
Account(role, verified, required) ==
  [role |-> role, verified |-> verified, enabled |-> TRUE,
   mfa |-> "disabled", secret |-> FALSE, counter |-> 0,
   required |-> required, failures |-> 0, locked |-> FALSE]

Protected(account) ==
  [account EXCEPT !.mfa = "active", !.secret = TRUE, !.required = TRUE]

\* The process has started with some accounts, and Admin is signed in.
Init ==
  /\ users \in [Users -> {None, Account("developer", TRUE, FALSE),
                          [Account("developer", TRUE, FALSE) EXCEPT
                             !.mfa = "pending", !.secret = TRUE],
                          Protected(Account("developer", TRUE, FALSE)),
                          Protected(Account("admin", TRUE, TRUE))}]
  /\ \A u \in Users : u = Admin <=> users[u] # None /\ users[u].role = "admin"
  /\ \E u \in Users :
       /\ users[u] # None /\ users[u].mfa = "active"
       /\ recovery = [c \in RecoveryCodes |->
                        IF c = FirstCode THEN [user |-> u, used |-> FALSE]
                                         ELSE None]
  /\ sessions = [s \in Sessions |-> IF s = AdminSession
                   THEN [user |-> Admin, role |-> "admin", mfa |-> TRUE,
                         code |-> None, revoked |-> FALSE]
                   ELSE None]
  /\ active = {AdminSession}
  /\ resets = [r \in Resets |-> None]
  /\ invitations = [i \in Invitations |-> None]
  /\ codes = [u \in Users |-> None]
  /\ calls = [h \in Handlers |-> Idle]
  /\ decided = [u \in Users |-> IF users[u] = None THEN None ELSE users[u].role]
  /\ out = {} /\ raised = {} /\ overlapped = {} /\ begun = 0 /\ faults = 0

-----------------------------------------------------------------------------
(* Helpers.                                                                *)

Wait(h, call) == calls' = [calls EXCEPT ![h] = call]
Goes(h, step) == Wait(h, [calls[h] EXCEPT !.do = step])
Doing(h, step) == calls[h].do = step

\* A request arrives.
Begin(h) ==
  /\ Doing(h, "idle")
  /\ begun < MaxRequests
  /\ begun' = begun + 1
  /\ UNCHANGED faults

\* The request is only looked into before the first await.
Reading == UNCHANGED <<tables, active, out, grants>>

\* The handler goes on after one of these awaits.
Resumes(h, steps) == calls[h].do \in steps /\ UNCHANGED <<begun, faults>>

\* findAccount
Found(u) == users[u] # None /\ users[u].enabled

\* requireSession, and the account findAccount returns for it.
SignedIn(own) == own \in active /\ Found(sessions[own].user)

\* requirePermission and requireSensitiveWrite
MayAdminister(own) ==
  own \in active /\ sessions[own].role = "admin" /\ sessions[own].mfa

MfaRequired(account) == account.required \/ account.role = "admin"

\* matchTotp with rejectReplay, for a code of the time step otp.
Accepts(account, otp) == account.secret /\ otp > account.counter

Locking(u) == {h \in Handlers : /\ calls[h].user = u
                                /\ calls[h].do \in {"password commit",
                                                    "wipe commit"}}

\* The row of the user is not held by an open transaction.
Free(u) == Locking(u) = {}

Write(u, account) == Free(u) /\ users' = [users EXCEPT ![u] = account]

\* A new identifier of a table; which one makes no difference.
Unused(table) == {i \in DOMAIN table : table[i] = None}
IsNew(i, table) == i \in Unused(table) /\ i = CHOOSE j \in Unused(table) : TRUE

\* The handler's call when it has read the account of u.
Reads(step, u) == [Idle EXCEPT !.do = step, !.user = u, !.seen = users[u]]

-----------------------------------------------------------------------------
(* Sign-in and sign-out.                                                   *)

AsksForFactor(u) == MfaRequired(users[u]) /\ users[u].mfa = "active"

MayLogin(u) == Found(u) /\ users[u].verified

\* login with a password alone: a session without MFA if one is required.
Login(h, u) ==
  /\ Begin(h)
  /\ MayLogin(u) /\ ~AsksForFactor(u)
  /\ Wait(h, [Reads("insert", u) EXCEPT !.mfa = ~MfaRequired(users[u])])
  /\ Reading

\* login with a code of the authenticator, right or wrong.
LoginWithOtp(h, u, otp, right) ==
  /\ Begin(h)
  /\ MayLogin(u) /\ AsksForFactor(u) /\ ~users[u].locked
  /\ Wait(h, [Reads(IF right /\ Accepts(users[u], otp)
                    THEN "counter" ELSE "failure", u)
                EXCEPT !.otp = otp, !.mfa = TRUE])
  /\ Reading

LoginWithRecoveryCode(h, u, c) ==
  /\ Begin(h)
  /\ MayLogin(u) /\ AsksForFactor(u) /\ ~users[u].locked
  /\ Wait(h, [Reads("recovery", u) EXCEPT !.code = c, !.mfa = TRUE])
  /\ Reading

\* Seeded change: the code is looked up and marked without asking if it was used.
ConsumeRecoveryCodeAgain(h) ==
  LET c == calls[h].code IN
  /\ Resumes(h, {"recovery"})
  /\ IF recovery[c] # None /\ recovery[c].user = calls[h].user
     THEN /\ recovery' = [recovery EXCEPT ![c].used = TRUE]
          /\ Goes(h, "clear")
     ELSE Goes(h, "failure") /\ UNCHANGED recovery
  /\ UNCHANGED <<users, sessions, resets, invitations, codes, active, out,
                 grants>>

\* consumeRecoveryCode: one update that finds the unused code or none.
ConsumeRecoveryCode(h) ==
  LET c == calls[h].code IN
  /\ Resumes(h, {"recovery"})
  /\ \A g \in Handlers : c \notin calls[g].rows
  /\ IF recovery[c] = [user |-> calls[h].user, used |-> FALSE]
     THEN /\ recovery' = [recovery EXCEPT ![c].used = TRUE]
          /\ Goes(h, "clear")
     ELSE Goes(h, "failure") /\ UNCHANGED recovery
  /\ UNCHANGED <<users, sessions, resets, invitations, codes, active, out,
                 grants>>

\* recordMfaFailure
RecordMfaFailure(h) ==
  LET u == calls[h].user
      failures == IF users[u].failures < MaxAttempts
                  THEN users[u].failures + 1 ELSE MaxAttempts
  IN /\ Resumes(h, {"failure"})
     /\ Write(u, [users[u] EXCEPT !.failures = failures,
                    !.locked = @ \/ failures >= MaxAttempts])
     /\ Wait(h, Idle)
     /\ UNCHANGED <<sessions, recovery, resets, invitations, codes, active,
                    out, grants>>

\* The end of the lockout has passed.
LockExpires(u) ==
  /\ users[u] # None /\ users[u].locked /\ Free(u)
  /\ users' = [users EXCEPT ![u].locked = FALSE]
  /\ UNCHANGED <<sessions, recovery, resets, invitations, codes, active,
                 calls, out, grants, begun, faults>>

\* verifyTotp: the time step is recorded, whatever was recorded meanwhile.
\* A step-up forgets the session it replaces at once.
RecordCounter(h) ==
  LET u == calls[h].user
      replaced == IF Doing(h, "step up") THEN {calls[h].own} ELSE {}
  IN /\ Resumes(h, {"counter", "step up"})
     /\ Write(u, [users[u] EXCEPT !.counter = calls[h].otp])
     /\ active' = active \ replaced
     /\ Goes(h, IF Doing(h, "step up") THEN "replace" ELSE "clear")
     /\ UNCHANGED <<sessions, recovery, resets, invitations, codes, out,
                    grants>>

ClearMfaFailures(h) ==
  LET u == calls[h].user IN
  /\ Resumes(h, {"clear"})
  /\ Write(u, [users[u] EXCEPT !.failures = 0, !.locked = FALSE])
  /\ Goes(h, "insert")
  /\ UNCHANGED <<sessions, recovery, resets, invitations, codes, active, out,
                 grants>>

\* issueSession: the row is inserted with the claims of the account as it was
\* read, ...
InsertSession(h, s) ==
  LET call == calls[h] IN
  /\ Resumes(h, {"insert"})
  /\ IsNew(s, sessions)
  /\ sessions' = [sessions EXCEPT ![s] =
       [user |-> call.user, role |-> call.seen.role, mfa |-> call.mfa,
        code |-> call.code, revoked |-> FALSE]]
  /\ Wait(h, [call EXCEPT !.do = "add", !.own = s])
  /\ UNCHANGED <<users, recovery, resets, invitations, codes, active, out,
                 grants>>

\* ... and once it is, the session is active and its token returned.
AddSession(h) ==
  /\ Resumes(h, {"add"})
  /\ active' = active \cup {calls[h].own}
  /\ Wait(h, Idle)
  /\ UNCHANGED <<tables, out, grants>>

Logout(h, own) ==
  /\ Begin(h)
  /\ own \in active
  /\ active' = active \ {own}
  /\ Wait(h, [Idle EXCEPT !.do = "logout", !.own = own])
  /\ UNCHANGED <<tables, out, grants>>

\* The row of the session is revoked: the sign-out is answered, or the
\* step-up goes on to open the session that replaces it.
RevokeSession(h) ==
  LET s == calls[h].own IN
  /\ Resumes(h, {"logout", "replace"})
  /\ sessions' = [sessions EXCEPT ![s].revoked = TRUE]
  /\ out' = out \cup {s}
  /\ Wait(h, IF Doing(h, "logout") THEN Idle
             ELSE [calls[h] EXCEPT !.do = "insert"])
  /\ UNCHANGED <<users, recovery, resets, invitations, codes, active, grants>>

-----------------------------------------------------------------------------
(* The second factor.                                                      *)

StartEnrollment(h, own) ==
  LET u == sessions[own].user IN
  /\ Begin(h)
  /\ SignedIn(own) /\ users[u].mfa # "active"
  /\ Wait(h, Reads("enroll", u))
  /\ Reading

\* A new secret takes the place of whatever is there by now.
StoreSecret(h) ==
  LET u == calls[h].user IN
  /\ Resumes(h, {"enroll"})
  /\ Write(u, [users[u] EXCEPT !.secret = TRUE, !.mfa = "pending",
                               !.counter = 0])
  /\ Wait(h, Idle)
  /\ UNCHANGED <<sessions, recovery, resets, invitations, codes, active, out,
                 grants>>

\* confirmMfaEnrollment, with the right code for the secret it read.
ConfirmEnrollment(h, own, otp) ==
  LET u == sessions[own].user IN
  /\ Begin(h)
  /\ SignedIn(own) /\ users[u].mfa = "pending" /\ users[u].secret
  /\ Wait(h, [Reads("activate", u) EXCEPT !.otp = otp, !.mfa = TRUE])
  /\ Reading

ActivateFactor(h) ==
  LET u == calls[h].user IN
  /\ Resumes(h, {"activate"})
  /\ Write(u, [users[u] EXCEPT !.mfa = "active", !.required = TRUE,
                               !.counter = calls[h].otp])
  /\ Goes(h, "codes")
  /\ UNCHANGED <<sessions, recovery, resets, invitations, codes, active, out,
                 grants>>

CodesOf(u) == {c \in RecoveryCodes : recovery[c] # None /\ recovery[c].user = u}

OpenLinksOf(u) ==
  {r \in Resets : resets[r] # None /\ resets[r].user = u /\ ~resets[r].consumed}

\* replaceRecoveryCodes and requestPasswordReset: a transaction voids what the
\* user has by now; what another one is about to insert it does not see.
VoidOlder(h) ==
  LET u == calls[h].user IN
  /\ Resumes(h, {"codes", "link"})
  /\ Wait(h, IF Doing(h, "codes")
             THEN [calls[h] EXCEPT !.do = "codes commit", !.rows = CodesOf(u)]
             ELSE [calls[h] EXCEPT !.do = "link commit",
                                   !.rows = OpenLinksOf(u)])
  /\ Reading

Without(codesFound) ==
  [c \in RecoveryCodes |-> IF c \in codesFound THEN None ELSE recovery[c]]

\* Codes nobody was given yet; which ones makes no difference.
Unissued ==
  {c \in RecoveryCodes :
     /\ recovery[c] = None
     /\ \A s \in Sessions : sessions[s] # None => sessions[s].code # c
     /\ \A h \in Handlers : calls[h].code # c}

ReplaceRecoveryCodes(h, c) ==
  /\ Resumes(h, {"codes commit"})
  /\ c \in Unissued /\ c = CHOOSE d \in Unissued : TRUE
  /\ recovery' = [Without(calls[h].rows) EXCEPT
                    ![c] = [user |-> calls[h].user, used |-> FALSE]]
  /\ Wait(h, [calls[h] EXCEPT !.do = "insert", !.rows = {}])
  /\ UNCHANGED <<users, sessions, resets, invitations, codes, active, out,
                 grants>>

\* stepUpMfa, with a code that matches.
StepUp(h, own, otp) ==
  LET u == sessions[own].user IN
  /\ Begin(h)
  /\ SignedIn(own) /\ users[u].mfa = "active" /\ Accepts(users[u], otp)
  /\ Wait(h, [Reads("step up", u) EXCEPT !.otp = otp, !.mfa = TRUE,
                                         !.own = own])
  /\ Reading

-----------------------------------------------------------------------------
(* Resets of a password and of a factor.                                   *)

RequestPasswordReset(h, u) ==
  /\ Begin(h)
  /\ MayLogin(u)
  /\ Wait(h, Reads("link", u))
  /\ Reading

StoreReset(h, r) ==
  /\ Resumes(h, {"link commit"})
  /\ IsNew(r, resets)
  /\ resets' = [q \in Resets |->
       IF q = r THEN [user |-> calls[h].user, consumed |-> FALSE]
       ELSE IF q \in calls[h].rows THEN [resets[q] EXCEPT !.consumed = TRUE]
       ELSE resets[q]]
  /\ Wait(h, Idle)
  /\ UNCHANGED <<users, sessions, recovery, invitations, codes, active, out,
                 grants>>

\* completePasswordReset reads the link outside of its transaction.
CompletePasswordReset(h, r) ==
  /\ Begin(h)
  /\ resets[r] # None /\ ~resets[r].consumed /\ Found(resets[r].user)
  /\ Wait(h, [Reads("password", resets[r].user) EXCEPT !.reset = r])
  /\ Reading

ResetUserMfa(h, own, u) ==
  /\ Begin(h)
  /\ MayAdminister(own)
  /\ users[u] # None /\ u # sessions[own].user
  /\ Wait(h, Reads("wipe", u))
  /\ Reading

LiveSessionsOf(u) ==
  {s \in Sessions : /\ sessions[s] # None
                    /\ sessions[s].user = u /\ ~sessions[s].revoked}

\* Seeded change: everybody is signed out of the memory.
ForgetEverybody(h) ==
  LET ends == LiveSessionsOf(calls[h].user) IN
  /\ Resumes(h, {"password", "wipe"})
  /\ Free(calls[h].user)
  /\ active' = {}
  /\ Wait(h, [calls[h] EXCEPT !.ends = ends, !.open = ends \cap active,
                !.rows = IF Doing(h, "wipe") THEN CodesOf(calls[h].user) ELSE {},
                !.do = IF Doing(h, "password") THEN "password commit"
                                               ELSE "wipe commit"])
  /\ UNCHANGED <<tables, out, grants>>

\* Both transactions update the account and revoke its sessions; these leave
\* the memory when the update has found them, before the commit.
ForgetSessions(h) ==
  LET ends == LiveSessionsOf(calls[h].user) IN
  /\ Resumes(h, {"password", "wipe"})
  /\ Free(calls[h].user)
  /\ active' = active \ ends
  /\ Wait(h, [calls[h] EXCEPT !.ends = ends, !.open = ends \cap active,
                !.rows = IF Doing(h, "wipe") THEN CodesOf(calls[h].user) ELSE {},
                !.do = IF Doing(h, "password") THEN "password commit"
                                               ELSE "wipe commit"])
  /\ UNCHANGED <<tables, out, grants>>

Revoking(ends) ==
  [s \in Sessions |-> IF s \in ends THEN [sessions[s] EXCEPT !.revoked = TRUE]
                                    ELSE sessions[s]]

CommitPassword(h) ==
  LET u == calls[h].user IN
  /\ Resumes(h, {"password commit"})
  /\ users' = [users EXCEPT ![u].failures = 0, ![u].locked = FALSE]
  /\ resets' = [resets EXCEPT ![calls[h].reset].consumed = TRUE]
  /\ sessions' = Revoking(calls[h].ends)
  /\ out' = out \cup calls[h].open
  /\ Wait(h, Idle)
  /\ UNCHANGED <<recovery, invitations, codes, active, grants>>

CommitWipe(h) ==
  LET u == calls[h].user IN
  /\ Resumes(h, {"wipe commit"})
  /\ users' = [users EXCEPT ![u] = [@ EXCEPT !.secret = FALSE,
       !.mfa = "disabled", !.counter = 0, !.failures = 0, !.locked = FALSE,
       !.required = TRUE]]
  /\ recovery' = Without(calls[h].rows)
  /\ sessions' = Revoking(calls[h].ends)
  /\ out' = out \cup calls[h].open
  /\ Wait(h, Idle)
  /\ UNCHANGED <<resets, invitations, codes, active, grants>>

-----------------------------------------------------------------------------
(* Accounts: administration, sign-up, invitations.                         *)

\* updateUser with one field of the account given, the others as read: a role, ...
Edited(account, role) ==
  [account EXCEPT !.role = role, !.required = @ \/ role = "admin"]

\* Seeded change: a role that is not given is the lowest one.
OtherEditsDefaulting(account) ==
  {[account EXCEPT !.role = "developer", !.enabled = e] : e \in BOOLEAN}

\* ... or another one.
OtherEdits(account) ==
  {[Edited(account, account.role) EXCEPT !.enabled = e] : e \in BOOLEAN}
  \cup {[account EXCEPT !.required = r \/ account.role = "admin"] : r \in BOOLEAN}

UpdateUser(h, own, u) ==
  /\ Begin(h)
  /\ MayAdminister(own) /\ users[u] # None
  /\ \/ \E role \in Roles :
          Wait(h, [Reads("update", u) EXCEPT !.seen = Edited(users[u], role),
                                             !.names = TRUE])
     \/ \E account \in OtherEdits(users[u]) :
          Wait(h, [Reads("update", u) EXCEPT !.seen = account])
  /\ Reading

\* Handlers that will write back the role of u as they read it.
WritingBack(u) ==
  {h \in Handlers : Doing(h, "update") /\ calls[h].user = u /\ ~calls[h].names}

\* Fields that were not given are written as they were read.
WriteUser(h) ==
  LET call == calls[h]
      u == call.user
  IN /\ Resumes(h, {"update"})
     /\ Write(u, [users[u] EXCEPT !.role = call.seen.role,
                    !.required = call.seen.required,
                    !.enabled = call.seen.enabled])
     /\ IF call.names
        THEN /\ raised' = IF call.seen.role = "admin" THEN raised \cup {u}
                                                      ELSE raised
             /\ decided' = [decided EXCEPT ![u] = call.seen.role]
             /\ overlapped' = IF WritingBack(u) # {} THEN overlapped \cup {u}
                                                    ELSE overlapped \ {u}
        ELSE UNCHANGED grants
     /\ Wait(h, Idle)
     /\ UNCHANGED <<sessions, recovery, resets, invitations, codes, active, out>>

CreateUser(h, own, u, role) ==
  /\ Begin(h)
  /\ MayAdminister(own) /\ users[u] = None
  /\ Wait(h, [Reads("create", u) EXCEPT
                !.seen = Account(role, TRUE, role = "admin")])
  /\ Reading

\* Seeded change: the role is taken from the request, as when an admin creates.
SignupAsAsked(h, u) ==
  /\ Begin(h)
  /\ users[u] = None
  /\ \E role \in Roles :
       Wait(h, [Reads("signup", u) EXCEPT
                  !.seen = Account(role, FALSE, role = "admin")])
  /\ Reading

\* signupDeveloper
Signup(h, u) ==
  /\ Begin(h)
  /\ users[u] = None
  /\ Wait(h, [Reads("signup", u) EXCEPT
                !.seen = Account("developer", FALSE, FALSE)])
  /\ Reading

\* The e-mail address is unique.  The acceptance of an invitation is recorded
\* with the account, whatever became of the invitation.
InsertAccount(h) ==
  LET call == calls[h] IN
  /\ Resumes(h, {"create", "signup", "accept"})
  /\ users[call.user] = None
  /\ users' = [users EXCEPT ![call.user] = call.seen]
  /\ invitations' = IF Doing(h, "accept")
                    THEN [invitations EXCEPT
                            ![call.invitation].status = "accepted"]
                    ELSE invitations
  /\ raised' = IF Doing(h, "create") /\ call.seen.role = "admin"
               THEN raised \cup {call.user} ELSE raised
  /\ decided' = [decided EXCEPT ![call.user] = call.seen.role]
  /\ Wait(h, IF Doing(h, "signup") THEN [call EXCEPT !.do = "code"] ELSE Idle)
  /\ UNCHANGED <<sessions, recovery, resets, codes, active, out, overlapped>>

RefuseDuplicate(h) ==
  /\ Resumes(h, {"create", "signup", "accept"})
  /\ users[calls[h].user] # None
  /\ Wait(h, Idle)
  /\ Reading

ResendVerification(h, u) ==
  /\ Begin(h)
  /\ Found(u) /\ ~users[u].verified
  /\ Wait(h, Reads("code", u))
  /\ Reading

\* issueEmailVerification: the new code is the only one that counts.
StoreVerification(h) ==
  /\ Resumes(h, {"code"})
  /\ codes' = [codes EXCEPT ![calls[h].user] = 0]
  /\ Wait(h, Idle)
  /\ UNCHANGED <<users, sessions, recovery, resets, invitations, active, out,
                 grants>>

\* verifyDeveloperEmail
VerifyEmail(h, u) ==
  /\ Begin(h)
  /\ Found(u) /\ ~users[u].verified
  /\ Wait(h, Reads("verify", u))
  /\ Reading

\* The right code, within the attempts allowed, ...
ConsumeVerification(h) ==
  LET u == calls[h].user IN
  /\ Resumes(h, {"verify"})
  /\ codes[u] # None /\ codes[u] < MaxGuesses
  /\ codes' = [codes EXCEPT ![u] = None]
  /\ Goes(h, "verified")
  /\ UNCHANGED <<users, sessions, recovery, resets, invitations, active, out,
                 grants>>

\* ... or another one, which is counted by a query of its own.
MissVerification(h) ==
  /\ Resumes(h, {"verify"})
  /\ Goes(h, "missed")
  /\ Reading

CountGuess(h) ==
  LET u == calls[h].user IN
  /\ Resumes(h, {"missed"})
  /\ codes' = [codes EXCEPT ![u] =
       IF @ # None /\ @ < MaxGuesses THEN @ + 1 ELSE @]
  /\ Wait(h, Idle)
  /\ UNCHANGED <<users, sessions, recovery, resets, invitations, active, out,
                 grants>>

MarkVerified(h) ==
  LET u == calls[h].user IN
  /\ Resumes(h, {"verified"})
  /\ Write(u, [users[u] EXCEPT !.verified = TRUE])
  /\ Wait(h, Idle)
  /\ UNCHANGED <<sessions, recovery, resets, invitations, codes, active, out,
                 grants>>

CodeExpires(u) ==
  /\ codes[u] # None
  /\ codes' = [codes EXCEPT ![u] = None]
  /\ UNCHANGED <<users, sessions, recovery, resets, invitations, active, calls,
                 out, grants, begun, faults>>

\* inviteTeamMember: the mail is sent before the invitation is stored.
Invite(h, own, u, role) ==
  /\ Begin(h)
  /\ MayAdminister(own) /\ users[u] = None
  /\ Wait(h, [Reads("invite", u) EXCEPT !.seen = Account(role, TRUE, TRUE)])
  /\ Reading

StoreInvitation(h, i) ==
  LET call == calls[h] IN
  /\ Resumes(h, {"invite"})
  /\ IsNew(i, invitations)
  /\ invitations' = [invitations EXCEPT ![i] =
       [user |-> call.user, role |-> call.seen.role, due |-> FALSE,
        status |-> "pending"]]
  /\ raised' = IF call.seen.role = "admin" THEN raised \cup {call.user}
                                           ELSE raised
  /\ Wait(h, Idle)
  /\ UNCHANGED <<users, sessions, recovery, resets, codes, active, out, decided,
                 overlapped>>

\* revokeTeamInvitation: one update that finds a pending invitation or none.
RevokeInvitation(h, own, i) ==
  /\ Begin(h)
  /\ MayAdminister(own)
  /\ invitations[i] # None /\ invitations[i].status = "pending"
  /\ invitations' = [invitations EXCEPT ![i].status = "revoked"]
  /\ UNCHANGED <<users, sessions, recovery, resets, codes, active, calls, out,
                 grants>>

InvitationExpires(i) ==
  /\ invitations[i] # None /\ ~invitations[i].due
  /\ invitations[i].status = "pending"
  /\ invitations' = [invitations EXCEPT ![i].due = TRUE]
  /\ UNCHANGED <<users, sessions, recovery, resets, codes, active, calls, out,
                 grants, begun, faults>>

\* acceptTeamInvitation
AcceptInvitation(h, i) ==
  LET invitation == invitations[i] IN
  /\ Begin(h)
  /\ invitation # None /\ invitation.status = "pending"
  /\ \/ /\ invitation.due
        /\ Wait(h, [Idle EXCEPT !.do = "expire", !.invitation = i])
     \/ /\ ~invitation.due /\ users[invitation.user] = None
        /\ Wait(h, [Idle EXCEPT !.do = "accept", !.user = invitation.user,
                      !.seen = Account(invitation.role, TRUE, TRUE),
                      !.invitation = i])
  /\ Reading

MarkExpired(h) ==
  /\ Resumes(h, {"expire"})
  /\ invitations' = [invitations EXCEPT
                       ![calls[h].invitation].status = "expired"]
  /\ Wait(h, Idle)
  /\ UNCHANGED <<users, sessions, recovery, resets, codes, active, out,
                 grants>>

-----------------------------------------------------------------------------
(* Faults, and the whole.                                                  *)

\* The query a handler waits for, or the answer to it, is lost: the handler
\* ends with an error, and its open transaction with it.  One that waits to
\* add its session has lost the answer to the insert.
QueryFails(h) ==
  /\ ~Doing(h, "idle")
  /\ faults < MaxFaults
  /\ faults' = faults + 1
  /\ Wait(h, Idle)
  /\ UNCHANGED <<tables, active, out, grants, begun>>

\* Seeded change: rows that were revoked are loaded, too.
RestartWithAll ==
  /\ faults < MaxFaults
  /\ faults' = faults + 1
  /\ active' = {s \in Sessions : sessions[s] # None}
  /\ calls' = [h \in Handlers |-> Idle]
  /\ UNCHANGED <<tables, out, grants, begun>>

\* loadActiveSessions
Restart ==
  /\ faults < MaxFaults
  /\ faults' = faults + 1
  /\ active' = {s \in Sessions : sessions[s] # None /\ ~sessions[s].revoked}
  /\ calls' = [h \in Handlers |-> Idle]
  /\ UNCHANGED <<tables, out, grants, begun>>

\* A request that is refused, or only reads, leaves no trace.
NoTrace == (\A h \in Handlers : Doing(h, "idle")) /\ UNCHANGED vars

SignIn(h) ==
  \/ \E u \in Users :
       \/ Login(h, u)
       \/ \E otp \in 1 .. MaxCounter, right \in BOOLEAN :
            LoginWithOtp(h, u, otp, right)
       \/ \E c \in RecoveryCodes : LoginWithRecoveryCode(h, u, c)
  \/ ConsumeRecoveryCode(h) \/ RecordMfaFailure(h) \/ RecordCounter(h)
  \/ ClearMfaFailures(h) \/ AddSession(h) \/ RevokeSession(h)
  \/ \E s \in Sessions : InsertSession(h, s) \/ Logout(h, s)

Factor(h) ==
  \/ \E own \in Sessions :
       \/ StartEnrollment(h, own)
       \/ \E otp \in 1 .. MaxCounter :
            ConfirmEnrollment(h, own, otp) \/ StepUp(h, own, otp)
  \/ StoreSecret(h) \/ ActivateFactor(h) \/ VoidOlder(h)
  \/ \E c \in RecoveryCodes : ReplaceRecoveryCodes(h, c)

Reset(h) ==
  \/ \E u \in Users : \/ RequestPasswordReset(h, u)
                      \/ \E own \in Sessions : ResetUserMfa(h, own, u)
  \/ \E r \in Resets : StoreReset(h, r) \/ CompletePasswordReset(h, r)
  \/ ForgetSessions(h) \/ CommitPassword(h) \/ CommitWipe(h)

Administer(h) ==
  \/ \E u \in Users :
       \/ Signup(h, u) \/ ResendVerification(h, u) \/ VerifyEmail(h, u)
       \/ \E own \in Sessions :
            \/ UpdateUser(h, own, u)
            \/ \E role \in Roles :
                 CreateUser(h, own, u, role) \/ Invite(h, own, u, role)
  \/ \E i \in Invitations :
       \/ StoreInvitation(h, i) \/ AcceptInvitation(h, i)
       \/ \E own \in Sessions : RevokeInvitation(h, own, i)
  \/ WriteUser(h) \/ InsertAccount(h) \/ RefuseDuplicate(h)
  \/ StoreVerification(h) \/ ConsumeVerification(h) \/ MissVerification(h)
  \/ CountGuess(h) \/ MarkVerified(h) \/ MarkExpired(h)

Next ==
  \/ \E h \in Handlers : \/ SignIn(h) \/ Factor(h) \/ Reset(h)
                         \/ Administer(h) \/ QueryFails(h)
  \/ \E u \in Users : LockExpires(u) \/ CodeExpires(u)
  \/ \E i \in Invitations : InvitationExpires(i)
  \/ Restart \/ NoTrace

Spec == Init /\ [][Next]_vars

-----------------------------------------------------------------------------
(* Properties.                                                             *)

\* A session that was signed out, replaced by a step-up or ended by a reset
\* while it was active is not honoured again, not even after a restart.
SignedOutStays == out \cap active = {}

\* A set of recovery codes offers each of its codes once: no two sessions
\* were opened with the same one, however the sign-ins interleave, fail or
\* are repeated.
RecoveryOnce ==
  \A s, t \in {s \in Sessions : sessions[s] # None} :
    s # t /\ sessions[s].code # None => sessions[s].code # sessions[t].code

\* As long as no query fails, a session that is not revoked in the database is
\* honoured, unless it is being opened or ended: memory and table agree.  Both
\* are of their types.
SignedInStays ==
  /\ TypeOK
  /\ \A s \in Sessions :
       sessions[s] # None /\ ~sessions[s].revoked /\ s \notin active =>
         \/ faults > 0
         \/ \E h \in Handlers : calls[h].own = s \/ s \in calls[h].ends

\* Nobody has an administrator's role, in the table or in a session, whom no
\* administrator ever decided to make one: not by a sign-up, and not by an edit of
\* another field, which writes back a role it has read.  (A session keeps the role of
\* its sign-in, so this does not say that the role was not taken away since.)
RightsGranted ==
  LET admins == {u \in Users : users[u] # None /\ users[u].role = "admin"}
      claims == {sessions[s].user : s \in {t \in Sessions :
                   sessions[t] # None /\ sessions[t].role = "admin"}}
  IN admins \cup claims \subseteq raised \cup {Admin}

\* Every account has the role last decided for it, unless an edit of another field was
\* under way when that decision was written.
LastDecision ==
  \A u \in Users : users[u] # None =>
    users[u].role = decided[u] \/ u \in overlapped

\* The role of an account is the one that was last decided for it: a demotion or a
\* promotion is undone by no edit of another field, by no reset, enrolment or
\* verification, unless that edit was under way when the decision was written.  (Then
\* updateUser does undo it: it writes back the role it read.)  Nobody becomes an
\* administrator, in the table or in a session, whom no administrator decided to make one.
RoleAsDecided ==
  /\ LastDecision
  /\ RightsGranted
=============================================================================
