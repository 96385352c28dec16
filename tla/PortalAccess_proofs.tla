-------------------------- MODULE PortalAccess_proofs --------------------------
(***************************************************************************)
(* Proofs about PortalAccess, for every value of its constants.            *)
(*                                                                         *)
(* What a handler works on exists for good: rows are not removed, a        *)
(* revocation is not taken back, and raised only grows.  A                 *)
(* session being opened is nobody else's, one being ended is out of the    *)
(* memory before it is out of the table, and a recovery code that was      *)
(* found unused is in one hand from then on.                               *)
(***************************************************************************)
EXTENDS PortalAccess, TLAPS

USE DEF grants, GrantsOK

AccountSteps ==
  {"recovery", "counter", "failure", "clear", "insert", "enroll", "activate",
   "codes", "codes commit", "step up", "replace", "link", "link commit",
   "password", "password commit", "wipe", "wipe commit", "update", "verify",
   "verified", "missed"}

\* What a waiting handler has in hand exists.
CallAgrees(h) ==
  LET call == calls[h] IN
  /\ call.do \in AccountSteps => call.user \in Users /\ users[call.user] # None
  /\ call.do \in {"create", "signup", "accept", "invite", "code", "link",
                  "link commit"} => call.user \in Users
  /\ call.do \in {"create", "signup", "accept", "invite", "update", "insert",
                  "recovery", "counter", "clear", "activate", "codes",
                  "codes commit", "step up", "replace"} =>
       call.seen \in AccountRecords
  /\ call.do = "recovery" => call.code \in RecoveryCodes
  /\ call.code # None => call.do \in {"recovery", "failure", "clear", "insert",
                                      "add"}
  /\ call.do \in {"password", "password commit"} =>
       call.reset \in Resets /\ resets[call.reset] # None
  /\ call.do = "link commit" =>
       \A r \in call.rows : r \in Resets /\ resets[r] # None
  /\ call.do \in {"accept", "expire"} =>
       call.invitation \in Invitations /\ invitations[call.invitation] # None

\* The sessions it has in hand.
HoldsSessions(h) ==
  LET call == calls[h] IN
  /\ call.do \in {"step up", "replace", "logout", "add"} => call.own \in Sessions
  /\ call.own # None =>
       /\ call.do \in {"step up", "replace", "logout", "insert", "add"}
       /\ sessions[call.own] # None
       /\ call.do = "insert" => sessions[call.own].revoked
  /\ call.ends # {} => call.do \in {"password commit", "wipe commit"}
  /\ call.open \subseteq call.ends
  /\ \A s \in call.ends : sessions[s] # None

Granted == raised \cup {Admin}

\* An edit that does not name the role.
Unnamed(call) == call.do = "update" /\ ~call.names

\* The role it is about to put into a session or an account was granted, and the one it
\* is about to write back is the one decided.
RoleGranted(h) ==
  LET call == calls[h] IN
  /\ Unnamed(call) /\ call.user \notin overlapped =>
       call.seen.role = decided[call.user]
  /\ \/ call.do \in {"insert", "recovery", "counter", "clear", "activate", "codes",
                     "codes commit", "step up", "replace", "accept", "signup"}
     \/ Unnamed(call)
     => (call.seen.role = "admin" => call.user \in Granted)

CallsAgree ==
  \A h \in Handlers : CallAgrees(h) /\ HoldsSessions(h) /\ RoleGranted(h)

\* Sessions a handler has taken out of the memory in order to end them.
Leaving(h) ==
  calls[h].open \cup
  IF calls[h].do \in {"logout", "replace"} THEN {calls[h].own} ELSE {}

\* The session a handler has inserted is in nobody else's hands.
Opens(h) ==
  calls[h].do = "add" =>
    /\ calls[h].own \notin active \cup out
    /\ \A g \in Handlers : g # h => /\ calls[h].own # calls[g].own
                                    /\ calls[h].own \notin calls[g].open

SessionsAgree ==
  /\ SignedOutStays
  /\ \A s \in out : sessions[s] # None /\ sessions[s].revoked
  /\ \A h \in Handlers : Leaving(h) \cap active = {} /\ Opens(h)

\* A code that was found unused opens a session, or is about to.
Holder(h, c)  == calls[h].code = c /\ calls[h].do \in {"clear", "insert"}
Carries(s, c) == sessions[s] # None /\ sessions[s].code = c
Spent(c)      == recovery[c] # None => recovery[c].used

CodesAgree ==
  \A c \in RecoveryCodes :
    /\ \A s, t \in Sessions : Carries(s, c) /\ Carries(t, c) => s = t
    /\ \A h, g \in Handlers : Holder(h, c) /\ Holder(g, c) => h = g
    /\ \A h \in Handlers : Holder(h, c) =>
         Spent(c) /\ \A s \in Sessions : ~Carries(s, c)
    /\ \A s \in Sessions : Carries(s, c) => Spent(c)

RolesAgree ==
  /\ \A u \in Users : users[u] # None /\ users[u].role = "admin" => u \in Granted
  /\ \A s \in Sessions : sessions[s] # None /\ sessions[s].role = "admin" =>
       sessions[s].user \in Granted
  /\ \A i \in Invitations : invitations[i] # None /\ invitations[i].role = "admin" =>
       invitations[i].user \in raised
  /\ LastDecision

IInv == SignedInStays /\ CallsAgree /\ SessionsAgree /\ CodesAgree /\ RolesAgree

-----------------------------------------------------------------------------
(* Shapes of calls and rows.                                               *)

\* A handler at rest is a call that holds nothing.
LEMMA IdleType ==
  /\ Idle \in Calls
  /\ Idle.do = "idle" /\ Idle.user = None /\ Idle.seen = None
  /\ Idle.code = None /\ Idle.own = None /\ Idle.ends = {} /\ Idle.open = {}
  BY PortalAssumption DEF Idle, Calls, Steps

\* The call of a handler that has read an account holds nothing else yet.
LEMMA ReadsType ==
  ASSUME IInv, NEW step \in Steps, NEW u \in Users
  PROVE  /\ Reads(step, u) \in Calls
         /\ Reads(step, u).do = step /\ Reads(step, u).user = u
         /\ Reads(step, u).seen = users[u]
         /\ Reads(step, u).code = None /\ Reads(step, u).own = None
         /\ Reads(step, u).ends = {} /\ Reads(step, u).open = {}
<1>1. users[u] \in AccountRecords \cup {None} /\ u \in Users \cup {None}
  BY DEF IInv, SignedInStays, TypeOK
<1>2. PICK r : r = Reads(step, u)
  OBVIOUS
<1>3. r = [Idle EXCEPT !.do = step, !.user = u, !.seen = users[u]]
  BY <1>2 DEF Reads
<1>4. r \in Calls
  BY <1>1, <1>3, IdleType DEF Calls
<1>5. /\ r.do = step /\ r.user = u /\ r.seen = users[u]
      /\ r.code = None /\ r.own = None /\ r.ends = {} /\ r.open = {}
  BY <1>3, IdleType DEF Calls
<1> QED
  BY <1>2, <1>4, <1>5

\* Only the handler that waits changes its call.
LEMMA CallChange ==
  ASSUME calls \in [Handlers -> Calls], NEW h \in Handlers, NEW c \in Calls,
         Wait(h, c)
  PROVE  /\ calls' \in [Handlers -> Calls]
         /\ calls'[h] = c
         /\ \A g \in Handlers : g # h => calls'[g] = calls[g]
  BY DEF Wait

\* A record is not None.
LEMMA RowsExist ==
  /\ \A r \in AccountRecords : r # None
  /\ \A r \in SessionRecords : r # None
  /\ \A r \in CodeRecords : r # None
  /\ \A r \in ResetRecords : r # None
  /\ \A r \in InvitationRecords : r # None
  BY PortalAssumption

\* The bounds are numbers, as assumed.
LEMMA Bounds ==
  /\ MaxCounter \in Nat \ {0} /\ MaxAttempts \in Nat \ {0}
  /\ MaxGuesses \in Nat \ {0} /\ MaxRequests \in Nat /\ MaxFaults \in Nat
  /\ None \notin Nat
  BY PortalAssumption

\* A new account.
LEMMA AccountType ==
  ASSUME NEW role \in Roles, NEW verified \in BOOLEAN, NEW required \in BOOLEAN
  PROVE  /\ Account(role, verified, required) \in AccountRecords
         /\ Account(role, verified, required).role = role
  BY PortalAssumption DEF Account, AccountRecords

-----------------------------------------------------------------------------
(* What no step takes back, and what follows from it.                      *)

\* A handler goes on with what it has in hand, or with less.
Moves(g) ==
  /\ CallAgrees(g)' /\ HoldsSessions(g)' /\ RoleGranted(g)'
  /\ calls'[g].do # "add"
  /\ calls'[g].own \in {None, calls[g].own} \cup active
  /\ calls'[g].open \subseteq calls[g].open \cup active
  /\ Leaving(g)' \cap active' = {}
  /\ \/ faults' > 0
     \/ /\ calls[g].own \in {None, calls'[g].own}
        /\ calls[g].ends \subseteq calls'[g].ends

\* And with no other recovery code.
Passes(g) == Moves(g) /\ \A c \in RecoveryCodes : Holder(g, c)' => Holder(g, c)

\* What was decided for u stays decided, or was decided over an edit under way.
Abides(u) ==
  u \notin overlapped' => u \notin overlapped /\ decided'[u] = decided[u]

\* Rows stay, and so do the facts a handler relies on.
Grows ==
  /\ \A u \in Users : users[u] # None => users'[u] # None
  /\ \A s \in Sessions : sessions[s] # None =>
       /\ sessions'[s] # None
       /\ sessions[s].revoked => sessions'[s].revoked
  /\ \A r \in Resets : resets[r] # None => resets'[r] # None
  /\ \A i \in Invitations : invitations[i] # None => invitations'[i] # None
  /\ raised \subseteq raised'
  /\ \A g \in Handlers : calls'[g] = calls[g] /\ Unnamed(calls[g]) => Abides(calls[g].user)

\* A handler that waits keeps what it knows while rows only grow.
LEMMA Waiting ==
  ASSUME TypeOK, Grows, NEW g \in Handlers, calls'[g] = calls[g],
         CallAgrees(g), HoldsSessions(g), RoleGranted(g)
  PROVE  CallAgrees(g)' /\ HoldsSessions(g)' /\ RoleGranted(g)'
<1>1. calls[g] \in Calls
  BY DEF TypeOK
<1>2. CallAgrees(g)'
  BY <1>1 DEF CallAgrees, Grows, AccountSteps
<1>3. HoldsSessions(g)'
  BY <1>1 DEF HoldsSessions, Grows, Calls
<1>4. RoleGranted(g)'
  BY <1>1 DEF RoleGranted, Unnamed, Grows, Granted, Abides
<1> QED
  BY <1>2, <1>3, <1>4

\* The table of the sessions is left alone, and nobody is signed in.
LEMMA Steady ==
  ASSUME IInv, TypeOK', Grows, UNCHANGED <<sessions, out>>,
         active' \subseteq active, faults > 0 => faults' > 0,
         RolesAgree',
         \A s \in active \ active' :
           \E h \in Handlers : calls'[h].own = s \/ s \in calls'[h].ends,
         \A g \in Handlers : calls'[g] = calls[g] \/ Moves(g)
  PROVE  SignedInStays' /\ CallsAgree' /\ SessionsAgree'
<1>1. TypeOK /\ CallsAgree /\ SessionsAgree /\ CodesAgree
  BY DEF IInv, SignedInStays
<1>2. CallsAgree'
  BY <1>1, Waiting DEF CallsAgree, Moves
<1>3. SessionsAgree'
  <2>1. SignedOutStays' /\ \A s \in out' : sessions'[s] # None /\ sessions'[s].revoked
    BY <1>1 DEF SessionsAgree, SignedOutStays
  <2>2. ASSUME NEW h \in Handlers PROVE Leaving(h)' \cap active' = {}
    BY <1>1 DEF SessionsAgree, Moves, Leaving
  <2>3. ASSUME NEW h \in Handlers, calls'[h].do = "add",
               NEW g \in Handlers, g # h
        PROVE  calls'[h].own # calls'[g].own /\ calls'[h].own \notin calls'[g].open
    <3>1. calls'[h] = calls[h] /\ calls[h].do = "add"
      BY <2>3 DEF Moves
    <3>2. /\ calls[h].own \notin active
          /\ calls[h].own # calls[g].own /\ calls[h].own \notin calls[g].open
      BY <3>1, <2>3, <1>1 DEF SessionsAgree, Opens
    <3>3. calls[h].own # None
      BY <3>1, <1>1, PortalAssumption DEF CallsAgree, HoldsSessions
    <3> QED
      BY <3>1, <3>2, <3>3 DEF Moves
  <2>4. ASSUME NEW h \in Handlers, calls'[h].do = "add"
        PROVE  calls'[h].own \notin active' \cup out'
    BY <2>4, <1>1 DEF SessionsAgree, Opens, Moves
  <2> QED
    BY <2>1, <2>2, <2>3, <2>4 DEF SessionsAgree, Opens
<1>4. SignedInStays'
  <2> SUFFICES ASSUME NEW s \in Sessions, sessions[s] # None,
                      ~sessions[s].revoked, s \notin active', ~(faults' > 0)
               PROVE  \E h \in Handlers : calls'[h].own = s \/ s \in calls'[h].ends
    BY DEF SignedInStays
  <2>1. CASE s \in active
    BY <2>1
  <2>2. CASE s \notin active
    <3>1. PICK h \in Handlers : calls[h].own = s \/ s \in calls[h].ends
      BY <2>2 DEF IInv, SignedInStays
    <3>2. s # None
      BY PortalAssumption
    <3> QED
      BY <3>1, <3>2 DEF Moves
  <2> QED
    BY <2>1, <2>2
<1> QED
  BY <1>2, <1>3, <1>4

\* Nor is a recovery code used or replaced.
LEMMA Quiet ==
  ASSUME IInv, TypeOK', Grows, UNCHANGED <<sessions, recovery, out>>,
         active' \subseteq active, faults > 0 => faults' > 0,
         RolesAgree',
         \A s \in active \ active' :
           \E h \in Handlers : calls'[h].own = s \/ s \in calls'[h].ends,
         \A g \in Handlers : calls'[g] = calls[g] \/ Passes(g)
  PROVE  IInv'
<1>1. SignedInStays' /\ CallsAgree' /\ SessionsAgree'
  BY Steady DEF Passes
<1>2. CodesAgree'
  <2>1. \A h \in Handlers, c \in RecoveryCodes : Holder(h, c)' => Holder(h, c)
    BY DEF Passes, Holder
  <2>2. /\ \A s \in Sessions, c \in RecoveryCodes : Carries(s, c)' <=> Carries(s, c)
        /\ \A c \in RecoveryCodes : Spent(c)' <=> Spent(c)
    BY DEF Carries, Spent
  <2> QED
    BY <2>1, <2>2 DEF IInv, CodesAgree
<1> QED
  BY <1>1, <1>2 DEF IInv

-----------------------------------------------------------------------------
(* Requests that begin, and handlers that end.                             *)

\* A handler that holds no session turns to its next call.
LEMMA Turn ==
  ASSUME IInv, TypeOK', Grows, UNCHANGED <<sessions, recovery, active, out>>,
         faults > 0 => faults' > 0, RolesAgree',
         NEW h \in Handlers, NEW c \in Calls, Wait(h, c),
         c.own = None, c.ends = {}, c.open = {},
         c.do \notin {"step up", "replace", "logout", "add"},
         faults' > 0 \/ (calls[h].own = None /\ calls[h].ends = {}),
         \A k \in RecoveryCodes :
           c.code = k /\ c.do \in {"clear", "insert"} => Holder(h, k),
         CallAgrees(h)', RoleGranted(h)'
  PROVE  IInv'
<1>1. /\ calls'[h] = c
      /\ \A g \in Handlers : g # h => calls'[g] = calls[g]
  BY CallChange DEF IInv, SignedInStays, TypeOK
<1>2. HoldsSessions(h)'
  BY <1>1 DEF HoldsSessions
<1>3. Leaving(h)' = {}
  BY <1>1 DEF Leaving
<1>4. Passes(h)
  BY <1>1, <1>2, <1>3 DEF Passes, Moves, Holder
<1> QED
  BY <1>1, <1>4, Quiet

\* Requests begun stay within their bound.
LEMMA BegunType ==
  ASSUME IInv, NEW h \in Handlers, Begin(h)
  PROVE  begun' \in 0 .. MaxRequests
<1>1. begun \in 0 .. MaxRequests /\ MaxRequests \in Nat
  BY Bounds DEF IInv, SignedInStays, TypeOK
<1>2. begun < MaxRequests /\ begun' = begun + 1
  BY DEF Begin
<1> QED
  BY <1>1, <1>2

\* The counter of an accepted code is a counter.
LEMMA OtpType ==
  ASSUME NEW otp \in 1 .. MaxCounter
  PROVE  otp \in 0 .. MaxCounter
<1>1. MaxCounter \in Nat
  BY Bounds
<1> QED
  BY <1>1

\* A handler that only reads at its start preserves the invariant.
LEMMA Begins ==
  ASSUME IInv, NEW h \in Handlers, NEW c \in Calls,
         Begin(h), Reading, Wait(h, c),
         c.own = None, c.ends = {}, c.open = {},
         c.do \notin {"step up", "replace", "logout", "add"},
         c.do \in {"clear", "insert"} => c.code = None,
         CallAgrees(h)', RoleGranted(h)'
  PROVE  IInv'
<1>1. /\ UNCHANGED <<users, sessions, recovery, resets, invitations, codes>>
      /\ UNCHANGED <<active, out, grants, faults>>
      /\ calls[h].do = "idle" /\ begun' \in 0 .. MaxRequests
  BY BegunType DEF Begin, Doing, Reading, tables
<1>2. calls[h].own = None /\ calls[h].ends = {}
  BY <1>1 DEF IInv, CallsAgree, HoldsSessions
<1>3. calls' \in [Handlers -> Calls]
  BY CallChange DEF IInv, SignedInStays, TypeOK
<1>4. TypeOK'
  BY <1>1, <1>3 DEF IInv, SignedInStays, TypeOK
<1>5. Grows /\ RolesAgree'
  BY <1>1 DEF Grows, IInv, RolesAgree, Granted, LastDecision, Abides
<1>6. \A k \in RecoveryCodes : k # None
  BY PortalAssumption
<1> QED
  BY <1>1, <1>2, <1>4, <1>5, <1>6, Turn

\* The account it read is there, and an administrator's role was granted.
LEMMA BeginsWithAccount ==
  ASSUME IInv, NEW h \in Handlers, NEW c \in Calls,
         Begin(h), Reading, Wait(h, c),
         NEW u \in Users, users[u] # None, c.user = u, c.seen = users[u],
         c.own = None, c.ends = {}, c.open = {},
         c.do \in {"insert", "counter", "failure", "recovery", "enroll",
                   "activate", "link", "password", "wipe", "code", "verify"},
         c.do \in {"recovery", "failure"} \/ c.code = None,
         c.do = "recovery" => c.code \in RecoveryCodes,
         c.do = "password" => c.reset \in Resets /\ resets[c.reset] # None
  PROVE  IInv'
<1>1. /\ UNCHANGED <<users, resets, invitations, grants>> /\ calls'[h] = c
      /\ users[u] \in AccountRecords
      /\ users[u].role = "admin" => u \in Granted
  BY CallChange DEF Reading, tables, IInv, SignedInStays, TypeOK, RolesAgree, LastDecision
<1>2. CallAgrees(h)'
  BY <1>1 DEF CallAgrees
<1>3. RoleGranted(h)'
  BY <1>1 DEF RoleGranted, Unnamed, Granted
<1> QED
  BY <1>2, <1>3, Begins

\* Login preserves the invariant.
LEMMA LoginKeeps ==
  ASSUME IInv, NEW h \in Handlers, NEW u \in Users, Login(h, u)
  PROVE  IInv'
<1>1. PICK c : c = [Reads("insert", u) EXCEPT !.mfa = ~MfaRequired(users[u])]
  OBVIOUS
<1>2. /\ c \in Calls /\ c.do = "insert" /\ c.user = u /\ c.seen = users[u]
      /\ c.code = None /\ c.own = None /\ c.ends = {} /\ c.open = {}
  <2>1. MfaRequired(users[u]) \in BOOLEAN
    BY DEF Login, MayLogin, Found, MfaRequired, IInv, SignedInStays, TypeOK,
           AccountRecords
  <2>2. "insert" \in Steps
    BY DEF Steps
  <2>3. PICK r : r = Reads("insert", u)
    OBVIOUS
  <2>4. /\ r \in Calls /\ r.do = "insert" /\ r.user = u /\ r.seen = users[u]
        /\ r.code = None /\ r.own = None /\ r.ends = {} /\ r.open = {}
    BY <2>2, <2>3, ReadsType
  <2> QED
    BY <1>1, <2>1, <2>3, <2>4 DEF Calls
<1> QED
  BY <1>1, <1>2, BeginsWithAccount DEF Login, MayLogin, Found

\* LoginWithOtp preserves the invariant.
LEMMA LoginWithOtpKeeps ==
  ASSUME IInv, NEW h \in Handlers, NEW u \in Users, NEW otp \in 1 .. MaxCounter,
         NEW right \in BOOLEAN, LoginWithOtp(h, u, otp, right)
  PROVE  IInv'
<1>1. PICK step \in {"counter", "failure"} :
        step = IF right /\ Accepts(users[u], otp) THEN "counter" ELSE "failure"
  OBVIOUS
<1>2. PICK c : c = [Reads(step, u) EXCEPT !.otp = otp, !.mfa = TRUE]
  OBVIOUS
<1>3. /\ c \in Calls /\ c.do = step /\ c.user = u /\ c.seen = users[u]
      /\ c.code = None /\ c.own = None /\ c.ends = {} /\ c.open = {}
  <2>1. step \in Steps
    BY DEF Steps
  <2>2. PICK r : r = Reads(step, u)
    OBVIOUS
  <2>3. /\ r \in Calls /\ r.do = step /\ r.user = u /\ r.seen = users[u]
        /\ r.code = None /\ r.own = None /\ r.ends = {} /\ r.open = {}
    BY <2>1, <2>2, ReadsType
  <2> QED
    BY <1>2, <2>2, <2>3, OtpType DEF Calls
<1> QED
  BY <1>1, <1>2, <1>3, BeginsWithAccount DEF LoginWithOtp, MayLogin, Found

\* LoginWithRecoveryCode preserves the invariant.
LEMMA LoginWithRecoveryCodeKeeps ==
  ASSUME IInv, NEW h \in Handlers, NEW u \in Users, NEW k \in RecoveryCodes,
         LoginWithRecoveryCode(h, u, k)
  PROVE  IInv'
<1>1. PICK c : c = [Reads("recovery", u) EXCEPT !.code = k, !.mfa = TRUE]
  OBVIOUS
<1>2. /\ c \in Calls /\ c.do = "recovery" /\ c.user = u /\ c.seen = users[u]
      /\ c.code = k /\ c.own = None /\ c.ends = {} /\ c.open = {}
  <2>1. "recovery" \in Steps
    BY DEF Steps
  <2>2. PICK r : r = Reads("recovery", u)
    OBVIOUS
  <2>3. /\ r \in Calls /\ r.do = "recovery" /\ r.user = u /\ r.seen = users[u]
        /\ r.code = None /\ r.own = None /\ r.ends = {} /\ r.open = {}
    BY <2>1, <2>2, ReadsType
  <2> QED
    BY <1>1, <2>2, <2>3 DEF Calls
<1> QED
  BY <1>1, <1>2, BeginsWithAccount DEF LoginWithRecoveryCode, MayLogin, Found

\* A session that is honoured is that of a user.
LEMMA OwnSession ==
  ASSUME IInv, NEW own \in active
  PROVE  /\ own \in Sessions /\ own # None
         /\ sessions[own] # None /\ sessions[own] \in SessionRecords
         /\ sessions[own].user \in Users
  BY PortalAssumption DEF IInv, SignedInStays, TypeOK, SessionRecords

\* StartEnrollment preserves the invariant.
LEMMA StartEnrollmentKeeps ==
  ASSUME IInv, NEW h \in Handlers, NEW own \in Sessions, StartEnrollment(h, own)
  PROVE  IInv'
<1>1. PICK u \in Users : u = sessions[own].user
  BY OwnSession DEF StartEnrollment, SignedIn
<1>2. PICK c : c = Reads("enroll", u)
  OBVIOUS
<1>3. /\ c \in Calls /\ c.do = "enroll" /\ c.user = u /\ c.seen = users[u]
      /\ c.code = None /\ c.own = None /\ c.ends = {} /\ c.open = {}
  <2>1. "enroll" \in Steps
    BY DEF Steps
  <2> QED
    BY <1>2, <2>1, ReadsType
<1> QED
  BY <1>1, <1>2, <1>3, BeginsWithAccount DEF StartEnrollment, SignedIn, Found

\* ConfirmEnrollment preserves the invariant.
LEMMA ConfirmEnrollmentKeeps ==
  ASSUME IInv, NEW h \in Handlers, NEW own \in Sessions,
         NEW otp \in 1 .. MaxCounter, ConfirmEnrollment(h, own, otp)
  PROVE  IInv'
<1>1. PICK u \in Users : u = sessions[own].user
  BY OwnSession DEF ConfirmEnrollment, SignedIn
<1>2. PICK c : c = [Reads("activate", u) EXCEPT !.otp = otp, !.mfa = TRUE]
  OBVIOUS
<1>3. /\ c \in Calls /\ c.do = "activate" /\ c.user = u /\ c.seen = users[u]
      /\ c.code = None /\ c.own = None /\ c.ends = {} /\ c.open = {}
  <2>1. "activate" \in Steps
    BY DEF Steps
  <2>2. PICK r : r = Reads("activate", u)
    OBVIOUS
  <2>3. /\ r \in Calls /\ r.do = "activate" /\ r.user = u /\ r.seen = users[u]
        /\ r.code = None /\ r.own = None /\ r.ends = {} /\ r.open = {}
    BY <2>1, <2>2, ReadsType
  <2> QED
    BY <1>2, <2>2, <2>3, OtpType DEF Calls
<1> QED
  BY <1>1, <1>2, <1>3, BeginsWithAccount DEF ConfirmEnrollment, SignedIn, Found

\* RequestPasswordReset preserves the invariant.
LEMMA RequestPasswordResetKeeps ==
  ASSUME IInv, NEW h \in Handlers, NEW u \in Users, RequestPasswordReset(h, u)
  PROVE  IInv'
<1>1. PICK c : c = Reads("link", u)
  OBVIOUS
<1>2. /\ c \in Calls /\ c.do = "link" /\ c.user = u /\ c.seen = users[u]
      /\ c.code = None /\ c.own = None /\ c.ends = {} /\ c.open = {}
  <2>1. "link" \in Steps
    BY DEF Steps
  <2> QED
    BY <1>1, <2>1, ReadsType
<1> QED
  BY <1>1, <1>2, BeginsWithAccount DEF RequestPasswordReset, MayLogin, Found

\* CompletePasswordReset preserves the invariant.
LEMMA CompletePasswordResetKeeps ==
  ASSUME IInv, NEW h \in Handlers, NEW r \in Resets, CompletePasswordReset(h, r)
  PROVE  IInv'
<1>1. PICK u \in Users : u = resets[r].user
  BY DEF CompletePasswordReset, IInv, SignedInStays, TypeOK, ResetRecords
<1>2. PICK c : c = [Reads("password", u) EXCEPT !.reset = r]
  OBVIOUS
<1>3. /\ c \in Calls /\ c.do = "password" /\ c.user = u /\ c.seen = users[u]
      /\ c.code = None /\ c.own = None /\ c.ends = {} /\ c.open = {}
      /\ c.reset = r
  <2>1. "password" \in Steps
    BY DEF Steps
  <2>2. PICK read : read = Reads("password", u)
    OBVIOUS
  <2>3. /\ read \in Calls /\ read.do = "password" /\ read.user = u /\ read.seen = users[u]
        /\ read.code = None /\ read.own = None /\ read.ends = {} /\ read.open = {}
    BY <2>1, <2>2, ReadsType
  <2> QED
    BY <1>2, <2>2, <2>3 DEF Calls
<1> QED
  BY <1>1, <1>2, <1>3, BeginsWithAccount DEF CompletePasswordReset, Found

\* ResetUserMfa preserves the invariant.
LEMMA ResetUserMfaKeeps ==
  ASSUME IInv, NEW h \in Handlers, NEW own \in Sessions, NEW u \in Users,
         ResetUserMfa(h, own, u)
  PROVE  IInv'
<1>1. PICK c : c = Reads("wipe", u)
  OBVIOUS
<1>2. /\ c \in Calls /\ c.do = "wipe" /\ c.user = u /\ c.seen = users[u]
      /\ c.code = None /\ c.own = None /\ c.ends = {} /\ c.open = {}
  <2>1. "wipe" \in Steps
    BY DEF Steps
  <2> QED
    BY <1>1, <2>1, ReadsType
<1> QED
  BY <1>1, <1>2, BeginsWithAccount DEF ResetUserMfa

\* ResendVerification preserves the invariant.
LEMMA ResendVerificationKeeps ==
  ASSUME IInv, NEW h \in Handlers, NEW u \in Users, ResendVerification(h, u)
  PROVE  IInv'
<1>1. PICK c : c = Reads("code", u)
  OBVIOUS
<1>2. /\ c \in Calls /\ c.do = "code" /\ c.user = u /\ c.seen = users[u]
      /\ c.code = None /\ c.own = None /\ c.ends = {} /\ c.open = {}
  <2>1. "code" \in Steps
    BY DEF Steps
  <2> QED
    BY <1>1, <2>1, ReadsType
<1> QED
  BY <1>1, <1>2, BeginsWithAccount DEF ResendVerification, Found

\* VerifyEmail preserves the invariant.
LEMMA VerifyEmailKeeps ==
  ASSUME IInv, NEW h \in Handlers, NEW u \in Users, VerifyEmail(h, u)
  PROVE  IInv'
<1>1. PICK c : c = Reads("verify", u)
  OBVIOUS
<1>2. /\ c \in Calls /\ c.do = "verify" /\ c.user = u /\ c.seen = users[u]
      /\ c.code = None /\ c.own = None /\ c.ends = {} /\ c.open = {}
  <2>1. "verify" \in Steps
    BY DEF Steps
  <2> QED
    BY <1>1, <2>1, ReadsType
<1> QED
  BY <1>1, <1>2, BeginsWithAccount DEF VerifyEmail, Found

\* The call of a handler that has filled in the form of an account, and of one whose
\* form names the role.
FormOf(step, u, account) == [Reads(step, u) EXCEPT !.seen = account]
NamedFormOf(step, u, account) ==
  [Reads(step, u) EXCEPT !.seen = account, !.names = TRUE]

\* The account to be written is made up by the handler.
LEMMA FormType ==
  ASSUME IInv, NEW step \in Steps, NEW u \in Users, NEW account \in AccountRecords
  PROVE  \E c \in Calls :
           /\ c = FormOf(step, u, account)
           /\ c.do = step /\ c.user = u /\ c.seen = account
           /\ c.code = None /\ c.own = None /\ c.ends = {} /\ c.open = {}
<1>1. PICK r : r = Reads(step, u)
  OBVIOUS
<1>2. /\ r \in Calls /\ r.do = step /\ r.user = u
      /\ r.code = None /\ r.own = None /\ r.ends = {} /\ r.open = {}
  BY <1>1, ReadsType
<1>3. PICK c : c = [r EXCEPT !.seen = account]
  OBVIOUS
<1>4. /\ c \in Calls /\ c.do = step /\ c.user = u /\ c.seen = account
      /\ c.code = None /\ c.own = None /\ c.ends = {} /\ c.open = {}
  BY <1>2, <1>3 DEF Calls
<1> QED
  BY <1>1, <1>3, <1>4 DEF FormOf

\* So is one whose role the request names.
LEMMA NamedFormType ==
  ASSUME IInv, NEW step \in Steps, NEW u \in Users, NEW account \in AccountRecords
  PROVE  \E c \in Calls :
           /\ c = NamedFormOf(step, u, account)
           /\ c.do = step /\ c.user = u /\ c.seen = account /\ c.names
           /\ c.code = None /\ c.own = None /\ c.ends = {} /\ c.open = {}
<1>1. PICK r : r = Reads(step, u)
  OBVIOUS
<1>2. /\ r \in Calls /\ r.do = step /\ r.user = u
      /\ r.code = None /\ r.own = None /\ r.ends = {} /\ r.open = {}
  BY <1>1, ReadsType
<1>3. PICK c : c = [r EXCEPT !.seen = account, !.names = TRUE]
  OBVIOUS
<1>4. /\ c \in Calls /\ c.do = step /\ c.user = u /\ c.seen = account /\ c.names
      /\ c.code = None /\ c.own = None /\ c.ends = {} /\ c.open = {}
  BY <1>2, <1>3 DEF Calls
<1> QED
  BY <1>1, <1>3, <1>4 DEF NamedFormOf

\* So does a handler that starts with an account form.
LEMMA BeginsWithForm ==
  ASSUME IInv, NEW h \in Handlers, NEW u \in Users, NEW account \in AccountRecords,
         NEW c \in Calls, Begin(h), Reading, Wait(h, c),
         c.do \in {"update", "create", "signup", "invite"},
         c.user = u, c.seen = account,
         c.code = None, c.own = None, c.ends = {}, c.open = {},
         c.do = "update" => users[u] # None,
         Unnamed(c) => account.role = users[u].role,
         c.do = "signup" => account.role # "admin"
  PROVE  IInv'
<1>1. UNCHANGED <<users, resets, invitations, grants>> /\ calls'[h] = c
  BY CallChange DEF Reading, tables, IInv, SignedInStays, TypeOK
<1>2. CallAgrees(h)'
  BY <1>1 DEF CallAgrees, AccountSteps
<1>3. users[u] # None => /\ users[u].role = "admin" => u \in Granted
                         /\ u \notin overlapped => users[u].role = decided[u]
  BY DEF IInv, RolesAgree, LastDecision
<1>4. RoleGranted(h)'
  BY <1>1, <1>3 DEF RoleGranted, Unnamed, Granted
<1> QED
  BY <1>2, <1>4, Begins

\* An edited account is an account, and has the role that was named or read.
LEMMA EditsType ==
  ASSUME NEW account \in AccountRecords
  PROVE  /\ \A role \in Roles : Edited(account, role) \in AccountRecords
         /\ \A edited \in OtherEdits(account) :
              edited \in AccountRecords /\ edited.role = account.role
<1>1. \A role \in Roles : /\ Edited(account, role) \in AccountRecords
                          /\ Edited(account, role).role = role
  BY DEF AccountRecords, Edited
<1>2. \A b \in AccountRecords, e \in BOOLEAN :
        /\ [b EXCEPT !.enabled = e] \in AccountRecords
        /\ [b EXCEPT !.enabled = e].role = b.role
        /\ [b EXCEPT !.required = e] \in AccountRecords
        /\ [b EXCEPT !.required = e].role = b.role
  BY DEF AccountRecords
<1>3. account.role \in Roles
  BY DEF AccountRecords
<1>4. ASSUME NEW edited \in OtherEdits(account)
      PROVE  edited \in AccountRecords /\ edited.role = account.role
  <2>1. CASE \E e \in BOOLEAN :
          edited = [Edited(account, account.role) EXCEPT !.enabled = e]
    <3>1. PICK e \in BOOLEAN :
            edited = [Edited(account, account.role) EXCEPT !.enabled = e]
      BY <2>1
    <3>2. PICK b \in AccountRecords :
            b = Edited(account, account.role) /\ b.role = account.role
      BY <1>1, <1>3
    <3>3. edited = [b EXCEPT !.enabled = e]
      BY <3>1, <3>2
    <3> QED
      BY <3>2, <3>3, <1>2
  <2>2. CASE \E r \in BOOLEAN :
          edited = [account EXCEPT !.required = r \/ account.role = "admin"]
    BY <2>2, <1>2
  <2> QED
    BY <2>1, <2>2 DEF OtherEdits
<1> QED
  BY <1>1, <1>4

\* UpdateUser preserves the invariant.
LEMMA UpdateUserKeeps ==
  ASSUME IInv, NEW h \in Handlers, NEW own \in Sessions, NEW u \in Users,
         UpdateUser(h, own, u)
  PROVE  IInv'
<1>1. /\ Begin(h) /\ Reading /\ users[u] # None /\ users[u] \in AccountRecords
      /\ users[u].role = "admin" => u \in Granted
  BY DEF UpdateUser, IInv, SignedInStays, TypeOK, RolesAgree, LastDecision
<1>2. "update" \in Steps
  BY DEF Steps
<1>3. ASSUME NEW role \in Roles, Wait(h, NamedFormOf("update", u, Edited(users[u], role)))
      PROVE  IInv'
  <2>1. Edited(users[u], role) \in AccountRecords
    BY <1>1, EditsType
  <2>2. PICK c \in Calls :
          /\ c = NamedFormOf("update", u, Edited(users[u], role))
          /\ c.do = "update" /\ c.user = u /\ c.seen = Edited(users[u], role) /\ c.names
          /\ c.code = None /\ c.own = None /\ c.ends = {} /\ c.open = {}
    BY <1>2, <2>1, NamedFormType
  <2> QED
    BY <1>1, <1>3, <2>1, <2>2, BeginsWithForm DEF Unnamed
<1>4. ASSUME NEW account \in OtherEdits(users[u]), Wait(h, FormOf("update", u, account))
      PROVE  IInv'
  <2>1. account \in AccountRecords /\ account.role = users[u].role
    BY <1>1, EditsType
  <2>2. PICK c \in Calls :
          /\ c = FormOf("update", u, account)
          /\ c.do = "update" /\ c.user = u /\ c.seen = account
          /\ c.code = None /\ c.own = None /\ c.ends = {} /\ c.open = {}
    BY <1>2, <2>1, FormType
  <2> QED
    BY <1>1, <1>4, <2>1, <2>2, BeginsWithForm
<1> QED
  BY <1>3, <1>4 DEF UpdateUser, FormOf, NamedFormOf

\* CreateUser preserves the invariant.
LEMMA CreateUserKeeps ==
  ASSUME IInv, NEW h \in Handlers, NEW own \in Sessions, NEW u \in Users,
         NEW role \in Roles, CreateUser(h, own, u, role)
  PROVE  IInv'
<1>1. /\ Begin(h) /\ Reading /\ Wait(h, FormOf("create", u, Account(role, TRUE, role = "admin")))
      /\ "create" \in Steps
  BY DEF CreateUser, FormOf, Steps
<1>2. PICK account \in AccountRecords : account = Account(role, TRUE, role = "admin")
  BY AccountType DEF Roles
<1>3. PICK c \in Calls :
        /\ c = FormOf("create", u, account)
        /\ c.do = "create" /\ c.user = u /\ c.seen = account
        /\ c.code = None /\ c.own = None /\ c.ends = {} /\ c.open = {}
  BY <1>1, FormType
<1>4. Wait(h, c)
  BY <1>1, <1>2, <1>3
<1>5. c.do \in {"update", "create", "signup", "invite"}
  BY <1>3
<1> QED
  BY <1>1, <1>3, <1>4, <1>5, BeginsWithForm DEF Unnamed

\* Signup preserves the invariant.
LEMMA SignupKeeps ==
  ASSUME IInv, NEW h \in Handlers, NEW u \in Users, Signup(h, u)
  PROVE  IInv'
<1>1. /\ Begin(h) /\ Reading /\ Wait(h, FormOf("signup", u, Account("developer", FALSE, FALSE)))
      /\ "signup" \in Steps
  BY DEF Signup, FormOf, Steps
<1>2. PICK account \in AccountRecords :
        /\ account = Account("developer", FALSE, FALSE)
        /\ account.role # "admin"
  BY AccountType DEF Roles
<1>3. PICK c \in Calls :
        /\ c = FormOf("signup", u, account)
        /\ c.do = "signup" /\ c.user = u /\ c.seen = account
        /\ c.code = None /\ c.own = None /\ c.ends = {} /\ c.open = {}
  BY <1>1, FormType
<1> QED
  BY <1>1, <1>2, <1>3, BeginsWithForm DEF Unnamed

\* Invite preserves the invariant.
LEMMA InviteKeeps ==
  ASSUME IInv, NEW h \in Handlers, NEW own \in Sessions, NEW u \in Users,
         NEW role \in Roles, Invite(h, own, u, role)
  PROVE  IInv'
<1>1. /\ Begin(h) /\ Reading /\ Wait(h, FormOf("invite", u, Account(role, TRUE, TRUE)))
      /\ "invite" \in Steps
  BY DEF Invite, FormOf, Steps
<1>2. PICK account \in AccountRecords : account = Account(role, TRUE, TRUE)
  BY AccountType DEF Roles
<1>3. PICK c \in Calls :
        /\ c = FormOf("invite", u, account)
        /\ c.do = "invite" /\ c.user = u /\ c.seen = account
        /\ c.code = None /\ c.own = None /\ c.ends = {} /\ c.open = {}
  BY <1>1, FormType
<1>4. Wait(h, c)
  BY <1>1, <1>2, <1>3
<1>5. c.do \in {"update", "create", "signup", "invite"}
  BY <1>3
<1> QED
  BY <1>1, <1>3, <1>4, <1>5, BeginsWithForm DEF Unnamed

\* The role an invitation gives was granted when it was stored.
LEMMA AcceptInvitationKeeps ==
  ASSUME IInv, NEW h \in Handlers, NEW i \in Invitations, AcceptInvitation(h, i)
  PROVE  IInv'
<1>1. /\ Begin(h) /\ Reading /\ invitations[i] \in InvitationRecords
      /\ UNCHANGED <<users, resets, invitations, grants>>
  BY DEF AcceptInvitation, Reading, tables, IInv, SignedInStays, TypeOK
<1>2. /\ invitations[i].user \in Users /\ invitations[i].role \in Roles
      /\ invitations[i] # None
      /\ invitations[i].role = "admin" => invitations[i].user \in Granted
  BY <1>1, RowsExist DEF InvitationRecords, IInv, RolesAgree, Granted
<1>3. CASE Wait(h, [Idle EXCEPT !.do = "expire", !.invitation = i])
  <2>1. PICK c : c = [Idle EXCEPT !.do = "expire", !.invitation = i]
    OBVIOUS
  <2>2. /\ c \in Calls /\ c.do = "expire" /\ c.invitation = i /\ c.code = None
        /\ c.own = None /\ c.ends = {} /\ c.open = {}
    BY <2>1, IdleType DEF Calls, Steps
  <2>3. Wait(h, c) /\ calls'[h] = c
    BY <1>3, <2>1, <2>2, CallChange DEF IInv, SignedInStays, TypeOK
  <2>4. CallAgrees(h)'
    BY <1>1, <1>2, <2>2, <2>3 DEF CallAgrees, AccountSteps
  <2>5. RoleGranted(h)'
    BY <2>2, <2>3 DEF RoleGranted, Unnamed
  <2> QED
    BY <1>1, <2>2, <2>3, <2>4, <2>5, Begins
<1>4. CASE Wait(h, [Idle EXCEPT !.do = "accept", !.user = invitations[i].user,
                      !.seen = Account(invitations[i].role, TRUE, TRUE),
                      !.invitation = i])
  <2>1. PICK u \in Users, role \in Roles :
          u = invitations[i].user /\ role = invitations[i].role
    BY <1>2
  <2>2. PICK account \in AccountRecords :
          account = Account(role, TRUE, TRUE) /\ account.role = role
    BY AccountType
  <2>3. PICK c : c = [Idle EXCEPT !.do = "accept", !.user = u, !.seen = account,
                        !.invitation = i]
    OBVIOUS
  <2>4. /\ c \in Calls /\ c.do = "accept" /\ c.user = u /\ c.seen = account
        /\ c.invitation = i /\ c.code = None
        /\ c.own = None /\ c.ends = {} /\ c.open = {}
    BY <2>3, IdleType DEF Calls, Steps
  <2>5. Wait(h, c)
    BY <1>4, <2>1, <2>2, <2>3
  <2>6. calls'[h] = c
    BY <2>4, <2>5, CallChange DEF IInv, SignedInStays, TypeOK
  <2>7. CallAgrees(h)'
    BY <1>1, <1>2, <2>4, <2>6 DEF CallAgrees, AccountSteps
  <2>8. RoleGranted(h)'
    BY <1>1, <1>2, <2>1, <2>2, <2>4, <2>6 DEF RoleGranted, Unnamed, Granted
  <2> QED
    BY <1>1, <2>4, <2>5, <2>7, <2>8, Begins
<1> QED
  BY <1>3, <1>4 DEF AcceptInvitation

-----------------------------------------------------------------------------
(* Handlers that write an account.                                         *)

\* The updates of an account keep its type, and its role unless they are about it.
LEMMA AccountShape ==
  ASSUME NEW a \in AccountRecords
  PROVE  /\ [a EXCEPT !.locked = FALSE] \in AccountRecords
         /\ [a EXCEPT !.locked = FALSE].role = a.role
         /\ \A n \in 0 .. MaxCounter :
              /\ [a EXCEPT !.counter = n] \in AccountRecords
              /\ [a EXCEPT !.counter = n].role = a.role
              /\ [a EXCEPT !.mfa = "active", !.required = TRUE, !.counter = n]
                   \in AccountRecords
              /\ [a EXCEPT !.mfa = "active", !.required = TRUE,
                           !.counter = n].role = a.role
         /\ [a EXCEPT !.verified = TRUE] \in AccountRecords
         /\ [a EXCEPT !.verified = TRUE].role = a.role
         /\ \A b \in AccountRecords :
              /\ [a EXCEPT !.role = b.role, !.required = b.required,
                           !.enabled = b.enabled] \in AccountRecords
              /\ [a EXCEPT !.role = b.role, !.required = b.required,
                           !.enabled = b.enabled].role = b.role
  BY DEF AccountRecords

\* A pending factor keeps the type and the role of the account.
LEMMA FreshFactorShape ==
  ASSUME NEW a \in AccountRecords
  PROVE  /\ [a EXCEPT !.secret = TRUE, !.mfa = "pending", !.counter = 0]
              \in AccountRecords
         /\ [a EXCEPT !.secret = TRUE, !.mfa = "pending", !.counter = 0].role
              = a.role
<1>1. 0 \in 0 .. MaxCounter
  BY Bounds
<1> QED
  BY <1>1 DEF AccountRecords

\* A role is written into the account of u, as decided.
Decides(u, role) ==
  /\ \A v \in Users : v # u => /\ decided'[v] = decided[v]
                               /\ (v \in overlapped' <=> v \in overlapped)
  /\ u \notin overlapped' => role = decided'[u]
  /\ \A g \in Handlers :
       calls'[g] = calls[g] /\ Unnamed(calls[g]) /\ calls[g].user = u => Abides(u)

\* A write of one account, its role explained, keeps the agreement of the rows.
LEMMA AccountWritten ==
  ASSUME IInv, NEW u \in Users, users[u] # None,
         NEW account \in AccountRecords,
         users' = [users EXCEPT ![u] = account],
         UNCHANGED <<sessions, resets, invitations>>, raised \subseteq raised',
         (UNCHANGED grants /\ account.role = users[u].role) \/ Decides(u, account.role),
         account.role = "admin" => users[u].role = "admin" \/ u \in raised' \cup {Admin}
  PROVE  /\ users' \in [Users -> AccountRecords \cup {None}]
         /\ Grows /\ RolesAgree'
<1>1. /\ users' \in [Users -> AccountRecords \cup {None}]
      /\ users'[u] = account /\ account # None
      /\ \A v \in Users : v # u => users'[v] = users[v]
  BY RowsExist DEF IInv, SignedInStays, TypeOK
<1>2. \A v \in Users : v # u => /\ decided'[v] = decided[v]
                                /\ (v \in overlapped' <=> v \in overlapped)
  BY DEF Decides
<1>3. LastDecision
  BY DEF IInv, RolesAgree
<1>4. Grows
  <2>1. ASSUME NEW g \in Handlers, calls'[g] = calls[g], Unnamed(calls[g])
        PROVE  Abides(calls[g].user)
    <3>1. calls[g].user \in Users
      BY <2>1 DEF Unnamed, IInv, CallsAgree, CallAgrees, AccountSteps
    <3>2. CASE UNCHANGED grants
      BY <3>2 DEF Abides
    <3>3. CASE calls[g].user # u
      <4>1. PICK v \in Users : v = calls[g].user /\ v # u
        BY <3>1, <3>3
      <4>2. decided'[v] = decided[v] /\ (v \in overlapped' <=> v \in overlapped)
        BY <1>2, <4>1
      <4> QED
        BY <4>1, <4>2 DEF Abides
    <3>4. CASE Decides(u, account.role) /\ calls[g].user = u
      BY <2>1, <3>4 DEF Decides
    <3> QED
      BY <3>2, <3>3, <3>4
  <2> QED
    BY <1>1, <2>1 DEF Grows
<1>5. ASSUME NEW v \in Users, users'[v] # None, users'[v].role = "admin"
      PROVE  v \in Granted'
  BY <1>1, <1>5 DEF IInv, RolesAgree, Granted
<1>6. LastDecision'
  <2>1. ASSUME NEW v \in Users, users'[v] # None, v \notin overlapped', v # u
        PROVE  users'[v].role = decided'[v]
    <3>1. decided'[v] = decided[v] /\ (v \in overlapped' <=> v \in overlapped)
      BY <1>2, <2>1
    <3>2. users'[v] = users[v]
      BY <1>1, <2>1
    <3> QED
      BY <1>3, <2>1, <3>1, <3>2 DEF LastDecision
  <2>2. u \notin overlapped' => account.role = decided'[u]
    <3>1. CASE UNCHANGED grants /\ account.role = users[u].role
      BY <1>3, <3>1 DEF LastDecision
    <3>2. CASE Decides(u, account.role)
      BY <3>2 DEF Decides
    <3> QED
      BY <3>1, <3>2
  <2> QED
    BY <1>1, <2>1, <2>2 DEF LastDecision
<1>7. RolesAgree'
  BY <1>5, <1>6 DEF IInv, RolesAgree, Granted
<1> QED
  BY <1>1, <1>4, <1>7

\* A handler that holds no session writes the account and turns to its next call.
LEMMA WritesAccount ==
  ASSUME IInv, NEW u \in Users, users[u] # None,
         NEW account \in AccountRecords,
         users' = [users EXCEPT ![u] = account],
         UNCHANGED <<sessions, recovery, resets, invitations, codes, active, out,
                     begun, faults>>,
         raised \subseteq raised', GrantsOK',
         (UNCHANGED grants /\ account.role = users[u].role) \/ Decides(u, account.role),
         account.role = "admin" => users[u].role = "admin" \/ u \in raised' \cup {Admin},
         NEW h \in Handlers, NEW c \in Calls, Wait(h, c),
         calls[h].own = None, calls[h].ends = {},
         c.own = None, c.ends = {}, c.open = {},
         c.do \notin {"step up", "replace", "logout", "add"},
         \A k \in RecoveryCodes :
           c.code = k /\ c.do \in {"clear", "insert"} => Holder(h, k),
         CallAgrees(h)', RoleGranted(h)'
  PROVE  IInv'
<1>1. /\ users' \in [Users -> AccountRecords \cup {None}]
      /\ Grows /\ RolesAgree'
  BY AccountWritten
<1>2. calls' \in [Handlers -> Calls]
  BY CallChange DEF IInv, SignedInStays, TypeOK
<1>3. TypeOK'
  BY <1>1, <1>2 DEF IInv, SignedInStays, TypeOK
<1> QED
  BY <1>1, <1>3, Turn

\* A handler at rest agrees with every state.
LEMMA IdleAgrees ==
  ASSUME NEW h \in Handlers, calls'[h] = Idle
  PROVE  CallAgrees(h)' /\ RoleGranted(h)'
  BY IdleType DEF CallAgrees, RoleGranted, Unnamed, AccountSteps

\* A handler that holds no session.
LEMMA NoSession ==
  ASSUME IInv, NEW h \in Handlers,
         calls[h].do \notin {"step up", "replace", "logout", "insert", "add",
                             "password commit", "wipe commit"}
  PROVE  calls[h].own = None /\ calls[h].ends = {}
  BY DEF IInv, CallsAgree, HoldsSessions

\* It writes the account and is done.
LEMMA WritesAccountLast ==
  ASSUME IInv, NEW u \in Users, users[u] # None,
         NEW account \in AccountRecords,
         users' = [users EXCEPT ![u] = account],
         UNCHANGED <<sessions, recovery, resets, invitations, codes, active, out,
                     begun, faults>>,
         raised \subseteq raised', GrantsOK',
         (UNCHANGED grants /\ account.role = users[u].role) \/ Decides(u, account.role),
         account.role = "admin" => users[u].role = "admin" \/ u \in raised' \cup {Admin},
         NEW h \in Handlers, Wait(h, Idle),
         calls[h].own = None, calls[h].ends = {}
  PROVE  IInv'
<1>1. calls'[h] = Idle /\ Idle \in Calls
  BY IdleType, CallChange DEF IInv, SignedInStays, TypeOK
<1>2. CallAgrees(h)' /\ RoleGranted(h)'
  BY <1>1, IdleAgrees
<1> QED
  BY <1>1, <1>2, IdleType, WritesAccount

\* The account a handler works on.
LEMMA AccountAtHand ==
  ASSUME IInv, NEW h \in Handlers, calls[h].do \in AccountSteps
  PROVE  \E u \in Users : /\ u = calls[h].user /\ users[u] # None
                          /\ users[u] \in AccountRecords
  BY DEF IInv, CallsAgree, CallAgrees, SignedInStays, TypeOK

\* RecordMfaFailure preserves the invariant.
LEMMA RecordMfaFailureKeeps ==
  ASSUME IInv, NEW h \in Handlers, RecordMfaFailure(h)
  PROVE  IInv'
<1>1. calls[h].do = "failure" /\ UNCHANGED <<begun, faults>>
  BY DEF RecordMfaFailure, Resumes
<1>2. PICK u \in Users : /\ u = calls[h].user /\ users[u] # None
                         /\ users[u] \in AccountRecords
  BY <1>1, AccountAtHand DEF AccountSteps
<1>3. PICK f : f = IF users[u].failures < MaxAttempts
                   THEN users[u].failures + 1 ELSE MaxAttempts
  OBVIOUS
<1>4. PICK l : l = (users[u].locked \/ f >= MaxAttempts)
  OBVIOUS
<1>5. f \in 0 .. MaxAttempts
  <2>1. users[u].failures \in 0 .. MaxAttempts /\ MaxAttempts \in Nat
    BY <1>2, Bounds DEF AccountRecords
  <2> QED
    BY <2>1, <1>3
<1>6. l \in BOOLEAN
  BY <1>2, <1>4 DEF AccountRecords
<1>7. PICK account : account = [users[u] EXCEPT !.failures = f, !.locked = l]
  OBVIOUS
<1>8. account \in AccountRecords /\ account.role = users[u].role
  BY <1>2, <1>5, <1>6, <1>7 DEF AccountRecords
<1>9. users' = [users EXCEPT ![u] = account]
  BY <1>2, <1>3, <1>4, <1>7 DEF RecordMfaFailure, Write
<1>10. UNCHANGED grants /\ GrantsOK /\ GrantsOK'
  BY DEF RecordMfaFailure, IInv, SignedInStays, TypeOK
<1> QED
  BY <1>1, <1>2, <1>8, <1>9, <1>10, NoSession, WritesAccountLast
  DEF RecordMfaFailure

\* StoreSecret preserves the invariant.
LEMMA StoreSecretKeeps ==
  ASSUME IInv, NEW h \in Handlers, StoreSecret(h)
  PROVE  IInv'
<1>1. calls[h].do = "enroll" /\ UNCHANGED <<begun, faults>>
  BY DEF StoreSecret, Resumes
<1>2. PICK u \in Users : /\ u = calls[h].user /\ users[u] # None
                         /\ users[u] \in AccountRecords
  BY <1>1, AccountAtHand DEF AccountSteps
<1>3. PICK account : account = [users[u] EXCEPT !.secret = TRUE, !.mfa = "pending",
                                                !.counter = 0]
  OBVIOUS
<1>4. account \in AccountRecords /\ account.role = users[u].role
  BY <1>2, <1>3, FreshFactorShape
<1>5. users' = [users EXCEPT ![u] = account]
  BY <1>2, <1>3 DEF StoreSecret, Write
<1>6. UNCHANGED grants /\ GrantsOK /\ GrantsOK'
  BY DEF StoreSecret, IInv, SignedInStays, TypeOK
<1> QED
  BY <1>1, <1>2, <1>4, <1>5, <1>6, NoSession, WritesAccountLast DEF StoreSecret

\* MarkVerified preserves the invariant.
LEMMA MarkVerifiedKeeps ==
  ASSUME IInv, NEW h \in Handlers, MarkVerified(h)
  PROVE  IInv'
<1>1. calls[h].do = "verified" /\ UNCHANGED <<begun, faults>>
  BY DEF MarkVerified, Resumes
<1>2. PICK u \in Users : /\ u = calls[h].user /\ users[u] # None
                         /\ users[u] \in AccountRecords
  BY <1>1, AccountAtHand DEF AccountSteps
<1>3. PICK account : account = [users[u] EXCEPT !.verified = TRUE]
  OBVIOUS
<1>4. account \in AccountRecords /\ account.role = users[u].role
  BY <1>2, <1>3, AccountShape
<1>5. users' = [users EXCEPT ![u] = account]
  BY <1>2, <1>3 DEF MarkVerified, Write
<1>6. UNCHANGED grants /\ GrantsOK /\ GrantsOK'
  BY DEF MarkVerified, IInv, SignedInStays, TypeOK
<1> QED
  BY <1>1, <1>2, <1>4, <1>5, <1>6, NoSession, WritesAccountLast DEF MarkVerified

\* The role written over the account is recorded as granted.
LEMMA WriteUserKeeps ==
  ASSUME IInv, NEW h \in Handlers, WriteUser(h)
  PROVE  IInv'
<1>1. calls[h].do = "update" /\ UNCHANGED <<begun, faults>>
  BY DEF WriteUser, Resumes
<1>2. PICK u \in Users : /\ u = calls[h].user /\ users[u] # None
                         /\ users[u] \in AccountRecords
  BY <1>1, AccountAtHand DEF AccountSteps
<1>3. PICK b \in AccountRecords : b = calls[h].seen
  BY <1>1 DEF IInv, CallsAgree, CallAgrees
<1>4. PICK account : account = [users[u] EXCEPT !.role = b.role,
                                  !.required = b.required, !.enabled = b.enabled]
  OBVIOUS
<1>5. account \in AccountRecords /\ account.role = b.role
  BY <1>2, <1>4, AccountShape
<1>6. users' = [users EXCEPT ![u] = account]
  BY <1>2, <1>3, <1>4 DEF WriteUser, Write
<1>7. /\ raised \subseteq raised' /\ GrantsOK'
      /\ b.role = "admin" => u \in raised' \cup {Admin}
  <2>1. GrantsOK /\ b.role \in Roles
    BY DEF IInv, SignedInStays, TypeOK, AccountRecords
  <2>2. CASE calls[h].names
    BY <1>2, <1>3, <2>1, <2>2 DEF WriteUser
  <2>3. CASE ~calls[h].names
    <3>1. b.role = "admin" => u \in Granted
      BY <1>1, <1>2, <1>3, <2>3 DEF IInv, CallsAgree, RoleGranted, Unnamed
    <3>2. UNCHANGED grants
      BY <2>3 DEF WriteUser
    <3> QED
      BY <2>1, <3>1, <3>2 DEF Granted
  <2> QED
    BY <2>2, <2>3
<1>8. Decides(u, account.role)
  <2>1. calls \in [Handlers -> Calls] /\ calls'[h] = Idle
    BY IdleType, CallChange DEF WriteUser, IInv, SignedInStays, TypeOK
  <2>2. CASE calls[h].names
    <3>1. /\ decided' = [decided EXCEPT ![u] = b.role]
          /\ overlapped' = IF WritingBack(u) # {} THEN overlapped \cup {u}
                                                  ELSE overlapped \ {u}
      BY <1>2, <1>3, <2>2 DEF WriteUser
    <3>2. u \notin overlapped' => \A g \in Handlers : ~(Unnamed(calls[g]) /\ calls[g].user = u)
      BY <3>1 DEF WritingBack, Doing, Unnamed
    <3>3. decided'[u] = b.role /\ \A v \in Users : v # u => decided'[v] = decided[v]
      BY <3>1 DEF IInv, SignedInStays, TypeOK
    <3>4. \A v \in Users : v # u => (v \in overlapped' <=> v \in overlapped)
      BY <3>1
    <3>5. \A g \in Handlers : calls'[g] = calls[g] /\ Unnamed(calls[g]) /\ calls[g].user = u
                              => Abides(u)
      BY <3>2 DEF Abides
    <3> QED
      BY <1>5, <3>3, <3>4, <3>5 DEF Decides
  <2>3. CASE ~calls[h].names
    <3>1. UNCHANGED grants
      BY <2>3 DEF WriteUser
    <3>2. u \notin overlapped => b.role = decided[u]
      BY <1>1, <1>2, <1>3, <2>3 DEF IInv, CallsAgree, RoleGranted, Unnamed
    <3> QED
      BY <1>5, <3>1, <3>2 DEF Decides, Abides
  <2> QED
    BY <2>2, <2>3
<1> QED
  BY <1>1, <1>2, <1>5, <1>6, <1>7, <1>8, NoSession, WritesAccountLast DEF WriteUser

\* The call of a handler that goes on is the same but for its step.
LEMMA GoesType ==
  ASSUME IInv, NEW h \in Handlers, NEW step \in Steps
  PROVE  \E c \in Calls :
           /\ c = [calls[h] EXCEPT !.do = step]
           /\ c.do = step /\ c.user = calls[h].user /\ c.seen = calls[h].seen
           /\ c.code = calls[h].code /\ c.own = calls[h].own
           /\ c.ends = calls[h].ends /\ c.open = calls[h].open
<1>1. PICK b \in Calls : b = calls[h]
  BY DEF IInv, SignedInStays, TypeOK
<1>2. PICK c : c = [b EXCEPT !.do = step]
  OBVIOUS
<1>3. /\ c \in Calls /\ c.do = step /\ c.user = b.user /\ c.seen = b.seen
      /\ c.code = b.code /\ c.own = b.own /\ c.ends = b.ends /\ c.open = b.open
  BY <1>2 DEF Calls
<1> QED
  BY <1>1, <1>2, <1>3

\* ClearMfaFailures preserves the invariant.
LEMMA ClearMfaFailuresKeeps ==
  ASSUME IInv, NEW h \in Handlers, ClearMfaFailures(h)
  PROVE  IInv'
<1>1. calls[h].do = "clear" /\ UNCHANGED <<begun, faults>>
  BY DEF ClearMfaFailures, Resumes
<1>2. PICK u \in Users : /\ u = calls[h].user /\ users[u] # None
                         /\ users[u] \in AccountRecords
  BY <1>1, AccountAtHand DEF AccountSteps
<1>3. PICK account : account = [users[u] EXCEPT !.failures = 0, !.locked = FALSE]
  OBVIOUS
<1>4. account \in AccountRecords /\ account.role = users[u].role
  <2>1. 0 \in 0 .. MaxAttempts
    BY Bounds
  <2> QED
    BY <1>2, <1>3, <2>1 DEF AccountRecords
<1>5. users' = [users EXCEPT ![u] = account]
  BY <1>2, <1>3 DEF ClearMfaFailures, Write
<1>6. "insert" \in Steps
  BY DEF Steps
<1>7. PICK c \in Calls :
        /\ c = [calls[h] EXCEPT !.do = "insert"]
        /\ c.do = "insert" /\ c.user = calls[h].user /\ c.seen = calls[h].seen
        /\ c.code = calls[h].code /\ c.own = calls[h].own
        /\ c.ends = calls[h].ends /\ c.open = calls[h].open
  BY <1>6, GoesType
<1>8. Wait(h, c)
  BY <1>7 DEF ClearMfaFailures, Goes
<1>9. /\ calls[h].own = None /\ calls[h].ends = {} /\ calls[h].open = {}
      /\ calls[h].seen \in AccountRecords
      /\ calls[h].seen.role = "admin" => u \in Granted
  BY <1>1, <1>2 DEF IInv, CallsAgree, CallAgrees, HoldsSessions, RoleGranted, Unnamed
<1>10. /\ UNCHANGED grants /\ GrantsOK /\ GrantsOK' /\ calls'[h] = c
       /\ users'[u] # None
  BY <1>4, <1>5, <1>8, CallChange, RowsExist
  DEF ClearMfaFailures, IInv, SignedInStays, TypeOK
<1>11. CallAgrees(h)' /\ RoleGranted(h)'
  BY <1>2, <1>7, <1>9, <1>10 DEF CallAgrees, RoleGranted, Unnamed, Granted
<1>12. \A k \in RecoveryCodes : c.code = k => Holder(h, k)
  BY <1>1, <1>7 DEF Holder
<1> QED
  BY <1>1, <1>2, <1>4, <1>5, <1>7, <1>8, <1>9, <1>10, <1>11, <1>12, WritesAccount
  DEF ClearMfaFailures

\* ActivateFactor preserves the invariant.
LEMMA ActivateFactorKeeps ==
  ASSUME IInv, NEW h \in Handlers, ActivateFactor(h)
  PROVE  IInv'
<1>1. calls[h].do = "activate" /\ UNCHANGED <<begun, faults>>
  BY DEF ActivateFactor, Resumes
<1>2. PICK u \in Users : /\ u = calls[h].user /\ users[u] # None
                         /\ users[u] \in AccountRecords
  BY <1>1, AccountAtHand DEF AccountSteps
<1>3. PICK otp \in 0 .. MaxCounter : otp = calls[h].otp
  BY DEF IInv, SignedInStays, TypeOK, Calls
<1>4. PICK account : account = [users[u] EXCEPT !.mfa = "active", !.required = TRUE,
                                                !.counter = otp]
  OBVIOUS
<1>5. account \in AccountRecords /\ account.role = users[u].role
  BY <1>2, <1>4, AccountShape
<1>6. users' = [users EXCEPT ![u] = account]
  BY <1>2, <1>3, <1>4 DEF ActivateFactor, Write
<1>7. "codes" \in Steps
  BY DEF Steps
<1>8. PICK c \in Calls :
        /\ c = [calls[h] EXCEPT !.do = "codes"]
        /\ c.do = "codes" /\ c.user = calls[h].user /\ c.seen = calls[h].seen
        /\ c.code = calls[h].code /\ c.own = calls[h].own
        /\ c.ends = calls[h].ends /\ c.open = calls[h].open
  BY <1>7, GoesType
<1>9. Wait(h, c)
  BY <1>8 DEF ActivateFactor, Goes
<1>10. /\ calls[h].own = None /\ calls[h].ends = {} /\ calls[h].open = {}
       /\ calls[h].code = None /\ calls[h].seen \in AccountRecords
       /\ calls[h].seen.role = "admin" => u \in Granted
  BY <1>1, <1>2 DEF IInv, CallsAgree, CallAgrees, HoldsSessions, RoleGranted, Unnamed
<1>11. /\ UNCHANGED grants /\ GrantsOK /\ GrantsOK' /\ calls'[h] = c
       /\ users'[u] # None
  BY <1>5, <1>6, <1>9, CallChange, RowsExist
  DEF ActivateFactor, IInv, SignedInStays, TypeOK
<1>12. CallAgrees(h)' /\ RoleGranted(h)'
  BY <1>2, <1>8, <1>10, <1>11 DEF CallAgrees, RoleGranted, Unnamed, Granted
<1> QED
  BY <1>1, <1>2, <1>5, <1>6, <1>8, <1>9, <1>10, <1>11, <1>12, WritesAccount
  DEF ActivateFactor

\* A step-up takes the session it replaces out of the memory.
LEMMA RecordCounterKeeps ==
  ASSUME IInv, NEW h \in Handlers, RecordCounter(h)
  PROVE  IInv'
<1>1. /\ calls[h].do \in {"counter", "step up"} /\ UNCHANGED <<begun, faults>>
      /\ UNCHANGED <<sessions, recovery, resets, invitations, codes, out, grants>>
  BY DEF RecordCounter, Resumes
<1>2. PICK u \in Users : /\ u = calls[h].user /\ users[u] # None
                         /\ users[u] \in AccountRecords
  BY <1>1, AccountAtHand DEF AccountSteps
<1>3. PICK otp \in 0 .. MaxCounter : otp = calls[h].otp
  BY DEF IInv, SignedInStays, TypeOK, Calls
<1>4. PICK account : account = [users[u] EXCEPT !.counter = otp]
  OBVIOUS
<1>5. account \in AccountRecords /\ account.role = users[u].role
  BY <1>2, <1>4, AccountShape
<1>6. users' = [users EXCEPT ![u] = account]
  BY <1>2, <1>3, <1>4 DEF RecordCounter, Write
<1>7. /\ users' \in [Users -> AccountRecords \cup {None}]
      /\ Grows /\ RolesAgree'
  BY <1>1, <1>2, <1>5, <1>6, AccountWritten
<1>8. PICK step \in {"replace", "clear"} :
        step = IF calls[h].do = "step up" THEN "replace" ELSE "clear"
  OBVIOUS
<1>9. PICK c \in Calls :
        /\ c = [calls[h] EXCEPT !.do = step]
        /\ c.do = step /\ c.user = calls[h].user /\ c.seen = calls[h].seen
        /\ c.code = calls[h].code /\ c.own = calls[h].own
        /\ c.ends = calls[h].ends /\ c.open = calls[h].open
  <2>1. step \in Steps
    BY DEF Steps
  <2> QED
    BY <2>1, GoesType
<1>10. Wait(h, c)
  BY <1>8, <1>9 DEF RecordCounter, Goes, Doing
<1>11. /\ calls' \in [Handlers -> Calls] /\ calls'[h] = c
       /\ \A g \in Handlers : g # h => calls'[g] = calls[g]
  BY <1>10, CallChange DEF IInv, SignedInStays, TypeOK
<1>12. /\ calls[h].ends = {} /\ calls[h].open = {} /\ calls[h].code = None
       /\ calls[h].seen \in AccountRecords
       /\ calls[h].seen.role = "admin" => u \in Granted
  BY <1>1, <1>2 DEF IInv, CallsAgree, CallAgrees, HoldsSessions, RoleGranted, Unnamed
<1>13. /\ calls[h].do = "step up" => active' = active \ {calls[h].own}
       /\ calls[h].do # "step up" => active' = active
  BY DEF RecordCounter, Doing
<1>14. TypeOK'
  BY <1>1, <1>7, <1>11, <1>13 DEF IInv, SignedInStays, TypeOK
<1>15. Passes(h)
  <2>1. CallAgrees(h)' /\ RoleGranted(h)'
    <3>1. users'[u] # None
      BY <1>2, <1>7 DEF Grows
    <3>2. /\ c.do \in {"replace", "clear"} /\ c.user = u /\ c.code = None
          /\ c.seen \in AccountRecords /\ (c.seen.role = "admin" => u \in Granted)
      BY <1>2, <1>9, <1>12
    <3>3. CallAgrees(h)'
      BY <1>11, <3>1, <3>2 DEF CallAgrees
    <3>4. RoleGranted(h)'
      BY <1>1, <1>11, <3>2 DEF RoleGranted, Unnamed, Granted
    <3> QED
      BY <3>3, <3>4
  <2>2. /\ calls[h].do = "step up" => calls[h].own \in Sessions
        /\ calls[h].own # None => /\ calls[h].do = "step up"
                                  /\ sessions[calls[h].own] # None
    BY <1>1 DEF IInv, CallsAgree, HoldsSessions
  <2>3. HoldsSessions(h)'
    BY <1>1, <1>8, <1>9, <1>11, <1>12, <2>2 DEF HoldsSessions
  <2>4. Leaving(h)' \cap active' = {}
    BY <1>8, <1>9, <1>11, <1>12, <1>13 DEF Leaving
  <2>5. ASSUME NEW k \in RecoveryCodes PROVE ~Holder(h, k)'
    BY <1>9, <1>11, <1>12, PortalAssumption DEF Holder
  <2> QED
    BY <1>8, <1>9, <1>11, <1>12, <2>1, <2>3, <2>4, <2>5 DEF Passes, Moves
<1>16. \A s \in active \ active' : calls'[h].own = s
  BY <1>9, <1>11, <1>13
<1> QED
  BY <1>1, <1>7, <1>11, <1>13, <1>14, <1>15, <1>16, Quiet

\* LockExpires preserves the invariant.
LEMMA LockExpiresKeeps ==
  ASSUME IInv, NEW u \in Users, LockExpires(u)
  PROVE  IInv'
<1>1. /\ UNCHANGED <<sessions, recovery, resets, invitations, codes, active,
                     calls, out, grants, begun, faults>>
      /\ users[u] # None /\ users[u] \in AccountRecords
  BY DEF LockExpires, IInv, SignedInStays, TypeOK
<1>2. PICK account : account = [users[u] EXCEPT !.locked = FALSE]
  OBVIOUS
<1>3. account \in AccountRecords /\ account.role = users[u].role
  BY <1>1, <1>2, AccountShape
<1>4. users' = [users EXCEPT ![u] = account]
  BY <1>2 DEF LockExpires
<1>5. /\ users' \in [Users -> AccountRecords \cup {None}]
      /\ Grows /\ RolesAgree'
  BY <1>1, <1>3, <1>4, AccountWritten
<1>6. TypeOK'
  BY <1>1, <1>5 DEF IInv, SignedInStays, TypeOK
<1> QED
  BY <1>1, <1>5, <1>6, Quiet

-----------------------------------------------------------------------------
(* Sign-ups, verification, invitations.                                    *)

\* A handler that holds no session changes neither accounts nor sessions.
LEMMA RowsAside ==
  ASSUME IInv,
         UNCHANGED <<users, sessions, recovery, active, out, faults>>,
         begun' \in 0 .. MaxRequests,
         resets' \in [Resets -> ResetRecords \cup {None}],
         \A r \in Resets : resets[r] # None => resets'[r] # None,
         invitations' \in [Invitations -> InvitationRecords \cup {None}],
         \A i \in Invitations : invitations[i] # None => invitations'[i] # None,
         codes' \in [Users -> (0 .. MaxGuesses) \cup {None}],
         raised \subseteq raised', GrantsOK', UNCHANGED <<decided, overlapped>>,
         \A i \in Invitations :
           invitations'[i] # None /\ invitations'[i].role = "admin" =>
             \/ invitations'[i].user \in raised'
             \/ /\ invitations[i] # None /\ invitations[i].role = "admin"
                /\ invitations[i].user = invitations'[i].user,
         calls' \in [Handlers -> Calls],
         \A h \in Handlers : calls'[h] = calls[h] \/ Passes(h)
  PROVE  IInv'
<1>1. TypeOK'
  BY DEF IInv, SignedInStays, TypeOK
<1>2. Grows
  BY DEF Grows, Abides
<1>3. RolesAgree'
  BY DEF IInv, RolesAgree, Granted, LastDecision
<1> QED
  BY <1>1, <1>2, <1>3, Quiet

\* It is done.
LEMMA Done ==
  ASSUME IInv, NEW h \in Handlers, Wait(h, Idle),
         faults' > 0 \/ (calls[h].own = None /\ calls[h].ends = {})
  PROVE  /\ calls' \in [Handlers -> Calls]
         /\ \A g \in Handlers : calls'[g] = calls[g] \/ Passes(g)
<1>1. /\ calls' \in [Handlers -> Calls] /\ calls'[h] = Idle
      /\ \A g \in Handlers : g # h => calls'[g] = calls[g]
  BY IdleType, CallChange DEF IInv, SignedInStays, TypeOK
<1>2. HoldsSessions(h)'
  BY <1>1, IdleType DEF HoldsSessions
<1>3. Leaving(h)' = {}
  BY <1>1, IdleType DEF Leaving
<1>4. \A k \in RecoveryCodes : ~Holder(h, k)'
  BY <1>1, IdleType DEF Holder
<1>5. Passes(h)
  BY <1>1, <1>2, <1>3, <1>4, IdleType, IdleAgrees DEF Passes, Moves
<1> QED
  BY <1>1, <1>5

\* It goes on without an account of its own to write.
LEMMA GoesOn ==
  ASSUME IInv, NEW h \in Handlers, NEW c \in Calls, Wait(h, c),
         calls[h].own = None, calls[h].ends = {},
         c.own = None, c.ends = {}, c.open = {},
         c.do \notin {"step up", "replace", "logout", "add", "clear", "insert"},
         CallAgrees(h)', RoleGranted(h)'
  PROVE  /\ calls' \in [Handlers -> Calls]
         /\ \A g \in Handlers : calls'[g] = calls[g] \/ Passes(g)
<1>1. /\ calls' \in [Handlers -> Calls] /\ calls'[h] = c
      /\ \A g \in Handlers : g # h => calls'[g] = calls[g]
  BY CallChange DEF IInv, SignedInStays, TypeOK
<1>2. HoldsSessions(h)'
  BY <1>1 DEF HoldsSessions
<1>3. Leaving(h)' = {}
  BY <1>1 DEF Leaving
<1>4. \A k \in RecoveryCodes : ~Holder(h, k)'
  BY <1>1 DEF Holder
<1>5. Passes(h)
  BY <1>1, <1>2, <1>3, <1>4 DEF Passes, Moves
<1> QED
  BY <1>1, <1>5

\* RefuseDuplicate preserves the invariant.
LEMMA RefuseDuplicateKeeps ==
  ASSUME IInv, NEW h \in Handlers, RefuseDuplicate(h)
  PROVE  IInv'
<1>1. /\ UNCHANGED <<users, sessions, recovery, resets, invitations, codes>>
      /\ UNCHANGED <<active, out, grants, begun, faults>> /\ Wait(h, Idle)
      /\ calls[h].own = None /\ calls[h].ends = {}
  BY NoSession DEF RefuseDuplicate, Resumes, Reading, tables
<1> QED
  BY <1>1, Done, RowsAside DEF IInv, SignedInStays, TypeOK, RolesAgree, LastDecision

\* MissVerification preserves the invariant.
LEMMA MissVerificationKeeps ==
  ASSUME IInv, NEW h \in Handlers, MissVerification(h)
  PROVE  IInv'
<1>1. /\ UNCHANGED <<users, sessions, recovery, resets, invitations, codes>>
      /\ UNCHANGED <<active, out, grants, begun, faults>>
      /\ calls[h].own = None /\ calls[h].ends = {} /\ calls[h].do = "verify"
  BY NoSession DEF MissVerification, Resumes, Reading, tables
<1>2. "missed" \in Steps
  BY DEF Steps
<1>3. PICK c \in Calls :
        /\ c = [calls[h] EXCEPT !.do = "missed"]
        /\ c.do = "missed" /\ c.user = calls[h].user /\ c.seen = calls[h].seen
        /\ c.code = calls[h].code /\ c.own = calls[h].own
        /\ c.ends = calls[h].ends /\ c.open = calls[h].open
  BY <1>2, GoesType
<1>4. Wait(h, c) /\ calls'[h] = c
  BY <1>3, CallChange DEF MissVerification, Goes, IInv, SignedInStays, TypeOK
<1>5. /\ calls[h].user \in Users /\ users[calls[h].user] # None
      /\ calls[h].code = None /\ calls[h].open = {}
  BY <1>1 DEF IInv, CallsAgree, CallAgrees, HoldsSessions, AccountSteps
<1>6. CallAgrees(h)' /\ RoleGranted(h)'
  BY <1>1, <1>3, <1>4, <1>5 DEF CallAgrees, RoleGranted, Unnamed
<1>7. /\ calls' \in [Handlers -> Calls]
      /\ \A g \in Handlers : calls'[g] = calls[g] \/ Passes(g)
  BY <1>1, <1>3, <1>4, <1>5, <1>6, GoesOn
<1> QED
  BY <1>1, <1>7, RowsAside DEF IInv, SignedInStays, TypeOK, RolesAgree, LastDecision

\* ConsumeVerification preserves the invariant.
LEMMA ConsumeVerificationKeeps ==
  ASSUME IInv, NEW h \in Handlers, ConsumeVerification(h)
  PROVE  IInv'
<1>1. /\ UNCHANGED <<users, sessions, recovery, resets, invitations>>
      /\ UNCHANGED <<active, out, grants, begun, faults>>
      /\ calls[h].own = None /\ calls[h].ends = {} /\ calls[h].do = "verify"
  BY NoSession DEF ConsumeVerification, Resumes
<1>2. "verified" \in Steps
  BY DEF Steps
<1>3. PICK c \in Calls :
        /\ c = [calls[h] EXCEPT !.do = "verified"]
        /\ c.do = "verified" /\ c.user = calls[h].user /\ c.seen = calls[h].seen
        /\ c.code = calls[h].code /\ c.own = calls[h].own
        /\ c.ends = calls[h].ends /\ c.open = calls[h].open
  BY <1>2, GoesType
<1>4. Wait(h, c) /\ calls'[h] = c
  BY <1>3, CallChange DEF ConsumeVerification, Goes, IInv, SignedInStays, TypeOK
<1>5. /\ calls[h].user \in Users /\ users[calls[h].user] # None
      /\ calls[h].code = None /\ calls[h].open = {}
  BY <1>1 DEF IInv, CallsAgree, CallAgrees, HoldsSessions, AccountSteps
<1>6. CallAgrees(h)' /\ RoleGranted(h)'
  BY <1>1, <1>3, <1>4, <1>5 DEF CallAgrees, RoleGranted, Unnamed
<1>7. /\ calls' \in [Handlers -> Calls]
      /\ \A g \in Handlers : calls'[g] = calls[g] \/ Passes(g)
  BY <1>1, <1>3, <1>4, <1>5, <1>6, GoesOn
<1>8. codes' \in [Users -> (0 .. MaxGuesses) \cup {None}]
  BY <1>5 DEF ConsumeVerification, IInv, SignedInStays, TypeOK
<1> QED
  BY <1>1, <1>7, <1>8, RowsAside DEF IInv, SignedInStays, TypeOK, RolesAgree, LastDecision

\* CountGuess preserves the invariant.
LEMMA CountGuessKeeps ==
  ASSUME IInv, NEW h \in Handlers, CountGuess(h)
  PROVE  IInv'
<1>1. /\ UNCHANGED <<users, sessions, recovery, resets, invitations>>
      /\ UNCHANGED <<active, out, grants, begun, faults>> /\ Wait(h, Idle)
      /\ calls[h].own = None /\ calls[h].ends = {} /\ calls[h].do = "missed"
  BY NoSession DEF CountGuess, Resumes
<1>2. PICK u \in Users : u = calls[h].user
  BY <1>1, AccountAtHand DEF AccountSteps
<1>3. PICK n : n = IF codes[u] # None /\ codes[u] < MaxGuesses
                   THEN codes[u] + 1 ELSE codes[u]
  OBVIOUS
<1>4. n \in (0 .. MaxGuesses) \cup {None}
  <2>1. codes[u] \in (0 .. MaxGuesses) \cup {None} /\ MaxGuesses \in Nat
    BY Bounds DEF IInv, SignedInStays, TypeOK
  <2>2. CASE codes[u] \in 0 .. MaxGuesses
    BY <1>3, <2>1, <2>2
  <2>3. CASE codes[u] = None
    BY <1>3, <2>3
  <2> QED
    BY <2>1, <2>2, <2>3
<1>5. codes' = [codes EXCEPT ![u] = n]
  BY <1>2, <1>3 DEF CountGuess
<1>6. codes' \in [Users -> (0 .. MaxGuesses) \cup {None}]
  BY <1>4, <1>5 DEF IInv, SignedInStays, TypeOK
<1> QED
  BY <1>1, <1>6, Done, RowsAside DEF IInv, SignedInStays, TypeOK, RolesAgree, LastDecision

\* StoreVerification preserves the invariant.
LEMMA StoreVerificationKeeps ==
  ASSUME IInv, NEW h \in Handlers, StoreVerification(h)
  PROVE  IInv'
<1>1. /\ UNCHANGED <<users, sessions, recovery, resets, invitations>>
      /\ UNCHANGED <<active, out, grants, begun, faults>> /\ Wait(h, Idle)
      /\ calls[h].own = None /\ calls[h].ends = {} /\ calls[h].do = "code"
  BY NoSession DEF StoreVerification, Resumes
<1>2. calls[h].user \in Users
  BY <1>1 DEF IInv, CallsAgree, CallAgrees
<1>3. 0 \in 0 .. MaxGuesses
  BY Bounds
<1>4. codes' \in [Users -> (0 .. MaxGuesses) \cup {None}]
  BY <1>2, <1>3 DEF StoreVerification, IInv, SignedInStays, TypeOK
<1> QED
  BY <1>1, <1>4, Done, RowsAside DEF IInv, SignedInStays, TypeOK, RolesAgree, LastDecision

\* CodeExpires preserves the invariant.
LEMMA CodeExpiresKeeps ==
  ASSUME IInv, NEW u \in Users, CodeExpires(u)
  PROVE  IInv'
<1>1. codes' \in [Users -> (0 .. MaxGuesses) \cup {None}]
  BY DEF CodeExpires, IInv, SignedInStays, TypeOK
<1> QED
  BY <1>1, RowsAside DEF CodeExpires, IInv, SignedInStays, TypeOK, RolesAgree, LastDecision

\* A change of an invitation's status is not one of its user or role.
LEMMA InvitationChange ==
  ASSUME IInv, NEW i \in Invitations, invitations[i] # None,
         NEW r \in InvitationRecords, r.user = invitations[i].user,
         r.role = invitations[i].role,
         invitations' = [invitations EXCEPT ![i] = r]
  PROVE  /\ invitations' \in [Invitations -> InvitationRecords \cup {None}]
         /\ \A j \in Invitations : invitations[j] # None => invitations'[j] # None
         /\ \A j \in Invitations :
              invitations'[j] # None /\ invitations'[j].role = "admin" =>
                /\ invitations[j] # None /\ invitations[j].role = "admin"
                /\ invitations[j].user = invitations'[j].user
  BY RowsExist DEF IInv, SignedInStays, TypeOK

\* The updates of an invitation keep its type, its user and its role.
LEMMA InvitationShape ==
  ASSUME NEW q \in InvitationRecords
  PROVE  /\ \A status \in {"accepted", "revoked", "expired"} :
              /\ [q EXCEPT !.status = status] \in InvitationRecords
              /\ [q EXCEPT !.status = status].user = q.user
              /\ [q EXCEPT !.status = status].role = q.role
         /\ [q EXCEPT !.due = TRUE] \in InvitationRecords
         /\ [q EXCEPT !.due = TRUE].user = q.user
         /\ [q EXCEPT !.due = TRUE].role = q.role
  BY DEF InvitationRecords

\* RevokeInvitation preserves the invariant.
LEMMA RevokeInvitationKeeps ==
  ASSUME IInv, NEW h \in Handlers, NEW own \in Sessions, NEW i \in Invitations,
         RevokeInvitation(h, own, i)
  PROVE  IInv'
<1>1. /\ UNCHANGED <<users, sessions, recovery, resets, codes, active, calls, out,
                     grants, faults>>
      /\ begun' \in 0 .. MaxRequests
      /\ invitations[i] # None /\ invitations[i] \in InvitationRecords
  BY BegunType DEF RevokeInvitation, Begin, IInv, SignedInStays, TypeOK
<1>2. PICK r \in InvitationRecords :
        /\ r = [invitations[i] EXCEPT !.status = "revoked"]
        /\ r.user = invitations[i].user /\ r.role = invitations[i].role
  BY <1>1, InvitationShape
<1>3. invitations' = [invitations EXCEPT ![i] = r]
  BY <1>2 DEF RevokeInvitation
<1> QED
  BY <1>1, <1>2, <1>3, InvitationChange, RowsAside DEF IInv, SignedInStays, TypeOK

\* InvitationExpires preserves the invariant.
LEMMA InvitationExpiresKeeps ==
  ASSUME IInv, NEW i \in Invitations, InvitationExpires(i)
  PROVE  IInv'
<1>1. /\ UNCHANGED <<users, sessions, recovery, resets, codes, active, calls, out,
                     grants, begun, faults>>
      /\ invitations[i] # None /\ invitations[i] \in InvitationRecords
  BY DEF InvitationExpires, IInv, SignedInStays, TypeOK
<1>2. PICK r \in InvitationRecords :
        /\ r = [invitations[i] EXCEPT !.due = TRUE]
        /\ r.user = invitations[i].user /\ r.role = invitations[i].role
  BY <1>1, InvitationShape
<1>3. invitations' = [invitations EXCEPT ![i] = r]
  BY <1>2 DEF InvitationExpires
<1> QED
  BY <1>1, <1>2, <1>3, InvitationChange, RowsAside DEF IInv, SignedInStays, TypeOK

\* MarkExpired preserves the invariant.
LEMMA MarkExpiredKeeps ==
  ASSUME IInv, NEW h \in Handlers, MarkExpired(h)
  PROVE  IInv'
<1>1. /\ UNCHANGED <<users, sessions, recovery, resets, codes, active, out,
                     grants, begun, faults>>
      /\ calls[h].own = None /\ calls[h].ends = {} /\ calls[h].do = "expire"
      /\ Wait(h, Idle)
  BY NoSession DEF MarkExpired, Resumes
<1>2. PICK i \in Invitations : /\ i = calls[h].invitation /\ invitations[i] # None
                               /\ invitations[i] \in InvitationRecords
  BY <1>1 DEF IInv, CallsAgree, CallAgrees, SignedInStays, TypeOK
<1>3. PICK r \in InvitationRecords :
        /\ r = [invitations[i] EXCEPT !.status = "expired"]
        /\ r.user = invitations[i].user /\ r.role = invitations[i].role
  BY <1>2, InvitationShape
<1>4. invitations' = [invitations EXCEPT ![i] = r]
  BY <1>2, <1>3 DEF MarkExpired
<1> QED
  BY <1>1, <1>2, <1>3, <1>4, Done, InvitationChange, RowsAside
  DEF IInv, SignedInStays, TypeOK

\* Whom an invitation makes an administrator is recorded with it.
LEMMA StoreInvitationKeeps ==
  ASSUME IInv, NEW h \in Handlers, NEW i \in Invitations, StoreInvitation(h, i)
  PROVE  IInv'
<1>1. /\ UNCHANGED <<users, sessions, recovery, resets, codes, active, out,
                     begun, faults>>
      /\ calls[h].own = None /\ calls[h].ends = {} /\ calls[h].do = "invite"
      /\ Wait(h, Idle)
  BY NoSession DEF StoreInvitation, Resumes
<1>2. PICK u \in Users, role \in Roles :
        u = calls[h].user /\ role = calls[h].seen.role
  BY <1>1 DEF IInv, CallsAgree, CallAgrees, AccountRecords
<1>3. PICK r : r = [user |-> u, role |-> role, due |-> FALSE, status |-> "pending"]
  OBVIOUS
<1>4. r \in InvitationRecords /\ r # None /\ r.user = u /\ r.role = role
  <2>1. r \in InvitationRecords /\ r.user = u /\ r.role = role
    BY <1>3 DEF InvitationRecords
  <2> QED
    BY <2>1, RowsExist
<1>5. invitations' = [invitations EXCEPT ![i] = r]
  BY <1>2, <1>3 DEF StoreInvitation
<1>6. /\ invitations' \in [Invitations -> InvitationRecords \cup {None}]
      /\ invitations'[i] = r
      /\ \A j \in Invitations : j # i => invitations'[j] = invitations[j]
  BY <1>4, <1>5 DEF IInv, SignedInStays, TypeOK
<1>7. /\ raised \subseteq raised' /\ GrantsOK' /\ UNCHANGED <<decided, overlapped>>
      /\ role = "admin" => u \in raised'
  BY <1>2 DEF StoreInvitation, IInv, SignedInStays, TypeOK
<1>8. \A j \in Invitations : invitations[j] # None => invitations'[j] # None
  BY <1>4, <1>6
<1>9. \A j \in Invitations :
        invitations'[j] # None /\ invitations'[j].role = "admin" =>
             \/ invitations'[j].user \in raised'
             \/ /\ invitations[j] # None /\ invitations[j].role = "admin"
                /\ invitations[j].user = invitations'[j].user
  BY <1>4, <1>6, <1>7
<1> QED
  BY <1>1, <1>6, <1>7, <1>8, <1>9, Done, RowsAside DEF IInv, SignedInStays, TypeOK

\* The account of a sign-up is a developer's, that of an invitation was granted
\* its role, and that of a creation is recorded as granted it.
LEMMA InsertAccountKeeps ==
  ASSUME IInv, NEW h \in Handlers, InsertAccount(h)
  PROVE  IInv'
<1>1. /\ UNCHANGED <<sessions, recovery, resets, codes, active, out, begun, faults>>
      /\ calls[h].own = None /\ calls[h].ends = {} /\ calls[h].open = {}
      /\ calls[h].code = None
      /\ calls[h].do \in {"create", "signup", "accept"}
  BY NoSession DEF InsertAccount, Resumes, IInv, CallsAgree, CallAgrees, HoldsSessions
<1>2. PICK u \in Users, account \in AccountRecords :
        u = calls[h].user /\ account = calls[h].seen
  BY <1>1 DEF IInv, CallsAgree, CallAgrees
<1>3. /\ raised \subseteq raised' /\ GrantsOK'
      /\ account.role = "admin" => u \in raised' \cup {Admin}
  <2>1. account.role \in Roles
    BY <1>2 DEF AccountRecords
  <2>2. decided' = [decided EXCEPT ![u] = account.role]
    BY <1>2 DEF InsertAccount
  <2>3. decided' \in [Users -> Roles \cup {None}]
    BY <1>2, <2>1, <2>2 DEF IInv, SignedInStays, TypeOK
  <2>4. raised \subseteq raised' /\ raised' \subseteq Users /\ overlapped' \subseteq Users
    BY <1>2 DEF InsertAccount, IInv, SignedInStays, TypeOK
  <2>5. account.role = "admin" => u \in raised' \cup {Admin}
    BY <1>1, <1>2 DEF InsertAccount, Doing, IInv, CallsAgree, RoleGranted, Unnamed, Granted
  <2> QED
    BY <2>3, <2>4, <2>5
<1>4. /\ users' \in [Users -> AccountRecords \cup {None}]
      /\ users'[u] = account /\ account # None
      /\ \A v \in Users : v # u => users'[v] = users[v]
  BY <1>2, RowsExist DEF InsertAccount, IInv, SignedInStays, TypeOK
<1>5. /\ invitations' \in [Invitations -> InvitationRecords \cup {None}]
      /\ \A j \in Invitations : invitations[j] # None => invitations'[j] # None
      /\ \A j \in Invitations :
           invitations'[j] # None /\ invitations'[j].role = "admin" =>
             /\ invitations[j] # None /\ invitations[j].role = "admin"
             /\ invitations[j].user = invitations'[j].user
  <2>1. CASE calls[h].do = "accept"
    <3>1. PICK i \in Invitations :
            /\ i = calls[h].invitation /\ invitations[i] # None
            /\ invitations[i] \in InvitationRecords
      BY <2>1 DEF IInv, CallsAgree, CallAgrees, SignedInStays, TypeOK
    <3>2. PICK r \in InvitationRecords :
            /\ r = [invitations[i] EXCEPT !.status = "accepted"]
            /\ r.user = invitations[i].user /\ r.role = invitations[i].role
      BY <3>1, InvitationShape
    <3>3. invitations' = [invitations EXCEPT ![i] = r]
      BY <2>1, <3>1, <3>2 DEF InsertAccount, Doing
    <3> QED
      BY <3>1, <3>2, <3>3, InvitationChange
  <2>2. CASE calls[h].do # "accept"
    BY <2>2 DEF InsertAccount, Doing, IInv, SignedInStays, TypeOK
  <2> QED
    BY <2>1, <2>2
<1>6. Grows /\ LastDecision'
  <2>1. users[u] = None /\ LastDecision
    BY <1>2 DEF InsertAccount, IInv, RolesAgree
  <2>2. /\ decided' = [decided EXCEPT ![u] = account.role]
        /\ UNCHANGED overlapped /\ decided \in [Users -> Roles \cup {None}]
    BY <1>2 DEF InsertAccount, IInv, SignedInStays, TypeOK
  <2>3. decided'[u] = account.role /\ \A v \in Users : v # u => decided'[v] = decided[v]
    BY <2>2
  <2>4. ASSUME NEW g \in Handlers, Unnamed(calls[g]) PROVE Abides(calls[g].user)
    <3>1. calls[g].user \in Users /\ users[calls[g].user] # None
      BY <2>4 DEF Unnamed, IInv, CallsAgree, CallAgrees, AccountSteps
    <3> QED
      BY <2>1, <2>2, <2>3, <3>1 DEF Abides
  <2>5. Grows
    BY <1>1, <1>3, <1>4, <1>5, <2>4 DEF Grows
  <2>6. LastDecision'
    BY <1>4, <2>1, <2>2, <2>3 DEF LastDecision
  <2> QED
    BY <2>5, <2>6
<1>7. RolesAgree'
  <2>1. \A v \in Users : users'[v] # None /\ users'[v].role = "admin" => v \in Granted'
    BY <1>3, <1>4 DEF IInv, RolesAgree, Granted
  <2>2. \A s \in Sessions : sessions'[s] # None /\ sessions'[s].role = "admin" =>
          sessions'[s].user \in Granted'
    BY <1>1, <1>3 DEF IInv, RolesAgree, Granted
  <2>3. \A j \in Invitations :
          invitations'[j] # None /\ invitations'[j].role = "admin" =>
            invitations'[j].user \in raised'
    BY <1>3, <1>5 DEF IInv, RolesAgree
  <2> QED
    BY <1>6, <2>1, <2>2, <2>3 DEF RolesAgree
<1>8. PICK c \in Calls :
        /\ Wait(h, c) /\ c.do \in {"code", "idle"} /\ c.code = None
        /\ c.own = None /\ c.ends = {} /\ c.open = {}
        /\ c.do = "code" => c.user = u
  <2>1. CASE calls[h].do = "signup"
    <3>1. "code" \in Steps
      BY DEF Steps
    <3>2. PICK c \in Calls :
            /\ c = [calls[h] EXCEPT !.do = "code"]
            /\ c.do = "code" /\ c.user = calls[h].user /\ c.seen = calls[h].seen
            /\ c.code = calls[h].code /\ c.own = calls[h].own
            /\ c.ends = calls[h].ends /\ c.open = calls[h].open
      BY <3>1, GoesType
    <3>3. Wait(h, c)
      BY <2>1, <3>2 DEF InsertAccount, Doing
    <3> QED
      BY <1>1, <1>2, <3>2, <3>3
  <2>2. CASE calls[h].do # "signup"
    <3>1. Wait(h, Idle)
      BY <2>2 DEF InsertAccount, Doing
    <3> QED
      BY <3>1, IdleType
  <2> QED
    BY <2>1, <2>2
<1>9. calls' \in [Handlers -> Calls] /\ calls'[h] = c
  BY <1>8, CallChange DEF IInv, SignedInStays, TypeOK
<1>10. TypeOK'
  BY <1>1, <1>3, <1>4, <1>5, <1>9 DEF IInv, SignedInStays, TypeOK
<1>11. CallAgrees(h)' /\ RoleGranted(h)'
  BY <1>8, <1>9 DEF CallAgrees, RoleGranted, Unnamed, AccountSteps
<1> QED
  BY <1>1, <1>6, <1>7, <1>8, <1>10, <1>11, Turn

-----------------------------------------------------------------------------
(* Transactions, up to their commit.                                       *)

\* Links are voided, not removed.
LEMMA StoreResetKeeps ==
  ASSUME IInv, NEW h \in Handlers, NEW r \in Resets, StoreReset(h, r)
  PROVE  IInv'
<1>1. /\ UNCHANGED <<users, sessions, recovery, invitations, codes, active, out,
                     grants, begun, faults>>
      /\ calls[h].own = None /\ calls[h].ends = {} /\ calls[h].do = "link commit"
      /\ Wait(h, Idle)
  BY NoSession DEF StoreReset, Resumes
<1>2. PICK u \in Users :
        /\ u = calls[h].user
        /\ \A q \in calls[h].rows : q \in Resets /\ resets[q] # None
  BY <1>1 DEF IInv, CallsAgree, CallAgrees
<1> DEFINE rows == calls[h].rows
<1>3. PICK new : new = [user |-> u, consumed |-> FALSE]
  OBVIOUS
<1>4. new \in ResetRecords /\ new # None
  <2>1. new \in ResetRecords
    BY <1>3 DEF ResetRecords
  <2> QED
    BY <2>1, RowsExist
<1>5. \A q \in Resets :
        /\ resets[q] \in ResetRecords \cup {None}
        /\ q \in rows => [resets[q] EXCEPT !.consumed = TRUE] \in ResetRecords
  BY <1>2 DEF ResetRecords, IInv, SignedInStays, TypeOK
<1>6. resets' = [q \in Resets |->
        IF q = r THEN new
        ELSE IF q \in rows THEN [resets[q] EXCEPT !.consumed = TRUE] ELSE resets[q]]
  BY <1>2, <1>3 DEF StoreReset
<1>7. /\ resets' \in [Resets -> ResetRecords \cup {None}]
      /\ \A q \in Resets : resets[q] # None => resets'[q] # None
  BY <1>4, <1>5, <1>6, RowsExist
<1> QED
  BY <1>1, <1>7, Done, RowsAside DEF IInv, SignedInStays, TypeOK, RolesAgree, LastDecision

\* VoidOlder preserves the invariant.
LEMMA VoidOlderKeeps ==
  ASSUME IInv, NEW h \in Handlers, VoidOlder(h)
  PROVE  IInv'
<1>1. /\ UNCHANGED <<users, sessions, recovery, resets, invitations, codes>>
      /\ UNCHANGED <<active, out, grants, begun, faults>>
      /\ calls[h].own = None /\ calls[h].ends = {} /\ calls[h].open = {}
      /\ calls[h].do \in {"codes", "link"} /\ calls[h].code = None
  BY NoSession DEF VoidOlder, Resumes, Reading, tables, IInv, CallsAgree, CallAgrees,
                   HoldsSessions
<1>2. PICK b \in Calls : b = calls[h]
  BY DEF IInv, SignedInStays, TypeOK
<1>3. PICK step \in {"codes commit", "link commit"} :
        step = IF b.do = "codes" THEN "codes commit" ELSE "link commit"
  OBVIOUS
<1>4. PICK rows \in SUBSET (Resets \cup RecoveryCodes) :
        rows = IF b.do = "codes" THEN CodesOf(b.user) ELSE OpenLinksOf(b.user)
  BY DEF CodesOf, OpenLinksOf
<1>5. PICK c : c = [b EXCEPT !.do = step, !.rows = rows]
  OBVIOUS
<1>6. /\ c \in Calls /\ c.do = step /\ c.rows = rows /\ c.user = b.user
      /\ c.seen = b.seen /\ c.code = b.code /\ c.own = b.own
      /\ c.ends = b.ends /\ c.open = b.open
  <2>1. step \in Steps
    BY DEF Steps
  <2> QED
    BY <1>5, <2>1 DEF Calls
<1>7. Wait(h, c)
  BY <1>2, <1>3, <1>4, <1>5 DEF VoidOlder, Doing
<1>8. calls'[h] = c
  BY <1>6, <1>7, CallChange DEF IInv, SignedInStays, TypeOK
<1>9. b.do = "link" => \A r \in rows : r \in Resets /\ resets[r] # None
  BY <1>4 DEF OpenLinksOf
<1>10. /\ b.user \in Users
       /\ b.do = "codes" => /\ users[b.user] # None /\ b.seen \in AccountRecords
                            /\ b.seen.role = "admin" => b.user \in Granted
  BY <1>1, <1>2 DEF IInv, CallsAgree, CallAgrees, RoleGranted, Unnamed, AccountSteps
<1>11. b.do = "link" => users[b.user] # None
  BY <1>1, <1>2 DEF IInv, CallsAgree, CallAgrees, AccountSteps
<1>12. CallAgrees(h)' /\ RoleGranted(h)'
  BY <1>1, <1>2, <1>3, <1>6, <1>8, <1>9, <1>10, <1>11 DEF CallAgrees, RoleGranted, Unnamed, Granted
<1>13. /\ calls' \in [Handlers -> Calls]
       /\ \A g \in Handlers : calls'[g] = calls[g] \/ Passes(g)
  BY <1>1, <1>2, <1>3, <1>6, <1>7, <1>12, GoesOn
<1> QED
  BY <1>1, <1>13, RowsAside DEF IInv, SignedInStays, TypeOK, RolesAgree, LastDecision

\* QueryFails preserves the invariant.
LEMMA QueryFailsKeeps ==
  ASSUME IInv, NEW h \in Handlers, QueryFails(h)
  PROVE  IInv'
<1>1. /\ UNCHANGED <<users, sessions, recovery, resets, invitations, codes>>
      /\ UNCHANGED <<active, out, grants, begun>> /\ Wait(h, Idle)
      /\ faults' = faults + 1 /\ faults < MaxFaults
  BY DEF QueryFails, tables
<1>2. faults' \in 0 .. MaxFaults /\ faults' > 0
  <2>1. faults \in 0 .. MaxFaults /\ MaxFaults \in Nat
    BY Bounds DEF IInv, SignedInStays, TypeOK
  <2> QED
    BY <1>1, <2>1
<1>3. /\ calls' \in [Handlers -> Calls]
      /\ \A g \in Handlers : calls'[g] = calls[g] \/ Passes(g)
  BY <1>1, <1>2, Done
<1>4. TypeOK'
  BY <1>1, <1>2, <1>3 DEF IInv, SignedInStays, TypeOK
<1>5. Grows /\ RolesAgree'
  BY <1>1 DEF Grows, IInv, RolesAgree, Granted, LastDecision, Abides
<1> QED
  BY <1>1, <1>2, <1>3, <1>4, <1>5, Quiet

-----------------------------------------------------------------------------
(* Handlers that hold a session.                                           *)

\* What a request leaves alone.
LEMMA BeginsAside ==
  ASSUME IInv, NEW h \in Handlers, Begin(h), UNCHANGED <<tables, out, grants>>
  PROVE  /\ UNCHANGED <<users, sessions, recovery, resets, invitations, codes>>
         /\ UNCHANGED <<out, grants, faults>> /\ begun' \in 0 .. MaxRequests
         /\ calls[h].own = None /\ calls[h].ends = {} /\ calls[h].open = {}
         /\ Grows /\ RolesAgree'
<1>1. /\ UNCHANGED <<users, sessions, recovery, resets, invitations, codes>>
      /\ UNCHANGED <<out, grants, faults>> /\ calls[h].do = "idle"
  BY DEF Begin, Doing, tables
<1>2. calls[h].own = None /\ calls[h].ends = {} /\ calls[h].open = {}
  BY <1>1 DEF IInv, CallsAgree, HoldsSessions
<1>3. Grows /\ RolesAgree'
  BY <1>1 DEF Grows, IInv, RolesAgree, Granted, LastDecision, Abides
<1> QED
  BY <1>1, <1>2, <1>3, BegunType

\* StepUp preserves the invariant.
LEMMA StepUpKeeps ==
  ASSUME IInv, NEW h \in Handlers, NEW own \in Sessions,
         NEW otp \in 1 .. MaxCounter, StepUp(h, own, otp)
  PROVE  IInv'
<1>1. /\ UNCHANGED <<users, sessions, recovery, resets, invitations, codes>>
      /\ UNCHANGED <<out, grants, faults, active>> /\ begun' \in 0 .. MaxRequests
      /\ calls[h].own = None /\ calls[h].ends = {} /\ calls[h].open = {}
      /\ Grows /\ RolesAgree'
  BY BeginsAside DEF StepUp, Reading
<1>2. PICK u \in Users : u = sessions[own].user /\ users[u] # None /\ own \in active
  BY OwnSession DEF StepUp, SignedIn, Found
<1>3. own # None /\ sessions[own] # None
  BY <1>2, OwnSession
<1>4. PICK r : r = Reads("step up", u)
  OBVIOUS
<1>5. /\ r \in Calls /\ r.do = "step up" /\ r.user = u /\ r.seen = users[u]
      /\ r.code = None /\ r.own = None /\ r.ends = {} /\ r.open = {}
  <2>1. PICK step \in Steps : step = "step up"
    BY DEF Steps
  <2>2. r = Reads(step, u)
    BY <1>4, <2>1
  <2> QED
    BY <2>1, <2>2, ReadsType
<1>6. PICK c : c = [r EXCEPT !.otp = otp, !.mfa = TRUE, !.own = own]
  OBVIOUS
<1>7. /\ c \in Calls /\ c.do = "step up" /\ c.user = u /\ c.seen = users[u]
      /\ c.code = None /\ c.own = own /\ c.ends = {} /\ c.open = {}
  BY <1>5, <1>6, OtpType DEF Calls
<1>8. Wait(h, c)
  BY <1>2, <1>4, <1>6 DEF StepUp
<1>9. /\ calls' \in [Handlers -> Calls] /\ calls'[h] = c
      /\ \A g \in Handlers : g # h => calls'[g] = calls[g]
  BY <1>7, <1>8, CallChange DEF IInv, SignedInStays, TypeOK
<1>10. TypeOK'
  BY <1>1, <1>9 DEF IInv, SignedInStays, TypeOK
<1>11. /\ users[u] \in AccountRecords
       /\ users[u].role = "admin" => u \in Granted
  BY <1>2 DEF IInv, RolesAgree, SignedInStays, TypeOK
<1>12. CallAgrees(h)' /\ RoleGranted(h)'
  BY <1>1, <1>2, <1>7, <1>9, <1>11 DEF CallAgrees, RoleGranted, Unnamed, Granted
<1>13. HoldsSessions(h)' /\ Leaving(h)' = {}
  BY <1>1, <1>3, <1>7, <1>9 DEF HoldsSessions, Leaving
<1>14. \A k \in RecoveryCodes : ~Holder(h, k)'
  BY <1>7, <1>9 DEF Holder
<1>15. Passes(h)
  BY <1>1, <1>2, <1>7, <1>9, <1>12, <1>13, <1>14 DEF Passes, Moves
<1> QED
  BY <1>1, <1>9, <1>10, <1>15, Quiet

\* The session is out of the memory, and in the hands of the handler.
LEMMA LogoutKeeps ==
  ASSUME IInv, NEW h \in Handlers, NEW own \in Sessions, Logout(h, own)
  PROVE  IInv'
<1>1. /\ UNCHANGED <<users, sessions, recovery, resets, invitations, codes>>
      /\ UNCHANGED <<out, grants, faults>> /\ begun' \in 0 .. MaxRequests
      /\ calls[h].own = None /\ calls[h].ends = {} /\ calls[h].open = {}
      /\ Grows /\ RolesAgree'
  BY BeginsAside DEF Logout
<1>2. /\ own \in active /\ own # None /\ sessions[own] # None
      /\ active' = active \ {own}
  BY OwnSession DEF Logout
<1>3. PICK c : c = [Idle EXCEPT !.do = "logout", !.own = own]
  OBVIOUS
<1>4. /\ c \in Calls /\ c.do = "logout" /\ c.code = None /\ c.own = own
      /\ c.ends = {} /\ c.open = {}
  BY <1>3, IdleType DEF Calls, Steps
<1>5. /\ calls' \in [Handlers -> Calls] /\ calls'[h] = c
      /\ \A g \in Handlers : g # h => calls'[g] = calls[g]
  BY <1>3, <1>4, CallChange DEF Logout, IInv, SignedInStays, TypeOK
<1>6. TypeOK'
  BY <1>1, <1>2, <1>5 DEF IInv, SignedInStays, TypeOK
<1>7. CallAgrees(h)' /\ RoleGranted(h)'
  BY <1>4, <1>5 DEF CallAgrees, RoleGranted, Unnamed, AccountSteps
<1>8. HoldsSessions(h)' /\ Leaving(h)' \cap active' = {}
  BY <1>1, <1>2, <1>4, <1>5 DEF HoldsSessions, Leaving
<1>9. \A k \in RecoveryCodes : ~Holder(h, k)'
  BY <1>4, <1>5 DEF Holder
<1>10. Passes(h)
  BY <1>1, <1>2, <1>4, <1>5, <1>7, <1>8, <1>9 DEF Passes, Moves
<1> QED
  BY <1>1, <1>2, <1>4, <1>5, <1>6, <1>10, Quiet

\* ForgetSessions preserves the invariant.
LEMMA ForgetSessionsKeeps ==
  ASSUME IInv, NEW h \in Handlers, ForgetSessions(h)
  PROVE  IInv'
<1>1. /\ UNCHANGED <<users, sessions, recovery, resets, invitations, codes>>
      /\ UNCHANGED <<out, grants, begun, faults>>
      /\ calls[h].own = None /\ calls[h].ends = {} /\ calls[h].code = None
      /\ calls[h].do \in {"password", "wipe"}
  BY NoSession DEF ForgetSessions, Resumes, tables, IInv, CallsAgree, CallAgrees
<1>2. PICK b \in Calls : b = calls[h]
  BY DEF IInv, SignedInStays, TypeOK
<1>3. PICK ends :
        /\ ends = LiveSessionsOf(b.user) /\ ends \in SUBSET Sessions
        /\ \A s \in ends : sessions[s] # None
  <2>1. PICK ends : ends = LiveSessionsOf(b.user)
    OBVIOUS
  <2> QED
    BY <2>1 DEF LiveSessionsOf
<1>4. PICK step \in {"password commit", "wipe commit"} :
        step = IF b.do = "password" THEN "password commit" ELSE "wipe commit"
  OBVIOUS
<1>5. PICK rows \in SUBSET (Resets \cup RecoveryCodes) :
        rows = IF b.do = "wipe" THEN CodesOf(b.user) ELSE {}
  BY DEF CodesOf
<1>6. PICK open \in SUBSET Sessions : open = ends \cap active
  BY <1>3
<1>7. PICK c : c = [b EXCEPT !.ends = ends, !.open = open, !.rows = rows, !.do = step]
  OBVIOUS
<1>8. /\ c \in Calls /\ c.do = step /\ c.user = b.user /\ c.code = b.code
      /\ c.own = b.own /\ c.ends = ends /\ c.open = open /\ c.reset = b.reset
  <2>1. step \in Steps
    BY DEF Steps
  <2> QED
    BY <1>3, <1>7, <2>1 DEF Calls
<1>9. Wait(h, c) /\ active' = active \ ends
  BY <1>2, <1>3, <1>4, <1>5, <1>6, <1>7 DEF ForgetSessions, Doing
<1>10. /\ calls' \in [Handlers -> Calls] /\ calls'[h] = c
       /\ \A g \in Handlers : g # h => calls'[g] = calls[g]
  BY <1>8, <1>9, CallChange DEF IInv, SignedInStays, TypeOK
<1>11. TypeOK'
  BY <1>1, <1>9, <1>10 DEF IInv, SignedInStays, TypeOK
<1>12. /\ b.user \in Users /\ users[b.user] # None
       /\ b.do = "password" => b.reset \in Resets /\ resets[b.reset] # None
  BY <1>1, <1>2 DEF IInv, CallsAgree, CallAgrees, AccountSteps
<1>13. CallAgrees(h)' /\ RoleGranted(h)'
  BY <1>1, <1>2, <1>4, <1>8, <1>10, <1>12 DEF CallAgrees, RoleGranted, Unnamed
<1>14. HoldsSessions(h)' /\ Leaving(h)' = open
  BY <1>1, <1>2, <1>3, <1>4, <1>6, <1>8, <1>10 DEF HoldsSessions, Leaving
<1>15. \A k \in RecoveryCodes : ~Holder(h, k)'
  BY <1>4, <1>8, <1>10 DEF Holder
<1>16. Passes(h)
  BY <1>1, <1>2, <1>4, <1>6, <1>8, <1>9, <1>10, <1>13, <1>14, <1>15 DEF Passes, Moves
<1>17. Grows /\ RolesAgree'
  BY <1>1 DEF Grows, IInv, RolesAgree, Granted, LastDecision, Abides
<1> QED
  BY <1>1, <1>8, <1>9, <1>10, <1>11, <1>16, <1>17, Quiet

-----------------------------------------------------------------------------
(* Recovery codes.                                                         *)

\* A code found unused is in nobody's hand, and opens one session.
LEMMA ConsumeRecoveryCodeKeeps ==
  ASSUME IInv, NEW h \in Handlers, ConsumeRecoveryCode(h)
  PROVE  IInv'
<1>1. /\ UNCHANGED <<users, sessions, resets, invitations, codes, active, out, grants>>
      /\ UNCHANGED <<begun, faults>> /\ calls[h].do = "recovery"
      /\ calls[h].own = None /\ calls[h].ends = {} /\ calls[h].open = {}
  BY NoSession
  DEF ConsumeRecoveryCode, Resumes, IInv, CallsAgree, HoldsSessions
<1>2. PICK u \in Users, k \in RecoveryCodes :
        /\ u = calls[h].user /\ users[u] # None /\ k = calls[h].code
        /\ calls[h].seen \in AccountRecords
        /\ calls[h].seen.role = "admin" => u \in Granted
  BY <1>1 DEF IInv, CallsAgree, CallAgrees, RoleGranted, Unnamed, AccountSteps
<1>3. PICK step \in {"clear", "failure"} :
        step = IF recovery[k] = [user |-> u, used |-> FALSE]
               THEN "clear" ELSE "failure"
  OBVIOUS
<1>4. PICK c \in Calls :
        /\ c = [calls[h] EXCEPT !.do = step]
        /\ c.do = step /\ c.user = calls[h].user /\ c.seen = calls[h].seen
        /\ c.code = calls[h].code /\ c.own = calls[h].own
        /\ c.ends = calls[h].ends /\ c.open = calls[h].open
  <2>1. step \in Steps
    BY DEF Steps
  <2> QED
    BY <2>1, GoesType
<1>5. Wait(h, c)
  BY <1>2, <1>3, <1>4 DEF ConsumeRecoveryCode, Goes
<1>6. /\ calls' \in [Handlers -> Calls] /\ calls'[h] = c
      /\ \A g \in Handlers : g # h => calls'[g] = calls[g]
  BY <1>5, CallChange DEF IInv, SignedInStays, TypeOK
<1>7. CallAgrees(h)' /\ RoleGranted(h)'
  BY <1>1, <1>2, <1>3, <1>4, <1>6 DEF CallAgrees, RoleGranted, Unnamed, Granted, AccountSteps
<1>8. HoldsSessions(h)' /\ Leaving(h)' = {}
  BY <1>1, <1>3, <1>4, <1>6 DEF HoldsSessions, Leaving
<1>9. Moves(h)
  BY <1>1, <1>3, <1>4, <1>6, <1>7, <1>8 DEF Moves
<1>10. Grows /\ RolesAgree'
  BY <1>1 DEF Grows, IInv, RolesAgree, Granted, LastDecision, Abides
<1>11. CASE recovery[k] = [user |-> u, used |-> FALSE]
  <2>1. recovery[k] \in CodeRecords /\ recovery[k] # None /\ ~recovery[k].used
    <3>1. PICK row : row = [user |-> u, used |-> FALSE]
      OBVIOUS
    <3>2. row \in CodeRecords /\ ~row.used
      BY <3>1 DEF CodeRecords
    <3> QED
      BY <1>11, <3>1, <3>2, RowsExist
  <2>2. recovery' = [recovery EXCEPT ![k].used = TRUE]
    BY <1>2, <1>11 DEF ConsumeRecoveryCode
  <2>3. /\ recovery' \in [RecoveryCodes -> CodeRecords \cup {None}]
        /\ recovery'[k].used
        /\ \A d \in RecoveryCodes : d # k => recovery'[d] = recovery[d]
    BY <2>1, <2>2 DEF IInv, SignedInStays, TypeOK, CodeRecords
  <2>4. TypeOK'
    BY <1>1, <1>6, <2>3 DEF IInv, SignedInStays, TypeOK
  <2>5. SignedInStays' /\ CallsAgree' /\ SessionsAgree'
    BY <1>1, <1>6, <1>9, <1>10, <2>4, Steady
  <2>6. /\ \A g \in Handlers : ~Holder(g, k)
        /\ \A s \in Sessions : ~Carries(s, k)
    BY <2>1 DEF IInv, CodesAgree, Spent
  <2>7. \A g \in Handlers, d \in RecoveryCodes :
          Holder(g, d)' => Holder(g, d) \/ (g = h /\ d = k)
    BY <1>2, <1>4, <1>6 DEF Holder
  <2>8. /\ \A s \in Sessions, d \in RecoveryCodes : Carries(s, d)' <=> Carries(s, d)
        /\ \A d \in RecoveryCodes : Spent(d) => Spent(d)'
        /\ Spent(k)'
    BY <1>1, <2>3 DEF Carries, Spent
  <2>9. CodesAgree'
    BY <2>6, <2>7, <2>8 DEF IInv, CodesAgree
  <2> QED
    BY <1>10, <2>5, <2>9 DEF IInv
<1>12. CASE recovery[k] # [user |-> u, used |-> FALSE]
  <2>1. recovery' = recovery
    BY <1>2, <1>12 DEF ConsumeRecoveryCode
  <2>2. TypeOK'
    BY <1>1, <1>6, <2>1 DEF IInv, SignedInStays, TypeOK
  <2>3. Passes(h)
    BY <1>3, <1>4, <1>6, <1>9, <1>12 DEF Passes, Holder
  <2> QED
    BY <1>1, <1>6, <1>10, <2>1, <2>2, <2>3, Quiet
<1> QED
  BY <1>11, <1>12

\* The codes issued are new to everybody.
LEMMA ReplaceRecoveryCodesKeeps ==
  ASSUME IInv, NEW h \in Handlers, NEW k \in RecoveryCodes,
         ReplaceRecoveryCodes(h, k)
  PROVE  IInv'
<1>1. /\ UNCHANGED <<users, sessions, resets, invitations, codes, active, out, grants>>
      /\ UNCHANGED <<begun, faults>> /\ calls[h].do = "codes commit"
      /\ calls[h].own = None /\ calls[h].ends = {} /\ calls[h].open = {}
      /\ calls[h].code = None
  BY NoSession
  DEF ReplaceRecoveryCodes, Resumes, IInv, CallsAgree, CallAgrees, HoldsSessions
<1>2. PICK u \in Users :
        /\ u = calls[h].user /\ users[u] # None
        /\ calls[h].seen \in AccountRecords
        /\ calls[h].seen.role = "admin" => u \in Granted
  BY <1>1 DEF IInv, CallsAgree, CallAgrees, RoleGranted, Unnamed, AccountSteps
<1>3. PICK b \in Calls : b = calls[h]
  BY DEF IInv, SignedInStays, TypeOK
<1>4. PICK c : c = [b EXCEPT !.do = "insert", !.rows = {}]
  OBVIOUS
<1>5. /\ c \in Calls /\ c.do = "insert" /\ c.user = b.user /\ c.seen = b.seen
      /\ c.code = b.code /\ c.own = b.own /\ c.ends = b.ends /\ c.open = b.open
  <2>1. "insert" \in Steps
    BY DEF Steps
  <2> QED
    BY <1>4, <2>1 DEF Calls
<1>6. Wait(h, c)
  BY <1>3, <1>4 DEF ReplaceRecoveryCodes
<1>7. /\ calls' \in [Handlers -> Calls] /\ calls'[h] = c
      /\ \A g \in Handlers : g # h => calls'[g] = calls[g]
  BY <1>5, <1>6, CallChange DEF IInv, SignedInStays, TypeOK
<1>8. CallAgrees(h)' /\ RoleGranted(h)'
  BY <1>1, <1>2, <1>3, <1>5, <1>7 DEF CallAgrees, RoleGranted, Unnamed, Granted, AccountSteps
<1>9. HoldsSessions(h)' /\ Leaving(h)' = {}
  BY <1>1, <1>3, <1>5, <1>7 DEF HoldsSessions, Leaving
<1>10. Moves(h)
  BY <1>1, <1>3, <1>5, <1>7, <1>8, <1>9 DEF Moves
<1>11. PICK row : row = [user |-> u, used |-> FALSE]
  OBVIOUS
<1>12. row \in CodeRecords
  BY <1>11 DEF CodeRecords
<1>13. PICK rows : rows = calls[h].rows
  OBVIOUS
<1>14. recovery' = [d \in RecoveryCodes |->
         IF d = k THEN row ELSE IF d \in rows THEN None ELSE recovery[d]]
  BY <1>2, <1>11, <1>13 DEF ReplaceRecoveryCodes, Without
<1>15. /\ recovery' \in [RecoveryCodes -> CodeRecords \cup {None}]
       /\ \A d \in RecoveryCodes : d # k => recovery'[d] \in {None, recovery[d]}
  BY <1>12, <1>14 DEF IInv, SignedInStays, TypeOK
<1>16. TypeOK'
  BY <1>1, <1>7, <1>15 DEF IInv, SignedInStays, TypeOK
<1>17. Grows /\ RolesAgree'
  BY <1>1 DEF Grows, IInv, RolesAgree, Granted, LastDecision, Abides
<1>18. SignedInStays' /\ CallsAgree' /\ SessionsAgree'
  BY <1>1, <1>7, <1>10, <1>16, <1>17, Steady
<1>19. /\ \A g \in Handlers : ~Holder(g, k)
       /\ \A s \in Sessions : ~Carries(s, k)
  BY DEF ReplaceRecoveryCodes, Unissued, Holder, Carries
<1>20. \A g \in Handlers, d \in RecoveryCodes : Holder(g, d)' => Holder(g, d)
  <2>1. \A d \in RecoveryCodes : d # None
    BY PortalAssumption
  <2> QED
    BY <1>1, <1>3, <1>5, <1>7, <2>1 DEF Holder
<1>21. /\ \A s \in Sessions, d \in RecoveryCodes : Carries(s, d)' <=> Carries(s, d)
       /\ \A d \in RecoveryCodes : d # k /\ Spent(d) => Spent(d)'
  BY <1>1, <1>15 DEF Carries, Spent
<1>22. CodesAgree'
  BY <1>19, <1>20, <1>21 DEF IInv, CodesAgree
<1> QED
  BY <1>17, <1>18, <1>22 DEF IInv

-----------------------------------------------------------------------------
(* Sessions.                                                               *)

\* A new row is in the hands of the handler that inserted it, with the recovery
\* code it held.
LEMMA InsertSessionKeeps ==
  ASSUME IInv, NEW h \in Handlers, NEW s \in Sessions, InsertSession(h, s)
  PROVE  IInv'
<1>1. /\ UNCHANGED <<users, recovery, resets, invitations, codes, active, out, grants>>
      /\ UNCHANGED <<begun, faults>> /\ calls[h].do = "insert"
      /\ calls[h].ends = {} /\ calls[h].open = {}
      /\ sessions[s] = None
  BY DEF InsertSession, Resumes, IsNew, Unused, IInv, CallsAgree, HoldsSessions
<1>2. PICK b \in Calls : b = calls[h]
  BY DEF IInv, SignedInStays, TypeOK
<1>3. /\ b.user \in Users /\ b.seen \in AccountRecords
      /\ b.seen.role = "admin" => b.user \in Granted
      /\ b.own # None => sessions[b.own] # None /\ sessions[b.own].revoked
  BY <1>1, <1>2
  DEF IInv, CallsAgree, CallAgrees, HoldsSessions, RoleGranted, Unnamed, AccountSteps
<1>4. PICK row : row = [user |-> b.user, role |-> b.seen.role, mfa |-> b.mfa,
                        code |-> b.code, revoked |-> FALSE]
  OBVIOUS
<1>5. /\ row \in SessionRecords /\ row # None
      /\ row.user = b.user /\ row.role = b.seen.role /\ row.code = b.code
  <2>1. b.seen.role \in Roles /\ b.mfa \in BOOLEAN /\ b.code \in RecoveryCodes \cup {None}
    BY <1>3 DEF AccountRecords, Calls
  <2>2. /\ row \in SessionRecords
        /\ row.user = b.user /\ row.role = b.seen.role /\ row.code = b.code
    BY <1>3, <1>4, <2>1 DEF SessionRecords
  <2> QED
    BY <2>2, RowsExist
<1>6. sessions' = [sessions EXCEPT ![s] = row]
  BY <1>2, <1>4 DEF InsertSession
<1>7. /\ sessions' \in [Sessions -> SessionRecords \cup {None}]
      /\ sessions'[s] = row
      /\ \A t \in Sessions : t # s => sessions'[t] = sessions[t]
  BY <1>5, <1>6 DEF IInv, SignedInStays, TypeOK
<1>8. PICK c : c = [b EXCEPT !.do = "add", !.own = s]
  OBVIOUS
<1>9. /\ c \in Calls /\ c.do = "add" /\ c.own = s
      /\ c.ends = b.ends /\ c.open = b.open
  <2>1. "add" \in Steps
    BY DEF Steps
  <2> QED
    BY <1>8, <2>1 DEF Calls
<1>10. Wait(h, c)
  BY <1>2, <1>8 DEF InsertSession
<1>11. /\ calls' \in [Handlers -> Calls] /\ calls'[h] = c
       /\ \A g \in Handlers : g # h => calls'[g] = calls[g]
  BY <1>9, <1>10, CallChange DEF IInv, SignedInStays, TypeOK
<1>12. TypeOK /\ CallsAgree /\ SessionsAgree /\ CodesAgree /\ RolesAgree
  BY DEF IInv, SignedInStays
<1>13. TypeOK'
  BY <1>1, <1>5, <1>7, <1>11 DEF IInv, SignedInStays, TypeOK
<1>14. Grows
  BY <1>1, <1>7 DEF Grows, Abides
<1>15. CallsAgree'
  <2>1. CallAgrees(h)' /\ RoleGranted(h)'
    BY <1>9, <1>11 DEF CallAgrees, RoleGranted, Unnamed, AccountSteps
  <2>2. HoldsSessions(h)'
    BY <1>1, <1>2, <1>5, <1>7, <1>9, <1>11 DEF HoldsSessions
  <2> QED
    BY <1>11, <1>12, <1>14, <2>1, <2>2, Waiting DEF CallsAgree
<1>16. SessionsAgree'
  <2>1. s \notin active \cup out /\ s # None
    BY <1>1, PortalAssumption DEF IInv, SignedInStays, TypeOK, SessionsAgree
  <2>2. SignedOutStays' /\ \A t \in out' : sessions'[t] # None /\ sessions'[t].revoked
    BY <1>1, <1>7, <1>12, <1>14, <2>1 DEF SessionsAgree, SignedOutStays, TypeOK
  <2>3. \A g \in Handlers : Leaving(g)' \cap active' = {}
    BY <1>1, <1>2, <1>9, <1>11, <1>12 DEF SessionsAgree, Leaving
  <2>4. \A g \in Handlers : calls[g].own # s /\ s \notin calls[g].open
    BY <1>1, <1>12, <2>1 DEF CallsAgree, HoldsSessions
  <2>5. Opens(h)'
    BY <1>1, <1>9, <1>11, <2>1, <2>4 DEF Opens
  <2>6. ASSUME NEW g \in Handlers, g # h PROVE Opens(g)'
    BY <1>1, <1>2, <1>9, <1>11, <1>12, <2>4, <2>6 DEF SessionsAgree, Opens
  <2> QED
    BY <2>2, <2>3, <2>5, <2>6 DEF SessionsAgree
<1>17. CodesAgree'
  <2>1. \A g \in Handlers, d \in RecoveryCodes :
          Holder(g, d)' => Holder(g, d) /\ g # h
    BY <1>9, <1>11 DEF Holder
  <2>2. \A t \in Sessions, d \in RecoveryCodes :
          Carries(t, d)' => Carries(t, d) \/ (t = s /\ Holder(h, d))
    BY <1>1, <1>2, <1>5, <1>7 DEF Carries, Holder
  <2>3. \A d \in RecoveryCodes : Spent(d)' <=> Spent(d)
    BY <1>1 DEF Spent
  <2> QED
    BY <1>12, <2>1, <2>2, <2>3 DEF CodesAgree
<1>18. RolesAgree'
  BY <1>1, <1>3, <1>5, <1>7, <1>12 DEF RolesAgree, Granted, LastDecision
<1>19. SignedInStays'
  <2> SUFFICES ASSUME NEW t \in Sessions, sessions'[t] # None, ~sessions'[t].revoked,
                      t \notin active', ~(faults' > 0)
               PROVE  \E g \in Handlers : calls'[g].own = t \/ t \in calls'[g].ends
    BY <1>13 DEF SignedInStays
  <2>1. CASE t = s
    BY <1>9, <1>11, <2>1
  <2>2. CASE t # s
    <3>1. PICK g \in Handlers : calls[g].own = t \/ t \in calls[g].ends
      BY <1>1, <1>7, <2>2 DEF IInv, SignedInStays
    <3>2. g # h
      BY <1>1, <1>2, <1>3, <1>7, <2>2, <3>1, PortalAssumption
    <3> QED
      BY <1>11, <3>1, <3>2
  <2> QED
    BY <2>1, <2>2
<1> QED
  BY <1>15, <1>16, <1>17, <1>18, <1>19 DEF IInv

\* AddSession preserves the invariant.
LEMMA AddSessionKeeps ==
  ASSUME IInv, NEW h \in Handlers, AddSession(h)
  PROVE  IInv'
<1>1. /\ UNCHANGED <<users, sessions, recovery, resets, invitations, codes>>
      /\ UNCHANGED <<out, grants, begun, faults>>
      /\ calls[h].do = "add" /\ calls[h].ends = {}
      /\ Wait(h, Idle)
  BY DEF AddSession, Resumes, tables, IInv, CallsAgree, HoldsSessions
<1>2. PICK s \in Sessions : /\ s = calls[h].own /\ sessions[s] # None
                            /\ s \notin out /\ s # None
                            /\ active' = active \cup {s}
  BY <1>1, PortalAssumption
  DEF AddSession, IInv, CallsAgree, HoldsSessions, SessionsAgree, Opens
<1>3. TypeOK /\ CallsAgree /\ SessionsAgree /\ CodesAgree /\ RolesAgree
  BY DEF IInv, SignedInStays
<1>4. /\ calls' \in [Handlers -> Calls] /\ calls'[h] = Idle
      /\ \A g \in Handlers : g # h => calls'[g] = calls[g]
  BY <1>1, <1>3, IdleType, CallChange DEF TypeOK
<1>5. TypeOK'
  BY <1>1, <1>2, <1>3, <1>4 DEF TypeOK
<1>6. Grows /\ RolesAgree'
  BY <1>1, <1>3 DEF Grows, RolesAgree, Granted, LastDecision, Abides
<1>7. CallsAgree'
  <2>1. CallAgrees(h)' /\ RoleGranted(h)'
    BY <1>4, IdleAgrees
  <2>2. HoldsSessions(h)'
    BY <1>4, IdleType DEF HoldsSessions
  <2> QED
    BY <1>3, <1>4, <1>6, <2>1, <2>2, Waiting DEF CallsAgree
<1>8. SessionsAgree'
  <2>1. SignedOutStays' /\ \A t \in out' : sessions'[t] # None /\ sessions'[t].revoked
    BY <1>1, <1>2, <1>3 DEF SessionsAgree, SignedOutStays
  <2>2. \A g \in Handlers : g # h => calls[g].own # s /\ s \notin calls[g].open
    BY <1>1, <1>2, <1>3 DEF SessionsAgree, Opens
  <2>3. Leaving(h)' = {} /\ Opens(h)'
    BY <1>4, IdleType DEF Leaving, Opens
  <2>4. ASSUME NEW g \in Handlers, g # h PROVE Leaving(g)' \cap active' = {}
    BY <1>2, <1>3, <1>4, <2>2, <2>4 DEF SessionsAgree, Leaving
  <2>5. ASSUME NEW g \in Handlers, g # h, calls'[g].do = "add"
        PROVE  /\ calls'[g].own \notin active' \cup out'
               /\ \A f \in Handlers : f # g => /\ calls'[g].own # calls'[f].own
                                               /\ calls'[g].own \notin calls'[f].open
    <3>1. /\ calls'[g] = calls[g] /\ calls[g].own \notin active \cup out
          /\ calls[g].own # s /\ calls[g].own # None
          /\ \A f \in Handlers : f # g => /\ calls[g].own # calls[f].own
                                          /\ calls[g].own \notin calls[f].open
      BY <1>3, <1>4, <2>2, <2>5, PortalAssumption
      DEF SessionsAgree, Opens, CallsAgree, HoldsSessions
    <3> QED
      BY <1>1, <1>2, <1>4, <3>1, IdleType
  <2> QED
    BY <2>1, <2>3, <2>4, <2>5 DEF SessionsAgree, Opens
<1>9. CodesAgree'
  <2>1. \A g \in Handlers, d \in RecoveryCodes : Holder(g, d)' => Holder(g, d)
    BY <1>4, IdleType DEF Holder
  <2>2. /\ \A t \in Sessions, d \in RecoveryCodes : Carries(t, d)' <=> Carries(t, d)
        /\ \A d \in RecoveryCodes : Spent(d)' <=> Spent(d)
    BY <1>1 DEF Carries, Spent
  <2> QED
    BY <1>3, <2>1, <2>2 DEF CodesAgree
<1>10. SignedInStays'
  <2> SUFFICES ASSUME NEW t \in Sessions, sessions[t] # None, ~sessions[t].revoked,
                      t \notin active', ~(faults' > 0)
               PROVE  \E g \in Handlers : calls'[g].own = t \/ t \in calls'[g].ends
    BY <1>1, <1>5 DEF SignedInStays
  <2>1. t # s /\ t \notin active
    BY <1>2
  <2>2. PICK g \in Handlers : calls[g].own = t \/ t \in calls[g].ends
    BY <1>1, <2>1 DEF IInv, SignedInStays
  <2>3. g # h
    BY <1>1, <1>2, <2>1, <2>2
  <2> QED
    BY <1>4, <2>2, <2>3
<1> QED
  BY <1>6, <1>7, <1>8, <1>9, <1>10 DEF IInv

\* Revoking sessions keeps which rows exist, and their users, roles and codes.
LEMMA RevokingRows ==
  ASSUME IInv, NEW ends \in SUBSET Sessions, \A s \in ends : sessions[s] # None
  PROVE  /\ Revoking(ends) \in [Sessions -> SessionRecords \cup {None}]
         /\ \A s \in Sessions :
              /\ sessions[s] = None => Revoking(ends)[s] = None
              /\ sessions[s] # None =>
                   /\ Revoking(ends)[s] # None
                   /\ Revoking(ends)[s].user = sessions[s].user
                   /\ Revoking(ends)[s].role = sessions[s].role
                   /\ Revoking(ends)[s].code = sessions[s].code
                   /\ sessions[s].revoked => Revoking(ends)[s].revoked
              /\ s \in ends => Revoking(ends)[s].revoked
              /\ s \notin ends => Revoking(ends)[s] = sessions[s]
<1>1. \A s \in Sessions : sessions[s] \in SessionRecords \cup {None}
  BY DEF IInv, SignedInStays, TypeOK
<1>2. ASSUME NEW r \in SessionRecords
      PROVE  /\ [r EXCEPT !.revoked = TRUE] \in SessionRecords
             /\ [r EXCEPT !.revoked = TRUE].user = r.user
             /\ [r EXCEPT !.revoked = TRUE].role = r.role
             /\ [r EXCEPT !.revoked = TRUE].code = r.code
             /\ [r EXCEPT !.revoked = TRUE].revoked = TRUE
             /\ [r EXCEPT !.revoked = TRUE] # None
  <2>1. PICK q : q = [r EXCEPT !.revoked = TRUE]
    OBVIOUS
  <2>2. /\ q \in SessionRecords /\ q.user = r.user /\ q.role = r.role
        /\ q.code = r.code /\ q.revoked = TRUE
    BY <2>1 DEF SessionRecords
  <2> QED
    BY <2>1, <2>2, RowsExist
<1> QED
  BY <1>1, <1>2 DEF Revoking

\* Rows of sessions that are out of the memory are revoked.
LEMMA Ending ==
  ASSUME IInv, TypeOK', Grows, RolesAgree', UNCHANGED <<active, faults>>,
         NEW h \in Handlers, NEW ends \in SUBSET Sessions,
         \A s \in ends : sessions[s] # None,
         sessions' = Revoking(ends),
         NEW gone \in SUBSET ends, gone \subseteq Leaving(h), out' = out \cup gone,
         calls[h].own = None \/ calls[h].own \in ends, calls[h].ends \subseteq ends,
         \A k \in RecoveryCodes : Spent(k) => Spent(k)',
         NEW c \in Calls, Wait(h, c),
         c.do \in {"idle", "insert"}, c.code = None,
         c.own \in {None, calls[h].own}, c.ends = {}, c.open = {},
         CallAgrees(h)', HoldsSessions(h)', RoleGranted(h)'
  PROVE  IInv'
<1>1. TypeOK /\ CallsAgree /\ SessionsAgree /\ CodesAgree /\ RolesAgree
  BY DEF IInv, SignedInStays
<1>2. /\ calls' \in [Handlers -> Calls] /\ calls'[h] = c
      /\ \A g \in Handlers : g # h => calls'[g] = calls[g]
  BY <1>1, CallChange DEF TypeOK
<1>3. CallsAgree'
  BY <1>1, <1>2, Waiting DEF CallsAgree
<1>4. \A s \in Sessions :
        /\ sessions[s] = None => sessions'[s] = None
        /\ sessions[s] # None =>
             /\ sessions'[s] # None
             /\ sessions'[s].code = sessions[s].code
             /\ sessions[s].revoked => sessions'[s].revoked
        /\ s \in ends => sessions'[s].revoked
        /\ s \notin ends => sessions'[s] = sessions[s]
  BY RevokingRows
<1>5. gone \cap active = {}
  BY <1>1 DEF SessionsAgree
<1>6. ASSUME NEW g \in Handlers, g # h, calls[g].do = "add"
      PROVE  /\ calls[g].own \notin gone /\ calls[g].own # c.own
             /\ calls[g].own \notin active \cup out
             /\ \A f \in Handlers : f # g => /\ calls[g].own # calls[f].own
                                             /\ calls[g].own \notin calls[f].open
  BY <1>1, <1>6, PortalAssumption
  DEF SessionsAgree, Opens, Leaving, CallsAgree, HoldsSessions
<1>7. SessionsAgree'
  <2>1. SignedOutStays'
    BY <1>1, <1>5 DEF SessionsAgree, SignedOutStays
  <2>2. \A s \in out' : sessions'[s] # None /\ sessions'[s].revoked
    BY <1>1, <1>4 DEF SessionsAgree, TypeOK
  <2>3. Leaving(h)' = {} /\ Opens(h)'
    BY <1>2 DEF Leaving, Opens
  <2>4. ASSUME NEW g \in Handlers, g # h PROVE Leaving(g)' \cap active' = {}
    BY <1>1, <1>2, <2>4 DEF SessionsAgree, Leaving
  <2>5. ASSUME NEW g \in Handlers, g # h PROVE Opens(g)'
    BY <1>2, <1>6, <2>5 DEF Opens
  <2> QED
    BY <2>1, <2>2, <2>3, <2>4, <2>5 DEF SessionsAgree
<1>8. CodesAgree'
  <2>1. \A d \in RecoveryCodes : d # None
    BY PortalAssumption
  <2>2. \A g \in Handlers, d \in RecoveryCodes : Holder(g, d)' => Holder(g, d)
    BY <1>2, <2>1 DEF Holder
  <2>3. \A s \in Sessions, d \in RecoveryCodes : Carries(s, d)' => Carries(s, d)
    BY <1>4 DEF Carries
  <2> QED
    BY <1>1, <2>2, <2>3 DEF CodesAgree
<1>9. SignedInStays'
  <2> SUFFICES ASSUME NEW s \in Sessions, sessions'[s] # None, ~sessions'[s].revoked,
                      s \notin active', ~(faults' > 0)
               PROVE  \E g \in Handlers : calls'[g].own = s \/ s \in calls'[g].ends
    BY DEF SignedInStays
  <2>1. s \notin ends /\ sessions'[s] = sessions[s] /\ s # None
    BY <1>4, PortalAssumption
  <2>2. PICK g \in Handlers : calls[g].own = s \/ s \in calls[g].ends
    BY <2>1 DEF IInv, SignedInStays
  <2>3. g # h
    BY <2>1, <2>2
  <2> QED
    BY <1>2, <2>2, <2>3
<1> QED
  BY <1>3, <1>7, <1>8, <1>9 DEF IInv

\* RevokeSession preserves the invariant.
LEMMA RevokeSessionKeeps ==
  ASSUME IInv, NEW h \in Handlers, RevokeSession(h)
  PROVE  IInv'
<1>1. /\ UNCHANGED <<users, recovery, resets, invitations, codes, active, grants>>
      /\ UNCHANGED <<begun, faults>> /\ calls[h].do \in {"logout", "replace"}
      /\ calls[h].ends = {} /\ calls[h].open = {} /\ calls[h].code = None
  BY DEF RevokeSession, Resumes, IInv, CallsAgree, CallAgrees, HoldsSessions
<1>2. PICK s \in Sessions : s = calls[h].own /\ s # None /\ sessions[s] # None
  BY <1>1, PortalAssumption DEF IInv, CallsAgree, HoldsSessions
<1>3. PICK b \in Calls : b = calls[h]
  BY DEF IInv, SignedInStays, TypeOK
<1>4. sessions' = Revoking({s})
  <2>1. sessions' = [sessions EXCEPT ![s] = [sessions[s] EXCEPT !.revoked = TRUE]]
    BY <1>2 DEF RevokeSession
  <2> QED
    BY <2>1 DEF Revoking, IInv, SignedInStays, TypeOK
<1>5. /\ sessions' \in [Sessions -> SessionRecords \cup {None}]
      /\ \A t \in Sessions :
           /\ sessions[t] = None => sessions'[t] = None
           /\ sessions[t] # None =>
                /\ sessions'[t] # None
                /\ sessions'[t].user = sessions[t].user
                /\ sessions'[t].role = sessions[t].role
                /\ sessions[t].revoked => sessions'[t].revoked
      /\ sessions'[s].revoked
  <2>1. {s} \in SUBSET Sessions /\ \A t \in {s} : sessions[t] # None
    BY <1>2
  <2> QED
    BY <1>4, <2>1, RevokingRows
<1>6. Grows
  BY <1>1, <1>5 DEF Grows, Abides
<1>7. RolesAgree'
  BY <1>1, <1>5 DEF IInv, RolesAgree, Granted, LastDecision
<1>8. PICK c \in Calls :
        /\ Wait(h, c) /\ c.code = None /\ c.ends = {} /\ c.open = {}
        /\ \/ c.do = "idle" /\ c.own = None
           \/ /\ b.do = "replace" /\ c.do = "insert"
              /\ c.own = s /\ c.user = b.user /\ c.seen = b.seen
  <2>1. CASE calls[h].do = "logout"
    BY <2>1, IdleType DEF RevokeSession, Doing
  <2>2. CASE calls[h].do = "replace"
    <3>1. "insert" \in Steps
      BY DEF Steps
    <3>2. PICK c \in Calls :
            /\ c = [calls[h] EXCEPT !.do = "insert"]
            /\ c.do = "insert" /\ c.user = calls[h].user /\ c.seen = calls[h].seen
            /\ c.code = calls[h].code /\ c.own = calls[h].own
            /\ c.ends = calls[h].ends /\ c.open = calls[h].open
      BY <3>1, GoesType
    <3>3. Wait(h, c)
      BY <2>2, <3>2 DEF RevokeSession, Doing
    <3> QED
      BY <1>1, <1>2, <1>3, <2>2, <3>2, <3>3
  <2> QED
    BY <1>1, <2>1, <2>2
<1>9. calls' \in [Handlers -> Calls] /\ calls'[h] = c
  BY <1>8, CallChange DEF IInv, SignedInStays, TypeOK
<1>10. out' = out \cup {s} /\ out' \subseteq Sessions
  BY <1>2 DEF RevokeSession, IInv, SignedInStays, TypeOK
<1>11. TypeOK'
  BY <1>1, <1>5, <1>9, <1>10 DEF IInv, SignedInStays, TypeOK
<1>12. b.do = "replace" => /\ b.user \in Users /\ users[b.user] # None
                           /\ b.seen \in AccountRecords
                           /\ b.seen.role = "admin" => b.user \in Granted
  BY <1>3 DEF IInv, CallsAgree, CallAgrees, RoleGranted, Unnamed, AccountSteps
<1>13. CallAgrees(h)' /\ RoleGranted(h)'
  BY <1>1, <1>8, <1>9, <1>12 DEF CallAgrees, RoleGranted, Unnamed, Granted, AccountSteps
<1>14. HoldsSessions(h)'
  BY <1>2, <1>5, <1>8, <1>9 DEF HoldsSessions
<1>15. {s} \subseteq Leaving(h)
  BY <1>1, <1>2 DEF Leaving
<1>16. \A k \in RecoveryCodes : Spent(k) => Spent(k)'
  BY <1>1 DEF Spent
<1>17. /\ {s} \in SUBSET Sessions /\ \A t \in {s} : sessions[t] # None
       /\ {s} \in SUBSET {s} /\ calls[h].own \in {s} /\ calls[h].ends \subseteq {s}
       /\ c.own \in {None, calls[h].own} /\ c.do \in {"idle", "insert"}
  BY <1>1, <1>2, <1>8
<1> QED
  BY <1>1, <1>4, <1>6, <1>7, <1>8, <1>10, <1>11, <1>13, <1>14, <1>15, <1>16, <1>17,
     Ending

\* What both commits do to the sessions.
LEMMA Committing ==
  ASSUME IInv, NEW h \in Handlers,
         calls[h].do \in {"password commit", "wipe commit"},
         sessions' = Revoking(calls[h].ends), out' = out \cup calls[h].open,
         Wait(h, Idle), UNCHANGED <<invitations, codes, active, grants, begun, faults>>,
         users' \in [Users -> AccountRecords \cup {None}],
         \A u \in Users : users[u] # None =>
           users'[u] # None /\ users'[u].role = users[u].role,
         \A u \in Users : users[u] = None => users'[u] = None,
         resets' \in [Resets -> ResetRecords \cup {None}],
         \A r \in Resets : resets[r] # None => resets'[r] # None,
         recovery' \in [RecoveryCodes -> CodeRecords \cup {None}],
         \A k \in RecoveryCodes : Spent(k) => Spent(k)'
  PROVE  IInv'
<1>1. PICK ends \in SUBSET Sessions, gone \in SUBSET Sessions :
        /\ ends = calls[h].ends /\ gone = calls[h].open /\ gone \subseteq ends
        /\ \A s \in ends : sessions[s] # None
        /\ calls[h].own = None
  BY DEF IInv, CallsAgree, HoldsSessions, SignedInStays, TypeOK, Calls
<1>2. /\ sessions' \in [Sessions -> SessionRecords \cup {None}]
      /\ \A t \in Sessions :
           /\ sessions[t] = None => sessions'[t] = None
           /\ sessions[t] # None =>
                /\ sessions'[t] # None
                /\ sessions'[t].user = sessions[t].user
                /\ sessions'[t].role = sessions[t].role
                /\ sessions[t].revoked => sessions'[t].revoked
  BY <1>1, RevokingRows
<1>3. calls' \in [Handlers -> Calls] /\ calls'[h] = Idle
  BY IdleType, CallChange DEF IInv, SignedInStays, TypeOK
<1>4. TypeOK'
  BY <1>1, <1>2, <1>3 DEF IInv, SignedInStays, TypeOK
<1>5. Grows
  BY <1>2 DEF Grows, Abides
<1>6. RolesAgree'
  BY <1>2 DEF IInv, RolesAgree, Granted, LastDecision
<1>7. CallAgrees(h)' /\ RoleGranted(h)'
  BY <1>3, IdleAgrees
<1>8. HoldsSessions(h)'
  BY <1>3, IdleType DEF HoldsSessions
<1>9. gone \subseteq Leaving(h)
  BY <1>1 DEF Leaving
<1>10. sessions' = Revoking(ends) /\ out' = out \cup gone /\ gone \in SUBSET ends
  BY <1>1
<1> QED
  BY <1>1, <1>4, <1>5, <1>6, <1>7, <1>8, <1>9, <1>10, IdleType, Ending

\* CommitPassword preserves the invariant.
LEMMA CommitPasswordKeeps ==
  ASSUME IInv, NEW h \in Handlers, CommitPassword(h)
  PROVE  IInv'
<1>1. /\ UNCHANGED <<recovery, invitations, codes, active, grants, begun, faults>>
      /\ calls[h].do = "password commit" /\ Wait(h, Idle)
      /\ sessions' = Revoking(calls[h].ends) /\ out' = out \cup calls[h].open
  BY DEF CommitPassword, Resumes
<1>2. PICK u \in Users : /\ u = calls[h].user /\ users[u] # None
                         /\ users[u] \in AccountRecords
  BY <1>1, AccountAtHand DEF AccountSteps
<1>3. PICK account : account = [users[u] EXCEPT !.failures = 0, !.locked = FALSE]
  OBVIOUS
<1>4. account \in AccountRecords /\ account.role = users[u].role /\ account # None
  <2>1. 0 \in 0 .. MaxAttempts
    BY Bounds
  <2>2. account \in AccountRecords /\ account.role = users[u].role
    BY <1>2, <1>3, <2>1 DEF AccountRecords
  <2> QED
    BY <2>2, RowsExist
<1>5. users' = [users EXCEPT ![u] = account]
  <2>1. users' = [users EXCEPT ![u].failures = 0, ![u].locked = FALSE]
    BY <1>2 DEF CommitPassword
  <2>2. /\ users \in [Users -> AccountRecords \cup {None}]
    BY DEF IInv, SignedInStays, TypeOK
  <2>3. users' = [users EXCEPT ![u] = [users[u] EXCEPT !.failures = 0, !.locked = FALSE]]
    BY <1>2, <2>1, <2>2 DEF AccountRecords
  <2> QED
    BY <1>3, <2>3
<1>6. /\ users' \in [Users -> AccountRecords \cup {None}]
      /\ users'[u] = account
      /\ \A v \in Users : v # u => users'[v] = users[v]
  BY <1>4, <1>5 DEF IInv, SignedInStays, TypeOK
<1>7. PICK r \in Resets : /\ r = calls[h].reset /\ resets[r] # None
                          /\ resets[r] \in ResetRecords
  BY <1>1 DEF IInv, CallsAgree, CallAgrees, SignedInStays, TypeOK
<1>8. PICK q : q = [resets[r] EXCEPT !.consumed = TRUE]
  OBVIOUS
<1>9. q \in ResetRecords /\ q # None
  <2>1. q \in ResetRecords
    BY <1>7, <1>8 DEF ResetRecords
  <2> QED
    BY <2>1, RowsExist
<1>10. resets' = [resets EXCEPT ![r] = q]
  BY <1>7, <1>8 DEF CommitPassword
<1>11. /\ resets' \in [Resets -> ResetRecords \cup {None}]
       /\ \A p \in Resets : resets[p] # None => resets'[p] # None
  BY <1>9, <1>10 DEF IInv, SignedInStays, TypeOK
<1>12. /\ \A v \in Users : users[v] # None =>
            users'[v] # None /\ users'[v].role = users[v].role
       /\ \A v \in Users : users[v] = None => users'[v] = None
  BY <1>2, <1>4, <1>6
<1>13. /\ recovery' \in [RecoveryCodes -> CodeRecords \cup {None}]
       /\ \A k \in RecoveryCodes : Spent(k) => Spent(k)'
  BY <1>1 DEF Spent, IInv, SignedInStays, TypeOK
<1> QED
  BY <1>1, <1>6, <1>11, <1>12, <1>13, Committing

\* The recovery codes are removed.
LEMMA CommitWipeKeeps ==
  ASSUME IInv, NEW h \in Handlers, CommitWipe(h)
  PROVE  IInv'
<1>1. /\ UNCHANGED <<resets, invitations, codes, active, grants, begun, faults>>
      /\ calls[h].do = "wipe commit" /\ Wait(h, Idle)
      /\ sessions' = Revoking(calls[h].ends) /\ out' = out \cup calls[h].open
  BY DEF CommitWipe, Resumes
<1>2. PICK u \in Users : /\ u = calls[h].user /\ users[u] # None
                         /\ users[u] \in AccountRecords
  BY <1>1, AccountAtHand DEF AccountSteps
<1>3. PICK account :
        account = [users[u] EXCEPT !.secret = FALSE, !.mfa = "disabled",
                     !.counter = 0, !.failures = 0, !.locked = FALSE,
                     !.required = TRUE]
  OBVIOUS
<1>4. account \in AccountRecords /\ account.role = users[u].role /\ account # None
  <2>1. 0 \in 0 .. MaxAttempts /\ 0 \in 0 .. MaxCounter
    BY Bounds
  <2>2. account \in AccountRecords /\ account.role = users[u].role
    BY <1>2, <1>3, <2>1 DEF AccountRecords
  <2> QED
    BY <2>2, RowsExist
<1>5. users' = [users EXCEPT ![u] = account]
  BY <1>2, <1>3 DEF CommitWipe
<1>6. /\ users' \in [Users -> AccountRecords \cup {None}]
      /\ users'[u] = account
      /\ \A v \in Users : v # u => users'[v] = users[v]
  BY <1>4, <1>5 DEF IInv, SignedInStays, TypeOK
<1>7. /\ \A v \in Users : users[v] # None =>
           users'[v] # None /\ users'[v].role = users[v].role
      /\ \A v \in Users : users[v] = None => users'[v] = None
  BY <1>2, <1>4, <1>6
<1>8. PICK rows : recovery' = Without(rows)
  BY DEF CommitWipe
<1>9. /\ recovery' \in [RecoveryCodes -> CodeRecords \cup {None}]
      /\ \A k \in RecoveryCodes : Spent(k) => Spent(k)'
  BY <1>8 DEF Without, Spent, IInv, SignedInStays, TypeOK
<1>10. /\ resets' \in [Resets -> ResetRecords \cup {None}]
       /\ \A p \in Resets : resets[p] # None => resets'[p] # None
  BY <1>1 DEF IInv, SignedInStays, TypeOK
<1> QED
  BY <1>1, <1>6, <1>7, <1>9, <1>10, Committing

\* The rows that are not revoked are what is honoured from then on.
LEMMA RestartKeeps ==
  ASSUME IInv, Restart
  PROVE  IInv'
<1>1. /\ UNCHANGED <<users, sessions, recovery, resets, invitations, codes>>
      /\ UNCHANGED <<out, grants, begun>>
      /\ active' = {s \in Sessions : sessions[s] # None /\ ~sessions[s].revoked}
      /\ calls' = [h \in Handlers |-> Idle]
      /\ faults' = faults + 1 /\ faults < MaxFaults
  BY DEF Restart, tables
<1>2. faults' \in 0 .. MaxFaults /\ faults' > 0
  <2>1. faults \in 0 .. MaxFaults /\ MaxFaults \in Nat
    BY Bounds DEF IInv, SignedInStays, TypeOK
  <2> QED
    BY <1>1, <2>1
<1>3. /\ calls' \in [Handlers -> Calls]
      /\ \A h \in Handlers : calls'[h] = Idle
  BY <1>1, IdleType
<1>4. TypeOK'
  BY <1>1, <1>2, <1>3 DEF IInv, SignedInStays, TypeOK
<1>5. SignedInStays'
  BY <1>2, <1>4 DEF SignedInStays
<1>6. CallsAgree'
  BY <1>3, IdleAgrees, IdleType DEF CallsAgree, HoldsSessions
<1>7. SessionsAgree'
  <2>1. SignedOutStays' /\ \A s \in out' : sessions'[s] # None /\ sessions'[s].revoked
    BY <1>1 DEF IInv, SessionsAgree, SignedOutStays
  <2>2. \A h \in Handlers : Leaving(h)' = {} /\ Opens(h)'
    BY <1>3, IdleType DEF Leaving, Opens
  <2> QED
    BY <2>1, <2>2 DEF SessionsAgree
<1>8. CodesAgree'
  <2>1. \A h \in Handlers, d \in RecoveryCodes : ~Holder(h, d)'
    BY <1>3, IdleType DEF Holder
  <2>2. /\ \A t \in Sessions, d \in RecoveryCodes : Carries(t, d)' <=> Carries(t, d)
        /\ \A d \in RecoveryCodes : Spent(d)' <=> Spent(d)
    BY <1>1 DEF Carries, Spent
  <2> QED
    BY <2>1, <2>2 DEF IInv, CodesAgree
<1>9. RolesAgree'
  BY <1>1 DEF IInv, RolesAgree, Granted, LastDecision
<1> QED
  BY <1>5, <1>6, <1>7, <1>8, <1>9 DEF IInv

\* A stutter preserves the invariant.
LEMMA StutterKeeps ==
  ASSUME IInv, UNCHANGED vars
  PROVE  IInv'
<1>1. /\ UNCHANGED <<users, sessions, recovery, resets, invitations, codes>>
      /\ UNCHANGED <<active, calls, out, grants, begun, faults>>
  BY DEF vars, tables
<1>2. TypeOK' /\ Grows /\ RolesAgree'
  BY <1>1 DEF IInv, SignedInStays, TypeOK, Grows, RolesAgree, Granted, LastDecision, Abides
<1> QED
  BY <1>1, <1>2, Quiet

-----------------------------------------------------------------------------
(* The theorems.                                                           *)

\* At the start there is the one administrator, and nobody is signed in.
LEMMA InitHolds == Init => IInv
<1> SUFFICES ASSUME Init PROVE IInv
  OBVIOUS
<1>1. /\ \A u \in Users : users[u] = None \/ users[u] \in AccountRecords
      /\ users \in [Users -> AccountRecords \cup {None}]
  <2>1. 0 \in 0 .. MaxCounter /\ 0 \in 0 .. MaxAttempts
    BY Bounds
  <2>2. /\ Account("developer", TRUE, FALSE) \in AccountRecords
        /\ [Account("developer", TRUE, FALSE) EXCEPT !.mfa = "pending", !.secret = TRUE]
             \in AccountRecords
    BY <2>1 DEF Account, AccountRecords, Roles
  <2>3. /\ Protected(Account("developer", TRUE, FALSE)) \in AccountRecords
        /\ Protected(Account("admin", TRUE, TRUE)) \in AccountRecords
    BY <2>1 DEF Account, Protected, AccountRecords, Roles
  <2> QED
    BY <2>2, <2>3 DEF Init
<1>2. recovery \in [RecoveryCodes -> CodeRecords \cup {None}]
  <2>1. PICK u \in Users :
          recovery = [c \in RecoveryCodes |->
                        IF c = FirstCode THEN [user |-> u, used |-> FALSE] ELSE None]
    BY DEF Init
  <2>2. [user |-> u, used |-> FALSE] \in CodeRecords
    BY DEF CodeRecords
  <2> QED
    BY <2>1, <2>2
<1>3. PICK row : row = [user |-> Admin, role |-> "admin", mfa |-> TRUE,
                        code |-> None, revoked |-> FALSE]
  OBVIOUS
<1>4. /\ row \in SessionRecords /\ row # None /\ row.user = Admin
      /\ row.code = None /\ Admin \in Users /\ AdminSession \in Sessions
  <2>1. Admin \in Users /\ AdminSession \in Sessions
    BY PortalAssumption
  <2>2. row \in SessionRecords /\ row.user = Admin /\ row.code = None
    BY <1>3, <2>1 DEF SessionRecords, Roles
  <2> QED
    BY <2>1, <2>2, RowsExist
<1>5. sessions = [s \in Sessions |-> IF s = AdminSession THEN row ELSE None]
  BY <1>3 DEF Init
<1>6. /\ active = {AdminSession} /\ out = {} /\ raised = {}
      /\ begun = 0 /\ faults = 0
      /\ \A h \in Handlers : calls[h] = Idle
      /\ calls \in [Handlers -> Calls]
      /\ resets = [r \in Resets |-> None]
      /\ invitations = [i \in Invitations |-> None]
      /\ codes = [u \in Users |-> None]
  BY IdleType DEF Init
<1>7. 0 \in 0 .. MaxRequests /\ 0 \in 0 .. MaxFaults
  BY Bounds
<1>8. TypeOK
  <2>1. \A u \in Users : users[u] # None => users[u].role \in Roles
    BY <1>1 DEF AccountRecords
  <2>2. decided = [u \in Users |-> IF users[u] = None THEN None ELSE users[u].role]
    BY DEF Init
  <2>3. decided \in [Users -> Roles \cup {None}]
    BY <2>1, <2>2
  <2>4. GrantsOK
    BY <1>6, <2>3 DEF Init
  <2>5. sessions \in [Sessions -> SessionRecords \cup {None}]
    BY <1>4, <1>5
  <2>6. active \subseteq {s \in Sessions : sessions[s] # None}
    BY <1>4, <1>5, <1>6
  <2> QED
    BY <1>1, <1>2, <1>6, <1>7, <2>4, <2>5, <2>6 DEF TypeOK
<1>9. SignedInStays
  BY <1>5, <1>6, <1>8 DEF SignedInStays
<1>10. CallsAgree
  BY <1>6, IdleType
  DEF CallsAgree, CallAgrees, HoldsSessions, RoleGranted, Unnamed, AccountSteps
<1>11. SessionsAgree
  BY <1>6, IdleType DEF SessionsAgree, SignedOutStays, Leaving, Opens
<1>12. CodesAgree
  <2>1. \A d \in RecoveryCodes : d # None
    BY PortalAssumption
  <2> QED
    BY <1>4, <1>5, <1>6, <2>1, IdleType DEF CodesAgree, Holder, Carries
<1>13. RolesAgree
  <2>1. \A u \in Users : users[u] # None /\ users[u].role = "admin" => u = Admin
    BY DEF Init
  <2>2. LastDecision
    BY DEF Init, LastDecision
  <2> QED
    BY <1>4, <1>5, <1>6, <2>1, <2>2 DEF RolesAgree, Granted
<1> QED
  BY <1>9, <1>10, <1>11, <1>12, <1>13 DEF IInv

\* Every step preserves the invariant.
LEMMA NextKeeps == IInv /\ [Next]_vars => IInv'
<1> SUFFICES ASSUME IInv, [Next]_vars PROVE IInv'
  OBVIOUS
<1>1. ASSUME NEW h \in Handlers, SignIn(h) PROVE IInv'
  BY <1>1, LoginKeeps, LoginWithOtpKeeps, LoginWithRecoveryCodeKeeps,
     ConsumeRecoveryCodeKeeps, RecordMfaFailureKeeps, RecordCounterKeeps,
     ClearMfaFailuresKeeps, AddSessionKeeps, RevokeSessionKeeps,
     InsertSessionKeeps, LogoutKeeps
  DEF SignIn
<1>2. ASSUME NEW h \in Handlers, Factor(h) PROVE IInv'
  BY <1>2, StartEnrollmentKeeps, ConfirmEnrollmentKeeps, StepUpKeeps,
     StoreSecretKeeps, ActivateFactorKeeps, VoidOlderKeeps,
     ReplaceRecoveryCodesKeeps
  DEF Factor
<1>3. ASSUME NEW h \in Handlers, Reset(h) PROVE IInv'
  BY <1>3, RequestPasswordResetKeeps, ResetUserMfaKeeps, StoreResetKeeps,
     CompletePasswordResetKeeps, ForgetSessionsKeeps, CommitPasswordKeeps,
     CommitWipeKeeps
  DEF Reset
<1>4. ASSUME NEW h \in Handlers, Administer(h) PROVE IInv'
  BY <1>4, SignupKeeps, ResendVerificationKeeps, VerifyEmailKeeps,
     UpdateUserKeeps, CreateUserKeeps, InviteKeeps, StoreInvitationKeeps,
     AcceptInvitationKeeps, RevokeInvitationKeeps, WriteUserKeeps,
     InsertAccountKeeps, RefuseDuplicateKeeps, StoreVerificationKeeps,
     ConsumeVerificationKeeps, MissVerificationKeeps, CountGuessKeeps,
     MarkVerifiedKeeps, MarkExpiredKeeps
  DEF Administer
<1> QED
  BY <1>1, <1>2, <1>3, <1>4, QueryFailsKeeps, LockExpiresKeeps, CodeExpiresKeeps,
     InvitationExpiresKeeps, RestartKeeps, StutterKeeps
  DEF Next, NoTrace

\* Whatever the handlers do, and however they fail, the inductive invariant holds.
THEOREM Invariance == Spec => []IInv
  BY InitHolds, NextKeeps, PTL DEF Spec

\* A session that was signed out, replaced or ended by a reset is not honoured
\* again: the handlers that could bring it back hold other sessions, and its row
\* is revoked before a restart could load it.
THEOREM SignedOut == Spec => []SignedOutStays
<1>1. IInv => SignedOutStays
  BY DEF IInv, SessionsAgree
<1> QED
  BY <1>1, Invariance, PTL

\* No two sessions were opened with one recovery code: whoever finds it unused
\* is the only one who does.
THEOREM OneSessionPerCode == Spec => []RecoveryOnce
<1>1. IInv => RecoveryOnce
  <2> SUFFICES ASSUME IInv, NEW s \in Sessions, NEW t \in Sessions,
                      sessions[s] # None, sessions[t] # None, s # t,
                      sessions[s].code # None, sessions[s].code = sessions[t].code
               PROVE  FALSE
    BY DEF RecoveryOnce
  <2>1. sessions[s].code \in RecoveryCodes
    BY DEF IInv, SignedInStays, TypeOK, SessionRecords
  <2> QED
    BY <2>1 DEF IInv, CodesAgree, Carries
<1> QED
  BY <1>1, Invariance, PTL

\* Memory and table of the sessions agree as long as no query has failed.
THEOREM MemoryMatches == Spec => []SignedInStays
<1>1. IInv => SignedInStays
  BY DEF IInv
<1> QED
  BY <1>1, Invariance, PTL

\* Every account has the role last decided for it, unless an edit was under way when the
\* decision was written: whoever else edits it read the role that was decided.  Nobody
\* is an administrator, in the table or in a session, whom none decided to make one.
THEOREM Decided == Spec => []RoleAsDecided
<1>1. IInv => LastDecision
  BY DEF IInv, RolesAgree
<1>2. IInv => RightsGranted
  BY DEF IInv, RolesAgree, Granted, RightsGranted
<1>3. IInv => RoleAsDecided
  BY <1>1, <1>2 DEF RoleAsDecided
<1> QED
  BY <1>3, Invariance, PTL

=============================================================================
