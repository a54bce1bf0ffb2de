------------------------------ MODULE Accounts ------------------------------
(***************************************************************************)
(* Users and sessions (internal/server/local_auth.go, session.go, the auth *)
(* handlers of server.go, internal/account/client.go): the setup of the    *)
(* first administrator, registration, password sign-in with its lockout,   *)
(* sign-in through the account center (SSO), and the administration of     *)
(* users.  Each handler is a sequence of single statements on users,       *)
(* user_identities and account_sessions, none in a transaction; a session  *)
(* is a copy of what its sign-in read.                                     *)
(*                                                                         *)
(* Left out: the switches that allow registration and SSO (Settings); here *)
(* a request may find them on or off.  Operators and auditors may not      *)
(* touch users, "user" stands for them too.                                *)
(***************************************************************************)
EXTENDS Naturals

CONSTANTS
    Ids,        \* user ids
    Emails,     \* e-mail addresses, trimmed and in lower case
    People,     \* of them, those who set up, register and sign in by themselves
    Remotes,    \* users of the account center
    Requests,   \* requests handled at the same time
    Threshold,  \* loginLockThreshold
    None        \* no row, nobody

ASSUME NoneAssumption == None \notin Ids \cup Emails \cup Remotes
ASSUME PeopleAssumption == People \subseteq Emails
ASSUME ThresholdAssumption == Threshold \in Nat \ {0}

VARIABLES
    email,     \* users.email, None where there is no row; rows are never deleted
    role,      \* users.role
    disabled,  \* users with disabled = 1
    secret,    \* users with a password_hash
    fails,     \* users.failed_login_count, no further than Threshold
    locked,    \* users whose locked_until lies ahead
    link,      \* user_identities: the user of each user of the account center
    sessions,  \* account_sessions that have not expired
    req        \* what each request is doing

vars == <<email, role, disabled, secret, fails, locked, link, sessions, req>>
users == <<email, role, disabled, secret, fails, locked>>

-----------------------------------------------------------------------------
(* Types *)

Roles == {"system_admin", "user"}

\* E-mail, name and permissions of a session follow from user and role.
Session == [user : Ids, role : Roles]

\* user, role and fails are what the request read or inserted.  touched is not
\* in the code: an administrator has patched that user since.
Request == [pc : {"idle", "insert", "right", "wrong", "me", "identity", "email",
                  "link", "session", "admin"},
            remote : Remotes \cup {None}, mail : Emails \cup {None},
            user : Ids \cup {None}, role : Roles, fails : 0..Threshold,
            touched : BOOLEAN]

Rows == {i \in Ids : email[i] # None}

TypeOK ==
    /\ email \in [Ids -> Emails \cup {None}]
    /\ role \in [Ids -> Roles]
    /\ disabled \subseteq Rows
    /\ secret \subseteq Rows
    /\ fails \in [Ids -> 0..Threshold]
    /\ locked \subseteq Rows
    /\ link \in [Remotes -> Ids \cup {None}]
    /\ sessions \subseteq Session
    /\ req \in [Requests -> Request]

-----------------------------------------------------------------------------
(* Helpers *)

Idle == [pc |-> "idle", remote |-> None, mail |-> None, user |-> None,
         role |-> "user", fails |-> 0, touched |-> FALSE]

\* initialized: a COUNT that fails reads as an empty table.
Initialized == Rows # {}

\* ids.New: which of the ids nobody has does not matter.
NewId == CHOOSE i \in Ids : email[i] = None

Answer(q) == req' = [req EXCEPT ![q] = Idle]
Begin(q, new) == req[q].pc = "idle" /\ req' = [req EXCEPT ![q] = new]
Goto(q, pc) == req' = [req EXCEPT ![q].pc = pc]
GoOn(q, pc, i) ==
    req' = [req EXCEPT ![q].pc = pc, ![q].mail = None, ![q].user = i, ![q].role = role[i]]
\* After the INSERT: to the identity, or to the session.
Inserted(q, i) ==
    req' = [req EXCEPT ![q].mail = None, ![q].user = i,
               ![q].pc = IF req[q].remote = None THEN "session" ELSE "link"]

\* An INSERT into users: the id is new, the address unique.
Insert(i, e, r, s) ==
    /\ email[i] = None /\ i = NewId
    /\ \A k \in Ids : email[k] # e
    /\ email' = [email EXCEPT ![i] = e]
    /\ role' = [role EXCEPT ![i] = r]
    /\ fails' = [fails EXCEPT ![i] = 0]
    /\ secret' = IF s THEN secret \cup {i} ELSE secret
    /\ UNCHANGED <<disabled, locked>>

-----------------------------------------------------------------------------
Init ==
    /\ email = [i \in Ids |-> None]
    /\ role = [i \in Ids |-> "user"]
    /\ disabled = {}
    /\ secret = {}
    /\ fails = [i \in Ids |-> 0]
    /\ locked = {}
    /\ link = [r \in Remotes |-> None]
    /\ sessions = {}
    /\ req = [q \in Requests |-> Idle]

-----------------------------------------------------------------------------
(* Setup and registration *)

\* Answers "already initialized" unless the COUNT says 0, or fails.
BeginSetup(q, e) ==
    /\ Begin(q, [Idle EXCEPT !.pc = "insert", !.mail = e, !.role = "system_admin"])
    /\ UNCHANGED <<users, link, sessions>>

\* Variant: registration does not ask for the setup.
BeginRegisterAtOnce(q, e) ==
    /\ Begin(q, [Idle EXCEPT !.pc = "insert", !.mail = e])
    /\ UNCHANGED <<users, link, sessions>>

BeginRegister(q, e) ==
    /\ Initialized
    /\ Begin(q, [Idle EXCEPT !.pc = "insert", !.mail = e])
    /\ UNCHANGED <<users, link, sessions>>

\* Variant: the error of the INSERT is dropped.
InsertUserErrorIgnored(q) ==
    /\ req[q].pc = "insert"
    /\ \E i \in Ids :
          /\ email[i] = None /\ i = NewId
          /\ \/ Insert(i, req[q].mail, req[q].role, req[q].remote = None)
             \/ UNCHANGED users
          /\ Inserted(q, i)
    /\ UNCHANGED <<link, sessions>>

\* A user of the account center gets no password.
InsertUser(q) ==
    /\ req[q].pc = "insert"
    /\ \/ \E i \in Ids :
             /\ Insert(i, req[q].mail, req[q].role, req[q].remote = None)
             /\ Inserted(q, i)
       \/ Answer(q) /\ UNCHANGED users
    /\ UNCHANGED <<link, sessions>>

-----------------------------------------------------------------------------
(* Sign-in with a password *)

\* Variant: disabled users are not refused.
LoadUserDisabledToo(q, e) ==
    /\ \E i \in Rows \ locked :
          /\ email[i] = e
          /\ \/ i \in secret /\ Begin(q, [Idle EXCEPT !.pc = "right", !.user = i, !.role = role[i]])
             \/ Begin(q, [Idle EXCEPT !.pc = "wrong", !.user = i, !.fails = fails[i]])
    /\ UNCHANGED <<users, link, sessions>>

\* Variant: whoever has reached the threshold is refused, lock or no lock.
LoadUserThresholdLocks(q, e) ==
    /\ \E i \in Rows \ (disabled \cup locked) :
          /\ email[i] = e
          /\ fails[i] < Threshold
          /\ \/ i \in secret /\ Begin(q, [Idle EXCEPT !.pc = "right", !.user = i, !.role = role[i]])
             \/ Begin(q, [Idle EXCEPT !.pc = "wrong", !.user = i, !.fails = fails[i]])
    /\ UNCHANGED <<users, link, sessions>>

\* localUserByEmail: the copy the rest of the sign-in goes by.  Unknown,
\* disabled and locked users are refused at once.
LoadUser(q, e) ==
    /\ \E i \in Rows \ (disabled \cup locked) :
          /\ email[i] = e
          /\ \/ i \in secret /\ Begin(q, [Idle EXCEPT !.pc = "right", !.user = i, !.role = role[i]])
             \/ Begin(q, [Idle EXCEPT !.pc = "wrong", !.user = i, !.fails = fails[i]])
    /\ UNCHANGED <<users, link, sessions>>

\* Variant: the failures are reset, the lock is not.
PasswordRightKeepsLock(q) ==
    /\ req[q].pc = "right"
    /\ Goto(q, "session")
    /\ \/ fails' = [fails EXCEPT ![req[q].user] = 0]
       \/ UNCHANGED fails
    /\ UNCHANGED <<email, role, disabled, secret, locked, link, sessions>>

\* The error of the UPDATE is dropped.
PasswordRight(q) ==
    /\ req[q].pc = "right"
    /\ Goto(q, "session")
    /\ \/ /\ fails' = [fails EXCEPT ![req[q].user] = 0]
          /\ locked' = locked \ {req[q].user}
       \/ UNCHANGED <<fails, locked>>
    /\ UNCHANGED <<email, role, disabled, secret, link, sessions>>

\* Variant: only the failure that reaches the threshold locks, not later ones.
CountFailureLocksOnce(i, count) ==
    /\ fails' = [fails EXCEPT ![i] = IF count < Threshold THEN count ELSE Threshold]
    /\ locked' = IF count = Threshold THEN locked \cup {i} ELSE locked \ {i}

\* The UPDATE of recordLoginFailure.
CountFailure(i, count) ==
    /\ fails' = [fails EXCEPT ![i] = IF count < Threshold THEN count ELSE Threshold]
    /\ locked' = IF count < Threshold THEN locked \ {i} ELSE locked \cup {i}

\* It counts from the number that was read before: a failure that was slow sets
\* the count back and may lift a lock.  An error is dropped.
PasswordWrong(q) ==
    /\ req[q].pc = "wrong"
    /\ Answer(q)
    /\ CountFailure(req[q].user, req[q].fails + 1) \/ UNCHANGED <<fails, locked>>
    /\ UNCHANGED <<email, role, disabled, secret, link, sessions>>

\* loginLockDuration has passed.
LockEnds(i) ==
    /\ i \in locked
    /\ locked' = locked \ {i}
    /\ UNCHANGED <<email, role, disabled, secret, fails, link, sessions, req>>

-----------------------------------------------------------------------------
(* Sign-in through the account center: handleAuthCallback, upsertSSOUser *)

BeginCallback(q, r) ==
    /\ Initialized
    /\ Begin(q, [Idle EXCEPT !.pc = "me", !.remote = r])
    /\ UNCHANGED <<users, link, sessions>>

\* Me has an answer, or an error or nothing for 15 seconds.  The address need
\* not be the one of the last answer; a missing one is made from the id.
MeAnswers(q) ==
    /\ req[q].pc = "me"
    /\ \/ \E e \in People : req' = [req EXCEPT ![q].pc = "identity", ![q].mail = e]
       \/ Answer(q)
    /\ UNCHANGED <<users, link, sessions>>

\* Identity and user, two SELECTs: a row of users is never deleted.  One that
\* fails reads as an identity that is not there, and the sign-in goes on by the
\* address; so the identity may be linked to another user than before.
FindIdentity(q) ==
    /\ req[q].pc = "identity"
    /\ \/ link[req[q].remote] # None /\ GoOn(q, "session", link[req[q].remote])
       \/ Goto(q, "email")
    /\ UNCHANGED <<users, link, sessions>>

\* Variant: a user that is there is not linked.
FindEmailNoLink(q) ==
    /\ req[q].pc = "email"
    /\ \/ \E i \in Ids : email[i] = req[q].mail /\ GoOn(q, "session", i)
       \/ Goto(q, "insert")
    /\ UNCHANGED <<users, link, sessions>>

\* Variant: whoever is found is an ordinary user.
FindEmailPlainUser(q) ==
    /\ req[q].pc = "email"
    /\ \/ \E i \in Ids : /\ email[i] = req[q].mail
                         /\ req' = [req EXCEPT ![q].pc = "link", ![q].mail = None, ![q].user = i]
       \/ Goto(q, "insert")
    /\ UNCHANGED <<users, link, sessions>>

FindEmail(q) ==
    /\ req[q].pc = "email"
    /\ \/ \E i \in Ids : email[i] = req[q].mail /\ GoOn(q, "link", i)
       \/ Goto(q, "insert")
    /\ UNCHANGED <<users, link, sessions>>

\* INSERT OR REPLACE: the identity goes to the user of its address.
LinkIdentity(q) ==
    /\ req[q].pc = "link"
    /\ \/ link' = [link EXCEPT ![req[q].remote] = req[q].user] /\ Goto(q, "session")
       \/ Answer(q) /\ UNCHANGED link
    /\ UNCHANGED <<users, sessions>>

-----------------------------------------------------------------------------
(* Sessions *)

CreateSession(q) ==
    /\ req[q].pc = "session"
    /\ sessions' \in {sessions, sessions \cup {[user |-> req[q].user, role |-> req[q].role]}}
    /\ Answer(q)
    /\ UNCHANGED <<users, link>>

\* handleLogout, or SessionTTLHours have passed.
EndSession(s) ==
    /\ s \in sessions
    /\ sessions' = sessions \ {s}
    /\ UNCHANGED <<users, link, req>>

-----------------------------------------------------------------------------
(* Administration.  requireAdmin goes by the session, whatever has become of *)
(* the administrator's row.                                                  *)

BeginAdmin(q) ==
    /\ \E s \in sessions : s.role = "system_admin"
    /\ Begin(q, [Idle EXCEPT !.pc = "admin"])
    /\ UNCHANGED <<users, link, sessions>>

\* createLocalUser
CreateUser(q, i, e, r) ==
    /\ req[q].pc = "admin"
    /\ Insert(i, e, r, TRUE)
    /\ Answer(q)
    /\ UNCHANGED <<link, sessions>>

\* Variant: an id that is not there is taken as well.
PatchUserUpserts(q, i, r, off, s) ==
    /\ req[q].pc = "admin"
    /\ role' = [role EXCEPT ![i] = r]
    /\ disabled' = IF off THEN disabled \cup {i} ELSE disabled \ {i}
    /\ secret' = IF s THEN secret \cup {i} ELSE secret
    /\ Answer(q)
    /\ UNCHANGED <<email, fails, locked, link, sessions>>

\* One UPDATE of any of role, disabled and password; a password is never taken
\* away, and the lock stays.
PatchUser(q, i, r, off, s) ==
    /\ req[q].pc = "admin"
    /\ i \in Rows
    /\ role' = [role EXCEPT ![i] = r]
    /\ disabled' = IF off THEN disabled \cup {i} ELSE disabled \ {i}
    /\ secret' = IF s THEN secret \cup {i} ELSE secret
    /\ req' = [p \in Requests |->
                 IF p = q THEN Idle
                 ELSE [req[p] EXCEPT !.touched = @ \/ req[p].user = i]]
    /\ UNCHANGED <<email, fails, locked, link, sessions>>

AdminFails(q) ==
    /\ req[q].pc = "admin"
    /\ Answer(q)
    /\ UNCHANGED <<users, link, sessions>>

\* The process ends and is started again.
Crash ==
    /\ req' = [q \in Requests |-> Idle]
    /\ UNCHANGED <<users, link, sessions>>

-----------------------------------------------------------------------------
AdminStep(q) ==
    \/ \E i \in Ids, e \in Emails, r \in Roles : CreateUser(q, i, e, r)
    \/ \E i \in Ids, r \in Roles, off, s \in BOOLEAN : PatchUser(q, i, r, off, s)
    \/ AdminFails(q)

\* The next statement of a request that is being handled.
Handle(q) ==
    \/ InsertUser(q) \/ PasswordRight(q) \/ PasswordWrong(q)
    \/ MeAnswers(q) \/ FindIdentity(q) \/ FindEmail(q) \/ LinkIdentity(q)
    \/ CreateSession(q) \/ AdminStep(q)

Arrive(q) ==
    \/ \E e \in People : BeginSetup(q, e) \/ BeginRegister(q, e) \/ LoadUser(q, e)
    \/ \E r \in Remotes : BeginCallback(q, r)
    \/ BeginAdmin(q)

Outside ==
    \/ \E i \in Ids : LockEnds(i)
    \/ \E s \in sessions : EndSession(s)

Next == (\E q \in Requests : Arrive(q) \/ Handle(q)) \/ Outside \/ Crash

-----------------------------------------------------------------------------
(* Safety *)

\* Sessions and identities, written after the user they name, name a user that
\* is there, although the INSERT of that user may have failed or lost a race
\* for the address.
SessionsNameUsers ==
    /\ \A s \in sessions : s.user \in Rows
    /\ \A r \in Remotes : link[r] # None => link[r] \in Rows

\* Nobody is locked out whose failures have been reset, whatever sign-ins with
\* right and wrong passwords run together.
LockedForFailures == \A i \in locked : fails[i] = Threshold

\* The first user is an administrator with a password: registration, SSO and
\* administration, though they insert users too, cannot come before the setup
\* and leave a site without an administrator that setup then refuses to make.
FirstUserIsAdmin ==
    [][Rows = {} => \A i \in Rows' : role'[i] = "system_admin" /\ i \in secret']_vars

\* A new session has the role its user has now, or the role was changed after
\* the sign-in began, however the sign-in found its user.
RoleWasHeld ==
    [][\A s \in sessions' \ sessions :
          \/ s.role = role[s.user]
          \/ \E q \in Requests : /\ req[q].pc = "session" /\ req[q].user = s.user
                                 /\ req[q].touched]_vars

\* A sign-in with a password that begins after its user was disabled gets no
\* session.  (handleAuthCallback does not look at the column.)
DisabledStaysOut ==
    [][\A s \in sessions' \ sessions :
          \/ s.user \notin disabled
          \/ \E q \in Requests : /\ req[q].pc = "session" /\ req[q].user = s.user
                                 /\ req[q].touched \/ req[q].remote # None]_vars

-----------------------------------------------------------------------------
(* Liveness: failures stop at some time and locks end.  That people keep     *)
(* trying is a premise of each property.                                     *)

\* No restart, no failed call or statement: a request ends without a session
\* only for a wrong password, an address that is taken, or an administrator; a
\* user that is there is found by the address.
Healthy ==
    \A q \in Requests :
        /\ req[q].pc # "idle" /\ req'[q].pc = "idle" =>
              \/ req[q].pc \in {"wrong", "admin"}
              \/ req[q].pc = "insert" /\ \E i \in Ids : email[i] = req[q].mail
              \/ req[q].pc = "session" /\ \E s \in sessions' : s.user = req[q].user
        /\ req[q].pc = "email" /\ req'[q].pc = "insert" =>
              \A i \in Ids : email[i] # req[q].mail

SignIn(e) == \E q \in Requests : LoadUser(q, e) /\ req'[q].pc = "right"
Callback(r) == \E q \in Requests : BeginCallback(q, r)

Spec ==
    /\ Init /\ [][Next]_vars
    /\ <>[][Healthy]_vars
    /\ \A q \in Requests : WF_vars(Handle(q))
    /\ \A i \in Ids : WF_vars(LockEnds(i))

\* A right password that is tried again and again is accepted in the end, unless
\* the user is disabled: no lock lasts, although others get the password wrong
\* as often as they like, failures of sign-ins that overlap are counted from
\* numbers read earlier, and nothing but a sign-in resets the count.
RightPasswordAccepted ==
    \A e \in People : SF_vars(SignIn(e)) =>
        ((\E i \in secret : email[i] = e) ~>
            \/ \E i \in disabled : email[i] = e
            \/ \E q \in Requests : /\ req[q].pc = "session" /\ req[q].remote = None
                                   /\ email[req[q].user] = e)

WrongCounted(e) ==
    \E q \in Requests : /\ PasswordWrong(q) /\ email[req[q].user] = e
                        /\ CountFailure(req[q].user, req[q].fails + 1)
RightGiven(e) == \E q \in Requests : PasswordRight(q) /\ email[req[q].user] = e

\* Wrong passwords that are tried again and again lock the user again and again
\* while nobody signs in with the right one: failures that overlap are counted
\* once and slow ones set the count back or lift a lock, yet none can do so for
\* ever, since each writes more than every attempt under way had read.
WrongPasswordsLock ==
    \A e \in People : []<><<WrongCounted(e)>>_vars /\ <>[][~RightGiven(e)]_vars =>
        []<>(\E i \in locked : email[i] = e)

\* Somebody who keeps coming from the account center gets an identity and a
\* session, also when an earlier attempt ended after it had made the user.
SsoSignsIn ==
    \A r \in Remotes : SF_vars(Callback(r)) =>
        (Initialized ~> (link[r] # None /\ \E s \in sessions : s.user = link[r]))
=============================================================================
