--------------------------- MODULE AccountsProofs ---------------------------
(* Invariants of Accounts and their proofs, for every set of users, *)
(* addresses, account center users and requests.                    *)
EXTENDS Accounts, TLAPS

-----------------------------------------------------------------------------
(* The inductive invariant: what each request keeps of the tables *)

PCs == {"idle", "insert", "right", "wrong", "me", "identity", "email",
        "link", "session", "admin"}

\* A request names a user that is there, with the role it has unless it was
\* patched since; before the first user there is nothing but setups.
Sound(q) ==
    /\ req[q].pc \in {"right", "wrong", "link", "session"} => req[q].user \in Rows
    /\ req[q].pc \in {"right", "link", "session"} =>
          req[q].role = role[req[q].user] \/ req[q].touched
    /\ req[q].pc \in {"right", "session"} /\ req[q].remote = None =>
          req[q].user \notin disabled \/ req[q].touched
    /\ req[q].pc \in {"me", "identity", "email", "link"} => req[q].remote \in Remotes
    /\ req[q].pc \in {"identity", "email", "insert"} => req[q].mail \in Emails
    /\ Rows = {} => \/ req[q].pc = "idle"
                    \/ req[q].pc = "insert" /\ req[q].role = "system_admin" /\ req[q].remote = None

UniqueEmail == \A i, k \in Rows : email[i] = email[k] => i = k

IInv ==
    /\ TypeOK
    /\ SessionsNameUsers
    /\ LockedForFailures
    /\ UniqueEmail
    /\ \A q \in Requests : Sound(q)

\* What no step but PatchUser goes against.
Kept ==
    /\ \A i \in Rows : email'[i] = email[i] /\ role'[i] = role[i]
    /\ disabled' = disabled

-----------------------------------------------------------------------------
(* Requests as records *)

LEMMA IdleIsRequest ==
    /\ Idle \in Request
    /\ Idle.pc = "idle" /\ Idle.remote = None /\ Idle.mail = None /\ Idle.touched = FALSE
BY ThresholdAssumption DEF Idle, Request, Roles

\* One request is replaced.
LEMMA Update ==
    ASSUME req \in [Requests -> Request], NEW q \in Requests, NEW n \in Request,
           req' = [req EXCEPT ![q] = n]
    PROVE  /\ req' \in [Requests -> Request]
           /\ req'[q] = n
           /\ \A p \in Requests \ {q} : req'[p] = req[p]
OBVIOUS

LEMMA Answered ==
    ASSUME req \in [Requests -> Request], NEW q \in Requests, Answer(q)
    PROVE  /\ req' \in [Requests -> Request]
           /\ req'[q].pc = "idle"
           /\ \A p \in Requests \ {q} : req'[p] = req[p]
BY IdleIsRequest, Update DEF Answer

\* The fields a step leaves out.
LEMMA SameFields ==
    ASSUME req \in [Requests -> Request], NEW q \in Requests
    PROVE  /\ req[q] \in Request
           /\ req[q].pc \in PCs /\ req[q].mail \in Emails \cup {None}
           /\ req[q].user \in Ids \cup {None} /\ req[q].role \in Roles
           /\ req[q].remote \in Remotes \cup {None} /\ req[q].touched \in BOOLEAN
           /\ req[q].fails \in 0..Threshold
BY DEF Request, PCs

LEMMA Went ==
    ASSUME req \in [Requests -> Request], NEW q \in Requests, NEW pc \in PCs, Goto(q, pc)
    PROVE  /\ req' \in [Requests -> Request]
           /\ req'[q].pc = pc /\ req'[q].mail = req[q].mail
           /\ req'[q].user = req[q].user /\ req'[q].role = req[q].role
           /\ req'[q].remote = req[q].remote /\ req'[q].touched = req[q].touched
           /\ \A p \in Requests \ {q} : req'[p] = req[p]
<1> DEFINE n == [req[q] EXCEPT !.pc = pc]
<1>1. n \in Request
  BY SameFields DEF Request, PCs
<1>2. /\ n.pc = pc /\ n.mail = req[q].mail /\ n.user = req[q].user /\ n.role = req[q].role
      /\ n.remote = req[q].remote /\ n.touched = req[q].touched
  BY SameFields DEF Request
<1>3. req' = [req EXCEPT ![q] = n]
  BY DEF Goto
<1> HIDE DEF n
<1> QED
  BY <1>1, <1>2, <1>3, Update

LEMMA WentOn ==
    ASSUME TypeOK, NEW q \in Requests, NEW pc \in PCs, NEW i \in Ids, GoOn(q, pc, i)
    PROVE  /\ req' \in [Requests -> Request]
           /\ req'[q].pc = pc /\ req'[q].user = i /\ req'[q].role = role[i]
           /\ req'[q].remote = req[q].remote /\ req'[q].touched = req[q].touched
           /\ \A p \in Requests \ {q} : req'[p] = req[p]
<1> DEFINE n == [req[q] EXCEPT !.pc = pc, !.mail = None, !.user = i, !.role = role[i]]
<1>1. role[i] \in Roles /\ req \in [Requests -> Request]
  BY DEF TypeOK
<1>2. n \in Request
  BY <1>1, SameFields DEF Request, PCs
<1>3. /\ n.pc = pc /\ n.user = i /\ n.role = role[i]
      /\ n.remote = req[q].remote /\ n.touched = req[q].touched
  BY <1>1, SameFields DEF Request
<1>4. req' = [req EXCEPT ![q] = n]
  BY DEF GoOn
<1> HIDE DEF n
<1> QED
  BY <1>1, <1>2, <1>3, <1>4, Update

LEMMA WasInserted ==
    ASSUME req \in [Requests -> Request], NEW q \in Requests, NEW i \in Ids, Inserted(q, i)
    PROVE  /\ req' \in [Requests -> Request]
           /\ req'[q].pc = IF req[q].remote = None THEN "session" ELSE "link"
           /\ req'[q].user = i /\ req'[q].role = req[q].role
           /\ req'[q].remote = req[q].remote /\ req'[q].touched = req[q].touched
           /\ \A p \in Requests \ {q} : req'[p] = req[p]
<1> DEFINE n == [req[q] EXCEPT !.mail = None, !.user = i,
                               !.pc = IF req[q].remote = None THEN "session" ELSE "link"]
<1>1. n \in Request
  BY SameFields DEF Request, PCs
<1>2. /\ n.pc = IF req[q].remote = None THEN "session" ELSE "link"
      /\ n.user = i /\ n.role = req[q].role
      /\ n.remote = req[q].remote /\ n.touched = req[q].touched
  BY SameFields DEF Request
<1>3. req' = [req EXCEPT ![q] = n]
  BY DEF Inserted
<1> HIDE DEF n
<1> QED
  BY <1>1, <1>2, <1>3, Update

-----------------------------------------------------------------------------
(* Requests a step does not touch *)

LEMMA OthersStaySound ==
    ASSUME IInv, Kept, TypeOK', NEW q \in Requests,
           \A p \in Requests \ {q} : req'[p] = req[p], Sound(q)'
    PROVE  \A p \in Requests : Sound(p)'
<1>1. Rows \subseteq Rows'
  BY DEF Kept, Rows
<1>2. SUFFICES ASSUME NEW p \in Requests \ {q} PROVE Sound(p)'
  OBVIOUS
<1>3. Sound(p) /\ req'[p] = req[p]
  BY DEF IInv
<1> QED
  BY <1>1, <1>3 DEF Sound, Kept

\* The identities and sessions, when users are only added.
LEMMA NamesKept ==
    ASSUME IInv, Kept, TypeOK',
           \A s \in sessions' \ sessions : s.user \in Rows,
           \A r \in Remotes : link'[r] = link[r] \/ link'[r] \in Rows
    PROVE  SessionsNameUsers'
<1>1. Rows \subseteq Rows'
  BY DEF Kept, Rows
<1> QED
  BY <1>1 DEF IInv, SessionsNameUsers

\* A step of a request that leaves the users alone.
LEMMA QuietKeeps ==
    ASSUME IInv, NEW q \in Requests, req' \in [Requests -> Request],
           \A p \in Requests \ {q} : req'[p] = req[p],
           UNCHANGED users, link' \in [Remotes -> Ids \cup {None}], sessions' \subseteq Session,
           \A s \in sessions' \ sessions : s.user \in Rows,
           \A r \in Remotes : link'[r] = link[r] \/ link'[r] \in Rows,
           Sound(q)'
    PROVE  IInv'
<1>1. TypeOK'
  BY DEF IInv, TypeOK, users, Rows
<1>2. Kept
  BY DEF Kept, users
<1>3. LockedForFailures' /\ UniqueEmail'
  BY DEF IInv, LockedForFailures, UniqueEmail, users, Rows
<1>4. SessionsNameUsers'
  BY <1>1, <1>2, NamesKept
<1>5. \A p \in Requests : Sound(p)'
  BY <1>1, <1>2, OthersStaySound
<1> QED
  BY <1>1, <1>3, <1>4, <1>5 DEF IInv

-----------------------------------------------------------------------------
(* Sign-ins and sessions *)

\* A request that begins.
LEMMA BeginKeeps ==
    ASSUME IInv, NEW q \in Requests, NEW n \in Request, Begin(q, n),
           UNCHANGED <<users, link, sessions>>,
           n.pc \in {"insert", "right", "wrong", "me", "admin"},
           n.touched = FALSE,
           n.pc \in {"right", "wrong"} => n.user \in Rows \ disabled,
           n.pc = "right" => n.role = role[n.user],
           n.pc = "me" => n.remote \in Remotes,
           n.pc = "insert" => n.mail \in Emails,
           Rows = {} => n.pc = "insert" /\ n.role = "system_admin" /\ n.remote = None
    PROVE  IInv'
<1>1. /\ req' \in [Requests -> Request] /\ req'[q] = n
      /\ \A p \in Requests \ {q} : req'[p] = req[p]
  BY Update DEF Begin, IInv, TypeOK
<1>2. UNCHANGED <<email, role, disabled>> /\ UNCHANGED users /\ UNCHANGED <<link, sessions>>
  BY DEF users
<1>3. Sound(q)'
  BY <1>1, <1>2 DEF Sound, Rows
<1> QED
  BY <1>1, <1>2, <1>3, QuietKeeps DEF IInv, TypeOK

LEMMA AnswerKeeps ==
    ASSUME IInv, NEW q \in Requests, Answer(q), UNCHANGED <<users, link>>,
           sessions' \subseteq Session, \A s \in sessions' \ sessions : s.user \in Rows
    PROVE  IInv'
<1>1. /\ req' \in [Requests -> Request] /\ req'[q].pc = "idle"
      /\ \A p \in Requests \ {q} : req'[p] = req[p]
  BY Answered DEF IInv, TypeOK
<1>2. UNCHANGED users /\ UNCHANGED link
  OBVIOUS
<1>3. Sound(q)'
  BY <1>1 DEF Sound
<1> QED
  BY <1>1, <1>2, <1>3, QuietKeeps DEF IInv, TypeOK

LEMMA ArriveKeeps ==
    ASSUME IInv, NEW q \in Requests, Arrive(q)
    PROVE  IInv'
<1>1. ASSUME NEW e \in Emails, BeginSetup(q, e) PROVE IInv'
  <2> DEFINE n == [Idle EXCEPT !.pc = "insert", !.mail = e, !.role = "system_admin"]
  <2>1. /\ n \in Request /\ n.pc = "insert" /\ n.mail = e /\ n.role = "system_admin"
        /\ n.remote = None /\ n.touched = FALSE
    BY IdleIsRequest DEF Idle, Request, Roles
  <2>2. Begin(q, n) /\ UNCHANGED <<users, link, sessions>>
    BY <1>1 DEF BeginSetup
  <2> HIDE DEF n
  <2> QED
    BY <2>1, <2>2, BeginKeeps
<1>2. ASSUME NEW e \in Emails, BeginRegister(q, e) PROVE IInv'
  <2> DEFINE n == [Idle EXCEPT !.pc = "insert", !.mail = e]
  <2>1. n \in Request /\ n.pc = "insert" /\ n.mail = e /\ n.touched = FALSE
    BY IdleIsRequest DEF Idle, Request, Roles
  <2>2. Begin(q, n) /\ UNCHANGED <<users, link, sessions>> /\ Rows # {}
    BY <1>2 DEF BeginRegister, Initialized
  <2> HIDE DEF n
  <2> QED
    BY <2>1, <2>2, BeginKeeps
<1>3. ASSUME NEW e \in Emails, LoadUser(q, e) PROVE IInv'
  <2>1. PICK i \in Rows \ (disabled \cup locked) :
          \/ Begin(q, [Idle EXCEPT !.pc = "right", !.user = i, !.role = role[i]])
          \/ Begin(q, [Idle EXCEPT !.pc = "wrong", !.user = i, !.fails = fails[i]])
    BY <1>3 DEF LoadUser
  <2>2. UNCHANGED <<users, link, sessions>>
    BY <1>3 DEF LoadUser
  <2>3. i \in Ids /\ role[i] \in Roles /\ fails[i] \in 0..Threshold
    BY <2>1 DEF IInv, TypeOK, Rows
  <2>4. CASE Begin(q, [Idle EXCEPT !.pc = "right", !.user = i, !.role = role[i]])
    <3> DEFINE n == [Idle EXCEPT !.pc = "right", !.user = i, !.role = role[i]]
    <3>1. n \in Request /\ n.pc = "right" /\ n.user = i /\ n.role = role[i] /\ n.touched = FALSE
      BY <2>3, IdleIsRequest DEF Idle, Request
    <3>2. Begin(q, n)
      BY <2>4
    <3> HIDE DEF n
    <3> QED
      BY <2>1, <2>2, <3>1, <3>2, BeginKeeps
  <2>5. CASE Begin(q, [Idle EXCEPT !.pc = "wrong", !.user = i, !.fails = fails[i]])
    <3> DEFINE n == [Idle EXCEPT !.pc = "wrong", !.user = i, !.fails = fails[i]]
    <3>1. n \in Request /\ n.pc = "wrong" /\ n.user = i /\ n.touched = FALSE
      BY <2>3, IdleIsRequest DEF Idle, Request
    <3>2. Begin(q, n)
      BY <2>5
    <3> HIDE DEF n
    <3> QED
      BY <2>1, <2>2, <3>1, <3>2, BeginKeeps
  <2> QED
    BY <2>1, <2>4, <2>5
<1>4. ASSUME NEW r \in Remotes, BeginCallback(q, r) PROVE IInv'
  <2> DEFINE n == [Idle EXCEPT !.pc = "me", !.remote = r]
  <2>1. n \in Request /\ n.pc = "me" /\ n.remote = r /\ n.touched = FALSE
    BY IdleIsRequest DEF Idle, Request
  <2>2. Begin(q, n) /\ UNCHANGED <<users, link, sessions>> /\ Rows # {}
    BY <1>4 DEF BeginCallback, Initialized
  <2> HIDE DEF n
  <2> QED
    BY <2>1, <2>2, BeginKeeps
<1>5. ASSUME BeginAdmin(q) PROVE IInv'
  <2> DEFINE n == [Idle EXCEPT !.pc = "admin"]
  <2>1. n \in Request /\ n.pc = "admin" /\ n.touched = FALSE
    BY IdleIsRequest DEF Idle, Request
  <2>2. Begin(q, n) /\ UNCHANGED <<users, link, sessions>> /\ sessions # {}
    BY <1>5 DEF BeginAdmin
  <2>3. Rows # {}
    BY <2>2 DEF IInv, SessionsNameUsers
  <2> HIDE DEF n
  <2> QED
    BY <2>1, <2>2, <2>3, BeginKeeps
<1> QED
  BY <1>1, <1>2, <1>3, <1>4, <1>5, PeopleAssumption DEF Arrive

LEMMA PasswordKeeps ==
    ASSUME IInv, NEW q \in Requests, PasswordRight(q) \/ PasswordWrong(q)
    PROVE  IInv'
<1>1. /\ req \in [Requests -> Request] /\ req[q].user \in Rows
      /\ UNCHANGED <<email, role, disabled, secret, link, sessions>>
  BY DEF PasswordRight, PasswordWrong, IInv, TypeOK, Sound
<1>2. /\ fails' \in [Ids -> 0..Threshold] /\ locked' \subseteq Rows
      /\ \A i \in locked' : fails'[i] = Threshold
  <2>1. /\ fails \in [Ids -> 0..Threshold] /\ locked \subseteq Rows
        /\ \A i \in locked : fails[i] = Threshold
        /\ req[q].fails \in 0..Threshold /\ req[q].user \in Ids
    BY <1>1, SameFields DEF IInv, TypeOK, LockedForFailures, Rows
  <2>2. CASE UNCHANGED <<fails, locked>>
    BY <2>1, <2>2
  <2>3. CASE /\ fails' = [fails EXCEPT ![req[q].user] = 0]
             /\ locked' = locked \ {req[q].user}
    BY <2>1, <2>3, ThresholdAssumption
  <2>4. ASSUME NEW count, count = req[q].fails + 1,
               fails' = [fails EXCEPT ![req[q].user] =
                           IF count < Threshold THEN count ELSE Threshold],
               locked' = IF count < Threshold THEN locked \ {req[q].user}
                                              ELSE locked \cup {req[q].user}
        PROVE  /\ fails' \in [Ids -> 0..Threshold] /\ locked' \subseteq Rows
               /\ \A i \in locked' : fails'[i] = Threshold
    BY <1>1, <2>1, <2>4, ThresholdAssumption
  <2> QED
    BY <2>2, <2>3, <2>4 DEF PasswordRight, PasswordWrong, CountFailure
<1>3. TypeOK' /\ Kept
  <2>1. req' \in [Requests -> Request]
    BY <1>1, Went, Answered DEF PasswordRight, PasswordWrong, PCs
  <2> QED
    BY <1>1, <1>2, <2>1 DEF IInv, TypeOK, Rows, Kept
<1>4. Sound(q)' /\ \A p \in Requests \ {q} : req'[p] = req[p]
  <2>1. CASE PasswordRight(q)
    <3>1. /\ req'[q].pc = "session" /\ req[q].pc = "right"
          /\ req'[q].user = req[q].user /\ req'[q].role = req[q].role
          /\ req'[q].remote = req[q].remote /\ req'[q].touched = req[q].touched
          /\ \A p \in Requests \ {q} : req'[p] = req[p]
      BY <1>1, <2>1, Went DEF PasswordRight, PCs
    <3>2. Sound(q)
      BY DEF IInv
    <3> QED
      BY <1>1, <3>1, <3>2 DEF Sound, Rows
  <2>2. CASE PasswordWrong(q)
    <3>1. req'[q].pc = "idle" /\ \A p \in Requests \ {q} : req'[p] = req[p]
      BY <1>1, <2>2, Answered DEF PasswordWrong
    <3> QED
      BY <3>1 DEF Sound
  <2> QED
    BY <2>1, <2>2
<1>5. SessionsNameUsers' /\ UniqueEmail' /\ LockedForFailures'
  BY <1>1, <1>2 DEF IInv, SessionsNameUsers, UniqueEmail, LockedForFailures, Rows
<1> QED
  BY <1>3, <1>4, <1>5, OthersStaySound DEF IInv

LEMMA SsoKeeps ==
    ASSUME IInv, NEW q \in Requests,
           MeAnswers(q) \/ FindIdentity(q) \/ FindEmail(q) \/ LinkIdentity(q)
    PROVE  IInv'
<1>1. /\ TypeOK /\ Sound(q) /\ req \in [Requests -> Request] /\ UNCHANGED users
      /\ link \in [Remotes -> Ids \cup {None}] /\ sessions \subseteq Session
      /\ SessionsNameUsers
  BY DEF IInv, TypeOK, MeAnswers, FindIdentity, FindEmail, LinkIdentity, users
<1>2. sessions' = sessions
  BY DEF MeAnswers, FindIdentity, FindEmail, LinkIdentity
<1>3. ASSUME Answer(q), UNCHANGED link PROVE IInv'
  BY <1>1, <1>2, <1>3, AnswerKeeps DEF users
<1>4. ASSUME NEW e \in Emails, MeAnswers(q),
             req' = [req EXCEPT ![q].pc = "identity", ![q].mail = e]
      PROVE  IInv'
  <2> DEFINE n == [req[q] EXCEPT !.pc = "identity", !.mail = e]
  <2>1. n \in Request
    BY <1>1, SameFields DEF Request
  <2>2. n.pc = "identity" /\ n.mail = e /\ n.remote = req[q].remote
    BY <1>1, SameFields DEF Request
  <2>3. req' = [req EXCEPT ![q] = n]
    BY <1>4
  <2> HIDE DEF n
  <2>4. /\ req' \in [Requests -> Request] /\ req'[q] = n
        /\ \A p \in Requests \ {q} : req'[p] = req[p]
    BY <1>1, <2>1, <2>3, Update
  <2>5. req[q].pc = "me" /\ UNCHANGED link
    BY <1>4 DEF MeAnswers
  <2>6. Sound(q)'
    BY <1>1, <2>2, <2>4, <2>5 DEF Sound, users, Rows
  <2> QED
    BY <1>1, <1>2, <2>4, <2>5, <2>6, QuietKeeps
<1>5. ASSUME NEW pc \in {"session", "link"}, NEW i \in Rows, GoOn(q, pc, i),
             UNCHANGED link, req[q].pc \in {"identity", "email"}
      PROVE  IInv'
  <2>1. i \in Ids /\ pc \in PCs
    BY DEF Rows, PCs
  <2>2. /\ req' \in [Requests -> Request]
        /\ req'[q].pc = pc /\ req'[q].user = i /\ req'[q].role = role[i]
        /\ req'[q].remote = req[q].remote
        /\ \A p \in Requests \ {q} : req'[p] = req[p]
    BY <1>1, <1>5, <2>1, WentOn
  <2>3. UNCHANGED <<email, role, disabled>> /\ req[q].remote \in Remotes
    BY <1>1, <1>5 DEF users, Sound
  <2>4. Sound(q)'
    BY <1>5, <2>2, <2>3, NoneAssumption DEF Sound, Rows
  <2> QED
    BY <1>1, <1>2, <1>5, <2>2, <2>4, QuietKeeps
<1>6. ASSUME NEW pc \in {"email", "insert"}, Goto(q, pc), UNCHANGED link,
             req[q].pc = IF pc = "email" THEN "identity" ELSE "email"
      PROVE  IInv'
  <2>1. /\ req' \in [Requests -> Request]
        /\ req'[q].pc = pc /\ req'[q].mail = req[q].mail
        /\ req'[q].remote = req[q].remote
        /\ \A p \in Requests \ {q} : req'[p] = req[p]
    BY <1>1, <1>6, Went DEF PCs
  <2>2. UNCHANGED <<email, role, disabled>>
    BY <1>1 DEF users
  <2>3. Sound(q)'
    BY <1>1, <1>6, <2>1, <2>2 DEF Sound, Rows
  <2> QED
    BY <1>1, <1>2, <1>6, <2>1, <2>3, QuietKeeps
<1>7. ASSUME LinkIdentity(q), Goto(q, "session"),
             link' = [link EXCEPT ![req[q].remote] = req[q].user]
      PROVE  IInv'
  <2>1. /\ req' \in [Requests -> Request]
        /\ req'[q].pc = "session" /\ req'[q].user = req[q].user /\ req'[q].role = req[q].role
        /\ req'[q].remote = req[q].remote /\ req'[q].touched = req[q].touched
        /\ \A p \in Requests \ {q} : req'[p] = req[p]
    BY <1>1, <1>7, Went DEF PCs
  <2>2. /\ UNCHANGED <<email, role, disabled>> /\ req[q].pc = "link"
        /\ req[q].user \in Rows /\ req[q].remote \in Remotes
    BY <1>1, <1>7 DEF users, Sound, LinkIdentity
  <2>3. /\ link' \in [Remotes -> Ids \cup {None}]
        /\ \A r \in Remotes : link'[r] = link[r] \/ link'[r] \in Rows
    BY <1>1, <1>7, <2>2 DEF Rows
  <2>4. Sound(q)'
    BY <1>1, <2>1, <2>2, NoneAssumption DEF Sound, Rows
  <2> QED
    BY <1>1, <1>2, <2>1, <2>3, <2>4, QuietKeeps
<1>8. CASE MeAnswers(q)
  BY <1>3, <1>4, <1>8, PeopleAssumption DEF MeAnswers
<1>9. CASE FindIdentity(q)
  <2>1. req[q].pc = "identity" /\ UNCHANGED link /\ req[q].remote \in Remotes
    BY <1>1, <1>9 DEF FindIdentity, Sound
  <2>2. link[req[q].remote] # None => link[req[q].remote] \in Rows
    BY <1>1, <2>1 DEF SessionsNameUsers
  <2> QED
    BY <1>5, <1>6, <1>9, <2>1, <2>2 DEF FindIdentity
<1>10. CASE FindEmail(q)
  <2>1. req[q].pc = "email" /\ UNCHANGED link /\ req[q].mail \in Emails
    BY <1>1, <1>10 DEF FindEmail, Sound
  <2>2. \A i \in Ids : email[i] = req[q].mail => i \in Rows
    BY <2>1, NoneAssumption DEF Rows
  <2> QED
    BY <1>5, <1>6, <1>10, <2>1, <2>2 DEF FindEmail
<1>11. CASE LinkIdentity(q)
  BY <1>3, <1>7, <1>11 DEF LinkIdentity
<1> QED
  BY <1>8, <1>9, <1>10, <1>11

LEMMA CreateSessionKeeps ==
    ASSUME IInv, NEW q \in Requests, CreateSession(q)
    PROVE  IInv'
<1>1. /\ req[q].pc = "session" /\ Answer(q) /\ UNCHANGED <<users, link>>
      /\ sessions' \subseteq sessions \cup {[user |-> req[q].user, role |-> req[q].role]}
  BY DEF CreateSession
<1>2. req[q].user \in Rows /\ req[q].user \in Ids /\ req[q].role \in Roles
  BY <1>1, SameFields DEF IInv, TypeOK, Sound, Rows
<1>3. sessions \subseteq Session
  BY DEF IInv, TypeOK
<1>4. [user |-> req[q].user, role |-> req[q].role] \in Session
  BY <1>2 DEF Session
<1> QED
  BY <1>1, <1>2, <1>3, <1>4, AnswerKeeps

-----------------------------------------------------------------------------
(* Users *)

\* A new row, with an address nobody has.
LEMMA InsertAdds ==
    ASSUME IInv, NEW i \in Ids, NEW e \in Emails, NEW r \in Roles, NEW s \in BOOLEAN,
           Insert(i, e, r, s)
    PROVE  /\ email' \in [Ids -> Emails \cup {None}] /\ role' \in [Ids -> Roles]
           /\ fails' \in [Ids -> 0..Threshold]
           /\ Rows' = Rows \cup {i} /\ i \notin Rows /\ role'[i] = r /\ email'[i] = e
           /\ i \notin disabled /\ secret' \subseteq Rows' /\ (s => i \in secret')
           /\ UNCHANGED <<disabled, locked>>
           /\ Kept /\ UniqueEmail' /\ LockedForFailures'
<1>1. /\ email \in [Ids -> Emails \cup {None}] /\ role \in [Ids -> Roles]
      /\ fails \in [Ids -> 0..Threshold] /\ disabled \subseteq Rows
      /\ secret \subseteq Rows /\ locked \subseteq Rows
  BY DEF IInv, TypeOK
<1>2. /\ email[i] = None /\ \A k \in Ids : email[k] # e
      /\ email' = [email EXCEPT ![i] = e] /\ role' = [role EXCEPT ![i] = r]
      /\ fails' = [fails EXCEPT ![i] = 0]
      /\ secret' = IF s THEN secret \cup {i} ELSE secret
      /\ UNCHANGED <<disabled, locked>>
  BY DEF Insert
<1>3. /\ email' \in [Ids -> Emails \cup {None}] /\ role' \in [Ids -> Roles]
      /\ fails' \in [Ids -> 0..Threshold]
  BY <1>1, <1>2, ThresholdAssumption
<1>4. Rows' = Rows \cup {i} /\ i \notin Rows
  BY <1>1, <1>2, NoneAssumption DEF Rows
<1>5. Kept
  BY <1>1, <1>2, <1>4 DEF Kept, Rows
<1>6. UniqueEmail'
  BY <1>1, <1>2, <1>4 DEF IInv, UniqueEmail, Rows
<1>7. LockedForFailures'
  BY <1>1, <1>2, <1>4 DEF IInv, LockedForFailures
<1> QED
  BY <1>1, <1>2, <1>3, <1>4, <1>5, <1>6, <1>7

LEMMA InsertUserKeeps ==
    ASSUME IInv, NEW q \in Requests, InsertUser(q)
    PROVE  IInv'
<1>1. /\ Sound(q) /\ req \in [Requests -> Request] /\ req[q].pc = "insert"
      /\ UNCHANGED <<link, sessions>> /\ sessions \subseteq Session
      /\ link \in [Remotes -> Ids \cup {None}]
  BY DEF IInv, TypeOK, InsertUser
<1>2. /\ req[q].mail \in Emails /\ req[q].role \in Roles /\ (req[q].remote = None) \in BOOLEAN
      /\ req[q].remote \in Remotes \cup {None}
  BY <1>1, SameFields DEF Sound
<1>3. CASE Answer(q) /\ UNCHANGED users
  BY <1>1, <1>3, AnswerKeeps
<1>4. ASSUME NEW i \in Ids, Insert(i, req[q].mail, req[q].role, req[q].remote = None),
             Inserted(q, i)
      PROVE  IInv'
  <2>1. /\ req' \in [Requests -> Request]
        /\ req'[q].pc = IF req[q].remote = None THEN "session" ELSE "link"
        /\ req'[q].user = i /\ req'[q].role = req[q].role
        /\ req'[q].remote = req[q].remote
        /\ \A p \in Requests \ {q} : req'[p] = req[p]
    BY <1>1, <1>4, WasInserted
  <2> DEFINE new == req[q].remote = None
  <2>2. /\ email' \in [Ids -> Emails \cup {None}] /\ role' \in [Ids -> Roles]
        /\ fails' \in [Ids -> 0..Threshold]
        /\ Rows' = Rows \cup {i} /\ role'[i] = req[q].role
        /\ i \notin disabled /\ secret' \subseteq Rows'
        /\ UNCHANGED <<disabled, locked>>
        /\ Kept /\ UniqueEmail' /\ LockedForFailures'
    BY <1>2, <1>4, InsertAdds
  <2>3. TypeOK'
    BY <1>1, <2>1, <2>2 DEF IInv, TypeOK
  <2>4. SessionsNameUsers'
    BY <1>1, <2>2, <2>3, NamesKept
  <2>5. Sound(q)'
    BY <1>2, <2>1, <2>2 DEF Sound
  <2> QED
    BY <2>1, <2>2, <2>3, <2>4, <2>5, OthersStaySound DEF IInv
<1> QED
  BY <1>3, <1>4 DEF InsertUser

LEMMA CreateUserKeeps ==
    ASSUME IInv, NEW q \in Requests, NEW i \in Ids, NEW e \in Emails, NEW r \in Roles,
           CreateUser(q, i, e, r)
    PROVE  IInv'
<1>1. /\ req \in [Requests -> Request] /\ UNCHANGED <<link, sessions>>
      /\ sessions \subseteq Session /\ link \in [Remotes -> Ids \cup {None}]
      /\ Insert(i, e, r, TRUE) /\ Answer(q)
  BY DEF IInv, TypeOK, CreateUser
<1>2. /\ email' \in [Ids -> Emails \cup {None}] /\ role' \in [Ids -> Roles]
      /\ fails' \in [Ids -> 0..Threshold]
      /\ Rows' = Rows \cup {i} /\ secret' \subseteq Rows'
      /\ UNCHANGED <<disabled, locked>>
      /\ Kept /\ UniqueEmail' /\ LockedForFailures'
  BY <1>1, InsertAdds
<1>3. /\ req' \in [Requests -> Request] /\ req'[q].pc = "idle"
      /\ \A p \in Requests \ {q} : req'[p] = req[p]
  BY <1>1, Answered
<1>4. TypeOK'
  BY <1>1, <1>2, <1>3 DEF IInv, TypeOK
<1>5. SessionsNameUsers'
  BY <1>1, <1>2, <1>4, NamesKept
<1>6. Sound(q)'
  BY <1>3 DEF Sound
<1> QED
  BY <1>2, <1>3, <1>4, <1>5, <1>6, OthersStaySound DEF IInv

\* A request whose user is patched is touched.
LEMMA PatchUserKeeps ==
    ASSUME IInv, NEW q \in Requests, NEW i \in Ids, NEW r \in Roles,
           NEW off \in BOOLEAN, NEW s \in BOOLEAN, PatchUser(q, i, r, off, s)
    PROVE  IInv'
<1>1. /\ TypeOK /\ i \in Rows /\ role' = [role EXCEPT ![i] = r]
      /\ disabled' = (IF off THEN disabled \cup {i} ELSE disabled \ {i})
      /\ secret' = (IF s THEN secret \cup {i} ELSE secret)
      /\ UNCHANGED <<email, fails, locked, link, sessions>>
  BY DEF PatchUser, IInv
<1>2. Rows' = Rows
  BY <1>1 DEF Rows
<1>3. ASSUME NEW p \in Requests
      PROVE  /\ req'[p] \in Request
             /\ \/ req'[p].pc = "idle"
                \/ /\ req'[p].pc = req[p].pc /\ req'[p].user = req[p].user
                   /\ req'[p].role = req[p].role /\ req'[p].remote = req[p].remote
                   /\ req'[p].mail = req[p].mail
                   /\ req'[p].touched = (req[p].touched \/ req[p].user = i)
  <2> DEFINE n == [req[p] EXCEPT !.touched = @ \/ req[p].user = i]
  <2>1. req[p] \in Request
    BY <1>1 DEF TypeOK
  <2>2. /\ n \in Request
        /\ n.pc = req[p].pc /\ n.user = req[p].user /\ n.role = req[p].role
        /\ n.remote = req[p].remote /\ n.mail = req[p].mail
        /\ n.touched = (req[p].touched \/ req[p].user = i)
    BY <2>1 DEF Request
  <2>3. req'[p] \in {Idle, n}
    BY DEF PatchUser
  <2> HIDE DEF n
  <2> QED
    BY <2>1, <2>2, <2>3, IdleIsRequest
<1>4. req' \in [Requests -> Request]
  <2>1. req' = [p \in Requests |-> req'[p]]
    BY DEF PatchUser
  <2> QED
    BY <1>3, <2>1
<1>5. TypeOK'
  BY <1>1, <1>2, <1>4 DEF TypeOK
<1>6. SessionsNameUsers' /\ LockedForFailures' /\ UniqueEmail'
  BY <1>1, <1>2 DEF IInv, SessionsNameUsers, LockedForFailures, UniqueEmail
<1>7. ASSUME NEW p \in Requests PROVE Sound(p)'
  <2>1. Sound(p)
    BY DEF IInv
  <2>2. role \in [Ids -> Roles] /\ Rows \subseteq Ids
    BY <1>1 DEF TypeOK, Rows
  <2>3. CASE req'[p].pc = "idle"
    BY <2>3 DEF Sound
  <2>4. CASE /\ req'[p].pc = req[p].pc /\ req'[p].user = req[p].user
             /\ req'[p].role = req[p].role /\ req'[p].remote = req[p].remote
             /\ req'[p].mail = req[p].mail
             /\ req'[p].touched = (req[p].touched \/ req[p].user = i)
    BY <1>1, <1>2, <2>1, <2>2, <2>4 DEF Sound
  <2> QED
    BY <1>3, <2>3, <2>4
<1> QED
  BY <1>5, <1>6, <1>7 DEF IInv

-----------------------------------------------------------------------------
(* The whole specification *)

LEMMA InitInv == Init => IInv
<1> SUFFICES ASSUME Init PROVE IInv
  OBVIOUS
<1>1. Rows = {}
  BY DEF Init, Rows
<1>2. TypeOK
  BY <1>1, IdleIsRequest, ThresholdAssumption DEF Init, TypeOK, Roles
<1>3. \A q \in Requests : Sound(q)
  BY IdleIsRequest DEF Init, Sound
<1> QED
  BY <1>1, <1>2, <1>3 DEF Init, IInv, SessionsNameUsers, LockedForFailures, UniqueEmail

LEMMA OutsideKeeps ==
    ASSUME IInv, Outside \/ Crash
    PROVE  IInv'
<1>1. TypeOK' /\ Kept
  <2>1. CASE Outside
    BY <2>1 DEF Outside, LockEnds, EndSession, IInv, TypeOK, Rows, Kept, users
  <2>2. CASE Crash
    BY <2>2, IdleIsRequest DEF Crash, IInv, TypeOK, Rows, Kept, users
  <2> QED
    BY <2>1, <2>2
<1>2. SessionsNameUsers' /\ LockedForFailures' /\ UniqueEmail'
  BY DEF Outside, LockEnds, EndSession, Crash, IInv, SessionsNameUsers,
         LockedForFailures, UniqueEmail, Rows, users
<1>3. \A q \in Requests : Sound(q)'
  <2>1. CASE Outside
    BY <2>1 DEF Outside, LockEnds, EndSession, IInv, Sound, Rows, users
  <2>2. CASE Crash
    BY <2>2, IdleIsRequest DEF Crash, Sound
  <2> QED
    BY <2>1, <2>2
<1> QED
  BY <1>1, <1>2, <1>3 DEF IInv

LEMMA NextInv == IInv /\ [Next]_vars => IInv'
<1> SUFFICES ASSUME IInv, [Next]_vars PROVE IInv'
  OBVIOUS
<1>1. ASSUME NEW q \in Requests, Arrive(q) PROVE IInv'
  BY <1>1, ArriveKeeps
<1>2. ASSUME NEW q \in Requests, Handle(q) PROVE IInv'
  <2>1. CASE AdminStep(q)
    <3>1. CASE AdminFails(q)
      BY <3>1, AnswerKeeps DEF AdminFails, IInv, TypeOK
    <3> QED
      BY <2>1, <3>1, CreateUserKeeps, PatchUserKeeps DEF AdminStep
  <2> QED
    BY <1>2, <2>1, InsertUserKeeps, PasswordKeeps, SsoKeeps, CreateSessionKeeps DEF Handle
<1>3. CASE Outside \/ Crash
  BY <1>3, OutsideKeeps
<1>4. CASE UNCHANGED vars
  BY <1>4 DEF vars, IInv, TypeOK, SessionsNameUsers, LockedForFailures, UniqueEmail, Sound, Rows
<1> QED
  BY <1>1, <1>2, <1>3, <1>4 DEF Next

\* The invariant of the specification.
THEOREM Invariant == Spec => []IInv
BY InitInv, NextInv, PTL DEF Spec

\* The type invariant, of every reachable state.
THEOREM TypeCorrect == Spec => []TypeOK
<1>1. IInv => TypeOK
  BY DEF IInv
<1> QED
  BY <1>1, Invariant, PTL

\* Sessions and identities never name a user whose INSERT failed.
THEOREM SessionsNameUsersAlways == Spec => []SessionsNameUsers
<1>1. IInv => SessionsNameUsers
  BY DEF IInv
<1> QED
  BY <1>1, Invariant, PTL

\* However sign-ins overlap, a locked user has reached the threshold.
THEOREM LockedForFailuresAlways == Spec => []LockedForFailures
<1>1. IInv => LockedForFailures
  BY DEF IInv
<1> QED
  BY <1>1, Invariant, PTL

-----------------------------------------------------------------------------
(* Steps *)

\* Only CreateSession adds a session, and it copies its request.
LEMMA NewSession ==
    ASSUME [Next]_vars, NEW s \in sessions' \ sessions
    PROVE  \E q \in Requests : /\ req[q].pc = "session"
                              /\ s = [user |-> req[q].user, role |-> req[q].role]
<1>1. CASE \E q \in Requests : CreateSession(q)
  BY <1>1 DEF CreateSession
<1>2. CASE \E q \in Requests : Arrive(q)
  BY <1>2 DEF Arrive, BeginSetup, BeginRegister, LoadUser, BeginCallback, BeginAdmin
<1>3. CASE \E q \in Requests : AdminStep(q)
  BY <1>3 DEF AdminStep, CreateUser, PatchUser, AdminFails
<1>4. CASE \E q \in Requests : \/ InsertUser(q) \/ PasswordRight(q) \/ PasswordWrong(q)
                               \/ MeAnswers(q) \/ FindIdentity(q) \/ FindEmail(q)
                               \/ LinkIdentity(q)
  BY <1>4 DEF InsertUser, PasswordRight, PasswordWrong, MeAnswers, FindIdentity,
              FindEmail, LinkIdentity
<1>5. CASE Outside \/ Crash \/ UNCHANGED vars
  BY <1>5 DEF Outside, LockEnds, EndSession, Crash, vars
<1> QED
  BY <1>1, <1>2, <1>3, <1>4, <1>5 DEF Next, Handle

\* Of all steps, only an INSERT adds a user.
LEMMA NewUser ==
    ASSUME IInv, [Next]_vars, Rows' # Rows
    PROVE  \E q \in Requests : InsertUser(q) \/ \E i \in Ids, e \in Emails, r \in Roles : CreateUser(q, i, e, r)
<1> SUFFICES ASSUME ~ \E q \in Requests : \/ InsertUser(q)
                                         \/ \E i \in Ids, e \in Emails, r \in Roles : CreateUser(q, i, e, r)
             PROVE  FALSE
  OBVIOUS
<1>1. email' = email
  <2>1. CASE \E q \in Requests : Arrive(q)
    BY <2>1 DEF Arrive, BeginSetup, BeginRegister, LoadUser, BeginCallback, BeginAdmin, users
  <2>2. CASE \E q \in Requests : AdminStep(q)
    BY <2>2 DEF AdminStep, PatchUser, AdminFails, users
  <2>3. CASE \E q \in Requests : \/ PasswordRight(q) \/ PasswordWrong(q) \/ CreateSession(q)
                                 \/ MeAnswers(q) \/ FindIdentity(q) \/ FindEmail(q)
                                 \/ LinkIdentity(q)
    BY <2>3 DEF PasswordRight, PasswordWrong, CreateSession, MeAnswers, FindIdentity,
                FindEmail, LinkIdentity, users
  <2>4. CASE Outside \/ Crash \/ UNCHANGED vars
    BY <2>4 DEF Outside, LockEnds, EndSession, Crash, vars, users
  <2> QED
    BY <2>1, <2>2, <2>3, <2>4 DEF Next, Handle
<1> QED
  BY <1>1 DEF Rows

\* The first user is the administrator setup makes: before it no request but
\* setups is on its way.
THEOREM FirstIsAdmin == Spec => FirstUserIsAdmin
<1>1. ASSUME IInv, [Next]_vars, Rows = {}, NEW i \in Rows'
      PROVE  role'[i] = "system_admin" /\ i \in secret'
  <2>1. PICK q \in Requests : \/ InsertUser(q)
                             \/ \E k \in Ids, e \in Emails, r \in Roles : CreateUser(q, k, e, r)
    BY <1>1, NewUser
  <2>2. /\ req[q].pc = "idle" \/ (req[q].pc = "insert" /\ req[q].role = "system_admin" /\ req[q].remote = None)
        /\ req[q].pc = "insert" => req[q].mail \in Emails
    BY <1>1 DEF IInv, Sound
  <2>3. InsertUser(q) /\ req[q].pc = "insert"
    BY <2>1, <2>2 DEF CreateUser, InsertUser
  <2>4. Rows' # Rows
    BY <1>1
  <2>5. ~ UNCHANGED users
    BY <2>4 DEF users, Rows
  <2>6. PICK k \in Ids : Insert(k, req[q].mail, req[q].role, req[q].remote = None)
    BY <2>3, <2>5 DEF InsertUser
  <2>7. req[q].mail \in Emails /\ req[q].role \in Roles /\ (req[q].remote = None) \in BOOLEAN
    BY <2>2, <2>3 DEF Roles
  <2>8. Rows' = Rows \cup {k} /\ role'[k] = req[q].role /\ (req[q].remote = None => k \in secret')
    BY <1>1, <2>6, <2>7, InsertAdds
  <2> QED
    BY <1>1, <2>2, <2>3, <2>8
<1>2. IInv /\ [Next]_vars => (Rows = {} => \A i \in Rows' : role'[i] = "system_admin" /\ i \in secret')
  BY <1>1
<1> QED
  BY <1>2, Invariant, PTL DEF Spec, FirstUserIsAdmin

\* A session is given the role its user has, or had when the sign-in read it.
THEOREM RoleWasHeldAlways == Spec => RoleWasHeld
<1>1. ASSUME IInv, [Next]_vars, NEW s \in sessions' \ sessions
      PROVE  \/ s.role = role[s.user]
             \/ \E q \in Requests : /\ req[q].pc = "session" /\ req[q].user = s.user
                                    /\ req[q].touched
  <2>1. PICK q \in Requests : req[q].pc = "session" /\ s = [user |-> req[q].user, role |-> req[q].role]
    BY <1>1, NewSession
  <2>2. req[q].role = role[req[q].user] \/ req[q].touched
    BY <1>1, <2>1 DEF IInv, Sound
  <2> QED
    BY <2>1, <2>2
<1>2. IInv /\ [Next]_vars =>
        \A s \in sessions' \ sessions :
           \/ s.role = role[s.user]
           \/ \E q \in Requests : /\ req[q].pc = "session" /\ req[q].user = s.user
                                  /\ req[q].touched
  BY <1>1
<1> QED
  BY <1>2, Invariant, PTL DEF Spec, RoleWasHeld

\* Whoever was disabled before the sign-in with a password gets no session.
THEOREM DisabledStaysOutAlways == Spec => DisabledStaysOut
<1>1. ASSUME IInv, [Next]_vars, NEW s \in sessions' \ sessions
      PROVE  \/ s.user \notin disabled
             \/ \E q \in Requests : /\ req[q].pc = "session" /\ req[q].user = s.user
                                    /\ req[q].touched \/ req[q].remote # None
  <2>1. PICK q \in Requests : req[q].pc = "session" /\ s = [user |-> req[q].user, role |-> req[q].role]
    BY <1>1, NewSession
  <2>2. \/ req[q].remote # None
        \/ req[q].user \notin disabled
        \/ req[q].touched
    BY <1>1, <2>1 DEF IInv, Sound
  <2>3. s.user = req[q].user
    BY <2>1
  <2> QED
    BY <2>1, <2>2, <2>3
<1>2. IInv /\ [Next]_vars =>
        \A s \in sessions' \ sessions :
           \/ s.user \notin disabled
           \/ \E q \in Requests : /\ req[q].pc = "session" /\ req[q].user = s.user
                                  /\ req[q].touched \/ req[q].remote # None
  BY <1>1
<1> QED
  BY <1>2, Invariant, PTL DEF Spec, DisabledStaysOut

-----------------------------------------------------------------------------
(* Requests end *)

Stage(pc) ==
    CASE pc = "idle" -> 0
      [] pc \in {"session", "wrong", "admin"} -> 1
      [] pc \in {"right", "link"} -> 2
      [] pc = "insert" -> 3
      [] pc = "email" -> 4
      [] pc = "identity" -> 5
      [] pc = "me" -> 6

\* The next statement of a request leads on; nobody else moves a request, but
\* for a restart, which ends it.
RequestsAdvance ==
    [][\A q \in Requests :
          Handle(q) \/ (req[q].pc # "idle" /\ req'[q].pc # req[q].pc)
             => Stage(req'[q].pc) < Stage(req[q].pc)]_vars

LEMMA AnswerAdvances ==
    ASSUME IInv, NEW q \in Requests, Answer(q), req[q].pc # "idle"
    PROVE  /\ Stage(req'[q].pc) < Stage(req[q].pc)
           /\ \A p \in Requests \ {q} : req'[p].pc = req[p].pc
BY Answered, SameFields DEF IInv, TypeOK, Stage, PCs

LEMMA HandleAdvances ==
    ASSUME IInv, NEW q \in Requests, Handle(q)
    PROVE  /\ Stage(req'[q].pc) < Stage(req[q].pc)
           /\ \A p \in Requests \ {q} : req'[p].pc = req[p].pc
<1> DEFINE Goal == /\ Stage(req'[q].pc) < Stage(req[q].pc)
                   /\ \A p \in Requests \ {q} : req'[p].pc = req[p].pc
<1> SUFFICES Goal
  OBVIOUS
<1>0. /\ TypeOK /\ Sound(q) /\ req \in [Requests -> Request]
      /\ Answer(q) /\ req[q].pc # "idle" => Goal
  BY AnswerAdvances DEF IInv, TypeOK
<1> HIDE DEF Goal
<1>1. ASSUME NEW pc \in PCs, Goto(q, pc), Stage(pc) < Stage(req[q].pc) PROVE Goal
  BY <1>0, <1>1, Went DEF Goal
<1>2. ASSUME NEW pc \in PCs, NEW i \in Ids, GoOn(q, pc, i), Stage(pc) < Stage(req[q].pc)
      PROVE  Goal
  BY <1>0, <1>2, WentOn DEF Goal
<1>3. CASE InsertUser(q)
  <2>1. ASSUME NEW i \in Ids, Inserted(q, i) PROVE Goal
    BY <1>0, <1>3, <2>1, WasInserted DEF Goal, InsertUser, Stage
  <2> QED
    BY <1>0, <1>3, <2>1 DEF InsertUser
<1>4. CASE PasswordRight(q)
  BY <1>1, <1>4 DEF PasswordRight, Stage, PCs
<1>5. CASE PasswordWrong(q) \/ CreateSession(q) \/ AdminFails(q)
  BY <1>0, <1>5 DEF PasswordWrong, CreateSession, AdminFails
<1>6. CASE MeAnswers(q)
  <2>1. ASSUME NEW e \in People, req' = [req EXCEPT ![q].pc = "identity", ![q].mail = e]
        PROVE  Goal
    <3> DEFINE n == [req[q] EXCEPT !.pc = "identity", !.mail = e]
    <3>1. n \in Request /\ n.pc = "identity"
      BY <1>0, SameFields, PeopleAssumption DEF Request
    <3>2. req' = [req EXCEPT ![q] = n]
      BY <2>1
    <3> HIDE DEF n
    <3>3. req'[q].pc = "identity" /\ \A p \in Requests \ {q} : req'[p].pc = req[p].pc
      BY <1>0, <3>1, <3>2, Update
    <3> QED
      BY <1>6, <3>3 DEF Goal, MeAnswers, Stage
  <2> QED
    BY <1>0, <1>6, <2>1 DEF MeAnswers
<1>7. CASE FindIdentity(q)
  <2>1. link[req[q].remote] # None => link[req[q].remote] \in Ids
    BY <1>0, <1>7 DEF FindIdentity, Sound, TypeOK
  <2>2. Stage("session") < Stage("identity") /\ Stage("email") < Stage("identity")
    BY DEF Stage
  <2> QED
    BY <1>1, <1>2, <1>7, <2>1, <2>2 DEF FindIdentity, PCs
<1>8. CASE FindEmail(q)
  <2>1. Stage("link") < Stage("email") /\ Stage("insert") < Stage("email")
    BY DEF Stage
  <2> QED
    BY <1>1, <1>2, <1>8, <2>1 DEF FindEmail, PCs
<1>9. CASE LinkIdentity(q)
  <2>1. Stage("session") < Stage("link")
    BY DEF Stage
  <2> QED
    BY <1>0, <1>1, <1>9, <2>1 DEF LinkIdentity, PCs
<1>10. CASE \E i \in Ids, e \in Emails, r \in Roles : CreateUser(q, i, e, r)
  BY <1>0, <1>10 DEF CreateUser
<1>11. ASSUME NEW i \in Ids, NEW r \in Roles, NEW off \in BOOLEAN, NEW s \in BOOLEAN,
              PatchUser(q, i, r, off, s)
       PROVE  Goal
  <2>1. req'[q] = Idle /\ req[q].pc = "admin"
    BY <1>11 DEF PatchUser
  <2>2. \A p \in Requests \ {q} : req'[p] = [req[p] EXCEPT !.touched = @ \/ req[p].user = i]
    BY <1>11 DEF PatchUser
  <2>3. \A p \in Requests \ {q} : req'[p].pc = req[p].pc
    BY <1>0, <2>2 DEF Request
  <2> QED
    BY <2>1, <2>3, IdleIsRequest DEF Goal, Stage
<1> QED
  BY <1>3, <1>4, <1>5, <1>6, <1>7, <1>8, <1>9, <1>10, <1>11 DEF Handle, AdminStep

LEMMA ArriveBegins ==
    ASSUME IInv, NEW q \in Requests, Arrive(q)
    PROVE  req[q].pc = "idle" /\ \A p \in Requests \ {q} : req'[p] = req[p]
<1>1. \E n : Begin(q, n)
  BY DEF Arrive, BeginSetup, BeginRegister, LoadUser, BeginCallback, BeginAdmin
<1> QED
  BY <1>1 DEF Begin, IInv, TypeOK

\* Setup, registration, sign-in and administration all end after at most six
\* statements: no request waits for another, and none is led in a circle by rows
\* and identities that appear between its lookups.
THEOREM RequestsEnd == Spec => RequestsAdvance
<1> DEFINE Step == \A q \in Requests :
                      Handle(q) \/ (req[q].pc # "idle" /\ req'[q].pc # req[q].pc)
                         => Stage(req'[q].pc) < Stage(req[q].pc)
<1>1. IInv /\ [Next]_vars => [Step]_vars
  <2> SUFFICES ASSUME IInv, Next, NEW q \in Requests, req[q].pc # "idle", req'[q].pc # req[q].pc
               PROVE  Stage(req'[q].pc) < Stage(req[q].pc)
    BY HandleAdvances
  <2>1. CASE \E p \in Requests : Arrive(p)
    BY <2>1, ArriveBegins
  <2>2. CASE \E p \in Requests : Handle(p)
    BY <2>2, HandleAdvances
  <2>3. CASE Outside
    BY <2>3 DEF Outside, LockEnds, EndSession
  <2>4. CASE Crash
    <3>1. req'[q].pc = "idle" /\ req[q].pc \in PCs
      BY <2>4, IdleIsRequest, SameFields DEF Crash, IInv, TypeOK
    <3> QED
      BY <3>1 DEF Stage, PCs
  <2> QED
    BY <2>1, <2>2, <2>3, <2>4 DEF Next
<1> HIDE DEF Step
<1>2. Spec => [][Step]_vars
  BY <1>1, Invariant, PTL DEF Spec
<1> QED
  BY <1>2 DEF RequestsAdvance, Step
-----------------------------------------------------------------------------
(* Failures are kept                                                        *)

\* The user has n failures, for the row and for every attempt under way.
Known(i, n) ==
    /\ fails[i] >= n
    /\ \A q \in Requests : req[q].pc = "wrong" /\ req[q].user = i => req[q].fails >= n

\* Failed sign-ins of a user may overlap in any number and end in any order, the
\* count set back by slow ones: it never falls below what all of them have read,
\* until a right password resets it.
FailuresNotForgotten ==
    [][\A i \in Rows, n \in 0..Threshold :
          Known(i, n) /\ ~ (\E q \in Requests : PasswordRight(q) /\ req[q].user = i)
             => Known(i, n)']_vars

\* The statements of a request begin no count of failures.
LEMMA HandleCountsNothingNew ==
    ASSUME IInv, NEW q \in Requests, Handle(q), NEW p \in Requests, req'[p].pc = "wrong"
    PROVE  req[p].pc = "wrong" /\ req'[p].user = req[p].user /\ req'[p].fails = req[p].fails
<1> DEFINE Goal == /\ req'[q].pc # "wrong"
                   /\ \A k \in Requests \ {q} :
                         /\ req'[k].pc = req[k].pc /\ req'[k].user = req[k].user
                         /\ req'[k].fails = req[k].fails
<1> SUFFICES Goal
  OBVIOUS
<1>0. /\ TypeOK /\ Sound(q) /\ req \in [Requests -> Request]
      /\ Answer(q) => Goal
  BY Answered DEF IInv, TypeOK
<1> HIDE DEF Goal
<1>1. ASSUME NEW pc \in PCs, Goto(q, pc), pc # "wrong" PROVE Goal
  BY <1>0, <1>1, Went DEF Goal
<1>2. ASSUME NEW pc \in PCs, NEW i \in Ids, GoOn(q, pc, i), pc # "wrong" PROVE Goal
  BY <1>0, <1>2, WentOn DEF Goal
<1>3. CASE InsertUser(q)
  <2>1. ASSUME NEW i \in Ids, Inserted(q, i) PROVE Goal
    BY <1>0, <2>1, WasInserted DEF Goal
  <2> QED
    BY <1>0, <1>3, <2>1 DEF InsertUser
<1>4. CASE PasswordRight(q)
  BY <1>1, <1>4 DEF PasswordRight, PCs
<1>5. CASE PasswordWrong(q) \/ CreateSession(q) \/ AdminFails(q)
  BY <1>0, <1>5 DEF PasswordWrong, CreateSession, AdminFails
<1>6. CASE MeAnswers(q)
  <2>1. ASSUME NEW e \in People, req' = [req EXCEPT ![q].pc = "identity", ![q].mail = e]
        PROVE  Goal
    <3> DEFINE n == [req[q] EXCEPT !.pc = "identity", !.mail = e]
    <3>1. n \in Request /\ n.pc = "identity"
      BY <1>0, SameFields, PeopleAssumption DEF Request
    <3>2. req' = [req EXCEPT ![q] = n]
      BY <2>1
    <3> HIDE DEF n
    <3>3. req'[q].pc = "identity" /\ \A k \in Requests \ {q} : req'[k] = req[k]
      BY <1>0, <3>1, <3>2, Update
    <3> QED
      BY <3>3 DEF Goal
  <2> QED
    BY <1>0, <1>6, <2>1 DEF MeAnswers
<1>7. CASE FindIdentity(q)
  <2>1. link[req[q].remote] # None => link[req[q].remote] \in Ids
    BY <1>0, <1>7 DEF FindIdentity, Sound, TypeOK
  <2> QED
    BY <1>1, <1>2, <1>7, <2>1 DEF FindIdentity, PCs
<1>8. CASE FindEmail(q)
  BY <1>1, <1>2, <1>8 DEF FindEmail, PCs
<1>9. CASE LinkIdentity(q)
  BY <1>0, <1>1, <1>9 DEF LinkIdentity, PCs
<1>10. CASE \E i \in Ids, e \in Emails, r \in Roles : CreateUser(q, i, e, r)
  BY <1>0, <1>10 DEF CreateUser
<1>11. ASSUME NEW i \in Ids, NEW r \in Roles, NEW off \in BOOLEAN, NEW s \in BOOLEAN,
              PatchUser(q, i, r, off, s)
       PROVE  Goal
  <2>1. req'[q] = Idle
    BY <1>11 DEF PatchUser
  <2>2. \A k \in Requests \ {q} : req'[k] = [req[k] EXCEPT !.touched = @ \/ req[k].user = i]
    BY <1>11 DEF PatchUser
  <2>3. \A k \in Requests \ {q} : /\ req'[k].pc = req[k].pc /\ req'[k].user = req[k].user
                                  /\ req'[k].fails = req[k].fails
    BY <1>0, <2>2 DEF Request
  <2> QED
    BY <2>1, <2>3, IdleIsRequest DEF Goal
<1> QED
  BY <1>3, <1>4, <1>5, <1>6, <1>7, <1>8, <1>9, <1>10, <1>11 DEF Handle, AdminStep

\* An attempt that fails goes by the count of the row it has read.
LEMMA FailureWasRead ==
    ASSUME IInv, [Next]_vars, NEW p \in Requests, req'[p].pc = "wrong"
    PROVE  \/ req[p].pc = "wrong" /\ req'[p].user = req[p].user /\ req'[p].fails = req[p].fails
           \/ req'[p].user \in Ids /\ req'[p].fails = fails[req'[p].user]
<1>0. req \in [Requests -> Request] /\ fails \in [Ids -> 0..Threshold]
  BY DEF IInv, TypeOK
<1>1. CASE \E q \in Requests : Handle(q)
  BY <1>1, HandleCountsNothingNew
<1> DEFINE Goal == \/ /\ req[p].pc = "wrong" /\ req'[p].user = req[p].user
                      /\ req'[p].fails = req[p].fails
                   \/ req'[p].user \in Ids /\ req'[p].fails = fails[req'[p].user]
<1>2. ASSUME NEW q \in Requests, Arrive(q) PROVE Goal
  <2>1. ASSUME NEW n, Begin(q, n),
               n.pc = "wrong" => n.user \in Ids /\ n.fails = fails[n.user]
        PROVE  Goal
    <3>1. p = q => req'[p] = n
      BY <1>0, <2>1 DEF Begin
    <3>2. p # q => req'[p] = req[p]
      BY <1>0, <2>1 DEF Begin
    <3> QED
      BY <2>1, <3>1, <3>2
  <2> HIDE DEF Goal
  <2>2. ASSUME NEW e \in People, LoadUser(q, e) PROVE Goal
    <3>1. PICK i \in Rows :
            \/ Begin(q, [Idle EXCEPT !.pc = "right", !.user = i, !.role = role[i]])
            \/ Begin(q, [Idle EXCEPT !.pc = "wrong", !.user = i, !.fails = fails[i]])
      BY <2>2 DEF LoadUser
    <3>2. CASE Begin(q, [Idle EXCEPT !.pc = "right", !.user = i, !.role = role[i]])
      <4> DEFINE n == [Idle EXCEPT !.pc = "right", !.user = i, !.role = role[i]]
      <4>1. n.pc = "right"
        BY DEF Idle
      <4>2. Begin(q, n)
        BY <3>2
      <4> HIDE DEF n
      <4> QED
        BY <2>1, <4>1, <4>2
    <3>3. CASE Begin(q, [Idle EXCEPT !.pc = "wrong", !.user = i, !.fails = fails[i]])
      <4> DEFINE n == [Idle EXCEPT !.pc = "wrong", !.user = i, !.fails = fails[i]]
      <4>1. n.user = i /\ n.fails = fails[i] /\ i \in Ids
        BY DEF Idle, Rows
      <4>2. Begin(q, n)
        BY <3>3
      <4> HIDE DEF n
      <4> QED
        BY <2>1, <4>1, <4>2
    <3> QED
      BY <3>1, <3>2, <3>3
  <2>3. ASSUME NEW e \in People, BeginSetup(q, e) PROVE Goal
    <3> DEFINE n == [Idle EXCEPT !.pc = "insert", !.mail = e, !.role = "system_admin"]
    <3>1. n.pc = "insert" /\ Begin(q, n)
      BY <2>3 DEF BeginSetup, Idle
    <3> HIDE DEF n
    <3> QED
      BY <2>1, <3>1
  <2>4. ASSUME NEW e \in People, BeginRegister(q, e) PROVE Goal
    <3> DEFINE n == [Idle EXCEPT !.pc = "insert", !.mail = e]
    <3>1. n.pc = "insert" /\ Begin(q, n)
      BY <2>4 DEF BeginRegister, Idle
    <3> HIDE DEF n
    <3> QED
      BY <2>1, <3>1
  <2>5. ASSUME NEW r \in Remotes, BeginCallback(q, r) PROVE Goal
    <3> DEFINE n == [Idle EXCEPT !.pc = "me", !.remote = r]
    <3>1. n.pc = "me" /\ Begin(q, n)
      BY <2>5 DEF BeginCallback, Idle
    <3> HIDE DEF n
    <3> QED
      BY <2>1, <3>1
  <2>6. ASSUME BeginAdmin(q) PROVE Goal
    <3> DEFINE n == [Idle EXCEPT !.pc = "admin"]
    <3>1. n.pc = "admin" /\ Begin(q, n)
      BY <2>6 DEF BeginAdmin, Idle
    <3> HIDE DEF n
    <3> QED
      BY <2>1, <3>1
  <2> QED
    BY <1>2, <2>2, <2>3, <2>4, <2>5, <2>6 DEF Arrive
<1>3. CASE Outside \/ UNCHANGED vars
  BY <1>3 DEF Outside, LockEnds, EndSession, vars
<1>4. CASE Crash
  BY <1>4, IdleIsRequest DEF Crash
<1> QED
  BY <1>1, <1>2, <1>3, <1>4 DEF Next

\* What a step makes of the count of a user.
LEMMA CountOfStep ==
    ASSUME IInv, [Next]_vars, NEW i \in Rows, fails'[i] # fails[i]
    PROVE  \E q \in Requests :
              \/ PasswordRight(q) /\ req[q].user = i
              \/ /\ req[q].pc = "wrong" /\ req[q].user = i
                 /\ fails'[i] = Threshold \/ fails'[i] = req[q].fails + 1
<1>0. /\ req \in [Requests -> Request] /\ fails \in [Ids -> 0..Threshold] /\ i \in Ids
      /\ email[i] # None
  BY DEF IInv, TypeOK, Rows
<1>1. CASE \E q \in Requests : InsertUser(q)
  BY <1>0, <1>1 DEF InsertUser, Insert, users
<1>2. CASE \E q \in Requests, k \in Ids, e \in Emails, r \in Roles : CreateUser(q, k, e, r)
  BY <1>0, <1>2 DEF CreateUser, Insert
<1>3. ASSUME NEW q \in Requests, PasswordRight(q)
      PROVE  PasswordRight(q) /\ req[q].user = i
  BY <1>0, <1>3 DEF PasswordRight
<1>4. ASSUME NEW q \in Requests, PasswordWrong(q)
      PROVE  /\ req[q].pc = "wrong" /\ req[q].user = i
             /\ fails'[i] = Threshold \/ fails'[i] = req[q].fails + 1
  <2>1. /\ req[q].pc = "wrong"
        /\ \/ fails' = [fails EXCEPT ![req[q].user] =
                          IF req[q].fails + 1 < Threshold THEN req[q].fails + 1 ELSE Threshold]
           \/ fails' = fails
    BY <1>4 DEF PasswordWrong, CountFailure
  <2> QED
    BY <1>0, <2>1
<1>5. CASE \E q \in Requests : \/ CreateSession(q) \/ MeAnswers(q) \/ FindIdentity(q)
                               \/ FindEmail(q) \/ LinkIdentity(q)
  BY <1>5 DEF CreateSession, MeAnswers, FindIdentity, FindEmail, LinkIdentity, users
<1>6. CASE \E q \in Requests : \/ AdminFails(q)
                               \/ \E k \in Ids, r \in Roles, off, s \in BOOLEAN : PatchUser(q, k, r, off, s)
  BY <1>6 DEF AdminFails, PatchUser, users
<1>7. CASE \E q \in Requests : Arrive(q)
  BY <1>7 DEF Arrive, BeginSetup, BeginRegister, LoadUser, BeginCallback, BeginAdmin, users
<1>8. CASE Outside \/ Crash \/ UNCHANGED vars
  BY <1>8 DEF Outside, LockEnds, EndSession, Crash, vars, users
<1> QED
  BY <1>1, <1>2, <1>3, <1>4, <1>5, <1>6, <1>7, <1>8 DEF Next, Handle, AdminStep

\* A failed sign-in never makes up for one that came before it.
THEOREM FailuresAreKept == Spec => FailuresNotForgotten
<1>1. ASSUME IInv, [Next]_vars, NEW i \in Rows, NEW n \in 0..Threshold, Known(i, n),
             ~ \E q \in Requests : PasswordRight(q) /\ req[q].user = i
      PROVE  Known(i, n)'
  <2>0. /\ req \in [Requests -> Request] /\ fails \in [Ids -> 0..Threshold] /\ i \in Ids
        /\ fails[i] \in 0..Threshold /\ fails[i] >= n
        /\ \A q \in Requests : req[q].fails \in 0..Threshold
    BY <1>1, SameFields DEF IInv, TypeOK, Rows, Known
  <2>1. fails'[i] >= n
    <3>1. CASE fails'[i] = fails[i]
      BY <2>0, <3>1
    <3>2. CASE fails'[i] # fails[i]
      <4>1. PICK q \in Requests : /\ req[q].pc = "wrong" /\ req[q].user = i
                                  /\ fails'[i] = Threshold \/ fails'[i] = req[q].fails + 1
        BY <1>1, <3>2, CountOfStep
      <4>2. req[q].fails >= n
        BY <1>1, <4>1 DEF Known
      <4> QED
        BY <2>0, <4>1, <4>2, ThresholdAssumption
    <3> QED
      BY <3>1, <3>2
  <2>2. ASSUME NEW p \in Requests, req'[p].pc = "wrong", req'[p].user = i
        PROVE  req'[p].fails >= n
    BY <1>1, <2>0, <2>2, FailureWasRead DEF Known
  <2> QED
    BY <2>1, <2>2 DEF Known
<1> DEFINE Step == \A i \in Rows, n \in 0..Threshold :
                      Known(i, n) /\ ~ (\E q \in Requests : PasswordRight(q) /\ req[q].user = i)
                         => Known(i, n)'
<1>2. IInv /\ [Next]_vars => [Step]_vars
  BY <1>1
<1> HIDE DEF Step
<1>3. Spec => [][Step]_vars
  BY <1>2, Invariant, PTL DEF Spec
<1> QED
  BY <1>3 DEF FailuresNotForgotten, Step
=============================================================================
