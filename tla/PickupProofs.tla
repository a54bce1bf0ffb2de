---------------------------- MODULE PickupProofs ----------------------------
(***************************************************************************)
(* Proofs about Pickup, for any files, shares, codes and requests.         *)
(***************************************************************************)
EXTENDS Pickup, TLAPS

-----------------------------------------------------------------------------
(* Requests *)

\* What TypeOK says of one request.
WellFormed(q) ==
    /\ q \in Request
    /\ q.pc \in {"shareFiles", "revoke"} => q.holder \in Shares
    /\ q.pc = "batchFiles" => q.holder \in Batches
    /\ q.pc = "serve" => q.holder \in Holders

\* A request knows only dead holders that are still dead, since nothing is
\* revived, and the holder it has found was none of them.
Fair(q) ==
    /\ q.dead \subseteq Dead
    /\ q.pc \in {"batchFiles", "shareFiles", "serve"} => q.holder \notin q.dead

Good(q) == WellFormed(q) /\ Fair(q)

\* The invariant: requests are good, the other variables have their types and
\* the foreign key of pickup_share_files holds.
TablesOK ==
    /\ batches \subseteq Batches
    /\ row \in [Files -> {"none", "active", "hidden", "deleted"}]
    /\ code \in [Holders -> Codes \cup {None}]
    /\ links \in [Shares -> SUBSET Files]
    /\ expired \subseteq Holders
    /\ stamp \in [Shares -> Requests \cup {None}]

RequestsOK == req \in [Requests -> Request] /\ \A r \in Requests : Good(req[r])

IInv == TablesOK /\ RequestsOK /\ SharesNameFiles

LEMMA IInvImplies == IInv => TypeOK /\ SharesNameFiles /\ DeadCodesServeNothing
BY DEF IInv, TablesOK, RequestsOK, Good, WellFormed, Fair, TypeOK, DeadCodesServeNothing

LEMMA IdleIsGood == Good(Idle)
<1>1. Idle \in Request
  BY TriesAssumption DEF Idle, Request
<1>2. Idle.pc = "idle" /\ Idle.dead = {}
  BY DEF Idle
<1> QED
  BY <1>1, <1>2 DEF Good, WellFormed, Fair

LEMMA IInvInit == Init => IInv
<1> SUFFICES ASSUME Init PROVE IInv
  OBVIOUS
<1>1. RequestsOK
  BY IdleIsGood DEF Init, RequestsOK, Good, WellFormed
<1> QED
  BY <1>1 DEF Init, IInv, TablesOK, SharesNameFiles

\* A request that is given a good record, while nothing that is dead revives.
LEMMA OneRequest ==
    ASSUME RequestsOK, Dead \subseteq Dead', NEW r \in Requests, NEW q \in Request,
           req' = [req EXCEPT ![r] = q],
           WellFormed(q), q.dead \subseteq Dead,
           q.pc \in {"batchFiles", "shareFiles", "serve"} => q.holder \notin q.dead
    PROVE  RequestsOK'
<1>1. req' \in [Requests -> Request]
  BY DEF RequestsOK
<1>2. ASSUME NEW p \in Requests
      PROVE  /\ WellFormed(req'[p])
             /\ req'[p].dead \subseteq Dead'
             /\ req'[p].pc \in {"batchFiles", "shareFiles", "serve"}
                    => req'[p].holder \notin req'[p].dead
  <2>1. CASE p = r
    <3>1. req'[p] = q
      BY <2>1 DEF RequestsOK
    <3> QED
      BY <3>1
  <2>2. CASE p # r
    <3>1. req'[p] = req[p]
      BY <2>2 DEF RequestsOK
    <3> QED
      BY <3>1 DEF RequestsOK, Good, Fair
  <2> QED
    BY <2>1, <2>2
<1> QED
  BY <1>1, <1>2 DEF RequestsOK, Good, WellFormed, Fair

LEMMA RequestsKept ==
    ASSUME RequestsOK, Dead \subseteq Dead', UNCHANGED req
    PROVE  RequestsOK'
BY DEF RequestsOK, Good, WellFormed, Fair

LEMMA Answered ==
    ASSUME RequestsOK, Dead \subseteq Dead', NEW r \in Requests, Answer(r)
    PROVE  RequestsOK'
<1>1. req' = [req EXCEPT ![r] = Idle] /\ Idle.dead = {} /\ Idle.pc = "idle"
  BY DEF Answer, Idle
<1>2. WellFormed(Idle) /\ Idle \in Request
  BY IdleIsGood DEF Good, WellFormed
<1> QED
  BY <1>1, <1>2, OneRequest

-----------------------------------------------------------------------------
(* Steps that change files or time *)

LEMMA FileStepKeeps == IInv /\ FileStep => IInv'
<1> SUFFICES ASSUME IInv, FileStep PROVE IInv'
  OBVIOUS
<1> USE DEF IInv, uploads, shares
<1>1. ASSUME NEW b \in Batches, CreateBatch(b) PROVE IInv'
  <2>1. Dead' = Dead
    BY <1>1 DEF CreateBatch, Dead
  <2>2. RequestsOK'
    BY <1>1, <2>1, RequestsKept DEF CreateBatch
  <2>3. TablesOK'
    BY <1>1 DEF CreateBatch, TablesOK, Holders
  <2> QED
    BY <1>1, <2>2, <2>3 DEF CreateBatch, SharesNameFiles, Rows
<1>2. ASSUME NEW f \in Files, CreateFile(f) PROVE IInv'
  <2>1. Dead' = Dead
    BY <1>2 DEF CreateFile, Dead
  <2>2. RequestsOK'
    BY <1>2, <2>1, RequestsKept DEF CreateFile
  <2>3. TablesOK'
    BY <1>2 DEF CreateFile, TablesOK
  <2> QED
    BY <1>2, <2>2, <2>3 DEF CreateFile, TablesOK, SharesNameFiles, Rows
<1>3. ASSUME NEW f \in Files, NEW s \in {"active", "hidden", "deleted"}, PatchAdmin(f, s)
      PROVE  IInv'
  <2>1. Dead' = Dead
    BY <1>3 DEF PatchAdmin, Dead
  <2>2. RequestsOK'
    BY <1>3, <2>1, RequestsKept DEF PatchAdmin
  <2>3. TablesOK'
    BY <1>3 DEF PatchAdmin, TablesOK
  <2> QED
    BY <1>3, <2>2, <2>3 DEF PatchAdmin, TablesOK, SharesNameFiles, Rows
<1>4. ASSUME NEW f \in Files, HardDelete(f) PROVE IInv'
  <2>1. Dead' = Dead
    BY <1>4 DEF HardDelete, Dead
  <2>2. RequestsOK'
    BY <1>4, <2>1, RequestsKept DEF HardDelete
  <2>3. TablesOK'
    BY <1>4 DEF HardDelete, TablesOK
  <2> QED
    BY <1>4, <2>2, <2>3 DEF HardDelete, TablesOK, SharesNameFiles, Rows
<1> QED
  BY <1>1, <1>2, <1>3, <1>4 DEF FileStep

LEMMA ExpireKeeps ==
    ASSUME IInv, NEW h \in Holders, Expire(h)
    PROVE  IInv'
<1> USE DEF IInv, uploads, shares
<1>1. Dead \subseteq Dead'
  BY DEF Expire, Dead
<1>2. RequestsOK'
  BY <1>1, RequestsKept DEF Expire
<1> QED
  BY <1>2 DEF Expire, TablesOK, SharesNameFiles, Rows

-----------------------------------------------------------------------------
(* Steps of requests *)

\* Such a step changes at most the request, a new share and a revocation.
LEMMA ArriveKeeps ==
    ASSUME IInv, NEW r \in Requests, Arrive(r)
    PROVE  IInv'
<1> USE DEF IInv, uploads, shares
<1>0. Idle \in Request
  BY IdleIsGood DEF Good, WellFormed
<1>1. UNCHANGED <<batches, row, code, links, expired, stamp>>
  BY DEF Arrive, BeginShare, BeginPickup, BeginRevoke
<1>2. Dead' = Dead
  BY <1>1 DEF Dead
<1>3. ASSUME NEW S \in SUBSET Files, BeginShare(r, S) PROVE RequestsOK'
  <2> DEFINE q == [Idle EXCEPT !.pc = "check", !.todo = S]
  <2>1. q \in Request /\ q.pc = "check" /\ q.dead = {}
    <3>1. q \in Request
      BY <1>0 DEF Request
    <3>2. q.pc = "check" /\ q.dead = {}
      BY DEF Idle
    <3> QED
      BY <3>1, <3>2
  <2>2. req' = [req EXCEPT ![r] = q]
    BY <1>3 DEF BeginShare, Start
  <2> HIDE DEF q
  <2> QED
    BY <1>2, <2>1, <2>2, OneRequest DEF WellFormed
<1>4. ASSUME NEW c \in Codes, BeginPickup(r, c) PROVE RequestsOK'
  <2> DEFINE q == [Idle EXCEPT !.pc = "batch", !.code = c, !.dead = Dead]
  <2>1. Dead \subseteq Holders
    BY DEF Dead, TablesOK, Holders
  <2>2. q \in Request /\ q.pc = "batch" /\ q.dead = Dead
    <3>1. q \in Request
      BY <2>1, <1>0 DEF Request
    <3>2. q.pc = "batch" /\ q.dead = Dead
      BY DEF Idle
    <3> QED
      BY <3>1, <3>2
  <2>3. req' = [req EXCEPT ![r] = q]
    BY <1>4 DEF BeginPickup, Start
  <2> HIDE DEF q
  <2> QED
    BY <1>2, <2>2, <2>3, OneRequest DEF WellFormed
<1>5. ASSUME NEW c \in Codes, BeginRevoke(r, c) PROVE RequestsOK'
  <2> DEFINE q == [Idle EXCEPT !.pc = "find", !.code = c]
  <2>1. q \in Request /\ q.pc = "find" /\ q.dead = {}
    <3>1. q \in Request
      BY <1>0 DEF Request
    <3>2. q.pc = "find" /\ q.dead = {}
      BY DEF Idle
    <3> QED
      BY <3>1, <3>2
  <2>2. req' = [req EXCEPT ![r] = q]
    BY <1>5 DEF BeginRevoke, Start
  <2> HIDE DEF q
  <2> QED
    BY <1>2, <2>1, <2>2, OneRequest DEF WellFormed
<1>6. RequestsOK'
  BY <1>3, <1>4, <1>5 DEF Arrive
<1> QED
  BY <1>1, <1>6 DEF TablesOK, SharesNameFiles, Rows

LEMMA ShareStepKeeps ==
    ASSUME IInv, NEW r \in Requests, ShareStep(r)
    PROVE  IInv'
<1> USE DEF IInv, uploads, shares
<1>1. UNCHANGED <<batches, row, expired, stamp>>
  BY DEF ShareStep, CheckFile, NothingToShare, CreateShare, RetryShare
<1>2. Dead' = Dead
  BY <1>1 DEF Dead
<1>3. req \in [Requests -> Request] /\ req[r] \in Request /\ req[r].dead \subseteq Dead
  BY DEF RequestsOK, Good, Fair
<1>4. ASSUME NEW f \in Files, CheckFile(r, f) PROVE RequestsOK'
  <2>1. ASSUME NEW found \in SUBSET {f},
               req' = [req EXCEPT ![r] = [@ EXCEPT
                         !.todo = req[r].todo \ {f}, !.files = req[r].files \cup found]]
        PROVE  RequestsOK'
    <3> DEFINE q == [req[r] EXCEPT !.todo = req[r].todo \ {f},
                                   !.files = req[r].files \cup found]
    <3>1. q \in Request
      BY <1>3 DEF Request
    <3>2. q.pc = "check" /\ q.dead = req[r].dead
      BY <1>3, <1>4 DEF CheckFile, Request
    <3>3. req' = [req EXCEPT ![r] = q]
      BY <2>1
    <3> HIDE DEF q
    <3> QED
      BY <1>2, <1>3, <3>1, <3>2, <3>3, OneRequest DEF WellFormed
  <2>2. CASE Answer(r)
    BY <1>2, <2>2, Answered
  <2> QED
    BY <1>4, <2>1, <2>2 DEF CheckFile
<1>5. ASSUME RetryShare(r) PROVE RequestsOK'
  <2> DEFINE q == [req[r] EXCEPT !.tries = @ + 1]
  <2>1. CASE req[r].tries + 1 < Tries /\ req' = [req EXCEPT ![r].tries = @ + 1]
    <3>1. q \in Request
      BY <1>3, <2>1, TriesAssumption DEF Request
    <3>2. q.pc = "check" /\ q.dead = req[r].dead
      BY <1>3, <1>5 DEF RetryShare, Checked, Request
    <3>3. req' = [req EXCEPT ![r] = q]
      BY <1>5, <2>1 DEF RetryShare
    <3> HIDE DEF q
    <3> QED
      BY <1>2, <1>3, <3>1, <3>2, <3>3, OneRequest DEF WellFormed
  <2>2. CASE Answer(r)
    BY <1>2, <2>2, Answered
  <2> QED
    BY <1>5, <2>1, <2>2 DEF RetryShare
<1>6. CASE \E f \in Files : CheckFile(r, f)
  BY <1>1, <1>4, <1>6 DEF CheckFile, TablesOK, SharesNameFiles, Rows
<1>7. CASE NothingToShare(r)
  <2>1. RequestsOK'
    BY <1>2, <1>7, Answered DEF NothingToShare
  <2> QED
    BY <1>7, <2>1 DEF NothingToShare, TablesOK, SharesNameFiles, Rows
<1>8. CASE RetryShare(r)
  BY <1>1, <1>5, <1>8 DEF RetryShare, TablesOK, SharesNameFiles, Rows
<1>9. ASSUME NEW s \in Shares, NEW c \in Codes, CreateShare(r, s, c) PROVE IInv'
  <2>1. RequestsOK'
    BY <1>2, <1>9, Answered DEF CreateShare
  <2>2. req[r].files \subseteq Rows /\ req[r].files \subseteq Files
    BY <1>3, <1>9 DEF CreateShare, Request
  <2>3. TablesOK'
    BY <1>9, <2>2 DEF CreateShare, TablesOK, Holders
  <2>4. SharesNameFiles'
    BY <1>9, <2>2 DEF CreateShare, TablesOK, SharesNameFiles, Rows
  <2> QED
    BY <2>1, <2>3, <2>4
<1> QED
  BY <1>6, <1>7, <1>8, <1>9 DEF ShareStep

LEMMA CodeStepKeeps ==
    ASSUME IInv, NEW r \in Requests, CodeStep(r)
    PROVE  IInv'
<1> USE DEF IInv, uploads, shares
<1> DEFINE found == req[r].holder
<1>1. UNCHANGED <<batches, row, code, links, expired>>
  BY DEF CodeStep, LookupBatch, ListBatch, LookupShare, ListShare, Serve, Revoke
<1>2. req \in [Requests -> Request] /\ req[r] \in Request
  BY DEF RequestsOK
<1>3. req[r].dead \subseteq Dead
      /\ (req[r].pc \in {"batchFiles", "shareFiles", "serve"} => found \notin req[r].dead)
      /\ (req[r].pc \in {"shareFiles", "revoke"} => found \in Shares)
      /\ (req[r].pc = "batchFiles" => found \in Batches)
  BY DEF RequestsOK, Good, WellFormed, Fair
<1>4. ASSUME Revoke(r) PROVE IInv'
  <2>1. found \in Shares /\ r # None
    BY <1>3, <1>4, PickupNoneAssumption DEF Revoke
  <2>2. Dead \subseteq Dead'
    BY <1>4, <1>1, <2>1, PickupNoneAssumption DEF Revoke, Dead, TablesOK
  <2>3. RequestsOK'
    BY <1>4, <2>2, Answered DEF Revoke
  <2>4. TablesOK'
    BY <1>4, <1>1, <2>1 DEF Revoke, TablesOK
  <2> QED
    BY <1>1, <2>3, <2>4 DEF SharesNameFiles, Rows
<1>5. ASSUME UNCHANGED stamp, RequestsOK' PROVE IInv'
  BY <1>1, <1>5 DEF TablesOK, SharesNameFiles, Rows
<1>6. ASSUME UNCHANGED stamp PROVE Dead' = Dead
  BY <1>1, <1>6 DEF Dead
<1>7. ASSUME UNCHANGED stamp, NEW pc \in {"share"}, req' = [req EXCEPT ![r].pc = pc]
      PROVE  RequestsOK'
  <2> DEFINE q == [req[r] EXCEPT !.pc = pc]
  <2>1. q \in Request /\ q.pc = "share" /\ q.dead = req[r].dead
    BY <1>2 DEF Request
  <2>2. req' = [req EXCEPT ![r] = q]
    BY <1>7
  <2> HIDE DEF q
  <2> QED
    BY <1>3, <1>6, <1>7, <2>1, <2>2, OneRequest DEF WellFormed
<1>8. CASE LookupBatch(r)
  <2>1. ASSUME NEW b \in Found(req[r].code, Batches) \ expired,
               req' = [req EXCEPT ![r].pc = "batchFiles", ![r].holder = b]
        PROVE  RequestsOK'
    <3> DEFINE q == [req[r] EXCEPT !.pc = "batchFiles", !.holder = b]
    <3>1. b \in Batches /\ b \notin Dead
      BY <2>1, HoldersAssumption DEF Found, Dead
    <3>2. q \in Request /\ q.pc = "batchFiles" /\ q.dead = req[r].dead /\ q.holder = b
      BY <1>2, <3>1 DEF Request, Holders
    <3>3. req' = [req EXCEPT ![r] = q]
      BY <2>1
    <3> HIDE DEF q
    <3> QED
      BY <1>3, <1>6, <1>8, <3>1, <3>2, <3>3, OneRequest DEF WellFormed, LookupBatch
  <2> QED
    BY <1>5, <1>7, <1>8, <2>1 DEF LookupBatch
<1>9. CASE LookupShare(r)
  <2>1. ASSUME NEW s \in Found(req[r].code, Shares) \ Dead,
               NEW pc \in {"shareFiles", "revoke"},
               req' = [req EXCEPT ![r].holder = s, ![r].pc = pc]
        PROVE  RequestsOK'
    <3> DEFINE q == [req[r] EXCEPT !.holder = s, !.pc = pc]
    <3>1. s \in Shares /\ s \notin Dead
      BY <2>1 DEF Found
    <3>2. q \in Request /\ q.pc = pc /\ q.dead = req[r].dead /\ q.holder = s
      BY <1>2, <3>1 DEF Request, Holders
    <3>3. req' = [req EXCEPT ![r] = q]
      BY <2>1
    <3> HIDE DEF q
    <3> QED
      BY <1>3, <1>6, <1>9, <3>1, <3>2, <3>3, OneRequest DEF WellFormed, LookupShare
  <2>2. CASE Answer(r)
    BY <1>5, <1>6, <1>9, <2>2, Answered DEF LookupShare
  <2> QED
    BY <1>2, <1>5, <1>9, <2>1, <2>2 DEF LookupShare
<1>10. ASSUME NEW S \in SUBSET Files, UNCHANGED stamp,
              req[r].pc \in {"batchFiles", "shareFiles"},
              req' = [req EXCEPT ![r].pc = "serve", ![r].files = S]
       PROVE  RequestsOK'
  <2> DEFINE q == [req[r] EXCEPT !.pc = "serve", !.files = S]
  <2>1. q \in Request /\ q.pc = "serve" /\ q.dead = req[r].dead /\ q.holder = found
    BY <1>2 DEF Request
  <2>2. req' = [req EXCEPT ![r] = q]
    BY <1>10
  <2>3. found \in Holders
    BY <1>3, <1>10 DEF Holders
  <2> HIDE DEF q
  <2> QED
    BY <1>3, <1>6, <1>10, <2>1, <2>2, <2>3, OneRequest DEF WellFormed
<1>11. CASE ListBatch(r)
  <2> DEFINE S == {f \in Files : Visible(f) /\ BatchOf[f] = req[r].holder}
  <2>1. S \in SUBSET Files
    OBVIOUS
  <2> QED
    BY <1>5, <1>7, <1>10, <1>11, <2>1 DEF ListBatch
<1>12. CASE ListShare(r)
  <2> DEFINE S == {f \in links[req[r].holder] : Visible(f)}
  <2>1. S \in SUBSET Files
    BY <1>3, <1>12 DEF ListShare, TablesOK
  <2>2. CASE Answer(r)
    BY <1>5, <1>6, <1>12, <2>2, Answered DEF ListShare
  <2> QED
    BY <1>5, <1>10, <1>12, <2>1, <2>2 DEF ListShare
<1>13. CASE Serve(r)
  BY <1>5, <1>6, <1>13, Answered DEF Serve
<1> QED
  BY <1>4, <1>8, <1>9, <1>11, <1>12, <1>13 DEF CodeStep

LEMMA CrashKeeps == IInv /\ Crash => IInv'
<1> SUFFICES ASSUME IInv, Crash PROVE IInv'
  OBVIOUS
<1>1. Dead' = Dead /\ Rows' = Rows
  BY DEF Crash, Dead, Rows, uploads
<1>2. RequestsOK'
  BY <1>1, IdleIsGood DEF Crash, RequestsOK, Good, WellFormed, Fair, Idle
<1> QED
  BY <1>1, <1>2 DEF IInv, Crash, TablesOK, SharesNameFiles, uploads, shares

LEMMA IInvNext == IInv /\ [Next]_vars => IInv'
<1> SUFFICES ASSUME IInv, [Next]_vars PROVE IInv'
  OBVIOUS
<1>1. CASE UNCHANGED vars
  <2>1. Dead' = Dead /\ Rows' = Rows
    BY <1>1 DEF vars, Dead, Rows
  <2> QED
    BY <1>1, <2>1, RequestsKept DEF vars, IInv, TablesOK, SharesNameFiles
<1> QED
  BY <1>1, FileStepKeeps, ExpireKeeps, ArriveKeeps, ShareStepKeeps, CodeStepKeeps,
     CrashKeeps DEF Next

LEMMA InductiveInvariant == Spec => []IInv
BY IInvInit, IInvNext, PTL DEF Spec

-----------------------------------------------------------------------------
(* Theorems *)

\* Type correctness of the pickup codes.
THEOREM TypeCorrect == Spec => []TypeOK
BY IInvImplies, InductiveInvariant, PTL

\* Shares name only files of the table, whoever deletes what meanwhile.
THEOREM SharedFilesExist == Spec => []SharesNameFiles
BY IInvImplies, InductiveInvariant, PTL

\* A code that is dead when a request arrives serves that request nothing.
THEOREM DeadCodesAreDead == Spec => []DeadCodesServeNothing
BY IInvImplies, InductiveInvariant, PTL

-----------------------------------------------------------------------------
(* What a step may do to shares and revocations *)

\* Most steps leave shares alone.
LEMMA OtherSteps ==
    ASSUME IInv, [Next]_vars
    PROVE  \/ UNCHANGED <<row, code, links>>
           \/ \E b \in Batches : CreateBatch(b)
           \/ \E f \in Files : CreateFile(f) \/ HardDelete(f)
           \/ \E f \in Files, s \in {"active", "hidden", "deleted"} : PatchAdmin(f, s)
           \/ \E r \in Requests, s \in Shares, c \in Codes : CreateShare(r, s, c)
<1> USE DEF uploads, shares
<1>1. ASSUME NEW r \in Requests, Arrive(r) PROVE UNCHANGED <<row, code, links>>
  BY <1>1 DEF Arrive, BeginShare, BeginPickup, BeginRevoke
<1>2. ASSUME NEW r \in Requests, CodeStep(r) PROVE UNCHANGED <<row, code, links>>
  BY <1>2 DEF CodeStep, LookupBatch, ListBatch, LookupShare, ListShare, Serve, Revoke
<1>3. ASSUME NEW r \in Requests, ShareStep(r),
             ~ \E s \in Shares, c \in Codes : CreateShare(r, s, c)
      PROVE  UNCHANGED <<row, code, links>>
  BY <1>3 DEF ShareStep, CheckFile, NothingToShare, RetryShare
<1>4. ASSUME NEW h \in Holders, Expire(h) PROVE UNCHANGED <<row, code, links>>
  BY <1>4 DEF Expire
<1>5. Crash \/ UNCHANGED vars => UNCHANGED <<row, code, links>>
  BY DEF Crash, vars
<1> QED
  BY <1>1, <1>2, <1>3, <1>4, <1>5 DEF Next, FileStep

LEMMA SharesStep ==
    ASSUME IInv, [Next]_vars, NEW s \in Shares
    PROVE  /\ code[s] = None /\ code'[s] # None =>
                 \E r \in Requests : Checked(r) /\ links'[s] = req[r].files
           /\ code[s] # None => links'[s] = links[s] \cap Rows'
<1> DEFINE Fits == /\ code[s] = None /\ code'[s] # None =>
                         \E r \in Requests : Checked(r) /\ links'[s] = req[r].files
                   /\ code[s] # None => links'[s] = links[s] \cap Rows'
<1> USE DEF IInv, uploads, shares
<1>0. links[s] \subseteq Rows /\ links[s] \subseteq Files
  BY DEF SharesNameFiles, TablesOK
<1>1. CASE UNCHANGED <<row, code, links>>
  BY <1>0, <1>1 DEF Rows
<1>2. ASSUME NEW b \in Batches, CreateBatch(b) PROVE Fits
  <2>1. b # s /\ code \in [Holders -> Codes \cup {None}] /\ s \in Holders
    BY HoldersAssumption DEF TablesOK, Holders
  <2>2. code' = code \/ \E c \in Codes : code' = [code EXCEPT ![b] = c]
    BY <1>2 DEF CreateBatch
  <2>3. code'[s] = code[s]
    BY <2>1, <2>2
  <2> QED
    BY <1>0, <1>2, <2>3 DEF CreateBatch, Rows
<1>3. ASSUME NEW f \in Files, CreateFile(f) PROVE Fits
  BY <1>0, <1>3 DEF CreateFile, Rows, TablesOK
<1>4. ASSUME NEW f \in Files, HardDelete(f) PROVE Fits
  <2>1. Rows' = Rows \ {f}
    BY <1>4 DEF HardDelete, Rows, TablesOK
  <2> QED
    BY <1>0, <1>4, <2>1 DEF HardDelete, TablesOK
<1>5. ASSUME NEW f \in Files, NEW t \in {"active", "hidden", "deleted"}, PatchAdmin(f, t)
      PROVE  Fits
  BY <1>0, <1>5 DEF PatchAdmin, Rows, TablesOK
<1>6. ASSUME NEW r \in Requests, NEW t \in Shares, NEW c \in Codes, CreateShare(r, t, c)
      PROVE  Fits
  <2>1. CASE t = s
    <3>1. links'[s] = req[r].files /\ Checked(r) /\ code[s] = None
      BY <1>6, <2>1 DEF CreateShare, TablesOK
    <3> QED
      BY <3>1
  <2>2. CASE t # s
    <3>1. code'[s] = code[s] /\ links'[s] = links[s] /\ Rows' = Rows
      BY <1>6, <2>2 DEF CreateShare, Rows, TablesOK
    <3> QED
      BY <1>0, <3>1
  <2> QED
    BY <2>1, <2>2
<1> QED
  BY <1>1, <1>2, <1>3, <1>4, <1>5, <1>6, OtherSteps

\* A share comes whole and loses a file only with that file's row.
THEOREM SharesAreWhole == Spec => SharesStayWhole
<1> DEFINE Whole ==
       \A s \in Shares :
          /\ code[s] = None /\ code'[s] # None =>
                \E r \in Requests : Checked(r) /\ links'[s] = req[r].files
          /\ code[s] # None => links'[s] = links[s] \cap Rows'
<1>1. IInv /\ [Next]_vars => [Whole]_vars
  BY SharesStep
<1> QED
  BY <1>1, InductiveInvariant, PTL DEF Spec, SharesStayWhole

LEMMA StampStep ==
    ASSUME IInv, [Next]_vars, NEW s \in Shares, stamp[s] # None
    PROVE  stamp'[s] = stamp[s]
<1> USE DEF uploads, shares
<1>1. ASSUME NEW r \in Requests, Revoke(r) PROVE stamp'[s] = stamp[s]
  <2>1. stamp \in [Shares -> Requests \cup {None}]
    BY DEF IInv, TablesOK
  <2> QED
    BY <1>1, <2>1 DEF Revoke
<1>2. ASSUME NEW r \in Requests, CodeStep(r), ~ Revoke(r) PROVE UNCHANGED stamp
  BY <1>2 DEF CodeStep, LookupBatch, ListBatch, LookupShare, ListShare, Serve
<1>3. ASSUME NEW r \in Requests, Arrive(r) \/ ShareStep(r) PROVE UNCHANGED stamp
  BY <1>3 DEF Arrive, BeginShare, BeginPickup, BeginRevoke,
              ShareStep, CheckFile, NothingToShare, CreateShare, RetryShare
<1>4. FileStep \/ (\E h \in Holders : Expire(h)) \/ Crash \/ UNCHANGED vars
         => UNCHANGED stamp
  BY DEF FileStep, CreateBatch, CreateFile, HardDelete, PatchAdmin, Expire, Crash, vars
<1> QED
  BY <1>1, <1>2, <1>3, <1>4 DEF Next

\* The first of several revocations decides revoked_at for good.
THEOREM RevocationsAreFinal == Spec => FirstRevocationStays
<1> DEFINE Final == \A s \in Shares : stamp[s] # None => stamp'[s] = stamp[s]
<1>1. IInv /\ [Next]_vars => [Final]_vars
  BY StampStep
<1> QED
  BY <1>1, InductiveInvariant, PTL DEF Spec, FirstRevocationStays

-----------------------------------------------------------------------------
(* The steps of one request *)

\* What a request that is under way may do to its own record.
Moves(r) ==
    /\ req[r].pc # "idle"
    /\ \/ req'[r].pc = "idle"
       \/ /\ req[r].pc = "check" /\ req'[r].pc = "check"
          /\ \/ /\ req'[r].todo \subseteq req[r].todo /\ req'[r].todo # req[r].todo
                /\ req'[r].tries = req[r].tries
             \/ /\ req'[r].todo = req[r].todo
                /\ req'[r].tries = req[r].tries + 1 /\ req'[r].tries < Tries
       \/ /\ req'[r].code = req[r].code
          /\ \/ /\ req[r].pc = "batch" /\ req'[r].pc = "batchFiles"
                /\ req'[r].holder \in Found(req[r].code, Batches)
             \/ req[r].pc \in {"batch", "batchFiles"} /\ req'[r].pc = "share"
             \/ /\ <<req[r].pc, req'[r].pc>> \in {<<"share", "shareFiles">>, <<"find", "revoke">>}
                /\ req'[r].holder \in Found(req[r].code, Shares)
             \/ /\ req[r].pc \in {"batchFiles", "shareFiles"} /\ req'[r].pc = "serve"
                /\ req'[r].holder = req[r].holder
                /\ req[r].pc = "batchFiles" =>
                      \A f \in req'[r].files : BatchOf[f] = req[r].holder

LEMMA StepMoves ==
    ASSUME IInv, NEW r \in Requests, ShareStep(r) \/ CodeStep(r)
    PROVE  Moves(r) /\ \A q \in Requests \ {r} : req'[q] = req[q]
<1> DEFINE Goal == Moves(r) /\ \A q \in Requests \ {r} : req'[q] = req[q]
<1> SUFFICES Goal
  OBVIOUS
<1>0. req \in [Requests -> Request] /\ req[r] \in Request
  BY DEF IInv, RequestsOK
<1>1. ASSUME req[r].pc # "idle", Answer(r) PROVE Goal
  <2>1. req'[r] = Idle /\ \A q \in Requests \ {r} : req'[q] = req[q]
    BY <1>0, <1>1 DEF Answer
  <2> QED
    BY <1>1, <2>1 DEF Idle, Moves
<1>2. ASSUME NEW f \in Files, CheckFile(r, f) PROVE Goal
  <2>1. CASE Answer(r)
    BY <1>1, <1>2, <2>1 DEF CheckFile
  <2>2. CASE ~Answer(r)
    <3>0. PICK found \in SUBSET {g \in {f} : Visible(g)} :
             req' = [req EXCEPT ![r] = [@ EXCEPT
                       !.todo = req[r].todo \ {f}, !.files = req[r].files \cup found]]
      BY <1>2, <2>2 DEF CheckFile
    <3> DEFINE n == [req[r] EXCEPT !.todo = req[r].todo \ {f},
                                   !.files = req[r].files \cup found]
    <3>1. /\ req'[r] = n
          /\ req[r].pc = "check" /\ f \in req[r].todo
          /\ \A q \in Requests \ {r} : req'[q] = req[q]
      BY <1>0, <1>2, <3>0 DEF CheckFile
    <3>2. /\ req'[r].pc = "check" /\ req'[r].todo = req[r].todo \ {f}
          /\ req'[r].tries = req[r].tries
      BY <1>0, <3>1 DEF Request
    <3> HIDE DEF n
    <3> QED
      BY <3>1, <3>2 DEF Moves
  <2> QED
    BY <2>1, <2>2
<1>3. CASE RetryShare(r)
  <2>1. CASE Answer(r)
    BY <1>1, <1>3, <2>1 DEF RetryShare, Checked
  <2>2. CASE ~Answer(r)
    <3>1. /\ req'[r] = [req[r] EXCEPT !.tries = req[r].tries + 1]
          /\ req[r].pc = "check" /\ req[r].tries + 1 < Tries
          /\ \A q \in Requests \ {r} : req'[q] = req[q]
      BY <1>0, <1>3, <2>2 DEF RetryShare, Checked
    <3>2. /\ req'[r].pc = "check" /\ req'[r].todo = req[r].todo
          /\ req'[r].tries = req[r].tries + 1
      BY <1>0, <3>1 DEF Request
    <3> QED
      BY <3>1, <3>2 DEF Moves
  <2> QED
    BY <2>1, <2>2
<1>4. CASE LookupBatch(r)
  <2>1. ASSUME NEW b \in Found(req[r].code, Batches),
               req' = [req EXCEPT ![r].pc = "batchFiles", ![r].holder = b]
        PROVE  Goal
    <3>1. /\ req'[r] = [req[r] EXCEPT !.pc = "batchFiles", !.holder = b]
          /\ \A q \in Requests \ {r} : req'[q] = req[q]
      BY <1>0, <2>1
    <3>2. req'[r].pc = "batchFiles" /\ req'[r].holder = b /\ req'[r].code = req[r].code
      BY <1>0, <3>1 DEF Request
    <3> QED
      BY <1>4, <2>1, <3>1, <3>2 DEF LookupBatch, Moves
  <2>2. ASSUME req' = [req EXCEPT ![r].pc = "share"] PROVE Goal
    <3>1. /\ req'[r] = [req[r] EXCEPT !.pc = "share"]
          /\ \A q \in Requests \ {r} : req'[q] = req[q]
      BY <1>0, <2>2
    <3>2. req'[r].pc = "share" /\ req'[r].code = req[r].code
      BY <1>0, <3>1 DEF Request
    <3> QED
      BY <1>4, <3>1, <3>2 DEF LookupBatch, Moves
  <2> QED
    BY <1>4, <2>1, <2>2 DEF LookupBatch
<1>5. CASE ListBatch(r)
  <2> DEFINE S == {f \in Files : Visible(f) /\ BatchOf[f] = req[r].holder}
  <2>1. ASSUME req' = [req EXCEPT ![r].pc = "serve", ![r].files = S] PROVE Goal
    <3>0. \A f \in S : BatchOf[f] = req[r].holder
      OBVIOUS
    <3>1. /\ req'[r] = [req[r] EXCEPT !.pc = "serve", !.files = S]
          /\ \A q \in Requests \ {r} : req'[q] = req[q]
      BY <1>0, <2>1
    <3> HIDE DEF S
    <3>2. /\ req'[r].pc = "serve" /\ req'[r].holder = req[r].holder
          /\ req'[r].code = req[r].code /\ req'[r].files = S
      BY <1>0, <3>1 DEF Request
    <3> QED
      BY <1>5, <3>0, <3>1, <3>2 DEF ListBatch, Moves
  <2>2. ASSUME req' = [req EXCEPT ![r].pc = "share"] PROVE Goal
    <3>1. /\ req'[r] = [req[r] EXCEPT !.pc = "share"]
          /\ \A q \in Requests \ {r} : req'[q] = req[q]
      BY <1>0, <2>2
    <3>2. req'[r].pc = "share" /\ req'[r].code = req[r].code
      BY <1>0, <3>1 DEF Request
    <3> QED
      BY <1>5, <3>1, <3>2 DEF ListBatch, Moves
  <2> QED
    BY <1>5, <2>1, <2>2 DEF ListBatch
<1>6. CASE LookupShare(r)
  <2>1. ASSUME NEW s \in Found(req[r].code, Shares), NEW pc \in {"shareFiles", "revoke"},
               <<req[r].pc, pc>> \in {<<"share", "shareFiles">>, <<"find", "revoke">>},
               req' = [req EXCEPT ![r].holder = s, ![r].pc = pc]
        PROVE  Goal
    <3>1. /\ req'[r] = [req[r] EXCEPT !.holder = s, !.pc = pc]
          /\ \A q \in Requests \ {r} : req'[q] = req[q]
      BY <1>0, <2>1
    <3>2. req'[r].pc = pc /\ req'[r].holder = s /\ req'[r].code = req[r].code
      BY <1>0, <3>1 DEF Request
    <3> QED
      BY <2>1, <3>1, <3>2 DEF Moves
  <2>2. CASE Answer(r)
    BY <1>1, <1>6, <2>2 DEF LookupShare
  <2>3. CASE ~Answer(r)
    <3>1. PICK s \in Found(req[r].code, Shares) :
             req' = [req EXCEPT ![r].holder = s,
                        ![r].pc = IF @ = "share" THEN "shareFiles" ELSE "revoke"]
      BY <1>6, <2>3 DEF LookupShare
    <3>2. CASE req[r].pc = "share"
      <4>1. req' = [req EXCEPT ![r].holder = s, ![r].pc = "shareFiles"]
        BY <1>0, <3>1, <3>2 DEF Request
      <4> HIDE DEF Goal
      <4> QED
        BY <2>1, <3>2, <4>1
    <3>3. CASE req[r].pc = "find"
      <4>1. req' = [req EXCEPT ![r].holder = s, ![r].pc = "revoke"]
        BY <1>0, <3>1, <3>3 DEF Request
      <4> HIDE DEF Goal
      <4> QED
        BY <2>1, <3>3, <4>1
    <3> QED
      BY <1>6, <3>2, <3>3 DEF LookupShare
  <2> QED
    BY <2>2, <2>3
<1>7. CASE ListShare(r)
  <2> DEFINE S == {f \in links[req[r].holder] : Visible(f)}
  <2>1. ASSUME req' = [req EXCEPT ![r].pc = "serve", ![r].files = S] PROVE Goal
    <3>1. /\ req'[r] = [req[r] EXCEPT !.pc = "serve", !.files = S]
          /\ \A q \in Requests \ {r} : req'[q] = req[q]
      BY <1>0, <2>1
    <3> HIDE DEF S
    <3>2. /\ req'[r].pc = "serve" /\ req'[r].holder = req[r].holder
          /\ req'[r].code = req[r].code
      BY <1>0, <3>1 DEF Request
    <3> QED
      BY <1>7, <3>1, <3>2 DEF ListShare, Moves
  <2>2. CASE Answer(r)
    BY <1>1, <1>7, <2>2 DEF ListShare
  <2> QED
    BY <1>7, <2>1, <2>2 DEF ListShare
<1> HIDE DEF Goal
<1>8. CASE NothingToShare(r) \/ Serve(r) \/ Revoke(r)
  BY <1>1, <1>8 DEF NothingToShare, Checked, Serve, Revoke
<1>9. ASSUME NEW s \in Shares, NEW c \in Codes, CreateShare(r, s, c) PROVE Goal
  BY <1>1, <1>9 DEF CreateShare, Checked
<1> QED
  BY <1>2, <1>3, <1>4, <1>5, <1>6, <1>7, <1>8, <1>9 DEF ShareStep, CodeStep

-----------------------------------------------------------------------------
(* A code leads to one place                                                *)

\* No two batches have the same code, nor two shares; only anonymous uploads
\* have one.  A share may have the code of a batch: the two tables have an index
\* each.
CodesUnique ==
    /\ \A a, b \in Batches : code[a] = code[b] /\ code[a] # None => a = b
    /\ \A s, t \in Shares : code[s] = code[t] /\ code[s] # None => s = t
    /\ \A b \in Batches : code[b] # None => b \in Anonymous

\* A request that has found a holder found it by the code it was given; what it
\* lists of a batch is of that batch.
Follows(r) ==
    /\ req[r].pc \in {"batch", "share", "find"} => req[r].code # None
    /\ req[r].pc \in {"batchFiles", "shareFiles", "serve", "revoke"} =>
          req[r].code # None /\ code[req[r].holder] = req[r].code
    /\ req[r].pc = "serve" /\ req[r].holder \in Batches =>
          \A f \in req[r].files : BatchOf[f] = req[r].holder

CodesLead ==
    /\ CodesUnique
    /\ \A r \in Requests : Follows(r)

\* A code is given once and stays.
CodesStay == [][\A h \in Holders : code[h] # None => code'[h] = code[h]]_vars

\* Two pickups with one code never see two batches, or two shares.
OneCodeOnePlace ==
    \A q, r \in Requests :
       /\ req[q].pc = "serve" /\ req[r].pc = "serve" /\ req[q].code = req[r].code
       /\ {req[q].holder, req[r].holder} \subseteq Batches
             \/ {req[q].holder, req[r].holder} \subseteq Shares
       => req[q].holder = req[r].holder

\* A pickup that opens a batch opens the anonymous upload that was given its
\* code, never a signed-in user's.
PickupsOpenTheirBatch ==
    \A r \in Requests : req[r].pc = "serve" /\ req[r].holder \in Batches =>
       /\ req[r].holder \in Anonymous
       /\ code[req[r].holder] = req[r].code
       /\ \A f \in req[r].files : BatchOf[f] = req[r].holder

LEMMA CodesKept ==
    ASSUME IInv, CodesUnique, [Next]_vars,
           \A b \in Batches : code[b] # None => b \in batches
    PROVE  /\ CodesUnique'
           /\ \A b \in Batches : code'[b] # None => b \in batches'
           /\ \A h \in Holders : code[h] # None => code'[h] = code[h]
<1> USE DEF uploads, shares
<1>0. code \in [Holders -> Codes \cup {None}] /\ None \notin Codes
  BY PickupNoneAssumption DEF IInv, TablesOK
<1>1. CASE UNCHANGED <<code, batches>>
  BY <1>1 DEF CodesUnique
<1>2. ASSUME NEW b \in Batches, CreateBatch(b) PROVE code' = code
         \/ (b \in Anonymous /\ \E c \in Codes : Found(c, Batches) = {} /\ code' = [code EXCEPT ![b] = c])
  BY <1>2 DEF CreateBatch
<1>3. ASSUME NEW b \in Batches, CreateBatch(b), code' = code
      PROVE  /\ CodesUnique'
             /\ \A a \in Batches : code'[a] # None => a \in batches'
  BY <1>3 DEF CreateBatch, CodesUnique
<1>4. ASSUME NEW b \in Anonymous, NEW c \in Codes, CreateBatch(b), Found(c, Batches) = {},
             code' = [code EXCEPT ![b] = c]
      PROVE  /\ CodesUnique'
             /\ \A a \in Batches : code'[a] # None => a \in batches'
             /\ \A h \in Holders : code[h] # None => code'[h] = code[h]
  <2>1. b \in Batches /\ b \notin batches /\ batches' = batches \cup {b} /\ b \notin Shares
    BY <1>4, HoldersAssumption DEF CreateBatch
  <2>2. code[b] = None /\ code'[b] = c /\ \A h \in Holders \ {b} : code'[h] = code[h]
    BY <1>0, <1>4, <2>1 DEF Holders
  <2>3. \A a \in Batches : code[a] # c
    BY <1>4 DEF Found
  <2> QED
    BY <1>0, <2>1, <2>2, <2>3, HoldersAssumption DEF CodesUnique, Holders
<1>5. ASSUME NEW r \in Requests, NEW s \in Shares, NEW c \in Codes, CreateShare(r, s, c)
      PROVE  /\ CodesUnique'
             /\ \A a \in Batches : code'[a] # None => a \in batches'
             /\ \A h \in Holders : code[h] # None => code'[h] = code[h]
  <2>1. code[s] = None /\ code' = [code EXCEPT ![s] = c] /\ batches' = batches
    BY <1>5 DEF CreateShare
  <2>2. code'[s] = c /\ (\A h \in Holders \ {s} : code'[h] = code[h]) /\ s \notin Batches
    BY <1>0, <2>1, HoldersAssumption DEF Holders
  <2>3. \A t \in Shares : code[t] # c
    BY <1>5 DEF CreateShare, Found
  <2> QED
    BY <1>0, <2>1, <2>2, <2>3, HoldersAssumption DEF CodesUnique, Holders
<1>6. ASSUME NEW r \in Requests, Arrive(r) \/ CodeStep(r) PROVE UNCHANGED <<code, batches>>
  BY <1>6 DEF Arrive, BeginShare, BeginPickup, BeginRevoke, CodeStep, LookupBatch, ListBatch,
              LookupShare, ListShare, Serve, Revoke
<1>7. ASSUME NEW r \in Requests, ShareStep(r),
             ~ \E s \in Shares, c \in Codes : CreateShare(r, s, c)
      PROVE  UNCHANGED <<code, batches>>
  BY <1>7 DEF ShareStep, CheckFile, NothingToShare, RetryShare
<1>8. ASSUME NEW f \in Files, \/ CreateFile(f) \/ HardDelete(f)
                              \/ \E t \in {"active", "hidden", "deleted"} : PatchAdmin(f, t)
      PROVE  UNCHANGED <<code, batches>>
  BY <1>8 DEF CreateFile, HardDelete, PatchAdmin
<1>9. Crash \/ UNCHANGED vars \/ (\E h \in Holders : Expire(h)) => UNCHANGED <<code, batches>>
  BY DEF Crash, vars, Expire
<1> QED
  BY <1>1, <1>2, <1>3, <1>4, <1>5, <1>6, <1>7, <1>8, <1>9 DEF Next, FileStep

\* What any step does to one request.
LEMMA RequestMoves ==
    ASSUME IInv, [Next]_vars, NEW r \in Requests
    PROVE  \/ req'[r] = req[r] \/ req'[r].pc = "idle"
           \/ Moves(r)
           \/ /\ req[r].pc = "idle"
              /\ \/ req'[r].pc = "check"
                 \/ req'[r].pc \in {"batch", "find"} /\ req'[r].code \in Codes
<1>0. req \in [Requests -> Request]
  BY DEF IInv, RequestsOK
<1>1. ASSUME NEW q \in Requests, ShareStep(q) \/ CodeStep(q)
      PROVE  req'[r] = req[r] \/ Moves(r)
  BY <1>1, StepMoves
<1>2. ASSUME NEW q \in Requests, Arrive(q)
      PROVE  \/ req'[r] = req[r]
             \/ /\ req[r].pc = "idle"
                /\ \/ req'[r].pc = "check"
                   \/ req'[r].pc \in {"batch", "find"} /\ req'[r].code \in Codes
  <2>1. PICK new : Start(q, new) /\ \/ new.pc = "check"
                                    \/ new.pc \in {"batch", "find"} /\ new.code \in Codes
    <3>1. ASSUME NEW S \in SUBSET Files, BeginShare(q, S)
          PROVE  \E new : Start(q, new) /\ new.pc = "check"
      <4> DEFINE new == [Idle EXCEPT !.pc = "check", !.todo = S]
      <4>1. Start(q, new)
        BY <3>1 DEF BeginShare
      <4>2. new.pc = "check"
        BY DEF Idle
      <4> HIDE DEF new
      <4> QED
        BY <4>1, <4>2
    <3>2. ASSUME NEW c \in Codes, BeginPickup(q, c)
          PROVE  \E new : Start(q, new) /\ new.pc = "batch" /\ new.code \in Codes
      <4> DEFINE new == [Idle EXCEPT !.pc = "batch", !.code = c, !.dead = Dead]
      <4>1. Start(q, new)
        BY <3>2 DEF BeginPickup
      <4>2. new.pc = "batch" /\ new.code = c
        BY DEF Idle
      <4> HIDE DEF new
      <4> QED
        BY <4>1, <4>2
    <3>3. ASSUME NEW c \in Codes, BeginRevoke(q, c)
          PROVE  \E new : Start(q, new) /\ new.pc = "find" /\ new.code \in Codes
      <4> DEFINE new == [Idle EXCEPT !.pc = "find", !.code = c]
      <4>1. Start(q, new)
        BY <3>3 DEF BeginRevoke
      <4>2. new.pc = "find" /\ new.code = c
        BY DEF Idle
      <4> HIDE DEF new
      <4> QED
        BY <4>1, <4>2
    <3> QED
      BY <1>2, <3>1, <3>2, <3>3 DEF Arrive
  <2>2. req[q].pc = "idle" /\ req' = [req EXCEPT ![q] = new]
    BY <2>1 DEF Start
  <2>3. req'[q] = new /\ \A p \in Requests \ {q} : req'[p] = req[p]
    BY <1>0, <2>2
  <2> QED
    BY <2>1, <2>2, <2>3
<1>3. Crash => req'[r].pc = "idle"
  BY DEF Crash, Idle
<1>4. ASSUME FileStep \/ (\E h \in Holders : Expire(h)) \/ UNCHANGED vars
      PROVE  req'[r] = req[r]
  BY <1>4 DEF FileStep, CreateBatch, CreateFile, HardDelete, PatchAdmin, Expire, vars
<1> QED
  BY <1>1, <1>2, <1>3, <1>4 DEF Next

LEMMA FollowsOn ==
    ASSUME IInv, [Next]_vars, NEW r \in Requests, Follows(r),
           \A h \in Holders : code[h] # None => code'[h] = code[h]
    PROVE  Follows(r)'
<1>0. /\ req[r].pc = "batchFiles" => req[r].holder \in Batches
      /\ req[r].pc \in {"shareFiles", "revoke"} => req[r].holder \in Shares
      /\ req[r].pc = "serve" => req[r].holder \in Holders
      /\ None \notin Codes /\ Batches \cap Shares = {}
  BY PickupNoneAssumption, HoldersAssumption DEF IInv, RequestsOK, Good, WellFormed
<1>1. CASE req'[r] = req[r]
  BY <1>0, <1>1 DEF Follows, Holders
<1>2. CASE req'[r].pc \in {"idle", "check"}
  BY <1>2 DEF Follows
<1>3. CASE req'[r].pc \in {"batch", "find"} /\ req'[r].code \in Codes
  BY <1>0, <1>3 DEF Follows
<1>4. ASSUME Moves(r), req'[r].pc \in {"batchFiles", "shareFiles", "revoke"} PROVE Follows(r)'
  <2>1. /\ req'[r].code = req[r].code /\ req[r].code # None
        /\ code[req'[r].holder] = req[r].code /\ req'[r].holder \in Holders
    BY <1>4 DEF Moves, Follows, Found, Holders
  <2> QED
    BY <1>4, <2>1 DEF Follows
<1>5. ASSUME Moves(r), req'[r].pc = "share" PROVE Follows(r)'
  BY <1>5 DEF Moves, Follows
<1>6. ASSUME Moves(r), req'[r].pc = "serve" PROVE Follows(r)'
  <2>1. /\ req'[r].code = req[r].code /\ req[r].code # None /\ req'[r].holder = req[r].holder
        /\ code[req[r].holder] = req[r].code /\ req[r].holder \in Holders
        /\ req[r].pc \in {"batchFiles", "shareFiles"}
        /\ req[r].pc = "batchFiles" => \A f \in req'[r].files : BatchOf[f] = req[r].holder
    BY <1>0, <1>6 DEF Moves, Follows, Holders
  <2>2. req[r].holder \in Batches => req[r].pc = "batchFiles"
    BY <1>0, <2>1
  <2> QED
    BY <1>6, <2>1, <2>2 DEF Follows
<1>7. Moves(r) => req'[r].pc \in {"idle", "check", "batchFiles", "share", "serve", "shareFiles", "revoke"}
  BY DEF Moves
<1> QED
  BY <1>1, <1>2, <1>3, <1>4, <1>5, <1>6, <1>7, RequestMoves

BatchesWithCodes == \A b \in Batches : code[b] # None => b \in batches

LEMMA CodesInvariant == Spec => [](IInv /\ BatchesWithCodes /\ CodesLead)
<1>1. Init => BatchesWithCodes /\ CodesLead
  BY DEF Init, Idle, BatchesWithCodes, CodesLead, CodesUnique, Follows, Holders
<1>2. IInv /\ BatchesWithCodes /\ CodesLead /\ [Next]_vars => (BatchesWithCodes /\ CodesLead)'
  BY CodesKept, FollowsOn DEF BatchesWithCodes, CodesLead
<1> QED
  BY <1>1, <1>2, InductiveInvariant, PTL DEF Spec

\* Codes are unique among batches and among shares, and stay what they are.
THEOREM CodesAreUnique == Spec => []CodesUnique /\ CodesStay
<1> DEFINE Stay == \A h \in Holders : code[h] # None => code'[h] = code[h]
<1>1. IInv /\ BatchesWithCodes /\ CodesLead /\ [Next]_vars => [Stay]_vars
  BY CodesKept DEF BatchesWithCodes, CodesLead
<1>2. CodesLead => CodesUnique
  BY DEF CodesLead
<1> HIDE DEF Stay
<1>3. Spec => []CodesUnique /\ [][Stay]_vars
  BY <1>1, <1>2, CodesInvariant, PTL DEF Spec
<1> QED
  BY <1>3 DEF CodesStay, Stay

\* Whichever of its lookups fail and whatever is uploaded, revoked or deleted
\* between them, a pickup is served from the batch or from the share that has
\* its code, and from a batch only files of that anonymous upload.
THEOREM PickupsFollowCodes == Spec => [](OneCodeOnePlace /\ PickupsOpenTheirBatch)
<1>1. IInv /\ CodesLead => OneCodeOnePlace
  <2> SUFFICES ASSUME IInv, CodesLead, NEW q \in Requests, NEW r \in Requests,
                      req[q].pc = "serve", req[r].pc = "serve", req[q].code = req[r].code,
                      \/ {req[q].holder, req[r].holder} \subseteq Batches
                      \/ {req[q].holder, req[r].holder} \subseteq Shares
               PROVE  req[q].holder = req[r].holder
    BY DEF OneCodeOnePlace
  <2>1. code[req[q].holder] = code[req[r].holder] /\ code[req[q].holder] # None
    BY DEF CodesLead, Follows
  <2> QED
    BY <2>1 DEF CodesLead, CodesUnique
<1>2. CodesLead => PickupsOpenTheirBatch
  BY DEF CodesLead, CodesUnique, Follows, PickupsOpenTheirBatch
<1> QED
  BY <1>1, <1>2, CodesInvariant, PTL

-----------------------------------------------------------------------------
(* Requests end *)

Stage(pc) ==
    CASE pc = "idle" -> 0
      [] pc \in {"serve", "revoke"} -> 1
      [] pc \in {"shareFiles", "find"} -> 2
      [] pc = "share" -> 3
      [] pc = "batchFiles" -> 4
      [] pc = "batch" -> 5
      [] pc = "check" -> 6

\* A request goes to a later stage, has one file less to check, or has made one
\* more of its Tries attempts to write the share.
Advances(r) ==
    \/ Stage(req'[r].pc) < Stage(req[r].pc)
    \/ /\ req[r].pc = "check" /\ req'[r].pc = "check"
       /\ \/ /\ req'[r].todo \subseteq req[r].todo /\ req'[r].todo # req[r].todo
             /\ req'[r].tries = req[r].tries
          \/ /\ req'[r].todo = req[r].todo
             /\ req'[r].tries = req[r].tries + 1 /\ req'[r].tries < Tries

RequestsAdvance ==
    [][\A r \in Requests :
          ShareStep(r) \/ CodeStep(r) \/ (req[r].pc # "idle" /\ req'[r] # req[r])
             => Advances(r)]_vars

\* Making a share, picking up and revoking all end: no request waits for another,
\* and none is given more to do by files that come and go meanwhile.
THEOREM RequestsEnd == Spec => RequestsAdvance
<1> DEFINE Step == \A r \in Requests :
                      ShareStep(r) \/ CodeStep(r) \/ (req[r].pc # "idle" /\ req'[r] # req[r])
                         => Advances(r)
<1>1. IInv /\ [Next]_vars => [Step]_vars
  <2> SUFFICES ASSUME IInv, Next, NEW r \in Requests,
                      ShareStep(r) \/ CodeStep(r) \/ (req[r].pc # "idle" /\ req'[r] # req[r])
               PROVE  Advances(r)
    OBVIOUS
  <2>1. req[r] \in Request
    BY DEF IInv, RequestsOK
  <2>2. Moves(r) => Advances(r)
    BY <2>1 DEF Moves, Advances, Stage, Request
  <2>3. req[r].pc # "idle" /\ req'[r].pc = "idle" => Advances(r)
    BY <2>1 DEF Advances, Stage, Request
  <2> QED
    BY <2>2, <2>3, StepMoves, RequestMoves
<1> HIDE DEF Step
<1>2. Spec => [][Step]_vars
  BY <1>1, InductiveInvariant, PTL DEF Spec
<1> QED
  BY <1>2 DEF RequestsAdvance, Step
-----------------------------------------------------------------------------
(* Files as Pickup assumes them.  FileLifecycle implements FileTable; here a *)
(* code or share meets every step FileTable allows and no other, so what is  *)
(* proved of codes holds beside the uploads and deletions proved there.      *)

Table == INSTANCE FileTable WITH Status <- {"active", "hidden", "deleted"}

\* No request for a share or a code writes to the tables of batches and files.
THEOREM RequestsOnlyRead == Spec => Table!Spec
<1>1. Init => Table!Init
  BY DEF Init, Table!Init
<1>2. [Next]_vars => [Table!Next]_<<batches, row>>
  <2> SUFFICES ASSUME [Next]_vars PROVE Table!Next \/ UNCHANGED uploads
    BY DEF uploads
  <2>1. ASSUME NEW b \in Batches, CreateBatch(b) PROVE Table!AddBatch(b)
    BY <2>1 DEF CreateBatch, Table!AddBatch
  <2>2. ASSUME NEW f \in Files, CreateFile(f) PROVE Table!Add(f)
    BY <2>2 DEF CreateFile, Table!Add
  <2>3. ASSUME NEW f \in Files, HardDelete(f) PROVE Table!Remove(f)
    BY <2>3 DEF HardDelete, Rows, Table!Remove
  <2>4. ASSUME NEW f \in Files, NEW s \in {"active", "hidden", "deleted"}, PatchAdmin(f, s)
        PROVE  Table!Mark(f, s)
    BY <2>4 DEF PatchAdmin, Rows, Table!Mark
  <2>5. CASE FileStep
    BY <2>1, <2>2, <2>3, <2>4, <2>5 DEF FileStep, Table!Next
  <2>6. ASSUME NEW r \in Requests, Arrive(r) \/ ShareStep(r) \/ CodeStep(r)
        PROVE  UNCHANGED uploads
    BY <2>6 DEF Arrive, BeginShare, BeginPickup, BeginRevoke, ShareStep, CheckFile,
                NothingToShare, CreateShare, RetryShare, CodeStep, LookupBatch, ListBatch,
                LookupShare, ListShare, Serve, Revoke
  <2>7. (\E h \in Holders : Expire(h)) \/ Crash \/ UNCHANGED vars => UNCHANGED uploads
    BY DEF Expire, Crash, vars, uploads
  <2> QED
    BY <2>5, <2>6, <2>7 DEF Next
<1> QED
  BY <1>1, <1>2, PTL DEF Spec, Table!Spec

\* Whatever FileTable does next, requests and codes let it: with the share rows of
\* a file that goes, as HardDelete's transaction takes them, and with a code no
\* other batch has for an anonymous batch.
THEOREM TableMayMove ==
    ASSUME UNCHANGED <<expired, stamp, req>>
    PROVE  /\ \A b \in Batches :
                /\ Table!AddBatch(b) /\ links' = links
                /\ IF b \in Anonymous
                   THEN \E c \in Codes : /\ \A d \in Batches : code[d] # c
                                         /\ code' = [code EXCEPT ![b] = c]
                   ELSE code' = code
                => FileStep
           /\ \A f \in Files : Table!Add(f) /\ UNCHANGED shares => FileStep
           /\ \A f \in Files, s \in {"active", "hidden", "deleted"} :
                Table!Mark(f, s) /\ UNCHANGED shares => FileStep
           /\ \A f \in Files :
                /\ Table!Remove(f) /\ code' = code
                /\ links' = [s \in Shares |-> links[s] \ {f}]
                => FileStep
<1>1. ASSUME NEW b \in Batches, Table!AddBatch(b), links' = links,
             IF b \in Anonymous
             THEN \E c \in Codes : /\ \A d \in Batches : code[d] # c
                                   /\ code' = [code EXCEPT ![b] = c]
             ELSE code' = code
      PROVE  CreateBatch(b)
  BY <1>1 DEF Table!AddBatch, CreateBatch, Found
<1>2. ASSUME NEW f \in Files, Table!Add(f), UNCHANGED shares PROVE CreateFile(f)
  BY <1>2 DEF Table!Add, CreateFile
<1>3. ASSUME NEW f \in Files, NEW s \in {"active", "hidden", "deleted"},
             Table!Mark(f, s), UNCHANGED shares
      PROVE  PatchAdmin(f, s)
  BY <1>3 DEF Table!Mark, PatchAdmin, Rows
<1>4. ASSUME NEW f \in Files, Table!Remove(f), code' = code,
             links' = [s \in Shares |-> links[s] \ {f}]
      PROVE  HardDelete(f)
  BY <1>4 DEF Table!Remove, HardDelete, Rows
<1> QED
  BY <1>1, <1>2, <1>3, <1>4 DEF FileStep
=============================================================================
