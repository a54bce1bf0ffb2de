------------------------- MODULE DirectUploadProofs -------------------------
(***************************************************************************)
(* Safety of the direct upload for any number of sessions, files and       *)
(* concurrent requests.                                                    *)
(***************************************************************************)
EXTENDS DirectUpload, TLAPS

(* The inductive invariant.  Between two steps a handler relies on what it  *)
(* has seen before: the file it is about to record has an object, the files *)
(* it counted are recorded, and its loop has counted every earlier entry.   *)

Entry(r) == FilesOf[req[r].up][req[r].at]

CheckedHasObject(r) == req[r].pc \in {"record", "reread"} => Entry(r) \in objects

InsertedHasRow(r) == req[r].pc = "reread" => Entry(r) \in rows

GoodIsRecorded(r) ==
    /\ req[r].good \subseteq rows
    /\ req[r].good # {} => req[r].good \subseteq FileSet(req[r].up)

LoopCounted(r) ==
    req[r].pc \in {"files", "record", "reread"} =>
        \A i \in DOMAIN FilesOf[req[r].up] :
            i < req[r].at => FilesOf[req[r].up][i] \in req[r].good \cup req[r].bad

ReqInv(r) ==
    CheckedHasObject(r) /\ InsertedHasRow(r) /\ GoodIsRecorded(r) /\ LoopCounted(r)

\* The rows a request inserted: those it counted and the one it is re-reading.
Inserts(r) == req[r].good \cup (IF req[r].pc = "reread" THEN {Entry(r)} ELSE {})

InsertsDisjoint ==
    \A q, r \in Requests : q # r => Inserts(q) \cap Inserts(r) = {}

BatchInv == BatchNeverOverstates /\ CompletedIsWhole

IInv ==
    /\ TypeOK
    /\ RowHasObject
    /\ \A r \in Requests : ReqInv(r)
    /\ InsertsDisjoint
    /\ BatchInv

-----------------------------------------------------------------------------
LEMMA EntryInFileSet ==
    ASSUME NEW u \in Uploads, NEW i \in DOMAIN FilesOf[u]
    PROVE  FilesOf[u][i] \in FileSet(u) /\ FilesOf[u][i] \in Files
<1>1. FilesOf[u] \in Seq(Files)
  BY FilesOfAssumption
<1> QED
  BY <1>1 DEF FileSet

LEMMA DomainIsInterval ==
    ASSUME NEW u \in Uploads, NEW n \in Nat \ {0}, n \notin DOMAIN FilesOf[u]
    PROVE  \A i \in DOMAIN FilesOf[u] : i < n
<1>1. FilesOf[u] \in Seq(Files) /\ DOMAIN FilesOf[u] = 1..Len(FilesOf[u]) /\ Len(FilesOf[u]) \in Nat
  BY FilesOfAssumption
<1> QED
  BY <1>1

LEMMA DomainIsNat ==
    ASSUME NEW u \in Uploads
    PROVE  DOMAIN FilesOf[u] \subseteq Nat
<1>1. FilesOf[u] \in Seq(Files) /\ DOMAIN FilesOf[u] = 1..Len(FilesOf[u]) /\ Len(FilesOf[u]) \in Nat
  BY FilesOfAssumption
<1> QED
  BY <1>1

LEMMA TypeInit == Init => TypeOK
BY DEF Init, TypeOK, BatchRow, Request, Idle

\* The part of TypeOK about the requests.
ReqOK ==
    /\ req \in [Requests -> Request]
    /\ \A r \in Requests : req[r].pc # "idle" => req[r].up \in Uploads
    /\ \A r \in Requests : req[r].pc \in {"record", "reread"}
                              => req[r].at \in DOMAIN FilesOf[req[r].up]

\* What the operators that move a request do, whatever the rest of the step.
LEMMA FirstState ==
    ASSUME NEW u \in Uploads, NEW pc \in {"init", "files", "abort"}
    PROVE  [pc |-> pc, up |-> u, at |-> 1, good |-> {}, bad |-> {}] \in Request
BY DEF Request

LEMMA StartReq ==
    ASSUME TypeOK, NEW r \in Requests, NEW u \in Uploads,
           NEW pc \in {"init", "files", "abort"}, Start(r, pc, u)
    PROVE  /\ ReqOK'
           /\ req'[r] = [pc |-> pc, up |-> u, at |-> 1, good |-> {}, bad |-> {}]
           /\ \A q \in Requests \ {r} : req'[q] = req[q]
<1>1. req'[r] = [pc |-> pc, up |-> u, at |-> 1, good |-> {}, bad |-> {}]
  BY DEF Start, Idle, TypeOK
<1>2. \A q \in Requests \ {r} : req'[q] = req[q]
  BY DEF Start, TypeOK
<1>3. req' \in [Requests -> Request]
  <2>1. [pc |-> pc, up |-> u, at |-> 1, good |-> {}, bad |-> {}] \in Request
    BY FirstState
  <2>2. req' = [req EXCEPT ![r] = req'[r]]
    BY DEF Start, TypeOK
  <2> QED
    BY <2>1, <2>2, <1>1 DEF TypeOK
<1>4. req'[r].pc = pc /\ req'[r].up = u
  BY <1>1
<1>5. ReqOK'
  BY <1>2, <1>3, <1>4 DEF TypeOK, ReqOK
<1> QED
  BY <1>1, <1>2, <1>5

LEMMA SucceedReq ==
    ASSUME TypeOK, NEW r \in Requests, NEW f \in Files, req[r].up \in Uploads,
           Succeed(r, f)
    PROVE  /\ ReqOK'
           /\ \A q \in Requests \ {r} : req'[q] = req[q]
           /\ req'[r] = [pc |-> "files", up |-> req[r].up, at |-> req[r].at + 1,
                         good |-> req[r].good \cup {f}, bad |-> req[r].bad]
<1>1. req' \in [Requests -> Request]
  BY DEF Succeed, TypeOK, Request
<1>2. /\ \A q \in Requests \ {r} : req'[q] = req[q]
      /\ req'[r] = [pc |-> "files", up |-> req[r].up, at |-> req[r].at + 1,
                    good |-> req[r].good \cup {f}, bad |-> req[r].bad]
  BY DEF Succeed, TypeOK, Request
<1> QED
  BY <1>1, <1>2 DEF TypeOK, ReqOK

LEMMA FailReq ==
    ASSUME TypeOK, NEW r \in Requests, NEW f \in Files, req[r].up \in Uploads,
           Fail(r, f)
    PROVE  /\ ReqOK'
           /\ \A q \in Requests \ {r} : req'[q] = req[q]
           /\ req'[r] = [pc |-> "files", up |-> req[r].up, at |-> req[r].at + 1,
                         good |-> req[r].good, bad |-> req[r].bad \cup {f}]
<1>1. req' \in [Requests -> Request]
  BY DEF Fail, TypeOK, Request
<1>2. /\ \A q \in Requests \ {r} : req'[q] = req[q]
      /\ req'[r] = [pc |-> "files", up |-> req[r].up, at |-> req[r].at + 1,
                    good |-> req[r].good, bad |-> req[r].bad \cup {f}]
  BY DEF Fail, TypeOK, Request
<1> QED
  BY <1>1, <1>2 DEF TypeOK, ReqOK

LEMMA GotoReq ==
    ASSUME TypeOK, NEW r \in Requests, req[r].up \in Uploads,
           NEW pc \in {"record", "reread", "remove"}, Goto(r, pc),
           pc = "remove" \/ req[r].at \in DOMAIN FilesOf[req[r].up]
    PROVE  /\ ReqOK'
           /\ req'[r] = [req[r] EXCEPT !.pc = pc]
           /\ \A q \in Requests \ {r} : req'[q] = req[q]
<1>1. req' \in [Requests -> Request]
  BY DEF Goto, TypeOK, Request
<1>2. /\ req'[r] = [req[r] EXCEPT !.pc = pc]
      /\ \A q \in Requests \ {r} : req'[q] = req[q]
  BY DEF Goto, TypeOK
<1>3. req'[r].pc = pc /\ req'[r].up = req[r].up /\ req'[r].at = req[r].at
  BY <1>2 DEF TypeOK, Request
<1> QED
  BY <1>1, <1>2, <1>3 DEF TypeOK, ReqOK

LEMMA AnswerReq ==
    ASSUME TypeOK, NEW r \in Requests, Answer(r)
    PROVE  ReqOK' /\ req'[r] = Idle /\ \A q \in Requests \ {r} : req'[q] = req[q]
<1>1. req'[r] = Idle /\ \A q \in Requests \ {r} : req'[q] = req[q]
  BY DEF Answer, TypeOK
<1>2. Idle \in Request /\ Idle.pc = "idle"
  BY DEF Idle, Request
<1>3. req' \in [Requests -> Request]
  BY <1>2 DEF Answer, TypeOK
<1> QED
  BY <1>1, <1>2, <1>3 DEF TypeOK, ReqOK

LEMMA NextEntryReq ==
    ASSUME TypeOK, NEW r \in Requests, req[r].pc \in {"init", "abort"}, NextEntry(r)
    PROVE  /\ ReqOK'
           /\ \A q \in Requests \ {r} : req'[q] = req[q]
           /\ req'[r] = [req[r] EXCEPT !.at = req[r].at + 1]
<1>1. req' \in [Requests -> Request]
  BY DEF NextEntry, TypeOK, Request
<1>2. /\ \A q \in Requests \ {r} : req'[q] = req[q]
      /\ req'[r] = [req[r] EXCEPT !.at = req[r].at + 1]
  BY DEF NextEntry, TypeOK, Request
<1>3. req'[r].pc = req[r].pc /\ req'[r].up = req[r].up
  BY <1>2 DEF TypeOK, Request
<1> QED
  BY <1>1, <1>2, <1>3 DEF TypeOK, ReqOK

LEMMA TypeNext == TypeOK /\ [Next]_vars => TypeOK'
<1> SUFFICES ASSUME TypeOK, [Next]_vars PROVE TypeOK'
  OBVIOUS
<1> USE DEF db, r2
<1>1. ASSUME NEW r \in Requests, InitStep(r) PROVE TypeOK'
  <2>1. ASSUME NEW f \in Files, InitFile(r, f) PROVE TypeOK'
    BY <2>1, NextEntryReq DEF InitFile, AtEntry, TypeOK, ReqOK
  <2>2. ASSUME NEW f \in Files, RejectInit(r, f) PROVE TypeOK'
    BY <2>2, AnswerReq DEF RejectInit, TypeOK, ReqOK
  <2>3. ASSUME FinishInit(r) PROVE TypeOK'
    BY <2>3, AnswerReq DEF FinishInit, LoopDone, TypeOK, ReqOK
  <2> QED
    BY <1>1, <2>1, <2>2, <2>3 DEF InitStep
<1>2. ASSUME NEW r \in Requests, CompleteStep(r) PROVE TypeOK'
  <2>1. ASSUME NEW f \in Files, FileMissing(r, f) PROVE TypeOK'
    BY <2>1, FailReq DEF FileMissing, AtEntry, TypeOK, ReqOK
  <2>2. ASSUME NEW f \in Files, CompleteMultipart(r, f) PROVE TypeOK'
    BY <2>2, GotoReq, FailReq DEF CompleteMultipart, AtEntry, TypeOK, ReqOK
  <2>3. ASSUME NEW f \in Files, HeadObject(r, f) PROVE TypeOK'
    BY <2>3, GotoReq, FailReq DEF HeadObject, AtEntry, TypeOK, ReqOK
  <2>4. ASSUME NEW f \in Files, Record(r, f) PROVE TypeOK'
    BY <2>4, GotoReq, FailReq DEF Record, AtEntry, TypeOK, ReqOK
  <2>5. ASSUME NEW f \in Files, Reread(r, f) PROVE TypeOK'
    BY <2>5, SucceedReq, FailReq DEF Reread, AtEntry, TypeOK, ReqOK
  <2>6. ASSUME FinishBatch(r) PROVE TypeOK'
    <3>1. req[r] \in Request /\ req[r].up \in Uploads
      BY <2>6 DEF FinishBatch, LoopDone, TypeOK
    <3>2. [status |-> BatchStatus(req[r].good, req[r].bad),
           good |-> req[r].good, bad |-> req[r].bad] \in BatchRow
      BY <3>1 DEF BatchStatus, BatchRow, Request
    <3>3. ReqOK'
      BY <2>6, <3>1, GotoReq, AnswerReq DEF FinishBatch
    <3> QED
      BY <2>6, <3>1, <3>2, <3>3 DEF FinishBatch, TypeOK, ReqOK
  <2>7. ASSUME RemoveManifest(r) PROVE TypeOK'
    BY <2>7, AnswerReq DEF RemoveManifest, TypeOK, ReqOK
  <2> QED
    BY <1>2, <2>1, <2>2, <2>3, <2>4, <2>5, <2>6, <2>7 DEF CompleteStep
<1>3. ASSUME NEW r \in Requests, CancelStep(r) PROVE TypeOK'
  <2>1. ASSUME NEW f \in Files, AbortFile(r, f) PROVE TypeOK'
    BY <2>1, NextEntryReq DEF AbortFile, AtEntry, TypeOK, ReqOK
  <2>2. ASSUME FinishCancel(r) PROVE TypeOK'
    BY <2>2, AnswerReq DEF FinishCancel, TypeOK, ReqOK
  <2> QED
    BY <1>3, <2>1, <2>2 DEF CancelStep
<1>4. ASSUME NEW r \in Requests, NEW u \in Uploads, Arrive(r, u) PROVE TypeOK'
  <2>1. CASE BeginInit(r, u)
    <3>1. [batch[u] EXCEPT !.status = "created"] \in BatchRow
      BY DEF TypeOK, BatchRow
    <3>2. batch' \in [Uploads -> BatchRow]
      BY <2>1, <3>1 DEF BeginInit, TypeOK
    <3> QED
      BY <2>1, <3>2, StartReq DEF BeginInit, TypeOK, ReqOK
  <2>2. CASE BeginComplete(r, u)
    BY <2>2, StartReq DEF BeginComplete, TypeOK, ReqOK
  <2>3. CASE BeginCancel(r, u)
    BY <2>3, StartReq DEF BeginCancel, TypeOK, ReqOK
  <2> QED
    BY <1>4, <2>1, <2>2, <2>3 DEF Arrive
<1>5. ASSUME NEW u \in Uploads, Outside(u) PROVE TypeOK'
  BY <1>5 DEF Outside, PutObject, PutParts, Expire, Drain, ExpiredComplete, TypeOK
<1>6. CASE Crash
  BY <1>6 DEF Crash, Idle, TypeOK, Request
<1>7. CASE UNCHANGED vars
  BY <1>7 DEF vars, TypeOK
<1> QED
  BY <1>1, <1>2, <1>3, <1>4, <1>5, <1>6, <1>7 DEF Next, Handle

\* Every reachable state has the types of TypeOK.
THEOREM TypeCorrect == Spec => []TypeOK
<1> QED
  BY TypeInit, TypeNext, PTL DEF Spec

-----------------------------------------------------------------------------
LEMMA IInvInit == Init => IInv
<1> SUFFICES ASSUME Init PROVE IInv
  OBVIOUS
<1>1. TypeOK
  BY TypeInit
<1>2. \A r \in Requests : req[r] = Idle
  BY DEF Init
<1>3. \A r \in Requests : ReqInv(r) /\ Inserts(r) = {}
  BY <1>2 DEF ReqInv, CheckedHasObject, InsertedHasRow, GoodIsRecorded, LoopCounted,
              Inserts, Idle
<1>4. InsertsDisjoint
  BY <1>3 DEF InsertsDisjoint
<1>5. RowHasObject /\ BatchInv
  BY DEF Init, RowHasObject, BatchInv, BatchNeverOverstates, CompletedIsWhole
<1> QED
  BY <1>1, <1>3, <1>4, <1>5 DEF IInv

\* Neither a row nor an object ever goes away.
LEMMA Monotone == [Next]_vars => rows \subseteq rows' /\ objects \subseteq objects'
BY DEF Next, vars, Handle, InitStep, CompleteStep, CancelStep, Arrive, Outside, Crash,
       InitFile, RejectInit, FinishInit, FileMissing, CompleteMultipart, HeadObject,
       Record, Reread, FinishBatch, RemoveManifest, AbortFile, FinishCancel,
       BeginInit, BeginComplete, BeginCancel, PutObject, PutParts, Expire, Drain,
       ExpiredComplete, db, r2

\* What a request inserted is in the table.
LEMMA InsertsAreRows ==
    ASSUME NEW r \in Requests, ReqInv(r)
    PROVE  Inserts(r) \subseteq rows
BY DEF ReqInv, InsertedHasRow, GoodIsRecorded, Inserts

\* A step of one request keeps what the others rely on; it keeps InsertsDisjoint
\* because a row it newly claims was not in the table before.
LEMMA OthersKept ==
    ASSUME IInv, TypeOK', [Next]_vars, NEW r \in Requests,
           \A q \in Requests \ {r} : req'[q] = req[q],
           ReqInv(r)', Inserts(r)' \subseteq Inserts(r) \cup (rows' \ rows)
    PROVE  (\A q \in Requests : ReqInv(q)') /\ InsertsDisjoint'
<1>1. rows \subseteq rows' /\ objects \subseteq objects'
  BY Monotone
<1>2. ASSUME NEW q \in Requests, q # r
      PROVE  ReqInv(q)' /\ Inserts(q)' = Inserts(q) /\ Inserts(q) \subseteq rows
  <2>1. req'[q] = req[q] /\ ReqInv(q)
    BY <1>2 DEF IInv
  <2>2. Entry(q)' = Entry(q) /\ Inserts(q)' = Inserts(q)
    BY <2>1 DEF Entry, Inserts
  <2>3. ReqInv(q)'
    BY <2>1, <2>2, <1>1 DEF ReqInv, CheckedHasObject, InsertedHasRow, GoodIsRecorded,
                            LoopCounted
  <2> QED
    BY <2>1, <2>2, <2>3, InsertsAreRows
<1>3. ASSUME NEW p \in Requests, NEW q \in Requests, p # q
      PROVE  Inserts(p)' \cap Inserts(q)' = {}
  <2>1. Inserts(p) \cap Inserts(q) = {}
    BY <1>3 DEF IInv, InsertsDisjoint
  <2>2. CASE p = r
    BY <2>1, <2>2, <1>2, <1>3
  <2>3. CASE q = r
    BY <2>1, <2>3, <1>2, <1>3
  <2>4. CASE p # r /\ q # r
    BY <2>1, <2>4, <1>2
  <2> QED
    BY <2>2, <2>3, <2>4
<1> QED
  BY <1>2, <1>3 DEF InsertsDisjoint

\* A request that is answered, or that moves on without counting a file.
LEMMA AnswerInv ==
    ASSUME IInv, TypeOK', [Next]_vars, NEW r \in Requests, Answer(r)
    PROVE  (\A q \in Requests : ReqInv(q)') /\ InsertsDisjoint'
<1>1. req'[r] = Idle /\ \A q \in Requests \ {r} : req'[q] = req[q]
  BY AnswerReq DEF IInv
<1>2. ReqInv(r)' /\ Inserts(r)' = {}
  BY <1>1 DEF ReqInv, CheckedHasObject, InsertedHasRow, GoodIsRecorded, LoopCounted,
              Inserts, Idle
<1> QED
  BY <1>1, <1>2, OthersKept

LEMMA StartInv ==
    ASSUME IInv, TypeOK', [Next]_vars, NEW r \in Requests, NEW u \in Uploads,
           NEW pc \in {"init", "files", "abort"}, Start(r, pc, u)
    PROVE  (\A q \in Requests : ReqInv(q)') /\ InsertsDisjoint'
<1>1. /\ req'[r] = [pc |-> pc, up |-> u, at |-> 1, good |-> {}, bad |-> {}]
      /\ \A q \in Requests \ {r} : req'[q] = req[q]
  BY StartReq DEF IInv
<1>2. \A i \in DOMAIN FilesOf[u] : ~(i < 1)
  BY FilesOfAssumption
<1>3. ReqInv(r)' /\ Inserts(r)' = {}
  BY <1>1, <1>2 DEF ReqInv, CheckedHasObject, InsertedHasRow, GoodIsRecorded, LoopCounted,
              Inserts
<1> QED
  BY <1>1, <1>3, OthersKept

LEMMA NextEntryInv ==
    ASSUME IInv, TypeOK', [Next]_vars, NEW r \in Requests,
           req[r].pc \in {"init", "abort"}, NextEntry(r)
    PROVE  (\A q \in Requests : ReqInv(q)') /\ InsertsDisjoint'
<1>1. /\ req'[r] = [req[r] EXCEPT !.at = req[r].at + 1]
      /\ \A q \in Requests \ {r} : req'[q] = req[q]
  BY NextEntryReq DEF IInv
<1>2. /\ req'[r].pc = req[r].pc /\ req'[r].up = req[r].up
      /\ req'[r].good = req[r].good /\ req[r] \in Request
  BY <1>1 DEF IInv, TypeOK, Request
<1>3. rows \subseteq rows' /\ ReqInv(r)
  BY Monotone DEF IInv
<1>4. ReqInv(r)' /\ Inserts(r)' = Inserts(r)
  BY <1>2, <1>3 DEF ReqInv, CheckedHasObject, InsertedHasRow, GoodIsRecorded, LoopCounted,
                    Inserts
<1> QED
  BY <1>1, <1>4, OthersKept

\* Counting entry f as failed.
LEMMA FailInv ==
    ASSUME IInv, TypeOK', [Next]_vars, NEW r \in Requests, NEW f \in Files,
           req[r].pc \in {"files", "record", "reread"}, AtEntry(r, req[r].pc, f), Fail(r, f)
    PROVE  (\A q \in Requests : ReqInv(q)') /\ InsertsDisjoint'
<1>1. /\ req'[r] = [pc |-> "files", up |-> req[r].up, at |-> req[r].at + 1,
                    good |-> req[r].good, bad |-> req[r].bad \cup {f}]
      /\ \A q \in Requests \ {r} : req'[q] = req[q]
  BY FailReq DEF IInv, TypeOK
<1>2. rows \subseteq rows' /\ ReqInv(r) /\ req[r].at \in Nat /\ req[r].up \in Uploads
  BY Monotone DEF IInv, TypeOK, Request
<1>3. ASSUME NEW i \in DOMAIN FilesOf[req[r].up], i < req[r].at + 1
      PROVE  FilesOf[req[r].up][i] \in req[r].good \cup req[r].bad \cup {f}
  <2>1. i \in Nat
    BY <1>2, DomainIsNat
  <2>2. CASE i < req[r].at
    BY <2>2, <1>2 DEF ReqInv, LoopCounted
  <2>3. CASE i = req[r].at
    BY <2>3 DEF AtEntry
  <2> QED
    BY <2>1, <2>2, <2>3, <1>2, <1>3
<1>4. ReqInv(r)' /\ Inserts(r)' \subseteq Inserts(r)
  BY <1>1, <1>2, <1>3 DEF ReqInv, CheckedHasObject, InsertedHasRow, GoodIsRecorded,
                          LoopCounted, Inserts
<1> QED
  BY <1>1, <1>4, OthersKept

\* Counting entry f, which was re-read, as succeeded.
LEMMA SucceedInv ==
    ASSUME IInv, TypeOK', [Next]_vars, NEW r \in Requests, NEW f \in Files,
           AtEntry(r, "reread", f), Succeed(r, f)
    PROVE  (\A q \in Requests : ReqInv(q)') /\ InsertsDisjoint'
<1>1. /\ req'[r] = [pc |-> "files", up |-> req[r].up, at |-> req[r].at + 1,
                    good |-> req[r].good \cup {f}, bad |-> req[r].bad]
      /\ \A q \in Requests \ {r} : req'[q] = req[q]
  BY SucceedReq DEF IInv, TypeOK, AtEntry
<1>2. rows \subseteq rows' /\ ReqInv(r) /\ req[r].at \in Nat /\ req[r].up \in Uploads
  BY Monotone DEF IInv, TypeOK, Request, AtEntry
<1>3. f = Entry(r) /\ f \in rows /\ f \in FileSet(req[r].up)
  BY <1>2, EntryInFileSet DEF AtEntry, Entry, ReqInv, InsertedHasRow
<1>4. ASSUME NEW i \in DOMAIN FilesOf[req[r].up], i < req[r].at + 1
      PROVE  FilesOf[req[r].up][i] \in req[r].good \cup {f} \cup req[r].bad
  <2>1. i \in Nat
    BY <1>2, DomainIsNat
  <2>2. CASE i < req[r].at
    BY <2>2, <1>2 DEF ReqInv, LoopCounted, AtEntry
  <2>3. CASE i = req[r].at
    BY <2>3 DEF AtEntry
  <2> QED
    BY <2>1, <2>2, <2>3, <1>2, <1>4
<1>5. ReqInv(r)'
  BY <1>1, <1>2, <1>3, <1>4 DEF ReqInv, CheckedHasObject, InsertedHasRow, GoodIsRecorded,
                                LoopCounted
<1>6. Inserts(r)' \subseteq Inserts(r)
  BY <1>1, <1>3 DEF Inserts, AtEntry
<1> QED
  BY <1>1, <1>5, <1>6, OthersKept

\* Moving on to record entry f, whose object was seen, or to re-read it, when
\* its row was inserted by this very step.
LEMMA GotoInv ==
    ASSUME IInv, TypeOK', [Next]_vars, NEW r \in Requests, NEW f \in Files,
           NEW old \in {"files", "record"}, AtEntry(r, old, f),
           NEW pc \in {"record", "reread"}, Goto(r, pc),
           f \in objects', pc = "reread" => f \in rows' \ rows
    PROVE  (\A q \in Requests : ReqInv(q)') /\ InsertsDisjoint'
<1>1. /\ req'[r] = [req[r] EXCEPT !.pc = pc]
      /\ \A q \in Requests \ {r} : req'[q] = req[q]
  BY GotoReq DEF IInv, TypeOK, AtEntry
<1>2. /\ req'[r].pc = pc /\ req'[r].up = req[r].up /\ req'[r].at = req[r].at
      /\ req'[r].good = req[r].good /\ req'[r].bad = req[r].bad
  BY <1>1 DEF IInv, TypeOK, Request
<1>3. Entry(r)' = f /\ rows \subseteq rows' /\ ReqInv(r)
  BY <1>2, Monotone DEF Entry, AtEntry, IInv
<1>4. ReqInv(r)' /\ Inserts(r)' \subseteq Inserts(r) \cup (rows' \ rows)
  BY <1>2, <1>3 DEF ReqInv, CheckedHasObject, InsertedHasRow, GoodIsRecorded, LoopCounted,
                    Inserts, AtEntry
<1> QED
  BY <1>1, <1>4, OthersKept

\* The loop of a complete that reached its end counted every file.
LEMMA FinishBatchInv ==
    ASSUME IInv, NEW r \in Requests, FinishBatch(r)
    PROVE  BatchInv'
<1> DEFINE v == req[r].up
           row == [status |-> BatchStatus(req[r].good, req[r].bad),
                   good |-> req[r].good, bad |-> req[r].bad]
<1>1. v \in Uploads /\ req[r].at \in Nat \ {0} /\ req[r].at \notin DOMAIN FilesOf[v]
  BY DEF FinishBatch, LoopDone, IInv, TypeOK, Request
<1>2. req[r].good \subseteq rows \cap FileSet(v)
  BY DEF IInv, ReqInv, GoodIsRecorded
<1>3. rows' = rows
  BY DEF FinishBatch
<1>4. ASSUME row.status = "completed"
      PROVE  FileSet(v) \subseteq rows
  <2>1. req[r].bad = {}
    BY <1>4 DEF BatchStatus
  <2>2. \A i \in DOMAIN FilesOf[v] : i < req[r].at
    BY <1>1, DomainIsInterval
  <2>3. \A i \in DOMAIN FilesOf[v] : FilesOf[v][i] \in req[r].good
    BY <2>1, <2>2 DEF IInv, ReqInv, LoopCounted, FinishBatch, LoopDone
  <2> QED
    BY <2>3, <1>2 DEF FileSet
<1>5. CASE batch' = batch
  BY <1>5, <1>3 DEF IInv, BatchInv, BatchNeverOverstates, CompletedIsWhole
<1>6. CASE batch' = [batch EXCEPT ![v] = row]
  <2>1. batch'[v] = row /\ \A w \in Uploads \ {v} : batch'[w] = batch[w]
    BY <1>6, <1>1 DEF IInv, TypeOK
  <2>2. BatchNeverOverstates'
    BY <2>1, <1>2, <1>3 DEF IInv, BatchInv, BatchNeverOverstates
  <2>3. CompletedIsWhole'
    BY <2>1, <1>3, <1>4 DEF IInv, BatchInv, CompletedIsWhole
  <2> QED
    BY <2>2, <2>3 DEF BatchInv
<1> QED
  BY <1>5, <1>6 DEF FinishBatch

\* Any other step leaves the summaries, or creates an empty one.
LEMMA BatchKept ==
    ASSUME IInv, [Next]_vars, UNCHANGED batch
    PROVE  BatchInv'
BY Monotone DEF IInv, BatchInv, BatchNeverOverstates, CompletedIsWhole

LEMMA IInvNext == IInv /\ [Next]_vars => IInv'
<1> SUFFICES ASSUME IInv, [Next]_vars PROVE IInv'
  OBVIOUS
<1> DEFINE Goal == RowHasObject' /\ (\A q \in Requests : ReqInv(q)') /\ InsertsDisjoint' /\ BatchInv'
<1>0. TypeOK' /\ TypeOK /\ RowHasObject /\ rows \subseteq rows' /\ objects \subseteq objects'
  BY TypeNext, Monotone DEF IInv
<1> SUFFICES Goal
  BY <1>0 DEF IInv
<1>1. ASSUME NEW r \in Requests, InitStep(r) PROVE Goal
  <2>1. ASSUME NEW f \in Files, InitFile(r, f) PROVE Goal
    BY <2>1, <1>0, NextEntryInv, BatchKept DEF InitFile, AtEntry, RowHasObject, db
  <2>2. ASSUME NEW f \in Files, RejectInit(r, f) PROVE Goal
    BY <2>2, <1>0, AnswerInv, BatchKept DEF RejectInit, RowHasObject, db
  <2>3. ASSUME FinishInit(r) PROVE Goal
    BY <2>3, <1>0, AnswerInv, BatchKept DEF FinishInit, RowHasObject, db
  <2> QED
    BY <1>1, <2>1, <2>2, <2>3 DEF InitStep
<1>2. ASSUME NEW r \in Requests, CompleteStep(r) PROVE Goal
  <2>1. ASSUME NEW f \in Files, FileMissing(r, f) PROVE Goal
    BY <2>1, <1>0, FailInv, BatchKept DEF FileMissing, AtEntry, RowHasObject, db
  <2>2. ASSUME NEW f \in Files, CompleteMultipart(r, f) PROVE Goal
    <3>1. UNCHANGED db /\ AtEntry(r, "files", f)
      BY <2>2 DEF CompleteMultipart
    <3>2. CASE Fail(r, f)
      BY <3>1, <3>2, <1>0, FailInv, BatchKept DEF AtEntry, RowHasObject, db
    <3>3. CASE Goto(r, "record") /\ objects' = objects \cup {f}
      BY <3>1, <3>3, <1>0, GotoInv, BatchKept DEF RowHasObject, db
    <3> QED
      BY <2>2, <3>2, <3>3 DEF CompleteMultipart
  <2>3. ASSUME NEW f \in Files, HeadObject(r, f) PROVE Goal
    <3>1. UNCHANGED <<db, objects>> /\ AtEntry(r, "files", f)
      BY <2>3 DEF HeadObject, r2
    <3>2. CASE Fail(r, f)
      BY <3>1, <3>2, <1>0, FailInv, BatchKept DEF AtEntry, RowHasObject, db
    <3>3. CASE Goto(r, "record") /\ f \in objects
      BY <3>1, <3>3, <1>0, GotoInv, BatchKept DEF RowHasObject, db
    <3> QED
      BY <2>3, <3>2, <3>3 DEF HeadObject
  <2>4. ASSUME NEW f \in Files, Record(r, f) PROVE Goal
    <3>1. UNCHANGED <<batch, objects>> /\ AtEntry(r, "record", f)
      BY <2>4 DEF Record, r2
    <3>2. f \in objects
      BY <3>1 DEF IInv, ReqInv, CheckedHasObject, Entry, AtEntry
    <3>3. CASE Fail(r, f) /\ UNCHANGED rows
      BY <3>1, <3>3, <1>0, FailInv, BatchKept DEF AtEntry, RowHasObject
    <3>4. CASE f \notin rows /\ rows' = rows \cup {f} /\ Goto(r, "reread")
      BY <3>1, <3>2, <3>4, <1>0, GotoInv, BatchKept DEF RowHasObject
    <3> QED
      BY <2>4, <3>3, <3>4 DEF Record
  <2>5. ASSUME NEW f \in Files, Reread(r, f) PROVE Goal
    <3>1. UNCHANGED <<db, objects>> /\ AtEntry(r, "reread", f)
      BY <2>5 DEF Reread, r2
    <3>2. CASE Succeed(r, f)
      BY <3>1, <3>2, <1>0, SucceedInv, BatchKept DEF RowHasObject, db
    <3>3. CASE Fail(r, f)
      BY <3>1, <3>3, <1>0, FailInv, BatchKept DEF AtEntry, RowHasObject, db
    <3> QED
      BY <2>5, <3>2, <3>3 DEF Reread
  <2>6. ASSUME FinishBatch(r) PROVE Goal
    <3>1. UNCHANGED <<rows, objects>> /\ BatchInv'
      BY <2>6, FinishBatchInv DEF FinishBatch, r2
    <3>2. CASE Answer(r)
      BY <3>1, <3>2, <1>0, AnswerInv DEF RowHasObject
    <3>3. CASE Goto(r, "remove")
      <4>1. /\ req'[r] = [req[r] EXCEPT !.pc = "remove"]
            /\ \A q \in Requests \ {r} : req'[q] = req[q]
        BY <2>6, <3>3, <1>0, GotoReq DEF FinishBatch, LoopDone, TypeOK
      <4>2. /\ req'[r].pc = "remove" /\ req'[r].up = req[r].up /\ req'[r].good = req[r].good
            /\ req[r].pc = "files"
        BY <4>1, <2>6, <1>0 DEF TypeOK, Request, FinishBatch, LoopDone
      <4>3. ReqInv(r)' /\ Inserts(r)' = Inserts(r)
        BY <4>2, <3>1 DEF IInv, ReqInv, CheckedHasObject, InsertedHasRow, GoodIsRecorded,
                          LoopCounted, Inserts
      <4> QED
        BY <4>1, <4>3, <3>1, <1>0, OthersKept DEF RowHasObject
    <3> QED
      BY <2>6, <3>2, <3>3 DEF FinishBatch
  <2>7. ASSUME RemoveManifest(r) PROVE Goal
    BY <2>7, <1>0, AnswerInv, BatchKept DEF RemoveManifest, RowHasObject, db
  <2> QED
    BY <1>2, <2>1, <2>2, <2>3, <2>4, <2>5, <2>6, <2>7 DEF CompleteStep
<1>3. ASSUME NEW r \in Requests, CancelStep(r) PROVE Goal
  <2>1. ASSUME NEW f \in Files, AbortFile(r, f) PROVE Goal
    BY <2>1, <1>0, NextEntryInv, BatchKept DEF AbortFile, AtEntry, RowHasObject, db
  <2>2. ASSUME FinishCancel(r) PROVE Goal
    BY <2>2, <1>0, AnswerInv, BatchKept DEF FinishCancel, RowHasObject, db
  <2> QED
    BY <1>3, <2>1, <2>2 DEF CancelStep
<1>4. ASSUME NEW r \in Requests, NEW u \in Uploads, Arrive(r, u) PROVE Goal
  <2>1. CASE BeginInit(r, u)
    <3>1. UNCHANGED <<rows, objects>> /\ batch' = [batch EXCEPT ![u].status = "created"]
      BY <2>1 DEF BeginInit, r2
    <3>2. \A w \in Uploads : /\ batch'[w].good = batch[w].good
                             /\ batch'[w].status = "completed" => batch[w].status = "completed"
      BY <3>1, <1>0 DEF TypeOK, BatchRow
    <3>3. BatchInv'
      BY <3>1, <3>2 DEF IInv, BatchInv, BatchNeverOverstates, CompletedIsWhole
    <3> QED
      BY <2>1, <3>1, <3>3, <1>0, StartInv DEF BeginInit, RowHasObject
  <2>2. CASE BeginComplete(r, u)
    BY <2>2, <1>0, StartInv, BatchKept DEF BeginComplete, RowHasObject, db
  <2>3. CASE BeginCancel(r, u)
    BY <2>3, <1>0, StartInv, BatchKept DEF BeginCancel, RowHasObject, db
  <2> QED
    BY <1>4, <2>1, <2>2, <2>3 DEF Arrive
<1>5. CASE UNCHANGED <<db, req>>
  <2>1. (\A q \in Requests : ReqInv(q)') /\ InsertsDisjoint'
    BY <1>5, <1>0 DEF IInv, ReqInv, CheckedHasObject, InsertedHasRow, GoodIsRecorded,
                      LoopCounted, InsertsDisjoint, Inserts, Entry, db
  <2> QED
    BY <1>5, <1>0, <2>1, BatchKept DEF RowHasObject, db
<1>6. ASSUME NEW u \in Uploads, Outside(u) PROVE Goal
  BY <1>5, <1>6 DEF Outside, PutObject, PutParts, Expire, Drain, ExpiredComplete, db
<1>7. CASE Crash
  <2>1. \A q \in Requests : req'[q] = Idle
    BY <1>7 DEF Crash
  <2>2. \A q \in Requests : ReqInv(q)' /\ Inserts(q)' = {}
    BY <2>1 DEF ReqInv, CheckedHasObject, InsertedHasRow, GoodIsRecorded, LoopCounted,
                Inserts, Idle
  <2> QED
    BY <1>7, <1>0, <2>2, BatchKept DEF Crash, RowHasObject, InsertsDisjoint, db
<1>8. CASE UNCHANGED vars
  BY <1>5, <1>8 DEF vars, db
<1> QED
  BY <1>1, <1>2, <1>3, <1>4, <1>6, <1>7, <1>8 DEF Next, Handle

LEMMA InductiveInvariant == Spec => []IInv
BY IInvInit, IInvNext, PTL DEF Spec

\* The objects of recorded files stay in R2, whatever completes, cancels,
\* expiries and restarts do.
THEOREM RowsHaveObjects == Spec => []RowHasObject
BY InductiveInvariant, PTL DEF IInv

\* A summary reports only files that have a row.
THEOREM SummariesAreSound == Spec => []BatchNeverOverstates
<1>1. IInv => BatchNeverOverstates
  BY DEF IInv, BatchInv
<1> QED
  BY <1>1, InductiveInvariant, PTL

\* No file is counted by two of the completes that are under way.
THEOREM FilesCountedOnce == Spec => []NoDoubleCount
<1>1. IInv => NoDoubleCount
  BY DEF IInv, InsertsDisjoint, Inserts, NoDoubleCount
<1> QED
  BY <1>1, InductiveInvariant, PTL

\* A batch that reads "completed" has a row for every file of its manifest.
THEOREM CompletedBatchesAreWhole == Spec => []CompletedIsWhole
<1>1. IInv => CompletedIsWhole
  BY DEF IInv, BatchInv
<1> QED
  BY <1>1, InductiveInvariant, PTL

-----------------------------------------------------------------------------
(* When a manifest may go.  A complete on its way to remove it has recorded *)
(* every file of the session, and rows stay.                                *)

RemoverIsWhole ==
    \A r \in Requests : req[r].pc = "remove" => FileSet(req[r].up) \subseteq rows

LEMMA ArriveReq ==
    ASSUME TypeOK, NEW q \in Requests, NEW u \in Uploads, Arrive(q, u), NEW r \in Requests,
           req'[r].pc = "remove"
    PROVE  req'[r] = req[r]
<1>1. PICK pc \in {"init", "files", "abort"} : Start(q, pc, u)
  BY DEF Arrive, BeginInit, BeginComplete, BeginCancel
<1>2. req'[q] = [pc |-> pc, up |-> u, at |-> 1, good |-> {}, bad |-> {}]
  BY <1>1, StartReq
<1>3. \A p \in Requests \ {q} : req'[p] = req[p]
  BY <1>1, StartReq
<1>4. q # r
  BY <1>2
<1> QED
  BY <1>3, <1>4

\* Only the end of a loop leads to "remove"; other steps leave a request there
\* alone, or end it.
LEMMA RemoverBefore ==
    ASSUME TypeOK, [Next]_vars, NEW r \in Requests, req'[r].pc = "remove"
    PROVE  \/ req'[r] = req[r]
           \/ FinishBatch(r) /\ req[r].bad = {} /\ req'[r].up = req[r].up
<1> USE DEF TypeOK
<1>1. ASSUME NEW q \in Requests, NEW f \in Files,
             \/ InitFile(q, f) \/ RejectInit(q, f) \/ FileMissing(q, f)
             \/ CompleteMultipart(q, f) \/ HeadObject(q, f) \/ Record(q, f)
             \/ Reread(q, f) \/ AbortFile(q, f)
      PROVE  req'[r] = req[r]
  <2>1. \/ NextEntry(q) /\ req[q].pc \in {"init", "abort"}
        \/ Answer(q) \/ Fail(q, f) \/ Succeed(q, f) \/ Goto(q, "record") \/ Goto(q, "reread")
    BY <1>1 DEF InitFile, RejectInit, FileMissing, CompleteMultipart, HeadObject, Record,
                Reread, AbortFile, AtEntry
  <2>2. q # r
    BY <2>1 DEF NextEntry, Answer, Fail, Succeed, Goto, Idle, Request
  <2> QED
    BY <2>1, <2>2 DEF NextEntry, Answer, Fail, Succeed, Goto
<1>2. ASSUME NEW q \in Requests, FinishInit(q) \/ RemoveManifest(q) \/ FinishCancel(q)
      PROVE  req'[r] = req[r]
  BY <1>2 DEF FinishInit, RemoveManifest, FinishCancel, Answer, Idle
<1>3. ASSUME NEW q \in Requests, FinishBatch(q)
      PROVE  \/ req'[r] = req[r]
             \/ FinishBatch(r) /\ req[r].bad = {} /\ req'[r].up = req[r].up
  <2>1. CASE q = r
    BY <1>3, <2>1 DEF FinishBatch, Goto, Answer, Idle, Request
  <2>2. CASE q # r
    BY <1>3, <2>2 DEF FinishBatch, Goto, Answer
  <2> QED
    BY <2>1, <2>2
<1>4. ASSUME NEW q \in Requests, NEW u \in Uploads, Arrive(q, u)
      PROVE  req'[r] = req[r]
  BY <1>4, ArriveReq
<1>5. ASSUME NEW u \in Uploads, Outside(u) PROVE req' = req
  BY <1>5 DEF Outside, PutObject, PutParts, Expire, Drain, ExpiredComplete
<1>6. ~Crash
  BY DEF Crash, Idle
<1>7. CASE UNCHANGED vars
  BY <1>7 DEF vars
<1> QED
  BY <1>1, <1>2, <1>3, <1>4, <1>5, <1>6, <1>7
  DEF Next, Handle, InitStep, CompleteStep, CancelStep

LEMMA RemoverNext ==
    ASSUME IInv, RemoverIsWhole, [Next]_vars
    PROVE  RemoverIsWhole'
<1> SUFFICES ASSUME NEW r \in Requests, req'[r].pc = "remove"
             PROVE  FileSet(req'[r].up) \subseteq rows'
  BY DEF RemoverIsWhole, FileSet
<1>1. TypeOK /\ rows \subseteq rows'
  BY Monotone DEF IInv
<1>2. CASE req'[r] = req[r]
  BY <1>1, <1>2 DEF RemoverIsWhole
<1>3. CASE FinishBatch(r) /\ req[r].bad = {} /\ req'[r].up = req[r].up
  <2> DEFINE v == req[r].up
  <2>1. v \in Uploads /\ req[r].at \in Nat \ {0} /\ req[r].at \notin DOMAIN FilesOf[v]
    BY <1>3 DEF FinishBatch, LoopDone, IInv, TypeOK, Request
  <2>2. \A i \in DOMAIN FilesOf[v] : i < req[r].at
    BY <2>1, DomainIsInterval
  <2>3. \A i \in DOMAIN FilesOf[v] : FilesOf[v][i] \in req[r].good
    BY <1>3, <2>2 DEF IInv, ReqInv, LoopCounted, FinishBatch, LoopDone
  <2>4. req[r].good \subseteq rows
    BY DEF IInv, ReqInv, GoodIsRecorded
  <2> QED
    BY <1>1, <1>3, <2>3, <2>4 DEF FileSet
<1> QED
  BY <1>1, <1>2, <1>3, RemoverBefore

\* Who takes a manifest away.
LEMMA ManifestGoes ==
    ASSUME IInv, RemoverIsWhole, [Next]_vars, NEW u \in saved \ saved'
    PROVE  \/ age[u] # "fresh"
           \/ \E r \in Requests : req[r].pc = "abort" /\ req[r].up = u
           \/ FileSet(u) \subseteq rows
<1> USE DEF db, r2
<1>1. ASSUME NEW r \in Requests, RemoveManifest(r) PROVE FileSet(u) \subseteq rows
  BY <1>1 DEF RemoveManifest, RemoverIsWhole
<1>2. ASSUME NEW r \in Requests, FinishCancel(r) PROVE req[r].pc = "abort" /\ req[r].up = u
  BY <1>2 DEF FinishCancel, LoopDone
<1>3. ASSUME NEW w \in Uploads, Outside(w) PROVE age[u] # "fresh"
  BY <1>3 DEF Outside, PutObject, PutParts, Expire, Drain, ExpiredComplete
<1>4. ASSUME NEW r \in Requests, Handle(r), ~RemoveManifest(r), ~FinishCancel(r) PROVE FALSE
  BY <1>4 DEF Handle, InitStep, CompleteStep, CancelStep, InitFile, RejectInit, FinishInit,
              FileMissing, CompleteMultipart, HeadObject, Record, Reread, FinishBatch, AbortFile
<1>5. ASSUME NEW r \in Requests, NEW w \in Uploads, Arrive(r, w) PROVE FALSE
  BY <1>5 DEF Arrive, BeginInit, BeginComplete, BeginCancel
<1>6. ~Crash /\ ~UNCHANGED vars
  BY DEF Crash, vars
<1> QED
  BY <1>1, <1>2, <1>3, <1>4, <1>5, <1>6 DEF Next

\* A live session keeps its manifest, and with it the chance of another
\* complete, until it is cancelled or all its files are recorded.
THEOREM ManifestsAreKept == Spec => ManifestKeptUntilWhole
<1>1. Init => RemoverIsWhole
  BY DEF Init, Idle, RemoverIsWhole
<1>2. IInv /\ RemoverIsWhole /\ [Next]_vars => RemoverIsWhole'
  BY RemoverNext
<1>3. IInv /\ RemoverIsWhole /\ [Next]_vars =>
        [\A u \in saved \ saved' :
            \/ age[u] # "fresh"
            \/ \E r \in Requests : req[r].pc = "abort" /\ req[r].up = u
            \/ FileSet(u) \subseteq rows]_vars
  BY ManifestGoes
<1> QED
  BY <1>1, <1>2, <1>3, InductiveInvariant, PTL DEF Spec, ManifestKeptUntilWhole

-----------------------------------------------------------------------------
(* The direct upload implements the abstract ledger: a step that inserts a  *)
(* row is Record, one that adds an object is Store, the UPDATE of a summary *)
(* is Report, and every other step leaves the ledger alone.                 *)

LEMMA LedgerInit == Init => Ledger!Init
BY DEF Init, Ledger!Init

LEMMA LedgerStep ==
    ASSUME IInv, [Next]_vars
    PROVE  [Ledger!Next]_(Ledger!ledger)
<1> USE DEF Ledger!Next, Ledger!ledger, db, r2
<1> DEFINE reported == [u \in Uploads |-> batch[u].good]
           Same == UNCHANGED <<objects, rows, reported>>
<1>0. TypeOK
  BY DEF IInv
<1> SUFFICES \/ Same
             \/ \E f \in Files : Ledger!Store(f) \/ Ledger!Record(f)
             \/ \E u \in Uploads : \E S \in SUBSET Files : Ledger!Report(u, S)
  OBVIOUS
<1>1. ASSUME UNCHANGED <<rows, objects, batch>> PROVE Same
  BY <1>1
<1>2. ASSUME NEW f \in Files, UNCHANGED db, objects' = objects \cup {f}
      PROVE  Ledger!Store(f)
  BY <1>2 DEF Ledger!Store
<1>3. ASSUME NEW r \in Requests, NEW f \in Files, Record(r, f)
      PROVE  Same \/ Ledger!Record(f)
  <2>1. f \in objects
    BY <1>3 DEF Record, AtEntry, Entry, IInv, ReqInv, CheckedHasObject
  <2> QED
    BY <1>3, <2>1 DEF Record, Ledger!Record
<1>4. ASSUME NEW r \in Requests, FinishBatch(r)
      PROVE  Same \/ \E u \in Uploads : \E S \in SUBSET Files : Ledger!Report(u, S)
  <2>1. CASE UNCHANGED batch
    BY <1>4, <2>1 DEF FinishBatch
  <2>2. CASE batch' = [batch EXCEPT ![req[r].up] =
                         [status |-> BatchStatus(req[r].good, req[r].bad),
                          good |-> req[r].good, bad |-> req[r].bad]]
    <3>1. req[r].up \in Uploads /\ req[r].good \in SUBSET Files
      BY <1>4, <1>0 DEF FinishBatch, LoopDone, TypeOK, Request
    <3>2. req[r].good \subseteq rows \cap FileSet(req[r].up)
      BY DEF IInv, ReqInv, GoodIsRecorded
    <3>3. reported' = [reported EXCEPT ![req[r].up] = req[r].good]
      <4>1. \A w \in Uploads :
               batch'[w].good = IF w = req[r].up THEN req[r].good ELSE batch[w].good
        BY <2>2, <3>1, <1>0 DEF TypeOK
      <4> QED
        BY <4>1, <3>1
    <3>4. ASSUME NEW u \in Uploads, NEW S \in SUBSET Files, u = req[r].up, S = req[r].good
          PROVE  Ledger!Report(u, S)
      <4>1. S \subseteq rows \cap [w \in Uploads |-> FileSet(w)][u]
        BY <3>2, <3>4
      <4>2. UNCHANGED <<objects, rows>>
        BY <1>4 DEF FinishBatch
      <4> QED
        BY <4>1, <4>2, <3>3, <3>4 DEF Ledger!Report
    <3> QED
      BY <3>1, <3>4
  <2> QED
    BY <1>4, <2>1, <2>2 DEF FinishBatch
<1>5. ASSUME NEW r \in Requests, NEW u \in Uploads, BeginInit(r, u)
      PROVE  Same
  <2>1. \A w \in Uploads : batch'[w].good = batch[w].good
    BY <1>5, <1>0 DEF BeginInit, TypeOK, BatchRow
  <2> QED
    BY <1>5, <2>1 DEF BeginInit
<1>6. ASSUME NEW r \in Requests, NEW f \in Files, CompleteMultipart(r, f)
      PROVE  Same \/ Ledger!Store(f)
  BY <1>1, <1>2, <1>6 DEF CompleteMultipart
<1>7. ASSUME NEW u \in Uploads, NEW f \in Files, PutObject(u, f)
      PROVE  Ledger!Store(f)
  BY <1>2, <1>7 DEF PutObject
<1>8. ASSUME NEW r \in Requests, CompleteStep(r)
      PROVE  \/ Same \/ \E f \in Files : Ledger!Store(f) \/ Ledger!Record(f)
             \/ \E u \in Uploads : \E S \in SUBSET Files : Ledger!Report(u, S)
  <2>1. ASSUME NEW f \in Files, FileMissing(r, f) \/ HeadObject(r, f) \/ Reread(r, f)
        PROVE  Same
    BY <2>1, <1>1 DEF FileMissing, HeadObject, Reread
  <2>2. ASSUME RemoveManifest(r) PROVE Same
    BY <2>2, <1>1 DEF RemoveManifest
  <2> QED
    BY <1>8, <1>3, <1>4, <1>6, <2>1, <2>2 DEF CompleteStep
<1>9. ASSUME NEW r \in Requests, InitStep(r) \/ CancelStep(r) PROVE Same
  BY <1>9, <1>1 DEF InitStep, CancelStep, InitFile, RejectInit, FinishInit, AbortFile,
                    FinishCancel
<1>10. ASSUME NEW r \in Requests, NEW u \in Uploads, Arrive(r, u) PROVE Same
  BY <1>10, <1>1, <1>5 DEF Arrive, BeginComplete, BeginCancel
<1>11. ASSUME NEW u \in Uploads, Outside(u)
       PROVE  Same \/ \E f \in Files : Ledger!Store(f)
  BY <1>11, <1>1, <1>7 DEF Outside, PutParts, Expire, Drain, ExpiredComplete
<1>12. CASE Crash
  BY <1>12, <1>1 DEF Crash
<1>13. CASE UNCHANGED vars
  BY <1>13, <1>1 DEF vars
<1> QED
  BY <1>8, <1>9, <1>10, <1>11, <1>12, <1>13 DEF Next, Handle

\* Every behaviour of the upload handlers is one of the abstract ledger.
THEOREM ImplementsLedger == Spec => LedgerSpec
<1>1. IInv /\ [Next]_vars => [Ledger!Next]_(Ledger!ledger)
  BY LedgerStep
<1> QED
  BY <1>1, LedgerInit, InductiveInvariant, PTL DEF Spec, LedgerSpec, Ledger!Spec

-----------------------------------------------------------------------------
(* Handlers end.  The measure counts the steps a request may still take: at *)
(* most three for each entry of its manifest, and three to finish.          *)

StepsLeft(u, at) == 3 * (Len(FilesOf[u]) + 1 - at)

ToGo(r) ==
    CASE req[r].pc = "idle"   -> 0
      [] req[r].pc = "remove" -> 1
      [] req[r].pc = "reread" -> StepsLeft(req[r].up, req[r].at) + 1
      [] req[r].pc = "record" -> StepsLeft(req[r].up, req[r].at) + 2
      [] req[r].pc \in {"init", "files", "abort"} -> StepsLeft(req[r].up, req[r].at) + 3

\* No loop runs past the entry after the last one of its manifest.
LoopInRange ==
    \A r \in Requests : req[r].pc # "idle" => req[r].at <= Len(FilesOf[req[r].up]) + 1

\* What is left of a request is a number of steps that the length of its
\* manifest bounds; only an answered request has nothing left.
WorkBounded ==
    \A r \in Requests :
        IF req[r].pc = "idle" THEN ToGo(r) = 0
        ELSE ToGo(r) \in 1 .. 3 * (Len(FilesOf[req[r].up]) + 1)

\* Every step of a handler brings it nearer to its answer, and no other step
\* of anybody takes it back: no retry, late answer or restart begins an entry
\* again.  With the scheduler's fairness every request is answered.
HandlersAdvance ==
    [][\A r \in Requests :
          /\ Handle(r) => ToGo(r)' < ToGo(r)
          /\ req[r].pc # "idle" /\ req'[r] # req[r] => ToGo(r)' < ToGo(r)]_vars

LEMMA ManifestLength ==
    ASSUME NEW u \in Uploads
    PROVE  Len(FilesOf[u]) \in Nat /\ DOMAIN FilesOf[u] = 1 .. Len(FilesOf[u])
<1>1. FilesOf[u] \in Seq(Files)
  BY FilesOfAssumption
<1> QED
  BY <1>1

\* How a request that is under way may change: it is answered, goes on to the
\* next entry, further within its entry, or from the end of its loop to the
\* removal of the manifest.
Ahead(r) ==
    \/ req'[r].pc = "idle"
    \/ /\ req'[r].up = req[r].up
       /\ \/ /\ req[r].at \in DOMAIN FilesOf[req[r].up]
             /\ req'[r].at = req[r].at + 1
             /\ \/ req'[r].pc = req[r].pc /\ req[r].pc \in {"init", "abort"}
                \/ req'[r].pc = "files" /\ req[r].pc \in {"files", "record", "reread"}
          \/ /\ req'[r].at = req[r].at
             /\ <<req[r].pc, req'[r].pc>> \in
                   {<<"files", "record">>, <<"record", "reread">>, <<"files", "remove">>}

LEMMA HandleGoesAhead ==
    ASSUME TypeOK, NEW r \in Requests, Handle(r)
    PROVE  /\ req[r].pc # "idle" /\ Ahead(r)
           /\ \A q \in Requests \ {r} : req'[q] = req[q]
<1> DEFINE Goal == /\ req[r].pc # "idle" /\ Ahead(r)
                   /\ \A q \in Requests \ {r} : req'[q] = req[q]
<1> SUFFICES Goal
  OBVIOUS
<1> HIDE DEF Goal
<1>1. ASSUME Answer(r), req[r].pc # "idle" PROVE Goal
  <2>1. req'[r] = Idle /\ \A q \in Requests \ {r} : req'[q] = req[q]
    BY <1>1, AnswerReq
  <2>2. req'[r].pc = "idle"
    BY <2>1 DEF Idle
  <2> QED
    BY <1>1, <2>1, <2>2 DEF Ahead, Goal
<1>2. ASSUME NEW f \in Files, NEW pc \in {"init", "abort"}, AtEntry(r, pc, f), NextEntry(r)
      PROVE  Goal
  <2>1. /\ \A q \in Requests \ {r} : req'[q] = req[q]
        /\ req'[r] = [req[r] EXCEPT !.at = req[r].at + 1]
    BY <1>2, NextEntryReq DEF AtEntry
  <2>2. req'[r].pc = req[r].pc /\ req'[r].up = req[r].up /\ req'[r].at = req[r].at + 1
    BY <2>1 DEF TypeOK, Request
  <2> QED
    BY <1>2, <2>1, <2>2 DEF Ahead, AtEntry, Goal
<1>3. ASSUME NEW f \in Files, NEW pc \in {"files", "record", "reread"}, AtEntry(r, pc, f),
             Fail(r, f) \/ Succeed(r, f)
      PROVE  Goal
  <2>1. req[r].up \in Uploads /\ req[r].pc = pc /\ req[r].at \in DOMAIN FilesOf[req[r].up]
    BY <1>3 DEF AtEntry, TypeOK
  <2>2. /\ \A q \in Requests \ {r} : req'[q] = req[q]
        /\ req'[r].pc = "files" /\ req'[r].up = req[r].up /\ req'[r].at = req[r].at + 1
    <3>1. CASE Fail(r, f)
      <4>1. /\ \A q \in Requests \ {r} : req'[q] = req[q]
            /\ req'[r] = [pc |-> "files", up |-> req[r].up, at |-> req[r].at + 1,
                          good |-> req[r].good, bad |-> req[r].bad \cup {f}]
        BY <2>1, <3>1, FailReq
      <4> QED
        BY <4>1
    <3>2. CASE Succeed(r, f)
      <4>1. /\ \A q \in Requests \ {r} : req'[q] = req[q]
            /\ req'[r] = [pc |-> "files", up |-> req[r].up, at |-> req[r].at + 1,
                          good |-> req[r].good \cup {f}, bad |-> req[r].bad]
        BY <2>1, <3>2, SucceedReq
      <4> QED
        BY <4>1
    <3> QED
      BY <1>3, <3>1, <3>2
  <2> QED
    BY <2>1, <2>2 DEF Ahead, Goal
<1>4. ASSUME NEW old \in {"files", "record"}, NEW new \in {"record", "reread", "remove"},
             <<old, new>> \in {<<"files", "record">>, <<"record", "reread">>, <<"files", "remove">>},
             req[r].pc = old, Goto(r, new),
             new = "remove" \/ req[r].at \in DOMAIN FilesOf[req[r].up]
      PROVE  Goal
  <2>1. req[r].up \in Uploads
    BY <1>4 DEF TypeOK
  <2>2. /\ \A q \in Requests \ {r} : req'[q] = req[q]
        /\ req'[r] = [req[r] EXCEPT !.pc = new]
    BY <1>4, <2>1, GotoReq
  <2>3. req'[r].pc = new /\ req'[r].up = req[r].up /\ req'[r].at = req[r].at
    BY <2>2 DEF TypeOK, Request
  <2> QED
    BY <1>4, <2>2, <2>3 DEF Ahead, Goal
<1>5. CASE InitStep(r)
  BY <1>1, <1>2, <1>5 DEF InitStep, InitFile, RejectInit, FinishInit, AtEntry, LoopDone
<1>6. CASE CancelStep(r)
  BY <1>1, <1>2, <1>6 DEF CancelStep, AbortFile, FinishCancel, LoopDone
<1>7. ASSUME NEW f \in Files,
             FileMissing(r, f) \/ CompleteMultipart(r, f) \/ HeadObject(r, f)
      PROVE  Goal
  <2>1. AtEntry(r, "files", f) /\ (Fail(r, f) \/ Goto(r, "record"))
    BY <1>7 DEF FileMissing, CompleteMultipart, HeadObject
  <2> QED
    BY <1>3, <1>4, <2>1 DEF AtEntry
<1>8. ASSUME NEW f \in Files, Record(r, f) PROVE Goal
  BY <1>3, <1>4, <1>8 DEF Record, AtEntry
<1>9. ASSUME NEW f \in Files, Reread(r, f) PROVE Goal
  BY <1>3, <1>9 DEF Reread
<1>10. CASE FinishBatch(r)
  BY <1>1, <1>4, <1>10 DEF FinishBatch, LoopDone
<1>11. CASE RemoveManifest(r)
  BY <1>1, <1>11 DEF RemoveManifest
<1> QED
  BY <1>5, <1>6, <1>7, <1>8, <1>9, <1>10, <1>11 DEF Handle, CompleteStep

\* What any step of the system may do to one request.
LEMMA RequestChanges ==
    ASSUME TypeOK, [Next]_vars, NEW r \in Requests
    PROVE  \/ req'[r] = req[r] \/ req'[r].pc = "idle"
           \/ req[r].pc # "idle" /\ Ahead(r)
           \/ /\ req[r].pc = "idle" /\ req'[r].at = 1
              /\ req'[r].pc \in {"init", "files", "abort"} /\ req'[r].up \in Uploads
<1>1. ASSUME NEW q \in Requests, Handle(q)
      PROVE  req'[r] = req[r] \/ (req[r].pc # "idle" /\ Ahead(r))
  BY <1>1, HandleGoesAhead
<1>2. ASSUME NEW q \in Requests, NEW u \in Uploads, Arrive(q, u)
      PROVE  \/ req'[r] = req[r]
             \/ /\ req[r].pc = "idle" /\ req'[r].at = 1
                /\ req'[r].pc \in {"init", "files", "abort"} /\ req'[r].up \in Uploads
  <2>1. PICK pc \in {"init", "files", "abort"} : Start(q, pc, u)
    BY <1>2 DEF Arrive, BeginInit, BeginComplete, BeginCancel
  <2>2. /\ req'[q] = [pc |-> pc, up |-> u, at |-> 1, good |-> {}, bad |-> {}]
        /\ \A p \in Requests \ {q} : req'[p] = req[p]
    BY <2>1, StartReq
  <2>3. req[q].pc = "idle"
    BY <2>1 DEF Start
  <2> QED
    BY <2>2, <2>3
<1>3. ASSUME NEW u \in Uploads, Outside(u) PROVE req'[r] = req[r]
  BY <1>3 DEF Outside, PutObject, PutParts, Expire, Drain, ExpiredComplete
<1>4. CASE Crash
  BY <1>4 DEF Crash, Idle
<1>5. CASE UNCHANGED vars
  BY <1>5 DEF vars
<1> QED
  BY <1>1, <1>2, <1>3, <1>4, <1>5 DEF Next

LEMMA RangeNext ==
    ASSUME TypeOK, LoopInRange, [Next]_vars
    PROVE  LoopInRange'
<1> SUFFICES ASSUME NEW r \in Requests, req'[r].pc # "idle"
             PROVE  req'[r].at <= Len(FilesOf[req'[r].up]) + 1
  BY DEF LoopInRange
<1>1. CASE req'[r] = req[r]
  BY <1>1 DEF LoopInRange
<1>2. CASE req[r].pc # "idle" /\ Ahead(r)
  <2> DEFINE u == req[r].up
             at == req[r].at
             n == Len(FilesOf[u])
  <2>1. u \in Uploads /\ at \in Nat /\ at <= n + 1 /\ req'[r].up = u
    BY <1>2 DEF TypeOK, Request, LoopInRange, Ahead
  <2>2. n \in Nat /\ DOMAIN FilesOf[u] = 1 .. n
    BY <2>1, ManifestLength
  <2>3. req'[r].at = at \/ (at \in 1 .. n /\ req'[r].at = at + 1)
    BY <1>2, <2>2 DEF Ahead
  <2> HIDE DEF u, at, n
  <2>4. req'[r].at <= n + 1
    BY <2>1, <2>2, <2>3
  <2> QED
    BY <2>1, <2>4 DEF n
<1>3. CASE req'[r].at = 1 /\ req'[r].up \in Uploads
  BY <1>3, ManifestLength
<1> QED
  BY <1>1, <1>2, <1>3, RequestChanges

LEMMA ToGoBounds ==
    ASSUME TypeOK, LoopInRange, NEW r \in Requests, req[r].pc # "idle"
    PROVE  ToGo(r) \in 1 .. 3 * (Len(FilesOf[req[r].up]) + 1)
<1> DEFINE u == req[r].up
           at == req[r].at
           n == Len(FilesOf[u])
<1>1. /\ u \in Uploads /\ at \in Nat \ {0} /\ at <= n + 1
      /\ req[r].pc \in {"init", "files", "record", "reread", "remove", "abort"}
      /\ req[r].pc \in {"record", "reread"} => at \in DOMAIN FilesOf[u]
  BY DEF TypeOK, Request, LoopInRange
<1>2. n \in Nat /\ (req[r].pc \in {"record", "reread"} => at <= n)
  BY <1>1, ManifestLength
<1>3. StepsLeft(u, at) = 3 * (n + 1 - at)
  BY DEF StepsLeft
<1>4. /\ StepsLeft(u, at) \in Nat /\ StepsLeft(u, at) <= 3 * n
      /\ req[r].pc \in {"record", "reread"} => StepsLeft(u, at) >= 3
  <2> HIDE DEF u, at, n
  <2> QED
    BY <1>1, <1>2, <1>3
<1>5. ToGo(r) = CASE req[r].pc = "remove" -> 1
                  [] req[r].pc = "reread" -> StepsLeft(u, at) + 1
                  [] req[r].pc = "record" -> StepsLeft(u, at) + 2
                  [] req[r].pc \in {"init", "files", "abort"} -> StepsLeft(u, at) + 3
  BY <1>1 DEF ToGo
<1>6. ToGo(r) \in 1 .. 3 * (n + 1)
  <2> DEFINE left == StepsLeft(u, at)
  <2> HIDE DEF u, at, n, left
  <2>1. left \in Nat /\ left <= 3 * n
    BY <1>4 DEF left
  <2>2. ToGo(r) \in {1, left + 1, left + 2, left + 3}
    BY <1>1, <1>5 DEF left
  <2> QED
    BY <1>2, <2>1, <2>2
<1> QED
  BY <1>6

\* Going ahead uses up at least one of the steps that are left.
LEMMA AheadIsLess ==
    ASSUME TypeOK, LoopInRange, TypeOK', NEW r \in Requests, req[r].pc # "idle", Ahead(r)
    PROVE  ToGo(r)' < ToGo(r)
<1>1. ToGo(r) \in Nat \ {0}
  BY ToGoBounds, ManifestLength DEF TypeOK
<1>2. CASE req'[r].pc = "idle"
  <2>1. ToGo(r)' = 0
    BY <1>2 DEF ToGo
  <2> QED
    BY <1>1, <2>1
<1>3. CASE req'[r].pc # "idle"
  <2> DEFINE u == req[r].up
             at == req[r].at
             n == Len(FilesOf[u])
  <2>1. u \in Uploads /\ at \in Nat \ {0} /\ at <= n + 1 /\ req'[r].up = u
    BY <1>3 DEF TypeOK, Request, LoopInRange, Ahead
  <2>2. n \in Nat /\ DOMAIN FilesOf[u] = 1 .. n
    BY <2>1, ManifestLength
  <2>3. ASSUME at \in DOMAIN FilesOf[u], req'[r].at = at + 1,
               req'[r].pc \in {"init", "files", "abort"},
               req[r].pc \in {"init", "files", "abort", "record", "reread"}
        PROVE  ToGo(r)' < ToGo(r)
    <3>1. ToGo(r)' = 3 * (n + 1 - (at + 1)) + 3
      BY <2>1, <2>3 DEF ToGo, StepsLeft
    <3>2. ToGo(r) \in {3 * (n + 1 - at) + 1, 3 * (n + 1 - at) + 2, 3 * (n + 1 - at) + 3}
      BY <2>3 DEF ToGo, StepsLeft
    <3> HIDE DEF u, at, n
    <3> QED
      BY <2>1, <2>2, <3>1, <3>2
  <2>4. ASSUME req'[r].at = at,
               <<req[r].pc, req'[r].pc>> \in
                 {<<"files", "record">>, <<"record", "reread">>, <<"files", "remove">>}
        PROVE  ToGo(r)' < ToGo(r)
    <3>1. CASE req'[r].pc = "remove"
      <4>1. req[r].pc = "files"
        BY <2>4, <3>1
      <4>2. ToGo(r)' = 1 /\ ToGo(r) = 3 * (n + 1 - at) + 3
        BY <3>1, <4>1 DEF ToGo, StepsLeft
      <4> HIDE DEF u, at, n
      <4> QED
        BY <2>1, <2>2, <4>2
    <3>2. CASE req'[r].pc = "record"
      <4>1. req[r].pc = "files"
        BY <2>4, <3>2
      <4>2. ToGo(r)' = 3 * (n + 1 - at) + 2 /\ ToGo(r) = 3 * (n + 1 - at) + 3
        BY <2>1, <2>4, <3>2, <4>1 DEF ToGo, StepsLeft
      <4> HIDE DEF u, at, n
      <4> QED
        BY <2>1, <2>2, <4>2
    <3>3. CASE req'[r].pc = "reread"
      <4>1. req[r].pc = "record"
        BY <2>4, <3>3
      <4>2. ToGo(r)' = 3 * (n + 1 - at) + 1 /\ ToGo(r) = 3 * (n + 1 - at) + 2
        BY <2>1, <2>4, <3>3, <4>1 DEF ToGo, StepsLeft
      <4> HIDE DEF u, at, n
      <4> QED
        BY <2>1, <2>2, <4>2
    <3> QED
      BY <2>4, <3>1, <3>2, <3>3
  <2> QED
    BY <1>3, <2>3, <2>4 DEF Ahead
<1> QED
  BY <1>2, <1>3

\* No request has more left to do than the length of its manifest allows, and
\* every step it takes, or anybody takes on its behalf, leaves it less.
THEOREM HandlersEnd == Spec => []WorkBounded /\ HandlersAdvance
<1> DEFINE Inv == TypeOK /\ LoopInRange
           Step == \A r \in Requests :
                      /\ Handle(r) => ToGo(r)' < ToGo(r)
                      /\ req[r].pc # "idle" /\ req'[r] # req[r] => ToGo(r)' < ToGo(r)
<1>1. Init => Inv
  BY TypeInit DEF Init, Idle, LoopInRange
<1>2. Inv /\ [Next]_vars => Inv'
  BY TypeNext, RangeNext
<1>3. Inv => WorkBounded
  BY ToGoBounds DEF WorkBounded, ToGo
<1>4. Inv /\ [Next]_vars => [Step]_vars
  <2> SUFFICES ASSUME Inv, Next, NEW r \in Requests
               PROVE  /\ Handle(r) => ToGo(r)' < ToGo(r)
                      /\ req[r].pc # "idle" /\ req'[r] # req[r] => ToGo(r)' < ToGo(r)
    OBVIOUS
  <2>1. TypeOK'
    BY TypeNext
  <2>2. Handle(r) => ToGo(r)' < ToGo(r)
    BY <2>1, HandleGoesAhead, AheadIsLess
  <2>3. ASSUME req[r].pc # "idle", req'[r] # req[r] PROVE ToGo(r)' < ToGo(r)
    <3>1. Ahead(r)
      BY <2>3, RequestChanges DEF Ahead
    <3> QED
      BY <2>1, <2>3, <3>1, AheadIsLess
  <2> QED
    BY <2>2, <2>3
<1> HIDE DEF Inv, Step
<1>5. Spec => []WorkBounded /\ [][Step]_vars
  BY <1>1, <1>2, <1>3, <1>4, PTL DEF Spec
<1> QED
  BY <1>5 DEF HandlersAdvance, Step

-----------------------------------------------------------------------------
(* Every file of a session is counted exactly once                          *)

InLoop(r) == req[r].pc \in {"files", "record", "reread"}

\* The files a loop has left behind.
Passed(r) == {FilesOf[req[r].up][i] : i \in {j \in DOMAIN FilesOf[req[r].up] : j < req[r].at}}

CountsPassed(r) ==
    InLoop(r) => req[r].good \cup req[r].bad = Passed(r) /\ req[r].good \cap req[r].bad = {}

\* What a step does to the counters of a request whose loop goes on.
CountsKept(r) ==
    /\ InLoop(r)
    /\ req'[r].up = req[r].up /\ req'[r].at = req[r].at
    /\ req'[r].good = req[r].good /\ req'[r].bad = req[r].bad

CountsOne(r) ==
    \E f \in Files :
       /\ AtEntry(r, req[r].pc, f) /\ InLoop(r)
       /\ req'[r].up = req[r].up /\ req'[r].at = req[r].at + 1
       /\ \/ req'[r].good = req[r].good \cup {f} /\ req'[r].bad = req[r].bad
          \/ req'[r].good = req[r].good /\ req'[r].bad = req[r].bad \cup {f}

CountsReset(r) ==
    /\ req'[r].up \in Uploads
    /\ req'[r].at = 1 /\ req'[r].good = {} /\ req'[r].bad = {}

\* The counts of a batch that was summed up cover its files, each once.
SummaryAddsUp ==
    \A u \in Uploads :
       batch[u].status \notin {"absent", "created"}
          => /\ batch[u].good \cup batch[u].bad = FileSet(u)
             /\ batch[u].good \cap batch[u].bad = {}

LEMMA HandleCounts ==
    ASSUME TypeOK, NEW r \in Requests, Handle(r)
    PROVE  /\ \A q \in Requests \ {r} : req'[q] = req[q]
           /\ InLoop(r)' => CountsKept(r) \/ CountsOne(r)
<1> DEFINE Goal == /\ \A q \in Requests \ {r} : req'[q] = req[q]
                   /\ InLoop(r)' => CountsKept(r) \/ CountsOne(r)
<1> SUFFICES Goal
  OBVIOUS
<1>1. ASSUME Answer(r) PROVE Goal
  BY <1>1, AnswerReq DEF InLoop, Idle, Goal
<1>2. ASSUME req[r].pc \in {"init", "abort"}, NextEntry(r) PROVE Goal
  <2>1. /\ \A q \in Requests \ {r} : req'[q] = req[q]
        /\ req'[r] = [req[r] EXCEPT !.at = req[r].at + 1]
    BY <1>2, NextEntryReq
  <2>2. req'[r].pc = req[r].pc
    BY <2>1 DEF TypeOK, Request
  <2> QED
    BY <1>2, <2>1, <2>2 DEF InLoop, Goal
<1>3. ASSUME NEW f \in Files, InLoop(r), AtEntry(r, req[r].pc, f), Fail(r, f) \/ Succeed(r, f)
      PROVE  Goal
  <2>1. req[r].up \in Uploads
    BY <1>3 DEF InLoop, TypeOK
  <2>2. CASE Fail(r, f)
    <3>1. /\ \A q \in Requests \ {r} : req'[q] = req[q]
          /\ req'[r] = [pc |-> "files", up |-> req[r].up, at |-> req[r].at + 1,
                        good |-> req[r].good, bad |-> req[r].bad \cup {f}]
      BY <2>1, <2>2, FailReq
    <3> QED
      BY <1>3, <3>1 DEF CountsOne, Goal
  <2>3. CASE Succeed(r, f)
    <3>1. /\ \A q \in Requests \ {r} : req'[q] = req[q]
          /\ req'[r] = [pc |-> "files", up |-> req[r].up, at |-> req[r].at + 1,
                        good |-> req[r].good \cup {f}, bad |-> req[r].bad]
      BY <2>1, <2>3, SucceedReq
    <3> QED
      BY <1>3, <3>1 DEF CountsOne, Goal
  <2> QED
    BY <1>3, <2>2, <2>3
<1>4. ASSUME InLoop(r), NEW pc \in {"record", "reread", "remove"}, Goto(r, pc),
             pc = "remove" \/ req[r].at \in DOMAIN FilesOf[req[r].up]
      PROVE  Goal
  <2>1. req[r].up \in Uploads
    BY <1>4 DEF InLoop, TypeOK
  <2>2. /\ \A q \in Requests \ {r} : req'[q] = req[q]
        /\ req'[r] = [req[r] EXCEPT !.pc = pc]
    BY <1>4, <2>1, GotoReq
  <2>3. /\ req'[r].up = req[r].up /\ req'[r].at = req[r].at
        /\ req'[r].good = req[r].good /\ req'[r].bad = req[r].bad
    BY <2>2 DEF TypeOK, Request
  <2> QED
    BY <1>4, <2>2, <2>3 DEF CountsKept, Goal
<1> HIDE DEF Goal
<1>5. CASE InitStep(r)
  BY <1>1, <1>2, <1>5 DEF InitStep, InitFile, RejectInit, FinishInit, AtEntry
<1>6. CASE CancelStep(r)
  BY <1>1, <1>2, <1>6 DEF CancelStep, AbortFile, FinishCancel, AtEntry
<1>7. ASSUME NEW f \in Files,
             FileMissing(r, f) \/ CompleteMultipart(r, f) \/ HeadObject(r, f)
      PROVE  Goal
  <2>1. AtEntry(r, "files", f) /\ (Fail(r, f) \/ Goto(r, "record"))
    BY <1>7 DEF FileMissing, CompleteMultipart, HeadObject
  <2>2. InLoop(r) /\ AtEntry(r, req[r].pc, f) /\ req[r].at \in DOMAIN FilesOf[req[r].up]
    BY <2>1 DEF AtEntry, InLoop
  <2> QED
    BY <1>3, <1>4, <2>1, <2>2
<1>8. ASSUME NEW f \in Files, Record(r, f) PROVE Goal
  <2>1. AtEntry(r, "record", f) /\ (Fail(r, f) \/ Goto(r, "reread"))
    BY <1>8 DEF Record
  <2>2. InLoop(r) /\ AtEntry(r, req[r].pc, f) /\ req[r].at \in DOMAIN FilesOf[req[r].up]
    BY <2>1 DEF AtEntry, InLoop
  <2> QED
    BY <1>3, <1>4, <2>1, <2>2
<1>9. ASSUME NEW f \in Files, Reread(r, f) PROVE Goal
  <2>1. AtEntry(r, "reread", f) /\ (Fail(r, f) \/ Succeed(r, f))
    BY <1>9 DEF Reread
  <2>2. InLoop(r) /\ AtEntry(r, req[r].pc, f)
    BY <2>1 DEF AtEntry, InLoop
  <2> QED
    BY <1>3, <2>1, <2>2
<1>10. CASE FinishBatch(r)
  <2>1. InLoop(r) /\ (Goto(r, "remove") \/ Answer(r))
    BY <1>10 DEF FinishBatch, LoopDone, InLoop
  <2> QED
    BY <1>1, <1>4, <2>1
<1>11. CASE RemoveManifest(r)
  BY <1>1, <1>11 DEF RemoveManifest
<1> QED
  BY <1>5, <1>6, <1>7, <1>8, <1>9, <1>10, <1>11 DEF Handle, CompleteStep

\* One more entry: it was not counted before, since file ids are unique.
LEMMA OneMorePassed ==
    ASSUME TypeOK, NEW r \in Requests, CountsPassed(r), CountsOne(r)
    PROVE  /\ req'[r].good \cup req'[r].bad = Passed(r)'
           /\ req'[r].good \cap req'[r].bad = {}
<1> DEFINE u == req[r].up
           at == req[r].at
<1>1. PICK f \in Files :
         /\ AtEntry(r, req[r].pc, f) /\ InLoop(r)
         /\ req'[r].up = u /\ req'[r].at = at + 1
         /\ \/ req'[r].good = req[r].good \cup {f} /\ req'[r].bad = req[r].bad
            \/ req'[r].good = req[r].good /\ req'[r].bad = req[r].bad \cup {f}
  BY DEF CountsOne
<1>2. u \in Uploads /\ at \in DOMAIN FilesOf[u] /\ f = FilesOf[u][at]
  BY <1>1 DEF AtEntry, InLoop, TypeOK
<1>3. DOMAIN FilesOf[u] \subseteq Nat
  BY <1>2, DomainIsNat
<1>4. f \notin Passed(r)
  <2>1. \A i \in DOMAIN FilesOf[u] : FilesOf[u][i] = f => i = at
    BY <1>2, FreshIdsAssumption
  <2>2. ~(at < at)
    BY <1>2, <1>3
  <2> QED
    BY <2>1, <2>2 DEF Passed
<1>5. Passed(r)' = Passed(r) \cup {f}
  <2>1. \A i \in DOMAIN FilesOf[u] : i < at + 1 <=> i < at \/ i = at
    BY <1>2, <1>3
  <2>2. Passed(r)' = {FilesOf[u][i] : i \in {j \in DOMAIN FilesOf[u] : j < at + 1}}
    BY <1>1 DEF Passed
  <2>3. Passed(r) = {FilesOf[u][i] : i \in {j \in DOMAIN FilesOf[u] : j < at}}
    BY DEF Passed
  <2> HIDE DEF u, at
  <2> QED
    BY <1>2, <2>1, <2>2, <2>3
<1>6. req[r].good \cup req[r].bad = Passed(r) /\ req[r].good \cap req[r].bad = {}
  BY <1>1 DEF CountsPassed
<1> QED
  BY <1>1, <1>4, <1>5, <1>6

\* The counters of a handler that begins its loop are empty.
LEMMA NothingPassed ==
    ASSUME NEW r \in Requests, CountsReset(r)
    PROVE  CountsPassed(r)'
<1> DEFINE u == req'[r].up
<1>1. u \in Uploads /\ DOMAIN FilesOf[u] \subseteq Nat /\ 0 \notin DOMAIN FilesOf[u]
  BY FilesOfAssumption, DomainIsNat DEF CountsReset
<1>2. \A i \in DOMAIN FilesOf[u] : ~(i < 1)
  BY <1>1
<1>3. Passed(r)' = {}
  BY <1>2 DEF CountsReset, Passed
<1> QED
  BY <1>3 DEF CountsReset, CountsPassed

LEMMA PassedCounted ==
    ASSUME TypeOK, [Next]_vars, NEW r \in Requests, CountsPassed(r)
    PROVE  CountsPassed(r)'
<1>1. CASE req'[r] = req[r]
  BY <1>1 DEF CountsPassed, InLoop, Passed
<1>2. CASE CountsKept(r)
  BY <1>2 DEF CountsPassed, CountsKept, Passed
<1>3. CASE CountsOne(r)
  BY <1>3, OneMorePassed DEF CountsPassed
<1>4. CASE CountsReset(r)
  BY <1>4, NothingPassed
<1>5. CASE ~InLoop(r)'
  BY <1>5 DEF CountsPassed
<1>6. ASSUME NEW q \in Requests, Handle(q)
      PROVE  req'[r] = req[r] \/ CountsKept(r) \/ CountsOne(r) \/ ~InLoop(r)'
  BY <1>6, HandleCounts
<1>7. ASSUME NEW q \in Requests, NEW u \in Uploads, Arrive(q, u)
      PROVE  req'[r] = req[r] \/ CountsReset(r)
  <2>1. PICK pc \in {"init", "files", "abort"} : Start(q, pc, u)
    BY <1>7 DEF Arrive, BeginInit, BeginComplete, BeginCancel
  <2>2. /\ req'[q] = [pc |-> pc, up |-> u, at |-> 1, good |-> {}, bad |-> {}]
        /\ \A p \in Requests \ {q} : req'[p] = req[p]
    BY <2>1, StartReq
  <2> QED
    BY <2>2 DEF CountsReset
<1>8. ASSUME NEW u \in Uploads, Outside(u) PROVE req'[r] = req[r]
  BY <1>8 DEF Outside, PutObject, PutParts, Expire, Drain, ExpiredComplete
<1>9. CASE Crash
  BY <1>9, <1>5 DEF Crash, Idle, InLoop
<1>10. CASE UNCHANGED vars
  BY <1>1, <1>10 DEF vars
<1> QED
  BY <1>1, <1>2, <1>3, <1>4, <1>5, <1>6, <1>7, <1>8, <1>9, <1>10 DEF Next

\* The row of a batch changes when it is created and when a complete sums up.
LEMMA SummaryStep ==
    ASSUME TypeOK, SummaryAddsUp, \A r \in Requests : CountsPassed(r), [Next]_vars
    PROVE  SummaryAddsUp'
<1>1. CASE batch' = batch
  BY <1>1 DEF SummaryAddsUp
<1>2. ASSUME NEW r \in Requests, FinishBatch(r), batch' # batch
      PROVE  SummaryAddsUp'
  <2>1. /\ req[r].up \in Uploads /\ InLoop(r) /\ req[r].at \in Nat \ {0}
        /\ req[r].at \notin DOMAIN FilesOf[req[r].up]
    BY <1>2 DEF FinishBatch, LoopDone, InLoop, TypeOK, Request
  <2>2. \A i \in DOMAIN FilesOf[req[r].up] : i < req[r].at
    BY <2>1, DomainIsInterval
  <2>3. Passed(r) = FileSet(req[r].up)
    BY <2>2 DEF Passed, FileSet
  <2>4. /\ batch'[req[r].up] = [status |-> BatchStatus(req[r].good, req[r].bad),
                                good |-> req[r].good, bad |-> req[r].bad]
        /\ \A v \in Uploads \ {req[r].up} : batch'[v] = batch[v]
    BY <1>2, <2>1 DEF FinishBatch, TypeOK
  <2>5. batch'[req[r].up].good = req[r].good /\ batch'[req[r].up].bad = req[r].bad
    BY <2>4
  <2>6. req[r].good \cup req[r].bad = FileSet(req[r].up) /\ req[r].good \cap req[r].bad = {}
    BY <2>1, <2>3 DEF CountsPassed
  <2> QED
    BY <2>4, <2>5, <2>6 DEF SummaryAddsUp
<1>3. ASSUME NEW r \in Requests, NEW u \in Uploads, BeginInit(r, u)
      PROVE  SummaryAddsUp'
  <2>1. /\ batch'[u].status = "created"
        /\ \A v \in Uploads \ {u} : batch'[v] = batch[v]
    BY <1>3 DEF BeginInit, TypeOK, BatchRow
  <2> QED
    BY <2>1 DEF SummaryAddsUp
<1>4. ASSUME NEW r \in Requests, Handle(r) PROVE batch' = batch \/ FinishBatch(r)
  BY <1>4 DEF Handle, InitStep, CompleteStep, CancelStep, InitFile, RejectInit, FinishInit,
              FileMissing, CompleteMultipart, HeadObject, Record, Reread, RemoveManifest,
              AbortFile, FinishCancel, db
<1>5. ASSUME NEW r \in Requests, NEW u \in Uploads, Arrive(r, u)
      PROVE  batch' = batch \/ BeginInit(r, u)
  BY <1>5 DEF Arrive, BeginComplete, BeginCancel, db
<1>6. ASSUME NEW u \in Uploads, Outside(u) PROVE batch' = batch
  BY <1>6 DEF Outside, PutObject, PutParts, Expire, Drain, ExpiredComplete, db
<1> QED
  BY <1>1, <1>2, <1>3, <1>4, <1>5, <1>6 DEF Next, Crash, vars, db

\* However many completes of a session ran, and whichever wrote last, the
\* counts of its batch row add up to its files and no file counts twice.
THEOREM SummariesAddUp == Spec => []SummaryAddsUp
<1> DEFINE Inv == TypeOK /\ SummaryAddsUp /\ \A r \in Requests : CountsPassed(r)
<1>1. Init => Inv
  BY TypeInit DEF Init, Idle, SummaryAddsUp, CountsPassed, InLoop
<1>2. Inv /\ [Next]_vars => Inv'
  BY TypeNext, SummaryStep, PassedCounted
<1>3. Inv => SummaryAddsUp
  OBVIOUS
<1> HIDE DEF Inv
<1> QED
  BY <1>1, <1>2, <1>3, PTL DEF Spec
=============================================================================
