------------------------ MODULE FileLifecycleProofs ------------------------
(***************************************************************************)
(* Safety of uploads, deletions and the reconcile program together.  Rows  *)
(* and objects come and go here, so the invariant speaks of what has been  *)
(* recorded at some time, which no step takes back.                        *)
(***************************************************************************)
EXTENDS FileLifecycle, DirectUploadProofs

Recorded(f) == status[f] # "new"

\* What a handler has counted was recorded and is of its session, and its loop
\* has counted every earlier entry.
ReqSound(r) ==
    /\ \A f \in req[r].good : Recorded(f)
    /\ req[r].good # {} => req[r].good \subseteq FileSet(req[r].up)
    /\ LoopCounted(r)

LInv ==
    /\ TypeOK
    /\ status \in [Files -> Store!Status \cup {"new"}]
    /\ \A f \in rows : Recorded(f)
    /\ \A r \in Requests : ReqSound(r)
    /\ CompletedWasWhole

\* What was recorded stays recorded.
Later == \A f \in Files : Recorded(f) => Recorded(f)'

-----------------------------------------------------------------------------
LEMMA LInvInit == LifecycleInit => LInv
<1> SUFFICES ASSUME LifecycleInit PROVE LInv
  OBVIOUS
<1>1. TypeOK
  BY TypeInit DEF LifecycleInit
<1>2. status \in [Files -> Store!Status \cup {"new"}] /\ rows = {}
  BY DEF LifecycleInit, Init, Store!Init
<1>3. \A r \in Requests : ReqSound(r)
  BY DEF LifecycleInit, Init, Idle, ReqSound, LoopCounted
<1>4. CompletedWasWhole
  BY DEF LifecycleInit, Init, CompletedWasWhole
<1> QED
  BY <1>1, <1>2, <1>3, <1>4 DEF LInv

\* A step of one request leaves the others as they are.
LEMMA OthersSound ==
    ASSUME LInv, Later, NEW r \in Requests,
           \A q \in Requests \ {r} : req'[q] = req[q], ReqSound(r)'
    PROVE  \A q \in Requests : ReqSound(q)'
<1> SUFFICES ASSUME NEW q \in Requests, q # r PROVE ReqSound(q)'
  OBVIOUS
<1>1. req'[q] = req[q] /\ ReqSound(q) /\ req[q].good \subseteq Files
  BY DEF LInv, TypeOK, Request
<1> QED
  BY <1>1 DEF ReqSound, LoopCounted, Later

\* A request that has counted nothing, or nothing more than before.
LEMMA AnswerSound ==
    ASSUME LInv, Later, NEW r \in Requests, Answer(r)
    PROVE  \A q \in Requests : ReqSound(q)'
<1>1. req'[r] = Idle /\ \A q \in Requests \ {r} : req'[q] = req[q]
  BY AnswerReq DEF LInv
<1>2. ReqSound(r)'
  BY <1>1 DEF ReqSound, LoopCounted, Idle
<1> QED
  BY <1>1, <1>2, OthersSound

LEMMA StartSound ==
    ASSUME LInv, Later, NEW r \in Requests, NEW u \in Uploads,
           NEW pc \in {"init", "files", "abort"}, Start(r, pc, u)
    PROVE  \A q \in Requests : ReqSound(q)'
<1>1. /\ req'[r] = [pc |-> pc, up |-> u, at |-> 1, good |-> {}, bad |-> {}]
      /\ \A q \in Requests \ {r} : req'[q] = req[q]
  BY StartReq DEF LInv
<1>2. \A i \in DOMAIN FilesOf[u] : ~(i < 1)
  BY FilesOfAssumption
<1>3. ReqSound(r)'
  BY <1>1, <1>2 DEF ReqSound, LoopCounted
<1> QED
  BY <1>1, <1>3, OthersSound

LEMMA NextEntrySound ==
    ASSUME LInv, Later, NEW r \in Requests,
           req[r].pc \in {"init", "abort"}, NextEntry(r)
    PROVE  \A q \in Requests : ReqSound(q)'
<1>1. /\ req'[r] = [req[r] EXCEPT !.at = req[r].at + 1]
      /\ \A q \in Requests \ {r} : req'[q] = req[q]
  BY NextEntryReq DEF LInv
<1>2. /\ req'[r].pc = req[r].pc /\ req'[r].up = req[r].up
      /\ req'[r].good = req[r].good /\ req[r].good \subseteq Files
  BY <1>1 DEF LInv, TypeOK, Request
<1>3. ReqSound(r)'
  BY <1>2 DEF LInv, ReqSound, LoopCounted, Later
<1> QED
  BY <1>1, <1>3, OthersSound

\* Moving on within an entry, or to the removal of the manifest.
LEMMA GotoSound ==
    ASSUME LInv, Later, NEW r \in Requests, req[r].pc \in {"files", "record"},
           req[r].up \in Uploads, NEW pc \in {"record", "reread", "remove"}, Goto(r, pc),
           pc = "remove" \/ req[r].at \in DOMAIN FilesOf[req[r].up]
    PROVE  \A q \in Requests : ReqSound(q)'
<1>1. /\ req'[r] = [req[r] EXCEPT !.pc = pc]
      /\ \A q \in Requests \ {r} : req'[q] = req[q]
  BY GotoReq DEF LInv
<1>2. /\ req'[r].pc = pc /\ req'[r].up = req[r].up /\ req'[r].at = req[r].at
      /\ req'[r].good = req[r].good /\ req'[r].bad = req[r].bad
      /\ req[r].good \subseteq Files
  BY <1>1 DEF LInv, TypeOK, Request
<1>3. ReqSound(r)'
  BY <1>2 DEF LInv, ReqSound, LoopCounted, Later
<1> QED
  BY <1>1, <1>3, OthersSound

\* The entries up to and including f, the one a request is at, are counted.
LEMMA EntryCounted ==
    ASSUME LInv, NEW r \in Requests, NEW f \in Files,
           req[r].pc \in {"files", "record", "reread"}, AtEntry(r, req[r].pc, f)
    PROVE  \A i \in DOMAIN FilesOf[req[r].up] : i < req[r].at + 1 =>
              FilesOf[req[r].up][i] \in req[r].good \cup req[r].bad \cup {f}
<1>1. req[r].at \in Nat /\ req[r].up \in Uploads /\ LoopCounted(r)
  BY DEF LInv, TypeOK, Request, ReqSound
<1> SUFFICES ASSUME NEW i \in DOMAIN FilesOf[req[r].up], i < req[r].at + 1
             PROVE  FilesOf[req[r].up][i] \in req[r].good \cup req[r].bad \cup {f}
  OBVIOUS
<1>2. i \in Nat
  BY <1>1, DomainIsNat
<1>3. CASE i < req[r].at
  BY <1>1, <1>3 DEF LoopCounted
<1>4. CASE i = req[r].at
  BY <1>4 DEF AtEntry
<1> QED
  BY <1>1, <1>2, <1>3, <1>4

LEMMA FailSound ==
    ASSUME LInv, Later, NEW r \in Requests, NEW f \in Files,
           req[r].pc \in {"files", "record", "reread"}, AtEntry(r, req[r].pc, f), Fail(r, f)
    PROVE  \A q \in Requests : ReqSound(q)'
<1>1. /\ req'[r] = [pc |-> "files", up |-> req[r].up, at |-> req[r].at + 1,
                    good |-> req[r].good, bad |-> req[r].bad \cup {f}]
      /\ \A q \in Requests \ {r} : req'[q] = req[q]
  BY FailReq DEF LInv, TypeOK
<1>2. req[r].good \subseteq Files /\ ReqSound(r)
  BY DEF LInv, TypeOK, Request
<1>3. ReqSound(r)'
  BY <1>1, <1>2, EntryCounted DEF ReqSound, LoopCounted, Later
<1> QED
  BY <1>1, <1>3, OthersSound

LEMMA SucceedSound ==
    ASSUME LInv, Later, NEW r \in Requests, NEW f \in rows,
           AtEntry(r, "reread", f), Succeed(r, f)
    PROVE  \A q \in Requests : ReqSound(q)'
<1>1. f \in Files /\ req[r].pc = "reread" /\ req[r].up \in Uploads
  BY DEF LInv, TypeOK, AtEntry
<1>2. /\ req'[r] = [pc |-> "files", up |-> req[r].up, at |-> req[r].at + 1,
                    good |-> req[r].good \cup {f}, bad |-> req[r].bad]
      /\ \A q \in Requests \ {r} : req'[q] = req[q]
  BY <1>1, SucceedReq DEF LInv
<1>3. req[r].good \subseteq Files /\ ReqSound(r) /\ Recorded(f)
  BY DEF LInv, TypeOK, Request
<1>4. f \in FileSet(req[r].up)
  BY <1>1, EntryInFileSet DEF AtEntry
<1>5. \A i \in DOMAIN FilesOf[req[r].up] : i < req[r].at + 1 =>
         FilesOf[req[r].up][i] \in req[r].good \cup req[r].bad \cup {f}
  BY <1>1, EntryCounted
<1>6. ReqSound(r)'
  BY <1>1, <1>2, <1>3, <1>4, <1>5 DEF ReqSound, LoopCounted, Later
<1> QED
  BY <1>2, <1>6, OthersSound

-----------------------------------------------------------------------------
\* A summary that is not written keeps its meaning.
LEMMA SummaryKept ==
    ASSUME LInv, Later,
           \A u \in Uploads : batch'[u].status = "completed" => batch[u].status = "completed"
    PROVE  CompletedWasWhole'
<1>1. \A u \in Uploads : FileSet(u) \subseteq Files
  BY EntryInFileSet DEF FileSet
<1> QED
  BY <1>1 DEF LInv, CompletedWasWhole, Later, Recorded

\* A loop without failures has counted, hence recorded, every file.
LEMMA FinishedWasWhole ==
    ASSUME LInv, Later, NEW r \in Requests, FinishBatch(r)
    PROVE  CompletedWasWhole'
<1> DEFINE v == req[r].up
           row == [status |-> BatchStatus(req[r].good, req[r].bad),
                   good |-> req[r].good, bad |-> req[r].bad]
<1>1. v \in Uploads /\ req[r].at \in Nat \ {0} /\ req[r].at \notin DOMAIN FilesOf[v]
  BY DEF FinishBatch, LoopDone, LInv, TypeOK, Request
<1>2. ASSUME row.status = "completed" PROVE \A f \in FileSet(v) : Recorded(f)
  <2>1. req[r].bad = {}
    BY <1>2 DEF BatchStatus
  <2>2. \A i \in DOMAIN FilesOf[v] : i < req[r].at
    BY <1>1, DomainIsInterval
  <2>3. \A i \in DOMAIN FilesOf[v] : FilesOf[v][i] \in req[r].good
    BY <2>1, <2>2 DEF LInv, ReqSound, LoopCounted, FinishBatch, LoopDone
  <2>4. \A f \in req[r].good : Recorded(f)
    BY DEF LInv, ReqSound
  <2> QED
    BY <2>3, <2>4 DEF FileSet
<1>3. CASE batch' = batch
  BY <1>3, SummaryKept
<1>4. CASE batch' = [batch EXCEPT ![v] = row]
  <2>1. batch'[v] = row /\ \A w \in Uploads \ {v} : batch'[w] = batch[w]
    BY <1>1, <1>4 DEF LInv, TypeOK
  <2>2. \A u \in Uploads : FileSet(u) \subseteq Files
    BY EntryInFileSet DEF FileSet
  <2> HIDE DEF row
  <2> SUFFICES ASSUME NEW u \in Uploads, batch'[u].status = "completed"
               PROVE  \A f \in FileSet(u) : Recorded(f)
    BY <2>2 DEF CompletedWasWhole, Later, Recorded
  <2>3. CASE u = v
    BY <1>2, <2>1, <2>3
  <2>4. CASE u # v
    BY <2>1, <2>4 DEF LInv, CompletedWasWhole, Recorded
  <2> QED
    BY <2>3, <2>4
<1> QED
  BY <1>3, <1>4 DEF FinishBatch

\* A step of the upload side keeps requests and summaries sound.
LEMMA UploadSound ==
    ASSUME LInv, Later,
           \/ \E r \in Requests : Handle(r)
           \/ \E r \in Requests, u \in Uploads : Arrive(r, u)
           \/ \E u \in Uploads : Outside(u)
    PROVE  (\A q \in Requests : ReqSound(q)') /\ CompletedWasWhole'
<1> DEFINE Goal == (\A q \in Requests : ReqSound(q)') /\ CompletedWasWhole'
<1> USE DEF db
<1>1. ASSUME NEW r \in Requests, InitStep(r) PROVE Goal
  <2>1. UNCHANGED batch
    BY <1>1 DEF InitStep, InitFile, RejectInit, FinishInit
  <2>2. Answer(r) \/ (req[r].pc = "init" /\ NextEntry(r))
    BY <1>1 DEF InitStep, InitFile, RejectInit, FinishInit, AtEntry
  <2> QED
    BY <2>1, <2>2, AnswerSound, NextEntrySound, SummaryKept
<1>2. ASSUME NEW r \in Requests, CancelStep(r) PROVE Goal
  <2>1. UNCHANGED batch
    BY <1>2 DEF CancelStep, AbortFile, FinishCancel
  <2>2. Answer(r) \/ (req[r].pc = "abort" /\ NextEntry(r))
    BY <1>2 DEF CancelStep, AbortFile, FinishCancel, AtEntry
  <2> QED
    BY <2>1, <2>2, AnswerSound, NextEntrySound, SummaryKept
<1>3. ASSUME NEW r \in Requests, NEW f \in Files,
             \/ FileMissing(r, f) \/ CompleteMultipart(r, f) \/ HeadObject(r, f)
             \/ Record(r, f) \/ Reread(r, f)
      PROVE  Goal
  <2>1. UNCHANGED batch
    BY <1>3 DEF FileMissing, CompleteMultipart, HeadObject, Record, Reread
  <2>2. req[r].pc \in {"files", "record", "reread"} /\ AtEntry(r, req[r].pc, f)
    BY <1>3 DEF FileMissing, CompleteMultipart, HeadObject, Record, Reread, AtEntry
  <2>3. req[r].up \in Uploads /\ req[r].at \in DOMAIN FilesOf[req[r].up]
    BY <2>2 DEF LInv, TypeOK, AtEntry
  <2>4. \/ Fail(r, f)
        \/ f \in rows /\ AtEntry(r, "reread", f) /\ Succeed(r, f)
        \/ req[r].pc \in {"files", "record"} /\ \E pc \in {"record", "reread"} : Goto(r, pc)
    BY <1>3 DEF FileMissing, CompleteMultipart, HeadObject, Record, Reread, AtEntry
  <2>5. \A q \in Requests : ReqSound(q)'
    BY <2>2, <2>3, <2>4, FailSound, SucceedSound, GotoSound
  <2> QED
    BY <2>1, <2>5, SummaryKept
<1>4. ASSUME NEW r \in Requests, FinishBatch(r) PROVE Goal
  <2>1. req[r].pc = "files" /\ req[r].up \in Uploads /\ (Goto(r, "remove") \/ Answer(r))
    BY <1>4 DEF FinishBatch, LoopDone, LInv, TypeOK
  <2>2. \A q \in Requests : ReqSound(q)'
    BY <2>1, GotoSound, AnswerSound
  <2> QED
    BY <1>4, <2>2, FinishedWasWhole
<1>5. ASSUME NEW r \in Requests, RemoveManifest(r) PROVE Goal
  BY <1>5, AnswerSound, SummaryKept DEF RemoveManifest
<1>6. ASSUME NEW r \in Requests, NEW u \in Uploads, Arrive(r, u) PROVE Goal
  <2>1. \E pc \in {"init", "files", "abort"} : Start(r, pc, u)
    BY <1>6 DEF Arrive, BeginInit, BeginComplete, BeginCancel
  <2>2. UNCHANGED batch \/ batch' = [batch EXCEPT ![u].status = "created"]
    BY <1>6 DEF Arrive, BeginInit, BeginComplete, BeginCancel
  <2>3. \A w \in Uploads : batch'[w].status = "completed" => batch[w].status = "completed"
    BY <2>2 DEF LInv, TypeOK, BatchRow
  <2> QED
    BY <2>1, <2>3, StartSound, SummaryKept
<1>7. ASSUME NEW u \in Uploads, Outside(u) PROVE Goal
  <2>1. UNCHANGED <<batch, req>>
    BY <1>7 DEF Outside, PutObject, PutParts, Expire, Drain, ExpiredComplete
  <2>2. \A q \in Requests : req[q].good \subseteq Files /\ ReqSound(q)
    BY DEF LInv, TypeOK, Request
  <2>3. \A q \in Requests : ReqSound(q)'
    BY <2>1, <2>2 DEF ReqSound, LoopCounted, Later
  <2> QED
    BY <2>1, <2>3, SummaryKept
<1> QED
  BY <1>1, <1>2, <1>3, <1>4, <1>5, <1>6, <1>7 DEF Handle, CompleteStep

-----------------------------------------------------------------------------
\* Deletions and the reconcile program only take things away from R2 and from
\* the files table, and never touch requests, batches or what was recorded.
LEMMA StoreTakes ==
    ASSUME DeleteSide \/ ReconcileSide
    PROVE  /\ rows' \subseteq rows /\ objects' \subseteq objects /\ open' \subseteq open
           /\ UNCHANGED <<batch, saved, age, parts, req, status>>
<1>1. ASSUME NEW j \in Jobs, NEW f \in Files, Store!BeginDelete(j, {f})
      PROVE  UNCHANGED <<rows, objects, open, status>>
  BY <1>1 DEF Store!BeginDelete, Store!table, Store!bucket
<1>2. ASSUME NEW j \in Jobs, Store!DeleteStep(j)
      PROVE  /\ rows' \subseteq rows /\ objects' \subseteq objects
             /\ UNCHANGED <<open, status>>
  BY <1>2 DEF Store!DeleteStep, Store!LoadFile, Store!DeleteObject, Store!DeletePreview,
              Store!DeleteRow, Store!FinishDelete, Store!HardDelete, Store!table, Store!bucket
<1>3. ASSUME NEW t \in Tools,
             Store!BeginReconcile(t) \/ Store!ReconcileStep(t) \/ Store!StopTool(t)
      PROVE  /\ objects' \subseteq objects /\ open' \subseteq open
             /\ UNCHANGED <<rows, status>>
  BY <1>3 DEF Store!BeginReconcile, Store!ReconcileStep, Store!StopTool, Store!ListObjects,
              Store!ListUploads, Store!DeleteOrphan, Store!DeleteOrphanPreview,
              Store!AbortOrphanUpload, Store!table, Store!bucket
<1>4. UNCHANGED uploadVars
  BY DEF DeleteSide, ReconcileSide
<1> QED
  BY <1>1, <1>2, <1>3, <1>4 DEF DeleteSide, ReconcileSide, uploadVars

LEMMA LInvNext == LInv /\ [LifecycleNext]_allVars => LInv'
<1> SUFFICES ASSUME LInv, [LifecycleNext]_allVars PROVE LInv'
  OBVIOUS
<1>1. CASE UploadSide
  <2>1. Next
    BY <1>1 DEF UploadSide, Next
  <2>2. TypeOK'
    BY <2>1, TypeNext DEF LInv
  <2>3. status' = [f \in Files |-> IF f \in rows' \ rows THEN "active" ELSE status[f]]
    BY <1>1 DEF UploadSide
  <2>4. status' \in [Files -> Store!Status \cup {"new"}] /\ Later
    BY <2>3 DEF LInv, Store!Status, Later, Recorded
  <2>5. \A f \in rows' : Recorded(f)'
    BY <2>2, <2>3 DEF LInv, TypeOK, Recorded
  <2>6. (\A q \in Requests : ReqSound(q)') /\ CompletedWasWhole'
    BY <1>1, <2>4, UploadSound DEF UploadSide
  <2> QED
    BY <2>2, <2>4, <2>5, <2>6 DEF LInv
<1>2. CASE DeleteSide \/ ReconcileSide
  <2>1. /\ rows' \subseteq rows /\ objects' \subseteq objects /\ open' \subseteq open
        /\ UNCHANGED <<batch, saved, age, parts, req, status>>
    BY <1>2, StoreTakes
  <2>2. TypeOK'
    BY <2>1 DEF LInv, TypeOK
  <2>3. \A f \in rows' : Recorded(f)'
    BY <2>1 DEF LInv, Recorded
  <2>4. (\A q \in Requests : ReqSound(q)') /\ CompletedWasWhole'
    BY <2>1 DEF LInv, ReqSound, LoopCounted, CompletedWasWhole, Recorded
  <2> QED
    BY <2>1, <2>2, <2>3, <2>4 DEF LInv
<1>3. CASE Restart
  <2>1. \A q \in Requests : req'[q] = Idle
    BY <1>3 DEF Restart
  <2>2. UNCHANGED <<batch, rows, saved, age, objects, open, parts, status>>
    BY <1>3 DEF Restart, db, r2
  <2>3. Idle \in Request /\ Idle.pc = "idle" /\ Idle.good = {}
    BY DEF Idle, Request
  <2>4. req' \in [Requests -> Request]
    BY <1>3, <2>3 DEF Restart
  <2>5. TypeOK'
    BY <2>1, <2>2, <2>3, <2>4 DEF LInv, TypeOK
  <2>6. (\A q \in Requests : ReqSound(q)') /\ CompletedWasWhole'
    BY <2>1, <2>2, <2>3 DEF LInv, ReqSound, LoopCounted, CompletedWasWhole
  <2> QED
    BY <2>2, <2>5, <2>6 DEF LInv, Recorded
<1>4. CASE UNCHANGED allVars
  <2>1. UNCHANGED <<vars, status>>
    BY <1>4 DEF allVars
  <2> QED
    BY <2>1 DEF vars, LInv, TypeOK, ReqSound, LoopCounted, CompletedWasWhole, Recorded
<1> QED
  BY <1>1, <1>2, <1>3, <1>4 DEF LifecycleNext

LEMMA LifecycleInvariant == LifecycleSpec => []LInv
BY LInvInit, LInvNext, PTL DEF LifecycleSpec

\* While other requests delete files and the reconcile program runs, a batch
\* still reads "completed" only when each of its files has been recorded.
THEOREM CompletedBatchesWereWhole == LifecycleSpec => []CompletedWasWhole
<1>1. LInv => CompletedWasWhole
  BY DEF LInv
<1> QED
  BY <1>1, LifecycleInvariant, PTL

\* What a complete under way has counted was recorded, and is of its session.
THEOREM CountedFilesWereRecorded == LifecycleSpec => []CountedWasRecorded
<1>1. LInv => CountedWasRecorded
  BY DEF LInv, ReqSound, CountedWasRecorded, Recorded
<1> QED
  BY <1>1, LifecycleInvariant, PTL

-----------------------------------------------------------------------------
(* Summaries and handlers beside deletions                                  *)

\* A batch counts only files of its own that have been recorded, deleted since
\* or not.
SummaryWasRecorded ==
    \A u \in Uploads : batch[u].good \subseteq {f \in FileSet(u) : Recorded(f)}

LEMMA SummaryStaysRecorded ==
    ASSUME LInv, LInv', SummaryWasRecorded, [LifecycleNext]_allVars
    PROVE  SummaryWasRecorded'
<1>0. \A u \in Uploads : FileSet(u) \subseteq Files
  BY EntryInFileSet DEF FileSet
<1>1. CASE UploadSide
  <2>1. Later
    BY <1>1 DEF UploadSide, LInv, Later, Recorded
  <2>2. SUFFICES ASSUME NEW u \in Uploads
                 PROVE  batch'[u].good \subseteq {f \in FileSet(u) : Recorded(f)}
    BY <1>0, <2>1 DEF SummaryWasRecorded, Later
  <2>3. CASE batch'[u].good = batch[u].good
    BY <2>3 DEF SummaryWasRecorded
  <2>4. ASSUME NEW r \in Requests, FinishBatch(r)
        PROVE  batch'[u].good = batch[u].good \/ (req[r].up = u /\ batch'[u].good = req[r].good)
    BY <2>4 DEF FinishBatch, LInv, TypeOK
  <2>5. ASSUME NEW r \in Requests, FinishBatch(r)
        PROVE  req[r].good \subseteq {f \in FileSet(req[r].up) : Recorded(f)}
    BY DEF LInv, ReqSound
  <2>6. ASSUME NEW r \in Requests, NEW v \in Uploads, Arrive(r, v)
        PROVE  batch'[u].good = batch[u].good
    BY <2>6 DEF Arrive, BeginInit, BeginComplete, BeginCancel, db, LInv, TypeOK, BatchRow
  <2>7. ASSUME NEW r \in Requests, Handle(r) PROVE batch' = batch \/ FinishBatch(r)
    BY <2>7 DEF Handle, InitStep, CompleteStep, CancelStep, InitFile, RejectInit, FinishInit,
                FileMissing, CompleteMultipart, HeadObject, Record, Reread, RemoveManifest,
                AbortFile, FinishCancel, db
  <2>8. ASSUME NEW v \in Uploads, Outside(v) PROVE batch' = batch
    BY <2>8 DEF Outside, PutObject, PutParts, Expire, Drain, ExpiredComplete, db
  <2> QED
    BY <1>1, <2>3, <2>4, <2>5, <2>6, <2>7, <2>8 DEF UploadSide
<1>2. CASE UNCHANGED <<batch, status>>
  BY <1>2 DEF SummaryWasRecorded, Recorded
<1>3. DeleteSide \/ ReconcileSide => UNCHANGED <<batch, status>>
  BY StoreTakes
<1>4. Restart \/ UNCHANGED allVars => UNCHANGED <<batch, status>>
  BY DEF Restart, db, allVars, vars
<1> QED
  BY <1>1, <1>2, <1>3, <1>4 DEF LifecycleNext

\* Whatever is deleted while completes of a session run, and however often the
\* server is restarted, the counts of its batch add up to its files, and each
\* file they count as uploaded has been recorded.
THEOREM SummariesBesideDeletions == LifecycleSpec => [](SummaryAddsUp /\ SummaryWasRecorded)
<1> DEFINE Inv == /\ LInv /\ SummaryAddsUp /\ SummaryWasRecorded
                  /\ \A r \in Requests : CountsPassed(r)
<1>1. LifecycleInit => Inv
  BY LInvInit DEF LifecycleInit, Init, Idle, SummaryAddsUp, SummaryWasRecorded,
                  CountsPassed, InLoop
<1>2. Inv /\ [LifecycleNext]_allVars => Inv'
  <2> SUFFICES ASSUME Inv, [LifecycleNext]_allVars PROVE Inv'
    OBVIOUS
  <2>1. LInv' /\ SummaryWasRecorded'
    BY LInvNext, SummaryStaysRecorded
  <2>2. CASE UploadSide
    <3>1. Next /\ TypeOK
      BY <2>2 DEF UploadSide, Next, LInv
    <3> QED
      BY <2>1, <3>1, SummaryStep, PassedCounted
  <2>3. CASE UNCHANGED <<batch, req>>
    BY <2>1, <2>3 DEF SummaryAddsUp, CountsPassed, InLoop, Passed
  <2>4. CASE Restart
    BY <2>1, <2>4 DEF Restart, db, Idle, SummaryAddsUp, CountsPassed, InLoop
  <2>5. DeleteSide \/ ReconcileSide \/ UNCHANGED allVars => UNCHANGED <<batch, req>>
    BY StoreTakes DEF allVars, vars
  <2> QED
    BY <2>2, <2>3, <2>4, <2>5 DEF LifecycleNext
<1>3. Inv => SummaryAddsUp /\ SummaryWasRecorded
  OBVIOUS
<1> HIDE DEF Inv
<1> QED
  BY <1>1, <1>2, <1>3, PTL DEF LifecycleSpec
\* To the handlers of uploads everything else is a stutter or a restart.
LEMMA UploadsOrIdle ==
    ASSUME LInv, [LifecycleNext]_allVars
    PROVE  Next \/ UNCHANGED req \/ \A r \in Requests : req'[r] = Idle
<1>1. CASE UploadSide
  BY <1>1 DEF UploadSide, Next
<1>2. CASE DeleteSide \/ ReconcileSide
  BY <1>2, StoreTakes
<1>3. CASE Restart
  BY <1>3 DEF Restart
<1>4. CASE UNCHANGED allVars
  BY <1>4 DEF allVars, vars
<1> QED
  BY <1>1, <1>2, <1>3, <1>4 DEF LifecycleNext

\* A complete whose rows are deleted under its hands, before its reread or after,
\* ends all the same, within the number of steps its manifest allows: what is gone
\* counts as failed and is not tried again.
THEOREM HandlersEndBesideDeletions == LifecycleSpec => []WorkBounded /\ HandlersAdvance
<1> DEFINE Inv == LInv /\ LoopInRange
           Step == \A r \in Requests :
                      /\ Handle(r) => ToGo(r)' < ToGo(r)
                      /\ req[r].pc # "idle" /\ req'[r] # req[r] => ToGo(r)' < ToGo(r)
<1>1. LifecycleInit => Inv
  BY LInvInit DEF LifecycleInit, Init, Idle, LoopInRange
<1>2. Inv /\ [LifecycleNext]_allVars => Inv'
  <2> SUFFICES ASSUME Inv, [LifecycleNext]_allVars PROVE LoopInRange'
    BY LInvNext
  <2>1. CASE Next
    BY <2>1, RangeNext DEF LInv
  <2>2. CASE UNCHANGED req \/ \A r \in Requests : req'[r] = Idle
    BY <2>2 DEF LoopInRange, Idle
  <2> QED
    BY <2>1, <2>2, UploadsOrIdle
<1>3. Inv => WorkBounded
  BY ToGoBounds DEF WorkBounded, ToGo, LInv
<1>4. Inv /\ [LifecycleNext]_allVars => [Step]_vars
  <2> SUFFICES ASSUME Inv, [LifecycleNext]_allVars, NEW r \in Requests
               PROVE  /\ Handle(r) => ToGo(r)' < ToGo(r)
                      /\ req[r].pc # "idle" /\ req'[r] # req[r] => ToGo(r)' < ToGo(r)
    OBVIOUS
  <2>1. TypeOK /\ TypeOK'
    BY LInvNext DEF LInv
  <2>2. Handle(r) => ToGo(r)' < ToGo(r)
    BY <2>1, HandleGoesAhead, AheadIsLess
  <2>3. ASSUME req[r].pc # "idle", req'[r] # req[r] PROVE ToGo(r)' < ToGo(r)
    <3>1. Next \/ req'[r] = Idle
      BY <2>3, UploadsOrIdle
    <3>2. Ahead(r)
      BY <2>1, <2>3, <3>1, RequestChanges DEF Ahead, Idle
    <3> QED
      BY <2>1, <2>3, <3>2, AheadIsLess
  <2> QED
    BY <2>2, <2>3
<1> HIDE DEF Inv, Step
<1>5. LifecycleSpec => []WorkBounded /\ [][Step]_vars
  BY <1>1, <1>2, <1>3, <1>4, PTL DEF LifecycleSpec
<1> QED
  BY <1>5 DEF HandlersAdvance, Step

-----------------------------------------------------------------------------
(* What uploads and deletions leave to others: FileTable                     *)

\* The session a file belongs to.
Owner(f) == CHOOSE u \in Uploads : f \in FileSet(u)

BatchThere(u) == batch[u].status # "absent"

Table == INSTANCE FileTable WITH
    Batches <- Uploads, BatchOf <- [f \in Files |-> Owner(f)], Status <- Store!Status,
    batches <- {u \in Uploads : BatchThere(u)},
    row <- [f \in Files |-> IF f \in rows THEN status[f] ELSE "none"]

\* Manifests, requests and rows belong to sessions whose batch has its row.
BatchesComeFirst ==
    /\ \A u \in saved : BatchThere(u)
    /\ \A r \in Requests : req[r].pc # "idle" => BatchThere(req[r].up)
    /\ \A f \in rows : \E u \in Uploads : f \in FileSet(u) /\ BatchThere(u)

LEMMA OwnerIsUnique ==
    ASSUME NEW u \in Uploads, NEW f \in FileSet(u)
    PROVE  Owner(f) = u
<1>1. \A v \in Uploads : f \in FileSet(v) => v = u
  BY FreshIdsAssumption DEF FileSet
<1> QED
  BY <1>1 DEF Owner

\* A batch row is never deleted; only an init adds one, for its own session.
LEMMA BatchesStay ==
    ASSUME LInv, BatchesComeFirst, [LifecycleNext]_allVars
    PROVE  /\ \A u \in Uploads : BatchThere(u) => BatchThere(u)'
           /\ \/ \A u \in Uploads : BatchThere(u)' => BatchThere(u)
              \/ \E r \in Requests, v \in Uploads :
                    /\ BeginInit(r, v)
                    /\ \A u \in Uploads : BatchThere(u)' => BatchThere(u) \/ u = v
<1> DEFINE Goal == /\ \A u \in Uploads : BatchThere(u) => BatchThere(u)'
                   /\ \/ \A u \in Uploads : BatchThere(u)' => BatchThere(u)
                      \/ \E r \in Requests, v \in Uploads :
                            /\ BeginInit(r, v)
                            /\ \A u \in Uploads : BatchThere(u)' => BatchThere(u) \/ u = v
<1> SUFFICES Goal
  OBVIOUS
<1>0. batch \in [Uploads -> BatchRow]
  BY DEF LInv, TypeOK
<1>1. CASE batch' = batch
  BY <1>1 DEF BatchThere
<1>2. ASSUME NEW r \in Requests, NEW v \in Uploads, BeginInit(r, v) PROVE Goal
  <2>1. \A u \in Uploads : batch'[u].status = IF u = v THEN "created" ELSE batch[u].status
    BY <1>0, <1>2 DEF BeginInit, BatchRow
  <2> QED
    BY <1>2, <2>1 DEF BatchThere
<1>3. ASSUME NEW r \in Requests, FinishBatch(r) PROVE Goal
  <2> DEFINE done == BatchStatus(req[r].good, req[r].bad)
             new == [status |-> done, good |-> req[r].good, bad |-> req[r].bad]
  <2>1. req[r].up \in Uploads /\ (batch' = batch \/ batch' = [batch EXCEPT ![req[r].up] = new])
    BY <1>3 DEF FinishBatch, LoopDone, LInv, TypeOK
  <2>2. done # "absent" /\ BatchThere(req[r].up)
    BY <1>3 DEF BatchStatus, BatchesComeFirst, FinishBatch, LoopDone
  <2>3. CASE batch' = [batch EXCEPT ![req[r].up] = new]
    <3> HIDE DEF done
    <3>1. batch'[req[r].up].status = done /\ \A u \in Uploads \ {req[r].up} : batch'[u] = batch[u]
      BY <1>0, <2>1, <2>3
    <3> QED
      BY <2>2, <3>1, <2>1 DEF BatchThere
  <2> QED
    BY <1>1, <2>1, <2>3
<1> HIDE DEF Goal
<1>4. ASSUME NEW r \in Requests, NEW v \in Uploads, Arrive(r, v) PROVE batch' = batch \/ BeginInit(r, v)
  BY <1>4 DEF Arrive, BeginComplete, BeginCancel, db
<1>5. ASSUME NEW r \in Requests, Handle(r) PROVE batch' = batch \/ FinishBatch(r)
  BY <1>5 DEF Handle, InitStep, CompleteStep, CancelStep, InitFile, RejectInit, FinishInit,
              FileMissing, CompleteMultipart, HeadObject, Record, Reread, RemoveManifest,
              AbortFile, FinishCancel, db
<1>6. ASSUME NEW v \in Uploads, Outside(v) PROVE batch' = batch
  BY <1>6 DEF Outside, PutObject, PutParts, Expire, Drain, ExpiredComplete, db
<1>7. DeleteSide \/ ReconcileSide \/ Restart \/ UNCHANGED allVars => batch' = batch
  BY StoreTakes DEF Restart, db, allVars, vars
<1> QED
  BY <1>1, <1>2, <1>3, <1>4, <1>5, <1>6, <1>7 DEF LifecycleNext, UploadSide
LEMMA BatchesFirstNext ==
    ASSUME LInv, BatchesComeFirst, [LifecycleNext]_allVars
    PROVE  BatchesComeFirst'
<1>0. /\ \A u \in Uploads : BatchThere(u) => BatchThere(u)'
      /\ saved \subseteq Uploads /\ req \in [Requests -> Request]
      /\ \A r \in Requests : req[r].pc # "idle" => req[r].up \in Uploads
  BY BatchesStay DEF LInv, TypeOK
\* No session, request or row is new.
<1>1. ASSUME saved' \subseteq saved, rows' \subseteq rows,
             \A r \in Requests : req'[r].pc = "idle" \/ (req[r].pc # "idle" /\ req'[r].up = req[r].up)
      PROVE  BatchesComeFirst'
  BY <1>0, <1>1 DEF BatchesComeFirst
<1>2. ASSUME NEW r \in Requests, Handle(r) PROVE BatchesComeFirst'
  <2>1. \A q \in Requests : req'[q].pc = "idle" \/ (req[q].pc # "idle" /\ req'[q].up = req[q].up)
    <3>1. Ahead(r) /\ req[r].pc # "idle" /\ \A q \in Requests \ {r} : req'[q] = req[q]
      BY <1>2, HandleGoesAhead DEF LInv
    <3> QED
      BY <3>1 DEF Ahead
  <2>2. saved' \subseteq saved \cup {req[r].up} /\ req[r].pc # "idle"
    BY <1>2, <1>0 DEF Handle, InitStep, CompleteStep, CancelStep, InitFile, RejectInit, FinishInit,
              FileMissing, CompleteMultipart, HeadObject, Record, Reread, FinishBatch,
              RemoveManifest, AbortFile, FinishCancel, AtEntry, LoopDone
  <2>3. ASSUME NEW f \in rows' \ rows PROVE f \in FileSet(req[r].up)
    <3>1. AtEntry(r, "record", f)
      BY <1>2, <2>3 DEF Handle, InitStep, CompleteStep, CancelStep, InitFile, RejectInit, FinishInit,
              FileMissing, CompleteMultipart, HeadObject, Record, Reread, FinishBatch,
              RemoveManifest, AbortFile, FinishCancel, AtEntry, LoopDone, db
    <3> QED
      BY <3>1 DEF AtEntry, FileSet
  <2> QED
    BY <1>0, <2>1, <2>2, <2>3 DEF BatchesComeFirst
<1>3. ASSUME NEW r \in Requests, NEW u \in Uploads, Arrive(r, u) PROVE BatchesComeFirst'
  <2>1. PICK pc \in {"init", "files", "abort"} : Start(r, pc, u)
    BY <1>3 DEF Arrive, BeginInit, BeginComplete, BeginCancel
  <2>2. req'[r].up = u /\ \A q \in Requests \ {r} : req'[q] = req[q]
    <3>1. /\ req'[r] = [pc |-> pc, up |-> u, at |-> 1, good |-> {}, bad |-> {}]
          /\ \A q \in Requests \ {r} : req'[q] = req[q]
      BY <2>1, StartReq DEF LInv
    <3> QED
      BY <3>1
  <2>3. saved' = saved /\ rows' = rows
    BY <1>3 DEF Arrive, BeginInit, BeginComplete, BeginCancel, db
  <2>4. BatchThere(u)'
    <3>1. CASE BeginInit(r, u)
      BY <3>1 DEF BeginInit, BatchThere, LInv, TypeOK, BatchRow
    <3>2. CASE u \in saved
      BY <1>0, <3>2 DEF BatchesComeFirst
    <3> QED
      BY <1>3, <3>1, <3>2 DEF Arrive, BeginComplete, BeginCancel
  <2> QED
    BY <1>0, <2>2, <2>3, <2>4 DEF BatchesComeFirst
<1>4. ASSUME NEW u \in Uploads, Outside(u) PROVE BatchesComeFirst'
  BY <1>0, <1>1, <1>4 DEF Outside, PutObject, PutParts, Expire, Drain, ExpiredComplete, db
<1>5. CASE DeleteSide \/ ReconcileSide
  BY <1>0, <1>1, <1>5, StoreTakes
<1>6. CASE Restart
  BY <1>1, <1>6 DEF Restart, db, Idle
<1>7. CASE UNCHANGED allVars
  BY <1>0, <1>1, <1>7 DEF allVars, vars
<1> QED
  BY <1>2, <1>3, <1>4, <1>5, <1>6, <1>7 DEF LifecycleNext, UploadSide
\* A file whose row goes was there; a row that comes is a new one, "active".
LEMMA RowsStep ==
    ASSUME LInv, LInv', BatchesComeFirst, [LifecycleNext]_allVars
    PROVE  \/ UNCHANGED <<rows, status>>
           \/ \E f \in Files \ rows :
                 /\ rows' = rows \cup {f} /\ batch' = batch
                 /\ Owner(f) \in Uploads /\ BatchThere(Owner(f))
                 /\ status' = [status EXCEPT ![f] = "active"]
           \/ \E f \in rows : rows' = rows \ {f} /\ status' = status /\ batch' = batch
<1> DEFINE Goal == \/ UNCHANGED <<rows, status>>
                   \/ \E f \in Files \ rows :
                         /\ rows' = rows \cup {f} /\ batch' = batch
                         /\ Owner(f) \in Uploads /\ BatchThere(Owner(f))
                         /\ status' = [status EXCEPT ![f] = "active"]
                   \/ \E f \in rows : rows' = rows \ {f} /\ status' = status /\ batch' = batch
<1> SUFFICES Goal
  OBVIOUS
<1>0. rows \subseteq Files /\ status \in [Files -> Store!Status \cup {"new"}]
  BY DEF LInv, TypeOK
<1>1. CASE UploadSide
  <2>1. status' = [f \in Files |-> IF f \in rows' \ rows THEN "active" ELSE status[f]]
    BY <1>1 DEF UploadSide
  <2>2. CASE rows' = rows
    BY <1>0, <2>1, <2>2
  <2>3. ASSUME NEW r \in Requests, NEW f \in Files, Record(r, f), rows' # rows PROVE Goal
    <3>1. f \notin rows /\ rows' = rows \cup {f} /\ batch' = batch /\ AtEntry(r, "record", f)
      BY <2>3 DEF Record
    <3>2. req[r].up \in Uploads /\ f \in FileSet(req[r].up) /\ BatchThere(req[r].up)
      BY <3>1 DEF AtEntry, FileSet, LInv, TypeOK, BatchesComeFirst
    <3>3. Owner(f) \in Uploads /\ BatchThere(Owner(f))
      BY <3>2, OwnerIsUnique
    <3>4. status' = [status EXCEPT ![f] = "active"]
      BY <1>0, <2>1, <3>1
    <3> QED
      BY <3>1, <3>3, <3>4
  <2>4. \/ rows' = rows \/ \E r \in Requests, f \in Files : Record(r, f)
    BY <1>1 DEF UploadSide, Handle, InitStep, CompleteStep, CancelStep, InitFile, RejectInit,
                FinishInit, FileMissing, CompleteMultipart, HeadObject, Reread, FinishBatch,
                RemoveManifest, AbortFile, FinishCancel, Arrive, BeginInit, BeginComplete,
                BeginCancel, Outside, PutObject, PutParts, Expire, Drain, ExpiredComplete, db
  <2> HIDE DEF Goal
  <2> QED
    BY <2>2, <2>3, <2>4
<1>2. CASE DeleteSide \/ ReconcileSide
  <2>1. status' = status /\ batch' = batch
    BY <1>2, StoreTakes
  <2>2. rows' = rows \/ \E f : rows' = rows \ {f}
    BY <1>2 DEF DeleteSide, ReconcileSide, Store!BeginDelete, Store!DeleteStep, Store!LoadFile,
                Store!DeleteObject, Store!DeletePreview, Store!DeleteRow, Store!FinishDelete,
                Store!HardDelete, Store!BeginReconcile, Store!ReconcileStep, Store!ListObjects,
                Store!ListUploads, Store!DeleteOrphan, Store!DeleteOrphanPreview,
                Store!AbortOrphanUpload, Store!StopTool, Store!table
  <2> QED
    BY <2>1, <2>2
<1>3. Restart \/ UNCHANGED allVars => UNCHANGED <<rows, status>>
  BY DEF Restart, db, allVars, vars
<1> QED
  BY <1>1, <1>2, <1>3 DEF LifecycleNext
LEMMA TableStep ==
    ASSUME LInv, LInv', BatchesComeFirst, [LifecycleNext]_allVars
    PROVE  [Table!Next]_<<{u \in Uploads : BatchThere(u)},
                          [f \in Files |-> IF f \in rows THEN status[f] ELSE "none"]>>
<1> DEFINE there == {u \in Uploads : BatchThere(u)}
           row == [f \in Files |-> IF f \in rows THEN status[f] ELSE "none"]
<1> SUFFICES Table!Next \/ (there' = there /\ row' = row)
  OBVIOUS
<1>0. rows \subseteq Files /\ status \in [Files -> Store!Status \cup {"new"}]
  BY DEF LInv, TypeOK
<1>1. batch' = batch => there' = there
  BY DEF BatchThere
<1>2. CASE UNCHANGED <<rows, status>>
  <2>1. row' = row
    BY <1>2
  <2>2. CASE \A u \in Uploads : BatchThere(u)' => BatchThere(u)
    <3>1. there' = there
      BY <2>2, BatchesStay
    <3> QED
      BY <2>1, <3>1
  <2>3. ASSUME NEW r \in Requests, NEW v \in Uploads, BeginInit(r, v),
               \A u \in Uploads : BatchThere(u)' => BatchThere(u) \/ u = v
        PROVE  Table!AddBatch(v)
    <3>1. ~BatchThere(v) /\ BatchThere(v)'
      BY <2>3 DEF BeginInit, BatchThere, LInv, TypeOK, BatchRow
    <3>2. there' = there \cup {v}
      BY <2>3, <3>1, BatchesStay
    <3> QED
      BY <2>1, <3>1, <3>2 DEF Table!AddBatch
  <2> QED
    BY <2>2, <2>3, BatchesStay DEF Table!Next
<1>3. ASSUME NEW f \in Files \ rows, rows' = rows \cup {f}, BatchThere(Owner(f)), batch' = batch,
             status' = [status EXCEPT ![f] = "active"], Owner(f) \in Uploads
      PROVE  Table!Add(f)
  <2>1. row' = [row EXCEPT ![f] = "active"]
    BY <1>0, <1>3
  <2> QED
    BY <1>1, <1>3, <2>1 DEF Table!Add
<1>4. ASSUME NEW f \in rows, rows' = rows \ {f}, status' = status, batch' = batch
      PROVE  Table!Remove(f)
  <2>1. row' = [row EXCEPT ![f] = "none"] /\ row[f] = status[f]
    BY <1>0, <1>4
  <2>2. status[f] # "none"
    BY <1>0 DEF Store!Status
  <2> QED
    BY <1>0, <1>1, <1>4, <2>1, <2>2 DEF Table!Remove
<1> QED
  BY <1>0, <1>2, <1>3, <1>4, RowsStep DEF Table!Next

\* A row never lacks that of its batch, nor does a manifest or a request at work
\* on one: the summary a complete writes has a row to go to, and a pickup code
\* of an anonymous batch is there before the first of its files.
THEOREM RowsHaveBatches == LifecycleSpec => []BatchesComeFirst
<1>1. LifecycleInit => BatchesComeFirst
  BY DEF LifecycleInit, Init, Idle, BatchesComeFirst
<1>2. LInv /\ BatchesComeFirst /\ [LifecycleNext]_allVars => BatchesComeFirst'
  BY BatchesFirstNext
<1> QED
  BY <1>1, <1>2, LifecycleInvariant, PTL DEF LifecycleSpec

\* However completes, cancels, deletions, the reconcile program and restarts
\* interleave, whoever only reads the tables sees FileTable.
THEOREM ImplementsTable == LifecycleSpec => Table!Spec
<1>1. LifecycleInit => Table!Init
  BY DEF LifecycleInit, Init, BatchThere, Table!Init
<1>2. LInv /\ LInv' /\ BatchesComeFirst /\ [LifecycleNext]_allVars =>
        [Table!Next]_<<{u \in Uploads : BatchThere(u)},
                       [f \in Files |-> IF f \in rows THEN status[f] ELSE "none"]>>
  BY TableStep
<1> QED
  BY <1>1, <1>2, LifecycleInvariant, RowsHaveBatches, PTL DEF LifecycleSpec, Table!Spec
=============================================================================
