---------------------------- MODULE DirectUpload ----------------------------
(***************************************************************************)
(* Browser uploads straight to R2: POST /api/upload/r2/{init,complete,     *)
(* cancel} of internal/server/server.go, the manifest files they keep      *)
(* under TempDir/r2-direct, the upload_batches and files rows they write,  *)
(* and the objects and multipart uploads the presigned links create in R2. *)
(*                                                                         *)
(* net/http runs every request in its own goroutine and no lock guards a   *)
(* manifest, so a request is a small process: one step per database        *)
(* statement, R2 call or file system call.  SQLite is opened with one      *)
(* connection, hence each statement is atomic, a handler is not.           *)
(***************************************************************************)
EXTENDS Naturals, Sequences

CONSTANTS
    Uploads,     \* upload sessions; a session owns one manifest and one batch
    Files,       \* file ids made by ids.New("fil"); also the R2 object keys
    Multipart,   \* the files larger than r2DirectUploadThreshold
    FilesOf,     \* FilesOf[u]: the manifest entries of u, in request order
    Requests,    \* requests the server may be handling at the same time
    None         \* the upload of an idle request slot

ASSUME FilesOfAssumption == FilesOf \in [Uploads -> Seq(Files)]
ASSUME MultipartAssumption == Multipart \subseteq Files
\* ids.New: no file id is issued twice.
ASSUME FreshIdsAssumption ==
    \A u, v \in Uploads : \A i \in DOMAIN FilesOf[u], j \in DOMAIN FilesOf[v] :
        FilesOf[u][i] = FilesOf[v][j] => u = v /\ i = j
ASSUME NoneAssumption == None \notin Uploads

VARIABLES
    batch,       \* upload_batches rows, by session
    rows,        \* ids of the files table
    saved,       \* sessions whose manifest.json is on disk
    age,         \* age of a session's manifest and presigned links
    objects,     \* R2 objects, by key
    open,        \* R2 multipart uploads neither completed nor aborted
    parts,       \* multipart files of which the parts completes name have reached R2
    req          \* what each request is doing

vars == <<batch, rows, saved, age, objects, open, parts, req>>
db == <<batch, rows>>
r2 == <<objects, open, parts>>

-----------------------------------------------------------------------------
(* Types *)

\* success_count and failed_count are kept as the sets they count.
BatchRow == [status : {"absent", "created", "completed", "partial", "failed"},
             good : SUBSET Files, bad : SUBSET Files]

\* The local variables of a handler: the manifest it loaded, the loop index,
\* and the files it has counted as succeeded and as failed.
Request == [pc : {"idle", "init", "files", "record", "reread", "remove", "abort"},
            up : Uploads \cup {None}, at : Nat \ {0},
            good : SUBSET Files, bad : SUBSET Files]

TypeOK ==
    /\ batch \in [Uploads -> BatchRow]
    /\ rows \subseteq Files
    /\ saved \subseteq Uploads
    /\ age \in [Uploads -> {"new", "fresh", "expired", "dead"}]
    /\ objects \subseteq Files
    /\ open \subseteq Multipart
    /\ parts \subseteq Multipart
    /\ req \in [Requests -> Request]
    /\ \A r \in Requests : req[r].pc # "idle" => req[r].up \in Uploads
    /\ \A r \in Requests : req[r].pc \in {"record", "reread"}
                              => req[r].at \in DOMAIN FilesOf[req[r].up]

-----------------------------------------------------------------------------
(* Helpers *)

FileSet(u) == {FilesOf[u][i] : i \in DOMAIN FilesOf[u]}

Idle == [pc |-> "idle", up |-> None, at |-> 1, good |-> {}, bad |-> {}]

\* The request r has reached its handler's loop entry for file f.
AtEntry(r, pc, f) ==
    /\ req[r].pc = pc
    /\ req[r].at \in DOMAIN FilesOf[req[r].up]
    /\ f = FilesOf[req[r].up][req[r].at]

\* The loop of request r has gone over every entry.
LoopDone(r, pc) ==
    /\ req[r].pc = pc
    /\ req[r].at \notin DOMAIN FilesOf[req[r].up]

Start(r, pc, u) ==
    /\ req[r].pc = "idle"
    /\ req' = [req EXCEPT ![r] = [Idle EXCEPT !.pc = pc, !.up = u]]

Goto(r, pc) == req' = [req EXCEPT ![r].pc = pc]
NextEntry(r) == req' = [req EXCEPT ![r].at = @ + 1]
Answer(r) == req' = [req EXCEPT ![r] = Idle]

\* success++ / failed++ and on to the next entry of the loop.
Succeed(r, f) ==
    req' = [req EXCEPT ![r].pc = "files", ![r].at = @ + 1, ![r].good = @ \cup {f}]
Fail(r, f) ==
    req' = [req EXCEPT ![r].pc = "files", ![r].at = @ + 1, ![r].bad = @ \cup {f}]

BatchStatus(good, bad) ==
    CASE bad # {} /\ good = {} -> "failed"
      [] bad # {} /\ good # {} -> "partial"
      [] bad = {}              -> "completed"

-----------------------------------------------------------------------------
Init ==
    /\ batch = [u \in Uploads |-> [status |-> "absent", good |-> {}, bad |-> {}]]
    /\ rows = {}
    /\ saved = {}
    /\ age = [u \in Uploads |-> "new"]
    /\ objects = {}
    /\ open = {}
    /\ parts = {}
    /\ req = [r \in Requests |-> Idle]

-----------------------------------------------------------------------------
(* handleR2UploadInit *)

\* The batch row is inserted before any file of the request is looked at.
BeginInit(r, u) ==
    /\ batch[u].status = "absent"
    /\ Start(r, "init", u)
    /\ batch' = [batch EXCEPT ![u].status = "created"]
    /\ UNCHANGED <<rows, saved, age, r2>>

\* Variant: every file gets a multipart upload, whatever its size.
InitFileNoThreshold(r, f) ==
    /\ AtEntry(r, "init", f)
    /\ open' = open \cup {f}
    /\ NextEntry(r)
    /\ UNCHANGED <<db, saved, age, objects, parts>>

\* A small file gets a presigned PUT link, a large one a multipart upload.
InitFile(r, f) ==
    /\ AtEntry(r, "init", f)
    /\ open' = open \cup ({f} \cap Multipart)
    /\ NextEntry(r)
    /\ UNCHANGED <<db, saved, age, objects, parts>>

\* The policy refuses the file, R2 fails, or there would be too many parts:
\* the handler returns at once and leaves the batch row and the multipart
\* uploads of the earlier entries behind.  Its own multipart upload survives
\* when R2 created it and the answer, or the best-effort abort, was lost.
RejectInit(r, f) ==
    /\ AtEntry(r, "init", f)
    /\ \/ open' = open
       \/ open' = open \cup ({f} \cap Multipart)
    /\ Answer(r)
    /\ UNCHANGED <<db, saved, age, objects, parts>>

\* saveR2DirectManifest writes a temporary file and renames it; when that
\* fails the session is lost.
FinishInit(r) ==
    /\ LoopDone(r, "init")
    /\ Answer(r)
    /\ \/ /\ saved' = saved \cup {req[r].up}
          /\ age' = [age EXCEPT ![req[r].up] = "fresh"]
       \/ UNCHANGED <<saved, age>>
    /\ UNCHANGED <<db, r2>>

-----------------------------------------------------------------------------
(* The browser and the clock *)

\* A presigned PUT stores the whole object; it may be repeated, and one begun
\* before the link ran out may land after the manifest expired.
PutObject(u, f) ==
    /\ age[u] \in {"fresh", "expired"}
    /\ f \in FileSet(u) \ Multipart
    /\ objects' = objects \cup {f}
    /\ UNCHANGED <<db, saved, age, open, parts, req>>

\* A part lands of a multipart upload that is still open, the last of those that
\* completes will name: the server does not compare their number with PartCount.
PutParts(u, f) ==
    /\ age[u] \in {"fresh", "expired"}
    /\ f \in FileSet(u) \cap open
    /\ parts' = parts \cup {f}
    /\ UNCHANGED <<db, saved, age, objects, open, req>>

\* chunkUploadExpiry passes: the manifest is expired.
Expire(u) ==
    /\ age[u] = "fresh"
    /\ age' = [age EXCEPT ![u] = "expired"]
    /\ UNCHANGED <<db, saved, r2, req>>

\* No transfer that was begun with a live link is under way any more.
Drain(u) ==
    /\ age[u] = "expired"
    /\ age' = [age EXCEPT ![u] = "dead"]
    /\ UNCHANGED <<db, saved, r2, req>>

-----------------------------------------------------------------------------
(* handleR2UploadComplete.  Nothing claims the manifest: any number of      *)
(* completes, and cancels, of a session may run together.                   *)

BeginComplete(r, u) ==
    /\ u \in saved
    /\ age[u] = "fresh"
    /\ Start(r, "files", u)
    /\ UNCHANGED <<db, saved, age, r2>>

\* A complete of an expired session removes the manifest and answers 410; the
\* multipart uploads the manifest names are not aborted.
ExpiredComplete(u) ==
    /\ u \in saved
    /\ age[u] \notin {"new", "fresh"}
    /\ saved' = saved \ {u}
    /\ UNCHANGED <<db, age, r2, req>>

\* Variant: an entry missing from the body is skipped, not counted as failed.
FileMissingUncounted(r, f) ==
    /\ AtEntry(r, "files", f)
    /\ NextEntry(r)
    /\ UNCHANGED <<db, saved, age, r2>>

\* The body names no uploaded parts or object for the entry.
FileMissing(r, f) ==
    /\ AtEntry(r, "files", f)
    /\ Fail(r, f)
    /\ UNCHANGED <<db, saved, age, r2>>

\* CompleteR2MultipartUpload: R2 assembles the parts, the answer may be lost
\* (a dropped browser connection cancels r.Context()), or R2 refuses.  A
\* repeated call finds the multipart upload gone and fails.
CompleteMultipart(r, f) ==
    /\ AtEntry(r, "files", f)
    /\ f \in Multipart
    /\ \/ /\ f \in open \cap parts
          /\ open' = open \ {f}
          /\ objects' = objects \cup {f}
          /\ Goto(r, "record") \/ Fail(r, f)
       \/ /\ Fail(r, f)
          /\ UNCHANGED <<open, objects>>
    /\ UNCHANGED <<db, saved, age, parts>>

\* Variant: the browser's word is taken for the PUT, without a HEAD.
HeadObjectTrusted(r, f) ==
    /\ AtEntry(r, "files", f)
    /\ f \notin Multipart
    /\ Goto(r, "record")
    /\ UNCHANGED <<db, saved, age, r2>>

\* R2ObjectExists: HEAD of the key, any failure counting as "not there".
HeadObject(r, f) ==
    /\ AtEntry(r, "files", f)
    /\ f \notin Multipart
    /\ \/ f \in objects /\ Goto(r, "record")
       \/ Fail(r, f)
    /\ UNCHANGED <<db, saved, age, r2>>

\* Variant: INSERT OR REPLACE, an existing row is written again.
RecordReplace(r, f) ==
    /\ AtEntry(r, "record", f)
    /\ \/ rows' = rows \cup {f} /\ Goto(r, "reread")
       \/ Fail(r, f) /\ UNCHANGED rows
    /\ UNCHANGED <<batch, saved, age, r2>>

\* Variant: the error of the INSERT is dropped.
RecordErrorIgnored(r, f) ==
    /\ AtEntry(r, "record", f)
    /\ \/ f \notin rows /\ rows' = rows \cup {f} /\ Goto(r, "reread")
       \/ Succeed(r, f) /\ UNCHANGED rows
    /\ UNCHANGED <<batch, saved, age, r2>>

\* Variant: a file that cannot be recorded ends the request.
RecordStops(r, f) ==
    /\ AtEntry(r, "record", f)
    /\ \/ f \notin rows /\ rows' = rows \cup {f} /\ Goto(r, "reread")
       \/ Answer(r) /\ UNCHANGED rows
    /\ UNCHANGED <<batch, saved, age, r2>>

\* createR2UploadedFileRecord: the policy in force may refuse the file, and
\* the INSERT fails on an id that is already there or on a database error.
Record(r, f) ==
    /\ AtEntry(r, "record", f)
    /\ \/ f \notin rows /\ rows' = rows \cup {f} /\ Goto(r, "reread")
       \/ Fail(r, f) /\ UNCHANGED rows
    /\ UNCHANGED <<batch, saved, age, r2>>

\* CreateFile answers with a GetFile of the row it inserted; when the row is gone
\* by then, or the SELECT fails, the file counts as failed.
Reread(r, f) ==
    /\ AtEntry(r, "reread", f)
    /\ \/ f \in rows /\ Succeed(r, f)
       \/ Fail(r, f)
    /\ UNCHANGED <<db, saved, age, r2>>

\* Variant: the manifest is removed whether or not files failed.
FinishBatchAlwaysRemoves(r) ==
    /\ LoopDone(r, "files")
    /\ \/ batch' = [batch EXCEPT ![req[r].up] =
                       [status |-> BatchStatus(req[r].good, req[r].bad),
                        good |-> req[r].good, bad |-> req[r].bad]]
       \/ UNCHANGED batch
    /\ Goto(r, "remove")
    /\ UNCHANGED <<rows, saved, age, r2>>

\* Variant: the summary counts every entry of the manifest as a success.
FinishBatchTotals(r) ==
    /\ LoopDone(r, "files")
    /\ batch' = [batch EXCEPT ![req[r].up] =
                       [status |-> BatchStatus(req[r].good, req[r].bad),
                        good |-> FileSet(req[r].up), bad |-> req[r].bad]]
    /\ IF req[r].bad = {} THEN Goto(r, "remove") ELSE Answer(r)
    /\ UNCHANGED <<rows, saved, age, r2>>

\* Variant: failed entries are tried again until there are none.
FinishBatchRetries(r) ==
    /\ LoopDone(r, "files")
    /\ IF req[r].bad = {}
       THEN /\ batch' = [batch EXCEPT ![req[r].up] =
                           [status |-> "completed", good |-> req[r].good, bad |-> {}]]
            /\ Goto(r, "remove")
       ELSE /\ req' = [req EXCEPT ![r].at = 1, ![r].bad = {}]
            /\ UNCHANGED batch
    /\ UNCHANGED <<rows, saved, age, r2>>

\* UpdateBatchCounts overwrites the summary, its error is ignored; without a
\* failed file the manifest is removed next.
FinishBatch(r) ==
    /\ LoopDone(r, "files")
    /\ \/ batch' = [batch EXCEPT ![req[r].up] =
                       [status |-> BatchStatus(req[r].good, req[r].bad),
                        good |-> req[r].good, bad |-> req[r].bad]]
       \/ UNCHANGED batch
    /\ IF req[r].bad = {} THEN Goto(r, "remove") ELSE Answer(r)
    /\ UNCHANGED <<rows, saved, age, r2>>

RemoveManifest(r) ==
    /\ req[r].pc = "remove"
    /\ saved' = saved \ {req[r].up}
    /\ Answer(r)
    /\ UNCHANGED <<db, age, r2>>

-----------------------------------------------------------------------------
(* handleR2UploadCancel *)

BeginCancel(r, u) ==
    /\ u \in saved
    /\ Start(r, "abort", u)
    /\ UNCHANGED <<db, saved, age, r2>>

\* AbortR2MultipartUpload, its error ignored; stored objects are left alone.
AbortFile(r, f) ==
    /\ AtEntry(r, "abort", f)
    /\ \/ open' = open \ {f}
       \/ UNCHANGED open
    /\ NextEntry(r)
    /\ UNCHANGED <<db, saved, age, objects, parts>>

FinishCancel(r) ==
    /\ LoopDone(r, "abort")
    /\ saved' = saved \ {req[r].up}
    /\ Answer(r)
    /\ UNCHANGED <<db, age, r2>>

-----------------------------------------------------------------------------
\* The server stops or is restarted: every request is cut off where it is.
Crash ==
    /\ req' = [r \in Requests |-> Idle]
    /\ UNCHANGED <<db, saved, age, r2>>

InitStep(r) ==
    \/ \E f \in Files : InitFile(r, f) \/ RejectInit(r, f)
    \/ FinishInit(r)

CompleteStep(r) ==
    \/ \E f \in Files : \/ FileMissing(r, f) \/ CompleteMultipart(r, f)
                        \/ HeadObject(r, f) \/ Record(r, f) \/ Reread(r, f)
    \/ FinishBatch(r)
    \/ RemoveManifest(r)

CancelStep(r) ==
    \/ \E f \in Files : AbortFile(r, f)
    \/ FinishCancel(r)

\* A step of a request that is being handled.
Handle(r) == InitStep(r) \/ CompleteStep(r) \/ CancelStep(r)

Arrive(r, u) == BeginInit(r, u) \/ BeginComplete(r, u) \/ BeginCancel(r, u)

Outside(u) ==
    \/ \E f \in Files : PutObject(u, f) \/ PutParts(u, f)
    \/ Expire(u) \/ Drain(u) \/ ExpiredComplete(u)

Next ==
    \/ \E r \in Requests : Handle(r)
    \/ \E r \in Requests, u \in Uploads : Arrive(r, u)
    \/ \E u \in Uploads : Outside(u)
    \/ Crash

Spec == Init /\ [][Next]_vars

\* The Go scheduler runs every handler goroutine to its end.
Scheduled == \A r \in Requests : WF_vars(Handle(r))

-----------------------------------------------------------------------------
(* Safety *)

\* A row of the files table names an object R2 has: files are recorded only
\* after a HEAD or a completed multipart upload, by whichever of several
\* concurrent completes gets there, and no cancel, expiry or late abort takes
\* the object away again.
RowHasObject == rows \subseteq objects

\* The summary of a batch never claims a file that has no row, however many
\* completes and restarts there were before the last UPDATE.
BatchNeverOverstates ==
    \A u \in Uploads : batch[u].good \subseteq rows \cap FileSet(u)

\* A batch reads "completed" only when every file of its manifest has a row.
CompletedIsWhole ==
    \A u \in Uploads : batch[u].status = "completed" => FileSet(u) \subseteq rows

\* Concurrent completes never both count one file as uploaded: the primary key
\* of files decides, since the handlers take no lock.
NoDoubleCount ==
    \A q, r \in Requests : q # r => req[q].good \cap req[r].good = {}

\* A live session loses its manifest only to a cancel or once every file is
\* recorded, so a complete that failed for some files can be repeated.
ManifestKeptUntilWhole ==
    [][\A u \in saved \ saved' :
          \/ age[u] # "fresh"
          \/ \E r \in Requests : req[r].pc = "abort" /\ req[r].up = u
          \/ FileSet(u) \subseteq rows]_vars

\* The files, rows and summaries behave as the abstract ledger.
Ledger == INSTANCE UploadLedger WITH
    Content <- [u \in Uploads |-> FileSet(u)],
    stored <- objects, recorded <- rows,
    reported <- [u \in Uploads |-> batch[u].good]
LedgerSpec == Ledger!Spec

-----------------------------------------------------------------------------
(* Liveness: a server that stays up, R2 and SQLite accepting a request that *)
(* is made again and again.  Nobody has to make one: the upload page calls  *)
(* complete once, a client of the API may repeat it.                        *)

HeadFound(f) == \E r \in Requests : HeadObject(r, f) /\ Goto(r, "record")
Inserted(f) == \E r \in Requests : Record(r, f) /\ f \in rows'

RetrySpec ==
    /\ Init
    /\ [][\/ \E r \in Requests : Handle(r)
          \/ \E r \in Requests, u \in Uploads : Arrive(r, u)
          \/ \E u \in Uploads : Outside(u)]_vars
    /\ Scheduled
    /\ \A f \in Files : SF_vars(HeadFound(f)) /\ SF_vars(Inserted(f))

\* A client that asks again and again to complete a session whose small files are
\* all in R2 gets them all recorded, since failed entries leave the manifest in
\* place and recorded ones do not stop the others.
RetryRecordsAll ==
    \A u \in Uploads :
        /\ <>[](u \in saved /\ age[u] = "fresh" /\ FileSet(u) \subseteq objects)
        /\ []<><<\E r \in Requests : BeginComplete(r, u)>>_vars
        => <>(FileSet(u) \subseteq rows)

\* Every request is answered: no interleaving of completes and cancels leaves
\* a handler in its loop.
EveryRequestAnswers ==
    \A r \in Requests : req[r].pc # "idle" ~> req[r].pc = "idle"

=============================================================================
