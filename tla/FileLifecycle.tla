--------------------------- MODULE FileLifecycle ---------------------------
(***************************************************************************)
(* Uploads, deletions and cmd/r2reconcile together.  DirectUpload and      *)
(* FileStore meet in the files table and in the bucket: a complete may be  *)
(* recording a file that another request has recorded and a third one is   *)
(* deleting, while the reconcile program compares the two.                 *)
(*                                                                         *)
(* Posters, patches, cmd/purge-deleted and cmd/r2dedupe stay in FileStore. *)
(***************************************************************************)
EXTENDS DirectUpload

CONSTANTS Jobs, Tools, Name, Rank

VARIABLES status, thumb, previews, audited, job, tool

Store == INSTANCE FileStore WITH Media <- {}, cached <- {}

uploadVars == <<batch, saved, age, parts, req>>
storeVars == <<thumb, previews, audited, job, tool>>
allVars == <<vars, status, storeVars>>

LifecycleInit == Init /\ Store!Init

\* The INSERT gives a new row the status 'active'; a file that was deleted may
\* be recorded again by a complete that did not notice.
UploadSide ==
    /\ \/ \E r \in Requests : Handle(r)
       \/ \E r \in Requests, u \in Uploads : Arrive(r, u)
       \/ \E u \in Uploads : Outside(u)
    /\ status' = [f \in Files |-> IF f \in rows' \ rows THEN "active" ELSE status[f]]
    /\ UNCHANGED storeVars

\* Any file may be asked for, recorded or not.
DeleteSide ==
    /\ \E j \in Jobs : \/ \E f \in Files : Store!BeginDelete(j, {f})
                       \/ Store!DeleteStep(j)
    /\ UNCHANGED uploadVars

ReconcileSide ==
    /\ \E t \in Tools : \/ Store!BeginReconcile(t) \/ Store!ReconcileStep(t)
                        \/ Store!StopTool(t)
    /\ UNCHANGED uploadVars

\* One process serves uploads and deletions; the tools are their own.
Restart ==
    /\ req' = [r \in Requests |-> Idle]
    /\ job' = [j \in Jobs |-> Store!IdleJob]
    /\ UNCHANGED <<db, saved, age, r2, status, thumb, previews, audited, tool>>

LifecycleNext == UploadSide \/ DeleteSide \/ ReconcileSide \/ Restart

LifecycleSpec == LifecycleInit /\ [][LifecycleNext]_allVars

-----------------------------------------------------------------------------
(* Safety *)

\* Deletions and the reconcile program may take rows and objects away at any
\* moment, also between a complete's HEAD, its INSERT and its reread; even so a
\* batch reads "completed" only when every file of it has been recorded.
CompletedWasWhole ==
    \A u \in Uploads : batch[u].status = "completed" =>
        \A f \in FileSet(u) : status[f] # "new"

\* A file counts as uploaded only if its row survived until the reread.  Once
\* a complete holds it as counted, it can be missing only because it was
\* deleted after that, so the file was recorded.
CountedWasRecorded ==
    \A r \in Requests : req[r].pc # "idle" =>
        \A f \in req[r].good : status[f] # "new" /\ f \in FileSet(req[r].up)

-----------------------------------------------------------------------------
(* Liveness: links die and requests are served; the server may be restarted *)
(* any number of times.  A run of cmd/r2reconcile may fail anywhere, but     *)
(* each of its calls succeeds now and then if it keeps being made.  Whether  *)
(* the program is run at all is up to its operator.                          *)

ToolFair(t) ==
    /\ SF_allVars(Store!ListObjects(t) /\ UNCHANGED uploadVars)
    /\ SF_allVars(Store!ListUploads(t) /\ UNCHANGED uploadVars)
    /\ \A f \in Files :
          /\ SF_allVars(Store!DeleteOrphan(t, f) /\ UNCHANGED uploadVars)
          /\ SF_allVars(Store!AbortOrphanUpload(t, f) /\ UNCHANGED uploadVars)

ReclaimSpec ==
    /\ LifecycleSpec
    /\ \A r \in Requests :
          WF_allVars(Handle(r) /\ UploadSide)
    /\ \A j \in Jobs : WF_allVars(Store!DeleteStep(j) /\ UNCHANGED uploadVars)
    /\ \A u \in Uploads : WF_allVars((Expire(u) \/ Drain(u)) /\ UploadSide)
    /\ \A t \in Tools : ToolFair(t)

Reconciled == \E t \in Tools : Store!BeginReconcile(t) /\ UNCHANGED uploadVars

\* Everything an upload or a delete leaves behind is within the reach of
\* cmd/r2reconcile, if it is run again and again: objects of cancelled, expired,
\* half-recorded or deleted files, put before or after, and the multipart
\* uploads that a rejected init, an expired complete or a failed abort forgot.
LeaksReclaimed ==
    []<><<Reconciled>>_allVars =>
        \A f \in Files :
            /\ f \in objects \ rows ~> f \notin objects \ rows
            /\ f \in open ~> f \notin open
=============================================================================
