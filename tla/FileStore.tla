----------------------------- MODULE FileStore -----------------------------
(***************************************************************************)
(* What happens to a stored file after its upload: the delete handlers     *)
(* (owner and administrator, single and batch), the administrator's patch, *)
(* the poster that is generated and mirrored to R2 when a file is viewed,  *)
(* and the maintenance programs cmd/r2reconcile, cmd/purge-deleted and     *)
(* cmd/r2dedupe, separate processes on the same database and bucket.       *)
(*                                                                         *)
(* A file is two things kept in step by hand, a files row and an R2 object *)
(* (and a preview object, once a poster was made).  A job is one request:  *)
(* one step per statement or R2 call, on the row it read at the beginning. *)
(***************************************************************************)
EXTENDS Naturals

CONSTANTS
    Files,   \* file ids, which are also the keys of object and preview
    Media,   \* those that are audio or video and get a poster
    Jobs,    \* delete and poster requests handled at the same time
    Tools,   \* maintenance programs running at the same time
    Name,    \* Name[f]: original_name
    Rank,    \* Rank[f]: place of f in the order created_at, id
    None     \* no file

ASSUME NoFileAssumption == None \notin Files
ASSUME MediaAssumption == Media \subseteq Files
ASSUME RankAssumption ==
    /\ Rank \in [Files -> Nat]
    /\ \A f, g \in Files : Rank[f] = Rank[g] => f = g

VARIABLES
    rows,      \* ids of the files table
    status,    \* their status column; "new" before the row was inserted
    thumb,     \* rows whose thumbnail_file_id is set
    objects,   \* files whose object is in R2
    previews,  \* files whose preview object is in R2
    cached,    \* files whose poster is on the server's disk, and usable
    open,      \* unfinished R2 multipart uploads, by key
    audited,   \* deletions that an audit entry counts
    job,       \* what each delete or poster request is doing
    tool       \* what each maintenance program is doing

vars == <<rows, status, thumb, objects, previews, cached, open, audited, job, tool>>
table == <<rows, status, thumb>>
bucket == <<objects, previews, open>>

-----------------------------------------------------------------------------
(* Types *)

\* "hidden" stands for every status that is neither 'active' nor 'deleted':
\* the patch handler stores whatever string it is given.
Status == {"active", "hidden", "deleted"}

\* hasThumb is thumbnail_file_id as the request read it; done is its count.
Job == [pc : {"idle", "pick", "object", "preview", "row",
              "look", "remove", "fetch", "make", "upload", "link"},
        todo : SUBSET Files, cur : Files \cup {None}, hasThumb : BOOLEAN,
        done : SUBSET Files]

\* keep and keepThumb are referencedR2Keys' answer; the todo sets are the work
\* a program found; cur is the file whose object it has deleted already.
Tool == [pc : {"idle", "list", "uploads", "clean", "object", "row"},
         keep : SUBSET Files, keepThumb : SUBSET Files,
         todo : SUBSET Files, todoPreviews : SUBSET Files, todoOpen : SUBSET Files,
         cur : Files \cup {None}]

TypeOK ==
    /\ rows \subseteq Files
    /\ status \in [Files -> Status \cup {"new"}]
    /\ \A f \in rows : status[f] # "new"
    /\ thumb \subseteq rows
    /\ objects \subseteq Files
    /\ previews \subseteq Files
    /\ cached \subseteq Files
    /\ open \subseteq Files
    /\ audited \subseteq Files
    /\ job \in [Jobs -> Job]
    /\ tool \in [Tools -> Tool]
    /\ \A j \in Jobs : job[j].pc \notin {"idle", "pick"} => job[j].cur # None
    /\ \A t \in Tools : tool[t].pc = "row" => tool[t].cur # None

-----------------------------------------------------------------------------
(* Helpers *)

IdleJob == [pc |-> "idle", todo |-> {}, cur |-> None, hasThumb |-> FALSE, done |-> {}]
IdleTool == [pc |-> "idle", keep |-> {}, keepThumb |-> {}, todo |-> {},
             todoPreviews |-> {}, todoOpen |-> {}, cur |-> None]

\* GetFile without includeDeleted finds the row.
Visible(f) == f \in rows /\ status[f] # "deleted"
Active == {f \in rows : status[f] = "active"}

Goto(j, pc) == job' = [job EXCEPT ![j].pc = pc]
EndJob(j) == job' = [job EXCEPT ![j] = IdleJob]
EndTool(t) == tool' = [tool EXCEPT ![t] = IdleTool]

\* The next entry of a batch; a failed one ends the whole request.
NextFile(j, counted) ==
    job' = [job EXCEPT ![j] = [IdleJob EXCEPT
               !.pc = "pick", !.todo = job[j].todo \ {job[j].cur},
               !.done = job[j].done \cup counted]]

\* HardDelete, one transaction; deleting a row that is gone succeeds too.
HardDelete(f) ==
    /\ rows' = rows \ {f}
    /\ thumb' = thumb \ {f}

-----------------------------------------------------------------------------
Init ==
    /\ rows = {}
    /\ status = [f \in Files |-> "new"]
    /\ thumb = {}
    /\ objects = {}
    /\ previews = {}
    /\ cached = {}
    /\ open = {}
    /\ audited = {}
    /\ job = [j \in Jobs |-> IdleJob]
    /\ tool = [t \in Tools |-> IdleTool]

\* An upload of its own object and row; DirectUpload has it step by step.
Upload(f) ==
    /\ status[f] = "new"
    /\ f \notin open
    /\ \A g \in rows : Rank[g] < Rank[f]
    /\ objects' = objects \cup {f}
    /\ rows' = rows \cup {f}
    /\ status' = [status EXCEPT ![f] = "active"]
    /\ UNCHANGED <<thumb, previews, open, cached, audited, job, tool>>

\* An upload that was rejected, cancelled in vain or expired: its file is never
\* recorded, its multipart upload stays open.
AbandonUpload(f) ==
    /\ status[f] = "new"
    /\ open' = open \cup {f}
    /\ UNCHANGED <<table, objects, previews, cached, audited, job, tool>>

\* PatchAdmin: one UPDATE, of any status to any other.
Patch(f, s) ==
    /\ f \in rows
    /\ status[f] # s
    /\ status' = [status EXCEPT ![f] = s]
    /\ UNCHANGED <<rows, thumb, bucket, cached, audited, job, tool>>

-----------------------------------------------------------------------------
(* Deleting: handleFileAPI, handleFilesBatch, handleAdminFileAPI and        *)
(* handleAdminFilesBatch.  A single delete is a batch of one file.          *)

BeginDelete(j, S) ==
    /\ job[j].pc = "idle"
    /\ S # {}
    /\ job' = [job EXCEPT ![j] = [IdleJob EXCEPT !.pc = "pick", !.todo = S]]
    /\ UNCHANGED <<table, bucket, cached, audited, tool>>

\* GetFile: the rest of the deletion goes by this copy of the row.  A file
\* that is not found is skipped, and so is one whose SELECT failed.
LoadFile(j, f) ==
    /\ job[j].pc = "pick"
    /\ f \in job[j].todo
    /\ \/ /\ Visible(f)
          /\ job' = [job EXCEPT ![j] = [@ EXCEPT
                       !.pc = "object", !.cur = f, !.hasThumb = f \in thumb]]
       \/ job' = [job EXCEPT ![j].todo = @ \ {f}]
    /\ UNCHANGED <<table, bucket, cached, audited, tool>>

AfterObject(j) == Goto(j, IF job[j].hasThumb THEN "preview" ELSE "row")

\* Variant: an object that R2 does not have is an error.
DeleteObjectMissingFails(j) ==
    /\ job[j].pc = "object"
    /\ \/ /\ job[j].cur \in objects
          /\ objects' = objects \ {job[j].cur}
          /\ AfterObject(j) \/ EndJob(j)
       \/ EndJob(j) /\ UNCHANGED objects
    /\ UNCHANGED <<table, previews, open, cached, audited, tool>>

\* Variant: the error of the object's deletion is dropped.
DeleteObjectErrorIgnored(j) ==
    /\ job[j].pc = "object"
    /\ \/ objects' = objects \ {job[j].cur}
       \/ UNCHANGED objects
    /\ AfterObject(j)
    /\ UNCHANGED <<table, previews, open, cached, audited, tool>>

\* DeleteR2Object: 404 is success.  The curl child is killed when the client
\* goes away, so the object may be gone although the call failed.
DeleteObject(j) ==
    /\ job[j].pc = "object"
    /\ \/ /\ objects' = objects \ {job[j].cur}
          /\ AfterObject(j) \/ EndJob(j)
       \/ EndJob(j) /\ UNCHANGED objects
    /\ UNCHANGED <<table, previews, open, cached, audited, tool>>

DeletePreview(j) ==
    /\ job[j].pc = "preview"
    /\ \/ /\ previews' = previews \ {job[j].cur}
          /\ Goto(j, "row") \/ EndJob(j)
       \/ EndJob(j) /\ UNCHANGED previews
    /\ UNCHANGED <<table, objects, open, cached, audited, tool>>

\* Variant: a row that could not be deleted counts as deleted.
DeleteRowErrorIgnored(j) ==
    /\ job[j].pc = "row"
    /\ HardDelete(job[j].cur) \/ UNCHANGED <<rows, thumb>>
    /\ NextFile(j, {job[j].cur})
    /\ UNCHANGED <<status, bucket, cached, audited, tool>>

DeleteRow(j) ==
    /\ job[j].pc = "row"
    /\ \/ HardDelete(job[j].cur) /\ NextFile(j, {job[j].cur})
       \/ EndJob(j) /\ UNCHANGED <<rows, thumb>>
    /\ UNCHANGED <<status, bucket, cached, audited, tool>>

\* The audit entry is written once, after the last file; audit.Write drops the
\* error of its INSERT.
FinishDelete(j) ==
    /\ job[j].pc = "pick"
    /\ job[j].todo = {}
    /\ audited' \in {audited, audited \cup job[j].done}
    /\ EndJob(j)
    /\ UNCHANGED <<table, bucket, cached, tool>>

-----------------------------------------------------------------------------
(* A view of the poster of a public file: mediaPosterPath makes it on disk,  *)
(* syncPosterToR2 mirrors it and writes the key into the row.  Two views of  *)
(* one file share the path on disk.                                          *)

BeginPoster(j, f) ==
    /\ job[j].pc = "idle"
    /\ f \in Active \cap Media
    /\ job' = [job EXCEPT ![j] = [IdleJob EXCEPT
                 !.pc = "look", !.cur = f, !.hasThumb = f \in thumb]]
    /\ UNCHANGED <<table, bucket, cached, audited, tool>>

\* Variant: a poster that is on disk is served as it is.
LookPosterOnly(j) ==
    /\ job[j].pc = "look"
    /\ IF job[j].cur \in cached THEN EndJob(j) ELSE Goto(j, "remove")
    /\ UNCHANGED <<table, bucket, cached, audited, tool>>

LookPoster(j) ==
    /\ job[j].pc = "look"
    /\ Goto(j, IF job[j].cur \in cached THEN "upload" ELSE "remove")
    /\ UNCHANGED <<table, bucket, cached, audited, tool>>

\* Another view may have put a poster there since.
RemovePoster(j) ==
    /\ job[j].pc = "remove"
    /\ cached' = cached \ {job[j].cur}
    /\ Goto(j, "fetch")
    /\ UNCHANGED <<table, bucket, audited, tool>>

\* downloadR2Poster: what the row named is taken and not uploaded again.
FetchPoster(j) ==
    /\ job[j].pc = "fetch"
    /\ \/ /\ job[j].hasThumb /\ job[j].cur \in previews
          /\ cached' = cached \cup {job[j].cur}
          /\ EndJob(j)
       \/ (Goto(j, "make") \/ EndJob(j)) /\ UNCHANGED cached
    /\ UNCHANGED <<table, bucket, audited, tool>>

\* A picture the file has, a frame of it, or the default cover.
MakePoster(j) ==
    /\ job[j].pc = "make"
    /\ \/ cached' = cached \cup {job[j].cur} /\ Goto(j, "upload")
       \/ EndJob(j) /\ UNCHANGED cached
    /\ UNCHANGED <<table, bucket, audited, tool>>

UploadPreview(j) ==
    /\ job[j].pc = "upload"
    /\ \/ /\ job[j].cur \in cached
          /\ previews' = previews \cup {job[j].cur}
          /\ IF job[j].hasThumb THEN EndJob(j) ELSE Goto(j, "link") \/ EndJob(j)
       \/ EndJob(j) /\ UNCHANGED previews
    /\ UNCHANGED <<table, objects, open, cached, audited, tool>>

\* Variant: the key is written whether or not the row is still there.
LinkPreviewUpserts(j) ==
    /\ job[j].pc = "link"
    /\ thumb' \in {thumb, thumb \cup {job[j].cur}}
    /\ EndJob(j)
    /\ UNCHANGED <<rows, status, bucket, cached, audited, tool>>

\* The UPDATE of a row that was deleted meanwhile has no effect.
LinkPreview(j) ==
    /\ job[j].pc = "link"
    /\ thumb' \in {thumb, thumb \cup (rows \cap {job[j].cur})}
    /\ EndJob(j)
    /\ UNCHANGED <<rows, status, bucket, cached, audited, tool>>

\* The server stops: every request is cut off where it is.
Crash ==
    /\ job' = [j \in Jobs |-> IdleJob]
    /\ UNCHANGED <<table, bucket, cached, audited, tool>>

-----------------------------------------------------------------------------
(* cmd/r2reconcile -apply *)

\* referencedR2Keys, before anything is listed.
BeginReconcile(t) ==
    /\ tool[t].pc = "idle"
    /\ tool' = [tool EXCEPT ![t] = [IdleTool EXCEPT
                  !.pc = "list", !.keep = Active, !.keepThumb = Active \cap thumb]]
    /\ UNCHANGED <<table, bucket, cached, audited, job>>

\* Variant: previews are not compared with the rows.
ListObjectsOfFiles(t) ==
    /\ tool[t].pc = "list"
    /\ tool' = [tool EXCEPT ![t] = [@ EXCEPT !.pc = "uploads", !.todo = objects \ tool[t].keep]]
    /\ UNCHANGED <<table, bucket, cached, audited, job>>

\* Variant: only files that have been recorded are looked for.
ListObjectsRecorded(t) ==
    /\ tool[t].pc = "list"
    /\ tool' = [tool EXCEPT ![t] = [@ EXCEPT
                  !.pc = "uploads",
                  !.todo = {f \in objects \ tool[t].keep : status[f] # "new"},
                  !.todoPreviews = previews \ tool[t].keepThumb]]
    /\ UNCHANGED <<table, bucket, cached, audited, job>>

ListObjects(t) ==
    /\ tool[t].pc = "list"
    /\ tool' = [tool EXCEPT ![t] = [@ EXCEPT
                  !.pc = "uploads", !.todo = objects \ tool[t].keep,
                  !.todoPreviews = previews \ tool[t].keepThumb]]
    /\ UNCHANGED <<table, bucket, cached, audited, job>>

\* Variant: multipart uploads are not listed.
ListUploadsSkipped(t) ==
    /\ tool[t].pc = "uploads"
    /\ tool' = [tool EXCEPT ![t].pc = "clean"]
    /\ UNCHANGED <<table, bucket, cached, audited, job>>

ListUploads(t) ==
    /\ tool[t].pc = "uploads"
    /\ tool' = [tool EXCEPT ![t] = [@ EXCEPT !.pc = "clean", !.todoOpen = open]]
    /\ UNCHANGED <<table, bucket, cached, audited, job>>

DeleteOrphan(t, f) ==
    /\ tool[t].pc = "clean"
    /\ f \in tool[t].todo
    /\ objects' = objects \ {f}
    /\ tool' = [tool EXCEPT ![t].todo = @ \ {f}]
    /\ UNCHANGED <<table, previews, open, cached, audited, job>>

DeleteOrphanPreview(t, f) ==
    /\ tool[t].pc = "clean"
    /\ f \in tool[t].todoPreviews
    /\ previews' = previews \ {f}
    /\ tool' = [tool EXCEPT ![t].todoPreviews = @ \ {f}]
    /\ UNCHANGED <<table, objects, open, cached, audited, job>>

\* Multipart uploads are aborted after the last object; 404 is success.
AbortOrphanUpload(t, f) ==
    /\ tool[t].pc = "clean"
    /\ tool[t].todo = {} /\ tool[t].todoPreviews = {}
    /\ f \in tool[t].todoOpen
    /\ open' = open \ {f}
    /\ tool' = [tool EXCEPT ![t].todoOpen = @ \ {f}]
    /\ UNCHANGED <<table, objects, previews, cached, audited, job>>

-----------------------------------------------------------------------------
(* cmd/purge-deleted and cmd/r2dedupe -apply: a list of rows read once, then *)
(* object and row of each; neither looks at the preview.                     *)

BeginWork(t, S) ==
    /\ tool[t].pc = "idle"
    /\ tool' = [tool EXCEPT ![t] = [IdleTool EXCEPT !.pc = "object", !.todo = S]]
    /\ UNCHANGED <<table, bucket, cached, audited, job>>

BeginPurge(t) == BeginWork(t, {f \in rows : status[f] = "deleted"})

\* Every active row but the newest of its name.
BeginDedupe(t) ==
    BeginWork(t, {f \in Active :
                    \E g \in Active : Name[g] = Name[f] /\ Rank[g] > Rank[f]})

\* Variant: a deletion that R2 refused is logged, and the row goes all the same.
WorkObjectErrorIgnored(t, f) ==
    /\ tool[t].pc = "object"
    /\ f \in tool[t].todo
    /\ objects' \in {objects, objects \ {f}}
    /\ tool' = [tool EXCEPT ![t] = [@ EXCEPT !.pc = "row", !.cur = f]]
    /\ UNCHANGED <<table, previews, open, cached, audited, job>>

WorkObject(t, f) ==
    /\ tool[t].pc = "object"
    /\ f \in tool[t].todo
    /\ objects' = objects \ {f}
    /\ tool' = [tool EXCEPT ![t] = [@ EXCEPT !.pc = "row", !.cur = f]]
    /\ UNCHANGED <<table, previews, open, cached, audited, job>>

WorkRow(t) ==
    /\ tool[t].pc = "row"
    /\ HardDelete(tool[t].cur)
    /\ tool' = [tool EXCEPT ![t] = [@ EXCEPT !.pc = "object", !.cur = None,
                                         !.todo = tool[t].todo \ {tool[t].cur}]]
    /\ UNCHANGED <<status, bucket, cached, audited, job>>

\* The work is done, or the first error is fatal, or the operator stops the
\* program; a delete R2 carried out may be the one reported as failed.
StopTool(t) ==
    /\ tool[t].pc # "idle"
    /\ EndTool(t)
    /\ UNCHANGED <<table, bucket, cached, audited, job>>

-----------------------------------------------------------------------------
DeleteStep(j) ==
    \/ \E f \in Files : LoadFile(j, f)
    \/ DeleteObject(j) \/ DeletePreview(j) \/ DeleteRow(j) \/ FinishDelete(j)

PosterStep(j) ==
    \/ LookPoster(j) \/ RemovePoster(j) \/ FetchPoster(j) \/ MakePoster(j)
    \/ UploadPreview(j) \/ LinkPreview(j)

Request(j) ==
    \/ \E S \in SUBSET Files : BeginDelete(j, S)
    \/ \E f \in Files : BeginPoster(j, f)

ReconcileStep(t) ==
    \/ ListObjects(t) \/ ListUploads(t)
    \/ \E f \in Files : \/ DeleteOrphan(t, f) \/ DeleteOrphanPreview(t, f)
                        \/ AbortOrphanUpload(t, f)

WorkStep(t) == WorkRow(t) \/ \E f \in Files : WorkObject(t, f)

ToolStep(t) ==
    \/ BeginReconcile(t) \/ BeginPurge(t) \/ BeginDedupe(t)
    \/ ReconcileStep(t) \/ WorkStep(t) \/ StopTool(t)

ServerNext ==
    \/ \E j \in Jobs : Request(j) \/ DeleteStep(j) \/ PosterStep(j)
    \/ \E f \in Files, s \in Status : Patch(f, s)
    \/ Crash

Next ==
    \/ \E f \in Files : Upload(f) \/ AbandonUpload(f)
    \/ ServerNext
    \/ \E t \in Tools : ToolStep(t)

Spec == Init /\ [][Next]_vars

-----------------------------------------------------------------------------
(* Safety *)

\* No object is leaked by a deletion: whoever deletes a file, and wherever a
\* failed call, a lost answer or a restart cuts the deletion short, the row is
\* there until the object is gone, so that the delete can be asked for again.
RowOutlivesObject == \A f \in objects : f \in rows \/ status[f] = "new"

\* An audit entry never counts a file that is still there, although batches of
\* the same files may run together and a row may be gone when its turn comes.
AuditedAreGone == audited \cap (rows \cup objects) = {}

-----------------------------------------------------------------------------
(* The file store implements FileShelf                                      *)

\* Where row and object of a file are; FileShelf has no place for an object
\* whose row is gone.
Place(f) ==
    CASE status[f] = "new"    -> "new"
      [] status[f] # "new" /\ f \in rows \cap objects -> "whole"
      [] status[f] # "new" /\ f \in rows \ objects    -> "bare"
      [] status[f] # "new" /\ f \in objects \ rows    -> "leaked"
      [] status[f] # "new" /\ f \notin rows \cup objects -> "gone"

Shelf == INSTANCE FileShelf WITH place <- [f \in Files |-> Place(f)], mark <- status

\* However requests, maintenance programs, failed calls and restarts interleave,
\* a file passes through its places in order, one file at a time: the row goes
\* after the object whoever takes them, a copy of the row read long ago brings
\* neither back, and audit entries count files that are gone.  (A complete that
\* comes late can record a deleted file again: FileLifecycle.)
ShelfSpec == Shelf!Spec

-----------------------------------------------------------------------------
(* Liveness: a server that stays up, R2 and SQLite accepting a request that  *)
(* is made again and again.  That anybody repeats a delete or a view, or     *)
(* starts cmd/r2reconcile again, is a premise of each property: the server   *)
(* does not see to it.                                                       *)

Asked(f) == \E j \in Jobs : BeginDelete(j, {f})
Viewed(f) == \E j \in Jobs : BeginPoster(j, f)
Reconciled == \E t \in Tools : BeginReconcile(t)

ObjectDeleted(f) == \E j \in Jobs : job[j].cur = f /\ DeleteObject(j) /\ job'[j].pc # "idle"
PreviewDeleted(f) == \E j \in Jobs : job[j].cur = f /\ DeletePreview(j) /\ job'[j].pc # "idle"
RowDeleted(f) == \E j \in Jobs : job[j].cur = f /\ DeleteRow(j) /\ f \notin rows'
PreviewUploaded(f) ==
    \E j \in Jobs : job[j].cur = f /\ f \in cached /\ UploadPreview(j) /\ f \in previews'

\* No view or reconcile run fails, nor a SELECT of a delete: a view ends early only
\* because the row has the poster's key already, or another view has taken the
\* poster off the disk.
Healthy ==
    /\ \A j \in Jobs, f \in Files : LoadFile(j, f) /\ Visible(f) => job'[j].cur = f
    /\ \A j \in Jobs : job[j].pc # "idle" /\ job'[j].pc = "idle" =>
          CASE job[j].pc = "fetch" -> job[j].cur \in cached'
            [] job[j].pc = "make" -> FALSE
            [] job[j].pc = "upload" -> job[j].cur \notin cached \/ job[j].hasThumb
            [] job[j].pc = "link" -> job[j].cur \in thumb' \/ job[j].cur \notin rows
            [] OTHER -> TRUE
    /\ \A t \in Tools : tool[t].pc # "idle" /\ tool'[t].pc = "idle" =>
          tool[t].pc = "clean" /\ tool[t].todo \cup tool[t].todoPreviews \cup tool[t].todoOpen = {}

\* A bound: nothing is hidden, since a hidden file is deleted like an active one and is
\* neither viewed nor kept by cmd/r2reconcile, like a deleted one.
RetrySpec ==
    /\ Init
    /\ [][\/ \E f \in Files : Upload(f)
          \/ \E j \in Jobs : Request(j) \/ DeleteStep(j) \/ PosterStep(j)
          \/ \E f \in Files, s \in {"active", "deleted"} : Patch(f, s)
          \/ \E t \in Tools : BeginReconcile(t) \/ ReconcileStep(t) \/ StopTool(t)]_vars
    /\ <>[][Healthy]_vars
    /\ \A j \in Jobs : WF_vars(DeleteStep(j) \/ PosterStep(j))
    /\ \A t \in Tools : WF_vars(ReconcileStep(t) \/ StopTool(t))
    /\ \A f \in Files : /\ SF_vars(ObjectDeleted(f)) /\ SF_vars(PreviewDeleted(f))
                        /\ SF_vars(RowDeleted(f)) /\ SF_vars(PreviewUploaded(f))

\* A delete that is asked for again and again gets the row in the end, whatever
\* earlier attempts left of object and preview; only a file an administrator
\* keeps setting to 'deleted' stays, since no handler finds it.
DeleteConverges ==
    \A f \in Files : []<><<Asked(f)>>_vars =>
        (f \in rows ~> (f \notin rows \/ status[f] = "deleted"))

\* The preview of a public file that is viewed again and again gets into R2 and
\* its key into the row, whatever views that overlapped took off the disk, and
\* comes back when a deletion or cmd/r2reconcile took it away.
PosterMirrored ==
    \A f \in Media : []<><<Viewed(f)>>_vars =>
        (f \in Active ~> (f \in previews \cap thumb \/ f \notin Active))

\* A preview that no row names does not stay if cmd/r2reconcile is run again and
\* again: a view that was slow may upload one for a file that is deleted
\* meanwhile, by a request that saw no preview, and nothing else looks for it.
PreviewsReclaimed ==
    []<><<Reconciled>>_vars =>
        \A f \in Files : f \in previews \ thumb ~> f \notin previews \ thumb

-----------------------------------------------------------------------------
(* What the documentation says and the code does not do *)

\* README.md: administrators' actions write audit entries.  Files a batch has
\* deleted are in an audit entry when a later file ends it with an error.
AdminDeletesAudited ==
    [][\A j \in Jobs :
          /\ DeleteObject(j) \/ DeletePreview(j) \/ DeleteRow(j)
          /\ job'[j].pc = "idle"
          => job[j].done \subseteq audited']_vars

\* cmd/r2reconcile deletes "orphan objects": never one an active row names.
ReconcileSparesActive ==
    [][\A t \in Tools, f \in Files : DeleteOrphan(t, f) => f \notin Active]_vars

\* cmd/r2dedupe deletes "older active files that share the same
\* original_name": a newer active one is there when it deletes a row.
DedupeKeepsNewest ==
    [][\A t \in Tools : \A f \in Active \cap (rows \ rows') :
          tool[t].pc = "row" /\ tool[t].cur = f
          => \E g \in Active : Name[g] = Name[f] /\ Rank[g] > Rank[f]]_vars
=============================================================================
