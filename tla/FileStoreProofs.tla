-------------------------- MODULE FileStoreProofs --------------------------
(***************************************************************************)
(* Proofs about FileStore, for any files, requests and programs.           *)
(***************************************************************************)
EXTENDS FileStore, TLAPS

-----------------------------------------------------------------------------
(* Type correctness *)

LEMMA TypeInit == Init => TypeOK
BY NoFileAssumption DEF Init, TypeOK, Job, Tool, IdleJob, IdleTool, Status

\* The records an idle request and an idle program are reset to.
LEMMA IdleTypes == IdleJob \in Job /\ IdleTool \in Tool
BY DEF IdleJob, IdleTool, Job, Tool

\* Where Goto takes a request.
StepPc == {"object", "preview", "row", "remove", "fetch", "make", "upload", "link"}

\* What a request does to its own record keeps it well-formed.
LEMMA JobTypes ==
    ASSUME TypeOK, NEW j \in Jobs
    PROVE  /\ EndJob(j) => job' \in [Jobs -> Job]
           /\ \A pc \in StepPc :
                 Goto(j, pc) => job' \in [Jobs -> Job]
           /\ \A S \in SUBSET Files : NextFile(j, S) => job' \in [Jobs -> Job]
<1>1. EndJob(j) => job' \in [Jobs -> Job]
  BY IdleTypes DEF TypeOK, EndJob
<1>2. ASSUME NEW pc \in StepPc, Goto(j, pc)
      PROVE  job' \in [Jobs -> Job]
  BY <1>2 DEF TypeOK, Goto, Job, StepPc
<1>3. ASSUME NEW S \in SUBSET Files, NextFile(j, S)
      PROVE  job' \in [Jobs -> Job]
  BY <1>3 DEF TypeOK, NextFile, Job, IdleJob
<1> QED
  BY <1>1, <1>2, <1>3

\* Every request beyond its choice of a file has one.
HasFile == \A j \in Jobs : job[j].pc \notin {"idle", "pick"} => job[j].cur # None

\* A request that goes on, or ends, leaves every request its file.
LEMMA FileKept ==
    ASSUME TypeOK, NEW j \in Jobs, job[j].pc \notin {"idle", "pick"},
           EndJob(j) \/ \E pc \in StepPc : Goto(j, pc)
    PROVE  job' \in [Jobs -> Job] /\ HasFile'
<1>1. job \in [Jobs -> Job] /\ HasFile
  BY DEF TypeOK, HasFile
<1>2. CASE EndJob(j)
  <2>1. HasFile'
    BY <1>1, <1>2 DEF HasFile, EndJob, IdleJob, Job
  <2> QED
    BY <1>2, <2>1, JobTypes
<1>3. ASSUME NEW pc \in StepPc, Goto(j, pc) PROVE job' \in [Jobs -> Job] /\ HasFile'
  <2>1. HasFile'
    BY <1>1, <1>3 DEF HasFile, Goto, Job
  <2> QED
    BY <1>3, <2>1, JobTypes
<1> QED
  BY <1>2, <1>3

LEMMA TypeServer ==
    ASSUME TypeOK, NEW j \in Jobs, Request(j) \/ DeleteStep(j) \/ PosterStep(j)
    PROVE  TypeOK'
<1>1. ASSUME NEW S \in SUBSET Files, BeginDelete(j, S) PROVE TypeOK'
  <2> DEFINE new == [IdleJob EXCEPT !.pc = "pick", !.todo = S]
  <2>1. new \in Job /\ new.pc = "pick"
    BY DEF IdleJob, Job
  <2>2. job' = [job EXCEPT ![j] = new]
    BY <1>1 DEF BeginDelete
  <2> HIDE DEF new
  <2> QED
    BY <1>1, <2>1, <2>2 DEF BeginDelete, TypeOK, table, bucket
<1>2. ASSUME NEW f \in Files, BeginPoster(j, f) PROVE TypeOK'
  <2> DEFINE linked == f \in thumb
             new == [IdleJob EXCEPT !.pc = "look", !.cur = f, !.hasThumb = linked]
  <2>1. job' = [job EXCEPT ![j] = new]
    BY <1>2 DEF BeginPoster
  <2>2. linked \in BOOLEAN
    OBVIOUS
  <2> HIDE DEF linked
  <2>3. new \in Job /\ new.cur = f
    BY <2>2 DEF IdleJob, Job
  <2> HIDE DEF new
  <2> QED
    BY <1>2, <2>1, <2>3, NoFileAssumption DEF BeginPoster, TypeOK, table, bucket
<1>3. ASSUME NEW f \in Files, LoadFile(j, f) PROVE TypeOK'
  <2>1. CASE /\ Visible(f)
             /\ job' = [job EXCEPT ![j] = [job[j] EXCEPT
                          !.pc = "object", !.cur = f, !.hasThumb = f \in thumb]]
    <3> DEFINE linked == f \in thumb
               new == [job[j] EXCEPT !.pc = "object", !.cur = f, !.hasThumb = linked]
    <3>1. job' = [job EXCEPT ![j] = new]
      BY <2>1
    <3>2. linked \in BOOLEAN
      OBVIOUS
    <3> HIDE DEF linked
    <3>3. new \in Job /\ new.cur = f
      <4>1. job[j] \in Job
        BY DEF TypeOK
      <4> QED
        BY <3>2, <4>1 DEF Job
    <3> HIDE DEF new
    <3> QED
      BY <1>3, <3>1, <3>3, NoFileAssumption DEF LoadFile, TypeOK, table, bucket
  <2>2. CASE job' = [job EXCEPT ![j].todo = @ \ {f}]
    BY <1>3, <2>2 DEF LoadFile, TypeOK, Job, table, bucket
  <2> QED
    BY <1>3, <2>1, <2>2 DEF LoadFile
<1>4. ASSUME DeleteObject(j) PROVE TypeOK'
  <2>1. AfterObject(j) => Goto(j, "preview") \/ Goto(j, "row")
    BY DEF AfterObject
  <2>2. job' \in [Jobs -> Job]
    BY <1>4, <2>1, JobTypes DEF DeleteObject, StepPc
  <2>3. HasFile'
    BY <1>4, <2>1 DEF DeleteObject, TypeOK, HasFile, EndJob, Goto, IdleJob, Job
  <2> QED
    BY <1>4, <2>2, <2>3 DEF DeleteObject, TypeOK, HasFile, table
<1>5. ASSUME DeletePreview(j) PROVE TypeOK'
  <2>1. job' \in [Jobs -> Job]
    BY <1>5, JobTypes DEF DeletePreview, StepPc
  <2>2. HasFile'
    <3>1. job \in [Jobs -> Job] /\ HasFile
      BY DEF TypeOK, HasFile
    <3>2. CASE Goto(j, "row")
      BY <1>5, <3>1, <3>2 DEF DeletePreview, HasFile, Goto, Job
    <3>3. CASE EndJob(j)
      BY <3>1, <3>3 DEF HasFile, EndJob, IdleJob, Job
    <3> QED
      BY <1>5, <3>2, <3>3 DEF DeletePreview
  <2> QED
    BY <1>5, <2>1, <2>2 DEF DeletePreview, TypeOK, HasFile, table
<1>6. ASSUME DeleteRow(j) PROVE TypeOK'
  <2>1. job[j] \in Job /\ job[j].cur \in Files
    BY <1>6 DEF DeleteRow, TypeOK, Job
  <2>2. job' \in [Jobs -> Job]
    BY <1>6, <2>1, JobTypes DEF DeleteRow
  <2>3. HasFile'
    <3>1. CASE EndJob(j)
      BY <3>1 DEF EndJob, TypeOK, HasFile, IdleJob
    <3>2. CASE NextFile(j, {job[j].cur})
      <4> DEFINE new == [IdleJob EXCEPT
                   !.pc = "pick", !.todo = job[j].todo \ {job[j].cur},
                   !.done = job[j].done \cup {job[j].cur}]
      <4>1. new.pc = "pick"
        BY DEF IdleJob
      <4>2. job' = [job EXCEPT ![j] = new]
        BY <3>2 DEF NextFile
      <4> HIDE DEF new
      <4> QED
        BY <4>1, <4>2 DEF TypeOK, HasFile
    <3> QED
      BY <1>6, <3>1, <3>2 DEF DeleteRow
  <2>4. rows' \subseteq rows /\ thumb' \subseteq rows' /\ UNCHANGED <<status, objects, previews, open, cached, audited, tool>>
    BY <1>6 DEF DeleteRow, HardDelete, TypeOK, bucket
  <2> QED
    BY <2>2, <2>3, <2>4 DEF TypeOK, HasFile
<1>7. ASSUME FinishDelete(j) PROVE TypeOK'
  BY <1>7, JobTypes DEF FinishDelete, TypeOK, EndJob, IdleJob, Job, table, bucket
<1>8. ASSUME UploadPreview(j) PROVE TypeOK'
  <2>1. job' \in [Jobs -> Job] /\ HasFile'
    BY <1>8, FileKept DEF UploadPreview, StepPc
  <2>2. previews' \subseteq Files
    BY <1>8 DEF UploadPreview, TypeOK, Job
  <2> QED
    BY <1>8, <2>1, <2>2 DEF UploadPreview, TypeOK, HasFile, table
<1>9. ASSUME LinkPreview(j) PROVE TypeOK'
  BY <1>9, JobTypes DEF LinkPreview, TypeOK, EndJob, IdleJob, Job, bucket
<1>10. ASSUME LookPoster(j) PROVE TypeOK'
  <2>1. job' \in [Jobs -> Job] /\ HasFile'
    BY <1>10, FileKept DEF LookPoster, StepPc
  <2> QED
    BY <1>10, <2>1 DEF LookPoster, TypeOK, HasFile, table, bucket
<1>11. ASSUME RemovePoster(j) \/ FetchPoster(j) \/ MakePoster(j) PROVE TypeOK'
  <2>1. job' \in [Jobs -> Job] /\ HasFile'
    BY <1>11, FileKept DEF RemovePoster, FetchPoster, MakePoster, StepPc
  <2>2. cached' \subseteq Files
    BY <1>11 DEF RemovePoster, FetchPoster, MakePoster, TypeOK, Job
  <2>3. UNCHANGED <<table, bucket, audited, tool>>
    BY <1>11 DEF RemovePoster, FetchPoster, MakePoster
  <2> QED
    BY <2>1, <2>2, <2>3 DEF TypeOK, HasFile, table, bucket
<1> QED
  BY <1>1, <1>2, <1>3, <1>4, <1>5, <1>6, <1>7, <1>8, <1>9, <1>10, <1>11
  DEF Request, DeleteStep, PosterStep

LEMMA TypeTool ==
    ASSUME TypeOK, NEW t \in Tools, ToolStep(t)
    PROVE  TypeOK'
<1>1. ASSUME BeginReconcile(t) PROVE TypeOK'
  <2> DEFINE new == [IdleTool EXCEPT !.pc = "list", !.keep = Active, !.keepThumb = Active \cap thumb]
  <2>1. new \in Tool /\ new.pc = "list"
    BY DEF IdleTool, Tool, Active, TypeOK
  <2>2. tool' = [tool EXCEPT ![t] = new]
    BY <1>1 DEF BeginReconcile
  <2> HIDE DEF new
  <2> QED
    BY <1>1, <2>1, <2>2 DEF BeginReconcile, TypeOK, table, bucket
<1>2. ASSUME NEW S \in SUBSET Files, BeginWork(t, S) PROVE TypeOK'
  <2> DEFINE new == [IdleTool EXCEPT !.pc = "object", !.todo = S]
  <2>1. new \in Tool /\ new.pc = "object"
    BY DEF IdleTool, Tool
  <2>2. tool' = [tool EXCEPT ![t] = new]
    BY <1>2 DEF BeginWork
  <2> HIDE DEF new
  <2> QED
    BY <1>2, <2>1, <2>2 DEF BeginWork, TypeOK, table, bucket
<1>3. BeginPurge(t) \/ BeginDedupe(t) => TypeOK'
  <2>1. {f \in rows : status[f] = "deleted"} \in SUBSET Files /\ Active \in SUBSET Files
    BY DEF TypeOK, Active
  <2>2. {f \in Active : \E g \in Active : Name[g] = Name[f] /\ Rank[g] > Rank[f]} \in SUBSET Files
    BY <2>1
  <2> QED
    BY <1>2, <2>1, <2>2 DEF BeginPurge, BeginDedupe
<1>4. ASSUME ListObjects(t) PROVE TypeOK'
  <2> DEFINE new == [tool[t] EXCEPT
               !.pc = "uploads", !.todo = objects \ tool[t].keep,
               !.todoPreviews = previews \ tool[t].keepThumb]
  <2>1. tool' = [tool EXCEPT ![t] = new]
    BY <1>4 DEF ListObjects
  <2>2. new \in Tool /\ new.pc = "uploads"
    <3>1. tool[t] \in Tool /\ objects \subseteq Files /\ previews \subseteq Files
      BY DEF TypeOK
    <3> QED
      BY <3>1 DEF Tool
  <2> HIDE DEF new
  <2> QED
    BY <1>4, <2>1, <2>2 DEF ListObjects, TypeOK, table, bucket
<1>5. ASSUME ListUploads(t) PROVE TypeOK'
  <2> DEFINE new == [tool[t] EXCEPT !.pc = "clean", !.todoOpen = open]
  <2>1. tool' = [tool EXCEPT ![t] = new]
    BY <1>5 DEF ListUploads
  <2>2. new \in Tool /\ new.pc = "clean"
    <3>1. tool[t] \in Tool /\ open \subseteq Files
      BY DEF TypeOK
    <3> QED
      BY <3>1 DEF Tool
  <2> HIDE DEF new
  <2> QED
    BY <1>5, <2>1, <2>2 DEF ListUploads, TypeOK, table, bucket
<1>6. ASSUME NEW f \in Files, DeleteOrphan(t, f) PROVE TypeOK'
  BY <1>6 DEF DeleteOrphan, TypeOK, Tool, table
<1>7. ASSUME NEW f \in Files, DeleteOrphanPreview(t, f) PROVE TypeOK'
  BY <1>7 DEF DeleteOrphanPreview, TypeOK, Tool, table
<1>8. ASSUME NEW f \in Files, AbortOrphanUpload(t, f) PROVE TypeOK'
  BY <1>8 DEF AbortOrphanUpload, TypeOK, Tool, table
<1>9. ASSUME NEW f \in Files, WorkObject(t, f) PROVE TypeOK'
  <2> DEFINE new == [tool[t] EXCEPT !.pc = "row", !.cur = f]
  <2>1. tool' = [tool EXCEPT ![t] = new]
    BY <1>9 DEF WorkObject
  <2>2. new \in Tool /\ new.cur = f
    <3>1. tool[t] \in Tool
      BY DEF TypeOK
    <3> QED
      BY <3>1 DEF Tool
  <2> HIDE DEF new
  <2> QED
    BY <1>9, <2>1, <2>2, NoFileAssumption DEF WorkObject, TypeOK, table, bucket
<1>10. ASSUME WorkRow(t) PROVE TypeOK'
  <2> DEFINE new == [tool[t] EXCEPT !.pc = "object", !.cur = None,
                                       !.todo = tool[t].todo \ {tool[t].cur}]
  <2>1. tool' = [tool EXCEPT ![t] = new]
    BY <1>10 DEF WorkRow
  <2>2. new \in Tool /\ new.pc = "object"
    <3>1. tool[t] \in Tool
      BY DEF TypeOK
    <3> QED
      BY <3>1 DEF Tool
  <2> HIDE DEF new
  <2> QED
    BY <1>10, <2>1, <2>2 DEF WorkRow, HardDelete, TypeOK, bucket
<1>11. ASSUME StopTool(t) PROVE TypeOK'
  BY <1>11, IdleTypes DEF StopTool, EndTool, TypeOK, IdleTool, table, bucket
<1> QED
  BY <1>1, <1>3, <1>4, <1>5, <1>6, <1>7, <1>8, <1>9, <1>10, <1>11
  DEF ToolStep, ReconcileStep, WorkStep

LEMMA TypeNext == TypeOK /\ [Next]_vars => TypeOK'
<1> SUFFICES ASSUME TypeOK, [Next]_vars PROVE TypeOK'
  OBVIOUS
<1>1. ASSUME NEW f \in Files, Upload(f) PROVE TypeOK'
  BY <1>1 DEF Upload, TypeOK, Status
<1>2. ASSUME NEW f \in Files, NEW s \in Status, Patch(f, s) PROVE TypeOK'
  BY <1>2 DEF Patch, TypeOK, Status, bucket
<1>3. ASSUME Crash PROVE TypeOK'
  BY <1>3, IdleTypes DEF Crash, TypeOK, IdleJob, table, bucket
<1>4. CASE UNCHANGED vars
  BY <1>4 DEF vars, TypeOK
<1>5. ASSUME NEW f \in Files, AbandonUpload(f) PROVE TypeOK'
  BY <1>5 DEF AbandonUpload, TypeOK, table
<1> QED
  BY <1>1, <1>2, <1>3, <1>4, <1>5, TypeServer, TypeTool DEF Next, ServerNext

\* Type correctness of the file store.
THEOREM TypeCorrect == Spec => []TypeOK
BY TypeInit, TypeNext, PTL DEF Spec

-----------------------------------------------------------------------------
(* A row outlives its object, and audit entries are right                  *)

\* A file that has been uploaded and has lost its object, or its row as well.
Stripped(f) == status[f] # "new" /\ f \notin objects
Gone(f) == Stripped(f) /\ f \notin rows

\* A request that deletes knows its file; past DeleteObject the object is gone
\* for good, and what it has counted is gone altogether.
JobInv ==
    \A j \in Jobs :
        /\ job[j].pc = "object" => status[job[j].cur] # "new"
        /\ job[j].pc \in {"preview", "row"} => Stripped(job[j].cur)
        /\ \A f \in job[j].done : Gone(f)

\* The same for a program at work on its list.
ToolInv ==
    \A t \in Tools :
        /\ tool[t].pc \in {"object", "row"} => \A f \in tool[t].todo : status[f] # "new"
        /\ tool[t].pc = "row" => Stripped(tool[t].cur)

AuditInv == \A f \in audited : Gone(f)

IInv == TypeOK /\ RowOutlivesObject /\ JobInv /\ ToolInv /\ AuditInv

LEMMA IInvInit == Init => IInv
BY TypeInit DEF Init, IInv, RowOutlivesObject, JobInv, ToolInv, AuditInv, IdleJob, IdleTool

\* Ids are not reused: what was uploaded, stripped or gone stays so.
Lasting ==
    \A f \in Files : /\ status[f] # "new" => status'[f] # "new"
                     /\ Stripped(f) => Stripped(f)'
                     /\ Gone(f) => Gone(f)'

\* Every step but an upload only takes rows and objects away.
Shrinking ==
    /\ rows' \subseteq rows
    /\ objects' \subseteq objects
    /\ \A f \in Files : status[f] # "new" => status'[f] # "new"

LEMMA ShrinkingLasts == Shrinking => Lasting
BY DEF Shrinking, Lasting, Stripped, Gone

LEMMA UploadLasts ==
    ASSUME TypeOK, NEW f \in Files, Upload(f)
    PROVE  Lasting
BY DEF Upload, TypeOK, Lasting, Stripped, Gone

LEMMA JobKept ==
    ASSUME IInv, Lasting, UNCHANGED job
    PROVE  JobInv'
BY NoFileAssumption DEF IInv, TypeOK, Job, JobInv, Lasting, Stripped, Gone

LEMMA ToolKept ==
    ASSUME IInv, Lasting, UNCHANGED tool
    PROVE  ToolInv'
BY NoFileAssumption DEF IInv, TypeOK, Tool, ToolInv, Lasting, Stripped

LEMMA AuditKept ==
    ASSUME IInv, Lasting, UNCHANGED audited
    PROVE  AuditInv'
BY DEF IInv, TypeOK, AuditInv, Lasting, Gone, Stripped

\* A step of one request: the invariant of the others is kept by Lasting.
LEMMA JobStep ==
    ASSUME IInv, Lasting, NEW j \in Jobs,
           \A k \in Jobs \ {j} : job'[k] = job[k],
           NEW new, job'[j] = new,
           new.pc = "object" => status'[new.cur] # "new",
           new.pc \in {"preview", "row"} => status'[new.cur] # "new" /\ new.cur \notin objects',
           \A f \in new.done : status'[f] # "new" /\ f \notin objects' /\ f \notin rows'
    PROVE  JobInv'
<1> SUFFICES ASSUME NEW k \in Jobs
             PROVE  /\ job'[k].pc = "object" => status'[job'[k].cur] # "new"
                    /\ job'[k].pc \in {"preview", "row"}
                         => status'[job'[k].cur] # "new" /\ job'[k].cur \notin objects'
                    /\ \A f \in job'[k].done :
                         status'[f] # "new" /\ f \notin objects' /\ f \notin rows'
  BY DEF JobInv, Stripped, Gone
<1>1. CASE k = j
  BY <1>1
<1>2. CASE k # j
  BY <1>2, NoFileAssumption DEF IInv, TypeOK, Job, JobInv, Lasting, Stripped, Gone
<1> QED
  BY <1>1, <1>2

LEMMA ToolStepInv ==
    ASSUME IInv, Lasting, NEW t \in Tools,
           \A u \in Tools \ {t} : tool'[u] = tool[u],
           NEW new, tool'[t] = new,
           new.pc \in {"object", "row"} => \A f \in new.todo : status'[f] # "new",
           new.pc = "row" => status'[new.cur] # "new" /\ new.cur \notin objects'
    PROVE  ToolInv'
<1> SUFFICES ASSUME NEW u \in Tools
             PROVE  /\ tool'[u].pc \in {"object", "row"}
                         => \A f \in tool'[u].todo : status'[f] # "new"
                    /\ tool'[u].pc = "row"
                         => status'[tool'[u].cur] # "new" /\ tool'[u].cur \notin objects'
  BY DEF ToolInv, Stripped
<1>1. CASE u = t
  BY <1>1
<1>2. CASE u # t
  BY <1>2 DEF IInv, TypeOK, Tool, ToolInv, Lasting, Stripped
<1> QED
  BY <1>1, <1>2

LEMMA EndJobInv ==
    ASSUME IInv, Lasting, NEW j \in Jobs, EndJob(j)
    PROVE  JobInv'
<1>1. /\ job'[j] = IdleJob
      /\ \A k \in Jobs \ {j} : job'[k] = job[k]
  BY DEF EndJob, IInv, TypeOK
<1>2. IdleJob.pc = "idle" /\ IdleJob.done = {}
  BY DEF IdleJob
<1> QED
  BY <1>1, <1>2, JobStep

LEMMA GotoInv ==
    ASSUME IInv, Lasting, NEW j \in Jobs, NEW pc \in StepPc \ {"object"}, Goto(j, pc),
           pc \in {"preview", "row"}
             => status'[job[j].cur] # "new" /\ job[j].cur \notin objects'
    PROVE  JobInv'
<1> DEFINE new == [job[j] EXCEPT !.pc = pc]
<1>1. /\ job'[j] = new
      /\ \A k \in Jobs \ {j} : job'[k] = job[k]
  BY DEF Goto, IInv, TypeOK
<1>2. new.pc = pc /\ new.cur = job[j].cur /\ new.done = job[j].done
  BY DEF IInv, TypeOK, Job
<1>3. \A f \in job[j].done : status'[f] # "new" /\ f \notin objects' /\ f \notin rows'
  BY DEF IInv, TypeOK, Job, JobInv, Lasting, Stripped, Gone
<1> HIDE DEF new
<1> QED
  BY <1>1, <1>2, <1>3, JobStep

\* The files a request has counted stay gone.
LEMMA DoneLasts ==
    ASSUME IInv, Lasting, NEW j \in Jobs
    PROVE  \A f \in job[j].done : status'[f] # "new" /\ f \notin objects' /\ f \notin rows'
BY DEF IInv, TypeOK, Job, JobInv, Lasting, Stripped, Gone

LEMMA IInvServer ==
    ASSUME IInv, TypeOK', NEW j \in Jobs, Request(j) \/ DeleteStep(j) \/ PosterStep(j)
    PROVE  IInv'
<1> USE DEF table, bucket
<1>1. ASSUME NEW S \in SUBSET Files, BeginDelete(j, S) PROVE IInv'
  <2> DEFINE new == [IdleJob EXCEPT !.pc = "pick", !.todo = S]
  <2>1. Lasting
    BY <1>1, ShrinkingLasts DEF BeginDelete, Shrinking
  <2>2. job'[j] = new /\ \A k \in Jobs \ {j} : job'[k] = job[k]
    BY <1>1 DEF BeginDelete, IInv, TypeOK
  <2>3. new.pc = "pick" /\ new.done = {}
    BY DEF IdleJob
  <2> HIDE DEF new
  <2>4. JobInv'
    BY <2>1, <2>2, <2>3, JobStep
  <2> QED
    BY <1>1, <2>1, <2>4, ToolKept, AuditKept DEF BeginDelete, IInv, RowOutlivesObject
<1>2. ASSUME NEW f \in Files, BeginPoster(j, f) PROVE IInv'
  <2> DEFINE linked == f \in thumb
             new == [IdleJob EXCEPT !.pc = "look", !.cur = f, !.hasThumb = linked]
  <2>1. Lasting
    BY <1>2, ShrinkingLasts DEF BeginPoster, Shrinking
  <2>2. job'[j] = new /\ \A k \in Jobs \ {j} : job'[k] = job[k]
    BY <1>2 DEF BeginPoster, IInv, TypeOK
  <2> HIDE DEF linked
  <2>3. new.pc = "look" /\ new.done = {}
    BY DEF IdleJob
  <2> HIDE DEF new
  <2>4. JobInv'
    BY <2>1, <2>2, <2>3, JobStep
  <2> QED
    BY <1>2, <2>1, <2>4, ToolKept, AuditKept DEF BeginPoster, IInv, RowOutlivesObject
<1>3. ASSUME NEW f \in Files, LoadFile(j, f) PROVE IInv'
  <2>1. Lasting
    BY <1>3, ShrinkingLasts DEF LoadFile, Shrinking
  <2>2. CASE /\ Visible(f)
             /\ job' = [job EXCEPT ![j] = [job[j] EXCEPT
                          !.pc = "object", !.cur = f, !.hasThumb = f \in thumb]]
    <3> DEFINE linked == f \in thumb
               new == [job[j] EXCEPT !.pc = "object", !.cur = f, !.hasThumb = linked]
    <3>1. job'[j] = new /\ \A k \in Jobs \ {j} : job'[k] = job[k]
      BY <2>2 DEF IInv, TypeOK
    <3> HIDE DEF linked
    <3>2. new.pc = "object" /\ new.cur = f /\ new.done = job[j].done
      BY DEF IInv, TypeOK, Job
    <3>3. status'[f] # "new"
      BY <1>3, <2>2 DEF LoadFile, Visible, IInv, TypeOK
    <3> HIDE DEF new
    <3> QED
      <4>1. JobInv'
        BY <2>1, <3>1, <3>2, <3>3, DoneLasts, JobStep
      <4> QED
        BY <1>3, <2>1, <4>1, ToolKept, AuditKept DEF LoadFile, IInv, RowOutlivesObject
  <2>3. CASE job' = [job EXCEPT ![j].todo = @ \ {f}]
    <3> DEFINE new == [job[j] EXCEPT !.todo = @ \ {f}]
    <3>1. job'[j] = new /\ \A k \in Jobs \ {j} : job'[k] = job[k]
      BY <1>3, <2>3 DEF LoadFile, IInv, TypeOK
    <3>2. new.pc = "pick" /\ new.done = job[j].done
      BY <1>3 DEF LoadFile, IInv, TypeOK, Job
    <3> HIDE DEF new
    <3>3. JobInv'
      BY <2>1, <3>1, <3>2, DoneLasts, JobStep
    <3> QED
      BY <1>3, <2>1, <3>3, ToolKept, AuditKept DEF LoadFile, IInv, RowOutlivesObject
  <2> QED
    BY <1>3, <2>2, <2>3 DEF LoadFile
<1>4. ASSUME DeleteObject(j) PROVE IInv'
  <2>1. Lasting
    BY <1>4, ShrinkingLasts DEF DeleteObject, Shrinking, IInv, TypeOK
  <2>2. CASE AfterObject(j) /\ objects' = objects \ {job[j].cur}
    <3>1. PICK pc \in {"preview", "row"} : Goto(j, pc)
      BY <2>2 DEF AfterObject
    <3>2. status'[job[j].cur] # "new" /\ job[j].cur \notin objects'
      BY <1>4, <2>2 DEF DeleteObject, IInv, JobInv
    <3> QED
      <4>1. JobInv'
        BY <2>1, <3>1, <3>2, GotoInv DEF StepPc
      <4> QED
        BY <1>4, <2>1, <4>1, ToolKept, AuditKept DEF DeleteObject, IInv, RowOutlivesObject
  <2>3. CASE EndJob(j)
    BY <1>4, <2>1, <2>3, EndJobInv, ToolKept, AuditKept DEF DeleteObject, IInv, RowOutlivesObject
  <2> QED
    BY <1>4, <2>2, <2>3 DEF DeleteObject
<1>5. ASSUME DeletePreview(j) PROVE IInv'
  <2>1. Lasting
    BY <1>5, ShrinkingLasts DEF DeletePreview, Shrinking
  <2>2. JobInv'
    <3>1. status'[job[j].cur] # "new" /\ job[j].cur \notin objects'
      BY <1>5 DEF DeletePreview, IInv, JobInv, Stripped
    <3> QED
      BY <1>5, <2>1, <3>1, GotoInv, EndJobInv DEF DeletePreview, StepPc
  <2> QED
    BY <1>5, <2>1, <2>2, ToolKept, AuditKept DEF DeletePreview, IInv, RowOutlivesObject
<1>6. ASSUME DeleteRow(j) PROVE IInv'
  <2>1. Lasting
    BY <1>6, ShrinkingLasts DEF DeleteRow, HardDelete, Shrinking
  <2>2. status[job[j].cur] # "new" /\ job[j].cur \notin objects
    BY <1>6 DEF DeleteRow, IInv, JobInv, Stripped
  <2>3. RowOutlivesObject'
    BY <1>6, <2>2 DEF DeleteRow, HardDelete, IInv, RowOutlivesObject
  <2>4. ASSUME HardDelete(job[j].cur), NextFile(j, {job[j].cur}) PROVE JobInv'
    <3> DEFINE new == [IdleJob EXCEPT
                 !.pc = "pick", !.todo = job[j].todo \ {job[j].cur},
                 !.done = job[j].done \cup {job[j].cur}]
    <3>1. job'[j] = new /\ \A k \in Jobs \ {j} : job'[k] = job[k]
      BY <2>4 DEF NextFile, IInv, TypeOK
    <3>2. new.pc = "pick" /\ new.done = job[j].done \cup {job[j].cur}
      BY DEF IdleJob
    <3> HIDE DEF new
    <3>3. status'[job[j].cur] # "new" /\ job[j].cur \notin objects' /\ job[j].cur \notin rows'
      BY <1>6, <2>2, <2>4 DEF DeleteRow, HardDelete
    <3> QED
      BY <2>1, <3>1, <3>2, <3>3, DoneLasts, JobStep
  <2> QED
    BY <1>6, <2>1, <2>3, <2>4, EndJobInv, ToolKept, AuditKept DEF DeleteRow, IInv
<1>7. ASSUME FinishDelete(j) PROVE IInv'
  <2>1. Lasting
    BY <1>7, ShrinkingLasts DEF FinishDelete, Shrinking
  <2>2. AuditInv'
    BY <1>7, <2>1, DoneLasts DEF FinishDelete, IInv, TypeOK, AuditInv, Lasting, Gone, Stripped
  <2> QED
    BY <1>7, <2>1, <2>2, EndJobInv, ToolKept DEF FinishDelete, IInv, RowOutlivesObject
<1>8. ASSUME UploadPreview(j) PROVE IInv'
  <2>1. Lasting
    BY <1>8, ShrinkingLasts DEF UploadPreview, Shrinking
  <2>2. EndJob(j) \/ Goto(j, "link")
    BY <1>8 DEF UploadPreview
  <2>3. JobInv'
    BY <2>1, <2>2, GotoInv, EndJobInv DEF StepPc
  <2> QED
    BY <1>8, <2>1, <2>3, ToolKept, AuditKept DEF UploadPreview, IInv, RowOutlivesObject
<1>9. ASSUME LinkPreview(j) PROVE IInv'
  <2>1. Lasting
    BY <1>9, ShrinkingLasts DEF LinkPreview, Shrinking
  <2> QED
    BY <1>9, <2>1, EndJobInv, ToolKept, AuditKept DEF LinkPreview, IInv, RowOutlivesObject
<1>10. ASSUME LookPoster(j) \/ RemovePoster(j) \/ FetchPoster(j) \/ MakePoster(j) PROVE IInv'
  <2>1. UNCHANGED <<table, bucket, audited, tool>>
    BY <1>10 DEF LookPoster, RemovePoster, FetchPoster, MakePoster
  <2>2. Lasting
    BY <2>1, ShrinkingLasts DEF Shrinking
  <2>3. EndJob(j) \/ \E pc \in {"remove", "fetch", "make", "upload"} : Goto(j, pc)
    BY <1>10 DEF LookPoster, RemovePoster, FetchPoster, MakePoster
  <2>4. JobInv'
    BY <2>2, <2>3, GotoInv, EndJobInv DEF StepPc
  <2> QED
    BY <2>1, <2>2, <2>4, ToolKept, AuditKept DEF IInv, RowOutlivesObject
<1> QED
  BY <1>1, <1>2, <1>3, <1>4, <1>5, <1>6, <1>7, <1>8, <1>9, <1>10
  DEF Request, DeleteStep, PosterStep

LEMMA IInvTool ==
    ASSUME IInv, TypeOK', NEW t \in Tools, ToolStep(t)
    PROVE  IInv'
<1> USE DEF table, bucket
<1>1. Lasting
  BY ShrinkingLasts DEF ToolStep, BeginReconcile, BeginPurge, BeginDedupe, BeginWork,
        ReconcileStep, ListObjects, ListUploads, DeleteOrphan, DeleteOrphanPreview,
        AbortOrphanUpload, WorkStep, WorkRow, WorkObject, StopTool, HardDelete, Shrinking
<1>2. UNCHANGED <<job, audited>>
  BY DEF ToolStep, BeginReconcile, BeginPurge, BeginDedupe, BeginWork, ReconcileStep,
        ListObjects, ListUploads, DeleteOrphan, DeleteOrphanPreview, AbortOrphanUpload,
        WorkStep, WorkRow, WorkObject, StopTool
<1>3. JobInv' /\ AuditInv'
  BY <1>1, <1>2, JobKept, AuditKept
<1>4. RowOutlivesObject'
  <2>1. CASE WorkRow(t)
    BY <2>1 DEF WorkRow, HardDelete, IInv, RowOutlivesObject, ToolInv, Stripped
  <2>2. CASE ~WorkRow(t)
    BY <2>2 DEF ToolStep, BeginReconcile, BeginPurge, BeginDedupe, BeginWork,
        ReconcileStep, ListObjects, ListUploads, DeleteOrphan, DeleteOrphanPreview,
        AbortOrphanUpload, WorkStep, WorkObject, StopTool, IInv, RowOutlivesObject
  <2> QED
    BY <2>1, <2>2
<1>5. ToolInv'
  <2>1. ASSUME NEW S \in SUBSET rows, BeginWork(t, S) PROVE ToolInv'
    <3> DEFINE new == [IdleTool EXCEPT !.pc = "object", !.todo = S]
    <3>1. tool'[t] = new /\ \A u \in Tools \ {t} : tool'[u] = tool[u]
      BY <2>1 DEF BeginWork, IInv, TypeOK
    <3>2. new.pc = "object" /\ new.todo = S
      BY DEF IdleTool
    <3>3. \A f \in S : status'[f] # "new"
      BY <2>1 DEF BeginWork, IInv, TypeOK
    <3> HIDE DEF new
    <3> QED
      BY <1>1, <3>1, <3>2, <3>3, ToolStepInv
  <2>2. CASE BeginPurge(t) \/ BeginDedupe(t)
    <3>1. {f \in rows : status[f] = "deleted"} \in SUBSET rows /\ Active \in SUBSET rows
      BY DEF Active
    <3>2. {f \in Active : \E g \in Active : Name[g] = Name[f] /\ Rank[g] > Rank[f]} \in SUBSET rows
      BY <3>1
    <3> QED
      BY <2>1, <2>2, <3>1, <3>2 DEF BeginPurge, BeginDedupe
  <2>3. ASSUME NEW f \in Files, WorkObject(t, f) PROVE ToolInv'
    <3> DEFINE new == [tool[t] EXCEPT !.pc = "row", !.cur = f]
    <3>1. tool'[t] = new /\ \A u \in Tools \ {t} : tool'[u] = tool[u]
      BY <2>3 DEF WorkObject, IInv, TypeOK
    <3>2. new.pc = "row" /\ new.cur = f /\ new.todo = tool[t].todo
      BY DEF IInv, TypeOK, Tool
    <3>3. \A g \in tool[t].todo : status'[g] # "new"
      BY <2>3 DEF WorkObject, IInv, ToolInv
    <3>4. f \in tool[t].todo /\ f \notin objects'
      BY <2>3 DEF WorkObject
    <3> HIDE DEF new
    <3> QED
      BY <1>1, <3>1, <3>2, <3>3, <3>4, ToolStepInv
  <2>4. ASSUME WorkRow(t) PROVE ToolInv'
    <3> DEFINE new == [tool[t] EXCEPT !.pc = "object", !.cur = None,
                                      !.todo = tool[t].todo \ {tool[t].cur}]
    <3>1. tool'[t] = new /\ \A u \in Tools \ {t} : tool'[u] = tool[u]
      BY <2>4 DEF WorkRow, IInv, TypeOK
    <3>2. new.pc = "object" /\ new.todo \subseteq tool[t].todo
      BY DEF IInv, TypeOK, Tool
    <3>3. \A g \in tool[t].todo : status'[g] # "new"
      BY <2>4 DEF WorkRow, IInv, ToolInv
    <3> HIDE DEF new
    <3> QED
      BY <1>1, <3>1, <3>2, <3>3, ToolStepInv
  <2>5. ASSUME ReconcileStep(t) \/ BeginReconcile(t) \/ StopTool(t) PROVE ToolInv'
    <3>1. CASE BeginReconcile(t)
      <4> DEFINE new == [IdleTool EXCEPT
                   !.pc = "list", !.keep = Active, !.keepThumb = Active \cap thumb]
      <4>1. tool'[t] = new /\ \A u \in Tools \ {t} : tool'[u] = tool[u]
        BY <3>1 DEF BeginReconcile, IInv, TypeOK
      <4>2. new.pc = "list"
        BY DEF IdleTool
      <4> HIDE DEF new
      <4> QED
        BY <1>1, <4>1, <4>2, ToolStepInv
    <3>2. CASE StopTool(t)
      <4>1. tool'[t] = IdleTool /\ \A u \in Tools \ {t} : tool'[u] = tool[u]
        BY <3>2 DEF StopTool, EndTool, IInv, TypeOK
      <4>2. IdleTool.pc = "idle"
        BY DEF IdleTool
      <4> QED
        BY <1>1, <4>1, <4>2, ToolStepInv
    <3>3. CASE ReconcileStep(t)
      <4>1. tool[t] \in Tool /\ tool \in [Tools -> Tool]
        BY DEF IInv, TypeOK
      <4>2. tool'[t].pc \in {"uploads", "clean"} /\ \A u \in Tools \ {t} : tool'[u] = tool[u]
        <5>1. CASE ListObjects(t)
          BY <5>1, <4>1 DEF ListObjects, Tool
        <5>3. CASE ListUploads(t)
          BY <5>3, <4>1 DEF ListUploads, Tool
        <5>2. ASSUME NEW f \in Files, DeleteOrphan(t, f) \/ DeleteOrphanPreview(t, f)
                                                         \/ AbortOrphanUpload(t, f)
              PROVE  tool'[t].pc = "clean" /\ \A u \in Tools \ {t} : tool'[u] = tool[u]
          BY <5>2, <4>1 DEF DeleteOrphan, DeleteOrphanPreview, AbortOrphanUpload, Tool
        <5> QED
          BY <3>3, <5>1, <5>2, <5>3 DEF ReconcileStep
      <4> QED
        BY <1>1, <4>2, ToolStepInv
    <3> QED
      BY <2>5, <3>1, <3>2, <3>3
  <2> QED
    BY <2>2, <2>3, <2>4, <2>5 DEF ToolStep, WorkStep
<1> QED
  BY <1>3, <1>4, <1>5 DEF IInv

LEMMA IInvNext == IInv /\ [Next]_vars => IInv'
<1> SUFFICES ASSUME IInv, [Next]_vars PROVE IInv'
  OBVIOUS
<1> USE DEF table, bucket
<1>1. TypeOK'
  BY TypeNext DEF IInv
<1>2. ASSUME NEW f \in Files, Upload(f) PROVE IInv'
  <2>1. Lasting
    BY <1>2, UploadLasts DEF IInv
  <2>2. RowOutlivesObject'
    BY <1>2 DEF Upload, IInv, TypeOK, RowOutlivesObject
  <2> QED
    BY <1>1, <1>2, <2>1, <2>2, JobKept, ToolKept, AuditKept DEF Upload, IInv
<1>3. ASSUME NEW f \in Files, NEW s \in Status, Patch(f, s) PROVE IInv'
  <2>1. Lasting
    BY <1>3, ShrinkingLasts DEF Patch, Shrinking, Status, IInv, TypeOK
  <2>2. RowOutlivesObject'
    BY <1>3 DEF Patch, IInv, TypeOK, RowOutlivesObject
  <2> QED
    BY <1>1, <1>3, <2>1, <2>2, JobKept, ToolKept, AuditKept DEF Patch, IInv
<1>4. ASSUME Crash PROVE IInv'
  <2>1. Lasting
    BY <1>4, ShrinkingLasts DEF Crash, Shrinking
  <2>2. JobInv'
    BY <1>4 DEF Crash, JobInv, IdleJob
  <2> QED
    BY <1>1, <1>4, <2>1, <2>2, ToolKept, AuditKept DEF Crash, IInv, RowOutlivesObject
<1>5. CASE UNCHANGED vars
  <2>1. Lasting
    BY <1>5, ShrinkingLasts DEF vars, Shrinking
  <2> QED
    BY <1>1, <1>5, <2>1, JobKept, ToolKept, AuditKept DEF vars, IInv, RowOutlivesObject
<1>6. ASSUME NEW f \in Files, AbandonUpload(f) PROVE IInv'
  <2>1. Lasting
    BY <1>6, ShrinkingLasts DEF AbandonUpload, Shrinking
  <2> QED
    BY <1>1, <1>6, <2>1, JobKept, ToolKept, AuditKept
    DEF AbandonUpload, IInv, RowOutlivesObject
<1> QED
  BY <1>1, <1>2, <1>3, <1>4, <1>5, <1>6, IInvServer, IInvTool DEF Next, ServerNext

LEMMA InductiveInvariant == Spec => []IInv
BY IInvInit, IInvNext, PTL DEF Spec

\* No deletion leaks an object: every object of an uploaded file has its row.
THEOREM ObjectsHaveRows == Spec => []RowOutlivesObject
<1>1. IInv => RowOutlivesObject
  BY DEF IInv
<1> QED
  BY <1>1, InductiveInvariant, PTL

\* Audit entries count only files that are gone, row and object.
THEOREM AuditIsTrue == Spec => []AuditedAreGone
<1>1. IInv => AuditedAreGone
  BY DEF IInv, AuditInv, AuditedAreGone, Gone, Stripped
<1> QED
  BY <1>1, InductiveInvariant, PTL

-----------------------------------------------------------------------------
(* The file store implements FileShelf                                      *)

\* The five places exclude each other, and RowOutlivesObject empties one.
LEMMA Places ==
    ASSUME IInv, NEW f \in Files
    PROVE  /\ Place(f) = "new" <=> status[f] = "new"
           /\ Place(f) = "whole" <=> status[f] # "new" /\ f \in rows /\ f \in objects
           /\ Place(f) = "bare" <=> status[f] # "new" /\ f \in rows /\ f \notin objects
           /\ Place(f) = "gone" <=> Gone(f)
<1>1. status[f] # "new" => f \in rows \/ f \notin objects
  BY DEF IInv, TypeOK, RowOutlivesObject
<1> QED
  BY <1>1 DEF Place, Gone, Stripped

\* A file keeps its place while its row, object and status stay.
LEMMA PlaceKept ==
    ASSUME NEW f \in Files, status'[f] = status[f],
           f \in rows' <=> f \in rows, f \in objects' <=> f \in objects
    PROVE  Place(f)' = Place(f)
BY DEF Place

LEMMA ShelfKept ==
    ASSUME UNCHANGED <<rows, status, objects, audited>>
    PROVE  UNCHANGED Shelf!shelf
BY PlaceKept DEF Shelf!shelf

\* Only the file f changes its place, and its mark stays.
LEMMA OneMoves ==
    ASSUME NEW f \in Files, UNCHANGED <<status, audited>>,
           \A g \in Files \ {f} : /\ g \in rows' <=> g \in rows
                                  /\ g \in objects' <=> g \in objects
    PROVE  [g \in Files |-> Place(g)'] = [[g \in Files |-> Place(g)] EXCEPT ![f] = Place(f)']
BY PlaceKept

\* Whoever deletes the object of a file that may lose it, strips that file.
LEMMA ObjectStep ==
    ASSUME IInv, IInv', NEW f \in Files, objects' = objects \ {f},
           UNCHANGED <<rows, status, audited>>
    PROVE  [Shelf!Next]_Shelf!shelf
<1>1. CASE Place(f) = "whole"
  <2>1. Place(f)' = "bare"
    <3>1. status'[f] # "new" /\ f \in rows' /\ f \notin objects'
      BY <1>1, Places
    <3> QED
      BY <3>1 DEF Place
  <2>2. Shelf!Strip(f)
    BY <1>1, <2>1, OneMoves DEF Shelf!Strip
  <2> QED
    BY <2>2 DEF Shelf!Next
<1>2. CASE Place(f) # "whole"
  <2>1. Place(f)' = Place(f)
    <3>1. status[f] = "new" \/ f \notin objects
      BY <1>2, Places DEF IInv, RowOutlivesObject
    <3> QED
      BY <3>1 DEF Place
  <2>2. \A g \in Files \ {f} : Place(g)' = Place(g)
    BY PlaceKept
  <2> QED
    BY <2>1, <2>2 DEF Shelf!shelf
<1> QED
  BY <1>1, <1>2

\* Whoever deletes the row of a file that has lost its object, discards it.
LEMMA RowStep ==
    ASSUME IInv, IInv', NEW f \in Files, Stripped(f), rows' = rows \ {f},
           UNCHANGED <<objects, status, audited>>
    PROVE  [Shelf!Next]_Shelf!shelf
<1>1. Place(f)' = "gone"
  BY DEF Place, Stripped
<1>2. CASE f \in rows
  <2>1. Place(f) = "bare"
    BY <1>2, Places DEF Stripped
  <2>2. Shelf!Discard(f)
    BY <1>1, <2>1, OneMoves DEF Shelf!Discard
  <2> QED
    BY <2>2 DEF Shelf!Next
<1>3. CASE f \notin rows
  BY <1>3, ShelfKept
<1> QED
  BY <1>2, <1>3

LEMMA ShelfServer ==
    ASSUME IInv, IInv', NEW j \in Jobs, Request(j) \/ DeleteStep(j) \/ PosterStep(j)
    PROVE  [Shelf!Next]_Shelf!shelf
<1> USE DEF table, bucket
<1>1. CASE Request(j)
  BY <1>1, ShelfKept DEF Request, BeginDelete, BeginPoster
<1>2. CASE PosterStep(j)
  BY <1>2, ShelfKept DEF PosterStep, LookPoster, RemovePoster, FetchPoster, MakePoster,
                         UploadPreview, LinkPreview
<1>3. ASSUME NEW f \in Files, LoadFile(j, f) PROVE UNCHANGED Shelf!shelf
  BY <1>3, ShelfKept DEF LoadFile
<1>4. CASE DeletePreview(j)
  BY <1>4, ShelfKept DEF DeletePreview
<1>5. ASSUME job[j].pc \in {"object", "row"} PROVE job[j].cur \in Files
  BY <1>5 DEF IInv, TypeOK, Job
<1>6. CASE DeleteObject(j)
  <2>1. job[j].cur \in Files /\ UNCHANGED <<rows, status, audited>>
    BY <1>5, <1>6 DEF DeleteObject
  <2>2. objects' = objects \ {job[j].cur} \/ UNCHANGED objects
    BY <1>6 DEF DeleteObject
  <2> QED
    BY <2>1, <2>2, ObjectStep, ShelfKept
<1>7. CASE DeleteRow(j)
  <2>1. job[j].cur \in Files /\ Stripped(job[j].cur) /\ UNCHANGED <<objects, status, audited>>
    BY <1>5, <1>7 DEF DeleteRow, IInv, JobInv
  <2>2. rows' = rows \ {job[j].cur} \/ UNCHANGED rows
    BY <1>7 DEF DeleteRow, HardDelete
  <2> QED
    BY <2>1, <2>2, RowStep, ShelfKept
<1>8. CASE FinishDelete(j)
  <2>1. UNCHANGED <<rows, status, objects>> /\ job[j].done \in SUBSET Files
    BY <1>8 DEF FinishDelete, IInv, TypeOK, Job
  <2>2. \A f \in job[j].done : Place(f) = "gone"
    BY <2>1, Places DEF IInv, JobInv
  <2>3. \A f \in Files : Place(f)' = Place(f)
    BY <2>1, PlaceKept
  <2>4. CASE audited' = audited \cup job[j].done
    <3>1. Shelf!Count(job[j].done)
      BY <2>1, <2>2, <2>3, <2>4 DEF Shelf!Count
    <3> QED
      BY <2>1, <3>1 DEF Shelf!Next
  <2>5. CASE UNCHANGED audited
    BY <2>1, <2>5, ShelfKept
  <2> QED
    BY <1>8, <2>4, <2>5 DEF FinishDelete
<1> QED
  BY <1>1, <1>2, <1>3, <1>4, <1>6, <1>7, <1>8 DEF DeleteStep

LEMMA ShelfTool ==
    ASSUME IInv, IInv', NEW t \in Tools, ToolStep(t)
    PROVE  [Shelf!Next]_Shelf!shelf
<1> USE DEF table, bucket
<1>1. CASE BeginReconcile(t) \/ BeginPurge(t) \/ BeginDedupe(t) \/ StopTool(t)
  BY <1>1, ShelfKept DEF BeginReconcile, BeginPurge, BeginDedupe, BeginWork, StopTool
<1>2. CASE ListObjects(t) \/ ListUploads(t)
  BY <1>2, ShelfKept DEF ListObjects, ListUploads
<1>3. ASSUME NEW f \in Files, DeleteOrphanPreview(t, f) \/ AbortOrphanUpload(t, f)
      PROVE  UNCHANGED Shelf!shelf
  BY <1>3, ShelfKept DEF DeleteOrphanPreview, AbortOrphanUpload
<1>4. ASSUME NEW f \in Files, DeleteOrphan(t, f) \/ WorkObject(t, f)
      PROVE  [Shelf!Next]_Shelf!shelf
  BY <1>4, ObjectStep DEF DeleteOrphan, WorkObject
<1>5. CASE WorkRow(t)
  <2>1. tool[t].cur \in Files /\ Stripped(tool[t].cur)
    BY <1>5 DEF WorkRow, IInv, TypeOK, Tool, ToolInv
  <2> QED
    BY <1>5, <2>1, RowStep DEF WorkRow, HardDelete
<1> QED
  BY <1>1, <1>2, <1>3, <1>4, <1>5 DEF ToolStep, ReconcileStep, WorkStep

LEMMA ShelfStep == IInv /\ IInv' /\ [Next]_vars => [Shelf!Next]_Shelf!shelf
<1> SUFFICES ASSUME IInv, IInv', [Next]_vars PROVE [Shelf!Next]_Shelf!shelf
  OBVIOUS
<1> USE DEF table, bucket
<1>1. ASSUME NEW f \in Files, Upload(f) PROVE Shelf!Next
  <2>1. /\ status' = [status EXCEPT ![f] = "active"] /\ status \in [Files -> Status \cup {"new"}]
        /\ rows' = rows \cup {f} /\ objects' = objects \cup {f} /\ UNCHANGED audited
    BY <1>1 DEF Upload, IInv, TypeOK
  <2>2. Place(f) = "new"
    BY <1>1, Places DEF Upload
  <2>3. Place(f)' = "whole"
    BY <2>1 DEF Place
  <2>4. \A g \in Files \ {f} : Place(g)' = Place(g)
    BY <2>1, PlaceKept
  <2>5. Shelf!Add(f)
    BY <2>1, <2>2, <2>3, <2>4 DEF Shelf!Add
  <2> QED
    BY <2>5 DEF Shelf!Next
<1>2. ASSUME NEW f \in Files, NEW s \in Status, Patch(f, s) PROVE Shelf!Next
  <2>1. /\ status' = [status EXCEPT ![f] = s] /\ status \in [Files -> Status \cup {"new"}]
        /\ f \in rows /\ status[f] # "new" /\ s # "new" /\ UNCHANGED <<rows, objects, audited>>
    BY <1>2 DEF Patch, IInv, TypeOK, Status
  <2>2. Place(f) \in {"whole", "bare"}
    BY <2>1, Places
  <2>3. \A g \in Files : Place(g)' = Place(g)
    <3>1. Place(f)' = Place(f)
      BY <2>1 DEF Place
    <3>2. \A g \in Files \ {f} : Place(g)' = Place(g)
      BY <2>1, PlaceKept
    <3> QED
      BY <3>1, <3>2
  <2>4. Shelf!Patch(f, s)
    BY <2>1, <2>2, <2>3 DEF Shelf!Patch
  <2> QED
    BY <2>4 DEF Shelf!Next
<1>3. ASSUME NEW f \in Files, AbandonUpload(f) PROVE UNCHANGED Shelf!shelf
  BY <1>3, ShelfKept DEF AbandonUpload
<1>4. CASE Crash \/ UNCHANGED vars
  BY <1>4, ShelfKept DEF Crash, vars
<1> QED
  BY <1>1, <1>2, <1>3, <1>4, ShelfServer, ShelfTool DEF Next, ServerNext

\* The file store, with all its requests, programs, failures and restarts,
\* implements the shelf: object before row, nothing back, true audit entries.
THEOREM ImplementsShelf == Spec => ShelfSpec
<1>1. Init => Shelf!Init
  BY DEF Init, Place, Shelf!Init
<1> QED
  BY <1>1, ShelfStep, InductiveInvariant, PTL DEF Spec, ShelfSpec, Shelf!Spec

-----------------------------------------------------------------------------
(* Requests and programs end.  A request over a batch goes back to its loop  *)
(* only with fewer files to do, and a program lists once and then only takes *)
(* work off its lists: so each of them, if it goes on at all, comes to an    *)
(* end, whatever the others do and whichever of its calls fail.              *)

Stage(pc) ==
    CASE pc = "idle" -> 0
      [] pc \in {"link", "row"} -> 1
      [] pc \in {"upload", "preview"} -> 2
      [] pc \in {"make", "object"} -> 3
      [] pc \in {"fetch", "pick"} -> 4
      [] pc = "remove" -> 5
      [] pc = "look" -> 6

JobAdvances(j) ==
    /\ job[j].pc # "idle"
    /\ \/ job'[j].pc = "idle"
       \/ job'[j].todo \subseteq job[j].todo /\ job'[j].todo # job[j].todo
       \/ job'[j].todo = job[j].todo /\ Stage(job'[j].pc) < Stage(job[j].pc)

JobsAdvance ==
    [][\A j \in Jobs :
          DeleteStep(j) \/ PosterStep(j) \/ (job[j].pc # "idle" /\ job'[j] # job[j])
             => JobAdvances(j)]_vars

\* A list is made in two steps; after that only work is taken off.
Phase(pc) == CASE pc = "idle" -> 0 [] pc = "list" -> 3 [] pc = "uploads" -> 2
               [] pc \in {"clean", "object", "row"} -> 1

Work(t) == ({"file"} \X tool[t].todo) \cup ({"preview"} \X tool[t].todoPreviews)
               \cup ({"upload"} \X tool[t].todoOpen)

ToolAdvances(t) ==
    /\ tool[t].pc # "idle"
    /\ \/ Phase(tool'[t].pc) < Phase(tool[t].pc)
       \/ /\ Phase(tool'[t].pc) = Phase(tool[t].pc)
          /\ \/ Work(t)' \subseteq Work(t) /\ Work(t)' # Work(t)
             \/ Work(t)' = Work(t) /\ tool[t].pc = "object" /\ tool'[t].pc = "row"

ToolsAdvance ==
    [][\A t \in Tools :
          ReconcileStep(t) \/ WorkStep(t) \/ (tool[t].pc # "idle" /\ tool'[t] # tool[t])
             => ToolAdvances(t)]_vars

\* The file at hand is on the list until it is done with.
JobInHand(j) == job[j].pc \in {"object", "preview", "row"} => job[j].cur \in job[j].todo
ToolInHand(t) == tool[t].pc = "row" => tool[t].cur \in tool[t].todo

LEMMA JobGoes ==
    ASSUME TypeOK, NEW j \in Jobs, JobInHand(j), DeleteStep(j) \/ PosterStep(j)
    PROVE  /\ JobAdvances(j) /\ JobInHand(j)'
           /\ \A k \in Jobs \ {j} : job'[k] = job[k]
<1> DEFINE Goal == /\ JobAdvances(j) /\ JobInHand(j)'
                   /\ \A k \in Jobs \ {j} : job'[k] = job[k]
<1> SUFFICES Goal
  OBVIOUS
<1>0. job \in [Jobs -> Job] /\ job[j] \in Job
  BY DEF TypeOK
<1>1. ASSUME job[j].pc # "idle", EndJob(j) PROVE Goal
  <2>1. job'[j] = IdleJob /\ \A k \in Jobs \ {j} : job'[k] = job[k]
    BY <1>0, <1>1 DEF EndJob
  <2> QED
    BY <1>1, <2>1 DEF IdleJob, JobAdvances, JobInHand
<1>2. ASSUME NEW old \in {"object", "preview", "look", "remove", "fetch", "make", "upload"},
             NEW new \in StepPc \ {"object"},
             Stage(new) < Stage(old), job[j].pc = old, Goto(j, new),
             new \in {"preview", "row"} => old \in {"object", "preview"}
      PROVE  Goal
  <2>1. job'[j] = [job[j] EXCEPT !.pc = new] /\ \A k \in Jobs \ {j} : job'[k] = job[k]
    BY <1>0, <1>2 DEF Goto
  <2>2. job'[j].pc = new /\ job'[j].todo = job[j].todo /\ job'[j].cur = job[j].cur
    BY <1>0, <2>1 DEF Job
  <2> QED
    BY <1>2, <2>1, <2>2 DEF JobAdvances, JobInHand
<1>3. ASSUME NEW f \in Files, LoadFile(j, f) PROVE Goal
  <2>1. CASE /\ Visible(f)
             /\ job' = [job EXCEPT ![j] = [job[j] EXCEPT
                          !.pc = "object", !.cur = f, !.hasThumb = f \in thumb]]
    <3> DEFINE linked == f \in thumb
               new == [job[j] EXCEPT !.pc = "object", !.cur = f, !.hasThumb = linked]
    <3>1. job'[j] = new /\ \A k \in Jobs \ {j} : job'[k] = job[k]
      BY <1>0, <2>1
    <3> HIDE DEF linked
    <3>2. new.pc = "object" /\ new.todo = job[j].todo /\ new.cur = f
      BY <1>0 DEF Job
    <3>3. job[j].pc = "pick" /\ f \in job[j].todo
      BY <1>3 DEF LoadFile
    <3> HIDE DEF new
    <3> QED
      BY <3>1, <3>2, <3>3 DEF JobAdvances, JobInHand, Stage
  <2>2. CASE job' = [job EXCEPT ![j].todo = @ \ {f}]
    <3>1. /\ job'[j] = [job[j] EXCEPT !.todo = job[j].todo \ {f}]
          /\ \A k \in Jobs \ {j} : job'[k] = job[k]
      BY <1>0, <1>3, <2>2 DEF LoadFile
    <3>2. job'[j].pc = "pick" /\ job'[j].todo = job[j].todo \ {f} /\ f \in job[j].todo
          /\ job[j].pc = "pick"
      BY <1>0, <1>3, <3>1 DEF LoadFile, Job
    <3> QED
      BY <3>1, <3>2 DEF JobAdvances, JobInHand
  <2> QED
    BY <1>3, <2>1, <2>2 DEF LoadFile
<1>4. ASSUME job[j].pc = "row", NextFile(j, {job[j].cur}) PROVE Goal
  <2> DEFINE new == [IdleJob EXCEPT
               !.pc = "pick", !.todo = job[j].todo \ {job[j].cur},
               !.done = job[j].done \cup {job[j].cur}]
  <2>1. job'[j] = new /\ \A k \in Jobs \ {j} : job'[k] = job[k]
    BY <1>0, <1>4 DEF NextFile
  <2>2. new.pc = "pick" /\ new.todo = job[j].todo \ {job[j].cur}
    BY DEF IdleJob
  <2> HIDE DEF new
  <2>3. job[j].cur \in job[j].todo
    BY <1>4 DEF JobInHand
  <2> QED
    BY <1>4, <2>1, <2>2, <2>3 DEF JobAdvances, JobInHand
<1> HIDE DEF Goal
<1>5. CASE DeleteObject(j)
  <2>1. job[j].pc = "object" /\ (AfterObject(j) \/ EndJob(j))
    BY <1>5 DEF DeleteObject
  <2>2. AfterObject(j) => Goto(j, "preview") \/ Goto(j, "row")
    BY DEF AfterObject
  <2> QED
    BY <1>1, <1>2, <2>1, <2>2 DEF Stage, StepPc
<1>6. CASE DeletePreview(j)
  BY <1>1, <1>2, <1>6 DEF DeletePreview, Stage, StepPc
<1>7. CASE DeleteRow(j)
  BY <1>1, <1>4, <1>7 DEF DeleteRow
<1>8. CASE FinishDelete(j)
  BY <1>1, <1>8 DEF FinishDelete
<1>9. CASE LookPoster(j)
  <2>1. job[j].pc = "look" /\ (Goto(j, "upload") \/ Goto(j, "remove"))
    BY <1>9 DEF LookPoster
  <2> QED
    BY <1>2, <2>1 DEF Stage, StepPc
<1>10. CASE RemovePoster(j)
  BY <1>2, <1>10 DEF RemovePoster, Stage, StepPc
<1>11. CASE FetchPoster(j)
  BY <1>1, <1>2, <1>11 DEF FetchPoster, Stage, StepPc
<1>12. CASE MakePoster(j)
  BY <1>1, <1>2, <1>12 DEF MakePoster, Stage, StepPc
<1>13. CASE UploadPreview(j)
  <2>1. job[j].pc = "upload" /\ (Goto(j, "link") \/ EndJob(j))
    BY <1>13 DEF UploadPreview
  <2> QED
    BY <1>1, <1>2, <2>1 DEF Stage, StepPc
<1>14. CASE LinkPreview(j)
  BY <1>1, <1>14 DEF LinkPreview
<1> QED
  BY <1>3, <1>5, <1>6, <1>7, <1>8, <1>9, <1>10, <1>11, <1>12, <1>13, <1>14
  DEF DeleteStep, PosterStep

\* What any step of the system may do to one request.
LEMMA JobChanges ==
    ASSUME TypeOK, [Next]_vars, NEW j \in Jobs, JobInHand(j)
    PROVE  /\ JobInHand(j)'
           /\ job[j].pc # "idle" /\ job'[j] # job[j] => JobAdvances(j)
<1> DEFINE Goal == /\ JobInHand(j)'
                   /\ job[j].pc # "idle" /\ job'[j] # job[j] => JobAdvances(j)
<1> SUFFICES Goal
  OBVIOUS
<1>0. job \in [Jobs -> Job]
  BY DEF TypeOK
<1>1. CASE job'[j] = job[j]
  BY <1>1 DEF JobInHand
<1>2. CASE job'[j] = IdleJob
  BY <1>2 DEF IdleJob, JobInHand, JobAdvances
<1>3. ASSUME NEW k \in Jobs, Request(k) PROVE Goal
  <2>1. CASE k # j
    <3>1. job'[j] = job[j]
      BY <1>0, <1>3, <2>1 DEF Request, BeginDelete, BeginPoster
    <3> QED
      BY <1>1, <3>1
  <2>2. CASE k = j
    <3>1. job[j].pc = "idle"
      BY <1>3, <2>2 DEF Request, BeginDelete, BeginPoster
    <3>2. ASSUME NEW S \in SUBSET Files, BeginDelete(j, S) PROVE job'[j].pc = "pick"
      <4>1. job'[j] = [IdleJob EXCEPT !.pc = "pick", !.todo = S]
        BY <1>0, <3>2 DEF BeginDelete
      <4> QED
        BY <4>1 DEF IdleJob
    <3>3. ASSUME NEW f \in Files, BeginPoster(j, f) PROVE job'[j].pc = "look"
      <4> DEFINE linked == f \in thumb
      <4>1. job'[j] = [IdleJob EXCEPT !.pc = "look", !.cur = f, !.hasThumb = linked]
        BY <1>0, <3>3 DEF BeginPoster
      <4> HIDE DEF linked
      <4> QED
        BY <4>1 DEF IdleJob
    <3>4. job'[j].pc \in {"pick", "look"}
      BY <1>3, <2>2, <3>2, <3>3 DEF Request
    <3> QED
      BY <3>1, <3>4 DEF JobInHand
  <2> QED
    BY <2>1, <2>2
<1>4. ASSUME NEW k \in Jobs, DeleteStep(k) \/ PosterStep(k) PROVE Goal
  <2>1. CASE k = j
    <3>1. JobAdvances(j) /\ JobInHand(j)'
      BY <1>4, <2>1, JobGoes
    <3> QED
      BY <3>1
  <2>2. CASE k # j
    <3>1. EndJob(k) \/ (\E pc \in StepPc : Goto(k, pc)) \/ NextFile(k, {job[k].cur})
          \/ (\E f \in Files : LoadFile(k, f))
      BY <1>4 DEF DeleteStep, PosterStep, DeleteObject, AfterObject, DeletePreview, DeleteRow,
                  FinishDelete, LookPoster, RemovePoster, FetchPoster, MakePoster,
                  UploadPreview, LinkPreview, StepPc
    <3>2. job'[j] = job[j]
      BY <1>0, <2>2, <3>1 DEF EndJob, Goto, NextFile, LoadFile
    <3> QED
      BY <1>1, <3>2
  <2> QED
    BY <2>1, <2>2
<1>5. CASE Crash
  BY <1>2, <1>5 DEF Crash
<1>6. ASSUME NEW t \in Tools, ToolStep(t) PROVE job' = job
  BY <1>6 DEF ToolStep, BeginReconcile, BeginPurge, BeginDedupe, BeginWork, ReconcileStep,
        ListObjects, ListUploads, DeleteOrphan, DeleteOrphanPreview, AbortOrphanUpload,
        WorkStep, WorkRow, WorkObject, StopTool
<1>7. ASSUME NEW f \in Files, \/ Upload(f) \/ AbandonUpload(f)
                              \/ \E s \in Status : Patch(f, s)
      PROVE  job' = job
  BY <1>7 DEF Upload, AbandonUpload, Patch
<1>8. UNCHANGED vars => job' = job
  BY DEF vars
<1> HIDE DEF Goal
<1> QED
  BY <1>1, <1>3, <1>4, <1>5, <1>6, <1>7, <1>8 DEF Next, ServerNext

\* The same for one program.
LEMMA ToolGoes ==
    ASSUME TypeOK, NEW t \in Tools, ToolInHand(t), ToolStep(t)
    PROVE  /\ ToolInHand(t)'
           /\ tool[t].pc # "idle" => ToolAdvances(t)
           /\ \A u \in Tools \ {t} : tool'[u] = tool[u]
<1> DEFINE Goal == /\ ToolInHand(t)'
                   /\ tool[t].pc # "idle" => ToolAdvances(t)
                   /\ \A u \in Tools \ {t} : tool'[u] = tool[u]
<1> SUFFICES Goal
  OBVIOUS
<1>0. tool \in [Tools -> Tool] /\ tool[t] \in Tool
  BY DEF TypeOK
<1>1. ASSUME NEW pc \in {"idle", "list", "object"}, tool'[t].pc = pc,
             \A u \in Tools \ {t} : tool'[u] = tool[u],
             pc = "idle" \/ tool[t].pc = "idle"
      PROVE  Goal
  <2>1. ASSUME tool[t].pc # "idle" PROVE Phase(tool'[t].pc) < Phase(tool[t].pc)
    BY <1>0, <1>1, <2>1 DEF Phase, Tool
  <2> QED
    BY <1>1, <2>1 DEF ToolInHand, ToolAdvances
<1>2. CASE BeginReconcile(t)
  <2> DEFINE keep == Active
             keepThumb == Active \cap thumb
             new == [IdleTool EXCEPT !.pc = "list", !.keep = keep, !.keepThumb = keepThumb]
  <2>1. tool'[t] = new /\ tool[t].pc = "idle" /\ \A u \in Tools \ {t} : tool'[u] = tool[u]
    BY <1>0, <1>2 DEF BeginReconcile
  <2> HIDE DEF keep, keepThumb
  <2>2. new.pc = "list"
    BY DEF IdleTool
  <2> HIDE DEF new, Goal
  <2> QED
    BY <1>1, <2>1, <2>2
<1>3. ASSUME NEW S, BeginWork(t, S) PROVE Goal
  <2> DEFINE new == [IdleTool EXCEPT !.pc = "object", !.todo = S]
  <2>1. tool'[t] = new /\ tool[t].pc = "idle" /\ \A u \in Tools \ {t} : tool'[u] = tool[u]
    BY <1>0, <1>3 DEF BeginWork
  <2>2. new.pc = "object"
    BY DEF IdleTool
  <2> HIDE DEF new, Goal
  <2> QED
    BY <1>1, <2>1, <2>2
<1>4. CASE StopTool(t)
  <2>1. tool'[t] = IdleTool /\ \A u \in Tools \ {t} : tool'[u] = tool[u]
    BY <1>0, <1>4 DEF StopTool, EndTool
  <2>2. IdleTool.pc = "idle"
    BY DEF IdleTool
  <2> HIDE DEF Goal
  <2> QED
    BY <1>1, <2>1, <2>2
<1>5. CASE ListObjects(t)
  <2> DEFINE found == objects \ tool[t].keep
             foundPreviews == previews \ tool[t].keepThumb
  <2>1. /\ tool'[t] = [tool[t] EXCEPT !.pc = "uploads", !.todo = found,
                                     !.todoPreviews = foundPreviews]
        /\ tool[t].pc = "list" /\ \A u \in Tools \ {t} : tool'[u] = tool[u]
    BY <1>0, <1>5 DEF ListObjects
  <2> HIDE DEF found, foundPreviews
  <2>2. tool'[t].pc = "uploads"
    BY <1>0, <2>1 DEF Tool
  <2> QED
    BY <2>1, <2>2 DEF ToolInHand, ToolAdvances, Phase
<1>6. CASE ListUploads(t)
  <2>1. /\ tool'[t] = [tool[t] EXCEPT !.pc = "clean", !.todoOpen = open]
        /\ tool[t].pc = "uploads" /\ \A u \in Tools \ {t} : tool'[u] = tool[u]
    BY <1>0, <1>6 DEF ListUploads
  <2>2. tool'[t].pc = "clean"
    BY <1>0, <2>1 DEF Tool
  <2> QED
    BY <2>1, <2>2 DEF ToolInHand, ToolAdvances, Phase
<1>7. ASSUME tool[t].pc = "clean", tool'[t].pc = "clean",
             Work(t)' \subseteq Work(t), Work(t)' # Work(t),
             \A u \in Tools \ {t} : tool'[u] = tool[u]
      PROVE  Goal
  BY <1>7 DEF ToolInHand, ToolAdvances
<1>8. ASSUME NEW f \in Files, DeleteOrphan(t, f) PROVE Goal
  <2>1. /\ tool'[t] = [tool[t] EXCEPT !.todo = tool[t].todo \ {f}]
        /\ tool[t].pc = "clean" /\ f \in tool[t].todo
        /\ \A u \in Tools \ {t} : tool'[u] = tool[u]
    BY <1>0, <1>8 DEF DeleteOrphan
  <2>2. /\ tool'[t].pc = "clean" /\ tool'[t].todo = tool[t].todo \ {f}
        /\ tool'[t].todoPreviews = tool[t].todoPreviews /\ tool'[t].todoOpen = tool[t].todoOpen
    BY <1>0, <2>1 DEF Tool
  <2>3. Work(t)' \subseteq Work(t) /\ <<"file", f>> \in Work(t) /\ <<"file", f>> \notin Work(t)'
    BY <2>1, <2>2 DEF Work
  <2> HIDE DEF Goal
  <2> QED
    BY <1>7, <2>1, <2>2, <2>3
<1>9. ASSUME NEW f \in Files, DeleteOrphanPreview(t, f) PROVE Goal
  <2>1. /\ tool'[t] = [tool[t] EXCEPT !.todoPreviews = tool[t].todoPreviews \ {f}]
        /\ tool[t].pc = "clean" /\ f \in tool[t].todoPreviews
        /\ \A u \in Tools \ {t} : tool'[u] = tool[u]
    BY <1>0, <1>9 DEF DeleteOrphanPreview
  <2>2. /\ tool'[t].pc = "clean" /\ tool'[t].todoPreviews = tool[t].todoPreviews \ {f}
        /\ tool'[t].todo = tool[t].todo /\ tool'[t].todoOpen = tool[t].todoOpen
    BY <1>0, <2>1 DEF Tool
  <2>3. /\ Work(t)' \subseteq Work(t)
        /\ <<"preview", f>> \in Work(t) /\ <<"preview", f>> \notin Work(t)'
    BY <2>1, <2>2 DEF Work
  <2> HIDE DEF Goal
  <2> QED
    BY <1>7, <2>1, <2>2, <2>3
<1>10. ASSUME NEW f \in Files, AbortOrphanUpload(t, f) PROVE Goal
  <2>1. /\ tool'[t] = [tool[t] EXCEPT !.todoOpen = tool[t].todoOpen \ {f}]
        /\ tool[t].pc = "clean" /\ f \in tool[t].todoOpen
        /\ \A u \in Tools \ {t} : tool'[u] = tool[u]
    BY <1>0, <1>10 DEF AbortOrphanUpload
  <2>2. /\ tool'[t].pc = "clean" /\ tool'[t].todoOpen = tool[t].todoOpen \ {f}
        /\ tool'[t].todo = tool[t].todo /\ tool'[t].todoPreviews = tool[t].todoPreviews
    BY <1>0, <2>1 DEF Tool
  <2>3. /\ Work(t)' \subseteq Work(t)
        /\ <<"upload", f>> \in Work(t) /\ <<"upload", f>> \notin Work(t)'
    BY <2>1, <2>2 DEF Work
  <2> HIDE DEF Goal
  <2> QED
    BY <1>7, <2>1, <2>2, <2>3
<1>11. ASSUME NEW f \in Files, WorkObject(t, f) PROVE Goal
  <2>1. /\ tool'[t] = [tool[t] EXCEPT !.pc = "row", !.cur = f]
        /\ tool[t].pc = "object" /\ f \in tool[t].todo
        /\ \A u \in Tools \ {t} : tool'[u] = tool[u]
    BY <1>0, <1>11 DEF WorkObject
  <2>2. /\ tool'[t].pc = "row" /\ tool'[t].cur = f /\ tool'[t].todo = tool[t].todo
        /\ tool'[t].todoPreviews = tool[t].todoPreviews /\ tool'[t].todoOpen = tool[t].todoOpen
    BY <1>0, <2>1 DEF Tool
  <2>3. Work(t)' = Work(t)
    BY <2>2 DEF Work
  <2> QED
    BY <2>1, <2>2, <2>3 DEF ToolInHand, ToolAdvances, Phase
<1>12. CASE WorkRow(t)
  <2> DEFINE f == tool[t].cur
  <2>1. /\ tool'[t] = [tool[t] EXCEPT !.pc = "object", !.cur = None, !.todo = tool[t].todo \ {f}]
        /\ tool[t].pc = "row" /\ f \in tool[t].todo
        /\ \A u \in Tools \ {t} : tool'[u] = tool[u]
    BY <1>0, <1>12 DEF WorkRow, ToolInHand
  <2>2. /\ tool'[t].pc = "object" /\ tool'[t].todo = tool[t].todo \ {f}
        /\ tool'[t].todoPreviews = tool[t].todoPreviews /\ tool'[t].todoOpen = tool[t].todoOpen
    BY <1>0, <2>1 DEF Tool
  <2>3. Work(t)' \subseteq Work(t) /\ <<"file", f>> \in Work(t) /\ <<"file", f>> \notin Work(t)'
    BY <2>1, <2>2 DEF Work
  <2> QED
    BY <2>1, <2>2, <2>3 DEF ToolInHand, ToolAdvances, Phase
<1> HIDE DEF Goal
<1> QED
  BY <1>2, <1>3, <1>4, <1>5, <1>6, <1>8, <1>9, <1>10, <1>11, <1>12
  DEF ToolStep, BeginPurge, BeginDedupe, ReconcileStep, WorkStep

LEMMA ToolChanges ==
    ASSUME TypeOK, [Next]_vars, NEW t \in Tools, ToolInHand(t)
    PROVE  /\ ToolInHand(t)'
           /\ tool[t].pc # "idle" /\ tool'[t] # tool[t] => ToolAdvances(t)
<1>1. CASE tool'[t] = tool[t]
  BY <1>1 DEF ToolInHand
<1>2. ASSUME NEW u \in Tools, ToolStep(u)
      PROVE  /\ ToolInHand(t)'
             /\ tool[t].pc # "idle" /\ tool'[t] # tool[t] => ToolAdvances(t)
  <2>1. CASE u = t
    BY <1>2, <2>1, ToolGoes
  <2>2. CASE u # t
    <3>1. tool \in [Tools -> Tool]
      BY DEF TypeOK
    <3>2. tool'[t] = tool[t]
      BY <1>2, <2>2, <3>1 DEF ToolStep, BeginReconcile, BeginPurge, BeginDedupe, BeginWork,
            ReconcileStep, ListObjects, ListUploads, DeleteOrphan, DeleteOrphanPreview,
            AbortOrphanUpload, WorkStep, WorkRow, WorkObject, StopTool, EndTool
    <3> QED
      BY <1>1, <3>2
  <2> QED
    BY <2>1, <2>2
<1>3. ASSUME NEW j \in Jobs, Request(j) \/ DeleteStep(j) \/ PosterStep(j) PROVE tool' = tool
  BY <1>3 DEF Request, BeginDelete, BeginPoster, DeleteStep, PosterStep, LoadFile,
              DeleteObject, DeletePreview, DeleteRow, FinishDelete, LookPoster,
              RemovePoster, FetchPoster, MakePoster, UploadPreview, LinkPreview
<1>4. ASSUME NEW f \in Files, \/ Upload(f) \/ AbandonUpload(f)
                              \/ \E s \in Status : Patch(f, s)
      PROVE  tool' = tool
  BY <1>4 DEF Upload, AbandonUpload, Patch
<1>5. Crash \/ UNCHANGED vars => tool' = tool
  BY DEF Crash, vars
<1> QED
  BY <1>1, <1>2, <1>3, <1>4, <1>5 DEF Next, ServerNext

InHand == (\A j \in Jobs : JobInHand(j)) /\ (\A t \in Tools : ToolInHand(t))

\* Neither a delete nor a view of a poster loops or waits for another: each of
\* their steps ends the request, shortens its list, or takes it further.
THEOREM RequestsEnd == Spec => JobsAdvance
<1> DEFINE Step == \A j \in Jobs :
                      DeleteStep(j) \/ PosterStep(j) \/ (job[j].pc # "idle" /\ job'[j] # job[j])
                         => JobAdvances(j)
<1>1. Init => TypeOK /\ InHand
  BY TypeInit DEF Init, IdleJob, IdleTool, InHand, JobInHand, ToolInHand
<1>2. TypeOK /\ InHand /\ [Next]_vars => InHand'
  BY JobChanges, ToolChanges DEF InHand
<1>3. TypeOK /\ InHand /\ [Next]_vars => [Step]_vars
  BY JobChanges, JobGoes DEF InHand
<1> HIDE DEF Step
<1>4. Spec => [][Step]_vars
  BY <1>1, <1>2, <1>3, TypeNext, PTL DEF Spec
<1> QED
  BY <1>4 DEF JobsAdvance, Step

\* The maintenance programs end: nothing that happens meanwhile gives them more
\* to do than they listed.
THEOREM ProgramsEnd == Spec => ToolsAdvance
<1> DEFINE Step == \A t \in Tools :
                      ReconcileStep(t) \/ WorkStep(t) \/ (tool[t].pc # "idle" /\ tool'[t] # tool[t])
                         => ToolAdvances(t)
<1>1. Init => TypeOK /\ InHand
  BY TypeInit DEF Init, IdleJob, IdleTool, InHand, JobInHand, ToolInHand
<1>2. TypeOK /\ InHand /\ [Next]_vars => InHand'
  BY JobChanges, ToolChanges DEF InHand
<1>3. TypeOK /\ InHand /\ [Next]_vars => [Step]_vars
  <2> SUFFICES ASSUME TypeOK, InHand, Next, NEW t \in Tools,
                      ReconcileStep(t) \/ WorkStep(t) \/ (tool[t].pc # "idle" /\ tool'[t] # tool[t])
               PROVE  ToolAdvances(t)
    OBVIOUS
  <2>1. ASSUME ReconcileStep(t) \/ WorkStep(t) PROVE ToolStep(t) /\ tool[t].pc # "idle"
    BY <2>1 DEF ToolStep, ReconcileStep, WorkStep, ListObjects, ListUploads, DeleteOrphan,
                DeleteOrphanPreview, AbortOrphanUpload, WorkRow, WorkObject
  <2> QED
    BY <2>1, ToolGoes, ToolChanges DEF InHand
<1> HIDE DEF Step
<1>4. Spec => [][Step]_vars
  BY <1>1, <1>2, <1>3, TypeNext, PTL DEF Spec
<1> QED
  BY <1>4 DEF ToolsAdvance, Step

-----------------------------------------------------------------------------
(* What is taken from R2, and by whom                                        *)

\* What cmd/r2reconcile has on its lists was not referenced when it began.
Spared(t) ==
    tool[t].pc \in {"uploads", "clean"} =>
        /\ tool[t].todo \cap tool[t].keep = {}
        /\ tool[t].todoPreviews \cap tool[t].keepThumb = {}

SameKeep(t) ==
    tool[t].pc # "idle" /\ tool'[t].pc # "idle" =>
        tool'[t].keep = tool[t].keep /\ tool'[t].keepThumb = tool[t].keepThumb

\* An object goes only to a request that was asked to delete its file, to
\* cmd/purge-deleted or cmd/r2dedupe, which found its row, or to cmd/r2reconcile,
\* and to the last only if no active row named it when the program began; a
\* preview likewise.  What referencedR2Keys answered stands for the whole run.
TakenAsAsked ==
    [][/\ \A f \in objects \ objects' :
             \/ \E j \in Jobs : job[j].pc = "object" /\ job[j].cur = f
             \/ \E t \in Tools : /\ f \in tool[t].todo
                                 /\ \/ tool[t].pc = "object" /\ status[f] # "new"
                                    \/ tool[t].pc = "clean" /\ f \notin tool[t].keep
       /\ \A f \in previews \ previews' :
             \/ \E j \in Jobs : job[j].pc = "preview" /\ job[j].cur = f
             \/ \E t \in Tools : /\ tool[t].pc = "clean"
                                 /\ f \in tool[t].todoPreviews \ tool[t].keepThumb
       /\ \A t \in Tools : SameKeep(t)]_vars

LEMMA ToolSpares ==
    ASSUME TypeOK, NEW t \in Tools, Spared(t), ToolStep(t)
    PROVE  /\ Spared(t)' /\ SameKeep(t)
           /\ \A u \in Tools \ {t} : tool'[u] = tool[u]
<1> DEFINE Goal == /\ Spared(t)' /\ SameKeep(t)
                   /\ \A u \in Tools \ {t} : tool'[u] = tool[u]
<1> SUFFICES Goal
  OBVIOUS
<1>0. tool \in [Tools -> Tool] /\ tool[t] \in Tool
  BY DEF TypeOK
\* It begins, or ends.
<1>1. ASSUME NEW new, tool' = [tool EXCEPT ![t] = new],
             new.pc \in {"idle", "list", "object"}, tool[t].pc = "idle" \/ new.pc = "idle"
      PROVE  Goal
  <2>1. tool'[t] = new /\ \A u \in Tools \ {t} : tool'[u] = tool[u]
    BY <1>0, <1>1
  <2> QED
    BY <1>1, <2>1 DEF Spared, SameKeep
\* It goes on with the same or shorter lists, or with fresh ones.
<1>2. ASSUME NEW new \in Tool, tool' = [tool EXCEPT ![t] = new],
             new.keep = tool[t].keep, new.keepThumb = tool[t].keepThumb,
             \/ /\ tool[t].pc \in {"uploads", "clean"}
                /\ new.todo \subseteq tool[t].todo /\ new.todoPreviews \subseteq tool[t].todoPreviews
             \/ new.pc \notin {"uploads", "clean"}
             \/ new.todo \cap new.keep = {} /\ new.todoPreviews \cap new.keepThumb = {}
      PROVE  Goal
  <2>1. tool'[t] = new /\ \A u \in Tools \ {t} : tool'[u] = tool[u]
    BY <1>0, <1>2
  <2> QED
    BY <1>2, <2>1 DEF Spared, SameKeep
<1> HIDE DEF Goal
<1>3. CASE BeginReconcile(t)
  <2> DEFINE keep == Active
             keepThumb == Active \cap thumb
             new == [IdleTool EXCEPT !.pc = "list", !.keep = keep, !.keepThumb = keepThumb]
  <2>1. tool' = [tool EXCEPT ![t] = new] /\ tool[t].pc = "idle"
    BY <1>3 DEF BeginReconcile
  <2> HIDE DEF keep, keepThumb
  <2>2. new.pc = "list"
    BY DEF IdleTool
  <2> HIDE DEF new
  <2> QED
    BY <1>1, <2>1, <2>2
<1>4. ASSUME NEW S, BeginWork(t, S) PROVE Goal
  <2> DEFINE new == [IdleTool EXCEPT !.pc = "object", !.todo = S]
  <2>1. tool' = [tool EXCEPT ![t] = new] /\ tool[t].pc = "idle"
    BY <1>4 DEF BeginWork
  <2>2. new.pc = "object"
    BY DEF IdleTool
  <2> HIDE DEF new
  <2> QED
    BY <1>1, <2>1, <2>2
<1>5. CASE StopTool(t)
  BY <1>1, <1>5 DEF StopTool, EndTool, IdleTool
<1>6. CASE ListObjects(t)
  <2> DEFINE found == objects \ tool[t].keep
             foundPreviews == previews \ tool[t].keepThumb
             new == [tool[t] EXCEPT !.pc = "uploads", !.todo = found,
                                    !.todoPreviews = foundPreviews]
  <2>1. tool' = [tool EXCEPT ![t] = new]
    BY <1>6 DEF ListObjects
  <2>2. /\ found \subseteq Files /\ foundPreviews \subseteq Files
        /\ found \cap tool[t].keep = {} /\ foundPreviews \cap tool[t].keepThumb = {}
    BY DEF TypeOK
  <2> HIDE DEF found, foundPreviews
  <2>3. /\ new \in Tool /\ new.keep = tool[t].keep /\ new.keepThumb = tool[t].keepThumb
        /\ new.todo = found /\ new.todoPreviews = foundPreviews
    BY <1>0, <2>2 DEF Tool
  <2> HIDE DEF new
  <2> QED
    BY <1>2, <2>1, <2>2, <2>3
<1>7. CASE ListUploads(t)
  <2> DEFINE new == [tool[t] EXCEPT !.pc = "clean", !.todoOpen = open]
  <2>1. tool' = [tool EXCEPT ![t] = new] /\ tool[t].pc = "uploads"
    BY <1>7 DEF ListUploads
  <2>2. /\ new \in Tool /\ new.keep = tool[t].keep /\ new.keepThumb = tool[t].keepThumb
        /\ new.todo = tool[t].todo /\ new.todoPreviews = tool[t].todoPreviews
    BY <1>0 DEF Tool, TypeOK
  <2> HIDE DEF new
  <2> QED
    BY <1>2, <2>1, <2>2
<1>8. ASSUME NEW f \in Files, DeleteOrphan(t, f) PROVE Goal
  <2> DEFINE new == [tool[t] EXCEPT !.todo = tool[t].todo \ {f}]
  <2>1. tool' = [tool EXCEPT ![t] = new] /\ tool[t].pc = "clean"
    BY <1>8 DEF DeleteOrphan
  <2>2. /\ new \in Tool /\ new.keep = tool[t].keep /\ new.keepThumb = tool[t].keepThumb
        /\ new.todo \subseteq tool[t].todo /\ new.todoPreviews = tool[t].todoPreviews
    BY <1>0 DEF Tool
  <2> HIDE DEF new
  <2> QED
    BY <1>2, <2>1, <2>2
<1>9. ASSUME NEW f \in Files, DeleteOrphanPreview(t, f) PROVE Goal
  <2> DEFINE new == [tool[t] EXCEPT !.todoPreviews = tool[t].todoPreviews \ {f}]
  <2>1. tool' = [tool EXCEPT ![t] = new] /\ tool[t].pc = "clean"
    BY <1>9 DEF DeleteOrphanPreview
  <2>2. /\ new \in Tool /\ new.keep = tool[t].keep /\ new.keepThumb = tool[t].keepThumb
        /\ new.todo = tool[t].todo /\ new.todoPreviews \subseteq tool[t].todoPreviews
    BY <1>0 DEF Tool
  <2> HIDE DEF new
  <2> QED
    BY <1>2, <2>1, <2>2
<1>10. ASSUME NEW f \in Files, AbortOrphanUpload(t, f) PROVE Goal
  <2> DEFINE new == [tool[t] EXCEPT !.todoOpen = tool[t].todoOpen \ {f}]
  <2>1. tool' = [tool EXCEPT ![t] = new] /\ tool[t].pc = "clean"
    BY <1>10 DEF AbortOrphanUpload
  <2>2. /\ new \in Tool /\ new.keep = tool[t].keep /\ new.keepThumb = tool[t].keepThumb
        /\ new.todo = tool[t].todo /\ new.todoPreviews = tool[t].todoPreviews
    BY <1>0 DEF Tool
  <2> HIDE DEF new
  <2> QED
    BY <1>2, <2>1, <2>2
<1>11. ASSUME NEW f \in Files, WorkObject(t, f) PROVE Goal
  <2> DEFINE new == [tool[t] EXCEPT !.pc = "row", !.cur = f]
  <2>1. tool' = [tool EXCEPT ![t] = new]
    BY <1>11 DEF WorkObject
  <2>2. /\ new \in Tool /\ new.keep = tool[t].keep /\ new.keepThumb = tool[t].keepThumb
        /\ new.pc = "row"
    BY <1>0 DEF Tool
  <2> HIDE DEF new
  <2> QED
    BY <1>2, <2>1, <2>2
<1>12. CASE WorkRow(t)
  <2> DEFINE left == tool[t].todo \ {tool[t].cur}
             new == [tool[t] EXCEPT !.pc = "object", !.cur = None, !.todo = left]
  <2>1. tool' = [tool EXCEPT ![t] = new]
    BY <1>12 DEF WorkRow
  <2>2. left \subseteq Files
    BY <1>0 DEF Tool
  <2> HIDE DEF left
  <2>3. /\ new \in Tool /\ new.keep = tool[t].keep /\ new.keepThumb = tool[t].keepThumb
        /\ new.pc = "object"
    BY <1>0, <2>2 DEF Tool
  <2> HIDE DEF new
  <2> QED
    BY <1>2, <2>1, <2>3
<1> QED
  BY <1>3, <1>4, <1>5, <1>6, <1>7, <1>8, <1>9, <1>10, <1>11, <1>12
  DEF ToolStep, BeginPurge, BeginDedupe, ReconcileStep, WorkStep

\* No step but a program's touches a program.
LEMMA ToolsAlone ==
    ASSUME [Next]_vars, ~ \E t \in Tools : ToolStep(t)
    PROVE  tool' = tool
<1>1. ASSUME NEW j \in Jobs, Request(j) \/ DeleteStep(j) \/ PosterStep(j) PROVE tool' = tool
  BY <1>1 DEF Request, BeginDelete, BeginPoster, DeleteStep, PosterStep, LoadFile,
              DeleteObject, DeletePreview, DeleteRow, FinishDelete, LookPoster,
              RemovePoster, FetchPoster, MakePoster, UploadPreview, LinkPreview
<1>2. ASSUME NEW f \in Files, \/ Upload(f) \/ AbandonUpload(f)
                              \/ \E s \in Status : Patch(f, s)
      PROVE  tool' = tool
  BY <1>2 DEF Upload, AbandonUpload, Patch
<1>3. Crash \/ UNCHANGED vars => tool' = tool
  BY DEF Crash, vars
<1> QED
  BY <1>1, <1>2, <1>3 DEF Next, ServerNext

\* Who takes an object or a preview away.
LEMMA WhoTakes ==
    ASSUME IInv, \A t \in Tools : Spared(t), [Next]_vars, NEW f
    PROVE  /\ f \in objects \ objects' =>
                \/ \E j \in Jobs : job[j].pc = "object" /\ job[j].cur = f
                \/ \E t \in Tools : /\ f \in tool[t].todo
                                    /\ \/ tool[t].pc = "object" /\ status[f] # "new"
                                       \/ tool[t].pc = "clean" /\ f \notin tool[t].keep
           /\ f \in previews \ previews' =>
                \/ \E j \in Jobs : job[j].pc = "preview" /\ job[j].cur = f
                \/ \E t \in Tools : /\ tool[t].pc = "clean"
                                    /\ f \in tool[t].todoPreviews \ tool[t].keepThumb
<1>1. ASSUME NEW j \in Jobs, Request(j) \/ DeleteStep(j) \/ PosterStep(j)
      PROVE  /\ f \in objects \ objects' => job[j].pc = "object" /\ job[j].cur = f
             /\ f \in previews \ previews' => job[j].pc = "preview" /\ job[j].cur = f
  BY <1>1 DEF Request, BeginDelete, BeginPoster, DeleteStep, PosterStep, LoadFile,
              DeleteObject, DeletePreview, DeleteRow, FinishDelete, LookPoster,
              RemovePoster, FetchPoster, MakePoster, UploadPreview, LinkPreview, bucket
<1>2. ASSUME NEW g \in Files, \/ Upload(g) \/ AbandonUpload(g)
                              \/ \E s \in Status : Patch(g, s)
      PROVE  objects \subseteq objects' /\ previews' = previews
  BY <1>2 DEF Upload, AbandonUpload, Patch, bucket
<1>3. Crash \/ UNCHANGED vars => UNCHANGED <<objects, previews>>
  BY DEF Crash, vars, bucket
<1>4. ASSUME NEW t \in Tools, ToolStep(t)
      PROVE  /\ f \in objects \ objects' =>
                   /\ f \in tool[t].todo
                   /\ \/ tool[t].pc = "object" /\ status[f] # "new"
                      \/ tool[t].pc = "clean" /\ f \notin tool[t].keep
             /\ f \in previews \ previews' =>
                   /\ tool[t].pc = "clean"
                   /\ f \in tool[t].todoPreviews \ tool[t].keepThumb
  <2>1. ASSUME NEW g \in Files, DeleteOrphan(t, g)
        PROVE  /\ g \in tool[t].todo /\ tool[t].pc = "clean" /\ g \notin tool[t].keep
               /\ objects' = objects \ {g} /\ previews' = previews
    BY <2>1 DEF DeleteOrphan, Spared
  <2>2. ASSUME NEW g \in Files, DeleteOrphanPreview(t, g)
        PROVE  /\ g \in tool[t].todoPreviews \ tool[t].keepThumb /\ tool[t].pc = "clean"
               /\ previews' = previews \ {g} /\ objects' = objects
    BY <2>2 DEF DeleteOrphanPreview, Spared
  <2>3. ASSUME NEW g \in Files, WorkObject(t, g)
        PROVE  /\ g \in tool[t].todo /\ tool[t].pc = "object" /\ status[g] # "new"
               /\ objects' = objects \ {g} /\ previews' = previews
    BY <2>3 DEF WorkObject, IInv, ToolInv
  <2>4. \/ UNCHANGED <<objects, previews>>
        \/ \E g \in Files : DeleteOrphan(t, g) \/ DeleteOrphanPreview(t, g) \/ WorkObject(t, g)
    BY <1>4 DEF ToolStep, BeginReconcile, BeginPurge, BeginDedupe, BeginWork, ReconcileStep,
                ListObjects, ListUploads, AbortOrphanUpload, WorkStep, WorkRow, StopTool, bucket
  <2> QED
    BY <2>1, <2>2, <2>3, <2>4
<1> QED
  BY <1>1, <1>2, <1>3, <1>4 DEF Next, ServerNext

\* No object or preview is lost to an upload, a patch, a view or a restart, and
\* cmd/r2reconcile takes none that an active row named when it began: the window
\* in which it goes wrong (ReconcileSparesActive) is its own run.
THEOREM TakenOnlyAsAsked == Spec => TakenAsAsked
<1> DEFINE Inv == IInv /\ \A t \in Tools : Spared(t)
           Step == /\ \A f \in objects \ objects' :
                         \/ \E j \in Jobs : job[j].pc = "object" /\ job[j].cur = f
                         \/ \E t \in Tools : /\ f \in tool[t].todo
                                             /\ \/ tool[t].pc = "object" /\ status[f] # "new"
                                                \/ tool[t].pc = "clean" /\ f \notin tool[t].keep
                   /\ \A f \in previews \ previews' :
                         \/ \E j \in Jobs : job[j].pc = "preview" /\ job[j].cur = f
                         \/ \E t \in Tools : /\ tool[t].pc = "clean"
                                             /\ f \in tool[t].todoPreviews \ tool[t].keepThumb
                   /\ \A t \in Tools : SameKeep(t)
<1>1. Init => Inv
  BY IInvInit DEF Init, IdleTool, Spared
<1>2. Inv /\ [Next]_vars => (\A t \in Tools : Spared(t)' /\ SameKeep(t))
  <2> SUFFICES ASSUME Inv, [Next]_vars, NEW t \in Tools PROVE Spared(t)' /\ SameKeep(t)
    OBVIOUS
  <2>1. CASE tool'[t] = tool[t]
    BY <2>1 DEF Spared, SameKeep
  <2>2. CASE \E u \in Tools : ToolStep(u)
    BY <2>1, <2>2, ToolSpares DEF IInv
  <2> QED
    BY <2>1, <2>2, ToolsAlone
<1>3. Inv /\ [Next]_vars => Inv'
  BY <1>2, IInvNext
<1>4. Inv /\ [Next]_vars => [Step]_vars
  BY <1>2, WhoTakes
<1> HIDE DEF Inv, Step
<1>5. Spec => [][Step]_vars
  BY <1>1, <1>3, <1>4, PTL DEF Spec
<1> QED
  BY <1>5 DEF TakenAsAsked, Step
=============================================================================
