------------------------------- MODULE Pickup -------------------------------
(***************************************************************************)
(* Pickup codes (internal/files/repo.go and the share and pickup handlers  *)
(* of internal/server/server.go).  A code belongs to the batch of an       *)
(* anonymous upload or to a share, which a signed-in user makes of some    *)
(* files and may revoke.  Both live for 24 hours.                          *)
(*                                                                         *)
(* Making a share reads each file in a statement of its own before one     *)
(* transaction writes the share; using a code takes up to four statements; *)
(* revoking one takes three.  Files come, change and go meanwhile.  Who    *)
(* may do what is a choice here: a refusal changes nothing.                *)
(***************************************************************************)
EXTENDS Naturals

CONSTANTS
    Files,      \* file ids
    Batches,    \* upload batches
    Shares,     \* share ids made by ids.New("shr")
    Codes,      \* what NewPickupCode may draw
    Anonymous,  \* the batches without an owner; only they get a code
    BatchOf,    \* BatchOf[f]: files.batch_id
    Requests,   \* requests handled at the same time
    Tries,      \* attempts at an unused code, 5 in the code
    None        \* no code, no holder, no request

Holders == Batches \cup Shares

ASSUME HoldersAssumption ==
    /\ Batches \cap Shares = {}
    /\ Anonymous \subseteq Batches
    /\ BatchOf \in [Files -> Batches]
ASSUME PickupNoneAssumption == None \notin Codes \cup Holders \cup Requests
ASSUME TriesAssumption == Tries \in Nat \ {0}

VARIABLES
    batches,  \* ids of upload_batches
    row,      \* each file's row: not there yet, its status, or deleted again
    code,     \* pickup_code of each batch and share; a share has one or is not there
    links,    \* pickup_share_files
    expired,  \* holders whose 24 hours are over
    stamp,    \* revoked_at of each share: the request that wrote it
    req       \* what each request is doing

vars == <<batches, row, code, links, expired, stamp, req>>
uploads == <<batches, row>>
shares == <<code, links>>

-----------------------------------------------------------------------------
(* Types *)

\* files: what a share request found authorised, or a pickup request listed;
\* holder: the batch or share a code led to.  dead is not in the code:
\* the holders that were revoked or expired when the request arrived.
Request == [pc : {"idle", "check", "batch", "batchFiles", "share", "shareFiles",
                  "serve", "find", "revoke"},
            todo : SUBSET Files, files : SUBSET Files, tries : 0 .. Tries - 1,
            code : Codes \cup {None}, holder : Holders \cup {None},
            dead : SUBSET Holders]

TypeOK ==
    /\ batches \subseteq Batches
    /\ row \in [Files -> {"none", "active", "hidden", "deleted"}]
    /\ code \in [Holders -> Codes \cup {None}]
    /\ links \in [Shares -> SUBSET Files]
    /\ expired \subseteq Holders
    /\ stamp \in [Shares -> Requests \cup {None}]
    /\ req \in [Requests -> Request]
    /\ \A r \in Requests :
          /\ req[r].pc \in {"shareFiles", "revoke"} => req[r].holder \in Shares
          /\ req[r].pc = "batchFiles" => req[r].holder \in Batches
          /\ req[r].pc = "serve" => req[r].holder \in Holders

-----------------------------------------------------------------------------
(* Helpers *)

Idle == [pc |-> "idle", todo |-> {}, files |-> {}, tries |-> 0, code |-> None,
         holder |-> None, dead |-> {}]

Rows == {f \in Files : row[f] # "none"}
Visible(f) == row[f] \notin {"none", "deleted"}

Dead == expired \cup {s \in Shares : stamp[s] # None}

Start(r, new) == req[r].pc = "idle" /\ req' = [req EXCEPT ![r] = new]
Answer(r) == req' = [req EXCEPT ![r] = Idle]

\* The holders in H that a lookup of c finds, dead or not.
Found(c, H) == {h \in H : code[h] = c}

-----------------------------------------------------------------------------
Init ==
    /\ batches = {}
    /\ row = [f \in Files |-> "none"]
    /\ code = [h \in Holders |-> None]
    /\ links = [s \in Shares |-> {}]
    /\ expired = {}
    /\ stamp = [s \in Shares |-> None]
    /\ req = [r \in Requests |-> Idle]

-----------------------------------------------------------------------------
(* Uploads, patches, deletions, time *)

\* CreateBatch: one INSERT; a code some batch has is refused by the unique
\* index and drawn again.
CreateBatch(b) ==
    /\ b \notin batches
    /\ batches' = batches \cup {b}
    /\ IF b \in Anonymous
       THEN \E c \in Codes : Found(c, Batches) = {} /\ code' = [code EXCEPT ![b] = c]
       ELSE UNCHANGED code
    /\ UNCHANGED <<row, links, expired, stamp, req>>

\* A repeated complete may record a file again after it was deleted.
CreateFile(f) ==
    /\ BatchOf[f] \in batches
    /\ row[f] = "none"
    /\ row' = [row EXCEPT ![f] = "active"]
    /\ UNCHANGED <<batches, shares, expired, stamp, req>>

PatchAdmin(f, s) ==
    /\ f \in Rows
    /\ row' = [row EXCEPT ![f] = s]
    /\ UNCHANGED <<batches, shares, expired, stamp, req>>

\* One transaction takes the file out of every share and deletes its row.
HardDelete(f) ==
    /\ f \in Rows
    /\ links' = [s \in Shares |-> links[s] \ {f}]
    /\ row' = [row EXCEPT ![f] = "none"]
    /\ UNCHANGED <<batches, code, expired, stamp, req>>

Expire(h) ==
    /\ code[h] # None
    /\ h \notin expired
    /\ expired' = expired \cup {h}
    /\ UNCHANGED <<uploads, shares, stamp, req>>

-----------------------------------------------------------------------------
(* POST /api/files/batch with action share, POST /api/files/{id}/share *)

BeginShare(r, S) ==
    /\ S # {}
    /\ Start(r, [Idle EXCEPT !.pc = "check", !.todo = S])
    /\ UNCHANGED <<uploads, shares, expired, stamp>>

\* A file that is not found, or whose SELECT failed, is skipped; one of
\* somebody else's ends it all.
CheckFile(r, f) ==
    /\ req[r].pc = "check"
    /\ f \in req[r].todo
    /\ \/ \E found \in SUBSET {g \in {f} : Visible(g)} :
             req' = [req EXCEPT ![r] = [@ EXCEPT
                       !.todo = req[r].todo \ {f}, !.files = req[r].files \cup found]]
       \/ Visible(f) /\ Answer(r)
    /\ UNCHANGED <<uploads, shares, expired, stamp>>

Checked(r) == req[r].pc = "check" /\ req[r].todo = {}

NothingToShare(r) ==
    /\ Checked(r)
    /\ req[r].files = {}
    /\ Answer(r)
    /\ UNCHANGED <<uploads, shares, expired, stamp>>

\* Variant: SQLite does not enforce foreign keys.
CreateShareNoForeignKeys(r, s, c) ==
    /\ Checked(r)
    /\ req[r].files # {}
    /\ code[s] = None
    /\ Found(c, Shares) = {}
    /\ code' = [code EXCEPT ![s] = c]
    /\ links' = [links EXCEPT ![s] = req[r].files]
    /\ Answer(r)
    /\ UNCHANGED <<uploads, expired, stamp>>

\* Variant: the loop stops at a failed INSERT, and the rest is committed.
CreateShareCommitsAnyway(r, s, c) ==
    /\ Checked(r)
    /\ req[r].files # {}
    /\ code[s] = None
    /\ Found(c, Shares) = {}
    /\ code' = [code EXCEPT ![s] = c]
    /\ links' = [links EXCEPT ![s] = IF req[r].files \subseteq Rows THEN req[r].files ELSE {}]
    /\ Answer(r)
    /\ UNCHANGED <<uploads, expired, stamp>>

\* CreatePickupShare, an attempt that commits: the code is new among shares,
\* and the foreign key finds the row of every file.
CreateShare(r, s, c) ==
    /\ Checked(r)
    /\ req[r].files # {}
    /\ code[s] = None
    /\ Found(c, Shares) = {}
    /\ req[r].files \subseteq Rows
    /\ code' = [code EXCEPT ![s] = c]
    /\ links' = [links EXCEPT ![s] = req[r].files]
    /\ Answer(r)
    /\ UNCHANGED <<uploads, expired, stamp>>

\* Variant: one attempt too many.
RetryShareOnceMore(r) ==
    /\ Checked(r)
    /\ req[r].files # {}
    /\ \/ req[r].tries < Tries /\ req' = [req EXCEPT ![r].tries = @ + 1]
       \/ Answer(r)
    /\ UNCHANGED <<uploads, shares, expired, stamp>>

\* An attempt that was rolled back: a code that is taken, a file that is gone
\* since it was checked, or a database error.  It was the last one after Tries,
\* or when no transaction could be begun.
RetryShare(r) ==
    /\ Checked(r)
    /\ req[r].files # {}
    /\ \/ req[r].tries + 1 < Tries /\ req' = [req EXCEPT ![r].tries = @ + 1]
       \/ Answer(r)
    /\ UNCHANGED <<uploads, shares, expired, stamp>>

-----------------------------------------------------------------------------
(* GET /api/pickup/{code} and /pickup/{code}/{file} *)

BeginPickup(r, c) ==
    /\ Start(r, [Idle EXCEPT !.pc = "batch", !.code = c, !.dead = Dead])
    /\ UNCHANGED <<uploads, shares, expired, stamp>>

\* GetBatchByPickupCode, first statement; whatever goes wrong, the code is
\* looked up among the shares next.
LookupBatch(r) ==
    /\ req[r].pc = "batch"
    /\ \/ \E b \in Found(req[r].code, Batches) \ expired :
             req' = [req EXCEPT ![r].pc = "batchFiles", ![r].holder = b]
       \/ req' = [req EXCEPT ![r].pc = "share"]
    /\ UNCHANGED <<uploads, shares, expired, stamp>>

\* ListFiles of the batch.
ListBatch(r) ==
    /\ req[r].pc = "batchFiles"
    /\ \/ req' = [req EXCEPT ![r].pc = "serve",
                     ![r].files = {f \in Files : Visible(f) /\ BatchOf[f] = req[r].holder}]
       \/ req' = [req EXCEPT ![r].pc = "share"]
    /\ UNCHANGED <<uploads, shares, expired, stamp>>

\* Variant: revoked_at is not looked at.
LookupShareRevoked(r) ==
    /\ req[r].pc \in {"share", "find"}
    /\ \/ \E s \in Found(req[r].code, Shares) \ expired :
             req' = [req EXCEPT ![r].holder = s,
                        ![r].pc = IF @ = "share" THEN "shareFiles" ELSE "revoke"]
       \/ Answer(r)
    /\ UNCHANGED <<uploads, shares, expired, stamp>>

\* GetShareByPickupCode, first statement, for a pickup and for a revocation.
LookupShare(r) ==
    /\ req[r].pc \in {"share", "find"}
    /\ \/ \E s \in Found(req[r].code, Shares) \ Dead :
             req' = [req EXCEPT ![r].holder = s,
                        ![r].pc = IF @ = "share" THEN "shareFiles" ELSE "revoke"]
       \/ Answer(r)
    /\ UNCHANGED <<uploads, shares, expired, stamp>>

\* Its second statement: the files of the share.
ListShare(r) ==
    /\ req[r].pc = "shareFiles"
    /\ \/ req' = [req EXCEPT ![r].pc = "serve",
                     ![r].files = {f \in links[req[r].holder] : Visible(f)}]
       \/ Answer(r)
    /\ UNCHANGED <<uploads, shares, expired, stamp>>

\* The list is sent, or one of its files if the copy of its row read before says
\* "active".
Serve(r) ==
    /\ req[r].pc = "serve"
    /\ Answer(r)
    /\ UNCHANGED <<uploads, shares, expired, stamp>>

-----------------------------------------------------------------------------
(* DELETE /api/shares/{code} *)

BeginRevoke(r, c) ==
    /\ Start(r, [Idle EXCEPT !.pc = "find", !.code = c])
    /\ UNCHANGED <<uploads, shares, expired, stamp>>

\* Variant: the UPDATE lacks AND revoked_at IS NULL.
RevokeAgain(r) ==
    /\ req[r].pc = "revoke"
    /\ stamp' \in {stamp, [stamp EXCEPT ![req[r].holder] = r]}
    /\ Answer(r)
    /\ UNCHANGED <<uploads, shares, expired>>

\* RevokePickupShare's UPDATE, unless the share is somebody else's or the
\* database fails.
Revoke(r) ==
    /\ req[r].pc = "revoke"
    /\ \/ /\ stamp[req[r].holder] = None
          /\ stamp' = [stamp EXCEPT ![req[r].holder] = r]
       \/ UNCHANGED stamp
    /\ Answer(r)
    /\ UNCHANGED <<uploads, shares, expired>>

\* The server stops: every request is cut off where it is.
Crash ==
    /\ req' = [r \in Requests |-> Idle]
    /\ UNCHANGED <<uploads, shares, expired, stamp>>

-----------------------------------------------------------------------------
ShareStep(r) ==
    \/ \E f \in Files : CheckFile(r, f)
    \/ NothingToShare(r)
    \/ \E s \in Shares, c \in Codes : CreateShare(r, s, c)
    \/ RetryShare(r)

CodeStep(r) ==
    \/ LookupBatch(r) \/ ListBatch(r) \/ LookupShare(r) \/ ListShare(r)
    \/ Serve(r) \/ Revoke(r)

Arrive(r) ==
    \/ \E S \in SUBSET Files : BeginShare(r, S)
    \/ \E c \in Codes : BeginPickup(r, c) \/ BeginRevoke(r, c)

FileStep ==
    \/ \E b \in Batches : CreateBatch(b)
    \/ \E f \in Files : \/ CreateFile(f) \/ HardDelete(f)
                        \/ \E s \in {"active", "hidden", "deleted"} : PatchAdmin(f, s)

Next ==
    \/ FileStep
    \/ \E h \in Holders : Expire(h)
    \/ \E r \in Requests : Arrive(r) \/ ShareStep(r) \/ CodeStep(r)
    \/ Crash

Spec == Init /\ [][Next]_vars

-----------------------------------------------------------------------------
(* Safety *)

\* A share names only files of the table, although they are checked one by one
\* before the share is written, and deleted by others meanwhile.
SharesNameFiles == \A s \in Shares : links[s] \subseteq Rows

\* A share comes with all the files its request was granted or not at all, and
\* it loses a file only when that file's row goes.
SharesStayWhole ==
    [][\A s \in Shares :
          /\ code[s] = None /\ code'[s] # None =>
                \E r \in Requests : Checked(r) /\ links'[s] = req[r].files
          /\ code[s] # None => links'[s] = links[s] \cap Rows']_vars

\* No file is sent through a code that was revoked, or had expired, before the
\* request arrived, whichever of the lookups failed on the way.
DeadCodesServeNothing ==
    \A r \in Requests : req[r].pc = "serve" => req[r].holder \notin req[r].dead

\* Of several revocations under way the first one counts: revoked_at stays.
FirstRevocationStays ==
    [][\A s \in Shares : stamp[s] # None => stamp'[s] = stamp[s]]_vars
=============================================================================
