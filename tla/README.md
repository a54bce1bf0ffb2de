# TLA+ specifications of myfiles

This directory holds the specifications of myfiles, a Go file server (SQLite,
Cloudflare R2 behind presigned links) with a static frontend: what its upload,
delete and maintenance code does to database, bucket and disk when requests,
programs, failures and restarts interleave. Paths are relative to the root of
the repository; `server.go` is `internal/server/server.go`.

To check a module: `tlc -config <name>.cfg <MC module>`; to check its proofs:
`tlapm <module>Proofs.tla`. PROJECT.json lists the runs, the source lines every
definition stands for, the hazards of the code and the properties that cover
them, and for every property a mutation of the code it notices.

## 1. The system

| Component | State it keeps | Operations | Specified by |
|---|---|---|---|
| Direct upload (`server.go` 484-797, 1119-1186, 1401-1427) | `upload_batches`, `files`, `TempDir/r2-direct/<id>/manifest.json`, R2 objects and multipart uploads | init, complete, cancel | `DirectUpload`, `UploadLedger` |
| Stored files (`server.go` 1556-1680, 1941-1961, 2394-2511; `internal/files/repo.go`) | `files`, R2 objects, R2 previews, `audit_logs` | owner and administrator deletes (single, batch), patch | `FileStore`, `FileShelf` |
| Maintenance programs (`cmd/r2reconcile`, `cmd/purge-deleted`, `cmd/r2dedupe`) | none of their own; rows and objects | one pass over table and bucket | `FileStore`, `FileLifecycle` |
| Pickup codes and shares (`repo.go` 84-106, 167-344; `server.go` 1715-1888) | `upload_batches.pickup_code`, `pickup_shares`, `pickup_share_files` | create, revoke, look up | `Pickup`, `FileTable` |
| Accounts and sessions (`local_auth.go`, `session.go`, `internal/account/client.go`) | `users`, `user_identities`, `account_sessions` | setup, registration, sign-in with lockout, SSO, administration | `Accounts` |
| Site settings (`server.go` 2584-2725, 4318-4373, 4418-4533; `internal/config/config.go`) | `site_settings`, the config file, `App.cfg` and `App.storage` under `App.mu` | patch and read, policy of an upload | `Settings` |
| Poster cache (`server.go` 3226-3410) | `cache/posters/<id>.jpg`, its copy in R2, `files.thumbnail_file_id` | made and mirrored when a poster is viewed | `FileStore` |
| MSE manifests, faststart copies, office thumbnails (`server.go` 2030-2272) | | no route reaches them | not modelled (section 7) |
| Retired chunk upload (`server.go` 381-457, 799-1117, 1188-1399) | chunk directories | its routes answer 410 | not modelled (section 7) |
| Browser uploader (`frontend/src/pages/index.astro`) | a queue per page | transfers, retries | environment of `DirectUpload` |
| Public pages and downloads, storage drivers, audit list, static pages, deployment | read-only or pure I/O | | not modelled (section 7) |

How they interact: every handler is a goroutine of `net/http`. SQLite is opened
with one connection (`internal/db/db.go`), so each statement and each
transaction is atomic. Of the handlers modelled here only the settings patch
holds a lock across two steps (`App.mu`, while it tests, saves and reloads the
config), and none holds a transaction across two statements. R2 is called through `curl` children bound to
the request's context: a browser that goes away cancels a call R2 may already
have carried out. The maintenance programs are separate processes that share
nothing with the server but the database file and the bucket. So the components
meet only in shared state, the `files` table and the bucket. Settings reach the
others as copies: an init reads the upload policy once, and init, complete, cancel,
delete and poster each take the storage settings from a snapshot (`snapshotConfig`)
before their R2 calls. Everything that can go wrong between components goes wrong
between two steps of somebody.

What is hard here, in the order of its weight:

1. *No lock on a session.* Any number of completes and cancels of one upload
   session run together on the same manifest.
2. *Two stores kept in step by hand.* A file is a row and an object; each
   handler writes them one after the other and may fail in between.
3. *Lost answers.* An R2 call that reported an error may have taken effect.
4. *Lists that grow stale.* The maintenance programs, batch handlers and the
   poster code act on rows they read earlier.
5. *One setting in three places.* A patch writes config file, memory and rows
   one after the other; readers combine memory and rows.
6. *Checks far from their writes.* A sign-in, a setup or a registration hashes
   a password between what it read and what it writes.
7. *Restarts.* Nothing resumes a request that was cut off; whatever it left
   must be harmless or be picked up by somebody else.

## 2. Modules

| Module | Role |
|---|---|
| `UploadLedger` | abstract: a file is stored, then recorded once; a batch reports only recorded files of its own |
| `DirectUpload` | the three upload handlers, browser and clock; shown to implement `UploadLedger` |
| `FileShelf` | abstract: a file comes once, row and object together, and leaves object first, row second; an audit entry counts only what has left |
| `FileStore` | deletes, patch, the poster cache and its mirror, the three maintenance programs; shown to implement `FileShelf` |
| `FileLifecycle` | `DirectUpload` and `FileStore` composed: they share `rows`, `objects`, `open` |
| `FileTable` | abstract: the tables of batches and files as uploads and deletions leave them to others; what `FileLifecycle` implements and `Pickup` relies on |
| `Pickup` | pickup codes of batches and shares |
| `Settings` | the settings patch, its three stores and the upload policy |
| `Accounts` | users, identities, sessions, lockout |
| `MCDirectUpload`, `MCFileStore`, `MCFileLifecycle`, `MCPickup`, `MCSettings`, `MCAccounts` | instances for TLC |
| `DirectUploadProofs`, `FileStoreProofs`, `FileLifecycleProofs`, `PickupProofs`, `SettingsProofs`, `AccountsProofs` | theorems about every instance |

Conventions. A request is a record (`req[r]`, `job[j]`) with a program counter
and the local variables of its handler; each action is one statement, R2 call or
file system call together with the code up to the next one. The actions of a
handler keep the names of the functions they stand for where there is one.
Failures are disjuncts of the action that can fail. Definitions commented
`Variant:` are mutations used to show that the properties notice bugs; no
specification uses them.

### DirectUpload

| Specification | Code |
|---|---|
| `batch[u]` | the `upload_batches` row; the counters are kept as the sets of files they count |
| `saved`, `age[u]` | the manifest on disk; how far manifest and presigned links are from expiry (both live `chunkUploadExpiry`) |
| `rows`, `objects`, `open`, `parts` | `files` rows; R2 objects, open multipart uploads, multipart uploads whose parts have all arrived |
| `req[r]` | one request: handler position, session, loop index, counted files |
| `BeginInit`, `InitFile`, `RejectInit`, `FinishInit` | `handleR2UploadInit`; `RejectInit` is each early return inside its loop |
| `BeginComplete` ... `RemoveManifest` | `handleR2UploadComplete`: loop entry by entry, `UpdateBatchCounts` (error ignored), `os.RemoveAll` only when nothing failed |
| `BeginCancel`, `AbortFile`, `FinishCancel` | `handleR2UploadCancel`; abort errors are ignored |
| `ExpiredComplete`, `Expire`, `Drain` | the 410 answer, the manifest's expiry, the end of transfers begun in time |
| `PutObject`, `PutParts` | the browser: any order, repeated, also never |

A manifest entry's id is the R2 key, the primary key of `files` and the only
thing two requests of a session compete for. Names, sizes, hashes and upload
policy are data: policy appears as the nondeterministic refusal in `RejectInit`
and `Record`.

### FileStore

| Specification | Code |
|---|---|
| `rows`, `status`, `thumb` | the `files` table: ids, `status`, rows with a `thumbnail_file_id` |
| `objects`, `previews`, `open` | the bucket |
| `cached` | files with a usable `cache/posters/<id>.jpg` |
| `audited` | files that the audit entry of a delete counts |
| `job[j]` | a delete or poster request with the copy of the row it read |
| `LoadFile` ... `FinishDelete` | the loops of `handleFilesBatch` and `handleAdminFilesBatch` around `deleteFilePermanently` (object, preview, row); a single delete is a batch of one |
| `BeginPoster` | `handlePublicOGImage` up to `mediaPosterPath`, with the row it read |
| `LookPoster`, `RemovePoster`, `FetchPoster`, `MakePoster` | `mediaPosterPath`: look at the disk, remove what is not usable, take the copy in R2, or make one (a picture of the file, a frame, the default cover) |
| `UploadPreview`, `LinkPreview` | `syncPosterToR2`, repeated by every view of a poster that is on disk |
| `tool[t]` and the actions on it | `cmd/r2reconcile` (read the table, list objects, list uploads, clean), `cmd/purge-deleted` and `cmd/r2dedupe` (read a list, then object and row of each file) |

The owner's and the administrator's handlers differ in who may call them and in
the audit action, not in what they do to a file; one pair of actions stands for
the four. A `hidden` status stands for any string that is neither `active` nor
`deleted`, since `PatchAdmin` stores what it is given. Views of one file share
the path on disk and nothing else: between two steps of a view another one may
remove the poster it has just put there. `Media` are the files that have a
poster; which of the three kinds it shows is left out.

### FileLifecycle

Extends `DirectUpload` and instantiates `FileStore`; `rows`, `objects` and
`open` are shared. An `INSERT` of the upload side makes the row `active`; a
restart ends the requests of both sides, never a maintenance program. Posters,
patches and the two row-driven programs are left to `FileStore`, where they meet
the deletes.

### Pickup

| Specification | Code |
|---|---|
| `row[f]`, `batches` | a file's row and status, the `upload_batches` rows |
| `code[h]`, `links[s]` | `pickup_code` of a batch or share, `pickup_share_files`; a share without a code has no row |
| `expired`, `stamp[s]` | holders older than 24 hours; `revoked_at`, as the request that wrote it |
| `BeginShare`, `CheckFile`, `CreateShare`, `RetryShare` | the share branches of `handleFilesBatch` and `handleFileAPI`: one `GetFile` per file (one that fails skips the file), then `CreatePickupShare`, up to five transactions |
| `BeginPickup`, `LookupBatch`, `ListBatch`, `LookupShare`, `ListShare`, `Serve` | `handlePickup`, `handlePickupFile`: batches first, then shares, each lookup two statements |
| `BeginRevoke`, `LookupShare`, `Revoke` | `handleShareAPI`, `RevokePickupShare` |
| `CreateBatch`, `CreateFile`, `PatchAdmin`, `HardDelete`, `Expire` | the statements of the other components that a code depends on, and time |

Two guards stand for what SQLite enforces: `Found(c, Shares) = {}` for the unique
index on codes, `req[r].files \subseteq Rows` for the foreign key on `files`.
`HardDelete` may be followed by another `CreateFile` of the same id, as in
`FileLifecycle`. `dead` is the one variable part without a counterpart: the
holders that were dead when the request arrived, which `DeadCodesServeNothing`
compares with.

### Settings

| Specification | Code |
|---|---|
| `file`, `cfg`, `row` | the config file (`Torn` between truncation and write), `App.cfg` with `App.storage`, `site_settings` |
| `lock` | the patch that holds `App.mu` for writing; readers (`snapshotConfig`) need it free |
| `BeginPatch` | `handleAdminSettings` up to `splitSettingsPatch` |
| `Lock`, `TestPasses`, `TestFails`, `RefuseSave`, `Truncate`, `Write`, `WriteFails`, `Load`, `LoadFails` | `patchConfigSettings` with `applyConfigPatch`, `testStorageConfig`, `config.Save`, `config.Load` |
| `StoreAuth`, `AuthStored`, `StoreRow`, `RowsStored`, `DatabaseFails` | `patchRuntimeSettings`, `patchStoredSettings`: Go maps, so in any order |
| `Snapshot`, `Show`, `Finish` | the answer: `configSettings` of a snapshot, then `attachStoredSettings` row by row |
| `BeginRead`, `ReadRow`, `UsePolicy` | `effectiveUploadPolicy` |
| `Crash`, `Restart` | the process; `main` exits when `config.Load` fails |

A key is a setting; a value is what the setting is after trimming and
formatting. What matters of a value is whether it is blank: a blank number or
secret leaves the config alone (`KeptKeys`), a blank secret is not stored
(`SkippedKeys`), any other blank becomes a default (`Normal`). `settingValue` takes
a `SELECT` that fails for a row that is not there: `Show` and `ReadRow` have that
outcome as a disjunct, in which the answer and the policy fall back on their snapshot
of the memory, the answer of an `auth.` switch on its default (`AuthDefault`). Settings that
change each other count as one: endpoint and bucket of the storage; a blank
`sso.meUrl` or CDN address gets a fixed default here. Names that no field and no
`auth.` switch has are left out, they only reach the rows. `alone`, `lost`, `tested`,
`acked` and `seen` have no counterpart in the code; the properties compare with
them.

### Accounts

| Specification | Code |
|---|---|
| `email`, `role`, `disabled`, `secret`, `fails`, `locked` | the columns of `users` that decide a sign-in; a row exists where `email[i] # None` |
| `link`, `sessions` | `user_identities`, `account_sessions` that have not expired |
| `req[q]` | one request with the row it has read or inserted |
| `BeginSetup`, `BeginRegister`, `InsertUser` | `handleSetup`, `handleLocalRegister`: count, hash, `INSERT` |
| `LoadUser`, `PasswordRight`, `PasswordWrong`, `CountFailure`, `LockEnds` | `handleLocalLogin`, the `UPDATE` of `recordLoginFailure`, `locked_until` |
| `BeginCallback`, `MeAnswers`, `FindIdentity`, `FindEmail`, `InsertUser`, `LinkIdentity` | `handleAuthCallback`, `account.Client.Me`, `upsertSSOUser` |
| `CreateSession`, `EndSession` | `createSession`; logout or expiry |
| `BeginAdmin`, `CreateUser`, `PatchUser`, `AdminFails` | `requireAdmin`, `handleAdminUsers`, `handleAdminUserAPI` |
| `Crash` | the process |

No handler uses a transaction: each action is one statement. A session carries
role and permissions as its sign-in read them, and `requireAdmin` goes by the
session, so `BeginAdmin` does too. `initialized` reads a failed `COUNT` as an
empty table: setup may therefore start at any time. What the account center
answers is an input, the address may change from one answer to the next.
`touched` has no counterpart: an administrator has patched the user of the request
since it read or inserted that user, which `RoleWasHeld` and `DisabledStaysOut`
allow for. `People` are the addresses whose owners set up, register and sign in;
an administrator may make users of any address. `NewId` picks one of the ids that
are free: they are random, and nothing orders them. `FindIdentity` stands for the two
`SELECT`s of `localUserByIdentity`: rows of `users` are never deleted, so the second
finds what the first names, or fails as the first may.

## 3. Runs

| Run | Instance | Question |
|---|---|---|
| `direct_races` | one session, a small and a large file, 3 requests, crashes | do rows, objects, summary and manifest stay consistent whatever completes, cancels and inits interleave, and is it the abstract ledger? |
| `direct_retry` | one session, two small files, 2 requests, fairness | does a client that keeps completing get everything recorded, is each request answered? |
| `store_races` | two files of one name, two deletes, one program, crashes, no posters | does a row outlive its object, are audit entries true, and is it the abstract shelf? |
| `store_retry` | one media file, 2 requests, the reconcile program, fairness | does a delete that is asked for again finish, after any partial one, does the poster of a file that is viewed get into R2 and the row, and is a preview without a row reclaimed as long as reconcile is run? |
| `store_audit` (violation) | two files, one request | does each administrator's delete leave an audit entry? No |
| `store_reconcile` (violation) | two files, one program | does reconcile spare objects of active rows? No |
| `store_dedupe` (violation) | two files, one program | does dedupe keep the newest file of a name? No |
| `lifecycle` | one multipart file, one upload request, one delete, one reconcile, restarts, fairness | was a completed batch recorded whole, and is everything left behind reclaimed as long as reconcile is run? |
| `lifecycle_put` | the same with one small file, put through a presigned link at any time | are objects that arrive late reclaimed, too? |
| `pickup_races` | an anonymous batch with two files, one share, two codes, two requests, `Tries = 2` (5 in the code), crashes | are shares whole, do they name existing files, do dead codes serve nothing, does the first revocation count? |
| `settings_races` | an upload setting, the storage, an `auth.` switch and an unknown name; three patches, two requests, failing statements, crashes, fairness | do patches of different settings leave each other alone, does what is saved hold, is it shown, is used storage tested, does a policy have the saved values and else ones that were in force, is each request answered? |
| `accounts_races` | two user ids, two addresses of which one is a person's, one user of the account center, two requests, `Threshold = 2` (5 in the code), restarts, fairness | is the first user an administrator, do sessions name users and carry what those had, is only who failed locked, and who keeps failing, do disabled users stay out, and does everybody entitled get in? |

Bounds and why they suffice. The handlers relate files only through sets (the
counted files, the batch), and requests only through the shared state; no
handler refers to two other requests. Two files give "some failed, some did
not" and both upload ways; three upload requests give two racing completes next
to a cancel. `store_races` has two deletes, each of one or both of the same two
files, so either may find a row gone when its turn comes, and its files have no
posters: what a view does to a deletion is `store_retry`, with two requests on one
media file, each a delete or a view. The proofs of section 5 then cover every number of files, sessions,
requests and programs for the safety properties. The one counter is the number of
attempts at a code, bounded by `Tries`; one retry is enough to see a second
attempt fail. A setting is either sent by a request or not, so two settings of
the config and two requests give every overlap of two patches; a third request
would only wait for the same lock. In `accounts_races` setups,
registrations, sign-ins and callbacks compete for one address, which is where the
handlers meet, and the administrator makes a second user of the other one; a
threshold of two lets a failure count up, reach the lock and be set back by one
that was slow. An identity whose address changes, and several people signing in,
are covered by the proofs, which hold for any number of ids and addresses, not by
the run. In `store_retry` one file is
enough, since views and deletes of different files share no state; its patches set a
file to `deleted` and back, since a hidden one is deleted like an active one and is
neither viewed nor kept by reconcile. The reconcile
program treats objects and multipart uploads of different files apart, so the two
lifecycle runs have one file each, of either kind. Otherwise time is the four ages of a session. Slots of requests are symmetric; the
files are not (sizes, ranks).

Deadlock is checked in every run but two: in `direct_retry` a session that was
cancelled or has expired is the end, since without `Crash` nothing need ever
happen again; in `settings_races` a server that stopped in the middle of writing
its config file cannot start again.

## 4. Fairness

Two kinds of assumption are kept apart: what the code's own scheduling gives is part
of a specification; what clients, users and operators would have to do is a premise of
the property that needs it, since nothing in the repository does it for them.

Part of the specifications:

- `Scheduled`, and `WF` on `DeleteStep` and `PosterStep`: the Go scheduler runs a
  handler goroutine that has a step to make. `RetrySpec` of both modules has no
  `Crash`: a server that restarts for ever answers nobody. `ReclaimSpec` keeps
  restarts, and its promise does not depend on requests finishing.
- `SF` on a HEAD that finds a stored object, an `INSERT`, an R2 delete, a row delete,
  the upload of a preview: R2 and SQLite may fail any number of times but not for
  ever. Weak fairness would not do, a request leaves the step after each failure.
- `WF` on `ReconcileStep` and `StopTool` (`FileStore`), `ToolFair` (`FileLifecycle`): a
  run of `cmd/r2reconcile` that has begun goes on, or each kind of its calls succeeds
  now and then if it keeps being made.
- `WF` on `Expire`/`Drain`: time passes; `WF` on `LockEnds`: a lock lasts ten minutes.
- `Healthy` in `FileStore` and `Accounts`, assumed of all but finitely many steps:
  failures (in `FileStore` those of views, of reconcile runs and of a delete's `SELECT`)
  stop at some time. The liveness properties must hold from whatever the
  failures before have left; a promise that needs each call to fail finitely
  often only (`SF`) would be stronger, and is what the `SF`s of `RetrySpec` say of
  the calls a delete and a mirroring make.
- `Accounts`: `WF` on the statements of a request.
- `Settings`: `WF` on the steps of each request (a goroutine, in calls that return
  or time out), and `SF` on taking `App.mu`: a `sync.RWMutex` lets every waiting
  writer and reader pass eventually.

Premises of properties:

- `RetryRecordsAll`: a client asks again and again to complete the session. The page
  (`frontend/src/pages/index.astro`) calls complete once and repeats only presigned
  PUTs; an API client may (`docs/API.md` lists the call for it).
- `DeleteConverges`, `PosterMirrored`: the delete is asked for, the poster is viewed,
  again and again.
- `PreviewsReclaimed`, `LeaksReclaimed` (`Reconciled`): somebody runs
  `cmd/r2reconcile` again and again. No timer or document of the repository does or
  asks for it; `scripts/migrate-v2-r2-only.sh` prints it as one next step. Where nobody
  does, what uploads and deletes leave behind in R2 stays.
- `RightPasswordAccepted`, `SsoSignsIn`: the person tries again and again (`SF` of
  `SignIn`, `Callback`: they try whenever a request slot is free and no lock holds);
  `WrongPasswordsLock`: wrong passwords are counted again and again, and at some time
  nobody gives the right one any more.

## 5. Proofs

All proofs are hierarchical and checked by TLAPS for every value of the
constants, under `FilesOfAssumption`, `MultipartAssumption`,
`FreshIdsAssumption` (`ids.New` repeats no id) and `NoneAssumption` in
`DirectUpload`, `NoFileAssumption`, `MediaAssumption` and `RankAssumption` in `FileStore`, `HoldersAssumption`, `PickupNoneAssumption` and
`TriesAssumption` in `Pickup`, `KeysAssumption`, `ValuesAssumption` and `R2Assumption` (a
blank storage mode does not become R2) in `Settings`, `NoneAssumption`,
`PeopleAssumption` and `ThresholdAssumption` in `Accounts`. TLC
evaluates each assumption in the runs.

`DirectUploadProofs`. None of the properties is inductive: `RowHasObject` needs
to know that a request about to insert has seen the object, `BatchNeverOverstates`
that what a request has counted is recorded. `IInv` adds, per request: in
`record` and `reread` the object exists; `good` is within the recorded files of
the session; each loop entry passed is in `good` or in `bad` (so an empty `bad`
at the end means everything is recorded); a request whose insert has succeeded
owns the file (so no two requests count one file: of two inserts only one can
succeed). From it follow `TypeCorrect`, `RowsHaveObjects`, `SummariesAreSound`,
`CompletedBatchesAreWhole`, `FilesCountedOnce`, and `ImplementsLedger`, the step
simulation of `UploadLedger` under the refinement mapping of `LedgerSpec`.
`ManifestsAreKept` needs one invariant more, `RemoverIsWhole`: a complete on its way
to remove the manifest has recorded every file of the session. `SummariesAddUp` (the
counts of a batch cover its files, each once, whichever complete wrote last) rests
on a counting invariant: within the loop `good` and `bad` are disjoint and together
the entries passed, and each step counts one entry or none. `HandlersEnd` gives
every request a measure, three times the entries ahead plus the steps of the
present one, which the manifest bounds and each of its steps lowers.

`FileStoreProofs`. `IInv` consists of `RowOutlivesObject`, `JobInv` (a request
past the object step works on a file without object; what it has counted is
gone), `ToolInv` (the same for a program between object and row, and what it
found has been uploaded) and `AuditInv`. Two facts carry it: a file that was
uploaded never gets its object or row back (`Lasting`, `Shrinking`), so "gone" is
stable under steps of everybody else. From it follow `TypeCorrect`,
`ObjectsHaveRows` and `AuditIsTrue`. `ImplementsShelf` is the step simulation of
`FileShelf`: `Place` makes one state of row, object and history of a file, posters,
uploads and programs stutter. `TakenOnlyAsAsked` says who takes what from R2; it
is what is left of `ReconcileSparesActive`, which does not hold: `cmd/r2reconcile`
may delete the object of an active row, but only of a row that came after it
began, because what it keeps never meets what it has on its lists (`Spared`).

`PickupProofs`. `IInv` is `TypeOK` request by request, `SharesNameFiles`, and two
facts about a pickup request: what was dead when it arrived is still dead
(nothing revives a code, so `Dead` only grows), and the holder it has found was
not among them. The action properties `SharesStayWhole` and
`FirstRevocationStays` follow from it step by step. `DeadCodesServeNothing` needs
that batches and shares are disjoint (`HoldersAssumption`), `SharesNameFiles` that
the file is looked for in the transaction that writes the share; the earlier
check of the handler plays no part in the proof. `CodesAreUnique` and
`PickupsFollowCodes` rest on one more invariant (`CodesLead`): codes are unique in
each table and are never changed, and a request keeps to the holder of the code it
was given. A code that is both a batch's and a share's is possible and not excluded
by them.
`RequestsOnlyRead` and `TableMayMove` are the two halves of what `Pickup` takes for
granted about files: its requests change none of the two tables, and its environment
may take every step of `FileTable`, which `FileLifecycle` implements. So nothing
proved of codes assumes uploads or deletions other than those modelled there.

`SettingsProofs`. `IInv` says of each request (`Good`) that the copy it works on
differs from the memory only in what it sends (`CopyIsCurrent`, which needs the
lock), that what it alone sends stays once saved (`SavedStays`), that R2 settings
at the step of saving have been tested, and that the snapshot of a reader was in
force where no row says otherwise (`SnapshotWasInForce`) and has what was saved before
the reader began (`ReadsSaved`); of all together, that no two requests send what one
of them sends alone, and that what counts as saved is sent by nobody. Each lemma
takes one action through all of it; two carry most cases, `QuietKeeps` for steps
that leave the settings alone and `ConfigChangeKeeps` for those that change them
under the lock. From it follow `TypeCorrect`, `AcknowledgedHold`,
`UsedStorageWasTested`, `AnswersShowWhatWasSent`, `PoliciesWereInForce` and
`OtherKeysKept`. Of these, `AnswersShowWhatWasSent` and `PoliciesWereInForce` allow any
`SELECT` to fail: on a setting that was saved memory and row agree, so the snapshot
will do; where there is nothing in memory (`auth.` switches, secrets) the answer, and
where a row hid the memory's value the policy, may be wrong while the `SELECT` fails. `TornFilesAreRewritten` says what becomes of a config file cut off
in the middle: the next patch that is saved writes it from the memory, and a server
that stops before that cannot start again.

`AccountsProofs`. `IInv` says of each request what it carries: an address to be
inserted while none is known to be the user's, a user that has a row once it is
past its insert or lookup, the role that user has unless it has been patched
since, and that a password sign-in under way is of a user who was not disabled
when it began, unless patched since. Three facts hold of the table: rows and
addresses stay (`Rows` only grows, `email` of a row never changes), an identity
names a row, and a locked user has `Threshold` failures. The three action
properties of the run follow step by step; `FirstIsAdmin` uses that a request other than a
setup can only have come as far as an `INSERT` when there was a row already.
`FailuresAreKept` is the safety half of `WrongPasswordsLock`: a slow failure may set
the count of a user back, but never below what the row and every attempt under way had
(`Known`), since each of them writes one more than it read; only a right password does.

`FileLifecycleProofs`. With deletions beside the uploads neither "recorded" nor
"gone" is stable: a complete may record once more a file that was deleted after
its first complete. `LInv` therefore speaks of what was recorded at some time
(`status` other than `new`, which no step takes back, `Later`): what a request has
counted, and everything before its place in the loop that has not failed, was.
The lemmas of `DirectUploadProofs` about requests are used again; those about rows
are not. It gives `CompletedBatchesWereWhole`, `CountedFilesWereRecorded` and
`SummariesBesideDeletions`; `HandlersEndBesideDeletions` uses the measure of
`DirectUploadProofs` once more, since a deletion changes no request
(`UploadsOrIdle`). `RowsHaveBatches` is the invariant that a row, a manifest and a
request under way belong to a session whose batch row is there (batch rows are
never deleted, and `ids.New` gives each file one session, `OwnerIsUnique`); with it
`ImplementsTable` maps each step to one of `FileTable` or a stutter.

Requests end. The provers cannot take fairness, but the safety half of every
request's liveness is proved, in all five components (`HandlersEnd`, `RequestsEnd`,
`ProgramsEnd`): each step of a request or program lowers a measure, and no step of
anybody else raises it. The measure is a number in `DirectUpload` and `Accounts`; a
list that shrinks, then the stage of the file at hand, in the requests of `FileStore`;
a stage, then a list that shrinks, in its programs, in `Settings` and in `Pickup` (there
also the attempts left). Lists are finite, so with the fairness of section 4 each
request is answered; that conclusion stays with the runs.

Only model-checked: the liveness properties (`EveryRequestAnswers`, `RetryRecordsAll`,
`DeleteConverges`, `PosterMirrored`, `PreviewsReclaimed`, `LeaksReclaimed`,
`RightPasswordAccepted`, `WrongPasswordsLock`, `SsoSignsIn`), since fairness and `ENABLED` are out of the
provers' reach. Every safety invariant, action property and refinement of the passing
runs is stated by a theorem. Only proved, and not stated in a run: `FileTable`,
`CountedWasRecorded` and the theorems whose formulas are defined in a proof module.

## 6. What the checks show

Of uploads by themselves: a row comes after its object, a batch reports no more than
its rows, and a manifest stays until its files are recorded, under arbitrary
interleaving and without any lock, because object, row and summary are written in this
order. The primary key of `files` is what makes concurrent completes harmless. Of
deletions: the object goes before the row, so none leaks an object, and a deletion that
stopped half-way can be repeated.

Of both together less is left. Between a complete's HEAD and its `INSERT` another
request may record and delete the same file, or `cmd/r2reconcile` may take the object
for an orphan: the row that is inserted then has no object, its content cannot be served,
and it can only be deleted. And what was recorded when a batch was completed may be
deleted and, by a complete still under way, recorded again. What does hold beside
deletions is that a completed batch was whole at some time, and that what a request has
counted was recorded. What uploads and deletions leave in R2 is reclaimed by
`cmd/r2reconcile`, if somebody runs it, and by nothing else.

A code is served only while it lives, and a share is whole or absent, because the
foreign key and the transaction in `CreatePickupShare` repeat the check the
handler made too early.

A preview ends up where its row is, or is reclaimed, for two reasons that are
easy to lose: every view mirrors again what is on disk, and the reconcile program
compares previews with rows of its own accord. A view whose poster another view
removed mirrors nothing, and the next one repairs it.

Setup, registration and SSO race without a lock, and still the first user is an
administrator, because everything but setup refuses to begin on an empty table
and rows are never deleted; setup itself may make more than one. Lost counts of
failed passwords can only lift a lock, never set one that was not earned; and they
cannot keep a lock away for ever, since each failure writes more than it read. Which
user an identity belongs to is settled anew whenever its lookup fails: by the address
the account center reports then. A
session may outlive what it was given for: a role that was changed, or a user
who was disabled, counts from the next sign-in on.

Patches of different settings do not undo each other because `App.mu` is held
from the copy of the config to its replacement, and each row is a statement of
its own. A policy mixes a snapshot with rows read later, but each of its values
was in force meanwhile: a patch writes the memory before the row, and a row is
never removed. Of a number this holds only while its row is not zero, and of any setting
only while its `SELECT` works: a patch that failed between memory and row leaves in
memory what a failing `SELECT` lets through. A setting that counts as saved is read as
saved in any case.

A repeated complete counts the files an earlier one recorded as failed and overwrites
the counts of the batch, so `upload_batches` may say less than the rows do. No line of
the repository excludes it; `SummariesAddUp` says what the counts are.

Three statements of the repository do not hold; PROJECT.json quotes them:

- a batch delete of the administrator that fails in the middle leaves no audit
  entry for the files it has deleted (`AdminDeletesAudited`).
- `cmd/r2reconcile` reads the table before it lists the bucket and may delete
  the object of a file that was recorded in between (`ReconcileSparesActive`).
- `cmd/r2dedupe` works through a list made once and may delete the last active
  file of a name (`DedupeKeepsNewest`).

## 7. Not modelled

- Public pages and downloads choose a response from one row, cookies and headers,
  and change nothing but the poster cache, which `FileStore` has.
- Dead code: `handlePublicMSEVideo`, `serveFaststartVideo`, `officeThumbnailPath`,
  `downloadStoredThumbnail`, and the chunk upload (`handleUpload`,
  `handleChunkInit` to `handleChunkCancel`, `processTempUpload`,
  `cleanupOldChunkUploads`). No route leads to them, the old routes answer 410
  (`handleLegacyUploadDisabled`): the program has no state they produce.
- Signing, XML, curl and the Telegram driver are I/O; what a call does to the
  bucket, and its ways to fail, is in the actions that call it.
- Migrations run before the server listens, one process, no concurrency.
- Region and hotlink policy and the audit retention are stored and enforced
  nowhere. The visibility columns of `files` are written by one `UPDATE` and read
  by the public pages only.
- Sessions, cookies and paths read `a.cfg` without `a.mu` while a patch replaces
  it, a data race on a struct of strings; the model takes each field as read whole.
  The account client keeps the address it was started with until a restart.
- Transcoding is ffmpeg. Static pages and deployment files hold no state of the
  program. The browser's uploader is the environment of `DirectUpload`: its own
  queue and retry loops are presentation as far as the server is concerned.

## 8. Plan

Done: `UploadLedger`, `DirectUpload`, `FileShelf`, `FileStore` with the poster cache,
`FileLifecycle`, `FileTable`, `Pickup`, `Settings`, `Accounts`, the safety proofs of all
of them, the two refinements, and that every request advances. Left, by weight:

1. abstract specifications of `Settings` (a register per setting) and `Accounts`, with
   their refinements;
2. that `FileStore`'s patches, too, are steps of `FileTable`;
3. `Accounts` with the switches of `Settings` (registration, SSO) as shared state;
4. pure algorithms (part size, chunk size, ranges) as operators checked against
   reference definitions;
5. the browser's queue as a component of its own.
