------------------------------ MODULE Settings ------------------------------
(***************************************************************************)
(* Site settings (handleAdminSettings and patchConfigSettings of           *)
(* internal/server/server.go, internal/config/config.go).  A setting lives *)
(* in three places: the config file, the copy of it in memory (a.cfg, with *)
(* a.storage made from it) and a row of site_settings.  A PATCH writes     *)
(* them in this order.  a.mu is held for the file and the memory, and      *)
(* meanwhile a test upload is made; each row is a statement of its own.    *)
(* Uploads compute their policy from a snapshot of the memory and one row  *)
(* after the other, the rows taking precedence; a SELECT that fails counts *)
(* as no row.  A restart knows the file and the rows.                      *)
(***************************************************************************)

CONSTANTS
    ConfigKeys,   \* settings with a field in the config file
    AuthKeys,     \* auth.allowRegistration, auth.ssoEnabled: rows only
    BadKeys,      \* other auth.* names, which are refused
    PolicyKeys,   \* upload.* and file.*: the upload policy
    StorageKeys,  \* storage.*: they make up the uploader
    KeptKeys,     \* numbers and secrets: a blank value leaves the config alone
    SkippedKeys,  \* names ending in Secret: a blank value is not stored either
    Values,       \* what a setting may be
    Blank,        \* empty text, empty list or zero
    Default,      \* Default[k]: what normalize puts for a blank
    AuthDefault,  \* AuthDefault[k]: what an auth setting is without a row
    R2,           \* storage settings with mode r2
    Patches,      \* request bodies: a value or None for each key
    Requests,     \* requests handled at the same time
    None,         \* no value, no row, nobody
    Torn          \* a config file cut off in the middle

Keys == ConfigKeys \cup AuthKeys \cup BadKeys
Config == [ConfigKeys -> Values \ {Blank}]

ASSUME KeysAssumption ==
    /\ PolicyKeys \cup StorageKeys \subseteq ConfigKeys
    /\ SkippedKeys \subseteq KeptKeys
    /\ (AuthKeys \cup BadKeys) \cap ConfigKeys = {}
    /\ AuthKeys \cap BadKeys = {}
ASSUME ValuesAssumption ==
    /\ Blank \in Values
    /\ None \notin Values \cup Requests
    /\ Torn \notin Config
    /\ Default \in Config
    /\ AuthDefault \in [AuthKeys -> Values]
    /\ Patches \subseteq [Keys -> Values \cup {None}]

VARIABLES
    file,    \* the config file
    cfg,     \* a.cfg, and a.storage made of its storage settings
    row,     \* site_settings
    lock,    \* the request that holds a.mu for writing
    up,      \* whether the server runs
    req,     \* what each request is doing
    tested,  \* history: storage settings that passed the test upload, or were there first
    acked,   \* history: the value of each setting that counts as saved
    seen     \* history: the values in force while a request reads the policy

vars == <<file, cfg, row, lock, up, req, tested, acked, seen>>

-----------------------------------------------------------------------------
(* Types *)

\* conf: the patched copy of a.cfg, or the snapshot of a reader or of the answer;
\* got: the values read for the answer.  Two fields are not in the code.  alone:
\* keys that no other request has sent since this one began, of a patch those it
\* sends, of a reader those saved before; lost: keys whose SELECT has failed.
Request == [pc : {"idle", "lock", "test", "save", "write", "load", "auth", "rows",
                  "answer", "show", "policy"},
            body : [Keys -> Values \cup {None}], conf : [ConfigKeys -> Values],
            todo : SUBSET Keys, got : [Keys -> Values \cup {None}], alone : SUBSET Keys,
            lost : SUBSET Keys]

TypeOK ==
    /\ file \in Config \cup {Torn}
    /\ cfg \in Config
    /\ row \in [Keys -> Values \cup {None}]
    /\ lock \in Requests \cup {None}
    /\ up \in BOOLEAN
    /\ req \in [Requests -> Request]
    /\ tested \subseteq [StorageKeys -> Values]
    /\ acked \in [Keys -> Values \cup {None}]
    /\ seen \in [Requests -> [PolicyKeys -> SUBSET Values]]
    /\ \A r \in Requests : lock = r <=> req[r].pc \in {"test", "save", "write", "load"}

-----------------------------------------------------------------------------
(* Helpers *)

Unset == [k \in Keys |-> None]
Idle == [pc |-> "idle", body |-> Unset, conf |-> Default, todo |-> {}, got |-> Unset,
         alone |-> {}, lost |-> {}]

Sent(body) == {k \in Keys : body[k] # None}
Auth(body) == Sent(body) \cap (AuthKeys \cup BadKeys)
Stored(body) == {k \in Sent(body) : ~(k \in SkippedKeys /\ body[k] = Blank)}

\* applyConfigPatch
Applied(c, body) ==
    [k \in ConfigKeys |->
        IF body[k] = None \/ (body[k] = Blank /\ k \in KeptKeys) THEN c[k] ELSE body[k]]

\* normalize of config.go
Normal(c) == [k \in ConfigKeys |-> IF c[k] = Blank THEN Default[k] ELSE c[k]]

StorageOf(c) == [k \in StorageKeys |-> c[k]]

\* A mode left blank becomes local.
ASSUME R2Assumption ==
    \A c \in [ConfigKeys -> Values] : StorageOf(Normal(c)) \in R2 => StorageOf(c) \in R2

\* effectiveUploadPolicy, for one setting: the row counts unless it is a number
\* that is not positive.
Policy(k, configured, stored) ==
    IF stored = None \/ (stored = Blank /\ k \in KeptKeys) THEN configured ELSE stored

InForce(k) == Policy(k, cfg[k], row[k])

\* What an answer shows of k when it finds no row: the default of an auth setting,
\* nothing of a secret, else what the snapshot c of the memory says.
WithoutRow(k, c) ==
    IF k \in AuthKeys THEN AuthDefault[k] ELSE IF k \in SkippedKeys THEN Blank ELSE c[k]

Answer(r) == req' = [req EXCEPT ![r] = Idle]
Unlock == lock' = None
Goto(r, pc, todo) == req' = [req EXCEPT ![r].pc = pc, ![r].todo = todo]

\* settingValue: k is read as v; failed: the keys whose SELECT fails.
Got(r, k, v, failed) ==
    req' = [req EXCEPT ![r].todo = req[r].todo \ {k}, ![r].got[k] = v,
                  ![r].lost = req[r].lost \cup failed]

-----------------------------------------------------------------------------
Init ==
    /\ file = Default
    /\ cfg = Default
    /\ row = Unset
    /\ lock = None
    /\ up = TRUE
    /\ req = [r \in Requests |-> Idle]
    /\ tested = {StorageOf(Default)}
    /\ acked = Unset
    /\ seen = [r \in Requests |-> [p \in PolicyKeys |-> {}]]

-----------------------------------------------------------------------------
(* PATCH /api/admin/settings: the config file *)

\* A blank base URL has been replaced by the origin of the request already.
BeginPatch(r, body) ==
    /\ up
    /\ req[r].pc = "idle"
    /\ LET others == UNION {Sent(req[q].body) : q \in Requests \ {r}}
           pc == IF Sent(body) \cap ConfigKeys # {} THEN "lock" ELSE "auth"
       IN req' = [q \in Requests |->
                    IF q = r
                    THEN [Idle EXCEPT !.pc = pc, !.body = body, !.todo = Auth(body),
                                      !.alone = Sent(body) \ others]
                    ELSE [req[q] EXCEPT !.alone = req[q].alone \ Sent(body)]]
    /\ acked' = [k \in Keys |-> IF k \in Sent(body) THEN None ELSE acked[k]]
    /\ UNCHANGED <<file, cfg, row, lock, up, tested>>

\* Variant: the test depends on the mode in force before the patch.
CopyOldMode(r) ==
    LET new == Applied(cfg, req[r].body)
        touched == Sent(req[r].body) \cap StorageKeys # {}
    IN req' = [req EXCEPT ![r].conf = new,
                  ![r].pc = IF touched /\ StorageOf(cfg) \in R2 THEN "test" ELSE "save"]

\* The patch is applied to a copy of a.cfg; R2 settings are tested before they
\* are saved.
Copy(r) ==
    LET new == Applied(cfg, req[r].body)
        touched == Sent(req[r].body) \cap StorageKeys # {}
    IN req' = [req EXCEPT ![r].conf = new,
                  ![r].pc = IF touched /\ StorageOf(new) \in R2 THEN "test" ELSE "save"]

\* Variant: a.mu is not taken.
LockNot(r) ==
    /\ req[r].pc = "lock"
    /\ Copy(r)
    /\ UNCHANGED <<file, cfg, row, lock, up, tested, acked>>

Lock(r) ==
    /\ req[r].pc = "lock"
    /\ lock = None
    /\ lock' = r
    /\ Copy(r)
    /\ UNCHANGED <<file, cfg, row, up, tested, acked>>

\* testStorageConfig: a small file is uploaded with the new settings.  Where they are
\* blank the upload takes what normalize will put (storageTimeout, region "auto").
TestPasses(r) ==
    /\ req[r].pc = "test"
    /\ tested' = tested \cup {StorageOf(Normal(req[r].conf))}
    /\ Goto(r, "save", req[r].todo)
    /\ UNCHANGED <<file, cfg, row, lock, up, acked>>

\* Variant: this return leaves a.mu locked.
TestFailsLocked(r) ==
    /\ req[r].pc = "test"
    /\ Answer(r)
    /\ UNCHANGED <<file, cfg, row, lock, up, tested, acked>>

TestFails(r) ==
    /\ req[r].pc = "test"
    /\ Answer(r)
    /\ Unlock
    /\ UNCHANGED <<file, cfg, row, up, tested, acked>>

\* validate refuses the new config, or its file cannot be opened.
RefuseSave(r) ==
    /\ req[r].pc = "save"
    /\ Answer(r)
    /\ Unlock
    /\ UNCHANGED <<file, cfg, row, up, tested, acked>>

\* os.WriteFile truncates the file first.
Truncate(r) ==
    /\ req[r].pc = "save"
    /\ file' = Torn
    /\ Goto(r, "write", req[r].todo)
    /\ UNCHANGED <<cfg, row, lock, up, tested, acked>>

Write(r) ==
    /\ req[r].pc = "write"
    /\ file' = Normal(req[r].conf)
    /\ Goto(r, "load", req[r].todo)
    /\ UNCHANGED <<cfg, row, lock, up, tested, acked>>

WriteFails(r) ==
    /\ req[r].pc = "write"
    /\ Answer(r)
    /\ Unlock
    /\ UNCHANGED <<file, cfg, row, up, tested, acked>>

\* Variant: the memory keeps the config of before.
LoadForgets(r) ==
    /\ req[r].pc = "load"
    /\ file # Torn
    /\ req' = [req EXCEPT ![r].pc = "auth", ![r].conf = Default]
    /\ Unlock
    /\ UNCHANGED <<file, cfg, row, up, tested, acked>>

\* config.Load of what was written; a.cfg and a.storage are replaced.
Load(r) ==
    /\ req[r].pc = "load"
    /\ file # Torn
    /\ cfg' = file
    /\ req' = [req EXCEPT ![r].pc = "auth", ![r].conf = Default]
    /\ Unlock
    /\ UNCHANGED <<file, row, up, tested, acked>>

LoadFails(r) ==
    /\ req[r].pc = "load"
    /\ Answer(r)
    /\ Unlock
    /\ UNCHANGED <<file, cfg, row, up, tested, acked>>

-----------------------------------------------------------------------------
(* PATCH /api/admin/settings: the rows and the answer *)

\* patchRuntimeSettings, in no particular order; an unknown name ends the
\* request, whatever has been written by then.
StoreAuth(r, k) ==
    /\ req[r].pc = "auth"
    /\ k \in req[r].todo
    /\ IF k \in BadKeys
       THEN Answer(r) /\ UNCHANGED row
       ELSE /\ row' = [row EXCEPT ![k] = req[r].body[k]]
            /\ Goto(r, "auth", req[r].todo \ {k})
    /\ UNCHANGED <<file, cfg, lock, up, tested, acked>>

AuthStored(r) ==
    /\ req[r].pc = "auth"
    /\ req[r].todo = {}
    /\ Goto(r, "rows", Stored(req[r].body))
    /\ UNCHANGED <<file, cfg, row, lock, up, tested, acked>>

\* patchStoredSettings, in no particular order.
StoreRow(r, k) ==
    /\ req[r].pc = "rows"
    /\ k \in req[r].todo
    /\ row' = [row EXCEPT ![k] = req[r].body[k]]
    /\ Goto(r, "rows", req[r].todo \ {k})
    /\ UNCHANGED <<file, cfg, lock, up, tested, acked>>

RowsStored(r) ==
    /\ req[r].pc = "rows"
    /\ req[r].todo = {}
    /\ Goto(r, "answer", {})
    /\ UNCHANGED <<file, cfg, row, lock, up, tested, acked>>

DatabaseFails(r) ==
    /\ req[r].pc \in {"auth", "rows"}
    /\ Answer(r)
    /\ UNCHANGED <<file, cfg, row, lock, up, tested, acked>>

\* The answer: snapshotConfig waits for a patch that holds a.mu, then
\* attachStoredSettings reads row by row.
Snapshot(r) ==
    /\ req[r].pc = "answer"
    /\ lock = None
    /\ req' = [req EXCEPT ![r].pc = "show", ![r].todo = Stored(req[r].body), ![r].conf = cfg]
    /\ UNCHANGED <<file, cfg, row, lock, up, tested, acked>>

\* The row is there, since this request wrote it; a SELECT that fails hides it.
Show(r, k) ==
    /\ req[r].pc = "show"
    /\ k \in req[r].todo
    /\ \/ Got(r, k, row[k], {})
       \/ Got(r, k, WithoutRow(k, req[r].conf), {k})
    /\ UNCHANGED <<file, cfg, row, lock, up, tested, acked>>

\* Answered with 200: what nobody else has sent meanwhile counts as saved.
Finish(r) ==
    /\ req[r].pc = "show"
    /\ req[r].todo = {}
    /\ acked' = [k \in Keys |->
                    IF k \in req[r].alone /\ req[r].body[k] # Blank THEN req[r].body[k] ELSE acked[k]]
    /\ Answer(r)
    /\ UNCHANGED <<file, cfg, row, lock, up, tested>>

-----------------------------------------------------------------------------
(* Reading the upload policy *)

\* Variant: the policy starts from the config file.
BeginReadFile(r) ==
    /\ up
    /\ req[r].pc = "idle"
    /\ lock = None \/ file # Torn
    /\ req' = [req EXCEPT ![r] = [Idle EXCEPT !.pc = "policy", !.todo = PolicyKeys,
                                    !.conf = IF file = Torn THEN cfg ELSE file,
                                    !.alone = {p \in PolicyKeys : acked[p] # None}]]
    /\ UNCHANGED <<file, cfg, row, lock, up, tested, acked>>

\* effectiveUploadPolicy: snapshotConfig waits for a patch that holds a.mu.
BeginRead(r) ==
    /\ up
    /\ req[r].pc = "idle"
    /\ lock = None
    /\ req' = [req EXCEPT ![r] = [Idle EXCEPT !.pc = "policy", !.todo = PolicyKeys, !.conf = cfg,
                                    !.alone = {p \in PolicyKeys : acked[p] # None}]]
    /\ UNCHANGED <<file, cfg, row, lock, up, tested, acked>>

\* The row of one setting; a SELECT that fails leaves the snapshot's value.
ReadRow(r, k) ==
    /\ req[r].pc = "policy"
    /\ k \in req[r].todo
    /\ \/ Got(r, k, Policy(k, req[r].conf[k], row[k]), {})
       \/ Got(r, k, req[r].conf[k], {k})
    /\ UNCHANGED <<file, cfg, row, lock, up, tested, acked>>

UsePolicy(r) ==
    /\ req[r].pc = "policy"
    /\ req[r].todo = {}
    /\ Answer(r)
    /\ UNCHANGED <<file, cfg, row, lock, up, tested, acked>>

-----------------------------------------------------------------------------
(* The process *)

Crash ==
    /\ up
    /\ up' = FALSE
    /\ req' = [r \in Requests |-> Idle]
    /\ Unlock
    /\ UNCHANGED <<file, cfg, row, tested, acked>>

\* main: config.Load; without a whole file the process exits at once.
Restart ==
    /\ ~up
    /\ file # Torn
    /\ up' = TRUE
    /\ cfg' = file
    /\ UNCHANGED <<file, row, lock, req, tested, acked>>

-----------------------------------------------------------------------------
ConfigStep(r) ==
    \/ Lock(r) \/ TestPasses(r) \/ TestFails(r) \/ RefuseSave(r)
    \/ Truncate(r) \/ Write(r) \/ WriteFails(r) \/ Load(r) \/ LoadFails(r)

RowStep(r) ==
    \/ AuthStored(r) \/ RowsStored(r) \/ DatabaseFails(r) \/ Snapshot(r) \/ Finish(r)
    \/ \E k \in Keys : StoreAuth(r, k) \/ StoreRow(r, k) \/ Show(r, k)

ReadStep(r) == UsePolicy(r) \/ \E k \in Keys : ReadRow(r, k)

\* History: what is in force before and after each step of a reader's time.
Observe ==
    seen' = [r \in Requests |-> [p \in PolicyKeys |->
                IF req'[r].pc # "policy" THEN {}
                ELSE seen[r][p] \cup {InForce(p)'}]]

Progress(r) == (ConfigStep(r) \/ RowStep(r) \/ ReadStep(r)) /\ Observe

Next ==
    \/ \E r \in Requests : Progress(r)
    \/ /\ \/ \E r \in Requests : BeginRead(r) \/ \E body \in Patches : BeginPatch(r, body)
          \/ Crash
          \/ Restart
       /\ Observe

\* Every request has a goroutine of its own, and every call in it returns; a.mu
\* is a sync.RWMutex, which passes over no reader and no writer for ever.
Fairness ==
    \A r \in Requests : /\ WF_vars(Progress(r))
                        /\ SF_vars((Lock(r) \/ Snapshot(r)) /\ Observe)

Spec == Init /\ [][Next]_vars /\ Fairness

-----------------------------------------------------------------------------
(* Safety *)

\* A setting that was answered as saved, and that nobody has sent again since,
\* is what its row, the memory and the config file say: whatever other patches
\* write to the same file and rows, fail or are cut off by a restart meanwhile.
AcknowledgedSettingsHold ==
    \A k \in Keys : acked[k] # None =>
        /\ row[k] = acked[k]
        /\ k \in ConfigKeys =>
              /\ up => cfg[k] = acked[k]
              /\ file # Torn => file[k] = acked[k]

\* R2 settings that no test upload went through with are neither used nor saved.
StorageWasTested ==
    /\ StorageOf(cfg) \in R2 => StorageOf(cfg) \in tested
    /\ file # Torn /\ StorageOf(file) \in R2 => StorageOf(file) \in tested

\* A patch changes no setting in force that it does not send: two patches of
\* different settings do not undo each other.
PatchesKeepOtherKeys ==
    [][up /\ up' => \A k \in ConfigKeys : cfg'[k] # cfg[k] =>
          \E r \in Requests : req[r].pc = "load" /\ req[r].body[k] # None]_vars

\* dashboard.js compares the answer of a PATCH with what it sent: they agree on
\* every setting that no other request sends at the same time.  If the SELECT of
\* its row fails, they agree wherever the memory has the setting too.
SavedIsShown ==
    \A r \in Requests : req[r].pc = "show" =>
        \A k \in req[r].alone :
            \/ k \notin req[r].lost
            \/ k \in ConfigKeys \ SkippedKeys /\ req[r].body[k] # Blank
            => req[r].got[k] \in {None, req[r].body[k]}

\* A policy is put together from a snapshot and rows read one by one.  A setting
\* that counted as saved before, and is not sent again meanwhile, has the saved
\* value in it, even if its SELECT fails.  Any other has a value that was in force
\* at some time during the reading, unless its SELECT fails or its row is blank and
\* it is a number: then the snapshot's value may be one that no row has let through.
PolicyWasInForce ==
    \A r \in Requests : req[r].pc = "policy" =>
        \A p \in PolicyKeys :
            /\ p \in req[r].alone => req[r].got[p] \in {None, acked[p]}
            /\ p \notin KeptKeys \cup req[r].lost => req[r].got[p] \in seen[r][p] \cup {None}

-----------------------------------------------------------------------------
(* Liveness *)

\* Every request is answered: no return of a patch leaves a.mu locked.
EveryRequestAnswers == \A r \in Requests : req[r].pc # "idle" ~> req[r].pc = "idle"
=============================================================================
