--------------------------- MODULE SettingsProofs ---------------------------
(* Invariants of Settings and their proofs, for every set of settings, *)
(* values, patches and requests.                                       *)
EXTENDS Settings, Naturals, TLAPS

-----------------------------------------------------------------------------
(* The inductive invariant: what each request, and what each setting, keeps *)

Holding == {"test", "save", "write", "load"}
Saved == {"auth", "rows", "answer", "show"}

\* Setting k is v wherever the config keeps it.
Configured(k, v) == k \in ConfigKeys => (up => cfg[k] = v) /\ (file # Torn => file[k] = v)

\* A patch has only keys left that it sends; a stopped server has no requests.
TodoIsSent(r) ==
    /\ up \/ req[r].pc = "idle"
    /\ lock = r <=> req[r].pc \in Holding
    /\ req[r].pc # "policy" => req[r].todo \subseteq Sent(req[r].body)
    /\ req[r].pc \in {"rows", "show"} => req[r].todo \subseteq Stored(req[r].body)
    /\ req[r].pc \in {"idle", "policy"} => req[r].body = Unset
    /\ req[r].pc = "policy" => req[r].todo \subseteq PolicyKeys
    /\ req[r].pc \notin {"show", "policy"} => req[r].got = Unset
    /\ req[r].pc # "policy" => req[r].alone \subseteq Sent(req[r].body)
    /\ Sent(req[r].body) \cap BadKeys \subseteq
          IF req[r].pc \in Holding \cup {"lock", "auth"} THEN req[r].todo ELSE {}

\* The copy a patch works on differs from a.cfg in what it sends only.
CopyIsCurrent(r) ==
    \A k \in ConfigKeys :
        /\ req[r].pc \in {"test", "save", "write"} =>
              /\ req[r].body[k] = None => req[r].conf[k] = cfg[k]
              /\ req[r].body[k] \notin {None, Blank} => req[r].conf[k] = req[r].body[k]
        /\ req[r].pc = "load" =>
              /\ file # Torn
              /\ req[r].body[k] = None => file[k] = cfg[k]
              /\ req[r].body[k] \notin {None, Blank} => file[k] = req[r].body[k]

\* What a request alone sends, and has saved, stays.
SavedStays(r) ==
    \A k \in req[r].alone :
        /\ req[r].pc \in Saved /\ req[r].body[k] # Blank => Configured(k, req[r].body[k])
        /\ req[r].pc = "rows" /\ k \in Stored(req[r].body) \ req[r].todo => row[k] = req[r].body[k]
        /\ req[r].pc \in {"answer", "show"} /\ k \in Stored(req[r].body) => row[k] = req[r].body[k]
        /\ req[r].pc = "show" =>
              /\ k \in ConfigKeys /\ req[r].body[k] # Blank => req[r].conf[k] = req[r].body[k]
              /\ \/ k \notin req[r].lost
                 \/ k \in ConfigKeys \ SkippedKeys /\ req[r].body[k] # Blank
                 => req[r].got[k] \in {None, req[r].body[k]}

TestedBeforeSave(r) ==
    req[r].pc \in {"save", "write"} /\ StorageOf(Normal(req[r].conf)) \in R2
        => StorageOf(Normal(req[r].conf)) \in tested

\* Without a row the snapshot of a reader was in force when it was taken.
SnapshotWasInForce(r) ==
    req[r].pc = "policy" =>
        \A p \in PolicyKeys \ KeptKeys :
            /\ row[p] = None => req[r].conf[p] \in seen[r][p]
            /\ p \notin req[r].lost => req[r].got[p] \in seen[r][p] \cup {None}

\* What was saved before the reader began is in the snapshot, and stays saved.
ReadsSaved(r) ==
    req[r].pc = "policy" =>
        \A p \in req[r].alone :
            /\ p \in PolicyKeys
            /\ acked[p] # None
            /\ req[r].conf[p] = acked[p]
            /\ req[r].got[p] \in {None, acked[p]}

Good(r) ==
    /\ TodoIsSent(r)
    /\ CopyIsCurrent(r)
    /\ SavedStays(r)
    /\ TestedBeforeSave(r)
    /\ SnapshotWasInForce(r)
    /\ ReadsSaved(r)

\* No other patch under way sends what a request sends alone.
AloneIsAlone ==
    \A r \in Requests : \A q \in Requests \ {r} :
        \A k \in req[r].alone : req[q].body[k] = None

\* Nobody sends again what counts as saved, and it stays.
AckedStays ==
    \A k \in Keys : acked[k] # None =>
        /\ acked[k] # Blank
        /\ row[k] = acked[k]
        /\ Configured(k, acked[k])
        /\ \A r \in Requests : req[r].body[k] = None

Tables ==
    /\ file \in Config \cup {Torn}
    /\ cfg \in Config
    /\ row \in [Keys -> Values \cup {None}]
    /\ up \in BOOLEAN
    /\ lock \in Requests \cup {None}
    /\ tested \subseteq [StorageKeys -> Values]
    /\ acked \in [Keys -> Values \cup {None}]
    /\ seen \in [Requests -> [PolicyKeys -> SUBSET Values]]
    /\ StorageWasTested

IInv ==
    /\ Tables
    /\ req \in [Requests -> Request]
    /\ \A r \in Requests : Good(r)
    /\ AloneIsAlone
    /\ AckedStays

-----------------------------------------------------------------------------
(* Values and records *)

LEMMA KeysNested == PolicyKeys \subseteq ConfigKeys /\ StorageKeys \subseteq ConfigKeys /\ ConfigKeys \subseteq Keys
BY KeysAssumption DEF Keys

LEMMA IdleIsRequest ==
    /\ Idle \in Request
    /\ Idle.pc = "idle" /\ Idle.body = Unset /\ Idle.todo = {} /\ Idle.alone = {}
    /\ Idle.got = Unset /\ Idle.lost = {}
    /\ \A k \in Keys : Unset[k] = None
    /\ Sent(Unset) = {}
BY KeysAssumption, ValuesAssumption DEF Idle, Request, Unset, Config, Sent

LEMMA AppliedType ==
    ASSUME NEW c \in Config, NEW b \in [Keys -> Values \cup {None}]
    PROVE  /\ Applied(c, b) \in [ConfigKeys -> Values]
           /\ \A k \in ConfigKeys : Applied(c, b)[k] =
                 IF b[k] = None \/ (b[k] = Blank /\ k \in KeptKeys) THEN c[k] ELSE b[k]
BY KeysNested DEF Applied, Config

LEMMA NormalType ==
    ASSUME NEW c \in [ConfigKeys -> Values]
    PROVE  /\ Normal(c) \in Config
           /\ \A k \in ConfigKeys : Normal(c)[k] = IF c[k] = Blank THEN Default[k] ELSE c[k]
           /\ StorageOf(Normal(c)) \in [StorageKeys -> Values]
<1>1. Normal(c) \in Config
  BY ValuesAssumption DEF Normal, Config
<1> QED
  BY <1>1, KeysNested DEF Normal, Config, StorageOf

\* One request is replaced.
LEMMA Update ==
    ASSUME req \in [Requests -> Request], NEW r \in Requests, NEW q \in Request,
           req' = [req EXCEPT ![r] = q]
    PROVE  /\ req' \in [Requests -> Request]
           /\ req'[r] = q
           /\ \A p \in Requests \ {r} : req'[p] = req[p]
OBVIOUS

LEMMA Answered ==
    ASSUME req \in [Requests -> Request], NEW r \in Requests, Answer(r)
    PROVE  /\ req' \in [Requests -> Request]
           /\ req'[r] = Idle
           /\ \A p \in Requests \ {r} : req'[p] = req[p]
BY IdleIsRequest DEF Answer

LEMMA Moved ==
    ASSUME req \in [Requests -> Request], NEW r \in Requests,
           NEW pc \in {"idle", "lock", "test", "save", "write", "load", "auth", "rows",
                       "answer", "show", "policy"},
           NEW todo \in SUBSET Keys, Goto(r, pc, todo)
    PROVE  /\ req' \in [Requests -> Request]
           /\ req'[r].pc = pc /\ req'[r].todo = todo
           /\ req'[r].body = req[r].body /\ req'[r].alone = req[r].alone
           /\ req'[r].conf = req[r].conf /\ req'[r].got = req[r].got
           /\ req'[r].lost = req[r].lost
           /\ \A p \in Requests \ {r} : req'[p] = req[p]
<1> DEFINE q == [req[r] EXCEPT !.pc = pc, !.todo = todo]
<1>1. req[r] \in Request
  OBVIOUS
<1>2. q \in Request
  BY <1>1 DEF Request
<1>3. /\ q.pc = pc /\ q.todo = todo /\ q.body = req[r].body /\ q.alone = req[r].alone
      /\ q.conf = req[r].conf /\ q.got = req[r].got /\ q.lost = req[r].lost
  BY <1>1 DEF Request
<1>4. req' = [req EXCEPT ![r] = q]
  BY DEF Goto
<1> HIDE DEF q
<1> QED
  BY <1>2, <1>3, <1>4, Update

\* Fields of a request.
LEMMA Fields ==
    ASSUME NEW q \in Request
    PROVE  /\ q.body \in [Keys -> Values \cup {None}] /\ q.conf \in [ConfigKeys -> Values]
           /\ q.todo \subseteq Keys /\ q.alone \subseteq Keys
           /\ q.got \in [Keys -> Values \cup {None}] /\ q.lost \subseteq Keys
BY DEF Request

\* The SELECT of one setting.
LEMMA Read ==
    ASSUME req \in [Requests -> Request], NEW r \in Requests, NEW k \in Keys,
           NEW v \in Values \cup {None}, NEW failed \in SUBSET Keys, Got(r, k, v, failed)
    PROVE  /\ req' \in [Requests -> Request]
           /\ req'[r].pc = req[r].pc /\ req'[r].todo = req[r].todo \ {k}
           /\ req'[r].body = req[r].body /\ req'[r].alone = req[r].alone
           /\ req'[r].conf = req[r].conf /\ req'[r].lost = req[r].lost \cup failed
           /\ \A j \in Keys : req'[r].got[j] = IF j = k THEN v ELSE req[r].got[j]
           /\ \A p \in Requests \ {r} : req'[p] = req[p]
<1> DEFINE q == [req[r] EXCEPT !.todo = req[r].todo \ {k}, !.got[k] = v,
                               !.lost = req[r].lost \cup failed]
<1>1. req[r] \in Request
  OBVIOUS
<1>2. q \in Request
  BY <1>1 DEF Request
<1>3. /\ q.pc = req[r].pc /\ q.todo = req[r].todo \ {k} /\ q.body = req[r].body
      /\ q.alone = req[r].alone /\ q.conf = req[r].conf
      /\ q.lost = req[r].lost \cup failed
      /\ \A j \in Keys : q.got[j] = IF j = k THEN v ELSE req[r].got[j]
  BY <1>1 DEF Request
<1>4. req' = [req EXCEPT ![r] = q]
  BY DEF Got
<1> HIDE DEF q
<1> QED
  BY <1>2, <1>3, <1>4, Update

LEMMA SeenGrows ==
    ASSUME Tables, Tables', Observe, NEW r \in Requests, NEW p \in PolicyKeys,
           req'[r].pc = "policy"
    PROVE  seen[r][p] \subseteq seen'[r][p] /\ InForce(p)' \in seen'[r][p]
BY DEF Observe

LEMMA SeenType ==
    ASSUME Tables, Observe, cfg' \in Config, row' \in [Keys -> Values \cup {None}]
    PROVE  seen' \in [Requests -> [PolicyKeys -> SUBSET Values]]
<1>1. \A p \in PolicyKeys : InForce(p)' \in Values
  BY KeysNested DEF InForce, Policy, Config
<1> QED
  BY <1>1 DEF Observe, Tables

-----------------------------------------------------------------------------
(* Steps that leave the settings themselves alone *)

\* Whatever request r does: the others stay good while the settings stay, and
\* once a row is there.
LEMMA OtherStaysGood ==
    ASSUME IInv, Tables', Observe, NEW r \in Requests, NEW q \in Requests \ {r}, req'[q] = req[q],
           UNCHANGED <<file, cfg, row, up>>, tested \subseteq tested',
           lock' = q <=> lock = q,
           \A k \in Keys : acked[k] # None => acked'[k] = acked[k]
    PROVE  Good(q)'
<1>1. Good(q) /\ req[q].alone \subseteq Keys
  BY Fields DEF IInv
<1>2. TodoIsSent(q)' /\ CopyIsCurrent(q)' /\ TestedBeforeSave(q)'
  BY <1>1 DEF Good, TodoIsSent, CopyIsCurrent, TestedBeforeSave
<1>3. SavedStays(q)'
  BY <1>1 DEF Good, SavedStays, Configured
<1>4. SnapshotWasInForce(q)'
  BY <1>1, SeenGrows DEF Good, SnapshotWasInForce, IInv
<1>5. ReadsSaved(q)'
  BY <1>1 DEF Good, ReadsSaved
<1> QED
  BY <1>2, <1>3, <1>4, <1>5 DEF Good

\* What others send alone, and what counts as saved, when r sends no new keys.
LEMMA PairsStay ==
    ASSUME IInv, NEW r \in Requests, \A q \in Requests \ {r} : req'[q] = req[q],
           req'[r].alone \subseteq req[r].alone,
           \A k \in Keys : req'[r].body[k] \in {req[r].body[k], None}
    PROVE  /\ AloneIsAlone'
           /\ \A k \in Keys : acked[k] # None => \A q \in Requests : req'[q].body[k] = None
<1>1. \A q \in Requests : req[q].alone \subseteq Keys
  BY Fields DEF IInv
<1>2. \A q \in Requests : \A k \in Keys : req'[q].body[k] \in {req[q].body[k], None}
  OBVIOUS
<1>3. \A q \in Requests : req'[q].alone \subseteq req[q].alone
  OBVIOUS
<1>4. AloneIsAlone'
  BY <1>1, <1>2, <1>3 DEF AloneIsAlone, IInv
<1> QED
  BY <1>2, <1>4 DEF AckedStays, IInv

LEMMA QuietKeeps ==
    ASSUME IInv, Tables', Observe, NEW r \in Requests, req' \in [Requests -> Request],
           \A q \in Requests \ {r} : req'[q] = req[q] /\ (lock' = q <=> lock = q),
           UNCHANGED <<file, cfg, row, up, acked>>, tested \subseteq tested',
           req'[r].alone \subseteq req[r].alone,
           \A k \in Keys : req'[r].body[k] \in {req[r].body[k], None},
           Good(r)'
    PROVE  IInv'
<1>1. \A q \in Requests : Good(q)'
  BY OtherStaysGood
<1>2. AloneIsAlone' /\ AckedStays'
  BY PairsStay DEF IInv, AckedStays, Configured
<1> QED
  BY <1>1, <1>2 DEF IInv

LEMMA IdleIsGood ==
    ASSUME NEW r \in Requests, req'[r] = Idle, lock' # r
    PROVE  Good(r)'
BY IdleIsRequest
DEF Good, TodoIsSent, CopyIsCurrent, SavedStays, TestedBeforeSave, SnapshotWasInForce, ReadsSaved, Saved, Holding

\* A request ends, whether it has been served or not.
LEMMA AnswerKeeps ==
    ASSUME IInv, Observe, NEW r \in Requests, Answer(r),
           UNCHANGED <<file, cfg, row, up, acked, tested>>,
           lock' = IF lock = r THEN None ELSE lock
    PROVE  IInv'
<1>1. Tables'
  BY SeenType, ValuesAssumption DEF IInv, Tables, StorageWasTested
<1>2. Good(r)'
  BY Answered, IdleIsGood, ValuesAssumption DEF IInv
<1>3. /\ req'[r].alone \subseteq req[r].alone
      /\ \A k \in Keys : req'[r].body[k] \in {req[r].body[k], None}
  BY Answered, IdleIsRequest DEF IInv
<1> QED
  BY <1>1, <1>2, <1>3, Answered, QuietKeeps, ValuesAssumption DEF IInv

LEMMA FailuresKeep ==
    ASSUME IInv, Observe, NEW r \in Requests,
           TestFails(r) \/ RefuseSave(r) \/ WriteFails(r) \/ LoadFails(r) \/ DatabaseFails(r) \/ UsePolicy(r)
    PROVE  IInv'
<1>1. Good(r)
  BY DEF IInv
<1> QED
  BY <1>1, AnswerKeeps
  DEF TestFails, RefuseSave, WriteFails, LoadFails, DatabaseFails, UsePolicy, Unlock,
      Good, TodoIsSent, Holding

LEMMA LockKeeps ==
    ASSUME IInv, Observe, NEW r \in Requests, Lock(r)
    PROVE  IInv'
<1> DEFINE new == Applied(cfg, req[r].body)
           touched == Sent(req[r].body) \cap StorageKeys # {}
           pc == IF touched /\ StorageOf(new) \in R2 THEN "test" ELSE "save"
           q == [req[r] EXCEPT !.conf = new, !.pc = pc]
<1>0. Good(r) /\ req[r] \in Request /\ r # None /\ cfg \in Config
  BY ValuesAssumption DEF IInv, Tables
<1>1. /\ new \in [ConfigKeys -> Values]
      /\ \A k \in ConfigKeys : new[k] =
            IF req[r].body[k] = None \/ (req[r].body[k] = Blank /\ k \in KeptKeys)
            THEN cfg[k] ELSE req[r].body[k]
  BY <1>0, Fields, AppliedType
<1> HIDE DEF new
<1>2. q \in Request
  BY <1>0, <1>1 DEF Request
<1>3. /\ q.pc = pc /\ q.conf = new /\ q.todo = req[r].todo /\ q.body = req[r].body
      /\ q.alone = req[r].alone /\ q.got = req[r].got
  BY <1>0 DEF Request
<1>4. req' = [req EXCEPT ![r] = q]
  BY DEF Lock, Copy, new
<1> HIDE DEF q
<1>5. /\ req' \in [Requests -> Request] /\ req'[r] = q
      /\ \A p \in Requests \ {r} : req'[p] = req[p] /\ (lock' = p <=> lock = p)
  BY <1>2, <1>4, Update, ValuesAssumption DEF IInv, Lock
<1>6. Tables'
  BY SeenType DEF IInv, Tables, StorageWasTested, Lock
<1>7. TestedBeforeSave(r)'
  <2>1. SUFFICES ASSUME pc = "save", StorageOf(Normal(new)) \in R2
                 PROVE  StorageOf(Normal(new)) \in tested
    BY <1>3, <1>5 DEF TestedBeforeSave, Lock
  <2>2. ~touched
    BY <2>1, <1>1, R2Assumption
  <2>3. \A k \in StorageKeys : Normal(new)[k] = cfg[k]
    <3>1. \A k \in StorageKeys : req[r].body[k] = None
      BY <2>2, KeysNested DEF Sent
    <3> QED
      BY <3>1, <1>0, <1>1, NormalType, KeysNested DEF Config
  <2>4. StorageOf(Normal(new)) = StorageOf(cfg)
    BY <2>3 DEF StorageOf
  <2> QED
    BY <2>1, <2>4 DEF IInv, Tables, StorageWasTested
<1>8. CopyIsCurrent(r)'
  BY <1>1, <1>3, <1>5 DEF CopyIsCurrent, Lock
<1>9. TodoIsSent(r)' /\ SavedStays(r)' /\ SnapshotWasInForce(r)' /\ ReadsSaved(r)'
  BY <1>0, <1>3, <1>5 DEF Lock, Good, TodoIsSent, SavedStays, SnapshotWasInForce, ReadsSaved, Saved, Holding
<1> QED
  BY <1>3, <1>5, <1>6, <1>7, <1>8, <1>9, QuietKeeps DEF Good, Lock

LEMMA TestPassesKeeps ==
    ASSUME IInv, Observe, NEW r \in Requests, TestPasses(r)
    PROVE  IInv'
<1>0. Good(r) /\ req[r] \in Request
  BY DEF IInv
<1>1. /\ req' \in [Requests -> Request] /\ req'[r].pc = "save" /\ req'[r].todo = req[r].todo
      /\ req'[r].body = req[r].body /\ req'[r].alone = req[r].alone /\ req'[r].conf = req[r].conf
      /\ req'[r].got = req[r].got
      /\ \A p \in Requests \ {r} : req'[p] = req[p]
  BY <1>0, Fields, Moved DEF IInv, TestPasses
<1>2. Tables'
  BY <1>0, Fields, NormalType, SeenType DEF IInv, Tables, StorageWasTested, TestPasses
<1>3. Good(r)'
  BY <1>0, <1>1 DEF TestPasses, Good, TodoIsSent, CopyIsCurrent, SavedStays, TestedBeforeSave,
     SnapshotWasInForce, ReadsSaved, Saved, Holding
<1> QED
  BY <1>1, <1>2, <1>3, QuietKeeps DEF TestPasses

LEMMA MovesKeep ==
    ASSUME IInv, Observe, NEW r \in Requests, AuthStored(r) \/ RowsStored(r)
    PROVE  IInv'
<1>0. Good(r) /\ req[r] \in Request
  BY DEF IInv
<1>1. Tables'
  BY SeenType DEF IInv, Tables, StorageWasTested, AuthStored, RowsStored
<1>2. PICK pc \in {"rows", "answer"}, todo \in SUBSET Keys :
        /\ Goto(r, pc, todo)
        /\ pc = "rows" => req[r].pc = "auth" /\ req[r].todo = {} /\ todo = Stored(req[r].body)
        /\ pc = "answer" => req[r].pc = "rows" /\ req[r].todo = {} /\ todo = {}
  BY DEF AuthStored, RowsStored, Stored, Sent
<1>3. /\ req' \in [Requests -> Request] /\ req'[r].pc = pc /\ req'[r].todo = todo
      /\ req'[r].body = req[r].body /\ req'[r].alone = req[r].alone
      /\ req'[r].got = req[r].got
      /\ \A p \in Requests \ {r} : req'[p] = req[p]
  BY <1>2, Moved DEF IInv
<1>4. UNCHANGED <<file, cfg, row, lock, up, tested, acked>>
  BY DEF AuthStored, RowsStored
<1>5. SavedStays(r)'
  BY <1>0, <1>2, <1>3, <1>4 DEF Good, SavedStays, Saved, Configured
<1>6. Good(r)'
  BY <1>0, <1>2, <1>3, <1>4, <1>5
  DEF Good, TodoIsSent, CopyIsCurrent, TestedBeforeSave, SnapshotWasInForce, ReadsSaved, Holding, Stored
<1> QED
  BY <1>1, <1>3, <1>4, <1>6, QuietKeeps

LEMMA SnapshotKeeps ==
    ASSUME IInv, Observe, NEW r \in Requests, Snapshot(r)
    PROVE  IInv'
<1> DEFINE q == [req[r] EXCEPT !.pc = "show", !.todo = Stored(req[r].body), !.conf = cfg]
<1>0. Good(r) /\ req[r] \in Request /\ Stored(req[r].body) \subseteq Sent(req[r].body)
      /\ Sent(req[r].body) \subseteq Keys /\ cfg \in [ConfigKeys -> Values]
  BY DEF IInv, Tables, Config, Stored, Sent
<1>1. q \in Request
  BY <1>0 DEF Request
<1>2. /\ q.pc = "show" /\ q.todo = Stored(req[r].body) /\ q.body = req[r].body
      /\ q.alone = req[r].alone /\ q.got = req[r].got /\ q.conf = cfg
  BY <1>0 DEF Request
<1>3. req' = [req EXCEPT ![r] = q]
  BY DEF Snapshot
<1> HIDE DEF q
<1>4. /\ req' \in [Requests -> Request] /\ req'[r] = q
      /\ \A p \in Requests \ {r} : req'[p] = req[p]
  BY <1>1, <1>3, Update DEF IInv
<1>5. Tables'
  BY SeenType DEF IInv, Tables, StorageWasTested, Snapshot
<1>6. /\ \A k \in req[r].alone : req[r].got[k] = None
      /\ up /\ lock # r
  BY <1>0, IdleIsRequest, Fields DEF Good, TodoIsSent, Snapshot, Holding
<1>7. SavedStays(r)'
  BY <1>0, <1>2, <1>4, <1>6 DEF Snapshot, Good, SavedStays, Saved, Configured
<1>8. Good(r)'
  BY <1>0, <1>2, <1>4, <1>6, <1>7
  DEF Snapshot, Good, TodoIsSent, CopyIsCurrent, TestedBeforeSave, SnapshotWasInForce, ReadsSaved, Holding
<1> QED
  BY <1>2, <1>4, <1>5, <1>8, QuietKeeps DEF Snapshot

LEMMA ShowKeeps ==
    ASSUME IInv, Observe, NEW r \in Requests, NEW k \in Keys, Show(r, k)
    PROVE  IInv'
<1> DEFINE shown == WithoutRow(k, req[r].conf)
<1>0. Good(r) /\ req[r] \in Request /\ row[k] \in Values \cup {None} /\ req[r].pc = "show"
      /\ k \in Sent(req[r].body) \ BadKeys /\ req[r].body[k] # None
  BY DEF IInv, Tables, Show, Good, TodoIsSent, Sent, Holding
<1>1. shown \in Values
  BY <1>0, Fields, ValuesAssumption DEF WithoutRow, Keys
<1>2. k \in req[r].alone => row[k] = req[r].body[k]
  BY <1>0 DEF Show, Good, TodoIsSent, SavedStays
<1>3. k \in req[r].alone /\ k \in ConfigKeys \ SkippedKeys /\ req[r].body[k] # Blank
        => shown = req[r].body[k]
  BY <1>0, KeysAssumption DEF Good, SavedStays, WithoutRow
<1> HIDE DEF shown
<1>4. PICK v \in Values \cup {None}, failed \in SUBSET {k} :
        /\ Got(r, k, v, failed)
        /\ v = IF failed = {} THEN row[k] ELSE shown
  BY <1>0, <1>1 DEF Show, shown
<1>5. /\ req' \in [Requests -> Request]
      /\ req'[r].pc = "show" /\ req'[r].todo = req[r].todo \ {k}
      /\ req'[r].body = req[r].body /\ req'[r].alone = req[r].alone
      /\ req'[r].conf = req[r].conf /\ req'[r].lost = req[r].lost \cup failed
      /\ \A j \in Keys : req'[r].got[j] = IF j = k THEN v ELSE req[r].got[j]
      /\ \A p \in Requests \ {r} : req'[p] = req[p]
  BY <1>0, <1>4, Read DEF IInv
<1>6. Tables'
  BY SeenType DEF IInv, Tables, StorageWasTested, Show
<1>7. \A j \in req[r].alone : j \in Keys
  BY <1>0, Fields
<1>8. SavedStays(r)'
  BY <1>0, <1>2, <1>3, <1>4, <1>5, <1>7 DEF Show, Good, SavedStays, Configured, Saved
<1>9. Good(r)'
  BY <1>0, <1>5, <1>8
  DEF Show, Good, TodoIsSent, CopyIsCurrent, TestedBeforeSave, SnapshotWasInForce, ReadsSaved, Holding
<1> QED
  BY <1>5, <1>6, <1>9, QuietKeeps DEF Show

LEMMA ReadRowKeeps ==
    ASSUME IInv, Observe, NEW r \in Requests, NEW k \in Keys, ReadRow(r, k)
    PROVE  IInv'
<1> DEFINE stored == Policy(k, req[r].conf[k], row[k])
<1>0. Good(r) /\ req[r] \in Request /\ k \in PolicyKeys /\ row[k] \in Values \cup {None}
      /\ req[r].pc = "policy" /\ req[r].conf[k] \in Values
  BY KeysNested, Fields DEF IInv, Tables, ReadRow, Good, TodoIsSent
<1>1. stored \in Values
  BY <1>0 DEF Policy
<1>2. k \in req[r].alone => req[r].conf[k] = acked[k] /\ stored = acked[k]
  BY <1>0 DEF IInv, AckedStays, Good, ReadsSaved, Policy
<1> HIDE DEF stored
<1>3. PICK v \in Values, failed \in SUBSET {k} :
        /\ Got(r, k, v, failed)
        /\ v = IF failed = {} THEN stored ELSE req[r].conf[k]
  BY <1>0, <1>1 DEF ReadRow, stored
<1>4. /\ req' \in [Requests -> Request]
      /\ req'[r].pc = "policy" /\ req'[r].todo = req[r].todo \ {k}
      /\ req'[r].body = req[r].body /\ req'[r].alone = req[r].alone
      /\ req'[r].conf = req[r].conf /\ req'[r].lost = req[r].lost \cup failed
      /\ \A j \in Keys : req'[r].got[j] = IF j = k THEN v ELSE req[r].got[j]
      /\ \A p \in Requests \ {r} : req'[p] = req[p]
  BY <1>0, <1>3, Read DEF IInv
<1>5. Tables'
  BY SeenType DEF IInv, Tables, StorageWasTested, ReadRow
<1>6. SnapshotWasInForce(r)'
  <2>1. SUFFICES ASSUME NEW p \in PolicyKeys \ KeptKeys
                 PROVE  /\ row[p] = None => req[r].conf[p] \in seen'[r][p]
                        /\ p \notin req'[r].lost => req'[r].got[p] \in seen'[r][p] \cup {None}
    BY <1>4 DEF SnapshotWasInForce, ReadRow
  <2>2. seen[r][p] \subseteq seen'[r][p] /\ InForce(p)' \in seen'[r][p]
    BY <1>4, <1>5, SeenGrows DEF IInv
  <2>3. /\ row[p] = None => req[r].conf[p] \in seen[r][p]
        /\ p \notin req[r].lost => req[r].got[p] \in seen[r][p] \cup {None}
    BY <1>0 DEF Good, SnapshotWasInForce
  <2>4. p = k => stored \in seen'[r][p]
    BY <2>2, <2>3 DEF InForce, Policy, ReadRow, stored
  <2> QED
    BY <1>3, <1>4, <2>2, <2>3, <2>4, KeysNested
<1>7. ReadsSaved(r)'
  <2>1. \A p \in req[r].alone : p \in Keys
    BY <1>0, Fields
  <2> QED
    BY <1>0, <1>2, <1>3, <1>4, <2>1 DEF Good, ReadsSaved, ReadRow
<1>8. Good(r)'
  BY <1>0, <1>4, <1>6, <1>7, IdleIsRequest
  DEF ReadRow, Good, TodoIsSent, CopyIsCurrent, TestedBeforeSave, SavedStays, Saved, Holding, Sent
<1> QED
  BY <1>4, <1>5, <1>8, QuietKeeps DEF ReadRow

LEMMA BeginReadKeeps ==
    ASSUME IInv, Observe, NEW r \in Requests, BeginRead(r)
    PROVE  IInv'
<1> DEFINE before == {p \in PolicyKeys : acked[p] # None}
           q == [Idle EXCEPT !.pc = "policy", !.todo = PolicyKeys, !.conf = cfg, !.alone = before]
<1>0. Good(r) /\ cfg \in [ConfigKeys -> Values] /\ PolicyKeys \subseteq Keys /\ r # None
      /\ before \subseteq Keys /\ lock # r /\ up
      /\ \A p \in before : p \in PolicyKeys /\ acked[p] # None
  BY KeysNested, ValuesAssumption DEF IInv, Tables, Config, BeginRead
<1>1. q \in Request
  BY <1>0, IdleIsRequest DEF Request
<1>2. /\ q.pc = "policy" /\ q.todo = PolicyKeys /\ q.body = Unset /\ q.alone = before
      /\ q.conf = cfg /\ q.got = Unset
  BY DEF Idle
<1>3. req' = [req EXCEPT ![r] = q]
  BY DEF BeginRead
<1> HIDE DEF q, before
<1>4. /\ req' \in [Requests -> Request] /\ req'[r] = q
      /\ \A p \in Requests \ {r} : req'[p] = req[p]
  BY <1>1, <1>3, Update DEF IInv
<1>5. Tables'
  BY SeenType DEF IInv, Tables, StorageWasTested, BeginRead
<1>6. SnapshotWasInForce(r)'
  <2>1. SUFFICES ASSUME NEW p \in PolicyKeys \ KeptKeys
                 PROVE  row[p] = None => cfg[p] \in seen'[r][p]
    BY <1>2, <1>4, IdleIsRequest, KeysNested DEF SnapshotWasInForce, BeginRead
  <2>2. InForce(p)' \in seen'[r][p]
    BY <1>2, <1>4, <1>5, SeenGrows DEF IInv
  <2> QED
    BY <2>2 DEF InForce, Policy, BeginRead
<1>7. ReadsSaved(r)'
  <2>1. \A p \in before : p \in ConfigKeys /\ p \in Keys /\ cfg[p] = acked[p] /\ Unset[p] = None
    BY <1>0, KeysNested, IdleIsRequest DEF IInv, AckedStays, Configured
  <2>2. acked' = acked
    BY DEF BeginRead
  <2> QED
    BY <1>0, <1>2, <1>4, <2>1, <2>2 DEF ReadsSaved
<1>8. Good(r)'
  BY <1>0, <1>2, <1>4, <1>6, <1>7, IdleIsRequest
  DEF BeginRead, Good, TodoIsSent, CopyIsCurrent, TestedBeforeSave, SavedStays, Saved, Holding, Sent
<1>9. \A p \in Requests \ {r} : Good(p)'
  BY <1>4, <1>5, OtherStaysGood DEF BeginRead
<1>10. AloneIsAlone'
  <2>1. SUFFICES ASSUME NEW p \in Requests, NEW o \in Requests \ {p}, NEW k \in req'[p].alone
                 PROVE  req'[o].body[k] = None
    BY DEF AloneIsAlone
  <2>2. CASE p = r
    BY <1>0, <1>2, <1>4, <2>1, <2>2 DEF IInv, AckedStays
  <2>3. CASE p # r /\ o = r
    <3>1. k \in Keys
      BY <1>4, <2>1, <2>3, Fields DEF IInv
    <3> QED
      BY <1>2, <1>4, <2>3, <3>1, IdleIsRequest
  <2>4. CASE p # r /\ o # r
    BY <1>4, <2>1, <2>4 DEF IInv, AloneIsAlone
  <2> QED
    BY <2>2, <2>3, <2>4
<1>11. AckedStays'
  BY <1>2, <1>4, IdleIsRequest DEF IInv, AckedStays, Configured, BeginRead
<1> QED
  BY <1>4, <1>5, <1>8, <1>9, <1>10, <1>11 DEF IInv, BeginRead
-----------------------------------------------------------------------------
(* Steps that change the config, under a.mu *)

\* What r does not send stays configured, and nobody else holds the lock.
LEMMA ConfigChangeKeeps ==
    ASSUME IInv, Tables', Observe, NEW r \in Requests, lock = r, lock' \in {r, None}, up,
           req' \in [Requests -> Request], \A q \in Requests \ {r} : req'[q] = req[q],
           req'[r].body = req[r].body, req'[r].alone = req[r].alone,
           UNCHANGED <<row, up, acked, tested>>, Good(r)',
           \A k \in ConfigKeys : req[r].body[k] = None =>
               \A v \in Values \ {Blank} : Configured(k, v) => Configured(k, v)'
    PROVE  IInv'
<1>0. r # None /\ \A q \in Requests : q # None /\ req[q] \in Request
  BY ValuesAssumption DEF IInv
<1>1. ASSUME NEW q \in Requests \ {r} PROVE Good(q)'
  <2>1. Good(q) /\ req'[q] = req[q] /\ req[q].pc \notin Holding
    BY DEF IInv, Good, TodoIsSent
  <2>2. TodoIsSent(q)'
    BY <1>0, <2>1 DEF Good, TodoIsSent
  <2>3. CopyIsCurrent(q)' /\ TestedBeforeSave(q)'
    BY <2>1 DEF CopyIsCurrent, TestedBeforeSave, Holding
  <2>4. SnapshotWasInForce(q)' /\ ReadsSaved(q)'
    BY <2>1, SeenGrows DEF Good, SnapshotWasInForce, ReadsSaved, IInv
  <2>5. ASSUME NEW k \in req[q].alone, req[q].body[k] # Blank, Configured(k, req[q].body[k]),
               req[q].pc # "policy"
        PROVE  Configured(k, req[q].body[k])'
    <3>2. req[q].body[k] \in Values \ {Blank}
      BY <1>0, <2>1, <2>5, Fields DEF Sent, Good, TodoIsSent
    <3>3. req[r].body[k] = None
      BY DEF IInv, AloneIsAlone
    <3> QED
      BY <2>1, <2>5, <3>2, <3>3 DEF Configured
  <2>6. SavedStays(q)'
    BY <2>1, <2>5 DEF Good, SavedStays, Saved
  <2> QED
    BY <2>2, <2>3, <2>4, <2>6 DEF Good
<1>2. AloneIsAlone' /\ \A k \in Keys : acked[k] # None => \A q \in Requests : req'[q].body[k] = None
  BY PairsStay
<1>3. ASSUME NEW k \in Keys, acked[k] # None PROVE Configured(k, acked[k])'
  <2>1. acked[k] \in Values \ {Blank} /\ Configured(k, acked[k]) /\ req[r].body[k] = None
    BY <1>3 DEF IInv, Tables, AckedStays
  <2> QED
    BY <2>1 DEF Configured
<1>4. AckedStays'
  BY <1>2, <1>3 DEF AckedStays, IInv
<1> QED
  BY <1>1, <1>2, <1>4 DEF IInv

LEMMA TruncateKeeps ==
    ASSUME IInv, Observe, NEW r \in Requests, Truncate(r)
    PROVE  IInv'
<1>0. Good(r) /\ req[r] \in Request /\ lock = r /\ up
  BY DEF IInv, Good, TodoIsSent, Holding, Truncate
<1>1. /\ req' \in [Requests -> Request] /\ req'[r].pc = "write" /\ req'[r].todo = req[r].todo
      /\ req'[r].body = req[r].body /\ req'[r].alone = req[r].alone /\ req'[r].conf = req[r].conf
      /\ req'[r].got = req[r].got
      /\ \A p \in Requests \ {r} : req'[p] = req[p]
  BY <1>0, Fields, Moved DEF IInv, Truncate
<1>2. Tables'
  BY SeenType DEF IInv, Tables, StorageWasTested, Truncate
<1>3. Good(r)'
  BY <1>0, <1>1 DEF Truncate, Good, TodoIsSent, CopyIsCurrent, SavedStays, TestedBeforeSave,
     SnapshotWasInForce, ReadsSaved, Saved, Holding
<1>4. \A k \in ConfigKeys : \A v : Configured(k, v) => Configured(k, v)'
  BY DEF Truncate, Configured
<1> QED
  BY <1>0, <1>1, <1>2, <1>3, <1>4, ConfigChangeKeeps DEF Truncate

LEMMA WriteKeeps ==
    ASSUME IInv, Observe, NEW r \in Requests, Write(r)
    PROVE  IInv'
<1> DEFINE new == Normal(req[r].conf)
<1>0. Good(r) /\ req[r] \in Request /\ lock = r /\ up /\ cfg \in Config
  BY DEF IInv, Tables, Good, TodoIsSent, Holding, Write
<1>1. /\ req' \in [Requests -> Request] /\ req'[r].pc = "load" /\ req'[r].todo = req[r].todo
      /\ req'[r].body = req[r].body /\ req'[r].alone = req[r].alone
      /\ req'[r].got = req[r].got
      /\ \A p \in Requests \ {r} : req'[p] = req[p]
  BY <1>0, Fields, Moved DEF IInv, Write
<1>2. /\ new \in Config
      /\ \A k \in ConfigKeys : new[k] = IF req[r].conf[k] = Blank THEN Default[k] ELSE req[r].conf[k]
      /\ StorageOf(new) \in R2 => StorageOf(new) \in tested
  BY <1>0, Fields, NormalType DEF Good, TestedBeforeSave, Write
<1>3. file' = new /\ new # Torn
  BY <1>2, ValuesAssumption DEF Write
<1> HIDE DEF new
<1>4. Tables'
  BY <1>2, <1>3, SeenType DEF IInv, Tables, StorageWasTested, Write
<1>5. \A k \in ConfigKeys :
        /\ req[r].body[k] = None => new[k] = cfg[k]
        /\ req[r].body[k] \notin {None, Blank} => new[k] = req[r].body[k]
  <2>1. \A k \in ConfigKeys : cfg[k] # Blank
    BY <1>0 DEF Config
  <2> QED
    BY <1>0, <1>2, <2>1 DEF Good, CopyIsCurrent, Write
<1>6. CopyIsCurrent(r)'
  BY <1>1, <1>3, <1>5 DEF CopyIsCurrent, Write
<1>7. Good(r)'
  BY <1>0, <1>1, <1>6 DEF Write, Good, TodoIsSent, SavedStays, TestedBeforeSave,
     SnapshotWasInForce, ReadsSaved, Saved, Holding
<1>8. \A k \in ConfigKeys : req[r].body[k] = None => \A v : Configured(k, v) => Configured(k, v)'
  BY <1>0, <1>3, <1>5 DEF Write, Configured
<1> QED
  BY <1>0, <1>1, <1>4, <1>7, <1>8, ConfigChangeKeeps DEF Write

LEMMA LoadKeeps ==
    ASSUME IInv, Observe, NEW r \in Requests, Load(r)
    PROVE  IInv'
<1> DEFINE q == [req[r] EXCEPT !.pc = "auth", !.conf = Default]
<1>0. Good(r) /\ req[r] \in Request /\ lock = r /\ up /\ file \in Config /\ r # None
  BY ValuesAssumption DEF IInv, Tables, Good, TodoIsSent, Holding, Load
<1>1. q \in Request
  BY <1>0, ValuesAssumption DEF Request, Config
<1>2. /\ q.pc = "auth" /\ q.todo = req[r].todo /\ q.body = req[r].body
      /\ q.alone = req[r].alone /\ q.got = req[r].got
  BY <1>0 DEF Request
<1>3. req' = [req EXCEPT ![r] = q]
  BY DEF Load
<1> HIDE DEF q
<1>4. /\ req' \in [Requests -> Request] /\ req'[r] = q
      /\ \A p \in Requests \ {r} : req'[p] = req[p]
  BY <1>1, <1>3, Update DEF IInv
<1>5. Tables'
  BY <1>0, SeenType DEF IInv, Tables, StorageWasTested, Load, Unlock
<1>6. SavedStays(r)'
  <2>1. \A k \in req[r].alone : req[r].body[k] # None
    BY <1>0 DEF Good, TodoIsSent, Sent, Load
  <2> QED
    BY <1>0, <1>2, <1>4, <2>1 DEF Load, Good, CopyIsCurrent, SavedStays, Configured
<1>7. Good(r)'
  BY <1>0, <1>2, <1>4, <1>6 DEF Load, Unlock, Good, TodoIsSent, CopyIsCurrent, TestedBeforeSave,
     SnapshotWasInForce, ReadsSaved, Saved, Holding
<1>8. \A k \in ConfigKeys : req[r].body[k] = None => \A v : Configured(k, v) => Configured(k, v)'
  BY <1>0 DEF Load, Configured
<1> QED
  BY <1>0, <1>2, <1>4, <1>5, <1>7, <1>8, ConfigChangeKeeps DEF Load, Unlock

-----------------------------------------------------------------------------
(* Steps that write a row *)

\* A row that r sends is written; nobody who sends it alone is another.
LEMMA RowChangeKeeps ==
    ASSUME IInv, Observe, NEW r \in Requests, NEW k \in Keys, req[r].body[k] # None,
           row' = [row EXCEPT ![k] = req[r].body[k]],
           req' \in [Requests -> Request], \A q \in Requests \ {r} : req'[q] = req[q],
           req'[r].body = req[r].body, req'[r].alone = req[r].alone,
           UNCHANGED <<file, cfg, lock, up, tested, acked>>, Good(r)'
    PROVE  IInv'
<1>0. req[r].body[k] \in Values /\ \A j \in Keys \ {k} : row'[j] = row[j]
  <2>1. req[r] \in Request
    BY DEF IInv
  <2> QED
    BY <2>1, Fields DEF IInv, Tables
<1>1. row' \in [Keys -> Values \cup {None}] /\ row'[k] = req[r].body[k]
  BY <1>0 DEF IInv, Tables
<1>2. Tables'
  BY <1>1, SeenType DEF IInv, Tables, StorageWasTested
<1>3. ASSUME NEW q \in Requests \ {r} PROVE Good(q)'
  <2>1. Good(q) /\ req'[q] = req[q] /\ req[q] \in Request
    BY DEF IInv
  <2>2. TodoIsSent(q)' /\ CopyIsCurrent(q)' /\ TestedBeforeSave(q)'
    BY <2>1 DEF Good, TodoIsSent, CopyIsCurrent, TestedBeforeSave
  <2>3. k \notin req[q].alone /\ req[q].alone \subseteq Keys
    BY <2>1, Fields DEF IInv, AloneIsAlone
  <2>4. SavedStays(q)'
    BY <1>0, <2>1, <2>3 DEF Good, SavedStays, Configured
  <2>5. \A p \in PolicyKeys : row'[p] = None => row[p] = None
    BY <1>0, <1>1, KeysNested, ValuesAssumption
  <2>6. SnapshotWasInForce(q)' /\ ReadsSaved(q)'
    BY <1>2, <2>1, <2>5, SeenGrows DEF Good, SnapshotWasInForce, ReadsSaved, IInv
  <2> QED
    BY <2>2, <2>4, <2>6 DEF Good
<1>4. AloneIsAlone' /\ \A j \in Keys : acked[j] # None => \A q \in Requests : req'[q].body[j] = None
  BY PairsStay
<1>5. acked[k] = None
  BY DEF IInv, AckedStays
<1>6. AckedStays'
  BY <1>0, <1>4, <1>5 DEF IInv, AckedStays, Configured
<1> QED
  BY <1>2, <1>3, <1>4, <1>6 DEF IInv

LEMMA StoreAuthKeeps ==
    ASSUME IInv, Observe, NEW r \in Requests, NEW k \in Keys, StoreAuth(r, k)
    PROVE  IInv'
<1>0. Good(r) /\ req[r] \in Request /\ req[r].body[k] # None /\ lock # r
  BY DEF IInv, Good, TodoIsSent, Holding, Sent, StoreAuth
<1>1. CASE k \in BadKeys
  BY <1>0, <1>1, AnswerKeeps DEF StoreAuth
<1>2. CASE k \notin BadKeys
  <2>1. /\ req' \in [Requests -> Request] /\ req'[r].pc = "auth"
        /\ req'[r].todo = req[r].todo \ {k}
        /\ req'[r].body = req[r].body /\ req'[r].alone = req[r].alone
        /\ req'[r].got = req[r].got
        /\ \A p \in Requests \ {r} : req'[p] = req[p]
    BY <1>0, <1>2, Fields, Moved DEF IInv, StoreAuth
  <2>2. Good(r)'
    BY <1>0, <1>2, <2>1 DEF StoreAuth, Good, TodoIsSent, CopyIsCurrent, SavedStays, TestedBeforeSave,
       SnapshotWasInForce, ReadsSaved, Saved, Holding, Configured
  <2> QED
    BY <1>0, <1>2, <2>1, <2>2, RowChangeKeeps DEF StoreAuth
<1> QED
  BY <1>1, <1>2

LEMMA StoreRowKeeps ==
    ASSUME IInv, Observe, NEW r \in Requests, NEW k \in Keys, StoreRow(r, k)
    PROVE  IInv'
<1>0. Good(r) /\ req[r] \in Request /\ req[r].body[k] # None
  BY DEF IInv, Good, TodoIsSent, Sent, StoreRow
<1>1. /\ req' \in [Requests -> Request] /\ req'[r].pc = "rows"
      /\ req'[r].todo = req[r].todo \ {k}
      /\ req'[r].body = req[r].body /\ req'[r].alone = req[r].alone
      /\ req'[r].got = req[r].got
      /\ \A p \in Requests \ {r} : req'[p] = req[p]
  BY <1>0, Fields, Moved DEF IInv, StoreRow
<1>2. row'[k] = req[r].body[k] /\ \A j \in Keys \ {k} : row'[j] = row[j]
  BY DEF StoreRow, IInv, Tables
<1>3. SavedStays(r)'
  BY <1>0, <1>1, <1>2, Fields DEF StoreRow, Good, SavedStays, Saved, Configured, Stored, Sent
<1>4. Good(r)'
  BY <1>0, <1>1, <1>3 DEF StoreRow, Good, TodoIsSent, CopyIsCurrent, TestedBeforeSave,
     SnapshotWasInForce, ReadsSaved, Holding
<1> QED
  BY <1>0, <1>1, <1>4, RowChangeKeeps DEF StoreRow

-----------------------------------------------------------------------------
(* Steps that begin and end a patch, and the process *)

LEMMA FinishKeeps ==
    ASSUME IInv, Observe, NEW r \in Requests, Finish(r)
    PROVE  IInv'
<1>0. Good(r) /\ req[r] \in Request /\ lock # r
  BY DEF IInv, Good, TodoIsSent, Holding, Finish
<1>1. /\ req' \in [Requests -> Request] /\ req'[r] = Idle
      /\ \A q \in Requests \ {r} : req'[q] = req[q]
  BY Answered DEF IInv, Finish
<1>2. /\ req'[r].alone \subseteq req[r].alone
      /\ \A k \in Keys : req'[r].body[k] \in {req[r].body[k], None}
      /\ req[r].alone \subseteq Keys
      /\ \A k \in Keys : req[r].body[k] \in Values \cup {None}
  BY <1>0, <1>1, IdleIsRequest, Fields
<1>3. acked' \in [Keys -> Values \cup {None}]
  BY <1>2 DEF Finish, IInv, Tables
<1>4. Tables'
  BY <1>3, SeenType DEF IInv, Tables, StorageWasTested, Finish
<1>5. \A q \in Requests : Good(q)'
  <2>1. Good(r)'
    BY <1>0, <1>1, IdleIsGood DEF Finish
  <2>2. \A k \in Keys : acked[k] # None => acked'[k] = acked[k]
    <3>1. \A k \in req[r].alone : req[r].body[k] # None
      BY <1>0 DEF Good, TodoIsSent, Sent, Finish
    <3> QED
      BY <3>1 DEF Finish, IInv, AckedStays
  <2>3. \A q \in Requests \ {r} : Good(q)'
    BY <1>1, <1>4, <2>2, OtherStaysGood DEF Finish
  <2> QED
    BY <2>1, <2>3
<1>6. AloneIsAlone' /\ \A k \in Keys : acked[k] # None => \A q \in Requests : req'[q].body[k] = None
  BY <1>1, <1>2, PairsStay
<1>7. AckedStays'
  <2>1. SUFFICES ASSUME NEW k \in Keys, acked'[k] # None
                 PROVE  /\ acked'[k] # Blank /\ row[k] = acked'[k] /\ Configured(k, acked'[k])
                        /\ \A q \in Requests : req'[q].body[k] = None
    BY DEF AckedStays, Configured, Finish
  <2>2. CASE k \in req[r].alone /\ req[r].body[k] # Blank
    <3>1. acked'[k] = req[r].body[k]
      BY <2>2 DEF Finish
    <3>2. k \in Stored(req[r].body)
      BY <1>0, <2>2 DEF Good, TodoIsSent, Stored, Finish
    <3>3. row[k] = req[r].body[k] /\ Configured(k, req[r].body[k])
      BY <1>0, <2>2, <3>2 DEF Good, SavedStays, Saved, Finish
    <3>4. \A q \in Requests : req'[q].body[k] = None
      BY <1>1, <2>2, IdleIsRequest DEF IInv, AloneIsAlone
    <3> QED
      BY <2>2, <3>1, <3>3, <3>4
  <2>3. CASE ~(k \in req[r].alone /\ req[r].body[k] # Blank)
    <3>1. acked'[k] = acked[k]
      BY <2>3 DEF Finish
    <3> QED
      BY <1>6, <2>1, <3>1 DEF IInv, AckedStays
  <2> QED
    BY <2>2, <2>3
<1> QED
  BY <1>1, <1>4, <1>5, <1>6, <1>7 DEF IInv

LEMMA BeginPatchKeeps ==
    ASSUME IInv, Observe, NEW r \in Requests, NEW body \in Patches, BeginPatch(r, body)
    PROVE  IInv'
<1> DEFINE others == UNION {Sent(req[q].body) : q \in Requests \ {r}}
           pc == IF Sent(body) \cap ConfigKeys # {} THEN "lock" ELSE "auth"
           new == [Idle EXCEPT !.pc = pc, !.body = body, !.todo = Auth(body),
                               !.alone = Sent(body) \ others]
           old(q) == [req[q] EXCEPT !.alone = req[q].alone \ Sent(body)]
<1>0. /\ \A q \in Requests : Good(q) /\ req[q] \in Request
      /\ body \in [Keys -> Values \cup {None}]
      /\ Sent(body) \subseteq Keys /\ Auth(body) \subseteq Sent(body)
      /\ r # None /\ lock # r
  BY ValuesAssumption DEF IInv, Sent, Auth, BeginPatch, Good, TodoIsSent, Holding
<1>1. /\ new \in Request
      /\ new.pc = pc /\ new.body = body /\ new.todo = Auth(body)
      /\ new.alone = Sent(body) \ others /\ new.got = Unset
  <2>1. new \in Request
    BY <1>0, IdleIsRequest DEF Request
  <2>2. /\ new.pc = pc /\ new.body = body /\ new.todo = Auth(body)
        /\ new.alone = Sent(body) \ others /\ new.got = Unset
    BY DEF Idle
  <2> QED
    BY <2>1, <2>2
<1>2. ASSUME NEW q \in Requests
      PROVE  /\ old(q) \in Request
             /\ old(q).pc = req[q].pc /\ old(q).body = req[q].body /\ old(q).conf = req[q].conf
             /\ old(q).todo = req[q].todo /\ old(q).got = req[q].got
             /\ old(q).lost = req[q].lost
             /\ old(q).alone = req[q].alone \ Sent(body)
  BY <1>0 DEF Request
<1>3. req' = [q \in Requests |-> IF q = r THEN new ELSE old(q)]
  BY DEF BeginPatch
<1> HIDE DEF new, old
<1>4. /\ req' \in [Requests -> Request] /\ req'[r] = new
      /\ \A q \in Requests \ {r} : req'[q] = old(q)
  BY <1>1, <1>2, <1>3
<1>5. UNCHANGED <<file, cfg, row, lock, up, tested>> /\ up
  BY DEF BeginPatch
<1>6. /\ acked' \in [Keys -> Values \cup {None}]
      /\ \A k \in Keys : acked'[k] = IF k \in Sent(body) THEN None ELSE acked[k]
  BY DEF BeginPatch, IInv, Tables
<1>7. Tables'
  BY <1>6, <1>5, SeenType DEF IInv, Tables, StorageWasTested
<1>8. Good(r)'
  <2>1. /\ \A k \in Sent(body) : pc = "auth" => k \notin ConfigKeys
        /\ Sent(body) \cap BadKeys \subseteq Auth(body)
    BY DEF Auth
  <2> QED
    BY <1>0, <1>1, <1>4, <1>5, <2>1 DEF Good, TodoIsSent, CopyIsCurrent, SavedStays, TestedBeforeSave,
     SnapshotWasInForce, ReadsSaved, Saved, Holding, Configured
<1>9. ASSUME NEW q \in Requests \ {r} PROVE Good(q)'
  <2>1. /\ Good(q) /\ req'[q].pc = req[q].pc /\ req'[q].body = req[q].body
        /\ req'[q].conf = req[q].conf /\ req'[q].todo = req[q].todo /\ req'[q].got = req[q].got
        /\ req'[q].lost = req[q].lost
        /\ req'[q].alone \subseteq req[q].alone
    BY <1>0, <1>2, <1>4
  <2>2. TodoIsSent(q)' /\ CopyIsCurrent(q)' /\ TestedBeforeSave(q)'
    BY <1>5, <2>1 DEF Good, TodoIsSent, CopyIsCurrent, TestedBeforeSave
  <2>3. SavedStays(q)'
    BY <1>5, <2>1 DEF Good, SavedStays, Configured
  <2>4. SnapshotWasInForce(q)'
    BY <1>7, <1>5, <2>1, SeenGrows DEF Good, SnapshotWasInForce, IInv
  <2>5. ReadsSaved(q)'
    BY <1>0, <1>2, <1>4, <1>6, <2>1, KeysNested DEF Good, ReadsSaved
  <2> QED
    BY <2>2, <2>3, <2>4, <2>5 DEF Good
<1>10. AloneIsAlone'
  <2>1. SUFFICES ASSUME NEW p \in Requests, NEW q \in Requests \ {p}, NEW k \in req'[p].alone
                 PROVE  req'[q].body[k] = None
    BY DEF AloneIsAlone
  <2>2. CASE p = r
    <3>1. k \in Sent(body) \ others
      BY <1>1, <1>4, <2>2, <2>1
    <3>2. k \notin Sent(req[q].body) /\ k \in Keys
      BY <1>0, <2>2, <3>1
    <3> QED
      BY <1>2, <1>4, <2>2, <3>2 DEF Sent
  <2>3. CASE p # r /\ q = r
    <3>1. k \in req[p].alone \ Sent(body) /\ k \in Keys
      BY <1>0, <1>2, <1>4, <2>3, <2>1, Fields
    <3> QED
      BY <1>1, <1>4, <2>3, <3>1 DEF Sent
  <2>4. CASE p # r /\ q # r
    BY <1>2, <1>4, <2>4, <2>1 DEF IInv, AloneIsAlone
  <2> QED
    BY <2>2, <2>3, <2>4
<1>11. AckedStays'
  <2>1. SUFFICES ASSUME NEW k \in Keys, acked'[k] # None
                 PROVE  /\ acked'[k] # Blank /\ row[k] = acked'[k] /\ Configured(k, acked'[k])
                        /\ \A q \in Requests : req'[q].body[k] = None
    BY <1>5 DEF AckedStays, Configured
  <2>2. k \notin Sent(body) /\ acked'[k] = acked[k] /\ acked[k] # None
    BY <1>6, <2>1
  <2>3. body[k] = None
    BY <2>2 DEF Sent
  <2> QED
    BY <1>1, <1>2, <1>4, <2>2, <2>3 DEF IInv, AckedStays
<1> QED
  BY <1>4, <1>7, <1>8, <1>9, <1>10, <1>11 DEF IInv

LEMMA CrashKeeps ==
    ASSUME IInv, Observe, Crash
    PROVE  IInv'
<1>1. /\ req' \in [Requests -> Request] /\ lock' = None
      /\ \A r \in Requests : req'[r] = Idle /\ lock' # r
  BY IdleIsRequest, ValuesAssumption DEF Crash, Unlock
<1>2. Tables'
  BY <1>1, SeenType DEF IInv, Tables, StorageWasTested, Crash
<1>3. \A r \in Requests : Good(r)'
  BY <1>1, IdleIsGood
<1>4. AloneIsAlone'
  BY <1>1, IdleIsRequest DEF AloneIsAlone
<1>5. AckedStays'
  BY <1>1, IdleIsRequest DEF IInv, AckedStays, Configured, Crash
<1> QED
  BY <1>1, <1>2, <1>3, <1>4, <1>5 DEF IInv

LEMMA RestartKeeps ==
    ASSUME IInv, Observe, Restart
    PROVE  IInv'
<1>1. \A r \in Requests : Good(r) /\ req'[r] = req[r] /\ req[r].pc = "idle"
  BY DEF IInv, Good, TodoIsSent, Restart
<1>2. Tables'
  BY SeenType DEF IInv, Tables, StorageWasTested, Restart
<1>3. \A r \in Requests : Good(r)'
  BY <1>1 DEF Restart, Good, TodoIsSent, CopyIsCurrent, SavedStays, TestedBeforeSave,
     SnapshotWasInForce, ReadsSaved, Saved, Holding
<1>4. AloneIsAlone'
  BY DEF IInv, AloneIsAlone, Restart
<1>5. AckedStays'
  BY DEF IInv, AckedStays, Configured, Restart
<1> QED
  BY <1>2, <1>3, <1>4, <1>5 DEF IInv, Restart

-----------------------------------------------------------------------------
(* The invariant *)

LEMMA InitHolds == Init => IInv
<1> SUFFICES ASSUME Init PROVE IInv
  OBVIOUS
<1>1. \A r \in Requests : req[r] = Idle /\ lock # r
  BY ValuesAssumption DEF Init
<1>2. Tables
  BY ValuesAssumption, KeysNested DEF Init, Tables, StorageWasTested, StorageOf, Unset, Config
<1>3. \A r \in Requests : Good(r)
  BY <1>1, IdleIsRequest
  DEF Good, TodoIsSent, CopyIsCurrent, SavedStays, TestedBeforeSave, SnapshotWasInForce, ReadsSaved, Saved, Holding
<1>4. AloneIsAlone /\ AckedStays
  BY <1>1, IdleIsRequest DEF Init, AloneIsAlone, AckedStays
<1> QED
  BY <1>2, <1>3, <1>4, IdleIsRequest DEF IInv, Init

LEMMA StepKeeps == IInv /\ [Next]_vars => IInv'
<1> SUFFICES ASSUME IInv, [Next]_vars PROVE IInv'
  OBVIOUS
<1>1. ASSUME NEW r \in Requests, Observe, ConfigStep(r) PROVE IInv'
  BY <1>1, LockKeeps, TestPassesKeeps, FailuresKeep, TruncateKeeps, WriteKeeps, LoadKeeps DEF ConfigStep
<1>2. ASSUME NEW r \in Requests, Observe, RowStep(r) PROVE IInv'
  BY <1>2, MovesKeep, FailuresKeep, SnapshotKeeps, FinishKeeps, StoreAuthKeeps, StoreRowKeeps, ShowKeeps
  DEF RowStep
<1>3. ASSUME NEW r \in Requests, Observe, ReadStep(r) PROVE IInv'
  BY <1>3, FailuresKeep, ReadRowKeeps DEF ReadStep
<1>4. ASSUME NEW r \in Requests, Observe, BeginRead(r) PROVE IInv'
  BY <1>4, BeginReadKeeps
<1>5. ASSUME NEW r \in Requests, NEW body \in Patches, Observe, BeginPatch(r, body) PROVE IInv'
  BY <1>5, BeginPatchKeeps
<1>6. CASE Observe /\ (Crash \/ Restart)
  BY <1>6, CrashKeeps, RestartKeeps
<1>7. CASE UNCHANGED vars
  <2>1. \A r \in Requests : Good(r)'
    BY <1>7 DEF vars, IInv, Good, TodoIsSent, CopyIsCurrent, SavedStays, TestedBeforeSave,
       SnapshotWasInForce, ReadsSaved, Configured
  <2> QED
    BY <1>7, <2>1 DEF vars, IInv, Tables, StorageWasTested, AloneIsAlone, AckedStays, Configured
<1> QED
  BY <1>1, <1>2, <1>3, <1>4, <1>5, <1>6, <1>7 DEF Next, Progress

LEMMA Invariant == Spec => []IInv
BY InitHolds, StepKeeps, PTL DEF Spec

-----------------------------------------------------------------------------
(* What follows from it *)

\* The variables keep their types, and a.mu is held by the patch at work on the
\* config and by nobody else (patchConfigSettings).
THEOREM TypeCorrect == Spec => []TypeOK
<1>1. IInv => TypeOK
  BY DEF IInv, Tables, TypeOK, Good, TodoIsSent, Holding
<1> QED
  BY <1>1, Invariant, PTL

\* What was answered as saved, and not sent again, is in the row, the memory and
\* the config file, through other patches, failures and restarts.
THEOREM AcknowledgedHold == Spec => []AcknowledgedSettingsHold
<1>1. IInv => AcknowledgedSettingsHold
  BY DEF IInv, AckedStays, Configured, AcknowledgedSettingsHold
<1> QED
  BY <1>1, Invariant, PTL

\* R2 settings are used or saved only after a test upload with them
\* (patchConfigSettings, touchesStorage, testStorageConfig).
THEOREM UsedStorageWasTested == Spec => []StorageWasTested
<1>1. IInv => StorageWasTested
  BY DEF IInv, Tables
<1> QED
  BY <1>1, Invariant, PTL

\* dashboard.js reads what it has sent from the answer of a PATCH, unless another
\* request sends the same setting meanwhile, or the SELECT of a setting fails that
\* the memory does not show: then attachStoredSettings leaves a default.
THEOREM AnswersShowWhatWasSent == Spec => []SavedIsShown
<1>1. IInv => SavedIsShown
  BY DEF IInv, Good, SavedStays, SavedIsShown
<1> QED
  BY <1>1, Invariant, PTL

\* effectiveUploadPolicy takes saved settings as they were saved, whether their
\* SELECTs succeed or fail, and any row it reads was in force while it read.
THEOREM PoliciesWereInForce == Spec => []PolicyWasInForce
<1>1. IInv => PolicyWasInForce
  BY DEF IInv, Good, SnapshotWasInForce, ReadsSaved, PolicyWasInForce
<1> QED
  BY <1>1, Invariant, PTL

\* patchConfigSettings changes no setting of a.cfg that its patch does not send.
THEOREM OtherKeysKept == Spec => PatchesKeepOtherKeys
<1> DEFINE Kept == up /\ up' => \A k \in ConfigKeys : cfg'[k] # cfg[k] =>
                      \E r \in Requests : req[r].pc = "load" /\ req[r].body[k] # None
<1>1. IInv /\ [Next]_vars => [Kept]_vars
  <2> SUFFICES ASSUME IInv, Next, up, up', NEW k \in ConfigKeys, cfg'[k] # cfg[k]
               PROVE  \E r \in Requests : req[r].pc = "load" /\ req[r].body[k] # None
    BY DEF Kept
  <2>1. PICK r \in Requests : Load(r)
    BY DEF Next, Progress, ConfigStep, RowStep, ReadStep, Lock, TestPasses, TestFails, RefuseSave,
       Truncate, Write, WriteFails, LoadFails, AuthStored, RowsStored, DatabaseFails, Snapshot,
       Finish, StoreAuth, StoreRow, Show, UsePolicy, ReadRow, BeginRead, BeginPatch, Crash, Restart
  <2>2. req[r].pc = "load" /\ cfg' = file
    BY <2>1 DEF Load
  <2>3. Good(r)
    BY DEF IInv
  <2>4. req[r].body[k] # None
    BY <2>2, <2>3 DEF Good, CopyIsCurrent
  <2> QED
    BY <2>2, <2>4
<1> QED
  BY <1>1, Invariant, PTL DEF Spec, PatchesKeepOtherKeys
-----------------------------------------------------------------------------
(* The config file *)

\* What happens to the config file, and what becomes of a torn one.
FileFollowsMemory ==
    [][/\ file' # file =>
             \E r \in Requests :
                /\ lock = r
                /\ file' # Torn =>
                      \A k \in ConfigKeys : req[r].body[k] = None => file'[k] = cfg[k]
       /\ ~up /\ file = Torn => ~up' /\ file' = Torn]_vars

\* config.Save is called under a.mu only, and writes the memory's value of every
\* setting its patch does not send: the next patch that is saved makes a torn file
\* whole again out of the memory.  A server that stops before is down for good.
THEOREM TornFilesAreRewritten == Spec => FileFollowsMemory
<1> DEFINE Step ==
             /\ file' # file =>
                   \E r \in Requests :
                      /\ lock = r
                      /\ file' # Torn =>
                            \A k \in ConfigKeys : req[r].body[k] = None => file'[k] = cfg[k]
             /\ ~up /\ file = Torn => ~up' /\ file' = Torn
<1>1. ASSUME IInv, NEW r \in Requests, Write(r) PROVE Step
  <2>1. /\ Good(r) /\ req[r] \in Request /\ cfg \in Config /\ req[r].pc = "write"
        /\ file' = Normal(req[r].conf) /\ up
    BY <1>1 DEF IInv, Tables, Write, Good, TodoIsSent
  <2>2. lock = r
    BY <2>1 DEF Good, TodoIsSent, Holding
  <2>3. ASSUME NEW k \in ConfigKeys, req[r].body[k] = None PROVE file'[k] = cfg[k]
    <3>1. req[r].conf[k] = cfg[k]
      BY <2>1, <2>3 DEF Good, CopyIsCurrent
    <3>2. cfg[k] # Blank
      BY <2>1 DEF Config
    <3> QED
      BY <2>1, <3>1, <3>2, Fields, NormalType
  <2> QED
    BY <2>1, <2>2, <2>3
<1>2. ASSUME IInv, NEW r \in Requests, Truncate(r) PROVE Step
  BY <1>2 DEF Truncate, IInv, Good, TodoIsSent, Holding
<1>3. ASSUME UNCHANGED file, up \/ ~up' \/ file # Torn PROVE Step
  BY <1>3
<1> HIDE DEF Step
<1>4. IInv /\ [Next]_vars => [Step]_vars
  <2> SUFFICES ASSUME IInv, Next PROVE Step
    OBVIOUS
  <2>1. ASSUME NEW r \in Requests, Progress(r) PROVE Step
    <3>1. up
      BY <2>1 DEF Progress, ConfigStep, RowStep, ReadStep, Lock, TestPasses, TestFails,
         RefuseSave, Truncate, Write, WriteFails, Load, LoadFails, AuthStored, RowsStored,
         DatabaseFails, Snapshot, Finish, StoreAuth, StoreRow, Show, UsePolicy, ReadRow,
         IInv, Good, TodoIsSent
    <3> QED
      BY <1>1, <1>2, <1>3, <2>1, <3>1
      DEF Progress, ConfigStep, RowStep, ReadStep, Lock, TestPasses, TestFails, RefuseSave,
         WriteFails, Load, LoadFails, AuthStored, RowsStored, DatabaseFails,
         Snapshot, Finish, StoreAuth, StoreRow, Show, UsePolicy, ReadRow
  <2>2. ASSUME NEW r \in Requests, BeginRead(r) \/ \E body \in Patches : BeginPatch(r, body)
        PROVE  Step
    BY <1>3, <2>2 DEF BeginRead, BeginPatch
  <2>3. CASE Crash \/ Restart
    BY <1>3, <2>3 DEF Crash, Restart
  <2> QED
    BY <2>1, <2>2, <2>3 DEF Next
<1>5. Spec => [][Step]_vars
  BY <1>4, Invariant, PTL DEF Spec
<1> QED
  BY <1>5 DEF FileFollowsMemory, Step

-----------------------------------------------------------------------------
(* Requests end *)

Stage(pc) ==
    CASE pc = "idle" -> 0
      [] pc \in {"show", "policy"} -> 1
      [] pc = "answer" -> 2
      [] pc = "rows" -> 3
      [] pc = "auth" -> 4
      [] pc = "load" -> 5
      [] pc = "write" -> 6
      [] pc = "save" -> 7
      [] pc = "test" -> 8
      [] pc = "lock" -> 9

\* A request goes to a later stage, or has one row less to write or to read.
Advances(r) ==
    \/ Stage(req'[r].pc) < Stage(req[r].pc)
    \/ /\ req'[r].pc = req[r].pc
       /\ req'[r].todo \subseteq req[r].todo /\ req'[r].todo # req[r].todo

RequestsAdvance ==
    [][\A r \in Requests :
          \/ Progress(r)
          \/ /\ req[r].pc # "idle"
             /\ req'[r].pc # req[r].pc \/ req'[r].todo # req[r].todo
          => Advances(r)]_vars

LEMMA ProgressAdvances ==
    ASSUME IInv, NEW r \in Requests, Progress(r)
    PROVE  Advances(r) /\ \A q \in Requests \ {r} : req'[q] = req[q]
<1> DEFINE Goal == Advances(r) /\ \A q \in Requests \ {r} : req'[q] = req[q]
<1> SUFFICES Goal
  OBVIOUS
<1>0. /\ req \in [Requests -> Request] /\ req[r] \in Request
      /\ req[r].todo \subseteq Keys /\ req[r].body \in [Keys -> Values \cup {None}]
  BY Fields DEF IInv
<1>1. ASSUME NEW pc \in {"lock", "test", "save", "write", "load", "auth", "rows",
                         "answer", "show", "policy"},
             NEW todo \in SUBSET Keys, Goto(r, pc, todo),
             \/ Stage(pc) < Stage(req[r].pc)
             \/ pc = req[r].pc /\ todo \subseteq req[r].todo /\ todo # req[r].todo
      PROVE  Goal
  BY <1>0, <1>1, Moved DEF Advances
<1>2. ASSUME NEW n \in Request, req' = [req EXCEPT ![r] = n],
             \/ Stage(n.pc) < Stage(req[r].pc)
             \/ n.pc = req[r].pc /\ n.todo \subseteq req[r].todo /\ n.todo # req[r].todo
      PROVE  Goal
  BY <1>0, <1>2, Update DEF Advances
<1>3. Answer(r) /\ req[r].pc # "idle" => Goal
  BY <1>0, Answered, IdleIsRequest DEF Advances, Stage, Request
<1> HIDE DEF Goal
<1>4. Stored(req[r].body) \in SUBSET Keys
  BY <1>0 DEF Stored, Sent
<1>5. CASE Lock(r)
  <2> DEFINE new == Applied(cfg, req[r].body)
             touched == Sent(req[r].body) \cap StorageKeys # {}
             pc == IF touched /\ StorageOf(new) \in R2 THEN "test" ELSE "save"
             n == [req[r] EXCEPT !.conf = new, !.pc = pc]
  <2>1. new \in [ConfigKeys -> Values]
    BY <1>0, AppliedType DEF IInv, Tables
  <2>2. req' = [req EXCEPT ![r] = n] /\ req[r].pc = "lock"
    BY <1>5 DEF Lock, Copy
  <2> HIDE DEF new, touched
  <2>3. n \in Request /\ n.pc \in {"test", "save"}
    BY <1>0, <2>1 DEF Request
  <2> HIDE DEF n
  <2>4. Stage(n.pc) < Stage(req[r].pc)
    BY <2>2, <2>3 DEF Stage
  <2> QED
    BY <1>2, <2>2, <2>3, <2>4
<1>6. CASE TestPasses(r) \/ Truncate(r) \/ Write(r)
  <2>1. /\ Stage("save") < Stage("test") /\ Stage("write") < Stage("save")
        /\ Stage("load") < Stage("write")
    BY DEF Stage
  <2> QED
    BY <1>0, <1>1, <1>6, <2>1 DEF TestPasses, Truncate, Write
<1>7. CASE \/ TestFails(r) \/ RefuseSave(r) \/ WriteFails(r) \/ LoadFails(r)
           \/ DatabaseFails(r) \/ Finish(r) \/ UsePolicy(r)
  BY <1>3, <1>7 DEF TestFails, RefuseSave, WriteFails, LoadFails, DatabaseFails, Finish, UsePolicy
<1>8. CASE Load(r)
  <2> DEFINE n == [req[r] EXCEPT !.pc = "auth", !.conf = Default]
  <2>1. n \in Request /\ n.pc = "auth"
    BY <1>0, ValuesAssumption DEF Request, Config
  <2>2. req' = [req EXCEPT ![r] = n] /\ req[r].pc = "load"
    BY <1>8 DEF Load
  <2> HIDE DEF n
  <2>3. Stage(n.pc) < Stage(req[r].pc)
    BY <2>1, <2>2 DEF Stage
  <2> QED
    BY <1>2, <2>1, <2>2, <2>3
<1>9. CASE AuthStored(r) \/ RowsStored(r)
  <2>1. Stage("rows") < Stage("auth") /\ Stage("answer") < Stage("rows")
    BY DEF Stage
  <2> QED
    BY <1>1, <1>4, <1>9, <2>1 DEF AuthStored, RowsStored
<1>10. ASSUME NEW k \in Keys, StoreAuth(r, k) PROVE Goal
  BY <1>0, <1>1, <1>3, <1>10 DEF StoreAuth
<1>11. ASSUME NEW k \in Keys, StoreRow(r, k) PROVE Goal
  BY <1>0, <1>1, <1>11 DEF StoreRow
<1>12. ASSUME NEW k \in req[r].todo, NEW v \in Values \cup {None},
              NEW failed \in SUBSET Keys, Got(r, k, v, failed)
       PROVE  Goal
  BY <1>0, <1>12, Read DEF Advances, Goal
<1>13. ASSUME NEW k \in Keys, Show(r, k) PROVE Goal
  <2>1. /\ k \in req[r].todo /\ row[k] \in Values \cup {None} /\ k \notin BadKeys
    BY <1>13 DEF IInv, Tables, Show, Good, TodoIsSent, Sent, Holding
  <2>2. WithoutRow(k, req[r].conf) \in Values
    BY <1>0, <2>1, Fields, ValuesAssumption DEF WithoutRow, Keys
  <2> QED
    BY <1>12, <1>13, <2>1, <2>2 DEF Show
<1>14. ASSUME NEW k \in Keys, ReadRow(r, k) PROVE Goal
  <2>1. k \in req[r].todo /\ k \in ConfigKeys
    BY <1>14, KeysNested DEF ReadRow, IInv, Good, TodoIsSent
  <2>2. /\ Policy(k, req[r].conf[k], row[k]) \in Values \cup {None}
        /\ req[r].conf[k] \in Values
    BY <1>0, <2>1, Fields DEF Policy, IInv, Tables
  <2> QED
    BY <1>12, <1>14, <2>1, <2>2 DEF ReadRow
<1>15. CASE Snapshot(r)
  <2> DEFINE n == [req[r] EXCEPT !.pc = "show", !.todo = Stored(req[r].body), !.conf = cfg]
  <2>1. n \in Request /\ n.pc = "show"
    BY <1>0, <1>4 DEF Request, IInv, Tables, Config
  <2>2. req' = [req EXCEPT ![r] = n] /\ req[r].pc = "answer"
    BY <1>15 DEF Snapshot
  <2> HIDE DEF n
  <2>3. Stage(n.pc) < Stage(req[r].pc)
    BY <2>1, <2>2 DEF Stage
  <2> QED
    BY <1>2, <2>1, <2>2, <2>3
<1> QED
  BY <1>5, <1>6, <1>7, <1>8, <1>9, <1>10, <1>11, <1>13, <1>14, <1>15
  DEF Progress, ConfigStep, RowStep, ReadStep

\* Every patch and every reader ends: the rows it has to write or to read are
\* fixed when it comes to them, and no other request adds to them or sends it back,
\* whatever keys the two have in common.
THEOREM RequestsEnd == Spec => RequestsAdvance
<1> DEFINE Step == \A r \in Requests :
                      \/ Progress(r)
                      \/ /\ req[r].pc # "idle"
                         /\ req'[r].pc # req[r].pc \/ req'[r].todo # req[r].todo
                      => Advances(r)
<1>1. IInv /\ [Next]_vars => [Step]_vars
  <2> SUFFICES ASSUME IInv, Next, NEW r \in Requests, req[r].pc # "idle",
                      req'[r].pc # req[r].pc \/ req'[r].todo # req[r].todo
               PROVE  Advances(r)
    BY ProgressAdvances
  <2>0. req \in [Requests -> Request] /\ req[r] \in Request
    BY DEF IInv
  <2>1. CASE \E q \in Requests : Progress(q)
    BY <2>1, ProgressAdvances
  <2>2. CASE \E q \in Requests : BeginRead(q)
    BY <2>0, <2>2 DEF BeginRead
  <2>3. ASSUME NEW q \in Requests, NEW body \in Patches, BeginPatch(q, body) PROVE FALSE
    <3>1. q # r
      BY <2>3 DEF BeginPatch
    <3>2. req'[r] = [req[r] EXCEPT !.alone = req[r].alone \ Sent(body)]
      BY <2>3, <3>1 DEF BeginPatch
    <3>3. req'[r].pc = req[r].pc /\ req'[r].todo = req[r].todo
      BY <2>0, <3>2 DEF Request
    <3> QED
      BY <3>3
  <2>4. CASE Crash
    <3>1. req'[r].pc = "idle"
      BY <2>4, IdleIsRequest DEF Crash
    <3> QED
      BY <2>0, <3>1 DEF Advances, Stage, Request
  <2>5. CASE Restart
    BY <2>5 DEF Restart
  <2> QED
    BY <2>1, <2>2, <2>3, <2>4, <2>5 DEF Next
<1> HIDE DEF Step
<1>2. Spec => [][Step]_vars
  BY <1>1, Invariant, PTL DEF Spec
<1> QED
  BY <1>2 DEF RequestsAdvance, Step
=============================================================================
