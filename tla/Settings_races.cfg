SPECIFICATION Spec
CONSTANTS
    mime = mime
    storage = storage
    reg = reg
    bad = bad
    v0 = v0
    v1 = v1
    ConfigKeys = {mime, storage}
    AuthKeys = {reg}
    BadKeys = {bad}
    PolicyKeys = {mime}
    StorageKeys = {storage}
    KeptKeys = {storage}
    SkippedKeys = {storage}
    Values = {v0, v1, Blank}
    Blank = Blank
    Default <- Defaults
    AuthDefault <- AuthDefaults
    R2 <- R2Modes
    Patches <- PatchesSent
    Requests = {r1, r2}
    None = None
    Torn = Torn
INVARIANTS
    TypeOK
    AcknowledgedSettingsHold
    StorageWasTested
    SavedIsShown
    PolicyWasInForce
PROPERTIES
    PatchesKeepOtherKeys
    EveryRequestAnswers
CHECK_DEADLOCK FALSE
