SPECIFICATION Spec
CONSTANTS
    Ids = {i1, i2}
    Emails = {e1, e2}
    People = {e1}
    Remotes = {m1}
    Requests = {q1, q2}
    Threshold = 2
    None = None
INVARIANTS
    TypeOK
    SessionsNameUsers
    LockedForFailures
PROPERTIES
    FirstUserIsAdmin
    RoleWasHeld
    DisabledStaysOut
    RightPasswordAccepted
    WrongPasswordsLock
    SsoSignsIn
