SPECIFICATION Spec
CONSTANTS
    u1 = u1
    u2 = u2
    small = small
    small2 = small2
    large = large
    Uploads = {u1}
    Files = {small, large}
    Multipart = {large}
    FilesOf <- OneSession
    Requests = {r1, r2, r3}
    None = None
SYMMETRY SlotSymmetry
INVARIANTS
    TypeOK
    RowHasObject
    BatchNeverOverstates
    CompletedIsWhole
    NoDoubleCount
PROPERTIES
    ManifestKeptUntilWhole
    LedgerSpec
