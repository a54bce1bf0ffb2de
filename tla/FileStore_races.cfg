SPECIFICATION Spec
CONSTANTS
    older = older
    newer = newer
    Files = {older, newer}
    Jobs = {j1, j2}
    Tools = {t1}
    Media = {}
    Name <- SameName
    Rank <- Arrival
    None = None
SYMMETRY JobSymmetry
INVARIANTS
    RowOutlivesObject
    AuditedAreGone
PROPERTIES
    ShelfSpec
