SPECIFICATION RetrySpec
CONSTANTS
    older = older
    newer = newer
    Files = {older}
    Jobs = {j1, j2}
    Tools = {t1}
    Media = {older}
    Name <- SameName
    Rank <- Arrival
    None = None
INVARIANTS
    TypeOK
PROPERTIES
    DeleteConverges
    PosterMirrored
    PreviewsReclaimed
