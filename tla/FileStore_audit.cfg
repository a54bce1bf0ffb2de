SPECIFICATION Spec
CONSTANTS
    older = older
    newer = newer
    Files = {older, newer}
    Jobs = {j1}
    Tools = {}
    Media = {newer}
    Name <- SameName
    Rank <- Arrival
    None = None
SYMMETRY JobSymmetry
PROPERTIES
    AdminDeletesAudited
