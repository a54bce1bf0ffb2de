SPECIFICATION Spec
CONSTANTS
    older = older
    newer = newer
    Files = {older, newer}
    Jobs = {j1}
    Tools = {t1}
    Media = {newer}
    Name <- SameName
    Rank <- Arrival
    None = None
SYMMETRY JobSymmetry
PROPERTIES
    DedupeKeepsNewest
