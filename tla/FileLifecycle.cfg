SPECIFICATION ReclaimSpec
CONSTANTS
    u1 = u1
    small = small
    large = large
    Uploads = {u1}
    Files = {large}
    Multipart = {large}
    FilesOf <- OneLarge
    Requests = {r1}
    None = None
    Jobs = {j1}
    Tools = {t1}
    Name <- NameOf
    Rank <- RankOf
INVARIANTS
    CompletedWasWhole
PROPERTIES
    LeaksReclaimed
