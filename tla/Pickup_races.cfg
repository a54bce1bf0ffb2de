SPECIFICATION Spec
CONSTANTS
    b1 = b1
    f1 = f1
    f2 = f2
    Files = {f1, f2}
    Batches = {b1}
    Shares = {s1}
    Codes = {c1, c2}
    Anonymous = {b1}
    BatchOf <- OneBatch
    Requests = {r1, r2}
    Tries = 2
    None = None
SYMMETRY CodeSymmetry
INVARIANTS
    TypeOK
    SharesNameFiles
    DeadCodesServeNothing
PROPERTIES
    SharesStayWhole
    FirstRevocationStays
