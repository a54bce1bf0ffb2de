SPECIFICATION RetrySpec
CONSTANTS
    u1 = u1
    u2 = u2
    small = small
    small2 = small2
    large = large
    Uploads = {u1}
    Files = {small, small2}
    Multipart = {}
    FilesOf <- TwoSmall
    Requests = {r1, r2}
    None = None
PROPERTIES
    RetryRecordsAll
    EveryRequestAnswers
CHECK_DEADLOCK FALSE
