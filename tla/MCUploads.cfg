SPECIFICATION Spec
CONSTANTS
    UploadIds = {u1, u2}
    Size <- MCSizeUnequal
    Quota = 3
    MaxStaged = 2
    Puts = {p1, p2}
    Batches = {b1, b2}
    Calls = 2
    Buckets = {k1, k2}
    Budget = 1
    NoRow = NoRow
    NoUpload = NoUpload
    NoBatch = NoBatch
    NoBucket = NoBucket
SYMMETRY Slots
PROPERTIES QuotaKept ReceivedNotLost
CHECK_DEADLOCK FALSE
