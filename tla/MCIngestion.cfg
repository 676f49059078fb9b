CONSTANTS
    a = a  b = b  c = c  i1 = i1  i2 = i2  i3 = i3  None = None
    Runs = {a, b, c}
    Ids = {i1, i2, i3}
    Snapshot <- MCSnapshot
    BatchSize = 2
    Times <- MCTimes
SPECIFICATION FairSpec
INVARIANTS TypeOK MetadataDescribesItems SuccessIsRecorded
PROPERTIES ImplementsPublication RunsEnd LockReturned
CHECK_DEADLOCK FALSE
