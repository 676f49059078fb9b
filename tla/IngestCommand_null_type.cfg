CONSTANTS
    MaxDepth = 3
    MaxChanges = 1
    None = None
    MaxString = 3
    MaxItems = 2
    MaxInteger = 9
SPECIFICATION CommandFairSpec
CHECK_DEADLOCK FALSE

INVARIANT InvalidSnapshotsAreReported
