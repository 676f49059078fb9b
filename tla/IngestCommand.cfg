CONSTANTS
    MaxDepth = 3
    MaxChanges = 1
    None = None
    MaxString = 3
    MaxItems = 2
    MaxInteger = 9
SPECIFICATION CommandFairSpec
INVARIANTS DescriptorsReturned OnlyRegularFilesAreRead StatusTellsTruth CommandClientsReleased
INVARIANTS  IngestionProtected
PROPERTIES CommandEnds
CHECK_DEADLOCK FALSE
