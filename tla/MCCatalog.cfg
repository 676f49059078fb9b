CONSTANTS
    a = a  b = b  i1 = i1  i2 = i2  i3 = i3  None = None
    Runs = {a, b}
    Ids = {i1, i2, i3}
    Snapshot <- MCSnapshot
    BatchSize = 2
    Times <- MCTimes
    Readers = {reader}
    Shown = {i2}
    MaxDraws = 1
    MaxIncr = 2
    MaxLate = 0
    Corrupt = Corrupt
SPECIFICATION CatalogSpec
INVARIANT AnswersFollowSuccess
CHECK_DEADLOCK FALSE
