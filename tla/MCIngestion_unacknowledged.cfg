CONSTANTS
    a = a  b = b  c = c  i1 = i1  i2 = i2  i3 = i3  None = None
    Runs = {a, b}
    Ids = {i1, i2, i3}
    Snapshot <- MCSnapshotTwo
    BatchSize = 2
    Times <- MCTimesTwo
SPECIFICATION Spec
INVARIANTS UnavailableMeansUnpublished
CHECK_DEADLOCK FALSE
