CONSTANTS
    Base = 2
    MaxGeneration = 5
    Minus = Minus  Undecodable = Undecodable  None = None
    Readers = {r}
    Runs = {p}
    MaxFaults = 1
SPECIFICATION FairSpec
PROPERTIES WholePointer  RepeatingRecoversUsable
