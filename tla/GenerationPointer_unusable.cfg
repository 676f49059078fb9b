CONSTANTS
    Base = 2
    MaxGeneration = 5
    Minus = Minus  Undecodable = Undecodable  None = None
    Readers = {}
    Runs = {p}
    MaxFaults = 1
SPECIFICATION FairSpec
PROPERTIES RepeatingRecovers
CHECK_DEADLOCK FALSE
