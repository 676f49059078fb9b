CONSTANTS
    r1 = r1  r2 = r2  p1 = p1  p2 = p2
    item = item  late = late  list = list
    None = None  Corrupt = Corrupt
    Readers = {r1}
    Publishers = {p1}
    Resources = {late}
    Lists = {}
    FirstVersion <- MCFirstLate
    LoseDuringIncr = FALSE
    MaxVersion = 2
    MaxDraws = 1
    MaxIncr = 1
    MaxLate = 1
SPECIFICATION FairSpec
PROPERTIES ImplementsRegister RequestsTerminate EventuallyCoherent
