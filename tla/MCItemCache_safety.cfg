CONSTANTS
    r1 = r1  r2 = r2  p1 = p1  p2 = p2
    item = item  late = late  list = list
    None = None  Corrupt = Corrupt
    Readers = {r1}
    Publishers = {p1}
    Resources = {list}
    Lists = {list}
    FirstVersion <- MCFirstList
    LoseDuringIncr = FALSE
    MaxVersion = 1
    MaxDraws = 2
    MaxIncr = 1
    MaxLate = 1
SPECIFICATION Spec
INVARIANTS TypeOK CoherentOnceInvalidated ReadsAreFresh
PROPERTIES HitsHonourFloor NoResurrection
