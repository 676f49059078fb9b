CONSTANTS
    r1 = r1  r2 = r2  p1 = p1  p2 = p2
    item = item  late = late  list = list
    None = None  Corrupt = Corrupt
    Readers = {r1}
    Publishers = {p1}
    Resources = {item}
    Lists = {}
    FirstVersion <- MCFirstItem
    LoseDuringIncr = TRUE
    MaxVersion = 1
    MaxDraws = 3
    MaxIncr = 2
    MaxLate = 0
SPECIFICATION Spec
PROPERTIES NoResurrection
