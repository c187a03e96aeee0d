\* Two handlers over two OLTs that may be removed at any time.
SPECIFICATION FairSpec
CONSTANTS
    k1 = k1 k2 = k2 p1 = p1 p2 = p2
    NoRow = NoRow
    Handler = {h1, h2}
    Operator = {}
    AlarmId = {a1, a2}
    Key <- TwoKeys
    Olt <- TwoOlts
    OltOf <- TwoOltOf
INVARIANTS HeldRowIsOwn NoOrphanAlarm
PROPERTIES HandlersFinish
