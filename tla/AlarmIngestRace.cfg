\* Three handlers, one operator, three rows, one key: every race on one alarm.
SPECIFICATION Spec
CONSTANTS
    k1 = k1 k2 = k2 p1 = p1 p2 = p2
    NoRow = NoRow
    Handler = {h1, h2, h3}
    Operator = {o1}
    AlarmId = {a1, a2, a3}
    Key <- OneKey
    Olt <- OneOlt
    OltOf <- OneOltOf
SYMMETRY Symmetry
INVARIANTS TypeOK UniqueActive
PROPERTIES HistoryIsFinal LinearizableIngest
