\* Two trap handlers, one walk, one position with two kinds of down alarm and
\* one that is only walked.
SPECIFICATION Spec
CONSTANTS
    Handler = {h1, h2}
    p1 = p1
    Position = {p1, p2}
    Notice <- MCNotice
    StatusTable <- MCStatusTable
INVARIANTS TypeOK OwnAlarmCounted
PROPERTIES OnlyOltLiftsDisable OnlySerialRegisters ArchivedWasNotRead OnlyOutagesLowerOnu
SYMMETRY Symmetry
