\* Two handlers, two walks, an ONU that comes back once, two rows.
SPECIFICATION Spec
CONSTANTS
    Handler = {h1, h2}
    Walk = {w1, w2}
    OnuId = {o1, o2}
    RowId = {r1, r2}
    None = None
INVARIANTS TypeOK ArchivedOnce HistoryNotMixed HistoryFollowsOnu
PROPERTIES ArchiveIsFinal
SYMMETRY Symmetry
