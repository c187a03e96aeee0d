\* Two logins, two reloads in flight, four moves. The browser may stay signed out.
SPECIFICATION FairSpec
CONSTANTS
    o1 = o1
    u1 = u1
    None = None
    Olt = {o1}
    Port = {1}
    Onu = {u1}
    Filters <- MCFilters
    EMPTY_FILTERS <- NoFilter
    Search <- MCSearch
    PageSize <- MCPageSize
    Alarms <- MCAlarms
    Events <- MCEvents
    Onus <- MCOnus
    Apart <- MCApart
    MaxLogin = 2
    MaxReloads = 2
    MaxMoves = 4
INVARIANTS TypeOK StaleOnlyByOvertaking PageExists
PROPERTIES AutoRefreshHeals LiveSessionLostOnlyToOlder
CHECK_DEADLOCK FALSE
