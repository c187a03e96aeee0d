\* The instance of OnuStatus.cfg; two reconciliations of one ONU at once.
SPECIFICATION Spec
CONSTANTS
    Handler = {h1, h2}
    p1 = p1
    Position = {p1}
    Notice <- MCNotice
    StatusTable <- MCStatusTable
PROPERTIES NoUpWhileDown
