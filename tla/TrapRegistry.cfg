\* Two requests and the timer, two changes, one failure, over any small tables.
SPECIFICATION FairSpec
CONSTANTS
    Octets = 2
    OctetBits = 2
    Request = {r1, r2}
    o1 = o1 n1 = n1 c1 = c1
    Olt = {o1}
    Network = {n1}
    City = {c1}
    OltIp <- MCIp
    Community = {"public", "private"}
    Cidr <- MCCidr
    None = None
    Null = Null
    Gone = Gone
    MaxChanges = 2
    Timer = Timer
    Start <- MCStart
    MaxFailures = 1
INVARIANTS TypeOK AnsweredChangeInForce JudgedByTables
PROPERTIES CacheConverges CityLostToNullOrRace
