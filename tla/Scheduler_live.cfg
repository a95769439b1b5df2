SPECIFICATION FairSpec
CONSTANTS
    n1 = n1
    n2 = n2
    n3 = n3
    d1 = d1
    None = None
    Notifs = {n1}
    Devices = {d1}
    Tasks = {t1, t2}
    Requests = {r1}
    Conns = {k1}
    DeviceOf <- OneDevice
    RunawayCap = 1
    QueueCap = 1
    ReplayWindow = 0
    MaxTime = 1
    MaxRequests = 2
    MaxConnects = 1
    MaxExits = 1
PROPERTIES Resolved CallsReturn
CHECK_DEADLOCK FALSE
