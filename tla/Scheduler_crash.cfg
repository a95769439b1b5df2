SPECIFICATION Spec
CONSTANTS
    n1 = n1
    n2 = n2
    n3 = n3
    d1 = d1
    None = None
    Notifs = {n1, n2}
    Devices = {d1}
    Tasks = {t1, t2, t3}
    Requests = {r1}
    Conns = {k1}
    DeviceOf <- OneBroadcast
    RunawayCap = 2
    QueueCap = 1
    ReplayWindow = 1
    MaxTime = 2
    MaxRequests = 2
    MaxConnects = 1
    MaxExits = 1
SYMMETRY Sym
PROPERTIES Implements
CHECK_DEADLOCK FALSE
