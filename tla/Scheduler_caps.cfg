SPECIFICATION Spec
CONSTANTS
    n1 = n1
    n2 = n2
    n3 = n3
    d1 = d1
    None = None
    Notifs = {n1, n2, n3}
    Devices = {d1}
    Tasks = {t1, t2, t3}
    Requests = {r1, r2}
    Conns = {}
    DeviceOf <- OneDevice
    RunawayCap = 1
    QueueCap = 1
    ReplayWindow = 1
    MaxTime = 0
    MaxRequests = 4
    MaxConnects = 0
    MaxExits = 0
SYMMETRY Sym
INVARIANTS PendingBound QueueBound NoOrphan
CHECK_DEADLOCK FALSE
