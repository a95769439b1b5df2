SPECIFICATION Spec
CONSTANTS
    n1 = n1
    n2 = n2
    n3 = n3
    d1 = d1
    None = None
    Notifs = {n1, n2}
    Devices = {d1}
    Tasks = {t1, t2}
    Requests = {r1}
    Conns = {k1, k2}
    DeviceOf <- OneDevice
    RunawayCap = 2
    QueueCap = 1
    ReplayWindow = 1
    MaxTime = 0
    MaxRequests = 2
    MaxConnects = 2
    MaxExits = 0
SYMMETRY Sym
INVARIANTS Accounted FiredWasHanded
CHECK_DEADLOCK FALSE
