SPECIFICATION Spec
CONSTANTS
    None = None
    Conns = {c1, c2}
    Devices = {d1}
    Sessions = {s1}
    MaxConnections = 2
SYMMETRY Sym
INVARIANTS TakenOverIsKept
