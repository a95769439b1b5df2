SPECIFICATION Spec
CONSTANTS
    None = None
    Parts = {"notes", "media", "memory", "integrations", "coredumps"}
    Notes = {n1}
    Editors = {e1, e2}
    Edits = {{"title"}, {"transcript", "summary"}}
    Retries = 1
    Ids = {1, 2, 3}
    Blocks = {"code", "table", "image"}
    MaxBlocks = 2
    MaxMedia = 1
    MaxFiles = 2
    MaxAge = 1
    Ttl = 1
    MaxTime = 2
    Facts = {f1, f2}
    Docs = {d1, d2}
    NumChunks = 2
    Accounts = {a1, a2}
    Flows = {w1}
    Callers = {h1, h2}
    MaxCalls = 2
    Torn = Torn
    Targets = {t1}
    Dumps = {c1, c2}
    MaxClock = 4
    MaxCut = 2
SYMMETRY Sym
INVARIANTS FieldsAreLast FetchIsServed   
CHECK_DEADLOCK FALSE
