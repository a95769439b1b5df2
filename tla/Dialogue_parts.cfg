SPECIFICATION Spec
CONSTANTS
    None = None
    Parts = {"conversation", "llm", "router", "markup", "text turn", "utterance", "dictation", "fallback"}
    Turns = {t1, t2}
    History = 4
    MaxToolCalls = 1
    FirstWindow = 4
    NativeWindow = 3
    Window = 8
    OldWeight = 3
    Budget = 8
    MaxPurges = 1
    Kinds = {"gateway", "cloud", "local", "lan", "dual"}
    Slots = {"call"}
    Names = {"web"}
    MaxTokens = 2
    Fleet <- TheFleet
    Needs <- TheNeeds
    Modes = {0, 2, 3}
    MaxMakes = 2
    Pieces = {"<", "[", "tool", "</", "tool_call", "remember", ">", "]", "word"}
    MaxPieces = 4
    Conns = {c1, c2}
    Agents = {a1}
    Speakers = {c1}
    MaxFails = 2
    Backends = {"openrouter", "local"}
    Ends = {"word", "stop", "clause", "fence"}
    MaxUtterances = 2
    MaxStarts = 2
    MaxWords = 2
    BufferCap = 1
    Users = {u1, u2}
    Makes = {i1, i2, i3}
    MaxWarms = 2
SYMMETRY Sym
CHECK_DEADLOCK FALSE
INVARIANTS ContextIsComplete  OneInstance   SpokenIsShown  
