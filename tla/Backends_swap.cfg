SPECIFICATION Spec
CONSTANTS
    None = None
    Put = Put
    Conns = {c1, c2}
    Kinds = {"stt", "llm"}
    Models = {"m"}
    CloudModels = {}
    Requests <- Asked
    Bodies <- Given
    Boot <- Local
    MaxUpdates = 1
    MaxPuts = 1
    MaxInsts = 7
SYMMETRY Sym
INVARIANTS  OwnIsAlone 
CHECK_DEADLOCK FALSE
