SPECIFICATION FairSpec
CONSTANTS
    None = None
    Voices = {v1, v2}
    Cards = {w1, w2}
    Frames = {"text", "media", "config", "audio", "stop", "cancel"}
    MaxFrames = 3
INVARIANTS GateOpens OnePlace LockIsHeld
PROPERTIES AckedIsQuiet  LetGo
CHECK_DEADLOCK FALSE
