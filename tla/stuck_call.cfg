SPECIFICATION Spec
CONSTANTS
    Messages = {}
    Tools = {t1}
    Paths = {work}
    Pieces = 1
    PageLimit = 1
    MaxLog = 3
    MaxTrouble = 1
    MaxFlight = 2
    RECENT = RECENT
    NONE = NONE
CHECK_DEADLOCK FALSE
INVARIANTS EveryCallFinished
