SPECIFICATION Spec
CONSTANTS
    Messages = {m1}
    Tools = {}
    Paths = {work}
    Pieces = 1
    PageLimit = 9
    MaxLog = 3
    MaxTrouble = 1
    MaxFlight = 2
    RECENT = RECENT
    NONE = NONE
CHECK_DEADLOCK FALSE
INVARIANTS TextsEndWhole
