CONSTANTS
    Messages = {1, 2, 3}
    capacity_ = 3
    Null = 0
    None = None
    Clients = {"c", "d"}
    Postponed = {"c"}
    Unreliable = TRUE
    Twice = TRUE
    Pruning = TRUE
    MaxRequests = 1
    MaxTaken = 2
    MaxTime = 1
    Sets = {1, 2}
    Static = {}
    Sequential = {2}
    Entities = {"g", "s", "w"}
    Kind <- KindOf
    Batches <- Adding
    Preset <- NonePreset
    Writers = {"w1", "w2"}
    RemoveForeign = FALSE
    Droppable = {"g"}
    Timed = TRUE
    MaxCalls = 2
SPECIFICATION ComponentsSpec
CHECK_DEADLOCK FALSE
INVARIANTS ComponentsTypeOK    ClientSafe   
PROPERTIES ImplementsQueue 
