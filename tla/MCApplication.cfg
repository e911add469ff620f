CONSTANTS
    Producers = {node1, node2}
    Workers = {w1}
    Reporter = Reporter
    None = None
    MaxTime = 2
    MaxCallbacks = 1
    MaxRounds = 2
    Schedules <- Files
    Epochs = {0, 1, 3, 60}
    Initial = 1
    MaxInt = 63
    NoFile = NoFile
    MaxMonotonic = 10
    MaxStarts = 2
    NodeNames = {n1, n2, n3}
    Numbers = {0, 1}
    Capacity = 2
    MaxLen = 2
    MaxMerges = 2
SPECIFICATION ApplicationSpec
CHECK_DEADLOCK FALSE
INVARIANTS TypeOK Watermark LogInOrder ScheduleFollowed HistoryKept
PROPERTIES EveryProducerReported StopJoins EvidenceKept FinalPhaseApplied
