CONSTANTS
    Threads = {T1, T2}
    Callbacks = {timer, timer2, sub}
    Groups = {g1, g2, reentrant}
    MutuallyExclusive = {g1, g2}
    Kind <- MCKind
    Group <- MCGroup
    Priority <- MCPriority
    callback_priority_enabled = FALSE
    MultiThreaded = TRUE
    Cancellable = TRUE
    TimedWait = FALSE
    None = None
    timer = timer
    timer2 = timer2
    sub = sub
    service = service
    client = client
    waitable = waitable
    g1 = g1
    g2 = g2
    reentrant = reentrant
SPECIFICATION FairSpec
INVARIANTS TypeOK MutualExclusion MarkedGroupWasFree NoLostWakeup
PROPERTIES TimerCalledWhenDue CancelStopsThreads
