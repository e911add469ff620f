CONSTANTS
    Threads = {T1}
    Callbacks = {timer, sub, service}
    Groups = {g1, g2, reentrant}
    MutuallyExclusive = {g1, g2}
    Kind <- MCKind
    Group <- MCGroup
    Priority <- MCPriority
    callback_priority_enabled = TRUE
    MultiThreaded = FALSE
    Cancellable = FALSE
    TimedWait = FALSE
    None = None
    timer = timer
    timer2 = timer2
    sub = sub
    service = service
    client = client
    waitable = waitable
    g1 = g1
    g2 = g2
    reentrant = reentrant
SPECIFICATION Spec
INVARIANT CalledTimerIsTaken
