CONSTANTS
    front = front
    rear = rear
    transform = transform
    fusion = fusion
    cyclic = cyclic
    cross = cross
    sink = sink
    sink2 = sink2
    None = None
    AllNodes = {front, rear, transform, fusion, cyclic, cross, sink, sink2}
    Type <- MCType
    SourceKind <- MCSourceKind
    Graphs <- DropGraphs
    Capacity = 8
    MaxTime = 1
    MaxFires <- MCMaxFires
SPECIFICATION Spec
INVARIANT TransformDropsCounted
CHECK_DEADLOCK FALSE
