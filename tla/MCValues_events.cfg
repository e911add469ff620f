SPECIFICATION EventsSpec
INVARIANT ParameterEventsVisible
