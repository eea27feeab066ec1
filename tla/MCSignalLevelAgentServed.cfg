CONSTANTS
    Caller = {p1}
    Station = {st1}
    Agent = {a1, a2}
    None = None
SPECIFICATION Spec
INVARIANT MonitorServed
CHECK_DEADLOCK FALSE
