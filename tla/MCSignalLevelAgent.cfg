CONSTANTS
    Caller = {p1, p2}
    Station = {st1, st2}
    Agent = {a1, a2, a3}
    None = None
SYMMETRY Symmetry
SPECIFICATION Spec
INVARIANTS TypeOK OwnStationOnly AloneServed NoOrphan LeakReported
CHECK_DEADLOCK FALSE
