CONSTANTS
    Caller = {p1, p2}
    Closer = closer
    Agent = {a1, a2}
    Request = {q1, q2}
    None = None
SPECIFICATION Spec
INVARIANT AbortedIsTold
CHECK_DEADLOCK FALSE
