CONSTANTS
    Caller = {p1, p2}
    Closer = closer
    Agent = {a1, a2}
    Request = {q1}
    None = None
SPECIFICATION Spec
INVARIANT AlwaysServed
CHECK_DEADLOCK FALSE
