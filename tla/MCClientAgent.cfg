CONSTANTS
    Caller = {p1, p2}
    Closer = closer
    Agent = {a1, a2}
    Request = {q1}
    None = None
SPECIFICATION FairSpec
INVARIANTS
    TypeOK
    ClosedOwnsNothing
    RegisteredIsServed
    NoSilentLeak
    SlotReleased
    SerialAborts
    NoOrphan
PROPERTY CloseCompletes
CHECK_DEADLOCK FALSE
