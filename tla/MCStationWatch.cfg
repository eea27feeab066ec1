SPECIFICATION FairSpec
CONSTANTS
    Network = {n1}
    None = None
    NullPath = NullPath
    Malformed = Malformed
    MaxChanges = 4
INVARIANTS TypeOK AloneWaitOutlastsScan LinesTrue
PROPERTIES ScanEndSeen EveryChangePrinted
CHECK_DEADLOCK FALSE
