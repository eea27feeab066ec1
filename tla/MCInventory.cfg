SPECIFICATION FairSpec
CONSTANTS
    Caller = {t1, t2}
    Path <- MCPath
    Kind <- MCKind
    Shape <- MCShape
    Named <- MCNamed
    MaxLinks = 1
    IwdName <- MCIwdName
    None = None
INVARIANTS
    TypeOK
    EnumerationIsSnapshot
    ConnOutlivesCalls
    ClosedIsInvalid
    ChannelsAccounted
PROPERTY CloseReturns
CHECK_DEADLOCK FALSE
