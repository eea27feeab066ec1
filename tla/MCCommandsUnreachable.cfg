CONSTANTS
    IwdName <- IwdNames
    None = None
    o1 = o1
    o2 = o2
    Object <- Objects
    Run <- Runs
    Name <- Names
    MaxChanges = 1
SPECIFICATION Spec
INVARIANT UnreachableIsUnavailable
