CONSTANTS
    IwdName <- IwdNames
    None = None
    o1 = o1
    o2 = o2
    Object <- Objects
    Run <- Runs
    Name <- Names
    MaxChanges = 2
SPECIFICATION Spec
SYMMETRY Symmetry
INVARIANTS
    TypeOK
    WaysAgree
    PrintedTrue
    MonitorKeepsUp
    ActedOnNamed
    OverviewComplete
    NoAgentMeansChanged
PROPERTY UnavailableElsewhere
