CONSTANTS
    r1 = r1  r2 = r2  r3 = r3
    s1 = s1  s2 = s2  s3 = s3
    Reg = {r1, r2}
    Sig = {s1, s2}
    Closer = {c1}
    Cap = 1
    Star = "*"
    NoMember = ""
    OwnPath = "/own"
    Free = Free
    None = None
    Pattern <- MCPattern
    Topic <- MCTopic
    Header <- MCHeader
    Foreign <- MCForeign
    Nameless <- MCNameless
SPECIFICATION Spec
INVARIANT OwnObjectOnly
CHECK_DEADLOCK FALSE
