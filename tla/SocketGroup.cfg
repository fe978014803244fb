CONSTANTS
    s1 = s1  s2 = s2  s3 = s3
    Sockets <- MCSockets
    Groups <- MCGroups
    GroupOf <- MCGroupOf
    Limited = {1}
    MaxAllowance = 3
    MaxAvail = 2
SPECIFICATION FairSpec
CHECK_DEADLOCK FALSE
INVARIANTS
    LimitsAreKept
PROPERTIES
    UpdateEnds
