SPECIFICATION Spec
CONSTANTS
    n1 = n1 n2 = n2
    Nodes <- MCNodes
    Neighbours <- MCNeighbours
    Tables <- MCTables
    TaskIds = {t1, t2}
    None = None
    K = 1
    NumMtids = 2
    MaxReqs = 1
    MaxTasks = 1
    Spare = 0
    MaxBusy = 1
    MaxQueue = 1
    MaxPending = 1
    BadAfter = 0
    MaxRsp = 1
    FirstLookup = 1
    MaxEvents = 2
INVARIANTS CallsAreAccounted
PROPERTIES TasksEnd AnnouncesGoOn
CHECK_DEADLOCK FALSE
