SPECIFICATION FairSpec
CONSTANTS
    Request <- Requests
    Priority <- Priorities
    Demand <- Demands
    Maxprocs = 2
    MaxLoad = 100
    Parallelism = 3
    maxStartMachines = 2
    MaxFailures = 2
    MaxMachines = 5
INVARIANTS TypeOK MachinesListed PendingAccounted ProcsAccounted NeedAccounted TimerForOldest
PROPERTIES Served
