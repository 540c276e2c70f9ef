CONSTANTS
    j1 = j1
    d1 = d1
    d2 = d2
    s1 = s1
    p1 = p1
    p2 = p2
    w1 = w1
    NoJob = NoJob
    Job = {j1}
    Database = {d1, d2}
    Subnet = {s1}
    OnDemand = {}
    Targets <- EveryDatabase
    SubnetOf <- OneSubnet
    AdminVpc = {d1, d2}
    ThirdParty = {d1, d2}
    ConcurrentRunJobNumber = 1
    MaxRun = 1
    Launcher = {p1}
    Worker = {w1}
    Faults = {}
    UserOps = {}
SPECIFICATION FairSpec
PROPERTIES SuccessIsRecorded EventuallySettled RunEventuallyCompletes
CHECK_DEADLOCK FALSE
