SPECIFICATION WizardsSpec
CONSTANTS
    a1 = a1
    n1 = n1
    t1 = t1
    w1 = w1
    Accounts = {a1}
    Names = {n1}
    Tables = {t1}
    RdsLimit = 0
    OldRdsLimit = 1
    Offers <- OnlyS3
    Schedules <- NineOClock
    Words = {}
    Extensions = {}
    TzOffset <- EastEight
    MaxVisits = 1
    MaxCalls = 2
    Buckets = {n1}
    RdsInstances = {n1}
    RdsTables = {t1}
    RdsTypes = {"select", "none"}
    OldSchedules <- OneDayEach
    MaxPage = 2
    MaxFetches = 1
INVARIANTS FiresAtChosenHour
CHECK_DEADLOCK FALSE
