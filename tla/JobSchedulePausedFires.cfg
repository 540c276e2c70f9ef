CONSTANTS
    ON_DEMAND = ON_DEMAND
    Unset = Unset
    Job = {j1}
    Cron = {daily, weekly}
    DefaultCron = daily
    Patches = {weekly}
    Requester = {r1}
    Operations = {"update", "disable"}
    Crashes = FALSE
    MaxRun = 2
SPECIFICATION Spec
INVARIANTS PausedDoesNotFire
CHECK_DEADLOCK FALSE
