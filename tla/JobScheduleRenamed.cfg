CONSTANTS
    ON_DEMAND = ON_DEMAND
    Unset = Unset
    Job = {j1}
    Cron = {daily, weekly}
    DefaultCron = daily
    Patches = {Unset}
    Requester = {r1}
    Operations = {"update"}
    Crashes = FALSE
    MaxRun = 2
SPECIFICATION Spec
INVARIANTS RuleFollowsSchedule
CHECK_DEADLOCK FALSE
