CONSTANTS
    ON_DEMAND = ON_DEMAND
    Unset = Unset
    Job = {j1}
    Cron = {daily, weekly}
    DefaultCron = daily
    Patches = {daily, weekly, ON_DEMAND}
    Requester = {r1}
    Operations = {"update", "enable", "disable", "delete", "start", "stop"}
    Crashes = TRUE
    MaxRun = 2
SPECIFICATION Spec
INVARIANTS TypeOK NothingOutlivesJob RuleFollowsSchedule
PROPERTIES SwitchTakesEffect
CHECK_DEADLOCK FALSE
