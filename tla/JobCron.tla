------------------------------- MODULE JobCron -------------------------------
(***************************************************************************)
(* The schedule of a discovery job, from the choice made in the wizard to  *)
(* the cron expression that is sent to the service (and becomes the        *)
(* EventBridge rule of module JobSchedule).                                *)
(***************************************************************************)
EXTENDS Integers

CONSTANT
    TzOffset    \* Date.getTimezoneOffset() / 60: UTC minus local time, in hours

ASSUME TzAssumption == TzOffset \in -14 .. 12

FrequencyTypes == {"on_demand_run", "daily", "weekly", "monthly"}

(* A day is taken from DAY_OPTIONS (0 is SUN) or from MONTH_OPTIONS; the   *)
(* state frequencyStart is shared by both selects and starts as null.      *)
Days == [of : {"week"}, n : 0 .. 6] \cup [of : {"month"}, n : 1 .. 28]
NoDay == [of |-> "none", n |-> 0]

Frequency == [type : FrequencyTypes, day : Days \cup {NoDay}, hour : 0 .. 23]

(* The five fields of a cron expression that the portal fills in.          *)
Cron(minute, hour, dom, month, dow) ==
    [minute |-> minute, hour |-> hour, dom |-> dom, month |-> month, dow |-> dow]

(* The day field of a weekly job.  SUB_WEEK_CONFIG names the day before,   *)
(* the first option becomes L, and a value it does not list is undefined.  *)
WeekField(day) ==
    CASE day.of = "week" /\ day.n = 0 -> "L"
      [] day.of = "week" /\ day.n # 0 -> day.n - 1
      [] OTHER -> "undefined"

(* The day field of a monthly job: parseInt minus one, L for the first.    *)
MonthField(day) ==
    CASE day.of = "month" /\ day.n = 1 -> "L"
      [] day.of = "month" /\ day.n # 1 -> day.n - 1
      [] OTHER -> "NaN"

(* The hour of weekly and monthly jobs.                                    *)
UtcHour(hour) == (hour - TzOffset + 24) % 24

(* The hour of daily jobs: eight hours are subtracted in every time zone.  *)
GlueDailyHour(hour) == (hour - 8) % 24

(* The value of the field "schedule" of the request of the wizard.         *)
ScheduleOf(f) ==
    CASE f.type = "on_demand_run" -> "OnDemand"
      [] f.type = "daily" -> Cron(0, GlueDailyHour(f.hour), "*", "*", "?")
      [] f.type = "weekly" -> Cron(0, UtcHour(f.hour), "?", "*", WeekField(f.day))
      [] OTHER -> Cron(0, UtcHour(f.hour), "*", MonthField(f.day), "?")

(* The same in the older wizard, whose daily jobs use the common hour.     *)
OldScheduleOf(f) ==
    CASE f.type = "on_demand_run" -> "OnDemand"
      [] f.type = "daily" -> Cron(0, UtcHour(f.hour), "*", "*", "?")
      [] f.type = "weekly" -> Cron(0, UtcHour(f.hour), "?", "*", WeekField(f.day))
      [] OTHER -> Cron(0, UtcHour(f.hour), "*", MonthField(f.day), "?")

-----------------------------------------------------------------------------
(* EventBridge fires a rule at the hour of its expression, in UTC; on the  *)
(* clock of the user that is                                               *)
LocalHour(cron) == (cron.hour - TzOffset) % 24
=============================================================================
