----------------------------- MODULE JobSchedule -----------------------------
(***************************************************************************)
(* A scheduled discovery job and the EventBridge rule that starts it       *)
(* (source/constructs/api/discovery_job/service.py and crud.py).           *)
(*                                                                         *)
(* Creating, editing, pausing, resuming and deleting a job are requests:   *)
(* each reads the row of the job, decides which calls to make, and makes   *)
(* them one by one.  next[r] is the call request r makes next, finally[r]  *)
(* the statement on the row that ends it.  A call that raises ends the     *)
(* request, and nothing is undone.  Meanwhile rules fire, runs start and   *)
(* complete, and they write the state of the same row.                     *)
(*                                                                         *)
(* What a run does is the subject of DiscoveryJob; here it is counted.     *)
(***************************************************************************)
EXTENDS Integers

CONSTANTS
    Job,           \* discovery jobs, by id (ids are not reused)
    Cron,          \* schedule expressions
    DefaultCron,   \* default of schedule in DiscoveryJobUpdate
    ON_DEMAND,     \* const.ON_DEMAND
    Unset,         \* an edit that does not name the schedule
    Patches,       \* schedules an edit may carry, Unset included or not
    Requester,     \* concurrent requests of users
    Operations,    \* requests users make besides creating a job
    Crashes,       \* may an invocation die between two calls?
    MaxRun         \* bound: runs in progress of one job at a time

ASSUME ScheduleAssumption ==
    /\ DefaultCron \in Cron
    /\ ON_DEMAND \notin Cron
    /\ Unset \notin Cron \cup {ON_DEMAND}
    /\ Patches \subseteq Cron \cup {ON_DEMAND, Unset}
    /\ Operations \subseteq {"update", "enable", "disable", "delete", "start", "stop"}
    /\ Crashes \in BOOLEAN
    /\ MaxRun \in Nat

Schedule == Cron \cup {ON_DEMAND}

\* JobState of common/enum.py; a job that was not created yet, or that was
\* deleted, has no row.
JobState == {"NONE", "IDLE", "RUNNING", "PAUSED", "OD_READY", "OD_RUNNING",
             "OD_STOPPING", "OD_COMPLETED", "DELETED"}
JobRunning == {"RUNNING", "OD_RUNNING"}

RuleState == {"NONE", "ENABLED", "DISABLED"}

Call == {"idle", "put_rule", "put_targets", "add_permission", "update_rule",
         "remove_targets", "delete_rule", "remove_permission",
         "enable_rule", "disable_rule",
         "update_row", "enable_row", "disable_row", "delete_row"}

VARIABLES
    state,       \* [Job -> JobState], column state of discovery_job
    schedule,    \* [Job -> Schedule], its column schedule
    rule,        \* [Job -> RuleState], EventBridge rule of the job
    expression,  \* [Job -> Schedule], schedule expression of the rule
    target,      \* jobs whose rule has the Controller as target
    permission,  \* jobs whose rule may invoke the Controller
    next,        \* [Requester -> Call]
    subject,     \* [Requester -> Job], the job a request is about
    patch,       \* [Requester -> Schedule and Unset], the schedule it carries
    finally,     \* [Requester -> Call], its last statement, "idle" for none
    fired,       \* jobs with an invocation of the Controller on its way
    starting,    \* [Job -> JobState], state init_run is about to commit, or "NONE"
    live,        \* [Job -> 0..MaxRun], runs in progress
    ran,         \* jobs with a run, in progress or completed
    broken       \* history: jobs about which a request broke off

ruleVars == <<rule, expression, target, permission>>
requestVars == <<subject, patch, finally>>
runVars == <<fired, starting, live, ran>>
vars == <<state, schedule, ruleVars, next, requestVars, runVars, broken>>

Exists(j) == state[j] \notin {"NONE", "DELETED"}
Fails(r) == next' = [next EXCEPT ![r] = "idle"]
Goto(r, call) == next' = [next EXCEPT ![r] = call]

\* Request r about job j: its first call, the schedule it carries, and the
\* statement on the row that ends it.
Begin(r, j, first, s, last) ==
    /\ next' = [next EXCEPT ![r] = IF first = "idle" THEN last ELSE first]
    /\ subject' = [subject EXCEPT ![r] = j]
    /\ patch' = [patch EXCEPT ![r] = s]
    /\ finally' = [finally EXCEPT ![r] = last]

----------------------------------------------------------------------------
\* The requests, up to the decision which calls to make.

CreateJob(r, j, s) ==
    /\ next[r] = "idle"
    /\ state[j] = "NONE"
    /\ state' = [state EXCEPT ![j] = IF s = ON_DEMAND THEN "OD_READY" ELSE "IDLE"]
    /\ schedule' = [schedule EXCEPT ![j] = s]
    /\ Begin(r, j, IF s = ON_DEMAND THEN "idle" ELSE "put_rule", s, "idle")
    /\ UNCHANGED <<ruleVars, runVars, broken>>

\* job.schedule of an edit that does not name it is the default of the schema,
\* whereas the row is updated with exclude_unset.
EventSchedule(s) == IF s = Unset THEN DefaultCron ELSE s

\* Mutant: an on-demand job that becomes scheduled only gets a rule put.
MutantEventCall(old, s) ==
    IF s = old THEN "idle" ELSE IF s = ON_DEMAND THEN "remove_targets" ELSE "update_rule"

\* The calls that bring the rule from schedule old to schedule s begin here.
EventCall(old, s) ==
    CASE s = old -> "idle"
      [] s # old /\ old = ON_DEMAND -> "put_rule"
      [] s # old /\ s = ON_DEMAND -> "remove_targets"
      [] OTHER -> "update_rule"

UpdateJob(r, j, s) ==
    /\ "update" \in Operations
    /\ next[r] = "idle"
    /\ Exists(j)
    /\ Begin(r, j, EventCall(schedule[j], EventSchedule(s)), s, "update_row")
    /\ UNCHANGED <<state, schedule, ruleVars, runVars, broken>>

EnableJob(r, j) ==
    /\ "enable" \in Operations
    /\ next[r] = "idle"
    /\ schedule[j] # ON_DEMAND
    /\ state[j] = "PAUSED"
    /\ Begin(r, j, "enable_rule", Unset, "enable_row")
    /\ UNCHANGED <<state, schedule, ruleVars, runVars, broken>>

\* Mutant: the row is paused first and the rule disabled after it.
MutantDisableJob(r, j) ==
    /\ "disable" \in Operations
    /\ next[r] = "idle"
    /\ schedule[j] # ON_DEMAND
    /\ state[j] = "IDLE"
    /\ state' = [state EXCEPT ![j] = "PAUSED"]
    /\ Begin(r, j, "disable_rule", Unset, "idle")
    /\ UNCHANGED <<schedule, ruleVars, runVars, broken>>

DisableJob(r, j) ==
    /\ "disable" \in Operations
    /\ next[r] = "idle"
    /\ schedule[j] # ON_DEMAND
    /\ state[j] = "IDLE"
    /\ Begin(r, j, "disable_rule", Unset, "disable_row")
    /\ UNCHANGED <<state, schedule, ruleVars, runVars, broken>>

\* Mutant: the row is deleted first and the rule after it.
MutantDeleteJob(r, j) ==
    /\ "delete" \in Operations
    /\ next[r] = "idle"
    /\ Exists(j)
    /\ state[j] \notin JobRunning
    /\ state' = [state EXCEPT ![j] = "DELETED"]
    /\ Begin(r, j, "remove_targets", Unset, "idle")
    /\ UNCHANGED <<schedule, ruleVars, runVars, broken>>

DeleteJob(r, j) ==
    /\ "delete" \in Operations
    /\ next[r] = "idle"
    /\ Exists(j)
    /\ state[j] \notin JobRunning
    /\ Begin(r, j, "remove_targets", Unset, "delete_row")
    /\ UNCHANGED <<state, schedule, ruleVars, runVars, broken>>

----------------------------------------------------------------------------
\* The calls.  create_event: put_rule, put_targets, add_permission.

PutRule(r) ==
    LET j == subject[r]
    IN  /\ next[r] = "put_rule"
        /\ rule' = [rule EXCEPT ![j] = "ENABLED"]
        /\ expression' = [expression EXCEPT ![j] = EventSchedule(patch[r])]
        /\ Goto(r, "put_targets")
        /\ UNCHANGED <<state, schedule, target, permission, requestVars, runVars, broken>>

PutTargets(r) ==
    LET j == subject[r]
    IN  /\ next[r] = "put_targets"
        /\ IF rule[j] = "NONE"
             THEN Fails(r) /\ UNCHANGED target
             ELSE Goto(r, "add_permission") /\ target' = target \cup {j}
        /\ UNCHANGED <<state, schedule, rule, expression, permission, requestVars, runVars, broken>>

\* A statement with this id may exist: ResourceConflictException.
AddPermission(r) ==
    LET j == subject[r]
    IN  /\ next[r] = "add_permission"
        /\ IF j \in permission THEN Fails(r) ELSE Goto(r, finally[r])
        /\ permission' = permission \cup {j}
        /\ UNCHANGED <<state, schedule, rule, expression, target, requestVars, runVars, broken>>

\* update_event: put_rule without a State, which EventBridge takes as ENABLED.
UpdateRule(r) ==
    LET j == subject[r]
    IN  /\ next[r] = "update_rule"
        /\ rule' = [rule EXCEPT ![j] = "ENABLED"]
        /\ expression' = [expression EXCEPT ![j] = EventSchedule(patch[r])]
        /\ Goto(r, finally[r])
        /\ UNCHANGED <<state, schedule, target, permission, requestVars, runVars, broken>>

\* delete_event: a missing rule or permission is only logged, but a rule that
\* got a target again is not deleted.
RemoveTargets(r) ==
    /\ next[r] = "remove_targets"
    /\ target' = target \ {subject[r]}
    /\ Goto(r, "delete_rule")
    /\ UNCHANGED <<state, schedule, rule, expression, permission, requestVars, runVars, broken>>

DeleteRule(r) ==
    LET j == subject[r]
    IN  /\ next[r] = "delete_rule"
        /\ IF j \in target
             THEN Fails(r) /\ UNCHANGED rule
             ELSE Goto(r, "remove_permission") /\ rule' = [rule EXCEPT ![j] = "NONE"]
        /\ UNCHANGED <<state, schedule, expression, target, permission, requestVars, runVars, broken>>

RemovePermission(r) ==
    /\ next[r] = "remove_permission"
    /\ permission' = permission \ {subject[r]}
    /\ Goto(r, finally[r])
    /\ UNCHANGED <<state, schedule, rule, expression, target, requestVars, runVars, broken>>

\* enable_rule and disable_rule raise for a missing rule.
SwitchRule(r, call, new) ==
    LET j == subject[r]
    IN  /\ next[r] = call
        /\ IF rule[j] = "NONE"
             THEN Fails(r) /\ UNCHANGED rule
             ELSE Goto(r, finally[r]) /\ rule' = [rule EXCEPT ![j] = new]
        /\ UNCHANGED <<state, schedule, expression, target, permission, requestVars, runVars, broken>>

EnableRule(r) == SwitchRule(r, "enable_rule", "ENABLED")
DisableRule(r) == SwitchRule(r, "disable_rule", "DISABLED")

----------------------------------------------------------------------------
\* The statements on the row.  Each filters on what it needs and raises, with
\* nothing written, when it matches no row.

UpdateRow(r) ==
    LET j == subject[r]
    IN  /\ next[r] = "update_row"
        /\ schedule' = [schedule EXCEPT ![j] =
               IF Exists(j) /\ patch[r] # Unset THEN patch[r] ELSE schedule[j]]
        /\ Goto(r, "idle")
        /\ UNCHANGED <<state, ruleVars, requestVars, runVars, broken>>

SwitchRow(r, call, old, new) ==
    LET j == subject[r]
    IN  /\ next[r] = call
        /\ state' = [state EXCEPT ![j] = IF state[j] = old THEN new ELSE state[j]]
        /\ Goto(r, "idle")
        /\ UNCHANGED <<schedule, ruleVars, requestVars, runVars, broken>>

\* Mutant: the row of the job is given the state of the rule.
MutantEnableRow(r) == SwitchRow(r, "enable_row", "PAUSED", "ENABLED")

EnableRow(r) == SwitchRow(r, "enable_row", "PAUSED", "IDLE")
DisableRow(r) == SwitchRow(r, "disable_row", "IDLE", "PAUSED")

\* crud.delete_job filters on the id only.
DeleteRow(r) ==
    /\ next[r] = "delete_row"
    /\ state' = [state EXCEPT ![subject[r]] = "DELETED"]
    /\ Goto(r, "idle")
    /\ UNCHANGED <<schedule, ruleVars, requestVars, runVars, broken>>

\* The invocation dies, or a call fails for a reason of its own.
Crash(r) ==
    /\ Crashes
    /\ next[r] # "idle"
    /\ Goto(r, "idle")
    /\ UNCHANGED <<state, schedule, ruleVars, requestVars, runVars>>
    /\ broken' = broken \cup {subject[r]}

----------------------------------------------------------------------------
\* Rules fire and runs start and end.

\* EventBridge invokes the Controller asynchronously.
RuleFires(j) ==
    /\ rule[j] = "ENABLED"
    /\ j \in target \cap permission
    /\ fired' = fired \cup {j}
    /\ UNCHANGED <<state, schedule, ruleVars, next, requestVars, starting, live, ran, broken>>

\* init_run reads the job and will commit the state that follows from it.
ReadJob(j) ==
    /\ starting[j] = "NONE"
    /\ Exists(j)
    /\ state[j] \notin JobRunning
    /\ live[j] < MaxRun
    /\ starting' = [starting EXCEPT ![j] =
           IF schedule[j] = ON_DEMAND THEN "OD_RUNNING" ELSE "RUNNING"]

\* start_job of an invocation by the schedule, which may come late.
ScheduleJob(j) ==
    /\ j \in fired
    /\ ReadJob(j)
    /\ fired' = fired \ {j}
    /\ UNCHANGED <<state, schedule, ruleVars, next, requestVars, live, ran, broken>>

\* start_job by a user (Execute once, which the portal hides for paused jobs).
StartJob(j) ==
    /\ "start" \in Operations
    /\ state[j] # "PAUSED"
    /\ ReadJob(j)
    /\ UNCHANGED <<state, schedule, ruleVars, next, requestVars, fired, live, ran, broken>>

\* A job that runs already, or has no row, is left alone.
StartRefused(j) ==
    /\ j \in fired
    /\ ~ Exists(j) \/ state[j] \in JobRunning
    /\ fired' = fired \ {j}
    /\ UNCHANGED <<state, schedule, ruleVars, next, requestVars, starting, live, ran, broken>>

\* init_run commits, whatever the state has become; a deleted row rolls it back.
InitRun(j) ==
    /\ starting[j] # "NONE"
    /\ IF Exists(j)
         THEN /\ state' = [state EXCEPT ![j] = starting[j]]
              /\ live' = [live EXCEPT ![j] = @ + 1]
              /\ ran' = ran \cup {j}
         ELSE UNCHANGED <<state, live, ran>>
    /\ starting' = [starting EXCEPT ![j] = "NONE"]
    /\ UNCHANGED <<schedule, ruleVars, next, requestVars, fired, broken>>

StopRun(j) ==
    /\ "stop" \in Operations
    /\ live[j] > 0
    /\ Exists(j)
    /\ state' = [state EXCEPT ![j] = "OD_STOPPING"]
    /\ UNCHANGED <<schedule, ruleVars, next, requestVars, runVars, broken>>

\* crud.complete_run: the state follows from the schedule of the day, whatever
\* it was.
JobEnds(j) ==
    state' = [state EXCEPT ![j] =
        CASE ~ Exists(j) -> state[j]
          [] Exists(j) /\ schedule[j] = ON_DEMAND -> "OD_COMPLETED"
          [] OTHER -> "IDLE"]

CompleteRun(j) ==
    /\ live[j] > 0
    /\ live' = [live EXCEPT ![j] = @ - 1]
    /\ JobEnds(j)
    /\ UNCHANGED <<schedule, ruleVars, next, requestVars, fired, starting, ran, broken>>

\* A late or repeated message completes a run that was completed before.
CompleteAgain(j) ==
    /\ j \in ran
    /\ JobEnds(j)
    /\ UNCHANGED <<schedule, ruleVars, next, requestVars, runVars, broken>>

----------------------------------------------------------------------------
Init ==
    /\ state = [j \in Job |-> "NONE"]
    /\ schedule = [j \in Job |-> ON_DEMAND]
    /\ rule = [j \in Job |-> "NONE"]
    /\ expression = [j \in Job |-> ON_DEMAND]
    /\ target = {}
    /\ permission = {}
    /\ next = [r \in Requester |-> "idle"]
    /\ subject \in [Requester -> Job]
    /\ patch = [r \in Requester |-> Unset]
    /\ finally = [r \in Requester |-> "idle"]
    /\ fired = {}
    /\ starting = [j \in Job |-> "NONE"]
    /\ live = [j \in Job |-> 0]
    /\ ran = {}
    /\ broken = {}

Request(r, j) ==
    \/ \E s \in Schedule : CreateJob(r, j, s)
    \/ \E s \in Patches : UpdateJob(r, j, s)
    \/ EnableJob(r, j)
    \/ DisableJob(r, j)
    \/ DeleteJob(r, j)

ServiceCall(r) ==
    \/ PutRule(r) \/ PutTargets(r) \/ AddPermission(r)
    \/ UpdateRule(r)
    \/ RemoveTargets(r) \/ DeleteRule(r) \/ RemovePermission(r)
    \/ EnableRule(r) \/ DisableRule(r)

RowStatement(r) == UpdateRow(r) \/ EnableRow(r) \/ DisableRow(r) \/ DeleteRow(r)

RunNext(j) ==
    \/ RuleFires(j) \/ ScheduleJob(j) \/ StartRefused(j)
    \/ StartJob(j) \/ InitRun(j)
    \/ StopRun(j) \/ CompleteRun(j) \/ CompleteAgain(j)

Next ==
    \/ \E r \in Requester, j \in Job : Request(r, j)
    \/ \E r \in Requester : ServiceCall(r) \/ RowStatement(r) \/ Crash(r)
    \/ \E j \in Job : RunNext(j)

Spec == Init /\ [][Next]_vars

----------------------------------------------------------------------------
\* Type invariant: rows, rules and requests hold values of their enumerations;
\* Unset never becomes the schedule of a row or the expression of a rule.
TypeOK ==
    /\ state \in [Job -> JobState]
    /\ schedule \in [Job -> Schedule]
    /\ rule \in [Job -> RuleState]
    /\ expression \in [Job -> Schedule]
    /\ target \subseteq Job
    /\ permission \subseteq Job
    /\ next \in [Requester -> Call]
    /\ subject \in [Requester -> Job]
    /\ patch \in [Requester -> Schedule \cup {Unset}]
    /\ finally \in [Requester -> {"idle", "update_row", "enable_row", "disable_row", "delete_row"}]
    /\ fired \subseteq Job
    /\ starting \in [Job -> {"NONE"} \cup JobRunning]
    /\ live \in [Job -> 0..MaxRun]
    /\ ran \subseteq Job
    /\ broken \subseteq Job

\* create_job writes the row before the rule and delete_job removes the rule
\* before the row: whatever call fails in between, and however often it is
\* tried again, no rule, target or permission exists without its job.
NothingOutlivesJob ==
    \A j \in Job : ~ Exists(j) => rule[j] = "NONE" /\ j \notin target /\ j \notin permission

\* disable_job and enable_job switch the rule before the row: when a job
\* becomes paused its rule is disabled already, and when a request (not the
\* completion of a run) makes a paused job active its rule is enabled already,
\* although either request may die half-way and be tried again.
SwitchTakesEffect ==
    [][\A j \in Job :
           /\ state[j] # "PAUSED" /\ state'[j] = "PAUSED" => rule[j] = "DISABLED"
           /\ state[j] = "PAUSED" /\ state'[j] = "IDLE" /\ next' # next => rule[j] = "ENABLED"]_vars

\* No request about the job is in progress and no start has read its row.
Quiet(j) ==
    /\ \A r \in Requester : subject[r] = j => next[r] = "idle"
    /\ starting[j] = "NONE"

\* The rule of a job fires as the row of the job says: an on-demand job has no
\* rule, a scheduled one has a complete rule with its own expression, however the
\* job was edited, paused and run, unless a request about it broke off.
RuleFollowsSchedule ==
    \A j \in Job \ broken : Exists(j) /\ Quiet(j) =>
        IF schedule[j] = ON_DEMAND
          THEN rule[j] = "NONE"
          ELSE /\ rule[j] # "NONE"
               /\ expression[j] = schedule[j]
               /\ j \in target \cap permission

\* "choosing Pause will prevent the discovery job from being executed"
\* (user guide): the schedule of a paused job does not fire.
PausedDoesNotFire ==
    \A j \in Job : state[j] = "PAUSED" /\ Quiet(j) => rule[j] # "ENABLED"
=============================================================================
