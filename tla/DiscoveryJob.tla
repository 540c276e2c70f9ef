---------------------------- MODULE DiscoveryJob ----------------------------
(***************************************************************************)
(* The life of discovery jobs, their runs and the databases of a run, as   *)
(* driven by the API and Controller lambdas of the admin account           *)
(* (source/constructs/api/discovery_job, source/constructs/api/lambda).    *)
(*                                                                         *)
(* Shared state is the MySQL database (job, run and run-database rows),    *)
(* the Step Functions executions of the agent accounts, the SQS queue      *)
(* SDPS-DiscoveryJob and the EventBridge rule SDPS-CheckPending.  Every    *)
(* lambda invocation is a process: a launcher runs start_job or            *)
(* check_pending_run_databases, a worker handles one queue message, and    *)
(* stop, delete and check-running requests have their own progress         *)
(* variables.  One action is one transaction on the database or one call   *)
(* to a service, so invocations interleave where the code lets them.       *)
(***************************************************************************)
EXTENDS Integers, FiniteSets

CONSTANTS
    Job,                     \* discovery jobs
    NoJob,                   \* not a job
    Database,                \* data sources a job can scan
    Subnet,                  \* subnets of the admin VPC
    OnDemand,                \* jobs whose schedule is const.ON_DEMAND
    Targets,                 \* [Job -> SUBSET Database], what a run of the job scans
    SubnetOf,                \* [Database -> Subnet], of the Glue connection
    AdminVpc,                \* databases with is_run_in_admin_vpc
    ThirdParty,              \* databases with need_change_account_id
    ConcurrentRunJobNumber,  \* scans a subnet may carry at a time
    MaxRun,                  \* bound: number of runs created
    Launcher,                \* concurrent start_job / check_pending invocations
    Worker,                  \* concurrent queue-consumer invocations
    Faults,                  \* subset of {"launch", "rule", "sync", "crash", "duplicate"}
    UserOps                  \* subset of {"stop", "delete"}

Run == 1..MaxRun
Row == Run \X Database       \* rows of discovery_job_run_database

ASSUME JobAssumption ==
    /\ OnDemand \subseteq Job
    /\ Targets \in [Job -> SUBSET Database]
    /\ SubnetOf \in [Database -> Subnet]
    /\ ThirdParty \subseteq AdminVpc
    /\ AdminVpc \subseteq Database
    /\ ConcurrentRunJobNumber \in Nat \ {0}
    /\ MaxRun \in Nat
    /\ IsFiniteSet(Database)
    /\ NoJob \notin Job

\* JobState of common/enum.py; "DELETED" is a job without a row.
JobState == {"IDLE", "RUNNING", "OD_READY", "OD_RUNNING", "OD_STOPPING",
             "OD_COMPLETED", "DELETED"}
JobRunning == {"RUNNING", "OD_RUNNING"}

RunState == {"NONE", "RUNNING", "STOPPING", "COMPLETED"}

\* RunDatabaseState of common/enum.py; "NONE" is a row that does not exist.
\* ABORTED is a name of the Step Functions API and is never stored.
RunDatabaseState == {"NONE", "READY", "PENDING", "RUNNING", "SUCCEEDED",
                     "FAILED", "STOPPING", "STOPPED", "NOT_EXIST"}
Outcome == {"SUCCEEDED", "FAILED", "STOPPED", "NOT_EXIST"}

\* State of the execution named after a row.  REPORTED_FAILED is an execution
\* that ended normally with a Result whose State is Failed (the crawler failed).
ExecState == {"NONE", "RUNNING", "SUCCEEDED", "REPORTED_FAILED", "FAILED", "ABORTED"}

Message == [row : Row, state : Outcome]
NoMsg   == [row |-> <<0, 0>>, state |-> "NONE"]
Blank   == [x \in Row |-> "NONE"]    \* an ORM session with nothing loaded

VARIABLES
    jobState,      \* [Job -> JobState]
    runCount,      \* runs created so far; their ids are 1..runCount
    runJob,        \* [Run -> Job \cup {NoJob}]
    runState,      \* [Run -> RunState]
    dbState,       \* [Row -> RunDatabaseState], the committed state column
    exec,          \* [Row -> ExecState]
    queue,         \* visible messages of SDPS-DiscoveryJob
    pendingRule,   \* is the EventBridge rule SDPS-CheckPending enabled?
    phase,         \* [Launcher -> {"idle", "init", "launch", "abort"}]
    sjob,          \* [Launcher -> job being started]
    srun,          \* [Launcher -> run being started, 0 under check_pending]
    todo,          \* [Launcher -> rows the loop has not reached]
    view,          \* [Launcher -> states as loaded by the ORM session]
    new,           \* [Launcher -> states as assigned in the ORM session]
    count,         \* [Launcher -> [Subnet -> Nat]], count_run_database
    gone,          \* [Launcher -> jobs missing in the session's snapshot]
    failed,        \* [Launcher -> Nat], failed_run_database_count
    pendingStarted,\* [Launcher -> BOOLEAN], check_pending_started
    step,          \* [Worker -> {"idle", "count", "complete"}]
    msg,           \* [Worker -> message being handled]
    stopPhase,     \* [Job -> {"idle", "chosen", "sending"}], stop_job
    stopRun,       \* [Job -> run to stop]
    stopTodo,      \* [Job -> rows not yet stopped]
    deleting,      \* jobs whose delete request has passed its check
    watch,         \* rows a check_running invocation has still to look at
    \* History, which no guard reads:
    started,       \* [Launcher -> rows whose execution it has started]
    givenUp,       \* rows whose execution the code may lose sight of
    unwatched      \* runs that hold PENDING rows after enable_rule had raised

jobVars    == <<jobState, runCount, runJob, runState>>
launchVars == <<phase, sjob, srun, todo, view, new, count, gone, failed,
                pendingStarted>>
workVars   == <<step, msg>>
stopVars   == <<stopPhase, stopRun, stopTodo>>
history    == <<started, givenUp, unwatched>>
vars == <<jobVars, dbState, exec, queue, pendingRule, launchVars, workVars,
          stopVars, deleting, watch, history>>

----------------------------------------------------------------------------
\* Helpers

RowsOf(r) == {x \in Row : x[1] = r /\ dbState[x] # "NONE"}

StartedState(j)   == IF j \in OnDemand THEN "OD_RUNNING" ELSE "RUNNING"
CompletedState(j) == IF j \in OnDemand THEN "OD_COMPLETED" ELSE "IDLE"

\* Mutant: the job is left as it is.
MutantMarkCompleted(r) ==
    /\ runState' = [runState EXCEPT ![r] = "COMPLETED"]
    /\ UNCHANGED <<jobState, runCount, runJob>>

\* crud.complete_run: one transaction over the run and, if it exists, its job.
MarkCompleted(r) ==
    /\ runState' = [runState EXCEPT ![r] = "COMPLETED"]
    /\ jobState' = [j \in Job |->
           IF j = runJob[r] /\ jobState[j] # "DELETED"
           THEN CompletedState(j) ELSE jobState[j]]
    /\ UNCHANGED <<runCount, runJob>>

\* Running scans a subnet carries, by __count_run_database_by_subnet.
CountBySubnet(states) ==
    [s \in Subnet |-> Cardinality({x \in Row :
        states[x] = "RUNNING" /\ x[2] \in ThirdParty /\ SubnetOf[x[2]] = s})]

\* Mutant: the session is never committed.
MutantCommitted(p) == dbState

\* The committed states after an ORM session commits: only dirty rows are written.
Committed(p) == [x \in Row |-> IF new[p][x] # view[p][x] THEN new[p][x] ELSE dbState[x]]

\* The rows of a set as a freshly loaded ORM session.
Loaded(S, states) == [x \in Row |-> IF x \in S THEN states[x] ELSE "NONE"]
Session(p) == {x \in Row : view[p][x] # "NONE"}

EndLaunch(p) ==
    /\ phase' = [phase EXCEPT ![p] = "idle"]
    /\ sjob'  = [sjob EXCEPT ![p] = NoJob]
    /\ srun'  = [srun EXCEPT ![p] = 0]
    /\ todo'  = [todo EXCEPT ![p] = {}]
    /\ view'  = [view EXCEPT ![p] = Blank]
    /\ new'   = [new EXCEPT ![p] = Blank]
    /\ count' = [count EXCEPT ![p] = [s \in Subnet |-> 0]]
    /\ gone'  = [gone EXCEPT ![p] = {}]
    /\ failed' = [failed EXCEPT ![p] = 0]
    /\ pendingStarted' = [pendingStarted EXCEPT ![p] = FALSE]

----------------------------------------------------------------------------
\* start_job: crud.init_run reads the job in one step and commits the run in
\* another; the rows are then launched one by one and saved at the end.

\* Mutant: the rows are created RUNNING, before anything is started.
MutantInitStates(rows) == [x \in Row |-> IF x \in rows THEN "RUNNING" ELSE dbState[x]]

InitStates(rows) == [x \in Row |-> IF x \in rows THEN "READY" ELSE dbState[x]]

StartJob(p, j) ==
    /\ phase[p] = "idle"
    /\ jobState[j] \notin JobRunning \cup {"DELETED"}
    /\ runCount < MaxRun
    /\ phase' = [phase EXCEPT ![p] = "init"]
    /\ sjob'  = [sjob EXCEPT ![p] = j]
    /\ UNCHANGED <<jobVars, dbState, exec, queue, pendingRule, srun, todo, view,
                   new, count, gone, failed, pendingStarted, workVars, stopVars,
                   deleting, watch, history>>

InitRun(p) ==
    LET j == sjob[p]
        r == runCount + 1
        rows == {x \in Row : x[1] = r /\ x[2] \in Targets[j]}
        states == InitStates(rows)
    IN  /\ phase[p] = "init"
        /\ runCount < MaxRun
        /\ jobState[j] # "DELETED"
        /\ runCount' = r
        /\ runJob'   = [runJob EXCEPT ![r] = j]
        /\ runState' = [runState EXCEPT ![r] = "RUNNING"]
        /\ jobState' = [jobState EXCEPT ![j] = StartedState(j)]
        /\ dbState'  = states
        /\ srun'  = [srun EXCEPT ![p] = r]
        /\ todo'  = [todo EXCEPT ![p] = rows]
        /\ view'  = [view EXCEPT ![p] = Loaded(rows, states)]
        /\ new'   = [new EXCEPT ![p] = Loaded(rows, states)]
        /\ count' = [count EXCEPT ![p] = CountBySubnet(states)]
        /\ phase' = [phase EXCEPT ![p] = IF rows = {} THEN "abort" ELSE "launch"]
        /\ UNCHANGED <<exec, queue, pendingRule, sjob, gone, failed,
                       pendingStarted, workVars, stopVars, deleting, watch,
                       history>>

\* The job row vanished (or the bound on runs was reached) after it was read:
\* the UPDATE of the flush matches no row and the transaction rolls back.
InitRunFails(p) ==
    /\ phase[p] = "init"
    /\ jobState[sjob[p]] = "DELETED" \/ runCount = MaxRun
    /\ EndLaunch(p)
    /\ UNCHANGED <<jobVars, dbState, exec, queue, pendingRule, workVars, stopVars,
                   deleting, watch, history>>

\* check_pending_run_databases, fired every minute while the rule is enabled.
CheckPending(p) ==
    LET rows == {x \in Row : dbState[x] = "PENDING"}
    IN  /\ phase[p] = "idle"
        /\ pendingRule
        /\ rows # {}
        /\ phase' = [phase EXCEPT ![p] = "launch"]
        /\ todo'  = [todo EXCEPT ![p] = rows]
        /\ view'  = [view EXCEPT ![p] = Loaded(rows, dbState)]
        /\ new'   = [new EXCEPT ![p] = Loaded(rows, dbState)]
        /\ count' = [count EXCEPT ![p] = CountBySubnet(dbState)]
        /\ gone'  = [gone EXCEPT ![p] = {j \in Job : jobState[j] = "DELETED"}]
        /\ UNCHANGED <<jobVars, dbState, exec, queue, pendingRule, sjob, srun,
                       failed, pendingStarted, workVars, stopVars, deleting,
                       watch, history>>

\* __start_run_databases, one row of the loop.  A row over the limit of its
\* subnet becomes PENDING in the session only; the rule is enabled at once.
AtLimit(p, x) ==
    /\ x[2] \in AdminVpc
    /\ count[p][SubnetOf[x[2]]] >= ConcurrentRunJobNumber

\* Mutant: a launched row is not added to its subnet's count.
MutantCountOne(p, x) == count

CountOne(p, x) ==
    IF x[2] \in AdminVpc THEN [count EXCEPT ![p][SubnetOf[x[2]]] = @ + 1] ELSE count

Assign(p, x, state) ==
    /\ todo' = [todo EXCEPT ![p] = @ \ {x}]
    /\ new'  = [new EXCEPT ![p][x] = state]

\* A launcher gives a row up: another one may start its execution, or has.
GiveUp(rows) ==
    /\ givenUp' = givenUp \cup rows
    /\ UNCHANGED <<started, unwatched>>

\* Mutant: the flag tells nothing apart, and only a second row enables the rule.
MutantEnables(p) == pendingStarted[p]

\* Only the first row an invocation postpones makes it enable the rule.
Enables(p) == ~pendingStarted[p]

Postpone(p, x) ==
    /\ phase[p] = "launch" /\ x \in todo[p]
    /\ AtLimit(p, x)
    /\ Assign(p, x, "PENDING")
    /\ pendingRule' = (pendingRule \/ Enables(p))
    /\ pendingStarted' = [pendingStarted EXCEPT ![p] = TRUE]
    /\ GiveUp({y \in {x} : exec[y] = "RUNNING"})
    /\ UNCHANGED <<jobVars, dbState, exec, queue, phase, sjob, srun, view, count,
                   gone, failed, workVars, stopVars, deleting, watch>>

\* enable_rule raises, or its answer is lost.  The flag was set before the call, so
\* that the rows postponed afterwards do not try again.
EnableFails(p, x) ==
    /\ "rule" \in Faults
    /\ phase[p] = "launch" /\ x \in todo[p]
    /\ AtLimit(p, x) /\ Enables(p)
    /\ Assign(p, x, "FAILED")
    /\ failed' = [failed EXCEPT ![p] = @ + 1]
    /\ pendingStarted' = [pendingStarted EXCEPT ![p] = TRUE]
    /\ givenUp' = givenUp \cup {x}
    /\ \/ pendingRule' = TRUE /\ UNCHANGED unwatched
       \/ UNCHANGED pendingRule /\ unwatched' = unwatched \cup {x[1]}
    /\ UNCHANGED <<jobVars, dbState, exec, queue, phase, sjob, srun, view, count,
                   gone, workVars, stopVars, deleting, watch, started>>

\* start_execution is idempotent for a running execution of the same name and
\* input; a closed one, or another input, raises ExecutionAlreadyExists.
Launch(p, x) ==
    /\ phase[p] = "launch" /\ x \in todo[p]
    /\ ~AtLimit(p, x)
    /\ runJob[x[1]] \notin gone[p]
    /\ exec[x] \in {"NONE", "RUNNING"}
    /\ exec' = [exec EXCEPT ![x] = "RUNNING"]
    /\ Assign(p, x, "RUNNING")
    /\ count' = CountOne(p, x)
    /\ started' = [started EXCEPT ![p] = @ \cup {y \in {x} : exec[y] = "NONE"}]
    /\ UNCHANGED <<jobVars, dbState, queue, pendingRule, phase, sjob, srun, view,
                   gone, failed, pendingStarted, workVars, stopVars, deleting,
                   watch, givenUp, unwatched>>

\* Any other exception of the iteration: the execution exists already, the job is
\* gone, or a call failed, before or after the subnet was counted.  The failed
\* call may be a start_execution that took effect but whose answer was lost.
LaunchFails(p, x) ==
    /\ phase[p] = "launch" /\ x \in todo[p]
    /\ \/ "launch" \in Faults
       \/ ~AtLimit(p, x) /\ (exec[x] # "NONE" \/ runJob[x[1]] \in gone[p])
    /\ Assign(p, x, "FAILED")
    /\ failed' = [failed EXCEPT ![p] = @ + 1]
    /\ \/ ~AtLimit(p, x) /\ count' = CountOne(p, x)
       \/ "launch" \in Faults /\ UNCHANGED count
    /\ \/ UNCHANGED exec
       \/ /\ "launch" \in Faults /\ ~AtLimit(p, x)
          /\ exec[x] = "NONE" /\ runJob[x[1]] \notin gone[p]
          /\ exec' = [exec EXCEPT ![x] = "RUNNING"]
    /\ GiveUp({x})
    /\ UNCHANGED <<jobVars, dbState, queue, pendingRule, phase, sjob, srun, view,
                   gone, pendingStarted, workVars, stopVars, deleting, watch>>

\* sync_schema_by_job commits the shared session in the middle of the loop, when
\* the schema of a row about to be launched has changed; the commit expires the
\* session, which reads every row again.
Flush(p) ==
    LET states == Committed(p)
    IN  /\ phase[p] = "launch"
        /\ \E x \in todo[p] : x[2] \in AdminVpc /\ ~AtLimit(p, x)
        /\ view[p] # Loaded(Session(p), states) \/ new[p] # view[p]
        /\ dbState' = states
        /\ view' = [view EXCEPT ![p] = Loaded(Session(p), states)]
        /\ new'  = [new EXCEPT ![p] = Loaded(Session(p), states)]
        /\ gone' = [gone EXCEPT ![p] = {j \in Job : jobState[j] = "DELETED"}]
        /\ UNCHANGED <<jobVars, exec, queue, pendingRule, phase, sjob, srun, todo,
                       count, failed, pendingStarted, workVars, stopVars,
                       deleting, watch, history>>

\* Mutant: start_job ignores the number of failed rows.
MutantAllFailed(p) == FALSE

AllFailed(p) == srun[p] # 0 /\ failed[p] = Cardinality(Session(p))

\* save_run_databases at the end of the loop.  start_job then completes the run
\* itself if every row failed; check_pending_run_databases never does.
SaveRunDatabases(p) ==
    /\ phase[p] = "launch" /\ todo[p] = {}
    /\ dbState' = Committed(p)
    /\ IF AllFailed(p)
       THEN /\ phase' = [phase EXCEPT ![p] = "abort"]
            /\ UNCHANGED <<sjob, srun, todo, view, new, count, gone, failed,
                           pendingStarted>>
       ELSE EndLaunch(p)
    /\ UNCHANGED <<jobVars, exec, queue, pendingRule, workVars, stopVars,
                   deleting, watch, history>>

\* complete_run by start_job, because the run has no row or every row failed.
AbortRun(p) ==
    /\ phase[p] = "abort"
    /\ MarkCompleted(srun[p])
    /\ EndLaunch(p)
    /\ UNCHANGED <<dbState, exec, queue, pendingRule, workVars, stopVars,
                   deleting, watch, history>>

\* The lambda is killed (LAMBDA_MAX_RUNTIME): what the session holds is lost.
LauncherCrash(p) ==
    /\ "crash" \in Faults
    /\ phase[p] # "idle"
    /\ EndLaunch(p)
    /\ GiveUp({x \in Row : new[p][x] = "RUNNING" /\ dbState[x] # "RUNNING"})
    /\ UNCHANGED <<jobVars, dbState, exec, queue, pendingRule, workVars, stopVars,
                   deleting, watch>>

----------------------------------------------------------------------------
\* The state machine of the agent account: its last state sends the result to
\* the queue, unless the execution itself fails.

Reported == [SUCCEEDED |-> {"SUCCEEDED"}, REPORTED_FAILED |-> {"FAILED"}, FAILED |-> {}]

ExecEnds(x, end) ==
    /\ exec[x] = "RUNNING"
    /\ exec' = [exec EXCEPT ![x] = end]
    /\ queue' = queue \cup {[row |-> x, state |-> s] : s \in Reported[end]}
    /\ UNCHANGED <<jobVars, dbState, pendingRule, launchVars, workVars, stopVars,
                   deleting, watch, history>>

----------------------------------------------------------------------------
\* The queue consumer: complete_run_database, then complete_run.  A message that
\* is not deleted (the handler raised or was killed) becomes visible again.

Handled(w) ==
    /\ step' = [step EXCEPT ![w] = "idle"]
    /\ msg'  = [msg EXCEPT ![w] = NoMsg]

CompleteRunDatabase(w, m) ==
    /\ step[w] = "idle"
    /\ m \in queue
    /\ \/ queue' = queue \ {m}
       \/ "duplicate" \in Faults /\ UNCHANGED queue
    /\ \/ dbState' = [dbState EXCEPT ![m.row] = m.state]
       \/ \* sync_job_detection_result raised
          /\ "sync" \in Faults /\ m.state \in {"SUCCEEDED", "STOPPED"}
          /\ dbState' = [dbState EXCEPT ![m.row] = "FAILED"]
    /\ step' = [step EXCEPT ![w] = "count"]
    /\ msg'  = [msg EXCEPT ![w] = m]
    /\ UNCHANGED <<jobVars, exec, pendingRule, launchVars, stopVars, deleting,
                   watch, history>>

\* One snapshot gives get_job, the counts of count_run_databases and the job's
\* state: complete_run will write the job only if its state has to change.
CountRunDatabases(w) ==
    LET r == msg[w].row[1]
        j == runJob[r]
    IN  /\ step[w] = "count"
        /\ jobState[j] # "DELETED"
        /\ IF \E x \in RowsOf(r) : dbState[x] \in {"RUNNING", "PENDING"}
           THEN Handled(w)
           ELSE /\ step' = [step EXCEPT ![w] =
                       IF jobState[j] = CompletedState(j) THEN "close" ELSE "complete"]
                /\ UNCHANGED msg
        /\ UNCHANGED <<jobVars, dbState, exec, queue, pendingRule, launchVars,
                       stopVars, deleting, watch, history>>

CompleteRun(w) ==
    LET r == msg[w].row[1]
    IN  /\ step[w] \in {"complete", "close"}
        /\ jobState[runJob[r]] # "DELETED"
        /\ IF step[w] = "complete"
           THEN MarkCompleted(r)
           ELSE /\ runState' = [runState EXCEPT ![r] = "COMPLETED"]
                /\ UNCHANGED <<jobState, runCount, runJob>>
        /\ Handled(w)
        /\ UNCHANGED <<dbState, exec, queue, pendingRule, launchVars, stopVars,
                       deleting, watch, history>>

\* get_job raises, or the UPDATE of the job matches no row, once the job is
\* deleted; a worker may also be killed.
WorkerFails(w) ==
    /\ step[w] # "idle"
    /\ "crash" \in Faults \/ jobState[runJob[msg[w].row[1]]] = "DELETED"
    /\ queue' = queue \cup {msg[w]}
    /\ Handled(w)
    /\ UNCHANGED <<jobVars, dbState, exec, pendingRule, launchVars, stopVars,
                   deleting, watch, history>>

----------------------------------------------------------------------------
\* stop_job.  A run that is STOPPING may be stopped again only after
\* LAMBDA_MAX_RUNTIME, when the earlier invocation is no longer running.

StopIdle(j) ==
    /\ stopPhase' = [stopPhase EXCEPT ![j] = "idle"]
    /\ stopRun'   = [stopRun EXCEPT ![j] = 0]
    /\ stopTodo'  = [stopTodo EXCEPT ![j] = {}]

\* get_running_run: the last run that is not completed.
StopRead(j) ==
    LET running == {r \in Run : runJob[r] = j /\ runState[r] \in {"RUNNING", "STOPPING"}}
    IN  /\ "stop" \in UserOps
        /\ stopPhase[j] = "idle"
        /\ \E r \in running :
               /\ \A q \in running : q <= r
               /\ stopRun' = [stopRun EXCEPT ![j] = r]
        /\ stopPhase' = [stopPhase EXCEPT ![j] = "chosen"]
        /\ UNCHANGED <<jobVars, dbState, exec, queue, pendingRule, launchVars,
                       workVars, stopTodo, deleting, watch, history>>

\* crud.stop_run: every row of the run, whatever its state, in one transaction.
StopRun(j) ==
    LET r == stopRun[j]
    IN  /\ stopPhase[j] = "chosen"
        /\ jobState[j] # "DELETED"
        /\ dbState'  = [x \in Row |-> IF x \in RowsOf(r) THEN "STOPPING" ELSE dbState[x]]
        /\ runState' = [runState EXCEPT ![r] = "STOPPING"]
        /\ jobState' = [jobState EXCEPT ![j] = "OD_STOPPING"]
        /\ stopPhase' = [stopPhase EXCEPT ![j] = "sending"]
        /\ stopTodo'  = [stopTodo EXCEPT ![j] = RowsOf(r)]
        /\ GiveUp(RowsOf(r))
        /\ UNCHANGED <<runCount, runJob, exec, queue, pendingRule, launchVars,
                       workVars, stopRun, deleting, watch>>

\* __stop_step_function and __send_complete_run_database_message for one row.
StopRunDatabase(j, x) ==
    /\ stopPhase[j] = "sending" /\ x \in stopTodo[j]
    /\ exec' = [exec EXCEPT ![x] = IF @ = "RUNNING" THEN "ABORTED" ELSE @]
    /\ queue' = queue \cup {[row |-> x, state |-> "STOPPED"]}
    /\ IF stopTodo[j] = {x}
       THEN StopIdle(j)
       ELSE /\ stopTodo' = [stopTodo EXCEPT ![j] = @ \ {x}]
            /\ UNCHANGED <<stopPhase, stopRun>>
    /\ UNCHANGED <<jobVars, dbState, pendingRule, launchVars, workVars, deleting,
                   watch, history>>

\* The request ends early: the job was deleted before the transaction or before
\* get_job, the run has no row, or the lambda is killed.
StopEnds(j) ==
    /\ \/ stopPhase[j] # "idle" /\ "crash" \in Faults
       \/ stopPhase[j] = "chosen" /\ jobState[j] = "DELETED"
       \/ /\ stopPhase[j] = "sending" /\ stopTodo[j] = RowsOf(stopRun[j])
          /\ jobState[j] = "DELETED" \/ stopTodo[j] = {}
    /\ StopIdle(j)
    /\ UNCHANGED <<jobVars, dbState, exec, queue, pendingRule, launchVars, workVars,
                   deleting, watch, history>>

----------------------------------------------------------------------------
\* delete_job checks the state, removes the rule and the Lambda permission of
\* the job, and only then deletes its row.  The rows of its runs stay.

DeleteCheck(j) ==
    /\ "delete" \in UserOps
    /\ j \notin deleting
    /\ jobState[j] \notin JobRunning \cup {"DELETED"}
    /\ deleting' = deleting \cup {j}
    /\ UNCHANGED <<jobVars, dbState, exec, queue, pendingRule, launchVars, workVars,
                   stopVars, watch, history>>

DeleteJob(j) ==
    /\ j \in deleting
    /\ deleting' = deleting \ {j}
    /\ jobState' = [jobState EXCEPT ![j] = "DELETED"]
    /\ UNCHANGED <<runCount, runJob, runState, dbState, exec, queue, pendingRule,
                   launchVars, workVars, stopVars, watch, history>>

----------------------------------------------------------------------------
\* check_running_run_databases, every 30 minutes: reads the RUNNING rows once,
\* then asks the agent account for the execution of each.

CheckRunningRead ==
    /\ watch = {}
    /\ watch' = {x \in Row : dbState[x] = "RUNNING"}
    /\ watch' # {}
    /\ UNCHANGED <<jobVars, dbState, exec, queue, pendingRule, launchVars, workVars,
                   stopVars, deleting, history>>

\* Mutants: the status ABORTED is sent as it is; an execution that ended
\* normally counts as a success whatever its Result says.
MutantAgentResultRaw == [NONE |-> "NOT_EXIST", SUCCEEDED |-> "SUCCEEDED",
    REPORTED_FAILED |-> "FAILED", FAILED |-> "FAILED", ABORTED |-> "ABORTED"]
MutantAgentResultStatus == [NONE |-> "NOT_EXIST", SUCCEEDED |-> "SUCCEEDED",
    REPORTED_FAILED |-> "SUCCEEDED", FAILED |-> "FAILED", ABORTED |-> "STOPPED"]

\* The state sent for an execution that is not RUNNING.
AgentResult == [NONE |-> "NOT_EXIST", SUCCEEDED |-> "SUCCEEDED",
                REPORTED_FAILED |-> "FAILED", FAILED |-> "FAILED", ABORTED |-> "STOPPED"]

\* Mutant: an execution that failed is left alone too.
MutantOnItsWay(x) == exec[x] \in {"SUCCEEDED", "REPORTED_FAILED", "FAILED"}

\* An execution that ended well less than LAMBDA_MAX_RUNTIME ago is left alone:
\* its own message is still on its way.
OnItsWay(x) ==
    /\ exec[x] \in {"SUCCEEDED", "REPORTED_FAILED"}
    /\ \E m \in queue \cup {msg[w] : w \in Worker} : m.row = x

CheckRunningOne(x) ==
    /\ x \in watch
    /\ IF exec[x] = "RUNNING" \/ OnItsWay(x)
       THEN watch' = watch \ {x} /\ UNCHANGED queue
       ELSE IF jobState[runJob[x[1]]] = "DELETED"
       THEN watch' = {} /\ UNCHANGED queue     \* job.id raises: the rest is skipped
       ELSE /\ watch' = watch \ {x}
            /\ queue' = queue \cup {[row |-> x, state |-> AgentResult[exec[x]]]}
    /\ UNCHANGED <<jobVars, dbState, exec, pendingRule, launchVars, workVars,
                   stopVars, deleting, history>>

----------------------------------------------------------------------------
Init ==
    /\ jobState = [j \in Job |-> IF j \in OnDemand THEN "OD_READY" ELSE "IDLE"]
    /\ runCount = 0
    /\ runJob   = [r \in Run |-> NoJob]
    /\ runState = [r \in Run |-> "NONE"]
    /\ dbState  = Blank
    /\ exec     = Blank
    /\ queue = {}
    /\ pendingRule = FALSE
    /\ phase = [p \in Launcher |-> "idle"]
    /\ sjob  = [p \in Launcher |-> NoJob]
    /\ srun  = [p \in Launcher |-> 0]
    /\ todo  = [p \in Launcher |-> {}]
    /\ view  = [p \in Launcher |-> Blank]
    /\ new   = [p \in Launcher |-> Blank]
    /\ count = [p \in Launcher |-> [s \in Subnet |-> 0]]
    /\ gone  = [p \in Launcher |-> {}]
    /\ failed = [p \in Launcher |-> 0]
    /\ pendingStarted = [p \in Launcher |-> FALSE]
    /\ step  = [w \in Worker |-> "idle"]
    /\ msg   = [w \in Worker |-> NoMsg]
    /\ stopPhase = [j \in Job |-> "idle"]
    /\ stopRun   = [j \in Job |-> 0]
    /\ stopTodo  = [j \in Job |-> {}]
    /\ deleting = {}
    /\ watch = {}
    /\ started = [p \in Launcher |-> {}]
    /\ givenUp = {}
    /\ unwatched = {}

LauncherNext(p) ==
    \/ \E j \in Job : StartJob(p, j)
    \/ InitRun(p) \/ InitRunFails(p) \/ CheckPending(p)
    \/ \E x \in Row : Postpone(p, x) \/ EnableFails(p, x) \/ Launch(p, x) \/ LaunchFails(p, x)
    \/ Flush(p) \/ SaveRunDatabases(p) \/ AbortRun(p) \/ LauncherCrash(p)

WorkerNext(w) ==
    \/ \E m \in queue : CompleteRunDatabase(w, m)
    \/ CountRunDatabases(w) \/ CompleteRun(w) \/ WorkerFails(w)

RequestNext(j) ==
    \/ StopRead(j) \/ StopRun(j) \/ StopEnds(j)
    \/ \E x \in Row : StopRunDatabase(j, x)
    \/ DeleteCheck(j) \/ DeleteJob(j)

CheckRunningNext == CheckRunningRead \/ \E x \in Row : CheckRunningOne(x)

ExecutionNext == \E x \in Row, end \in {"SUCCEEDED", "REPORTED_FAILED", "FAILED"} : ExecEnds(x, end)

Next ==
    \/ \E p \in Launcher : LauncherNext(p)
    \/ \E w \in Worker : WorkerNext(w)
    \/ \E j \in Job : RequestNext(j)
    \/ CheckRunningNext
    \/ ExecutionNext

Spec == Init /\ [][Next]_vars

\* Fairness: the platform runs every started invocation to its end, delivers
\* visible messages, fires the two check rules again and again, and executions
\* end.  Nobody is obliged to start, stop or delete a job.
LauncherSteps(p) ==
    \/ InitRun(p) \/ InitRunFails(p)
    \/ \E x \in Row : Postpone(p, x) \/ EnableFails(p, x) \/ Launch(p, x) \/ LaunchFails(p, x)
    \/ SaveRunDatabases(p) \/ AbortRun(p)

Fairness ==
    /\ \A p \in Launcher : WF_vars(LauncherSteps(p)) /\ WF_vars(CheckPending(p))
    /\ \A w \in Worker : WF_vars(WorkerNext(w))
    /\ \A j \in Job : WF_vars(StopRun(j) \/ StopEnds(j) \/ \E x \in Row : StopRunDatabase(j, x))
    /\ WF_vars(CheckRunningRead)
    /\ \A x \in Row : WF_vars(CheckRunningOne(x))
    /\ WF_vars(ExecutionNext)

FairSpec == Spec /\ Fairness

----------------------------------------------------------------------------
\* Properties

\* The type invariant: every stored state is one of its enumeration, also the
\* states a session, a message or a worker still holds.
JobsTypeOK ==
    /\ jobState \in [Job -> JobState]
    /\ runCount \in 0..MaxRun
    /\ runJob \in [Run -> Job \cup {NoJob}]
    /\ runState \in [Run -> RunState]

RowsTypeOK ==
    /\ dbState \in [Row -> RunDatabaseState]
    /\ exec \in [Row -> ExecState]
    /\ queue \subseteq Message
    /\ pendingRule \in BOOLEAN

LaunchTypeOK ==
    /\ phase \in [Launcher -> {"idle", "init", "launch", "abort"}]
    /\ sjob \in [Launcher -> Job \cup {NoJob}]
    /\ srun \in [Launcher -> 0..MaxRun]
    /\ todo \in [Launcher -> SUBSET Row]
    /\ view \in [Launcher -> [Row -> RunDatabaseState]]
    /\ new \in [Launcher -> [Row -> RunDatabaseState]]
    /\ count \in [Launcher -> [Subnet -> Nat]]
    /\ gone \in [Launcher -> SUBSET Job]
    /\ failed \in [Launcher -> Nat]
    /\ pendingStarted \in [Launcher -> BOOLEAN]

WorkTypeOK ==
    /\ step \in [Worker -> {"idle", "count", "complete", "close"}]
    /\ msg \in [Worker -> Message \cup {NoMsg}]

RequestTypeOK ==
    /\ stopPhase \in [Job -> {"idle", "chosen", "sending"}]
    /\ stopRun \in [Job -> 0..MaxRun]
    /\ stopTodo \in [Job -> SUBSET Row]
    /\ deleting \subseteq Job
    /\ watch \subseteq Row

HistoryTypeOK ==
    /\ started \in [Launcher -> SUBSET Row]
    /\ givenUp \subseteq Row
    /\ unwatched \subseteq Run

TypeOK == JobsTypeOK /\ RowsTypeOK /\ LaunchTypeOK /\ WorkTypeOK /\ RequestTypeOK
          /\ HistoryTypeOK

\* A row is never RUNNING unless its execution was really started: the state is
\* assigned after start_execution, and neither the delayed save of a launcher
\* nor a late message may bring it about otherwise.
RunningWasStarted == \A x \in Row : dbState[x] = "RUNNING" => exec[x] # "NONE"

\* A row is SUCCEEDED only if its execution succeeded, whatever was lost, sent
\* twice, stopped, saved late or reported by check_running instead.
SuccessIsEarned == \A x \in Row : dbState[x] = "SUCCEEDED" => exec[x] = "SUCCEEDED"

\* A PENDING row is never forgotten: the rule that fires
\* check_pending_run_databases is enabled before the row is saved.  The one way the
\* code forgets it is an enable_rule that raised for an earlier row of the same run,
\* since the flag that spares the second call is set before the first.
PendingIsWatched ==
    \A x \in Row : dbState[x] = "PENDING" => pendingRule \/ x[1] \in unwatched

\* A job shown as running has a run in progress, so that it can be stopped or
\* will be completed, and is not refused by init_run for ever.
NoPhantomRunningJob ==
    \A j \in Job : jobState[j] \in JobRunning =>
        \E r \in 1..runCount : runJob[r] = j /\ runState[r] = "RUNNING"

\* A launcher, however often it is invoked and whatever the others do at the same
\* time, brings no more scans on a subnet than the configured concurrency: what it
\* has started and not yet saved is in its count, what it saved is in the next one.
\* So overlapping invocations exceed the limit at most once each.  Left out are the
\* databases the code does not count and the executions it lost sight of.
Scanning(p, s) == {x \in started[p] \ givenUp :
    exec[x] = "RUNNING" /\ x[2] \in ThirdParty /\ SubnetOf[x[2]] = s}
ScanLimit ==
    \A p \in Launcher, s \in Subnet : Cardinality(Scanning(p, s)) <= ConcurrentRunJobNumber

\* Every running execution is known to the database, or to the launcher that
\* started it and is about to save it: check_running and the subnet count can see
\* it.  The code gives a row up in four ways only: a launcher marked the row FAILED
\* (an answer got lost, or an overlapping launcher failed), postponed a row another
\* one had started, or was killed before its save; or the run of the row was stopped.
EveryExecutionTracked ==
    \A x \in Row : exec[x] = "RUNNING" =>
        \/ dbState[x] = "RUNNING"
        \/ \E p \in Launcher : x \in started[p] /\ new[p][x] = "RUNNING"
        \/ x \in givenUp

\* A completed run has no task left (the comment in complete_run).
CompletedRunHasNoRunningTask ==
    \A x \in Row : runState[x[1]] = "COMPLETED" => dbState[x] \notin {"RUNNING", "PENDING"}

\* Every database of a run comes to an outcome, once users cease to press Stop
\* (a stop resets the rows of its run, finished ones too).
Settled == {"SUCCEEDED", "FAILED", "STOPPED"}
StopsCease == <>[](\A j \in Job : stopPhase[j] = "idle")
EventuallySettled ==
    StopsCease => \A x \in Row : dbState[x] # "NONE" ~> dbState[x] \in Settled

\* A scan that succeeded ends up recorded as a success, and stays so: the delayed
\* save of a launcher that puts RUNNING over it is repaired by check_running.
SuccessIsRecorded ==
    \A x \in Row : exec[x] = "SUCCEEDED" ~> [](dbState[x] = "SUCCEEDED")

\* Every run is completed, so that its job can run again and its report is made.
RunEventuallyCompletes ==
    StopsCease => \A r \in Run : runState[r] # "NONE" ~> runState[r] = "COMPLETED"
=============================================================================
