# Verification of Sensitive Data Protection on AWS

TLA+ models, TLC runs and TLAPS proofs of the program under `src/source`. The
program runs in an *admin account* (a FastAPI lambda and a Controller lambda over
one MySQL database) and in many *agent accounts* (Step Functions, Glue jobs,
crawlers). People press buttons in a portal; schedules, queues and executions
press the rest, concurrently. Paths below are relative to
`src/source/constructs` unless they start with `src/`; those of the portal
(`portal/`, `pages/`, `common/`, `tools/`) are below `src/source` or
`src/source/portal/src`.

## 1. Inventory

| Component | Code | State it keeps | Operations | What makes it correct |
|---|---|---|---|---|
| Discovery jobs | `api/discovery_job` | rows of job, run and run-database; their `state` columns | create, update, delete, start, stop, enable, disable, `complete_run_database`, `complete_run`, `check_pending…`, `check_running…` | stored states agree with what really runs; every run ends; a job is never stuck |
| Queue and schedules | `lib/admin/api-stack.ts`, `lib/admin/sqs-stack.ts`, `api/lambda/controller.py` | queue `SDPS-DiscoveryJob` and its dead-letter queue, rule `SDPS-CheckPending` (initially disabled), a rule firing check-running every 30 minutes, one rule per scheduled job | deliver, redeliver, fire, kill after 900 s | no result is lost or applied to the wrong run |
| Agent state machine | `lib/agent/DiscoveryJob.json` | one execution per run-database: crawler, split, Glue jobs, processing job | start, stop, describe | ends, and ends with a message unless it fails |
| SplitJob | `lib/agent/split-job/split_job.py` | none | divides tables among Glue jobs | every table in one item, none twice |
| Data sources | `api/data_source` | source rows with glue state, Glue connections, crawlers, secrets; Lake Formation grants | connect, hide, delete, delete catalog, refresh, import | no orphan resources, no deletion under a running job |
| Catalog | `api/catalog`, `api/lambda/sync_crawler_results.py` | database, table and column rows with labels and identifiers | sync crawler result, sync detection result, manual edits, delete | results agree with the last crawl and job, manual edits survive |
| Templates | `api/template` | identifiers, mappings, `snapshot_no`, snapshots in S3 | edit, snapshot | the snapshot a run names exists and is what was configured |
| Accounts | `api/data_source/service.py`, `api/organization`, `api/lambda/auto_sync_data.py` | account rows | add, refresh, delete | nothing of a deleted account stays or comes back |
| Reports, progress | `api/discovery_job/service.py` | an Excel object per run | generate, download | a report shows a completed run |
| Labels, config, search, version | `api/label`, `api/config`, `api/search`, `api/version` | one table each | CRUD | single statements |
| Detection | `config/job/script`, `src/source/containers` | S3 objects, Athena tables | scan | numerical work, not for TLC |
| Portal: requests | `src/source/portal/src/tools/apiRequest.tsx`, `apis` | the calls under way | send, intercept, resolve or reject | every call is settled, and what a page concludes from the answer is true |
| Portal: wizards | `portal/src/pages/create-job` | the job that is put together, the step, the calls of the submission | choose, jump, submit, leave, come back | one job per visit, with something to scan, at the chosen time |
| Portal: tables | the lists of sources, jobs, runs, catalogs, identifiers, accounts | page, filter, rows, selection, spinner, requests under way | page, filter, order, tick, refresh, operate | rows and selection are those the user sees selected |
| Portal: forms and dialogs | JDBC, labels, categories, identifiers, columns, settings, accounts, batches | the fields, a copy that is sent, flags | type, search, save, close | what is saved is what is shown and was validated, and once |
| CDK stacks, migrations | `lib`, `lib/admin/database` | none of their own | | constants of the models |

How they interact: the API and the Controller share the MySQL rows, each
invocation with one ORM session (`autocommit=False, autoflush=False`), so a
service function is a *sequence of transactions*. `start_job` writes rows, calls
Step Functions in the agent account for each database, and saves at the end. The
execution answers through SQS, the Controller consumes the message and completes
the row and then the run. `check_pending` and `check_running` repair what was
postponed or lost. `stop_job` and `delete_job` interfere at any point.

The portal is a React application: handlers run to the end, but every `await` is
a point where the user, or another answer, goes first. A handler that resumes
works with the values of the render it was made in. No request is ever
cancelled, and an answer is used whenever it comes.

What is hard: invocations overlap at every commit and every remote call; the
launch loop holds loaded rows for minutes; messages are late, repeated or
never sent; lambdas are killed after 900 seconds; limits are checked against
counts that are already stale; and in the browser answers overtake one another,
belong to another page of a table by the time they come, or never come.
`PROJECT.json` lists the hazards one by one with
their lines, and the properties that cover them.

## 2. Plan

The parts were modelled in this order:

1. **DiscoveryJob**: the life of jobs, runs and rows. It is the core: it has most
   of the concurrency and all other parts hang off it.
2. **JobSchedule**: the EventBridge rule of a job against the job's state, call
   by call.
3. **DiscoveryStateMachine** and **SplitJob**: the scan of one database in the
   agent account, and **ExecutionContract**, the abstract execution that it
   implements.
4. **ApiClient**, **JobCron**, **JobWizard**, **JobWizardOld** and their
   composition **JobWizards**: from the choice of the user to the job and its cron
   expression.
5. **TableRequests** and the pages of the portal, one module each, composed in
   **PortalPages**.

Runs are few and each asks a question of its own. What could still be added, and
why it is not here, is in section 11.

## 3. DiscoveryJob

### Correspondence with the code

| Variable | Code |
|---|---|
| `jobState`, `runJob`, `runState`, `dbState` | `state` columns of job, run and run-database (`db/models_discovery_job.py`), the committed values; `runCount` is the run id sequence; `"DELETED"` and `"NONE"` are missing rows |
| `exec` | the Step Functions execution named after the row (`__exec_run`) |
| `queue` | visible messages of `SDPS-DiscoveryJob`; `msg`, `step`: a consumer between its transactions |
| `pendingRule` | is `SDPS-CheckPending` enabled |
| `phase`, `sjob`, `srun`, `todo`, `view`, `new`, `count`, `gone`, `failed`, `pendingStarted` | locals and ORM session of one `start_job` or `check_pending` invocation: states as loaded (`view`), as assigned (`new`), subnet counts, failures, the flag `check_pending_started` |
| `stopPhase`, `stopRun`, `stopTodo`, `deleting`, `watch` | `stop_job`, `delete_job` and `check_running` in progress |
| `started`, `givenUp`, `unwatched` | history, which no guard reads: the executions a launcher has started, the rows whose execution the code may lose, the runs that hold pending rows after `enable_rule` had raised |

One action is one transaction or one remote call with the local assignments that
go with it:

| Actions | Code |
|---|---|
| `StartJob`, `InitRun`, `InitRunFails` | `init_run`: the check, then the commit of run, rows and job |
| `CheckPending`, `Postpone`, `EnableFails`, `Launch`, `LaunchFails`, `Flush`, `SaveRunDatabases`, `AbortRun` | `__start_run_databases` row by row, the call that enables the rule and its failure, `sync_schema_by_job`'s commit in the middle, the save, `complete_run` by `start_job` |
| `LauncherCrash` | the invocation is killed |
| `ExecEnds` | the state machine ends, with or without a message |
| `CompleteRunDatabase`, `CountRunDatabases`, `CompleteRun`, `WorkerFails` | one SQS record in `__deal_sqs` |
| `StopRead`, `StopRun`, `StopRunDatabase`, `StopEnds` | `stop_job` |
| `DeleteCheck`, `DeleteJob` | `delete_job` |
| `CheckRunningRead`, `CheckRunningOne` | `check_running_run_databases` |

### Abstractions

- A save writes only the rows the session changed (SQLAlchemy's dirty check):
  `Committed`. The same check makes `complete_run` skip the job when its loaded
  state is already the final one: step `"close"`. In `stop_run` the job is taken
  as always written.
- Jobs have `range` full: `update_job_database_base_time` is left out. PAUSED
  and the per-job rule belong to JobSchedule, sample jobs are left out.
- The commit of `init_run` and the reads that follow it in the same invocation
  are one step; so are the execution's SendMessage and its end.
- The queue is a set of messages, so two equal ones are one; the fault
  `"duplicate"` keeps a message after it was received, which also stands for a
  batch that is delivered again. 50 receives and the dead-letter queue are not
  modelled.
- Time is absent. "Stopped less than 900 seconds ago" is `OnItsWay` (the
  execution's message is still queued or in hand); that a second stop waits 900
  seconds is one stopper per job. The schedules may fire at any time they are
  enabled.
- `Faults` selects what may go wrong: `"launch"` (any call of an iteration fails,
  or its answer is lost), `"rule"` (`enable_rule` raises, or its answer is lost),
  `"sync"` (`sync_job_detection_result` raises), `"crash"`, `"duplicate"`.
  `UserOps` selects stop and delete.

### Runs

Model values only; every database is a target of the job and all share one subnet
with one place, so that one of two has to wait. `MaxRun` bounds the runs created.
One launcher already interleaves with consumers, stops and checks; two launchers
give overlapping starts and check-pending invocations. Two databases are what a
run needs for "one finishes while another has not started", two runs what a late
message of an earlier run needs.

| Run | Instance | Properties |
|---|---|---|
| `DiscoveryJobOneDatabase` | 1 database, 1 run, 2 launchers, all faults, stop and delete | `TypeOK`, `RunningWasStarted`, `SuccessIsEarned`, `EveryExecutionTracked` |
| `DiscoveryJobLimit` | 2 databases, 2 runs, 1 launcher, `"rule"` faults, delete | `NoPhantomRunningJob`, `PendingIsWatched`, `ScanLimit` |
| `DiscoveryJobSettles` | 2 databases, fairness, no faults | `SuccessIsRecorded`, `EventuallySettled`, `RunEventuallyCompletes` |
| `DiscoveryJobStopSettles` | 1 database, fairness, launch and catalog failures, stops | `EventuallySettled`, `RunEventuallyCompletes` |

`SuccessIsRecorded` is about the late save of a launcher: it may put RUNNING over a
SUCCEEDED that was committed meanwhile, or a message may find the row still READY, but
in the end the row of a scan that succeeded is SUCCEEDED and stays so, because
check_running sends the result again.

`DiscoveryJobCompletedEarly` shows the code doing other than what a comment says
(READY rows do not keep a run open); it is a finding in `PROJECT.json`.

Three properties name what the code gives up, so that they hold under every fault and
every overlap and fail on any further loss:

- `EveryExecutionTracked` allows a running execution that is neither in the database
  nor with its launcher only for rows in `givenUp`: a launcher marked the row FAILED
  (the answer of `start_execution` was lost, or an overlapping launcher failed on it),
  postponed a row another one had started, or was killed before its save; or the run of
  the row was stopped.
- `PendingIsWatched` allows a PENDING row with the rule off only in a run in
  `unwatched`. The flag `check_pending_started` is set before the one call to
  `enable_rule`: if that raises, the row it was made for is FAILED and the rows postponed
  after it are saved PENDING with the rule off. They wait until another run enables it.
- `ScanLimit` is the limit of one launcher over all its invocations, while others do
  anything: two launchers that overlap count before either saves, and together exceed
  the configured number. Databases that the code does not count
  (`need_change_account_id` is false) are left out.

Liveness has its limits, too. With `"launch"` or `"rule"` faults and several databases a
run may stay open for ever: a pending row that fails in a check-pending invocation sends
no message, and nothing else completes the run. So `DiscoveryJobSettles` has no faults,
and `DiscoveryJobStopSettles` has one database. These limits are hazards in
`PROJECT.json`; no text of the repository excludes them.

### Fairness

Lambda runs every invocation to its end, SQS delivers visible messages,
EventBridge fires the two check rules again and again, and executions end (weak
fairness of `LauncherSteps`, `CheckPending`, `WorkerNext`, the steps of a stop,
`CheckRunning…`, `ExecutionNext`). Starting, stopping, deleting, faults and the
schema `Flush` are never forced. A user who presses Stop for ever resets the
rows for ever, hence `StopsCease`. Deadlock checking is off: a system with no
request and no message has nothing to do.

## 4. JobSchedule

A scheduled job is a row and an EventBridge rule with a target and a permission.
No transaction spans them.

| Variable | Code |
|---|---|
| `state`, `schedule` | columns of the job's row |
| `rule`, `expression`, `target`, `permission` | the rule `SDPS-Controller-<id>`, its schedule expression, the Controller as its target, the Controller's permission for it |
| `next`, `subject`, `patch`, `finally` | a request in progress: its next call, its job, the schedule it carries, the statement that ends it |
| `fired`, `starting`, `live`, `ran` | invocations on their way, a start between its read and its commit, runs in progress, jobs that had a run |
| `broken` | history: a request about the job broke off |

| Actions | Code |
|---|---|
| `CreateJob`, `UpdateJob`, `EnableJob`, `DisableJob`, `DeleteJob` | the service functions up to the decision which calls to make |
| `PutRule`, `PutTargets`, `AddPermission` | `create_event` |
| `UpdateRule` | `update_event` |
| `RemoveTargets`, `DeleteRule`, `RemovePermission` | `delete_event` |
| `EnableRule`, `DisableRule` | the boto3 calls of `enable_job`, `disable_job` |
| `UpdateRow`, `EnableRow`, `DisableRow`, `DeleteRow` | the statements of `crud.py` |
| `Crash` | the invocation dies, or a call raises for its own reasons |
| `RuleFires`, `ScheduleJob`, `StartJob`, `StartRefused`, `InitRun` | EventBridge, the Controller and `init_run` |
| `StopRun`, `CompleteRun`, `CompleteAgain` | `stop_run` and `complete_run` as far as they write the job |

Abstractions: a run is counted, its inside is DiscoveryJob; an explicit null
schedule is left out; EventBridge answers as its API says (a rule put without a
State is enabled, a rule with targets is not deleted, an existing permission is a
conflict). "Execute once" is not offered by the portal for a paused job, which is
a guard of `StartJob`.

| Run | Question |
|---|---|
| `JobScheduleHistories` | every request, one at a time, broken off anywhere and tried again, 2 runs in progress: `TypeOK`, `NothingOutlivesJob`, `RuleFollowsSchedule`, `SwitchTakesEffect` |
| `JobScheduleRenamed` | finding: an edit that does not name the schedule changes the rule to the default |
| `JobSchedulePausedFires` | finding: a new schedule enables the rule of a paused job |

One job is enough since jobs share nothing but the requester, two schedules so
that one differs from the default. One requester because the property is false
with two: an edit that creates a rule overlaps with the deletion of the job, and
nothing serialises requests (a hazard). `Patches` of the first run leaves out
`Unset`, which is the first finding. No liveness: a request that breaks off is
never repaired by the code, so no fairness is stated.

## 5. DiscoveryStateMachine, SplitJob, ExecutionContract

`ExecutionContract` says what the admin account relies on: an execution starts
once, ends normally with exactly one message that agrees with its end, or fails or
is stopped with none. `DiscoveryStateMachine` implements it, checked and proved as its
`KeepsContract`. In `DiscoveryJob` an execution is one variable, `exec`, that `Launch`,
`ExecEnds` and `StopRunDatabase` change as the contract says, by construction.

| Variable | Code |
|---|---|
| `exec`, `sent`, `input` | status of the execution, `Result.State` of its message, what `__exec_run` gave it |
| `at`, `todo` | the state each of the two parallel branches is at, the items of its Map that are not finished |
| `proc` | its SageMaker processing job |
| `crawler`, `lastCrawl`, `others` | the crawler of the data source, shared by all executions on it; crawls and parsers anybody else starts |
| `catalog` | the tables of the two Glue databases of the source |
| `seen`, `scanned`, `erred`, `moved`, `crawled` | history: the catalog that was split, which Glue job left results or an entry in the error table for which table, catalogs that changed during a Map, executions that saw a crawl succeed |

An action is a Task state of `DiscoveryJob.json` with the Choice states that
follow it, under the name of the state (`SplitTables` is `SplitJob` and
`SplitJobUnstructured`). `GlueJob` is one element of the Map, `SendMessage` the
last state with the merge of the two results before it. `TaskFails` is a Task
whose retries are used up, which ends the execution, since no state catches
errors; `StopExecution` is `__stop_step_function`. The crawler, the processing job
and other scans of the source (`CrawlEnds`, `ProcessingJobEnds`, `OtherCrawl`,
`OtherParser`) are the environment.

A `GlueJob` takes the tables of its item one by one. What the detection raises for a
table is caught, the table is named in the error table, and the job succeeds all the
same; so a success of the execution says that every table was *taken*, by one Glue job
(`EveryTableTakenOnce`), and not that every table has results. A job that is started
again after a failed attempt begins anew, and a table may end up with both.

`SplitJob` has the arithmetic of `split_job.py` as operators. Its loop with a
`break` is a set comprehension: the ranges after the first empty one are empty.

Abstractions: Wait and Pass states have no effect of their own; the retries of a
Task are one failure; a Glue job is one step, at the moment it lists the tables;
a crawl or a parser replaces the catalog when it ends; one number of Glue jobs for
both branches; `range` full, so every classified table counts; schema messages
are the subject of the Catalog.

Run `DiscoveryStateMachine`: one execution over an S3 bucket in both branches or
in one, two tables by name, one of which is gone, or a Glue catalog; catalogs of none
and of three tables for two Glue jobs, so that a Map is skipped, has one item (of
names), and has a last item that is cut off. Other executions on the source are `MaxOther` = 2 crawls and
parsers: one that is joined and one that takes the crawler between `GetCrawler`
and `StartCrawler`. Faults are failing tasks, StopExecution and cancelled crawls.

Fairness: Step Functions takes the steps of a branch, crawls and processing jobs
end, and `CrawlerRunningException` is raised finitely often (700 seconds of
retries). A processing job that somebody stops (`"stopParser"`) is neither
Completed nor Failed for `Job Complete?` and the execution waits for ever: the run
excludes it and a hazard names it. So is the catalog that changes while the Glue
jobs list it (`moved`): positions shift and `EveryTableTakenOnce` is not
claimed then.

## 6. The requests of the portal

`ApiClient` is `tools/apiRequest.tsx`. A call ends on the wire in one of four ways
(`Wire`); the interceptor turns an axios error into a missing response, and
`apiRequest` resolves with a success and rejects all else (`ApiResult`). So every
call is settled, and a rejected one may have been performed (`PerformedBy`). Every
page awaits its calls through these operators. A call that the page leaves
unanswered for as long as it is mounted is one that is still under way.

One action is what runs between two awaits: a handler up to its `await`, or what
comes after it, with the effects React runs for the state that was changed. A
handler that resumes uses the values of its render, which the models keep with the
call (`params`, `row`, `visit`).

## 7. Wizards for discovery jobs

| Module | Code |
|---|---|
| `JobWizard` | `create-job/index.tsx` and its five steps; `ui` is the record `jobData`, the step and the mounted component, `calls` what became of `createJob` and `startJob` |
| `JobWizardOld` | `create-job/indexOld.tsx`, still routed at `/createjob-old` |
| `JobCron` | the cron expression of both, in hours of UTC |
| `JobWizards` | both beside each other; a behaviour uses one of them |

`Open` mounts the wizard and `Leave` unmounts it with its calls under way: their
handlers still navigate and lower a flag that is gone. `Navigate` is a click on a
title or on Next with `checkMustData`. `CreateAnswered` and `StartAnswered` are the
two awaits of `submitCreateJob`.

| Run | Question |
|---|---|
| `JobWizards` | `SubmitsSoundJob`, `OldSubmitsSoundJob`: however the user jumps, changes and clears, the step that submits has something to scan and within the limit; `SubmitsOnce`, `OldSubmitsOnce`: one visit makes one job but for the named exceptions (an answer that got lost, a start that failed, an answer of a table, or the failure of another submission, that lowers the flag while the first is under way); `LoadingHasReason`: a spinning button waits for a call; `TypesOK` |
| `JobWizardHour` | finding: the hour a job fires is not the hour that was chosen |

Bounds: `RdsLimit` is 0 in the newer and 1 in the older wizard (50 in the code), so
that one database is too many in the newer one; one name, table and line of keywords,
since rows of one kind are treated alike; the sources a behaviour considers are a
pair (`Offers`), one of which is limited or has several providers; one visit, since a
second one starts from scratch and is told apart by its number; two calls, which
is what a second submission needs; two pages and one request under way in the
older wizard, whose answers are told apart by nothing. The tile "all" of RDS is
left out of the run (`RdsTypes`): it behaves as "all" of S3. Copying a job in the
older wizard is left out. In `JobWizardHour` the zone is UTC+8 and the job is to
fire at midnight or at nine.

## 8. Pages

`TableRequests` is what all tables have in common: each change of page, filter,
order or view sends a request, an answer is shown whenever it comes, and the
selection is that of rows that were shown. The modules of the pages say where they
differ: who clears the selection, who catches a rejected call, whose refresh
repeats an older page.

| Module | Code (`portal/src`) |
|---|---|
| `DataSourceList` | `pages/data-source-connection/componments/DataSourceList.tsx` |
| `JDBCConnection`, `JDBCConnectionEdit` | the two dialogs for JDBC sources there |
| `JobList`, `JobDetail` | `pages/data-job` and its dialog with runs, properties and catalogs |
| `GlueJob` | `pages/glue-job`, with `get_run_status` and `get_run_progress` of the service |
| `CatalogPicker` | the tables in the second step of the wizard |
| `CatalogList`, `CatalogDetail`, `CatalogSchema`, `CatalogRow` | `pages/data-catalog`: the list, the two dialogs, and the head these share |
| `LabelModal`, `PropsModal` | `common/LabelModal`, `common/PropsModal` |
| `IdentifierTable`, `IdentifierForm` | `pages/template-identifiers`, `pages/create-identifier` |
| `DataTemplate`, `TemplateAdd` | `pages/data-template` and its panel |
| `BatchOperation` | `pages/batch-operation` |
| `AccountList`, `AccountTabs`, `AddAccount` | `pages/account-management`, `common/ProviderTab`, `pages/add-account` |
| `SystemSettings` | `pages/system-settings` |
| `FilterOptions` | `pages/resources-filter/hook.ts` |
| `PortalTables` | the pages and dialogs above that have a table of requests, together |
| `PortalPages` | the routes: one page is mounted at a time (`Open`, `Leave`) |

`route` names the page that is shown, and `ui` is the state of its component, a record
whose fields are those of that page. A page that is left takes its state along, so its
calls under way change nothing any more; a page whose own step ends in `Closed` has
navigated away (`Stays`). What outlives a page, the timer and the uploads of
`BatchOperation`, is in that module. A filter shares nothing with its table but the
query; it has variables of its own and moves while no page is open.

### Properties

Each property of `PortalPages` is one question asked of all pages; its parts are
stated, with their exceptions, in the modules of the pages.

| Property | Question |
|---|---|
| `ShowsWhatIsAsked` | once the newest request was answered and none is under way, are the rows those of the page, filter and view that are selected? |
| `WaitsForSomething` | does a spinner wait for a call under way? |
| `ActsOnWhatIsShown` | does an operation hit rows that are shown, a rename the label that is ticked, a dialog the row it was opened for? |
| `SavesWhatIsShown` | is what is sent what the form shows, though both are kept apart and answers reset either? |
| `FoundForThisKind` | are databases found for one kind of connection kept from another? |
| `SavesWhatIsValid` | was what can be saved validated, or estimated, as it is now? |
| `ActsOnce` | is nothing created, added or listed twice? |
| `KeepsWhatIsStored` | does what nobody changed stay as it was: privacy, the other label, a switch? |
| `ShowsWhatExists` | are choices, numbers and percentages those of what there is? |
| `BatchIsFollowed` | is the result shown that of the last file, and is a batch in progress watched? |
| `FilterOfProperty` | are the values offered those of the property that is chosen? |

The exceptions are named fields, set where the code gives the guarantee up, so that
a property still fails where the code does not: `lost` and `forsaken` (a rejected
call that nothing catches leaves its spinner), `outdated` and `behind` (a refresh
after an operation repeats the page of its render), `overwritten` (the reading that
refreshes all accounts replaces the rows), `crossed` and `unsure` (a list read while
a switch was stored), `overlapped` and `again` (the answer of one call lowers the
flag of another), `apart` (a list answered late changed the selection without the
label to rename), `late` and `reopened` (an answer finds the dialog open for
another row). They are weaknesses of the code that no text of the repository
excludes, so none of them is a finding.

One limit is not a field. `get_run_progress` takes the tables that have results for all
when the agent's `get_tables` raises (-1 is raised to the scanned count), and the page
then shows 100 percent however many are left. `ShowsWhatExists` compares what the page
shows with the number the agent has counted (`task`, a history field) and leaves out
the kind of data it could not count (`Uncounted`).

### Bounds

One row per table (`Items`), or two where rows have to be told apart (`RowIds`): the
code treats the rows of a page alike. Two pages, of which a filter leaves the
first (`PagesOf`), and two requests under way (`MaxPending`), which is what one
answer overtaking another needs. One VPC and the choice of none; two saves, reads
or uploads under way (`MaxSaves`, `MaxReads`, `MaxUploads`), for the second to
overtake the first; three pages of runs, so that a page is neither first nor
last; one table scanned or not (`MaxTables`), two pages of columns, one of which is
edited; two keywords, numbers to 3 in the settings, where two subnets have up to
that many addresses; two properties to filter by. Head and tabs of the dialog of a
database, which share no state, do not have calls under way together. Bounds that
are guards are marked as such in the modules.

No fairness is stated and deadlock is not checked in `JobWizards`: the user is not
obliged to do anything, and a call need not be answered while the page is there. For
the same reason the portal has no liveness property; that a spinner waits for
something is its safe half.

## 9. Proofs

All theorems hold for every value of the constants that meets the named
assumptions (`JobAssumption`, `ScheduleAssumption`, `StateMachineAssumption`,
`WizardAssumption`, `OldWizardAssumption`, `TablesAssumption`, `FormsAssumption`,
`PagesAssumption`: the shape of the constants, finite sets of databases and tables, a positive number of Glue
jobs or pages, days that fit their frequency). `PROJECT.json` lists them; a theorem
with a further hypothesis names it.

`DiscoveryJob_proof` proves type correctness. `TypeOK` is not inductive alone:
`Busy` adds that a consumer which is not idle holds a real message, since it may
put it back. One lemma per process (launcher, consumer, request, check-running,
execution) has one step per action.

The same module proves three more theorems. Two rest on one inductive invariant,
`StateInv`. A state *travels* before it is committed: it sits in a launcher's
session, in a message, or with a consumer that may return it. The invariant
demands the justification (`StateOK`: RUNNING has an execution, SUCCEEDED one
that succeeded) at each of these places. `Progress` states that
executions never un-start and successes never change, so that what an action
leaves alone stays justified (the `…Frame` lemmas). The third,
`PendingRowsAreWatched`, rests on `PendingInv`: its part `SessionsWatched` says the
same of the rows a session is about to save as PENDING (the rule is enabled, or the
run is one that is remembered in `unwatched`), that the flag `pendingStarted` says so of
the run that is being started, and that the flag is down outside a loop; under
`check_pending`, which names no run, the rule is enabled as long as rows are left.

`DiscoveryJobRun_proof` proves that a job in a running state has a run in
progress. The invariant `RunInv` says that everything that speaks of a row (a
session, a message, a consumer, a stop) speaks of a run that was created, that a
stop works on a run of its own job, that rows of runs not yet created are
untouched, and (`LiveRun`) that a running job has a run in progress that no
consumer is about to finish without writing the job: `complete_run` skips the
job when it was loaded in its final state, and only the order of the reads
keeps that from leaving a running job behind.

Its second half proves that every running execution is known to the
database or to the launcher that is about to save it, and that no launcher brings
more scans on a subnet than it may carry, with any faults and any number of
launchers. `TrackInv` adds four parts to `RunInv` and
`StateInv`. `Tracked`: a running execution is in the database, was given up at one
of the places section 3 names, or is held by its launcher (`Holds`). `Starts`: only
one launcher started an execution. `Ended`: no row, message, consumer or stop speaks
of an end that has not come, unless the row was given up. `Sessions`: a session
that may write READY or PENDING rows back is the only one to know of them (`Mine`), so
that a stale save overwrites no execution another launcher has started.
`CountCovers` then says that what a launcher has counted for a subnet is at least
what it has started there and the others can see running (`Scanning`), because
executions only end beside it.

`JobSchedule_proof`: type correctness needs that a start that was read leaves room
for its run. `NothingOutlivesJob` and `SwitchTakesEffect` are proved for one
request at a time (hypothesis `OneRequest`), any number of jobs and any point of
failure. `ScheduleInv` follows a request through its calls: its job has a row
(`SubjectExists`), its last statement fits the call it makes next (`EndFits`), and
the calls before have achieved what the next one relies on (`Achieved`): who is
about to delete the row has removed target, rule and permission, who is about to
write PAUSED has disabled the rule. `RulesFollowTheirJob` has one more
hypothesis, `EditsNameSchedule`: what an edit that does not name the schedule does to the
rule is a finding (section 10), so without it the statement is false. `FollowInv` says
how far a request has come with the rule of its job (`Progress`): a rule that is being
built is missing what the next calls bring, one that is replaced is complete until its
row is updated, and a job that no request works on fits its row (`Fits`). A job about
which a request broke off is left out, as it is in the property.

`DiscoveryStateMachine_proof` begins with the arithmetic of `SplitJob`: a position `p`
lies in the range with index `p \div size` and in no other, which follows from
division with remainder alone, and that index is below the number of jobs because
the size was rounded up (`Sizes`); that is `ItemsPartition`. `StepKinds` says that a
step leaves the status of all executions alone, or starts, ends or fails one;
`StatusInv` (nothing is sent before the end, a success only if both branches
succeeded) follows, and with it `FailuresAreReported` and the refinement
`ImplementsContract`. `FreshInv` says how a branch may wait for its catalog: at
`GetCrawler2` only while a crawl runs or after one that failed, so that a READY
crawler with a successful last crawl means a crawl has succeeded during the
execution. `ScanInv` says that a branch in its Map has written, as results or as error
rows (`Written`), exactly what its finished items name, of the catalog it has split;
together with `ItemsPartition` this gives `TablesAreTakenOnce`.

`JobWizard_proof` proves the three properties of the newer wizard, for any accounts,
names, schedules, limit, visits and calls, from `WizardInv`. The properties of a
submission need more than the last step: `Checked` carries through the steps what
`checkMustData` has established, in spite of titles that are jumped over;
`VisitsPast`, `InFlight` and `Loading` tie the flag to the call of this visit that
raised it, so that a second submission of a visit finds the first answered; and
`OneEach` with `OnlyMadeIsStarted` says what an answer implies of the job.

For the older wizard, `OldInv` has seven parts. `Passed` is what `checkMustData` has
established on the way to the last two steps; `OldHeld` says that every submission of the
visit that is shown is under way with the button held back, or is excused; `OldOneEach`
follows from it, because a submission needs the button. The exceptions matter: the first
attempt at this proof showed that the failure of one submission gives the button back
while another one, whose button an answer of a table had given back, is under way, which
takes three submissions of one visit and so no instance had shown. The field `uncovered`
covers it now.

Each of the 21 pages of the portal has an invariant of its own (`SourcesInv`, `JobsInv`,
`AddInv` and so on) and three lemmas: the state in which the page is opened satisfies it
(`…Mounted`), each step of the page keeps it or closes the page (`…Step`), and it implies
what is claimed of the page (`…Holds`).

`PortalTables_proof` has those of the ten pages with a table, after what all tables have
in common: `IsCurrent` says that rows which count as the newest are those of the
parameters that are selected, or that a request for these is under way and will replace
them; it is kept by sending (`Sends`), by the answer to any request (`Shows`), by a
rejected one (`Loses`) and by turning the page (`Turns`). Each page adds what its own
fields need. `SourcesInv` says that an operation which clears the selection keeps the
dialogs shut, so that a dialog keeps its target; `TemplateInv` that the saves under way
will make of what is stored what the switches show (`TemplateApplied`), and that a list
read without crossing a save is read while there is none; `AddingInv` that neither what
is selected nor what is being added is in use once the list of these has come, and that an
addition keeps the button off; `PickerInv` that requests which count as new are for what
is selected, and that what the wizard holds is what is ticked; `AccountsInv` that a flag
stands for a call under way that will lower it, or for one that was rejected. For the
progress of a run (`ProgressShown`) the work is arithmetic, for each half apart: a total
is never below what was scanned, because -1 and smaller totals are raised to it, so
that the sums are equal, and the quotient that is rounded down is 100, only if both
halves are equal.

`PortalPages_proof` has those of the eleven pages without a table. Most of what
they say is about answers that are still to come. `JDBCConnection` needs that a search
that still counts is for the kind that is shown; `JobDetail` that a list has no page of
runs from the one that is asked for on, so that the answer appends none a second time;
`BatchOperation` that there is one file at a time (`OneFile`) until an upload overlaps
another.

Then it puts the pages together: `TablesInv` and `FormsInv` demand of `ui` the invariant
of the page that is shown. One lemma per page (`…Frame`) says that a page that is shown
after a step was entered by it, or was shown before and made the step or none. This gives
`TablesKeepTheirInvariant` and `FormsKeepTheirInvariant` and, from the `…Holds` lemmas,
every property of `PortalPages` for any numbers of rows, pages, requests, saves, reads,
uploads and tables. `FilterFollowsProperty` is about the filter alone: the hook compares
an answer with what was asked for last, and no other step touches either.

So every invariant a passing run checks is a theorem, and so are the action properties;
the hypotheses of some (`OneRequest`, `EditsNameSchedule`) are named above.
Only model-checked are the liveness properties `SuccessIsRecorded`, `EventuallySettled`,
`RunEventuallyCompletes` and `EveryExecutionEnds`, which are out of the prover's reach, as
ENABLED is.

## 10. Findings

Four runs expect a violation; `PROJECT.json` quotes the texts they contradict.
`DiscoveryJobCompletedEarly`: a run is completed while its tasks run.
`JobScheduleRenamed`: an edit that does not name the schedule changes the rule to
the default. `JobSchedulePausedFires`: a new schedule enables the rule of a paused
job. `JobWizardHour`: the offset of the time zone is subtracted where it has to be
added, so weekly and monthly jobs fire at twice the offset from the chosen hour.

## 11. Not modelled

`PROJECT.json` lists every component with its status and reason. In short:

- **Data sources, accounts and catalog in the backend** are sequences of up to
  twenty calls to Glue, Lake Formation, Secrets Manager, EC2 and S3 of two
  accounts around a few rows. What is right there depends on how those services
  answer when a step is repeated or half undone, which is not in this repository:
  a model would state properties of our guesses about them. To the portal their
  answers are arbitrary, to DiscoveryJob the failure of a synchronisation is a
  fault.
- **Templates, identifiers, labels, configuration, search, version**: single
  statements without a second step; their pages are modelled.
- **Sample jobs, reports, resource refresh, unstructured crawler, schema
  inspector**: one pass over what was read, without a state of their own. Of the
  reports, status and progress of a run are in `GlueJob`.
- **Detection**: numerical and text processing; the choice of the tables a Glue job
  scans is in DiscoveryStateMachine.
- **Portal**: the start with its sign-in, which the OIDC library does, the dashboard
  and components that draw what they read, tables of columns and types.
- **Infrastructure and migrations**: deployment time; their timers, queues and rules
  are constants of the models.

Within the modelled parts the following is left out: the dead-letter queue after 50
receives; `update_job_database_base_time`; the exports that only download.

Weak points of the code in these parts that no model covers: deleting a data source
is refused for RUNNING rows only, while READY, PENDING and STOPPING rows lose their
source (`api/discovery_job/crud.py:352`); nothing orders
the results of two crawls of one source (`api/lambda/sync_crawler_results.py`);
`timedelta.seconds` drops whole days when the age of an execution is compared with
its limit (`api/discovery_job/service.py:917`); and a Glue job that runs
again appends its results to those of the first time (`config/job/script/glue-job.py:112`).
