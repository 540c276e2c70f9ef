-------------------------- MODULE JobSchedule_proof --------------------------
(***************************************************************************)
(* Proofs about JobSchedule.  Type correctness holds for any number of     *)
(* concurrent requests; the two safety theorems are about a system in      *)
(* which one request is served at a time, whatever call of it fails, while *)
(* rules fire and runs start and end.                                      *)
(***************************************************************************)
EXTENDS JobSchedule, TLAPS

USE DEF ruleVars, requestVars, runVars

\* The bound on runs: a start that was read leaves room for its run.
RoomForRun == \A j \in Job : starting[j] # "NONE" => live[j] < MaxRun

TypeInv == TypeOK /\ RoomForRun

LEMMA TypeInit == ASSUME Init PROVE TypeInv
  BY ScheduleAssumption DEF Init, TypeInv, TypeOK, RoomForRun, JobState, RuleState, Schedule, Call

\* A request that begins, or that moves to another call, keeps its types.
LEMMA TypeRequest ==
    ASSUME TypeInv, NEW r \in Requester, NEW j \in Job, Request(r, j)
    PROVE  TypeInv'
<1> USE ScheduleAssumption DEF TypeInv, TypeOK, RoomForRun, Schedule, Call, JobState, JobRunning, Begin, Exists
<1>1. CASE \E s \in Schedule : CreateJob(r, j, s)
  BY <1>1 DEF CreateJob
<1>2. CASE \E s \in Patches : UpdateJob(r, j, s)
  BY <1>2 DEF UpdateJob, EventCall, EventSchedule
<1>3. CASE EnableJob(r, j)
  BY <1>3 DEF EnableJob
<1>4. CASE DisableJob(r, j)
  BY <1>4 DEF DisableJob
<1>5. CASE DeleteJob(r, j)
  BY <1>5 DEF DeleteJob
<1> QED BY <1>1, <1>2, <1>3, <1>4, <1>5 DEF Request

LEMMA TypeServiceCall ==
    ASSUME TypeInv, NEW r \in Requester, ServiceCall(r)
    PROVE  TypeInv'
<1> USE ScheduleAssumption DEF TypeInv, TypeOK, RoomForRun, Schedule, Call, RuleState, Goto, Fails, EventSchedule
<1>1. CASE PutRule(r)          BY <1>1 DEF PutRule
<1>2. CASE PutTargets(r)       BY <1>2 DEF PutTargets
<1>3. CASE AddPermission(r)    BY <1>3 DEF AddPermission
<1>4. CASE UpdateRule(r)       BY <1>4 DEF UpdateRule
<1>5. CASE RemoveTargets(r)    BY <1>5 DEF RemoveTargets
<1>6. CASE DeleteRule(r)       BY <1>6 DEF DeleteRule
<1>7. CASE RemovePermission(r) BY <1>7 DEF RemovePermission
<1>8. CASE EnableRule(r)       BY <1>8 DEF EnableRule, SwitchRule
<1>9. CASE DisableRule(r)      BY <1>9 DEF DisableRule, SwitchRule
<1> QED BY <1>1, <1>2, <1>3, <1>4, <1>5, <1>6, <1>7, <1>8, <1>9 DEF ServiceCall

LEMMA TypeRowStatement ==
    ASSUME TypeInv, NEW r \in Requester, RowStatement(r) \/ Crash(r)
    PROVE  TypeInv'
<1> USE ScheduleAssumption DEF TypeInv, TypeOK, RoomForRun, Schedule, Call, JobState, Goto, Exists
<1>1. CASE UpdateRow(r)  BY <1>1 DEF UpdateRow
<1>2. CASE EnableRow(r)  BY <1>2 DEF EnableRow, SwitchRow
<1>3. CASE DisableRow(r) BY <1>3 DEF DisableRow, SwitchRow
<1>4. CASE DeleteRow(r)  BY <1>4 DEF DeleteRow
<1>5. CASE Crash(r)      BY <1>5 DEF Crash
<1> QED BY <1>1, <1>2, <1>3, <1>4, <1>5 DEF RowStatement

LEMMA TypeRun ==
    ASSUME TypeInv, NEW j \in Job, RunNext(j)
    PROVE  TypeInv'
<1> USE ScheduleAssumption DEF TypeInv, TypeOK, RoomForRun, JobState, JobRunning, ReadJob, Exists
<1>1. CASE RuleFires(j)    BY <1>1 DEF RuleFires
<1>2. CASE ScheduleJob(j)  BY <1>2 DEF ScheduleJob
<1>3. CASE StartRefused(j) BY <1>3 DEF StartRefused
<1>4. CASE StartJob(j)     BY <1>4 DEF StartJob
<1>5. CASE InitRun(j)      BY <1>5 DEF InitRun
<1>6. CASE StopRun(j)      BY <1>6 DEF StopRun
<1>7. CASE CompleteRun(j)  BY <1>7 DEF CompleteRun, JobEnds
<1>8. CASE CompleteAgain(j) BY <1>8 DEF CompleteAgain, JobEnds
<1> QED BY <1>1, <1>2, <1>3, <1>4, <1>5, <1>6, <1>7, <1>8 DEF RunNext

\* Rows, rules and requests keep to their enumerations (TypeOK), for any
\* number of jobs and of concurrent requests.
THEOREM ScheduleTypeCorrect == Spec => []TypeOK
<1>1. TypeInv /\ [Next]_vars => TypeInv'
  <2> SUFFICES ASSUME TypeInv, [Next]_vars PROVE TypeInv' OBVIOUS
  <2>1. CASE \E r \in Requester, j \in Job : Request(r, j)
    BY <2>1, TypeRequest
  <2>2. CASE \E r \in Requester : ServiceCall(r) \/ RowStatement(r) \/ Crash(r)
    BY <2>2, TypeServiceCall, TypeRowStatement
  <2>3. CASE \E j \in Job : RunNext(j)
    BY <2>3, TypeRun
  <2>4. CASE UNCHANGED vars
    BY <2>4 DEF TypeInv, TypeOK, RoomForRun, vars
  <2> QED BY <2>1, <2>2, <2>3, <2>4 DEF Next
<1>2. TypeInv => TypeOK BY DEF TypeInv
<1> QED BY <1>1, <1>2, TypeInit, PTL DEF Spec

----------------------------------------------------------------------------
\* One request at a time.  Then nobody but the request itself can undo what its
\* calls achieved, and the invariant follows a request through its calls.
OneRequest == \A q, r \in Requester : q = r

\* A request in progress is about a job with a row.
SubjectExists == \A r \in Requester : next[r] # "idle" => Exists(subject[r])

\* The statement that ends a request fits the call it makes next.
EndFits ==
    \A r \in Requester :
        /\ next[r] \in {"put_rule", "put_targets", "add_permission"}
               => finally[r] \in {"idle", "update_row"}
        /\ next[r] = "update_rule" => finally[r] = "update_row"
        /\ next[r] = "enable_rule" => finally[r] = "enable_row"
        /\ next[r] = "disable_rule" => finally[r] = "disable_row"
        /\ next[r] \in {"remove_targets", "delete_rule", "remove_permission"}
               => finally[r] \in {"update_row", "delete_row"}

\* What the calls made so far have achieved.
Achieved ==
    \A r \in Requester :
        /\ next[r] \in {"delete_rule", "remove_permission", "delete_row"}
               => subject[r] \notin target
        /\ next[r] \in {"remove_permission", "delete_row"} => rule[subject[r]] = "NONE"
        /\ next[r] = "delete_row" => subject[r] \notin permission
        /\ next[r] = "enable_row" => rule[subject[r]] = "ENABLED"
        /\ next[r] = "disable_row" => rule[subject[r]] = "DISABLED"

ScheduleInv ==
    TypeOK /\ SubjectExists /\ EndFits /\ Achieved /\ NothingOutlivesJob

LEMMA ScheduleInit == ASSUME Init PROVE ScheduleInv
<1>1. TypeOK
  BY TypeInit DEF TypeInv
<1>2. SubjectExists /\ EndFits /\ Achieved /\ NothingOutlivesJob
  BY DEF Init, SubjectExists, EndFits, Achieved, NothingOutlivesJob, Exists
<1> QED BY <1>1, <1>2 DEF ScheduleInv

LEMMA SafeRequest ==
    ASSUME OneRequest, ScheduleInv, TypeOK', NEW r \in Requester, NEW j \in Job, Request(r, j)
    PROVE  ScheduleInv'
<1> USE ScheduleAssumption DEF ScheduleInv, OneRequest, SubjectExists, EndFits, Achieved,
        NothingOutlivesJob, TypeOK, Exists, Begin
<1>1. CASE \E s \in Schedule : CreateJob(r, j, s)
  BY <1>1 DEF CreateJob
<1>2. CASE \E s \in Patches : UpdateJob(r, j, s)
  BY <1>2 DEF UpdateJob, EventCall
<1>3. CASE EnableJob(r, j)
  BY <1>3 DEF EnableJob
<1>4. CASE DisableJob(r, j)
  BY <1>4 DEF DisableJob
<1>5. CASE DeleteJob(r, j)
  BY <1>5 DEF DeleteJob
<1> QED BY <1>1, <1>2, <1>3, <1>4, <1>5 DEF Request

LEMMA SafeServiceCall ==
    ASSUME OneRequest, ScheduleInv, TypeOK', NEW r \in Requester, ServiceCall(r)
    PROVE  ScheduleInv'
<1> USE DEF ScheduleInv, OneRequest, SubjectExists, EndFits, Achieved,
        NothingOutlivesJob, TypeOK, Exists, Goto, Fails
<1>1. CASE PutRule(r)          BY <1>1 DEF PutRule
<1>2. CASE PutTargets(r)       BY <1>2 DEF PutTargets
<1>3. CASE AddPermission(r)    BY <1>3 DEF AddPermission
<1>4. CASE UpdateRule(r)       BY <1>4 DEF UpdateRule
<1>5. CASE RemoveTargets(r)    BY <1>5 DEF RemoveTargets
<1>6. CASE DeleteRule(r)       BY <1>6 DEF DeleteRule
<1>7. CASE RemovePermission(r) BY <1>7 DEF RemovePermission
<1>8. CASE EnableRule(r)       BY <1>8 DEF EnableRule, SwitchRule
<1>9. CASE DisableRule(r)      BY <1>9 DEF DisableRule, SwitchRule
<1> QED BY <1>1, <1>2, <1>3, <1>4, <1>5, <1>6, <1>7, <1>8, <1>9 DEF ServiceCall

LEMMA SafeRowStatement ==
    ASSUME OneRequest, ScheduleInv, TypeOK', NEW r \in Requester, RowStatement(r) \/ Crash(r)
    PROVE  ScheduleInv'
<1> USE DEF ScheduleInv, OneRequest, SubjectExists, EndFits, Achieved,
        NothingOutlivesJob, TypeOK, Exists, Goto
<1>1. CASE UpdateRow(r)  BY <1>1 DEF UpdateRow
<1>2. CASE EnableRow(r)  BY <1>2 DEF EnableRow, SwitchRow
<1>3. CASE DisableRow(r) BY <1>3 DEF DisableRow, SwitchRow
<1>4. CASE DeleteRow(r)  BY <1>4 DEF DeleteRow
<1>5. CASE Crash(r)      BY <1>5 DEF Crash
<1> QED BY <1>1, <1>2, <1>3, <1>4, <1>5 DEF RowStatement

\* Runs write the state of jobs that have a row, and to states that have one.
LEMMA RunKeepsRows ==
    ASSUME ScheduleInv, NEW j \in Job, RunNext(j)
    PROVE  \A i \in Job : Exists(i) <=> Exists(i)'
<1> USE DEF ScheduleInv, TypeOK, Exists, JobRunning
<1>1. CASE RuleFires(j)    BY <1>1 DEF RuleFires
<1>2. CASE ScheduleJob(j)  BY <1>2 DEF ScheduleJob, ReadJob
<1>3. CASE StartRefused(j) BY <1>3 DEF StartRefused
<1>4. CASE StartJob(j)     BY <1>4 DEF StartJob, ReadJob
<1>5. CASE InitRun(j)      BY <1>5 DEF InitRun
<1>6. CASE StopRun(j)      BY <1>6 DEF StopRun
<1>7. CASE CompleteRun(j)  BY <1>7 DEF CompleteRun, JobEnds
<1>8. CASE CompleteAgain(j) BY <1>8 DEF CompleteAgain, JobEnds
<1> QED BY <1>1, <1>2, <1>3, <1>4, <1>5, <1>6, <1>7, <1>8 DEF RunNext

LEMMA SafeRun ==
    ASSUME ScheduleInv, TypeOK', NEW j \in Job, RunNext(j)
    PROVE  ScheduleInv'
<1>1. \A i \in Job : Exists(i) <=> Exists(i)'
  BY RunKeepsRows
<1>2. UNCHANGED <<ruleVars, next, requestVars>>
  BY DEF RunNext, RuleFires, ScheduleJob, StartRefused, StartJob, InitRun, StopRun, CompleteRun,
         CompleteAgain
<1> QED BY <1>1, <1>2 DEF ScheduleInv, SubjectExists, EndFits, Achieved, NothingOutlivesJob, TypeOK

LEMMA ScheduleStep == ASSUME OneRequest, ScheduleInv, TypeOK', [Next]_vars PROVE ScheduleInv'
<1>1. CASE \E r \in Requester, j \in Job : Request(r, j)
  BY <1>1, SafeRequest
<1>2. CASE \E r \in Requester : ServiceCall(r) \/ RowStatement(r) \/ Crash(r)
  BY <1>2, SafeServiceCall, SafeRowStatement
<1>3. CASE \E j \in Job : RunNext(j)
  BY <1>3, SafeRun
<1>4. CASE UNCHANGED vars
  BY <1>4 DEF vars, ScheduleInv, SubjectExists, EndFits, Achieved, NothingOutlivesJob,
              TypeOK, Exists
<1> QED BY <1>1, <1>2, <1>3, <1>4 DEF Next

LEMMA ScheduleInvariant == ASSUME OneRequest PROVE Spec => []ScheduleInv
<1>1. TypeOK' /\ ScheduleInv /\ [Next]_vars => ScheduleInv'
  BY ScheduleStep
<1> QED BY <1>1, ScheduleInit, ScheduleTypeCorrect, PTL DEF Spec

\* No rule, target or permission exists without the row of its job, when
\* requests come one at a time, wherever any of them breaks off.
THEOREM RulesDieWithTheirJob == ASSUME OneRequest PROVE Spec => []NothingOutlivesJob
<1>1. ScheduleInv => NothingOutlivesJob
  BY DEF ScheduleInv
<1> QED BY <1>1, ScheduleInvariant, PTL

\* A job becomes paused, and a request makes it active again, only when the
\* call on its rule has taken effect.
THEOREM PauseTakesEffect == ASSUME OneRequest PROVE Spec => SwitchTakesEffect
<1> DEFINE Switch(j) ==
      /\ state[j] # "PAUSED" /\ state'[j] = "PAUSED" => rule[j] = "DISABLED"
      /\ state[j] = "PAUSED" /\ state'[j] = "IDLE" /\ next' # next => rule[j] = "ENABLED"
<1>1. ScheduleInv /\ [Next]_vars => [\A j \in Job : Switch(j)]_vars
  <2> SUFFICES ASSUME ScheduleInv, Next, NEW j \in Job PROVE Switch(j)
    OBVIOUS
  <2> USE DEF ScheduleInv, Achieved, TypeOK, Exists
  <2>1. CASE \E r \in Requester, i \in Job : Request(r, i)
    BY <2>1 DEF Request, CreateJob, UpdateJob, EnableJob, DisableJob, DeleteJob
  <2>2. CASE \E r \in Requester : ServiceCall(r)
    BY <2>2 DEF ServiceCall, PutRule, PutTargets, AddPermission, UpdateRule, RemoveTargets,
                DeleteRule, RemovePermission, EnableRule, DisableRule, SwitchRule
  <2>3. CASE \E r \in Requester : RowStatement(r) \/ Crash(r)
    BY <2>3 DEF RowStatement, UpdateRow, EnableRow, DisableRow, SwitchRow, DeleteRow, Crash
  <2>4. CASE \E i \in Job : RunNext(i)
    BY <2>4 DEF RunNext, RuleFires, ScheduleJob, StartRefused, StartJob, ReadJob, InitRun,
                StopRun, CompleteRun, CompleteAgain, JobEnds, JobRunning
  <2> QED BY <2>1, <2>2, <2>3, <2>4 DEF Next
<1> QED BY <1>1, ScheduleInvariant, PTL DEF Spec, SwitchTakesEffect

----------------------------------------------------------------------------
(***************************************************************************)
(* What the rule of a job says.  Between two requests it fires as the row  *)
(* says; while a request is about the job, the rule has got as far as the  *)
(* calls made so far, and the last of them leaves it as the request wants  *)
(* it.  Nothing is said of a job about which a request broke off: its next *)
(* requests begin with a rule in any state, and may fail.                  *)
(*                                                                         *)
(* An edit names the schedule here: what one that does not name it does to *)
(* the rule is the finding of the run JobScheduleRenamed.                  *)
(***************************************************************************)
EditsNameSchedule == Unset \notin Patches

\* The rule of j, its target and its permission are complete, or all missing.
Complete(j) == rule[j] # "NONE" /\ j \in target /\ j \in permission
Missing(j) == rule[j] = "NONE" /\ j \notin target /\ j \notin permission

\* They are what schedule s calls for.
Fits(j, s) == IF s = ON_DEMAND THEN Missing(j) ELSE Complete(j) /\ expression[j] = s

\* Request r is on its way to a scheduled job: one whose row was created with
\* the schedule, or is updated at the end.
Scheduling(r) ==
    /\ patch[r] \in Cron
    /\ finally[r] # "update_row" => schedule[subject[r]] = patch[r]

\* How far the rule has got when request r is about to make its next call.
Progress(r) ==
    LET j == subject[r]
    IN  /\ next[r] = "put_rule" => Scheduling(r) /\ Missing(j)
        /\ next[r] = "put_targets" =>
               /\ Scheduling(r)
               /\ rule[j] # "NONE" /\ expression[j] = patch[r] /\ j \notin permission
        /\ next[r] = "add_permission" =>
               /\ Scheduling(r)
               /\ rule[j] # "NONE" /\ expression[j] = patch[r] /\ j \notin permission
               /\ j \in target
        /\ next[r] = "update_rule" => patch[r] \in Cron /\ Complete(j)
        /\ next[r] \in {"remove_targets", "delete_rule", "remove_permission"}
           /\ finally[r] = "update_row" => patch[r] = ON_DEMAND
        /\ next[r] \in {"enable_rule", "disable_rule", "enable_row", "disable_row"} =>
               schedule[j] # ON_DEMAND /\ Fits(j, schedule[j])
        /\ next[r] = "update_row" => patch[r] # Unset /\ Fits(j, patch[r])

Unattended(j) == \A r \in Requester : subject[r] = j => next[r] = "idle"

FollowInv ==
    /\ \A r \in Requester : subject[r] \notin broken => Progress(r)
    /\ \A j \in Job \ broken : Exists(j) /\ Unattended(j) => Fits(j, schedule[j])

LEMMA FollowInit == ASSUME Init PROVE FollowInv
BY DEF Init, FollowInv, Progress, Exists

\* A request begins at the call its job calls for.
LEMMA FollowRequest ==
    ASSUME OneRequest, EditsNameSchedule, ScheduleInv, FollowInv, TypeOK',
           NEW r \in Requester, NEW j \in Job, Request(r, j)
    PROVE  FollowInv'
<1> USE ScheduleAssumption DEF OneRequest, EditsNameSchedule, ScheduleInv, NothingOutlivesJob,
        FollowInv, Progress, Fits, Complete, Missing, Scheduling, Unattended, TypeOK, Exists,
        Begin, Schedule
<1>1. CASE \E s \in Schedule : CreateJob(r, j, s)
  BY <1>1 DEF CreateJob
<1>2. CASE \E s \in Patches : UpdateJob(r, j, s)
  BY <1>2 DEF UpdateJob, EventCall, EventSchedule
<1>3. CASE EnableJob(r, j)
  BY <1>3 DEF EnableJob
<1>4. CASE DisableJob(r, j)
  BY <1>4 DEF DisableJob
<1>5. CASE DeleteJob(r, j)
  BY <1>5 DEF DeleteJob
<1> QED BY <1>1, <1>2, <1>3, <1>4, <1>5 DEF Request

\* Each call brings the rule one step further, and none of them fails.
LEMMA FollowServiceCall ==
    ASSUME OneRequest, ScheduleInv, FollowInv, TypeOK', NEW r \in Requester, ServiceCall(r)
    PROVE  FollowInv'
<1> USE ScheduleAssumption DEF OneRequest, ScheduleInv, SubjectExists, EndFits, Achieved,
        FollowInv, Progress, Fits, Complete, Missing, Scheduling, Unattended, TypeOK, Exists,
        Goto, Fails, EventSchedule, Schedule
<1>1. CASE PutRule(r)          BY <1>1 DEF PutRule
<1>2. CASE PutTargets(r)       BY <1>2 DEF PutTargets
<1>3. CASE AddPermission(r)    BY <1>3 DEF AddPermission
<1>4. CASE UpdateRule(r)       BY <1>4 DEF UpdateRule
<1>5. CASE RemoveTargets(r)    BY <1>5 DEF RemoveTargets
<1>6. CASE DeleteRule(r)       BY <1>6 DEF DeleteRule
<1>7. CASE RemovePermission(r) BY <1>7 DEF RemovePermission
<1>8. CASE EnableRule(r)       BY <1>8 DEF EnableRule, SwitchRule
<1>9. CASE DisableRule(r)      BY <1>9 DEF DisableRule, SwitchRule
<1> QED BY <1>1, <1>2, <1>3, <1>4, <1>5, <1>6, <1>7, <1>8, <1>9 DEF ServiceCall

LEMMA FollowRowStatement ==
    ASSUME OneRequest, ScheduleInv, FollowInv, TypeOK', NEW r \in Requester,
           RowStatement(r) \/ Crash(r)
    PROVE  FollowInv'
<1> USE ScheduleAssumption DEF OneRequest, ScheduleInv, SubjectExists,
        FollowInv, Progress, Fits, Complete, Missing, Scheduling, Unattended, TypeOK, Exists,
        Goto, Schedule
<1>1. CASE UpdateRow(r)  BY <1>1 DEF UpdateRow
<1>2. CASE EnableRow(r)  BY <1>2 DEF EnableRow, SwitchRow
<1>3. CASE DisableRow(r) BY <1>3 DEF DisableRow, SwitchRow
<1>4. CASE DeleteRow(r)  BY <1>4 DEF DeleteRow
<1>5. CASE Crash(r)      BY <1>5 DEF Crash
<1> QED BY <1>1, <1>2, <1>3, <1>4, <1>5 DEF RowStatement

\* Runs touch neither rules nor requests, and no row appears or goes.
LEMMA FollowRun ==
    ASSUME ScheduleInv, FollowInv, NEW j \in Job, RunNext(j)
    PROVE  FollowInv'
<1>1. \A i \in Job : Exists(i) <=> Exists(i)'
  BY RunKeepsRows
<1>2. UNCHANGED <<schedule, ruleVars, next, requestVars, broken>>
  BY DEF RunNext, RuleFires, ScheduleJob, StartRefused, StartJob, InitRun, StopRun, CompleteRun,
         CompleteAgain
<1> QED BY <1>1, <1>2 DEF FollowInv, Progress, Fits, Complete, Missing, Scheduling, Unattended

LEMMA FollowStep ==
    ASSUME OneRequest, EditsNameSchedule, ScheduleInv, TypeOK', FollowInv, [Next]_vars
    PROVE  FollowInv'
<1>1. CASE \E r \in Requester, j \in Job : Request(r, j)
  BY <1>1, FollowRequest
<1>2. CASE \E r \in Requester : ServiceCall(r) \/ RowStatement(r) \/ Crash(r)
  BY <1>2, FollowServiceCall, FollowRowStatement
<1>3. CASE \E j \in Job : RunNext(j)
  BY <1>3, FollowRun
<1>4. CASE UNCHANGED vars
  BY <1>4 DEF vars, FollowInv, Progress, Fits, Complete, Missing, Scheduling, Unattended, Exists
<1> QED BY <1>1, <1>2, <1>3, <1>4 DEF Next

\* The rule of a job fires as its row says, for any number of jobs, schedules
\* and runs, when requests come one at a time and edits name the schedule,
\* unless a request about the job broke off.
THEOREM RulesFollowTheirJob ==
    ASSUME OneRequest, EditsNameSchedule PROVE Spec => []RuleFollowsSchedule
<1>1. ScheduleInv /\ TypeOK' /\ FollowInv /\ [Next]_vars => FollowInv'
  BY FollowStep
<1>2. FollowInv => RuleFollowsSchedule
  BY DEF FollowInv, RuleFollowsSchedule, Quiet, Unattended, Fits, Complete, Missing
<1> QED BY <1>1, <1>2, FollowInit, ScheduleInvariant, ScheduleTypeCorrect, PTL DEF Spec
=============================================================================
