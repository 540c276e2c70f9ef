-------------------------- MODULE DiscoveryJob_proof --------------------------
(***************************************************************************)
(* Safety of DiscoveryJob for any number of jobs, databases, runs,         *)
(* launchers and workers, and any combination of faults.                   *)
(***************************************************************************)
EXTENDS DiscoveryJob, FiniteSetTheorems, TLAPS

\* Rows form a finite set, so that the scans of a subnet can be counted.
LEMMA RowFinite == IsFiniteSet(Row)
<1>1. IsFiniteSet(Run)
  <2>1. MaxRun \in Int /\ 1 \in Int
    BY SMT, JobAssumption DEF JobAssumption
  <2>. QED BY <2>1, FS_Interval DEF Run
<1>2. IsFiniteSet(Database)
  BY JobAssumption DEF JobAssumption
<1>. QED BY <1>1, <1>2, FS_Product DEF Row

\* The per-subnet count of a function of states is a function into Nat.
LEMMA CountType ==
  ASSUME NEW states
  PROVE  CountBySubnet(states) \in [Subnet -> Nat]
<1>1. \A s \in Subnet :
        LET S == {x \in Row : states[x] = "RUNNING" /\ x[2] \in ThirdParty /\ SubnetOf[x[2]] = s}
        IN  Cardinality(S) \in Nat
  <2>. SUFFICES ASSUME NEW s \in Subnet
                PROVE  Cardinality({x \in Row : states[x] = "RUNNING" /\ x[2] \in ThirdParty
                                                   /\ SubnetOf[x[2]] = s}) \in Nat
    OBVIOUS
  <2>. DEFINE S == {x \in Row : states[x] = "RUNNING" /\ x[2] \in ThirdParty /\ SubnetOf[x[2]] = s}
  <2>1. S \subseteq Row
    OBVIOUS
  <2>2. IsFiniteSet(S)
    BY <2>1, RowFinite, FS_Subset
  <2>. QED BY <2>2, FS_CardinalityType
<1>. QED BY <1>1 DEF CountBySubnet

\* What check_running makes of an execution is an outcome, and a success only
\* if the execution succeeded.
LEMMA AgentResultOK ==
  ASSUME NEW s \in ExecState, s # "RUNNING"
  PROVE  /\ AgentResult[s] \in Outcome
         /\ AgentResult[s] = "SUCCEEDED" => s = "SUCCEEDED"
         /\ AgentResult[s] # "RUNNING"
BY DEF AgentResult, ExecState, Outcome

LEMMA ReportedOK ==
  ASSUME NEW end \in {"SUCCEEDED", "REPORTED_FAILED", "FAILED"}
  PROVE  /\ Reported[end] \subseteq Outcome
         /\ \A s \in Reported[end] : s = "SUCCEEDED" => end = "SUCCEEDED"
BY DEF Reported, Outcome

----------------------------------------------------------------------------
\* Type correctness.  A worker that is busy holds a message, which makes the
\* redelivery of WorkerFails well typed.
Busy == \A w \in Worker : step[w] # "idle" => msg[w] \in Message

TypeInv == TypeOK /\ Busy

USE DEF jobVars, launchVars, workVars, stopVars, history

LEMMA TypeInit == Init => TypeInv
<1>. SUFFICES ASSUME Init PROVE TypeInv
  OBVIOUS
<1>1. JobsTypeOK
  BY JobAssumption DEF Init, JobsTypeOK, JobState, RunState
<1>2. RowsTypeOK
  BY DEF Init, RowsTypeOK, RunDatabaseState, ExecState, Blank
<1>3. LaunchTypeOK
  BY JobAssumption DEF Init, LaunchTypeOK, RunDatabaseState, Blank
<1>4. WorkTypeOK /\ Busy
  BY DEF Init, WorkTypeOK, Busy
<1>5. RequestTypeOK
  BY JobAssumption DEF Init, RequestTypeOK
<1>6. HistoryTypeOK
  BY DEF Init, HistoryTypeOK
<1>. QED BY <1>1, <1>2, <1>3, <1>4, <1>5, <1>6 DEF TypeInv, TypeOK

LEMMA EndLaunchType ==
  ASSUME LaunchTypeOK, NEW p \in Launcher, EndLaunch(p)
  PROVE  LaunchTypeOK'
BY JobAssumption DEF LaunchTypeOK, EndLaunch, Blank, RunDatabaseState

LEMMA MarkCompletedType ==
  ASSUME JobsTypeOK, NEW r, MarkCompleted(r)
  PROVE  JobsTypeOK'
BY DEF JobsTypeOK, MarkCompleted, CompletedState, JobState, RunState

\* What a session commits, and what it reads again, are states of rows.
LEMMA SessionType ==
  ASSUME RowsTypeOK, LaunchTypeOK, NEW p \in Launcher
  PROVE  /\ Committed(p) \in [Row -> RunDatabaseState]
         /\ \A S : /\ Loaded(S, Committed(p)) \in [Row -> RunDatabaseState]
                  /\ Loaded(S, dbState) \in [Row -> RunDatabaseState]
BY DEF RowsTypeOK, LaunchTypeOK, Committed, Loaded, RunDatabaseState

\* The history speaks of rows and runs.
LEMMA HistoryType ==
  ASSUME TypeInv, Next
  PROVE  HistoryTypeOK'
<1>. USE DEF HistoryTypeOK
<1>0. HistoryTypeOK /\ LaunchTypeOK
  BY DEF TypeInv, TypeOK
<1>1. ASSUME UNCHANGED history PROVE HistoryTypeOK'
  BY <1>0, <1>1
<1>2. ASSUME NEW S \in SUBSET Row, GiveUp(S) PROVE HistoryTypeOK'
  BY <1>0, <1>2 DEF GiveUp
<1>3. ASSUME NEW p \in Launcher, LauncherNext(p) PROVE HistoryTypeOK'
  <2>1. ASSUME NEW x \in Row, Postpone(p, x) PROVE HistoryTypeOK'
    <3>1. {y \in {x} : exec[y] = "RUNNING"} \in SUBSET Row
      OBVIOUS
    <3>. QED BY <1>2, <2>1, <3>1 DEF Postpone
  <2>2. ASSUME NEW x \in Row, EnableFails(p, x) PROVE HistoryTypeOK'
    BY <1>0, <2>2 DEF EnableFails, Row
  <2>3. ASSUME NEW x \in Row, Launch(p, x) PROVE HistoryTypeOK'
    BY <1>0, <2>3 DEF Launch
  <2>4. ASSUME NEW x \in Row, LaunchFails(p, x) PROVE HistoryTypeOK'
    <3>1. {x} \in SUBSET Row
      OBVIOUS
    <3>. QED BY <1>2, <2>4, <3>1 DEF LaunchFails
  <2>5. ASSUME LauncherCrash(p) PROVE HistoryTypeOK'
    <3>1. {x \in Row : new[p][x] = "RUNNING" /\ dbState[x] # "RUNNING"} \in SUBSET Row
      OBVIOUS
    <3>. QED BY <1>2, <2>5, <3>1 DEF LauncherCrash
  <2>6. CASE \E j \in Job : StartJob(p, j)
    BY <1>1, <2>6 DEF StartJob
  <2>7. CASE InitRun(p) \/ InitRunFails(p) \/ CheckPending(p)
    BY <1>1, <2>7 DEF InitRun, InitRunFails, CheckPending
  <2>8. CASE Flush(p) \/ SaveRunDatabases(p) \/ AbortRun(p)
    BY <1>1, <2>8 DEF Flush, SaveRunDatabases, AbortRun
  <2>. QED BY <1>3, <2>1, <2>2, <2>3, <2>4, <2>5, <2>6, <2>7, <2>8 DEF LauncherNext
<1>4. ASSUME NEW w \in Worker, WorkerNext(w) PROVE HistoryTypeOK'
  BY <1>1, <1>4 DEF WorkerNext, CompleteRunDatabase, CountRunDatabases, CompleteRun, WorkerFails
<1>5. ASSUME NEW j \in Job, RequestNext(j) PROVE HistoryTypeOK'
  <2>1. CASE StopRun(j)
    <3>1. RowsOf(stopRun[j]) \in SUBSET Row
      BY DEF RowsOf
    <3>. QED BY <1>2, <2>1, <3>1 DEF StopRun
  <2>. QED BY <1>1, <1>5, <2>1
           DEF RequestNext, StopRead, StopEnds, StopRunDatabase, DeleteCheck, DeleteJob
<1>6. CASE CheckRunningNext
  BY <1>1, <1>6 DEF CheckRunningNext, CheckRunningRead, CheckRunningOne
<1>7. CASE ExecutionNext
  BY <1>1, <1>7 DEF ExecutionNext, ExecEnds
<1>. QED BY <1>3, <1>4, <1>5, <1>6, <1>7 DEF Next

LEMMA LauncherType ==
  ASSUME TypeInv, NEW p \in Launcher, LauncherNext(p)
  PROVE  TypeInv'
<1>. USE DEF TypeInv, TypeOK
<1>0. HistoryTypeOK'
  BY HistoryType DEF Next
<1>1. CASE \E j \in Job : StartJob(p, j)
  <2>0. PICK j \in Job : StartJob(p, j)
    BY <1>1
  <2>1. JobsTypeOK'
    BY <2>0 DEF StartJob, JobsTypeOK
  <2>2. RowsTypeOK'
    BY <2>0 DEF StartJob, RowsTypeOK
  <2>3. LaunchTypeOK'
    BY <2>0 DEF StartJob, LaunchTypeOK
  <2>4. WorkTypeOK' /\ Busy'
    BY <2>0 DEF StartJob, WorkTypeOK, Busy
  <2>5. RequestTypeOK'
    BY <2>0 DEF StartJob, RequestTypeOK
  <2>. QED BY <1>0, <2>1, <2>2, <2>3, <2>4, <2>5
<1>2. CASE InitRun(p)
  <2>. DEFINE rows   == {x \in Row : x[1] = runCount + 1 /\ x[2] \in Targets[sjob[p]]}
              states == InitStates(rows)
  <2>6. states \in [Row -> RunDatabaseState]
    BY DEF RowsTypeOK, RunDatabaseState, InitStates
  <2>7. Loaded(rows, states) \in [Row -> RunDatabaseState]
    BY <2>6 DEF Loaded, RunDatabaseState
  <2>8. CountBySubnet(states) \in [Subnet -> Nat]
    BY CountType
  <2>9. runCount + 1 \in 0..MaxRun
    BY <1>2, JobAssumption DEF InitRun, JobsTypeOK
  <2>1. JobsTypeOK'
    BY <1>2, <2>9 DEF InitRun, JobsTypeOK, LaunchTypeOK, JobState, RunState, StartedState
  <2>2. RowsTypeOK'
    BY <1>2, <2>6 DEF InitRun, RowsTypeOK
  <2>3. LaunchTypeOK'
    BY <1>2, <2>6, <2>7, <2>8, <2>9 DEF InitRun, LaunchTypeOK
  <2>4. WorkTypeOK' /\ Busy'
    BY <1>2 DEF InitRun, WorkTypeOK, Busy
  <2>5. RequestTypeOK'
    BY <1>2 DEF InitRun, RequestTypeOK
  <2>. QED BY <1>0, <2>1, <2>2, <2>3, <2>4, <2>5
<1>3. CASE InitRunFails(p)
  <2>1. JobsTypeOK'
    BY <1>3 DEF InitRunFails, JobsTypeOK
  <2>2. RowsTypeOK'
    BY <1>3 DEF InitRunFails, RowsTypeOK
  <2>3. LaunchTypeOK'
    BY <1>3, EndLaunchType DEF InitRunFails, LaunchTypeOK
  <2>4. WorkTypeOK' /\ Busy'
    BY <1>3 DEF InitRunFails, WorkTypeOK, Busy
  <2>5. RequestTypeOK'
    BY <1>3 DEF InitRunFails, RequestTypeOK
  <2>. QED BY <1>0, <2>1, <2>2, <2>3, <2>4, <2>5
<1>4. CASE CheckPending(p)
  <2>1. JobsTypeOK'
    BY <1>4 DEF CheckPending, JobsTypeOK
  <2>2. RowsTypeOK'
    BY <1>4 DEF CheckPending, RowsTypeOK
  <2>3. LaunchTypeOK'
    BY <1>4, SessionType, CountType DEF CheckPending, LaunchTypeOK
  <2>4. WorkTypeOK' /\ Busy'
    BY <1>4 DEF CheckPending, WorkTypeOK, Busy
  <2>5. RequestTypeOK'
    BY <1>4 DEF CheckPending, RequestTypeOK
  <2>. QED BY <1>0, <2>1, <2>2, <2>3, <2>4, <2>5
<1>5. CASE \E x \in Row : Postpone(p, x)
  <2>0. PICK x \in Row : Postpone(p, x)
    BY <1>5
  <2>1. JobsTypeOK'
    BY <2>0 DEF Postpone, JobsTypeOK
  <2>2. RowsTypeOK'
    BY <2>0 DEF Postpone, RowsTypeOK
  <2>3. LaunchTypeOK'
    BY <2>0 DEF Postpone, LaunchTypeOK, Assign, RunDatabaseState
  <2>4. WorkTypeOK' /\ Busy'
    BY <2>0 DEF Postpone, WorkTypeOK, Busy
  <2>5. RequestTypeOK'
    BY <2>0 DEF Postpone, RequestTypeOK
  <2>. QED BY <1>0, <2>1, <2>2, <2>3, <2>4, <2>5
<1>12. CASE \E x \in Row : EnableFails(p, x)
  <2>0. PICK x \in Row : EnableFails(p, x)
    BY <1>12
  <2>1. JobsTypeOK'
    BY <2>0 DEF EnableFails, JobsTypeOK
  <2>2. RowsTypeOK'
    BY <2>0 DEF EnableFails, RowsTypeOK
  <2>3. LaunchTypeOK'
    BY <2>0 DEF EnableFails, LaunchTypeOK, Assign, RunDatabaseState
  <2>4. WorkTypeOK' /\ Busy'
    BY <2>0 DEF EnableFails, WorkTypeOK, Busy
  <2>5. RequestTypeOK'
    BY <2>0 DEF EnableFails, RequestTypeOK
  <2>. QED BY <1>0, <2>1, <2>2, <2>3, <2>4, <2>5
<1>6. CASE \E x \in Row : Launch(p, x)
  <2>0. PICK x \in Row : Launch(p, x)
    BY <1>6
  <2>1. JobsTypeOK'
    BY <2>0 DEF Launch, JobsTypeOK
  <2>2. RowsTypeOK'
    BY <2>0 DEF Launch, RowsTypeOK, ExecState
  <2>3. LaunchTypeOK'
    BY <2>0, JobAssumption DEF Launch, LaunchTypeOK, Assign, CountOne, RunDatabaseState
  <2>4. WorkTypeOK' /\ Busy'
    BY <2>0 DEF Launch, WorkTypeOK, Busy
  <2>5. RequestTypeOK'
    BY <2>0 DEF Launch, RequestTypeOK
  <2>. QED BY <1>0, <2>1, <2>2, <2>3, <2>4, <2>5
<1>7. CASE \E x \in Row : LaunchFails(p, x)
  <2>0. PICK x \in Row : LaunchFails(p, x)
    BY <1>7
  <2>6. CountOne(p, x) \in [Launcher -> [Subnet -> Nat]]
    BY JobAssumption, <2>0 DEF LaunchTypeOK, CountOne
  <2>7. count' \in [Launcher -> [Subnet -> Nat]]
    BY <2>0, <2>6 DEF LaunchFails, LaunchTypeOK
  <2>8. Assign(p, x, "FAILED") /\ failed' = [failed EXCEPT ![p] = @ + 1]
    BY <2>0 DEF LaunchFails
  <2>9. UNCHANGED <<phase, sjob, srun, view, gone, pendingStarted>>
    BY <2>0 DEF LaunchFails
  <2>10. LaunchTypeOK'
    BY <2>7, <2>8, <2>9 DEF LaunchTypeOK, Assign, RunDatabaseState
  <2>1. JobsTypeOK'
    BY <2>0 DEF LaunchFails, JobsTypeOK
  <2>2. RowsTypeOK'
    BY <2>0 DEF LaunchFails, RowsTypeOK, ExecState
  <2>3. LaunchTypeOK'
    BY <2>0, <2>10 DEF LaunchFails, LaunchTypeOK
  <2>4. WorkTypeOK' /\ Busy'
    BY <2>0 DEF LaunchFails, WorkTypeOK, Busy
  <2>5. RequestTypeOK'
    BY <2>0 DEF LaunchFails, RequestTypeOK
  <2>. QED BY <1>0, <2>1, <2>2, <2>3, <2>4, <2>5
<1>8. CASE Flush(p)
  <2>1. JobsTypeOK'
    BY <1>8 DEF Flush, JobsTypeOK
  <2>2. RowsTypeOK'
    BY <1>8, SessionType DEF Flush, RowsTypeOK
  <2>3. LaunchTypeOK'
    BY <1>8, SessionType DEF Flush, LaunchTypeOK
  <2>4. WorkTypeOK' /\ Busy'
    BY <1>8 DEF Flush, WorkTypeOK, Busy
  <2>5. RequestTypeOK'
    BY <1>8 DEF Flush, RequestTypeOK
  <2>. QED BY <1>0, <2>1, <2>2, <2>3, <2>4, <2>5
<1>9. CASE SaveRunDatabases(p)
  <2>1. JobsTypeOK'
    BY <1>9 DEF SaveRunDatabases, JobsTypeOK
  <2>2. RowsTypeOK'
    BY <1>9, SessionType DEF SaveRunDatabases, RowsTypeOK
  <2>3. LaunchTypeOK'
    BY <1>9, EndLaunchType DEF SaveRunDatabases, LaunchTypeOK
  <2>4. WorkTypeOK' /\ Busy'
    BY <1>9 DEF SaveRunDatabases, WorkTypeOK, Busy
  <2>5. RequestTypeOK'
    BY <1>9 DEF SaveRunDatabases, RequestTypeOK
  <2>. QED BY <1>0, <2>1, <2>2, <2>3, <2>4, <2>5
<1>10. CASE AbortRun(p)
  <2>1. JobsTypeOK'
    BY <1>10, MarkCompletedType DEF AbortRun, JobsTypeOK
  <2>2. RowsTypeOK'
    BY <1>10 DEF AbortRun, RowsTypeOK
  <2>3. LaunchTypeOK'
    BY <1>10, EndLaunchType DEF AbortRun, LaunchTypeOK
  <2>4. WorkTypeOK' /\ Busy'
    BY <1>10 DEF AbortRun, WorkTypeOK, Busy
  <2>5. RequestTypeOK'
    BY <1>10 DEF AbortRun, RequestTypeOK
  <2>. QED BY <1>0, <2>1, <2>2, <2>3, <2>4, <2>5
<1>11. CASE LauncherCrash(p)
  <2>1. JobsTypeOK'
    BY <1>11 DEF LauncherCrash, JobsTypeOK
  <2>2. RowsTypeOK'
    BY <1>11 DEF LauncherCrash, RowsTypeOK
  <2>3. LaunchTypeOK'
    BY <1>11, EndLaunchType DEF LauncherCrash, LaunchTypeOK
  <2>4. WorkTypeOK' /\ Busy'
    BY <1>11 DEF LauncherCrash, WorkTypeOK, Busy
  <2>5. RequestTypeOK'
    BY <1>11 DEF LauncherCrash, RequestTypeOK
  <2>. QED BY <1>0, <2>1, <2>2, <2>3, <2>4, <2>5
<1>. QED
  BY <1>1, <1>2, <1>3, <1>4, <1>5, <1>6, <1>7, <1>8, <1>9, <1>10, <1>11, <1>12 DEF LauncherNext

LEMMA WorkerType ==
  ASSUME TypeInv, NEW w \in Worker, WorkerNext(w)
  PROVE  TypeInv'
<1>. USE DEF TypeInv, TypeOK
<1>0. HistoryTypeOK'
  BY HistoryType DEF Next
<1>1. CASE \E m \in queue : CompleteRunDatabase(w, m)
  <2>0. PICK m \in queue : CompleteRunDatabase(w, m)
    BY <1>1
  <2>1. JobsTypeOK'
    BY <2>0 DEF CompleteRunDatabase, JobsTypeOK
  <2>2. RowsTypeOK'
    BY <2>0 DEF CompleteRunDatabase, RowsTypeOK, Message, Outcome, RunDatabaseState
  <2>3. LaunchTypeOK'
    BY <2>0 DEF CompleteRunDatabase, LaunchTypeOK
  <2>4. WorkTypeOK' /\ Busy'
    BY <2>0 DEF CompleteRunDatabase, WorkTypeOK, Busy, RowsTypeOK
  <2>5. RequestTypeOK'
    BY <2>0 DEF CompleteRunDatabase, RequestTypeOK
  <2>. QED BY <1>0, <2>1, <2>2, <2>3, <2>4, <2>5
<1>2. CASE CountRunDatabases(w)
  <2>1. JobsTypeOK'
    BY <1>2 DEF CountRunDatabases, JobsTypeOK
  <2>2. RowsTypeOK'
    BY <1>2 DEF CountRunDatabases, RowsTypeOK
  <2>3. LaunchTypeOK'
    BY <1>2 DEF CountRunDatabases, LaunchTypeOK
  <2>4. WorkTypeOK' /\ Busy'
    BY <1>2 DEF CountRunDatabases, WorkTypeOK, Busy, Handled
  <2>5. RequestTypeOK'
    BY <1>2 DEF CountRunDatabases, RequestTypeOK
  <2>. QED BY <1>0, <2>1, <2>2, <2>3, <2>4, <2>5
<1>3. CASE CompleteRun(w)
  <2>1. JobsTypeOK'
    BY <1>3, MarkCompletedType DEF CompleteRun, JobsTypeOK, RunState
  <2>2. RowsTypeOK'
    BY <1>3 DEF CompleteRun, RowsTypeOK
  <2>3. LaunchTypeOK'
    BY <1>3 DEF CompleteRun, LaunchTypeOK
  <2>4. WorkTypeOK' /\ Busy'
    BY <1>3 DEF CompleteRun, WorkTypeOK, Busy, Handled
  <2>5. RequestTypeOK'
    BY <1>3 DEF CompleteRun, RequestTypeOK
  <2>. QED BY <1>0, <2>1, <2>2, <2>3, <2>4, <2>5
<1>4. CASE WorkerFails(w)
  <2>1. JobsTypeOK'
    BY <1>4 DEF WorkerFails, JobsTypeOK
  <2>2. RowsTypeOK'
    BY <1>4 DEF WorkerFails, RowsTypeOK, Busy
  <2>3. LaunchTypeOK'
    BY <1>4 DEF WorkerFails, LaunchTypeOK
  <2>4. WorkTypeOK' /\ Busy'
    BY <1>4 DEF WorkerFails, WorkTypeOK, Busy, Handled
  <2>5. RequestTypeOK'
    BY <1>4 DEF WorkerFails, RequestTypeOK
  <2>. QED BY <1>0, <2>1, <2>2, <2>3, <2>4, <2>5
<1>. QED BY <1>1, <1>2, <1>3, <1>4 DEF WorkerNext

LEMMA RequestType ==
  ASSUME TypeInv, NEW j \in Job, RequestNext(j)
  PROVE  TypeInv'
<1>. USE DEF TypeInv, TypeOK
<1>0. HistoryTypeOK'
  BY HistoryType DEF Next
<1>1. CASE StopRead(j)
  <2>1. JobsTypeOK'
    BY <1>1 DEF StopRead, JobsTypeOK
  <2>2. RowsTypeOK'
    BY <1>1 DEF StopRead, RowsTypeOK
  <2>3. LaunchTypeOK'
    BY <1>1 DEF StopRead, LaunchTypeOK
  <2>4. WorkTypeOK' /\ Busy'
    BY <1>1 DEF StopRead, WorkTypeOK, Busy
  <2>5. RequestTypeOK'
    BY <1>1, JobAssumption DEF StopRead, RequestTypeOK, Run
  <2>. QED BY <1>0, <2>1, <2>2, <2>3, <2>4, <2>5
<1>2. CASE StopRun(j)
  <2>1. JobsTypeOK'
    BY <1>2 DEF StopRun, JobsTypeOK, JobState, RunState
  <2>2. RowsTypeOK'
    BY <1>2 DEF StopRun, RowsTypeOK, RunDatabaseState
  <2>3. LaunchTypeOK'
    BY <1>2 DEF StopRun, LaunchTypeOK
  <2>4. WorkTypeOK' /\ Busy'
    BY <1>2 DEF StopRun, WorkTypeOK, Busy
  <2>5. RequestTypeOK'
    BY <1>2 DEF StopRun, RequestTypeOK, RowsOf
  <2>. QED BY <1>0, <2>1, <2>2, <2>3, <2>4, <2>5
<1>3. CASE StopEnds(j)
  <2>1. JobsTypeOK'
    BY <1>3 DEF StopEnds, JobsTypeOK
  <2>2. RowsTypeOK'
    BY <1>3 DEF StopEnds, RowsTypeOK
  <2>3. LaunchTypeOK'
    BY <1>3 DEF StopEnds, LaunchTypeOK
  <2>4. WorkTypeOK' /\ Busy'
    BY <1>3 DEF StopEnds, WorkTypeOK, Busy
  <2>5. RequestTypeOK'
    BY <1>3, JobAssumption DEF StopEnds, RequestTypeOK, StopIdle
  <2>. QED BY <1>0, <2>1, <2>2, <2>3, <2>4, <2>5
<1>4. CASE \E x \in Row : StopRunDatabase(j, x)
  <2>0. PICK x \in Row : StopRunDatabase(j, x)
    BY <1>4
  <2>1. JobsTypeOK'
    BY <2>0 DEF StopRunDatabase, JobsTypeOK
  <2>2. RowsTypeOK'
    BY <2>0 DEF StopRunDatabase, RowsTypeOK, ExecState, Message, Outcome
  <2>3. LaunchTypeOK'
    BY <2>0 DEF StopRunDatabase, LaunchTypeOK
  <2>4. WorkTypeOK' /\ Busy'
    BY <2>0 DEF StopRunDatabase, WorkTypeOK, Busy
  <2>5. RequestTypeOK'
    BY <2>0, JobAssumption DEF StopRunDatabase, RequestTypeOK, StopIdle
  <2>. QED BY <1>0, <2>1, <2>2, <2>3, <2>4, <2>5
<1>5. CASE DeleteCheck(j)
  <2>1. JobsTypeOK'
    BY <1>5 DEF DeleteCheck, JobsTypeOK
  <2>2. RowsTypeOK'
    BY <1>5 DEF DeleteCheck, RowsTypeOK
  <2>3. LaunchTypeOK'
    BY <1>5 DEF DeleteCheck, LaunchTypeOK
  <2>4. WorkTypeOK' /\ Busy'
    BY <1>5 DEF DeleteCheck, WorkTypeOK, Busy
  <2>5. RequestTypeOK'
    BY <1>5 DEF DeleteCheck, RequestTypeOK
  <2>. QED BY <1>0, <2>1, <2>2, <2>3, <2>4, <2>5
<1>6. CASE DeleteJob(j)
  <2>1. JobsTypeOK'
    BY <1>6 DEF DeleteJob, JobsTypeOK, JobState
  <2>2. RowsTypeOK'
    BY <1>6 DEF DeleteJob, RowsTypeOK
  <2>3. LaunchTypeOK'
    BY <1>6 DEF DeleteJob, LaunchTypeOK
  <2>4. WorkTypeOK' /\ Busy'
    BY <1>6 DEF DeleteJob, WorkTypeOK, Busy
  <2>5. RequestTypeOK'
    BY <1>6 DEF DeleteJob, RequestTypeOK
  <2>. QED BY <1>0, <2>1, <2>2, <2>3, <2>4, <2>5
<1>. QED BY <1>1, <1>2, <1>3, <1>4, <1>5, <1>6 DEF RequestNext

LEMMA CheckRunningType ==
  ASSUME TypeInv, CheckRunningNext
  PROVE  TypeInv'
<1>. USE DEF TypeInv, TypeOK
<1>0. HistoryTypeOK'
  BY HistoryType DEF Next
<1>1. CASE CheckRunningRead
  <2>1. JobsTypeOK'
    BY <1>1 DEF CheckRunningRead, JobsTypeOK
  <2>2. RowsTypeOK'
    BY <1>1 DEF CheckRunningRead, RowsTypeOK
  <2>3. LaunchTypeOK'
    BY <1>1 DEF CheckRunningRead, LaunchTypeOK
  <2>4. WorkTypeOK' /\ Busy'
    BY <1>1 DEF CheckRunningRead, WorkTypeOK, Busy
  <2>5. RequestTypeOK'
    BY <1>1 DEF CheckRunningRead, RequestTypeOK
  <2>. QED BY <1>0, <2>1, <2>2, <2>3, <2>4, <2>5
<1>2. CASE \E x \in Row : CheckRunningOne(x)
  <2>0. PICK x \in Row : CheckRunningOne(x)
    BY <1>2
  <2>1. JobsTypeOK'
    BY <2>0 DEF CheckRunningOne, JobsTypeOK
  <2>2. RowsTypeOK'
    BY <2>0, AgentResultOK DEF CheckRunningOne, RowsTypeOK, Message
  <2>3. LaunchTypeOK'
    BY <2>0 DEF CheckRunningOne, LaunchTypeOK
  <2>4. WorkTypeOK' /\ Busy'
    BY <2>0 DEF CheckRunningOne, WorkTypeOK, Busy
  <2>5. RequestTypeOK'
    BY <2>0 DEF CheckRunningOne, RequestTypeOK
  <2>. QED BY <1>0, <2>1, <2>2, <2>3, <2>4, <2>5
<1>. QED BY <1>1, <1>2 DEF CheckRunningNext

LEMMA ExecutionType ==
  ASSUME TypeInv, ExecutionNext
  PROVE  TypeInv'
<1>. USE DEF TypeInv, TypeOK
<1>0. HistoryTypeOK'
  BY HistoryType DEF Next
<1>1. CASE \E x \in Row, end \in {"SUCCEEDED", "REPORTED_FAILED", "FAILED"} : ExecEnds(x, end)
  <2>0. PICK x \in Row, end \in {"SUCCEEDED", "REPORTED_FAILED", "FAILED"} : ExecEnds(x, end)
    BY <1>1
  <2>1. JobsTypeOK'
    BY <2>0 DEF ExecEnds, JobsTypeOK
  <2>2. RowsTypeOK'
    BY <2>0, ReportedOK DEF ExecEnds, RowsTypeOK, ExecState, Message
  <2>3. LaunchTypeOK'
    BY <2>0 DEF ExecEnds, LaunchTypeOK
  <2>4. WorkTypeOK' /\ Busy'
    BY <2>0 DEF ExecEnds, WorkTypeOK, Busy
  <2>5. RequestTypeOK'
    BY <2>0 DEF ExecEnds, RequestTypeOK
  <2>. QED BY <1>0, <2>1, <2>2, <2>3, <2>4, <2>5
<1>. QED BY <1>1 DEF ExecutionNext

LEMMA TypeNext == TypeInv /\ [Next]_vars => TypeInv'
<1>. SUFFICES ASSUME TypeInv, [Next]_vars PROVE TypeInv'
  OBVIOUS
<1>1. CASE UNCHANGED vars
  BY <1>1 DEF vars, TypeInv, TypeOK, Busy, JobsTypeOK, RowsTypeOK, LaunchTypeOK, WorkTypeOK,
     RequestTypeOK, HistoryTypeOK
<1>. QED
  BY <1>1, LauncherType, WorkerType, RequestType, CheckRunningType, ExecutionType DEF Next

\* Every reachable state is well typed: in particular no state outside the
\* enumerations, such as the ABORTED of the Step Functions API, is ever stored.
THEOREM TypeCorrect == Spec => []TypeOK
<1>1. Spec => []TypeInv
  BY TypeInit, TypeNext, PTL DEF Spec
<1>2. TypeInv => TypeOK
  BY DEF TypeInv
<1>. QED BY <1>1, <1>2, PTL
-----------------------------------------------------------------------------
(***************************************************************************)
(* The safety of DiscoveryJob for every instance: a stored state is        *)
(* justified by the execution it speaks of, a pending row by the rule that *)
(* will look at it, and a running job by a run in progress.                *)
(***************************************************************************)
\* The inductive invariant.  A state travels before it is committed: it sits in
\* the session of a launcher, in a message, or with the worker that may give
\* the message back.  It must be justified at each of these places.
StateOK(x, s) ==
    /\ s = "RUNNING" => exec[x] # "NONE"
    /\ s = "SUCCEEDED" => exec[x] = "SUCCEEDED"

RowsEarned     == \A x \in Row : StateOK(x, dbState[x])
SessionsEarned == \A p \in Launcher, x \in Row : StateOK(x, new[p][x])
QueueEarned    == \A m \in queue : StateOK(m.row, m.state)
WorkEarned     == \A w \in Worker : step[w] # "idle" => StateOK(msg[w].row, msg[w].state)

StateInv ==
    /\ TypeInv
    /\ RowsEarned /\ SessionsEarned /\ QueueEarned /\ WorkEarned

\* An execution that was started stays started, and one that succeeded stays so.
Progress ==
    /\ \A x \in Row :
           /\ exec[x] # "NONE" => exec'[x] # "NONE"
           /\ exec[x] = "SUCCEEDED" => exec'[x] = "SUCCEEDED"

LEMMA StateInit == Init => StateInv
BY TypeInit DEF Init, StateInv, RowsEarned, SessionsEarned, QueueEarned, WorkEarned,
   StateOK, Blank

\* What an action leaves alone stays justified.
LEMMA RowsEarnedFrame ==
  ASSUME RowsEarned, Progress, UNCHANGED dbState
  PROVE  RowsEarned'
BY DEF RowsEarned, StateOK, Progress

LEMMA QueueEarnedFrame ==
  ASSUME RowsTypeOK, QueueEarned, Progress, UNCHANGED queue
  PROVE  QueueEarned'
<1>. SUFFICES ASSUME NEW m \in queue PROVE StateOK(m.row, m.state)'
  BY DEF QueueEarned
<1>1. m.row \in Row /\ StateOK(m.row, m.state)
  BY DEF RowsTypeOK, Message, QueueEarned
<1>. QED BY <1>1 DEF StateOK, Progress

LEMMA WorkEarnedFrame ==
  ASSUME Busy, WorkEarned, Progress, UNCHANGED <<step, msg>>
  PROVE  WorkEarned'
<1>. SUFFICES ASSUME NEW w \in Worker, step[w] # "idle" PROVE StateOK(msg[w].row, msg[w].state)'
  BY DEF WorkEarned
<1>1. msg[w].row \in Row /\ StateOK(msg[w].row, msg[w].state)
  BY DEF Busy, Message, WorkEarned
<1>. QED BY <1>1 DEF StateOK, Progress

LEMMA SessionsFrame ==
  ASSUME SessionsEarned, Progress,
         \A p \in Launcher, x \in Row : new'[p][x] = new[p][x] \/ new'[p][x] = "NONE"
  PROVE  SessionsEarned'
<1>. SUFFICES ASSUME NEW p \in Launcher, NEW x \in Row PROVE StateOK(x, new[p][x])'
  BY DEF SessionsEarned
<1>1. StateOK(x, new[p][x])
  BY DEF SessionsEarned
<1>2. new'[p][x] = new[p][x] \/ new'[p][x] = "NONE"
  OBVIOUS
<1>. QED BY <1>1, <1>2 DEF StateOK, Progress

LEMMA EndLaunchFrame ==
  ASSUME LaunchTypeOK, SessionsEarned, Progress,
         NEW p \in Launcher, EndLaunch(p)
  PROVE  SessionsEarned'
<1>1. \A q \in Launcher, x \in Row : new'[q][x] = new[q][x] \/ new'[q][x] = "NONE"
  BY DEF LaunchTypeOK, EndLaunch, Blank
<1>. QED BY <1>1, SessionsFrame

LEMMA LauncherState ==
  ASSUME StateInv, NEW p \in Launcher, LauncherNext(p)
  PROVE  StateInv'
<1>. USE DEF StateInv
<1>0. TypeInv /\ TypeInv'
  BY TypeNext DEF Next
<1>1. CASE \E j \in Job : StartJob(p, j)
  <2>0. PICK j \in Job : StartJob(p, j)
    BY <1>1
  <2>1. Progress
    BY <2>0, <1>0 DEF Progress, TypeInv, TypeOK, RowsTypeOK, StartJob
  <2>2. RowsEarned' /\ SessionsEarned' /\ QueueEarned' /\ WorkEarned'
    <3>1. UNCHANGED <<dbState, new, queue, step, msg>>
      BY <2>0 DEF StartJob
    <3>2. RowsEarned'
      BY <3>1, <2>1, <1>0, RowsEarnedFrame
    <3>3. SessionsEarned'
      BY <3>1, <2>1, <1>0, SessionsFrame
    <3>4. QueueEarned'
      BY <3>1, <2>1, <1>0, QueueEarnedFrame DEF TypeInv, TypeOK
    <3>5. WorkEarned'
      BY <3>1, <2>1, <1>0, WorkEarnedFrame DEF TypeInv
    <3>. QED BY <3>2, <3>3, <3>4, <3>5
  <2>. QED BY <1>0, <2>2
<1>2. CASE InitRun(p)
  <2>1. Progress
    BY <1>2, <1>0 DEF Progress, TypeInv, TypeOK, RowsTypeOK, InitRun
  <2>2. QueueEarned' /\ WorkEarned'
    <3>1. UNCHANGED <<queue, step, msg>>
      BY <1>2 DEF InitRun
    <3>2. QueueEarned'
      BY <3>1, <2>1, <1>0, QueueEarnedFrame DEF TypeInv, TypeOK
    <3>3. WorkEarned'
      BY <3>1, <2>1, <1>0, WorkEarnedFrame DEF TypeInv
    <3>. QED BY <3>2, <3>3
  <2>3. RowsEarned'
    BY <1>2, <2>1, <1>0
       DEF InitRun, RowsEarned, Progress, StateOK, TypeInv, TypeOK, RowsTypeOK, InitStates
  <2>5. SessionsEarned'
    BY <1>2, <2>1, <1>0
       DEF InitRun, SessionsEarned, Progress, StateOK, TypeInv, TypeOK, LaunchTypeOK, InitStates, Loaded
  <2>. QED BY <1>0, <2>2, <2>3, <2>5
<1>3. CASE InitRunFails(p)
  <2>1. Progress
    BY <1>3, <1>0 DEF Progress, TypeInv, TypeOK, RowsTypeOK, InitRunFails
  <2>2. RowsEarned' /\ SessionsEarned' /\ QueueEarned' /\ WorkEarned'
    <3>1. UNCHANGED <<dbState, queue, step, msg>> /\ EndLaunch(p)
      BY <1>3 DEF InitRunFails
    <3>2. RowsEarned'
      BY <3>1, <2>1, <1>0, RowsEarnedFrame
    <3>3. SessionsEarned'
      BY <3>1, <2>1, <1>0, EndLaunchFrame DEF TypeInv, TypeOK
    <3>4. QueueEarned'
      BY <3>1, <2>1, <1>0, QueueEarnedFrame DEF TypeInv, TypeOK
    <3>5. WorkEarned'
      BY <3>1, <2>1, <1>0, WorkEarnedFrame DEF TypeInv
    <3>. QED BY <3>2, <3>3, <3>4, <3>5
  <2>. QED BY <1>0, <2>2
<1>4. CASE CheckPending(p)
  <2>1. Progress
    BY <1>4, <1>0 DEF Progress, TypeInv, TypeOK, RowsTypeOK, CheckPending
  <2>2. RowsEarned' /\ QueueEarned' /\ WorkEarned'
    <3>1. UNCHANGED <<dbState, queue, step, msg>>
      BY <1>4 DEF CheckPending
    <3>2. RowsEarned'
      BY <3>1, <2>1, <1>0, RowsEarnedFrame
    <3>3. QueueEarned'
      BY <3>1, <2>1, <1>0, QueueEarnedFrame DEF TypeInv, TypeOK
    <3>4. WorkEarned'
      BY <3>1, <2>1, <1>0, WorkEarnedFrame DEF TypeInv
    <3>. QED BY <3>2, <3>3, <3>4
  <2>3. SessionsEarned'
    BY <1>4, <2>1, <1>0
       DEF CheckPending, SessionsEarned, Progress, StateOK, TypeInv, TypeOK, LaunchTypeOK, RowsEarned, Loaded
  <2>. QED BY <1>0, <2>2, <2>3
<1>5. CASE \E x \in Row : Postpone(p, x)
  <2>0. PICK x \in Row : Postpone(p, x)
    BY <1>5
  <2>1. Progress
    BY <2>0, <1>0 DEF Progress, TypeInv, TypeOK, RowsTypeOK, Postpone
  <2>2. RowsEarned' /\ QueueEarned' /\ WorkEarned'
    <3>1. UNCHANGED <<dbState, queue, step, msg>>
      BY <2>0 DEF Postpone
    <3>2. RowsEarned'
      BY <3>1, <2>1, <1>0, RowsEarnedFrame
    <3>3. QueueEarned'
      BY <3>1, <2>1, <1>0, QueueEarnedFrame DEF TypeInv, TypeOK
    <3>4. WorkEarned'
      BY <3>1, <2>1, <1>0, WorkEarnedFrame DEF TypeInv
    <3>. QED BY <3>2, <3>3, <3>4
  <2>3. SessionsEarned'
    BY <2>0, <2>1, <1>0
       DEF Postpone, SessionsEarned, Progress, StateOK, TypeInv, TypeOK, LaunchTypeOK, Assign
  <2>. QED BY <1>0, <2>2, <2>3
<1>12. CASE \E x \in Row : EnableFails(p, x)
  <2>0. PICK x \in Row : EnableFails(p, x)
    BY <1>12
  <2>1. Progress
    BY <2>0, <1>0 DEF Progress, TypeInv, TypeOK, RowsTypeOK, EnableFails
  <2>2. RowsEarned' /\ QueueEarned' /\ WorkEarned'
    <3>1. UNCHANGED <<dbState, queue, step, msg>>
      BY <2>0 DEF EnableFails
    <3>2. RowsEarned'
      BY <3>1, <2>1, <1>0, RowsEarnedFrame
    <3>3. QueueEarned'
      BY <3>1, <2>1, <1>0, QueueEarnedFrame DEF TypeInv, TypeOK
    <3>4. WorkEarned'
      BY <3>1, <2>1, <1>0, WorkEarnedFrame DEF TypeInv
    <3>. QED BY <3>2, <3>3, <3>4
  <2>3. SessionsEarned'
    BY <2>0, <2>1, <1>0
       DEF EnableFails, SessionsEarned, Progress, StateOK, TypeInv, TypeOK, LaunchTypeOK, Assign
  <2>. QED BY <1>0, <2>2, <2>3
<1>6. CASE \E x \in Row : Launch(p, x)
  <2>0. PICK x \in Row : Launch(p, x)
    BY <1>6
  <2>1. Progress
    BY <2>0, <1>0 DEF Progress, TypeInv, TypeOK, RowsTypeOK, Launch
  <2>2. RowsEarned' /\ QueueEarned' /\ WorkEarned'
    <3>1. UNCHANGED <<dbState, queue, step, msg>>
      BY <2>0 DEF Launch
    <3>2. RowsEarned'
      BY <3>1, <2>1, <1>0, RowsEarnedFrame
    <3>3. QueueEarned'
      BY <3>1, <2>1, <1>0, QueueEarnedFrame DEF TypeInv, TypeOK
    <3>4. WorkEarned'
      BY <3>1, <2>1, <1>0, WorkEarnedFrame DEF TypeInv
    <3>. QED BY <3>2, <3>3, <3>4
  <2>3. SessionsEarned'
    BY <2>0, <2>1, <1>0
       DEF Launch, SessionsEarned, Progress, StateOK, TypeInv, TypeOK, LaunchTypeOK, Assign, RowsTypeOK
  <2>. QED BY <1>0, <2>2, <2>3
<1>7. CASE \E x \in Row : LaunchFails(p, x)
  <2>0. PICK x \in Row : LaunchFails(p, x)
    BY <1>7
  <2>1. Progress
    BY <2>0, <1>0 DEF Progress, TypeInv, TypeOK, RowsTypeOK, LaunchFails
  <2>2. RowsEarned' /\ QueueEarned' /\ WorkEarned'
    <3>1. UNCHANGED <<dbState, queue, step, msg>>
      BY <2>0 DEF LaunchFails
    <3>2. RowsEarned'
      BY <3>1, <2>1, <1>0, RowsEarnedFrame
    <3>3. QueueEarned'
      BY <3>1, <2>1, <1>0, QueueEarnedFrame DEF TypeInv, TypeOK
    <3>4. WorkEarned'
      BY <3>1, <2>1, <1>0, WorkEarnedFrame DEF TypeInv
    <3>. QED BY <3>2, <3>3, <3>4
  <2>3. SessionsEarned'
    BY <2>0, <2>1, <1>0
       DEF LaunchFails, SessionsEarned, Progress, StateOK, TypeInv, TypeOK, LaunchTypeOK, Assign, RowsTypeOK
  <2>. QED BY <1>0, <2>2, <2>3
<1>8. CASE Flush(p)
  <2>1. Progress
    BY <1>8, <1>0 DEF Progress, TypeInv, TypeOK, RowsTypeOK, Flush
  <2>2. QueueEarned' /\ WorkEarned'
    <3>1. UNCHANGED <<queue, step, msg>>
      BY <1>8 DEF Flush
    <3>2. QueueEarned'
      BY <3>1, <2>1, <1>0, QueueEarnedFrame DEF TypeInv, TypeOK
    <3>3. WorkEarned'
      BY <3>1, <2>1, <1>0, WorkEarnedFrame DEF TypeInv
    <3>. QED BY <3>2, <3>3
  <2>3. RowsEarned'
    BY <1>8, <2>1, <1>0
       DEF Flush, RowsEarned, Progress, StateOK, TypeInv, TypeOK, RowsTypeOK, SessionsEarned, Committed
  <2>5. SessionsEarned'
    BY <1>8, <2>1, <1>0
       DEF Flush, SessionsEarned, Progress, StateOK, TypeInv, TypeOK, LaunchTypeOK, RowsEarned, Committed, Loaded
  <2>. QED BY <1>0, <2>2, <2>3, <2>5
<1>9. CASE SaveRunDatabases(p)
  <2>1. Progress
    BY <1>9, <1>0 DEF Progress, TypeInv, TypeOK, RowsTypeOK, SaveRunDatabases
  <2>2. SessionsEarned' /\ QueueEarned' /\ WorkEarned'
    <3>1. UNCHANGED <<queue, step, msg>>
      BY <1>9 DEF SaveRunDatabases
    <3>2. SessionsEarned'
      <4>1. CASE EndLaunch(p)
        BY <4>1, <2>1, <1>0, EndLaunchFrame DEF TypeInv, TypeOK
      <4>2. CASE UNCHANGED new
        BY <4>2, <2>1, <1>0, SessionsFrame
      <4>. QED BY <4>1, <4>2, <1>9 DEF SaveRunDatabases
    <3>3. QueueEarned'
      BY <3>1, <2>1, <1>0, QueueEarnedFrame DEF TypeInv, TypeOK
    <3>4. WorkEarned'
      BY <3>1, <2>1, <1>0, WorkEarnedFrame DEF TypeInv
    <3>. QED BY <3>2, <3>3, <3>4
  <2>3. RowsEarned'
    BY <1>9, <2>1, <1>0
       DEF SaveRunDatabases, RowsEarned, Progress, StateOK, TypeInv, TypeOK, RowsTypeOK, SessionsEarned, Committed
  <2>. QED BY <1>0, <2>2, <2>3
<1>10. CASE AbortRun(p)
  <2>1. Progress
    BY <1>10, <1>0 DEF Progress, TypeInv, TypeOK, RowsTypeOK, AbortRun
  <2>2. RowsEarned' /\ SessionsEarned' /\ QueueEarned' /\ WorkEarned'
    <3>1. UNCHANGED <<dbState, queue, step, msg>> /\ EndLaunch(p)
      BY <1>10 DEF AbortRun
    <3>2. RowsEarned'
      BY <3>1, <2>1, <1>0, RowsEarnedFrame
    <3>3. SessionsEarned'
      BY <3>1, <2>1, <1>0, EndLaunchFrame DEF TypeInv, TypeOK
    <3>4. QueueEarned'
      BY <3>1, <2>1, <1>0, QueueEarnedFrame DEF TypeInv, TypeOK
    <3>5. WorkEarned'
      BY <3>1, <2>1, <1>0, WorkEarnedFrame DEF TypeInv
    <3>. QED BY <3>2, <3>3, <3>4, <3>5
  <2>. QED BY <1>0, <2>2
<1>11. CASE LauncherCrash(p)
  <2>1. Progress
    BY <1>11, <1>0 DEF Progress, TypeInv, TypeOK, RowsTypeOK, LauncherCrash
  <2>2. RowsEarned' /\ SessionsEarned' /\ QueueEarned' /\ WorkEarned'
    <3>1. UNCHANGED <<dbState, queue, step, msg>> /\ EndLaunch(p)
      BY <1>11 DEF LauncherCrash
    <3>2. RowsEarned'
      BY <3>1, <2>1, <1>0, RowsEarnedFrame
    <3>3. SessionsEarned'
      BY <3>1, <2>1, <1>0, EndLaunchFrame DEF TypeInv, TypeOK
    <3>4. QueueEarned'
      BY <3>1, <2>1, <1>0, QueueEarnedFrame DEF TypeInv, TypeOK
    <3>5. WorkEarned'
      BY <3>1, <2>1, <1>0, WorkEarnedFrame DEF TypeInv
    <3>. QED BY <3>2, <3>3, <3>4, <3>5
  <2>. QED BY <1>0, <2>2
<1>. QED
  BY <1>1, <1>2, <1>3, <1>4, <1>5, <1>6, <1>7, <1>8, <1>9, <1>10, <1>11, <1>12 DEF LauncherNext

LEMMA WorkerState ==
  ASSUME StateInv, NEW w \in Worker, WorkerNext(w)
  PROVE  StateInv'
<1>. USE DEF StateInv
<1>0. TypeInv /\ TypeInv'
  BY TypeNext DEF Next
<1>1. CASE \E m \in queue : CompleteRunDatabase(w, m)
  <2>0. PICK m \in queue : CompleteRunDatabase(w, m)
    BY <1>1
  <2>1. Progress
    BY <2>0, <1>0 DEF Progress, TypeInv, TypeOK, RowsTypeOK, CompleteRunDatabase
  <2>2. SessionsEarned' /\ QueueEarned'
    <3>1. UNCHANGED new /\ queue' \subseteq queue
      BY <2>0 DEF CompleteRunDatabase
    <3>2. SessionsEarned'
      BY <3>1, <2>1, <1>0, SessionsFrame
    <3>3. QueueEarned'
      <4>. SUFFICES ASSUME NEW n \in queue PROVE StateOK(n.row, n.state)'
        BY <3>1 DEF QueueEarned
      <4>1. n.row \in Row /\ StateOK(n.row, n.state)
        BY <1>0 DEF TypeInv, TypeOK, RowsTypeOK, Message, QueueEarned
      <4>. QED BY <4>1, <2>1 DEF StateOK, Progress
    <3>. QED BY <3>2, <3>3
  <2>3. RowsEarned'
    BY <2>0, <2>1, <1>0
       DEF CompleteRunDatabase, RowsEarned, Progress, StateOK, TypeInv, TypeOK, RowsTypeOK, QueueEarned, Message
  <2>5. WorkEarned'
    BY <2>0, <2>1, <1>0
       DEF CompleteRunDatabase, WorkEarned, Progress, StateOK, TypeInv, TypeOK, Busy, WorkTypeOK, Message, QueueEarned, RowsTypeOK
  <2>. QED BY <1>0, <2>2, <2>3, <2>5
<1>2. CASE CountRunDatabases(w)
  <2>1. Progress
    BY <1>2, <1>0 DEF Progress, TypeInv, TypeOK, RowsTypeOK, CountRunDatabases
  <2>2. RowsEarned' /\ SessionsEarned' /\ QueueEarned'
    <3>1. UNCHANGED <<dbState, new, queue>>
      BY <1>2 DEF CountRunDatabases
    <3>2. RowsEarned'
      BY <3>1, <2>1, <1>0, RowsEarnedFrame
    <3>3. SessionsEarned'
      BY <3>1, <2>1, <1>0, SessionsFrame
    <3>4. QueueEarned'
      BY <3>1, <2>1, <1>0, QueueEarnedFrame DEF TypeInv, TypeOK
    <3>. QED BY <3>2, <3>3, <3>4
  <2>3. WorkEarned'
    BY <1>2, <2>1, <1>0
       DEF CountRunDatabases, WorkEarned, Progress, StateOK, TypeInv, TypeOK, Busy, WorkTypeOK, Message, Handled
  <2>. QED BY <1>0, <2>2, <2>3
<1>3. CASE CompleteRun(w)
  <2>1. Progress
    BY <1>3, <1>0 DEF Progress, TypeInv, TypeOK, RowsTypeOK, CompleteRun
  <2>2. RowsEarned' /\ SessionsEarned' /\ QueueEarned'
    <3>1. UNCHANGED <<dbState, new, queue>>
      BY <1>3 DEF CompleteRun
    <3>2. RowsEarned'
      BY <3>1, <2>1, <1>0, RowsEarnedFrame
    <3>3. SessionsEarned'
      BY <3>1, <2>1, <1>0, SessionsFrame
    <3>4. QueueEarned'
      BY <3>1, <2>1, <1>0, QueueEarnedFrame DEF TypeInv, TypeOK
    <3>. QED BY <3>2, <3>3, <3>4
  <2>3. WorkEarned'
    BY <1>3, <2>1, <1>0
       DEF CompleteRun, WorkEarned, Progress, StateOK, TypeInv, TypeOK, Busy, WorkTypeOK, Message, Handled
  <2>. QED BY <1>0, <2>2, <2>3
<1>4. CASE WorkerFails(w)
  <2>1. Progress
    BY <1>4, <1>0 DEF Progress, TypeInv, TypeOK, RowsTypeOK, WorkerFails
  <2>2. RowsEarned' /\ SessionsEarned'
    <3>1. UNCHANGED <<dbState, new>>
      BY <1>4 DEF WorkerFails
    <3>2. RowsEarned'
      BY <3>1, <2>1, <1>0, RowsEarnedFrame
    <3>3. SessionsEarned'
      BY <3>1, <2>1, <1>0, SessionsFrame
    <3>. QED BY <3>2, <3>3
  <2>3. QueueEarned'
    BY <1>4, <2>1, <1>0
       DEF WorkerFails, QueueEarned, Progress, StateOK, TypeInv, TypeOK, RowsTypeOK, Message, WorkEarned, Busy
  <2>4. WorkEarned'
    BY <1>4, <2>1, <1>0
       DEF WorkerFails, WorkEarned, Progress, StateOK, TypeInv, TypeOK, Busy, WorkTypeOK, Message, Handled
  <2>. QED BY <1>0, <2>2, <2>3, <2>4
<1>. QED BY <1>1, <1>2, <1>3, <1>4 DEF WorkerNext

LEMMA RequestState ==
  ASSUME StateInv, NEW j \in Job, RequestNext(j)
  PROVE  StateInv'
<1>. USE DEF StateInv
<1>0. TypeInv /\ TypeInv'
  BY TypeNext DEF Next
<1>1. CASE StopRead(j)
  <2>1. Progress
    BY <1>1, <1>0 DEF Progress, TypeInv, TypeOK, RowsTypeOK, StopRead
  <2>2. RowsEarned' /\ SessionsEarned' /\ QueueEarned' /\ WorkEarned'
    <3>1. UNCHANGED <<dbState, new, queue, step, msg>>
      BY <1>1 DEF StopRead
    <3>2. RowsEarned'
      BY <3>1, <2>1, <1>0, RowsEarnedFrame
    <3>3. SessionsEarned'
      BY <3>1, <2>1, <1>0, SessionsFrame
    <3>4. QueueEarned'
      BY <3>1, <2>1, <1>0, QueueEarnedFrame DEF TypeInv, TypeOK
    <3>5. WorkEarned'
      BY <3>1, <2>1, <1>0, WorkEarnedFrame DEF TypeInv
    <3>. QED BY <3>2, <3>3, <3>4, <3>5
  <2>. QED BY <1>0, <2>2
<1>2. CASE StopRun(j)
  <2>1. Progress
    BY <1>2, <1>0 DEF Progress, TypeInv, TypeOK, RowsTypeOK, StopRun
  <2>2. RowsEarned' /\ SessionsEarned' /\ QueueEarned' /\ WorkEarned'
    <3>1. UNCHANGED <<new, queue, step, msg>>
      BY <1>2 DEF StopRun
    <3>2. RowsEarned'
      BY <1>2, <2>1, <1>0 DEF StopRun, RowsEarned, Progress, StateOK, TypeInv, TypeOK, RowsTypeOK
    <3>4. SessionsEarned'
      BY <3>1, <2>1, <1>0, SessionsFrame
    <3>5. QueueEarned'
      BY <3>1, <2>1, <1>0, QueueEarnedFrame DEF TypeInv, TypeOK
    <3>6. WorkEarned'
      BY <3>1, <2>1, <1>0, WorkEarnedFrame DEF TypeInv
    <3>. QED BY <3>2, <3>4, <3>5, <3>6
  <2>. QED BY <1>0, <2>2
<1>3. CASE StopEnds(j)
  <2>1. Progress
    BY <1>3, <1>0 DEF Progress, TypeInv, TypeOK, RowsTypeOK, StopEnds
  <2>2. RowsEarned' /\ SessionsEarned' /\ QueueEarned' /\ WorkEarned'
    <3>1. UNCHANGED <<dbState, new, queue, step, msg>>
      BY <1>3 DEF StopEnds
    <3>2. RowsEarned'
      BY <3>1, <2>1, <1>0, RowsEarnedFrame
    <3>3. SessionsEarned'
      BY <3>1, <2>1, <1>0, SessionsFrame
    <3>4. QueueEarned'
      BY <3>1, <2>1, <1>0, QueueEarnedFrame DEF TypeInv, TypeOK
    <3>5. WorkEarned'
      BY <3>1, <2>1, <1>0, WorkEarnedFrame DEF TypeInv
    <3>. QED BY <3>2, <3>3, <3>4, <3>5
  <2>. QED BY <1>0, <2>2
<1>4. CASE \E x \in Row : StopRunDatabase(j, x)
  <2>0. PICK x \in Row : StopRunDatabase(j, x)
    BY <1>4
  <2>1. Progress
    BY <2>0, <1>0 DEF Progress, TypeInv, TypeOK, RowsTypeOK, StopRunDatabase
  <2>2. RowsEarned' /\ SessionsEarned' /\ QueueEarned' /\ WorkEarned'
    <3>1. UNCHANGED <<dbState, new, step, msg>>
      BY <2>0 DEF StopRunDatabase
    <3>2. RowsEarned'
      BY <3>1, <2>1, <1>0, RowsEarnedFrame
    <3>3. SessionsEarned'
      BY <3>1, <2>1, <1>0, SessionsFrame
    <3>4. QueueEarned'
      <4>. SUFFICES ASSUME NEW m \in queue' PROVE StateOK(m.row, m.state)'
        BY DEF QueueEarned
      <4>1. CASE m \in queue
        <5>1. m.row \in Row /\ StateOK(m.row, m.state)
          BY <1>0, <4>1 DEF TypeInv, TypeOK, RowsTypeOK, Message, QueueEarned
        <5>. QED BY <5>1, <2>1 DEF StateOK, Progress
      <4>2. CASE m.state = "STOPPED"
        BY <4>2 DEF StateOK
      <4>. QED BY <2>0, <4>1, <4>2 DEF StopRunDatabase
    <3>5. WorkEarned'
      BY <3>1, <2>1, <1>0, WorkEarnedFrame DEF TypeInv
    <3>. QED BY <3>2, <3>3, <3>4, <3>5
  <2>. QED BY <1>0, <2>2
<1>5. CASE DeleteCheck(j)
  <2>1. Progress
    BY <1>5, <1>0 DEF Progress, TypeInv, TypeOK, RowsTypeOK, DeleteCheck
  <2>2. RowsEarned' /\ SessionsEarned' /\ QueueEarned' /\ WorkEarned'
    <3>1. UNCHANGED <<dbState, new, queue, step, msg>>
      BY <1>5 DEF DeleteCheck
    <3>2. RowsEarned'
      BY <3>1, <2>1, <1>0, RowsEarnedFrame
    <3>3. SessionsEarned'
      BY <3>1, <2>1, <1>0, SessionsFrame
    <3>4. QueueEarned'
      BY <3>1, <2>1, <1>0, QueueEarnedFrame DEF TypeInv, TypeOK
    <3>5. WorkEarned'
      BY <3>1, <2>1, <1>0, WorkEarnedFrame DEF TypeInv
    <3>. QED BY <3>2, <3>3, <3>4, <3>5
  <2>. QED BY <1>0, <2>2
<1>6. CASE DeleteJob(j)
  <2>1. Progress
    BY <1>6, <1>0 DEF Progress, TypeInv, TypeOK, RowsTypeOK, DeleteJob
  <2>2. RowsEarned' /\ SessionsEarned' /\ QueueEarned' /\ WorkEarned'
    <3>1. UNCHANGED <<dbState, new, queue, step, msg>>
      BY <1>6 DEF DeleteJob
    <3>2. RowsEarned'
      BY <3>1, <2>1, <1>0, RowsEarnedFrame
    <3>3. SessionsEarned'
      BY <3>1, <2>1, <1>0, SessionsFrame
    <3>4. QueueEarned'
      BY <3>1, <2>1, <1>0, QueueEarnedFrame DEF TypeInv, TypeOK
    <3>5. WorkEarned'
      BY <3>1, <2>1, <1>0, WorkEarnedFrame DEF TypeInv
    <3>. QED BY <3>2, <3>3, <3>4, <3>5
  <2>. QED BY <1>0, <2>2
<1>. QED BY <1>1, <1>2, <1>3, <1>4, <1>5, <1>6 DEF RequestNext

LEMMA CheckRunningState ==
  ASSUME StateInv, CheckRunningNext
  PROVE  StateInv'
<1>. USE DEF StateInv
<1>0. TypeInv /\ TypeInv'
  BY TypeNext DEF Next
<1>1. CASE CheckRunningRead
  <2>1. Progress
    BY <1>1, <1>0 DEF Progress, TypeInv, TypeOK, RowsTypeOK, CheckRunningRead
  <2>2. RowsEarned' /\ SessionsEarned' /\ QueueEarned' /\ WorkEarned'
    <3>1. UNCHANGED <<dbState, new, queue, step, msg>>
      BY <1>1 DEF CheckRunningRead
    <3>2. RowsEarned'
      BY <3>1, <2>1, <1>0, RowsEarnedFrame
    <3>3. SessionsEarned'
      BY <3>1, <2>1, <1>0, SessionsFrame
    <3>4. QueueEarned'
      BY <3>1, <2>1, <1>0, QueueEarnedFrame DEF TypeInv, TypeOK
    <3>5. WorkEarned'
      BY <3>1, <2>1, <1>0, WorkEarnedFrame DEF TypeInv
    <3>. QED BY <3>2, <3>3, <3>4, <3>5
  <2>. QED BY <1>0, <2>2
<1>2. CASE \E x \in Row : CheckRunningOne(x)
  <2>0. PICK x \in Row : CheckRunningOne(x)
    BY <1>2
  <2>1. Progress
    BY <2>0, <1>0 DEF Progress, TypeInv, TypeOK, RowsTypeOK, CheckRunningOne
  <2>2. RowsEarned' /\ SessionsEarned' /\ WorkEarned'
    <3>1. UNCHANGED <<dbState, new, step, msg>>
      BY <2>0 DEF CheckRunningOne
    <3>2. RowsEarned'
      BY <3>1, <2>1, <1>0, RowsEarnedFrame
    <3>3. SessionsEarned'
      BY <3>1, <2>1, <1>0, SessionsFrame
    <3>4. WorkEarned'
      BY <3>1, <2>1, <1>0, WorkEarnedFrame DEF TypeInv
    <3>. QED BY <3>2, <3>3, <3>4
  <2>3. QueueEarned'
    BY <2>0, <2>1, <1>0, AgentResultOK
       DEF CheckRunningOne, QueueEarned, Progress, StateOK, TypeInv, TypeOK, RowsTypeOK, Message
  <2>. QED BY <1>0, <2>2, <2>3
<1>. QED BY <1>1, <1>2 DEF CheckRunningNext

LEMMA ExecutionState ==
  ASSUME StateInv, ExecutionNext
  PROVE  StateInv'
<1>. USE DEF StateInv
<1>0. TypeInv /\ TypeInv'
  BY TypeNext DEF Next
<1>1. CASE \E x \in Row, end \in {"SUCCEEDED", "REPORTED_FAILED", "FAILED"} : ExecEnds(x, end)
  <2>0. PICK x \in Row, end \in {"SUCCEEDED", "REPORTED_FAILED", "FAILED"} : ExecEnds(x, end)
    BY <1>1
  <2>1. Progress
    BY <2>0, <1>0 DEF Progress, TypeInv, TypeOK, RowsTypeOK, ExecEnds
  <2>2. RowsEarned' /\ SessionsEarned' /\ WorkEarned'
    <3>1. UNCHANGED <<dbState, new, step, msg>>
      BY <2>0 DEF ExecEnds
    <3>2. RowsEarned'
      BY <3>1, <2>1, <1>0, RowsEarnedFrame
    <3>3. SessionsEarned'
      BY <3>1, <2>1, <1>0, SessionsFrame
    <3>4. WorkEarned'
      BY <3>1, <2>1, <1>0, WorkEarnedFrame DEF TypeInv
    <3>. QED BY <3>2, <3>3, <3>4
  <2>3. QueueEarned'
    BY <2>0, <2>1, <1>0, ReportedOK
       DEF ExecEnds, QueueEarned, Progress, StateOK, TypeInv, TypeOK, RowsTypeOK, Message, Outcome
  <2>. QED BY <1>0, <2>2, <2>3
<1>. QED BY <1>1 DEF ExecutionNext

LEMMA StateNext == StateInv /\ [Next]_vars => StateInv'
<1>. SUFFICES ASSUME StateInv, [Next]_vars PROVE StateInv'
  OBVIOUS
<1>1. CASE UNCHANGED vars
  <2>1. TypeInv'
    BY TypeNext DEF StateInv
  <2>2. Progress
    BY <1>1 DEF vars, Progress
  <2>3. UNCHANGED <<dbState, new, queue, step, msg>>
    BY <1>1 DEF vars
  <2>4. RowsEarned'
    BY <2>2, <2>3, RowsEarnedFrame DEF StateInv
  <2>5. SessionsEarned'
    BY <2>2, <2>3, SessionsFrame DEF StateInv
  <2>6. QueueEarned' /\ WorkEarned'
    BY <2>2, <2>3, QueueEarnedFrame, WorkEarnedFrame DEF StateInv, TypeInv, TypeOK
  <2>. QED BY <2>1, <2>4, <2>5, <2>6 DEF StateInv
<1>. QED
  BY <1>1, LauncherState, WorkerState, RequestState, CheckRunningState, ExecutionState DEF Next

LEMMA StateInvariant == Spec => []StateInv
BY StateInit, StateNext, PTL DEF Spec

\* A RUNNING row has an execution, under any interleaving of launchers, late
\* saves, duplicated messages, crashes and stops.
THEOREM RunningRowsWereStarted == Spec => []RunningWasStarted
<1>1. StateInv => RunningWasStarted
  BY DEF StateInv, RowsEarned, StateOK, RunningWasStarted
<1>. QED BY <1>1, StateInvariant, PTL

\* A SUCCEEDED row has an execution that succeeded.
THEOREM SuccessIsAlwaysEarned == Spec => []SuccessIsEarned
<1>1. StateInv => SuccessIsEarned
  BY DEF StateInv, RowsEarned, StateOK, SuccessIsEarned
<1>. QED BY <1>1, StateInvariant, PTL

----------------------------------------------------------------------------
\* Pending rows.  The rule is enabled, or the run is one of those the code forgets.
Watched(r) == pendingRule \/ r \in unwatched

\* What a launcher is about to save as PENDING is watched, and its flag says so of
\* the run whose rows it has still to launch.
SessionsWatched ==
    \A p \in Launcher :
        /\ \A x \in Row : new[p][x] = "PENDING" => Watched(x[1])
        /\ pendingStarted[p] => Watched(srun[p])
        /\ phase[p] \in {"idle", "init"} => srun[p] = 0 /\ ~pendingStarted[p]
        /\ \A x \in todo[p] : IF srun[p] = 0 THEN pendingRule ELSE x[1] = srun[p]

PendingInv == TypeInv /\ PendingIsWatched /\ SessionsWatched

LEMMA PendingInit == Init => PendingInv
BY TypeInit DEF Init, PendingInv, PendingIsWatched, SessionsWatched, Blank

\* The rule is never disabled.
LEMMA StaysWatched ==
  ASSUME pendingRule => pendingRule', unwatched \subseteq unwatched'
  PROVE  \A r : Watched(r) => Watched(r)'
BY DEF Watched

\* Steps that leave the launchers and the rule alone, and make no row PENDING.
LEMMA PendingFrame ==
  ASSUME PendingInv, UNCHANGED <<pendingRule, launchVars, unwatched>>,
         \A x \in Row : dbState'[x] = "PENDING" => dbState[x] = "PENDING"
  PROVE  PendingIsWatched' /\ SessionsWatched'
BY DEF PendingInv, PendingIsWatched, SessionsWatched, Watched

LEMMA PendingEnd ==
  ASSUME PendingInv, UNCHANGED <<pendingRule, unwatched>>, NEW p \in Launcher, EndLaunch(p)
  PROVE  SessionsWatched'
BY DEF PendingInv, TypeInv, TypeOK, LaunchTypeOK, SessionsWatched, EndLaunch, Watched, Blank

\* What a session commits is watched.
LEMMA PendingCommit ==
  ASSUME PendingInv, UNCHANGED <<pendingRule, unwatched>>, NEW p \in Launcher,
         dbState' = Committed(p)
  PROVE  PendingIsWatched'
BY DEF PendingInv, PendingIsWatched, SessionsWatched, Watched, Committed

LEMMA LauncherPending ==
  ASSUME PendingInv, TypeInv', NEW p \in Launcher, LauncherNext(p)
  PROVE  PendingIsWatched' /\ SessionsWatched'
<1>. USE DEF PendingInv
<1>0. LaunchTypeOK /\ JobsTypeOK /\ RowsTypeOK
  BY DEF TypeInv, TypeOK
<1>1. CASE \E j \in Job : StartJob(p, j)
  BY <1>1, <1>0 DEF StartJob, PendingIsWatched, SessionsWatched, Watched, LaunchTypeOK
<1>2. CASE InitRun(p)
  <2>. DEFINE rows   == {x \in Row : x[1] = runCount + 1 /\ x[2] \in Targets[sjob[p]]}
              states == InitStates(rows)
  <2>1. \A x \in Row : states[x] = "PENDING" => dbState[x] = "PENDING"
    BY DEF InitStates
  <2>2. \A x \in rows : states[x] = "READY"
    BY DEF InitStates
  <2>3. \A x \in Row : Loaded(rows, states)[x] # "PENDING"
    BY <2>2 DEF Loaded
  <2>4. /\ dbState' = states /\ srun' = [srun EXCEPT ![p] = runCount + 1]
        /\ todo' = [todo EXCEPT ![p] = rows] /\ new' = [new EXCEPT ![p] = Loaded(rows, states)]
        /\ phase[p] = "init" /\ phase'[p] # "init" /\ phase'[p] # "idle"
        /\ \A q \in Launcher : q # p => phase'[q] = phase[q]
        /\ UNCHANGED <<pendingRule, pendingStarted, unwatched>>
    BY <1>2, <1>0 DEF InitRun, LaunchTypeOK
  <2>5. \A x \in rows : x[1] = runCount + 1
    OBVIOUS
  <2>6. runCount + 1 # 0
    BY <1>0, JobAssumption DEF JobsTypeOK, JobAssumption
  <2>. HIDE DEF states, rows
  <2>7. PendingIsWatched'
    BY <2>1, <2>4 DEF PendingIsWatched
  <2>8. SessionsWatched'
    BY <2>3, <2>4, <2>5, <2>6, <1>0 DEF SessionsWatched, Watched, LaunchTypeOK
  <2>. QED BY <2>7, <2>8
<1>3. CASE InitRunFails(p)
  BY <1>3, PendingEnd DEF InitRunFails, PendingIsWatched
<1>4. CASE CheckPending(p)
  BY <1>4, <1>0 DEF CheckPending, PendingIsWatched, SessionsWatched, Watched, LaunchTypeOK
<1>5. CASE \E x \in Row : Postpone(p, x)
  <2>0. PICK x \in Row : Postpone(p, x)
    BY <1>5
  <2>1. /\ x \in todo[p] /\ Assign(p, x, "PENDING")
        /\ pendingRule' = (pendingRule \/ Enables(p))
        /\ pendingStarted' = [pendingStarted EXCEPT ![p] = TRUE]
        /\ UNCHANGED <<dbState, phase, srun, unwatched>>
        /\ phase[p] = "launch"
    BY <2>0 DEF Postpone, GiveUp
  <2>2. \A r : Watched(r) => Watched(r)'
    BY <2>1, StaysWatched
  <2>3. Watched(srun[p])' /\ Watched(x[1])'
    <3>1. CASE ~pendingStarted[p]
      BY <2>1, <3>1 DEF Enables, Watched
    <3>2. CASE pendingStarted[p]
      <4>1. Watched(srun[p])
        BY <3>2 DEF SessionsWatched
      <4>2. IF srun[p] = 0 THEN pendingRule ELSE x[1] = srun[p]
        BY <2>1 DEF SessionsWatched
      <4>3. Watched(x[1])
        BY <4>1, <4>2 DEF Watched
      <4>. QED BY <2>1, <2>2, <4>1, <4>3
    <3>. QED BY <3>1, <3>2
  <2>4. PendingIsWatched'
    BY <2>1, <2>2 DEF PendingIsWatched, Watched
  <2>5. SessionsWatched'
    BY <2>1, <2>2, <2>3, <1>0 DEF SessionsWatched, LaunchTypeOK, Assign
  <2>. QED BY <2>4, <2>5
<1>6. CASE \E x \in Row : EnableFails(p, x)
  <2>0. PICK x \in Row : EnableFails(p, x)
    BY <1>6
  <2>1. /\ x \in todo[p] /\ Assign(p, x, "FAILED")
        /\ pendingRule => pendingRule'
        /\ unwatched \subseteq unwatched'
        /\ pendingStarted' = [pendingStarted EXCEPT ![p] = TRUE]
        /\ UNCHANGED <<dbState, phase, srun>>
        /\ phase[p] = "launch"
        /\ Watched(x[1])'
    BY <2>0 DEF EnableFails, Watched
  <2>2. \A r : Watched(r) => Watched(r)'
    BY <2>1, StaysWatched
  <2>3. Watched(srun[p])'
    <3>1. IF srun[p] = 0 THEN pendingRule ELSE x[1] = srun[p]
      BY <2>1 DEF SessionsWatched
    <3>. QED BY <2>1, <3>1 DEF Watched
  <2>4. PendingIsWatched'
    BY <2>1, <2>2 DEF PendingIsWatched, Watched
  <2>5. SessionsWatched'
    BY <2>1, <2>2, <2>3, <1>0 DEF SessionsWatched, LaunchTypeOK, Assign
  <2>. QED BY <2>4, <2>5
<1>7. CASE \E x \in Row : Launch(p, x) \/ LaunchFails(p, x)
  <2>0. PICK x \in Row, state \in {"RUNNING", "FAILED"} :
            /\ Assign(p, x, state)
            /\ UNCHANGED <<dbState, phase, srun, unwatched, pendingRule, pendingStarted>>
    BY <1>7 DEF Launch, LaunchFails, GiveUp
  <2>. QED BY <2>0, <1>0 DEF PendingIsWatched, SessionsWatched, Watched, LaunchTypeOK, Assign
<1>8. CASE Flush(p)
  <2>1. /\ dbState' = Committed(p)
        /\ new' = [new EXCEPT ![p] = Loaded(Session(p), Committed(p))]
        /\ UNCHANGED <<phase, srun, todo, unwatched, pendingRule, pendingStarted>>
    BY <1>8 DEF Flush
  <2>2. PendingIsWatched'
    BY <2>1, PendingCommit
  <2>3. \A x \in Row : Loaded(Session(p), Committed(p))[x] = "PENDING" => Watched(x[1])
    BY <2>1, <2>2 DEF Loaded, PendingIsWatched, Watched
  <2>. QED BY <2>1, <2>2, <2>3, <1>0 DEF SessionsWatched, LaunchTypeOK, Watched
<1>9. CASE SaveRunDatabases(p)
  <2>1. PendingIsWatched'
    BY <1>9, PendingCommit DEF SaveRunDatabases
  <2>2. CASE EndLaunch(p)
    BY <1>9, <2>1, <2>2, PendingEnd DEF SaveRunDatabases
  <2>3. CASE /\ phase' = [phase EXCEPT ![p] = "abort"]
             /\ UNCHANGED <<srun, todo, new, pendingStarted, pendingRule, unwatched>>
    BY <2>1, <2>3, <1>0 DEF SessionsWatched, Watched, LaunchTypeOK
  <2>. QED BY <1>9, <2>2, <2>3 DEF SaveRunDatabases
<1>10. CASE AbortRun(p)
  BY <1>10, PendingEnd DEF AbortRun, PendingIsWatched
<1>11. CASE LauncherCrash(p)
  BY <1>11, PendingEnd DEF LauncherCrash, GiveUp, PendingIsWatched
<1>. QED BY <1>1, <1>2, <1>3, <1>4, <1>5, <1>6, <1>7, <1>8, <1>9, <1>10, <1>11 DEF LauncherNext

LEMMA PendingNext == PendingInv /\ [Next]_vars => PendingInv'
<1>. SUFFICES ASSUME PendingInv, [Next]_vars PROVE PendingInv'
  OBVIOUS
<1>0. TypeInv /\ TypeInv' /\ RowsTypeOK
  BY TypeNext DEF PendingInv, TypeInv, TypeOK
<1>1. CASE \E p \in Launcher : LauncherNext(p)
  BY <1>0, <1>1, LauncherPending DEF PendingInv
<1>2. ASSUME NEW w \in Worker, WorkerNext(w) PROVE PendingIsWatched' /\ SessionsWatched'
  <2>1. CASE \E m \in queue : CompleteRunDatabase(w, m)
    <3>1. \A m \in queue : m.state # "PENDING"
      BY <1>0 DEF RowsTypeOK, Message, Outcome
    <3>. QED BY <1>0, <2>1, <3>1, PendingFrame DEF CompleteRunDatabase, RowsTypeOK
  <2>. QED BY <1>2, <2>1, PendingFrame DEF WorkerNext, CountRunDatabases, CompleteRun, WorkerFails
<1>3. ASSUME NEW j \in Job, RequestNext(j) PROVE PendingIsWatched' /\ SessionsWatched'
  <2>1. CASE StopRun(j)
    BY <2>1, PendingFrame DEF StopRun, GiveUp
  <2>. QED BY <1>3, <2>1, PendingFrame
           DEF RequestNext, StopRead, StopEnds, StopRunDatabase, DeleteCheck, DeleteJob
<1>4. ASSUME CheckRunningNext PROVE PendingIsWatched' /\ SessionsWatched'
  BY <1>4, PendingFrame DEF CheckRunningNext, CheckRunningRead, CheckRunningOne
<1>5. ASSUME ExecutionNext PROVE PendingIsWatched' /\ SessionsWatched'
  BY <1>5, PendingFrame DEF ExecutionNext, ExecEnds
<1>6. ASSUME UNCHANGED vars PROVE PendingIsWatched' /\ SessionsWatched'
  BY <1>6, PendingFrame DEF vars
<1>. QED BY <1>0, <1>1, <1>2, <1>3, <1>4, <1>5, <1>6 DEF Next, PendingInv

\* A PENDING row is looked at again by check_pending_run_databases, for every number
\* of launchers and whatever fails, unless an enable_rule raised while its run was
\* being started: the flag of the launcher survives the commits, the kills and the
\* failures of the other rows.
THEOREM PendingRowsAreWatched == Spec => []PendingIsWatched
<1>1. PendingInv => PendingIsWatched
  BY DEF PendingInv
<1>. QED BY PendingInit, PendingNext, <1>1, PTL DEF Spec
=============================================================================
