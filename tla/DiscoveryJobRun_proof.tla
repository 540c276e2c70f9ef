------------------------ MODULE DiscoveryJobRun_proof ------------------------
(***************************************************************************)
(* A job shown as running has a run in progress, running executions are    *)
(* known, and no launcher exceeds the limit of a subnet, for every         *)
(* instance of DiscoveryJob.                                               *)
(***************************************************************************)
EXTENDS DiscoveryJob_proof

USE DEF jobVars, launchVars, workVars, stopVars, history

----------------------------------------------------------------------------
\* The inductive invariant.  Whatever speaks of a row speaks of a run that was
\* created, so that a new run finds nothing that could complete it; a stop acts
\* on a run of its own job; and the run that keeps a job running is not one that
\* a consumer is about to close without touching the job.
Known(x) == x[1] <= runCount

RowsKnown   == \A x \in Row : dbState[x] # "NONE" \/ exec[x] # "NONE" \/ x \in watch => Known(x)
LaunchKnown == \A p \in Launcher, x \in Row : new[p][x] # "NONE" \/ x \in todo[p] => Known(x)
QueueKnown  == \A m \in queue : Known(m.row)
WorkKnown   == \A w \in Worker : step[w] # "idle" => Known(msg[w].row)
StopKnown   == \A j \in Job, x \in Row : x \in stopTodo[j] => Known(x)
StopOwner   == \A j \in Job : stopPhase[j] # "idle" => stopRun[j] \in Run /\ runJob[stopRun[j]] = j
FreshRuns   == \A r \in Run : r > runCount => runJob[r] = NoJob

Closing(r) == \E w \in Worker : step[w] = "close" /\ msg[w].row[1] = r
LiveRun ==
    \A j \in Job : jobState[j] \in JobRunning =>
        \E r \in Run : /\ r <= runCount
                       /\ runJob[r] = j /\ runState[r] = "RUNNING" /\ ~Closing(r)

RunInv ==
    /\ TypeInv
    /\ RowsKnown /\ LaunchKnown /\ QueueKnown /\ WorkKnown /\ StopKnown
    /\ StopOwner /\ FreshRuns /\ LiveRun

\* Runs are only added.
Grows ==
    /\ runCount \in Nat /\ runCount' \in Nat /\ runCount <= runCount'
    /\ \A r \in Run : runJob[r] # NoJob => runJob'[r] = runJob[r]

LEMMA RunInit == Init => RunInv
<1>. SUFFICES ASSUME Init PROVE RunInv
  OBVIOUS
<1>1. TypeInv
  BY TypeInit
<1>2. RowsKnown /\ LaunchKnown /\ QueueKnown /\ WorkKnown /\ StopKnown /\ StopOwner
  BY DEF Init, RowsKnown, LaunchKnown, QueueKnown, WorkKnown, StopKnown, StopOwner, Blank
<1>3. FreshRuns
  BY DEF Init, FreshRuns
<1>4. LiveRun
  BY DEF Init, LiveRun, JobRunning
<1>. QED BY <1>1, <1>2, <1>3, <1>4 DEF RunInv

LEMMA KnownGrows ==
  ASSUME Grows, NEW x \in Row, Known(x)
  PROVE  Known(x)'
BY DEF Grows, Known, Row, Run

\* What an action leaves alone keeps speaking of known runs.
LEMMA RowsFrame ==
  ASSUME RowsKnown, Grows, UNCHANGED <<dbState, exec, watch>>
  PROVE  RowsKnown'
BY KnownGrows DEF RowsKnown

LEMMA LaunchFrame ==
  ASSUME LaunchKnown, Grows, UNCHANGED <<new, todo>>
  PROVE  LaunchKnown'
BY KnownGrows DEF LaunchKnown

LEMMA EndFrame ==
  ASSUME LaunchTypeOK, LaunchKnown, Grows, NEW p \in Launcher, EndLaunch(p)
  PROVE  LaunchKnown'
<1>1. \A q \in Launcher, x \in Row :
          new'[q][x] # "NONE" \/ x \in todo'[q] => new[q][x] # "NONE" \/ x \in todo[q]
  BY DEF LaunchTypeOK, EndLaunch, Blank
<1>. QED BY <1>1, KnownGrows DEF LaunchKnown

LEMMA QueueFrame ==
  ASSUME RowsTypeOK, QueueKnown, Grows, queue' \subseteq queue
  PROVE  QueueKnown'
<1>. SUFFICES ASSUME NEW m \in queue PROVE Known(m.row)'
  BY DEF QueueKnown
<1>1. m.row \in Row /\ Known(m.row)
  BY DEF RowsTypeOK, Message, QueueKnown
<1>. QED BY <1>1, KnownGrows

LEMMA WorkFrame ==
  ASSUME Busy, WorkKnown, Grows, UNCHANGED <<step, msg>>
  PROVE  WorkKnown'
<1>. SUFFICES ASSUME NEW w \in Worker, step[w] # "idle" PROVE Known(msg[w].row)'
  BY DEF WorkKnown
<1>1. msg[w].row \in Row /\ Known(msg[w].row)
  BY DEF Busy, Message, WorkKnown
<1>. QED BY <1>1, KnownGrows

LEMMA StopFrame ==
  ASSUME StopKnown, StopOwner, Grows, JobAssumption, UNCHANGED <<stopPhase, stopRun, stopTodo>>
  PROVE  StopKnown' /\ StopOwner'
<1>1. StopKnown'
  BY KnownGrows DEF StopKnown
<1>2. StopOwner'
  BY DEF StopOwner, Grows, JobAssumption
<1>. QED BY <1>1, <1>2

LEMMA LiveFrame ==
  ASSUME LiveRun, UNCHANGED jobVars,
         \A w \in Worker : step'[w] = "close" => step[w] = "close" /\ msg'[w] = msg[w]
  PROVE  LiveRun'
<1>. SUFFICES ASSUME NEW j \in Job, jobState[j] \in JobRunning
              PROVE  \E r \in Run : /\ r <= runCount
                                    /\ runJob[r] = j /\ runState[r] = "RUNNING" /\ ~Closing(r)'
  BY DEF LiveRun
<1>1. PICK r \in Run : /\ r <= runCount
                       /\ runJob[r] = j /\ runState[r] = "RUNNING" /\ ~Closing(r)
  BY DEF LiveRun
<1>2. ~Closing(r)'
  BY <1>1 DEF Closing
<1>. QED BY <1>1, <1>2

\* Completing or stopping a run takes its job out of the running states.
LEMMA EndRunLive ==
  ASSUME LiveRun, JobsTypeOK, NEW e \in Run, UNCHANGED <<runCount, runJob>>,
         \A r \in Run : r # e => runState'[r] = runState[r],
         \A j \in Job : jobState'[j] \in JobRunning => jobState[j] \in JobRunning /\ j # runJob[e],
         \A w \in Worker : step'[w] = "close" => step[w] = "close" /\ msg'[w] = msg[w]
  PROVE  LiveRun'
<1>. SUFFICES ASSUME NEW j \in Job, jobState'[j] \in JobRunning
              PROVE  \E r \in Run : /\ r <= runCount
                                    /\ runJob[r] = j /\ runState'[r] = "RUNNING" /\ ~Closing(r)'
  BY DEF LiveRun
<1>1. jobState[j] \in JobRunning /\ j # runJob[e]
  OBVIOUS
<1>2. PICK r \in Run : /\ r <= runCount
                       /\ runJob[r] = j /\ runState[r] = "RUNNING" /\ ~Closing(r)
  BY <1>1 DEF LiveRun
<1>3. ~Closing(r)'
  BY <1>2 DEF Closing
<1>4. runState'[r] = "RUNNING"
  BY <1>1, <1>2
<1>. QED BY <1>2, <1>3, <1>4

LEMMA MarkCompletedLive ==
  ASSUME LiveRun, JobsTypeOK, NEW e \in Run, MarkCompleted(e),
         \A w \in Worker : step'[w] = "close" => step[w] = "close" /\ msg'[w] = msg[w]
  PROVE  LiveRun'
<1>1. UNCHANGED <<runCount, runJob>> /\ \A r \in Run : r # e => runState'[r] = runState[r]
  BY DEF MarkCompleted, JobsTypeOK
<1>2. \A j \in Job : jobState'[j] \in JobRunning => jobState[j] \in JobRunning /\ j # runJob[e]
  BY DEF MarkCompleted, JobRunning, CompletedState
<1>. QED BY <1>1, <1>2, EndRunLive

LEMMA LauncherRun ==
  ASSUME RunInv, NEW p \in Launcher, LauncherNext(p)
  PROVE  RunInv'
<1>. USE DEF RunInv
<1>0. TypeInv /\ TypeInv'
  BY TypeNext DEF Next
<1>1. CASE \E j \in Job : StartJob(p, j)
  <2>0. PICK j \in Job : StartJob(p, j)
    BY <1>1
  <2>1. UNCHANGED <<runCount, runJob>>
    BY <2>0 DEF StartJob
  <2>2. Grows
    BY <2>1, <1>0 DEF Grows, TypeInv, TypeOK, JobsTypeOK
  <2>3. FreshRuns'
    BY <2>1 DEF FreshRuns
  <2>4. UNCHANGED <<jobVars, dbState, exec, watch, new, todo, queue, step, msg, stopPhase, stopRun, stopTodo>>
    BY <2>0 DEF StartJob
  <2>5. RowsKnown' /\ LaunchKnown' /\ QueueKnown' /\ WorkKnown' /\ StopKnown' /\ StopOwner' /\ LiveRun'
    BY <2>4, <2>2, <1>0, RowsFrame, LaunchFrame, QueueFrame, WorkFrame, StopFrame, JobAssumption, LiveFrame DEF TypeInv, TypeOK
  <2>. QED BY <1>0, <2>3, <2>5
<1>2. CASE InitRun(p)
  <2>1. /\ runCount + 1 \in Run /\ runCount' = runCount + 1
        /\ runJob' = [runJob EXCEPT ![runCount + 1] = sjob[p]]
        /\ runState' = [runState EXCEPT ![runCount + 1] = "RUNNING"]
        /\ jobState' = [jobState EXCEPT ![sjob[p]] = StartedState(sjob[p])]
    BY <1>2, <1>0 DEF InitRun, TypeInv, TypeOK, JobsTypeOK, Run
  <2>2. Grows
    BY <2>1, <1>0 DEF Grows, FreshRuns, TypeInv, TypeOK, JobsTypeOK, Run
  <2>3. FreshRuns'
    BY <2>1, <1>0 DEF FreshRuns, TypeInv, TypeOK, JobsTypeOK, Run
  <2>20. \A x \in Row : x[1] = runCount + 1 => Known(x)'
    BY <2>1, <1>0 DEF Known, TypeInv, TypeOK, JobsTypeOK, Run
  <2>4. UNCHANGED <<queue, step, msg, stopPhase, stopRun, stopTodo>>
    BY <1>2 DEF InitRun
  <2>5. QueueKnown' /\ WorkKnown' /\ StopKnown' /\ StopOwner'
    BY <2>4, <2>2, <1>0, QueueFrame, WorkFrame, StopFrame, JobAssumption DEF TypeInv, TypeOK
  <2>6. RowsKnown'
    <3>1. UNCHANGED <<exec, watch>>
      BY <1>2 DEF InitRun
    <3>2. \A x \in Row : dbState'[x] = dbState[x] \/ x[1] = runCount + 1
      BY <1>2, <1>0 DEF InitRun, InitStates, TypeInv, TypeOK, RowsTypeOK
    <3>. QED BY <3>1, <3>2, <2>20, <2>2, KnownGrows DEF RowsKnown
  <2>7. LaunchKnown'
    <3>1. \A q \in Launcher, x \in Row :
              new'[q][x] # "NONE" \/ x \in todo'[q]
              => new[q][x] # "NONE" \/ x \in todo[q] \/ x[1] = runCount + 1
      BY <1>2, <1>0 DEF InitRun, Loaded, TypeInv, TypeOK, LaunchTypeOK
    <3>. QED BY <3>1, <2>20, <2>2, KnownGrows DEF LaunchKnown
  <2>8. LiveRun'
    <3>. SUFFICES ASSUME NEW j \in Job, jobState'[j] \in JobRunning
                  PROVE  \E r \in Run : /\ r <= runCount'
                                        /\ runJob'[r] = j /\ runState'[r] = "RUNNING" /\ ~Closing(r)'
      BY DEF LiveRun
    <3>1. UNCHANGED <<step, msg>>
      BY <1>2 DEF InitRun
    <3>2. CASE j = sjob[p]
      <4>0. PICK n \in Run : n = runCount + 1
        BY <2>1
      <4>1. ~Closing(n)'
        <5>1. \A w \in Worker : step[w] = "close" => msg[w].row \in Row /\ msg[w].row[1] <= runCount
          BY <1>0 DEF WorkKnown, Known, TypeInv, Busy, Message
        <5>2. \A w \in Worker : step[w] = "close" => msg[w].row[1] # n
          BY <5>1, <4>0, <1>0 DEF TypeInv, TypeOK, JobsTypeOK, Row, Run
        <5>. QED BY <5>2, <3>1 DEF Closing
      <4>2. /\ n <= runCount'
            /\ runJob'[n] = j /\ runState'[n] = "RUNNING"
        BY <2>1, <3>2, <4>0, <1>0 DEF TypeInv, TypeOK, JobsTypeOK
      <4>. QED BY <4>1, <4>2
    <3>3. CASE j # sjob[p]
      <4>1. jobState[j] \in JobRunning
        BY <2>1, <3>3, <1>0 DEF TypeInv, TypeOK, JobsTypeOK
      <4>2. PICK r \in Run : /\ r <= runCount
                             /\ runJob[r] = j /\ runState[r] = "RUNNING" /\ ~Closing(r)
        BY <4>1 DEF LiveRun
      <4>3. r # runCount + 1 /\ r <= runCount'
        BY <4>2, <2>1, <1>0 DEF TypeInv, TypeOK, JobsTypeOK, Run
      <4>4. ~Closing(r)'
        BY <4>2, <3>1 DEF Closing
      <4>. QED BY <4>2, <4>3, <4>4, <2>1, <1>0 DEF TypeInv, TypeOK, JobsTypeOK
    <3>. QED BY <3>2, <3>3
  <2>. QED BY <1>0, <2>3, <2>5, <2>6, <2>7, <2>8
<1>3. CASE InitRunFails(p)
  <2>1. UNCHANGED <<runCount, runJob>>
    BY <1>3 DEF InitRunFails
  <2>2. Grows
    BY <2>1, <1>0 DEF Grows, TypeInv, TypeOK, JobsTypeOK
  <2>3. FreshRuns'
    BY <2>1 DEF FreshRuns
  <2>4. UNCHANGED <<jobVars, dbState, exec, watch, queue, step, msg, stopPhase, stopRun, stopTodo>>
    BY <1>3 DEF InitRunFails
  <2>5. RowsKnown' /\ QueueKnown' /\ WorkKnown' /\ StopKnown' /\ StopOwner' /\ LiveRun'
    BY <2>4, <2>2, <1>0, RowsFrame, QueueFrame, WorkFrame, StopFrame, JobAssumption, LiveFrame DEF TypeInv, TypeOK
  <2>6. LaunchKnown'
    BY <1>3, <2>2, <1>0, EndFrame DEF InitRunFails, TypeInv, TypeOK
  <2>. QED BY <1>0, <2>3, <2>5, <2>6
<1>4. CASE CheckPending(p)
  <2>1. UNCHANGED <<runCount, runJob>>
    BY <1>4 DEF CheckPending
  <2>2. Grows
    BY <2>1, <1>0 DEF Grows, TypeInv, TypeOK, JobsTypeOK
  <2>3. FreshRuns'
    BY <2>1 DEF FreshRuns
  <2>4. UNCHANGED <<jobVars, dbState, exec, watch, queue, step, msg, stopPhase, stopRun, stopTodo>>
    BY <1>4 DEF CheckPending
  <2>5. RowsKnown' /\ QueueKnown' /\ WorkKnown' /\ StopKnown' /\ StopOwner' /\ LiveRun'
    BY <2>4, <2>2, <1>0, RowsFrame, QueueFrame, WorkFrame, StopFrame, JobAssumption, LiveFrame DEF TypeInv, TypeOK
  <2>6. LaunchKnown'
    <3>1. \A q \in Launcher, x \in Row :
              new'[q][x] # "NONE" \/ x \in todo'[q]
              => new[q][x] # "NONE" \/ x \in todo[q] \/ dbState[x] # "NONE"
      BY <1>4, <1>0 DEF CheckPending, Loaded, TypeInv, TypeOK, LaunchTypeOK
    <3>. QED BY <3>1, <2>2, KnownGrows DEF LaunchKnown, RowsKnown
  <2>. QED BY <1>0, <2>3, <2>5, <2>6
<1>5. CASE \E x \in Row : Postpone(p, x)
  <2>0. PICK x \in Row : Postpone(p, x)
    BY <1>5
  <2>1. UNCHANGED <<runCount, runJob>>
    BY <2>0 DEF Postpone
  <2>2. Grows
    BY <2>1, <1>0 DEF Grows, TypeInv, TypeOK, JobsTypeOK
  <2>3. FreshRuns'
    BY <2>1 DEF FreshRuns
  <2>4. UNCHANGED <<jobVars, dbState, exec, watch, queue, step, msg, stopPhase, stopRun, stopTodo>>
    BY <2>0 DEF Postpone
  <2>5. RowsKnown' /\ QueueKnown' /\ WorkKnown' /\ StopKnown' /\ StopOwner' /\ LiveRun'
    BY <2>4, <2>2, <1>0, RowsFrame, QueueFrame, WorkFrame, StopFrame, JobAssumption, LiveFrame DEF TypeInv, TypeOK
  <2>6. LaunchKnown'
    <3>1. \A q \in Launcher, y \in Row :
              new'[q][y] # "NONE" \/ y \in todo'[q]
              => new[q][y] # "NONE" \/ y \in todo[q]
      BY <2>0, <1>0 DEF Postpone, Assign, TypeInv, TypeOK, LaunchTypeOK
    <3>. QED BY <3>1, <2>2, KnownGrows DEF LaunchKnown
  <2>. QED BY <1>0, <2>3, <2>5, <2>6
<1>12. CASE \E x \in Row : EnableFails(p, x)
  <2>0. PICK x \in Row : EnableFails(p, x)
    BY <1>12
  <2>1. UNCHANGED <<runCount, runJob>>
    BY <2>0 DEF EnableFails
  <2>2. Grows
    BY <2>1, <1>0 DEF Grows, TypeInv, TypeOK, JobsTypeOK
  <2>3. FreshRuns'
    BY <2>1 DEF FreshRuns
  <2>4. UNCHANGED <<jobVars, dbState, exec, watch, queue, step, msg, stopPhase, stopRun, stopTodo>>
    BY <2>0 DEF EnableFails
  <2>5. RowsKnown' /\ QueueKnown' /\ WorkKnown' /\ StopKnown' /\ StopOwner' /\ LiveRun'
    BY <2>4, <2>2, <1>0, RowsFrame, QueueFrame, WorkFrame, StopFrame, JobAssumption, LiveFrame DEF TypeInv, TypeOK
  <2>6. LaunchKnown'
    <3>1. \A q \in Launcher, y \in Row :
              new'[q][y] # "NONE" \/ y \in todo'[q]
              => new[q][y] # "NONE" \/ y \in todo[q]
      BY <2>0, <1>0 DEF EnableFails, Assign, TypeInv, TypeOK, LaunchTypeOK
    <3>. QED BY <3>1, <2>2, KnownGrows DEF LaunchKnown
  <2>. QED BY <1>0, <2>3, <2>5, <2>6
<1>6. CASE \E x \in Row : Launch(p, x)
  <2>0. PICK x \in Row : Launch(p, x)
    BY <1>6
  <2>1. UNCHANGED <<runCount, runJob>>
    BY <2>0 DEF Launch
  <2>2. Grows
    BY <2>1, <1>0 DEF Grows, TypeInv, TypeOK, JobsTypeOK
  <2>3. FreshRuns'
    BY <2>1 DEF FreshRuns
  <2>4. UNCHANGED <<jobVars, queue, step, msg, stopPhase, stopRun, stopTodo>>
    BY <2>0 DEF Launch
  <2>5. QueueKnown' /\ WorkKnown' /\ StopKnown' /\ StopOwner' /\ LiveRun'
    BY <2>4, <2>2, <1>0, QueueFrame, WorkFrame, StopFrame, JobAssumption, LiveFrame DEF TypeInv, TypeOK
  <2>6. RowsKnown'
    <3>1. UNCHANGED <<dbState, watch>> /\ x \in todo[p]
      BY <2>0 DEF Launch
    <3>2. \A y \in Row : exec'[y] = exec[y] \/ y = x
      BY <2>0, <1>0 DEF Launch, TypeInv, TypeOK, RowsTypeOK
    <3>. QED BY <3>1, <3>2, <2>2, KnownGrows DEF RowsKnown, LaunchKnown
  <2>7. LaunchKnown'
    <3>1. \A q \in Launcher, y \in Row :
              new'[q][y] # "NONE" \/ y \in todo'[q]
              => new[q][y] # "NONE" \/ y \in todo[q]
      BY <2>0, <1>0 DEF Launch, Assign, TypeInv, TypeOK, LaunchTypeOK
    <3>. QED BY <3>1, <2>2, KnownGrows DEF LaunchKnown
  <2>. QED BY <1>0, <2>3, <2>5, <2>6, <2>7
<1>7. CASE \E x \in Row : LaunchFails(p, x)
  <2>0. PICK x \in Row : LaunchFails(p, x)
    BY <1>7
  <2>1. UNCHANGED <<runCount, runJob>>
    BY <2>0 DEF LaunchFails
  <2>2. Grows
    BY <2>1, <1>0 DEF Grows, TypeInv, TypeOK, JobsTypeOK
  <2>3. FreshRuns'
    BY <2>1 DEF FreshRuns
  <2>4. UNCHANGED <<jobVars, queue, step, msg, stopPhase, stopRun, stopTodo>>
    BY <2>0 DEF LaunchFails
  <2>5. QueueKnown' /\ WorkKnown' /\ StopKnown' /\ StopOwner' /\ LiveRun'
    BY <2>4, <2>2, <1>0, QueueFrame, WorkFrame, StopFrame, JobAssumption, LiveFrame DEF TypeInv, TypeOK
  <2>6. RowsKnown'
    <3>1. UNCHANGED <<dbState, watch>> /\ x \in todo[p]
      BY <2>0 DEF LaunchFails
    <3>2. \A y \in Row : exec'[y] = exec[y] \/ y = x
      BY <2>0, <1>0 DEF LaunchFails, TypeInv, TypeOK, RowsTypeOK
    <3>. QED BY <3>1, <3>2, <2>2, KnownGrows DEF RowsKnown, LaunchKnown
  <2>7. LaunchKnown'
    <3>1. \A q \in Launcher, y \in Row :
              new'[q][y] # "NONE" \/ y \in todo'[q]
              => new[q][y] # "NONE" \/ y \in todo[q]
      BY <2>0, <1>0 DEF LaunchFails, Assign, TypeInv, TypeOK, LaunchTypeOK
    <3>. QED BY <3>1, <2>2, KnownGrows DEF LaunchKnown
  <2>. QED BY <1>0, <2>3, <2>5, <2>6, <2>7
<1>8. CASE Flush(p)
  <2>1. UNCHANGED <<runCount, runJob>>
    BY <1>8 DEF Flush
  <2>2. Grows
    BY <2>1, <1>0 DEF Grows, TypeInv, TypeOK, JobsTypeOK
  <2>3. FreshRuns'
    BY <2>1 DEF FreshRuns
  <2>4. UNCHANGED <<jobVars, queue, step, msg, stopPhase, stopRun, stopTodo>>
    BY <1>8 DEF Flush
  <2>5. QueueKnown' /\ WorkKnown' /\ StopKnown' /\ StopOwner' /\ LiveRun'
    BY <2>4, <2>2, <1>0, QueueFrame, WorkFrame, StopFrame, JobAssumption, LiveFrame DEF TypeInv, TypeOK
  <2>6. RowsKnown'
    <3>1. UNCHANGED <<exec, watch>>
      BY <1>8 DEF Flush
    <3>2. \A x \in Row : dbState'[x] # "NONE" => dbState[x] # "NONE" \/ new[p][x] # "NONE"
      BY <1>8 DEF Flush, Committed
    <3>. QED BY <3>1, <3>2, <2>2, KnownGrows DEF RowsKnown, LaunchKnown
  <2>7. LaunchKnown'
    <3>1. \A q \in Launcher, x \in Row :
              new'[q][x] # "NONE" \/ x \in todo'[q]
              => new[q][x] # "NONE" \/ x \in todo[q] \/ dbState[x] # "NONE" \/ new[p][x] # "NONE"
      BY <1>8, <1>0 DEF Flush, Loaded, Committed, TypeInv, TypeOK, LaunchTypeOK
    <3>. QED BY <3>1, <2>2, KnownGrows DEF LaunchKnown, RowsKnown
  <2>. QED BY <1>0, <2>3, <2>5, <2>6, <2>7
<1>9. CASE SaveRunDatabases(p)
  <2>1. UNCHANGED <<runCount, runJob>>
    BY <1>9 DEF SaveRunDatabases
  <2>2. Grows
    BY <2>1, <1>0 DEF Grows, TypeInv, TypeOK, JobsTypeOK
  <2>3. FreshRuns'
    BY <2>1 DEF FreshRuns
  <2>4. UNCHANGED <<jobVars, queue, step, msg, stopPhase, stopRun, stopTodo>>
    BY <1>9 DEF SaveRunDatabases
  <2>5. QueueKnown' /\ WorkKnown' /\ StopKnown' /\ StopOwner' /\ LiveRun'
    BY <2>4, <2>2, <1>0, QueueFrame, WorkFrame, StopFrame, JobAssumption, LiveFrame DEF TypeInv, TypeOK
  <2>6. RowsKnown'
    <3>1. UNCHANGED <<exec, watch>>
      BY <1>9 DEF SaveRunDatabases
    <3>2. \A x \in Row : dbState'[x] # "NONE" => dbState[x] # "NONE" \/ new[p][x] # "NONE"
      BY <1>9 DEF SaveRunDatabases, Committed
    <3>. QED BY <3>1, <3>2, <2>2, KnownGrows DEF RowsKnown, LaunchKnown
  <2>7. LaunchKnown'
    <3>1. CASE EndLaunch(p)
      BY <3>1, <2>2, <1>0, EndFrame DEF TypeInv, TypeOK
    <3>2. CASE UNCHANGED <<new, todo>>
      BY <3>2, <2>2, LaunchFrame
    <3>. QED BY <3>1, <3>2, <1>9 DEF SaveRunDatabases
  <2>. QED BY <1>0, <2>3, <2>5, <2>6, <2>7
<1>10. CASE AbortRun(p)
  <2>1. UNCHANGED <<runCount, runJob>>
    BY <1>10 DEF AbortRun, MarkCompleted
  <2>2. Grows
    BY <2>1, <1>0 DEF Grows, TypeInv, TypeOK, JobsTypeOK
  <2>3. FreshRuns'
    BY <2>1 DEF FreshRuns
  <2>4. UNCHANGED <<dbState, exec, watch, queue, step, msg, stopPhase, stopRun, stopTodo>>
    BY <1>10 DEF AbortRun
  <2>5. RowsKnown' /\ QueueKnown' /\ WorkKnown' /\ StopKnown' /\ StopOwner'
    BY <2>4, <2>2, <1>0, RowsFrame, QueueFrame, WorkFrame, StopFrame, JobAssumption DEF TypeInv, TypeOK
  <2>6. LaunchKnown'
    BY <1>10, <2>2, <1>0, EndFrame DEF AbortRun, TypeInv, TypeOK
  <2>7. LiveRun'
    <3>1. MarkCompleted(srun[p]) /\ UNCHANGED <<step, msg>>
      BY <1>10 DEF AbortRun
    <3>2. CASE srun[p] \in Run
      BY <3>1, <3>2, <1>0, MarkCompletedLive DEF TypeInv, TypeOK
    <3>3. CASE srun[p] \notin Run
      <4>1. UNCHANGED runState
        BY <3>1, <3>3, <1>0 DEF MarkCompleted, TypeInv, TypeOK, JobsTypeOK
      <4>2. \A j \in Job : jobState'[j] \in JobRunning => jobState[j] \in JobRunning
        BY <3>1 DEF MarkCompleted, JobRunning, CompletedState
      <4>. QED BY <2>1, <3>1, <4>1, <4>2 DEF LiveRun, Closing
    <3>. QED BY <3>2, <3>3
  <2>. QED BY <1>0, <2>3, <2>5, <2>6, <2>7
<1>11. CASE LauncherCrash(p)
  <2>1. UNCHANGED <<runCount, runJob>>
    BY <1>11 DEF LauncherCrash
  <2>2. Grows
    BY <2>1, <1>0 DEF Grows, TypeInv, TypeOK, JobsTypeOK
  <2>3. FreshRuns'
    BY <2>1 DEF FreshRuns
  <2>4. UNCHANGED <<jobVars, dbState, exec, watch, queue, step, msg, stopPhase, stopRun, stopTodo>>
    BY <1>11 DEF LauncherCrash
  <2>5. RowsKnown' /\ QueueKnown' /\ WorkKnown' /\ StopKnown' /\ StopOwner' /\ LiveRun'
    BY <2>4, <2>2, <1>0, RowsFrame, QueueFrame, WorkFrame, StopFrame, JobAssumption, LiveFrame DEF TypeInv, TypeOK
  <2>6. LaunchKnown'
    BY <1>11, <2>2, <1>0, EndFrame DEF LauncherCrash, TypeInv, TypeOK
  <2>. QED BY <1>0, <2>3, <2>5, <2>6
<1>. QED
  BY <1>1, <1>2, <1>3, <1>4, <1>5, <1>6, <1>7, <1>8, <1>9, <1>10, <1>11, <1>12 DEF LauncherNext

LEMMA WorkerRun ==
  ASSUME RunInv, NEW w \in Worker, WorkerNext(w)
  PROVE  RunInv'
<1>. USE DEF RunInv
<1>0. TypeInv /\ TypeInv'
  BY TypeNext DEF Next
<1>1. CASE \E m \in queue : CompleteRunDatabase(w, m)
  <2>0. PICK m \in queue : CompleteRunDatabase(w, m)
    BY <1>1
  <2>1. UNCHANGED <<runCount, runJob>>
    BY <2>0 DEF CompleteRunDatabase
  <2>2. Grows
    BY <2>1, <1>0 DEF Grows, TypeInv, TypeOK, JobsTypeOK
  <2>3. FreshRuns'
    BY <2>1 DEF FreshRuns
  <2>4. UNCHANGED <<new, todo, stopPhase, stopRun, stopTodo>>
    BY <2>0 DEF CompleteRunDatabase
  <2>5. LaunchKnown' /\ StopKnown' /\ StopOwner'
    BY <2>4, <2>2, <1>0, LaunchFrame, StopFrame, JobAssumption
  <2>6. RowsKnown'
    <3>1. UNCHANGED <<exec, watch>>
      BY <2>0 DEF CompleteRunDatabase
    <3>2. \A x \in Row : dbState'[x] = dbState[x] \/ x = m.row
      BY <2>0, <1>0 DEF CompleteRunDatabase, TypeInv, TypeOK, RowsTypeOK
    <3>3. Known(m.row)
      BY <2>0 DEF QueueKnown
    <3>. QED BY <3>1, <3>2, <3>3, <2>2, KnownGrows DEF RowsKnown
  <2>7. QueueKnown'
    <3>1. queue' \subseteq queue
      BY <2>0 DEF CompleteRunDatabase
    <3>. QED BY <3>1, <2>2, <1>0, QueueFrame DEF TypeInv, TypeOK
  <2>8. WorkKnown'
    <3>1. m \in queue /\ m.row \in Row /\ Known(m.row)
      BY <2>0, <1>0 DEF QueueKnown, TypeInv, TypeOK, RowsTypeOK, Message
    <3>2. Known(m.row)'
      BY <3>1, <2>2, KnownGrows
    <3>3. \A v \in Worker : step'[v] # "idle" => msg'[v] = m \/ (step[v] # "idle" /\ msg'[v] = msg[v])
      BY <2>0, <1>0 DEF CompleteRunDatabase, TypeInv, TypeOK, WorkTypeOK
    <3>4. \A v \in Worker : step[v] # "idle" => msg[v].row \in Row
      BY <1>0 DEF TypeInv, Busy, Message
    <3>. QED BY <3>2, <3>3, <3>4, <2>2, KnownGrows DEF WorkKnown
  <2>9. LiveRun'
    <3>1. UNCHANGED jobVars
      BY <2>0 DEF CompleteRunDatabase
    <3>2. \A v \in Worker : step'[v] = "close" => step[v] = "close" /\ msg'[v] = msg[v]
      BY <2>0, <1>0 DEF CompleteRunDatabase, Handled, TypeInv, TypeOK, WorkTypeOK
    <3>. QED BY <3>1, <3>2, LiveFrame
  <2>. QED BY <1>0, <2>3, <2>5, <2>6, <2>7, <2>8, <2>9
<1>2. CASE CountRunDatabases(w)
  <2>1. UNCHANGED <<runCount, runJob>>
    BY <1>2 DEF CountRunDatabases
  <2>2. Grows
    BY <2>1, <1>0 DEF Grows, TypeInv, TypeOK, JobsTypeOK
  <2>3. FreshRuns'
    BY <2>1 DEF FreshRuns
  <2>4. UNCHANGED <<dbState, exec, watch, new, todo, queue, stopPhase, stopRun, stopTodo>>
    BY <1>2 DEF CountRunDatabases
  <2>5. RowsKnown' /\ LaunchKnown' /\ QueueKnown' /\ StopKnown' /\ StopOwner'
    BY <2>4, <2>2, <1>0, RowsFrame, LaunchFrame, QueueFrame, StopFrame, JobAssumption DEF TypeInv, TypeOK
  <2>6. WorkKnown'
    <3>1. \A v \in Worker : step'[v] # "idle" => step[v] # "idle" /\ msg'[v] = msg[v]
      BY <1>2, <1>0 DEF CountRunDatabases, Handled, TypeInv, TypeOK, WorkTypeOK
    <3>2. \A v \in Worker : step[v] # "idle" => msg[v].row \in Row
      BY <1>0 DEF TypeInv, Busy, Message
    <3>. QED BY <3>1, <3>2, <2>2, KnownGrows DEF WorkKnown
  <2>7. LiveRun'
    <3>. DEFINE e == msg[w].row[1]
    <3>1. UNCHANGED <<jobVars, msg>> \/ (UNCHANGED jobVars /\ Handled(w))
      BY <1>2 DEF CountRunDatabases
    <3>. SUFFICES ASSUME NEW j \in Job, jobState[j] \in JobRunning
                  PROVE  \E r \in Run : /\ r <= runCount
                                        /\ runJob[r] = j /\ runState[r] = "RUNNING" /\ ~Closing(r)'
      BY <3>1 DEF LiveRun
    <3>2. PICK r \in Run : /\ r <= runCount
                           /\ runJob[r] = j /\ runState[r] = "RUNNING" /\ ~Closing(r)
      BY DEF LiveRun
    <3>3. step'[w] = "close" => jobState[runJob[e]] = CompletedState(runJob[e])
      BY <1>2, <1>0 DEF CountRunDatabases, Handled, TypeInv, TypeOK, WorkTypeOK
    <3>4. step'[w] = "close" => runJob[e] # j
      BY <3>3 DEF CompletedState, JobRunning
    <3>5. step'[w] = "close" => msg'[w] = msg[w]
      BY <1>2, <1>0 DEF CountRunDatabases, Handled, TypeInv, TypeOK, WorkTypeOK
    <3>6. \A v \in Worker : v # w => step'[v] = step[v] /\ msg'[v] = msg[v]
      BY <1>2, <1>0 DEF CountRunDatabases, Handled, TypeInv, TypeOK, WorkTypeOK
    <3>7. ~Closing(r)'
      BY <3>2, <3>4, <3>5, <3>6 DEF Closing
    <3>. QED BY <3>2, <3>7
  <2>. QED BY <1>0, <2>3, <2>5, <2>6, <2>7
<1>3. CASE CompleteRun(w)
  <2>1. UNCHANGED <<runCount, runJob>>
    BY <1>3 DEF CompleteRun, MarkCompleted
  <2>2. Grows
    BY <2>1, <1>0 DEF Grows, TypeInv, TypeOK, JobsTypeOK
  <2>3. FreshRuns'
    BY <2>1 DEF FreshRuns
  <2>4. UNCHANGED <<dbState, exec, watch, new, todo, queue, stopPhase, stopRun, stopTodo>>
    BY <1>3 DEF CompleteRun
  <2>5. RowsKnown' /\ LaunchKnown' /\ QueueKnown' /\ StopKnown' /\ StopOwner'
    BY <2>4, <2>2, <1>0, RowsFrame, LaunchFrame, QueueFrame, StopFrame, JobAssumption DEF TypeInv, TypeOK
  <2>6. WorkKnown'
    <3>1. \A v \in Worker : step'[v] # "idle" => step[v] # "idle" /\ msg'[v] = msg[v]
      BY <1>3, <1>0 DEF CompleteRun, Handled, TypeInv, TypeOK, WorkTypeOK
    <3>2. \A v \in Worker : step[v] # "idle" => msg[v].row \in Row
      BY <1>0 DEF TypeInv, Busy, Message
    <3>. QED BY <3>1, <3>2, <2>2, KnownGrows DEF WorkKnown
  <2>7. LiveRun'
    <3>. DEFINE e == msg[w].row[1]
    <3>1. e \in Run
      BY <1>3, <1>0 DEF CompleteRun, TypeInv, Busy, Message, Row
    <3>2. \A v \in Worker : step'[v] = "close" => step[v] = "close" /\ msg'[v] = msg[v]
      BY <1>3, <1>0 DEF CompleteRun, Handled, TypeInv, TypeOK, WorkTypeOK
    <3>3. CASE MarkCompleted(e)
      BY <3>1, <3>2, <3>3, <1>0, MarkCompletedLive DEF TypeInv, TypeOK
    <3>4. CASE step[w] = "close" /\ runState' = [runState EXCEPT ![e] = "COMPLETED"] /\ UNCHANGED <<jobState, runCount, runJob>>
      <4>. SUFFICES ASSUME NEW j \in Job, jobState[j] \in JobRunning
                    PROVE  \E r \in Run : /\ r <= runCount
                                          /\ runJob[r] = j /\ runState'[r] = "RUNNING" /\ ~Closing(r)'
        BY <3>4 DEF LiveRun
      <4>1. PICK r \in Run : /\ r <= runCount
                             /\ runJob[r] = j /\ runState[r] = "RUNNING" /\ ~Closing(r)
        BY DEF LiveRun
      <4>2. r # e
        BY <4>1, <3>4 DEF Closing
      <4>3. runState'[r] = "RUNNING"
        BY <4>1, <4>2, <3>4, <1>0 DEF TypeInv, TypeOK, JobsTypeOK
      <4>4. ~Closing(r)'
        BY <4>1, <3>2 DEF Closing
      <4>. QED BY <4>1, <4>3, <4>4
    <3>. QED BY <1>3, <3>3, <3>4 DEF CompleteRun
  <2>. QED BY <1>0, <2>3, <2>5, <2>6, <2>7
<1>4. CASE WorkerFails(w)
  <2>1. UNCHANGED <<runCount, runJob>>
    BY <1>4 DEF WorkerFails
  <2>2. Grows
    BY <2>1, <1>0 DEF Grows, TypeInv, TypeOK, JobsTypeOK
  <2>3. FreshRuns'
    BY <2>1 DEF FreshRuns
  <2>4. UNCHANGED <<dbState, exec, watch, new, todo, stopPhase, stopRun, stopTodo>>
    BY <1>4 DEF WorkerFails
  <2>5. RowsKnown' /\ LaunchKnown' /\ StopKnown' /\ StopOwner'
    BY <2>4, <2>2, <1>0, RowsFrame, LaunchFrame, StopFrame, JobAssumption
  <2>6. QueueKnown'
    <3>1. step[w] # "idle" /\ queue' = queue \cup {msg[w]}
      BY <1>4 DEF WorkerFails
    <3>2. \A n \in queue' : n.row \in Row /\ Known(n.row)
      BY <3>1, <1>0 DEF QueueKnown, WorkKnown, TypeInv, TypeOK, RowsTypeOK, Busy, Message
    <3>. QED BY <3>2, <2>2, KnownGrows DEF QueueKnown
  <2>7. WorkKnown'
    <3>1. \A v \in Worker : step'[v] # "idle" => step[v] # "idle" /\ msg'[v] = msg[v]
      BY <1>4, <1>0 DEF WorkerFails, Handled, TypeInv, TypeOK, WorkTypeOK
    <3>2. \A v \in Worker : step[v] # "idle" => msg[v].row \in Row
      BY <1>0 DEF TypeInv, Busy, Message
    <3>. QED BY <3>1, <3>2, <2>2, KnownGrows DEF WorkKnown
  <2>8. LiveRun'
    <3>1. UNCHANGED jobVars
      BY <1>4 DEF WorkerFails
    <3>2. \A v \in Worker : step'[v] = "close" => step[v] = "close" /\ msg'[v] = msg[v]
      BY <1>4, <1>0 DEF WorkerFails, Handled, TypeInv, TypeOK, WorkTypeOK
    <3>. QED BY <3>1, <3>2, LiveFrame
  <2>. QED BY <1>0, <2>3, <2>5, <2>6, <2>7, <2>8
<1>. QED BY <1>1, <1>2, <1>3, <1>4 DEF WorkerNext

LEMMA RequestRun ==
  ASSUME RunInv, NEW j \in Job, RequestNext(j)
  PROVE  RunInv'
<1>. USE DEF RunInv
<1>0. TypeInv /\ TypeInv'
  BY TypeNext DEF Next
<1>1. CASE StopRead(j)
  <2>1. UNCHANGED <<runCount, runJob>>
    BY <1>1 DEF StopRead
  <2>2. Grows
    BY <2>1, <1>0 DEF Grows, TypeInv, TypeOK, JobsTypeOK
  <2>3. FreshRuns'
    BY <2>1 DEF FreshRuns
  <2>4. UNCHANGED <<jobVars, dbState, exec, watch, new, todo, queue, step, msg>>
    BY <1>1 DEF StopRead
  <2>5. RowsKnown' /\ LaunchKnown' /\ QueueKnown' /\ WorkKnown' /\ LiveRun'
    BY <2>4, <2>2, <1>0, RowsFrame, LaunchFrame, QueueFrame, WorkFrame, LiveFrame DEF TypeInv, TypeOK
  <2>6. StopKnown' /\ StopOwner'
    <3>1. UNCHANGED <<stopTodo>> /\ StopKnown'
      BY <1>1, <2>2, KnownGrows DEF StopRead, StopKnown
    <3>2. \A i \in Job : stopPhase'[i] # "idle" =>
              \/ i = j /\ stopRun'[i] \in Run /\ runJob[stopRun'[i]] = j
              \/ stopPhase[i] # "idle" /\ stopRun'[i] = stopRun[i]
      BY <1>1, <1>0 DEF StopRead, TypeInv, TypeOK, RequestTypeOK
    <3>. QED BY <3>1, <3>2, <2>1 DEF StopOwner
  <2>. QED BY <1>0, <2>3, <2>5, <2>6
<1>2. CASE StopRun(j)
  <2>1. UNCHANGED <<runCount, runJob>>
    BY <1>2 DEF StopRun
  <2>2. Grows
    BY <2>1, <1>0 DEF Grows, TypeInv, TypeOK, JobsTypeOK
  <2>3. FreshRuns'
    BY <2>1 DEF FreshRuns
  <2>4. UNCHANGED <<new, todo, queue, step, msg>>
    BY <1>2 DEF StopRun
  <2>5. LaunchKnown' /\ QueueKnown' /\ WorkKnown'
    BY <2>4, <2>2, <1>0, LaunchFrame, QueueFrame, WorkFrame DEF TypeInv, TypeOK
  <2>6. RowsKnown'
    <3>1. UNCHANGED <<exec, watch>>
      BY <1>2 DEF StopRun
    <3>2. \A x \in Row : dbState'[x] # "NONE" => dbState[x] # "NONE"
      BY <1>2 DEF StopRun, RowsOf
    <3>. QED BY <3>1, <3>2, <2>2, KnownGrows DEF RowsKnown
  <2>7. StopKnown' /\ StopOwner'
    <3>1. StopKnown'
      <4>1. \A i \in Job, x \in Row : x \in stopTodo'[i] => x \in stopTodo[i] \/ dbState[x] # "NONE"
        BY <1>2, <1>0 DEF StopRun, RowsOf, TypeInv, TypeOK, RequestTypeOK
      <4>. QED BY <4>1, <2>2, KnownGrows DEF StopKnown, RowsKnown
    <3>2. \A i \in Job : stopPhase'[i] # "idle" => stopPhase[i] # "idle" /\ stopRun'[i] = stopRun[i]
      BY <1>2, <1>0 DEF StopRun, TypeInv, TypeOK, RequestTypeOK
    <3>. QED BY <3>1, <3>2, <2>1 DEF StopOwner
  <2>8. LiveRun'
    <3>. DEFINE e == stopRun[j]
    <3>1. e \in Run /\ runJob[e] = j
      BY <1>2 DEF StopRun, StopOwner
    <3>2. \A r \in Run : r # e => runState'[r] = runState[r]
      BY <1>2, <1>0 DEF StopRun, TypeInv, TypeOK, JobsTypeOK
    <3>3. \A i \in Job : jobState'[i] \in JobRunning => jobState[i] \in JobRunning /\ i # runJob[e]
      BY <1>2, <3>1, <1>0 DEF StopRun, JobRunning, TypeInv, TypeOK, JobsTypeOK
    <3>4. UNCHANGED <<step, msg>>
      BY <1>2 DEF StopRun
    <3>. QED BY <3>1, <3>2, <3>3, <3>4, <2>1, <1>0, EndRunLive DEF TypeInv, TypeOK
  <2>. QED BY <1>0, <2>3, <2>5, <2>6, <2>7, <2>8
<1>3. CASE StopEnds(j)
  <2>1. UNCHANGED <<runCount, runJob>>
    BY <1>3 DEF StopEnds
  <2>2. Grows
    BY <2>1, <1>0 DEF Grows, TypeInv, TypeOK, JobsTypeOK
  <2>3. FreshRuns'
    BY <2>1 DEF FreshRuns
  <2>4. UNCHANGED <<jobVars, dbState, exec, watch, new, todo, queue, step, msg>>
    BY <1>3 DEF StopEnds
  <2>5. RowsKnown' /\ LaunchKnown' /\ QueueKnown' /\ WorkKnown' /\ LiveRun'
    BY <2>4, <2>2, <1>0, RowsFrame, LaunchFrame, QueueFrame, WorkFrame, LiveFrame DEF TypeInv, TypeOK
  <2>6. StopKnown' /\ StopOwner'
    <3>1. StopKnown'
      <4>1. \A i \in Job, y \in Row : y \in stopTodo'[i] => y \in stopTodo[i]
        BY <1>3, <1>0 DEF StopEnds, StopIdle, TypeInv, TypeOK, RequestTypeOK
      <4>. QED BY <4>1, <2>2, KnownGrows DEF StopKnown
    <3>2. \A i \in Job : stopPhase'[i] # "idle" => stopPhase[i] # "idle" /\ stopRun'[i] = stopRun[i]
      BY <1>3, <1>0 DEF StopEnds, StopIdle, TypeInv, TypeOK, RequestTypeOK
    <3>. QED BY <3>1, <3>2, <2>1 DEF StopOwner
  <2>. QED BY <1>0, <2>3, <2>5, <2>6
<1>4. CASE \E x \in Row : StopRunDatabase(j, x)
  <2>0. PICK x \in Row : StopRunDatabase(j, x)
    BY <1>4
  <2>1. UNCHANGED <<runCount, runJob>>
    BY <2>0 DEF StopRunDatabase
  <2>2. Grows
    BY <2>1, <1>0 DEF Grows, TypeInv, TypeOK, JobsTypeOK
  <2>3. FreshRuns'
    BY <2>1 DEF FreshRuns
  <2>4. UNCHANGED <<jobVars, new, todo, step, msg>>
    BY <2>0 DEF StopRunDatabase
  <2>5. LaunchKnown' /\ WorkKnown' /\ LiveRun'
    BY <2>4, <2>2, <1>0, LaunchFrame, WorkFrame, LiveFrame DEF TypeInv, TypeOK
  <2>6. RowsKnown'
    <3>1. UNCHANGED <<dbState, watch>>
      BY <2>0 DEF StopRunDatabase
    <3>2. \A y \in Row : exec'[y] # "NONE" => exec[y] # "NONE"
      BY <2>0, <1>0 DEF StopRunDatabase, TypeInv, TypeOK, RowsTypeOK
    <3>. QED BY <3>1, <3>2, <2>2, KnownGrows DEF RowsKnown
  <2>7. QueueKnown'
    <3>1. x \in stopTodo[j] /\ queue' = queue \cup {[row |-> x, state |-> "STOPPED"]}
      BY <2>0 DEF StopRunDatabase
    <3>2. \A n \in queue' : n.row \in Row /\ Known(n.row)
      BY <3>1, <1>0 DEF QueueKnown, StopKnown, TypeInv, TypeOK, RowsTypeOK, Message
    <3>. QED BY <3>2, <2>2, KnownGrows DEF QueueKnown
  <2>8. StopKnown' /\ StopOwner'
    <3>1. StopKnown'
      <4>1. \A i \in Job, y \in Row : y \in stopTodo'[i] => y \in stopTodo[i]
        BY <2>0, <1>0 DEF StopRunDatabase, StopIdle, TypeInv, TypeOK, RequestTypeOK
      <4>. QED BY <4>1, <2>2, KnownGrows DEF StopKnown
    <3>2. \A i \in Job : stopPhase'[i] # "idle" => stopPhase[i] # "idle" /\ stopRun'[i] = stopRun[i]
      BY <2>0, <1>0 DEF StopRunDatabase, StopIdle, TypeInv, TypeOK, RequestTypeOK
    <3>. QED BY <3>1, <3>2, <2>1 DEF StopOwner
  <2>. QED BY <1>0, <2>3, <2>5, <2>6, <2>7, <2>8
<1>5. CASE DeleteCheck(j)
  <2>1. UNCHANGED <<runCount, runJob>>
    BY <1>5 DEF DeleteCheck
  <2>2. Grows
    BY <2>1, <1>0 DEF Grows, TypeInv, TypeOK, JobsTypeOK
  <2>3. FreshRuns'
    BY <2>1 DEF FreshRuns
  <2>4. UNCHANGED <<jobVars, dbState, exec, watch, new, todo, queue, step, msg, stopPhase, stopRun, stopTodo>>
    BY <1>5 DEF DeleteCheck
  <2>5. RowsKnown' /\ LaunchKnown' /\ QueueKnown' /\ WorkKnown' /\ StopKnown' /\ StopOwner' /\ LiveRun'
    BY <2>4, <2>2, <1>0, RowsFrame, LaunchFrame, QueueFrame, WorkFrame, StopFrame, JobAssumption, LiveFrame DEF TypeInv, TypeOK
  <2>. QED BY <1>0, <2>3, <2>5
<1>6. CASE DeleteJob(j)
  <2>1. UNCHANGED <<runCount, runJob>>
    BY <1>6 DEF DeleteJob
  <2>2. Grows
    BY <2>1, <1>0 DEF Grows, TypeInv, TypeOK, JobsTypeOK
  <2>3. FreshRuns'
    BY <2>1 DEF FreshRuns
  <2>4. UNCHANGED <<dbState, exec, watch, new, todo, queue, step, msg, stopPhase, stopRun, stopTodo>>
    BY <1>6 DEF DeleteJob
  <2>5. RowsKnown' /\ LaunchKnown' /\ QueueKnown' /\ WorkKnown' /\ StopKnown' /\ StopOwner'
    BY <2>4, <2>2, <1>0, RowsFrame, LaunchFrame, QueueFrame, WorkFrame, StopFrame, JobAssumption DEF TypeInv, TypeOK
  <2>6. LiveRun'
    <3>1. UNCHANGED <<runCount, runJob, runState, step, msg>>
      BY <1>6 DEF DeleteJob
    <3>2. \A i \in Job : jobState'[i] \in JobRunning => jobState[i] \in JobRunning
      BY <1>6, <1>0 DEF DeleteJob, JobRunning, TypeInv, TypeOK, JobsTypeOK
    <3>. QED BY <3>1, <3>2 DEF LiveRun, Closing
  <2>. QED BY <1>0, <2>3, <2>5, <2>6
<1>. QED BY <1>1, <1>2, <1>3, <1>4, <1>5, <1>6 DEF RequestNext

LEMMA CheckRunningRun ==
  ASSUME RunInv, CheckRunningNext
  PROVE  RunInv'
<1>. USE DEF RunInv
<1>0. TypeInv /\ TypeInv'
  BY TypeNext DEF Next
<1>1. CASE CheckRunningRead
  <2>1. UNCHANGED <<runCount, runJob>>
    BY <1>1 DEF CheckRunningRead
  <2>2. Grows
    BY <2>1, <1>0 DEF Grows, TypeInv, TypeOK, JobsTypeOK
  <2>3. FreshRuns'
    BY <2>1 DEF FreshRuns
  <2>4. UNCHANGED <<jobVars, new, todo, queue, step, msg, stopPhase, stopRun, stopTodo>>
    BY <1>1 DEF CheckRunningRead
  <2>5. LaunchKnown' /\ QueueKnown' /\ WorkKnown' /\ StopKnown' /\ StopOwner' /\ LiveRun'
    BY <2>4, <2>2, <1>0, LaunchFrame, QueueFrame, WorkFrame, StopFrame, JobAssumption, LiveFrame DEF TypeInv, TypeOK
  <2>6. RowsKnown'
    <3>1. UNCHANGED <<dbState, exec>>
      BY <1>1 DEF CheckRunningRead
    <3>2. \A x \in Row : x \in watch' => dbState[x] # "NONE"
      BY <1>1 DEF CheckRunningRead
    <3>. QED BY <3>1, <3>2, <2>2, KnownGrows DEF RowsKnown
  <2>. QED BY <1>0, <2>3, <2>5, <2>6
<1>2. CASE \E x \in Row : CheckRunningOne(x)
  <2>0. PICK x \in Row : CheckRunningOne(x)
    BY <1>2
  <2>1. UNCHANGED <<runCount, runJob>>
    BY <2>0 DEF CheckRunningOne
  <2>2. Grows
    BY <2>1, <1>0 DEF Grows, TypeInv, TypeOK, JobsTypeOK
  <2>3. FreshRuns'
    BY <2>1 DEF FreshRuns
  <2>4. UNCHANGED <<jobVars, new, todo, step, msg, stopPhase, stopRun, stopTodo>>
    BY <2>0 DEF CheckRunningOne
  <2>5. LaunchKnown' /\ WorkKnown' /\ StopKnown' /\ StopOwner' /\ LiveRun'
    BY <2>4, <2>2, <1>0, LaunchFrame, WorkFrame, StopFrame, JobAssumption, LiveFrame DEF TypeInv, TypeOK
  <2>6. RowsKnown'
    <3>1. UNCHANGED <<dbState, exec>> /\ watch' \subseteq watch
      BY <2>0 DEF CheckRunningOne
    <3>. QED BY <3>1, <2>2, KnownGrows DEF RowsKnown
  <2>7. QueueKnown'
    <3>1. x \in watch /\ \A n \in queue' : n \in queue \/ n.row = x
      BY <2>0 DEF CheckRunningOne
    <3>2. \A n \in queue' : n.row \in Row /\ Known(n.row)
      BY <3>1, <1>0 DEF QueueKnown, RowsKnown, TypeInv, TypeOK, RowsTypeOK, Message
    <3>. QED BY <3>2, <2>2, KnownGrows DEF QueueKnown
  <2>. QED BY <1>0, <2>3, <2>5, <2>6, <2>7
<1>. QED BY <1>1, <1>2 DEF CheckRunningNext

LEMMA ExecutionRun ==
  ASSUME RunInv, ExecutionNext
  PROVE  RunInv'
<1>. USE DEF RunInv
<1>0. TypeInv /\ TypeInv'
  BY TypeNext DEF Next
<1>1. CASE \E x \in Row, end \in {"SUCCEEDED", "REPORTED_FAILED", "FAILED"} : ExecEnds(x, end)
  <2>0. PICK x \in Row, end \in {"SUCCEEDED", "REPORTED_FAILED", "FAILED"} : ExecEnds(x, end)
    BY <1>1
  <2>1. UNCHANGED <<runCount, runJob>>
    BY <2>0 DEF ExecEnds
  <2>2. Grows
    BY <2>1, <1>0 DEF Grows, TypeInv, TypeOK, JobsTypeOK
  <2>3. FreshRuns'
    BY <2>1 DEF FreshRuns
  <2>4. UNCHANGED <<jobVars, new, todo, step, msg, stopPhase, stopRun, stopTodo>>
    BY <2>0 DEF ExecEnds
  <2>5. LaunchKnown' /\ WorkKnown' /\ StopKnown' /\ StopOwner' /\ LiveRun'
    BY <2>4, <2>2, <1>0, LaunchFrame, WorkFrame, StopFrame, JobAssumption, LiveFrame DEF TypeInv, TypeOK
  <2>6. RowsKnown'
    <3>1. UNCHANGED <<dbState, watch>>
      BY <2>0 DEF ExecEnds
    <3>2. \A y \in Row : exec'[y] # "NONE" => exec[y] # "NONE"
      BY <2>0, <1>0 DEF ExecEnds, TypeInv, TypeOK, RowsTypeOK
    <3>. QED BY <3>1, <3>2, <2>2, KnownGrows DEF RowsKnown
  <2>7. QueueKnown'
    <3>1. exec[x] = "RUNNING" /\ \A n \in queue' : n \in queue \/ n.row = x
      BY <2>0 DEF ExecEnds
    <3>2. \A n \in queue' : n.row \in Row /\ Known(n.row)
      BY <3>1, <1>0 DEF QueueKnown, RowsKnown, TypeInv, TypeOK, RowsTypeOK, Message
    <3>. QED BY <3>2, <2>2, KnownGrows DEF QueueKnown
  <2>. QED BY <1>0, <2>3, <2>5, <2>6, <2>7
<1>. QED BY <1>1 DEF ExecutionNext

LEMMA RunNext == RunInv /\ [Next]_vars => RunInv'
<1>. SUFFICES ASSUME RunInv, [Next]_vars PROVE RunInv'
  OBVIOUS
<1>1. CASE UNCHANGED vars
  <2>1. TypeInv'
    BY TypeNext DEF RunInv
  <2>2. UNCHANGED <<jobVars, dbState, exec, queue, new, todo, step, msg, stopVars, watch>>
    BY <1>1 DEF vars
  <2>3. RowsKnown' /\ LaunchKnown' /\ QueueKnown' /\ WorkKnown'
    BY <2>2 DEF RunInv, RowsKnown, LaunchKnown, QueueKnown, WorkKnown, Known
  <2>4. StopKnown' /\ StopOwner' /\ FreshRuns'
    BY <2>2 DEF RunInv, StopKnown, StopOwner, FreshRuns, Known
  <2>5. LiveRun'
    BY <2>2 DEF RunInv, LiveRun, Closing
  <2>. QED BY <2>1, <2>3, <2>4, <2>5 DEF RunInv
<1>. QED
  BY <1>1, LauncherRun, WorkerRun, RequestRun, CheckRunningRun, ExecutionRun DEF Next

\* A job in a running state has a run in progress: starts that overlap, late or
\* repeated messages of older runs, stops, deletions and crashes never leave it
\* running with nothing to complete it.
THEOREM NoJobRunsWithoutRun == Spec => []NoPhantomRunningJob
<1>1. RunInv => NoPhantomRunningJob
  <2>. SUFFICES ASSUME RunInv, NEW j \in Job, jobState[j] \in JobRunning
                PROVE  \E r \in 1..runCount : runJob[r] = j /\ runState[r] = "RUNNING"
    BY DEF NoPhantomRunningJob
  <2>1. PICK r \in Run : r <= runCount /\ runJob[r] = j /\ runState[r] = "RUNNING"
    BY DEF RunInv, LiveRun
  <2>2. r \in 1..runCount
    BY <2>1 DEF Run, RunInv, TypeInv, TypeOK, JobsTypeOK
  <2>. QED BY <2>1, <2>2
<1>2. Spec => []RunInv
  BY RunInit, RunNext, PTL DEF Spec
<1>. QED BY <1>1, <1>2, PTL

-----------------------------------------------------------------------------
(***************************************************************************)
(* What the admin account knows of running executions, and the limit of    *)
(* scans of a subnet that rests on it, for any number of jobs, databases,  *)
(* runs, launchers and consumers, and any faults.                          *)
(***************************************************************************)

\* The execution of a row has ended, or the code has given the row up.
Over(x) == exec[x] \notin {"NONE", "RUNNING"}
Free(x) == x \in givenUp \/ Over(x)

\* A launcher has started the execution and is about to save so.
Holds(p, x) ==
    /\ phase[p] = "launch" /\ x \in started[p] /\ x \notin todo[p]
    /\ new[p][x] = "RUNNING" /\ view[p][x] # "RUNNING"

\* A row that a launcher created, and that no one else can know of as yet.
Mine(p, x) ==
    /\ dbState[x] = "READY"
    /\ \A q \in Launcher : q # p => view[q][x] = "NONE"
    /\ exec[x] = "NONE" \/ Holds(p, x)

\* States that only a finished, failed or stopped row has.
Past == {"STOPPING"} \cup Outcome

\* The inductive invariant.  An execution that runs is in the database or held by its
\* only starter; nothing speaks of an end that has not come, unless the row was given
\* up; and a session that may write READY or PENDING rows back is the only one to
\* know of them.
Tracked ==
    \A x \in Row : exec[x] = "RUNNING" =>
        dbState[x] = "RUNNING" \/ x \in givenUp \/ \E p \in Launcher : Holds(p, x)
Starts ==
    \A p \in Launcher, x \in Row : x \in started[p] =>
        exec[x] # "NONE" /\ \A q \in Launcher : x \in started[q] => p = q
Ended ==
    /\ \A x \in Row : dbState[x] \in Past => Free(x)
    /\ \A m \in queue : Free(m.row)
    /\ \A w \in Worker : step[w] # "idle" => Free(msg[w].row)
    /\ \A j \in Job : stopTodo[j] \subseteq givenUp
    /\ \A x \in watch : exec[x] # "NONE"
SessionRow(p, x) ==
    /\ \/ new[p][x] = view[p][x]
       \/ view[p][x] # "NONE" /\ new[p][x] \in {"RUNNING", "PENDING", "FAILED"}
    /\ x \in todo[p] => view[p][x] # "NONE" /\ new[p][x] = view[p][x]
    /\ view[p][x] \in Past \/ new[p][x] \in Past => Free(x)
    /\ view[p][x] = "RUNNING" => exec[x] # "NONE"
    /\ view[p][x] # "NONE" => dbState[x] # "NONE"
    /\ view[p][x] \notin {"NONE", "READY"} => dbState[x] # "READY"
    /\ phase[p] = "launch" /\ view[p][x] = "READY" => Free(x) \/ Mine(p, x)
    /\ phase[p] = "launch" /\ new[p][x] = "PENDING" /\ view[p][x] # "PENDING" =>
           Free(x) \/ (view[p][x] = "READY" /\ exec[x] = "NONE")
Sessions == \A p \in Launcher, x \in Row : SessionRow(p, x)

TrackInv == RunInv /\ StateInv /\ Tracked /\ Starts /\ Ended /\ Sessions

LEMMA TrackInit == Init => TrackInv
BY RunInit, StateInit
   DEF Init, TrackInv, Tracked, Starts, Ended, Sessions, SessionRow, Past, Outcome, Blank

\* No step undoes a start, an end or the giving up of a row.
Onward ==
    \A x \in Row :
        /\ exec[x] # "NONE" => exec'[x] # "NONE"
        /\ Over(x) => Over(x)'
        /\ x \in givenUp => x \in givenUp'

LEMMA OnwardFree ==
  ASSUME Onward, NEW x \in Row, Free(x)
  PROVE  Free(x)'
BY DEF Onward, Free

LEMMA OnwardLauncher ==
  ASSUME TypeInv, NEW p \in Launcher, LauncherNext(p)
  PROVE  Onward
<1>0. RowsTypeOK
  BY DEF TypeInv, TypeOK
<1>1. CASE \E x \in Row : Launch(p, x) \/ LaunchFails(p, x) \/ Postpone(p, x) \/ EnableFails(p, x)
  BY <1>0, <1>1 DEF Onward, Over, RowsTypeOK, Launch, LaunchFails, Postpone, EnableFails, GiveUp
<1>2. CASE UNCHANGED exec /\ (UNCHANGED givenUp \/ \E S : GiveUp(S))
  BY <1>2 DEF Onward, Over, GiveUp
<1>3. CASE \E j \in Job : StartJob(p, j)
  BY <1>2, <1>3 DEF StartJob
<1>. QED BY <1>1, <1>2, <1>3 DEF LauncherNext, InitRun, InitRunFails, CheckPending, Flush,
       SaveRunDatabases, AbortRun, LauncherCrash

\* What speaks of ends stays justified.
LEMMA EndedFrame ==
  ASSUME TypeInv, Ended, Onward, UNCHANGED <<queue, step, msg, stopTodo, watch>>,
         \A x \in Row : dbState'[x] \in Past => dbState[x] \in Past \/ Free(x)'
  PROVE  Ended'
<1>1. \A m \in queue : m.row \in Row
  BY DEF TypeInv, TypeOK, RowsTypeOK, Message
<1>2. \A w \in Worker : step[w] # "idle" => msg[w].row \in Row
  BY DEF TypeInv, Busy, Message
<1>3. watch \subseteq Row /\ \A j \in Job : stopTodo[j] \subseteq Row
  BY DEF TypeInv, TypeOK, RequestTypeOK
<1>4. \A x \in Row : dbState'[x] \in Past => Free(x)'
  BY OnwardFree DEF Ended
<1>5. \A m \in queue' : Free(m.row)'
  BY <1>1, OnwardFree DEF Ended
<1>6. \A w \in Worker : step'[w] # "idle" => Free(msg[w].row)'
  BY <1>2, OnwardFree DEF Ended
<1>7. \A j \in Job : stopTodo[j] \subseteq givenUp'
  BY <1>3 DEF Ended, Onward
<1>8. \A x \in watch : exec'[x] # "NONE"
  BY <1>3 DEF Ended, Onward
<1>. QED BY <1>4, <1>5, <1>6, <1>7, <1>8 DEF Ended

\* Steps of others: they touch only rows that are over or given up.
LEMMA OutsideFrame ==
  ASSUME TrackInv, Onward, UNCHANGED <<launchVars, started>>,
         \A x \in Row : dbState'[x] = "READY" => dbState[x] = "READY",
         \A x \in Row : dbState[x] # "NONE" => dbState'[x] # "NONE",
         \A x \in Row : Free(x)' \/ (dbState'[x] = dbState[x] /\ exec'[x] = exec[x])
  PROVE  Tracked' /\ Starts' /\ Sessions'
<1>. USE DEF TrackInv
<1>1. Tracked'
  <2>. SUFFICES ASSUME NEW x \in Row, exec'[x] = "RUNNING", x \notin givenUp'
                PROVE  dbState'[x] = "RUNNING" \/ \E p \in Launcher : Holds(p, x)'
    BY DEF Tracked
  <2>1. dbState'[x] = dbState[x] /\ exec'[x] = exec[x] /\ x \notin givenUp
    BY DEF Free, Over, Onward
  <2>2. \A p \in Launcher : Holds(p, x) => Holds(p, x)'
    BY DEF Holds
  <2>. QED BY <2>1, <2>2 DEF Tracked
<1>2. Starts'
  BY DEF Starts, Onward
<1>3. Sessions'
  <2>. SUFFICES ASSUME NEW p \in Launcher, NEW x \in Row PROVE SessionRow(p, x)'
    BY DEF Sessions
  <2>1. SessionRow(p, x)
    BY DEF Sessions
  <2>2. Free(x) => Free(x)'
    BY OnwardFree
  <2>3. Mine(p, x) => Free(x)' \/ Mine(p, x)'
    BY DEF Mine, Holds
  <2>. QED BY <2>1, <2>2, <2>3 DEF SessionRow, Onward
<1>. QED BY <1>1, <1>2, <1>3

\* Steps of a launcher, as the others see them.
Alone(p) ==
    \A q \in Launcher : q # p =>
        /\ phase'[q] = phase[q] /\ todo'[q] = todo[q] /\ started'[q] = started[q]
        /\ view'[q] = view[q] /\ new'[q] = new[q]

Apart(p) ==
    /\ Onward /\ Alone(p)
    /\ \A x \in Row : dbState'[x] = "READY" =>
           dbState[x] = "READY" \/ \A q \in Launcher : q # p => view[q][x] = "NONE"
    /\ \A x \in Row : dbState[x] # "NONE" => dbState'[x] # "NONE"
    /\ \A x \in Row : dbState[x] = "READY" /\ view[p][x] = "NONE" =>
           dbState'[x] = "READY" /\ view'[p][x] = "NONE" /\ exec'[x] = exec[x]
    /\ \A x \in Row : exec'[x] = "RUNNING" /\ x \notin givenUp' =>
           \/ Holds(p, x)'
           \/ /\ exec[x] = "RUNNING"
              /\ (dbState[x] = "RUNNING" \/ Holds(p, x)) => dbState'[x] = "RUNNING"
    /\ \A x \in Row : SessionRow(p, x)'

LEMMA LauncherFrame ==
  ASSUME TrackInv, NEW p \in Launcher, Apart(p)
  PROVE  Tracked' /\ Sessions'
<1>. USE DEF TrackInv, Apart
<1>1. Tracked'
  <2>. SUFFICES ASSUME NEW x \in Row, exec'[x] = "RUNNING", x \notin givenUp', ~Holds(p, x)'
                PROVE  dbState'[x] = "RUNNING" \/ \E q \in Launcher : Holds(q, x)'
    BY DEF Tracked
  <2>1. /\ exec[x] = "RUNNING" /\ x \notin givenUp
        /\ dbState[x] = "RUNNING" \/ Holds(p, x) => dbState'[x] = "RUNNING"
    BY DEF Onward
  <2>2. \A q \in Launcher : q # p /\ Holds(q, x) => Holds(q, x)'
    BY DEF Holds, Alone
  <2>. QED BY <2>1, <2>2 DEF Tracked
<1>2. Sessions'
  <2>. SUFFICES ASSUME NEW q \in Launcher, NEW x \in Row, q # p PROVE SessionRow(q, x)'
    BY DEF Sessions
  <2>1. SessionRow(q, x)
    BY DEF Sessions
  <2>2. Free(x) => Free(x)'
    BY OnwardFree
  <2>3. ASSUME Mine(q, x) PROVE Mine(q, x)' /\ exec'[x] = exec[x]
    <3>1. dbState[x] = "READY" /\ view[p][x] = "NONE"
      BY <2>3 DEF Mine
    <3>2. dbState'[x] = "READY" /\ view'[p][x] = "NONE" /\ exec'[x] = exec[x]
      BY <3>1
    <3>3. \A r \in Launcher : r # q => view'[r][x] = "NONE"
      BY <2>3, <3>2 DEF Mine, Alone
    <3>4. Holds(q, x) => Holds(q, x)'
      BY DEF Holds, Alone
    <3>. QED BY <2>3, <3>2, <3>3, <3>4 DEF Mine
  <2>4. phase'[q] = phase[q] /\ todo'[q] = todo[q] /\ view'[q] = view[q] /\ new'[q] = new[q]
    BY DEF Alone
  <2>5. /\ view[q][x] \notin {"NONE", "READY"} => dbState'[x] # "READY"
        /\ view[q][x] # "NONE" => dbState'[x] # "NONE"
    BY <2>1 DEF SessionRow
  <2>6. exec[x] # "NONE" => exec'[x] # "NONE"
    BY DEF Onward
  <2>. QED BY <2>1, <2>2, <2>3, <2>4, <2>5, <2>6 DEF SessionRow
<1>. QED BY <1>1, <1>2

\* The end of an invocation leaves nothing behind.
LEMMA EndedSession ==
  ASSUME LaunchTypeOK, NEW p \in Launcher, EndLaunch(p), UNCHANGED started
  PROVE  Alone(p) /\ \A x \in Row : SessionRow(p, x)' /\ view'[p][x] = "NONE"
<1>1. Alone(p)
  BY DEF LaunchTypeOK, EndLaunch, Alone
<1>2. view'[p] = Blank /\ new'[p] = Blank /\ todo'[p] = {} /\ phase'[p] = "idle"
  BY DEF LaunchTypeOK, EndLaunch
<1>3. \A x \in Row : SessionRow(p, x)' /\ view'[p][x] = "NONE"
  BY <1>2 DEF SessionRow, Blank, Past, Outcome
<1>. QED BY <1>1, <1>3

\* What a session commits.
LEMMA Commits ==
  ASSUME TrackInv, NEW p \in Launcher, NEW x \in Row, phase[p] = "launch"
  PROVE  /\ view[p][x] = "NONE" => Committed(p)[x] = dbState[x]
         /\ dbState[x] # "NONE" => Committed(p)[x] # "NONE"
         /\ Committed(p)[x] = "READY" => dbState[x] = "READY" /\ new[p][x] = view[p][x]
         /\ Committed(p)[x] \in Past => dbState[x] \in Past \/ Free(x)
         /\ exec[x] = "RUNNING" /\ x \notin givenUp /\ (dbState[x] = "RUNNING" \/ Holds(p, x))
                => Committed(p)[x] = "RUNNING"
<1>1. SessionRow(p, x)
  BY DEF TrackInv, Sessions
<1>2. Committed(p)[x] = IF new[p][x] # view[p][x] THEN new[p][x] ELSE dbState[x]
  BY DEF Committed
<1>3. exec[x] = "RUNNING" /\ x \notin givenUp => ~Free(x)
  BY DEF Free, Over
<1>4. "FAILED" \in Past
  BY DEF Past, Outcome
<1>5. CASE new[p][x] = view[p][x]
  BY <1>2, <1>5 DEF Holds
<1>6. CASE new[p][x] # view[p][x]
  <2>1. view[p][x] # "NONE" /\ new[p][x] \in {"RUNNING", "PENDING", "FAILED"}
    BY <1>1, <1>6 DEF SessionRow
  <2>2. new[p][x] \in Past => Free(x)
    BY <1>1 DEF SessionRow
  <2>3. new[p][x] = "FAILED" => Free(x)
    BY <1>4, <2>2
  <2>4. new[p][x] = "PENDING" => view[p][x] # "PENDING"
    BY <1>6
  <2>5. new[p][x] = "PENDING" => Free(x) \/ (view[p][x] = "READY" /\ exec[x] = "NONE")
    BY <1>1, <2>4 DEF SessionRow
  <2>. QED BY <1>2, <1>3, <1>6, <2>1, <2>2, <2>3, <2>5
<1>. QED BY <1>5, <1>6

\* The rows of the loop that an iteration is not about.
LEMMA LoopFrame ==
  ASSUME TrackInv, Onward, NEW p \in Launcher, NEW x \in Row, NEW s, Assign(p, x, s),
         UNCHANGED <<phase, view, dbState>>, NEW y \in Row, y # x, exec'[y] = exec[y],
         y \in started'[p] <=> y \in started[p]
  PROVE  SessionRow(p, y)' /\ (Holds(p, y) => Holds(p, y)')
<1>1. LaunchTypeOK /\ SessionRow(p, y)
  BY DEF TrackInv, RunInv, TypeInv, TypeOK, Sessions
<1>2. todo'[p] = todo[p] \ {x} /\ new'[p] = [new[p] EXCEPT ![x] = s]
  BY <1>1 DEF LaunchTypeOK, Assign
<1>3. (y \in todo'[p] <=> y \in todo[p]) /\ new'[p][y] = new[p][y]
  BY <1>1, <1>2 DEF LaunchTypeOK
<1>4. Holds(p, y) => Holds(p, y)'
  BY <1>3 DEF Holds
<1>5. Mine(p, y) => Mine(p, y)'
  BY <1>4 DEF Mine
<1>6. Free(y) => Free(y)'
  BY OnwardFree
<1>. QED BY <1>1, <1>3, <1>4, <1>5, <1>6 DEF SessionRow

\* The loop as a whole: what its iteration must show of its own row.
LEMMA LoopStep ==
  ASSUME TrackInv, Onward, NEW p \in Launcher, NEW x \in Row, x \in todo[p],
         NEW s, Assign(p, x, s), UNCHANGED <<phase, view, dbState>>,
         \A y \in Row : y # x => exec'[y] = exec[y],
         \A q \in Launcher, y \in Row :
             q # p \/ y # x => (y \in started'[q] <=> y \in started[q]),
         started' \in [Launcher -> SUBSET Row],
         exec'[x] = "RUNNING" /\ x \notin givenUp' => exec[x] = "RUNNING" \/ Holds(p, x)',
         SessionRow(p, x)'
  PROVE  Tracked' /\ Sessions'
<1>1. LaunchTypeOK /\ HistoryTypeOK /\ SessionRow(p, x)
  BY DEF TrackInv, RunInv, TypeInv, TypeOK, Sessions
<1>2. Alone(p)
  <2>. SUFFICES ASSUME NEW q \in Launcher, q # p
                PROVE  todo'[q] = todo[q] /\ new'[q] = new[q] /\ started'[q] = started[q]
    BY DEF Alone
  <2>1. started'[q] \subseteq Row /\ started[q] \subseteq Row
    BY <1>1 DEF HistoryTypeOK
  <2>2. started'[q] = started[q]
    BY <2>1
  <2>. QED BY <1>1, <2>2 DEF LaunchTypeOK, Assign
<1>3. view[p][x] # "NONE"
  BY <1>1 DEF SessionRow
<1>4. \A y \in Row : SessionRow(p, y)' /\ (y # x => (Holds(p, y) => Holds(p, y)'))
  BY LoopFrame
<1>5. ~Holds(p, x)
  BY DEF Holds
<1>6. \A y \in Row : exec'[y] = "RUNNING" /\ y \notin givenUp' =>
          \/ Holds(p, y)'
          \/ /\ exec[y] = "RUNNING"
             /\ (dbState[y] = "RUNNING" \/ Holds(p, y)) => dbState'[y] = "RUNNING"
  <2>. SUFFICES ASSUME NEW y \in Row, exec'[y] = "RUNNING", y \notin givenUp', ~Holds(p, y)'
                PROVE  exec[y] = "RUNNING" /\ ~Holds(p, y)
    OBVIOUS
  <2>. QED BY <1>4, <1>5
<1>7. \A y \in Row : dbState[y] = "READY" /\ view[p][y] = "NONE" =>
          dbState'[y] = "READY" /\ view'[p][y] = "NONE" /\ exec'[y] = exec[y]
  BY <1>3
<1>8. Apart(p)
  BY <1>2, <1>4, <1>6, <1>7 DEF Apart
<1>. QED BY <1>8, LauncherFrame

\* The iterations of the loop.
LEMMA PostponeTrack ==
  ASSUME TrackInv, Onward, NEW p \in Launcher, NEW x \in Row, Postpone(p, x)
  PROVE  Tracked' /\ Sessions'
<1>1. LaunchTypeOK /\ HistoryTypeOK /\ SessionRow(p, x)
  BY DEF TrackInv, RunInv, TypeInv, TypeOK, Sessions
<1>2. /\ phase[p] = "launch" /\ x \in todo[p] /\ Assign(p, x, "PENDING")
      /\ UNCHANGED <<phase, view, dbState, exec, started>>
      /\ givenUp' = givenUp \cup {y \in {x} : exec[y] = "RUNNING"}
  BY DEF Postpone, GiveUp
<1>3. x \notin todo'[p] /\ new'[p][x] = "PENDING"
  BY <1>1, <1>2 DEF LaunchTypeOK, Assign
<1>4. Free(x) => Free(x)'
  BY OnwardFree
<1>5. ~Holds(p, x) /\ (Mine(p, x) => Mine(p, x)' /\ exec[x] = "NONE")
  BY <1>2 DEF Mine, Holds
<1>6. exec[x] # "NONE" => Free(x)'
  BY <1>2 DEF Free, Over
<1>7. view[p][x] \in {"NONE", "READY", "PENDING", "RUNNING"} \cup Past
  BY <1>1 DEF LaunchTypeOK, RunDatabaseState, Past, Outcome
<1>8. "PENDING" \notin Past
  BY DEF Past, Outcome
<1>9. view[p][x] # "PENDING" => Free(x)' \/ (view[p][x] = "READY" /\ exec[x] = "NONE")
  BY <1>1, <1>2, <1>4, <1>5, <1>6, <1>7 DEF SessionRow
<1>10. SessionRow(p, x)'
  BY <1>1, <1>2, <1>3, <1>4, <1>5, <1>8, <1>9 DEF SessionRow
<1>11. started' \in [Launcher -> SUBSET Row]
  BY <1>1, <1>2 DEF HistoryTypeOK
<1>. QED BY <1>2, <1>10, <1>11, LoopStep

LEMMA FailTrack ==
  ASSUME TrackInv, Onward, NEW p \in Launcher, NEW x \in Row,
         EnableFails(p, x) \/ LaunchFails(p, x)
  PROVE  Tracked' /\ Sessions'
<1>1. LaunchTypeOK /\ HistoryTypeOK /\ RowsTypeOK /\ SessionRow(p, x)
  BY DEF TrackInv, RunInv, TypeInv, TypeOK, Sessions
<1>2. /\ phase[p] = "launch" /\ x \in todo[p] /\ Assign(p, x, "FAILED")
      /\ UNCHANGED <<phase, view, dbState, started>>
      /\ exec' = exec \/ exec' = [exec EXCEPT ![x] = "RUNNING"]
      /\ x \in givenUp'
  BY DEF EnableFails, LaunchFails, GiveUp
<1>3. x \notin todo'[p] /\ new'[p][x] = "FAILED"
  BY <1>1, <1>2 DEF LaunchTypeOK, Assign
<1>4. \A y \in Row : y # x => exec'[y] = exec[y]
  BY <1>1, <1>2 DEF RowsTypeOK
<1>5. Free(x)' /\ (exec[x] # "NONE" => exec'[x] # "NONE")
  BY <1>2 DEF Free, Onward
<1>6. SessionRow(p, x)'
  BY <1>1, <1>2, <1>3, <1>5 DEF SessionRow
<1>7. started' \in [Launcher -> SUBSET Row]
  BY <1>1, <1>2 DEF HistoryTypeOK
<1>. QED BY <1>2, <1>4, <1>6, <1>7, LoopStep

LEMMA LaunchTrack ==
  ASSUME TrackInv, Onward, NEW p \in Launcher, NEW x \in Row, Launch(p, x)
  PROVE  Tracked' /\ Sessions' /\ Starts'
<1>1. LaunchTypeOK /\ HistoryTypeOK /\ RowsTypeOK /\ SessionRow(p, x)
  BY DEF TrackInv, RunInv, TypeInv, TypeOK, Sessions
<1>2. /\ phase[p] = "launch" /\ x \in todo[p] /\ Assign(p, x, "RUNNING")
      /\ UNCHANGED <<phase, view, dbState, givenUp>>
      /\ exec[x] \in {"NONE", "RUNNING"}
      /\ exec' = [exec EXCEPT ![x] = "RUNNING"]
      /\ started' = [started EXCEPT ![p] = @ \cup {y \in {x} : exec[y] = "NONE"}]
  BY DEF Launch
<1>3. x \notin todo'[p] /\ new'[p][x] = "RUNNING"
  BY <1>1, <1>2 DEF LaunchTypeOK, Assign
<1>4. exec'[x] = "RUNNING" /\ \A y \in Row : y # x => exec'[y] = exec[y]
  BY <1>1, <1>2 DEF RowsTypeOK
<1>5. /\ started' \in [Launcher -> SUBSET Row]
      /\ exec[x] = "NONE" => x \in started'[p]
      /\ \A q \in Launcher, y \in Row :
             q # p \/ y # x => (y \in started'[q] <=> y \in started[q])
      /\ \A y \in Row : y \in started'[p] => y \in started[p] \/ (y = x /\ exec[y] = "NONE")
  BY <1>1, <1>2 DEF HistoryTypeOK
<1>6. exec[x] = "NONE" => Holds(p, x)'
  <2>1. exec[x] = "NONE" => view[p][x] # "RUNNING"
    BY <1>1 DEF SessionRow
  <2>. QED BY <1>2, <1>3, <1>5, <2>1 DEF Holds
<1>7. ~Holds(p, x) /\ (Mine(p, x) => Mine(p, x)')
  BY <1>2, <1>6 DEF Mine, Holds
<1>8. Free(x) => Free(x)'
  BY OnwardFree
<1>9. "RUNNING" \notin Past
  BY DEF Past, Outcome
<1>10. SessionRow(p, x)'
  BY <1>1, <1>2, <1>3, <1>4, <1>7, <1>8, <1>9 DEF SessionRow
<1>11. Tracked' /\ Sessions'
  BY <1>2, <1>4, <1>5, <1>6, <1>10, LoopStep
<1>12. Starts'
  <2>. SUFFICES ASSUME NEW q \in Launcher, NEW y \in Row, y \in started'[q]
                PROVE  exec'[y] # "NONE" /\ \A r \in Launcher : y \in started'[r] => q = r
    BY DEF Starts
  <2>1. CASE y # x
    BY <1>4, <1>5, <2>1 DEF TrackInv, Starts
  <2>2. CASE y = x /\ exec[x] = "NONE"
    <3>1. \A r \in Launcher : x \notin started[r]
      BY <2>2 DEF TrackInv, Starts
    <3>. QED BY <1>4, <1>5, <2>2, <3>1
  <2>3. CASE y = x /\ exec[x] # "NONE"
    <3>1. \A r \in Launcher : x \in started'[r] => x \in started[r]
      BY <1>5, <2>3
    <3>. QED BY <1>4, <2>3, <3>1 DEF TrackInv, Starts
  <2>. QED BY <2>1, <2>2, <2>3
<1>. QED BY <1>11, <1>12

\* The other steps of a launcher.
LEMMA InitRunTrack ==
  ASSUME TrackInv, Onward, NEW p \in Launcher, InitRun(p)
  PROVE  Tracked' /\ Sessions' /\ \A x \in Row : dbState'[x] \in Past => dbState[x] \in Past
<1>. DEFINE rows == {x \in Row : x[1] = runCount + 1 /\ x[2] \in Targets[sjob[p]]}
            states == InitStates(rows)
<1>1. LaunchTypeOK /\ RowsTypeOK /\ runCount \in Nat
  BY DEF TrackInv, RunInv, TypeInv, TypeOK, JobsTypeOK
<1>2. /\ phase[p] = "init" /\ UNCHANGED <<exec, givenUp, started>>
      /\ dbState' = states
      /\ todo' = [todo EXCEPT ![p] = rows]
      /\ view' = [view EXCEPT ![p] = Loaded(rows, states)]
      /\ new' = [new EXCEPT ![p] = Loaded(rows, states)]
      /\ phase' = [phase EXCEPT ![p] = IF rows = {} THEN "abort" ELSE "launch"]
  BY DEF InitRun
<1>3. \A x \in rows : x \in Row /\ ~Known(x)
  BY <1>1 DEF Known
<1>. HIDE DEF rows
<1>4. \A x \in Row : dbState'[x] = IF x \in rows THEN "READY" ELSE dbState[x]
  BY <1>2 DEF InitStates
<1>5. /\ todo'[p] = rows /\ view'[p] = new'[p]
      /\ \A x \in Row : view'[p][x] = IF x \in rows THEN "READY" ELSE "NONE"
  BY <1>1, <1>2, <1>4 DEF LaunchTypeOK, Loaded
<1>6. Alone(p)
  BY <1>1, <1>2 DEF LaunchTypeOK, Alone
<1>7. \A x \in rows : exec[x] = "NONE" /\ dbState[x] = "NONE"
                      /\ \A q \in Launcher : view[q][x] = "NONE"
  <2>. SUFFICES ASSUME NEW x \in rows
                PROVE  exec[x] = "NONE" /\ dbState[x] = "NONE"
                       /\ \A q \in Launcher : view[q][x] = "NONE"
    OBVIOUS
  <2>1. exec[x] = "NONE" /\ dbState[x] = "NONE"
    BY <1>3 DEF TrackInv, RunInv, RowsKnown
  <2>2. \A q \in Launcher : SessionRow(q, x)
    BY <1>3 DEF TrackInv, Sessions
  <2>. QED BY <2>1, <2>2 DEF SessionRow
<1>8. "READY" \notin Past /\ "NONE" \notin Past
  BY DEF Past, Outcome
<1>9. \A x \in Row : SessionRow(p, x)'
  <2>. SUFFICES ASSUME NEW x \in Row PROVE SessionRow(p, x)'
    OBVIOUS
  <2>1. CASE x \in rows
    <3>1. \A q \in Launcher : q # p => view'[q][x] = "NONE"
      BY <1>6, <1>7, <2>1 DEF Alone
    <3>2. Mine(p, x)'
      BY <1>2, <1>4, <1>7, <2>1, <3>1 DEF Mine
    <3>. QED BY <1>4, <1>5, <1>8, <2>1, <3>2 DEF SessionRow
  <2>2. CASE x \notin rows
    BY <1>5, <1>8, <2>2 DEF SessionRow
  <2>. QED BY <2>1, <2>2
<1>10. \A x \in Row : exec'[x] = "RUNNING" =>
           /\ exec[x] = "RUNNING"
           /\ (dbState[x] = "RUNNING" \/ Holds(p, x)) => dbState'[x] = "RUNNING"
  BY <1>2, <1>4, <1>7 DEF Holds
<1>11. \A x \in Row : dbState[x] = "READY" /\ view[p][x] = "NONE" =>
           dbState'[x] = "READY" /\ view'[p][x] = "NONE" /\ exec'[x] = exec[x]
  BY <1>2, <1>4, <1>5, <1>7
<1>12. Apart(p)
  BY <1>4, <1>6, <1>7, <1>9, <1>10, <1>11 DEF Apart
<1>. QED BY <1>4, <1>8, <1>12, LauncherFrame

LEMMA CheckPendingTrack ==
  ASSUME TrackInv, Onward, NEW p \in Launcher, CheckPending(p)
  PROVE  Tracked' /\ Sessions'
<1>. DEFINE rows == {x \in Row : dbState[x] = "PENDING"}
<1>1. LaunchTypeOK
  BY DEF TrackInv, RunInv, TypeInv, TypeOK
<1>2. /\ phase[p] = "idle" /\ UNCHANGED <<exec, givenUp, started, dbState>>
      /\ todo' = [todo EXCEPT ![p] = rows]
      /\ view' = [view EXCEPT ![p] = Loaded(rows, dbState)]
      /\ new' = [new EXCEPT ![p] = Loaded(rows, dbState)]
      /\ phase' = [phase EXCEPT ![p] = "launch"]
  BY DEF CheckPending
<1>3. \A x \in Row : (x \in rows) <=> (dbState[x] = "PENDING")
  OBVIOUS
<1>. HIDE DEF rows
<1>4. /\ todo'[p] = rows /\ view'[p] = new'[p]
      /\ \A x \in Row : view'[p][x] = IF x \in rows THEN "PENDING" ELSE "NONE"
  BY <1>1, <1>2, <1>3 DEF LaunchTypeOK, Loaded
<1>5. Alone(p)
  BY <1>1, <1>2 DEF LaunchTypeOK, Alone
<1>6. "PENDING" \notin Past /\ "NONE" \notin Past
  BY DEF Past, Outcome
<1>7. \A x \in Row : SessionRow(p, x)'
  BY <1>2, <1>3, <1>4, <1>6 DEF SessionRow
<1>8. \A x \in Row : ~Holds(p, x)
  BY <1>2 DEF Holds
<1>9. Apart(p)
  BY <1>2, <1>3, <1>4, <1>5, <1>7, <1>8 DEF Apart
<1>. QED BY <1>9, LauncherFrame

LEMMA StartJobTrack ==
  ASSUME TrackInv, Onward, NEW p \in Launcher, NEW j \in Job, StartJob(p, j)
  PROVE  Tracked' /\ Sessions'
<1>1. LaunchTypeOK /\ \A x \in Row : SessionRow(p, x)
  BY DEF TrackInv, RunInv, TypeInv, TypeOK, Sessions
<1>2. phase[p] = "idle" /\ phase'[p] = "init"
      /\ UNCHANGED <<exec, givenUp, started, dbState, todo, view, new>>
  BY <1>1 DEF LaunchTypeOK, StartJob
<1>3. Alone(p)
  BY <1>1, <1>2 DEF LaunchTypeOK, StartJob, Alone
<1>4. \A x \in Row : SessionRow(p, x)'
  BY <1>1, <1>2 DEF SessionRow, Free, Over
<1>5. \A x \in Row : ~Holds(p, x)
  BY <1>2 DEF Holds
<1>6. Apart(p)
  BY <1>2, <1>3, <1>4, <1>5 DEF Apart
<1>. QED BY <1>6, LauncherFrame

LEMMA EndTrack ==
  ASSUME TrackInv, Onward, NEW p \in Launcher,
         InitRunFails(p) \/ AbortRun(p) \/ LauncherCrash(p)
  PROVE  Tracked' /\ Sessions'
<1>1. LaunchTypeOK
  BY DEF TrackInv, RunInv, TypeInv, TypeOK
<1>2. EndLaunch(p) /\ UNCHANGED <<exec, started, dbState>>
  BY DEF InitRunFails, AbortRun, LauncherCrash, GiveUp
<1>3. Alone(p) /\ \A x \in Row : SessionRow(p, x)' /\ view'[p][x] = "NONE"
  BY <1>1, <1>2, EndedSession
<1>4. \A x \in Row : Holds(p, x) => x \in givenUp' \/ dbState[x] = "RUNNING"
  BY DEF Holds, InitRunFails, AbortRun, LauncherCrash, GiveUp
<1>5. Apart(p)
  BY <1>2, <1>3, <1>4 DEF Apart
<1>. QED BY <1>5, LauncherFrame

LEMMA FlushTrack ==
  ASSUME TrackInv, Onward, StateInv', NEW p \in Launcher, Flush(p)
  PROVE  /\ Tracked' /\ Sessions'
         /\ \A x \in Row : dbState'[x] \in Past => dbState[x] \in Past \/ Free(x)
<1>1. LaunchTypeOK /\ \A x \in Row : SessionRow(p, x)
  BY DEF TrackInv, RunInv, TypeInv, TypeOK, Sessions
<1>2. /\ phase[p] = "launch" /\ UNCHANGED <<exec, givenUp, started, phase, todo>>
      /\ dbState' = Committed(p)
      /\ view' = [view EXCEPT ![p] = Loaded(Session(p), Committed(p))]
      /\ new' = [new EXCEPT ![p] = Loaded(Session(p), Committed(p))]
  BY DEF Flush
<1>3. /\ view'[p] = new'[p]
      /\ \A x \in Row : view'[p][x] = IF view[p][x] # "NONE" THEN dbState'[x] ELSE "NONE"
  BY <1>1, <1>2 DEF LaunchTypeOK, Loaded, Session
<1>4. Alone(p)
  BY <1>1, <1>2 DEF LaunchTypeOK, Alone
<1>5. \A x \in Row :
          /\ view[p][x] = "NONE" => dbState'[x] = dbState[x]
          /\ dbState[x] # "NONE" => dbState'[x] # "NONE"
          /\ dbState'[x] = "READY" => dbState[x] = "READY" /\ new[p][x] = view[p][x]
          /\ dbState'[x] \in Past => dbState[x] \in Past \/ Free(x)
          /\ exec[x] = "RUNNING" /\ x \notin givenUp /\ (dbState[x] = "RUNNING" \/ Holds(p, x))
                 => dbState'[x] = "RUNNING"
  BY <1>2, Commits
<1>6. \A x \in Row : SessionRow(p, x)'
  <2>. SUFFICES ASSUME NEW x \in Row PROVE SessionRow(p, x)'
    OBVIOUS
  <2>1. view'[p][x] \in Past => Free(x)'
    <3>1. "NONE" \notin Past
      BY DEF Past, Outcome
    <3>2. view'[p][x] \in Past => dbState[x] \in Past \/ Free(x)
      BY <1>3, <1>5, <3>1
    <3>3. dbState[x] \in Past => Free(x)
      BY DEF TrackInv, Ended
    <3>. QED BY <3>2, <3>3, OnwardFree
  <2>2. view'[p][x] = "RUNNING" => exec'[x] # "NONE"
    BY <1>3 DEF StateInv, RowsEarned, StateOK
  <2>3. view'[p][x] # "NONE" => view'[p][x] = dbState'[x] /\ dbState'[x] # "NONE"
    BY <1>3
  <2>4. x \in todo[p] => view'[p][x] # "NONE"
    <3>1. x \in todo[p] => view[p][x] # "NONE" /\ dbState[x] # "NONE"
      BY <1>1 DEF SessionRow
    <3>. QED BY <1>3, <1>5, <3>1
  <2>5. view'[p][x] = "READY" => Free(x)' \/ Mine(p, x)'
    <3>. SUFFICES ASSUME view'[p][x] = "READY" PROVE Free(x)' \/ Mine(p, x)'
      OBVIOUS
    <3>1. dbState'[x] = "READY" /\ view[p][x] # "NONE"
      BY <1>3
    <3>2. dbState[x] = "READY" /\ new[p][x] = view[p][x]
      BY <1>5, <3>1
    <3>3. view[p][x] = "READY"
      BY <1>1, <3>1, <3>2 DEF SessionRow
    <3>4. ~Holds(p, x)
      BY <3>2 DEF Holds
    <3>5. Free(x) \/ Mine(p, x)
      BY <1>1, <1>2, <3>3 DEF SessionRow
    <3>6. Mine(p, x) => Mine(p, x)'
      BY <1>2, <1>4, <3>1, <3>4 DEF Mine, Alone
    <3>. QED BY <3>5, <3>6, OnwardFree
  <2>. QED BY <1>2, <1>3, <2>1, <2>2, <2>3, <2>4, <2>5 DEF SessionRow
<1>7. Apart(p)
  BY <1>2, <1>3, <1>4, <1>5, <1>6 DEF Apart
<1>. QED BY <1>5, <1>7, LauncherFrame

LEMMA SaveTrack ==
  ASSUME TrackInv, Onward, NEW p \in Launcher, SaveRunDatabases(p)
  PROVE  /\ Tracked' /\ Sessions'
         /\ \A x \in Row : dbState'[x] \in Past => dbState[x] \in Past \/ Free(x)
<1>1. LaunchTypeOK /\ \A x \in Row : SessionRow(p, x)
  BY DEF TrackInv, RunInv, TypeInv, TypeOK, Sessions
<1>2. /\ phase[p] = "launch" /\ UNCHANGED <<exec, givenUp, started>>
      /\ dbState' = Committed(p)
  BY DEF SaveRunDatabases
<1>3. \A x \in Row :
          /\ view[p][x] = "NONE" => dbState'[x] = dbState[x]
          /\ dbState[x] # "NONE" => dbState'[x] # "NONE"
          /\ dbState'[x] = "READY" => dbState[x] = "READY"
          /\ dbState'[x] \in Past => dbState[x] \in Past \/ Free(x)
          /\ exec[x] = "RUNNING" /\ x \notin givenUp /\ (dbState[x] = "RUNNING" \/ Holds(p, x))
                 => dbState'[x] = "RUNNING"
  BY <1>2, Commits
<1>4. CASE EndLaunch(p)
  <2>1. Alone(p) /\ \A x \in Row : SessionRow(p, x)' /\ view'[p][x] = "NONE"
    BY <1>1, <1>2, <1>4, EndedSession
  <2>2. Apart(p)
    BY <1>2, <1>3, <2>1 DEF Apart
  <2>. QED BY <1>3, <2>2, LauncherFrame
<1>5. CASE phase' = [phase EXCEPT ![p] = "abort"] /\ UNCHANGED <<todo, view, new>>
  <2>1. Alone(p) /\ phase'[p] = "abort"
    BY <1>1, <1>2, <1>5 DEF LaunchTypeOK, Alone
  <2>2. \A x \in Row : SessionRow(p, x)'
    BY <1>1, <1>2, <1>3, <1>5, <2>1 DEF SessionRow, Free, Over
  <2>3. Apart(p)
    BY <1>2, <1>3, <1>5, <2>1, <2>2 DEF Apart
  <2>. QED BY <1>3, <2>3, LauncherFrame
<1>. QED BY <1>4, <1>5 DEF SaveRunDatabases

LEMMA LauncherTrack ==
  ASSUME TrackInv, StateInv', NEW p \in Launcher, LauncherNext(p)
  PROVE  Tracked' /\ Starts' /\ Ended' /\ Sessions'
<1>0. TypeInv /\ Onward
  BY OnwardLauncher DEF TrackInv, RunInv
<1>1. UNCHANGED <<queue, step, msg, stopTodo, watch>>
  BY DEF LauncherNext, StartJob, InitRun, InitRunFails, CheckPending, Postpone, EnableFails,
         Launch, LaunchFails, Flush, SaveRunDatabases, AbortRun, LauncherCrash
<1>2. ASSUME UNCHANGED started PROVE Starts'
  BY <1>0, <1>2 DEF TrackInv, Starts, Onward
<1>3. ASSUME \A x \in Row : dbState'[x] \in Past => dbState[x] \in Past \/ Free(x)
      PROVE  Ended'
  <2>1. \A x \in Row : dbState'[x] \in Past => dbState[x] \in Past \/ Free(x)'
    BY <1>0, <1>3, OnwardFree
  <2>. QED BY <1>0, <1>1, <2>1, EndedFrame DEF TrackInv
<1>4. CASE \E j \in Job : StartJob(p, j)
  <2>1. UNCHANGED <<started, dbState>>
    BY <1>4 DEF StartJob
  <2>. QED BY <1>0, <1>2, <1>3, <1>4, <2>1, StartJobTrack
<1>5. CASE InitRun(p)
  <2>1. UNCHANGED started
    BY <1>5 DEF InitRun
  <2>. QED BY <1>0, <1>2, <1>3, <1>5, <2>1, InitRunTrack
<1>6. CASE InitRunFails(p) \/ AbortRun(p) \/ LauncherCrash(p)
  <2>1. UNCHANGED <<started, dbState>>
    BY <1>6 DEF InitRunFails, AbortRun, LauncherCrash, GiveUp
  <2>. QED BY <1>0, <1>2, <1>3, <1>6, <2>1, EndTrack
<1>7. CASE CheckPending(p)
  <2>1. UNCHANGED <<started, dbState>>
    BY <1>7 DEF CheckPending
  <2>. QED BY <1>0, <1>2, <1>3, <1>7, <2>1, CheckPendingTrack
<1>8. ASSUME NEW x \in Row, Postpone(p, x) \/ EnableFails(p, x) \/ LaunchFails(p, x)
      PROVE  Tracked' /\ Starts' /\ Ended' /\ Sessions'
  <2>1. UNCHANGED <<started, dbState>>
    BY <1>8 DEF Postpone, EnableFails, LaunchFails, GiveUp
  <2>. QED BY <1>0, <1>2, <1>3, <1>8, <2>1, PostponeTrack, FailTrack
<1>9. ASSUME NEW x \in Row, Launch(p, x)
      PROVE  Tracked' /\ Starts' /\ Ended' /\ Sessions'
  <2>1. UNCHANGED dbState
    BY <1>9 DEF Launch
  <2>. QED BY <1>0, <1>3, <1>9, <2>1, LaunchTrack
<1>10. CASE Flush(p)
  <2>1. UNCHANGED started
    BY <1>10 DEF Flush
  <2>. QED BY <1>0, <1>2, <1>3, <1>10, <2>1, FlushTrack
<1>11. CASE SaveRunDatabases(p)
  <2>1. UNCHANGED started
    BY <1>11 DEF SaveRunDatabases
  <2>. QED BY <1>0, <1>2, <1>3, <1>11, <2>1, SaveTrack
<1>. QED BY <1>4, <1>5, <1>6, <1>7, <1>8, <1>9, <1>10, <1>11 DEF LauncherNext

LEMMA WorkerTrack ==
  ASSUME TrackInv, NEW w \in Worker, WorkerNext(w)
  PROVE  Tracked' /\ Starts' /\ Ended' /\ Sessions'
<1>. USE DEF TrackInv, RunInv, TypeInv, TypeOK
<1>1. /\ UNCHANGED <<exec, launchVars, stopTodo, watch, started, givenUp>>
      /\ Onward
  BY DEF WorkerNext, CompleteRunDatabase, CountRunDatabases, CompleteRun, WorkerFails,
         Onward, Over
<1>2. \A m \in queue : m.row \in Row /\ m.state \in Outcome /\ Free(m.row)
  BY DEF RowsTypeOK, Message, Ended
<1>3. \A v \in Worker : step[v] # "idle" => msg[v].row \in Row /\ Free(msg[v].row)
  BY DEF Busy, Message, Ended
<1>4. Outcome \subseteq Past /\ "FAILED" \in Past /\ "READY" \notin Past /\ "NONE" \notin Past
  BY DEF Past, Outcome
<1>5. \/ UNCHANGED dbState
      \/ \E m \in queue : /\ dbState' \in {[dbState EXCEPT ![m.row] = m.state],
                                           [dbState EXCEPT ![m.row] = "FAILED"]}
  BY DEF WorkerNext, CompleteRunDatabase, CountRunDatabases, CompleteRun, WorkerFails
<1>6. \A x \in Row : dbState'[x] = dbState[x] \/ (dbState'[x] \in Past /\ Free(x))
  BY <1>2, <1>4, <1>5 DEF RowsTypeOK
<1>7. \A x \in Row : Free(x)' <=> Free(x)
  BY <1>1 DEF Free, Over
<1>8. Tracked' /\ Starts' /\ Sessions'
  BY <1>1, <1>4, <1>6, <1>7, OutsideFrame
<1>9. \A x \in Row : dbState'[x] \in Past => Free(x)'
  BY <1>6, <1>7 DEF Ended
<1>10. \A m \in queue' : m \in queue \/ (step[w] # "idle" /\ m = msg[w])
  BY DEF WorkerNext, CompleteRunDatabase, CountRunDatabases, CompleteRun, WorkerFails
<1>11. \A v \in Worker : step'[v] # "idle" =>
           msg'[v] \in queue \/ (step[v] # "idle" /\ msg'[v] = msg[v])
  BY DEF WorkerNext, CompleteRunDatabase, CountRunDatabases, CompleteRun, WorkerFails, Handled,
         WorkTypeOK
<1>12. (\A m \in queue' : Free(m.row)') /\ \A v \in Worker : step'[v] # "idle" => Free(msg[v].row)'
  BY <1>2, <1>3, <1>7, <1>10, <1>11
<1>13. (\A j \in Job : stopTodo'[j] \subseteq givenUp') /\ \A x \in watch' : exec'[x] # "NONE"
  BY <1>1 DEF Ended
<1>. QED BY <1>8, <1>9, <1>12, <1>13 DEF Ended

LEMMA RequestTrack ==
  ASSUME TrackInv, NEW j \in Job, RequestNext(j)
  PROVE  Tracked' /\ Starts' /\ Ended' /\ Sessions'
<1>. USE DEF TrackInv, RunInv, TypeInv, TypeOK
<1>0. "STOPPING" \in Past /\ "READY" \notin Past /\ "NONE" \notin Past
  BY DEF Past, Outcome
<1>1. CASE StopRun(j)
  <2>. DEFINE rows == RowsOf(stopRun[j])
  <2>1. /\ dbState' = [x \in Row |-> IF x \in rows THEN "STOPPING" ELSE dbState[x]]
        /\ givenUp' = givenUp \cup rows /\ rows \subseteq Row
        /\ stopTodo' = [stopTodo EXCEPT ![j] = rows]
        /\ UNCHANGED <<exec, launchVars, started, queue, step, msg, watch>>
    BY <1>1 DEF StopRun, GiveUp, RowsOf
  <2>. HIDE DEF rows
  <2>2. Onward
    BY <2>1 DEF Onward, Over
  <2>3. \A x \in Row : IF x \in rows THEN Free(x)' ELSE dbState'[x] = dbState[x]
    BY <2>1 DEF Free
  <2>4. \A x \in Row : dbState'[x] = IF x \in rows THEN "STOPPING" ELSE dbState[x]
    BY <2>1
  <2>5. Tracked' /\ Starts' /\ Sessions'
    BY <1>0, <2>1, <2>2, <2>3, <2>4, OutsideFrame
  <2>6. \A x \in Row : dbState'[x] \in Past => Free(x)'
    BY <2>2, <2>3, OnwardFree DEF Ended
  <2>7. (\A m \in queue' : Free(m.row)') /\ \A v \in Worker : step'[v] # "idle" => Free(msg[v].row)'
    <3>1. \A m \in queue : m.row \in Row /\ Free(m.row)
      BY DEF RowsTypeOK, Message, Ended
    <3>2. \A v \in Worker : step[v] # "idle" => msg[v].row \in Row /\ Free(msg[v].row)
      BY DEF Busy, Message, Ended
    <3>. QED BY <2>1, <2>2, <3>1, <3>2, OnwardFree
  <2>8. (\A i \in Job : stopTodo'[i] \subseteq givenUp') /\ \A x \in watch' : exec'[x] # "NONE"
    BY <2>1 DEF Ended, RequestTypeOK
  <2>. QED BY <2>5, <2>6, <2>7, <2>8 DEF Ended
<1>2. CASE \E x \in Row : StopRunDatabase(j, x)
  <2>0. PICK x \in Row : StopRunDatabase(j, x)
    BY <1>2
  <2>1. /\ x \in stopTodo[j]
        /\ exec' = [exec EXCEPT ![x] = IF @ = "RUNNING" THEN "ABORTED" ELSE @]
        /\ queue' = queue \cup {[row |-> x, state |-> "STOPPED"]}
        /\ \A i \in Job : stopTodo'[i] \subseteq stopTodo[i]
        /\ UNCHANGED <<dbState, givenUp, launchVars, started, step, msg, watch>>
    BY <2>0 DEF StopRunDatabase, StopIdle, RequestTypeOK
  <2>2. x \in givenUp
    BY <2>1 DEF Ended
  <2>3. Onward
    BY <2>1 DEF Onward, Over, RowsTypeOK
  <2>4. \A y \in Row : Free(y)' \/ (dbState'[y] = dbState[y] /\ exec'[y] = exec[y])
    BY <2>1, <2>2 DEF Free, RowsTypeOK
  <2>5. Tracked' /\ Starts' /\ Sessions'
    BY <2>1, <2>3, <2>4, OutsideFrame
  <2>6. \A y \in Row : dbState'[y] \in Past => Free(y)'
    BY <2>1, <2>3, OnwardFree DEF Ended
  <2>7. (\A m \in queue' : Free(m.row)') /\ \A v \in Worker : step'[v] # "idle" => Free(msg[v].row)'
    <3>1. \A m \in queue' : m.row \in Row /\ Free(m.row)
      BY <2>1, <2>2 DEF RowsTypeOK, Message, Ended, Free
    <3>2. \A v \in Worker : step[v] # "idle" => msg[v].row \in Row /\ Free(msg[v].row)
      BY DEF Busy, Message, Ended
    <3>. QED BY <2>1, <2>3, <3>1, <3>2, OnwardFree
  <2>8. (\A i \in Job : stopTodo'[i] \subseteq givenUp') /\ \A y \in watch' : exec'[y] # "NONE"
    BY <2>1, <2>3 DEF Ended, Onward, RequestTypeOK
  <2>. QED BY <2>5, <2>6, <2>7, <2>8 DEF Ended
<1>3. CASE StopRead(j) \/ StopEnds(j) \/ DeleteCheck(j) \/ DeleteJob(j)
  <2>1. /\ UNCHANGED <<dbState, exec, queue, launchVars, step, msg, watch, started, givenUp>>
        /\ \A i \in Job : stopTodo'[i] \subseteq stopTodo[i]
    BY <1>3 DEF StopRead, StopEnds, StopIdle, DeleteCheck, DeleteJob, RequestTypeOK
  <2>2. Onward /\ \A x : Free(x)' <=> Free(x)
    BY <2>1 DEF Onward, Over, Free
  <2>3. Tracked' /\ Starts' /\ Sessions'
    BY <2>1, <2>2, OutsideFrame
  <2>4. Ended'
    BY <2>1, <2>2 DEF Ended
  <2>. QED BY <2>3, <2>4
<1>. QED BY <1>1, <1>2, <1>3 DEF RequestNext

LEMMA CheckRunningTrack ==
  ASSUME TrackInv, CheckRunningNext
  PROVE  Tracked' /\ Starts' /\ Ended' /\ Sessions'
<1>. USE DEF TrackInv, RunInv, TypeInv, TypeOK
<1>1. UNCHANGED <<dbState, exec, launchVars, step, msg, stopTodo, started, givenUp>>
  BY DEF CheckRunningNext, CheckRunningRead, CheckRunningOne
<1>2. Onward /\ \A x : Free(x)' <=> Free(x)
  BY <1>1 DEF Onward, Over, Free
<1>3. Tracked' /\ Starts' /\ Sessions'
  BY <1>1, <1>2, OutsideFrame
<1>4. \A x \in watch' : exec[x] # "NONE"
  BY DEF CheckRunningNext, CheckRunningRead, CheckRunningOne, Ended, StateInv, RowsEarned, StateOK
<1>5. \A m \in queue' : m \in queue \/ Over(m.row)
  BY DEF CheckRunningNext, CheckRunningRead, CheckRunningOne, Ended, Over
<1>6. Ended'
  BY <1>1, <1>2, <1>4, <1>5 DEF Ended, Free
<1>. QED BY <1>3, <1>6

LEMMA ExecutionTrack ==
  ASSUME TrackInv, ExecutionNext
  PROVE  Tracked' /\ Starts' /\ Ended' /\ Sessions'
<1>. USE DEF TrackInv, RunInv, TypeInv, TypeOK
<1>0. PICK x \in Row, end \in {"SUCCEEDED", "REPORTED_FAILED", "FAILED"} : ExecEnds(x, end)
  BY DEF ExecutionNext
<1>1. /\ exec' = [exec EXCEPT ![x] = end]
      /\ \A m \in queue' : m \in queue \/ m.row = x
      /\ UNCHANGED <<dbState, launchVars, step, msg, stopTodo, watch, started, givenUp>>
  BY <1>0 DEF ExecEnds
<1>2. Onward /\ Over(x)'
  BY <1>1 DEF Onward, Over, RowsTypeOK
<1>3. \A y \in Row : Free(y)' \/ (dbState'[y] = dbState[y] /\ exec'[y] = exec[y])
  BY <1>1, <1>2 DEF Free, RowsTypeOK
<1>4. Tracked' /\ Starts' /\ Sessions'
  BY <1>1, <1>2, <1>3, OutsideFrame
<1>5. \A y \in Row : dbState'[y] \in Past => Free(y)'
  BY <1>1, <1>2, OnwardFree DEF Ended
<1>6. \A m \in queue' : Free(m.row)'
  <2>1. \A m \in queue : m.row \in Row /\ Free(m.row)
    BY DEF RowsTypeOK, Message, Ended
  <2>. QED BY <1>1, <1>2, <2>1, OnwardFree DEF Free
<1>7. \A v \in Worker : step'[v] # "idle" => Free(msg[v].row)'
  <2>1. \A v \in Worker : step[v] # "idle" => msg[v].row \in Row /\ Free(msg[v].row)
    BY DEF Busy, Message, Ended
  <2>. QED BY <1>1, <1>2, <2>1, OnwardFree
<1>8. (\A i \in Job : stopTodo'[i] \subseteq givenUp') /\ \A y \in watch' : exec'[y] # "NONE"
  BY <1>1, <1>2 DEF Ended, Onward, RequestTypeOK
<1>. QED BY <1>1, <1>4, <1>5, <1>6, <1>7, <1>8 DEF Ended

LEMMA TrackNext == TrackInv /\ [Next]_vars => TrackInv'
<1>. SUFFICES ASSUME TrackInv, [Next]_vars PROVE TrackInv'
  OBVIOUS
<1>1. RunInv' /\ StateInv'
  BY RunNext, StateNext DEF TrackInv
<1>2. CASE UNCHANGED vars
  <2>1. UNCHANGED <<dbState, exec, queue, launchVars, step, msg, stopTodo, watch, started, givenUp>>
    BY <1>2 DEF vars
  <2>2. Tracked' /\ Starts' /\ Ended' /\ Sessions'
    BY <2>1 DEF TrackInv, Tracked, Starts, Ended, Sessions, SessionRow, Mine, Holds, Free, Over
  <2>. QED BY <1>1, <2>2 DEF TrackInv
<1>3. CASE Next
  <2>1. Tracked' /\ Starts' /\ Ended' /\ Sessions'
    BY <1>1, <1>3, LauncherTrack, WorkerTrack, RequestTrack, CheckRunningTrack, ExecutionTrack
       DEF Next
  <2>. QED BY <1>1, <2>1 DEF TrackInv
<1>. QED BY <1>2, <1>3

\* An execution that runs is in the database, or with the launcher that started it and
\* is about to save it, or is one the code gave up: at its marks a start that failed
\* or whose answer was lost, a stop, a kill (__start_run_databases, save_run_databases,
\* stop_run).  Overlapping launchers, stale saves, late messages lose no other.
THEOREM ExecutionsAreTracked == Spec => []EveryExecutionTracked
<1>1. TrackInv => EveryExecutionTracked
  BY DEF TrackInv, Tracked, Holds, EveryExecutionTracked
<1>. QED BY TrackInit, TrackNext, <1>1, PTL DEF Spec

\* The count of a launcher covers what it has started and others can see running.
CountCovers ==
    \A p \in Launcher, s \in Subnet :
        phase[p] = "launch" => Cardinality(Scanning(p, s)) <= count[p][s]

LimitInv == TrackInv /\ CountCovers /\ ScanLimit

LEMMA ScanningFinite ==
  ASSUME HistoryTypeOK, NEW p \in Launcher, NEW s \in Subnet
  PROVE  /\ IsFiniteSet(Scanning(p, s)) /\ Cardinality(Scanning(p, s)) \in Nat
<1>1. Scanning(p, s) \subseteq Row
  BY DEF HistoryTypeOK, Scanning
<1>. QED BY <1>1, RowFinite, FS_Subset, FS_CardinalityType

LEMMA LimitInit == Init => LimitInv
<1>. SUFFICES ASSUME Init PROVE LimitInv
  OBVIOUS
<1>1. \A p \in Launcher, s \in Subnet : Scanning(p, s) = {}
  BY DEF Init, Scanning
<1>2. CountCovers
  BY DEF Init, CountCovers
<1>3. ScanLimit
  <2>1. Cardinality({}) = 0
    BY FS_EmptySet
  <2>2. ConcurrentRunJobNumber \in Nat
    BY JobAssumption DEF JobAssumption
  <2>. QED BY <1>1, <2>1, <2>2 DEF ScanLimit
<1>. QED BY <1>2, <1>3, TrackInit DEF LimitInv

\* A launcher that starts nothing has no more scans than before: an execution that it
\* started had begun, and none begins twice.
LEMMA ScanShrinks ==
  ASSUME TrackInv, Onward, NEW q \in Launcher, started'[q] = started[q], NEW s \in Subnet
  PROVE  Scanning(q, s)' \subseteq Scanning(q, s)
<1>. SUFFICES ASSUME NEW x \in Scanning(q, s)' PROVE x \in Scanning(q, s)
  OBVIOUS
<1>1. /\ x \in started[q] /\ x \notin givenUp' /\ exec'[x] = "RUNNING"
      /\ x[2] \in ThirdParty /\ SubnetOf[x[2]] = s
  BY DEF Scanning
<1>2. x \in Row
  BY <1>1 DEF TrackInv, RunInv, TypeInv, TypeOK, HistoryTypeOK
<1>3. exec[x] # "NONE"
  BY <1>1, <1>2 DEF TrackInv, Starts
<1>4. exec[x] = "RUNNING" /\ x \notin givenUp
  BY <1>1, <1>2, <1>3 DEF Onward, Over
<1>. QED BY <1>1, <1>4 DEF Scanning

\* Such a step keeps the limit if it lowers no count.
LEMMA LimitFrame ==
  ASSUME LimitInv, Onward, UNCHANGED started,
         \A p \in Launcher, s \in Subnet :
             phase'[p] = "launch" =>
                 /\ phase[p] = "launch" /\ count'[p][s] \in Int /\ count[p][s] \in Int
                 /\ count[p][s] <= count'[p][s]
  PROVE  CountCovers' /\ ScanLimit'
<1>. USE DEF LimitInv
<1>0. HistoryTypeOK
  BY DEF TrackInv, RunInv, TypeInv, TypeOK
<1>1. ASSUME NEW p \in Launcher, NEW s \in Subnet
      PROVE  /\ Cardinality(Scanning(p, s)') <= Cardinality(Scanning(p, s))
             /\ Cardinality(Scanning(p, s)') \in Nat /\ Cardinality(Scanning(p, s)) \in Nat
  <2>1. Scanning(p, s)' \subseteq Scanning(p, s)
    BY ScanShrinks
  <2>. QED BY <1>0, <2>1, ScanningFinite, FS_Subset, FS_CardinalityType
<1>2. ScanLimit'
  BY <1>1, JobAssumption DEF ScanLimit, JobAssumption
<1>3. CountCovers'
  BY <1>1 DEF CountCovers
<1>. QED BY <1>2, <1>3

\* A count that is read when an invocation begins covers what earlier ones of the
\* launcher started: they have saved it.
LEMMA CountRead ==
  ASSUME LimitInv, Onward, UNCHANGED <<exec, started>>, NEW p \in Launcher,
         phase[p] # "launch", NEW states, count'[p] = CountBySubnet(states),
         \A q \in Launcher : q # p => phase'[q] = phase[q] /\ count'[q] = count[q],
         \A x \in Row : exec[x] = "RUNNING" => states[x] = dbState[x]
  PROVE  CountCovers' /\ ScanLimit'
<1>. USE DEF LimitInv
<1>0. HistoryTypeOK
  BY DEF TrackInv, RunInv, TypeInv, TypeOK
<1>1. ASSUME NEW q \in Launcher, NEW s \in Subnet
      PROVE  /\ Cardinality(Scanning(q, s)') <= Cardinality(Scanning(q, s))
             /\ Cardinality(Scanning(q, s)') \in Nat /\ Cardinality(Scanning(q, s)) \in Nat
  <2>1. Scanning(q, s)' \subseteq Scanning(q, s)
    BY ScanShrinks
  <2>. QED BY <1>0, <2>1, ScanningFinite, FS_Subset, FS_CardinalityType
<1>2. ScanLimit'
  BY <1>1, JobAssumption DEF ScanLimit, JobAssumption
<1>3. ASSUME NEW s \in Subnet PROVE Cardinality(Scanning(p, s)) <= count'[p][s]
  <2>. DEFINE counted == {x \in Row : states[x] = "RUNNING" /\ x[2] \in ThirdParty /\ SubnetOf[x[2]] = s}
  <2>1. Scanning(p, s) \subseteq counted
    <3>. SUFFICES ASSUME NEW x \in Scanning(p, s) PROVE x \in counted
      OBVIOUS
    <3>1. /\ x \in started[p] /\ x \notin givenUp /\ exec[x] = "RUNNING"
          /\ x[2] \in ThirdParty /\ SubnetOf[x[2]] = s
      BY DEF Scanning
    <3>2. x \in Row
      BY <3>1 DEF TrackInv, RunInv, TypeInv, TypeOK, HistoryTypeOK
    <3>3. \A q \in Launcher : ~Holds(q, x)
      BY <3>1, <3>2 DEF TrackInv, Starts, Holds
    <3>4. dbState[x] = "RUNNING"
      BY <3>1, <3>2, <3>3 DEF TrackInv, Tracked
    <3>. QED BY <3>1, <3>2, <3>4
  <2>2. IsFiniteSet(counted)
    <3>1. counted \subseteq Row
      OBVIOUS
    <3>. QED BY <3>1, RowFinite, FS_Subset
  <2>3. Cardinality(Scanning(p, s)) <= Cardinality(counted)
    BY <2>1, <2>2, FS_Subset
  <2>4. count'[p][s] = Cardinality(counted)
    BY DEF CountBySubnet
  <2>. QED BY <2>3, <2>4
<1>4. count' [p] \in [Subnet -> Nat]
  <2>. DEFINE counted(s) == {x \in Row : states[x] = "RUNNING" /\ x[2] \in ThirdParty /\ SubnetOf[x[2]] = s}
  <2>1. ASSUME NEW s \in Subnet PROVE Cardinality(counted(s)) \in Nat
    <3>1. counted(s) \subseteq Row
      OBVIOUS
    <3>. QED BY <3>1, RowFinite, FS_Subset, FS_CardinalityType
  <2>. QED BY <2>1 DEF CountBySubnet
<1>5. ASSUME NEW q \in Launcher, NEW s \in Subnet, phase'[q] = "launch"
      PROVE  Cardinality(Scanning(q, s)') <= count'[q][s]
  <2>0. count'[q][s] \in Nat
    BY <1>4 DEF TrackInv, RunInv, TypeInv, TypeOK, LaunchTypeOK
  <2>1. Cardinality(Scanning(q, s)) <= count'[q][s]
    BY <1>3, <1>5 DEF CountCovers
  <2>. QED BY <1>1, <2>0, <2>1
<1>6. CountCovers'
  BY <1>5 DEF CountCovers
<1>. QED BY <1>2, <1>6

LEMMA LaunchLimit ==
  ASSUME LimitInv, Onward, NEW p \in Launcher, NEW x \in Row, Launch(p, x)
  PROVE  CountCovers' /\ ScanLimit'
<1>. USE DEF LimitInv
<1>0. LaunchTypeOK /\ HistoryTypeOK /\ RowsTypeOK /\ JobAssumption
  BY JobAssumption DEF TrackInv, RunInv, TypeInv, TypeOK
<1>1. /\ phase[p] = "launch" /\ UNCHANGED <<phase, givenUp>>
      /\ ~AtLimit(p, x) /\ count' = CountOne(p, x)
      /\ \A y \in Row : exec'[y] = IF y = x THEN "RUNNING" ELSE exec[y]
      /\ started' = [started EXCEPT ![p] = @ \cup {y \in {x} : exec[y] = "NONE"}]
  BY <1>0 DEF Launch, RowsTypeOK
<1>2. x[2] \in Database /\ SubnetOf[x[2]] \in Subnet
  BY <1>0 DEF JobAssumption, Row
<1>3. \A q \in Launcher, s \in Subnet : q # p => /\ started'[q] = started[q]
                                                 /\ count'[q][s] = count[q][s]
  BY <1>0, <1>1 DEF HistoryTypeOK, LaunchTypeOK, CountOne
<1>4. \A s \in Subnet : Scanning(p, s)' \subseteq Scanning(p, s) \cup {x}
  <2>. SUFFICES ASSUME NEW s \in Subnet, NEW y \in Scanning(p, s)', y # x
                PROVE  y \in Scanning(p, s)
    OBVIOUS
  <2>1. started'[p] \subseteq started[p] \cup {x} /\ started[p] \subseteq Row
    BY <1>0, <1>1 DEF HistoryTypeOK
  <2>. QED BY <1>1, <2>1 DEF Scanning
<1>5. ASSUME NEW q \in Launcher, NEW s \in Subnet
      PROVE  /\ phase'[q] = "launch" => Cardinality(Scanning(q, s)') <= count'[q][s]
             /\ Cardinality(Scanning(q, s)') <= ConcurrentRunJobNumber
  <2>1. /\ phase[q] = "launch" => Cardinality(Scanning(q, s)) <= count[q][s]
        /\ Cardinality(Scanning(q, s)) <= ConcurrentRunJobNumber
    BY DEF CountCovers, ScanLimit
  <2>2. /\ IsFiniteSet(Scanning(q, s)) /\ Cardinality(Scanning(q, s)) \in Nat
        /\ count[q][s] \in Nat /\ ConcurrentRunJobNumber \in Nat
    BY <1>0, ScanningFinite DEF LaunchTypeOK, JobAssumption
  <2>3. CASE q = p /\ x[2] \in AdminVpc /\ SubnetOf[x[2]] = s
    <3>1. count'[p][s] = count[p][s] + 1
      BY <1>0, <1>1, <1>2, <2>3 DEF CountOne, LaunchTypeOK
    <3>2. count[p][s] < ConcurrentRunJobNumber
      BY <1>1, <2>2, <2>3 DEF AtLimit
    <3>4. /\ IsFiniteSet(Scanning(p, s) \cup {x})
          /\ Cardinality(Scanning(p, s) \cup {x}) <= Cardinality(Scanning(p, s)) + 1
          /\ Cardinality(Scanning(p, s) \cup {x}) \in Nat
      <4>. DEFINE S == Scanning(p, s)
      <4>1. IsFiniteSet(S) /\ Cardinality(S) \in Nat
        BY <2>2, <2>3
      <4>. HIDE DEF S
      <4>2. /\ IsFiniteSet(S \cup {x})
            /\ Cardinality(S \cup {x}) = IF x \in S THEN Cardinality(S) ELSE Cardinality(S) + 1
        BY <4>1, FS_AddElement
      <4>3. Cardinality(S \cup {x}) <= Cardinality(S) + 1 /\ Cardinality(S \cup {x}) \in Nat
        BY <4>1, <4>2
      <4>. QED BY <4>2, <4>3 DEF S
    <3>5. /\ Cardinality(Scanning(p, s)') <= Cardinality(Scanning(p, s) \cup {x})
          /\ Cardinality(Scanning(p, s)') \in Nat
      BY <1>4, <3>4, FS_Subset, FS_CardinalityType
    <3>. QED BY <1>1, <2>1, <2>2, <2>3, <3>1, <3>2, <3>4, <3>5
  <2>4. CASE ~(q = p /\ x[2] \in AdminVpc /\ SubnetOf[x[2]] = s)
    <3>1. count'[q][s] = count[q][s]
      BY <1>0, <1>1, <1>2, <1>3, <2>4 DEF CountOne, LaunchTypeOK
    <3>2. Scanning(q, s)' \subseteq Scanning(q, s)
      <4>1. CASE q # p
        BY <1>3, <4>1, ScanShrinks
      <4>2. CASE q = p /\ ~(x[2] \in AdminVpc /\ SubnetOf[x[2]] = s)
        <5>1. x \notin Scanning(p, s)'
          BY <1>0, <4>2 DEF Scanning, JobAssumption
        <5>. QED BY <1>4, <4>2, <5>1
      <4>. QED BY <2>4, <4>1, <4>2
    <3>3. /\ Cardinality(Scanning(q, s)') <= Cardinality(Scanning(q, s))
          /\ Cardinality(Scanning(q, s)') \in Nat
      BY <2>2, <3>2, FS_Subset, FS_CardinalityType
    <3>. QED BY <1>1, <2>1, <2>2, <3>1, <3>3
  <2>. QED BY <2>3, <2>4
<1>. QED BY <1>5, <1>0 DEF CountCovers, ScanLimit

LEMMA LimitLauncher ==
  ASSUME LimitInv, NEW p \in Launcher, LauncherNext(p)
  PROVE  CountCovers' /\ ScanLimit'
<1>. USE DEF LimitInv
<1>0. LaunchTypeOK /\ RowsTypeOK /\ JobAssumption /\ Onward
  BY JobAssumption, OnwardLauncher DEF TrackInv, RunInv, TypeInv, TypeOK
<1>1. ASSUME UNCHANGED started,
             \A q \in Launcher : \/ phase'[q] # "launch"
                                 \/ phase'[q] = phase[q] /\ count'[q] = count[q]
      PROVE  CountCovers' /\ ScanLimit'
  BY <1>0, <1>1, LimitFrame DEF LaunchTypeOK
<1>2. CASE \E j \in Job : StartJob(p, j)
  BY <1>0, <1>1, <1>2 DEF StartJob, LaunchTypeOK
<1>3. CASE InitRun(p)
  <2>. DEFINE rows == {x \in Row : x[1] = runCount + 1 /\ x[2] \in Targets[sjob[p]]}
              states == InitStates(rows)
  <2>1. \A x \in rows : exec[x] = "NONE"
    BY DEF TrackInv, RunInv, RowsKnown, Known, TypeInv, TypeOK, JobsTypeOK
  <2>2. /\ \A x \in Row : states[x] = IF x \in rows THEN "READY" ELSE dbState[x]
        /\ count'[p] = CountBySubnet(states)
        /\ UNCHANGED <<exec, started>> /\ phase[p] = "init"
        /\ \A q \in Launcher : q # p => phase'[q] = phase[q] /\ count'[q] = count[q]
    BY <1>3, <1>0 DEF InitRun, InitStates, LaunchTypeOK
  <2>3. \A x \in Row : exec[x] = "RUNNING" => states[x] = dbState[x]
    BY <2>1, <2>2
  <2>. HIDE DEF rows, states
  <2>. QED BY <1>0, <2>2, <2>3, CountRead
<1>4. CASE InitRunFails(p) \/ AbortRun(p) \/ LauncherCrash(p)
  <2>1. EndLaunch(p) /\ UNCHANGED started
    BY <1>4 DEF InitRunFails, AbortRun, LauncherCrash, GiveUp
  <2>. QED BY <1>0, <1>1, <2>1 DEF EndLaunch, LaunchTypeOK
<1>5. CASE CheckPending(p)
  <2>1. /\ count'[p] = CountBySubnet(dbState) /\ UNCHANGED <<exec, started>> /\ phase[p] = "idle"
        /\ \A q \in Launcher : q # p => phase'[q] = phase[q] /\ count'[q] = count[q]
    BY <1>5, <1>0 DEF CheckPending, LaunchTypeOK
  <2>. QED BY <1>0, <2>1, CountRead
<1>6. CASE \E x \in Row : Postpone(p, x) \/ EnableFails(p, x)
  BY <1>1, <1>6 DEF Postpone, EnableFails, GiveUp
<1>7. CASE \E x \in Row : Launch(p, x)
  BY <1>0, <1>7, LaunchLimit
<1>8. CASE \E x \in Row : LaunchFails(p, x)
  <2>0. PICK x \in Row : LaunchFails(p, x)
    BY <1>8
  <2>1. UNCHANGED <<started, phase>> /\ (count' = CountOne(p, x) \/ UNCHANGED count)
    BY <2>0 DEF LaunchFails, GiveUp
  <2>2. \A q \in Launcher, s \in Subnet :
            count[q][s] <= count'[q][s] /\ count[q][s] \in Int /\ count'[q][s] \in Int
    <3>1. CASE UNCHANGED count
      BY <1>0, <3>1 DEF LaunchTypeOK
    <3>2. CASE count' = CountOne(p, x)
      BY <1>0, <3>2 DEF CountOne, LaunchTypeOK
    <3>. QED BY <2>1, <3>1, <3>2
  <2>. QED BY <2>1, <2>2, <1>0, LimitFrame
<1>9. CASE Flush(p)
  BY <1>1, <1>9 DEF Flush
<1>10. CASE SaveRunDatabases(p)
  <2>1. UNCHANGED started
    BY <1>10 DEF SaveRunDatabases
  <2>2. CASE EndLaunch(p)
    BY <1>0, <1>1, <2>1, <2>2 DEF EndLaunch, LaunchTypeOK
  <2>3. CASE phase' = [phase EXCEPT ![p] = "abort"] /\ UNCHANGED count
    BY <1>0, <1>1, <2>1, <2>3 DEF LaunchTypeOK
  <2>. QED BY <1>10, <2>2, <2>3 DEF SaveRunDatabases
<1>. QED BY <1>2, <1>3, <1>4, <1>5, <1>6, <1>7, <1>8, <1>9, <1>10 DEF LauncherNext

LEMMA LimitNext == LimitInv /\ [Next]_vars => LimitInv'
<1>. SUFFICES ASSUME LimitInv, [Next]_vars PROVE LimitInv'
  OBVIOUS
<1>0. TrackInv' /\ LaunchTypeOK /\ RowsTypeOK
  BY TrackNext DEF LimitInv, TrackInv, RunInv, TypeInv, TypeOK
<1>1. CASE \E p \in Launcher : LauncherNext(p)
  BY <1>0, <1>1, LimitLauncher DEF LimitInv
<1>2. CASE \/ \E w \in Worker : WorkerNext(w)
           \/ \E j \in Job : RequestNext(j)
           \/ CheckRunningNext \/ ExecutionNext \/ UNCHANGED vars
  <2>1. /\ UNCHANGED <<launchVars, started>>
        /\ UNCHANGED givenUp \/ \E S : GiveUp(S)
    BY <1>2 DEF WorkerNext, CompleteRunDatabase, CountRunDatabases, CompleteRun, WorkerFails,
                RequestNext, StopRead, StopRun, StopEnds, StopRunDatabase, DeleteCheck, DeleteJob,
                CheckRunningNext, CheckRunningRead, CheckRunningOne,
                ExecutionNext, ExecEnds, vars, GiveUp
  <2>2. \A x \in Row : (exec[x] # "NONE" => exec'[x] # "NONE") /\ (Over(x) => Over(x)')
    BY <1>2, <1>0 DEF WorkerNext, CompleteRunDatabase, CountRunDatabases, CompleteRun, WorkerFails,
                RequestNext, StopRead, StopRun, StopEnds, StopRunDatabase, DeleteCheck, DeleteJob,
                CheckRunningNext, CheckRunningRead, CheckRunningOne,
                ExecutionNext, ExecEnds, vars, RowsTypeOK, Over
  <2>3. Onward
    BY <2>1, <2>2 DEF Onward, GiveUp
  <2>. QED BY <2>1, <2>3, <1>0, LimitFrame DEF LimitInv, LaunchTypeOK
<1>. QED BY <1>1, <1>2 DEF Next

\* No launcher brings more scans on a subnet than are configured, whatever the others
\* do: the rows are counted before the first start (__count_run_database_by_subnet),
\* each start is added to the count, and what an earlier invocation of the launcher
\* started is saved before the next one counts.
THEOREM SubnetLimitHolds == Spec => []ScanLimit
<1>1. LimitInv => ScanLimit
  BY DEF LimitInv
<1>. QED BY LimitInit, LimitNext, <1>1, PTL DEF Spec
=============================================================================
