---------------------------- MODULE JobWizard_proof ----------------------------
(***************************************************************************)
(* What the wizards submit, and how often: for every set of accounts,      *)
(* names, schedules and words, any number of visits and of calls.  First   *)
(* the wizard of JobWizard, then the older one beside it (Old, of          *)
(* JobWizards), and last the types of both.                                *)
(***************************************************************************)
EXTENDS JobWizards, TLAPS

-----------------------------------------------------------------------------
(***************************************************************************)
(* The inductive invariant.  A submission is remembered in two places: in  *)
(* the call and in the loading state of the button.  They agree as long as *)
(* the visit lasts (InFlight, Loading); what was answered with success     *)
(* ended its visit, so that a button that can be pressed has only          *)
(* rejected calls behind it (OneEach).                                     *)
(***************************************************************************)
Fields == {"step", "farthest", "tiles", "job", "selected", "isLoading"}
Call ==
    [visit : Nat, answer : {"pending", "resolved", "rejected"}, made : BOOLEAN,
     start : {"none", "wanted", "sent", "started", "failed"}]

Shape ==
    /\ DOMAIN ui = Fields
    /\ ui.step \in 0 .. 4 /\ ui.isLoading \in BOOLEAN
    /\ open \in BOOLEAN /\ visit \in Nat /\ calls \in Seq(Call)

VisitsPast == \A i \in DOMAIN calls : calls[i].visit <= visit

InFlight ==
    open => \A i \in DOMAIN calls :
        calls[i].visit = visit =>
            \/ calls[i].answer = "rejected"
            \/ calls[i].answer = "pending" /\ ui.isLoading

Loading == ui.isLoading => open /\ LoadingHasReason

OneEach ==
    \A i, j \in DOMAIN calls :
        i # j /\ calls[i].visit = calls[j].visit =>
            calls[i].answer = "rejected" \/ calls[j].answer = "rejected"

(* A job that can be submitted has passed the checks of its last step.     *)
Checked ==
    ui.step = 4 =>
        ~NothingSelected(job) /\ ~TooManyForRds(job) /\ RulesDisjoint(job.rules)

WizardInv ==
    Shape /\ VisitsPast /\ InFlight /\ Loading /\ OneEach /\ OnlyMadeIsStarted /\ Checked

-----------------------------------------------------------------------------
LEMMA WizardInit == Init => WizardInv
<1>. SUFFICES ASSUME Init PROVE WizardInv
  OBVIOUS
<1>. USE DEF Init, Mounted
<1>1. Shape
  <2>1. DOMAIN ui = Fields
    BY DEF Fields
  <2>2. ui.step \in 0 .. 4 /\ ui.isLoading \in BOOLEAN
    OBVIOUS
  <2>3. calls \in Seq(Call)
    OBVIOUS
  <2>4. open \in BOOLEAN /\ visit \in Nat
    OBVIOUS
  <2>. HIDE DEF Init, Mounted
  <2>. QED BY <2>1, <2>2, <2>3, <2>4 DEF Shape
<1>2. VisitsPast /\ InFlight /\ Loading /\ OneEach /\ OnlyMadeIsStarted
  BY DEF VisitsPast, InFlight, Loading, OneEach, OnlyMadeIsStarted
<1>3. Checked
  BY DEF Checked
<1>. QED BY <1>1, <1>2, <1>3 DEF WizardInv

(* What a handler of the first four steps does: the calls are left alone,  *)
(* and the mounted component keeps its step or passes the checks.          *)
Handler ==
    /\ UNCHANGED <<open, visit, calls>>
    /\ DOMAIN ui' = Fields
    /\ ui'.isLoading = ui.isLoading
    /\ ui'.step \in 0 .. 4
    /\ Checked'

LEMMA HandlerKeeps ==
  ASSUME WizardInv, Handler
  PROVE  WizardInv'
<1>. USE DEF WizardInv, Handler
<1>1. Shape'
  BY DEF Shape
<1>2. VisitsPast' /\ OneEach' /\ OnlyMadeIsStarted'
  BY DEF VisitsPast, OneEach, OnlyMadeIsStarted
<1>3. InFlight'
  BY DEF InFlight
<1>4. Loading'
  BY DEF Loading, LoadingHasReason
<1>. QED BY <1>1, <1>2, <1>3, <1>4

(* A handler that changes parts of the component other than the step and   *)
(* the button, in one of the steps before the last.                        *)
LEMMA StepHandler ==
  ASSUME WizardInv, NEW s \in 0 .. 3, At(s, ui'),
         DOMAIN ui' = Fields, ui'.step = ui.step, ui'.isLoading = ui.isLoading
  PROVE  Handler
BY DEF At, Handler, WizardInv, Shape, Checked

LEMMA JobHandler ==
  ASSUME WizardInv, NEW s \in 0 .. 3, NEW j, At(s, [ui EXCEPT !.job = j])
  PROVE  Handler
<1>1. DOMAIN ui' = Fields /\ ui'.step = ui.step /\ ui'.isLoading = ui.isLoading
  BY DEF At, WizardInv, Shape, Fields
<1>2. At(s, ui')
  BY DEF At
<1>. QED BY <1>1, <1>2, StepHandler

LEMMA SelectionHandler ==
  ASSUME WizardInv, NEW sel, NEW j, At(1, [ui EXCEPT !.selected = sel, !.job = j])
  PROVE  Handler
<1>1. DOMAIN ui' = Fields /\ ui'.step = ui.step /\ ui'.isLoading = ui.isLoading
  BY DEF At, WizardInv, Shape, Fields
<1>2. At(1, ui')
  BY DEF At
<1>. QED BY <1>1, <1>2, StepHandler

LEMMA TilesHandler ==
  ASSUME WizardInv, NEW t, At(0, [ui EXCEPT !.tiles = t])
  PROVE  Handler
<1>1. DOMAIN ui' = Fields /\ ui'.step = ui.step /\ ui'.isLoading = ui.isLoading
  BY DEF At, WizardInv, Shape, Fields
<1>2. At(0, ui')
  BY DEF At
<1>. QED BY <1>1, <1>2, StepHandler

LEMMA Step0Keeps ==
  ASSUME WizardInv, Step0 \/ \E wire \in Wire : ProvidersAnswered(wire)
  PROVE  Handler
<1>1. CASE Step0
  <2>1. CASE \E p : At(0, [ui EXCEPT !.job = WithProvider(@, p)])
    BY <2>1, JobHandler
  <2>2. CASE \E i : At(0, [ui EXCEPT !.job = WithSource(@, SourcesOf(job.provider)[i])])
    BY <2>2, JobHandler
  <2>. QED BY <1>1, <2>1, <2>2 DEF Step0
<1>2. ASSUME NEW wire \in Wire, ProvidersAnswered(wire)
      PROVE  Handler
  BY <1>2, TilesHandler DEF ProvidersAnswered
<1>. QED BY <1>1, <1>2

LEMMA Step1Keeps ==
  ASSUME WizardInv, Step1
  PROVE  Handler
<1>1. CASE ChooseAll
  BY <1>1, JobHandler DEF ChooseAll
<1>2. CASE ChangeView
  <2>1. PICK v : At(1, [ui EXCEPT !.selected = {}, !.job = WithView(@, v)])
    BY <1>2 DEF ChangeView
  <2>. QED BY <2>1, SelectionHandler, Zenon
<1>3. ASSUME NEW kind, NEW view, NEW ticked, NEW entries, Select(kind, view, ticked, entries)
      PROVE  Handler
  <2>1. At(1, [ui EXCEPT !.selected = ticked, !.job = WithDatabases(@, entries)])
    BY <1>3 DEF Select
  <2>. QED BY <2>1, SelectionHandler, Zenon
<1>4. CASE SelectBuckets \/ SelectRdsInstances \/ SelectRdsTables
  BY <1>3, <1>4 DEF SelectBuckets, SelectRdsInstances, SelectRdsTables
<1>5. CASE SelectGlueDatabases \/ SelectGlueTables \/ SelectGlueAccounts
  BY <1>3, <1>5 DEF SelectGlueDatabases, SelectGlueTables, SelectGlueAccounts
<1>6. CASE SelectJdbcInstances \/ SelectJdbcTables
  BY <1>3, <1>6 DEF SelectJdbcInstances, SelectJdbcTables
<1>. QED BY <1>1, <1>2, <1>4, <1>5, <1>6 DEF Step1

LEMMA SettingsKeep ==
  ASSUME WizardInv, ChangeName \/ ChangeFrequency \/ ChangeDepth \/ ChangeRules
  PROVE  Handler
<1>1. ASSUME NEW settings, Step2(settings)
      PROVE  Handler
  BY <1>1, JobHandler DEF Step2
<1>2. CASE ChangeRules
  <2>1. ASSUME NEW rule, NEW text, At(3, [ui EXCEPT !.job = WithRule(@, rule, text)])
        PROVE  Handler
    BY <2>1, JobHandler
  <2>. QED BY <1>2, <2>1 DEF ChangeRules
<1>. QED BY <1>1, <1>2 DEF ChangeName, ChangeFrequency, ChangeDepth


(* Moving to the last step checks everything; the moves that check nothing *)
(* lead back to an earlier one.                                            *)
LEMMA NavigateKeeps ==
  ASSUME WizardInv, NEW requested \in 0 .. 4, Navigate(requested)
  PROVE  Handler
<1>1. ui' = ShowStep(requested) /\ UNCHANGED <<open, visit, calls>>
  BY DEF Navigate, At
<1>2. DOMAIN ui' = Fields /\ ui'.step = requested /\ ui'.isLoading = ui.isLoading
  BY <1>1 DEF ShowStep, WizardInv, Shape, Fields
<1>3. ASSUME requested = 4
      PROVE  ~NothingSelected(job) /\ ~TooManyForRds(job) /\ RulesDisjoint(job.rules)
  <2>1. ui.step \in 0 .. 4
    BY DEF WizardInv, Shape
  <2>. QED BY <1>3, <2>1 DEF Navigate, CheckMustData
<1>4. requested = 4 => job' = job
  BY <1>1 DEF ShowStep, WizardInv, Shape, Fields, job
<1>5. Checked'
  BY <1>2, <1>3, <1>4 DEF Checked, NothingSelected, TooManyForRds
<1>. QED BY <1>1, <1>2, <1>5 DEF Handler

-----------------------------------------------------------------------------
(***************************************************************************)
(* The steps that submit, answer, open and leave                           *)
(***************************************************************************)
LEMMA OpenKeeps ==
  ASSUME WizardInv, Open
  PROVE  WizardInv'
<1>. USE DEF WizardInv, Open
<1>1. /\ DOMAIN ui' = Fields /\ ui'.step \in 0 .. 4 /\ ui'.step # 4
      /\ ui'.isLoading = FALSE /\ ui'.isLoading \in BOOLEAN
  BY DEF Mounted, Fields
<1>2. /\ open' \in BOOLEAN /\ visit \in Nat /\ visit' = visit + 1 /\ visit' \in Nat
      /\ calls \in Seq(Call) /\ calls' = calls
  BY DEF Shape
<1>. HIDE DEF Open, WizardInv
<1>3. Shape'
  BY <1>1, <1>2 DEF Shape
<1>. USE DEF Open, WizardInv
<1>6. VisitsPast'
  <2>1. \A i \in DOMAIN calls : calls[i].visit \in Nat
    <3>1. \A i \in DOMAIN calls : calls[i] \in Call
      BY <1>2
    <3>. QED BY <3>1 DEF Call
  <2>. QED BY <1>2, <2>1 DEF VisitsPast
<1>7. OneEach' /\ OnlyMadeIsStarted'
  BY DEF OneEach, OnlyMadeIsStarted
<1>4. InFlight'
  BY DEF InFlight, VisitsPast, Shape, Call
<1>5. Loading' /\ Checked'
  BY <1>1 DEF Loading, Checked
<1>. QED BY <1>3, <1>4, <1>5, <1>6, <1>7

LEMMA LeaveKeeps ==
  ASSUME WizardInv, Leave
  PROVE  WizardInv'
<1>. USE DEF WizardInv, Leave
<1>1. DOMAIN ui' = Fields /\ ui'.step \in 0 .. 4 /\ ui'.isLoading = FALSE /\ ui'.step # 4
  BY DEF Mounted, Fields
<1>2. Shape'
  BY <1>1 DEF Shape
<1>3. VisitsPast' /\ OneEach' /\ OnlyMadeIsStarted' /\ InFlight'
  BY DEF VisitsPast, OneEach, OnlyMadeIsStarted, InFlight
<1>4. Loading' /\ Checked'
  BY <1>1 DEF Loading, Checked
<1>. QED BY <1>2, <1>3, <1>4

(* A button that can be pressed has only rejected calls of its visit       *)
(* behind it, so that the new call is the only one that may make a job.    *)
LEMMA SubmitKeeps ==
  ASSUME WizardInv, Submit
  PROVE  WizardInv'
<1>. DEFINE c == NewCall(job)
            n == Len(calls) + 1
<1>. USE DEF WizardInv
<1>1. c \in Call /\ c.visit = visit /\ c.answer = "pending"
      /\ c.start \in {"wanted", "none"}
  BY DEF NewCall, Call, Shape
<1>2. calls' = Append(calls, c) /\ UNCHANGED <<open, visit>> /\ open /\ ~ui.isLoading
  BY DEF Submit
<1>. HIDE DEF c
<1>3. /\ calls' \in Seq(Call) /\ DOMAIN calls' = DOMAIN calls \cup {n} /\ n \notin DOMAIN calls
      /\ calls'[n] = c /\ \A i \in DOMAIN calls : calls'[i] = calls[i]
  BY <1>1, <1>2 DEF Shape
<1>. HIDE DEF n
<1>4. /\ DOMAIN ui' = Fields /\ ui'.isLoading = TRUE /\ ui'.step = ui.step /\ ui'.job = ui.job
  BY DEF Submit, Shape, Fields
<1>5. Shape'
  BY <1>2, <1>3, <1>4 DEF Shape
<1>6. VisitsPast'
  BY <1>1, <1>2, <1>3 DEF VisitsPast, Shape
<1>7. \A i \in DOMAIN calls : calls[i].visit = visit => calls[i].answer = "rejected"
  BY <1>2 DEF InFlight
<1>8. InFlight'
  BY <1>1, <1>2, <1>3, <1>4, <1>7 DEF InFlight
<1>9. Loading'
  BY <1>1, <1>2, <1>3, <1>4 DEF Loading, LoadingHasReason
<1>10. OneEach'
  BY <1>1, <1>2, <1>3, <1>7 DEF OneEach
<1>11. OnlyMadeIsStarted'
  BY <1>1, <1>3 DEF OnlyMadeIsStarted
<1>12. Checked'
  BY <1>4 DEF Checked, job, NothingSelected, TooManyForRds
<1>. QED BY <1>5, <1>6, <1>8, <1>9, <1>10, <1>11, <1>12

(* An answer ends the call and nothing else of it; a success also ends the *)
(* visit that is shown, whichever it is, a rejection gives the button back *)
(* if its own visit is still there.                                        *)
LEMMA CreateAnsweredKeeps ==
  ASSUME WizardInv, NEW i, NEW wire \in Wire, CreateAnswered(i, wire)
  PROVE  WizardInv'
<1>. DEFINE c == calls'[i]
<1>. USE DEF WizardInv
<1>1. i \in DOMAIN calls /\ calls[i].answer = "pending" /\ calls[i] \in Call
  BY DEF CreateAnswered, Shape
<1>2. PICK made \in PerformedBy(wire) :
         calls' = [calls EXCEPT ![i].answer = ApiResult(wire), ![i].made = made,
                                ![i].start = StartAfter(@, wire)]
  BY DEF CreateAnswered
<1>3. ApiResult(wire) \in {"resolved", "rejected"} /\ made \in BOOLEAN
      /\ (ApiResult(wire) = "resolved" => made = TRUE)
  BY DEF ApiResult, Intercepted, PerformedBy, Wire
<1>4. /\ DOMAIN calls' = DOMAIN calls /\ \A k \in DOMAIN calls : k # i => calls'[k] = calls[k]
      /\ c = [calls[i] EXCEPT !.answer = ApiResult(wire), !.made = made,
                              !.start = StartAfter(@, wire)]
  BY <1>1, <1>2 DEF Shape
<1>5. /\ c.visit = calls[i].visit /\ c.answer = ApiResult(wire) /\ c.made = made
      /\ c.start \in {"sent", "none"} /\ (c.start = "sent" => ApiResult(wire) = "resolved")
      /\ c \in Call
  BY <1>1, <1>3, <1>4 DEF Call, StartAfter
<1>6. calls' \in Seq(Call)
  <2>1. calls' = [calls EXCEPT ![i] = c]
    BY <1>1, <1>2, <1>4 DEF Shape
  <2>2. calls \in Seq(Call)
    BY DEF Shape
  <2>. HIDE DEF c
  <2>. QED BY <1>1, <1>5, <2>1, <2>2
<1>. HIDE DEF c
<1>7. visit' = visit /\ visit \in Nat
  BY DEF CreateAnswered, Shape
<1>8. OneEach'
  <2>1. \A k \in DOMAIN calls : k # i /\ calls[k].visit = calls[i].visit => calls[k].answer = "rejected"
    BY <1>1 DEF OneEach
  <2>2. \A k \in DOMAIN calls : calls'[k].visit = calls[k].visit
    BY <1>4, <1>5 DEF c
  <2>3. \A k \in DOMAIN calls : calls[k].answer = "rejected" => calls'[k].answer = "rejected"
    BY <1>1, <1>4
  <2>. QED BY <1>4, <2>1, <2>2, <2>3 DEF OneEach
<1>9. VisitsPast' /\ OnlyMadeIsStarted'
  BY <1>3, <1>4, <1>5, <1>7 DEF VisitsPast, OnlyMadeIsStarted, c
<1>10. CASE ApiResult(wire) = "resolved"
  <2>1. open' = FALSE /\ DOMAIN ui' = Fields /\ ui'.step \in 0 .. 4 /\ ui'.isLoading = FALSE
        /\ ui'.step # 4
    BY <1>10 DEF CreateAnswered, Mounted, Fields
  <2>2. Shape' /\ InFlight' /\ Loading' /\ Checked'
    BY <1>6, <1>7, <2>1 DEF Shape, InFlight, Loading, Checked
  <2>. QED BY <1>8, <1>9, <2>2
<1>11. CASE ApiResult(wire) = "rejected" /\ open /\ visit = calls[i].visit
  <2>1. /\ open' = open /\ DOMAIN ui' = Fields /\ ui'.step = ui.step
        /\ ui'.isLoading = FALSE /\ ui'.job = ui.job
    BY <1>11 DEF CreateAnswered, Freed, Shape, Fields
  <2>2. Shape' /\ Loading'
    BY <1>6, <1>7, <2>1 DEF Shape, Loading
  <2>3. InFlight'
    <3>1. \A k \in DOMAIN calls : k # i /\ calls[k].visit = visit => calls[k].answer = "rejected"
      BY <1>1, <1>11 DEF OneEach
    <3>. QED BY <1>4, <1>5, <1>7, <1>11, <3>1 DEF InFlight, c
  <2>4. Checked'
    BY <2>1 DEF Checked, job, NothingSelected, TooManyForRds
  <2>. QED BY <1>8, <1>9, <2>2, <2>3, <2>4
<1>12. CASE ApiResult(wire) = "rejected" /\ ~(open /\ visit = calls[i].visit)
  <2>1. open' = open /\ ui' = ui
    BY <1>12 DEF CreateAnswered
  <2>2. Shape' /\ Checked'
    BY <1>6, <1>7, <2>1 DEF Shape, Checked, job, NothingSelected, TooManyForRds
  <2>3. InFlight'
    BY <1>4, <1>5, <1>7, <1>12, <2>1 DEF InFlight, c
  <2>4. Loading'
    BY <1>4, <1>5, <1>7, <1>12, <2>1 DEF Loading, LoadingHasReason
  <2>. QED BY <1>8, <1>9, <2>2, <2>3, <2>4
<1>. QED BY <1>3, <1>10, <1>11, <1>12

LEMMA StartAnsweredKeeps ==
  ASSUME WizardInv, NEW i, NEW wire \in Wire, StartAnswered(i, wire)
  PROVE  WizardInv'
<1>. USE DEF WizardInv
<1>1. i \in DOMAIN calls /\ calls[i].start = "sent" /\ calls[i] \in Call
      /\ UNCHANGED <<open, visit, ui>>
  BY DEF StartAnswered, Shape
<1>2. PICK s \in {"started", "failed"} : calls' = [calls EXCEPT ![i].start = s]
  BY DEF StartAnswered
<1>3. /\ DOMAIN calls' = DOMAIN calls /\ calls' \in Seq(Call)
      /\ \A k \in DOMAIN calls : /\ calls'[k].visit = calls[k].visit
                                 /\ calls'[k].answer = calls[k].answer
                                 /\ calls'[k].made = calls[k].made
                                 /\ k # i => calls'[k].start = calls[k].start
      /\ calls'[i].start = s
  BY <1>1, <1>2 DEF Shape, Call
<1>4. Shape' /\ Checked'
  BY <1>1, <1>3 DEF Shape, Checked, job, NothingSelected, TooManyForRds
<1>5. VisitsPast' /\ InFlight' /\ Loading' /\ OneEach'
  BY <1>1, <1>3 DEF VisitsPast, InFlight, Loading, LoadingHasReason, OneEach
<1>6. OnlyMadeIsStarted'
  BY <1>1, <1>3 DEF OnlyMadeIsStarted
<1>. QED BY <1>4, <1>5, <1>6

LEMMA StutterKeeps ==
  ASSUME WizardInv, UNCHANGED vars
  PROVE  WizardInv'
BY DEF vars, WizardInv, Shape, VisitsPast, InFlight, Loading, LoadingHasReason, OneEach,
       OnlyMadeIsStarted, Checked, job, NothingSelected, TooManyForRds

LEMMA WizardNext == WizardInv /\ [Next]_vars => WizardInv'
<1>. SUFFICES ASSUME WizardInv, [Next]_vars PROVE WizardInv'
  OBVIOUS
<1>1. CASE Open \/ Leave \/ Submit
  BY <1>1, OpenKeeps, LeaveKeeps, SubmitKeeps
<1>2. CASE Step0 \/ Step1
  BY <1>2, Step0Keeps, Step1Keeps, HandlerKeeps
<1>3. CASE ChangeName \/ ChangeFrequency \/ ChangeDepth \/ ChangeRules
  BY <1>3, SettingsKeep, HandlerKeeps
<1>4. CASE \E requested \in 0 .. 4 : Navigate(requested)
  BY <1>4, NavigateKeeps, HandlerKeeps
<1>5. CASE Answer
  <2>1. CASE \E wire \in Wire : ProvidersAnswered(wire)
    BY <2>1, Step0Keeps, HandlerKeeps
  <2>. QED BY <1>5, <2>1, CreateAnsweredKeeps, StartAnsweredKeeps DEF Answer
<1>6. CASE UNCHANGED vars
  BY <1>6, StutterKeeps
<1>. QED BY <1>1, <1>2, <1>3, <1>4, <1>5, <1>6 DEF Next

LEMMA WizardInvHolds == Spec => []WizardInv
BY WizardInit, WizardNext, PTL DEF Spec

-----------------------------------------------------------------------------
(* However the user went through the steps, what is submitted has          *)
(* something to scan, does not contradict itself and is within the limit.  *)
THEOREM SubmittedJobsAreSound == Spec => []SubmitsSoundJob
<1>1. ASSUME WizardInv, ui.step = 4
      PROVE  /\ job.all \/ job.databases # {}
             /\ RulesDisjoint(job.rules)
             /\ ~TooManyForRds(job)
  <2>1. ~NothingSelected(job) /\ ~TooManyForRds(job) /\ RulesDisjoint(job.rules)
    BY <1>1 DEF WizardInv, Checked
  <2>2. ~job.all /\ job.databases = {} => NothingSelected(job)
    BY DEF NothingSelected
  <2>. QED BY <2>1, <2>2
<1>2. WizardInv => SomethingToScan
  BY <1>1 DEF SomethingToScan
<1>3. WizardInv => RulesAgree
  BY <1>1 DEF RulesAgree, RulesDisjoint
<1>4. WizardInv => RdsWithinLimit
  <2>1. SUFFICES ASSUME WizardInv, ui.step = 4, job.source = "rds", ~job.all,
                        Cardinality(job.databases) > RdsLimit
                 PROVE  FALSE
    BY DEF RdsWithinLimit
  <2>. QED BY <1>1, <2>1 DEF TooManyForRds
<1>. QED BY <1>2, <1>3, <1>4, WizardInvHolds, PTL DEF SubmitsSoundJob

(* However often the button is pressed and the page left and opened, one   *)
(* visit makes one job, unless an answer was lost, and only that job is    *)
(* started.                                                                *)
THEOREM OneJobForEachVisit == Spec => []SubmitsOnce
<1>1. WizardInv => SubmitsOnce
  BY DEF WizardInv, OneEach, SubmitsOnce, OneJobPerVisit
<1>. QED BY <1>1, WizardInvHolds, PTL

(* The button is held back only while a submission of this visit is under  *)
(* way.                                                                    *)
THEOREM ButtonIsGivenBack == Spec => []LoadingHasReason
<1>1. WizardInv => LoadingHasReason
  BY DEF WizardInv, Loading, LoadingHasReason
<1>. QED BY <1>1, WizardInvHolds, PTL
-----------------------------------------------------------------------------
(***************************************************************************)
(* The older wizard.  Its flag isLoading serves the requests for tables as *)
(* well as the submission, so that the button comes back early: the        *)
(* invariant says that of the submissions of a visit only one can be       *)
(* without excuse, and that the flag covers it while it is under way.      *)
(***************************************************************************)
OldUi ==
    [step : 0 .. 3, farthest : 0 .. 3, s3Type : Old!CatalogTypes,
     rdsType : Old!CatalogTypes, view : {"instance", "table"},
     s3 : SUBSET Buckets, rds : SUBSET (RdsInstances \cup RdsTables),
     page : 1 .. MaxPage, named : BOOLEAN, frequency : Old!Frequency,
     isLoading : BOOLEAN, catalog : Nat, folder : Nat, lost : BOOLEAN]

OldCall ==
    [visit : Nat, answer : {"pending", "resolved", "rejected"}, made : BOOLEAN,
     uncovered : BOOLEAN, start : {"none", "wanted", "sent", "started", "failed"}]

OldShape ==
    /\ oldOpen \in BOOLEAN /\ oldVisit \in Nat
    /\ oldUi \in OldUi /\ oldUi.catalog + oldUi.folder <= MaxFetches
    /\ oldCalls \in Seq(OldCall) /\ Len(oldCalls) <= MaxCalls

(* What is ticked in the second step belongs to the view.                  *)
ViewFits(u) == u.rds \subseteq (IF u.view = "instance" THEN RdsInstances ELSE RdsTables)

(* The last two steps are shown for a choice that passed the checks.       *)
Passed(u) ==
    u.step >= 2 =>
        /\ u.s3Type # "" /\ u.rdsType # ""
        /\ ~(u.s3Type = "none" /\ u.rdsType = "none")
        /\ u.s3Type = "select" => u.s3 # {}
        /\ u.rdsType = "select" => u.rds # {}

OldForm == ViewFits(oldUi) /\ Passed(oldUi) /\ Old!DayFits(oldUi.frequency)

Excused(call) == call.answer = "rejected" \/ call.start = "failed" \/ call.uncovered

OldPast == \A i \in DOMAIN oldCalls : oldCalls[i].visit <= oldVisit

(* Every submission of the visit that is shown is excused, or it is under  *)
(* way and the button is held back.                                        *)
OldHeld ==
    oldOpen => \A i \in DOMAIN oldCalls :
        oldCalls[i].visit = oldVisit =>
            Excused(oldCalls[i]) \/ (oldUi.isLoading /\ Old!UnderWay(oldCalls[i]))

OldOneEach ==
    \A i, j \in DOMAIN oldCalls :
        i < j /\ oldCalls[i].visit = oldCalls[j].visit => Excused(oldCalls[i])

OldLoading == oldUi.isLoading => oldOpen /\ Old!LoadingHasReason

(* startJob is called when createJob has answered.                         *)
NotStarted(call) == call.answer = "pending" => call.start \in {"none", "wanted"}
OldPending == \A i \in DOMAIN oldCalls : NotStarted(oldCalls[i])

OldInv ==
    OldShape /\ OldForm /\ OldPast /\ OldHeld /\ OldOneEach /\ OldLoading /\ OldPending

LEMMA OldBounds ==
    /\ OldRdsLimit \in Nat /\ MaxFetches \in Nat /\ MaxCalls \in Nat
    /\ MaxPage \in Nat /\ MaxPage >= 1 /\ 1 \in 1 .. MaxPage
<1>1. /\ {OldRdsLimit, MaxFetches, MaxVisits, MaxCalls} \subseteq Nat
      /\ MaxPage \in Nat \ {0}
  BY OldAssumption, Zenon DEF Old!OldWizardAssumption
<1>. QED BY <1>1

LEMMA MountedFits ==
    LET m == Old!Mounted
    IN  /\ m \in OldUi /\ m.catalog + m.folder <= MaxFetches /\ m.isLoading = FALSE
        /\ ViewFits(m) /\ Passed(m) /\ Old!DayFits(m.frequency)
<1>1. Old!NoFrequency \in Old!Frequency /\ Old!DayFits(Old!NoFrequency)
  BY DEF Old!NoFrequency, Old!Frequency, Old!FrequencyTypes, Old!DayFits
<1>2. Old!Mounted \in OldUi
  BY <1>1, OldBounds DEF Old!Mounted, OldUi, Old!CatalogTypes
<1>3. /\ Old!Mounted.catalog + Old!Mounted.folder <= MaxFetches
      /\ Old!Mounted.isLoading = FALSE /\ Old!Mounted.frequency = Old!NoFrequency
      /\ ViewFits(Old!Mounted) /\ Passed(Old!Mounted)
  BY OldBounds DEF Old!Mounted, ViewFits, Passed
<1>. QED BY <1>1, <1>2, <1>3

LEMMA OldInit == Old!Init => OldInv
<1>. SUFFICES ASSUME Old!Init PROVE OldInv
  OBVIOUS
<1>1. /\ oldOpen = FALSE /\ oldVisit = 0 /\ oldUi = Old!Mounted /\ oldCalls = << >>
  BY DEF Old!Init
<1>2. oldUi \in OldUi /\ oldUi.catalog + oldUi.folder <= MaxFetches /\ oldUi.isLoading = FALSE
  BY <1>1, MountedFits
<1>3. OldShape
  <2>1. oldCalls \in Seq(OldCall) /\ Len(oldCalls) = 0
    BY <1>1
  <2>2. Len(oldCalls) <= MaxCalls
    BY <2>1, OldBounds
  <2>3. oldOpen \in BOOLEAN /\ oldVisit \in Nat
    BY <1>1
  <2>. QED BY <1>2, <2>1, <2>2, <2>3 DEF OldShape
<1>4. OldForm
  BY <1>1, MountedFits DEF OldForm
<1>5. OldPast /\ OldHeld /\ OldOneEach /\ OldLoading /\ OldPending
  BY <1>1, <1>2 DEF OldPast, OldHeld, OldOneEach, OldLoading, OldPending
<1>. QED BY <1>3, <1>4, <1>5 DEF OldInv

(* A handler of the first three steps leaves the submissions alone and     *)
(* lowers no flag; it raises the flag only with a request for a table.     *)
FlagKept(u, v) ==
    /\ u.isLoading => v.isLoading
    /\ v.isLoading =>
          \/ v.catalog > 0
          \/ u.isLoading /\ v.lost = u.lost /\ v.catalog >= u.catalog /\ v.folder >= u.folder

OldHandler ==
    /\ UNCHANGED <<oldOpen, oldVisit, oldCalls>> /\ oldOpen
    /\ oldUi' \in OldUi /\ oldUi'.catalog + oldUi'.folder <= MaxFetches
    /\ OldForm' /\ FlagKept(oldUi, oldUi')

LEMMA OldHandlerKeeps ==
  ASSUME OldInv, OldHandler
  PROVE  OldInv'
<1>. USE DEF OldInv, OldHandler
<1>1. OldShape'
  BY DEF OldShape
<1>2. OldPast' /\ OldOneEach' /\ OldPending'
  BY DEF OldPast, OldOneEach, OldPending
<1>3. OldHeld'
  BY DEF OldHeld, FlagKept
<1>4. OldLoading'
  <2>1. SUFFICES ASSUME oldUi'.isLoading PROVE oldOpen' /\ Old!LoadingHasReason'
    BY DEF OldLoading
  <2>2. /\ oldUi.catalog \in Nat /\ oldUi.folder \in Nat
        /\ oldUi'.catalog \in Nat /\ oldUi'.folder \in Nat
    BY DEF OldShape, OldUi
  <2>3. CASE oldUi'.catalog > 0
    BY <2>1, <2>2, <2>3 DEF Old!LoadingHasReason
  <2>4. CASE /\ oldUi.isLoading /\ oldUi'.lost = oldUi.lost
             /\ oldUi'.catalog >= oldUi.catalog /\ oldUi'.folder >= oldUi.folder
    BY <2>1, <2>2, <2>4 DEF OldLoading, Old!LoadingHasReason
  <2>. QED BY <2>1, <2>3, <2>4 DEF FlagKept
<1>. QED BY <1>1, <1>2, <1>3, <1>4

(* The effect that fetches a table keeps the choices; what is ticked is    *)
(* cleared whenever the second step specifies its rows.                    *)
LEMMA FetchedFits ==
  ASSUME NEW u \in OldUi
  PROVE  LET f == Old!Fetched(u)
         IN  /\ f \in OldUi /\ FlagKept(u, f)
             /\ f.step = u.step /\ f.s3Type = u.s3Type /\ f.rdsType = u.rdsType
             /\ f.view = u.view /\ f.s3 = u.s3 /\ f.frequency = u.frequency
             /\ f.rds = {} \/ f.rds = u.rds
             /\ u.step = 1 /\ u.rdsType = "select" => f.rds = {}
             /\ u.step # 1 => f.rds = u.rds
<1>. DEFINE cleared == [u EXCEPT !.rds = {}]
<1>1. /\ cleared \in OldUi /\ cleared.step = u.step /\ cleared.s3Type = u.s3Type
      /\ cleared.rdsType = u.rdsType /\ cleared.view = u.view /\ cleared.s3 = u.s3
      /\ cleared.frequency = u.frequency /\ cleared.rds = {} /\ cleared.isLoading = u.isLoading
      /\ cleared.lost = u.lost /\ cleared.catalog = u.catalog /\ cleared.folder = u.folder
  BY DEF OldUi
<1>. HIDE DEF cleared
<1>2. ASSUME NEW v \in OldUi
      PROVE  LET f == Old!GetCatalogData(v)
             IN  /\ f \in OldUi /\ f.isLoading /\ f.catalog > 0
                 /\ f.step = v.step /\ f.s3Type = v.s3Type /\ f.rdsType = v.rdsType
                 /\ f.view = v.view /\ f.s3 = v.s3 /\ f.frequency = v.frequency
                 /\ f.rds = v.rds
  <2>. DEFINE w == [v EXCEPT !.isLoading = TRUE]
              g == Old!GetCatalogData(v)
  <2>1. w \in OldUi
    BY <1>2 DEF OldUi
  <2>2. g = [w EXCEPT !.catalog = @ + 1]
    BY <1>2 DEF Old!GetCatalogData, OldUi
  <2>3. /\ w.step = v.step /\ w.s3Type = v.s3Type /\ w.rdsType = v.rdsType
        /\ w.view = v.view /\ w.s3 = v.s3 /\ w.frequency = v.frequency /\ w.rds = v.rds
        /\ w.isLoading
    BY <1>2 DEF OldUi
  <2>. HIDE DEF w
  <2>4. /\ g \in OldUi /\ g.catalog = w.catalog + 1 /\ g.isLoading = w.isLoading
        /\ g.step = w.step /\ g.s3Type = w.s3Type /\ g.rdsType = w.rdsType
        /\ g.view = w.view /\ g.s3 = w.s3 /\ g.frequency = w.frequency /\ g.rds = w.rds
    BY <2>1, <2>2 DEF OldUi
  <2>5. w.catalog \in Nat
    BY <2>1 DEF OldUi
  <2>. HIDE DEF g
  <2>6. g.catalog > 0
    BY <2>4, <2>5
  <2>. QED BY <2>3, <2>4, <2>6 DEF g
<1>3. ASSUME NEW v \in OldUi
      PROVE  LET f == Old!GetRdsFolderData(v)
             IN  /\ f \in OldUi /\ f.isLoading = v.isLoading /\ f.lost = v.lost
                 /\ f.catalog = v.catalog /\ f.folder = v.folder + 1
                 /\ f.step = v.step /\ f.s3Type = v.s3Type /\ f.rdsType = v.rdsType
                 /\ f.view = v.view /\ f.s3 = v.s3 /\ f.frequency = v.frequency
                 /\ f.rds = v.rds
  BY <1>3 DEF Old!GetRdsFolderData, OldUi
<1>4. u.catalog \in Nat /\ u.folder \in Nat /\ u.view \in {"instance", "table"}
  BY DEF OldUi
<1>5. CASE u.step = 0 /\ u.s3Type = "select"
  <2>1. Old!Fetched(u) = Old!GetCatalogData(u)
    BY <1>5 DEF Old!Fetched
  <2>2. FlagKept(u, Old!Fetched(u))
    BY <1>2, <2>1 DEF FlagKept
  <2>3. u.step = 0
    BY <1>5
  <2>. QED BY <1>2, <2>1, <2>2, <2>3
<1>6. CASE u.step = 1 /\ u.rdsType = "select" /\ u.view = "instance"
  <2>1. Old!Fetched(u) = Old!GetCatalogData(cleared)
    BY <1>6 DEF Old!Fetched, cleared
  <2>. QED BY <1>1, <1>2, <1>6, <2>1 DEF FlagKept
<1>7. CASE u.step = 1 /\ u.rdsType = "select" /\ u.view = "table"
  <2>1. Old!Fetched(u) = Old!GetRdsFolderData(cleared)
    BY <1>7 DEF Old!Fetched, cleared
  <2>. QED BY <1>1, <1>3, <1>4, <1>7, <2>1 DEF FlagKept
<1>8. CASE ~(u.step = 0 /\ u.s3Type = "select") /\ ~(u.step = 1 /\ u.rdsType = "select")
  <2>1. Old!Fetched(u) = u
    BY <1>8 DEF Old!Fetched
  <2>. QED BY <1>4, <1>8, <2>1 DEF FlagKept
<1>. QED BY <1>4, <1>5, <1>6, <1>7, <1>8

LEMMA AtHandler ==
  ASSUME OldInv, NEW s, NEW c \in OldUi, Old!At(s, c), FlagKept(oldUi, c),
         ViewFits(c), Passed(c), Old!DayFits(c.frequency)
  PROVE  OldHandler
BY DEF Old!At, OldHandler, OldForm

(* A handler of the first two steps that fetches: the view is kept, or the *)
(* second step specifies rows and starts again with none.                  *)
LEMMA FetchHandler ==
  ASSUME OldInv, NEW s \in {0, 1}, NEW d \in OldUi, Old!At(s, Old!Fetched(d)),
         d.step = s, d.isLoading = oldUi.isLoading, d.lost = oldUi.lost,
         d.catalog = oldUi.catalog, d.folder = oldUi.folder, d.frequency = oldUi.frequency,
         d.rds = oldUi.rds, d.view = oldUi.view \/ (s = 1 /\ d.rdsType = "select")
  PROVE  OldHandler
<1>. DEFINE f == Old!Fetched(d)
<1>1. /\ f \in OldUi /\ FlagKept(d, f) /\ f.step = s /\ f.view = d.view
      /\ f.frequency = d.frequency /\ (f.rds = {} \/ f.rds = d.rds)
      /\ (s = 1 /\ d.rdsType = "select" => f.rds = {})
  BY FetchedFits
<1>2. Old!At(s, f)
  OBVIOUS
<1>. HIDE DEF f
<1>3. FlagKept(oldUi, f)
  BY <1>1 DEF FlagKept
<1>4. ViewFits(f)
  BY <1>1 DEF ViewFits, OldInv, OldForm
<1>5. Passed(f)
  <2>1. f.step \in {0, 1}
    BY <1>1
  <2>2. ~(f.step >= 2)
    BY <2>1
  <2>. QED BY <2>2 DEF Passed
<1>6. Old!DayFits(f.frequency)
  BY <1>1 DEF OldInv, OldForm
<1>. QED BY <1>1, <1>2, <1>3, <1>4, <1>5, <1>6, AtHandler

LEMMA OldCatalogsKeep ==
  ASSUME OldInv,
         \/ Old!ChooseS3 \/ Old!ChooseRds
         \/ Old!SelectBuckets \/ Old!SelectRdsInstances \/ Old!SelectRdsTables
         \/ Old!ChangeRdsView \/ Old!ChangePage
  PROVE  OldHandler
<1>. USE DEF OldInv, OldShape
<1>1. CASE Old!ChooseS3
  <2>1. PICK t \in Old!CatalogTypes : Old!At(0, Old!Fetched([oldUi EXCEPT !.s3Type = t]))
    BY <1>1 DEF Old!ChooseS3
  <2>. DEFINE d == [oldUi EXCEPT !.s3Type = t]
  <2>2. /\ d \in OldUi /\ d.step = oldUi.step /\ d.isLoading = oldUi.isLoading
        /\ d.lost = oldUi.lost /\ d.catalog = oldUi.catalog /\ d.folder = oldUi.folder
        /\ d.frequency = oldUi.frequency /\ d.rds = oldUi.rds /\ d.view = oldUi.view
    BY DEF OldUi
  <2>3. oldUi.step = 0 /\ Old!At(0, Old!Fetched(d))
    BY <2>1 DEF Old!At
  <2>. HIDE DEF d
  <2>. QED BY <2>2, <2>3, FetchHandler
<1>2. CASE Old!ChooseRds
  <2>1. PICK t \in RdsTypes : Old!At(1, Old!Fetched([oldUi EXCEPT !.rdsType = t]))
    BY <1>2 DEF Old!ChooseRds
  <2>. DEFINE d == [oldUi EXCEPT !.rdsType = t]
  <2>2. t \in Old!CatalogTypes
    BY OldAssumption DEF Old!OldWizardAssumption
  <2>3. /\ d \in OldUi /\ d.step = oldUi.step /\ d.isLoading = oldUi.isLoading
        /\ d.lost = oldUi.lost /\ d.catalog = oldUi.catalog /\ d.folder = oldUi.folder
        /\ d.frequency = oldUi.frequency /\ d.rds = oldUi.rds /\ d.view = oldUi.view
    BY <2>2 DEF OldUi
  <2>4. oldUi.step = 1 /\ Old!At(1, Old!Fetched(d))
    BY <2>1 DEF Old!At
  <2>. HIDE DEF d
  <2>. QED BY <2>3, <2>4, FetchHandler
<1>3. CASE Old!SelectBuckets
  <2>1. PICK rows \in SUBSET Buckets : Old!At(0, [oldUi EXCEPT !.s3 = rows])
    BY <1>3 DEF Old!SelectBuckets
  <2>. DEFINE d == [oldUi EXCEPT !.s3 = rows]
  <2>2. /\ d \in OldUi /\ d.step = oldUi.step /\ d.isLoading = oldUi.isLoading
        /\ d.lost = oldUi.lost /\ d.catalog = oldUi.catalog /\ d.folder = oldUi.folder
        /\ d.frequency = oldUi.frequency /\ d.rds = oldUi.rds /\ d.view = oldUi.view
    BY DEF OldUi
  <2>3. oldUi.step = 0 /\ Old!At(0, d)
    BY <2>1 DEF Old!At
  <2>. HIDE DEF d
  <2>4. FlagKept(oldUi, d) /\ ViewFits(d) /\ Passed(d) /\ Old!DayFits(d.frequency)
    BY <2>2, <2>3 DEF FlagKept, ViewFits, Passed, OldForm, OldUi
  <2>. QED BY <2>2, <2>3, <2>4, AtHandler
<1>4. CASE Old!SelectRdsInstances \/ Old!SelectRdsTables
  <2>1. PICK rows \in SUBSET (RdsInstances \cup RdsTables) :
           /\ Old!At(1, [oldUi EXCEPT !.rds = rows])
           /\ rows \subseteq (IF oldUi.view = "instance" THEN RdsInstances ELSE RdsTables)
    BY <1>4 DEF Old!SelectRdsInstances, Old!SelectRdsTables
  <2>. DEFINE d == [oldUi EXCEPT !.rds = rows]
  <2>2. /\ d \in OldUi /\ d.step = oldUi.step /\ d.isLoading = oldUi.isLoading
        /\ d.lost = oldUi.lost /\ d.catalog = oldUi.catalog /\ d.folder = oldUi.folder
        /\ d.frequency = oldUi.frequency /\ d.rds = rows /\ d.view = oldUi.view
    BY DEF OldUi
  <2>3. oldUi.step = 1 /\ Old!At(1, d)
    BY <2>1 DEF Old!At
  <2>. HIDE DEF d
  <2>4. FlagKept(oldUi, d) /\ ViewFits(d) /\ Passed(d) /\ Old!DayFits(d.frequency)
    BY <2>1, <2>2, <2>3 DEF FlagKept, ViewFits, Passed, OldForm, OldUi
  <2>. QED BY <2>2, <2>3, <2>4, AtHandler
<1>5. CASE Old!ChangeRdsView
  <2>1. PICK v \in {"instance", "table"} :
           oldUi.rdsType = "select" /\ Old!At(1, Old!Fetched([oldUi EXCEPT !.view = v]))
    BY <1>5 DEF Old!ChangeRdsView
  <2>. DEFINE d == [oldUi EXCEPT !.view = v]
  <2>2. /\ d \in OldUi /\ d.step = oldUi.step /\ d.isLoading = oldUi.isLoading
        /\ d.lost = oldUi.lost /\ d.catalog = oldUi.catalog /\ d.folder = oldUi.folder
        /\ d.frequency = oldUi.frequency /\ d.rds = oldUi.rds /\ d.rdsType = oldUi.rdsType
    BY DEF OldUi
  <2>3. oldUi.step = 1 /\ Old!At(1, Old!Fetched(d))
    BY <2>1 DEF Old!At
  <2>. HIDE DEF d
  <2>. QED BY <2>1, <2>2, <2>3, FetchHandler
<1>6. CASE Old!ChangePage
  <2>1. PICK s \in {0, 1}, n \in 1 .. MaxPage : Old!At(s, Old!Fetched([oldUi EXCEPT !.page = n]))
    BY <1>6 DEF Old!ChangePage
  <2>. DEFINE d == [oldUi EXCEPT !.page = n]
  <2>2. /\ d \in OldUi /\ d.step = oldUi.step /\ d.isLoading = oldUi.isLoading
        /\ d.lost = oldUi.lost /\ d.catalog = oldUi.catalog /\ d.folder = oldUi.folder
        /\ d.frequency = oldUi.frequency /\ d.rds = oldUi.rds /\ d.view = oldUi.view
    BY DEF OldUi
  <2>3. oldUi.step = s /\ Old!At(s, Old!Fetched(d))
    BY <2>1 DEF Old!At
  <2>. HIDE DEF d
  <2>. QED BY <2>2, <2>3, FetchHandler
<1>. QED BY <1>1, <1>2, <1>3, <1>4, <1>5, <1>6

(* A change of the third step that is neither the type of a source nor the *)
(* rows that are ticked.                                                   *)
LEMMA SettingHandler ==
  ASSUME OldInv, NEW d \in OldUi, Old!At(2, d),
         d.step = oldUi.step, d.isLoading = oldUi.isLoading, d.lost = oldUi.lost,
         d.catalog = oldUi.catalog, d.folder = oldUi.folder, d.view = oldUi.view,
         d.rds = oldUi.rds, d.s3 = oldUi.s3, d.s3Type = oldUi.s3Type,
         d.rdsType = oldUi.rdsType, Old!DayFits(d.frequency)
  PROVE  OldHandler
<1>1. FlagKept(oldUi, d)
  <2>1. d.catalog \in Nat /\ d.folder \in Nat
    BY DEF OldUi
  <2>. QED BY <2>1 DEF FlagKept
<1>2. ViewFits(d)
  BY DEF ViewFits, OldInv, OldForm
<1>3. Passed(d)
  <2>1. Passed(oldUi)
    BY DEF OldInv, OldForm
  <2>. QED BY <2>1, Zenon DEF Passed
<1>. QED BY <1>1, <1>2, <1>3, AtHandler

LEMMA OldSettingsKeep ==
  ASSUME OldInv, Old!ChangeName \/ Old!ChangeFrequency
  PROVE  OldHandler
<1>. USE DEF OldInv, OldShape
<1>1. CASE Old!ChangeName
  <2>. DEFINE d == [oldUi EXCEPT !.named = ~@]
  <2>1. /\ d \in OldUi /\ d.step = oldUi.step /\ d.isLoading = oldUi.isLoading
        /\ d.lost = oldUi.lost /\ d.catalog = oldUi.catalog /\ d.folder = oldUi.folder
        /\ d.frequency = oldUi.frequency /\ d.rds = oldUi.rds /\ d.view = oldUi.view
        /\ d.s3 = oldUi.s3 /\ d.s3Type = oldUi.s3Type /\ d.rdsType = oldUi.rdsType
    BY DEF OldUi
  <2>2. Old!At(2, d)
    BY <1>1 DEF Old!ChangeName
  <2>. HIDE DEF d
  <2>3. Old!DayFits(d.frequency)
    BY <2>1 DEF OldForm
  <2>. QED BY <2>1, <2>2, <2>3, SettingHandler
<1>2. CASE Old!ChangeFrequency
  <2>1. PICK f \in OldSchedules :
           \/ Old!At(2, [oldUi EXCEPT !.frequency = f])
           \/ Old!At(2, [oldUi EXCEPT !.frequency = [Old!NoFrequency EXCEPT !.type = f.type]])
    BY <1>2 DEF Old!ChangeFrequency
  <2>. DEFINE bare == [Old!NoFrequency EXCEPT !.type = f.type]
  <2>2. f \in Old!Frequency /\ Old!DayFits(f)
    BY OldAssumption DEF Old!OldWizardAssumption
  <2>3. bare \in Old!Frequency /\ bare.day.of = "none" /\ bare.day = Old!NoDay
    BY <2>2 DEF Old!NoFrequency, Old!Frequency, Old!NoDay
  <2>. HIDE DEF bare
  <2>4. Old!DayFits(bare)
    BY <2>3 DEF Old!DayFits
  <2>5. PICK g \in {f, bare} : Old!At(2, [oldUi EXCEPT !.frequency = g])
    BY <2>1 DEF bare
  <2>. DEFINE d == [oldUi EXCEPT !.frequency = g]
  <2>6. g \in Old!Frequency /\ Old!DayFits(g)
    BY <2>2, <2>3, <2>4
  <2>7. /\ d \in OldUi /\ d.step = oldUi.step /\ d.isLoading = oldUi.isLoading
        /\ d.lost = oldUi.lost /\ d.catalog = oldUi.catalog /\ d.folder = oldUi.folder
        /\ d.frequency = g /\ d.rds = oldUi.rds /\ d.view = oldUi.view
        /\ d.s3 = oldUi.s3 /\ d.s3Type = oldUi.s3Type /\ d.rdsType = oldUi.rdsType
    BY <2>6 DEF OldUi
  <2>8. Old!At(2, d)
    BY <2>5
  <2>. HIDE DEF d
  <2>. QED BY <2>6, <2>7, <2>8, SettingHandler
<1>. QED BY <1>1, <1>2

(* A move to one of the last two steps has passed the checks, from         *)
(* wherever it comes; the effect on the step fetches a table at most, and  *)
(* clears what is ticked only in the second step.                          *)
LEMMA OldNavigateKeeps ==
  ASSUME OldInv, NEW requested \in 0 .. 3, Old!Navigate(requested)
  PROVE  OldHandler
<1>. USE DEF OldInv, OldShape
<1>. DEFINE d == [oldUi EXCEPT !.step = requested,
                     !.farthest = IF requested > @ THEN requested ELSE @]
            first == [d EXCEPT !.page = 1]
            f == Old!Stepped(d)
<1>1. Old!At(oldUi.step, f) /\ Old!CheckMustData(requested)
  BY DEF Old!Navigate
<1>2. /\ d \in OldUi /\ d.step = requested /\ d.isLoading = oldUi.isLoading
      /\ d.lost = oldUi.lost /\ d.catalog = oldUi.catalog /\ d.folder = oldUi.folder
      /\ d.frequency = oldUi.frequency /\ d.rds = oldUi.rds /\ d.view = oldUi.view
      /\ d.s3 = oldUi.s3 /\ d.s3Type = oldUi.s3Type /\ d.rdsType = oldUi.rdsType
  BY DEF OldUi
<1>. HIDE DEF d
<1>3. /\ first \in OldUi /\ first.step = requested /\ first.isLoading = oldUi.isLoading
      /\ first.lost = oldUi.lost /\ first.catalog = oldUi.catalog /\ first.folder = oldUi.folder
      /\ first.frequency = oldUi.frequency /\ first.rds = oldUi.rds /\ first.view = oldUi.view
      /\ first.s3 = oldUi.s3 /\ first.s3Type = oldUi.s3Type /\ first.rdsType = oldUi.rdsType
  BY <1>2, OldBounds DEF OldUi
<1>4. f = d \/ f = Old!Fetched(first)
  BY DEF Old!Stepped
<1>. HIDE DEF first, f
<1>5. /\ f \in OldUi /\ f.step = requested /\ f.frequency = oldUi.frequency
      /\ f.view = oldUi.view /\ f.s3 = oldUi.s3 /\ f.s3Type = oldUi.s3Type
      /\ f.rdsType = oldUi.rdsType /\ (f.rds = {} \/ f.rds = oldUi.rds)
      /\ (requested # 1 => f.rds = oldUi.rds)
  BY <1>2, <1>3, <1>4, FetchedFits
<1>6. FlagKept(oldUi, f)
  <2>1. FlagKept(oldUi, d)
    BY <1>2 DEF FlagKept, OldUi
  <2>2. FlagKept(first, Old!Fetched(first))
    BY <1>3, FetchedFits
  <2>. QED BY <1>3, <1>4, <2>1, <2>2 DEF FlagKept
<1>7. ViewFits(f) /\ Old!DayFits(f.frequency)
  BY <1>5 DEF ViewFits, OldForm
<1>8. Passed(f)
  <2>1. SUFFICES ASSUME requested >= 2 PROVE Passed(f)
    BY <1>5 DEF Passed
  <2>2. requested # 0 /\ requested # 1 /\ ~(requested < 2)
    BY <2>1
  <2>3. /\ oldUi.s3Type # "" /\ oldUi.rdsType # ""
        /\ ~(oldUi.s3Type = "none" /\ oldUi.rdsType = "none")
        /\ oldUi.s3Type = "select" => oldUi.s3 # {}
        /\ oldUi.rdsType = "select" => oldUi.rds # {}
    BY <1>1, <2>2, Zenon DEF Old!CheckMustData, Old!NothingToScan
  <2>4. f.rds = oldUi.rds
    BY <1>5, <2>2
  <2>. QED BY <1>5, <2>3, <2>4, Zenon DEF Passed
<1>. QED BY <1>1, <1>5, <1>6, <1>7, <1>8, AtHandler

-----------------------------------------------------------------------------
(***************************************************************************)
(* The steps of the older wizard that open, leave, answer and submit       *)
(***************************************************************************)
LEMMA OldOpenKeeps ==
  ASSUME OldInv, Old!Open \/ Old!Leave
  PROVE  OldInv'
<1>. USE DEF OldInv
<1>0. oldVisit \in Nat /\ oldCalls \in Seq(OldCall)
  BY DEF OldShape
<1>1. /\ oldUi' = Old!Mounted /\ oldCalls' = oldCalls
      /\ oldOpen' \in BOOLEAN /\ oldVisit' \in Nat
      /\ oldVisit' >= oldVisit /\ (oldOpen' => oldVisit' = oldVisit + 1)
  <2>1. CASE Old!Open
    <3>1. /\ oldUi' = Old!Mounted /\ oldCalls' = oldCalls /\ oldOpen' \in BOOLEAN
          /\ oldVisit' = oldVisit + 1
      BY <2>1, Zenon DEF Old!Open
    <3>. QED BY <1>0, <3>1
  <2>2. CASE Old!Leave
    <3>1. /\ oldUi' = Old!Mounted /\ oldCalls' = oldCalls /\ oldOpen' \in BOOLEAN
          /\ ~oldOpen' /\ oldVisit' = oldVisit
      BY <2>2, Zenon DEF Old!Leave
    <3>. QED BY <1>0, <3>1
  <2>. QED BY <2>1, <2>2
<1>2. OldShape'
  BY <1>1, MountedFits DEF OldShape
<1>3. OldForm'
  BY <1>1, MountedFits DEF OldForm
<1>4. oldUi'.isLoading = FALSE
  BY <1>1, MountedFits
<1>5. \A i \in DOMAIN oldCalls : oldCalls[i].visit \in Nat
  <2>1. \A i \in DOMAIN oldCalls : oldCalls[i] \in OldCall
    BY <1>0
  <2>. QED BY <2>1 DEF OldCall
<1>6. OldPast' /\ OldHeld'
  BY <1>0, <1>1, <1>5 DEF OldPast, OldHeld
<1>7. OldOneEach' /\ OldLoading' /\ OldPending'
  BY <1>1, <1>4 DEF OldOneEach, OldLoading, OldPending
<1>. QED BY <1>2, <1>3, <1>6, <1>7

(* The submissions after an answer to the i-th: the others are as before,  *)
(* and an excuse is never lost.                                            *)
AnswerTo(i, cs) ==
    /\ cs \in Seq(OldCall) /\ Len(cs) = Len(oldCalls) /\ DOMAIN cs = DOMAIN oldCalls
    /\ \A k \in DOMAIN cs :
          /\ cs[k].visit = oldCalls[k].visit /\ NotStarted(cs[k])
          /\ k # i => cs[k] = oldCalls[k]
          /\ Excused(oldCalls[k]) => Excused(cs[k])

LEMMA AnswerKeepsPast ==
  ASSUME OldInv, NEW i, NEW cs, AnswerTo(i, cs), oldCalls' = cs, oldVisit' = oldVisit
  PROVE  OldPast' /\ OldOneEach' /\ OldPending'
<1>1. OldPast'
  BY DEF OldInv, OldPast, AnswerTo
<1>2. OldOneEach'
  BY DEF OldInv, OldOneEach, AnswerTo
<1>3. OldPending'
  BY DEF OldPending, AnswerTo
<1>. QED BY <1>1, <1>2, <1>3

LEMMA UncoveredCalls ==
  ASSUME NEW cs \in Seq(OldCall)
  PROVE  LET us == Old!Uncovered(cs)
         IN  /\ us \in Seq(OldCall) /\ Len(us) = Len(cs) /\ DOMAIN us = DOMAIN cs
             /\ \A k \in DOMAIN cs :
                   /\ us[k].visit = cs[k].visit /\ us[k].answer = cs[k].answer
                   /\ us[k].start = cs[k].start
                   /\ Excused(cs[k]) => Excused(us[k])
                   /\ cs[k].visit = oldVisit /\ Old!UnderWay(cs[k]) => Excused(us[k])
<1>. DEFINE U(k) == IF cs[k].visit = oldVisit /\ Old!UnderWay(cs[k])
                    THEN [cs[k] EXCEPT !.uncovered = TRUE] ELSE cs[k]
            us == Old!Uncovered(cs)
<1>1. DOMAIN cs = 1 .. Len(cs) /\ Len(cs) \in Nat /\ \A k \in DOMAIN cs : cs[k] \in OldCall
  OBVIOUS
<1>2. us = [k \in DOMAIN cs |-> U(k)]
  BY DEF Old!Uncovered
<1>3. ASSUME NEW k \in DOMAIN cs
      PROVE  /\ U(k) \in OldCall
             /\ U(k).visit = cs[k].visit /\ U(k).answer = cs[k].answer
             /\ U(k).start = cs[k].start
             /\ Excused(cs[k]) => Excused(U(k))
             /\ cs[k].visit = oldVisit /\ Old!UnderWay(cs[k]) => Excused(U(k))
  <2>1. cs[k] \in OldCall
    BY <1>1
  <2>2. CASE cs[k].visit = oldVisit /\ Old!UnderWay(cs[k])
    <3>1. U(k) = [cs[k] EXCEPT !.uncovered = TRUE]
      BY <2>2
    <3>2. /\ U(k) \in OldCall /\ U(k).uncovered
          /\ U(k).visit = cs[k].visit /\ U(k).answer = cs[k].answer /\ U(k).start = cs[k].start
      BY <2>1, <3>1 DEF OldCall
    <3>. HIDE DEF U
    <3>. QED BY <3>2 DEF Excused
  <2>3. CASE ~(cs[k].visit = oldVisit /\ Old!UnderWay(cs[k]))
    BY <2>1, <2>3
  <2>. QED BY <2>2, <2>3
<1>. HIDE DEF U, us
<1>4. us \in Seq(OldCall) /\ DOMAIN us = DOMAIN cs /\ Len(us) = Len(cs)
  <2>1. us \in [1 .. Len(cs) -> OldCall]
    BY <1>1, <1>2, <1>3
  <2>. QED BY <1>1, <2>1
<1>5. \A k \in DOMAIN cs : us[k] = U(k)
  BY <1>2
<1>. QED BY <1>3, <1>4, <1>5 DEF us

(* Whatever lowers the flag takes it from the submissions under way, and   *)
(* excuses them.                                                           *)
LEMMA LoweredKeeps ==
  ASSUME OldInv, NEW i, NEW cs, AnswerTo(i, cs), oldCalls' = Old!Uncovered(cs),
         oldOpen, UNCHANGED <<oldOpen, oldVisit>>,
         \A k \in DOMAIN oldCalls :
            oldCalls[k].visit = oldVisit => Excused(cs[k]) \/ Old!UnderWay(cs[k]),
         NEW u \in OldUi, u.catalog + u.folder <= MaxFetches, oldUi' = Old!Lower(u),
         u.step = oldUi.step, u.s3Type = oldUi.s3Type, u.rdsType = oldUi.rdsType,
         u.view = oldUi.view, u.s3 = oldUi.s3, u.rds = oldUi.rds, u.frequency = oldUi.frequency
  PROVE  OldInv'
<1>. DEFINE us == Old!Uncovered(cs)
<1>1. /\ oldUi' \in OldUi /\ ~oldUi'.isLoading
      /\ oldUi'.catalog = u.catalog /\ oldUi'.folder = u.folder
      /\ oldUi'.step = oldUi.step /\ oldUi'.s3Type = oldUi.s3Type
      /\ oldUi'.rdsType = oldUi.rdsType /\ oldUi'.view = oldUi.view
      /\ oldUi'.s3 = oldUi.s3 /\ oldUi'.rds = oldUi.rds /\ oldUi'.frequency = oldUi.frequency
  BY DEF Old!Lower, OldUi
<1>2. cs \in Seq(OldCall) /\ Len(cs) = Len(oldCalls) /\ DOMAIN cs = DOMAIN oldCalls
  BY DEF AnswerTo
<1>3. /\ us \in Seq(OldCall) /\ Len(us) = Len(cs) /\ DOMAIN us = DOMAIN cs
      /\ \A k \in DOMAIN cs :
            /\ us[k].visit = cs[k].visit /\ us[k].answer = cs[k].answer
            /\ us[k].start = cs[k].start
            /\ Excused(cs[k]) => Excused(us[k])
            /\ cs[k].visit = oldVisit /\ Old!UnderWay(cs[k]) => Excused(us[k])
  BY <1>2, UncoveredCalls
<1>4. oldCalls' = us
  OBVIOUS
<1>. HIDE DEF us
<1>5. OldShape'
  BY <1>1, <1>2, <1>3, <1>4 DEF OldInv, OldShape
<1>6. OldForm'
  <2>1. ViewFits(oldUi') /\ Old!DayFits(oldUi'.frequency)
    BY <1>1 DEF OldInv, OldForm, ViewFits
  <2>2. Passed(oldUi')
    <3>1. Passed(oldUi)
      BY DEF OldInv, OldForm
    <3>. QED BY <1>1, <3>1, Zenon DEF Passed
  <2>. QED BY <2>1, <2>2 DEF OldForm
<1>7. \A k \in DOMAIN cs :
         /\ us[k].visit = oldCalls[k].visit /\ NotStarted(us[k])
         /\ Excused(oldCalls[k]) => Excused(us[k])
         /\ us[k].visit = oldVisit => Excused(us[k])
  BY <1>2, <1>3 DEF AnswerTo, NotStarted
<1>8. OldPast' /\ OldOneEach' /\ OldPending'
  BY <1>2, <1>3, <1>4, <1>7 DEF OldInv, OldPast, OldOneEach, OldPending
<1>9. OldHeld'
  BY <1>2, <1>3, <1>4, <1>7 DEF OldHeld
<1>10. OldLoading'
  BY <1>1 DEF OldLoading
<1>. QED BY <1>5, <1>6, <1>8, <1>9, <1>10 DEF OldInv

(* The list of jobs is shown: no page is left that could submit again.     *)
LEMMA DoneKeeps ==
  ASSUME OldInv, NEW i, NEW cs, AnswerTo(i, cs), oldCalls' = cs, oldVisit' = oldVisit, Old!Done
  PROVE  OldInv'
<1>1. oldUi' = Old!Mounted /\ ~oldOpen' /\ oldOpen' \in BOOLEAN
  BY Zenon DEF Old!Done
<1>2. ~oldUi'.isLoading /\ OldForm'
  BY <1>1, MountedFits DEF OldForm
<1>3. OldShape'
  BY <1>1, MountedFits DEF OldInv, OldShape, AnswerTo
<1>4. OldHeld' /\ OldLoading'
  BY <1>1, <1>2 DEF OldHeld, OldLoading
<1>. QED BY <1>2, <1>3, <1>4, AnswerKeepsPast DEF OldInv

LEMMA FailedKeeps ==
  ASSUME OldInv, NEW i \in DOMAIN oldCalls, NEW cs, AnswerTo(i, cs), Excused(cs[i]),
         oldVisit' = oldVisit, Old!Failed(i, cs)
  PROVE  OldInv'
<1>1. CASE oldOpen /\ oldVisit = oldCalls[i].visit
  <2>1. oldUi' = Old!Lower(oldUi) /\ oldCalls' = Old!Uncovered(cs) /\ UNCHANGED <<oldOpen, oldVisit>>
    BY <1>1 DEF Old!Failed
  <2>2. ASSUME NEW k \in DOMAIN oldCalls, oldCalls[k].visit = oldVisit
        PROVE  Excused(cs[k]) \/ Old!UnderWay(cs[k])
    <3>1. Excused(oldCalls[k]) \/ Old!UnderWay(oldCalls[k])
      BY <1>1, <2>2 DEF OldInv, OldHeld
    <3>. QED BY <3>1, <2>2 DEF AnswerTo
  <2>3. oldUi \in OldUi /\ oldUi.catalog + oldUi.folder <= MaxFetches
    BY DEF OldInv, OldShape
  <2>. QED BY <1>1, <2>1, <2>2, <2>3, LoweredKeeps
<1>2. CASE ~(oldOpen /\ oldVisit = oldCalls[i].visit)
  <2>1. UNCHANGED <<oldOpen, oldUi, oldVisit>> /\ oldCalls' = cs
    BY <1>2 DEF Old!Failed
  <2>2. OldShape' /\ OldForm'
    BY <2>1 DEF OldInv, OldShape, OldForm, AnswerTo
  <2>3. OldHeld'
    BY <1>2, <2>1 DEF OldInv, OldHeld, AnswerTo
  <2>4. OldLoading'
    <3>1. SUFFICES ASSUME oldUi.isLoading PROVE oldOpen' /\ Old!LoadingHasReason'
      BY <2>1 DEF OldLoading
    <3>2. oldOpen /\ oldVisit # oldCalls[i].visit
      BY <1>2, <3>1 DEF OldInv, OldLoading
    <3>. QED BY <2>1, <3>1, <3>2 DEF OldInv, OldLoading, Old!LoadingHasReason, AnswerTo
  <2>. QED BY <2>1, <2>2, <2>3, <2>4, AnswerKeepsPast DEF OldInv
<1>. QED BY <1>1, <1>2

LEMMA TableAnsweredKeeps ==
  ASSUME OldInv, Old!FolderAnswered \/ \E result \in Old!Results : Old!CatalogAnswered(result)
  PROVE  OldInv'
<1>1. /\ oldUi \in OldUi /\ oldUi.catalog \in Nat /\ oldUi.folder \in Nat
      /\ oldUi.catalog + oldUi.folder <= MaxFetches /\ MaxFetches \in Nat
  BY OldBounds DEF OldInv, OldShape, OldUi
<1>. DEFINE same(u) ==
        /\ u \in OldUi /\ u.catalog + u.folder <= MaxFetches
        /\ u.step = oldUi.step /\ u.s3Type = oldUi.s3Type /\ u.rdsType = oldUi.rdsType
        /\ u.view = oldUi.view /\ u.s3 = oldUi.s3 /\ u.rds = oldUi.rds
        /\ u.frequency = oldUi.frequency /\ u.isLoading = oldUi.isLoading
<1>2. \A i : AnswerTo(i, oldCalls)
  BY DEF AnswerTo, OldInv, OldShape, OldPending
<1>3. oldOpen => \A k \in DOMAIN oldCalls :
         oldCalls[k].visit = oldVisit => Excused(oldCalls[k]) \/ Old!UnderWay(oldCalls[k])
  BY DEF OldInv, OldHeld
<1>4. ASSUME NEW u, same(u), oldUi' = Old!Lower(u), oldCalls' = Old!Uncovered(oldCalls),
             oldOpen, UNCHANGED <<oldOpen, oldVisit>>
      PROVE  OldInv'
  BY <1>2, <1>3, <1>4, LoweredKeeps
<1>5. CASE Old!FolderAnswered
  <2>. DEFINE u == [oldUi EXCEPT !.folder = @ - 1]
  <2>1. oldUi' = Old!Lower(u) /\ oldCalls' = Old!Uncovered(oldCalls)
        /\ oldOpen /\ oldUi.folder > 0 /\ UNCHANGED <<oldOpen, oldVisit>>
    BY <1>5 DEF Old!FolderAnswered
  <2>2. oldUi.folder - 1 \in Nat
    BY <1>1, <2>1
  <2>3. u \in OldUi /\ u.catalog + u.folder <= MaxFetches
    BY <1>1, <2>2 DEF OldUi
  <2>4. same(u)
    BY <1>1, <2>3 DEF OldUi
  <2>. HIDE DEF u, same
  <2>. QED BY <1>4, <2>1, <2>4
<1>6. ASSUME NEW result, Old!CatalogAnswered(result)
      PROVE  OldInv'
  <2>. DEFINE u == [oldUi EXCEPT !.catalog = @ - 1]
              lost == [u EXCEPT !.lost = TRUE]
  <2>1. oldOpen /\ oldUi.catalog > 0 /\ UNCHANGED <<oldOpen, oldVisit>>
    BY <1>6 DEF Old!CatalogAnswered
  <2>2. oldUi.catalog - 1 \in Nat
    BY <1>1, <2>1
  <2>3. u \in OldUi /\ u.catalog + u.folder <= MaxFetches
    BY <1>1, <2>2 DEF OldUi
  <2>4. same(u)
    BY <1>1, <2>3 DEF OldUi
  <2>5. CASE result = "resolved"
    <3>1. oldUi' = Old!Lower(u) /\ oldCalls' = Old!Uncovered(oldCalls)
      BY <1>6, <2>5 DEF Old!CatalogAnswered
    <3>. HIDE DEF u, same
    <3>. QED BY <1>4, <2>1, <2>4, <3>1
  <2>6. CASE result # "resolved"
    <3>1. oldUi' = lost /\ oldCalls' = oldCalls
      BY <1>6, <2>6 DEF Old!CatalogAnswered
    <3>. HIDE DEF u
    <3>2. same(lost) /\ lost.lost
      BY <2>4 DEF OldUi
    <3>. HIDE DEF lost
    <3>3. OldShape'
      BY <2>1, <3>1, <3>2 DEF OldInv, OldShape
    <3>4. OldForm'
      <4>1. ViewFits(lost) /\ Old!DayFits(lost.frequency)
        BY <3>2 DEF OldInv, OldForm, ViewFits
      <4>2. Passed(oldUi)
        BY DEF OldInv, OldForm
      <4>3. Passed(lost)
        BY <3>2, <4>2, Zenon DEF Passed
      <4>. QED BY <3>1, <4>1, <4>3 DEF OldForm
    <3>5. OldPast' /\ OldOneEach' /\ OldPending'
      BY <2>1, <3>1 DEF OldInv, OldPast, OldOneEach, OldPending
    <3>6. OldHeld' /\ OldLoading'
      BY <2>1, <3>1, <3>2 DEF OldInv, OldHeld, OldLoading, Old!LoadingHasReason
    <3>. QED BY <3>3, <3>4, <3>5, <3>6 DEF OldInv
  <2>. QED BY <2>5, <2>6
<1>. QED BY <1>5, <1>6

LEMMA OldCreateAnsweredKeeps ==
  ASSUME OldInv, NEW i, NEW wire \in Old!Wire, Old!CreateAnswered(i, wire)
  PROVE  OldInv'
<1>1. /\ i \in DOMAIN oldCalls /\ oldCalls[i].answer = "pending" /\ oldCalls[i] \in OldCall
      /\ oldCalls \in Seq(OldCall) /\ oldVisit' = oldVisit
      /\ oldCalls[i].start \in {"none", "wanted"}
  BY DEF Old!CreateAnswered, OldInv, OldShape, OldPending, NotStarted
<1>. DEFINE starts == Old!ApiResult(wire) = "resolved" /\ oldCalls[i].start = "wanted"
            after(made) == [oldCalls[i] EXCEPT !.answer = Old!ApiResult(wire), !.made = made,
                                               !.start = IF starts THEN "sent" ELSE "none"]
            answered(made) ==
                [oldCalls EXCEPT ![i].answer = Old!ApiResult(wire), ![i].made = made,
                                 ![i].start = IF starts THEN "sent" ELSE "none"]
<1>2. PICK made \in BOOLEAN :
         IF Old!ApiResult(wire) = "resolved"
         THEN /\ oldCalls' = answered(made)
              /\ IF starts THEN UNCHANGED <<oldOpen, oldUi>> ELSE Old!Done
         ELSE Old!Failed(i, answered(made))
  BY DEF Old!CreateAnswered, Old!PerformedBy
<1>3. Old!ApiResult(wire) \in {"resolved", "rejected"}
  BY DEF Old!ApiResult
<1>. DEFINE cs == answered(made)
            c == after(made)
<1>4. /\ c \in OldCall /\ c.visit = oldCalls[i].visit /\ c.answer = Old!ApiResult(wire)
      /\ c.start = (IF starts THEN "sent" ELSE "none") /\ c.uncovered = oldCalls[i].uncovered
  BY <1>1, <1>3 DEF OldCall
<1>5. cs = [oldCalls EXCEPT ![i] = c]
  BY <1>1
<1>6. /\ NotStarted(c) /\ (Excused(oldCalls[i]) => Excused(c))
      /\ (Old!ApiResult(wire) = "rejected" => Excused(c))
      /\ (starts => Old!UnderWay(c))
  BY <1>1, <1>3, <1>4 DEF NotStarted, Excused, Old!UnderWay
<1>. HIDE DEF c, starts
<1>7. AnswerTo(i, cs) /\ cs[i] = c
  BY <1>1, <1>4, <1>5, <1>6 DEF AnswerTo, OldInv, OldPending
<1>. HIDE DEF cs
<1>8. CASE Old!ApiResult(wire) = "rejected"
  BY <1>1, <1>2, <1>6, <1>7, <1>8, FailedKeeps DEF cs
<1>9. CASE Old!ApiResult(wire) = "resolved" /\ ~starts
  BY <1>1, <1>2, <1>7, <1>9, DoneKeeps DEF cs
<1>10. CASE Old!ApiResult(wire) = "resolved" /\ starts
  <2>1. UNCHANGED <<oldOpen, oldUi, oldVisit>> /\ oldCalls' = cs
    BY <1>1, <1>2, <1>10 DEF cs
  <2>2. OldShape' /\ OldForm'
    BY <1>7, <2>1 DEF OldInv, OldShape, OldForm, AnswerTo
  <2>3. OldHeld'
    <3>1. SUFFICES ASSUME oldOpen, NEW k \in DOMAIN oldCalls, oldCalls[k].visit = oldVisit
                   PROVE  Excused(cs[k]) \/ (oldUi.isLoading /\ Old!UnderWay(cs[k]))
      BY <1>7, <2>1 DEF OldHeld, AnswerTo
    <3>2. Excused(oldCalls[k]) \/ (oldUi.isLoading /\ Old!UnderWay(oldCalls[k]))
      BY <3>1 DEF OldInv, OldHeld
    <3>. QED BY <1>1, <1>6, <1>7, <1>10, <3>2 DEF AnswerTo
  <2>4. OldLoading'
    <3>1. \A k \in DOMAIN oldCalls : Old!UnderWay(oldCalls[k]) => Old!UnderWay(cs[k])
      BY <1>1, <1>6, <1>7, <1>10 DEF AnswerTo
    <3>. QED BY <1>7, <2>1, <3>1 DEF OldInv, OldLoading, Old!LoadingHasReason, AnswerTo
  <2>. QED BY <1>1, <1>7, <2>1, <2>2, <2>3, <2>4, AnswerKeepsPast DEF OldInv
<1>. QED BY <1>3, <1>8, <1>9, <1>10

LEMMA OldStartAnsweredKeeps ==
  ASSUME OldInv, NEW i, NEW result, Old!StartAnswered(i, result)
  PROVE  OldInv'
<1>1. /\ i \in DOMAIN oldCalls /\ oldCalls[i].start = "sent" /\ oldCalls[i] \in OldCall
      /\ oldCalls \in Seq(OldCall) /\ oldVisit' = oldVisit /\ oldCalls[i].answer # "pending"
  BY DEF Old!StartAnswered, OldInv, OldShape, OldPending, NotStarted
<1>2. ASSUME NEW s \in {"started", "failed"}
      PROVE  LET cs == [oldCalls EXCEPT ![i].start = s]
             IN  AnswerTo(i, cs) /\ (s = "failed" => Excused(cs[i]))
  <2>. DEFINE c == [oldCalls[i] EXCEPT !.start = s]
              cs == [oldCalls EXCEPT ![i].start = s]
  <2>1. /\ c \in OldCall /\ c.visit = oldCalls[i].visit /\ c.answer = oldCalls[i].answer
        /\ c.start = s /\ c.uncovered = oldCalls[i].uncovered
    BY <1>1, <1>2 DEF OldCall
  <2>2. cs = [oldCalls EXCEPT ![i] = c]
    BY <1>1
  <2>3. NotStarted(c) /\ (Excused(oldCalls[i]) => Excused(c)) /\ (s = "failed" => Excused(c))
    BY <1>1, <2>1 DEF NotStarted, Excused
  <2>. HIDE DEF c
  <2>4. AnswerTo(i, cs) /\ cs[i] = c
    BY <1>1, <2>1, <2>2, <2>3 DEF AnswerTo, OldInv, OldPending
  <2>. QED BY <2>3, <2>4
<1>3. CASE result = "resolved"
  BY <1>1, <1>2, <1>3, DoneKeeps DEF Old!StartAnswered
<1>4. CASE result # "resolved"
  BY <1>1, <1>2, <1>4, FailedKeeps DEF Old!StartAnswered
<1>. QED BY <1>3, <1>4

(* The button can be pressed only when every submission of the visit is    *)
(* excused.                                                                *)
LEMMA OldSubmitKeeps ==
  ASSUME OldInv, Old!Submit
  PROVE  OldInv'
<1>. DEFINE c == Old!NewCall
            n == Len(oldCalls) + 1
            u == [oldUi EXCEPT !.isLoading = TRUE]
<1>1. oldUi \in OldUi /\ oldVisit \in Nat /\ oldCalls \in Seq(OldCall) /\ Len(oldCalls) < MaxCalls
  BY DEF Old!Submit, OldInv, OldShape
<1>2. /\ c \in OldCall /\ c.visit = oldVisit /\ c.answer = "pending" /\ NotStarted(c)
      /\ Old!UnderWay(c)
  BY <1>1 DEF Old!NewCall, OldCall, NotStarted, Old!UnderWay
<1>3. /\ oldCalls' = Append(oldCalls, c) /\ oldUi' = u /\ UNCHANGED <<oldOpen, oldVisit>>
      /\ oldOpen /\ ~oldUi.isLoading
  BY DEF Old!Submit
<1>4. /\ u \in OldUi /\ u.isLoading /\ u.catalog = oldUi.catalog /\ u.folder = oldUi.folder
      /\ u.step = oldUi.step /\ u.s3Type = oldUi.s3Type /\ u.rdsType = oldUi.rdsType
      /\ u.view = oldUi.view /\ u.s3 = oldUi.s3 /\ u.rds = oldUi.rds
      /\ u.frequency = oldUi.frequency
  BY <1>1 DEF OldUi
<1>. HIDE DEF c, u
<1>5. /\ oldCalls' \in Seq(OldCall) /\ DOMAIN oldCalls' = DOMAIN oldCalls \cup {n}
      /\ n \notin DOMAIN oldCalls /\ oldCalls'[n] = c /\ Len(oldCalls') = n
      /\ \A k \in DOMAIN oldCalls : oldCalls'[k] = oldCalls[k] /\ k < n
  BY <1>1, <1>2, <1>3
<1>6. Len(oldCalls') <= MaxCalls
  BY <1>1, <1>5, OldBounds
<1>. HIDE DEF n
<1>7. OldShape'
  BY <1>3, <1>4, <1>5, <1>6 DEF OldInv, OldShape
<1>8. OldForm'
  <2>1. ViewFits(u) /\ Old!DayFits(u.frequency)
    BY <1>4 DEF OldInv, OldForm, ViewFits
  <2>2. Passed(oldUi)
    BY DEF OldInv, OldForm
  <2>3. Passed(u)
    BY <1>4, <2>2, Zenon DEF Passed
  <2>. QED BY <1>3, <2>1, <2>3 DEF OldForm
<1>9. \A k \in DOMAIN oldCalls : oldCalls[k].visit = oldVisit => Excused(oldCalls[k])
  BY <1>3 DEF OldInv, OldHeld
<1>10. OldPast' /\ OldPending'
  BY <1>1, <1>2, <1>3, <1>5 DEF OldInv, OldPast, OldPending
<1>11. OldHeld'
  BY <1>2, <1>3, <1>4, <1>5, <1>9 DEF OldHeld
<1>12. OldOneEach'
  <2>1. SUFFICES ASSUME NEW i \in DOMAIN oldCalls', NEW j \in DOMAIN oldCalls',
                        i < j, oldCalls'[i].visit = oldCalls'[j].visit
                 PROVE  Excused(oldCalls'[i])
    BY DEF OldOneEach
  <2>2. CASE i = n
    BY <1>1, <1>5, <2>1, <2>2 DEF n
  <2>3. CASE i \in DOMAIN oldCalls /\ j = n
    BY <1>2, <1>5, <1>9, <2>1, <2>3
  <2>4. CASE i \in DOMAIN oldCalls /\ j \in DOMAIN oldCalls
    BY <1>5, <2>1, <2>4 DEF OldInv, OldOneEach
  <2>. QED BY <1>5, <2>2, <2>3, <2>4
<1>13. OldLoading'
  BY <1>2, <1>3, <1>5 DEF OldLoading, Old!LoadingHasReason
<1>. QED BY <1>7, <1>8, <1>10, <1>11, <1>12, <1>13 DEF OldInv

LEMMA OldStep == OldInv /\ [Old!Next]_oldVars => OldInv'
<1>. SUFFICES ASSUME OldInv, [Old!Next]_oldVars PROVE OldInv'
  OBVIOUS
<1>1. CASE Old!Open \/ Old!Leave \/ Old!Submit
  BY <1>1, OldOpenKeeps, OldSubmitKeeps
<1>2. CASE \/ Old!ChooseS3 \/ Old!ChooseRds
           \/ Old!SelectBuckets \/ Old!SelectRdsInstances \/ Old!SelectRdsTables
           \/ Old!ChangeRdsView \/ Old!ChangePage
  BY <1>2, OldCatalogsKeep, OldHandlerKeeps
<1>3. CASE Old!ChangeName \/ Old!ChangeFrequency
  BY <1>3, OldSettingsKeep, OldHandlerKeeps
<1>4. CASE \E requested \in 0 .. 3 : Old!Navigate(requested)
  BY <1>4, OldNavigateKeeps, OldHandlerKeeps
<1>5. CASE Old!Answer
  BY <1>5, TableAnsweredKeeps, OldCreateAnsweredKeeps, OldStartAnsweredKeeps DEF Old!Answer
<1>6. CASE UNCHANGED oldVars
  <2>1. UNCHANGED <<oldOpen, oldVisit, oldUi, oldCalls>>
    BY <1>6 DEF oldVars
  <2>2. OldShape' /\ OldForm'
    BY <2>1 DEF OldInv, OldShape, OldForm
  <2>3. OldPast' /\ OldHeld' /\ OldOneEach' /\ OldPending'
    BY <2>1 DEF OldInv, OldPast, OldHeld, OldOneEach, OldPending
  <2>4. OldLoading'
    BY <2>1 DEF OldInv, OldLoading, Old!LoadingHasReason
  <2>. QED BY <2>2, <2>3, <2>4 DEF OldInv
<1>. QED BY <1>1, <1>2, <1>3, <1>4, <1>5, <1>6 DEF Old!Next

(* The two wizards beside each other: every step is one of either.         *)
LEMMA OldInvHolds == WizardsSpec => []OldInv
<1>1. WizardsInit => OldInv
  BY OldInit DEF WizardsInit
<1>2. OldInv /\ [WizardsNext]_<<vars, oldVars>> => OldInv'
  <2>1. [WizardsNext]_<<vars, oldVars>> => [Old!Next]_oldVars
    BY DEF WizardsNext
  <2>. QED BY <2>1, OldStep
<1>. QED BY <1>1, <1>2, PTL DEF WizardsSpec

-----------------------------------------------------------------------------
(* The last two steps of the older wizard are shown for a choice that has  *)
(* something to scan, its rows are named for what they are, and its day    *)
(* fits its frequency, for any buckets, instances, tables and schedules.   *)
THEOREM OldJobsAreSound == WizardsSpec => []OldSubmitsSoundJob
<1>1. ASSUME OldInv PROVE Old!NeverEmpty
  <2>1. SUFFICES ASSUME oldUi.step >= 2
                 PROVE  LET request == Old!RequestOf(oldUi)
                        IN  /\ \/ request.allS3 \/ request.allRds
                               \/ request.s3 \cup request.instances \cup request.tables # {}
                            /\ oldUi.rdsType = "select" =>
                                  (request.instances \cup request.tables) # {}
    BY DEF Old!NeverEmpty
  <2>2. /\ oldUi.s3Type \in {"all", "select", "none"} /\ oldUi.rdsType \in {"all", "select", "none"}
        /\ ~(oldUi.s3Type = "none" /\ oldUi.rdsType = "none")
        /\ oldUi.s3Type = "select" => oldUi.s3 # {}
        /\ oldUi.rdsType = "select" => oldUi.rds # {}
        /\ oldUi.view \in {"instance", "table"}
    BY <1>1, <2>1 DEF OldInv, OldShape, OldForm, OldUi, Passed, Old!CatalogTypes
  <2>. QED BY <2>2 DEF Old!RequestOf
<1>2. OldInv => Old!RowsOfView
  BY DEF OldInv, OldForm, ViewFits, Old!RowsOfView, Old!RequestOf
<1>3. OldInv => Old!DayOfItsKind
  BY DEF OldInv, OldForm, Old!DayOfItsKind
<1>4. OldInv => OldSubmitsSoundJob
  BY <1>1, <1>2, <1>3 DEF OldSubmitsSoundJob
<1>. QED BY <1>4, OldInvHolds, PTL

(* One visit of the older wizard makes one job, but for the exceptions     *)
(* OneJobPerVisit names, and its buttons are held back for a reason, for   *)
(* any number of visits, submissions and overlapping requests.             *)
THEOREM OldWizardSubmitsOnce == WizardsSpec => []OldSubmitsOnce
<1>1. OldInv => Old!OneJobPerVisit
  BY DEF OldInv, OldOneEach, Excused, Old!OneJobPerVisit
<1>2. OldInv => Old!LoadingHasReason
  BY DEF OldInv, OldLoading, Old!LoadingHasReason
<1>3. OldInv => OldSubmitsOnce
  BY <1>1, <1>2 DEF OldSubmitsOnce
<1>. QED BY <1>3, OldInvHolds, PTL

-----------------------------------------------------------------------------
(***************************************************************************)
(* The types of both wizards.                                              *)
(***************************************************************************)
Entries ==
    [source : Sources, account : Accounts, name : Names \cup {""}, tables : SUBSET Tables]
Rows == Instances \cup TablesOfAll \cup AccountRows
UiType ==
    [step : 0 .. 4, farthest : 0 .. 4, tiles : {"loading", "shown", "stuck"},
     job : Jobs, selected : SUBSET Rows, isLoading : BOOLEAN]

LEMMA SourceTypes ==
    /\ \A p \in Providers : 1 \in DOMAIN SourcesOf(p)
    /\ \A p \in Providers : \A i \in DOMAIN SourcesOf(p) : SourcesOf(p)[i] \in Sources
    /\ \A source : Kind(source) \in Kinds
    /\ \A kind \in Kinds : ViewsOf(kind) \subseteq {"instance", "table", "account"}
<1>1. \A p \in Providers : 1 \in DOMAIN SourcesOf(p)
  BY DEF Providers, SourcesOf
<1>2. \A p \in Providers : \A i \in DOMAIN SourcesOf(p) : SourcesOf(p)[i] \in Sources
  <2>1. SUFFICES ASSUME NEW p \in Providers, NEW i \in DOMAIN SourcesOf(p)
                 PROVE  SourcesOf(p)[i] \in Sources
    OBVIOUS
  <2>. DEFINE of(q) == {SourcesOf(q)[k] : k \in DOMAIN SourcesOf(q)}
  <2>2. SourcesOf(p)[i] \in of(p) /\ of(p) \in {of(q) : q \in Providers}
    OBVIOUS
  <2>. HIDE DEF of
  <2>3. SourcesOf(p)[i] \in UNION {of(q) : q \in Providers}
    BY <2>2
  <2>. QED BY <2>3 DEF Sources, of
<1>3. \A source : Kind(source) \in Kinds
  BY DEF Kind, Kinds
<1>4. \A kind \in Kinds : ViewsOf(kind) \subseteq {"instance", "table", "account"}
  BY DEF ViewsOf, Kinds
<1>. QED BY <1>1, <1>2, <1>3, <1>4

(* The callbacks of the page keep the type of jobData.                     *)
LEMMA JobTypes ==
  ASSUME NEW j \in Jobs
  PROVE  /\ \A s \in Sources : WithSource(j, s) \in Jobs
         /\ \A p \in Providers : WithProvider(j, p) \in Jobs
         /\ \A all \in BOOLEAN : WithAll(j, all) \in Jobs
         /\ \A entries \in SUBSET Entries : WithDatabases(j, entries) \in Jobs
         /\ \A v \in {"instance", "table", "account"} : WithView(j, v) \in Jobs
         /\ \A rule \in DOMAIN NoRules, text \in SUBSET (Words \cup Extensions) :
               WithRule(j, rule, text) \in Jobs
<1>1. ASSUME NEW k \in Jobs, NEW s \in Sources PROVE WithSource(k, s) \in Jobs
  BY <1>1 DEF WithSource, Jobs
<1>2. ASSUME NEW p \in Providers PROVE WithProvider(j, p) \in Jobs
  <2>. DEFINE k == [j EXCEPT !.provider = p]
  <2>1. k \in Jobs
    BY <1>2 DEF Jobs
  <2>. DEFINE offered == SourcesOf(p)
              source == IF \E i \in DOMAIN offered : offered[i] = j.source
                        THEN j.source ELSE offered[1]
  <2>2. source \in Sources
    <3>1. j.source \in Sources
      BY DEF Jobs
    <3>. QED BY <3>1, <1>2, SourceTypes
  <2>3. WithProvider(j, p) = WithSource(k, source)
    BY DEF WithProvider
  <2>. HIDE DEF k, source
  <2>. QED BY <1>1, <2>1, <2>2, <2>3
<1>3. ASSUME NEW all \in BOOLEAN PROVE WithAll(j, all) \in Jobs
  BY <1>3 DEF WithAll, Jobs
<1>4. ASSUME NEW entries \in SUBSET Entries PROVE WithDatabases(j, entries) \in Jobs
  BY <1>4 DEF WithDatabases, Jobs, Entries
<1>5. ASSUME NEW v \in {"instance", "table", "account"} PROVE WithView(j, v) \in Jobs
  <2>1. Kind(j.source) \in Kinds
    BY SourceTypes
  <2>2. [j.view EXCEPT ![Kind(j.source)] = v] \in [Kinds -> {"instance", "table", "account"}]
    BY <1>5, <2>1 DEF Jobs
  <2>3. WithView(j, v) = [j EXCEPT !.view = [j.view EXCEPT ![Kind(j.source)] = v],
                                   !.databases = {}]
    BY DEF WithView
  <2>. QED BY <2>2, <2>3 DEF Jobs
<1>6. ASSUME NEW rule \in DOMAIN NoRules, NEW text \in SUBSET (Words \cup Extensions)
      PROVE  WithRule(j, rule, text) \in Jobs
  <2>1. [j.rules EXCEPT ![rule] = text] \in [DOMAIN NoRules -> SUBSET (Words \cup Extensions)]
    BY <1>6 DEF Jobs
  <2>2. WithRule(j, rule, text) = [j EXCEPT !.rules = [j.rules EXCEPT ![rule] = text]]
    BY DEF WithRule
  <2>. QED BY <2>1, <2>2 DEF Jobs
<1>. QED BY <1>1, <1>2, <1>3, <1>4, <1>5, <1>6

(* What is ticked becomes entries of the request, whatever the view.       *)
LEMMA EntryTypes ==
  ASSUME NEW source \in Sources
  PROVE  /\ \A rows \in SUBSET Instances : OfInstances(source, rows) \subseteq SUBSET Entries
         /\ \A rows \in SUBSET Instances : OfBuckets(source, rows) \subseteq SUBSET Entries
         /\ \A rows \in SUBSET Instances : OfGlueDatabases(source, rows) \subseteq SUBSET Entries
         /\ \A rows \in SUBSET AccountRows : OfAccounts(source, rows) \subseteq SUBSET Entries
         /\ \A rows \in SUBSET TablesOfAll : OfTables(source, rows) \subseteq SUBSET Entries
<1>1. \A account \in Accounts, name \in Names \cup {""}, tables \in SUBSET Tables :
         Entry(source, account, name, tables) \in Entries
  BY DEF Entry, Entries
<1>. HIDE DEF Entry
<1>2. ASSUME NEW rows \in SUBSET Instances
      PROVE  {Entry(source, r.account, r.name, {}) : r \in rows} \in SUBSET Entries
  <2>1. ASSUME NEW r \in rows PROVE Entry(source, r.account, r.name, {}) \in Entries
    <3>1. r.account \in Accounts /\ r.name \in Names \cup {""} /\ {} \in SUBSET Tables
      BY <1>2 DEF Instances
    <3>. QED BY <1>1, <3>1
  <2>. QED BY <2>1
<1>3. ASSUME NEW rows \in SUBSET AccountRows
      PROVE  {Entry(source, r.account, "", {}) : r \in rows} \in SUBSET Entries
  <2>1. ASSUME NEW r \in rows PROVE Entry(source, r.account, "", {}) \in Entries
    <3>1. r.account \in Accounts /\ "" \in Names \cup {""} /\ {} \in SUBSET Tables
      BY <1>3 DEF AccountRows
    <3>. QED BY <1>1, <3>1
  <2>. QED BY <2>1
<1>4. ASSUME NEW rows \in SUBSET TablesOfAll
      PROVE  OfTables(source, rows) \subseteq SUBSET Entries
  <2>. DEFINE names == {r.name : r \in rows}
              group(n) == {r \in rows : r.name = n}
              made(f) == {Entry(source, f[n].account, n, {r.table : r \in group(n)}) : n \in names}
  <2>1. names \subseteq Names /\ \A n : {r.table : r \in group(n)} \in SUBSET Tables
    BY <1>4 DEF TablesOfAll
  <2>2. ASSUME NEW f \in [names -> rows] PROVE made(f) \in SUBSET Entries
    <3>1. ASSUME NEW n \in names
          PROVE  Entry(source, f[n].account, n, {r.table : r \in group(n)}) \in Entries
      <4>1. f[n].account \in Accounts
        BY <1>4, <2>2, <3>1 DEF TablesOfAll
      <4>2. n \in Names \cup {""}
        BY <2>1, <3>1
      <4>3. {r.table : r \in group(n)} \in SUBSET Tables
        BY <2>1
      <4>. HIDE DEF names, group
      <4>. QED BY <1>1, <4>1, <4>2, <4>3
    <3>. QED BY <3>1
  <2>. QED BY <2>2 DEF OfTables
<1>. QED BY <1>2, <1>3, <1>4 DEF OfInstances, OfBuckets, OfGlueDatabases, OfAccounts

SettingsType ==
    [named : BOOLEAN, frequency : Frequency, structured : BOOLEAN, unstructured : BOOLEAN]

Typed ==
    ui \in UiType /\ offer \in Offers \cup {{}} /\ Len(calls) <= MaxCalls

LEMMA MountedTyped == Mounted \in UiType
<1>1. InitSettings \in SettingsType
  BY DEF InitSettings, SettingsType, Frequency, FrequencyTypes
<1>2. NoRules \in [DOMAIN NoRules -> SUBSET (Words \cup Extensions)]
  BY DEF NoRules
<1>3. [k \in Kinds |-> "instance"] \in [Kinds -> {"instance", "table", "account"}]
  OBVIOUS
<1>4. 1 \in Providers /\ SourcesOf(1)[1] \in Sources
  BY SourceTypes DEF Providers
<1>. HIDE DEF Frequency
<1>5. InitJob \in Jobs
  BY <1>1, <1>2, <1>3, <1>4 DEF InitJob, Jobs, SettingsType
<1>. QED BY <1>5 DEF Mounted, UiType

LEMMA FormTyped ==
  ASSUME Typed
  PROVE  /\ job \in Jobs /\ job.source \in Sources /\ job.provider \in Providers
         /\ job.settings \in SettingsType /\ job.all \in BOOLEAN
         /\ \A j \in Jobs : [ui EXCEPT !.job = j] \in UiType
         /\ \A j \in Jobs, ticked \in SUBSET Rows :
               [ui EXCEPT !.selected = ticked, !.job = j] \in UiType
         /\ \A t \in {"loading", "shown", "stuck"} : [ui EXCEPT !.tiles = t] \in UiType
<1>1. job \in Jobs
  BY DEF Typed, UiType, job
<1>2. /\ job.source \in Sources /\ job.provider \in Providers
      /\ job.settings \in SettingsType /\ job.all \in BOOLEAN
  BY <1>1 DEF Jobs, SettingsType
<1>3. /\ \A j \in Jobs : [ui EXCEPT !.job = j] \in UiType
      /\ \A t \in {"loading", "shown", "stuck"} : [ui EXCEPT !.tiles = t] \in UiType
  BY DEF Typed, UiType
<1>4. \A j \in Jobs, ticked \in SUBSET Rows : [ui EXCEPT !.selected = ticked, !.job = j] \in UiType
  BY DEF Typed, UiType
<1>. QED BY <1>1, <1>2, <1>3, <1>4

LEMMA Step0Typed ==
  ASSUME Typed, Step0 \/ \E wire \in Wire : ProvidersAnswered(wire)
  PROVE  ui' \in UiType
<1>1. CASE Step0
  <2>1. ASSUME NEW p \in Providers, At(0, [ui EXCEPT !.job = WithProvider(@, p)])
        PROVE  ui' \in UiType
    BY <2>1, FormTyped, JobTypes DEF At, job
  <2>2. ASSUME NEW i \in DOMAIN SourcesOf(job.provider),
               At(0, [ui EXCEPT !.job = WithSource(@, SourcesOf(job.provider)[i])])
        PROVE  ui' \in UiType
    <3>1. SourcesOf(job.provider)[i] \in Sources
      BY FormTyped, SourceTypes
    <3>. QED BY <2>2, <3>1, FormTyped, JobTypes DEF At, job
  <2>. QED BY <1>1, <2>1, <2>2 DEF Step0
<1>2. ASSUME NEW wire \in Wire, ProvidersAnswered(wire)
      PROVE  ui' \in UiType
  BY <1>2, FormTyped DEF ProvidersAnswered, At
<1>. QED BY <1>1, <1>2

LEMMA Step1Typed ==
  ASSUME Typed, Step1
  PROVE  ui' \in UiType
<1>1. CASE ChooseAll
  <2>1. WithAll(job, ~job.all) \in Jobs
    BY FormTyped, JobTypes
  <2>. QED BY <1>1, <2>1, FormTyped DEF ChooseAll, At, job
<1>2. CASE ChangeView
  <2>1. PICK v \in ViewsOf(Kind(job.source)) : At(1, [ui EXCEPT !.selected = {}, !.job = WithView(@, v)])
    BY <1>2 DEF ChangeView
  <2>2. v \in {"instance", "table", "account"}
    BY SourceTypes
  <2>3. WithView(job, v) \in Jobs /\ {} \in SUBSET Rows
    BY <2>2, FormTyped, JobTypes
  <2>. QED BY <2>1, <2>3, FormTyped DEF At, job
<1>3. ASSUME NEW kind, NEW view, NEW ticked \in SUBSET Rows, NEW entries \in SUBSET Entries,
             Select(kind, view, ticked, entries)
      PROVE  ui' \in UiType
  <2>1. WithDatabases(job, entries) \in Jobs
    BY FormTyped, JobTypes
  <2>2. ui' = [ui EXCEPT !.selected = ticked, !.job = WithDatabases(job, entries)]
    BY <1>3 DEF Select, At, job
  <2>. QED BY <2>1, <2>2, FormTyped
<1>4. /\ \A rows \in SUBSET Instances : OfInstances(job.source, rows) \subseteq SUBSET Entries
      /\ \A rows \in SUBSET Instances : OfBuckets(job.source, rows) \subseteq SUBSET Entries
      /\ \A rows \in SUBSET Instances : OfGlueDatabases(job.source, rows) \subseteq SUBSET Entries
      /\ \A rows \in SUBSET AccountRows : OfAccounts(job.source, rows) \subseteq SUBSET Entries
      /\ \A rows \in SUBSET TablesOfAll : OfTables(job.source, rows) \subseteq SUBSET Entries
  BY FormTyped, EntryTypes
<1>5. SUBSET Instances \subseteq SUBSET Rows /\ SUBSET TablesOfAll \subseteq SUBSET Rows
      /\ SUBSET AccountRows \subseteq SUBSET Rows
  BY DEF Rows
<1>6. CASE SelectBuckets \/ SelectRdsInstances \/ SelectRdsTables
  BY <1>3, <1>4, <1>5, <1>6 DEF SelectBuckets, SelectRdsInstances, SelectRdsTables
<1>7. CASE SelectGlueDatabases \/ SelectGlueTables \/ SelectGlueAccounts
  BY <1>3, <1>4, <1>5, <1>7 DEF SelectGlueDatabases, SelectGlueTables, SelectGlueAccounts
<1>8. CASE SelectJdbcInstances \/ SelectJdbcTables
  BY <1>3, <1>4, <1>5, <1>8 DEF SelectJdbcInstances, SelectJdbcTables
<1>. QED BY <1>1, <1>2, <1>6, <1>7, <1>8 DEF Step1

LEMMA SettingsTyped ==
  ASSUME Typed, ChangeName \/ ChangeFrequency \/ ChangeDepth \/ ChangeRules
  PROVE  ui' \in UiType
<1>1. ASSUME NEW settings \in SettingsType, Step2(settings)
      PROVE  ui' \in UiType
  <2>1. WithSettings(job, settings) \in Jobs
    BY FormTyped DEF WithSettings, Jobs, SettingsType
  <2>. QED BY <1>1, <2>1, FormTyped DEF Step2, At, job
<1>2. job.settings \in SettingsType
  BY FormTyped
<1>3. CASE ChangeName
  <2>1. [job.settings EXCEPT !.named = ~@] \in SettingsType
    BY <1>2 DEF SettingsType
  <2>. QED BY <1>1, <1>3, <2>1 DEF ChangeName
<1>4. CASE ChangeFrequency
  <2>1. \A f \in Frequency : [job.settings EXCEPT !.frequency = f] \in SettingsType
    BY <1>2 DEF SettingsType
  <2>2. Schedules \subseteq Frequency
    BY WizardAssumption
  <2>. QED BY <1>1, <1>4, <2>1, <2>2 DEF ChangeFrequency
<1>5. CASE ChangeDepth
  <2>1. /\ [job.settings EXCEPT !["structured"] = ~@] \in SettingsType
        /\ [job.settings EXCEPT !["unstructured"] = ~@] \in SettingsType
        /\ [job.settings EXCEPT !.structured = TRUE] \in SettingsType
    BY <1>2 DEF SettingsType
  <2>2. PICK settings \in {[job.settings EXCEPT !["structured"] = ~@],
                           [job.settings EXCEPT !["unstructured"] = ~@],
                           [job.settings EXCEPT !.structured = TRUE]} : Step2(settings)
    BY <1>5 DEF ChangeDepth
  <2>. QED BY <1>1, <2>1, <2>2
<1>6. CASE ChangeRules
  <2>1. ASSUME NEW rule \in DOMAIN NoRules, NEW text \in SUBSET (Words \cup Extensions),
               At(3, [ui EXCEPT !.job = WithRule(@, rule, text)])
        PROVE  ui' \in UiType
    BY <2>1, FormTyped, JobTypes DEF At, job
  <2>2. {"exclude", "include", "excludeFiles", "includeFiles"} \subseteq DOMAIN NoRules
    BY DEF NoRules
  <2>. QED BY <1>6, <2>1, <2>2 DEF ChangeRules
<1>. QED BY <1>3, <1>4, <1>5, <1>6

LEMMA NavigateTyped ==
  ASSUME Typed, NEW requested \in 0 .. 4, Navigate(requested)
  PROVE  ui' \in UiType
<1>. DEFINE j == CASE requested = 0 -> WithSource(job, job.source)
                   [] requested = 1 -> WithDatabases(job, {})
                   [] OTHER -> job
            far == IF requested > ui.farthest THEN requested ELSE ui.farthest
<1>1. WithSource(job, job.source) \in Jobs /\ WithDatabases(job, {}) \in Jobs /\ job \in Jobs
  BY FormTyped, JobTypes
<1>2. j \in Jobs
  BY <1>1
<1>3. far \in 0 .. 4
  BY DEF Typed, UiType
<1>4. ui' = [ui EXCEPT !.step = requested, !.farthest = far, !.tiles = "loading",
                       !.selected = {}, !.job = j]
  BY DEF Navigate, At, ShowStep, job
<1>. HIDE DEF j, far
<1>. QED BY <1>2, <1>3, <1>4 DEF Typed, UiType

LEMMA TypedStep ==
  ASSUME WizardInv, WizardInv', Typed, [Next]_vars
  PROVE  Typed'
<1>1. CASE Open
  <2>1. ui' \in UiType
    BY <1>1, MountedTyped DEF Open
  <2>. QED BY <1>1, <2>1 DEF Open, Typed
<1>2. CASE Leave
  <2>1. ui' \in UiType
    BY <1>2, MountedTyped DEF Leave
  <2>. QED BY <1>2, <2>1 DEF Leave, Typed
<1>3. ASSUME NEW s, NEW c, At(s, c), ui' \in UiType
      PROVE  Typed'
  BY <1>3 DEF At, Typed
<1>4. CASE Step0
  BY <1>4, Step0Typed DEF Step0, At, Typed
<1>5. CASE Step1
  <2>1. UNCHANGED <<calls, offer>>
    BY <1>5 DEF Step1, ChooseAll, ChangeView, SelectBuckets, SelectRdsInstances, SelectRdsTables,
         SelectGlueDatabases, SelectGlueTables, SelectGlueAccounts, SelectJdbcInstances,
         SelectJdbcTables, Select, At
  <2>. QED BY <1>5, <2>1, Step1Typed DEF Typed
<1>6. CASE ChangeName \/ ChangeFrequency \/ ChangeDepth \/ ChangeRules
  <2>1. UNCHANGED <<calls, offer>>
    BY <1>6 DEF ChangeName, ChangeFrequency, ChangeDepth, ChangeRules, Step2, At
  <2>. QED BY <1>6, <2>1, SettingsTyped DEF Typed
<1>7. ASSUME NEW requested \in 0 .. 4, Navigate(requested)
      PROVE  Typed'
  <2>1. UNCHANGED <<calls, offer>>
    BY <1>7 DEF Navigate, At
  <2>. QED BY <1>7, <2>1, NavigateTyped DEF Typed
<1>8. CASE Submit
  <2>1. ui' \in UiType
    BY <1>8 DEF Submit, Typed, UiType
  <2>2. Len(calls) \in Nat /\ Len(calls') = Len(calls) + 1 /\ Len(calls) < MaxCalls
    BY <1>8 DEF Submit, WizardInv, Shape
  <2>3. Len(calls') <= MaxCalls
    BY <2>2, WizardAssumption
  <2>. QED BY <1>8, <2>1, <2>3 DEF Submit, Typed
<1>9. CASE \E wire \in Wire : ProvidersAnswered(wire)
  <2>1. UNCHANGED <<calls, offer>>
    BY <1>9 DEF ProvidersAnswered, At
  <2>. QED BY <1>9, <2>1, Step0Typed DEF Typed
<1>10. ASSUME NEW wire \in Wire, NEW i, CreateAnswered(i, wire)
       PROVE  Typed'
  <2>1. ui' = Mounted \/ ui' = Freed(ui) \/ ui' = ui
    BY <1>10 DEF CreateAnswered
  <2>2. ui' \in UiType
    BY <2>1, MountedTyped DEF Typed, UiType, Freed
  <2>3. Len(calls') = Len(calls) /\ offer' = offer
    BY <1>10 DEF CreateAnswered, WizardInv, Shape
  <2>. QED BY <2>2, <2>3 DEF Typed
<1>11. ASSUME NEW wire \in Wire, NEW i, StartAnswered(i, wire)
       PROVE  Typed'
  <2>1. UNCHANGED <<ui, offer>> /\ Len(calls') = Len(calls)
    BY <1>11 DEF StartAnswered, WizardInv, Shape
  <2>. QED BY <2>1 DEF Typed
<1>12. CASE UNCHANGED vars
  BY <1>12 DEF vars, Typed
<1>. QED BY <1>1, <1>2, <1>4, <1>5, <1>6, <1>7, <1>8, <1>9, <1>10, <1>11, <1>12 DEF Next, Answer

LEMMA WizardBeside == WizardsSpec => Spec
<1>1. WizardsInit => Init
  BY DEF WizardsInit
<1>2. [WizardsNext]_<<vars, oldVars>> => [Next]_vars
  BY DEF WizardsNext
<1>. QED BY <1>1, <1>2, PTL DEF WizardsSpec, Spec

(* The state of both wizards keeps its types, whatever is picked, answered *)
(* and submitted.                                                          *)
THEOREM WizardsTypeCorrect == WizardsSpec => []TypesOK
<1>1. Init => Typed
  BY MountedTyped, WizardAssumption DEF Init, Typed
<1>2. WizardInv /\ WizardInv' /\ Typed /\ [Next]_vars => Typed'
  BY TypedStep
<1>3. ASSUME WizardInv, Typed PROVE TypeOK
  <2>1. ui \in UiType /\ offer \in Offers \cup {{}} /\ Len(calls) <= MaxCalls
    BY <1>3 DEF Typed
  <2>2. open \in BOOLEAN /\ visit \in Nat /\ calls \in Seq(Call)
    BY <1>3 DEF WizardInv, Shape
  <2>3. \A i \in DOMAIN calls :
          /\ calls[i].answer \in {"pending", "resolved", "rejected"}
          /\ calls[i].start \in {"none", "wanted", "sent", "started", "failed"}
    <3>1. \A i \in DOMAIN calls : calls[i] \in Call
      BY <2>2
    <3>. QED BY <3>1 DEF Call
  <2>. QED BY <2>1, <2>2, <2>3 DEF TypeOK, UiType, Rows
<1>4. ASSUME OldInv PROVE Old!TypeOK
  <2>1. /\ oldUi \in OldUi /\ oldUi.catalog + oldUi.folder <= MaxFetches
        /\ oldOpen \in BOOLEAN /\ oldVisit \in Nat /\ Len(oldCalls) <= MaxCalls
    BY <1>4 DEF OldInv, OldShape
  <2>2. oldUi.catalog \in 0 .. MaxFetches /\ oldUi.folder \in 0 .. MaxFetches
    BY <2>1, OldBounds DEF OldUi
  <2>. QED BY <2>1, <2>2 DEF OldUi, Old!TypeOK
<1>5. WizardInv /\ Typed /\ OldInv => TypesOK
  BY <1>3, <1>4 DEF TypesOK
<1>6. Spec => []Typed
  BY <1>1, <1>2, WizardInvHolds, PTL DEF Spec
<1>. QED BY <1>5, <1>6, WizardBeside, WizardInvHolds, OldInvHolds, PTL
=============================================================================
