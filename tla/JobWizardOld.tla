---------------------------- MODULE JobWizardOld ----------------------------
(***************************************************************************)
(* The older wizard for discovery jobs, still routed at /createjob-old     *)
(* (portal/src/pages/create-job/indexOld.tsx): four steps over the state   *)
(* of one component.  It is entered by its URL, without the state that     *)
(* would make it copy a job.  The tables of its first two steps, the       *)
(* answers to their requests and the submission share the flag isLoading.  *)
(***************************************************************************)
EXTENDS ApiClient, JobCron, Sequences, FiniteSets

CONSTANTS
    Buckets,        \* rows of the table of buckets
    RdsInstances,   \* rows of the table of RDS instances
    RdsTables,      \* rows of the table of RDS tables
    RdsTypes,       \* bound: the tiles of RDS the user picks from
    RdsLimit,       \* items allowed for RDS (50 in the code)
    Schedules,      \* the frequencies the user of the third step picks from
    MaxPage,        \* bound: pages of a table
    MaxFetches,     \* bound: requests for a table that overlap
    MaxVisits,      \* bound: how often the page is mounted
    MaxCalls        \* bound: calls of createJob in one behaviour

VARIABLES
    open,           \* the page /createjob-old is shown
    visit,          \* how often it has been mounted
    ui,             \* the state of the mounted component
    calls           \* the calls of createJob and what became of them

vars == <<open, visit, ui, calls>>

CatalogTypes == {"", "all", "select", "none"}

(* The select of the day lists the days of the type that was chosen.       *)
DayFits(f) ==
    CASE f.type = "weekly" -> f.day.of \in {"none", "week"}
      [] f.type = "monthly" -> f.day.of \in {"none", "month"}
      [] OTHER -> f.day = NoDay

OldWizardAssumption ==
    /\ RdsInstances \cap RdsTables = {} /\ RdsTypes \subseteq CatalogTypes \ {""}
    /\ Schedules \subseteq Frequency /\ \A f \in Schedules : DayFits(f)
    /\ {RdsLimit, MaxFetches, MaxVisits, MaxCalls} \subseteq Nat /\ MaxPage \in Nat \ {0}

-----------------------------------------------------------------------------
NoFrequency == [type |-> "on_demand_run", day |-> NoDay, hour |-> 0]

(* The state of CreateJobContent when it is mounted.  catalog and folder   *)
(* count the requests of getDataBaseByType and searchCatalogTables that    *)
(* are not answered; lost says that one of the former was rejected since   *)
(* the flag isLoading was last lowered.                                    *)
Mounted ==
    [step |-> 0, farthest |-> 0, s3Type |-> "", rdsType |-> "", view |-> "instance",
     s3 |-> {}, rds |-> {}, page |-> 1, named |-> FALSE, frequency |-> NoFrequency,
     isLoading |-> FALSE, catalog |-> 0, folder |-> 0, lost |-> FALSE]

Init == open = FALSE /\ visit = 0 /\ ui = Mounted /\ calls = << >>

Open ==
    /\ ~open /\ open' = TRUE
    /\ visit < MaxVisits /\ visit' = visit + 1
    /\ ui' = Mounted /\ UNCHANGED calls

Leave ==
    /\ open /\ open' = FALSE
    /\ ui' = Mounted /\ UNCHANGED <<visit, calls>>

-----------------------------------------------------------------------------
(***************************************************************************)
(* The effect on the tiles, the filters, the page and the view             *)
(***************************************************************************)

(* getS3CatalogData and getRdsCatalogData: the flag is raised.             *)
GetCatalogData(u) == [u EXCEPT !.isLoading = TRUE, !.catalog = @ + 1]

(* getRdsFolderData does not raise it, but lowers it.                      *)
GetRdsFolderData(u) == [u EXCEPT !.folder = @ + 1]

(* Buckets are fetched in the first step; in the second one the selection  *)
(* is cleared and instances or tables are fetched.                         *)
(* Mutant: only the table of instances starts with nothing ticked.         *)
MutantFetched(u) ==
    CASE u.step = 0 /\ u.s3Type = "select" -> GetCatalogData(u)
      [] u.step = 1 /\ u.rdsType = "select" /\ u.view = "instance" ->
            GetCatalogData([u EXCEPT !.rds = {}])
      [] u.step = 1 /\ u.rdsType = "select" /\ u.view = "table" -> GetRdsFolderData(u)
      [] OTHER -> u

Fetched(u) ==
    CASE u.step = 0 /\ u.s3Type = "select" -> GetCatalogData(u)
      [] u.step = 1 /\ u.rdsType = "select" /\ u.view = "instance" ->
            GetCatalogData([u EXCEPT !.rds = {}])
      [] u.step = 1 /\ u.rdsType = "select" /\ u.view = "table" ->
            GetRdsFolderData([u EXCEPT !.rds = {}])
      [] OTHER -> u

(* The effect on activeStepIndex goes to the first page, which is a change *)
(* of the page for the effect above when another page was shown.           *)
(* Mutant: pages are counted from zero.                                    *)
MutantStepped(u) == IF u.page = 1 THEN u ELSE Fetched([u EXCEPT !.page = 0])

Stepped(u) == IF u.page = 1 THEN u ELSE Fetched([u EXCEPT !.page = 1])

At(step, change) ==
    /\ open /\ ui.step = step
    /\ ui' = change
    /\ ui'.catalog + ui'.folder <= MaxFetches
    /\ UNCHANGED <<open, visit, calls>>

-----------------------------------------------------------------------------
(***************************************************************************)
(* Steps 0 and 1: the catalogs                                             *)
(***************************************************************************)
ChooseS3 ==
    \E type \in CatalogTypes \ {"", ui.s3Type} :
        At(0, Fetched([ui EXCEPT !.s3Type = type]))

ChooseRds ==
    \E type \in RdsTypes \ {ui.rdsType} :
        At(1, Fetched([ui EXCEPT !.rdsType = type]))

SelectBuckets ==
    /\ ui.s3Type = "select"
    /\ \E rows \in (SUBSET Buckets) \ {ui.s3} : At(0, [ui EXCEPT !.s3 = rows])

SelectRdsInstances ==
    /\ ui.rdsType = "select" /\ ui.view = "instance"
    /\ \E rows \in (SUBSET RdsInstances) \ {ui.rds} : At(1, [ui EXCEPT !.rds = rows])

SelectRdsTables ==
    /\ ui.rdsType = "select" /\ ui.view = "table"
    /\ \E rows \in (SUBSET RdsTables) \ {ui.rds} : At(1, [ui EXCEPT !.rds = rows])

ChangeRdsView ==
    /\ ui.rdsType = "select"
    /\ \E view \in {"instance", "table"} \ {ui.view} :
          At(1, Fetched([ui EXCEPT !.view = view]))

(* The pagination and the filter of the table that is shown.               *)
ChangePage ==
    /\ IF ui.step = 0 THEN ui.s3Type = "select" ELSE ui.rdsType = "select"
    /\ \E step \in {0, 1}, page \in 1 .. MaxPage :
          At(step, Fetched([ui EXCEPT !.page = page]))

(* The answers; a request for the catalog that is rejected leaves the flag *)
(* as it is, every other answer lowers it, whatever raised it.             *)
Lower(u) == [u EXCEPT !.isLoading = FALSE, !.lost = FALSE]

(* A submission of this visit that is under way loses the flag to whatever *)
(* else lowers it.                                                         *)
UnderWay(call) == call.answer = "pending" \/ call.start = "sent"

Uncovered(submissions) ==
    [i \in DOMAIN submissions |->
        IF submissions[i].visit = visit /\ UnderWay(submissions[i])
        THEN [submissions[i] EXCEPT !.uncovered = TRUE] ELSE submissions[i]]

CatalogAnswered(result) ==
    /\ open /\ ui.catalog > 0
    /\ LET left == [ui EXCEPT !.catalog = @ - 1]
       IN  IF result = "resolved"
           THEN ui' = Lower(left) /\ calls' = Uncovered(calls)
           ELSE ui' = [left EXCEPT !.lost = TRUE] /\ UNCHANGED calls
    /\ UNCHANGED <<open, visit>>

FolderAnswered ==
    /\ open /\ ui.folder > 0
    /\ ui' = Lower([ui EXCEPT !.folder = @ - 1]) /\ calls' = Uncovered(calls)
    /\ UNCHANGED <<open, visit>>

-----------------------------------------------------------------------------
(***************************************************************************)
(* Step 2: the settings                                                    *)
(***************************************************************************)
ChangeName == At(2, [ui EXCEPT !.named = ~@])

(* A change of the type forgets the day and the hour.                      *)
(* Mutant: the day survives a change of the type.                          *)
MutantChangeFrequency ==
    \E f \in Schedules :
        \/ /\ f.type = ui.frequency.type /\ f # ui.frequency
           /\ At(2, [ui EXCEPT !.frequency = f])
        \/ /\ f.type # ui.frequency.type
           /\ At(2, [ui EXCEPT !.frequency.type = f.type])

ChangeFrequency ==
    \E f \in Schedules :
        IF f.type = ui.frequency.type
        THEN /\ f # ui.frequency
             /\ At(2, [ui EXCEPT !.frequency = f])
        ELSE At(2, [ui EXCEPT !.frequency = [NoFrequency EXCEPT !.type = f.type]])

-----------------------------------------------------------------------------
(***************************************************************************)
(* Moving between the steps                                                *)
(***************************************************************************)
NothingToScan == ui.s3Type = "none" /\ ui.rdsType = "none"

(* checkMustData, which guards the way back as well.                       *)
(* Mutant: RDS is checked for too many rows only.                          *)
MutantCheckMustData(requested) ==
    /\ ui.s3Type = "select" /\ ui.s3 = {} => requested = 0
    /\ ui.rdsType = "select" /\ Cardinality(ui.rds) > RdsLimit => requested = 1
    /\ NothingToScan => requested < 2
    /\ ui.s3Type = "" => requested = 0
    /\ ui.rdsType = "" => requested \in {0, 1}
    /\ requested = 3 => ui.named

CheckMustData(requested) ==
    /\ ui.s3Type = "select" /\ ui.s3 = {} => requested = 0
    /\ ui.rdsType = "select" /\ (ui.rds = {} \/ Cardinality(ui.rds) > RdsLimit) =>
          requested = 1
    /\ NothingToScan => requested < 2
    /\ ui.s3Type = "" => requested = 0
    /\ ui.rdsType = "" => requested \in {0, 1}
    /\ requested = 3 => ui.named

Navigate(requested) ==
    /\ ~ui.isLoading
    /\ requested # ui.step
    /\ requested <= ui.farthest \/ requested = ui.step + 1
    /\ CheckMustData(requested)
    /\ At(ui.step, Stepped([ui EXCEPT !.step = requested,
                                !.farthest = IF requested > @ THEN requested ELSE @]))

-----------------------------------------------------------------------------
(***************************************************************************)
(* Submission                                                              *)
(***************************************************************************)

(* What the request says: the schedule, and for S3 and RDS whether all are *)
(* scanned and which rows are named.                                       *)
RequestOf(u) ==
    [schedule |-> OldScheduleOf(u.frequency),
     allS3 |-> u.s3Type = "all", allRds |-> u.rdsType = "all",
     s3 |-> IF u.s3Type = "select" THEN u.s3 ELSE {},
     instances |-> IF u.rdsType = "select" /\ u.view = "instance" THEN u.rds ELSE {},
     tables |-> IF u.rdsType = "select" /\ u.view = "table" THEN u.rds ELSE {}]

(* A call: uncovered says that the button came back while it was pending.  *)
NewCall ==
    [visit |-> visit, answer |-> "pending", made |-> FALSE, uncovered |-> FALSE,
     start |-> IF ui.frequency.type = "on_demand_run" THEN "wanted" ELSE "none"]

(* Mutant: the button is not held back while a call is pending.            *)
MutantSubmit ==
    /\ open /\ ui.step = 3
    /\ Len(calls) < MaxCalls
    /\ ~NothingToScan
    /\ ui.s3Type = "select" => ui.s3 # {}
    /\ ui.rdsType = "select" => ui.rds # {}
    /\ ui' = [ui EXCEPT !.isLoading = TRUE]
    /\ calls' = Append(calls, NewCall)
    /\ UNCHANGED <<open, visit>>

Submit ==
    /\ open /\ ui.step = 3 /\ ~ui.isLoading
    /\ Len(calls) < MaxCalls
    /\ ~NothingToScan
    /\ ui.s3Type = "select" => ui.s3 # {}
    /\ ui.rdsType = "select" => ui.rds # {}
    /\ ui' = [ui EXCEPT !.isLoading = TRUE]
    /\ calls' = Append(calls, NewCall)
    /\ UNCHANGED <<open, visit>>

(* The list of jobs is shown, from wherever the user is.                   *)
Done == open' = FALSE /\ ui' = Mounted

(* The form can be submitted again, if it is still there: call i of the    *)
(* submissions has failed.                                                 *)
(* Mutant: the button keeps its loading state.                             *)
MutantFailed(i, submissions) == calls' = submissions /\ UNCHANGED <<open, ui>>

Failed(i, submissions) ==
    /\ UNCHANGED open
    /\ IF open /\ visit = calls[i].visit
       THEN ui' = Lower(ui) /\ calls' = Uncovered(submissions)
       ELSE ui' = ui /\ calls' = submissions

(* A job that is on demand is started, and the answer is awaited.          *)
CreateAnswered(i, wire) ==
    /\ i \in DOMAIN calls /\ calls[i].answer = "pending"
    /\ LET starts == ApiResult(wire) = "resolved" /\ calls[i].start = "wanted"
       IN  \E made \in PerformedBy(wire) :
             LET answered ==
                   [calls EXCEPT ![i].answer = ApiResult(wire), ![i].made = made,
                                 ![i].start = IF starts THEN "sent" ELSE "none"]
             IN  IF ApiResult(wire) = "resolved"
                 THEN /\ calls' = answered
                      /\ IF starts THEN UNCHANGED <<open, ui>> ELSE Done
                 ELSE Failed(i, answered)
    /\ UNCHANGED visit

StartAnswered(i, result) ==
    /\ i \in DOMAIN calls /\ calls[i].start = "sent"
    /\ IF result = "resolved"
       THEN Done /\ calls' = [calls EXCEPT ![i].start = "started"]
       ELSE Failed(i, [calls EXCEPT ![i].start = "failed"])
    /\ UNCHANGED visit

-----------------------------------------------------------------------------
Answer ==
    \/ FolderAnswered
    \/ \E result \in Results :
          CatalogAnswered(result) \/ \E i \in DOMAIN calls : StartAnswered(i, result)
    \/ \E wire \in Wire, i \in DOMAIN calls : CreateAnswered(i, wire)

Next ==
    \/ Open \/ Leave
    \/ ChooseS3 \/ ChooseRds
    \/ SelectBuckets \/ SelectRdsInstances \/ SelectRdsTables
    \/ ChangeRdsView \/ ChangePage
    \/ ChangeName \/ ChangeFrequency
    \/ \E requested \in 0 .. 3 : Navigate(requested)
    \/ Submit
    \/ Answer

Spec == Init /\ [][Next]_vars

-----------------------------------------------------------------------------
(***************************************************************************)
(* Properties                                                              *)
(***************************************************************************)

(* The type of the state of the older wizard.                              *)
TypeOK ==
    /\ open \in BOOLEAN /\ visit \in Nat
    /\ ui \in [step : 0 .. 3, farthest : 0 .. 3, s3Type : CatalogTypes,
               rdsType : CatalogTypes, view : {"instance", "table"},
               s3 : SUBSET Buckets, rds : SUBSET (RdsInstances \cup RdsTables),
               page : 1 .. MaxPage, named : BOOLEAN, frequency : Frequency,
               isLoading : BOOLEAN, catalog : 0 .. MaxFetches,
               folder : 0 .. MaxFetches, lost : BOOLEAN]
    /\ Len(calls) <= MaxCalls

(* Whatever was ticked, cleared by a change of the page or the view, or    *)
(* jumped over, the last two steps are shown only for a choice that has    *)
(* something to scan, and its request names it: every sort of source that  *)
(* is specified has rows, and one sort at least is not skipped             *)
(* (checkMustData, the effect that clears selectedRdsItems).               *)
NeverEmpty ==
    ui.step >= 2 =>
        LET request == RequestOf(ui)
        IN  /\ \/ request.allS3 \/ request.allRds
               \/ request.s3 \cup request.instances \cup request.tables # {}
            /\ ui.rdsType = "select" =>
                  (request.instances \cup request.tables) # {}

(* The rows that are ticked for RDS are rows of the view that is shown, so *)
(* that no request names tables as instances or the reverse (the effect on *)
(* rdsSelectedView).                                                       *)
RowsOfView ==
    /\ RequestOf(ui).instances \subseteq RdsInstances
    /\ RequestOf(ui).tables \subseteq RdsTables

(* The day of a weekly job is a day of the week and that of a monthly job  *)
(* a day of the month (the effect on frequencyType).                       *)
DayOfItsKind == DayFits(ui.frequency)

(* One visit makes one job, unless an answer was lost, the start of the    *)
(* first job failed, or the first submission was still under way when the  *)
(* button came back: by the answer for a table, or by the failure of yet   *)
(* another submission such an answer had made room for.                    *)
OneJobPerVisit ==
    \A i, j \in DOMAIN calls :
        /\ i < j /\ calls[i].visit = calls[j].visit
        /\ calls[i].made /\ calls[j].made
        => \/ calls[i].answer = "rejected"
           \/ calls[i].start = "failed"
           \/ calls[i].uncovered

(* The buttons of the wizard are held back for a reason: a request for a   *)
(* table or a submission is under way - or a request for a table was       *)
(* rejected, which nothing recovers from but another request.              *)
LoadingHasReason ==
    ui.isLoading =>
        \/ ui.catalog + ui.folder > 0
        \/ ui.lost
        \/ \E i \in DOMAIN calls :
              /\ calls[i].visit = visit
              /\ UnderWay(calls[i])
=============================================================================
