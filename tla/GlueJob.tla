------------------------------ MODULE GlueJob ------------------------------
(***************************************************************************)
(* The page of one run (pages/glue-job): its tasks, how far each is, and   *)
(* how many are in which state.  What the service answers is computed as   *)
(* in get_run_progress and get_run_status of api/discovery_job/service.py. *)
(***************************************************************************)
EXTENDS TableRequests, Integers, FiniteSets

CONSTANTS
    MaxTables       \* bound: tables of a task

VARIABLES route, ui     \* which page is shown, and the state it keeps

Here == route = "glueJob"

-----------------------------------------------------------------------------
(***************************************************************************)
(* The service                                                             *)
(***************************************************************************)

(* A task: of its structured and, in a bucket, its unstructured data, the  *)
(* tables that have results, and those the agent counts (or the job names, *)
(* where they may be gone meanwhile), or -1 when its get_tables raises.    *)
(* Nothing is asked about a task that is pending, and nothing found out if *)
(* anything else raises.                                                   *)
Halves == {"structured", "unstructured"}
Counts == [scanned : 0 .. MaxTables, tables : -1 .. MaxTables]
Tasks == UNION {[halves -> Counts] : halves \in {{}, {"structured"}, Halves}}

Unknown == [current |-> -1, total |-> -1]

(* Mutant: a count of the agent is taken as it is.                         *)
MutantAtLeast(counts) == [current |-> counts.scanned, total |-> counts.tables]

AtLeast(counts) ==
    [current |-> counts.scanned,
     total |-> IF counts.scanned > counts.tables THEN counts.scanned ELSE counts.tables]

GetRunProgress(task) ==
    [half \in Halves |-> IF half \in DOMAIN task THEN AtLeast(task[half]) ELSE Unknown]

(* get_run_status counts the tasks in every state but STOPPING.            *)
TaskStates ==
    {"READY", "PENDING", "RUNNING", "SUCCEEDED", "FAILED", "STOPPED", "STOPPING", "NOT_EXIST"}

GetRunStatus(states) ==
    [s \in TaskStates \ {"STOPPING"} |->
        Cardinality({t \in DOMAIN states : states[t] = s})]

-----------------------------------------------------------------------------
(***************************************************************************)
(* The page                                                                *)
(***************************************************************************)

(* What a cell shows (displayJobProgress): a text or a percentage.         *)
CheckNegativeValue(n) == IF n = -1 THEN 0 ELSE n

DisplayJobProgress(progress) ==
    LET current == CheckNegativeValue(progress.structured.current)
                   + CheckNegativeValue(progress.unstructured.current)
        total == CheckNegativeValue(progress.structured.total)
                 + CheckNegativeValue(progress.unstructured.total)
        unknown == progress.structured = Unknown /\ progress.unstructured = Unknown
    IN  CASE unknown -> -1
          [] ~unknown /\ total = 0 -> -2
          [] OTHER -> (current * 100) \div total

(* The bars of the chart (getProcessData): the tasks each counts, in       *)
(* relation to the sum of all counts.                                      *)
Bars(status) ==
    [bar \in {"PENDING", "SUCCEEDED", "RUNNING", "FAILED", "READY", "OTHERS"} |->
        IF bar = "OTHERS" THEN status["STOPPED"] + status["NOT_EXIST"] ELSE status[bar]]

(* Mounted: the page of tasks and the status.  History: the task that the  *)
(* progress is of.                                                         *)
NoTask == [half \in {} |-> [scanned |-> 0, tables |-> 0]]

Mounted ==
    Send(TableAnd([asking |-> {"status"}, task |-> NoTask,
                   progress |-> GetRunProgress(NoTask), loadingProgress |-> FALSE,
                   chart |-> [bar \in {} |-> 0], lost |-> {}]))

(* Bound: the calls under way.                                             *)
Calls(u) == Len(u.pending) + Cardinality(u.asking)

At(change) ==
    /\ Here /\ ui' = change
    /\ Calls(ui') <= MaxPending \/ Calls(ui') <= Calls(ui)

(* The answer, after which the progress of all tasks of the run is asked   *)
(* for.  Nothing catches a rejected call.                                  *)
(* Mutant: the rows are shown when the progress is there.                  *)
MutantRowsShown(u, i) ==
    [Shown(u, i) EXCEPT !.rows = u.rows, !.asking = @ \cup {"progress"}, !.lost = {}]

RowsShown(u, i) ==
    [Shown(u, i) EXCEPT !.asking = @ \cup {"progress"}, !.loadingProgress = TRUE, !.lost = {}]

PageDataAnswered(i, result) ==
    /\ Here
    /\ At(IF result = "resolved" THEN RowsShown(ui, i)
          ELSE [Lost(ui, i) EXCEPT !.lost = @ \cup {"rows"}])

(* The answer of the service, computed from a task the page shows.  A      *)
(* rejected call leaves the spinner.                                       *)
ProgressAnswered(task) ==
    /\ Here /\ "progress" \in ui.asking
    /\ At([ui EXCEPT !.asking = @ \ {"progress"}, !.loadingProgress = FALSE,
                     !.task = task, !.progress = GetRunProgress(task)])

ProgressRejected ==
    /\ Here /\ "progress" \in ui.asking
    /\ At([ui EXCEPT !.asking = @ \ {"progress"}, !.lost = @ \cup {"progress"}])

StatusAnswered(result, states) ==
    /\ Here /\ "status" \in ui.asking
    /\ At(IF result = "resolved"
          THEN [ui EXCEPT !.asking = @ \ {"status"}, !.chart = Bars(GetRunStatus(states))]
          ELSE [ui EXCEPT !.asking = @ \ {"status"}])

(* The refresh button is never disabled here.                              *)
Refresh == Here /\ At(Send(ui))

ChangePage ==
    \E page \in PagesOf(ui) : Here /\ page # ui.page /\ At(Send([ui EXCEPT !.page = page]))

ChangeQuery ==
    \E query \in Queries : Here /\ query # ui.query /\ At(Queried(ui, query))

(* The snapshot of the template the run used; the spinner in place of the  *)
(* link ends with every answer.                                            *)
ClkDownloadTemplate ==
    Here /\ "template" \notin ui.asking /\ At([ui EXCEPT !.asking = @ \cup {"template"}])

TemplateAnswered ==
    Here /\ "template" \in ui.asking /\ At([ui EXCEPT !.asking = @ \ {"template"}])

-----------------------------------------------------------------------------
GlueJobNext ==
    \/ \E result \in Results :
          \/ \E i \in DOMAIN ui.pending : PageDataAnswered(i, result)
          \/ \E states \in [{1} -> {"STOPPED"}] : StatusAnswered(result, states)
    \/ ProgressRejected \/ \E task \in Tasks : ProgressAnswered(task)
    \/ Refresh \/ ChangePage \/ ChangeQuery \/ ClkDownloadTemplate \/ TemplateAnswered

-----------------------------------------------------------------------------
TypeOK ==
    Here => TableType(ui) /\ ui.asking \subseteq {"status", "progress", "template"}

ShowsWhatIsAsked == Here => RowsAreCurrent(ui)

(* The table and the cells of the progress are loading only while their    *)
(* answers are under way, or when one was rejected, which is not caught.   *)
WaitsForSomething ==
    Here => /\ ui.loading => ui.pending # << >> \/ "rows" \in ui.lost
            /\ ui.loadingProgress => "progress" \in ui.asking \cup ui.lost

(* However the results and the agent count the tables of the two kinds of  *)
(* data, a cell shows a percentage, and 100 only if as many tables of each *)
(* kind have results as the agent has counted.  Exempted is the kind whose *)
(* tables it could not count: the code takes those with results for all.   *)
Uncounted(task) == {half \in DOMAIN task : task[half].tables = -1}

ShowsPercentage ==
    Here => /\ DisplayJobProgress(ui.progress) <= 100
            /\ DisplayJobProgress(ui.progress) >= -2
            /\ DisplayJobProgress(ui.progress) = 100 =>
                  \A half \in DOMAIN ui.task \ Uncounted(ui.task) :
                      ui.task[half].scanned >= ui.task[half].tables
=============================================================================
