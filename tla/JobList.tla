------------------------------- MODULE JobList -------------------------------
(***************************************************************************)
(* The list of the discovery jobs (pages/data-job): the table, the         *)
(* operations on the ticked job.  The dialog with the runs of a job, which *)
(* covers the page, is in JobDetail.                                       *)
(***************************************************************************)
EXTENDS TableRequests, FiniteSets

VARIABLES route, ui     \* which page is shown, and the state it keeps

Here == route = "jobs"

(* acting: the parameters of the renders in which operations were started  *)
(* that are under way; outdated: the newest request repeats such ones;     *)
(* state: that of the job when its row was ticked, "none" if none is.      *)
Mounted ==
    Send(TableAnd([state |-> "none", acting |-> {}, outdated |-> FALSE]))

At(change) ==
    /\ Here /\ ui' = change
    /\ Len(ui'.pending) <= MaxPending \/ Len(ui'.pending) <= Len(ui.pending)

-----------------------------------------------------------------------------
(***************************************************************************)
(* The table                                                               *)
(***************************************************************************)
GetPageData(u) == Send([u EXCEPT !.outdated = FALSE])

(* The answer; the catch ends the loading too.                             *)
(* Mutant: it does not.                                                    *)
MutantPageFailed(u, i) == Lost(u, i)

PageFailed(u, i) == [Lost(u, i) EXCEPT !.loading = FALSE]

PageDataAnswered(i, result) ==
    Here /\ At(IF result = "resolved" THEN Shown(ui, i) ELSE PageFailed(ui, i))

Refresh == Here /\ ~ui.loading /\ At(GetPageData(ui))

ChangePage ==
    \E page \in PagesOf(ui) : Here /\ page # ui.page /\ At(GetPageData([ui EXCEPT !.page = page]))

ChangeQuery ==
    \E query \in Queries : Here /\ query # ui.query /\ At(Queried([ui EXCEPT !.outdated = FALSE], query))

(* selectionType is "single"; the selection is kept when rows are fetched, *)
(* with the state the job had when it was ticked.                          *)
JobStates == {"Active (idle)", "Running", "Paused", "Completed"}

SelectRow ==
    /\ Here /\ ~ui.loading /\ ui.rows # NoRows
    /\ \E state \in JobStates : At([ui EXCEPT !.state = state])

-----------------------------------------------------------------------------
(***************************************************************************)
(* Operations (clkOption): no spinner, no catch                            *)
(***************************************************************************)

(* The dropdown, by the state the row was ticked in.                       *)
Offered(state) ==
    (IF state \in {"none", "Completed"} THEN {} ELSE {"cancel"})
    \cup (IF state \in {"none", "Paused", "Completed"} THEN {} ELSE {"pause"})
    \cup (IF state = "Paused" THEN {"continue"} ELSE {})
    \cup (IF state \in {"none", "Paused"} THEN {} ELSE {"execute_once"})

ClkOption ==
    /\ Here /\ Offered(ui.state) # {} /\ Cardinality(ui.acting) < MaxPending
    /\ At([ui EXCEPT !.acting = @ \cup {ParamsOf(ui)}])

(* A rejected call ends the handler; after another one the table is        *)
(* fetched as it was when the handler was made.                            *)
OptionAnswered(result) ==
    \E params \in ui.acting :
        LET over == [ui EXCEPT !.acting = @ \ {params}]
        IN  At(IF result = "resolved"
               THEN SendWith([over EXCEPT !.outdated = params # ParamsOf(ui)], params)
               ELSE over)

-----------------------------------------------------------------------------
JobListNext ==
    \/ \E result \in Results :
          \/ \E i \in DOMAIN ui.pending : PageDataAnswered(i, result)
          \/ Here /\ OptionAnswered(result)
    \/ Refresh \/ ChangePage \/ ChangeQuery \/ SelectRow \/ ClkOption

-----------------------------------------------------------------------------
TypeOK ==
    Here =>
        /\ TableType(ui) /\ ui.acting \subseteq Params /\ ui.state \in JobStates \cup {"none"}

(* The rows that are shown are those of the page and filter that are shown *)
(* - but for a refresh after an operation, whose handler remembers the     *)
(* page the operation was started from.                                    *)
ShowsWhatIsAsked == Here => ui.outdated \/ RowsAreCurrent(ui)

(* The list is loading only while a request is under way.                  *)
WaitsForSomething == Here /\ ui.loading => ui.pending # << >>
=============================================================================
