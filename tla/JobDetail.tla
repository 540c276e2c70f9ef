------------------------------ MODULE JobDetail ------------------------------
(***************************************************************************)
(* The dialog over the list of jobs (pages/data-job/componments:           *)
(* JobDetailModal, JobHistory, JobProperties, JobCatalogs).  It covers the *)
(* page, and only the tab that is open is mounted.                         *)
(***************************************************************************)
EXTENDS ApiClient, Naturals, FiniteSets, FiniteSetsExt

CONSTANTS
    HistoryPages    \* bound: pages of the runs of a job

HistoryAssumption == HistoryPages \in Nat

VARIABLES route, ui     \* which page is shown, and the state it keeps

Here == route = "jobDetail"

Tabs == {"jobHistory", "jobProperties", "dataCatalogs"}

(* A list of runs is built of answers: how often each page is in it.       *)
RunPages == 1 .. HistoryPages + 1
NoRuns == [p \in RunPages |-> 0]

(* A tab is mounted when it is opened.  JobHistory sends twice, from two   *)
(* effects; the others ask for the job once.  A request holds the list of  *)
(* the render it was made in.                                              *)
Request(n, page, list) == [n |-> n, page |-> page, list |-> list]

Opened(tab) ==
    [tab |-> tab, page |-> 1, list |-> NoRuns, more |-> FALSE,
     asked |-> IF tab = "jobHistory" THEN {Request(1, 1, NoRuns), Request(2, 1, NoRuns)}
                                     ELSE {Request(1, 1, NoRuns)},
     downloading |-> FALSE, loading |-> TRUE, lost |-> FALSE]

(* clkJobName, in the list.                                                *)
Mounted == Opened("jobHistory")

ChangeTab == \E tab \in Tabs \ {ui.tab} : Here /\ ui' = Opened(tab)

(* getPageData of JobHistory: the page of runs is added to the list of the *)
(* render the request was made in.                                         *)
(* Mutant: to the list that is shown.                                      *)
MutantAdded(u, request) == [u.list EXCEPT ![request.page] = @ + 1]

Added(u, request) == [request.list EXCEPT ![request.page] = @ + 1]

Runs(list) == MapThenSumSet(LAMBDA p : list[p], 1 .. HistoryPages)

HistoryAnswered(request) ==
    [ui EXCEPT
        !.asked = @ \ {request}, !.loading = FALSE,
        !.list = Added(ui, request),
        !.more = Runs(request.list) + Runs([NoRuns EXCEPT ![request.page] = 1]) < HistoryPages]

(* getDetailData of JobProperties and JobCatalogs.                         *)
DetailAnswered(request) == [ui EXCEPT !.asked = @ \ {request}, !.loading = FALSE]

DetailLost(request) == [ui EXCEPT !.asked = @ \ {request}, !.lost = TRUE]

TabAnswered(result) ==
    \E request \in ui.asked :
        ui' = CASE result = "rejected" -> DetailLost(request)
                [] result # "rejected" /\ ui.tab = "jobHistory" -> HistoryAnswered(request)
                [] OTHER -> DetailAnswered(request)

(* "View more" is shown below a list that is loading as well.              *)
ViewMore ==
    /\ Here /\ ui.tab = "jobHistory" /\ ui.more /\ ui.page <= HistoryPages
    /\ ui' = [ui EXCEPT !.page = @ + 1, !.loading = TRUE,
                        !.asked = @ \cup {Request(1, ui.page + 1, ui.list)}]

ClkDownloadReport ==
    /\ Here /\ ui.tab = "jobHistory" /\ Runs(ui.list) > 0
    /\ ~ui.loading /\ ~ui.downloading
    /\ ui' = [ui EXCEPT !.downloading = TRUE, !.loading = TRUE]

ReportAnswered ==
    /\ Here /\ ui.downloading
    /\ ui' = [ui EXCEPT !.downloading = FALSE, !.loading = FALSE]

-----------------------------------------------------------------------------
JobDetailNext ==
    \/ Here /\ \E result \in Results : TabAnswered(result)
    \/ ChangeTab \/ ViewMore \/ ClkDownloadReport \/ ReportAnswered

-----------------------------------------------------------------------------
TypeOK ==
    Here =>
        /\ ui.tab \in Tabs /\ ui.page \in RunPages
        /\ ui.list \in [RunPages -> Nat]

(* The dialog is loading only while a request is under way, or when one    *)
(* was rejected, which is not caught.                                      *)
WaitsForSomething == Here /\ ui.loading => ui.asked # {} \/ ui.downloading \/ ui.lost

(* No run is listed twice, though the first page is asked for twice and    *)
(* the answers overlap: what they overwrite may be missing.                *)
NoRunTwice == Here => \A p \in RunPages : ui.list[p] <= 1
=============================================================================
