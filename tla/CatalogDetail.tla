---------------------------- MODULE CatalogDetail ----------------------------
(***************************************************************************)
(* The details of a database of the catalog (pages/data-catalog/           *)
(* componments/DetailModal, and CatalogDetailList in each of its tabs).    *)
(* Only the tab that is open is mounted.  A table of the database is       *)
(* opened in SchemaModal, and the labels are chosen in LabelModal.         *)
(***************************************************************************)
EXTENDS TableRequests, CatalogRow

VARIABLES route, ui     \* which page is shown, and the state it keeps

Here == route = "catalogDetail"

(* The tabs of a bucket; another database has its tables in one tab.       *)
TabsOf(kind) ==
    {"dataIdentifiers", "tables", "bucketProperties"}
    \cup (IF kind = "s3" THEN {"unstructured"} ELSE {})

TableTabs == {"tables", "unstructured"}

(* What the requests of a tab depend on besides the page: the filter, the  *)
(* order and the kind of data; or, when the tab was opened by the number   *)
(* of tables with an identifier, that identifier and a part of the name.   *)
Tagged == {"tagged", "taggedByName"}
Others(query) == (IF query \in Tagged THEN Tagged ELSE Queries) \ {query}
Unnamed(query) == IF query = "taggedByName" THEN "tagged" ELSE query

(* A tab is mounted and sends; behind: the newest request is not the one   *)
(* for what is selected; lost: a request was rejected that is not caught.  *)
Opened(u, tab, query) ==
    Send([TableAnd([u EXCEPT !.tab = tab, !.behind = FALSE, !.lost = FALSE])
            EXCEPT !.query = query])

Mounted(kind) ==
    Opened(RowAnd([kind |-> kind, tab |-> "none",
                   behind |-> FALSE, lost |-> FALSE, schema |-> FALSE]),
           "dataIdentifiers", "plain")

Covered == ui.labelling \/ ui.schema

(* Bound: the row and the tabs have no state in common, and only one of    *)
(* them has requests under way at a time.                                  *)
TabIsQuiet == ui.pending = << >>

At(change) ==
    /\ Here /\ ui' = change
    /\ Len(ui'.pending) <= MaxPending \/ Len(ui'.pending) <= Len(ui.pending)
    /\ ui'.pending # ui.pending => RowIsQuiet(ui)

-----------------------------------------------------------------------------
(***************************************************************************)
(* A tab (CatalogDetailList)                                               *)
(***************************************************************************)
Ask(u) == Send([u EXCEPT !.behind = FALSE])

(* A request with the parameters of another moment.                        *)
AskFor(u, params) == SendWith([u EXCEPT !.behind = params # ParamsOf(u)], params)

(* getDataFolders catches a rejected call, and getPageData ends the        *)
(* loading; a rejected call of the other tabs rejects getPageData, too.    *)
(* Mutant: getDataFolders does not catch.                                  *)
MutantFoldersFailed(u, i) == Lost(u, i)

FoldersFailed(u, i) == [Lost(u, i) EXCEPT !.loading = FALSE]

OthersFailed(u, i) == [Lost(u, i) EXCEPT !.lost = TRUE]

PageDataAnswered(i, result) ==
    /\ Here
    /\ At(CASE result = "resolved" -> Shown(ui, i)
            [] result = "rejected" /\ ui.tab \in TableTabs -> FoldersFailed(ui, i)
            [] OTHER -> OthersFailed(ui, i))

(* One effect on the page, the page size, the filter, the order and the    *)
(* kind of data: it sends with all of them, and the page is kept.          *)
ChangePage ==
    /\ Here /\ ~Covered /\ ui.tab # "bucketProperties"
    /\ \E page \in PagesOf(ui) \ {ui.page} : At(Ask([ui EXCEPT !.page = page]))

ChangeQuery ==
    /\ Here /\ ~Covered /\ ui.page = 1 /\ ui.tab # "bucketProperties"
    /\ \E query \in Others(ui.query) : At(Ask([ui EXCEPT !.query = query]))

(* clearIdentifiersFilter fetches with the identifier it has just removed, *)
(* and removing it is not among the causes of the effect.                  *)
ClearIdentifiersFilter ==
    /\ Here /\ ~Covered /\ ui.query \in Tagged
    /\ At(AskFor([ui EXCEPT !.query = "plain"], [page |-> ui.page, query |-> "tagged"]))

(* A table of the list is opened, and the list is fetched again when its   *)
(* privacy or its labels were changed, without the part of the name.       *)
ClickFolderName ==
    /\ Here /\ ~Covered /\ ui.tab \in TableTabs /\ ~ui.loading /\ ui.rows # NoRows
    /\ At([ui EXCEPT !.schema = TRUE])

UpdateFatherPage ==
    Here /\ ui.schema /\ At(AskFor(ui, [ParamsOf(ui) EXCEPT !.query = Unnamed(@)]))

CloseSchema == Here /\ ui.schema /\ At([ui EXCEPT !.schema = FALSE])

-----------------------------------------------------------------------------
(***************************************************************************)
(* The dialog (DetailModal)                                                *)
(***************************************************************************)
ChangeTab ==
    /\ Here /\ ~Covered
    /\ \E tab \in TabsOf(ui.kind) \ {ui.tab} : At(Opened(ui, tab, "plain"))

(* clickTableCountProp: the tables with an identifier, in their tab.       *)
ClickTableCount ==
    /\ Here /\ ~Covered /\ ui.tab = "dataIdentifiers" /\ ~ui.loading /\ ui.rows # NoRows
    /\ \E tab \in TableTabs \cap TabsOf(ui.kind) : At(Opened(ui, tab, "tagged"))

EditPrivacy == Here /\ ~Covered /\ TabIsQuiet /\ ~ui.editing /\ At(PrivacyEdited(ui))

ClkCheckIcon ==
    /\ Here /\ ~Covered /\ CanCheck(ui)
    /\ \E privacy \in Privacies : At(Check(ui, privacy))

CheckAnswered(result) ==
    \E sent \in ui.checking :
        At(IF result = "resolved" THEN Checked(ui, sent) ELSE CheckRejected(ui))

EditLabels == Here /\ ~Covered /\ TabIsQuiet /\ At([ui EXCEPT !.labelling = TRUE])
HideLabels == Here /\ ui.labelling /\ At([ui EXCEPT !.labelling = FALSE])

SaveLabels ==
    /\ Here /\ CanSaveLabels(ui)
    /\ \E labels \in Labels : At(LabelsSent(ui, labels))

LabelsAnswered(result) ==
    \E sent \in ui.saving :
        At(IF result = "resolved" THEN LabelsSaved(ui, sent) ELSE LabelsRejected(ui))

-----------------------------------------------------------------------------
DetailNext ==
    \/ \E result \in Results :
          \/ \E i \in DOMAIN ui.pending : PageDataAnswered(i, result)
          \/ Here /\ CheckAnswered(result)
          \/ Here /\ LabelsAnswered(result)
    \/ ChangePage \/ ChangeQuery \/ ClearIdentifiersFilter
    \/ ClickFolderName \/ UpdateFatherPage \/ CloseSchema
    \/ ChangeTab \/ ClickTableCount \/ EditPrivacy \/ ClkCheckIcon
    \/ EditLabels \/ HideLabels \/ SaveLabels

-----------------------------------------------------------------------------
TypeOK ==
    Here =>
        /\ TableTypeOver(ui, [page : 1 .. MaxPage, query : Queries \cup Tagged])
        /\ RowType(ui)

(* The rows of a tab are those of the page and filter that are shown -     *)
(* but after the identifier was cleared, or a table was changed, when a    *)
(* handler fetches with what it remembers.                                 *)
ShowsWhatIsAsked == Here => ui.behind \/ RowsAreCurrent(ui)

(* A tab is loading only while a request is under way, or when one other   *)
(* than for tables was rejected.                                           *)
WaitsForSomething == Here /\ ui.loading => ui.pending # << >> \/ ui.lost

(* The privacy that is shown is the one that was saved last.               *)
PrivacyIsKept == Here => PrivacyShown(ui)
=============================================================================
