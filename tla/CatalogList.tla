----------------------------- MODULE CatalogList -----------------------------
(***************************************************************************)
(* One tab of the data catalog (pages/data-catalog/componments/            *)
(* CatalogList): the databases of a kind of source, or, in the other view, *)
(* their tables, and the row whose details are opened.  The dialog with    *)
(* the details covers the page; what happens in it is in CatalogDetail.    *)
(***************************************************************************)
EXTENDS TableRequests

VARIABLES route, ui     \* which page is shown, and the state it keeps

Here == route = "catalog"

Kinds == {"s3", "rds", "jdbc"}      \* glue behaves as jdbc does

(* What the request depends on besides the page: the filter and the order, *)
(* and the view, of databases or of tables.                                *)
TableView == {"tables", "filteredTables"}
InView(query) == IF query \in TableView THEN TableView ELSE Queries
AllQueries == Queries \cup TableView

RowIds == {"first", "second"}       \* rows of the table one can tell apart
None == "none"

(* byTag: the page was opened with an identifier in its address, and lists *)
(* the databases with that identifier.  The column definitions are set by  *)
(* an effect, and another effect sends the first request for them.         *)
Mounted(kind, byTag) ==
    Send(TableAnd([kind |-> kind, byTag |-> byTag, selected |-> None,
                   counting |-> {}, detail |-> None, schema |-> None,
                   lost |-> FALSE]))

Covered == ui.detail # None \/ ui.schema # None

At(change) ==
    /\ Here /\ ui' = change
    /\ Len(ui'.pending) <= MaxPending \/ Len(ui'.pending) <= Len(ui.pending)

-----------------------------------------------------------------------------
(***************************************************************************)
(* The table                                                               *)
(***************************************************************************)

(* Which of its two readers getPageData calls.                             *)
Reader(query) == IF query \in TableView THEN "getDataFolders" ELSE "getDataBases"

(* getDataFolders catches a rejected call.  getDataBases does not, and     *)
(* getPageData, which does not await it, has nothing to catch: the list    *)
(* goes on loading.                                                        *)
Rejected(u, i) ==
    IF Reader(u.pending[i].params.query) = "getDataFolders" 
    THEN [Lost(u, i) EXCEPT !.loading = FALSE]
    ELSE [Lost(u, i) EXCEPT !.lost = TRUE]

PageDataAnswered(i, result) ==
    Here /\ At(IF result = "resolved" THEN Shown(ui, i) ELSE Rejected(ui, i))

(* The effect on the page and the page size.                               *)
ChangePage ==
    \E page \in PagesOf(ui) :
        Here /\ ~Covered /\ page # ui.page /\ At(Send([ui EXCEPT !.page = page]))

Preferences ==
    \E query \in InView(ui.query) :
        /\ Here /\ ~Covered /\ ui.page = 1 /\ query # ui.query
        /\ At(Send([ui EXCEPT !.query = query]))

(* The effect on the filter and the order.  The filter is not offered      *)
(* while an identifier restricts the list.                                 *)
ChangeQuery ==
    \E query \in InView(ui.query) : Here /\ ~Covered /\ query # ui.query /\ At(Queried(ui, query))

(* The tag of the identifier is removed, which shows the filter.           *)
RemoveTag ==
    /\ Here /\ ~Covered /\ ui.byTag
    /\ \E query \in InView(ui.query) \ {ui.query} : At(Queried([ui EXCEPT !.byTag = FALSE], query))

(* The other view: the effect on the view turns to page 1 and sets the     *)
(* columns; the effect on the columns sends, and the one on the page, if   *)
(* that was another one, sends the same again.                             *)
(* Mutant: the page is kept.                                               *)
MutantViewed(u, query) ==
    SendWith([u EXCEPT !.query = query], [page |-> 1, query |-> query])

Viewed(u, query) ==
    LET sent == Send([u EXCEPT !.query = query, !.page = 1])
    IN  IF u.page = 1 THEN sent ELSE Send(sent)

ChangeView ==
    /\ Here /\ ~Covered /\ ui.kind # "s3"
    /\ \E query \in AllQueries \ InView(ui.query) : At(Viewed(ui, query))

-----------------------------------------------------------------------------
(***************************************************************************)
(* The details of a row                                                    *)
(***************************************************************************)
DetailOpened(u, row) == [u EXCEPT !.selected = row, !.detail = row]

(* clickRowName: the details of a bucket wait for the count of its files.  *)
ClickRowName(u, row) ==
    IF u.kind = "s3" THEN [u EXCEPT !.counting = @ \cup {row}] ELSE DetailOpened(u, row)

(* A click on the name of a database, which only the list of databases     *)
(* has.                                                                    *)
ClickName ==
    /\ Here /\ ~Covered /\ ~ui.loading /\ ui.rows # NoRows
    /\ Reader(ui.query) = "getDataBases"
    /\ \E row \in RowIds : At(ClickRowName(ui, row))

(* A row is ticked: the effect on the selection opens its details, but for *)
(* the tables of RDS.  (The condition asks for the view of RDS only: the   *)
(* tables of glue and of JDBC are opened as if they were databases.)       *)
SelectRow ==
    /\ Here /\ ~Covered /\ ~ui.loading /\ ui.rows # NoRows
    /\ \E row \in RowIds \ {ui.selected} :
          At(LET ticked == [ui EXCEPT !.selected = row]
             IN  IF ui.kind = "rds" /\ ui.query \in TableView THEN ticked
                 ELSE ClickRowName(ticked, row))

(* getS3TableCount: the details of the row are opened whatever is shown by *)
(* now.  A rejected call opens nothing.                                    *)
(* Mutant: the row is not ticked again.                                    *)
MutantCounted(u, row) == [u EXCEPT !.counting = @ \ {row}, !.detail = row]

Counted(u, row) == DetailOpened([u EXCEPT !.counting = @ \ {row}], row)

CountAnswered(result) ==
    \E row \in ui.counting :
        At(IF result = "resolved" THEN Counted(ui, row) ELSE [ui EXCEPT !.counting = @ \ {row}])

CloseDetail == Here /\ ui.detail # None /\ At([ui EXCEPT !.detail = None])

(* updateFatherPage, called by the dialogs after a change.                 *)
UpdateFatherPage == Here /\ ui.detail # None /\ At(Send(ui))

(* clickFolderName: the schema of a table of the list of tables.           *)
ClickFolderName ==
    /\ Here /\ ~Covered /\ ~ui.loading /\ ui.rows # NoRows
    /\ Reader(ui.query) = "getDataFolders"
    /\ \E row \in RowIds : At([ui EXCEPT !.schema = row])

CloseSchema == Here /\ ui.schema # None /\ At([ui EXCEPT !.schema = None])

-----------------------------------------------------------------------------
CatalogNext ==
    \/ \E result \in Results :
          \/ \E i \in DOMAIN ui.pending : PageDataAnswered(i, result)
          \/ Here /\ CountAnswered(result)
    \/ ChangePage \/ Preferences \/ ChangeQuery \/ RemoveTag \/ ChangeView
    \/ ClickName \/ SelectRow \/ CloseDetail \/ UpdateFatherPage
    \/ ClickFolderName \/ CloseSchema

-----------------------------------------------------------------------------
TypeOK ==
    Here =>
        /\ TableTypeOver(ui, [page : 1 .. MaxPage, query : AllQueries])
        /\ ui.kind \in Kinds
        /\ {ui.selected, ui.detail, ui.schema} \subseteq RowIds \cup {None}
        /\ ui.counting \subseteq RowIds

(* The rows that are shown are those of the page, filter and view that are *)
(* shown, however the effects on them follow each other.                   *)
ShowsWhatIsAsked == Here => RowsAreCurrent(ui)

(* The details that are open are those of the row that is ticked, though   *)
(* the counts of the buckets that were clicked come in any order.          *)
DetailOfSelection == Here /\ ui.detail # None => ui.selected = ui.detail

(* The list is loading only while a request is under way, or when the      *)
(* databases could not be read, which is not caught.                       *)
WaitsForSomething == Here /\ ui.loading => ui.pending # << >> \/ ui.lost
=============================================================================
