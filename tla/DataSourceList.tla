---------------------------- MODULE DataSourceList ----------------------------
(***************************************************************************)
(* The data sources of an account (pages/data-source-connection/           *)
(* componments/DataSourceList.tsx): one table for the tab that is open, an *)
(* operation on the ticked rows under the spinner that covers the page,    *)
(* and the dialogs, which the spinner does not cover.                      *)
(***************************************************************************)
EXTENDS TableRequests

VARIABLES route, ui     \* which page is shown, and the state it keeps

Here == route = "sources"

Tags == {"s3", "rds", "glue", "jdbc"}
Dialogs == {"none", "add", "edit", "delete", "failures", "rds"}
Operations ==
    {"none", "connectAll", "deleteDatabase", "connect", "disconnect", "deleteCatalog",
     "disconnectAndDelete", "deleteDataSource", "confirmDelete"}

(* The state of the component, and its effects when it is mounted: the     *)
(* two for the dialogs of JDBC send as well.  call is the connection to    *)
(* RDS under way (btnDisabled): with which credential, and the parameters  *)
(* of the render it was made in; lost says that a request was rejected,    *)
(* which nothing catches; outdated that the newest request was sent with   *)
(* the parameters of an earlier render.                                    *)
NoCall == [how |-> "none", params |-> NoRows]

Mounted(tag) ==
    LET empty == TableAnd(
            [tag |-> tag, spinner |-> FALSE, op |-> "none",
             dialog |-> "none", confirmed |-> FALSE, credential |-> "none",
             typed |-> FALSE, secret |-> FALSE, call |-> NoCall,
             lost |-> FALSE, outdated |-> FALSE])
    IN  IF tag = "jdbc" THEN Send(Send(Send(empty))) ELSE Send(empty)

At(change) ==
    /\ Here /\ ui' = change
    /\ Len(ui'.pending) <= MaxPending \/ Len(ui'.pending) <= Len(ui.pending)

(* The page below the dialogs and the spinner.                             *)
OnPage(change) == ui.dialog = "none" /\ ~ui.spinner /\ At(change)

-----------------------------------------------------------------------------
(***************************************************************************)
(* The table                                                               *)
(***************************************************************************)

(* getPageData clears the selection when it is called.                     *)
GetPageData(u) == Send(Untick([u EXCEPT !.outdated = FALSE]))

(* The answer; a request that is rejected leaves the flag as it is.        *)
(* Mutant: the selection is cleared when the answer comes.                 *)
MutantPageDataAnswered(i, result) ==
    /\ Here
    /\ At(IF result = "resolved"
          THEN Untick([Shown(ui, i) EXCEPT !.lost = FALSE])
          ELSE [Lost(ui, i) EXCEPT !.lost = TRUE])

PageDataAnswered(i, result) ==
    /\ Here
    /\ At(IF result = "resolved"
          THEN [Shown(ui, i) EXCEPT !.lost = FALSE]
          ELSE [Lost(ui, i) EXCEPT !.lost = TRUE])

(* The refresh button, the pagination, the filter and the preferences.     *)
Refresh == Here /\ ~ui.loading /\ OnPage(GetPageData(ui))

ChangePage ==
    \E page \in PagesOf(ui) : Here /\ page # ui.page /\ OnPage(GetPageData([ui EXCEPT !.page = page]))

ChangeQuery ==
    \E query \in Queries : Here /\ ui.page = 1 /\ query # ui.query /\ OnPage(GetPageData([ui EXCEPT !.query = query]))

OneOf(ids) == \E id \in Items : ids = {id}

(* selectionType is "multi" for JDBC only.                                 *)
SelectRows ==
    /\ Here /\ ~ui.loading /\ ui.rows # NoRows
    /\ \E ids \in (SUBSET Items) \ {ui.ticked.ids} :
          /\ ui.tag # "jdbc" => OneOf(ids)
          /\ OnPage(Tick(ui, ids))

-----------------------------------------------------------------------------
(***************************************************************************)
(* Operations under the spinner                                            *)
(***************************************************************************)
Ready(tags) == Here /\ ui.tag \in tags /\ ui.dialog = "none" /\ ~ui.spinner
SomeTicked == ui.ticked.ids # {}

Operate(op) == At([ui EXCEPT !.op = op, !.spinner = TRUE])

(* The entries of the dropdown (genActions), and "Authorize".              *)
ClkAllS3Connected == Ready({"s3"}) /\ Operate("connectAll")
ClkDeleteDatabase == Ready({"glue"}) /\ SomeTicked /\ Operate("deleteDatabase")
ClkDisconnectDataSource == Ready({"s3", "rds"}) /\ SomeTicked /\ Operate("disconnect")
ClkDeleteDataCatalog == Ready({"s3", "rds"}) /\ SomeTicked /\ Operate("deleteCatalog")
ClkDisconnectAndDelete ==
    Ready({"s3", "rds"}) /\ SomeTicked /\ Operate("disconnectAndDelete")

ClkConnected ==
    /\ Ready({"s3", "rds", "glue"}) /\ ~ui.loading /\ OneOf(ui.ticked.ids)
    /\ IF ui.tag = "rds" THEN At([ui EXCEPT !.dialog = "rds", !.typed = FALSE])
                         ELSE Operate("connect")

ClkDeleteDataSource ==
    /\ Ready({"s3", "rds", "jdbc"}) /\ SomeTicked
    /\ IF ui.tag = "jdbc" THEN At([ui EXCEPT !.dialog = "delete"])
                          ELSE Operate("deleteDataSource")

(* The answer: the spinner goes, and the table is fetched after a success. *)
Over(u) == [u EXCEPT !.op = "none", !.spinner = FALSE]

OperationAnswered(result) ==
    /\ Here /\ ui.op \notin {"none", "confirmDelete"}
    /\ At(CASE result = "resolved" ->
                  GetPageData([Over(ui) EXCEPT !.ticked =
                      IF ui.op = "connectAll" THEN @ ELSE NoTicks])
            [] result = "rejected" /\ ui.op = "connectAll" -> Over(ui)
            [] OTHER -> Untick(Over(ui)))

-----------------------------------------------------------------------------
(***************************************************************************)
(* Deleting JDBC sources: DataSourceDelete, confirmDelete                  *)
(***************************************************************************)
Dialog(d) == Here /\ ui.dialog = d

(* The word is typed, and forgotten when the dialog closes.                *)
TypeConfirm == Dialog("delete") /\ At([ui EXCEPT !.confirmed = ~@])
DismissDelete == Dialog("delete") /\ At([ui EXCEPT !.dialog = "none", !.confirmed = FALSE])

ClkConfirmDelete ==
    /\ Dialog("delete") /\ ui.confirmed /\ ui.op = "none"
    /\ Operate("confirmDelete")

(* The answer lists the sources that could not be deleted; after a failure *)
(* the dialog and the selection stay.                                      *)
ConfirmDelete(result) ==
    /\ Here /\ ui.op = "confirmDelete"
    /\ IF result = "resolved"
       THEN \E next \in {"none", "failures"} :
               At(GetPageData([Over(ui) EXCEPT !.dialog = next, !.confirmed = FALSE]))
       ELSE At(Over(ui))

CloseDelResModal == Dialog("failures") /\ At([ui EXCEPT !.dialog = "none"])

-----------------------------------------------------------------------------
(***************************************************************************)
(* Connecting to RDS                                                       *)
(***************************************************************************)
DismissRds == Dialog("rds") /\ At([ui EXCEPT !.dialog = "none"])

(* The tiles of the credential, the two fields of the one and the list of  *)
(* secrets of the other, which is kept when the dialog is opened again.    *)
ChooseCredential ==
    \E c \in {"password", "secret"} :
        Dialog("rds") /\ c # ui.credential /\ At([ui EXCEPT !.credential = c])

TypePassword ==
    Dialog("rds") /\ ui.credential = "password" /\ At([ui EXCEPT !.typed = TRUE])

ChooseSecret ==
    Dialog("rds") /\ ui.credential = "secret" /\ At([ui EXCEPT !.secret = TRUE])

ConnectRDS ==
    /\ Dialog("rds") /\ ui.call = NoCall /\ SomeTicked
    /\ \/ ui.credential = "password" /\ ui.typed
       \/ ui.credential = "secret" /\ ui.secret
    /\ At([ui EXCEPT !.call = [how |-> ui.credential, params |-> ParamsOf(ui)]])

(* The table is fetched after a success with a password only, and with     *)
(* the parameters of the render in which the button was pressed; the       *)
(* dialog stays.                                                           *)
ConnectRDSAnswered(result) ==
    /\ Here /\ ui.call # NoCall
    /\ LET over == [ui EXCEPT !.call = NoCall]
       IN  IF result = "resolved" /\ ui.call.how = "password"
           THEN At(SendWith(Untick([over EXCEPT !.outdated = ui.call.params # ParamsOf(ui)]),
                            ui.call.params))
           ELSE At(over)

-----------------------------------------------------------------------------
(***************************************************************************)
(* The dialogs JDBCConnection and JDBCConnectionEdit                       *)
(***************************************************************************)
ClkAddSource == Ready({"jdbc"}) /\ At([ui EXCEPT !.dialog = "add"])

ClkEditSource ==
    Ready({"jdbc"}) /\ OneOf(ui.ticked.ids) /\ At([ui EXCEPT !.dialog = "edit"])

(* Closed by their own means: the effect on the flag fetches the table.    *)
CloseConnection ==
    Here /\ ui.dialog \in {"add", "edit"} /\ At(GetPageData([ui EXCEPT !.dialog = "none"]))

-----------------------------------------------------------------------------
ListNext ==
    \/ \E result \in Results :
          \/ \E i \in DOMAIN ui.pending : PageDataAnswered(i, result)
          \/ OperationAnswered(result) \/ ConfirmDelete(result) \/ ConnectRDSAnswered(result)
    \/ Refresh \/ ChangePage \/ ChangeQuery \/ SelectRows
    \/ ClkAllS3Connected \/ ClkDeleteDatabase \/ ClkConnected \/ ClkDisconnectDataSource
    \/ ClkDeleteDataCatalog \/ ClkDisconnectAndDelete \/ ClkDeleteDataSource
    \/ TypeConfirm \/ DismissDelete \/ ClkConfirmDelete \/ CloseDelResModal
    \/ DismissRds \/ ChooseCredential \/ TypePassword \/ ChooseSecret \/ ConnectRDS
    \/ ClkAddSource \/ ClkEditSource \/ CloseConnection

-----------------------------------------------------------------------------
TypeOK ==
    Here =>
        /\ TableType(ui) /\ ui.tag \in Tags /\ ui.op \in Operations /\ ui.dialog \in Dialogs
        /\ ui.call \in [how : {"none", "password", "secret"}, params : Params \cup {NoRows}]

(* The rows that are shown are those of the page and filter that are shown *)
(* - but for a refresh after a connection to RDS, whose handler remembers  *)
(* the page the button was pressed on.                                     *)
ShowsWhatIsAsked == Here => ui.outdated \/ RowsAreCurrent(ui)

(* An operation hits rows the user sees.                                   *)
ActsOnWhatIsShown == Here => TicksAreShown(ui)

(* The dialogs that edit or delete the ticked rows have some, whatever     *)
(* answers arrive while they are open: the edit dialog reads the first one *)
(* when it is rendered.                                                    *)
DialogHasTarget == Here /\ ui.dialog \in {"edit", "delete"} => ui.ticked.ids # {}

(* The spinner, which nothing else takes away, and the loading button are  *)
(* shown only while an operation is under way; the table is loading only   *)
(* while a request is, or when one was rejected, which is not caught.      *)
WaitsForSomething ==
    Here => /\ ui.spinner => ui.op # "none"
            /\ ui.loading => ui.pending # << >> \/ ui.lost
=============================================================================
