--------------------------- MODULE IdentifierTable ---------------------------
(***************************************************************************)
(* The table of the built-in or of the custom identifiers of a template    *)
(* (pages/template-identifiers/tables/IdentifierTable, in a tab of         *)
(* pages/template-identifiers): reading, exporting, deleting.  The dialog  *)
(* for the category and the label of a row is in PropsModal.               *)
(***************************************************************************)
EXTENDS TableRequests, FiniteSets

VARIABLES route, ui     \* which page is shown, and the state it keeps

Here == route = "identifiers"

None == "none"
RowIds == {"first", "second"}       \* rows of the table one can tell apart

(* What a deletion that was refused lists: the template, or data, that     *)
(* uses it.                                                                *)
Conflicts == {"user"}

(* selected: the ticked row; deleting: the row whose deletion is under way *)
(* and the render it was confirmed in; blamed: the row the conflicts that  *)
(* are shown are about; outdated: the newest request repeats the           *)
(* parameters of an earlier render; late: an answer came when the dialog   *)
(* it was confirmed in had been closed.                                    *)
Mounted(custom) ==
    Send(TableAnd([custom |-> custom, selected |-> None,
                   dialog |-> FALSE, confirmed |-> FALSE, conflicts |-> {}, blamed |-> None,
                   deleting |-> {}, reopened |-> FALSE, late |-> FALSE, outdated |-> FALSE,
                   downloading |-> FALSE, lostExport |-> FALSE]))

Free == Here /\ ~ui.dialog

(* Bound: the calls under way.                                             *)
Calls(u) ==
    Len(u.pending) + Cardinality(u.deleting)
    + (IF u.downloading /\ ~u.lostExport THEN 1 ELSE 0)

At(change) ==
    /\ Here /\ ui' = change
    /\ Calls(ui') <= MaxPending \/ Calls(ui') <= Calls(ui)

-----------------------------------------------------------------------------
(***************************************************************************)
(* The table                                                               *)
(***************************************************************************)
GetPageData(u) == Send([u EXCEPT !.outdated = FALSE])

(* The answer; the catch ends the loading too.                             *)
PageFailed(u, i) == [Lost(u, i) EXCEPT !.loading = FALSE]

PageDataAnswered(i, result) ==
    Here /\ At(IF result = "resolved" THEN Shown(ui, i) ELSE PageFailed(ui, i))

Refresh == Free /\ ui.custom /\ ~ui.loading /\ At(GetPageData(ui))

ChangePage ==
    \E page \in PagesOf(ui) : Free /\ page # ui.page /\ At(GetPageData([ui EXCEPT !.page = page]))

(* The filter, the order, the category, the label, the type.               *)
ChangeQuery ==
    \E query \in Queries : Free /\ query # ui.query /\ At(Queried([ui EXCEPT !.outdated = FALSE], query))

(* Only custom identifiers can be ticked.                                  *)
SelectRow ==
    /\ Free /\ ui.custom /\ ~ui.loading /\ ui.rows # NoRows
    /\ \E row \in RowIds \ {ui.selected} : At([ui EXCEPT !.selected = row])

(* The export is not caught when it is rejected.                           *)
BatchExport == Free /\ ui.custom /\ ~ui.downloading /\ At([ui EXCEPT !.downloading = TRUE])

ExportAnswered(result) ==
    /\ ui.downloading /\ ~ui.lostExport
    /\ At(IF result = "resolved" THEN [ui EXCEPT !.downloading = FALSE]
                                ELSE [ui EXCEPT !.lostExport = TRUE])

-----------------------------------------------------------------------------
(***************************************************************************)
(* Deleting                                                                *)
(***************************************************************************)

(* clkDelete: the dialog is shown anew, without the conflicts of the last  *)
(* time.                                                                   *)
(* Mutant: with them.                                                      *)
MutantDialogShown(u) == [u EXCEPT !.dialog = TRUE, !.confirmed = FALSE]

DialogShown(u) == [u EXCEPT !.dialog = TRUE, !.confirmed = FALSE, !.conflicts = {}, !.blamed = None]

ClkDelete ==
    /\ Free /\ ui.custom /\ ui.selected # None /\ ~ui.loading
    /\ At([DialogShown(ui) EXCEPT !.reopened = ui.deleting # {}])

TypeConfirm == Here /\ ui.dialog /\ ~ui.confirmed /\ ui.conflicts = {} /\ At([ui EXCEPT !.confirmed = TRUE])

(* Cancel is disabled while the deletion is under way, the cross is not.   *)
Dismiss == Here /\ ui.dialog /\ At([ui EXCEPT !.dialog = FALSE])

(* clkConfirmDelete, with the word that has to be typed.                   *)
ClkConfirmDelete ==
    /\ Here /\ ui.dialog /\ ui.confirmed /\ ui.conflicts = {} /\ ui.deleting = {}
    /\ At([ui EXCEPT !.deleting = {[row |-> ui.selected, params |-> ParamsOf(ui)]}])

Deleted(u, deletion) ==
    SendWith([u EXCEPT !.deleting = {}, !.dialog = FALSE, !.selected = None, !.late = @ \/ u.reopened,
                       !.outdated = deletion.params # ParamsOf(u)],
             deletion.params)

(* A refusal says what is in the way, and takes the button away.           *)
Refused(u, deletion, conflicts) ==
    [u EXCEPT !.deleting = {}, !.conflicts = conflicts, !.late = @ \/ u.reopened,
              !.blamed = IF conflicts = {} THEN @ ELSE deletion.row]

DeleteAnswered(result) ==
    \E deletion \in ui.deleting :
        IF result = "resolved" THEN At(Deleted(ui, deletion))
        ELSE \E conflicts \in SUBSET Conflicts : At(Refused(ui, deletion, conflicts))

-----------------------------------------------------------------------------
IdentifiersNext ==
    \/ \E result \in Results :
          \/ \E i \in DOMAIN ui.pending : PageDataAnswered(i, result)
          \/ Here /\ ExportAnswered(result)
          \/ Here /\ DeleteAnswered(result)
    \/ Refresh \/ ChangePage \/ ChangeQuery \/ SelectRow \/ BatchExport
    \/ ClkDelete \/ TypeConfirm \/ Dismiss \/ ClkConfirmDelete

-----------------------------------------------------------------------------
TypeOK ==
    Here =>
        /\ TableType(ui) /\ ui.conflicts \subseteq Conflicts
        /\ {ui.selected, ui.blamed} \subseteq RowIds \cup {None}

(* The rows that are shown are those of the page and filter that are shown *)
(* - but for the refresh after a deletion, which remembers the page it was *)
(* confirmed on.                                                           *)
ShowsWhatIsAsked == Here => ui.outdated \/ RowsAreCurrent(ui)

(* The dialog gives the reasons why the ticked identifier was not deleted, *)
(* unless it was opened again, for another one, before the answer came.    *)
BlamesTheSelected ==
    Here /\ ui.dialog /\ ui.conflicts # {} => ui.late \/ ui.blamed = ui.selected

(* The list is loading only while a request is under way.                  *)
WaitsForSomething == Here /\ ui.loading => ui.pending # << >>
=============================================================================
