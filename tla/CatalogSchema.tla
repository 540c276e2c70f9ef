---------------------------- MODULE CatalogSchema ----------------------------
(***************************************************************************)
(* The details of a table of the catalog (pages/data-catalog/componments/  *)
(* SchemaModal), whose first tab (CatalogDetailList) is the list of its    *)
(* columns, which are edited on a page and saved together.                 *)
(***************************************************************************)
EXTENDS CatalogRow, ApiClient, Naturals, FiniteSets

CONSTANTS
    ColumnPages,    \* bound: pages of the columns of a table
    MaxReads        \* bound: reads of columns under way

SchemaAssumption == ColumnPages \in Nat \ {0} /\ MaxReads \in Nat \ {0}

VARIABLES route, ui     \* which page is shown, and the state it keeps

Here == route = "schema"

Tabs == {"schema", "dataPreview"}           \* the other tabs do as the second
Columns == {"first"}                        \* bound: edited ones of a page
Edit(page, columns) == {<<page, c>> : c \in columns}
NoUpdate == [page |-> 0, edited |-> {}]

(* A read of a page of columns: what is still to come of it, the columns   *)
(* and the identifiers to choose from; mounted: the tab that sent it is    *)
(* there; failed: a part was rejected, and Promise.all with it; n: a       *)
(* number to tell it from the others.                                      *)
Read(n, page) ==
    [n |-> n, page |-> page, left |-> {"columns", "options"}, mounted |-> TRUE,
     failed |-> FALSE]

NewNumber(reads) == CHOOSE n \in 1 .. MaxReads : \A r \in reads : r.n # n

(* getPageData of the tab: its own flag, and the one of the button.        *)
GetPageData(u) ==
    [u EXCEPT !.loading = TRUE, !.saveLoading = TRUE,
              !.reads = @ \cup {Read(NewNumber(@), u.page)}]

(* The tab of the columns is mounted: page 1, no rows.                     *)
SchemaOpened(u) ==
    GetPageData([u EXCEPT !.tab = "schema", !.page = 1, !.rows = NoUpdate, !.loading = FALSE])

(* rows: the page of columns that is shown, and which of them are edited   *)
(* there; update: the copy the dialog will save.                           *)
(* fromList: opened from the list of tables, which passes neither          *)
(* setSelectRowData nor updateFatherPage.                                  *)
Mounted(fromList) ==
    SchemaOpened(RowAnd(
        [fromList |-> fromList, tab |-> "schema", page |-> 1,
         rows |-> NoUpdate, loading |-> FALSE, reads |-> {}, lost |-> FALSE,
         update |-> NoUpdate, saveDisabled |-> TRUE,
         saveLoading |-> FALSE, saves |-> {}]))

Closed == [closed |-> TRUE]

Free == Here /\ ~ui.labelling
Showing == Free /\ ui.tab = "schema"

(* Bound: the row and the columns have no state in common, and only one of *)
(* them has requests under way at a time.                                  *)
ColumnsAreQuiet == ui.reads = {} /\ ui.saves = {} /\ ui.update = NoUpdate

-----------------------------------------------------------------------------
(***************************************************************************)
(* The columns                                                             *)
(***************************************************************************)
CanRead == Cardinality(ui.reads) < MaxReads /\ RowIsQuiet(ui)

ChangePage ==
    /\ Showing /\ CanRead
    /\ \E page \in 1 .. ColumnPages \ {ui.page} : ui' = GetPageData([ui EXCEPT !.page = page])

(* Another tab: the rows and the edits that are shown in them are gone,    *)
(* the copy in the dialog stays.                                           *)
Unmounted(reads) == {[r EXCEPT !.mounted = FALSE] : r \in reads}

ChangeTab ==
    /\ Free
    /\ \/ /\ ui.tab = "schema" /\ RowIsQuiet(ui)
          /\ \E tab \in Tabs \ {"schema"} :
                ui' = [ui EXCEPT !.tab = tab, !.rows = NoUpdate, !.loading = FALSE,
                                 !.reads = Unmounted(@)]
       \/ /\ ui.tab # "schema" /\ CanRead
          /\ ui' = SchemaOpened(ui)

(* A part of a read is answered: the columns are shown at once; both       *)
(* flags end with the last part, and not at all when one is rejected.      *)
PartCame(u, read, part) ==
    IF part = "columns" /\ read.mounted
    THEN [u EXCEPT !.rows = [page |-> read.page, edited |-> {}]] ELSE u

Reduced(reads, read, rest) ==
    (reads \ {read}) \cup (IF rest.left = {} THEN {} ELSE {rest})

WithoutPart(u, read, part) ==
    [u EXCEPT !.reads = Reduced(@, read, [read EXCEPT !.left = @ \ {part}])]

PartRejected(u, read, part) ==
    [u EXCEPT !.lost = TRUE,
              !.reads = Reduced(@, read, [read EXCEPT !.left = @ \ {part}, !.failed = TRUE])]

ReadEnded(u, read) ==
    [u EXCEPT !.saveLoading = FALSE, !.loading = @ /\ ~read.mounted]

PartAnswered(result) ==
    \E read \in ui.reads : \E part \in read.left :
        LET came == WithoutPart(PartCame(ui, read, part), read, part)
        IN  ui' = CASE result = "rejected" -> PartRejected(ui, read, part)
                    [] result # "rejected" /\ read.left = {part} /\ ~read.failed -> ReadEnded(came, read)
                    [] OTHER -> came

(* clickEditIcon; only rows that are not loading are shown.                *)
RowsAreThere == Showing /\ RowIsQuiet(ui) /\ ~ui.loading /\ ui.rows.page # 0

ClickEditIcon == RowsAreThere /\ ui.saveDisabled /\ ui' = [ui EXCEPT !.saveDisabled = FALSE]

(* updateSelectChange: a copy of the rows with the edit is shown, and is   *)
(* what will be saved.                                                     *)
(* Mutant: the rows without the edit are passed on.                        *)
MutantEdited(u, column) ==
    [u EXCEPT !.rows.edited = @ \cup {column}, !.update = u.rows]

Edited(u, column) ==
    LET rows == [u.rows EXCEPT !.edited = @ \cup {column}]
    IN  [u EXCEPT !.rows = rows, !.update = rows]

UpdateSelectChange ==
    /\ RowsAreThere /\ ~ui.saveDisabled
    /\ \E column \in Columns :
          ui' = Edited(ui, column)

-----------------------------------------------------------------------------
(***************************************************************************)
(* Saving (saveData)                                                       *)
(***************************************************************************)

(* One request for each edited column; without edits there is a warning.   *)
(* (A read that ends meanwhile ends the spinner of the button, and Save    *)
(* can be clicked again.)                                                  *)
ClickSave ==
    /\ Showing /\ ~ui.saveDisabled /\ ~ui.saveLoading /\ ui.update # NoUpdate
    /\ RowIsQuiet(ui)
    /\ ui' = [ui EXCEPT !.saveLoading = TRUE, !.saves = @ \cup {ui.update}]

(* allSettled: whatever became of them, the dialog says so and closes.     *)
SaveAnswered == ui.saves # {} /\ ui' = Closed

Cancel == Free /\ ui' = Closed

-----------------------------------------------------------------------------
(***************************************************************************)
(* The head (clkCheckIcon, saveLabelsToTable).  From the list, what is to  *)
(* show the answer is not a function.                                      *)
(***************************************************************************)
EditPrivacy ==
    Free /\ ColumnsAreQuiet /\ ~ui.editing /\ ui' = PrivacyEdited(ui)

ClkCheckIcon ==
    /\ Free /\ CanCheck(ui)
    /\ \E privacy \in Privacies : ui' = Check(ui, privacy)

PrivacyAnswered(u, sent) ==
    IF u.fromList
    THEN [u EXCEPT !.checking = {}, !.editing = FALSE, !.savedPrivacy = sent.privacy]
    ELSE Checked(u, sent)

CheckAnswered(result) ==
    \E sent \in ui.checking :
        ui' = IF result = "resolved" THEN PrivacyAnswered(ui, sent) ELSE CheckRejected(ui)

EditLabels == Free /\ ColumnsAreQuiet /\ ui' = [ui EXCEPT !.labelling = TRUE]
HideLabels == Here /\ ui.labelling /\ ui' = [ui EXCEPT !.labelling = FALSE]

SaveLabels ==
    /\ Here /\ CanSaveLabels(ui)
    /\ \E labels \in Labels : ui' = LabelsSent(ui, labels)

TableLabelled(u, sent) ==
    IF u.fromList THEN [u EXCEPT !.saving = {}, !.labelling = FALSE] ELSE LabelsSaved(u, sent)

LabelsAnswered(result) ==
    \E sent \in ui.saving :
        ui' = IF result = "resolved" THEN TableLabelled(ui, sent) ELSE LabelsRejected(ui)

-----------------------------------------------------------------------------
SchemaNext ==
    \/ \E result \in Results :
          Here /\ (PartAnswered(result) \/ CheckAnswered(result) \/ LabelsAnswered(result))
    \/ Here /\ SaveAnswered
    \/ ChangePage \/ ChangeTab \/ ClickEditIcon \/ UpdateSelectChange
    \/ ClickSave \/ Cancel
    \/ EditPrivacy \/ ClkCheckIcon \/ EditLabels \/ HideLabels \/ SaveLabels

-----------------------------------------------------------------------------
Update == [page : 0 .. ColumnPages, edited : SUBSET Columns]

TypeOK ==
    Here =>
        /\ RowType(ui) /\ ui.tab \in Tabs /\ ui.page \in 1 .. ColumnPages
        /\ {ui.rows, ui.update} \subseteq Update
        /\ ui.saves \subseteq Update /\ Cardinality(ui.reads) <= MaxReads

(* The edits one sees are among those that Save will send, though the rows *)
(* are in the tab and their copy in the dialog, and pages are read in      *)
(* between.  (Edits that are out of sight may be sent, or be dropped by an *)
(* edit on another page.)                                                  *)
SavesWhatIsEdited ==
    Here => Edit(ui.rows.page, ui.rows.edited) \subseteq Edit(ui.update.page, ui.update.edited)

(* The flags of the tab and of the button end with the reads and saves     *)
(* under way, unless one was rejected.                                     *)
WaitsForSomething ==
    Here /\ (ui.loading \/ ui.saveLoading) =>
        ui.reads # {} \/ ui.saves # {} \/ ui.lost

(* The privacy that is shown is the one that was saved last - but not in   *)
(* the dialog that the list of tables opens.                               *)
PrivacyIsKept == Here => ui.fromList \/ PrivacyShown(ui)
=============================================================================
