----------------------------- MODULE LabelModal -----------------------------
(***************************************************************************)
(* The dialog in which the labels of a database or of a table are chosen,  *)
(* created, renamed and deleted (common/LabelModal).  It stays mounted     *)
(* with the dialog it belongs to.                                          *)
(***************************************************************************)
EXTENDS ApiClient, Naturals, FiniteSets

VARIABLES route, ui     \* which page is shown, and the state it keeps

Here == route = "labels"

Labels == {"a", "b"}
New == "new"                        \* a label without a name yet
Searches == {Labels, {"b"}}         \* the labels a search matches
NoDialog == "none"

(* defaults: the labels of the row; exists: the labels there are; list:    *)
(* those that were read, with the search in read; current: the label that  *)
(* will be created or renamed; mode: which of the two; apart: current was  *)
(* set, or the selection was, without the other; fresh: the list is the    *)
(* answer to the newest read, and nothing was changed since.               *)
Mounted(defaults) ==
    [shown |-> FALSE, defaults |-> defaults, exists |-> Labels,
     list |-> {}, read |-> Labels, search |-> Labels, fresh |-> FALSE,
     reads |-> {}, loading |-> FALSE, lost |-> FALSE,
     selected |-> defaults, mode |-> "create", dialog |-> NoDialog, apart |-> FALSE,
     current |-> IF defaults = {} THEN New ELSE CHOOSE label \in defaults : TRUE,
     updating |-> FALSE, deleting |-> {}, saving |-> FALSE]

Rows(u) == IF u.loading THEN {} ELSE u.list \cap u.search

Free == Here /\ ui.shown /\ ui.dialog = NoDialog /\ ~ui.saving

-----------------------------------------------------------------------------
(***************************************************************************)
(* The list (getLabelsList)                                                *)
(***************************************************************************)

Outdated(reads) == {[r EXCEPT !.newest = FALSE] : r \in reads}

(* A read takes the search along.                                          *)
GetLabelsList(u) ==
    [u EXCEPT !.loading = TRUE, !.fresh = FALSE,
              !.reads = Outdated(@)
                        \cup {[search |-> u.search, labels |-> u.exists \cap u.search,
                               newest |-> TRUE]}]

(* The answer selects the labels of the row anew, whatever is ticked; the  *)
(* rows that are shown are not filtered until the search changes.          *)
ListCame(u, read) ==
    [u EXCEPT !.reads = @ \ {read}, !.loading = FALSE, !.lost = FALSE,
              !.list = read.labels, !.read = read.search, !.fresh = read.newest,
              !.selected = read.labels \cap u.defaults, !.apart = TRUE]

(* A rejected call is caught, and the list goes on loading.                *)
ListAnswered(result) ==
    \E read \in ui.reads :
        ui' = IF result = "resolved" THEN ListCame(ui, read)
              ELSE [ui EXCEPT !.reads = @ \ {read}, !.lost = TRUE]

Show ==
    Here /\ ~ui.shown /\ Cardinality(ui.reads) < 2 /\ ui' = GetLabelsList([ui EXCEPT !.shown = TRUE])

(* Cancel, and what a save does at its end (the effect on cleanData).      *)
Hidden(u) ==
    [u EXCEPT !.shown = FALSE, !.selected = {}, !.search = Labels, !.apart = TRUE]

Cancel == Free /\ ui' = Hidden(ui)

Search == Free /\ \E search \in Searches \ {ui.search} : ui' = [ui EXCEPT !.search = search]

(* A label is ticked or not; one that is ticked alone is the current one.  *)
(* Mutant: the label that was current stays so.                            *)
MutantTicked(u, selected) == [u EXCEPT !.selected = selected, !.apart = FALSE]

Ticked(u, selected) ==
    [u EXCEPT !.selected = selected, !.apart = FALSE,
              !.current = IF Cardinality(selected) = 1
                          THEN CHOOSE label \in selected : TRUE ELSE @]

Tick ==
    /\ Free
    /\ \E label \in Rows(ui) :
          ui' = Ticked(ui, IF label \in ui.selected THEN ui.selected \ {label}
                                                    ELSE ui.selected \cup {label})

-----------------------------------------------------------------------------
(***************************************************************************)
(* Creating, renaming, deleting                                            *)
(***************************************************************************)
CreateClicked ==
    /\ Free /\ ~ui.updating
    /\ ui' = [ui EXCEPT !.mode = "create", !.current = New, !.apart = TRUE, !.dialog = "label"]

(* The button of an empty list shows the dialog as it was last.            *)
EmptyCreateClicked ==
    /\ Free /\ ~ui.updating /\ ~ui.loading /\ Rows(ui) = {} /\ ui.search = Labels
    /\ ui' = [ui EXCEPT !.dialog = "label"]

EditClicked ==
    /\ Free /\ ~ui.updating /\ Cardinality(ui.selected) = 1
    /\ ui' = [ui EXCEPT !.mode = "update", !.dialog = "label"]

DeleteClicked ==
    Free /\ ui.selected # {} /\ ui.deleting = {} /\ ui' = [ui EXCEPT !.dialog = "delete"]

CancelDialog == Here /\ ui.dialog # NoDialog /\ ui' = [ui EXCEPT !.dialog = NoDialog]

(* createlabel, updatelabel.  Bound: one change of the labels at a time,   *)
(* sent when no read is under way.                                         *)
SubmitLabel ==
    /\ Here /\ ui.dialog = "label" /\ ~ui.updating /\ ui.deleting = {} /\ ui.reads = {}
    /\ ui' = [ui EXCEPT !.updating = TRUE]

Created(u) ==
    {[u EXCEPT !.exists = @ \cup {label}, !.current = New, !.apart = TRUE] : label \in Labels}

LabelAnswered(result) ==
    /\ ui.updating /\ Cardinality(ui.reads) < 2
    /\ IF result = "rejected" THEN ui' = [ui EXCEPT !.updating = FALSE]
       ELSE \E u \in (IF ui.mode = "create" THEN Created(ui) ELSE {ui}) :
               ui' = GetLabelsList([u EXCEPT !.updating = FALSE, !.dialog = NoDialog])

ConfirmDelete ==
    /\ Here /\ ui.dialog = "delete" /\ ui.deleting = {} /\ ~ui.updating /\ ui.reads = {}
    /\ ui' = [ui EXCEPT !.deleting = ui.selected]

Deleted(u) ==
    GetLabelsList([u EXCEPT !.exists = @ \ u.deleting, !.deleting = {}, !.selected = {},
                            !.apart = TRUE, !.dialog = NoDialog])

(* A call that is rejected may have been performed (no answer came).       *)
DeleteAnswered(result) ==
    /\ ui.deleting # {} /\ Cardinality(ui.reads) < 2
    /\ \/ result = "resolved" /\ ui' = Deleted(ui)
       \/ result = "rejected" /\ ui' = [ui EXCEPT !.deleting = {}]
       \/ /\ result = "rejected"
          /\ ui' = [ui EXCEPT !.deleting = {}, !.exists = @ \ ui.deleting,
                             !.fresh = FALSE, !.reads = Outdated(@)]

-----------------------------------------------------------------------------
(* Add to the row: the dialog that owns this one sends what is selected.   *)
(* Bound: nothing else is under way, or done, until it is answered.        *)
Save ==
    /\ Free /\ ui.reads = {} /\ ~ui.updating /\ ui.deleting = {}
    /\ ui' = [ui EXCEPT !.saving = TRUE]

SaveAnswered(result) ==
    /\ ui.saving
    /\ ui' = IF result = "rejected" THEN [ui EXCEPT !.saving = FALSE]
             ELSE [Hidden(ui) EXCEPT !.saving = FALSE, !.defaults = ui.selected]

LabelsNext ==
    \/ \E result \in Results :
          Here /\ (\/ ListAnswered(result) \/ LabelAnswered(result)
                   \/ DeleteAnswered(result) \/ SaveAnswered(result))
    \/ Show \/ Cancel \/ Search \/ Tick
    \/ CreateClicked \/ EmptyCreateClicked \/ EditClicked \/ DeleteClicked
    \/ CancelDialog \/ SubmitLabel \/ ConfirmDelete \/ Save

-----------------------------------------------------------------------------
TypeOK ==
    Here =>
        /\ {ui.selected, ui.list, ui.exists, ui.defaults, ui.deleting} \subseteq SUBSET Labels
        /\ ui.current \in Labels \cup {New}

(* The label that will be renamed is the one that is ticked, unless the    *)
(* selection came with a list, or the dialog for a new label was opened in *)
(* between: then another label, or none, is renamed.                       *)
RenamesWhatIsTicked ==
    Here /\ ui.dialog = "label" /\ ui.mode = "update" => ui.apart \/ ui.selected = {ui.current}

(* Once nothing is under way, the rows are the labels there are that match *)
(* the search - if the list was not read with another search: clearing it  *)
(* does not read the others.                                               *)
ShowsWhatExists ==
    Here /\ ui.shown /\ ui.fresh /\ ui.read = Labels => ui.list = ui.exists

(* The list is loading only while a request is under way, or when one was  *)
(* rejected.                                                               *)
WaitsForSomething == Here /\ ui.loading => ui.reads # {} \/ ui.lost
=============================================================================
