------------------------------ MODULE PropsModal ------------------------------
(***************************************************************************)
(* The dialog in which the category or the label of an identifier is       *)
(* chosen, created, renamed and deleted (common/PropsModal), and its save  *)
(* by the table of identifiers (pages/template-identifiers/tables/         *)
(* IdentifierTable).  It stays mounted with the page and serves both       *)
(* kinds of properties, one after the other.                               *)
(***************************************************************************)
EXTENDS ApiClient, Naturals, FiniteSets, FiniteSetsExt

VARIABLES route, ui     \* which page is shown, and the state it keeps

Here == route = "props"

Types == {"category", "label"}
Props == {"c1", "c2", "l1"}
OfType(type, props) ==
    {p \in props : (p \in {"c1", "c2"}) <=> (type = "category")}
New == "new"                        \* a property without a name yet
NoDialog == "none"

(* type: the kind the dialog is for; exists: the properties there are;     *)
(* list: those that were read; row: the properties of the identifier, as   *)
(* its object in the table has them; stored: as the service has them;      *)
(* mangled: in the object they have become mere ids; saving: the save that *)
(* is under way, of the row as it was read or of ids; dropped: a save of a *)
(* row as it was read removed a property of the other kind.                *)
Mounted(row) ==
    [shown |-> FALSE, type |-> "category", exists |-> {"c1", "l1"},
     list |-> {}, fresh |-> FALSE, reads |-> {}, loading |-> FALSE, lost |-> FALSE,
     selected |-> {}, mode |-> "create", dialog |-> NoDialog, apart |-> FALSE, current |-> New,
     updating |-> FALSE, deleting |-> {},
     row |-> row, stored |-> row, mangled |-> FALSE, saving |-> "none",
     dropped |-> FALSE]

Free == Here /\ ui.shown /\ ui.dialog = NoDialog /\ ui.saving = "none"

-----------------------------------------------------------------------------
(***************************************************************************)
(* The list (getPropsList)                                                 *)
(***************************************************************************)
GetPropsList(u) ==
    [u EXCEPT !.list = {}, !.loading = TRUE, !.fresh = FALSE,
              !.reads = {[r EXCEPT !.newest = FALSE] : r \in @}
                        \cup {[type |-> u.type, props |-> OfType(u.type, u.exists),
                               newest |-> TRUE]}]

(* The property of the row is selected and becomes the current one, if it  *)
(* is listed.  The ids of a mangled row are not recognised.                *)
Recognised(u, props) == IF u.mangled THEN {} ELSE props \cap u.row

ListCame(u, read) ==
    LET found == Recognised(u, read.props)
    IN  [u EXCEPT !.reads = @ \ {read}, !.loading = FALSE, !.lost = FALSE,
                  !.list = read.props, !.fresh = read.newest, !.selected = found,
                  !.apart = @ /\ found = {},
                  !.current = IF u.row = {} THEN @
                              ELSE IF found = {} THEN New ELSE CHOOSE p \in found : TRUE]

(* A rejected call is caught, and the list goes on loading.                *)
ListAnswered(result) ==
    \E read \in ui.reads :
        ui' = IF result = "resolved" THEN ListCame(ui, read)
              ELSE [ui EXCEPT !.reads = @ \ {read}, !.lost = TRUE]

(* showEditCategoryLabelModal, by the icon of the category or of the label *)
(* of the row.  Bounds: two reads under way; and a row of mere ids is only *)
(* tried again from the dialog it came from.                               *)
Show ==
    \E type \in Types :
        /\ Here /\ ~ui.shown /\ ~ui.mangled /\ Cardinality(ui.reads) < 2
        /\ ui' = GetPropsList([ui EXCEPT !.shown = TRUE, !.type = type])

(* Cancel, and what a save does at its end (the effect on cleanData).      *)
Hidden(u) == [u EXCEPT !.shown = FALSE, !.selected = {}]

Cancel == Free /\ ui' = Hidden(ui)

Ticked(u, p) == [u EXCEPT !.selected = {p}, !.apart = FALSE, !.current = p]

Tick == Free /\ ~ui.loading /\ \E p \in ui.list \ ui.selected : ui' = Ticked(ui, p)

-----------------------------------------------------------------------------
(***************************************************************************)
(* Creating, renaming, deleting.  Bound: one of them at a time, sent when  *)
(* no read is under way.                                                   *)
(***************************************************************************)
Idle(u) == ~u.updating /\ u.deleting = {}

CreateClicked ==
    /\ Free /\ Idle(ui)
    /\ ui' = [ui EXCEPT !.mode = "create", !.current = New, !.apart = TRUE, !.dialog = "prop"]

(* The button of an empty list shows the dialog as it was last.            *)
EmptyCreateClicked ==
    Free /\ Idle(ui) /\ ~ui.loading /\ ui.list = {} /\ ui' = [ui EXCEPT !.dialog = "prop"]

EditClicked ==
    /\ Free /\ Idle(ui) /\ Cardinality(ui.selected) = 1
    /\ ui' = [ui EXCEPT !.mode = "update", !.dialog = "prop"]

DeleteClicked ==
    Free /\ Idle(ui) /\ Cardinality(ui.selected) = 1 /\ ui' = [ui EXCEPT !.dialog = "delete"]

CancelDialog == Here /\ ui.dialog # NoDialog /\ ui' = [ui EXCEPT !.dialog = NoDialog]

(* createprops, updateprops.  Of a name there is at most one property.     *)
SubmitProp == Here /\ ui.dialog = "prop" /\ Idle(ui) /\ ui.reads = {} /\ ui' = [ui EXCEPT !.updating = TRUE]

Created(u) ==
    {[u EXCEPT !.exists = @ \cup {p}, !.current = New, !.apart = TRUE] :
        p \in OfType(u.type, Props \ u.exists)}

Updated(u) == {[u EXCEPT !.selected = {}]}

PropAnswered(result) ==
    /\ ui.updating /\ Cardinality(ui.reads) < 2
    /\ IF result = "rejected" THEN ui' = [ui EXCEPT !.updating = FALSE]
       ELSE \E u \in (IF ui.mode = "create" THEN Created(ui) ELSE Updated(ui)) :
               ui' = GetPropsList([u EXCEPT !.updating = FALSE, !.dialog = NoDialog])

(* deleteProps: the first of the selected ones.  Without one, the handler  *)
(* fails before it has sent anything.                                      *)
ConfirmDelete ==
    /\ Here /\ ui.dialog = "delete" /\ Idle(ui) /\ ui.reads = {} /\ ui.selected # {}
    /\ ui' = [ui EXCEPT !.deleting = ui.selected]

(* Mutant: the list is not read again.                                     *)
MutantDeleted(u) == [u EXCEPT !.selected = {}, !.dialog = NoDialog]

Deleted(u) == GetPropsList([u EXCEPT !.selected = {}, !.dialog = NoDialog])

(* A property that an identifier has is not deleted (delete_prop of the    *)
(* service).                                                               *)
DeleteAnswered(result) ==
    /\ ui.deleting # {} /\ Cardinality(ui.reads) < 2
    /\ IF result = "rejected" THEN ui' = [ui EXCEPT !.deleting = {}]
       ELSE /\ ui.deleting \subseteq ui.exists \ ui.stored
            /\ ui' = Deleted([ui EXCEPT !.deleting = {}, !.exists = @ \ ui.deleting])

-----------------------------------------------------------------------------
(***************************************************************************)
(* Saving (saveIdentifierWithLabelCategory)                                *)
(***************************************************************************)

(* The property of the other kind goes along, so that it is kept.          *)
(* Mutant: it does not.                                                    *)
MutantNewProps(u) == u.selected

NewProps(u) ==
    u.selected
    \cup (IF u.mangled THEN {} ELSE OfType(CHOOSE type \in Types \ {u.type} : TRUE, u.row))

(* What is sent is the object of the row, whose properties are replaced by *)
(* their ids before the call, whatever becomes of it.                      *)
Sent(u) ==
    [u EXCEPT !.row = NewProps(u), !.mangled = TRUE,
              !.saving = IF u.mangled THEN "ids" ELSE "row"]

(* Bound: not when a late list of the other kind is taken for this one.    *)
Save ==
    /\ Free /\ ui.selected # {} /\ Idle(ui) /\ ui.reads = {}
    /\ ui.selected \subseteq OfType(ui.type, Props)
    /\ ui' = Sent(ui)

(* After a save the table is read again: the row is a new object, unless   *)
(* that read is rejected.                                                  *)
Saved(u) ==
    LET done == [Hidden(u) EXCEPT !.saving = "none", !.stored = u.row,
                     !.dropped = /\ u.saving = "row"
                                 /\ \E type \in Types \ {u.type} :
                                       ~(OfType(type, u.stored) \subseteq u.row)]
    IN  {[done EXCEPT !.mangled = FALSE], done}

SaveAnswered(result) ==
    /\ ui.saving # "none"
    /\ IF result = "resolved" THEN \E u \in Saved(ui) : ui' = u
       ELSE ui' = [ui EXCEPT !.saving = "none"]

PropsNext ==
    \/ \E result \in Results :
          Here /\ (\/ ListAnswered(result) \/ PropAnswered(result)
                   \/ DeleteAnswered(result) \/ SaveAnswered(result))
    \/ Show \/ Cancel \/ Tick
    \/ CreateClicked \/ EmptyCreateClicked \/ EditClicked \/ DeleteClicked
    \/ CancelDialog \/ SubmitProp \/ ConfirmDelete \/ Save

-----------------------------------------------------------------------------
TypeOK ==
    Here =>
        /\ {ui.selected, ui.list, ui.exists, ui.row, ui.stored} \subseteq SUBSET Props
        /\ ui.type \in Types /\ ui.current \in Props \cup {New}

(* To set the category of an identifier never removes its label, nor the   *)
(* other way round, unless a save, or the reading of the table after it,   *)
(* failed before: that leaves mere ids in the row.                         *)
KeepsTheOther == Here => ~ui.dropped

(* The property that will be renamed is the one that is ticked, unless the *)
(* dialog for a new one was opened in between.                             *)
RenamesWhatIsTicked ==
    Here /\ ui.dialog = "prop" /\ ui.mode = "update" /\ ui.selected # {} =>
        ui.apart \/ ui.selected = {ui.current}

(* The list that was asked for last is the one of the properties there are *)
(* of the kind the dialog is for.                                          *)
ShowsWhatExists == Here /\ ui.shown /\ ui.fresh => ui.list = OfType(ui.type, ui.exists)

(* The list is loading only while a request is under way, or when one was  *)
(* rejected.                                                               *)
WaitsForSomething == Here /\ ui.loading => ui.reads # {} \/ ui.lost
=============================================================================
