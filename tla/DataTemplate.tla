----------------------------- MODULE DataTemplate -----------------------------
(***************************************************************************)
(* The template (pages/data-template): the table of its identifiers, their *)
(* switches, removing identifiers, and what becomes of the table when some *)
(* were added.  The panel they are added in is in TemplateAdd.             *)
(***************************************************************************)
EXTENDS TableRequests, FiniteSets

VARIABLES route, ui     \* which page is shown, and the state it keeps

Here == route = "template"

Switches == [Items -> BOOLEAN]

(* shown: toggleEnable; stored: what the service has; toggling: the calls  *)
(* under way; crossed: a list was read while a switch was being stored;    *)
(* unsure: shown may therefore differ from stored until the next reading;  *)
(* adding: renders the panel was opened in, while it adds; removing: the   *)
(* deletion under way; outdated: the newest request repeats the parameters *)
(* of an earlier render.                                                   *)
Mounted ==
    Send(TableAnd([shown |-> [i \in Items |-> FALSE],
                   stored |-> [i \in Items |-> FALSE], toggling |-> {},
                   crossed |-> FALSE, unsure |-> FALSE, dialog |-> FALSE, confirmed |-> FALSE,
                   removing |-> {}, panel |-> FALSE, adding |-> {}, outdated |-> FALSE]))

Free == Here /\ ~ui.dialog /\ ~ui.panel /\ ui.removing = {}

(* Bound: the calls under way.                                             *)
Calls(u) == Len(u.pending) + Cardinality(u.toggling) + Cardinality(u.adding)

Overlap(v) ==
    [v EXCEPT !.crossed = IF ui.pending = << >> THEN ui.toggling # {} ELSE @ \/ ui.toggling # {}]

At(change) ==
    /\ Here
    /\ ui' = IF Len(change.pending) > Len(ui.pending) THEN Overlap(change) ELSE change
    /\ Calls(ui') <= MaxPending \/ Calls(ui') <= Calls(ui)

-----------------------------------------------------------------------------
(***************************************************************************)
(* The table                                                               *)
(***************************************************************************)
GetPageData(u) == Send([u EXCEPT !.outdated = FALSE])

(* The answer also renews the switches and empties the selection.          *)
(* Mutant: it leaves the switches.                                         *)
MutantSwitchesKept(u, i, switches) == Untick(Shown([u EXCEPT !.unsure = u.crossed], i))

PageShown(u, i, switches) ==
    Untick(Shown([u EXCEPT !.shown = switches, !.unsure = u.crossed], i))

(* The catch ends the loading too.                                         *)
PageFailed(u, i) == [Lost(u, i) EXCEPT !.loading = FALSE]

PageDataAnswered(i, result) ==
    IF result = "rejected" THEN At(PageFailed(ui, i))
    ELSE \E switches \in IF ui.crossed THEN Switches ELSE {ui.stored} :
            At(PageShown(ui, i, switches))

Refresh == Free /\ ~ui.loading /\ At(GetPageData(ui))

ChangePage ==
    \E page \in PagesOf(ui) : Free /\ page # ui.page /\ At(GetPageData([ui EXCEPT !.page = page]))

ChangeQuery ==
    \E query \in Queries : Free /\ query # ui.query /\ At(Queried([ui EXCEPT !.outdated = FALSE], query))

SelectRows ==
    /\ Free /\ ~ui.loading /\ ui.rows # NoRows
    /\ \E ids \in SUBSET Items \ {ui.ticked.ids} : At(Tick(ui, ids))

-----------------------------------------------------------------------------
(***************************************************************************)
(* The switches (setToggleChecked)                                         *)
(***************************************************************************)
SetToggleChecked(item) ==
    /\ Free /\ ~ui.loading /\ ui.rows # NoRows
    /\ LET call == [item |-> item, to |-> ~ui.shown[item]]
       IN  At([ui EXCEPT !.shown[item] = call.to, !.toggling = @ \cup {call},
                         !.unsure = @ \/ \E other \in ui.toggling : other.item = item,
                         !.crossed = @ \/ ui.pending # << >>])

(* A switch that could not be stored stays as it was put.                  *)
ToggleAnswered ==
    \E call \in ui.toggling, wire \in Wire : \E performed \in PerformedBy(wire) :
        At([ui EXCEPT !.toggling = @ \ {call},
                      !.stored[call.item] = IF performed THEN call.to ELSE @,
                      !.unsure = @ \/ ApiResult(wire) = "rejected"])

-----------------------------------------------------------------------------
(***************************************************************************)
(* Removing (clkDelete, TemplateDelete, confirmDelete)                     *)
(***************************************************************************)
ClkDelete ==
    Free /\ ~ui.loading /\ ui.ticked.ids # {} /\ At([ui EXCEPT !.dialog = TRUE])

TypeConfirm == Here /\ ui.dialog /\ ~ui.confirmed /\ At([ui EXCEPT !.confirmed = TRUE])

(* The global spinner covers the dialog while it removes.                  *)
Dismiss ==
    Here /\ ui.dialog /\ ui.removing = {} /\ At([ui EXCEPT !.dialog = FALSE, !.confirmed = FALSE])

ConfirmDelete ==
    /\ Here /\ ui.dialog /\ ui.confirmed /\ ui.removing = {}
    /\ At([ui EXCEPT !.removing = {[ids |-> ui.ticked.ids, params |-> ParamsOf(ui)]}])

(* After it the table is fetched as it was; a rejected one leaves the      *)
(* dialog open, with the word typed.                                       *)
Removed(u, params) ==
    SendWith([u EXCEPT !.removing = {}, !.dialog = FALSE, !.confirmed = FALSE,
                       !.outdated = params # ParamsOf(u)],
             params)

DeleteAnswered(result) ==
    \E removal \in ui.removing :
        At(IF result = "resolved" THEN Removed(ui, removal.params) ELSE [ui EXCEPT !.removing = {}])

-----------------------------------------------------------------------------
(***************************************************************************)
(* The panel to add identifiers, seen from the table                       *)
(***************************************************************************)
ClkAddDataIdentifier == Free /\ At([ui EXCEPT !.panel = TRUE])

(* It can be closed while it adds.                                         *)
ClosePanel == Here /\ ui.panel /\ At([ui EXCEPT !.panel = FALSE])

Add ==
    /\ Here /\ ui.panel /\ ui.adding = {}
    /\ At([ui EXCEPT !.adding = {ParamsOf(ui)}])

(* addCallBack: the first page without filter, fetched by its effects; and *)
(* before them the page and the filter of the render the panel was clicked *)
(* in.                                                                     *)
Closed(u) == [u EXCEPT !.adding = {}, !.panel = FALSE, !.page = 1, !.query = "plain"]

Added(u, params) ==
    LET first == SendWith(Closed(u), params)
    IN  IF ParamsOf(u) = ParamsOf(first)
        THEN [first EXCEPT !.outdated = params # ParamsOf(first)]
        ELSE Send([first EXCEPT !.outdated = FALSE])

AddAnswered(result) ==
    \E params \in ui.adding :
        At(IF result = "resolved" THEN Added(ui, params) ELSE [ui EXCEPT !.adding = {}])

-----------------------------------------------------------------------------
TemplateNext ==
    \/ \E result \in Results :
          \/ \E i \in DOMAIN ui.pending : PageDataAnswered(i, result)
          \/ Here /\ DeleteAnswered(result)
          \/ Here /\ AddAnswered(result)
    \/ Here /\ ToggleAnswered
    \/ \E item \in Items : SetToggleChecked(item)
    \/ Refresh \/ ChangePage \/ ChangeQuery \/ SelectRows
    \/ ClkDelete \/ TypeConfirm \/ Dismiss \/ ConfirmDelete
    \/ ClkAddDataIdentifier \/ ClosePanel \/ Add

-----------------------------------------------------------------------------
TypeOK ==
    Here =>
        /\ TableType(ui) /\ {ui.shown, ui.stored} \subseteq Switches
        /\ ui.toggling \subseteq [item : Items, to : BOOLEAN] /\ ui.adding \subseteq Params

(* Once everything is answered the switches show what is stored - unless   *)
(* storing one failed, or overlapped with storing the same one again or    *)
(* with reading the list, since that was read last.                        *)
SwitchesAreStored ==
    Here /\ ui.pending = << >> /\ ui.toggling = {} => ui.unsure \/ ui.shown = ui.stored

(* The rows that are shown are those of the page and filter that are shown *)
(* - but for the refresh after adding or removing identifiers when the     *)
(* page or the filter changed in between.                                  *)
ShowsWhatIsAsked == Here => ui.outdated \/ RowsAreCurrent(ui)

(* What is selected, and would be removed, is on the page that is shown.   *)
RemovesWhatIsShown == Here /\ ui.ticked.ids # {} => ui.ticked.of = ui.rows

(* The list is loading only while a request is under way.                  *)
WaitsForSomething == Here /\ ui.loading => ui.pending # << >>
=============================================================================
