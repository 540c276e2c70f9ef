------------------------------ MODULE TemplateAdd ------------------------------
(***************************************************************************)
(* The panel to add identifiers to the template                            *)
(* (pages/data-template/componments/AddIndentifierTable, in a tab of       *)
(* AddCustomIdentfier): the table of the identifiers, and adding the       *)
(* selected ones.  What the page under it does then is in DataTemplate.    *)
(***************************************************************************)
EXTENDS TableRequests, FiniteSets

VARIABLES route, ui     \* which page is shown, and the state it keeps

Here == route = "templateAdd"

(* used: the identifiers the template has; inUse: those the panel knows    *)
(* of; reading: that list is to come; unsure: something was selected       *)
(* before it came, or an addition was not answered; again: an answer to    *)
(* the table came while something was added; adding: the additions under   *)
(* way; forsaken: a request of the table was rejected.                     *)
Mounted(used) ==
    Send(TableAnd([used |-> used, inUse |-> {}, reading |-> TRUE,
                   unsure |-> FALSE, adding |-> << >>, again |-> FALSE, forsaken |-> FALSE]))

(* Bound: the calls under way.                                             *)
Calls(u) == Len(u.pending) + Len(u.adding)

At(change) ==
    /\ Here /\ ui' = change
    /\ Calls(ui') <= MaxPending \/ Calls(ui') <= Calls(ui)

-----------------------------------------------------------------------------
(* getPageData has no catch: a rejected request leaves the table loading,  *)
(* until another answer comes.                                             *)
PageFailed(u, i) == [Lost(u, i) EXCEPT !.forsaken = TRUE]

PageShown(u, i) == [Shown(u, i) EXCEPT !.again = @ \/ u.adding # << >>]

PageDataAnswered(i, result) ==
    Here /\ At(IF result = "resolved" THEN PageShown(ui, i) ELSE PageFailed(ui, i))

(* getIdentifierInUse.                                                     *)
InUseAnswered(result) ==
    /\ Here /\ ui.reading
    /\ At(IF result = "resolved" THEN [ui EXCEPT !.reading = FALSE, !.inUse = ui.used]
          ELSE [ui EXCEPT !.reading = FALSE, !.unsure = TRUE])

(* Another page ends the selection.                                        *)
(* Mutant: it does not.                                                    *)
MutantPaged(u, page) == Send([u EXCEPT !.page = page])

Paged(u, page) == Send(Untick([u EXCEPT !.page = page]))

ChangePage == \E page \in PagesOf(ui) : Here /\ page # ui.page /\ At(Paged(ui, page))

(* The filter, the category, the label, the type and the order do not,     *)
(* unless they lead back to the first page.                                *)
ChangeQuery ==
    \E query \in Queries :
        /\ Here /\ query # ui.query
        /\ At(LET asked == Queried(ui, query) IN IF ui.page = 1 THEN asked ELSE Untick(asked))

-----------------------------------------------------------------------------
(* isItemDisabled.                                                         *)
Selectable(u) == Items \ u.inUse

SelectRows ==
    /\ Here /\ ~ui.loading /\ ui.rows # NoRows
    /\ \E ids \in SUBSET Selectable(ui) \ {ui.ticked.ids} :
          At([Tick(ui, ids) EXCEPT !.unsure = @ \/ ui.reading,
                                 !.ticked.early = @ \/ ui.rows # ParamsOf(ui)])

(* clkAdd; loading is what disables the button.                            *)
ClkAdd ==
    /\ Here /\ ~ui.loading /\ ui.ticked.ids # {}
    /\ At([ui EXCEPT !.adding = Append(@, ui.ticked.ids), !.loading = TRUE])

(* create_mapping refuses identifiers the template has.  After success     *)
(* addCallBack closes the panel.                                           *)
AddAnswered ==
    \E k \in DOMAIN ui.adding, wire \in Wire : \E performed \in PerformedBy(wire) :
        LET ids == ui.adding[k]
            left == [ui EXCEPT !.adding = Without(@, k), !.loading = FALSE,
                               !.used = IF performed THEN @ \cup ids ELSE @,
                               !.unsure = @ \/ performed]
        IN  /\ performed => ids \cap ui.used = {}
            /\ IF ApiResult(wire) = "resolved" THEN ui' = [closed |-> TRUE] ELSE At(left)

-----------------------------------------------------------------------------
AddNext ==
    \/ Here /\ \E result \in Results :
          \/ \E i \in DOMAIN ui.pending : PageDataAnswered(i, result)
          \/ InUseAnswered(result)
    \/ Here /\ AddAnswered
    \/ ChangePage \/ ChangeQuery \/ SelectRows \/ ClkAdd

-----------------------------------------------------------------------------
TypeOK == Here => TableType(ui) /\ ui.used \subseteq Items /\ ui.inUse \subseteq ui.used

(* What is selected, and would be added, is of the page that is shown -    *)
(* though maybe of another filter - unless another answer was to come, or  *)
(* other rows were shown, when it was selected.                            *)
AddsFromThisPage ==
    Here /\ ui.ticked.ids # {} => ui.ticked.of.page = ui.page \/ ui.ticked.early

(* Nothing the template has is added to it again, which would make the     *)
(* service refuse the whole addition - unless it was selected before the   *)
(* list of those was known, or an addition was not answered; and one       *)
(* addition is under way at a time, unless an answer to the table gave the *)
(* button back.                                                            *)
AddsWhatIsNew ==
    Here =>
        /\ ui.unsure \/ \A k \in DOMAIN ui.adding : ui.adding[k] \cap ui.used = {}
        /\ ui.again \/ Len(ui.adding) <= 1

(* The table is loading only while it is read or something is added, or    *)
(* after a rejected request.                                               *)
WaitsForSomething ==
    Here /\ ui.loading => ui.pending # << >> \/ ui.adding # << >> \/ ui.forsaken
=============================================================================
