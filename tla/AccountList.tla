------------------------------ MODULE AccountList ------------------------------
(***************************************************************************)
(* The accounts of a provider                                              *)
(* (pages/account-management/componments/AccountList): the table, the      *)
(* reading that also refreshes every account, refreshing one, deleting.    *)
(***************************************************************************)
EXTENDS TableRequests, FiniteSets

VARIABLES route, ui     \* which page is shown, and the state it keeps

Here == route = "accounts"

(* loads: the calls of dynamicLoadAccounts, the parameters they read with  *)
(* and whether they still read or refresh; accountsLoaded: the numbers are *)
(* shown; refreshing: selectedAccount; deleting: deleteLoading, acting:    *)
(* their calls, and the parameters of the render they were made in;        *)
(* forsaken: one was rejected; overwritten: dynamicLoadAccounts put rows   *)
(* in place of others.                                                     *)
Load(params, stage) == [params |-> params, stage |-> stage]

DynamicLoadAccounts(u) ==
    [u EXCEPT !.accountsLoaded = FALSE, !.loads = @ \cup {Load(ParamsOf(u), "read")}]

Mounted ==
    DynamicLoadAccounts(Send(TableAnd(
        [loads |-> {}, accountsLoaded |-> FALSE, refreshing |-> FALSE,
         deleting |-> FALSE, acting |-> {}, forsaken |-> {}, overwritten |-> FALSE,
         outdated |-> FALSE])))

(* Bound: calls under way.                                                 *)
Calls(u) == Len(u.pending) + Cardinality(u.loads) + Cardinality(u.acting)

At(change) ==
    /\ Here /\ ui' = change
    /\ Calls(ui') <= MaxPending \/ Calls(ui') <= Calls(ui)

-----------------------------------------------------------------------------
(***************************************************************************)
(* The table                                                               *)
(***************************************************************************)
GetPageData(u) == Send([u EXCEPT !.outdated = FALSE])

(* The answer empties the selection.                                       *)
PageShown(u, i) == Untick(Shown([u EXCEPT !.overwritten = FALSE], i))

(* The catch ends the loading too.                                         *)
PageFailed(u, i) == [Lost(u, i) EXCEPT !.loading = FALSE]

PageDataAnswered(i, result) ==
    Here /\ At(IF result = "resolved" THEN PageShown(ui, i) ELSE PageFailed(ui, i))

ChangePage ==
    \E page \in PagesOf(ui) : Here /\ page # ui.page /\ At(GetPageData([ui EXCEPT !.page = page]))

(* The effect on the filter turns to the first page, whose effect sends,   *)
(* or else sends itself.                                                   *)
ChangeQuery ==
    \E query \in Queries :
        Here /\ query # ui.query /\ At(GetPageData([ui EXCEPT !.query = query, !.page = 1]))

SelectRows ==
    /\ Here /\ ~ui.loading /\ ui.rows # NoRows
    /\ \E ids \in SUBSET Items \ {ui.ticked.ids} : At(Tick(ui, ids))

Refresh ==
    /\ Here /\ ~ui.loading /\ ~ui.deleting /\ ~ui.refreshing
    /\ At(DynamicLoadAccounts(GetPageData(ui)))

-----------------------------------------------------------------------------
(***************************************************************************)
(* Reading the accounts and refreshing them all (dynamicLoadAccounts)      *)
(***************************************************************************)

(* The list is awaited without a catch; refreshing has one.                *)
AccountsRead(result) ==
    \E load \in ui.loads :
        /\ load.stage = "read"
        /\ At([ui EXCEPT !.loads = (@ \ {load})
                                   \cup (IF result = "resolved" THEN {Load(load.params, "refresh")}
                                         ELSE {}),
                         !.forsaken = IF result = "resolved" THEN @ ELSE @ \cup {"loads"}])

(* After the refresh the numbers are shown, with the rows that were read   *)
(* before it, whatever rows the table has by then; the selection stays.    *)
(* Mutant: the numbers stay hidden.                                        *)
MutantRefreshed(u, load) ==
    [u EXCEPT !.loads = @ \ {load}, !.rows = load.params,
              !.overwritten = @ \/ load.params # u.rows]

Refreshed(u, load) ==
    [u EXCEPT !.loads = @ \ {load}, !.accountsLoaded = TRUE, !.rows = load.params,
              !.overwritten = @ \/ load.params # u.rows]

AccountsRefreshed ==
    \E load \in ui.loads : load.stage = "refresh" /\ At(Refreshed(ui, load))

-----------------------------------------------------------------------------
(***************************************************************************)
(* Refreshing one account, deleting one: neither has a catch               *)
(***************************************************************************)
ClkRefreshDatasource ==
    /\ Here /\ ~ui.refreshing /\ ~ui.loading /\ ui.rows # NoRows
    /\ At([ui EXCEPT !.refreshing = TRUE, !.acting = @ \cup {Load(ParamsOf(ui), "refreshing")}])

ClkDeleteAccount ==
    /\ Here /\ ~ui.deleting /\ ~ui.loading /\ ~ui.refreshing /\ ui.ticked.ids # {}
    /\ At([ui EXCEPT !.deleting = TRUE, !.acting = @ \cup {Load(ParamsOf(ui), "deleting")}])

(* After it the table is fetched as it was when the button was clicked.    *)
Acted(u, act) ==
    SendWith([u EXCEPT !.outdated = act.params # ParamsOf(u),
                       !.refreshing = @ /\ act.stage # "refreshing",
                       !.deleting = @ /\ act.stage # "deleting",
                       !.accountsLoaded = @ \/ act.stage = "refreshing"],
             act.params)

ActAnswered(result) ==
    \E act \in ui.acting :
        LET over == [ui EXCEPT !.acting = @ \ {act}]
        IN  At(IF result = "resolved" THEN Acted(over, act)
               ELSE [over EXCEPT !.forsaken = @ \cup {act.stage}])

-----------------------------------------------------------------------------
AccountsNext ==
    \/ Here /\ \E result \in Results :
          \/ \E i \in DOMAIN ui.pending : PageDataAnswered(i, result)
          \/ AccountsRead(result)
          \/ ActAnswered(result)
    \/ Here /\ AccountsRefreshed
    \/ ChangePage \/ ChangeQuery \/ SelectRows \/ Refresh
    \/ ClkRefreshDatasource \/ ClkDeleteAccount

-----------------------------------------------------------------------------
Stages == {"read", "refresh", "refreshing", "deleting"}

TypeOK ==
    Here =>
        /\ TableType(ui)
        /\ (ui.loads \cup ui.acting) \subseteq [params : Params, stage : Stages]

(* The rows that are shown are those of the page and filter that are shown *)
(* - but for those of the reading that refreshed every account, and for    *)
(* the refresh after an operation, both of an earlier page or filter.      *)
ShowsWhatIsAsked == Here => ui.outdated \/ ui.overwritten \/ RowsAreCurrent(ui)

(* What is selected, and would be deleted, is on the page that is shown,   *)
(* unless the reading that refreshed every account replaced that.          *)
DeletesWhatIsShown ==
    Here /\ ui.ticked.ids # {} => ui.overwritten \/ ui.ticked.of = ui.rows

(* The table, the numbers, the two buttons wait only for a call that is    *)
(* under way, or for one that was rejected and that nothing catches.       *)
WaitsForSomething ==
    Here =>
        /\ ui.loading => ui.pending # << >>
        /\ ~ui.accountsLoaded => ui.loads # {} \/ "loads" \in ui.forsaken
        /\ ui.refreshing => "refreshing" \in ui.forsaken \/ \E act \in ui.acting : act.stage = "refreshing"
        /\ ui.deleting => "deleting" \in ui.forsaken \/ \E act \in ui.acting : act.stage = "deleting"
=============================================================================
