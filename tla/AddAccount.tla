------------------------------- MODULE AddAccount -------------------------------
(***************************************************************************)
(* Adding an account (pages/add-account): by itself and by organisation    *)
(* (AddAccountInfo), or behind a proxy and for other providers             *)
(* (AccountForm).  A tab that is not shown is unmounted.                   *)
(***************************************************************************)
EXTENDS ApiClient, Integers, FiniteSets

VARIABLES route, ui     \* which page is shown, and the state it keeps

Here == route = "addAccount"

TabsOf(provider) == IF provider = 1 THEN {"individual", "proxy", "via"} ELSE {"proxy"}
Regions == {"none", "region"}

(* account, region: what is entered; loading: isLoading; regions: the list *)
(* was read, asking: it is being read; visit: how often a tab was opened;  *)
(* sent: the calls under way; left: the visit whose answer led away.       *)
Opened(u, tab) ==
    [u EXCEPT !.tab = tab, !.account = FALSE, !.region = "none", !.loading = FALSE,
              !.regions = FALSE, !.asking = tab = "proxy", !.visit = @ + 1]

Mounted(provider) ==
    Opened([provider |-> provider, tab |-> "none", account |-> FALSE,
            region |-> "none", loading |-> FALSE, regions |-> FALSE, asking |-> FALSE,
            visit |-> 0, sent |-> {}],
           IF provider = 1 THEN "individual" ELSE "proxy")

MaxVisits == 3      \* bound: tabs opened

ChangeTab ==
    /\ Here /\ ui.visit < MaxVisits
    /\ \E tab \in TabsOf(ui.provider) \ {ui.tab} : ui' = Opened(ui, tab)

(* getRegionListByProvider has no catch; without it no region is offered.  *)
RegionsAnswered(result) ==
    /\ Here /\ ui.asking
    /\ ui' = [ui EXCEPT !.asking = FALSE, !.regions = result = "resolved"]

ChangeAccount == Here /\ ui' = [ui EXCEPT !.account = ~@]

ChangeRegion == Here /\ ui.regions /\ ui.region = "none" /\ ui' = [ui EXCEPT !.region = "region"]

(* addAwsAccount, addAwsOrgAccount, addAccountButton: an account is what   *)
(* the button needs; the region is not checked.                            *)
(* Mutant: the button is not disabled while the call is under way.         *)
MutantCanAdd(u) == u.account
CanAdd(u) == u.account /\ ~u.loading

AddThisAccount ==
    /\ Here /\ CanAdd(ui)
    /\ ui' = [ui EXCEPT !.loading = TRUE,
                        !.sent = @ \cup {[form |-> ui.tab, visit |-> ui.visit,
                                          nth |-> Cardinality(@), region |-> ui.region]}]

(* Success leads to the list of the accounts, from whatever tab is shown.  *)
AddAnswered(result) ==
    \E send \in ui.sent :
        ui' = IF result = "resolved" THEN [closed |-> TRUE]
              ELSE [ui EXCEPT !.sent = @ \ {send},
                              !.loading = @ /\ send.visit # ui.visit]

Back == Here /\ ~ui.loading /\ ui' = [closed |-> TRUE]

AddAccountNext ==
    \/ \E result \in Results : RegionsAnswered(result) \/ (Here /\ AddAnswered(result))
    \/ ChangeTab \/ ChangeAccount \/ ChangeRegion \/ AddThisAccount \/ Back

-----------------------------------------------------------------------------
TypeOK ==
    Here => /\ ui.tab \in TabsOf(ui.provider) /\ ui.region \in Regions
            /\ ui.visit \in 1 .. MaxVisits

(* A form adds one account at a time; opening its tab again lets it add    *)
(* another while the first one is still under way.                         *)
AddsOneAtATime ==
    Here => \A one, other \in ui.sent : one.visit = other.visit => one = other
=============================================================================
