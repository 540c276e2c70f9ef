------------------------------ MODULE AccountTabs ------------------------------
(***************************************************************************)
(* The tabs of the providers (common/ProviderTab) and the numbers of the   *)
(* selected one (pages/account-management), above the table of AccountList.*)
(* The catalog has the same tabs.                                          *)
(***************************************************************************)
EXTENDS ApiClient, Integers, FiniteSets

CONSTANT MaxReads   \* bound: readings of the numbers under way

VARIABLES route, ui     \* which page is shown, and the state it keeps

Here == route = "accountTabs"

(* The providers the service has; 4 are accounts behind a proxy, which are *)
(* listed under provider 1.                                                *)
Proxy == 4
Providers == {1, 2, Proxy}
Nothing == 0

(* asked: the provider in the address of the page; provider: the one that  *)
(* is shown; active: the active tab; reading: readings under way, of which *)
(* provider, and the second of their two calls; numbersOf, totalsOf: the   *)
(* providers the answers that are shown are about; crossed: two readings   *)
(* were under way; lost: the providers were not answered.                  *)
Mounted(asked) ==
    [asked |-> asked, providersLoading |-> TRUE, lost |-> FALSE,
     provider |-> Nothing, active |-> Nothing, tabs |-> {}, loading |-> TRUE, reading |-> {},
     numbersOf |-> Nothing, totalsOf |-> Nothing, crossed |-> FALSE]

Reading(provider, stage) == [provider |-> provider, stage |-> stage]

(* getSourceCoverageData, from the effect on the provider.                 *)
(* Mutant: the numbers of the last provider stay until they are replaced.  *)
MutantGetSourceCoverageData(u) ==
    [u EXCEPT !.loading = TRUE, !.crossed = @ \/ u.reading # {},
              !.reading = @ \cup {Reading(u.provider, "numbers")}]

GetSourceCoverageData(u) ==
    [u EXCEPT !.loading = TRUE, !.numbersOf = Nothing, !.crossed = @ \/ u.reading # {},
              !.reading = @ \cup {Reading(u.provider, "numbers")}]

(* changeProvider; a provider that does not exist is none.                 *)
Changed(u, provider) ==
    IF provider = u.provider \/ provider \notin Providers THEN u
    ELSE GetSourceCoverageData([u EXCEPT !.provider = provider])

(* getProviders has no catch.  The proxy has no tab.                       *)
Tabs == Providers \ {Proxy}

ProvidersAnswered(result) ==
    /\ Here /\ ui.providersLoading /\ ~ui.lost
    /\ LET first == IF ui.asked = Nothing THEN 1 ELSE ui.asked
       IN  ui' = IF result = "rejected" THEN [ui EXCEPT !.lost = TRUE]
                 ELSE Changed([ui EXCEPT !.providersLoading = FALSE, !.tabs = Tabs,
                                         !.active = first], first)

ChangeTab ==
    /\ Here /\ Cardinality(ui.reading) < MaxReads
    /\ \E tab \in ui.tabs \ {ui.active} : ui' = Changed([ui EXCEPT !.active = tab], tab)

(* Every reading that ends, ends the loading.                              *)
CoverageAnswered(result) ==
    \E read \in ui.reading :
        LET over == [ui EXCEPT !.reading = @ \ {read}]
        IN  ui' = IF result = "rejected" THEN [over EXCEPT !.loading = FALSE]
                  ELSE IF read.stage = "numbers"
                  THEN [over EXCEPT !.numbersOf = read.provider,
                                    !.reading = @ \cup {Reading(read.provider, "totals")}]
                  ELSE [over EXCEPT !.totalsOf = read.provider, !.loading = FALSE]

AccountTabsNext ==
    \/ \E result \in Results : ProvidersAnswered(result) \/ (Here /\ CoverageAnswered(result))
    \/ ChangeTab

-----------------------------------------------------------------------------
TypeOK ==
    Here =>
        /\ {ui.provider, ui.numbersOf, ui.totalsOf} \subseteq Providers \cup {Nothing}
        /\ ui.reading \subseteq [provider : Providers, stage : {"numbers", "totals"}]

(* The numbers that are shown are those of the provider that is shown, or  *)
(* zeros - unless readings of two providers were under way together.       *)
NumbersOfProvider ==
    Here /\ ~ui.loading => ui.crossed \/ ui.numbersOf \in {ui.provider, Nothing}

(* The provider that is shown is the one of the active tab - unless the    *)
(* address of the page asked for the proxy, as the way back from its data  *)
(* sources does, or for a provider that does not exist.                    *)
ShowsActiveTab ==
    Here /\ ~ui.providersLoading =>
        \/ ui.active = ui.provider /\ ui.active \in ui.tabs
        \/ ui.asked \notin {Nothing} \cup Tabs

(* The page waits only for a call that is under way - or for the providers *)
(* that were not answered, or for the one that does not exist.             *)
WaitsForSomething ==
    Here => /\ ui.loading => ui.reading # {} \/ ui.provider = Nothing
            /\ ui.provider = Nothing => ui.providersLoading \/ ui.asked \notin {Nothing} \cup Providers
=============================================================================
