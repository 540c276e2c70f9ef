----------------------------- MODULE SystemSettings -----------------------------
(***************************************************************************)
(* The system settings (pages/system-settings): how many jobs, and how     *)
(* many parts of a job, run together, against the addresses the subnets    *)
(* have left.                                                              *)
(***************************************************************************)
EXTENDS ApiClient, Integers

CONSTANT MaxNumber      \* bound: the numbers entered

SettingsAssumption == MaxNumber \in Nat \ {0}

VARIABLES route, ui     \* which page is shown, and the state it keeps

Here == route = "settings"

(* What an input holds: a number, or something parseInt makes NaN of.      *)
Blank == -1
Entries == 1 .. MaxNumber \cup {Blank}

Addresses == {55, 60, 75}

(* jobs: ConcurrentRunJobNumber; parts: SubJobNumberRds; subnets: the      *)
(* addresses the two subnets had when the page was opened; saving: what is *)
(* being saved, and whether it was estimated to fit.                       *)
Mounted(subnets) ==
    [loading |-> TRUE, lost |-> FALSE, jobs |-> Blank, parts |-> Blank,
     subnets |-> subnets, ipError |-> FALSE, ipSuccess |-> FALSE, saving |-> {}, stuck |-> FALSE]

(* getSystemSettingsConfig; a key that is missing gives a blank.  Neither  *)
(* of its two calls is caught.                                             *)
ConfigAnswered(result) ==
    /\ Here /\ ui.loading /\ ~ui.lost
    /\ IF result = "rejected" THEN ui' = [ui EXCEPT !.lost = TRUE]
       ELSE \E jobs, parts \in Entries :
               ui' = [ui EXCEPT !.loading = FALSE, !.jobs = jobs, !.parts = parts]

Ready == Here /\ ~ui.loading

(* An edit takes the estimate back.                                        *)
Edited(u, jobs, parts) ==
    [u EXCEPT !.jobs = jobs, !.parts = parts, !.ipError = FALSE, !.ipSuccess = FALSE]

ChangeJobs == Ready /\ \E jobs \in Entries \ {ui.jobs} : ui' = Edited(ui, jobs, ui.parts)
ChangeParts == Ready /\ \E parts \in Entries \ {ui.parts} : ui' = Edited(ui, ui.jobs, parts)

FindMinimumAvailableIP(subnets) == IF subnets[1] < subnets[2] THEN subnets[1] ELSE subnets[2]

CalculateEstimateRestIPs(jobs, parts) == (3 + parts * 2) * jobs

(* estimateIPs; no comparison with NaN is true.                            *)
Exceeds(u) ==
    /\ Blank \notin {u.jobs, u.parts}
    /\ CalculateEstimateRestIPs(u.jobs, u.parts) > FindMinimumAvailableIP(u.subnets) - 50

EstimateIPs ==
    /\ Ready
    /\ ui' = [ui EXCEPT !.ipError = Exceeds(ui), !.ipSuccess = ~Exceeds(ui)]

(* updateSystemSettingsConfig, without a catch.                            *)
(* Mutant: the estimate is not asked for.                                  *)
MutantCanSave(u) == ~u.ipError
CanSave(u) == ~u.ipError /\ u.ipSuccess

Save ==
    /\ Ready /\ ui.saving = {} /\ ~ui.stuck /\ CanSave(ui)
    /\ ui' = [ui EXCEPT !.saving = {[jobs |-> ui.jobs, parts |-> ui.parts]}]

SaveAnswered(result) ==
    /\ Here /\ ui.saving # {}
    /\ ui' = IF result = "resolved"
             THEN [ui EXCEPT !.saving = {}, !.ipError = FALSE, !.ipSuccess = FALSE]
             ELSE [ui EXCEPT !.saving = {}, !.stuck = TRUE]

SettingsNext ==
    \/ \E result \in Results : ConfigAnswered(result) \/ SaveAnswered(result)
    \/ ChangeJobs \/ ChangeParts \/ EstimateIPs \/ Save

-----------------------------------------------------------------------------
TypeOK == Here => {ui.jobs, ui.parts} \subseteq Entries

(* Numbers are saved only if the subnets have the addresses they need, and *)
(* fifty more; an entry that is no number passes the estimate.             *)
SavesWhatFits ==
    Here => \A save \in ui.saving :
        \/ Blank \in {save.jobs, save.parts}
        \/ \A i \in DOMAIN ui.subnets :
              CalculateEstimateRestIPs(save.jobs, save.parts) + 50 <= ui.subnets[i]

(* The estimate that is shown is the one of the numbers that are shown.    *)
EstimateOfNumbers ==
    Here => /\ ui.ipSuccess => ~Exceeds(ui)
            /\ ui.ipError => Exceeds(ui)
=============================================================================
