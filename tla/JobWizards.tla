------------------------------ MODULE JobWizards ------------------------------
(***************************************************************************)
(* The two wizards of the portal beside each other.  They share no state   *)
(* but the request layer; a behaviour uses one of them (a bound).          *)
(***************************************************************************)
EXTENDS JobWizard

CONSTANTS Buckets, RdsInstances, RdsTables, RdsTypes, OldSchedules, OldRdsLimit, MaxPage, MaxFetches

VARIABLES oldOpen, oldVisit, oldUi, oldCalls

oldVars == <<oldOpen, oldVisit, oldUi, oldCalls>>

Old == INSTANCE JobWizardOld
    WITH open <- oldOpen, visit <- oldVisit, ui <- oldUi, calls <- oldCalls,
         Schedules <- OldSchedules, RdsLimit <- OldRdsLimit

ASSUME OldAssumption == Old!OldWizardAssumption

WizardsInit == Init /\ Old!Init

WizardsNext ==
    \/ Next /\ oldVisit = 0 /\ UNCHANGED oldVars
    \/ Old!Next /\ visit = 0 /\ UNCHANGED vars

WizardsSpec == WizardsInit /\ [][WizardsNext]_<<vars, oldVars>>

-----------------------------------------------------------------------------
(* The properties of both wizards; those of the older one are stated and   *)
(* explained in its module.                                                *)
(* The types of their states.                                              *)
TypesOK == TypeOK /\ Old!TypeOK

(* The older wizard: its last two steps have something to scan, its rows   *)
(* belong to the view they are submitted for, and its day to the type of   *)
(* the frequency, however the user went back and forth and changed them.   *)
OldSubmitsSoundJob == Old!NeverEmpty /\ Old!RowsOfView /\ Old!DayOfItsKind

(* The older wizard: one visit makes one job, but for three named          *)
(* exceptions, and its buttons are held back for a reason.                 *)
OldSubmitsOnce == Old!OneJobPerVisit /\ Old!LoadingHasReason
=============================================================================
