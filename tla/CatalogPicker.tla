----------------------------- MODULE CatalogPicker -----------------------------
(***************************************************************************)
(* The tables in which the wizard of a job lets one pick what to scan      *)
(* (src/source/portal/src/pages/create-job/components/Select*Catalog.tsx): *)
(* the buckets, the instances, databases, tables or accounts of a source,  *)
(* in views that share their page, filter, number of rows and selection.   *)
(* JobWizard follows what is done with the rows that are picked.           *)
(***************************************************************************)
EXTENDS TableRequests

VARIABLES route, ui     \* which page is shown, and the state it keeps

Here == route = "picker"

Views(kind) ==
    [s3 |-> {"buckets"}, rds |-> {"instances", "tables"},
     glue |-> {"databases", "tables", "accounts"}, jdbc |-> {"instances", "tables"}][kind]

FirstView(kind) == [s3 |-> "buckets", rds |-> "instances",
                    glue |-> "databases", jdbc |-> "instances"][kind]

(* specify: some rows are to be picked, not all; rows: the request the     *)
(* rows of the view are the answer to, none for those left from an earlier *)
(* look at it; known: the views that have rows; total: the view whose rows *)
(* were counted last; handed: what the wizard was given last, and as rows  *)
(* of which view; forsaken: a rejected request was caught by nothing.      *)
Mounted(kind) ==
    [kind |-> kind, specify |-> FALSE, view |-> FirstView(kind),
     page |-> 1, query |-> "plain", pending |-> << >>, rows |-> NoRows, known |-> {}, total |-> "none",
     fresh |-> FALSE, loading |-> FALSE, ticked |-> {},
     handed |-> [ids |-> {}, view |-> FirstView(kind)], forsaken |-> FALSE]

-----------------------------------------------------------------------------
(***************************************************************************)
(* The requests.  Those of a first view take no filter along, nor do those *)
(* of the tables of RDS; those of tables, but for Glue, show no spinner.   *)
(***************************************************************************)
Ask(u, query) ==
    [u EXCEPT !.pending = Append([i \in DOMAIN @ |-> [@[i] EXCEPT !.newest = FALSE]],
                                 [params |-> [page |-> u.page, query |-> query],
                                  view |-> u.view, newest |-> TRUE])]

Spinning(u) == [u EXCEPT !.loading = TRUE]

GetS3CatalogData(u) == Spinning(Ask(u, "plain"))
GetRdsCatalogData(u) == Spinning(Ask(u, "plain"))
GetRdsFolderData(u) == Ask(u, "plain")
GetGlueCatalogData(u) == Spinning(Ask(u, "plain"))
GetGlueFolderData(u) == Spinning(Ask(u, u.query))
GetAwsAccountList(u) == Spinning(Ask(u, u.query))
GetJdbcCatalogData(u) == Spinning(Ask(u, "plain"))
GetJdbcFolderData(u) == Ask(u, u.query)

(* The effect that asks, on any change of what it depends on.              *)
Fetch(u) ==
    IF ~u.specify THEN u ELSE
    CASE u.kind = "s3" -> GetS3CatalogData(u)
      [] u.kind = "rds" /\ u.view = "instances" -> GetRdsCatalogData(u)
      [] u.kind = "rds" /\ u.view = "tables" -> GetRdsFolderData(u)
      [] u.kind = "glue" /\ u.view = "databases" -> GetGlueCatalogData(u)
      [] u.kind = "glue" /\ u.view = "tables" -> GetGlueFolderData(u)
      [] u.kind = "glue" /\ u.view = "accounts" -> GetAwsAccountList(u)
      [] u.kind = "jdbc" /\ u.view = "instances" -> GetJdbcCatalogData(u)
      [] u.kind = "jdbc" /\ u.view = "tables" -> GetJdbcFolderData(u)

(* An answer is kept with the rows of its view; the number of rows is one  *)
(* for all views.                                                          *)
Answered(u, i) ==
    LET request == u.pending[i]
    IN  [u EXCEPT !.pending = Without(@, i), !.loading = FALSE, !.fresh = request.newest,
                  !.rows = IF request.view = u.view THEN request.params ELSE @,
                  !.known = @ \cup {request.view}, !.total = request.view]

(* The requests of the first views are caught by nothing.                  *)
Rejected(u, i) ==
    LET first == u.pending[i].view = FirstView(u.kind)
    IN  [u EXCEPT !.pending = Without(@, i), !.fresh = @ /\ ~u.pending[i].newest,
                  !.loading = @ /\ first, !.forsaken = @ \/ first]

At(change) ==
    /\ Here /\ ui' = change
    /\ Len(ui'.pending) <= MaxPending \/ Len(ui'.pending) <= Len(ui.pending)

PageAnswered(i, result) ==
    Here /\ At(IF result = "resolved" THEN Answered(ui, i) ELSE Rejected(ui, i))

-----------------------------------------------------------------------------
(***************************************************************************)
(* What the user does                                                      *)
(***************************************************************************)

(* The tiles "all" and "specify".                                          *)
ChooseAll == Here /\ At(Fetch([ui EXCEPT !.specify = ~@]))

ChangePage ==
    /\ Here /\ ui.specify
    /\ \E page \in PagesOf(ui) \ {ui.page} : At(Fetch([ui EXCEPT !.page = page]))

(* The filter leaves the page as it is.                                    *)
ChangeQuery ==
    /\ Here /\ ui.specify /\ ui.page = 1
    /\ \E query \in Queries \ {ui.query} : At(Fetch([ui EXCEPT !.query = query]))

(* The effect on the selection, in whatever view it then is.               *)
Handed(u) == [u EXCEPT !.handed = [ids |-> u.ticked, view |-> u.view]]

SelectRows ==
    /\ Here /\ ui.specify /\ ~ui.loading /\ ui.view \in ui.known
    /\ \E ids \in SUBSET Items \ {ui.ticked} : At(Handed([ui EXCEPT !.ticked = ids]))

(* Another view: it is asked for at the page the last one had; then the    *)
(* first page is turned to and the selection ended.                        *)
(* Mutant: the selection is not.                                           *)
Turned(u) == IF u.page = 1 THEN u ELSE Fetch([u EXCEPT !.page = 1])

MutantViewed(u, view) ==
    Turned(Fetch([u EXCEPT !.view = view, !.rows = NoRows]))

Viewed(u, view) ==
    Handed([Turned(Fetch([u EXCEPT !.view = view, !.rows = NoRows])) EXCEPT !.ticked = {}])

ChangeView ==
    /\ Here /\ ui.specify
    /\ \E view \in Views(ui.kind) \ {ui.view} : At(Viewed(ui, view))

PickerNext ==
    \/ Here /\ \E result \in Results, i \in DOMAIN ui.pending : PageAnswered(i, result)
    \/ ChooseAll \/ ChangePage \/ ChangeQuery \/ SelectRows \/ ChangeView

-----------------------------------------------------------------------------
TypeOK ==
    Here =>
        /\ ui.view \in Views(ui.kind) /\ ui.known \subseteq Views(ui.kind)
        /\ ui.total \in Views(ui.kind) \cup {"none"}
        /\ ui.rows \in Params \cup {NoRows} /\ ui.handed.view \in Views(ui.kind)
        /\ \A i \in DOMAIN ui.pending : ui.pending[i].params \in Params

(* Once nothing is under way and the newest request was answered last, the *)
(* rows are those of the page, and of the filter where the view follows    *)
(* it, and the pages are counted of this view.                             *)
Follows(u) == u.kind \in {"glue", "jdbc"} /\ u.view # FirstView(u.kind)

ShowsWhatIsAsked ==
    Here /\ ui.pending = << >> /\ ui.fresh =>
        /\ ui.rows.page = ui.page
        /\ Follows(ui) => ui.rows.query = ui.query
        /\ ui.total = ui.view

(* What the wizard was given is what is selected, picked and handed over   *)
(* in the view that is shown, whose rows alone it can be made of.          *)
HandsWhatIsPicked ==
    Here => /\ ui.handed.ids = ui.ticked
            /\ ui.ticked # {} => ui.handed.view = ui.view

(* The spinner waits for a request, or for one that was rejected and that  *)
(* nothing catches.                                                        *)
WaitsForSomething ==
    Here /\ ui.loading => ui.pending # << >> \/ ui.forsaken
=============================================================================
