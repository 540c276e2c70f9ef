---------------------------- MODULE TableRequests ----------------------------
(***************************************************************************)
(* What the tables of the portal have in common: a page keeps its state in *)
(* a record u whose fields include                                         *)
(*    page, query      the index of the page, and everything else the      *)
(*                     request depends on (filter, order, page size, tab), *)
(*    pending          the requests under way, oldest first,               *)
(*    rows             the parameters the shown rows are the answer to,    *)
(*    fresh            the shown rows answer the newest request,           *)
(*    loading          the flag isLoading, under which rows are hidden,    *)
(*    ticked           the selected rows.                                  *)
(* A request is never cancelled, and its answer is shown whenever it comes.*)
(***************************************************************************)
EXTENDS ApiClient, Naturals, Sequences

CONSTANTS
    Items,          \* rows of a page of a table
    MaxPage,        \* bound: pages of a table
    MaxPending      \* bound: requests of one table under way

TableAssumption == MaxPage \in Nat \ {0} /\ MaxPending \in Nat \ {0}

Queries == {"plain", "filtered"}
Params == [page : 1 .. MaxPage, query : Queries]
NoRows == [page |-> 0, query |-> "plain"]

(* Selected rows: of which rows they are, and whether they were ticked     *)
(* while another answer was still to come.                                 *)
Ticked(ids, of, early) == [ids |-> ids, of |-> of, early |-> early]
NoTicks == Ticked({}, NoRows, FALSE)

NewTable ==
    [page |-> 1, query |-> "plain", pending |-> << >>, rows |-> NoRows,
     fresh |-> FALSE, loading |-> FALSE, ticked |-> NoTicks]

(* The state of a page that has a table, and a state of its own.           *)
TableAnd(own) ==
    [field \in DOMAIN NewTable \cup DOMAIN own |->
        IF field \in DOMAIN NewTable THEN NewTable[field] ELSE own[field]]

(* Bound: of the rows a filter leaves, the user turns to the first page    *)
(* only; and where a filter keeps the page, it is used on the first page.  *)
Narrowed == {"filtered", "filteredTables", "taggedByName"}
PagesOf(u) == IF u.query \in Narrowed THEN {1} ELSE 1 .. MaxPage

ParamsOf(u) == [page |-> u.page, query |-> u.query]

(* A request goes out with the parameters of the render its handler was    *)
(* made in.  It counts as new only if these are the current ones.          *)
SendWith(u, params) ==
    [u EXCEPT
        !.pending = Append([i \in DOMAIN @ |-> [@[i] EXCEPT !.newest = FALSE]],
                           [params |-> params, newest |-> params = ParamsOf(u)]),
        !.loading = TRUE]

Send(u) == SendWith(u, ParamsOf(u))

(* Pages with an effect on the filter and another one on the page: the     *)
(* first turns to page 1 and sends, but with the page of its render; the   *)
(* second, if that was another page, sends again.                          *)
(* Mutant: there is no second effect.                                      *)
MutantQueried(u, query) == [Send([u EXCEPT !.query = query]) EXCEPT !.page = 1]

Queried(u, query) ==
    LET sent == Send([u EXCEPT !.query = query])
    IN  IF u.page = 1 THEN sent ELSE Send([sent EXCEPT !.page = 1])

(* The requests without the i-th one.  (RemoveAt of SequencesExt: the      *)
(* proofs, which have one instance of this module for each table, cannot   *)
(* afford to take all of that module along.)                               *)
Without(requests, i) ==
    SubSeq(requests, 1, i - 1) \o SubSeq(requests, i + 1, Len(requests))

(* The answer to the i-th request is shown, or it never comes.             *)
Shown(u, i) ==
    [u EXCEPT !.pending = Without(@, i),
              !.rows = u.pending[i].params,
              !.fresh = u.pending[i].newest,
              !.loading = FALSE]

Lost(u, i) ==
    [u EXCEPT !.pending = Without(@, i),
              !.fresh = @ /\ ~u.pending[i].newest]

(* Rows are ticked; a table that is loading shows none.                    *)
Tick(u, ids) == [u EXCEPT !.ticked = Ticked(ids, u.rows, u.pending # << >>)]
Untick(u) == [u EXCEPT !.ticked = NoTicks]

(* The rows that are shown, if any, once nothing is under way and the      *)
(* newest request was answered, are those of the page and filter that the  *)
(* user sees selected.                                                     *)
RowsAreCurrent(u) == u.pending = << >> /\ u.fresh => u.rows = ParamsOf(u)

(* A selection is one of rows that are shown.                              *)
TicksAreShown(u) == u.ticked.ids # {} => u.ticked.of = u.rows \/ u.ticked.early

TableTypeOver(u, params) ==
    /\ ParamsOf(u) \in params /\ u.rows \in params \cup {NoRows}
    /\ u.fresh \in BOOLEAN /\ u.loading \in BOOLEAN
    /\ u.ticked \in [ids : SUBSET Items, of : params \cup {NoRows}, early : BOOLEAN]
    /\ \A i \in DOMAIN u.pending :
          u.pending[i] \in [params : params, newest : BOOLEAN]

TableType(u) == TableTypeOver(u, Params)
=============================================================================
