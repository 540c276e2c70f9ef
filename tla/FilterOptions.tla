---------------------------- MODULE FilterOptions ----------------------------
(***************************************************************************)
(* The filter above a table (pages/resources-filter): the hook             *)
(* useDistributionsPropertyFiltering fetches the values of the property    *)
(* the user is filtering by, and drops answers that are out of date.       *)
(***************************************************************************)
EXTENDS ApiClient, FiniteSets

CONSTANTS
    Properties,     \* the columns that can be filtered by
    NoProperty      \* the hook's first request, which names none

VARIABLES
    wanted,         \* request.current: what was asked for last
    asked,          \* the properties whose values were asked for and not answered
    options,        \* the property the listed values belong to
    status          \* what the filter says of its list

filterVars == <<wanted, asked, options, status>>

FilterAssumption == NoProperty \notin Properties

(* Mounted: one request without a property.                                *)
FilterInit ==
    /\ wanted = NoProperty /\ asked = {NoProperty}
    /\ options = NoProperty /\ status = "pending"

(* onLoadItems: the values of a property, or of none while it is typed.    *)
HandleLoadItems(p) ==
    /\ p \notin asked
    /\ wanted' = p /\ asked' = asked \cup {p}
    /\ options' = NoProperty /\ status' = "loading"

(* Mutant: the answer is not compared with what was asked for last.        *)
MutantUpToDate(p) == p \in asked

UpToDate(p) == wanted = p

(* The answer of getPropertyValues; without a property there is no call    *)
(* and nothing to fail.                                                    *)
Fetched(p) ==
    /\ p \in asked /\ asked' = asked \ {p}
    /\ IF UpToDate(p)
       THEN options' = p /\ status' = "finished"
       ELSE UNCHANGED <<options, status>>
    /\ UNCHANGED wanted

FetchFailed(p) ==
    /\ p \in asked \ {NoProperty} /\ asked' = asked \ {p}
    /\ status' = "error"
    /\ UNCHANGED <<wanted, options>>

FilterNext ==
    \E p \in Properties \cup {NoProperty} :
        HandleLoadItems(p) \/ Fetched(p) \/ FetchFailed(p)

FilterSpec == FilterInit /\ [][FilterNext]_filterVars

-----------------------------------------------------------------------------
(* The values that are offered are those of the property the user is       *)
(* filtering by, in whatever order the answers come (request.current).     *)
OptionsOfProperty == status = "finished" => options = wanted

(* A filter that says it is loading has a request under way for what it    *)
(* shows, so that it does not say so for ever.                             *)
LoadingIsAnswered == status = "loading" => wanted \in asked
=============================================================================
