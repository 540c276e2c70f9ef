----------------------------- MODULE PortalTables -----------------------------
(***************************************************************************)
(* The pages and dialogs of the portal that have a table of requests       *)
(* (TableRequests).  Each keeps its state in ui while it is the one that   *)
(* is shown.                                                               *)
(***************************************************************************)
EXTENDS Integers, Sequences, FiniteSets

CONSTANTS
    Items, MaxPage, MaxPending,             \* TableRequests
    MaxTables                               \* GlueJob

VARIABLES
    route,                                  \* which page is shown, if any
    ui                                      \* the state it keeps

Sources     == INSTANCE DataSourceList
Jobs        == INSTANCE JobList
Run         == INSTANCE GlueJob
Catalog     == INSTANCE CatalogList
Folder      == INSTANCE CatalogDetail
Identifiers == INSTANCE IdentifierTable
Template    == INSTANCE DataTemplate
Adding      == INSTANCE TemplateAdd
Accounts    == INSTANCE AccountList
Picker      == INSTANCE CatalogPicker

Closed == [closed |-> TRUE]                 \* no page

ASSUME TablesAssumption == Jobs!TableAssumption
=============================================================================
