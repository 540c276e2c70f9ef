------------------------------ MODULE PortalPages ------------------------------
(***************************************************************************)
(* The pages of the portal and the way from one to another.  One page is   *)
(* mounted at a time; it leaves behind the calls it has under way, whose   *)
(* answers then change nothing the next page shows, since the state they   *)
(* are written to is gone.  What outlives a page is in BatchOperation.     *)
(***************************************************************************)
EXTENDS PortalTables

CONSTANTS
    Networks, MaxSaves,                     \* JDBCConnection, JDBCConnectionEdit
    HistoryPages,                           \* JobDetail
    ColumnPages, MaxReads,                  \* CatalogSchema, AccountTabs
    MaxWords, MaxUploads, MaxNumber,        \* IdentifierForm, BatchOperation, SystemSettings
    Properties, NoProperty                  \* FilterOptions

VARIABLES wanted, asked, options, status    \* the filter above the table of a page

filterVars == <<wanted, asked, options, status>>
vars == <<route, ui, wanted, asked, options, status>>

(* Forms, dialogs, and lists that are read as a whole.                     *)
AddJdbc     == INSTANCE JDBCConnection
EditJdbc    == INSTANCE JDBCConnectionEdit
Runs        == INSTANCE JobDetail
Schema      == INSTANCE CatalogSchema
Labels      == INSTANCE LabelModal
Props       == INSTANCE PropsModal
Form        == INSTANCE IdentifierForm
Batch       == INSTANCE BatchOperation
Tabs        == INSTANCE AccountTabs
NewAccount  == INSTANCE AddAccount
Settings    == INSTANCE SystemSettings
Filter      == INSTANCE FilterOptions

ASSUME FormsAssumption ==
    /\ AddJdbc!ConnectionAssumption /\ Runs!HistoryAssumption /\ Form!FormAssumption
    /\ Schema!SchemaAssumption
    /\ Batch!BatchAssumption /\ Settings!SettingsAssumption

ASSUME PagesAssumption == Filter!FilterAssumption

-----------------------------------------------------------------------------
Init == route = "none" /\ ui = Closed /\ Filter!FilterInit

(* The user opens a page, in every way it can be opened.                   *)
Enter(page, states) == route' = page /\ ui' \in states

Pages ==
    \/ Enter("sources", {Sources!Mounted(tag) : tag \in {"s3", "rds", "glue", "jdbc"}})
    \/ Enter("addJdbc", {AddJdbc!Mounted(aws, IF aws THEN 0 ELSE 1) : aws \in BOOLEAN})
    \/ Enter("editJdbc", {EditJdbc!Mounted(aws, known) : aws \in BOOLEAN, known \in BOOLEAN})
    \/ Enter("jobs", {Jobs!Mounted})
    \/ Enter("jobDetail", {Runs!Mounted})
    \/ Enter("glueJob", {Run!Mounted})
    \/ Enter("catalog", {Catalog!Mounted(kind, byTag) : kind \in {"s3", "rds", "jdbc"},
                                                       byTag \in BOOLEAN})
    \/ Enter("catalogDetail", {Folder!Mounted(kind) : kind \in {"s3", "rds"}})
    \/ Enter("schema", {Schema!Mounted(fromList) : fromList \in BOOLEAN})
    \/ Enter("labels", {Labels!Mounted({"a"})})
    \/ Enter("props", {Props!Mounted({"c1", "l1"})})
    \/ Enter("identifiers", {Identifiers!Mounted(custom) : custom \in BOOLEAN})
    \/ Enter("identifierForm", {Form!Mounted(old) : old \in {Form!NewIdentifier} \cup Form!Stored})
    \/ Enter("template", {Template!Mounted})
    \/ Enter("templateAdd", {Adding!Mounted(used) : used \in SUBSET Items})
    \/ Enter("batch", {Batch!Mounted})
    \/ Enter("accounts", {Accounts!Mounted})
    \/ Enter("accountTabs", {Tabs!Mounted(provider) : provider \in {0, 1, 2, 4, 9}})
    \/ Enter("addAccount", {NewAccount!Mounted(provider) : provider \in {1, 2}})
    \/ Enter("settings", {Settings!Mounted(subnets) : subnets \in [1 .. 2 -> Settings!Addresses]})
    \/ Enter("picker", {Picker!Mounted(kind) : kind \in {"s3", "rds", "glue", "jdbc"}})

(* From a menu, a link or the address.  Bound: when no page is shown;      *)
(* Leave makes that any page.                                              *)
Open == route = "none" /\ Pages
Leave == route # "none" /\ route' = "none" /\ ui' = Closed

PageNext ==
    \/ Sources!Here     /\ Sources!ListNext
    \/ AddJdbc!Here     /\ AddJdbc!ConnectionNext
    \/ EditJdbc!Here    /\ EditJdbc!EditNext
    \/ Jobs!Here        /\ Jobs!JobListNext
    \/ Runs!Here        /\ Runs!JobDetailNext
    \/ Run!Here         /\ Run!GlueJobNext
    \/ Catalog!Here     /\ Catalog!CatalogNext
    \/ Folder!Here      /\ Folder!DetailNext
    \/ Schema!Here      /\ Schema!SchemaNext
    \/ Labels!Here      /\ Labels!LabelsNext
    \/ Props!Here       /\ Props!PropsNext
    \/ Identifiers!Here /\ Identifiers!IdentifiersNext
    \/ Form!Here        /\ Form!FormNext
    \/ Template!Here    /\ Template!TemplateNext
    \/ Adding!Here      /\ Adding!AddNext
    \/ Batch!Here       /\ Batch!BatchNext
    \/ Accounts!Here    /\ Accounts!AccountsNext
    \/ Tabs!Here        /\ Tabs!AccountTabsNext
    \/ NewAccount!Here  /\ NewAccount!AddAccountNext
    \/ Settings!Here    /\ Settings!SettingsNext
    \/ Picker!Here      /\ Picker!PickerNext

(* A page is shown until the user leaves it, or until it closes itself.    *)
Stays == route' = IF ui' = Closed THEN "none" ELSE route

(* The filter is the same on every page that has one, and shares nothing   *)
(* with its table but the query; it is followed where there is no page.    *)
FilterNext == route = "none" /\ Filter!FilterNext /\ UNCHANGED <<route, ui>>

Next ==
    \/ (Open \/ Leave \/ (PageNext /\ Stays)) /\ Filter!FilterInit /\ UNCHANGED filterVars
    \/ FilterNext

Spec == Init /\ [][Next]_vars

-----------------------------------------------------------------------------
(***************************************************************************)
(* What is expected of every page.  Each part is stated, with what the     *)
(* code really promises and where it does not, in the module of its page.  *)
(***************************************************************************)
TypeOK ==
    /\ Sources!TypeOK /\ AddJdbc!TypeOK /\ EditJdbc!TypeOK
    /\ Jobs!TypeOK /\ Runs!TypeOK /\ Run!TypeOK
    /\ Catalog!TypeOK /\ Folder!TypeOK /\ Schema!TypeOK
    /\ Labels!TypeOK /\ Props!TypeOK /\ Identifiers!TypeOK /\ Form!TypeOK
    /\ Template!TypeOK /\ Adding!TypeOK /\ Batch!TypeOK
    /\ Accounts!TypeOK /\ Tabs!TypeOK /\ NewAccount!TypeOK /\ Settings!TypeOK
    /\ Picker!TypeOK

(* Tables: in whatever order the answers come, once the newest request is  *)
(* answered and nothing is under way, the rows are those of the page, the  *)
(* filter, the view the user sees selected (every getPageData).            *)
ShowsWhatIsAsked ==
    /\ Sources!ShowsWhatIsAsked /\ Jobs!ShowsWhatIsAsked /\ Run!ShowsWhatIsAsked
    /\ Catalog!ShowsWhatIsAsked /\ Folder!ShowsWhatIsAsked
    /\ Identifiers!ShowsWhatIsAsked /\ Template!ShowsWhatIsAsked /\ Accounts!ShowsWhatIsAsked
    /\ Picker!ShowsWhatIsAsked

(* Spinners and buttons that say loading wait for a call under way, but    *)
(* for those that a rejected call, caught by nothing, leaves for ever.     *)
WaitsForSomething ==
    /\ Sources!WaitsForSomething /\ AddJdbc!Waits
    /\ Jobs!WaitsForSomething /\ Runs!WaitsForSomething /\ Run!WaitsForSomething
    /\ Catalog!WaitsForSomething /\ Folder!WaitsForSomething /\ Schema!WaitsForSomething
    /\ Labels!WaitsForSomething /\ Props!WaitsForSomething /\ Identifiers!WaitsForSomething
    /\ Template!WaitsForSomething /\ Adding!WaitsForSomething
    /\ Accounts!WaitsForSomething /\ Tabs!WaitsForSomething /\ Picker!WaitsForSomething

(* What the user acts on is what is shown, in whatever order the answers   *)
(* came.  An operation on the selected rows hits rows the user sees (data  *)
(* sources, template, accounts, identifiers to add); the dialogs that edit *)
(* or delete ticked rows have some; the label or property that is renamed  *)
(* is the one that is ticked, and the deletion that is refused is blamed   *)
(* on the identifier it was for.  The details of a catalog that are open   *)
(* are those of the selected one, and a job is made of rows that were      *)
(* picked in the view that is shown.                                       *)
ActsOnWhatIsShown ==
    /\ Sources!ActsOnWhatIsShown /\ Sources!DialogHasTarget
    /\ Template!RemovesWhatIsShown /\ Adding!AddsFromThisPage
    /\ Accounts!DeletesWhatIsShown
    /\ Labels!RenamesWhatIsTicked /\ Props!RenamesWhatIsTicked
    /\ Identifiers!BlamesTheSelected
    /\ Catalog!DetailOfSelection /\ Picker!HandsWhatIsPicked

(* What a save sends is what its form shows, though the object that is     *)
(* sent and the fields are kept apart and answers reset either:            *)
(* connections that are created and updated, and the edited columns.       *)
SavesWhatIsShown ==
    /\ AddJdbc!SavesWhatIsShown
    /\ EditJdbc!SavesWhatIsShown /\ EditJdbc!SavesWholeDetails
    /\ Schema!SavesWhatIsEdited

(* Databases found for one kind of connection are not sent with another.   *)
FoundForThisKind == AddJdbc!FoundForThisKind /\ EditJdbc!FoundForThisKind

(* What can be saved has been validated since it last changed: an          *)
(* identifier has something to be found by, and the settings fit into the  *)
(* subnets, as was estimated for these very numbers.                       *)
SavesWhatIsValid ==
    Form!SavesARule /\ Settings!SavesWhatFits /\ Settings!EstimateOfNumbers

(* What a button starts is not started twice: connections, identifiers,    *)
(* additions to the template, accounts; and no run of a job is listed      *)
(* twice, though pages of them are appended.                               *)
ActsOnce ==
    /\ AddJdbc!CreatesOnce /\ Form!SavesOnce
    /\ Adding!AddsWhatIsNew /\ NewAccount!AddsOneAtATime
    /\ Runs!NoRunTwice

(* What is stored and what is shown of it stay the same where nobody       *)
(* changed it: the privacy of a catalog row, the label of an identifier    *)
(* whose category is set and the reverse, the switches of the template.    *)
KeepsWhatIsStored ==
    /\ Folder!PrivacyIsKept /\ Schema!PrivacyIsKept
    /\ Props!KeepsTheOther /\ Template!SwitchesAreStored

(* The labels, properties and categories one can choose from are those     *)
(* there are, the numbers of the accounts are those of the provider of     *)
(* the active tab, and the progress of a run is a percentage that says 100 *)
(* only when as many tables have results as the agent has counted.         *)
ShowsWhatExists ==
    /\ Labels!ShowsWhatExists /\ Props!ShowsWhatExists /\ Form!OffersWhatExists
    /\ Tabs!NumbersOfProvider /\ Tabs!ShowsActiveTab
    /\ Run!ShowsPercentage

(* A batch is followed to its end: the result that is shown is the one of  *)
(* the file uploaded last, a batch said to be in progress is being         *)
(* uploaded or polled, and its report is deleted only after it was shown.  *)
BatchIsFollowed ==
    /\ Batch!ReportsTheLatest /\ Batch!ProgressIsWatched
    /\ Batch!DeletesShownReports

(* The values a filter offers are those of the property it is about, and a *)
(* filter that is loading will be answered.                                *)
FilterOfProperty == Filter!OptionsOfProperty /\ Filter!LoadingIsAnswered
=============================================================================
