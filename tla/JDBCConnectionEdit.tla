------------------------- MODULE JDBCConnectionEdit -------------------------
(***************************************************************************)
(* The dialog that edits a JDBC source (data-source-connection/            *)
(* componments/JDBCConnectionEdit.tsx): its details, the secrets of the    *)
(* account and the buckets are asked for at once, the network when the     *)
(* details are there, and the form is shown when the buckets are.          *)
(***************************************************************************)
EXTENDS ApiClient, Naturals

CONSTANTS
    Networks,       \* bound: the VPCs of the account are 1 .. Networks
    MaxSaves        \* bound: updates under way

VARIABLES route, ui     \* which page is shown, and the state it keeps

Here == route = "editJdbc"

Kinds == {"mysql", "other"}
Texts == {"empty", "host", "jdbc:mysql"}
Places == 0 .. Networks
Schemas == {"empty", "typed"} \cup Kinds

CheckJDBCIsMySQL(text) == text = "jdbc:mysql"
UrlOf(kind, text) == [kind |-> kind, text |-> text]
NoUrl == UrlOf("other", "empty")

OriginalData ==
    [name |-> FALSE, url |-> NoUrl, login |-> FALSE, secret |-> FALSE,
     schema |-> "empty", subnet |-> 0, sg |-> 0]

(* Mounted.  known: the secret of the source is in tempOptList, a variable *)
(* of the module that keeps the secrets of whatever account was last asked *)
(* for.                                                                    *)
NoSearch == [kind |-> "none", live |-> FALSE]

Mounted(aws, known) ==
    [aws |-> aws, known |-> known,
     data |-> OriginalData, kind |-> "other", text |-> "empty", credential |-> "password",
     secretItem |-> FALSE, secretOption |-> FALSE, vpc |-> 0, subnet |-> 0, sg |-> 0,
     isLoading |-> TRUE, asking |-> {"details", "secrets", "buckets"},
     search |-> NoSearch, saves |-> 0]

-----------------------------------------------------------------------------
(***************************************************************************)
(* What is asked for                                                       *)
(***************************************************************************)
Asked(what) == Here /\ what \in ui.asking
Heard(u, what) == [u EXCEPT !.asking = @ \ {what}]

Copied(u, data) ==
    [u EXCEPT !.data = data, !.search = IF @ = NoSearch THEN @ ELSE [@ EXCEPT !.live = FALSE]]

Details == [kind : Kinds, credential : {"secret", "password"}]

DataOf(details) ==
    [name |-> TRUE, url |-> UrlOf(details.kind, "host"),
     login |-> details.credential = "password", secret |-> details.credential = "secret",
     schema |-> "typed", subnet |-> 1, sg |-> 1]

(* getConnectionDetails, up to the request for the network: everything is  *)
(* overwritten, the secret is shown if it is among the listed ones.        *)
(* Mutant: the text of the URL is left as it was.                          *)
MutantFilled(u, details) ==
    [Copied(u, DataOf(details)) EXCEPT
        !.kind = details.kind, !.credential = details.credential,
        !.secretItem = IF details.credential = "secret" THEN u.known ELSE @]

Filled(u, details) ==
    [Copied(u, DataOf(details)) EXCEPT
        !.kind = details.kind, !.text = "host", !.credential = details.credential,
        !.secretItem = IF details.credential = "secret" THEN u.known ELSE @]

GetConnectionDetails(result) ==
    /\ Asked("details")
    /\ IF result = "resolved"
       THEN \E details \in Details :
               ui' = [Filled(Heard(ui, "details"), details) EXCEPT !.asking = @ \cup {"network"}]
       ELSE ui' = Heard(ui, "details")

(* ... and after it: the VPC of the subnet and the security group, which   *)
(* are shown as they are in the details.                                   *)
GetNetwork(result) ==
    /\ Asked("network")
    /\ ui' = IF result = "resolved"
             THEN [Heard(ui, "network") EXCEPT !.vpc = 1, !.subnet = 1, !.sg = 1]
             ELSE Heard(ui, "network")

LoadAccountSecrets(result) ==
    /\ Asked("secrets")
    /\ ui' = IF result = "resolved"
             THEN [Heard(ui, "secrets") EXCEPT !.known = TRUE, !.secretOption = TRUE]
             ELSE Heard(ui, "secrets")

(* listBuckets ends the loading of the form, whatever the answer.          *)
ListBuckets(result) ==
    Asked("buckets") /\ ui' = [Heard(ui, "buckets") EXCEPT !.isLoading = FALSE]

-----------------------------------------------------------------------------
(***************************************************************************)
(* The form                                                                *)
(***************************************************************************)
Form == Here /\ ~ui.isLoading
Change(data) == ui' = Copied(ui, data)

ChangeDetails == Form /\ Change(ui.data)

TypeUrl ==
    \E text \in Texts \ {ui.text} :
        Form /\ ui' = [Copied(ui, [ui.data EXCEPT !.url = UrlOf(ui.kind, text)])
                       EXCEPT !.text = text]

(* As in the dialog that adds: the databases are not cleared.              *)
ChangeLogin ==
    Form /\ ui.credential = "password" /\ Change([ui.data EXCEPT !.login = ~@])

ChangeSecret ==
    /\ Form /\ ui.credential = "secret" /\ ui.secretOption
    /\ ui' = [Copied(ui, [ui.data EXCEPT !.secret = TRUE]) EXCEPT !.secretItem = TRUE]

Cleared(data) == [data EXCEPT !.login = FALSE, !.secret = FALSE]

ResetCredentials ==
    \E credential \in {"password", "secret"} :
        Form /\ ui' = [Copied(ui, Cleared(ui.data))
                       EXCEPT !.secretItem = FALSE, !.credential = credential]

ChangeDatabase ==
    /\ Form /\ ui.kind = "other"
    /\ \E schema \in {"empty", "typed"} : Change([ui.data EXCEPT !.schema = schema])

(* Another VPC: the fields of the subnet and the security group become     *)
(* empty, the object keeps both.                                           *)
ChangeVPC ==
    \E vpc \in 1 .. Networks :
        Form /\ ui.aws /\ ui.vpc # 0 /\ ui' = [ui EXCEPT !.vpc = vpc, !.subnet = 0, !.sg = 0]

ChangeSubnet ==
    /\ Form /\ ui.vpc # 0
    /\ ui' = [Copied(ui, [ui.data EXCEPT !.subnet = ui.vpc]) EXCEPT !.subnet = ui.vpc]

ChangeSG ==
    /\ Form /\ ui.aws /\ ui.vpc # 0
    /\ ui' = [Copied(ui, [ui.data EXCEPT !.sg = ui.vpc]) EXCEPT !.sg = ui.vpc]

Refused(u) == u.kind = "other" /\ CheckJDBCIsMySQL(u.text)

(* findDatabase: with a password the button of the provider's own account  *)
(* is always loading.                                                      *)
FindDatabase ==
    /\ Form /\ ui.search = NoSearch /\ ~(ui.aws /\ ui.credential = "password") /\ ~Refused(ui)
    /\ ui' = [ui EXCEPT !.search = [kind |-> ui.kind, live |-> TRUE]]

Found(u) == IF u.search.live THEN [u.data EXCEPT !.schema = u.search.kind] ELSE u.data

DatabaseFound(result) ==
    /\ Here /\ ui.search # NoSearch
    /\ ui' = [ui EXCEPT !.data = IF result = "resolved" THEN Found(ui) ELSE @,
                        !.search = NoSearch]

-----------------------------------------------------------------------------
(***************************************************************************)
(* Saving: nothing keeps the button from being pressed again.              *)
(***************************************************************************)
Complete(u) ==
    /\ u.data.name /\ u.data.url # NoUrl
    /\ u.data.secret \/ u.data.login
    /\ u.data.sg # 0 /\ u.data.subnet # 0 /\ u.vpc # 0

Saves(u) == Complete(u) /\ ~u.isLoading /\ ~Refused(u) /\ u.data.schema # "empty"

UpdateJdbcConnection ==
    Here /\ Saves(ui) /\ ui.saves < MaxSaves /\ ui' = [ui EXCEPT !.saves = @ + 1]

Close == Here /\ ui' = Mounted(ui.aws, ui.known)

ConnectionUpdated(result) ==
    /\ Here /\ ui.saves > 0
    /\ ui' = IF result = "resolved" THEN Mounted(ui.aws, ui.known)
                                              ELSE [ui EXCEPT !.saves = @ - 1]

-----------------------------------------------------------------------------
EditNext ==
    \/ \E result \in Results :
          \/ GetConnectionDetails(result) \/ GetNetwork(result) \/ LoadAccountSecrets(result)
          \/ ListBuckets(result) \/ DatabaseFound(result) \/ ConnectionUpdated(result)
    \/ ChangeDetails \/ TypeUrl \/ ChangeLogin \/ ChangeSecret \/ ResetCredentials
    \/ ChangeDatabase \/ ChangeVPC \/ ChangeSubnet \/ ChangeSG
    \/ FindDatabase \/ UpdateJdbcConnection \/ Close

-----------------------------------------------------------------------------
TypeOK ==
    Here =>
        /\ ui.kind \in Kinds /\ ui.text \in Texts
        /\ ui.vpc \in Places /\ ui.subnet \in Places /\ ui.sg \in Places
        /\ ui.data.schema \in Schemas /\ ui.data.url \in [kind : Kinds, text : Texts]
        /\ ui.asking \subseteq {"details", "secrets", "buckets", "network"}
        /\ ui.saves \in 0 .. MaxSaves

(* What is saved is what the dialog shows, in whatever order the four      *)
(* answers come and whatever was typed before them - but for the fields of *)
(* the network when they are empty: the object has the former values, as   *)
(* it has the secret that is not among the listed ones.                    *)
SavesWhatIsShown ==
    Here /\ Saves(ui) =>
        /\ ui.data.url = UrlOf(ui.kind, ui.text)
        /\ ui.subnet # 0 => ui.data.subnet = ui.subnet
        /\ ui.sg # 0 => ui.data.sg = ui.sg
        /\ ui.credential = "secret" /\ ui.secretItem => ui.data.secret
        /\ ui.data.secret => ui.credential = "secret"

FoundForThisKind == Here /\ ui.data.schema \in Kinds => ui.data.schema = ui.kind

(* Nothing is saved before the details are there: an update replaces all   *)
(* of them.                                                                *)
SavesWholeDetails == Here /\ Saves(ui) => "details" \notin ui.asking
=============================================================================
