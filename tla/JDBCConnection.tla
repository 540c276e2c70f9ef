--------------------------- MODULE JDBCConnection ---------------------------
(***************************************************************************)
(* The dialog that adds a JDBC source (data-source-connection/componments/ *)
(* JDBCConnection.tsx).  What is typed is kept in one object, data, which  *)
(* every change replaces by a copy; three handlers that wait for an answer *)
(* use the copy of the render they were made in.                           *)
(***************************************************************************)
EXTENDS ApiClient, Naturals

CONSTANTS
    Networks,       \* bound: the VPCs of the account are 1 .. Networks
    MaxSaves        \* bound: creations under way

ConnectionAssumption == Networks \in Nat \ {0} /\ MaxSaves \in Nat \ {0}

VARIABLES route, ui     \* which page is shown, and the state it keeps

Here == route = "addJdbc"

(* What the field of the URL holds: nothing, host and port, or an URL that *)
(* checkJDBCIsMySQL recognises.  A VPC, and a subnet or security group by  *)
(* its VPC; 0 is none.                                                     *)
Kinds == {"mysql", "other"}
Texts == {"empty", "host", "jdbc:mysql"}
Places == 0 .. Networks
Schemas == {"empty", "typed"} \cup Kinds

CheckJDBCIsMySQL(text) == text = "jdbc:mysql"
UrlOf(kind, text) == [kind |-> kind, text |-> text]
NoUrl == UrlOf("other", "empty")

NewOriginalData ==
    [name |-> FALSE, url |-> NoUrl, login |-> FALSE, secret |-> FALSE,
     schema |-> "empty", subnet |-> 0, sg |-> 0]

(* Mounted: the network is asked for by two effects, and the effect on the *)
(* text of the URL puts the prefix of MySQL.                               *)
NoSearch == [kind |-> "none", live |-> FALSE]

Mounted(aws, orphans) ==
    [aws |-> aws,
     data |-> [NewOriginalData EXCEPT !.url = UrlOf("mysql", "empty")],
     kind |-> "mysql", text |-> "empty", credential |-> "password", secretItem |-> FALSE,
     secretOption |-> FALSE, vpc |-> 0, subnet |-> 0, sg |-> 0, asking |-> 2, network |-> FALSE,
     search |-> NoSearch, saves |-> 0, orphans |-> orphans,
     loadingImport |-> FALSE, loadingDatabase |-> FALSE, overlapped |-> FALSE]

-----------------------------------------------------------------------------
(***************************************************************************)
(* Typing                                                                  *)
(***************************************************************************)

(* A change makes a copy: a search whose handler holds the older object    *)
(* writes into one that is no longer shown.                                *)
Copied(u, data) ==
    [u EXCEPT !.data = data, !.search = IF @ = NoSearch THEN @ ELSE [@ EXCEPT !.live = FALSE]]

Change(data) == Here /\ ui' = Copied(ui, data)

(* changeConnectionName, changeDescription, changeRequiredSSL.             *)
ChangeConnectionName == Change([ui.data EXCEPT !.name = TRUE])
ChangeDetails == Change(ui.data)

(* The text, and the effect that builds the URL from it.                   *)
TypeUrl ==
    \E text \in Texts \ {ui.text} :
        Here /\ ui' = [Copied(ui, [ui.data EXCEPT !.url = UrlOf(ui.kind, text)])
                       EXCEPT !.text = text]

(* The tiles: the text and the databases are cleared; the effect runs only *)
(* if the text was not empty before.                                       *)
ChangeKind ==
    \E kind \in Kinds \ {ui.kind} :
        Here /\ ui' = [Copied(ui, [ui.data EXCEPT
                           !.schema = "empty",
                           !.url = IF ui.text = "empty" THEN @ ELSE UrlOf(kind, "empty")])
                       EXCEPT !.text = "empty", !.kind = kind]

(* User and password: the handler clears the databases and then sets the   *)
(* field from the same copy, so that they come back.                       *)
ChangeLogin ==
    Here /\ ui.credential = "password" /\ Change([ui.data EXCEPT !.login = ~@])

ChangeSecret ==
    /\ Here /\ ui.credential = "secret" /\ ui.secretOption
    /\ ui' = [Copied(ui, [ui.data EXCEPT !.secret = TRUE]) EXCEPT !.secretItem = TRUE]

(* resetCredentials, by the tiles of the credential.                       *)
ResetCredentials ==
    \E credential \in {"password", "secret"} :
        Here /\ ui' = [Copied(ui, [ui.data EXCEPT !.login = FALSE, !.secret = FALSE])
                       EXCEPT !.secretItem = FALSE, !.credential = credential]

(* The text area is disabled for MySQL.                                    *)
ChangeDatabase ==
    /\ Here /\ ui.kind = "other"
    /\ \E schema \in {"empty", "typed"} : Change([ui.data EXCEPT !.schema = schema])

(* The VPC can be chosen in the provider's own account; the subnet and the *)
(* security group chosen before stay as they are.                          *)
ChangeVPC ==
    \E vpc \in 1 .. Networks : Here /\ ui.aws /\ ui.network /\ ui' = [ui EXCEPT !.vpc = vpc]

ChangeSubnet ==
    /\ Here /\ ui.vpc # 0
    /\ ui' = [Copied(ui, [ui.data EXCEPT !.subnet = ui.vpc]) EXCEPT !.subnet = ui.vpc]

ChangeSG ==
    /\ Here /\ ui.aws /\ ui.vpc # 0
    /\ ui' = [Copied(ui, [ui.data EXCEPT !.sg = ui.vpc]) EXCEPT !.sg = ui.vpc]

-----------------------------------------------------------------------------
(***************************************************************************)
(* Waiting                                                                 *)
(***************************************************************************)

(* loadNetworkInfo: for the account of another provider the first VPC is   *)
(* chosen, in a copy of what was there when the dialog was mounted.        *)
FirstNetwork(u) ==
    [Copied(u, [NewOriginalData EXCEPT !.subnet = 1, !.sg = 1])
        EXCEPT !.vpc = 1, !.subnet = 1, !.sg = 1]

LoadNetworkInfo(result) ==
    /\ Here /\ ui.asking > 0
    /\ LET heard == [ui EXCEPT !.asking = @ - 1]
       IN  ui' = CASE result = "rejected" -> heard
                   [] result # "rejected" /\ ui.aws -> [heard EXCEPT !.network = TRUE]
                   [] OTHER -> [FirstNetwork(heard) EXCEPT !.network = TRUE]

LoadAccountSecrets == Here /\ ui' = [ui EXCEPT !.secretOption = TRUE]

(* An URL of MySQL in the other kind is refused.                           *)
Refused(u) == u.kind = "other" /\ CheckJDBCIsMySQL(u.text)

(* findDatabase: with a secret the button of the provider's own account is *)
(* always loading.                                                         *)
FindDatabase ==
    /\ Here /\ ~ui.loadingDatabase /\ ~(ui.aws /\ ui.credential = "secret")
    /\ ~Refused(ui)
    /\ ui' = [ui EXCEPT !.loadingImport = TRUE, !.loadingDatabase = TRUE,
                        !.search = [kind |-> ui.kind, live |-> TRUE]]

(* The answer is written into the object the search was started with, and  *)
(* both flags are cleared, the one of a creation under way included.       *)
(* Mutant: the answer is written into what is shown.                       *)
MutantFound(u) == [u.data EXCEPT !.schema = u.search.kind]

Found(u) == IF u.search.live THEN [u.data EXCEPT !.schema = u.search.kind] ELSE u.data

DatabaseFound(result) ==
    /\ Here /\ ui.search # NoSearch
    /\ ui' = [ui EXCEPT
                 !.data = IF result = "resolved" THEN Found(ui) ELSE @,
                 !.search = NoSearch, !.loadingImport = FALSE, !.loadingDatabase = FALSE,
                 !.overlapped = @ \/ ui.saves > 0]

(* The effect that enables the button.                                     *)
Complete(u) ==
    /\ u.data.name /\ u.data.url # NoUrl
    /\ u.data.secret \/ u.data.login
    /\ u.data.sg # 0 /\ u.data.subnet # 0 /\ u.vpc # 0

Saves(u) ==
    Complete(u) /\ ~u.loadingImport /\ ~Refused(u) /\ u.data.schema # "empty"

AddJdbcConnection ==
    /\ Here /\ Saves(ui) /\ ui.saves < MaxSaves
    /\ ui' = [ui EXCEPT !.loadingImport = TRUE, !.saves = @ + 1]

(* Closing unmounts the dialog; opened again, it is a new one, but the     *)
(* creations under way still close what they find open.                    *)
Reopened(orphans) ==
    orphans <= MaxSaves /\ ui' = Mounted(ui.aws, orphans)

Close == Here /\ Reopened(ui.orphans + ui.saves)

ConnectionAdded(result) ==
    /\ Here /\ ui.saves > 0
    /\ IF result = "resolved"
       THEN Reopened(ui.orphans + ui.saves - 1)
       ELSE ui' = [ui EXCEPT !.saves = @ - 1, !.loadingImport = FALSE]

OrphanAdded(result) ==
    /\ Here /\ ui.orphans > 0
    /\ IF result = "resolved"
       THEN Reopened(ui.orphans + ui.saves - 1)
       ELSE ui' = [ui EXCEPT !.orphans = @ - 1]

-----------------------------------------------------------------------------
ConnectionNext ==
    \/ ChangeConnectionName \/ ChangeDetails \/ TypeUrl \/ ChangeKind \/ ChangeLogin
    \/ ChangeSecret \/ ResetCredentials \/ ChangeDatabase \/ ChangeVPC \/ ChangeSubnet \/ ChangeSG
    \/ LoadAccountSecrets \/ FindDatabase \/ AddJdbcConnection \/ Close
    \/ \E result \in Results :
          LoadNetworkInfo(result) \/ DatabaseFound(result) \/ ConnectionAdded(result) \/ OrphanAdded(result)

-----------------------------------------------------------------------------
TypeOK ==
    Here =>
        /\ ui.aws \in BOOLEAN /\ ui.kind \in Kinds /\ ui.text \in Texts
        /\ ui.vpc \in Places /\ ui.subnet \in Places /\ ui.sg \in Places
        /\ ui.data.schema \in Schemas /\ ui.data.url \in [kind : Kinds, text : Texts]
        /\ ui.saves \in 0 .. MaxSaves /\ ui.orphans \in 0 .. MaxSaves

(* What is created is what the dialog shows, though an answer may reset    *)
(* the object to what it was in the beginning and leave the fields as they *)
(* are; the one exception is an URL of which nothing was typed.            *)
SavesWhatIsShown ==
    Here /\ Saves(ui) =>
        /\ ui.data.subnet = ui.subnet /\ ui.data.sg = ui.sg
        /\ ui.data.secret = ui.secretItem
        /\ ui.text # "empty" => ui.data.url = UrlOf(ui.kind, ui.text)

(* Databases found for one kind of connection are not created for another, *)
(* whenever the answer of the search comes.                                *)
FoundForThisKind ==
    Here /\ ui.data.schema \notin {"empty", "typed"} => ui.data.schema = ui.kind

(* The button is loading while a creation is under way, so that there is   *)
(* one at a time - unless a search ended meanwhile, which clears the flag. *)
CreatesOnce == Here => ui.saves <= 1 \/ ui.overlapped

(* A button that is loading waits for something.                           *)
Waits ==
    Here => /\ ui.loadingImport => ui.saves > 0 \/ ui.search # NoSearch
            /\ ui.loadingDatabase => ui.search # NoSearch
=============================================================================
