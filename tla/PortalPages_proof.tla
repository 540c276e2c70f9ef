--------------------------- MODULE PortalPages_proof ---------------------------
(***************************************************************************)
(* Theorems about the pages of the portal, for any constants and any order *)
(* of the answers.  The pages with a table keep their invariants by        *)
(* PortalTables_proof; here are the filter above a table, the forms,       *)
(* dialogs and lists without one, each with an inductive invariant XInv of *)
(* the state u of a page X (XMounted: it holds when the page is entered;   *)
(* XStep: its steps keep it; XHolds: the properties that follow from it),  *)
(* and last that a page has the state it was entered with, or one that its *)
(* own steps lead to, whatever the user opens and leaves, and what follows *)
(* for all pages together.                                                 *)
(***************************************************************************)
EXTENDS PortalPages, PortalTables_proof

LEMMA Bounds == Networks \in Nat \ {0} /\ MaxSaves \in Nat \ {0}
  BY FormsAssumption DEF AddJdbc!ConnectionAssumption

LEMMA SameTruth ==
    ASSUME NEW a \in BOOLEAN, NEW b \in BOOLEAN, a <=> b
    PROVE  a = b
  OBVIOUS

-----------------------------------------------------------------------------
(***************************************************************************)
(* The dialog that adds a JDBC source.                                     *)
(***************************************************************************)
AddFields ==
    {"aws", "data", "kind", "text", "credential", "secretItem", "secretOption", "vpc",
     "subnet", "sg", "asking", "network", "search", "saves", "orphans", "loadingImport",
     "loadingDatabase", "overlapped"}
AddDataFields == {"name", "url", "login", "secret", "schema", "subnet", "sg"}
AddSearches == {AddJdbc!NoSearch} \cup [kind : AddJdbc!Kinds, live : BOOLEAN]

AddShape(u) ==
    /\ DOMAIN u = AddFields
    /\ u.aws \in BOOLEAN /\ u.kind \in AddJdbc!Kinds /\ u.text \in AddJdbc!Texts
    /\ u.credential \in {"password", "secret"} /\ u.secretItem \in BOOLEAN
    /\ u.vpc \in AddJdbc!Places /\ u.subnet \in AddJdbc!Places /\ u.sg \in AddJdbc!Places
    /\ u.search \in AddSearches
    /\ u.saves \in 0 .. MaxSaves /\ u.orphans \in 0 .. MaxSaves
    /\ u.loadingImport \in BOOLEAN /\ u.loadingDatabase \in BOOLEAN /\ u.overlapped \in BOOLEAN

AddData(d) ==
    /\ DOMAIN d = AddDataFields
    /\ d.url \in [kind : AddJdbc!Kinds, text : AddJdbc!Texts]
    /\ d.login \in BOOLEAN /\ d.secret \in BOOLEAN /\ d.schema \in AddJdbc!Schemas

\* The object that is sent follows the fields.
AddShown(u) ==
    /\ u.data.subnet = u.subnet /\ u.data.sg = u.sg
    /\ u.credential = "secret" => ~u.data.login
    /\ u.credential = "password" => ~u.secretItem /\ ~u.data.secret
    /\ u.data.secret => u.secretItem
    /\ u.data.url = AddJdbc!NoUrl \/ u.text = "empty" \/ u.data.url = AddJdbc!UrlOf(u.kind, u.text)

\* A search that is still to write into it is of its kind.
AddFound(u) ==
    /\ u.data.schema \in AddJdbc!Kinds => u.data.schema = u.kind
    /\ u.search.live => u.search.kind = u.kind

\* What the buttons that are loading wait for.
AddBusy(u) ==
    /\ u.saves = 0 \/ u.overlapped \/ (u.saves = 1 /\ u.loadingImport)
    /\ u.loadingImport => u.saves > 0 \/ u.search # AddJdbc!NoSearch
    /\ u.loadingDatabase => u.search # AddJdbc!NoSearch

AddInv(u) == AddShape(u) /\ AddData(u.data) /\ AddShown(u) /\ AddFound(u) /\ AddBusy(u)

LEMMA AddMounted ==
    ASSUME NEW aws \in BOOLEAN, NEW orphans \in 0 .. MaxSaves
    PROVE  AddInv(AddJdbc!Mounted(aws, orphans))
<1> USE Bounds
<1> DEFINE u == AddJdbc!Mounted(aws, orphans)
           d == [AddJdbc!NewOriginalData EXCEPT !.url = AddJdbc!UrlOf("mysql", "empty")]
<1>1. /\ AddData(d) /\ d.subnet = 0 /\ d.sg = 0 /\ d.schema = "empty" /\ ~d.login /\ ~d.secret
  BY DEF AddData, AddDataFields, AddJdbc!NewOriginalData, AddJdbc!NoUrl, AddJdbc!UrlOf,
         AddJdbc!Kinds, AddJdbc!Texts, AddJdbc!Schemas
<1>2. u.data = d
  BY DEF AddJdbc!Mounted
<1>3. AddJdbc!NoSearch \in AddSearches /\ ~AddJdbc!NoSearch.live
  BY DEF AddSearches, AddJdbc!NoSearch
<1> HIDE DEF d
<1>4. AddShape(u)
  BY <1>3 DEF AddJdbc!Mounted, AddShape, AddFields, AddJdbc!Kinds, AddJdbc!Texts, AddJdbc!Places
<1>5. AddShown(u) /\ AddFound(u) /\ AddBusy(u)
  BY <1>1, <1>2, <1>3 DEF AddJdbc!Mounted, AddShown, AddFound, AddBusy, AddJdbc!Kinds
<1> QED BY <1>1, <1>2, <1>4, <1>5 DEF AddInv

LEMMA AddStopped ==
    ASSUME NEW s \in AddSearches,
           NEW t, t = IF s = AddJdbc!NoSearch THEN s ELSE [s EXCEPT !.live = FALSE]
    PROVE  /\ t \in AddSearches /\ ~t.live
           /\ t = AddJdbc!NoSearch <=> s = AddJdbc!NoSearch
<1>1. CASE s = AddJdbc!NoSearch
  BY <1>1 DEF AddJdbc!NoSearch, AddSearches
<1>2. CASE s # AddJdbc!NoSearch
  <2>1. s \in [kind : AddJdbc!Kinds, live : BOOLEAN] /\ t = [s EXCEPT !.live = FALSE]
    BY <1>2 DEF AddSearches
  <2>2. t \in [kind : AddJdbc!Kinds, live : BOOLEAN] /\ t.kind = s.kind /\ ~t.live
    BY <2>1
  <2>3. t # AddJdbc!NoSearch
    BY <2>2 DEF AddJdbc!NoSearch, AddJdbc!Kinds
  <2> QED BY <1>2, <2>2, <2>3 DEF AddSearches
<1> QED BY <1>1, <1>2

\* A change makes a copy, and the search under way goes on without it.
AddCopies(v, u, d) ==
    /\ Keeps(v, u, {"data", "search"}) /\ v.data = d
    /\ v.search \in AddSearches /\ ~v.search.live
    /\ v.search = AddJdbc!NoSearch <=> u.search = AddJdbc!NoSearch

LEMMA AddCopied ==
    ASSUME NEW u, DOMAIN u = AddFields, u.search \in AddSearches, NEW d
    PROVE  AddCopies(AddJdbc!Copied(u, d), u, d)
<1> DEFINE v == AddJdbc!Copied(u, d)
<1>1. /\ Keeps(v, u, {"data", "search"}) /\ v.data = d
      /\ v.search = IF u.search = AddJdbc!NoSearch THEN u.search
                                                   ELSE [u.search EXCEPT !.live = FALSE]
  BY DEF AddJdbc!Copied, AddFields, Keeps
<1> QED BY <1>1, AddStopped DEF AddCopies

\* A change of the object alone.
LEMMA AddChange ==
    ASSUME AddInv(ui), NEW d, AddData(d), AddJdbc!Change(d),
           d.subnet = ui.data.subnet, d.sg = ui.data.sg, d.url = ui.data.url,
           d.secret = ui.data.secret, d.login => ui.data.login \/ ui.credential = "password",
           d.schema \in AddJdbc!Kinds => d.schema = ui.data.schema
    PROVE  AddInv(ui')
<1>1. AddCopies(ui', ui, d)
  BY AddCopied DEF AddInv, AddShape, AddJdbc!Change
<1> QED BY <1>1 DEF AddInv, AddShape, AddShown, AddFound, AddBusy, AddCopies, Keeps, AddFields

LEMMA AddStep == AddInv(ui) /\ AddJdbc!ConnectionNext => AddInv(ui')
<1> SUFFICES ASSUME AddInv(ui), AddJdbc!ConnectionNext PROVE AddInv(ui')
  OBVIOUS
<1> USE Bounds
<1> DEFINE data == ui.data
<1>d. AddData(data) /\ DOMAIN data = AddDataFields
  BY DEF AddInv, AddData
<1>c. ASSUME NEW d PROVE AddCopies(AddJdbc!Copied(ui, d), ui, d)
  BY AddCopied DEF AddInv, AddShape
<1>1. CASE AddJdbc!ChangeConnectionName
  <2> DEFINE d == [data EXCEPT !.name = TRUE]
  <2>1. Keeps(d, data, {"name"})
    BY <1>d DEF AddDataFields, Keeps
  <2> HIDE DEF d
  <2>2. AddJdbc!Change(d)
    BY <1>1 DEF d, AddJdbc!ChangeConnectionName
  <2> QED BY <1>d, <2>1, <2>2, AddChange DEF AddData, AddDataFields, Keeps, AddInv, AddShown
<1>2. CASE AddJdbc!ChangeDetails
  BY <1>2, <1>d, AddChange DEF AddJdbc!ChangeDetails, AddInv, AddShown
<1>3. CASE AddJdbc!ChangeLogin
  <2> DEFINE d == [data EXCEPT !.login = ~data.login]
  <2>1. Keeps(d, data, {"login"}) /\ d.login \in BOOLEAN
    BY <1>d DEF AddDataFields, Keeps
  <2> HIDE DEF d
  <2>2. AddJdbc!Change(d) /\ ui.credential = "password"
    BY <1>3 DEF d, AddJdbc!ChangeLogin
  <2> QED BY <1>d, <2>1, <2>2, AddChange DEF AddData, AddDataFields, Keeps, AddInv, AddShown
<1>4. CASE AddJdbc!ChangeDatabase
  <2> PICK schema \in {"empty", "typed"} : AddJdbc!Change([data EXCEPT !.schema = schema])
    BY <1>4 DEF AddJdbc!ChangeDatabase
  <2> DEFINE d == [data EXCEPT !.schema = schema]
  <2>1. Keeps(d, data, {"schema"}) /\ d.schema \in {"empty", "typed"}
    BY <1>d DEF AddDataFields, Keeps
  <2>2. AddJdbc!Change(d)
    OBVIOUS
  <2> HIDE DEF d
  <2> QED BY <1>d, <2>1, <2>2, AddChange
          DEF AddData, AddDataFields, Keeps, AddInv, AddShown, AddJdbc!Schemas, AddJdbc!Kinds
<1>5. CASE AddJdbc!TypeUrl
  <2> PICK text \in AddJdbc!Texts :
        ui' = [AddJdbc!Copied(ui, [data EXCEPT !.url = AddJdbc!UrlOf(ui.kind, text)])
                  EXCEPT !.text = text]
    BY <1>5 DEF AddJdbc!TypeUrl
  <2> DEFINE d == [data EXCEPT !.url = AddJdbc!UrlOf(ui.kind, text)]
             c == AddJdbc!Copied(ui, d)
  <2>1. Keeps(d, data, {"url"}) /\ d.url = AddJdbc!UrlOf(ui.kind, text)
    BY <1>d DEF AddDataFields, Keeps
  <2>2. ui' = [c EXCEPT !.text = text]
    OBVIOUS
  <2>3. AddCopies(c, ui, d)
    BY <1>c
  <2>4. d.url \in [kind : AddJdbc!Kinds, text : AddJdbc!Texts]
    BY <2>1 DEF AddInv, AddShape, AddJdbc!UrlOf
  <2> HIDE DEF d, c
  <2>5. Keeps(ui', c, {"text"}) /\ ui'.text = text
    BY <2>2, <2>3 DEF AddCopies, Keeps, AddFields, AddInv, AddShape
  <2> QED BY <1>d, <2>1, <2>3, <2>4, <2>5
          DEF AddInv, AddShape, AddData, AddShown, AddFound, AddBusy, AddCopies, Keeps,
              AddFields, AddDataFields
<1>6. CASE AddJdbc!ChangeKind
  <2> PICK kind \in AddJdbc!Kinds \ {ui.kind} :
        ui' = [AddJdbc!Copied(ui, [data EXCEPT
                      !.schema = "empty",
                      !.url = IF ui.text = "empty" THEN @ ELSE AddJdbc!UrlOf(kind, "empty")])
                  EXCEPT !.text = "empty", !.kind = kind]
    BY <1>6 DEF AddJdbc!ChangeKind
  <2> DEFINE d == [data EXCEPT
                      !.schema = "empty",
                      !.url = IF ui.text = "empty" THEN @ ELSE AddJdbc!UrlOf(kind, "empty")]
             c == AddJdbc!Copied(ui, d)
  <2>1. /\ Keeps(d, data, {"schema", "url"}) /\ d.schema = "empty"
        /\ d.url = IF ui.text = "empty" THEN data.url ELSE AddJdbc!UrlOf(kind, "empty")
    BY <1>d DEF AddDataFields, Keeps
  <2>2. ui' = [c EXCEPT !.text = "empty", !.kind = kind]
    OBVIOUS
  <2>3. AddCopies(c, ui, d)
    BY <1>c
  <2>4. d.url \in [kind : AddJdbc!Kinds, text : AddJdbc!Texts]
    BY <2>1, <1>d DEF AddData, AddJdbc!UrlOf, AddJdbc!Texts
  <2> HIDE DEF d, c
  <2>5. Keeps(ui', c, {"text", "kind"}) /\ ui'.text = "empty" /\ ui'.kind = kind
    BY <2>2, <2>3 DEF AddCopies, Keeps, AddFields, AddInv, AddShape
  <2> QED BY <1>d, <2>1, <2>3, <2>4, <2>5
          DEF AddInv, AddShape, AddData, AddShown, AddFound, AddBusy, AddCopies, Keeps,
              AddFields, AddDataFields, AddJdbc!Schemas, AddJdbc!Texts, AddJdbc!Kinds
<1>7. CASE AddJdbc!ChangeSecret
  <2> DEFINE d == [data EXCEPT !.secret = TRUE]
             c == AddJdbc!Copied(ui, d)
  <2>1. Keeps(d, data, {"secret"}) /\ d.secret \in BOOLEAN
    BY <1>d DEF AddDataFields, Keeps
  <2>2. ui' = [c EXCEPT !.secretItem = TRUE] /\ ui.credential = "secret"
    BY <1>7 DEF AddJdbc!ChangeSecret
  <2>3. AddCopies(c, ui, d)
    BY <1>c
  <2> HIDE DEF d, c
  <2>4. Keeps(ui', c, {"secretItem"}) /\ ui'.secretItem /\ ui'.secretItem \in BOOLEAN
    BY <2>2, <2>3 DEF AddCopies, Keeps, AddFields, AddInv, AddShape
  <2> QED BY <1>d, <2>1, <2>2, <2>3, <2>4
          DEF AddInv, AddShape, AddData, AddShown, AddFound, AddBusy, AddCopies, Keeps,
              AddFields, AddDataFields
<1>8. CASE AddJdbc!ResetCredentials
  <2> PICK credential \in {"password", "secret"} :
        ui' = [AddJdbc!Copied(ui, [data EXCEPT !.login = FALSE, !.secret = FALSE])
                  EXCEPT !.secretItem = FALSE, !.credential = credential]
    BY <1>8 DEF AddJdbc!ResetCredentials
  <2> DEFINE d == [data EXCEPT !.login = FALSE, !.secret = FALSE]
             c == AddJdbc!Copied(ui, d)
  <2>1. /\ Keeps(d, data, {"login", "secret"})
        /\ ~d.login /\ ~d.secret /\ d.login \in BOOLEAN /\ d.secret \in BOOLEAN
    BY <1>d DEF AddDataFields, Keeps
  <2>2. ui' = [c EXCEPT !.secretItem = FALSE, !.credential = credential]
    OBVIOUS
  <2>3. AddCopies(c, ui, d)
    BY <1>c
  <2> HIDE DEF d, c
  <2>4. /\ Keeps(ui', c, {"secretItem", "credential"}) /\ ui'.credential = credential
        /\ ~ui'.secretItem /\ ui'.secretItem \in BOOLEAN
    BY <2>2, <2>3 DEF AddCopies, Keeps, AddFields, AddInv, AddShape
  <2> QED BY <1>d, <2>1, <2>3, <2>4
          DEF AddInv, AddShape, AddData, AddShown, AddFound, AddBusy, AddCopies, Keeps,
              AddFields, AddDataFields
<1>9. CASE AddJdbc!ChangeVPC
  <2>1. Keeps(ui', ui, {"vpc"}) /\ ui'.vpc \in AddJdbc!Places
    BY <1>9 DEF AddJdbc!ChangeVPC, Keeps, AddInv, AddShape, AddFields, AddJdbc!Places
  <2> QED BY <2>1 DEF AddInv, AddShape, AddShown, AddFound, AddBusy, Keeps, AddFields
<1>10. CASE AddJdbc!ChangeSubnet
  <2> DEFINE d == [data EXCEPT !.subnet = ui.vpc]
             c == AddJdbc!Copied(ui, d)
  <2>1. Keeps(d, data, {"subnet"}) /\ d.subnet = ui.vpc
    BY <1>d DEF AddDataFields, Keeps
  <2>2. ui' = [c EXCEPT !.subnet = ui.vpc]
    BY <1>10 DEF AddJdbc!ChangeSubnet
  <2>3. AddCopies(c, ui, d)
    BY <1>c
  <2> HIDE DEF d, c
  <2>4. Keeps(ui', c, {"subnet"}) /\ ui'.subnet = ui.vpc
    BY <2>2, <2>3 DEF AddCopies, Keeps, AddFields, AddInv, AddShape
  <2> QED BY <1>d, <2>1, <2>3, <2>4
          DEF AddInv, AddShape, AddData, AddShown, AddFound, AddBusy, AddCopies, Keeps,
              AddFields, AddDataFields
<1>11. CASE AddJdbc!ChangeSG
  <2> DEFINE d == [data EXCEPT !.sg = ui.vpc]
             c == AddJdbc!Copied(ui, d)
  <2>1. Keeps(d, data, {"sg"}) /\ d.sg = ui.vpc
    BY <1>d DEF AddDataFields, Keeps
  <2>2. ui' = [c EXCEPT !.sg = ui.vpc]
    BY <1>11 DEF AddJdbc!ChangeSG
  <2>3. AddCopies(c, ui, d)
    BY <1>c
  <2> HIDE DEF d, c
  <2>4. Keeps(ui', c, {"sg"}) /\ ui'.sg = ui.vpc
    BY <2>2, <2>3 DEF AddCopies, Keeps, AddFields, AddInv, AddShape
  <2> QED BY <1>d, <2>1, <2>3, <2>4
          DEF AddInv, AddShape, AddData, AddShown, AddFound, AddBusy, AddCopies, Keeps,
              AddFields, AddDataFields
<1>12. ASSUME NEW result, AddJdbc!LoadNetworkInfo(result) PROVE AddInv(ui')
  <2> DEFINE heard == [ui EXCEPT !.asking = @ - 1]
             d == [AddJdbc!NewOriginalData EXCEPT !.subnet = 1, !.sg = 1]
             c == AddJdbc!Copied(heard, d)
             first == [c EXCEPT !.vpc = 1, !.subnet = 1, !.sg = 1]
  <2>1. Keeps(heard, ui, {"asking"})
    BY DEF AddInv, AddShape, AddFields, Keeps
  <2>2. /\ AddData(d) /\ d.subnet = 1 /\ d.sg = 1 /\ d.url = AddJdbc!NoUrl
        /\ ~d.login /\ ~d.secret /\ d.schema = "empty"
    BY DEF AddData, AddDataFields, AddJdbc!NewOriginalData, AddJdbc!NoUrl, AddJdbc!UrlOf,
           AddJdbc!Kinds, AddJdbc!Texts, AddJdbc!Schemas
  <2>3. CASE result = "rejected"
    BY <1>12, <2>1, <2>3
       DEF AddJdbc!LoadNetworkInfo, AddInv, AddShape, AddShown, AddFound, AddBusy, Keeps, AddFields
  <2>4. CASE result # "rejected" /\ ui.aws
    <3>1. ui' = [heard EXCEPT !.network = TRUE]
      BY <1>12, <2>4 DEF AddJdbc!LoadNetworkInfo
    <3> HIDE DEF heard
    <3>2. Keeps(ui', heard, {"network"})
      BY <3>1, <2>1 DEF Keeps, AddInv, AddShape, AddFields
    <3> QED BY <3>2, <2>1
            DEF AddInv, AddShape, AddShown, AddFound, AddBusy, Keeps, AddFields
  <2>5. CASE result # "rejected" /\ ~ui.aws
    <3>1. ui' = [first EXCEPT !.network = TRUE]
      BY <1>12, <2>5 DEF AddJdbc!LoadNetworkInfo, AddJdbc!FirstNetwork
    <3>2. AddCopies(c, heard, d)
      BY <2>1, AddCopied DEF AddInv, AddShape, Keeps, AddFields
    <3> HIDE DEF heard, d, c
    <3>3. Keeps(first, c, {"vpc", "subnet", "sg"}) /\ first.vpc = 1 /\ first.subnet = 1 /\ first.sg = 1
      BY <2>1, <3>2 DEF AddCopies, Keeps, AddInv, AddShape, AddFields
    <3> HIDE DEF first
    <3>4. Keeps(ui', first, {"network"})
      BY <3>1, <3>2, <3>3, <2>1 DEF AddCopies, Keeps, AddInv, AddShape, AddFields
    <3> QED BY <2>1, <2>2, <3>2, <3>3, <3>4
            DEF AddInv, AddShape, AddShown, AddFound, AddBusy, AddCopies, Keeps, AddFields,
                AddJdbc!Places, AddJdbc!Kinds
  <2> QED BY <2>3, <2>4, <2>5
<1>13. CASE AddJdbc!LoadAccountSecrets
  BY <1>13 DEF AddJdbc!LoadAccountSecrets, AddInv, AddShape, AddShown, AddFound, AddBusy, AddFields
<1>14. CASE AddJdbc!FindDatabase
  <2> DEFINE search == [kind |-> ui.kind, live |-> TRUE]
  <2>1. search \in AddSearches /\ search.kind = ui.kind /\ search # AddJdbc!NoSearch
    BY DEF AddInv, AddShape, AddSearches, AddJdbc!NoSearch, AddJdbc!Kinds
  <2>2. ui' = [ui EXCEPT !.loadingImport = TRUE, !.loadingDatabase = TRUE, !.search = search]
    BY <1>14 DEF AddJdbc!FindDatabase
  <2> HIDE DEF search
  <2>3. /\ Keeps(ui', ui, {"loadingImport", "loadingDatabase", "search"}) /\ ui'.search = search
        /\ ui'.loadingImport /\ ui'.loadingImport \in BOOLEAN /\ ui'.loadingDatabase \in BOOLEAN
    BY <2>2 DEF Keeps, AddInv, AddShape, AddFields
  <2> QED BY <2>1, <2>3
          DEF AddInv, AddShape, AddData, AddShown, AddFound, AddBusy, Keeps, AddFields
<1>15. ASSUME NEW result, AddJdbc!DatabaseFound(result) PROVE AddInv(ui')
  <2> DEFINE found == AddJdbc!Found(ui)
             d == IF result = "resolved" THEN found ELSE data
  <2>1. /\ AddData(found) /\ Keeps(found, data, {"schema"})
        /\ found.schema \in AddJdbc!Kinds => found.schema = ui.kind
    <3>1. CASE ui.search.live
      <4>1. found = [data EXCEPT !.schema = ui.kind]
        BY <3>1 DEF AddJdbc!Found, AddInv, AddFound
      <4> QED BY <4>1, <1>d
              DEF AddData, AddDataFields, Keeps, AddInv, AddShape, AddJdbc!Schemas
    <3>2. CASE ~ui.search.live
      BY <3>2, <1>d DEF AddJdbc!Found, AddInv, AddFound, Keeps
    <3> QED BY <3>1, <3>2
  <2>2. /\ AddData(d) /\ Keeps(d, data, {"schema"})
        /\ d.schema \in AddJdbc!Kinds => d.schema = ui.kind
    BY <2>1, <1>d DEF AddInv, AddFound, Keeps
  <2>3. ui' = [ui EXCEPT !.data = d, !.search = AddJdbc!NoSearch, !.loadingImport = FALSE,
                         !.loadingDatabase = FALSE, !.overlapped = @ \/ ui.saves > 0]
    BY <1>15 DEF AddJdbc!DatabaseFound
  <2> HIDE DEF d
  <2>4. /\ Keeps(ui', ui, {"data", "search", "loadingImport", "loadingDatabase", "overlapped"})
        /\ ui'.data = d /\ ui'.search = AddJdbc!NoSearch
        /\ ~ui'.loadingImport /\ ui'.loadingImport \in BOOLEAN
        /\ ~ui'.loadingDatabase /\ ui'.loadingDatabase \in BOOLEAN
        /\ ui'.overlapped <=> ui.overlapped \/ ui.saves > 0
        /\ ui'.overlapped \in BOOLEAN
    BY <2>3 DEF Keeps, AddInv, AddShape, AddFields
  <2>5. AddJdbc!NoSearch \in AddSearches /\ ~AddJdbc!NoSearch.live
    BY DEF AddSearches, AddJdbc!NoSearch
  <2> QED BY <2>2, <2>4, <2>5, <1>d
          DEF AddInv, AddShape, AddData, AddShown, AddFound, AddBusy, Keeps, AddFields, AddDataFields
<1>16. CASE AddJdbc!AddJdbcConnection
  <2>1. /\ Keeps(ui', ui, {"loadingImport", "saves"})
        /\ ui'.loadingImport /\ ui'.loadingImport \in BOOLEAN /\ ui'.saves = ui.saves + 1
    BY <1>16 DEF AddJdbc!AddJdbcConnection, Keeps, AddInv, AddShape, AddFields
  <2>2. ~ui.loadingImport /\ ui.saves < MaxSaves
    BY <1>16 DEF AddJdbc!AddJdbcConnection, AddJdbc!Saves
  <2> QED BY <2>1, <2>2
          DEF AddInv, AddShape, AddData, AddShown, AddFound, AddBusy, Keeps, AddFields
<1>17. ASSUME NEW n \in Nat, AddJdbc!Reopened(n) PROVE AddInv(ui')
  <2>1. n \in 0 .. MaxSaves /\ ui.aws \in BOOLEAN /\ ui' = AddJdbc!Mounted(ui.aws, n)
    BY <1>17 DEF AddJdbc!Reopened, AddInv, AddShape
  <2> QED BY ONLY <2>1, AddMounted
<1>18. CASE AddJdbc!Close
  BY <1>18, <1>17 DEF AddJdbc!Close, AddInv, AddShape
<1>19. ASSUME NEW result, AddJdbc!ConnectionAdded(result) PROVE AddInv(ui')
  <2>1. CASE result = "resolved"
    BY <1>19, <2>1, <1>17 DEF AddJdbc!ConnectionAdded, AddInv, AddShape
  <2>2. CASE result # "resolved"
    <3>1. /\ Keeps(ui', ui, {"loadingImport", "saves"}) /\ ui.saves > 0
          /\ ~ui'.loadingImport /\ ui'.loadingImport \in BOOLEAN /\ ui'.saves = ui.saves - 1
      BY <1>19, <2>2 DEF AddJdbc!ConnectionAdded, Keeps, AddInv, AddShape, AddFields
    <3> QED BY <3>1
            DEF AddInv, AddShape, AddData, AddShown, AddFound, AddBusy, Keeps, AddFields
  <2> QED BY <2>1, <2>2
<1>20. ASSUME NEW result, AddJdbc!OrphanAdded(result) PROVE AddInv(ui')
  <2>1. CASE result = "resolved"
    BY <1>20, <2>1, <1>17 DEF AddJdbc!OrphanAdded, AddInv, AddShape
  <2>2. CASE result # "resolved"
    <3>1. Keeps(ui', ui, {"orphans"}) /\ ui.orphans > 0 /\ ui'.orphans = ui.orphans - 1
      BY <1>20, <2>2 DEF AddJdbc!OrphanAdded, Keeps, AddInv, AddShape, AddFields
    <3> QED BY <3>1
            DEF AddInv, AddShape, AddData, AddShown, AddFound, AddBusy, Keeps, AddFields
  <2> QED BY <2>1, <2>2
<1> QED
  BY <1>1, <1>2, <1>3, <1>4, <1>5, <1>6, <1>7, <1>8, <1>9, <1>10, <1>11, <1>12, <1>13, <1>14,
     <1>15, <1>16, <1>18, <1>19, <1>20 DEF AddJdbc!ConnectionNext

LEMMA AddHolds ==
    ASSUME AddJdbc!Here => AddInv(ui)
    PROVE  /\ AddJdbc!TypeOK /\ AddJdbc!SavesWhatIsShown /\ AddJdbc!FoundForThisKind
           /\ AddJdbc!CreatesOnce /\ AddJdbc!Waits
<1>1. AddJdbc!TypeOK
  BY DEF AddInv, AddShape, AddData, AddJdbc!TypeOK
<1>2. AddJdbc!SavesWhatIsShown
  <2> SUFFICES ASSUME AddInv(ui), AddJdbc!Saves(ui)
      PROVE  /\ ui.data.subnet = ui.subnet /\ ui.data.sg = ui.sg
             /\ ui.data.secret = ui.secretItem
             /\ ui.text # "empty" => ui.data.url = AddJdbc!UrlOf(ui.kind, ui.text)
    BY DEF AddJdbc!SavesWhatIsShown
  <2>1. ui.data.url # AddJdbc!NoUrl /\ (ui.data.secret \/ ui.data.login)
    BY DEF AddJdbc!Saves, AddJdbc!Complete
  <2>2. ui.data.secret <=> ui.secretItem
    BY <2>1 DEF AddInv, AddShape, AddShown
  <2>3. ui.data.secret \in BOOLEAN /\ ui.secretItem \in BOOLEAN
    BY DEF AddInv, AddShape, AddData
  <2>4. ui.data.secret = ui.secretItem
    BY <2>2, <2>3, SameTruth
  <2> QED BY <2>1, <2>4 DEF AddInv, AddShown
<1>3. AddJdbc!FoundForThisKind
  BY DEF AddInv, AddData, AddFound, AddJdbc!FoundForThisKind, AddJdbc!Schemas
<1>4. AddJdbc!CreatesOnce /\ AddJdbc!Waits
  BY DEF AddInv, AddShape, AddBusy, AddJdbc!CreatesOnce, AddJdbc!Waits
<1> QED BY <1>1, <1>2, <1>3, <1>4

-----------------------------------------------------------------------------
(***************************************************************************)
(* The dialog that edits a JDBC source.                                    *)
(***************************************************************************)
EditFields ==
    {"aws", "known", "data", "kind", "text", "credential", "secretItem", "secretOption",
     "vpc", "subnet", "sg", "isLoading", "asking", "search", "saves"}
EditSearches == {EditJdbc!NoSearch} \cup [kind : EditJdbc!Kinds, live : BOOLEAN]

EditShape(u) ==
    /\ DOMAIN u = EditFields
    /\ u.aws \in BOOLEAN /\ u.known \in BOOLEAN
    /\ u.kind \in EditJdbc!Kinds /\ u.text \in EditJdbc!Texts
    /\ u.credential \in {"password", "secret"}
    /\ u.vpc \in EditJdbc!Places /\ u.subnet \in EditJdbc!Places /\ u.sg \in EditJdbc!Places
    /\ u.asking \subseteq {"details", "secrets", "buckets", "network"}
    /\ u.search \in EditSearches /\ u.saves \in 0 .. MaxSaves

EditData(d) ==
    /\ DOMAIN d = AddDataFields
    /\ d.url \in [kind : EditJdbc!Kinds, text : EditJdbc!Texts]
    /\ d.schema \in EditJdbc!Schemas

\* The fields are empty until the answer comes that fills them, and then follow the
\* object that is sent.
EditShown(u) ==
    /\ u.data.name => "details" \notin u.asking
    /\ "network" \in u.asking => "details" \notin u.asking /\ u.data.subnet = 1 /\ u.data.sg = 1
    /\ u.asking \cap {"details", "network"} # {} => u.vpc = 0 /\ u.subnet = 0 /\ u.sg = 0
    /\ u.data.url = EditJdbc!UrlOf(u.kind, u.text)
    /\ u.subnet # 0 => u.data.subnet = u.subnet
    /\ u.sg # 0 => u.data.sg = u.sg
    /\ u.credential = "secret" /\ u.secretItem => u.data.secret
    /\ u.data.secret => u.credential = "secret"

EditFound(u) ==
    /\ u.data.schema \in EditJdbc!Kinds => u.data.schema = u.kind
    /\ u.search.live => u.search.kind = u.kind

EditInv(u) == EditShape(u) /\ EditData(u.data) /\ EditShown(u) /\ EditFound(u)

LEMMA EditMounted ==
    ASSUME NEW aws \in BOOLEAN, NEW known \in BOOLEAN
    PROVE  EditInv(EditJdbc!Mounted(aws, known))
<1> USE Bounds
<1> DEFINE u == EditJdbc!Mounted(aws, known)
           d == EditJdbc!OriginalData
<1>1. /\ EditData(d) /\ ~d.name /\ ~d.secret /\ d.schema = "empty"
      /\ d.url = EditJdbc!UrlOf("other", "empty")
  BY DEF EditData, AddDataFields, EditJdbc!OriginalData, EditJdbc!NoUrl, EditJdbc!UrlOf,
         EditJdbc!Kinds, EditJdbc!Texts, EditJdbc!Schemas
<1>2. u.data = d
  BY DEF EditJdbc!Mounted
<1>3. EditJdbc!NoSearch \in EditSearches /\ ~EditJdbc!NoSearch.live
  BY DEF EditSearches, EditJdbc!NoSearch
<1> HIDE DEF d
<1>4. EditShape(u)
  BY <1>3 DEF EditJdbc!Mounted, EditShape, EditFields, EditJdbc!Kinds, EditJdbc!Texts,
              EditJdbc!Places
<1>5. EditShown(u) /\ EditFound(u)
  BY <1>1, <1>2, <1>3 DEF EditJdbc!Mounted, EditShown, EditFound, EditJdbc!Kinds
<1> QED BY <1>1, <1>2, <1>4, <1>5 DEF EditInv

LEMMA EditStopped ==
    ASSUME NEW s \in EditSearches,
           NEW t, t = IF s = EditJdbc!NoSearch THEN s ELSE [s EXCEPT !.live = FALSE]
    PROVE  t \in EditSearches /\ ~t.live
<1>1. CASE s = EditJdbc!NoSearch
  BY <1>1 DEF EditJdbc!NoSearch, EditSearches
<1>2. CASE s # EditJdbc!NoSearch
  <2>1. s \in [kind : EditJdbc!Kinds, live : BOOLEAN] /\ t = [s EXCEPT !.live = FALSE]
    BY <1>2 DEF EditSearches
  <2> QED BY <2>1 DEF EditSearches
<1> QED BY <1>1, <1>2

EditCopies(v, u, d) ==
    /\ Keeps(v, u, {"data", "search"}) /\ v.data = d
    /\ v.search \in EditSearches /\ ~v.search.live

LEMMA EditCopied ==
    ASSUME NEW u, DOMAIN u = EditFields, u.search \in EditSearches, NEW d
    PROVE  EditCopies(EditJdbc!Copied(u, d), u, d)
<1> DEFINE v == EditJdbc!Copied(u, d)
<1>1. /\ Keeps(v, u, {"data", "search"}) /\ v.data = d
      /\ v.search = IF u.search = EditJdbc!NoSearch THEN u.search
                                                    ELSE [u.search EXCEPT !.live = FALSE]
  BY DEF EditJdbc!Copied, EditFields, Keeps
<1> QED BY <1>1, EditStopped DEF EditCopies

\* A change of the object alone.
LEMMA EditChange ==
    ASSUME EditInv(ui), NEW d, EditData(d), EditJdbc!Change(d),
           Keeps(d, ui.data, {"login", "schema"}),
           d.schema \in EditJdbc!Kinds => d.schema = ui.data.schema
    PROVE  EditInv(ui')
<1>1. EditCopies(ui', ui, d)
  BY EditCopied DEF EditInv, EditShape, EditJdbc!Change
<1> QED BY <1>1
        DEF EditInv, EditShape, EditData, EditShown, EditFound, EditCopies, Keeps, EditFields,
            AddDataFields

\* An answer that is heard is not waited for any more.
LEMMA EditHeard ==
    ASSUME NEW u, EditInv(u), NEW what
    PROVE  /\ Keeps(EditJdbc!Heard(u, what), u, {"asking"})
           /\ EditJdbc!Heard(u, what).asking = u.asking \ {what}
           /\ EditInv(EditJdbc!Heard(u, what))
<1> DEFINE h == EditJdbc!Heard(u, what)
<1>1. Keeps(h, u, {"asking"}) /\ h.asking = u.asking \ {what}
  BY DEF EditJdbc!Heard, EditInv, EditShape, EditFields, Keeps
<1> HIDE DEF h
<1>2. EditInv(h)
  BY <1>1 DEF EditInv, EditShape, EditShown, EditFound, Keeps, EditFields
<1> QED BY <1>1, <1>2 DEF h

LEMMA EditFilled ==
    ASSUME EditInv(ui), "details" \in ui.asking, NEW details \in EditJdbc!Details,
           ui' = [EditJdbc!Filled(EditJdbc!Heard(ui, "details"), details)
                     EXCEPT !.asking = @ \cup {"network"}]
    PROVE  EditInv(ui')
<1> DEFINE h == EditJdbc!Heard(ui, "details")
           d == EditJdbc!DataOf(details)
           c == EditJdbc!Copied(h, d)
           f == EditJdbc!Filled(h, details)
<1>1. Keeps(h, ui, {"asking"}) /\ h.asking = ui.asking \ {"details"} /\ EditInv(h)
  BY EditHeard
<1>2. EditCopies(c, h, d)
  BY <1>1, EditCopied DEF EditInv, EditShape
<1>3. details.kind \in EditJdbc!Kinds /\ details.credential \in {"password", "secret"}
  BY DEF EditJdbc!Details
<1>4. /\ EditData(d) /\ d.url = EditJdbc!UrlOf(details.kind, "host") /\ d.schema = "typed"
      /\ d.subnet = 1 /\ d.sg = 1
      /\ d.secret <=> details.credential = "secret"
  BY <1>3 DEF EditJdbc!DataOf, EditData, AddDataFields, EditJdbc!UrlOf, EditJdbc!Kinds,
              EditJdbc!Texts, EditJdbc!Schemas
<1>5. f = [c EXCEPT !.kind = details.kind, !.text = "host", !.credential = details.credential,
                    !.secretItem = IF details.credential = "secret" THEN h.known ELSE @]
  BY DEF EditJdbc!Filled
<1> HIDE DEF h, d, c, f
<1>6. /\ Keeps(f, c, {"kind", "text", "credential", "secretItem"})
      /\ f.kind = details.kind /\ f.text = "host" /\ f.credential = details.credential
  BY <1>5, <1>1, <1>2 DEF EditCopies, Keeps, EditInv, EditShape, EditFields
<1>7. Keeps(ui', f, {"asking"}) /\ ui'.asking = f.asking \cup {"network"}
  BY <1>6, <1>1, <1>2 DEF f, h, EditCopies, Keeps, EditInv, EditShape, EditFields
<1>8. EditShape(ui') /\ EditData(ui'.data) /\ EditFound(ui')
  BY <1>1, <1>2, <1>3, <1>4, <1>6, <1>7
     DEF EditInv, EditShape, EditFound, EditCopies, Keeps, EditFields, EditJdbc!Kinds, EditJdbc!Texts
<1>9. EditShown(ui')
  BY <1>1, <1>2, <1>3, <1>4, <1>6, <1>7
     DEF EditInv, EditShape, EditShown, EditCopies, Keeps, EditFields
<1> QED BY <1>8, <1>9 DEF EditInv

LEMMA EditStep == EditInv(ui) /\ EditJdbc!EditNext => EditInv(ui')
<1> SUFFICES ASSUME EditInv(ui), EditJdbc!EditNext PROVE EditInv(ui')
  OBVIOUS
<1> USE Bounds
<1> DEFINE data == ui.data
<1>d. EditData(data) /\ DOMAIN data = AddDataFields
  BY DEF EditInv, EditData
<1>c. ASSUME NEW d PROVE EditCopies(EditJdbc!Copied(ui, d), ui, d)
  BY EditCopied DEF EditInv, EditShape
<1>1. ASSUME NEW result, EditJdbc!GetConnectionDetails(result) PROVE EditInv(ui')
  <2>1. CASE result = "resolved"
    BY <1>1, <2>1, EditFilled DEF EditJdbc!GetConnectionDetails, EditJdbc!Asked
  <2>2. CASE result # "resolved"
    BY <1>1, <2>2, EditHeard DEF EditJdbc!GetConnectionDetails
  <2> QED BY <2>1, <2>2
<1>2. ASSUME NEW result, EditJdbc!GetNetwork(result) PROVE EditInv(ui')
  <2> DEFINE h == EditJdbc!Heard(ui, "network")
  <2>1. Keeps(h, ui, {"asking"}) /\ h.asking = ui.asking \ {"network"} /\ EditInv(h)
    BY EditHeard
  <2>2. CASE result = "resolved"
    <3>1. ui' = [h EXCEPT !.vpc = 1, !.subnet = 1, !.sg = 1] /\ "network" \in ui.asking
      BY <1>2, <2>2 DEF EditJdbc!GetNetwork, EditJdbc!Asked
    <3> HIDE DEF h
    <3>2. Keeps(ui', h, {"vpc", "subnet", "sg"}) /\ ui'.vpc = 1 /\ ui'.subnet = 1 /\ ui'.sg = 1
      BY <3>1, <2>1 DEF Keeps, EditInv, EditShape, EditFields
    <3> QED BY <2>1, <3>1, <3>2
            DEF EditInv, EditShape, EditData, EditShown, EditFound, Keeps, EditFields,
                EditJdbc!Places
  <2>3. CASE result # "resolved"
    BY <1>2, <2>1, <2>3 DEF EditJdbc!GetNetwork
  <2> QED BY <2>2, <2>3
<1>3. ASSUME NEW result, EditJdbc!LoadAccountSecrets(result) PROVE EditInv(ui')
  <2> DEFINE h == EditJdbc!Heard(ui, "secrets")
  <2>1. EditInv(h)
    BY EditHeard
  <2>2. CASE result = "resolved"
    <3>1. ui' = [h EXCEPT !.known = TRUE, !.secretOption = TRUE]
      BY <1>3, <2>2 DEF EditJdbc!LoadAccountSecrets
    <3> HIDE DEF h
    <3>2. Keeps(ui', h, {"known", "secretOption"}) /\ ui'.known \in BOOLEAN
      BY <3>1, <2>1 DEF Keeps, EditInv, EditShape, EditFields
    <3> QED BY <2>1, <3>2
            DEF EditInv, EditShape, EditShown, EditFound, Keeps, EditFields
  <2>3. CASE result # "resolved"
    BY <1>3, <2>1, <2>3 DEF EditJdbc!LoadAccountSecrets
  <2> QED BY <2>2, <2>3
<1>4. ASSUME NEW result, EditJdbc!ListBuckets(result) PROVE EditInv(ui')
  <2> DEFINE h == EditJdbc!Heard(ui, "buckets")
  <2>1. EditInv(h) /\ ui' = [h EXCEPT !.isLoading = FALSE]
    BY <1>4, EditHeard DEF EditJdbc!ListBuckets
  <2> HIDE DEF h
  <2>2. Keeps(ui', h, {"isLoading"})
    BY <2>1 DEF Keeps, EditInv, EditShape, EditFields
  <2> QED BY <2>1, <2>2 DEF EditInv, EditShape, EditShown, EditFound, Keeps, EditFields
<1>5. ASSUME NEW result, EditJdbc!DatabaseFound(result) PROVE EditInv(ui')
  <2> DEFINE found == EditJdbc!Found(ui)
             d == IF result = "resolved" THEN found ELSE data
  <2>1. /\ EditData(found) /\ Keeps(found, data, {"schema"})
        /\ found.schema \in EditJdbc!Kinds => found.schema = ui.kind
    <3>1. CASE ui.search.live
      <4>1. found = [data EXCEPT !.schema = ui.kind]
        BY <3>1 DEF EditJdbc!Found, EditInv, EditFound
      <4> QED BY <4>1, <1>d
              DEF EditData, AddDataFields, Keeps, EditInv, EditShape, EditJdbc!Schemas
    <3>2. CASE ~ui.search.live
      BY <3>2, <1>d DEF EditJdbc!Found, EditInv, EditFound, Keeps
    <3> QED BY <3>1, <3>2
  <2>2. /\ EditData(d) /\ Keeps(d, data, {"schema"})
        /\ d.schema \in EditJdbc!Kinds => d.schema = ui.kind
    BY <2>1, <1>d DEF EditInv, EditFound, Keeps
  <2>3. ui' = [ui EXCEPT !.data = d, !.search = EditJdbc!NoSearch]
    BY <1>5 DEF EditJdbc!DatabaseFound
  <2> HIDE DEF d
  <2>4. Keeps(ui', ui, {"data", "search"}) /\ ui'.data = d /\ ui'.search = EditJdbc!NoSearch
    BY <2>3 DEF Keeps, EditInv, EditShape, EditFields
  <2>5. EditJdbc!NoSearch \in EditSearches /\ ~EditJdbc!NoSearch.live
    BY DEF EditSearches, EditJdbc!NoSearch
  <2> QED BY <2>2, <2>4, <2>5, <1>d
          DEF EditInv, EditShape, EditData, EditShown, EditFound, Keeps, EditFields, AddDataFields
<1>6. ASSUME NEW result, EditJdbc!ConnectionUpdated(result) PROVE EditInv(ui')
  <2>1. CASE result = "resolved"
    BY <1>6, <2>1, EditMounted DEF EditJdbc!ConnectionUpdated, EditInv, EditShape
  <2>2. CASE result # "resolved"
    <3>1. Keeps(ui', ui, {"saves"}) /\ ui.saves > 0 /\ ui'.saves = ui.saves - 1
      BY <1>6, <2>2 DEF EditJdbc!ConnectionUpdated, Keeps, EditInv, EditShape, EditFields
    <3> QED BY <3>1 DEF EditInv, EditShape, EditShown, EditFound, Keeps, EditFields
  <2> QED BY <2>1, <2>2
<1>7. CASE EditJdbc!ChangeDetails
  BY <1>7, <1>d, EditChange DEF EditJdbc!ChangeDetails, Keeps
<1>8. CASE EditJdbc!TypeUrl
  <2> PICK text \in EditJdbc!Texts :
        ui' = [EditJdbc!Copied(ui, [data EXCEPT !.url = EditJdbc!UrlOf(ui.kind, text)])
                  EXCEPT !.text = text]
    BY <1>8 DEF EditJdbc!TypeUrl
  <2> DEFINE d == [data EXCEPT !.url = EditJdbc!UrlOf(ui.kind, text)]
             c == EditJdbc!Copied(ui, d)
  <2>1. Keeps(d, data, {"url"}) /\ d.url = EditJdbc!UrlOf(ui.kind, text)
    BY <1>d DEF AddDataFields, Keeps
  <2>2. EditCopies(c, ui, d) /\ ui' = [c EXCEPT !.text = text]
    BY <1>c
  <2>3. d.url \in [kind : EditJdbc!Kinds, text : EditJdbc!Texts]
    BY <2>1 DEF EditInv, EditShape, EditJdbc!UrlOf
  <2> HIDE DEF d, c
  <2>4. Keeps(ui', c, {"text"}) /\ ui'.text = text
    BY <2>2 DEF EditCopies, Keeps, EditFields, EditInv, EditShape
  <2> QED BY <1>d, <2>1, <2>2, <2>3, <2>4
          DEF EditInv, EditShape, EditData, EditShown, EditFound, EditCopies, Keeps, EditFields,
              AddDataFields
<1>9. CASE EditJdbc!ChangeLogin
  <2> DEFINE d == [data EXCEPT !.login = ~data.login]
  <2>1. Keeps(d, data, {"login"}) /\ EditData(d)
    BY <1>d DEF AddDataFields, Keeps, EditData
  <2>2. EditJdbc!Change(d)
    BY <1>9 DEF EditJdbc!ChangeLogin
  <2> HIDE DEF d
  <2> QED BY <1>d, <2>1, <2>2, EditChange DEF Keeps, AddDataFields
<1>10. CASE EditJdbc!ChangeSecret
  <2> DEFINE d == [data EXCEPT !.secret = TRUE]
             c == EditJdbc!Copied(ui, d)
  <2>1. Keeps(d, data, {"secret"}) /\ d.secret
    BY <1>d DEF AddDataFields, Keeps
  <2>2. EditCopies(c, ui, d) /\ ui' = [c EXCEPT !.secretItem = TRUE] /\ ui.credential = "secret"
    BY <1>10, <1>c DEF EditJdbc!ChangeSecret
  <2> HIDE DEF d, c
  <2>3. Keeps(ui', c, {"secretItem"})
    BY <2>2 DEF EditCopies, Keeps, EditFields, EditInv, EditShape
  <2> QED BY <1>d, <2>1, <2>2, <2>3
          DEF EditInv, EditShape, EditData, EditShown, EditFound, EditCopies, Keeps, EditFields,
              AddDataFields
<1>11. CASE EditJdbc!ResetCredentials
  <2> PICK credential \in {"password", "secret"} :
        ui' = [EditJdbc!Copied(ui, EditJdbc!Cleared(data))
                  EXCEPT !.secretItem = FALSE, !.credential = credential]
    BY <1>11 DEF EditJdbc!ResetCredentials
  <2> DEFINE d == EditJdbc!Cleared(data)
             c == EditJdbc!Copied(ui, d)
  <2>1. Keeps(d, data, {"login", "secret"}) /\ ~d.secret
    BY <1>d DEF EditJdbc!Cleared, AddDataFields, Keeps
  <2>2. /\ EditCopies(c, ui, d)
        /\ ui' = [c EXCEPT !.secretItem = FALSE, !.credential = credential]
    BY <1>c
  <2> HIDE DEF d, c
  <2>3. /\ Keeps(ui', c, {"secretItem", "credential"}) /\ ui'.credential = credential
        /\ ~ui'.secretItem
    BY <2>2 DEF EditCopies, Keeps, EditFields, EditInv, EditShape
  <2> QED BY <1>d, <2>1, <2>2, <2>3
          DEF EditInv, EditShape, EditData, EditShown, EditFound, EditCopies, Keeps, EditFields,
              AddDataFields
<1>12. CASE EditJdbc!ChangeDatabase
  <2> PICK schema \in {"empty", "typed"} : EditJdbc!Change([data EXCEPT !.schema = schema])
    BY <1>12 DEF EditJdbc!ChangeDatabase
  <2> DEFINE d == [data EXCEPT !.schema = schema]
  <2>1. Keeps(d, data, {"schema"}) /\ d.schema \in {"empty", "typed"} /\ EditJdbc!Change(d)
    BY <1>d DEF AddDataFields, Keeps
  <2> HIDE DEF d
  <2> QED BY <1>d, <2>1, EditChange
          DEF EditData, AddDataFields, Keeps, EditJdbc!Schemas, EditJdbc!Kinds
<1>13. CASE EditJdbc!ChangeVPC
  <2>1. /\ Keeps(ui', ui, {"vpc", "subnet", "sg"}) /\ ui'.vpc \in EditJdbc!Places
        /\ ui'.subnet = 0 /\ ui'.sg = 0 /\ ui.vpc # 0
    BY <1>13 DEF EditJdbc!ChangeVPC, Keeps, EditInv, EditShape, EditFields, EditJdbc!Places
  <2> QED BY <2>1
          DEF EditInv, EditShape, EditShown, EditFound, Keeps, EditFields, EditJdbc!Places
<1>14. CASE EditJdbc!ChangeSubnet
  <2> DEFINE d == [data EXCEPT !.subnet = ui.vpc]
             c == EditJdbc!Copied(ui, d)
  <2>1. Keeps(d, data, {"subnet"}) /\ d.subnet = ui.vpc
    BY <1>d DEF AddDataFields, Keeps
  <2>2. EditCopies(c, ui, d) /\ ui' = [c EXCEPT !.subnet = ui.vpc] /\ ui.vpc # 0
    BY <1>14, <1>c DEF EditJdbc!ChangeSubnet
  <2> HIDE DEF d, c
  <2>3. Keeps(ui', c, {"subnet"}) /\ ui'.subnet = ui.vpc
    BY <2>2 DEF EditCopies, Keeps, EditFields, EditInv, EditShape
  <2> QED BY <1>d, <2>1, <2>2, <2>3
          DEF EditInv, EditShape, EditData, EditShown, EditFound, EditCopies, Keeps, EditFields,
              AddDataFields
<1>15. CASE EditJdbc!ChangeSG
  <2> DEFINE d == [data EXCEPT !.sg = ui.vpc]
             c == EditJdbc!Copied(ui, d)
  <2>1. Keeps(d, data, {"sg"}) /\ d.sg = ui.vpc
    BY <1>d DEF AddDataFields, Keeps
  <2>2. EditCopies(c, ui, d) /\ ui' = [c EXCEPT !.sg = ui.vpc] /\ ui.vpc # 0
    BY <1>15, <1>c DEF EditJdbc!ChangeSG
  <2> HIDE DEF d, c
  <2>3. Keeps(ui', c, {"sg"}) /\ ui'.sg = ui.vpc
    BY <2>2 DEF EditCopies, Keeps, EditFields, EditInv, EditShape
  <2> QED BY <1>d, <2>1, <2>2, <2>3
          DEF EditInv, EditShape, EditData, EditShown, EditFound, EditCopies, Keeps, EditFields,
              AddDataFields
<1>16. CASE EditJdbc!FindDatabase
  <2> DEFINE search == [kind |-> ui.kind, live |-> TRUE]
  <2>1. search \in EditSearches /\ search.kind = ui.kind
    BY DEF EditInv, EditShape, EditSearches
  <2>2. ui' = [ui EXCEPT !.search = search]
    BY <1>16 DEF EditJdbc!FindDatabase
  <2> HIDE DEF search
  <2>3. Keeps(ui', ui, {"search"}) /\ ui'.search = search
    BY <2>2 DEF Keeps, EditInv, EditShape, EditFields
  <2> QED BY <2>1, <2>3 DEF EditInv, EditShape, EditShown, EditFound, Keeps, EditFields
<1>17. CASE EditJdbc!UpdateJdbcConnection
  <2>1. Keeps(ui', ui, {"saves"}) /\ ui.saves < MaxSaves /\ ui'.saves = ui.saves + 1
    BY <1>17 DEF EditJdbc!UpdateJdbcConnection, Keeps, EditInv, EditShape, EditFields
  <2> QED BY <2>1 DEF EditInv, EditShape, EditShown, EditFound, Keeps, EditFields
<1>18. CASE EditJdbc!Close
  BY <1>18, EditMounted DEF EditJdbc!Close, EditInv, EditShape
<1> QED
  BY <1>1, <1>2, <1>3, <1>4, <1>5, <1>6, <1>7, <1>8, <1>9, <1>10, <1>11, <1>12, <1>13, <1>14,
     <1>15, <1>16, <1>17, <1>18 DEF EditJdbc!EditNext

LEMMA EditHolds ==
    ASSUME EditJdbc!Here => EditInv(ui)
    PROVE  /\ EditJdbc!TypeOK /\ EditJdbc!SavesWhatIsShown /\ EditJdbc!FoundForThisKind
           /\ EditJdbc!SavesWholeDetails
<1>1. EditJdbc!TypeOK
  BY DEF EditInv, EditShape, EditData, EditJdbc!TypeOK
<1>2. EditJdbc!SavesWhatIsShown /\ EditJdbc!SavesWholeDetails
  BY DEF EditInv, EditShown, EditJdbc!SavesWhatIsShown, EditJdbc!SavesWholeDetails,
         EditJdbc!Saves, EditJdbc!Complete
<1>3. EditJdbc!FoundForThisKind
  BY DEF EditInv, EditFound, EditJdbc!FoundForThisKind
<1> QED BY <1>1, <1>2, <1>3

-----------------------------------------------------------------------------
(***************************************************************************)
(* The system settings.                                                    *)
(***************************************************************************)
SetFields ==
    {"loading", "lost", "jobs", "parts", "subnets", "ipError", "ipSuccess", "saving", "stuck"}

SetShape(u) ==
    /\ DOMAIN u = SetFields
    /\ u.jobs \in Settings!Entries /\ u.parts \in Settings!Entries
    /\ u.subnets \in [1 .. 2 -> Settings!Addresses]

\* These numbers are blank, or the subnets have the addresses for them.
SetFits(jobs, parts, subnets) ==
    \/ Settings!Blank \in {jobs, parts}
    \/ \A i \in DOMAIN subnets :
          Settings!CalculateEstimateRestIPs(jobs, parts) + 50 <= subnets[i]

SetEstimated(u) ==
    /\ u.loading => ~u.ipError /\ ~u.ipSuccess
    /\ u.ipSuccess => ~Settings!Exceeds(u)
    /\ u.ipError => Settings!Exceeds(u)
    /\ \A save \in u.saving : SetFits(save.jobs, save.parts, u.subnets)

SetInv(u) == SetShape(u) /\ SetEstimated(u)

\* The estimate depends on the numbers and the subnets alone.
LEMMA SetSameEstimate ==
    ASSUME NEW u, NEW v, v.jobs = u.jobs, v.parts = u.parts, v.subnets = u.subnets
    PROVE  Settings!Exceeds(v) <=> Settings!Exceeds(u)
  BY DEF Settings!Exceeds

\* What is not too much for the smaller subnet fits into both.
LEMMA SetNotExceeding ==
    ASSUME NEW u, SetShape(u), ~Settings!Exceeds(u)
    PROVE  SetFits(u.jobs, u.parts, u.subnets)
<1> DEFINE need == Settings!CalculateEstimateRestIPs(u.jobs, u.parts)
<1>1. CASE Settings!Blank \in {u.jobs, u.parts}
  BY <1>1 DEF SetFits
<1>2. CASE Settings!Blank \notin {u.jobs, u.parts}
  <2>1. u.jobs \in Int /\ u.parts \in Int
    BY DEF SetShape, Settings!Entries, Settings!Blank
  <2>2. need \in Int
    BY <2>1 DEF Settings!CalculateEstimateRestIPs
  <2>3. ~(need > Settings!FindMinimumAvailableIP(u.subnets) - 50)
    BY <1>2 DEF Settings!Exceeds
  <2>4. DOMAIN u.subnets = {1, 2} /\ u.subnets[1] \in Int /\ u.subnets[2] \in Int
    BY DEF SetShape, Settings!Addresses
  <2> HIDE DEF need
  <2>5. \A i \in DOMAIN u.subnets : need + 50 <= u.subnets[i]
    BY <2>2, <2>3, <2>4 DEF Settings!FindMinimumAvailableIP
  <2> QED BY <2>5 DEF need, SetFits
<1> QED BY <1>1, <1>2

LEMMA SetMounted ==
    ASSUME NEW subnets \in [1 .. 2 -> Settings!Addresses]
    PROVE  SetInv(Settings!Mounted(subnets))
<1>1. SetShape(Settings!Mounted(subnets))
  BY DEF Settings!Mounted, SetShape, SetFields, Settings!Entries
<1>2. SetEstimated(Settings!Mounted(subnets))
  BY DEF Settings!Mounted, SetEstimated
<1> QED BY <1>1, <1>2 DEF SetInv

LEMMA SetStep == SetInv(ui) /\ Settings!SettingsNext => SetInv(ui')
<1> SUFFICES ASSUME SetInv(ui), Settings!SettingsNext PROVE SetInv(ui')
  OBVIOUS
<1>e. ASSUME NEW jobs \in Settings!Entries, NEW parts \in Settings!Entries,
             Keeps(ui', ui, {"loading", "jobs", "parts", "ipError", "ipSuccess"}),
             ui'.jobs = jobs, ui'.parts = parts, ~ui'.ipError, ~ui'.ipSuccess
      PROVE  SetInv(ui')
  BY <1>e DEF SetInv, SetShape, SetEstimated, Keeps, SetFields
<1>k. ASSUME Keeps(ui', ui, {"lost", "saving", "stuck"}),
             \A save \in ui'.saving : SetFits(save.jobs, save.parts, ui.subnets)
      PROVE  SetInv(ui')
  <2>1. Settings!Exceeds(ui') <=> Settings!Exceeds(ui)
    BY <1>k, SetSameEstimate DEF Keeps, SetInv, SetShape, SetFields
  <2> QED BY <1>k, <2>1 DEF SetInv, SetShape, SetEstimated, Keeps, SetFields
<1>0. ~Settings!Exceeds(ui) \/ ~ui.ipSuccess
  BY DEF SetInv, SetEstimated
<1>1. ASSUME NEW result, Settings!ConfigAnswered(result) PROVE SetInv(ui')
  <2>1. CASE result = "rejected"
    <3>1. Keeps(ui', ui, {"lost"})
      BY <1>1, <2>1 DEF Settings!ConfigAnswered, Keeps, SetInv, SetShape, SetFields
    <3> QED BY <3>1, <1>k DEF Keeps, SetInv, SetShape, SetEstimated, SetFields
  <2>2. CASE result # "rejected"
    <3>1. PICK jobs \in Settings!Entries, parts \in Settings!Entries :
            ui' = [ui EXCEPT !.loading = FALSE, !.jobs = jobs, !.parts = parts]
      BY <1>1, <2>2 DEF Settings!ConfigAnswered
    <3>2. Keeps(ui', ui, {"loading", "jobs", "parts"}) /\ ui'.jobs = jobs /\ ui'.parts = parts
      BY <3>1 DEF Keeps, SetInv, SetShape, SetFields
    <3>3. ~ui.ipError /\ ~ui.ipSuccess
      BY <1>1 DEF Settings!ConfigAnswered, SetInv, SetEstimated
    <3> QED BY <3>2, <3>3, <1>e DEF Keeps, SetInv, SetShape, SetFields
  <2> QED BY <2>1, <2>2
<1>2. ASSUME NEW result, Settings!SaveAnswered(result) PROVE SetInv(ui')
  <2>1. CASE result = "resolved"
    <3>1. /\ Keeps(ui', ui, {"saving", "ipError", "ipSuccess"})
          /\ ui'.saving = {} /\ ~ui'.ipError /\ ~ui'.ipSuccess
      BY <1>2, <2>1 DEF Settings!SaveAnswered, Keeps, SetInv, SetShape, SetFields
    <3> QED BY <3>1 DEF SetInv, SetShape, SetEstimated, Keeps, SetFields
  <2>2. CASE result # "resolved"
    <3>1. Keeps(ui', ui, {"saving", "stuck"}) /\ ui'.saving = {}
      BY <1>2, <2>2 DEF Settings!SaveAnswered, Keeps, SetInv, SetShape, SetFields
    <3> QED BY <3>1, <1>k DEF Keeps
  <2> QED BY <2>1, <2>2
<1>3. ASSUME NEW jobs \in Settings!Entries, NEW parts \in Settings!Entries,
             ui' = Settings!Edited(ui, jobs, parts)
      PROVE  SetInv(ui')
  <2>1. /\ Keeps(ui', ui, {"jobs", "parts", "ipError", "ipSuccess"})
        /\ ui'.jobs = jobs /\ ui'.parts = parts /\ ~ui'.ipError /\ ~ui'.ipSuccess
    BY <1>3 DEF Settings!Edited, Keeps, SetInv, SetShape, SetFields
  <2> QED BY <2>1, <1>e DEF Keeps
<1>4. CASE Settings!EstimateIPs
  <2> DEFINE exceeds == Settings!Exceeds(ui)
  <2>1. ui' = [ui EXCEPT !.ipError = exceeds, !.ipSuccess = ~exceeds] /\ ~ui.loading
    BY <1>4 DEF Settings!EstimateIPs, Settings!Ready
  <2> HIDE DEF exceeds
  <2>2. /\ Keeps(ui', ui, {"ipError", "ipSuccess"})
        /\ ui'.ipError <=> exceeds
        /\ ui'.ipSuccess <=> ~exceeds
    BY <2>1 DEF Keeps, SetInv, SetShape, SetFields
  <2>3. Settings!Exceeds(ui') <=> exceeds
    BY <2>2, SetSameEstimate DEF exceeds, Keeps, SetInv, SetShape, SetFields
  <2> QED BY <2>1, <2>2, <2>3 DEF SetInv, SetShape, SetEstimated, Keeps, SetFields
<1>5. CASE Settings!Save
  <2> DEFINE save == [jobs |-> ui.jobs, parts |-> ui.parts]
  <2>1. SetFits(save.jobs, save.parts, ui.subnets)
    BY <1>5, <1>0, SetNotExceeding DEF Settings!Save, Settings!CanSave, SetInv
  <2>2. ui' = [ui EXCEPT !.saving = {save}]
    BY <1>5 DEF Settings!Save
  <2> HIDE DEF save
  <2>3. Keeps(ui', ui, {"saving"}) /\ ui'.saving = {save}
    BY <2>2 DEF Keeps, SetInv, SetShape, SetFields
  <2> QED BY <2>1, <2>3, <1>k DEF Keeps
<1> QED
  BY <1>1, <1>2, <1>3, <1>4, <1>5
     DEF Settings!SettingsNext, Settings!ChangeJobs, Settings!ChangeParts, SetInv, SetShape

LEMMA SetHolds ==
    ASSUME Settings!Here => SetInv(ui)
    PROVE  /\ Settings!TypeOK /\ Settings!SavesWhatFits /\ Settings!EstimateOfNumbers
  BY DEF SetInv, SetShape, SetEstimated, SetFits, Settings!TypeOK, Settings!SavesWhatFits,
         Settings!EstimateOfNumbers

-----------------------------------------------------------------------------
(***************************************************************************)
(* The details of a job, with the list of its runs.                        *)
(***************************************************************************)
RunsFields ==
    {"tab", "page", "list", "more", "asked", "downloading", "loading", "lost"}

\* A list has a page of runs at most once, and none from this page on.
RunsBefore(list, page) ==
    /\ list \in [Runs!RunPages -> Nat]
    /\ \A p \in Runs!RunPages : list[p] <= 1 /\ (p >= page => list[p] = 0)

RunsInv(u) ==
    /\ DOMAIN u = RunsFields
    /\ u.tab \in Runs!Tabs /\ u.page \in Runs!RunPages
    /\ RunsBefore(u.list, u.page + 1)
    /\ \A request \in u.asked :
          /\ request.page \in Runs!RunPages /\ request.page <= u.page
          /\ RunsBefore(request.list, request.page)
    /\ u.loading => u.asked # {} \/ u.downloading \/ u.lost

LEMMA RunsPages == 1 \in Runs!RunPages /\ Runs!RunPages \subseteq Nat
  BY FormsAssumption DEF Runs!HistoryAssumption, Runs!RunPages

LEMMA RunsOpened ==
    ASSUME NEW tab \in Runs!Tabs
    PROVE  RunsInv(Runs!Opened(tab))
<1> DEFINE u == Runs!Opened(tab)
<1>1. RunsBefore(Runs!NoRuns, 1) /\ RunsBefore(Runs!NoRuns, 2)
  BY RunsPages DEF RunsBefore, Runs!NoRuns
<1>2. DOMAIN u = RunsFields /\ u.tab = tab /\ u.page = 1 /\ u.list = Runs!NoRuns
  BY DEF Runs!Opened, RunsFields
<1>3. u.asked = {Runs!Request(1, 1, Runs!NoRuns), Runs!Request(2, 1, Runs!NoRuns)}
         \/ u.asked = {Runs!Request(1, 1, Runs!NoRuns)}
  BY DEF Runs!Opened
<1>4. \A n : Runs!Request(n, 1, Runs!NoRuns).page = 1
              /\ Runs!Request(n, 1, Runs!NoRuns).list = Runs!NoRuns
  BY DEF Runs!Request
<1> HIDE DEF u
<1>5. u.asked # {}
      /\ \A request \in u.asked : request.page = 1 /\ request.list = Runs!NoRuns
  BY <1>3, <1>4
<1>6. u.page + 1 = 2 /\ u.page \in Runs!RunPages
  BY <1>2, RunsPages
<1>7. /\ u.tab \in Runs!Tabs /\ RunsBefore(u.list, u.page + 1)
      /\ \A request \in u.asked : /\ request.page \in Runs!RunPages /\ request.page <= u.page
                                   /\ RunsBefore(request.list, request.page)
  BY <1>1, <1>2, <1>5, <1>6, RunsPages
<1>8. RunsInv(u)
  BY <1>2, <1>5, <1>6, <1>7 DEF RunsInv
<1> QED BY <1>8 DEF u

LEMMA RunsMounted == RunsInv(Runs!Mounted)
  BY RunsOpened DEF Runs!Mounted, Runs!Tabs

LEMMA RunsStep == RunsInv(ui) /\ Runs!JobDetailNext => RunsInv(ui')
<1> SUFFICES ASSUME RunsInv(ui), Runs!JobDetailNext PROVE RunsInv(ui')
  OBVIOUS
<1> USE RunsPages
<1>1. ASSUME NEW result, Runs!TabAnswered(result) PROVE RunsInv(ui')
  <2> PICK request \in ui.asked :
        ui' = CASE result = "rejected" -> Runs!DetailLost(request)
                [] result # "rejected" /\ ui.tab = "jobHistory" -> Runs!HistoryAnswered(request)
                [] OTHER -> Runs!DetailAnswered(request)
    BY <1>1 DEF Runs!TabAnswered
  <2>1. /\ request.page \in Runs!RunPages /\ request.page <= ui.page
        /\ RunsBefore(request.list, request.page)
    BY DEF RunsInv
  <2>2. CASE ui' = Runs!DetailLost(request)
    <3>1. Keeps(ui', ui, {"asked", "lost"}) /\ ui'.asked \subseteq ui.asked /\ ui'.lost
      BY <2>2 DEF Runs!DetailLost, Keeps, RunsInv, RunsFields
    <3> QED BY <3>1 DEF RunsInv, Keeps, RunsFields
  <2>3. CASE ui' = Runs!HistoryAnswered(request)
    <3>1. /\ Keeps(ui', ui, {"asked", "loading", "list", "more"})
          /\ ui'.asked \subseteq ui.asked /\ ~ui'.loading
          /\ ui'.list = [request.list EXCEPT ![request.page] = @ + 1]
      BY <2>3 DEF Runs!HistoryAnswered, Runs!Added, Keeps, RunsInv, RunsFields
    <3>2. RunsBefore(ui'.list, ui.page + 1)
      BY <2>1, <3>1 DEF RunsBefore, RunsInv
    <3> QED BY <3>1, <3>2 DEF RunsInv, Keeps, RunsFields
  <2>4. CASE ui' = Runs!DetailAnswered(request)
    <3>1. Keeps(ui', ui, {"asked", "loading"}) /\ ui'.asked \subseteq ui.asked /\ ~ui'.loading
      BY <2>4 DEF Runs!DetailAnswered, Keeps, RunsInv, RunsFields
    <3> QED BY <3>1 DEF RunsInv, Keeps, RunsFields
  <2> QED BY <2>2, <2>3, <2>4
<1>2. CASE Runs!ChangeTab
  BY <1>2, RunsOpened DEF Runs!ChangeTab
<1>3. CASE Runs!ViewMore
  <2> DEFINE request == Runs!Request(1, ui.page + 1, ui.list)
  <2>1. ui.page <= HistoryPages /\ ui.page + 1 \in Runs!RunPages
    BY <1>3, FormsAssumption DEF Runs!ViewMore, RunsInv, Runs!RunPages, Runs!HistoryAssumption
  <2>2. request.page = ui.page + 1 /\ request.list = ui.list
    BY DEF Runs!Request
  <2>3. ui' = [ui EXCEPT !.page = @ + 1, !.loading = TRUE, !.asked = @ \cup {request}]
    BY <1>3 DEF Runs!ViewMore
  <2> HIDE DEF request
  <2>4. /\ Keeps(ui', ui, {"page", "loading", "asked"})
        /\ ui'.page = ui.page + 1 /\ ui'.asked = ui.asked \cup {request}
    BY <2>3 DEF Keeps, RunsInv, RunsFields
  <2>5. ui'.page \in Runs!RunPages /\ ui'.list = ui.list /\ ui.page \in Nat
    BY <2>1, <2>4 DEF RunsInv, Keeps, RunsFields
  <2>6. RunsBefore(ui'.list, ui'.page + 1)
    BY <2>4, <2>5 DEF RunsInv, RunsBefore
  <2>7. ASSUME NEW old \in ui'.asked
        PROVE  /\ old.page \in Runs!RunPages /\ old.page <= ui'.page
               /\ RunsBefore(old.list, old.page)
    <3>1. CASE old = request
      BY <2>1, <2>2, <2>4, <2>5, <3>1 DEF RunsInv
    <3>2. CASE old \in ui.asked
      <4>1. old.page \in Runs!RunPages /\ old.page <= ui.page /\ RunsBefore(old.list, old.page)
        BY <3>2 DEF RunsInv
      <4>2. old.page \in Nat
        BY <4>1
      <4>3. old.page <= ui'.page
        BY <2>4, <2>5, <4>1, <4>2
      <4> QED BY <4>1, <4>3
    <3> QED BY <2>4, <3>1, <3>2
  <2> QED BY <2>4, <2>5, <2>6, <2>7 DEF RunsInv, Keeps, RunsFields
<1>4. CASE Runs!ClkDownloadReport
  <2>1. Keeps(ui', ui, {"downloading", "loading"}) /\ ui'.downloading
    BY <1>4 DEF Runs!ClkDownloadReport, Keeps, RunsInv, RunsFields
  <2> QED BY <2>1 DEF RunsInv, Keeps, RunsFields
<1>5. CASE Runs!ReportAnswered
  <2>1. Keeps(ui', ui, {"downloading", "loading"}) /\ ~ui'.loading
    BY <1>5 DEF Runs!ReportAnswered, Keeps, RunsInv, RunsFields
  <2> QED BY <2>1 DEF RunsInv, Keeps, RunsFields
<1> QED BY <1>1, <1>2, <1>3, <1>4, <1>5 DEF Runs!JobDetailNext

LEMMA RunsHolds ==
    ASSUME Runs!Here => RunsInv(ui)
    PROVE  /\ Runs!TypeOK /\ Runs!WaitsForSomething /\ Runs!NoRunTwice
  BY DEF RunsInv, RunsBefore, Runs!TypeOK, Runs!WaitsForSomething, Runs!NoRunTwice

-----------------------------------------------------------------------------
(***************************************************************************)
(* The details of a table of the catalog.                                  *)
(***************************************************************************)
HeadFields ==
    {"row", "savedPrivacy", "editing", "checking", "lostCheck", "labelling", "saving"}

SchemaFields ==
    HeadFields \cup {"fromList", "tab", "page", "rows", "loading", "reads", "lost", "update",
                     "saveDisabled", "saveLoading", "saves"}

\* The head of the dialog: the row that is shown has the privacy saved last.
HeadOk(u) ==
    /\ u.row \in Schema!Row /\ u.checking \subseteq Schema!Row /\ u.saving \subseteq Schema!Row
    /\ u.fromList \/ u.row.privacy = u.savedPrivacy

Counted(reads) == IsFiniteSet(reads) /\ Cardinality(reads) <= MaxReads

ReadOk(read, lost) ==
    /\ DOMAIN read = {"n", "page", "left", "mounted", "failed"}
    /\ read.page \in 1 .. ColumnPages /\ read.mounted \in BOOLEAN
    /\ read.failed => lost

\* The rows that are shown have no edits, or are the copy that will be saved.
ColumnsOk(u) ==
    /\ u.tab \in Schema!Tabs /\ u.page \in 1 .. ColumnPages
    /\ u.rows \in Schema!Update /\ u.update \in Schema!Update /\ u.saves \subseteq Schema!Update
    /\ u.rows.edited = {} \/ u.rows = u.update

\* What a spinner waits for, if no call was rejected.
ReadsOk(u) ==
    /\ Counted(u.reads)
    /\ \A read \in u.reads : ReadOk(read, u.lost)
    /\ u.loading => u.lost \/ \E read \in u.reads : read.mounted
    /\ u.saveLoading => u.lost \/ u.reads # {} \/ u.saves # {}

SchemaInv(u) ==
    DOMAIN u = SchemaFields /\ HeadOk(u) /\ ColumnsOk(u) /\ ReadsOk(u)

LEMMA SchemaBounds == ColumnPages \in Nat \ {0} /\ MaxReads \in Nat \ {0}
  BY FormsAssumption DEF Schema!SchemaAssumption

LEMMA SameCardinality == \A S : Schema!Cardinality(S) = Cardinality(S)
  BY DEF Schema!Cardinality, Cardinality

LEMMA NoUpdateOk == Schema!NoUpdate \in Schema!Update /\ Schema!NoUpdate.edited = {}
  BY SchemaBounds DEF Schema!NoUpdate, Schema!Update

LEMMA OneMoreRead ==
    ASSUME NEW reads, IsFiniteSet(reads), Cardinality(reads) < MaxReads, NEW read
    PROVE  Counted(reads \cup {read})
<1>1. IsFiniteSet(reads \cup {read})
      /\ \/ Cardinality(reads \cup {read}) = Cardinality(reads)
         \/ Cardinality(reads \cup {read}) = Cardinality(reads) + 1
  BY FS_AddElement
<1>2. Cardinality(reads) \in Nat
  BY FS_CardinalityType
<1>3. Cardinality(reads \cup {read}) <= MaxReads
  BY <1>1, <1>2, SchemaBounds
<1> QED BY <1>1, <1>3 DEF Counted

LEMMA ReadReduced ==
    ASSUME NEW reads, Counted(reads), NEW read \in reads, NEW rest
    PROVE  Counted(Schema!Reduced(reads, read, rest))
<1> DEFINE others == reads \ {read}
<1>1. IsFiniteSet(others) /\ Cardinality(others) = Cardinality(reads) - 1
  BY FS_RemoveElement DEF Counted
<1>2. Cardinality(reads) \in Nat /\ Cardinality(reads) <= MaxReads /\ Cardinality(others) \in Nat
  BY <1>1, FS_CardinalityType DEF Counted
<1>6. Cardinality(others) < MaxReads
  BY <1>1, <1>2, SchemaBounds
<1>3. Counted(others \cup {rest})
  BY <1>1, <1>6, OneMoreRead
<1>4. Counted(others)
  BY <1>1, <1>2, SchemaBounds DEF Counted
<1>5. others \cup {} = others
  OBVIOUS
<1> QED BY <1>3, <1>4, <1>5 DEF Schema!Reduced

LEMMA ReadsUnmounted ==
    ASSUME NEW reads, Counted(reads)
    PROVE  Counted(Schema!Unmounted(reads))
<1> DEFINE left == Schema!Unmounted(reads)
           f == [read \in reads |-> [read EXCEPT !.mounted = FALSE]]
<1>1. f \in Surjection(reads, left)
  BY DEF Surjection, Schema!Unmounted
<1> HIDE DEF left, f
<1>2. IsFiniteSet(left) /\ Cardinality(left) <= Cardinality(reads)
  BY <1>1, FS_Surjection DEF Counted
<1>3. Cardinality(left) \in Nat /\ Cardinality(reads) \in Nat
  BY <1>2, FS_CardinalityType DEF Counted
<1>4. Counted(left)
  BY <1>2, <1>3, SchemaBounds DEF Counted
<1> QED BY <1>4 DEF left

\* A read of the page of a dialog.
PageRead(v, u) ==
    /\ Keeps(v, u, {"loading", "saveLoading", "reads"})
    /\ \E read : /\ v.reads = u.reads \cup {read}
                 /\ ReadOk(read, u.lost) /\ read.mounted

LEMMA PageDataRead ==
    ASSUME NEW u, DOMAIN u = SchemaFields, u.page \in 1 .. ColumnPages
    PROVE  PageRead(Schema!GetPageData(u), u)
<1> DEFINE read == Schema!Read(Schema!NewNumber(u.reads), u.page)
           v == Schema!GetPageData(u)
<1>1. ReadOk(read, u.lost) /\ read.mounted
  BY DEF ReadOk, Schema!Read
<1>2. v = [u EXCEPT !.loading = TRUE, !.saveLoading = TRUE, !.reads = @ \cup {read}]
  BY DEF Schema!GetPageData
<1> HIDE DEF read, v
<1>3. Keeps(v, u, {"loading", "saveLoading", "reads"}) /\ v.reads = u.reads \cup {read}
  BY <1>2 DEF Keeps, SchemaFields, HeadFields
<1>4. PageRead(v, u)
  BY <1>1, <1>3 DEF PageRead
<1> QED BY <1>4 DEF v

LEMMA PageReadOk ==
    ASSUME NEW u, DOMAIN u = SchemaFields, HeadOk(u), ColumnsOk(u),
           IsFiniteSet(u.reads), Cardinality(u.reads) < MaxReads,
           \A read \in u.reads : ReadOk(read, u.lost),
           NEW v, PageRead(v, u)
    PROVE  SchemaInv(v)
<1> PICK read : v.reads = u.reads \cup {read} /\ ReadOk(read, u.lost) /\ read.mounted
  BY DEF PageRead
<1>1. Keeps(v, u, {"loading", "saveLoading", "reads"}) /\ DOMAIN v = SchemaFields
  BY DEF PageRead, Keeps
<1>2. HeadOk(v)
  BY <1>1 DEF HeadOk, Keeps, SchemaFields, HeadFields
<1>3. ColumnsOk(v) /\ v.lost = u.lost
  BY <1>1 DEF ColumnsOk, Keeps, SchemaFields
<1>4. Counted(v.reads)
  BY OneMoreRead
<1>5. ReadsOk(v)
  BY <1>3, <1>4 DEF ReadsOk
<1> QED BY <1>1, <1>2, <1>3, <1>5 DEF SchemaInv

LEMMA SchemaMounted ==
    ASSUME NEW fromList \in BOOLEAN
    PROVE  SchemaInv(Schema!Mounted(fromList))
<1> DEFINE own == [fromList |-> fromList, tab |-> "schema", page |-> 1,
                   rows |-> Schema!NoUpdate, loading |-> FALSE, reads |-> {}, lost |-> FALSE,
                   update |-> Schema!NoUpdate, saveDisabled |-> TRUE,
                   saveLoading |-> FALSE, saves |-> {}]
           w == Schema!RowAnd(own)
           u == [w EXCEPT !.tab = "schema", !.page = 1, !.rows = Schema!NoUpdate, !.loading = FALSE]
           v == Schema!GetPageData(u)
<1>1. v = Schema!Mounted(fromList)
  BY DEF Schema!Mounted, Schema!SchemaOpened
<1>2. DOMAIN Schema!NewRow = HeadFields
      /\ DOMAIN own = {"fromList", "tab", "page", "rows", "loading", "reads", "lost", "update",
                       "saveDisabled", "saveLoading", "saves"}
  BY DEF Schema!NewRow, HeadFields
<1>3. DOMAIN w = SchemaFields
      /\ \A field \in SchemaFields : w[field] = IF field \in HeadFields THEN Schema!NewRow[field]
                                                                     ELSE own[field]
  BY <1>2 DEF Schema!RowAnd, SchemaFields
<1>4. own.reads = {} /\ own.update = Schema!NoUpdate /\ own.saves = {} /\ own.lost = FALSE
  OBVIOUS
<1>5. /\ Schema!NewRow.row \in Schema!Row /\ Schema!NewRow.checking = {}
      /\ Schema!NewRow.saving = {} /\ Schema!NewRow.row.privacy = 1
      /\ Schema!NewRow.savedPrivacy = 1
  BY DEF Schema!NewRow, Schema!Row, Schema!Privacies, Schema!Labels
<1> HIDE DEF own, w
<1>6. /\ DOMAIN u = SchemaFields /\ u.tab = "schema" /\ u.page = 1
      /\ u.rows = Schema!NoUpdate /\ u.update = Schema!NoUpdate /\ u.reads = {} /\ u.saves = {}
      /\ u.row = Schema!NewRow.row /\ u.checking = {} /\ u.saving = {}
      /\ u.savedPrivacy = Schema!NewRow.savedPrivacy
  BY <1>3, <1>4, <1>5 DEF SchemaFields, HeadFields
<1> HIDE DEF u
<1>7. HeadOk(u) /\ ColumnsOk(u)
  BY <1>5, <1>6, NoUpdateOk, SchemaBounds DEF HeadOk, ColumnsOk, Schema!Tabs
<1>8. IsFiniteSet(u.reads) /\ Cardinality(u.reads) < MaxReads
  BY <1>6, FS_EmptySet, SchemaBounds
<1>9. PageRead(v, u)
  BY <1>6, PageDataRead, SchemaBounds
<1> HIDE DEF v
<1>10. SchemaInv(v)
  BY <1>6, <1>7, <1>8, <1>9, PageReadOk
<1> QED BY <1>1, <1>10

\* A step on the head of the dialog.
LEMMA HeadChanged ==
    ASSUME SchemaInv(ui), Keeps(ui', ui, HeadFields), HeadOk(ui')
    PROVE  SchemaInv(ui')
<1>1. DOMAIN ui' = SchemaFields
  BY DEF SchemaInv, Keeps
<1>2. ColumnsOk(ui')
  BY DEF SchemaInv, ColumnsOk, Keeps, SchemaFields, HeadFields
<1>3. ReadsOk(ui')
  BY DEF SchemaInv, ReadsOk, Keeps, SchemaFields, HeadFields
<1> QED BY <1>1, <1>2, <1>3 DEF SchemaInv

LEMMA HeadStep ==
    ASSUME SchemaInv(ui),
           \/ Schema!EditPrivacy \/ Schema!ClkCheckIcon
           \/ \E result : Schema!CheckAnswered(result) \/ Schema!LabelsAnswered(result)
           \/ Schema!EditLabels \/ Schema!HideLabels \/ Schema!SaveLabels
    PROVE  SchemaInv(ui')
<1>0. DOMAIN ui = SchemaFields /\ HeadOk(ui)
  BY DEF SchemaInv
<1>1. CASE Schema!EditPrivacy
  <2>1. Keeps(ui', ui, {"editing"})
    BY <1>0, <1>1 DEF Schema!EditPrivacy, Schema!PrivacyEdited, Keeps, SchemaFields, HeadFields
  <2> QED BY <1>0, <2>1, HeadChanged DEF HeadOk, Keeps, SchemaFields, HeadFields
<1>2. CASE Schema!ClkCheckIcon
  <2> PICK privacy \in Schema!Privacies : ui' = Schema!Check(ui, privacy)
    BY <1>2 DEF Schema!ClkCheckIcon
  <2> DEFINE row == [ui.row EXCEPT !.privacy = privacy]
  <2>1. row \in Schema!Row
    BY <1>0 DEF HeadOk, Schema!Row
  <2> HIDE DEF row
  <2>2. Keeps(ui', ui, {"checking"}) /\ ui'.checking = {row}
    BY <1>0 DEF Schema!Check, row, Keeps, SchemaFields, HeadFields
  <2> QED BY <1>0, <2>1, <2>2, HeadChanged DEF HeadOk, Keeps, SchemaFields, HeadFields
<1>3. ASSUME NEW result, Schema!CheckAnswered(result) PROVE SchemaInv(ui')
  <2> PICK sent \in ui.checking :
        ui' = IF result = "resolved" THEN Schema!PrivacyAnswered(ui, sent)
              ELSE Schema!CheckRejected(ui)
    BY <1>3 DEF Schema!CheckAnswered
  <2>1. sent \in Schema!Row
    BY <1>0 DEF HeadOk
  <2>2. CASE ui' = Schema!CheckRejected(ui)
    <3>1. Keeps(ui', ui, {"checking", "lostCheck"}) /\ ui'.checking = {}
      BY <1>0, <2>2 DEF Schema!CheckRejected, Keeps, SchemaFields, HeadFields
    <3> QED BY <1>0, <3>1, HeadChanged DEF HeadOk, Keeps, SchemaFields, HeadFields
  <2>3. CASE ui.fromList /\ ui' = Schema!PrivacyAnswered(ui, sent)
    <3>1. Keeps(ui', ui, {"checking", "editing", "savedPrivacy"}) /\ ui'.checking = {}
      BY <1>0, <2>3 DEF Schema!PrivacyAnswered, Keeps, SchemaFields, HeadFields
    <3> QED BY <1>0, <2>3, <3>1, HeadChanged DEF HeadOk, Keeps, SchemaFields, HeadFields
  <2>4. CASE ~ui.fromList /\ ui' = Schema!PrivacyAnswered(ui, sent)
    <3>1. /\ Keeps(ui', ui, {"checking", "editing", "row", "savedPrivacy"})
          /\ ui'.checking = {} /\ ui'.row = sent /\ ui'.savedPrivacy = sent.privacy
      BY <1>0, <2>4 DEF Schema!PrivacyAnswered, Schema!Checked, Keeps, SchemaFields, HeadFields
    <3> QED BY <1>0, <2>1, <3>1, HeadChanged DEF HeadOk, Keeps, SchemaFields, HeadFields
  <2> QED BY <2>2, <2>3, <2>4
<1>4. ASSUME NEW result, Schema!LabelsAnswered(result) PROVE SchemaInv(ui')
  <2> PICK sent \in ui.saving :
        ui' = IF result = "resolved" THEN Schema!TableLabelled(ui, sent)
              ELSE Schema!LabelsRejected(ui)
    BY <1>4 DEF Schema!LabelsAnswered
  <2>1. sent \in Schema!Row
    BY <1>0 DEF HeadOk
  <2>2. CASE ui' = Schema!LabelsRejected(ui)
    <3>1. Keeps(ui', ui, {"saving"}) /\ ui'.saving = {}
      BY <1>0, <2>2 DEF Schema!LabelsRejected, Keeps, SchemaFields, HeadFields
    <3> QED BY <1>0, <3>1, HeadChanged DEF HeadOk, Keeps, SchemaFields, HeadFields
  <2>3. CASE ui.fromList /\ ui' = Schema!TableLabelled(ui, sent)
    <3>1. Keeps(ui', ui, {"saving", "labelling"}) /\ ui'.saving = {}
      BY <1>0, <2>3 DEF Schema!TableLabelled, Keeps, SchemaFields, HeadFields
    <3> QED BY <1>0, <3>1, HeadChanged DEF HeadOk, Keeps, SchemaFields, HeadFields
  <2>4. CASE ~ui.fromList /\ ui' = Schema!TableLabelled(ui, sent)
    <3> DEFINE row == [ui.row EXCEPT !.labels = sent.labels]
    <3>1. row \in Schema!Row /\ row.privacy = ui.row.privacy
      BY <1>0, <2>1 DEF HeadOk, Schema!Row
    <3> HIDE DEF row
    <3>2. /\ Keeps(ui', ui, {"saving", "labelling", "row"})
          /\ ui'.saving = {} /\ ui'.row = row
      BY <1>0, <2>4 DEF Schema!TableLabelled, Schema!LabelsSaved, Schema!Labelled, row,
         Keeps, SchemaFields, HeadFields
    <3> QED BY <1>0, <3>1, <3>2, HeadChanged DEF HeadOk, Keeps, SchemaFields, HeadFields
  <2> QED BY <2>2, <2>3, <2>4 DEF Schema!TableLabelled
<1>5. CASE Schema!EditLabels \/ Schema!HideLabels
  <2>1. Keeps(ui', ui, {"labelling"})
    BY <1>0, <1>5 DEF Schema!EditLabels, Schema!HideLabels, Keeps, SchemaFields, HeadFields
  <2> QED BY <1>0, <2>1, HeadChanged DEF HeadOk, Keeps, SchemaFields, HeadFields
<1>6. CASE Schema!SaveLabels
  <2> PICK labels \in Schema!Labels : ui' = Schema!LabelsSent(ui, labels)
    BY <1>6 DEF Schema!SaveLabels
  <2> DEFINE row == [ui.row EXCEPT !.labels = labels]
  <2>1. row \in Schema!Row
    BY <1>0 DEF HeadOk, Schema!Row
  <2> HIDE DEF row
  <2>2. Keeps(ui', ui, {"saving"}) /\ ui'.saving = {row}
    BY <1>0 DEF Schema!LabelsSent, row, Keeps, SchemaFields, HeadFields
  <2> QED BY <1>0, <2>1, <2>2, HeadChanged DEF HeadOk, Keeps, SchemaFields, HeadFields
<1> QED BY <1>1, <1>2, <1>3, <1>4, <1>5, <1>6

\* The tab of the columns is opened, or another page of them.
LEMMA ColumnsRead ==
    ASSUME SchemaInv(ui), Cardinality(ui.reads) < MaxReads,
           NEW u, Keeps(u, ui, {"tab", "page", "rows", "loading"}),
           u.tab \in Schema!Tabs, u.page \in 1 .. ColumnPages,
           u.rows = ui.rows \/ u.rows = Schema!NoUpdate,
           ui' = Schema!GetPageData(u)
    PROVE  SchemaInv(ui')
<1>1. DOMAIN u = SchemaFields /\ u.reads = ui.reads /\ u.lost = ui.lost
  BY DEF SchemaInv, Keeps, SchemaFields
<1>2. HeadOk(u)
  BY DEF SchemaInv, HeadOk, Keeps, SchemaFields, HeadFields
<1>3. ColumnsOk(u)
  BY NoUpdateOk DEF SchemaInv, ColumnsOk, Keeps, SchemaFields
<1>4. IsFiniteSet(u.reads) /\ Cardinality(u.reads) < MaxReads
      /\ \A read \in u.reads : ReadOk(read, u.lost)
  BY <1>1 DEF SchemaInv, ReadsOk, Counted
<1>5. PageRead(ui', u)
  BY <1>1, PageDataRead
<1> QED BY <1>1, <1>2, <1>3, <1>4, <1>5, PageReadOk

\* What an answer leaves of the reads.
ReadsLeft(reads, read, rest) ==
    /\ rest.left = {} => reads = ui.reads \ {read}
    /\ rest.left # {} => reads = (ui.reads \ {read}) \cup {rest}

LEMMA ReadsAreLeft ==
    ASSUME NEW read, NEW rest
    PROVE  ReadsLeft(Schema!Reduced(ui.reads, read, rest), read, rest)
  BY DEF ReadsLeft, Schema!Reduced

LEMMA PartStep ==
    ASSUME SchemaInv(ui), NEW result, Schema!PartAnswered(result)
    PROVE  SchemaInv(ui')
<1>0. DOMAIN ui = SchemaFields /\ HeadOk(ui) /\ ColumnsOk(ui) /\ ReadsOk(ui)
  BY DEF SchemaInv
<1> PICK read \in ui.reads : \E part \in read.left :
      LET came == Schema!WithoutPart(Schema!PartCame(ui, read, part), read, part)
      IN  ui' = CASE result = "rejected" -> Schema!PartRejected(ui, read, part)
                  [] result # "rejected" /\ read.left = {part} /\ ~read.failed ->
                       Schema!ReadEnded(came, read)
                  [] OTHER -> came
  BY DEF Schema!PartAnswered
<1> PICK part \in read.left :
      LET came == Schema!WithoutPart(Schema!PartCame(ui, read, part), read, part)
      IN  ui' = CASE result = "rejected" -> Schema!PartRejected(ui, read, part)
                  [] result # "rejected" /\ read.left = {part} /\ ~read.failed ->
                       Schema!ReadEnded(came, read)
                  [] OTHER -> came
  OBVIOUS
<1> DEFINE shown == Schema!PartCame(ui, read, part)
           came == Schema!WithoutPart(shown, read, part)
           rest == [read EXCEPT !.left = @ \ {part}]
           reads == Schema!Reduced(ui.reads, read, rest)
<1>1. \/ result = "rejected" /\ ui' = Schema!PartRejected(ui, read, part)
      \/ read.left = {part} /\ ~read.failed /\ ui' = Schema!ReadEnded(came, read)
      \/ ~(read.left = {part} /\ ~read.failed) /\ ui' = came
  OBVIOUS
<1>2. ReadOk(read, ui.lost)
  BY <1>0 DEF ReadsOk
<1>3. ReadOk(rest, ui.lost) /\ rest.left = read.left \ {part} /\ rest.mounted = read.mounted
  BY <1>2 DEF ReadOk
<1>4. Counted(reads) /\ ReadsLeft(reads, read, rest)
  BY <1>0, ReadReduced, ReadsAreLeft DEF ReadsOk
<1>5. /\ Keeps(shown, ui, {"rows"})
      /\ shown.rows = ui.rows \/ (shown.rows.edited = {} /\ shown.rows \in Schema!Update)
  <2> DEFINE rows == [page |-> read.page, edited |-> {}]
  <2>1. rows \in Schema!Update /\ rows.edited = {}
    BY <1>2, SchemaBounds DEF ReadOk, Schema!Update
  <2> HIDE DEF rows
  <2>2. shown = ui \/ shown = [ui EXCEPT !.rows = rows]
    BY DEF Schema!PartCame, rows
  <2> HIDE DEF shown
  <2> QED BY <1>0, <2>1, <2>2 DEF Keeps, SchemaFields
<1> HIDE DEF shown
<1>6. shown.reads = ui.reads /\ DOMAIN shown = SchemaFields
  BY <1>0, <1>5 DEF Keeps, SchemaFields
<1>7. came = [shown EXCEPT !.reads = reads]
  BY <1>6 DEF Schema!WithoutPart, SchemaFields
<1>8. ui' = Schema!PartRejected(ui, read, part) =>
         ui' = [ui EXCEPT !.lost = TRUE,
                          !.reads = Schema!Reduced(@, read, [read EXCEPT !.left = @ \ {part},
                                                                       !.failed = TRUE])]
  BY DEF Schema!PartRejected
<1> HIDE DEF came, rest, reads
<1>9. Keeps(came, ui, {"rows", "reads"}) /\ came.reads = reads /\ came.rows = shown.rows
  BY <1>0, <1>5, <1>6, <1>7 DEF Keeps, SchemaFields
<1>10. CASE ui' = Schema!PartRejected(ui, read, part)
  <2> DEFINE failed == [read EXCEPT !.left = @ \ {part}, !.failed = TRUE]
             left == Schema!Reduced(ui.reads, read, failed)
  <2>1. ReadOk(failed, TRUE)
    BY <1>2 DEF ReadOk
  <2>2. Counted(left) /\ ReadsLeft(left, read, failed)
    BY <1>0, ReadReduced, ReadsAreLeft DEF ReadsOk
  <2>3. ui' = [ui EXCEPT !.lost = TRUE, !.reads = left]
    BY <1>8, <1>10
  <2> HIDE DEF failed, left
  <2>4. Keeps(ui', ui, {"lost", "reads"}) /\ ui'.reads = left /\ ui'.lost
    BY <1>0, <2>3 DEF Keeps, SchemaFields
  <2>5. \A r \in left : ReadOk(r, TRUE)
    <3>1. \A r \in ui.reads : ReadOk(r, TRUE)
      BY <1>0 DEF ReadsOk, ReadOk
    <3> QED BY <2>1, <2>2, <3>1 DEF ReadsLeft
  <2>6. \A r \in left : ReadOk(r, ui'.lost)
    BY <2>4, <2>5 DEF ReadOk
  <2>7. HeadOk(ui') /\ ColumnsOk(ui')
    BY <1>0, <2>4 DEF HeadOk, ColumnsOk, Keeps, SchemaFields, HeadFields
  <2> QED BY <1>0, <2>2, <2>4, <2>6, <2>7 DEF SchemaInv, ReadsOk, Keeps, SchemaFields
<1>11. ASSUME Keeps(ui', ui, {"rows", "reads", "loading", "saveLoading"}), ui'.rows = shown.rows,
              ui'.reads = reads
       PROVE  /\ DOMAIN ui' = SchemaFields /\ HeadOk(ui') /\ ColumnsOk(ui')
              /\ Counted(ui'.reads) /\ \A r \in ui'.reads : ReadOk(r, ui'.lost)
  <2>1. ui'.lost = ui.lost
    BY <1>0, <1>11 DEF Keeps, SchemaFields
  <2>2. \A r \in reads : ReadOk(r, ui.lost)
    BY <1>0, <1>3, <1>4 DEF ReadsLeft, ReadsOk
  <2>3. DOMAIN ui' = SchemaFields /\ HeadOk(ui')
    BY <1>0, <1>11 DEF HeadOk, Keeps, SchemaFields, HeadFields
  <2>4. ColumnsOk(ui')
    BY <1>0, <1>5, <1>11 DEF ColumnsOk, Keeps, SchemaFields
  <2> QED BY <1>4, <1>11, <2>1, <2>2, <2>3, <2>4
<1>12. CASE read.left = {part} /\ ~read.failed /\ ui' = Schema!ReadEnded(came, read)
  <2>1. /\ Keeps(ui', came, {"loading", "saveLoading"}) /\ ~ui'.saveLoading
        /\ ui'.loading => came.loading /\ ~read.mounted
    BY <1>0, <1>9, <1>12 DEF Schema!ReadEnded, Keeps, SchemaFields
  <2>2. /\ Keeps(ui', ui, {"rows", "reads", "loading", "saveLoading"})
        /\ ui'.reads = reads /\ ui'.rows = shown.rows /\ ui'.lost = ui.lost
        /\ ui'.loading => ui.loading /\ ~read.mounted
    BY <1>0, <1>9, <2>1 DEF Keeps, SchemaFields
  <2>3. reads = ui.reads \ {read}
    BY <1>3, <1>4, <1>12 DEF ReadsLeft
  <2> QED BY <1>0, <1>11, <2>1, <2>2, <2>3 DEF SchemaInv, ReadsOk
<1>13. CASE ~(read.left = {part} /\ ~read.failed) /\ ui' = came
  <2>1. ui'.lost = ui.lost /\ ui'.loading = ui.loading /\ ui'.saveLoading = ui.saveLoading
        /\ ui'.saves = ui.saves /\ Keeps(ui', ui, {"rows", "reads", "loading", "saveLoading"})
    BY <1>0, <1>9, <1>13 DEF Keeps, SchemaFields
  <2>2. CASE read.failed
    <3>1. ui.lost
      BY <1>2, <2>2 DEF ReadOk
    <3> QED BY <1>9, <1>11, <1>13, <2>1, <3>1 DEF SchemaInv, ReadsOk
  <2>3. CASE read.left # {part}
    <3>1. rest.left # {}
      BY <1>3, <2>3
    <3>2. reads = (ui.reads \ {read}) \cup {rest}
      BY <1>4, <3>1 DEF ReadsLeft
    <3> QED BY <1>0, <1>3, <1>9, <1>11, <1>13, <2>1, <3>2 DEF SchemaInv, ReadsOk
  <2> QED BY <1>13, <2>2, <2>3
<1> QED BY <1>1, <1>10, <1>12, <1>13

LEMMA SchemaStep == SchemaInv(ui) /\ Schema!SchemaNext => SchemaInv(ui') \/ ui' = Schema!Closed
<1> SUFFICES ASSUME SchemaInv(ui), Schema!SchemaNext
             PROVE  SchemaInv(ui') \/ ui' = Schema!Closed
  OBVIOUS
<1>0. DOMAIN ui = SchemaFields /\ HeadOk(ui) /\ ColumnsOk(ui) /\ ReadsOk(ui)
  BY DEF SchemaInv
<1>1. CASE Schema!ChangePage
  <2> PICK page \in 1 .. ColumnPages : ui' = Schema!GetPageData([ui EXCEPT !.page = page])
    BY <1>1 DEF Schema!ChangePage
  <2> DEFINE u == [ui EXCEPT !.page = page]
  <2>1. Keeps(u, ui, {"tab", "page", "rows", "loading"}) /\ u.page = page /\ u.tab = ui.tab
        /\ u.rows = ui.rows
    BY <1>0 DEF Keeps, SchemaFields
  <2>2. Cardinality(ui.reads) < MaxReads
    BY <1>1, SameCardinality DEF Schema!ChangePage, Schema!CanRead
  <2>3. ui' = Schema!GetPageData(u)
    OBVIOUS
  <2> HIDE DEF u
  <2> QED BY <1>0, <2>1, <2>2, <2>3, ColumnsRead DEF ColumnsOk
<1>2. ASSUME NEW tab \in Schema!Tabs,
             ui' = [ui EXCEPT !.tab = tab, !.rows = Schema!NoUpdate, !.loading = FALSE,
                              !.reads = Schema!Unmounted(@)]
      PROVE  SchemaInv(ui')
  <2> DEFINE reads == Schema!Unmounted(ui.reads)
  <2>1. Counted(reads)
    BY <1>0, ReadsUnmounted DEF ReadsOk
  <2>2. \A read \in reads : ReadOk(read, ui.lost)
    BY <1>0 DEF ReadsOk, ReadOk, Schema!Unmounted
  <2>3. ui.reads # {} => reads # {}
    BY DEF Schema!Unmounted
  <2> HIDE DEF reads
  <2>4. /\ Keeps(ui', ui, {"tab", "rows", "loading", "reads"}) /\ ~ui'.loading
        /\ ui'.tab = tab /\ ui'.rows = Schema!NoUpdate /\ ui'.reads = reads
    BY <1>0, <1>2 DEF reads, Keeps, SchemaFields
  <2>5. HeadOk(ui') /\ ColumnsOk(ui')
    BY <1>0, <2>4, NoUpdateOk DEF HeadOk, ColumnsOk, Keeps, SchemaFields, HeadFields
  <2> QED BY <1>0, <2>1, <2>2, <2>3, <2>4, <2>5 DEF SchemaInv, ReadsOk, Keeps, SchemaFields
<1>3. ASSUME Cardinality(ui.reads) < MaxReads, ui' = Schema!SchemaOpened(ui)
      PROVE  SchemaInv(ui')
  <2> DEFINE u == [ui EXCEPT !.tab = "schema", !.page = 1, !.rows = Schema!NoUpdate,
                             !.loading = FALSE]
  <2>1. /\ Keeps(u, ui, {"tab", "page", "rows", "loading"}) /\ u.page = 1 /\ u.tab = "schema"
        /\ u.rows = Schema!NoUpdate
    BY <1>0 DEF Keeps, SchemaFields
  <2>2. ui' = Schema!GetPageData(u)
    BY <1>3 DEF Schema!SchemaOpened
  <2>3. 1 \in 1 .. ColumnPages /\ "schema" \in Schema!Tabs
    BY SchemaBounds DEF Schema!Tabs
  <2> HIDE DEF u
  <2> QED BY <1>3, <2>1, <2>2, <2>3, ColumnsRead
<1>4. CASE Schema!ChangeTab
  <2>1. Schema!CanRead => Cardinality(ui.reads) < MaxReads
    BY SameCardinality DEF Schema!CanRead
  <2> QED BY <1>2, <1>3, <1>4, <2>1 DEF Schema!ChangeTab
<1>5. CASE Schema!ClickEditIcon
  <2>1. Keeps(ui', ui, {"saveDisabled"})
    BY <1>0, <1>5 DEF Schema!ClickEditIcon, Keeps, SchemaFields
  <2> QED BY <1>0, <2>1
          DEF SchemaInv, HeadOk, ColumnsOk, ReadsOk, Keeps, SchemaFields, HeadFields
<1>6. CASE Schema!UpdateSelectChange
  <2> PICK column \in Schema!Columns : ui' = Schema!Edited(ui, column)
    BY <1>6 DEF Schema!UpdateSelectChange
  <2> DEFINE rows == [ui.rows EXCEPT !.edited = @ \cup {column}]
  <2>1. rows \in Schema!Update
    BY <1>0 DEF ColumnsOk, Schema!Update
  <2> HIDE DEF rows
  <2>2. Keeps(ui', ui, {"rows", "update"}) /\ ui'.rows = rows /\ ui'.update = rows
    BY <1>0 DEF Schema!Edited, rows, Keeps, SchemaFields
  <2> QED BY <1>0, <2>1, <2>2
          DEF SchemaInv, HeadOk, ColumnsOk, ReadsOk, Keeps, SchemaFields, HeadFields
<1>7. CASE Schema!ClickSave
  <2>1. Keeps(ui', ui, {"saveLoading", "saves"}) /\ ui'.saves = ui.saves \cup {ui.update}
    BY <1>0, <1>7 DEF Schema!ClickSave, Keeps, SchemaFields
  <2> QED BY <1>0, <2>1
          DEF SchemaInv, HeadOk, ColumnsOk, ReadsOk, Keeps, SchemaFields, HeadFields
<1>8. CASE Schema!SaveAnswered \/ Schema!Cancel
  BY <1>8 DEF Schema!SaveAnswered, Schema!Cancel
<1> QED BY <1>1, <1>4, <1>5, <1>6, <1>7, <1>8, HeadStep, PartStep DEF Schema!SchemaNext

LEMMA SchemaHolds ==
    ASSUME Schema!Here => SchemaInv(ui)
    PROVE  /\ Schema!TypeOK /\ Schema!SavesWhatIsEdited /\ Schema!WaitsForSomething
           /\ Schema!PrivacyIsKept
<1>1. Schema!TypeOK
  BY SameCardinality
     DEF SchemaInv, HeadOk, ColumnsOk, ReadsOk, Counted, Schema!TypeOK, Schema!RowType
<1>2. Schema!SavesWhatIsEdited
  BY DEF SchemaInv, ColumnsOk, Schema!SavesWhatIsEdited, Schema!Edit
<1>3. Schema!WaitsForSomething
  BY DEF SchemaInv, ReadsOk, Schema!WaitsForSomething
<1>4. Schema!PrivacyIsKept
  BY DEF SchemaInv, HeadOk, Schema!PrivacyIsKept, Schema!PrivacyShown
<1> QED BY <1>1, <1>2, <1>3, <1>4

-----------------------------------------------------------------------------
(***************************************************************************)
(* The labels of a database or of a table.                                 *)
(***************************************************************************)
LabelFields ==
    {"shown", "defaults", "exists", "list", "read", "search", "fresh", "reads", "loading", "lost",
     "selected", "mode", "dialog", "apart", "current", "updating", "deleting", "saving"}

LabelTypes(u) ==
    /\ u.selected \subseteq Labels!Labels /\ u.list \subseteq Labels!Labels
    /\ u.exists \subseteq Labels!Labels /\ u.defaults \subseteq Labels!Labels
    /\ u.deleting \subseteq Labels!Labels /\ u.current \in Labels!Labels \cup {Labels!New}
    /\ u.search \subseteq Labels!Labels /\ u.apart \in BOOLEAN /\ u.fresh \in BOOLEAN

\* The newest read, and the list it gave, have what there is.
ListKnown(u) ==
    /\ \A read \in u.reads :
          /\ DOMAIN read = {"search", "labels", "newest"}
          /\ read.labels \subseteq Labels!Labels /\ read.newest \in BOOLEAN
          /\ read.newest => read.labels = u.exists \cap read.search
    /\ u.fresh => u.list = u.exists \cap u.read
    /\ u.loading => u.reads # {} \/ u.lost

\* The current label is the one that is ticked alone.
TickedIsCurrent(u) ==
    \/ u.apart
    \/ /\ \A label \in Labels!Labels : u.selected = {label} => u.current = label
       /\ u.dialog = "label" /\ u.mode = "update" => u.selected = {u.current}

\* The button of an empty list finds no label of an earlier list to be renamed.
EmptyIsApart(u) == u.shown => u.apart \/ u.list # {} \/ u.loading

LabelInv(u) ==
    /\ DOMAIN u = LabelFields /\ LabelTypes(u) /\ ListKnown(u)
    /\ TickedIsCurrent(u) /\ EmptyIsApart(u)

LEMMA LabelsMounted == LabelInv(Labels!Mounted({"a"}))
<1> DEFINE u == Labels!Mounted({"a"})
<1>1. (CHOOSE label \in {"a"} : TRUE) = "a"
  OBVIOUS
<1>2. {"a"} # {}
  OBVIOUS
<1>3. u.current = "a"
  BY <1>1, <1>2 DEF Labels!Mounted
<1>4. /\ DOMAIN u = LabelFields /\ u.selected = {"a"} /\ u.list = {} /\ u.exists = Labels!Labels
      /\ u.defaults = {"a"} /\ u.deleting = {} /\ u.search = Labels!Labels
      /\ u.apart \in BOOLEAN /\ u.fresh \in BOOLEAN /\ u.reads = {} /\ ~u.fresh /\ ~u.loading
      /\ ~u.shown /\ u.dialog = "none"
  BY DEF Labels!Mounted, Labels!NoDialog, LabelFields
<1> HIDE DEF u
<1>5. LabelInv(u)
  BY <1>3, <1>4 DEF LabelInv, LabelTypes, ListKnown, TickedIsCurrent, EmptyIsApart,
                         Labels!Labels
<1> QED BY <1>5 DEF u

LEMMA OneLabel ==
    ASSUME NEW selected, selected \subseteq Labels!Labels
    PROVE  Labels!Cardinality(selected) = 1 <=> \E label : selected = {label}
<1>1. \A S : Labels!Cardinality(S) = Cardinality(S)
  BY DEF Labels!Cardinality, Cardinality
<1>2. IsFiniteSet({"a"} \cup {"b"})
  BY FS_Singleton, FS_AddElement
<1>3. selected \subseteq {"a"} \cup {"b"}
  BY DEF Labels!Labels
<1>4. IsFiniteSet(selected)
  BY <1>2, <1>3, FS_Subset
<1> QED BY <1>1, <1>4, FS_Singleton

LEMMA TheLabel == \A label : (CHOOSE other \in {label} : TRUE) = label
  OBVIOUS

\* The list is read anew: what was read before is old.
ListRead(v, u) ==
    /\ Keeps(v, u, {"loading", "fresh", "reads"}) /\ ~v.fresh /\ v.fresh \in BOOLEAN
    /\ v.loading /\ v.reads # {}
    /\ \A read \in v.reads :
          /\ DOMAIN read = {"search", "labels", "newest"} /\ read.newest \in BOOLEAN
          /\ \/ read.labels = u.exists \cap u.search /\ read.search = u.search
             \/ ~read.newest /\ \E old \in u.reads : read.labels = old.labels

LEMMA OldReads ==
    ASSUME NEW reads, \A read \in reads : DOMAIN read = {"search", "labels", "newest"}
    PROVE  \A read \in Labels!Outdated(reads) :
              /\ DOMAIN read = {"search", "labels", "newest"} /\ read.newest \in BOOLEAN
              /\ ~read.newest /\ \E old \in reads : read.labels = old.labels
  BY DEF Labels!Outdated

LEMMA LabelsRead ==
    ASSUME NEW u, DOMAIN u = LabelFields,
           \A read \in u.reads : DOMAIN read = {"search", "labels", "newest"}
    PROVE  ListRead(Labels!GetLabelsList(u), u)
<1> DEFINE new == [search |-> u.search, labels |-> u.exists \cap u.search, newest |-> TRUE]
           older == Labels!Outdated(u.reads)
           v == Labels!GetLabelsList(u)
<1>1. v = [u EXCEPT !.loading = TRUE, !.fresh = FALSE, !.reads = older \cup {new}]
  BY DEF Labels!GetLabelsList, LabelFields
<1>2. /\ DOMAIN new = {"search", "labels", "newest"} /\ new.newest \in BOOLEAN
      /\ new.labels = u.exists \cap u.search /\ new.search = u.search
  OBVIOUS
<1>3. \A read \in older :
         /\ DOMAIN read = {"search", "labels", "newest"} /\ read.newest \in BOOLEAN
         /\ ~read.newest /\ \E old \in u.reads : read.labels = old.labels
  BY OldReads
<1> HIDE DEF new, older, v
<1>4. /\ Keeps(v, u, {"loading", "fresh", "reads"}) /\ ~v.fresh /\ v.fresh \in BOOLEAN
      /\ v.loading /\ v.reads = older \cup {new}
  BY <1>1 DEF Keeps, LabelFields
<1>5. ListRead(v, u)
  BY <1>2, <1>3, <1>4 DEF ListRead
<1> QED BY <1>5 DEF v

\* What a read of the list preserves: no row is shown until it is answered.
LEMMA ListReadOk ==
    ASSUME NEW u, DOMAIN u = LabelFields, LabelTypes(u), TickedIsCurrent(u),
           \A read \in u.reads : /\ DOMAIN read = {"search", "labels", "newest"}
                                 /\ read.labels \subseteq Labels!Labels
    PROVE  LabelInv(Labels!GetLabelsList(u))
<1> DEFINE v == Labels!GetLabelsList(u)
<1>1. ListRead(v, u)
  BY LabelsRead
<1> HIDE DEF v
<1>2. DOMAIN v = LabelFields /\ v.exists = u.exists
  BY <1>1 DEF ListRead, Keeps, LabelFields
<1>3. LabelTypes(v) /\ TickedIsCurrent(v) /\ EmptyIsApart(v)
  BY <1>1 DEF LabelTypes, TickedIsCurrent, EmptyIsApart, ListRead, Keeps, LabelFields
<1>4. \A read \in v.reads :
         /\ DOMAIN read = {"search", "labels", "newest"}
         /\ read.labels \subseteq Labels!Labels /\ read.newest \in BOOLEAN
         /\ read.newest => read.labels = v.exists \cap read.search
  BY <1>1, <1>2 DEF ListRead, LabelTypes
<1>5. ListKnown(v)
  BY <1>1, <1>4 DEF ListKnown, ListRead
<1>6. LabelInv(v)
  BY <1>2, <1>3, <1>5 DEF LabelInv
<1> QED BY <1>6 DEF v

LEMMA LabelsStep == LabelInv(ui) /\ Labels!LabelsNext => LabelInv(ui')
<1> SUFFICES ASSUME LabelInv(ui), Labels!LabelsNext PROVE LabelInv(ui')
  OBVIOUS
<1>0. /\ DOMAIN ui = LabelFields /\ LabelTypes(ui) /\ ListKnown(ui)
      /\ TickedIsCurrent(ui) /\ EmptyIsApart(ui)
  BY DEF LabelInv
<1>r. \A read \in ui.reads : /\ DOMAIN read = {"search", "labels", "newest"}
                              /\ read.labels \subseteq Labels!Labels
  BY <1>0 DEF ListKnown
<1> USE DEF Labels!Free, Labels!NoDialog
<1>1. ASSUME NEW result, Labels!ListAnswered(result) PROVE LabelInv(ui')
  <2> PICK read \in ui.reads :
        ui' = IF result = "resolved" THEN Labels!ListCame(ui, read)
              ELSE [ui EXCEPT !.reads = @ \ {read}, !.lost = TRUE]
    BY <1>1 DEF Labels!ListAnswered
  <2>1. CASE ui' = Labels!ListCame(ui, read)
    <3>1. /\ Keeps(ui', ui, {"reads", "loading", "lost", "list", "read", "fresh", "selected", "apart"})
          /\ ui'.reads = ui.reads \ {read} /\ ~ui'.loading /\ ui'.list = read.labels
          /\ ui'.read = read.search /\ ui'.fresh = read.newest
          /\ ui'.selected = read.labels \cap ui.defaults /\ ui'.apart /\ ui'.apart \in BOOLEAN
      BY <1>0, <2>1 DEF Labels!ListCame, Keeps, LabelFields
    <3>2. ui'.exists = ui.exists /\ DOMAIN ui' = LabelFields
      BY <1>0, <3>1 DEF Keeps, LabelFields
    <3>3. LabelTypes(ui')
      BY <1>0, <3>1 DEF LabelTypes, ListKnown, Keeps, LabelFields
    <3>4. ListKnown(ui') /\ TickedIsCurrent(ui') /\ EmptyIsApart(ui')
      BY <1>0, <3>1, <3>2 DEF ListKnown, TickedIsCurrent, EmptyIsApart
    <3> QED BY <3>2, <3>3, <3>4 DEF LabelInv
  <2>2. CASE ui' = [ui EXCEPT !.reads = @ \ {read}, !.lost = TRUE]
    <3>1. Keeps(ui', ui, {"reads", "lost"}) /\ ui'.reads = ui.reads \ {read} /\ ui'.lost
      BY <1>0, <2>2 DEF Keeps, LabelFields
    <3> QED BY <1>0, <3>1
            DEF LabelInv, LabelTypes, ListKnown, TickedIsCurrent, EmptyIsApart, Keeps, LabelFields
  <2> QED BY <2>1, <2>2
<1>2. CASE Labels!Show
  <2> DEFINE u == [ui EXCEPT !.shown = TRUE]
  <2>1. Keeps(u, ui, {"shown"}) /\ ui' = Labels!GetLabelsList(u)
    BY <1>0, <1>2 DEF Labels!Show, Keeps, LabelFields
  <2> HIDE DEF u
  <2>2. /\ DOMAIN u = LabelFields /\ u.reads = ui.reads
        /\ LabelTypes(u) /\ TickedIsCurrent(u)
    BY <1>0, <2>1 DEF LabelTypes, TickedIsCurrent, Keeps, LabelFields
  <2> QED BY <1>r, <2>1, <2>2, ListReadOk
<1>3. CASE Labels!Cancel
  <2>1. /\ Keeps(ui', ui, {"shown", "selected", "search", "apart"}) /\ ui'.selected = {}
        /\ ui'.search = Labels!Labels /\ ui'.apart /\ ui'.apart \in BOOLEAN
    BY <1>0, <1>3 DEF Labels!Cancel, Labels!Hidden, Keeps, LabelFields
  <2> QED BY <1>0, <2>1
          DEF LabelInv, LabelTypes, ListKnown, TickedIsCurrent, EmptyIsApart, Keeps, LabelFields
<1>4. CASE Labels!Search
  <2> PICK search \in Labels!Searches : ui' = [ui EXCEPT !.search = search]
    BY <1>4 DEF Labels!Search
  <2>1. Keeps(ui', ui, {"search"}) /\ ui'.search = search /\ search \subseteq Labels!Labels
    BY <1>0 DEF Labels!Searches, Labels!Labels, Keeps, LabelFields
  <2> QED BY <1>0, <2>1
          DEF LabelInv, LabelTypes, ListKnown, TickedIsCurrent, EmptyIsApart, Keeps, LabelFields
<1>5. CASE Labels!Tick
  <2> PICK label \in Labels!Rows(ui) :
        ui' = Labels!Ticked(ui, IF label \in ui.selected THEN ui.selected \ {label}
                                                         ELSE ui.selected \cup {label})
    BY <1>5 DEF Labels!Tick
  <2> DEFINE selected == IF label \in ui.selected THEN ui.selected \ {label}
                                                  ELSE ui.selected \cup {label}
  <2>1. label \in ui.list /\ ui.dialog = "none"
    BY <1>5 DEF Labels!Rows, Labels!Tick
  <2>2. selected \subseteq Labels!Labels
    BY <1>0, <2>1 DEF LabelTypes
  <2>3. ui' = Labels!Ticked(ui, selected)
    OBVIOUS
  <2> HIDE DEF selected
  <2>4. /\ Keeps(ui', ui, {"selected", "apart", "current"}) /\ ui'.selected = selected
        /\ ui'.apart \in BOOLEAN
        /\ ui'.current = IF Labels!Cardinality(selected) = 1
                         THEN CHOOSE other \in selected : TRUE ELSE ui.current
    BY <1>0, <2>3 DEF Labels!Ticked, Keeps, LabelFields
  <2>5. \A other : selected = {other} => ui'.current = other
    BY <2>2, <2>4, OneLabel, TheLabel
  <2>6. ui'.current \in Labels!Labels \cup {Labels!New}
    <3>1. CASE Labels!Cardinality(selected) = 1
      BY <2>2, <2>5, <3>1, OneLabel
    <3>2. CASE Labels!Cardinality(selected) # 1
      BY <1>0, <2>4, <3>2 DEF LabelTypes
    <3> QED BY <3>1, <3>2
  <2>7. LabelTypes(ui') /\ ListKnown(ui') /\ DOMAIN ui' = LabelFields
    BY <1>0, <2>2, <2>4, <2>6 DEF LabelTypes, ListKnown, Keeps, LabelFields
  <2>8. TickedIsCurrent(ui') /\ EmptyIsApart(ui')
    BY <1>0, <2>1, <2>4, <2>5 DEF TickedIsCurrent, EmptyIsApart, Keeps, LabelFields
  <2> QED BY <2>7, <2>8 DEF LabelInv
<1>6. CASE Labels!CreateClicked
  <2>1. /\ Keeps(ui', ui, {"mode", "current", "apart", "dialog"}) /\ ui'.apart
        /\ ui'.apart \in BOOLEAN /\ ui'.current = Labels!New
    BY <1>0, <1>6 DEF Labels!CreateClicked, Keeps, LabelFields
  <2> QED BY <1>0, <2>1
          DEF LabelInv, LabelTypes, ListKnown, TickedIsCurrent, EmptyIsApart, Keeps, LabelFields
<1>7. CASE Labels!EmptyCreateClicked
  <2>1. Keeps(ui', ui, {"dialog"}) /\ ~ui.loading /\ ui.list \cap ui.search = {}
        /\ ui.search = Labels!Labels
    BY <1>0, <1>7 DEF Labels!EmptyCreateClicked, Labels!Rows, Keeps, LabelFields
  <2>2. ui.list = {}
    BY <1>0, <2>1 DEF LabelTypes
  <2>3. ui.apart
    BY <1>0, <1>7, <2>1, <2>2 DEF EmptyIsApart, Labels!EmptyCreateClicked
  <2> QED BY <1>0, <2>1, <2>3
          DEF LabelInv, LabelTypes, ListKnown, TickedIsCurrent, EmptyIsApart, Keeps, LabelFields
<1>8. CASE Labels!EditClicked
  <2>1. /\ Keeps(ui', ui, {"mode", "dialog"}) /\ Labels!Cardinality(ui.selected) = 1
        /\ ui'.mode = "update"
    BY <1>0, <1>8 DEF Labels!EditClicked, Keeps, LabelFields
  <2>2. PICK label : ui.selected = {label}
    BY <1>0, <2>1, OneLabel DEF LabelTypes
  <2>3. LabelTypes(ui') /\ ListKnown(ui') /\ EmptyIsApart(ui') /\ DOMAIN ui' = LabelFields
    BY <1>0, <2>1 DEF LabelTypes, ListKnown, EmptyIsApart, Keeps, LabelFields
  <2>4. label \in Labels!Labels
    BY <1>0, <2>2 DEF LabelTypes
  <2>5. TickedIsCurrent(ui')
    BY <1>0, <2>1, <2>2, <2>4 DEF TickedIsCurrent, Keeps, LabelFields
  <2> QED BY <2>3, <2>5 DEF LabelInv
<1>9. CASE Labels!DeleteClicked
  <2>1. Keeps(ui', ui, {"dialog"}) /\ ui'.dialog = "delete"
    BY <1>0, <1>9 DEF Labels!DeleteClicked, Keeps, LabelFields
  <2> QED BY <1>0, <2>1
          DEF LabelInv, LabelTypes, ListKnown, TickedIsCurrent, EmptyIsApart, Keeps, LabelFields
<1>10. CASE Labels!CancelDialog
  <2>1. Keeps(ui', ui, {"dialog"}) /\ ui'.dialog = "none"
    BY <1>0, <1>10 DEF Labels!CancelDialog, Keeps, LabelFields
  <2> QED BY <1>0, <2>1
          DEF LabelInv, LabelTypes, ListKnown, TickedIsCurrent, EmptyIsApart, Keeps, LabelFields
<1>11. CASE Labels!SubmitLabel
  <2>1. Keeps(ui', ui, {"updating"})
    BY <1>0, <1>11 DEF Labels!SubmitLabel, Keeps, LabelFields
  <2> QED BY <1>0, <2>1
          DEF LabelInv, LabelTypes, ListKnown, TickedIsCurrent, EmptyIsApart, Keeps, LabelFields
<1>12. ASSUME NEW result, Labels!LabelAnswered(result) PROVE LabelInv(ui')
  <2>1. CASE ui' = [ui EXCEPT !.updating = FALSE]
    <3>1. Keeps(ui', ui, {"updating"})
      BY <1>0, <2>1 DEF Keeps, LabelFields
    <3> QED BY <1>0, <3>1
            DEF LabelInv, LabelTypes, ListKnown, TickedIsCurrent, EmptyIsApart, Keeps, LabelFields
  <2>2. ASSUME NEW u \in Labels!Created(ui) \cup {ui},
               ui' = Labels!GetLabelsList([u EXCEPT !.updating = FALSE, !.dialog = "none"])
        PROVE  LabelInv(ui')
    <3> DEFINE w == [u EXCEPT !.updating = FALSE, !.dialog = "none"]
    <3>1. /\ DOMAIN u = LabelFields /\ u.reads = ui.reads
          /\ LabelTypes(u) /\ (u.apart \/ TickedIsCurrent(u))
      <4>1. CASE u = ui
        BY <1>0, <4>1
      <4>2. CASE u \in Labels!Created(ui)
        <5> PICK label \in Labels!Labels :
              u = [ui EXCEPT !.exists = @ \cup {label}, !.current = Labels!New, !.apart = TRUE]
          BY <4>2 DEF Labels!Created
        <5>1. /\ Keeps(u, ui, {"exists", "current", "apart"}) /\ u.apart /\ u.apart \in BOOLEAN
              /\ u.exists = ui.exists \cup {label} /\ u.current = Labels!New
          BY <1>0 DEF Keeps, LabelFields
        <5> QED BY <1>0, <5>1 DEF LabelTypes, Keeps, LabelFields
      <4> QED BY <2>2, <4>1, <4>2
    <3>2. Keeps(w, u, {"updating", "dialog"}) /\ w.dialog = "none"
      BY <3>1 DEF Keeps, LabelFields
    <3>3. ui' = Labels!GetLabelsList(w)
      BY <2>2
    <3> HIDE DEF w
    <3>4. /\ DOMAIN w = LabelFields /\ w.reads = ui.reads
          /\ LabelTypes(w) /\ TickedIsCurrent(w)
      BY <3>1, <3>2 DEF LabelTypes, TickedIsCurrent, Keeps, LabelFields
    <3> QED BY <1>r, <3>3, <3>4, ListReadOk
  <2> QED BY <1>12, <2>1, <2>2 DEF Labels!LabelAnswered
<1>13. CASE Labels!ConfirmDelete
  <2>1. Keeps(ui', ui, {"deleting"}) /\ ui'.deleting = ui.selected
    BY <1>0, <1>13 DEF Labels!ConfirmDelete, Keeps, LabelFields
  <2> QED BY <1>0, <2>1
          DEF LabelInv, LabelTypes, ListKnown, TickedIsCurrent, EmptyIsApart, Keeps, LabelFields
<1>14. ASSUME NEW result, Labels!DeleteAnswered(result) PROVE LabelInv(ui')
  <2>1. CASE ui' = Labels!Deleted(ui)
    <3> DEFINE w == [ui EXCEPT !.exists = @ \ ui.deleting, !.deleting = {}, !.selected = {},
                               !.apart = TRUE, !.dialog = "none"]
    <3>1. /\ Keeps(w, ui, {"exists", "deleting", "selected", "apart", "dialog"})
          /\ w.exists = ui.exists \ ui.deleting /\ w.deleting = {} /\ w.selected = {}
          /\ w.apart /\ w.apart \in BOOLEAN
      BY <1>0 DEF Keeps, LabelFields
    <3>2. ui' = Labels!GetLabelsList(w)
      BY <2>1 DEF Labels!Deleted
    <3> HIDE DEF w
    <3>3. /\ DOMAIN w = LabelFields /\ w.reads = ui.reads
          /\ LabelTypes(w) /\ TickedIsCurrent(w)
      BY <1>0, <3>1 DEF LabelTypes, TickedIsCurrent, Keeps, LabelFields
    <3> QED BY <1>r, <3>2, <3>3, ListReadOk
  <2>2. CASE ui' = [ui EXCEPT !.deleting = {}]
    <3>1. Keeps(ui', ui, {"deleting"}) /\ ui'.deleting = {}
      BY <1>0, <2>2 DEF Keeps, LabelFields
    <3> QED BY <1>0, <3>1
            DEF LabelInv, LabelTypes, ListKnown, TickedIsCurrent, EmptyIsApart, Keeps, LabelFields
  <2>3. CASE ui' = [ui EXCEPT !.deleting = {}, !.exists = @ \ ui.deleting,
                              !.fresh = FALSE, !.reads = Labels!Outdated(@)]
    <3>1. /\ Keeps(ui', ui, {"deleting", "exists", "fresh", "reads"}) /\ ui'.deleting = {}
          /\ ui'.exists = ui.exists \ ui.deleting /\ ~ui'.fresh /\ ui'.fresh \in BOOLEAN
          /\ ui'.reads = Labels!Outdated(ui.reads)
      BY <1>0, <2>3 DEF Keeps, LabelFields
    <3>2. \A read \in ui'.reads :
             /\ DOMAIN read = {"search", "labels", "newest"} /\ read.newest \in BOOLEAN
             /\ ~read.newest /\ \E old \in ui.reads : read.labels = old.labels
      BY <1>r, <3>1, OldReads
    <3>3. ui.reads # {} => ui'.reads # {}
      BY <3>1 DEF Labels!Outdated
    <3>4. ListKnown(ui')
      <4>1. ui'.loading = ui.loading /\ ui'.lost = ui.lost
        BY <1>0, <3>1 DEF Keeps, LabelFields
      <4>2. \A read \in ui'.reads : read.labels \subseteq Labels!Labels
        BY <1>r, <3>2
      <4> QED BY <1>0, <3>1, <3>2, <3>3, <4>1, <4>2 DEF ListKnown
    <3>5. LabelTypes(ui') /\ TickedIsCurrent(ui') /\ EmptyIsApart(ui') /\ DOMAIN ui' = LabelFields
      BY <1>0, <3>1 DEF LabelTypes, TickedIsCurrent, EmptyIsApart, Keeps, LabelFields
    <3> QED BY <3>4, <3>5 DEF LabelInv
  <2> QED BY <1>14, <2>1, <2>2, <2>3 DEF Labels!DeleteAnswered
<1>15. CASE Labels!Save
  <2>1. Keeps(ui', ui, {"saving"})
    BY <1>0, <1>15 DEF Labels!Save, Keeps, LabelFields
  <2> QED BY <1>0, <2>1
          DEF LabelInv, LabelTypes, ListKnown, TickedIsCurrent, EmptyIsApart, Keeps, LabelFields
<1>16. ASSUME NEW result, Labels!SaveAnswered(result) PROVE LabelInv(ui')
  <2>1. CASE ui' = [ui EXCEPT !.saving = FALSE]
    <3>1. Keeps(ui', ui, {"saving"})
      BY <1>0, <2>1 DEF Keeps, LabelFields
    <3> QED BY <1>0, <3>1
            DEF LabelInv, LabelTypes, ListKnown, TickedIsCurrent, EmptyIsApart, Keeps, LabelFields
  <2>2. CASE ui' = [Labels!Hidden(ui) EXCEPT !.saving = FALSE, !.defaults = ui.selected]
    <3>1. /\ Keeps(ui', ui, {"shown", "selected", "search", "apart", "saving", "defaults"})
          /\ ui'.selected = {} /\ ui'.search = Labels!Labels /\ ui'.apart
          /\ ui'.apart \in BOOLEAN /\ ui'.defaults = ui.selected
      BY <1>0, <2>2 DEF Labels!Hidden, Keeps, LabelFields
    <3> QED BY <1>0, <3>1
            DEF LabelInv, LabelTypes, ListKnown, TickedIsCurrent, EmptyIsApart, Keeps, LabelFields
  <2> QED BY <1>16, <2>1, <2>2 DEF Labels!SaveAnswered
<1> QED BY <1>1, <1>2, <1>3, <1>4, <1>5, <1>6, <1>7, <1>8, <1>9, <1>10, <1>11, <1>12,
           <1>13, <1>14, <1>15, <1>16 DEF Labels!LabelsNext

LEMMA LabelsHolds ==
    ASSUME Labels!Here => LabelInv(ui)
    PROVE  /\ Labels!TypeOK /\ Labels!RenamesWhatIsTicked /\ Labels!ShowsWhatExists
           /\ Labels!WaitsForSomething
<1>1. Labels!TypeOK
  BY DEF Labels!TypeOK, LabelInv, LabelTypes
<1>2. Labels!RenamesWhatIsTicked
  BY DEF Labels!RenamesWhatIsTicked, LabelInv, TickedIsCurrent
<1>3. Labels!ShowsWhatExists
  BY DEF Labels!ShowsWhatExists, LabelInv, LabelTypes, ListKnown
<1>4. Labels!WaitsForSomething
  BY DEF Labels!WaitsForSomething, LabelInv, ListKnown
<1> QED BY <1>1, <1>2, <1>3, <1>4

-----------------------------------------------------------------------------
(***************************************************************************)
(* The category or the label of an identifier.                             *)
(***************************************************************************)
PropFields ==
    {"shown", "type", "exists", "list", "fresh", "reads", "loading", "lost", "selected", "mode",
     "dialog", "apart", "current", "updating", "deleting", "row", "stored", "mangled", "saving",
     "dropped"}

PropTypes(u) ==
    /\ u.selected \subseteq Props!Props /\ u.list \subseteq Props!Props
    /\ u.exists \subseteq Props!Props /\ u.row \subseteq Props!Props
    /\ u.stored \subseteq Props!Props /\ u.type \in Props!Types
    /\ u.current \in Props!Props \cup {Props!New}
    /\ u.apart \in BOOLEAN /\ u.fresh \in BOOLEAN /\ u.mangled \in BOOLEAN

\* Of each kind, at most one property.
OneOfEach(props) ==
    \A p, q \in props : (p \in {"c1", "c2"} <=> q \in {"c1", "c2"}) => p = q

\* A read is of one kind; the newest one, and the list it gave, have what there is.
PropsKnown(u) ==
    /\ \A read \in u.reads :
          /\ DOMAIN read = {"type", "props", "newest"} /\ read.newest \in BOOLEAN
          /\ read.props \subseteq Props!Props
          /\ \A p, q \in read.props : p \in {"c1", "c2"} <=> q \in {"c1", "c2"}
          /\ read.newest => read.props = Props!OfType(u.type, u.exists)
    /\ u.fresh => u.list = Props!OfType(u.type, u.exists)
    /\ u.loading => u.reads # {} \/ u.lost

\* What is ticked is one property, and the current one.
PropTicked(u) ==
    /\ \A p, q \in u.selected : p = q
    /\ u.selected # {} => u.apart \/ u.selected = {u.current}

\* A row that is not of mere ids is as it is stored; the save of such a row takes
\* the property of the other kind along, and the kind stays until it is answered.
RowIsStored(u) ==
    /\ OneOfEach(u.row) /\ (~u.mangled => u.row = u.stored) /\ ~u.dropped
    /\ u.saving # "none" => u.shown
    /\ u.saving = "row" =>
          \A type \in Props!Types \ {u.type} : Props!OfType(type, u.stored) \subseteq u.row

PropsInv(u) ==
    /\ DOMAIN u = PropFields /\ PropTypes(u) /\ PropsKnown(u) /\ PropTicked(u) /\ RowIsStored(u)

LEMMA PropsMounted == PropsInv(Props!Mounted({"c1", "l1"}))
<1> DEFINE u == Props!Mounted({"c1", "l1"})
<1>1. /\ DOMAIN u = PropFields /\ u.selected = {} /\ u.list = {} /\ u.exists = {"c1", "l1"}
      /\ u.row = {"c1", "l1"} /\ u.stored = {"c1", "l1"} /\ u.type = "category"
      /\ u.current = Props!New /\ u.apart = FALSE /\ u.fresh = FALSE /\ u.mangled = FALSE
      /\ u.reads = {} /\ ~u.loading /\ ~u.dropped /\ u.saving = "none"
  BY DEF Props!Mounted, Props!NoDialog, PropFields
<1> HIDE DEF u
<1>2. PropTypes(u)
  BY <1>1 DEF PropTypes, Props!Props, Props!Types
<1>3. PropsInv(u)
  BY <1>1, <1>2 DEF PropsInv, PropsKnown, PropTicked, RowIsStored, OneOfEach
<1> QED BY <1>3 DEF u

LEMMA PropsOfType ==
    ASSUME NEW type, NEW props
    PROVE  /\ Props!OfType(type, props) \subseteq props
           /\ \A p, q \in Props!OfType(type, props) : p \in {"c1", "c2"} <=> q \in {"c1", "c2"}
  BY DEF Props!OfType

LEMMA OneProp ==
    ASSUME NEW found, found # {}, \A p, q \in found : p = q
    PROVE  found = {CHOOSE p \in found : TRUE}
  OBVIOUS

\* The list is emptied and read anew: what was read before is old.
LEMMA PropsReadOk ==
    ASSUME NEW u, DOMAIN u = PropFields, PropTypes(u), PropTicked(u), RowIsStored(u),
           \A read \in u.reads :
              /\ DOMAIN read = {"type", "props", "newest"} /\ read.props \subseteq Props!Props
              /\ \A p, q \in read.props : p \in {"c1", "c2"} <=> q \in {"c1", "c2"}
    PROVE  PropsInv(Props!GetPropsList(u))
<1> DEFINE new == [type |-> u.type, props |-> Props!OfType(u.type, u.exists), newest |-> TRUE]
           older == {[r EXCEPT !.newest = FALSE] : r \in u.reads}
           v == Props!GetPropsList(u)
<1>1. v = [u EXCEPT !.list = {}, !.loading = TRUE, !.fresh = FALSE,
                    !.reads = older \cup {new}]
  BY DEF Props!GetPropsList, PropFields
<1>2. /\ DOMAIN new = {"type", "props", "newest"} /\ new.newest \in BOOLEAN
      /\ new.props = Props!OfType(u.type, u.exists)
  OBVIOUS
<1>3. \A read \in older :
         /\ DOMAIN read = {"type", "props", "newest"} /\ read.newest \in BOOLEAN
         /\ ~read.newest /\ \E old \in u.reads : read.props = old.props
  OBVIOUS
<1> HIDE DEF new, older, v
<1>4. /\ Keeps(v, u, {"list", "loading", "fresh", "reads"}) /\ ~v.fresh /\ v.fresh \in BOOLEAN
      /\ v.loading /\ v.reads = older \cup {new} /\ v.list = {}
  BY <1>1 DEF Keeps, PropFields
<1>5. DOMAIN v = PropFields /\ v.type = u.type /\ v.exists = u.exists
  BY <1>4 DEF Keeps, PropFields
<1>6. /\ new.props \subseteq Props!Props
      /\ \A p, q \in new.props : p \in {"c1", "c2"} <=> q \in {"c1", "c2"}
  BY <1>2, PropsOfType DEF PropTypes
<1>7. \A read \in older :
         /\ read.props \subseteq Props!Props
         /\ \A p, q \in read.props : p \in {"c1", "c2"} <=> q \in {"c1", "c2"}
  BY <1>3
<1>8. PropsKnown(v)
  BY <1>2, <1>3, <1>4, <1>5, <1>6, <1>7 DEF PropsKnown
<1>9. PropTypes(v) /\ PropTicked(v) /\ RowIsStored(v)
  BY <1>4 DEF PropTypes, PropTicked, RowIsStored, Keeps, PropFields
<1>10. PropsInv(v)
  BY <1>5, <1>8, <1>9 DEF PropsInv
<1> QED BY <1>10 DEF v

LEMMA PropsStep == PropsInv(ui) /\ Props!PropsNext => PropsInv(ui')
<1> SUFFICES ASSUME PropsInv(ui), Props!PropsNext PROVE PropsInv(ui')
  OBVIOUS
<1>0. /\ DOMAIN ui = PropFields /\ PropTypes(ui) /\ PropsKnown(ui) /\ PropTicked(ui)
      /\ RowIsStored(ui)
  BY DEF PropsInv
<1>r. \A read \in ui.reads :
         /\ DOMAIN read = {"type", "props", "newest"} /\ read.props \subseteq Props!Props
         /\ \A p, q \in read.props : p \in {"c1", "c2"} <=> q \in {"c1", "c2"}
  BY <1>0 DEF PropsKnown
<1> USE DEF Props!Free, Props!NoDialog
\* What these fields say is nothing the invariant is about.
<1>k. ASSUME Keeps(ui', ui, {"mode", "dialog", "updating", "deleting"}) PROVE PropsInv(ui')
  BY <1>0, <1>k DEF PropsInv, PropTypes, PropsKnown, PropTicked, RowIsStored, Keeps, PropFields
<1>1. ASSUME NEW result, Props!ListAnswered(result) PROVE PropsInv(ui')
  <2> PICK read \in ui.reads :
        ui' = IF result = "resolved" THEN Props!ListCame(ui, read)
              ELSE [ui EXCEPT !.reads = @ \ {read}, !.lost = TRUE]
    BY <1>1 DEF Props!ListAnswered
  <2>1. CASE ui' = Props!ListCame(ui, read)
    <3> DEFINE found == Props!Recognised(ui, read.props)
    <3>1. found \subseteq read.props /\ found \subseteq ui.row
      BY DEF Props!Recognised
    <3>2. \A p, q \in found : p = q
      BY <1>0, <1>r, <3>1 DEF RowIsStored, OneOfEach
    <3>3. found # {} => found = {CHOOSE p \in found : TRUE}
      BY <3>2, OneProp
    <3> HIDE DEF found
    <3>4. ui' = [ui EXCEPT !.reads = @ \ {read}, !.loading = FALSE, !.lost = FALSE,
                   !.list = read.props, !.fresh = read.newest, !.selected = found,
                   !.apart = @ /\ found = {},
                   !.current = IF ui.row = {} THEN @
                               ELSE IF found = {} THEN Props!New ELSE CHOOSE p \in found : TRUE]
      BY <2>1 DEF Props!ListCame, found
    <3>5. /\ Keeps(ui', ui, {"reads", "loading", "lost", "list", "fresh", "selected", "apart",
                             "current"})
          /\ ui'.reads = ui.reads \ {read} /\ ~ui'.loading /\ ui'.list = read.props
          /\ ui'.fresh = read.newest /\ ui'.selected = found
      BY <1>0, <3>4 DEF Keeps, PropFields
    <3>6. ui'.current = IF ui.row = {} THEN ui.current
                        ELSE IF found = {} THEN Props!New ELSE CHOOSE p \in found : TRUE
      BY <1>0, <3>4 DEF PropFields
    <3>7. ui'.apart = (ui.apart /\ found = {})
      BY <1>0, <3>4 DEF PropFields
    <3>8. ui'.apart \in BOOLEAN
      BY <3>7
    <3>9. found # {} => ui'.selected = {ui'.current}
      BY <3>1, <3>3, <3>5, <3>6
    <3>10. ui'.current \in Props!Props \cup {Props!New}
      <4>1. CASE found = {}
        BY <1>0, <3>6, <4>1 DEF PropTypes
      <4>2. CASE found # {}
        BY <1>r, <3>1, <3>5, <3>9, <4>2
      <4> QED BY <4>1, <4>2
    <3>11. PropTicked(ui')
      BY <3>2, <3>5, <3>9 DEF PropTicked
    <3>12. read.newest \in BOOLEAN /\ DOMAIN ui' = PropFields /\ RowIsStored(ui')
      BY <1>0, <3>5 DEF PropsKnown, RowIsStored, Keeps, PropFields
    <3>13. PropTypes(ui')
      BY <1>0, <1>r, <3>1, <3>5, <3>8, <3>10, <3>12 DEF PropTypes, Keeps, PropFields
    <3>14. ui'.type = ui.type /\ ui'.exists = ui.exists
      BY <1>0, <3>5 DEF Keeps, PropFields
    <3>15. PropsKnown(ui')
      BY <1>0, <3>5, <3>14 DEF PropsKnown
    <3> QED BY <3>11, <3>12, <3>13, <3>15 DEF PropsInv
  <2>2. CASE ui' = [ui EXCEPT !.reads = @ \ {read}, !.lost = TRUE]
    <3>1. Keeps(ui', ui, {"reads", "lost"}) /\ ui'.reads = ui.reads \ {read} /\ ui'.lost
      BY <1>0, <2>2 DEF Keeps, PropFields
    <3> QED BY <1>0, <3>1
            DEF PropsInv, PropTypes, PropsKnown, PropTicked, RowIsStored, Keeps, PropFields
  <2> QED BY <2>1, <2>2
<1>2. CASE Props!Show
  <2> PICK type \in Props!Types :
        /\ ~ui.shown /\ ui' = Props!GetPropsList([ui EXCEPT !.shown = TRUE, !.type = type])
    BY <1>2 DEF Props!Show
  <2> DEFINE u == [ui EXCEPT !.shown = TRUE, !.type = type]
  <2>1. /\ Keeps(u, ui, {"shown", "type"}) /\ u.type = type /\ u.shown
        /\ ui' = Props!GetPropsList(u)
    BY <1>0 DEF Keeps, PropFields
  <2> HIDE DEF u
  <2>2. ui.saving = "none"
    BY <1>0 DEF RowIsStored
  <2>3. /\ DOMAIN u = PropFields /\ u.reads = ui.reads
        /\ PropTypes(u) /\ PropTicked(u) /\ RowIsStored(u)
    BY <1>0, <2>1, <2>2 DEF PropTypes, PropTicked, RowIsStored, Keeps, PropFields
  <2> QED BY <1>r, <2>1, <2>3, PropsReadOk
<1>3. CASE Props!Cancel
  <2>1. /\ Keeps(ui', ui, {"shown", "selected"}) /\ ui'.selected = {} /\ ui.saving = "none"
    BY <1>0, <1>3 DEF Props!Cancel, Props!Hidden, Keeps, PropFields
  <2> QED BY <1>0, <2>1
          DEF PropsInv, PropTypes, PropsKnown, PropTicked, RowIsStored, Keeps, PropFields
<1>4. CASE Props!Tick
  <2> PICK p \in ui.list : ui' = Props!Ticked(ui, p)
    BY <1>4 DEF Props!Tick
  <2>1. /\ Keeps(ui', ui, {"selected", "apart", "current"}) /\ ui'.selected = {p}
        /\ ui'.apart = FALSE /\ ui'.current = p
    BY <1>0 DEF Props!Ticked, Keeps, PropFields
  <2>2. p \in Props!Props /\ ui'.apart \in BOOLEAN
    BY <1>0, <2>1 DEF PropTypes
  <2> QED BY <1>0, <2>1, <2>2
          DEF PropsInv, PropTypes, PropsKnown, PropTicked, RowIsStored, Keeps, PropFields
<1>5. CASE Props!CreateClicked
  <2>1. /\ Keeps(ui', ui, {"mode", "current", "apart", "dialog"}) /\ ui'.current = Props!New
        /\ ui'.apart /\ ui'.apart \in BOOLEAN
    BY <1>0, <1>5 DEF Props!CreateClicked, Keeps, PropFields
  <2> QED BY <1>0, <2>1
          DEF PropsInv, PropTypes, PropsKnown, PropTicked, RowIsStored, Keeps, PropFields
<1>6. CASE Props!EmptyCreateClicked
  BY <1>0, <1>6, <1>k DEF Props!EmptyCreateClicked, Keeps, PropFields
<1>7. CASE Props!EditClicked
  BY <1>0, <1>7, <1>k DEF Props!EditClicked, Keeps, PropFields
<1>8. CASE Props!DeleteClicked
  BY <1>0, <1>8, <1>k DEF Props!DeleteClicked, Keeps, PropFields
<1>9. CASE Props!CancelDialog
  BY <1>0, <1>9, <1>k DEF Props!CancelDialog, Keeps, PropFields
<1>10. CASE Props!SubmitProp
  BY <1>0, <1>10, <1>k DEF Props!SubmitProp, Keeps, PropFields
<1>11. ASSUME NEW result, Props!PropAnswered(result) PROVE PropsInv(ui')
  <2>1. CASE ui' = [ui EXCEPT !.updating = FALSE]
    BY <1>0, <2>1, <1>k DEF Keeps, PropFields
  <2>2. ASSUME NEW u \in Props!Created(ui) \cup Props!Updated(ui),
               ui' = Props!GetPropsList([u EXCEPT !.updating = FALSE, !.dialog = "none"])
        PROVE  PropsInv(ui')
    <3> DEFINE w == [u EXCEPT !.updating = FALSE, !.dialog = "none"]
    <3>1. /\ DOMAIN u = PropFields /\ u.reads = ui.reads
          /\ PropTypes(u) /\ PropTicked(u) /\ RowIsStored(u)
      <4>1. CASE u \in Props!Updated(ui)
        <5>1. Keeps(u, ui, {"selected"}) /\ u.selected = {}
          BY <1>0, <4>1 DEF Props!Updated, Keeps, PropFields
        <5> QED BY <1>0, <5>1 DEF PropTypes, PropTicked, RowIsStored, Keeps, PropFields
      <4>2. CASE u \in Props!Created(ui)
        <5> PICK p \in Props!OfType(ui.type, Props!Props \ ui.exists) :
              u = [ui EXCEPT !.exists = @ \cup {p}, !.current = Props!New, !.apart = TRUE]
          BY <4>2 DEF Props!Created
        <5>1. /\ Keeps(u, ui, {"exists", "current", "apart"}) /\ u.apart /\ u.apart \in BOOLEAN
              /\ u.exists = ui.exists \cup {p} /\ u.current = Props!New
          BY <1>0 DEF Keeps, PropFields
        <5>2. p \in Props!Props
          BY PropsOfType
        <5> QED BY <1>0, <5>1, <5>2 DEF PropTypes, PropTicked, RowIsStored, Keeps, PropFields
      <4> QED BY <2>2, <4>1, <4>2
    <3>2. Keeps(w, u, {"updating", "dialog"})
      BY <3>1 DEF Keeps, PropFields
    <3>3. ui' = Props!GetPropsList(w)
      BY <2>2
    <3> HIDE DEF w
    <3>4. /\ DOMAIN w = PropFields /\ w.reads = ui.reads
          /\ PropTypes(w) /\ PropTicked(w) /\ RowIsStored(w)
      BY <3>1, <3>2 DEF PropTypes, PropTicked, RowIsStored, Keeps, PropFields
    <3> QED BY <1>r, <3>3, <3>4, PropsReadOk
  <2> QED BY <1>11, <2>1, <2>2 DEF Props!PropAnswered
<1>12. CASE Props!ConfirmDelete
  BY <1>0, <1>12, <1>k DEF Props!ConfirmDelete, Keeps, PropFields
<1>13. ASSUME NEW result, Props!DeleteAnswered(result) PROVE PropsInv(ui')
  <2>1. CASE ui' = [ui EXCEPT !.deleting = {}]
    BY <1>0, <2>1, <1>k DEF Keeps, PropFields
  <2>2. CASE ui' = Props!Deleted([ui EXCEPT !.deleting = {}, !.exists = @ \ ui.deleting])
    <3> DEFINE u == [ui EXCEPT !.deleting = {}, !.exists = @ \ ui.deleting]
               w == [u EXCEPT !.selected = {}, !.dialog = "none"]
    <3>1. Keeps(u, ui, {"deleting", "exists"}) /\ u.exists = ui.exists \ ui.deleting
      BY <1>0 DEF Keeps, PropFields
    <3>2. ui' = Props!GetPropsList(w)
      BY <2>2 DEF Props!Deleted
    <3> HIDE DEF u
    <3>3. Keeps(w, u, {"selected", "dialog"}) /\ w.selected = {}
      BY <1>0, <3>1 DEF Keeps, PropFields
    <3> HIDE DEF w
    <3>4. /\ DOMAIN w = PropFields /\ w.reads = ui.reads
          /\ PropTypes(w) /\ PropTicked(w) /\ RowIsStored(w)
      BY <1>0, <3>1, <3>3 DEF PropTypes, PropTicked, RowIsStored, Keeps, PropFields
    <3> QED BY <1>r, <3>2, <3>4, PropsReadOk
  <2> QED BY <1>13, <2>1, <2>2 DEF Props!DeleteAnswered
<1>14. CASE Props!Save
  <2> DEFINE other == CHOOSE type \in Props!Types \ {ui.type} : TRUE
  <2>1. \A type \in Props!Types \ {ui.type} : type = other
    BY <1>0 DEF PropTypes, Props!Types
  <2>2. Props!NewProps(ui) =
          ui.selected \cup (IF ui.mangled THEN {} ELSE Props!OfType(other, ui.row))
    BY DEF Props!NewProps
  <2>3. other # ui.type /\ other \in Props!Types
    BY <1>0 DEF PropTypes, Props!Types
  <2> HIDE DEF other
  <2> DEFINE row == Props!NewProps(ui)
  <2>4. ui.selected \subseteq Props!OfType(ui.type, Props!Props)
    BY <1>14 DEF Props!Save
  <2>5. row \subseteq Props!Props
    BY <1>0, <2>2, PropsOfType DEF PropTypes
  <2>6. OneOfEach(row)
    BY <1>0, <2>2, <2>3, <2>4 DEF OneOfEach, RowIsStored, PropTicked, PropTypes, Props!OfType,
                                  Props!Types
  <2>7. ~ui.mangled => \A type \in Props!Types \ {ui.type} :
                          Props!OfType(type, ui.stored) \subseteq row
    BY <1>0, <2>1, <2>2 DEF RowIsStored
  <2> HIDE DEF row
  <2>8. /\ Keeps(ui', ui, {"row", "mangled", "saving"}) /\ ui'.row = row /\ ui'.mangled
        /\ ui'.mangled \in BOOLEAN /\ ui'.saving = IF ui.mangled THEN "ids" ELSE "row"
    BY <1>0, <1>14 DEF Props!Save, Props!Sent, Keeps, PropFields, row
  <2>9. ui.shown
    BY <1>14 DEF Props!Save
  <2>10. ui'.saving = "row" => ~ui.mangled
    BY <2>8
  <2>11. /\ ui'.type = ui.type /\ ui'.stored = ui.stored /\ ui'.shown = ui.shown
         /\ ui'.dropped = ui.dropped
    BY <1>0, <2>8 DEF Keeps, PropFields
  <2>12. RowIsStored(ui')
    BY <1>0, <2>6, <2>7, <2>8, <2>9, <2>10, <2>11 DEF RowIsStored
  <2>13. DOMAIN ui' = PropFields /\ PropTypes(ui') /\ PropsKnown(ui') /\ PropTicked(ui')
    BY <1>0, <2>5, <2>8 DEF PropTypes, PropsKnown, PropTicked, Keeps, PropFields
  <2> QED BY <2>12, <2>13 DEF PropsInv
<1>15. ASSUME NEW result, Props!SaveAnswered(result) PROVE PropsInv(ui')
  <2>1. CASE ui' = [ui EXCEPT !.saving = "none"]
    <3>1. Keeps(ui', ui, {"saving"}) /\ ui'.saving = "none"
      BY <1>0, <2>1 DEF Keeps, PropFields
    <3> QED BY <1>0, <3>1
            DEF PropsInv, PropTypes, PropsKnown, PropTicked, RowIsStored, Keeps, PropFields
  <2>2. CASE ui' \in Props!Saved(ui)
    <3> DEFINE lost == /\ ui.saving = "row"
                       /\ \E type \in Props!Types \ {ui.type} :
                             ~(Props!OfType(type, ui.stored) \subseteq ui.row)
               done == [Props!Hidden(ui) EXCEPT !.saving = "none", !.stored = ui.row,
                                                !.dropped = lost]
    <3>1. ui' \in {[done EXCEPT !.mangled = FALSE], done}
      BY <2>2 DEF Props!Saved
    <3>2. lost = FALSE
      BY <1>0 DEF RowIsStored
    <3> HIDE DEF lost
    <3>3. /\ Keeps(done, ui, {"shown", "selected", "saving", "stored", "dropped"})
          /\ done.selected = {} /\ done.saving = "none" /\ done.stored = ui.row
          /\ done.dropped = lost
      BY <1>0 DEF Props!Hidden, Keeps, PropFields
    <3> HIDE DEF done
    <3>4. /\ Keeps(ui', done, {"mangled"})
          /\ ui'.mangled = FALSE \/ ui'.mangled = done.mangled
      BY <1>0, <3>1, <3>3 DEF Keeps, PropFields
    <3>5. /\ Keeps(ui', ui, {"shown", "selected", "saving", "stored", "dropped", "mangled"})
          /\ ui'.selected = {} /\ ui'.saving = "none" /\ ui'.stored = ui.row
          /\ ~ui'.dropped
      BY <1>0, <3>2, <3>3, <3>4 DEF Keeps, PropFields
    <3>6. ui'.mangled \in BOOLEAN
      BY <1>0, <3>3, <3>4 DEF PropTypes, Keeps, PropFields
    <3> QED BY <1>0, <3>5, <3>6
            DEF PropsInv, PropTypes, PropsKnown, PropTicked, RowIsStored, Keeps, PropFields
  <2> QED BY <1>15, <2>1, <2>2 DEF Props!SaveAnswered
<1> QED BY <1>1, <1>2, <1>3, <1>4, <1>5, <1>6, <1>7, <1>8, <1>9, <1>10, <1>11, <1>12, <1>13,
           <1>14, <1>15 DEF Props!PropsNext

LEMMA PropsHolds ==
    ASSUME Props!Here => PropsInv(ui)
    PROVE  /\ Props!TypeOK /\ Props!KeepsTheOther /\ Props!RenamesWhatIsTicked
           /\ Props!ShowsWhatExists /\ Props!WaitsForSomething
<1>1. Props!TypeOK
  BY DEF Props!TypeOK, PropsInv, PropTypes
<1>2. Props!KeepsTheOther
  BY DEF Props!KeepsTheOther, PropsInv, RowIsStored
<1>3. Props!RenamesWhatIsTicked
  BY DEF Props!RenamesWhatIsTicked, PropsInv, PropTicked
<1>4. Props!ShowsWhatExists
  BY DEF Props!ShowsWhatExists, PropsInv, PropsKnown
<1>5. Props!WaitsForSomething
  BY DEF Props!WaitsForSomething, PropsInv, PropsKnown
<1> QED BY <1>1, <1>2, <1>3, <1>4, <1>5

-----------------------------------------------------------------------------
(***************************************************************************)
(* The form for an identifier.                                             *)
(***************************************************************************)
FormFields ==
    {"id", "name", "pattern", "patternToggle", "words", "keywordToggle", "loading", "leaving",
     "sent", "performed", "lost", "exists", "options", "reads", "fresh", "category", "managing"}

\* The keywords of a form: at least one field, and not too many.
WordsOk(words) == words \in Seq(Form!Words) /\ Len(words) \in 1 .. MaxWords

FormTypes(u) ==
    /\ u.pattern \in Form!Patterns /\ WordsOk(u.words)
    /\ u.exists \subseteq Form!Categories /\ u.options \subseteq Form!Categories
    /\ u.category \in Form!Categories \cup {Form!NoCategory}
    /\ \A read \in u.reads :
          /\ DOMAIN read = {"categories", "newest"}
          /\ read.categories \subseteq Form!Categories /\ read.newest \in BOOLEAN
    /\ u.fresh \in BOOLEAN

\* What is sent can be found by.
IsARule(param) ==
    /\ param.rule \in {"empty", "null"} => param.keywords # {}
    /\ "empty" \notin param.keywords

\* A field that is switched off is empty, and what was sent was a rule.
SwitchedOff(u) ==
    /\ ~u.patternToggle => u.pattern = "empty"
    /\ ~u.keywordToggle => u.words = Form!NoWords
    /\ \A i \in DOMAIN u.sent : IsARule(u.sent[i])

\* Save spins from the only call that was performed on.
SavedOnce(u) ==
    \/ u.performed = 0
    \/ u.performed = 1 /\ u.loading /\ (u.leaving \/ u.lost)

\* With the dialog hidden, the newest read has the categories there are.
OptionsKnown(u) ==
    ~u.managing =>
        /\ \A read \in u.reads : read.newest => read.categories \subseteq u.exists
        /\ (\A read \in u.reads : ~read.newest) => (u.fresh => u.options \subseteq u.exists)

FormInv(u) ==
    /\ DOMAIN u = FormFields
    /\ FormTypes(u) /\ SwitchedOff(u) /\ SavedOnce(u) /\ OptionsKnown(u)

\* A new read makes the others old ones.
HasRead(v, u) ==
    /\ Keeps(v, u, {"options", "reads"}) /\ v.options = {}
    /\ \A read \in v.reads :
          /\ DOMAIN read = {"categories", "newest"} /\ read.newest \in BOOLEAN
          /\ \/ read.categories = u.exists /\ read.newest
             \/ ~read.newest /\ \E old \in u.reads : read.categories = old.categories
    /\ \E read \in v.reads : read.newest

LEMMA WordRemoved ==
    ASSUME NEW words, WordsOk(words), Len(words) > 1, NEW i \in DOMAIN words
    PROVE  WordsOk(Form!RemoveAt(words, i))
<1> DEFINE front == SubSeq(words, 1, i - 1)
           back == SubSeq(words, i + 1, Len(words))
<1>1. i \in 1 .. Len(words) /\ Len(words) \in Nat /\ words \in Seq(Form!Words)
  BY DEF WordsOk
<1>2. front \in Seq(Form!Words) /\ Len(front) = i - 1
  BY <1>1
<1>3. back \in Seq(Form!Words) /\ Len(back) = Len(words) - i
  BY <1>1
<1>4. Form!RemoveAt(words, i) = front \o back
  BY DEF Form!RemoveAt
<1> HIDE DEF front, back
<1>5. front \o back \in Seq(Form!Words) /\ Len(front \o back) = Len(words) - 1
  BY <1>1, <1>2, <1>3
<1>6. Len(words) - 1 \in 1 .. MaxWords
  BY <1>1, FormsAssumption DEF WordsOk, Form!FormAssumption
<1> QED BY <1>4, <1>5, <1>6 DEF WordsOk

LEMMA WordAdded ==
    ASSUME NEW words, WordsOk(words), Len(words) < MaxWords
    PROVE  WordsOk(Append(words, "empty"))
  BY FormsAssumption DEF WordsOk, Form!Words, Form!FormAssumption

LEMMA WordChanged ==
    ASSUME NEW words, WordsOk(words), NEW i \in DOMAIN words, NEW word \in Form!Words
    PROVE  WordsOk([words EXCEPT ![i] = word])
  BY DEF WordsOk, Form!Words

LEMMA NoWordsOk == WordsOk(Form!NoWords)
  BY FormsAssumption DEF WordsOk, Form!Words, Form!NoWords, Form!FormAssumption

LEMMA WordsBounded ==
    ASSUME NEW words, WordsOk(words)
    PROVE  words \in Form!BoundedSeq(Form!Words, MaxWords)
<1>1. words \in [1 .. Len(words) -> Form!Words] /\ Len(words) \in 0 .. MaxWords
  BY DEF WordsOk
<1> QED BY <1>1 DEF Form!BoundedSeq, Form!SeqOf

LEMMA ReadMade ==
    ASSUME NEW u, DOMAIN u = FormFields, \A read \in u.reads : DOMAIN read = {"categories", "newest"}
    PROVE  HasRead(Form!Read(u), u)
<1> DEFINE new == [categories |-> u.exists, newest |-> TRUE]
           older == {[r EXCEPT !.newest = FALSE] : r \in u.reads}
           v == Form!Read(u)
<1>1. v = [u EXCEPT !.options = {}, !.reads = older \cup {new}]
  BY DEF Form!Read, FormFields
<1>2. new.categories = u.exists /\ new.newest /\ DOMAIN new = {"categories", "newest"}
      /\ new.newest \in BOOLEAN
  OBVIOUS
<1>3. \A read \in older :
         /\ DOMAIN read = {"categories", "newest"} /\ read.newest \in BOOLEAN
         /\ ~read.newest /\ \E old \in u.reads : read.categories = old.categories
  OBVIOUS
<1> HIDE DEF new, older, v
<1>4. Keeps(v, u, {"options", "reads"}) /\ v.options = {} /\ v.reads = older \cup {new}
  BY <1>1 DEF Keeps, FormFields
<1>5. HasRead(v, u)
  BY <1>2, <1>3, <1>4 DEF HasRead
<1> QED BY <1>5 DEF v

LEMMA ReadIsKnown ==
    ASSUME NEW v, NEW u, HasRead(v, u), v.exists = u.exists
    PROVE  OptionsKnown(v)
<1>1. \A read \in v.reads : read.newest => read.categories \subseteq v.exists
  BY DEF HasRead
<1>2. \E read \in v.reads : read.newest
  BY DEF HasRead
<1> QED BY <1>1, <1>2 DEF OptionsKnown

LEMMA FormMounted ==
    ASSUME NEW old \in {Form!NewIdentifier} \cup Form!Stored
    PROVE  FormInv(Form!Mounted(old))
<1> DEFINE words == IF old.keywords = << >> THEN Form!NoWords ELSE old.keywords
           u == [id |-> old.id, name |-> old.id # 0,
                 pattern |-> old.rule, patternToggle |-> old.patternOn,
                 words |-> words, keywordToggle |-> old.keywordOn,
                 loading |-> FALSE, leaving |-> FALSE, sent |-> << >>, performed |-> 0,
                 lost |-> FALSE, exists |-> Form!Categories, options |-> {}, reads |-> {},
                 fresh |-> FALSE, category |-> Form!NoCategory, managing |-> FALSE]
           v == Form!Read(u)
<1>1. v = Form!Mounted(old)
  BY DEF Form!Mounted
<1>2. /\ old.rule \in Form!Patterns /\ (~old.patternOn => old.rule = "empty")
      /\ old.keywords \in {<< >>, <<"word">>} /\ (~old.keywordOn => old.keywords = << >>)
  BY DEF Form!NewIdentifier, Form!Stored, Form!Patterns
<1>3. <<"word">> # << >> /\ WordsOk(<<"word">>)
  BY FormsAssumption DEF WordsOk, Form!Words, Form!FormAssumption
<1>4. WordsOk(words) /\ (~old.keywordOn => words = Form!NoWords)
  BY <1>2, <1>3, NoWordsOk
<1> HIDE DEF words
<1>5. /\ DOMAIN u = FormFields /\ u.pattern = old.rule /\ u.patternToggle = old.patternOn
      /\ u.words = words /\ u.keywordToggle = old.keywordOn /\ u.sent = << >>
      /\ u.performed = 0 /\ u.exists = Form!Categories /\ u.reads = {} /\ ~u.fresh
      /\ u.fresh \in BOOLEAN /\ u.category = Form!NoCategory
  BY DEF FormFields
<1> HIDE DEF u
<1>6. HasRead(v, u)
  BY <1>5, ReadMade
<1> HIDE DEF v
<1>7. FormTypes(v)
  BY <1>2, <1>4, <1>5, <1>6 DEF FormTypes, HasRead, Keeps, FormFields
<1>8. SwitchedOff(v)
  BY <1>2, <1>4, <1>5, <1>6 DEF SwitchedOff, HasRead, Keeps, FormFields
<1>10. DOMAIN v = FormFields /\ v.performed = 0 /\ v.exists = u.exists
  BY <1>5, <1>6 DEF HasRead, Keeps, FormFields
<1>9. OptionsKnown(v)
  BY <1>6, <1>10, ReadIsKnown
<1>11. SavedOnce(v)
  BY <1>10, Zenon DEF SavedOnce
<1> QED BY <1>1, <1>10, <1>11, <1>7, <1>8, <1>9 DEF FormInv

LEMMA FormStep == FormInv(ui) /\ Form!FormNext => FormInv(ui') \/ ui' = [closed |-> TRUE]
<1> SUFFICES ASSUME FormInv(ui), Form!FormNext PROVE FormInv(ui') \/ ui' = [closed |-> TRUE]
  OBVIOUS
<1>0. /\ DOMAIN ui = FormFields /\ FormTypes(ui) /\ SwitchedOff(ui) /\ SavedOnce(ui)
      /\ OptionsKnown(ui)
  BY DEF FormInv
<1>w. WordsOk(ui.words)
  BY <1>0 DEF FormTypes
<1> USE DEF Form!Free
<1>1. CASE Form!SetName
  <2>1. Keeps(ui', ui, {"name"})
    BY <1>0, <1>1 DEF Form!SetName, Keeps, FormFields
  <2> QED BY <1>0, <2>1
          DEF FormInv, FormTypes, SwitchedOff, SavedOnce, OptionsKnown, Keeps, FormFields
<1>2. CASE Form!SetPattern
  <2>1. Keeps(ui', ui, {"pattern"}) /\ ui'.pattern \in Form!Patterns /\ ui.patternToggle
    BY <1>0, <1>2 DEF Form!SetPattern, Keeps, FormFields
  <2> QED BY <1>0, <2>1
          DEF FormInv, FormTypes, SwitchedOff, SavedOnce, OptionsKnown, Keeps, FormFields
<1>3. CASE Form!SwitchPattern
  <2>1. /\ Keeps(ui', ui, {"patternToggle", "pattern"})
        /\ ui'.pattern = IF ui.patternToggle THEN "empty" ELSE ui.pattern
        /\ ~ui'.patternToggle => ui.patternToggle
    BY <1>0, <1>3 DEF Form!SwitchPattern, Form!PatternSwitched, Keeps, FormFields
  <2>2. ui'.pattern \in Form!Patterns /\ (~ui'.patternToggle => ui'.pattern = "empty")
    BY <1>0, <2>1 DEF FormTypes, Form!Patterns
  <2> QED BY <1>0, <2>1, <2>2
          DEF FormInv, FormTypes, SwitchedOff, SavedOnce, OptionsKnown, Keeps, FormFields
<1>4. CASE Form!SwitchKeywords
  <2>1. /\ Keeps(ui', ui, {"keywordToggle", "words"})
        /\ ui'.words = IF ui.keywordToggle THEN Form!NoWords ELSE ui.words
        /\ ~ui'.keywordToggle => ui.keywordToggle
    BY <1>0, <1>4 DEF Form!SwitchKeywords, Form!KeywordsSwitched, Keeps, FormFields
  <2>2. WordsOk(ui'.words) /\ (~ui'.keywordToggle => ui'.words = Form!NoWords)
    BY <1>w, <2>1, NoWordsOk
  <2> QED BY <1>0, <2>1, <2>2
          DEF FormInv, FormTypes, SwitchedOff, SavedOnce, OptionsKnown, Keeps, FormFields
<1>5. CASE Form!AddNewContextWord
  <2>1. /\ Keeps(ui', ui, {"words"}) /\ ui'.words = Append(ui.words, "empty")
        /\ ui.keywordToggle /\ Len(ui.words) < MaxWords
    BY <1>0, <1>5 DEF Form!AddNewContextWord, Keeps, FormFields
  <2>2. WordsOk(ui'.words)
    BY <1>w, <2>1, WordAdded
  <2> QED BY <1>0, <2>1, <2>2
          DEF FormInv, FormTypes, SwitchedOff, SavedOnce, OptionsKnown, Keeps, FormFields
<1>6. CASE Form!RemoveContextWord
  <2> PICK i \in DOMAIN ui.words : ui' = [ui EXCEPT !.words = Form!RemoveAt(@, i)]
    BY <1>6 DEF Form!RemoveContextWord
  <2>1. /\ Keeps(ui', ui, {"words"}) /\ ui'.words = Form!RemoveAt(ui.words, i)
        /\ ui.keywordToggle /\ Len(ui.words) > 1
    BY <1>0, <1>6 DEF Form!RemoveContextWord, Keeps, FormFields
  <2>2. WordsOk(ui'.words)
    BY <1>w, <2>1, WordRemoved
  <2> QED BY <1>0, <2>1, <2>2
          DEF FormInv, FormTypes, SwitchedOff, SavedOnce, OptionsKnown, Keeps, FormFields
<1>7. CASE Form!ChangeContextWord
  <2> PICK i \in DOMAIN ui.words, word \in Form!Words : ui' = [ui EXCEPT !.words[i] = word]
    BY <1>7 DEF Form!ChangeContextWord
  <2>1. /\ Keeps(ui', ui, {"words"}) /\ ui'.words = [ui.words EXCEPT ![i] = word]
        /\ ui.keywordToggle
    BY <1>0, <1>7 DEF Form!ChangeContextWord, Keeps, FormFields
  <2>2. WordsOk(ui'.words)
    BY <1>w, <2>1, WordChanged
  <2> QED BY <1>0, <2>1, <2>2
          DEF FormInv, FormTypes, SwitchedOff, SavedOnce, OptionsKnown, Keeps, FormFields
<1>9. CASE Form!Choose
  <2> PICK category \in ui.options \cup {Form!NoCategory} : ui' = [ui EXCEPT !.category = category]
    BY <1>9 DEF Form!Choose
  <2>1. Keeps(ui', ui, {"category"}) /\ ui'.category = category
    BY <1>0 DEF Keeps, FormFields
  <2> QED BY <1>0, <2>1
          DEF FormInv, FormTypes, SwitchedOff, SavedOnce, OptionsKnown, Keeps, FormFields
<1>10. CASE Form!ManageCategory
  <2>1. Keeps(ui', ui, {"managing"}) /\ ui'.managing
    BY <1>0, <1>10 DEF Form!ManageCategory, Keeps, FormFields
  <2> QED BY <1>0, <2>1
          DEF FormInv, FormTypes, SwitchedOff, SavedOnce, OptionsKnown, Keeps, FormFields
<1>11. CASE Form!CategoryDeleted
  <2>1. Keeps(ui', ui, {"exists"}) /\ ui'.exists \subseteq ui.exists /\ ui.managing
    BY <1>0, <1>11 DEF Form!CategoryDeleted, Keeps, FormFields
  <2> QED BY <1>0, <2>1
          DEF FormInv, FormTypes, SwitchedOff, SavedOnce, OptionsKnown, Keeps, FormFields
<1>r. \A read \in ui.reads : DOMAIN read = {"categories", "newest"}
  BY <1>0 DEF FormTypes
<1>8. ASSUME HasRead(ui', ui) PROVE FormInv(ui')
  <2>1. Keeps(ui', ui, {"options", "reads"}) /\ ui'.exists = ui.exists
    BY <1>0, <1>8 DEF HasRead, Keeps, FormFields
  <2>2. FormTypes(ui')
    BY <1>0, <1>8, <2>1 DEF FormTypes, HasRead, Keeps, FormFields
  <2>3. OptionsKnown(ui')
    BY <1>8, <2>1, ReadIsKnown
  <2> QED BY <1>0, <2>1, <2>2, <2>3 DEF FormInv, SwitchedOff, SavedOnce, Keeps, FormFields
<1>12. CASE Form!Focus
  <2>1. ui' = Form!Read(ui)
    BY <1>12 DEF Form!Focus
  <2>2. HasRead(Form!Read(ui), ui)
    BY <1>0, <1>r, ReadMade
  <2> QED BY <1>8, <2>1, <2>2
<1>13. CASE Form!HideManage
  <2> DEFINE u == [ui EXCEPT !.managing = FALSE]
  <2>1. Keeps(u, ui, {"managing"})
    BY <1>0 DEF Keeps, FormFields
  <2>2. ui' = Form!Read(u)
    BY <1>13 DEF Form!HideManage, Form!Managed
  <2> HIDE DEF u
  <2>3. DOMAIN u = FormFields /\ u.reads = ui.reads /\ u.exists = ui.exists
    BY <1>0, <2>1 DEF Keeps, FormFields
  <2>4. HasRead(Form!Read(u), u)
    BY <1>r, <2>3, ReadMade
  <2>5. HasRead(ui', u)
    BY <2>2, <2>4
  <2>6. Keeps(ui', ui, {"options", "reads", "managing"}) /\ ui'.exists = ui.exists
        /\ ui'.options = {}
    BY <1>0, <2>1, <2>3, <2>5 DEF HasRead, Keeps, FormFields
  <2>7. FormTypes(ui')
    BY <1>0, <2>3, <2>5, <2>6 DEF FormTypes, HasRead, Keeps, FormFields
  <2>8. OptionsKnown(ui')
    BY <2>3, <2>5, <2>6, ReadIsKnown
  <2> QED BY <1>0, <2>6, <2>7, <2>8 DEF FormInv, SwitchedOff, SavedOnce, Keeps, FormFields
<1>14. CASE Form!SubmitIdentifier
  <2> DEFINE param == Form!RequestParam(ui)
  <2>1. /\ Keeps(ui', ui, {"loading", "sent"}) /\ ui'.sent = <<param>>
        /\ ui'.loading /\ Form!RuleAccepted(ui)
    BY <1>0, <1>14 DEF Form!SubmitIdentifier, Keeps, FormFields
  <2>2. ASSUME ~ui.keywordToggle PROVE IsARule(param)
    <3>1. ui.words = Form!NoWords /\ ui.pattern # "empty" /\ ui.patternToggle
          /\ ui.pattern \in {"valid", "invalid"}
      BY <1>0, <2>1, <2>2
         DEF SwitchedOff, FormTypes, Form!RuleAccepted, Form!RuleNull, Form!Patterns
    <3>2. param.rule \notin {"empty", "null"} /\ param.keywords = {}
      BY <2>2, <3>1 DEF Form!RequestParam
    <3> HIDE DEF param
    <3> QED BY <3>2 DEF IsARule
  <2>3. ASSUME ui.keywordToggle PROVE IsARule(param)
    <3>1. param.keywords = Form!ToSet(ui.words)
      BY <2>3 DEF Form!RequestParam
    <3>2. Form!ToSet(ui.words) # {}
      <4>1. 1 \in DOMAIN ui.words
        BY <1>w DEF WordsOk
      <4> QED BY <4>1 DEF Form!ToSet
    <3>3. "empty" \notin Form!ToSet(ui.words)
      BY <2>1, <2>3 DEF Form!RuleAccepted
    <3> HIDE DEF param
    <3> QED BY <3>1, <3>2, <3>3 DEF IsARule
  <2>4. IsARule(param)
    BY <2>2, <2>3
  <2> HIDE DEF param
  <2>5. \A i \in DOMAIN ui'.sent : IsARule(ui'.sent[i])
    BY <2>1, <2>4
  <2> QED BY <1>0, <2>1, <2>5
          DEF FormInv, FormTypes, SwitchedOff, SavedOnce, OptionsKnown, Keeps, FormFields
<1>15. ASSUME NEW result, Form!ReadAnswered(result) PROVE FormInv(ui')
  <2> PICK read \in ui.reads :
        ui' = IF result = "resolved"
              THEN [ui EXCEPT !.reads = @ \ {read}, !.options = read.categories,
                              !.fresh = read.newest]
              ELSE [ui EXCEPT !.reads = @ \ {read}, !.fresh = @ /\ ~read.newest]
    BY <1>15 DEF Form!ReadAnswered
  <2>1. read.categories \subseteq Form!Categories /\ read.newest \in BOOLEAN
        /\ ui.fresh \in BOOLEAN
    BY <1>0 DEF FormTypes
  <2>2. CASE ui' = [ui EXCEPT !.reads = @ \ {read}, !.options = read.categories,
                              !.fresh = read.newest]
    <3>1. /\ Keeps(ui', ui, {"reads", "options", "fresh"}) /\ ui'.reads = ui.reads \ {read}
          /\ ui'.options = read.categories /\ ui'.fresh = read.newest
      BY <1>0, <2>2 DEF Keeps, FormFields
    <3>2. ui'.exists = ui.exists /\ ui'.managing = ui.managing
      BY <1>0, <3>1 DEF Keeps, FormFields
    <3>3. OptionsKnown(ui')
      BY <1>0, <2>1, <3>1, <3>2 DEF OptionsKnown
    <3> QED BY <1>0, <2>1, <3>1, <3>3
            DEF FormInv, FormTypes, SwitchedOff, SavedOnce, Keeps, FormFields
  <2>3. CASE ui' = [ui EXCEPT !.reads = @ \ {read}, !.fresh = @ /\ ~read.newest]
    <3>1. /\ Keeps(ui', ui, {"reads", "fresh"}) /\ ui'.reads = ui.reads \ {read}
          /\ ui'.fresh = (ui.fresh /\ ~read.newest)
      BY <1>0, <2>3 DEF Keeps, FormFields
    <3>2. ui'.exists = ui.exists /\ ui'.managing = ui.managing /\ ui'.options = ui.options
          /\ ui'.fresh \in BOOLEAN
      BY <1>0, <3>1 DEF Keeps, FormFields
    <3>3. OptionsKnown(ui')
      BY <1>0, <2>1, <3>1, <3>2 DEF OptionsKnown
    <3> QED BY <1>0, <2>1, <3>1, <3>2, <3>3
            DEF FormInv, FormTypes, SwitchedOff, SavedOnce, Keeps, FormFields
  <2> QED BY <2>2, <2>3
<1>16. ASSUME NEW wire, Form!SubmitAnswered(wire) PROVE FormInv(ui')
  <2> PICK done \in Form!PerformedBy(wire) :
        LET counted == [ui EXCEPT !.sent = << >>,
                            !.performed = IF done /\ wire = "success" THEN @ + 1 ELSE @]
        IN  \/ ui' = IF Form!ApiResult(wire) = "resolved" THEN Form!Saved(counted)
                     ELSE Form!Failed(counted)
            \/ wire = "success" /\ ui' = Form!NotSaved([ui EXCEPT !.sent = << >>])
    BY <1>16 DEF Form!SubmitAnswered
  <2>1. ui.performed = 0 /\ ui.loading
    BY <1>0, <1>16 DEF Form!SubmitAnswered, SavedOnce
  <2>2. wire = "success" <=> Form!ApiResult(wire) = "resolved"
    BY DEF Form!ApiResult, Form!Intercepted
  <2> DEFINE performed == IF done /\ wire = "success" THEN ui.performed + 1 ELSE ui.performed
             counted == [ui EXCEPT !.sent = << >>, !.performed = performed]
  <2>3. performed = 0 \/ (performed = 1 /\ wire = "success")
    <3>1. ui.performed + 1 = 1
      BY <2>1
    <3> QED BY <2>1, <3>1, Zenon
  <2>4. Keeps(counted, ui, {"sent", "performed"}) /\ counted.sent = << >>
        /\ counted.performed = performed
    BY <1>0 DEF Keeps, FormFields
  <2> HIDE DEF performed, counted
  <2>5. CASE ui' = Form!Saved(counted)
    <3>1. Keeps(ui', ui, {"sent", "performed", "leaving"}) /\ ui'.sent = << >> /\ ui'.leaving
          /\ ui'.performed = performed
      BY <1>0, <2>4, <2>5 DEF Form!Saved, Keeps, FormFields
    <3> QED BY <1>0, <2>1, <2>3, <3>1
            DEF FormInv, FormTypes, SwitchedOff, SavedOnce, OptionsKnown, Keeps, FormFields
  <2>6. CASE wire # "success" /\ ui' = Form!Failed(counted)
    <3>1. Keeps(ui', ui, {"sent", "performed", "loading"}) /\ ui'.sent = << >>
          /\ ui'.performed = 0
      BY <1>0, <2>3, <2>4, <2>6 DEF Form!Failed, Keeps, FormFields
    <3>2. SavedOnce(ui')
      BY <3>1, Zenon DEF SavedOnce
    <3> QED BY <1>0, <3>1, <3>2
            DEF FormInv, FormTypes, SwitchedOff, OptionsKnown, Keeps, FormFields
  <2>7. CASE ui' = Form!NotSaved([ui EXCEPT !.sent = << >>])
    <3>1. Keeps(ui', ui, {"sent", "lost"}) /\ ui'.sent = << >>
      BY <1>0, <2>7 DEF Form!NotSaved, Keeps, FormFields
    <3>2. ui'.performed = 0
      BY <1>0, <2>1, <3>1 DEF Keeps, FormFields
    <3>3. SavedOnce(ui')
      BY <3>2, Zenon DEF SavedOnce
    <3> QED BY <1>0, <3>1, <3>3
            DEF FormInv, FormTypes, SwitchedOff, OptionsKnown, Keeps, FormFields
  <2>8. \/ ui' = Form!Saved(counted)
        \/ wire # "success" /\ ui' = Form!Failed(counted)
        \/ ui' = Form!NotSaved([ui EXCEPT !.sent = << >>])
    BY <2>2 DEF counted, performed
  <2> QED BY <2>5, <2>6, <2>7, <2>8
<1>17. CASE Form!Leave
  BY <1>17 DEF Form!Leave
<1> QED BY <1>1, <1>2, <1>3, <1>4, <1>5, <1>6, <1>7, <1>9, <1>10, <1>11, <1>12, <1>13, <1>14,
           <1>15, <1>16, <1>17 DEF Form!FormNext

LEMMA FormHolds ==
    ASSUME Form!Here => FormInv(ui)
    PROVE  /\ Form!TypeOK /\ Form!SavesARule /\ Form!SavesOnce /\ Form!OffersWhatExists
<1>1. Form!TypeOK
  BY WordsBounded DEF FormInv, FormTypes, Form!TypeOK
<1>2. Form!SavesARule
  BY DEF FormInv, SwitchedOff, IsARule, Form!SavesARule
<1>3. Form!SavesOnce /\ Form!OffersWhatExists
  BY DEF FormInv, SavedOnce, OptionsKnown, Form!SavesOnce, Form!OffersWhatExists
<1> QED BY <1>1, <1>2, <1>3

-----------------------------------------------------------------------------
(***************************************************************************)
(* Adding from a file.                                                     *)
(***************************************************************************)
BatchFields ==
    {"stored", "finished", "ids", "polls", "handle", "asking", "status", "shown", "about",
     "overlapped", "lost", "file", "refused", "uploading", "confirm", "timers", "late",
     "deleted", "offered"}

Ends == {"Completed", "Error"}

BatchTypes(u) ==
    /\ u.finished \in [Batch!Ids -> Ends \cup {"running"}]
    /\ u.ids \in 0 .. MaxUploads /\ u.timers \in 0 .. 2
    /\ u.handle \in Batch!Ids \cup {0} /\ u.about \in Batch!Ids \cup {0}
    /\ u.polls \subseteq Batch!Watches /\ u.asking \subseteq Batch!Watches
    /\ u.deleted \subseteq Batch!Ids /\ u.offered \subseteq Batch!Ids
    /\ u.status \in Batch!Stages /\ u.overlapped \in BOOLEAN /\ u.late \in BOOLEAN

\* With no older poll about, there is one file: what is polled is the one
\* that was uploaded last, and what is shown is about it.
OneFile(u) ==
    /\ u.polls \subseteq {Batch!Watch(u.ids)} /\ u.asking \subseteq {Batch!Watch(u.ids)}
    /\ u.uploading =>
          u.polls = {} /\ u.asking = {} /\ u.shown \notin Ends /\ ~u.confirm
    /\ u.shown \in Ends => u.about = u.ids /\ u.ids \in u.offered
    /\ u.shown = "Inprogress" => u.uploading \/ u.lost \/ Batch!Watch(u.handle) \in u.polls
    /\ ~u.late =>
          /\ u.deleted \subseteq u.offered
          /\ u.timers > 0 \/ u.confirm => u.stored = 0 \/ u.stored \in u.offered

BatchInv(u) ==
    /\ DOMAIN u = BatchFields
    /\ BatchTypes(u)
    /\ u.stored = 0 \/ u.stored = u.ids
    /\ u.shown = u.status \/ u.shown = "NotStarted"
    /\ u.uploading => u.ids < MaxUploads
    /\ u.overlapped \/ OneFile(u)

LEMMA BatchMounted == BatchInv(Batch!Mounted)
<1> DEFINE u == Batch!Mounted
<1>1. /\ DOMAIN u = BatchFields
      /\ u.finished = [id \in Batch!Ids |-> "running"] /\ u.ids = 0 /\ u.timers = 0
      /\ u.handle = 0 /\ u.about = 0 /\ u.polls = {} /\ u.asking = {} /\ u.deleted = {}
      /\ u.offered = {} /\ u.status = "NotStarted" /\ u.shown = "NotStarted" /\ u.stored = 0
      /\ ~u.uploading /\ ~u.confirm /\ u.late \in BOOLEAN /\ u.overlapped \in BOOLEAN
  BY DEF Batch!Mounted, Batch!Fresh, Batch!NoFile, BatchFields
<1> HIDE DEF u
<1>2. BatchInv(u)
  BY <1>1, FormsAssumption DEF BatchInv, BatchTypes, OneFile, Batch!BatchAssumption, Ends,
     Batch!Stages
<1> QED BY <1>2 DEF u

Updated(v, u, stage, id) ==
    /\ Keeps(v, u, {"status", "shown", "about", "offered"})
    /\ \/ v = u /\ u.status = stage
       \/ /\ v.status = stage /\ v.shown = stage /\ v.about = id
          /\ v.offered = IF stage \in Ends THEN u.offered \cup {id} ELSE u.offered

LEMMA StatusUpdated ==
    ASSUME NEW u, DOMAIN u = BatchFields, NEW stage, NEW id
    PROVE  Updated(Batch!UpdateStatus(u, stage, id), u, stage, id)
  BY DEF Batch!UpdateStatus, Updated, Keeps, BatchFields, Ends

\* A new stage that is not an end, for no file.
Unfinished(v, u, stage) ==
    /\ Keeps(v, u, {"status", "shown", "about"})
    /\ \/ v = u /\ u.status = stage
       \/ v.status = stage /\ v.shown = stage /\ v.about = 0

LEMMA NoneFinished ==
    ASSUME NEW u, DOMAIN u = BatchFields, NEW stage \in {"Inprogress", "NotStarted"}
    PROVE  Unfinished(Batch!UpdateStatus(u, stage, Batch!NoFile), u, stage)
  BY DEF Batch!UpdateStatus, Batch!NoFile, Unfinished, Keeps, BatchFields

Deleted(v, u) ==
    /\ Keeps(v, u, {"deleted", "stored", "shown"})
    /\ v.deleted = u.deleted \cup ({u.stored} \ {0})
    /\ v.stored = 0 /\ v.shown = "NotStarted"

LEMMA ReportIsDeleted ==
    ASSUME NEW u, DOMAIN u = BatchFields
    PROVE  Deleted(Batch!ReportDeleted(u), u)
  BY DEF Batch!ReportDeleted, Batch!NoFile, Deleted, Keeps, BatchFields

LEMMA BatchStep == BatchInv(ui) /\ Batch!BatchNext => BatchInv(ui')
<1> SUFFICES ASSUME BatchInv(ui), Batch!BatchNext PROVE BatchInv(ui')
  OBVIOUS
<1>0. DOMAIN ui = BatchFields
  BY DEF BatchInv
<1>t. ui.timers \in 0 .. 2 /\ ui.ids \in 0 .. MaxUploads /\ MaxUploads \in Nat
  BY FormsAssumption DEF BatchInv, BatchTypes, Batch!BatchAssumption
<1>1. CASE Batch!ChangeFile
  <2>1. Keeps(ui', ui, {"file", "refused"})
    BY <1>0, <1>1 DEF Batch!ChangeFile, Keeps, BatchFields
  <2> QED BY <2>1 DEF BatchInv, BatchTypes, OneFile, Keeps, BatchFields
<1>2. CASE Batch!HandleUpload
  <2> DEFINE v == Batch!UpdateStatus(ui, "Inprogress", Batch!NoFile)
  <2>1. Unfinished(v, ui, "Inprogress")
    BY <1>0, NoneFinished
  <2>2. /\ ui' = [v EXCEPT !.uploading = TRUE,
                           !.overlapped = @ \/ ui.polls # {} \/ ui.asking # {}]
        /\ ~ui.confirm /\ ui.ids < MaxUploads
    BY <1>2 DEF Batch!HandleUpload
  <2> HIDE DEF v
  <2>3. /\ Keeps(ui', v, {"uploading", "overlapped"}) /\ ui'.uploading
        /\ ui'.overlapped = (v.overlapped \/ ui.polls # {} \/ ui.asking # {})
    BY <1>0, <2>1, <2>2 DEF Unfinished, Keeps, BatchFields
  <2>4. ui'.overlapped = (ui.overlapped \/ ui.polls # {} \/ ui.asking # {})
    BY <1>0, <2>1, <2>3 DEF Unfinished, Keeps, BatchFields
  <2> HIDE DEF v
  <2>5. /\ Keeps(ui', ui, {"status", "shown", "about", "offered", "uploading", "overlapped"})
        /\ ui'.offered = ui.offered
        /\ \/ ui'.status = ui.status /\ ui'.shown = ui.shown /\ ui'.about = ui.about
              /\ ui.status = "Inprogress"
           \/ ui'.status = "Inprogress" /\ ui'.shown = "Inprogress" /\ ui'.about = 0
    BY <1>0, <2>1, <2>3 DEF Unfinished, Keeps, BatchFields
  <2>6. ui'.overlapped \in BOOLEAN
    BY <2>4
  <2>7. ~ui'.overlapped =>
           ~ui.overlapped /\ ui.polls = {} /\ ui.asking = {}
    BY <2>4
  <2> QED BY <1>0, <2>2, <2>3, <2>5, <2>6, <2>7
          DEF BatchInv, BatchTypes, OneFile, Keeps, BatchFields, Ends, Batch!Stages
<1>3. CASE Batch!UploadProgress
  <2>1. Keeps(ui', ui, {"file"})
    BY <1>0, <1>3 DEF Batch!UploadProgress, Keeps, BatchFields
  <2> QED BY <2>1 DEF BatchInv, BatchTypes, OneFile, Keeps, BatchFields
<1>6. CASE Batch!Poll
  <2>1. PICK watch \in ui.polls : ui' = [ui EXCEPT !.asking = @ \cup {watch}]
    BY <1>6 DEF Batch!Poll
  <2>2. Keeps(ui', ui, {"asking"}) /\ ui'.asking = ui.asking \cup {watch}
    BY <1>0, <2>1 DEF Keeps, BatchFields
  <2> QED BY <2>2 DEF BatchInv, BatchTypes, OneFile, Keeps, BatchFields
<1>8. CASE Batch!DownloadReport
  <2>1. /\ Keeps(ui', ui, {"timers"}) /\ ui'.timers = ui.timers + 1
        /\ ui.shown \in Ends /\ ui.timers < 2
    BY <1>0, <1>8 DEF Batch!DownloadReport, Batch!HasResult, Keeps, BatchFields, Ends
  <2> QED BY <2>1 DEF BatchInv, BatchTypes, OneFile, Keeps, BatchFields
<1>10. CASE Batch!OnDismissNotification
  <2>1. Keeps(ui', ui, {"confirm"}) /\ ui'.confirm /\ ui.shown \in Ends
    BY <1>0, <1>10 DEF Batch!OnDismissNotification, Batch!Dismissible, Keeps, BatchFields, Ends
  <2> QED BY <2>1 DEF BatchInv, BatchTypes, OneFile, Keeps, BatchFields
<1>11. CASE Batch!CancelDismissal
  <2>1. Keeps(ui', ui, {"confirm"}) /\ ~ui'.confirm
    BY <1>0, <1>11 DEF Batch!CancelDismissal, Keeps, BatchFields
  <2> QED BY <2>1 DEF BatchInv, BatchTypes, OneFile, Keeps, BatchFields
<1>4. CASE Batch!UploadAnswered
  <2>1. CASE ui' = Batch!Uploaded(ui, ui.ids + 1)
    <3> DEFINE v == Batch!UpdateStatus(ui, "Inprogress", Batch!NoFile)
               id == ui.ids + 1
    <3>1. Unfinished(v, ui, "Inprogress")
      BY <1>0, NoneFinished
    <3>2. ui' = [v EXCEPT !.uploading = FALSE, !.ids = id, !.stored = id,
                          !.polls = @ \cup {Batch!Watch(id)}, !.handle = id,
                          !.overlapped = @ \/ ui.polls # {} \/ ui.asking # {},
                          !.late = @ \/ ui.timers > 0]
      BY <2>1 DEF Batch!Uploaded
    <3>0. ui.ids < MaxUploads
      BY <1>4 DEF Batch!UploadAnswered, BatchInv
    <3>3. id \in Batch!Ids /\ Batch!Watch(id) \in Batch!Watches
      BY <3>0, FormsAssumption
         DEF BatchInv, BatchTypes, Batch!Ids, Batch!Watch, Batch!Watches, Batch!BatchAssumption
    <3> HIDE DEF v, id
    <3>4. /\ Keeps(ui', v, {"uploading", "ids", "stored", "polls", "handle", "overlapped", "late"})
          /\ ~ui'.uploading /\ ui'.ids = id /\ ui'.stored = id /\ ui'.handle = id
          /\ ui'.polls = v.polls \cup {Batch!Watch(id)}
          /\ ui'.overlapped = (v.overlapped \/ ui.polls # {} \/ ui.asking # {})
          /\ ui'.late = (v.late \/ ui.timers > 0)
      BY <1>0, <3>1, <3>2 DEF Unfinished, Keeps, BatchFields
    <3>5. /\ Keeps(ui', ui, {"status", "shown", "about", "uploading", "ids", "stored", "polls",
                             "handle", "overlapped", "late"})
          /\ ui'.polls = ui.polls \cup {Batch!Watch(id)}
          /\ ui'.overlapped = (ui.overlapped \/ ui.polls # {} \/ ui.asking # {})
          /\ ui'.late = (ui.late \/ ui.timers > 0)
          /\ \/ ui'.status = ui.status /\ ui'.shown = ui.shown /\ ui'.about = ui.about
                /\ ui.status = "Inprogress"
             \/ ui'.status = "Inprogress" /\ ui'.shown = "Inprogress" /\ ui'.about = 0
      BY <1>0, <3>1, <3>4 DEF Unfinished, Keeps, BatchFields
    <3>8. ui'.late \in BOOLEAN /\ ui'.overlapped \in BOOLEAN
      BY <3>5
    <3>9. ~(ui.timers > 0) => ui.timers = 0
      BY <1>t
    <3>6. ui.uploading /\ (~ui'.late => ~ui.late /\ ~(ui.timers > 0))
      BY <1>4, <3>5 DEF Batch!UploadAnswered
    <3>7. id \in 0 .. MaxUploads
      BY <1>t, <3>0 DEF id
    <3> QED BY <1>0, <3>3, <3>4, <3>5, <3>6, <3>7, <3>8, <3>9
            DEF BatchInv, BatchTypes, OneFile, Keeps, BatchFields, Ends, Batch!Stages
  <2>2. CASE ui' = [Batch!UpdateStatus(ui, "NotStarted", Batch!NoFile) EXCEPT !.uploading = FALSE]
    <3> DEFINE v == Batch!UpdateStatus(ui, "NotStarted", Batch!NoFile)
    <3>1. Unfinished(v, ui, "NotStarted")
      BY <1>0, NoneFinished
    <3>2. ui' = [v EXCEPT !.uploading = FALSE] /\ ui.uploading
      BY <1>4, <2>2 DEF Batch!UploadAnswered
    <3> HIDE DEF v
    <3>3. Keeps(ui', v, {"uploading"}) /\ ~ui'.uploading
      BY <1>0, <3>1, <3>2 DEF Unfinished, Keeps, BatchFields
    <3>4. /\ Keeps(ui', ui, {"status", "shown", "about", "uploading"})
          /\ \/ ui'.status = ui.status /\ ui'.shown = ui.shown /\ ui'.about = ui.about
                /\ ui.status = "NotStarted"
             \/ ui'.status = "NotStarted" /\ ui'.shown = "NotStarted" /\ ui'.about = 0
      BY <1>0, <3>1, <3>3 DEF Unfinished, Keeps, BatchFields
    <3> QED BY <1>0, <3>2, <3>3, <3>4
            DEF BatchInv, BatchTypes, OneFile, Keeps, BatchFields, Ends, Batch!Stages
  <2>3. CASE ui' = [ui EXCEPT !.uploading = FALSE, !.lost = TRUE]
    <3>1. Keeps(ui', ui, {"uploading", "lost"}) /\ ~ui'.uploading /\ ui'.lost
      BY <1>0, <2>3 DEF Keeps, BatchFields
    <3> QED BY <3>1 DEF BatchInv, BatchTypes, OneFile, Keeps, BatchFields
  <2> QED BY <1>4, <2>1, <2>2, <2>3 DEF Batch!UploadAnswered
<1>5. CASE Batch!Finish
  <2>1. PICK id \in 1 .. ui.ids, how \in Ends : ui' = [ui EXCEPT !.finished[id] = how]
    BY <1>5 DEF Batch!Finish, Ends
  <2> DEFINE finished == [ui.finished EXCEPT ![id] = how]
  <2>2. finished \in [Batch!Ids -> Ends \cup {"running"}]
    BY DEF BatchInv, BatchTypes
  <2>3. Keeps(ui', ui, {"finished"}) /\ ui'.finished = finished
    BY <1>0, <2>1 DEF Keeps, BatchFields
  <2> HIDE DEF finished
  <2> QED BY <2>2, <2>3 DEF BatchInv, BatchTypes, OneFile, Keeps, BatchFields
<1>9. CASE Batch!DownloadTimer
  <2> DEFINE v == Batch!ReportDeleted(ui)
  <2>1. ui' = [v EXCEPT !.timers = @ - 1] /\ ui.timers > 0
    BY <1>9 DEF Batch!DownloadTimer
  <2>2. Deleted(v, ui)
    BY <1>0, ReportIsDeleted
  <2> HIDE DEF v
  <2>3. Keeps(ui', v, {"timers"}) /\ ui'.timers = v.timers - 1
    BY <1>0, <2>1, <2>2 DEF Deleted, Keeps, BatchFields
  <2>4. /\ Keeps(ui', ui, {"deleted", "stored", "shown", "timers"}) /\ ui'.timers = ui.timers - 1
        /\ ui'.deleted = ui.deleted \cup ({ui.stored} \ {0})
        /\ ui'.stored = 0 /\ ui'.shown = "NotStarted"
    BY <1>0, <2>2, <2>3 DEF Deleted, Keeps, BatchFields
  <2>5. ui'.deleted \subseteq Batch!Ids /\ ui'.timers \in 0 .. 2
    <3>1. ui.ids # 0 => ui.ids \in Batch!Ids
      BY DEF BatchInv, BatchTypes, Batch!Ids
    <3>2. ui'.deleted \subseteq Batch!Ids
      BY <2>4, <3>1 DEF BatchInv, BatchTypes
    <3>3. ui.timers > 0 /\ ui'.timers = ui.timers - 1
      BY <2>1, <2>4
    <3>4. ui'.timers \in 0 .. 2
      BY <1>t, <3>3
    <3> QED BY <3>2, <3>4
  <2> QED BY <1>0, <2>1, <2>4, <2>5 DEF BatchInv, BatchTypes, OneFile, Keeps, BatchFields, Ends
<1>12. CASE Batch!ConfirmDismissNotification
  <2> DEFINE v == Batch!ReportDeleted(ui)
  <2>1. ui' = [v EXCEPT !.confirm = FALSE] /\ ui.confirm
    BY <1>12 DEF Batch!ConfirmDismissNotification
  <2>2. Deleted(v, ui)
    BY <1>0, ReportIsDeleted
  <2> HIDE DEF v
  <2>3. Keeps(ui', v, {"confirm"}) /\ ~ui'.confirm
    BY <1>0, <2>1, <2>2 DEF Deleted, Keeps, BatchFields
  <2>4. /\ Keeps(ui', ui, {"deleted", "stored", "shown", "confirm"})
        /\ ui'.deleted = ui.deleted \cup ({ui.stored} \ {0})
        /\ ui'.stored = 0 /\ ui'.shown = "NotStarted"
    BY <1>0, <2>2, <2>3 DEF Deleted, Keeps, BatchFields
  <2>5. ui'.deleted \subseteq Batch!Ids
    <3>1. ui.ids # 0 => ui.ids \in Batch!Ids
      BY DEF BatchInv, BatchTypes, Batch!Ids
    <3> QED BY <2>4, <3>1 DEF BatchInv, BatchTypes
  <2> QED BY <1>0, <2>1, <2>3, <2>4, <2>5
          DEF BatchInv, BatchTypes, OneFile, Keeps, BatchFields, Ends
<1>7. CASE Batch!StatusAnswered
  <2> PICK watch \in ui.asking :
        LET heard == [ui EXCEPT !.asking = @ \ {watch}]
            how == ui.finished[watch.file]
        IN  \/ ui' = heard
            \/ /\ how # "running"
               /\ ui' = IF watch.old THEN Batch!Cleared(heard)
                        ELSE Batch!UpdateStatus(Batch!Cleared(heard), how, watch.file)
            \/ ui' = [Batch!Cleared(heard) EXCEPT !.lost = TRUE]
    BY <1>7 DEF Batch!StatusAnswered
  <2> DEFINE heard == [ui EXCEPT !.asking = @ \ {watch}]
             how == ui.finished[watch.file]
             cleared == Batch!Cleared(heard)
  <2>1. /\ Keeps(heard, ui, {"asking"}) /\ heard.asking = ui.asking \ {watch}
    BY <1>0 DEF Keeps, BatchFields
  <2>2. Keeps(cleared, ui, {"asking", "polls"})
        /\ cleared.asking = ui.asking \ {watch} /\ cleared.polls \subseteq ui.polls
    BY <1>0, <2>1 DEF Batch!Cleared, Keeps, BatchFields
  <2>3. watch.file \in Batch!Ids /\ how \in Ends \cup {"running"}
    BY DEF BatchInv, BatchTypes, Batch!Watches
  <2>4. ~ui.overlapped => ~watch.old /\ watch.file = ui.ids
    BY DEF BatchInv, OneFile, Batch!Watch
  <2>5. \/ ui' = heard
        \/ how # "running" /\ watch.old /\ ui' = cleared
        \/ how # "running" /\ ~watch.old /\ ui' = Batch!UpdateStatus(cleared, how, watch.file)
        \/ ui' = [cleared EXCEPT !.lost = TRUE]
    OBVIOUS
  <2> HIDE DEF heard, how, cleared
  <2>6. CASE ui' = heard
    BY <2>1, <2>6 DEF BatchInv, BatchTypes, OneFile, Keeps, BatchFields
  <2>7. CASE watch.old /\ ui' = cleared
    BY <2>2, <2>4, <2>7 DEF BatchInv, BatchTypes, OneFile, Keeps, BatchFields
  <2>8. CASE how # "running" /\ ui' = Batch!UpdateStatus(cleared, how, watch.file)
    <3>1. DOMAIN cleared = BatchFields
      BY <1>0, <2>2 DEF Keeps
    <3> DEFINE v == Batch!UpdateStatus(cleared, how, watch.file)
    <3>v. Updated(v, cleared, how, watch.file)
      BY <3>1, StatusUpdated
    <3>2. ui' = v
      BY <2>8
    <3> HIDE DEF v
    <3>3. how \in Ends /\ how \in Batch!Stages /\ how # "Inprogress"
      BY <2>3, <2>8 DEF Ends, Batch!Stages
    <3>4. /\ Keeps(ui', ui, {"asking", "polls", "status", "shown", "about", "offered"})
          /\ ui'.asking = ui.asking \ {watch} /\ ui'.polls \subseteq ui.polls
          /\ \/ ui'.status = ui.status /\ ui'.shown = ui.shown /\ ui'.about = ui.about
                /\ ui'.offered = ui.offered /\ ui.status = how
             \/ ui'.status = how /\ ui'.shown = how /\ ui'.about = watch.file
                /\ ui'.offered = ui.offered \cup {watch.file}
      BY <1>0, <2>2, <3>v, <3>2, <3>3 DEF Updated, Keeps, BatchFields
    <3> QED BY <1>0, <2>3, <2>4, <3>3, <3>4
            DEF BatchInv, BatchTypes, OneFile, Keeps, BatchFields
  <2>9. CASE ui' = [cleared EXCEPT !.lost = TRUE]
    <3>1. Keeps(ui', ui, {"asking", "polls", "lost"}) /\ ui'.asking = ui.asking \ {watch}
          /\ ui'.polls \subseteq ui.polls /\ ui'.lost
      BY <1>0, <2>2, <2>9 DEF Keeps, BatchFields
    <3> QED BY <3>1 DEF BatchInv, BatchTypes, OneFile, Keeps, BatchFields
  <2> QED BY <2>5, <2>6, <2>7, <2>8, <2>9
<1>13. CASE Batch!ComeBack
  <2> DEFINE Old(watches) == {[watch EXCEPT !.old = TRUE] : watch \in watches}
             left == Old(ui.polls \ {Batch!Watch(ui.handle)})
             asking == Old(ui.asking)
             u == [Batch!Fresh EXCEPT
                    !.stored = ui.stored, !.finished = ui.finished, !.ids = ui.ids,
                    !.deleted = ui.deleted, !.offered = ui.offered,
                    !.late = ui.late \/ ui.overlapped,
                    !.polls = left, !.asking = asking,
                    !.overlapped = left # {} \/ ui.asking # {}]
  <2>1. ui' = Batch!Watched(u)
    BY <1>13 DEF Batch!ComeBack
  <2>2. left \subseteq Batch!Watches /\ asking \subseteq Batch!Watches
    BY DEF BatchInv, BatchTypes, Batch!Watches
  <2>3. ui.asking = {} => asking = {}
    OBVIOUS
  <2> HIDE DEF Old, left, asking
  <2>4. /\ DOMAIN u = BatchFields
        /\ u.stored = ui.stored /\ u.finished = ui.finished /\ u.ids = ui.ids
        /\ u.deleted = ui.deleted /\ u.offered = ui.offered
        /\ u.polls = left /\ u.asking = asking
        /\ u.late = (ui.late \/ ui.overlapped)
        /\ u.overlapped = (left # {} \/ ui.asking # {})
    BY DEF Batch!Fresh, BatchFields
  <2>5. /\ u.handle = 0 /\ u.about = 0 /\ u.status = "NotStarted" /\ u.shown = "NotStarted"
        /\ u.timers = 0 /\ ~u.uploading /\ ~u.confirm
    BY DEF Batch!Fresh, Batch!NoFile
  <2> HIDE DEF u
  <2>6. u.late \in BOOLEAN /\ u.overlapped \in BOOLEAN
        /\ (~u.late => ~ui.late /\ ~ui.overlapped)
        /\ (~u.overlapped => left = {} /\ asking = {})
    BY <2>3, <2>4
  <2>7. CASE ui.stored = 0
    <3>1. ui' = u
      BY <2>1, <2>4, <2>7 DEF Batch!Watched, Batch!NoFile
    <3>2. BatchTypes(u)
      BY <1>t, <2>2, <2>4, <2>5, <2>6 DEF BatchInv, BatchTypes, Batch!Stages
    <3>3. u.overlapped \/ OneFile(u)
      BY <2>4, <2>5, <2>6, <2>7 DEF BatchInv, OneFile, Ends
    <3> QED BY <2>4, <2>5, <2>7, <3>1, <3>2, <3>3 DEF BatchInv
  <2>8. CASE ui.stored # 0
    <3> DEFINE watch == Batch!Watch(ui.stored)
    <3>1. ui' = [u EXCEPT !.asking = @ \cup {watch}, !.polls = @ \cup {watch}, !.handle = ui.stored]
      BY <2>1, <2>4, <2>8 DEF Batch!Watched, Batch!NoFile
    <3>2. ui.stored = ui.ids /\ ui.stored \in Batch!Ids /\ watch \in Batch!Watches
      BY <1>t, <2>8 DEF BatchInv, Batch!Ids, Batch!Watch, Batch!Watches
    <3> HIDE DEF watch
    <3>3. /\ Keeps(ui', u, {"asking", "polls", "handle"})
          /\ ui'.asking = asking \cup {watch} /\ ui'.polls = left \cup {watch}
          /\ ui'.handle = ui.stored
      BY <2>4, <3>1 DEF Keeps, BatchFields
    <3>7. /\ ui'.finished = ui.finished /\ ui'.ids = ui.ids /\ ui'.timers = 0
          /\ ui'.about = 0 /\ ui'.status = "NotStarted" /\ ui'.late = u.late
          /\ ui'.deleted = ui.deleted /\ ui'.offered = ui.offered
          /\ ui'.overlapped = u.overlapped
      BY <2>4, <2>5, <3>3 DEF Keeps, BatchFields
    <3>8. ui'.asking \subseteq Batch!Watches /\ ui'.polls \subseteq Batch!Watches
      BY <2>2, <3>2, <3>3
    <3>4. BatchTypes(ui')
      BY <2>6, <3>2, <3>3, <3>7, <3>8 DEF BatchInv, BatchTypes, Batch!Stages
    <3>5. ui'.overlapped \/ OneFile(ui')
      BY <2>4, <2>5, <2>6, <3>2, <3>3 DEF BatchInv, OneFile, Keeps, BatchFields, Ends, watch
    <3>6. DOMAIN ui' = BatchFields /\ ui'.stored = ui'.ids /\ ui'.shown = "NotStarted"
          /\ ~ui'.uploading
      BY <2>4, <2>5, <3>2, <3>3 DEF Keeps, BatchFields
    <3> QED BY <3>4, <3>5, <3>6 DEF BatchInv
  <2> QED BY <2>7, <2>8
<1> QED BY <1>1, <1>2, <1>3, <1>4, <1>5, <1>6, <1>7, <1>8, <1>9, <1>10, <1>11, <1>12, <1>13
        DEF Batch!BatchNext

LEMMA BatchHolds ==
    ASSUME Batch!Here => BatchInv(ui)
    PROVE  /\ Batch!TypeOK /\ Batch!ReportsTheLatest /\ Batch!ProgressIsWatched
           /\ Batch!DeletesShownReports
<1>1. Batch!TypeOK
  BY FormsAssumption DEF BatchInv, BatchTypes, Batch!TypeOK, Batch!NoFile, Batch!Ids,
     Batch!Stages, Batch!BatchAssumption
<1>2. Batch!ReportsTheLatest /\ Batch!ProgressIsWatched /\ Batch!DeletesShownReports
  BY DEF BatchInv, OneFile, Ends, Batch!ReportsTheLatest, Batch!ProgressIsWatched,
     Batch!DeletesShownReports, Batch!HasResult
<1> QED BY <1>1, <1>2

-----------------------------------------------------------------------------
(***************************************************************************)
(* The tabs of the providers.                                              *)
(***************************************************************************)
TabsFields ==
    {"asked", "providersLoading", "lost", "provider", "active", "tabs", "loading", "reading",
     "numbersOf", "totalsOf", "crossed"}

\* Alone under way, a reading is of the provider that is shown.
Uncrossed(u) ==
    ~u.crossed =>
        /\ \A read \in u.reading : read.provider = u.provider
        /\ u.numbersOf \in {u.provider, 0}

TabsInv(u) ==
    /\ DOMAIN u = TabsFields
    /\ u.provider \in Tabs!Providers \cup {0}
    /\ u.numbersOf \in Tabs!Providers \cup {0} /\ u.totalsOf \in Tabs!Providers \cup {0}
    /\ u.reading \subseteq [provider : Tabs!Providers, stage : {"numbers", "totals"}]
    /\ u.crossed \in BOOLEAN /\ u.tabs \in {{}, Tabs!Tabs}
    /\ u.providersLoading => u.provider = 0 /\ u.tabs = {} /\ u.reading = {}
    /\ Uncrossed(u)
    /\ ~u.providersLoading =>
          \/ u.active = u.provider /\ u.active \in u.tabs
          \/ u.asked \notin {0} \cup Tabs!Tabs
    /\ u.loading => u.reading # {} \/ u.provider = 0
    /\ u.provider = 0 => u.providersLoading \/ u.asked \notin {0} \cup Tabs!Providers

LEMMA TabsMounted == \A chosen : TabsInv(Tabs!Mounted(chosen))
<1> SUFFICES ASSUME NEW chosen PROVE TabsInv(Tabs!Mounted(chosen))
  OBVIOUS
<1> DEFINE u == Tabs!Mounted(chosen)
<1>1. /\ DOMAIN u = TabsFields /\ u.providersLoading /\ u.provider = 0 /\ u.tabs = {}
      /\ u.reading = {} /\ u.numbersOf = 0 /\ u.totalsOf = 0 /\ u.crossed \in BOOLEAN
  BY DEF Tabs!Mounted, Tabs!Nothing, TabsFields
<1> HIDE DEF u
<1>2. TabsInv(u)
  BY <1>1 DEF TabsInv, Uncrossed
<1> QED BY <1>2 DEF u

\* A provider that is not shown yet is shown, and its numbers are read.
ProviderShown(v, u, provider) ==
    /\ Keeps(v, u, {"provider", "loading", "numbersOf", "crossed", "reading"})
    /\ v.provider = provider /\ v.numbersOf = 0
    /\ v.crossed = (u.crossed \/ u.reading # {})
    /\ v.reading = u.reading \cup {Tabs!Reading(provider, "numbers")}

LEMMA ProviderChanged ==
    ASSUME NEW u, DOMAIN u = TabsFields, NEW provider
    PROVE  \/ /\ Tabs!Changed(u, provider) = u
              /\ provider = u.provider \/ provider \notin Tabs!Providers
           \/ provider \in Tabs!Providers /\ ProviderShown(Tabs!Changed(u, provider), u, provider)
<1> DEFINE w == [u EXCEPT !.provider = provider]
           v == Tabs!Changed(u, provider)
<1>1. w.provider = provider /\ Keeps(w, u, {"provider"}) /\ DOMAIN w = TabsFields
  BY DEF Keeps, TabsFields
<1>2. CASE provider = u.provider \/ provider \notin Tabs!Providers
  BY <1>2 DEF Tabs!Changed
<1>3. CASE ~(provider = u.provider \/ provider \notin Tabs!Providers)
  <2>1. v = Tabs!GetSourceCoverageData(w)
    BY <1>3 DEF Tabs!Changed
  <2> HIDE DEF w, v
  <2>2. /\ Keeps(v, w, {"loading", "numbersOf", "crossed", "reading"})
        /\ v.numbersOf = 0 /\ v.crossed = (w.crossed \/ w.reading # {})
        /\ v.reading = w.reading \cup {Tabs!Reading(w.provider, "numbers")}
    BY <1>1, <2>1 DEF Tabs!GetSourceCoverageData, Tabs!Nothing, Keeps, TabsFields
  <2>3. /\ Keeps(v, u, {"provider", "loading", "numbersOf", "crossed", "reading"})
        /\ v.provider = provider /\ w.crossed = u.crossed /\ w.reading = u.reading
    BY <1>1, <2>2 DEF Keeps, TabsFields
  <2>4. ProviderShown(v, u, provider)
    BY <1>1, <2>2, <2>3 DEF ProviderShown
  <2> QED BY <1>3, <2>4 DEF v
<1> QED BY <1>2, <1>3

LEMMA TabsStep == TabsInv(ui) /\ Tabs!AccountTabsNext => TabsInv(ui')
<1> SUFFICES ASSUME TabsInv(ui), Tabs!AccountTabsNext PROVE TabsInv(ui')
  OBVIOUS
<1>0. DOMAIN ui = TabsFields
  BY DEF TabsInv
<1>p. Tabs!Providers = {1, 2, 4} /\ Tabs!Tabs = {1, 2}
  BY DEF Tabs!Providers, Tabs!Proxy, Tabs!Tabs
<1>1. ASSUME NEW result, Tabs!ProvidersAnswered(result) PROVE TabsInv(ui')
  <2> DEFINE first == IF ui.asked = 0 THEN 1 ELSE ui.asked
             u == [ui EXCEPT !.providersLoading = FALSE, !.tabs = Tabs!Tabs, !.active = first]
  <2>1. ui.providersLoading
        /\ \/ ui' = [ui EXCEPT !.lost = TRUE]
           \/ ui' = Tabs!Changed(u, first)
    BY <1>1 DEF Tabs!ProvidersAnswered, Tabs!Nothing
  <2>2. CASE ui' = [ui EXCEPT !.lost = TRUE]
    <3>1. Keeps(ui', ui, {"lost"})
      BY <1>0, <2>2 DEF Keeps, TabsFields
    <3> QED BY <3>1 DEF TabsInv, Uncrossed, Keeps, TabsFields
  <2>3. CASE ui' = Tabs!Changed(u, first)
    <3>1. /\ Keeps(u, ui, {"providersLoading", "tabs", "active"}) /\ ~u.providersLoading
          /\ u.tabs = Tabs!Tabs /\ u.active = first /\ DOMAIN u = TabsFields
      BY <1>0 DEF Keeps, TabsFields
    <3>2. /\ u.provider = 0 /\ u.reading = {} /\ u.asked = ui.asked /\ u.crossed = ui.crossed
          /\ u.numbersOf = ui.numbersOf /\ u.totalsOf = ui.totalsOf
      BY <2>1, <3>1 DEF TabsInv, Keeps, TabsFields
    <3>3. first \in {0} \cup Tabs!Tabs <=> ui.asked \in {0} \cup Tabs!Tabs
      BY <1>p
    <3>4. first \in Tabs!Providers <=> ui.asked \in {0} \cup Tabs!Providers
      BY <1>p
    <3>5. first # 0
      OBVIOUS
    <3> HIDE DEF u, first
    <3>6. CASE ui' = u /\ first \notin Tabs!Providers
      <4>1. u.asked \notin {0} \cup Tabs!Providers /\ u.asked \notin {0} \cup Tabs!Tabs
        BY <1>p, <3>2, <3>4, <3>6
      <4>2. u.numbersOf = 0 \/ u.crossed
        BY <2>1, <3>2 DEF TabsInv, Uncrossed
      <4>3. u.crossed \in BOOLEAN /\ u.numbersOf \in Tabs!Providers \cup {0}
            /\ u.totalsOf \in Tabs!Providers \cup {0}
        BY <3>2 DEF TabsInv
      <4> QED BY <3>1, <3>2, <3>6, <4>1, <4>2, <4>3 DEF TabsInv, Uncrossed
    <3>7. CASE first \in Tabs!Providers /\ ProviderShown(ui', u, first)
      <4> USE DEF ProviderShown
      <4> DEFINE read == Tabs!Reading(first, "numbers")
      <4>1. read.provider = first
            /\ read \in [provider : Tabs!Providers, stage : {"numbers", "totals"}]
        BY <3>7 DEF Tabs!Reading
      <4>2. ui'.reading = {read} /\ ui'.crossed \in BOOLEAN
        BY <3>2, <3>7
      <4>3. /\ DOMAIN ui' = TabsFields /\ ui'.asked = ui.asked /\ ui'.totalsOf = ui.totalsOf
            /\ ~ui'.providersLoading /\ ui'.tabs = Tabs!Tabs /\ ui'.active = first
        BY <3>1, <3>2, <3>7 DEF Keeps, TabsFields
      <4> HIDE DEF read
      <4> QED BY <1>p, <3>3, <3>4, <3>5, <3>7, <4>1, <4>2, <4>3 DEF TabsInv, Uncrossed
    <3> QED BY <2>3, <3>1, <3>2, <3>5, <3>6, <3>7, ProviderChanged
  <2> QED BY <2>1, <2>2, <2>3
<1>2. CASE Tabs!ChangeTab
  <2> PICK tab \in ui.tabs \ {ui.active} : ui' = Tabs!Changed([ui EXCEPT !.active = tab], tab)
    BY <1>2 DEF Tabs!ChangeTab
  <2> DEFINE u == [ui EXCEPT !.active = tab]
  <2>1. Keeps(u, ui, {"active"}) /\ u.active = tab /\ DOMAIN u = TabsFields
    BY <1>0 DEF Keeps, TabsFields
  <2>2. ui' = Tabs!Changed(u, tab)
    OBVIOUS
  <2>3. tab \in {1, 2} /\ ui.tabs = {1, 2} /\ ~ui.providersLoading
    BY <1>p DEF TabsInv
  <2> HIDE DEF u
  <2>4. CASE ui' = u /\ tab = u.provider
    BY <2>1, <2>3, <2>4 DEF TabsInv, Uncrossed, Keeps, TabsFields
  <2>5. CASE ProviderShown(ui', u, tab)
    <3> DEFINE read == Tabs!Reading(tab, "numbers")
    <3>1. read.provider = tab
          /\ read \in [provider : Tabs!Providers, stage : {"numbers", "totals"}]
      BY <1>p, <2>3 DEF Tabs!Reading
    <3> HIDE DEF read
    <3>2. /\ Keeps(ui', ui, {"active", "provider", "loading", "numbersOf", "crossed", "reading"})
          /\ ui'.active = tab /\ ui'.provider = tab /\ ui'.numbersOf = 0
          /\ ui'.reading = ui.reading \cup {read}
          /\ ui'.crossed = (ui.crossed \/ ui.reading # {})
      BY <2>1, <2>5 DEF ProviderShown, Keeps, TabsFields, read
    <3>3. ui'.crossed \in BOOLEAN /\ (~ui'.crossed => ui'.reading = {read})
      BY <3>2
    <3>4. Uncrossed(ui')
      BY <3>1, <3>2, <3>3 DEF Uncrossed
    <3>5. /\ DOMAIN ui' = TabsFields /\ ui'.asked = ui.asked /\ ui'.totalsOf = ui.totalsOf
          /\ ui'.providersLoading = ui.providersLoading /\ ui'.tabs = ui.tabs
      BY <1>0, <3>2 DEF Keeps, TabsFields
    <3>6. tab # 0 /\ tab \in Tabs!Providers /\ tab \in ui.tabs
      BY <1>p, <2>3
    <3>7. ui'.reading \subseteq [provider : Tabs!Providers, stage : {"numbers", "totals"}]
          /\ ui'.reading # {}
      BY <3>1, <3>2 DEF TabsInv
    <3> QED BY <2>3, <3>2, <3>3, <3>4, <3>5, <3>6, <3>7 DEF TabsInv
  <2>6. tab \in Tabs!Providers
    BY <1>p, <2>3
  <2> QED BY <2>1, <2>2, <2>4, <2>5, <2>6, ProviderChanged
<1>3. ASSUME NEW result, Tabs!CoverageAnswered(result) PROVE TabsInv(ui')
  <2> PICK read \in ui.reading :
        LET over == [ui EXCEPT !.reading = @ \ {read}]
        IN  ui' = IF result = "rejected" THEN [over EXCEPT !.loading = FALSE]
                  ELSE IF read.stage = "numbers"
                  THEN [over EXCEPT !.numbersOf = read.provider,
                              !.reading = @ \cup {Tabs!Reading(read.provider, "totals")}]
                  ELSE [over EXCEPT !.totalsOf = read.provider, !.loading = FALSE]
    BY <1>3 DEF Tabs!CoverageAnswered
  <2> DEFINE over == [ui EXCEPT !.reading = @ \ {read}]
             next == Tabs!Reading(read.provider, "totals")
  <2>1. Keeps(over, ui, {"reading"}) /\ over.reading = ui.reading \ {read}
    BY <1>0 DEF Keeps, TabsFields
  <2>2. next.provider = read.provider /\ read.provider \in Tabs!Providers
        /\ next \in [provider : Tabs!Providers, stage : {"numbers", "totals"}]
        /\ ~ui.providersLoading
    BY DEF Tabs!Reading, TabsInv
  <2>3. \/ ui' = [over EXCEPT !.loading = FALSE]
        \/ ui' = [over EXCEPT !.numbersOf = read.provider, !.reading = @ \cup {next}]
        \/ ui' = [over EXCEPT !.totalsOf = read.provider, !.loading = FALSE]
    OBVIOUS
  <2> HIDE DEF over, next
  <2>4. CASE ui' = [over EXCEPT !.loading = FALSE]
    <3>1. Keeps(ui', ui, {"reading", "loading"}) /\ ui'.reading = ui.reading \ {read}
          /\ ~ui'.loading
      BY <1>0, <2>1, <2>4 DEF Keeps, TabsFields
    <3> QED BY <2>2, <3>1 DEF TabsInv, Uncrossed, Keeps, TabsFields
  <2>5. CASE ui' = [over EXCEPT !.numbersOf = read.provider, !.reading = @ \cup {next}]
    <3>1. /\ Keeps(ui', ui, {"reading", "numbersOf"}) /\ ui'.numbersOf = read.provider
          /\ ui'.reading = (ui.reading \ {read}) \cup {next}
      BY <1>0, <2>1, <2>5 DEF Keeps, TabsFields
    <3> QED BY <2>2, <3>1 DEF TabsInv, Uncrossed, Keeps, TabsFields
  <2>6. CASE ui' = [over EXCEPT !.totalsOf = read.provider, !.loading = FALSE]
    <3>1. /\ Keeps(ui', ui, {"reading", "totalsOf", "loading"}) /\ ui'.totalsOf = read.provider
          /\ ui'.reading = ui.reading \ {read} /\ ~ui'.loading
      BY <1>0, <2>1, <2>6 DEF Keeps, TabsFields
    <3> QED BY <2>2, <3>1 DEF TabsInv, Uncrossed, Keeps, TabsFields
  <2> QED BY <2>3, <2>4, <2>5, <2>6
<1> QED BY <1>1, <1>2, <1>3 DEF Tabs!AccountTabsNext

LEMMA TabsHolds ==
    ASSUME Tabs!Here => TabsInv(ui)
    PROVE  /\ Tabs!TypeOK /\ Tabs!NumbersOfProvider /\ Tabs!ShowsActiveTab
           /\ Tabs!WaitsForSomething
  BY DEF TabsInv, Uncrossed, Tabs!TypeOK, Tabs!NumbersOfProvider, Tabs!ShowsActiveTab,
     Tabs!WaitsForSomething, Tabs!Nothing

-----------------------------------------------------------------------------
(***************************************************************************)
(* Adding an account.                                                      *)
(***************************************************************************)
AccountFields ==
    {"provider", "tab", "account", "region", "loading", "regions", "asking", "visit", "sent"}

\* A form that is open waits for what it sent, and has sent one thing.
AccountInv(u) ==
    /\ DOMAIN u = AccountFields
    /\ u.tab \in NewAccount!TabsOf(u.provider) /\ u.region \in NewAccount!Regions
    /\ u.visit \in 1 .. 3
    /\ \A send \in u.sent : send.visit \in 1 .. u.visit /\ (send.visit = u.visit => u.loading)
    /\ \A one, other \in u.sent : one.visit = other.visit => one = other

LEMMA AccountMounted ==
    ASSUME NEW provider \in {1, 2}
    PROVE  AccountInv(NewAccount!Mounted(provider))
<1> DEFINE u == NewAccount!Mounted(provider)
<1>1. /\ DOMAIN u = AccountFields /\ u.provider = provider
      /\ u.tab = (IF provider = 1 THEN "individual" ELSE "proxy") /\ u.region = "none"
      /\ u.visit = 1 /\ u.sent = {}
  BY DEF NewAccount!Mounted, NewAccount!Opened, AccountFields
<1> HIDE DEF u
<1>2. u.tab \in NewAccount!TabsOf(u.provider)
  BY <1>1 DEF NewAccount!TabsOf
<1>3. AccountInv(u)
  BY <1>1, <1>2 DEF AccountInv, NewAccount!Regions
<1> QED BY <1>3 DEF u

LEMMA AccountStep ==
    AccountInv(ui) /\ NewAccount!AddAccountNext => AccountInv(ui') \/ ui' = [closed |-> TRUE]
<1> SUFFICES ASSUME AccountInv(ui), NewAccount!AddAccountNext
             PROVE  AccountInv(ui') \/ ui' = [closed |-> TRUE]
  OBVIOUS
<1>0. DOMAIN ui = AccountFields /\ ui.visit \in 1 .. 3
  BY DEF AccountInv
<1>1. CASE NewAccount!ChangeTab
  <2> PICK tab \in NewAccount!TabsOf(ui.provider) : ui' = NewAccount!Opened(ui, tab)
    BY <1>1 DEF NewAccount!ChangeTab
  <2>1. /\ Keeps(ui', ui, {"tab", "account", "region", "loading", "regions", "asking", "visit"})
        /\ ui'.tab = tab /\ ui'.region = "none" /\ ui'.visit = ui.visit + 1
    BY <1>0 DEF NewAccount!Opened, Keeps, AccountFields
  <2>2. ui.visit < 3
    BY <1>1 DEF NewAccount!ChangeTab, NewAccount!MaxVisits
  <2>3. /\ DOMAIN ui' = AccountFields /\ ui'.provider = ui.provider /\ ui'.sent = ui.sent
        /\ ui'.visit \in 1 .. 3
    BY <1>0, <2>1, <2>2 DEF Keeps, AccountFields
  <2>4. \A send \in ui'.sent : send.visit \in 1 .. ui'.visit /\ send.visit # ui'.visit
    BY <1>0, <2>1, <2>3 DEF AccountInv
  <2> QED BY <2>1, <2>3, <2>4 DEF AccountInv, NewAccount!Regions
<1>2. ASSUME NEW result, NewAccount!RegionsAnswered(result) PROVE AccountInv(ui')
  <2>1. Keeps(ui', ui, {"asking", "regions"})
    BY <1>0, <1>2 DEF NewAccount!RegionsAnswered, Keeps, AccountFields
  <2> QED BY <2>1 DEF AccountInv, Keeps, AccountFields
<1>3. CASE NewAccount!ChangeAccount
  <2>1. Keeps(ui', ui, {"account"})
    BY <1>0, <1>3 DEF NewAccount!ChangeAccount, Keeps, AccountFields
  <2> QED BY <2>1 DEF AccountInv, Keeps, AccountFields
<1>4. CASE NewAccount!ChangeRegion
  <2>1. Keeps(ui', ui, {"region"}) /\ ui'.region = "region"
    BY <1>0, <1>4 DEF NewAccount!ChangeRegion, Keeps, AccountFields
  <2> QED BY <2>1 DEF AccountInv, Keeps, AccountFields, NewAccount!Regions
<1>5. CASE NewAccount!AddThisAccount
  <2> DEFINE send == [form |-> ui.tab, visit |-> ui.visit,
                      nth |-> NewAccount!Cardinality(ui.sent), region |-> ui.region]
  <2>1. send.visit = ui.visit
    OBVIOUS
  <2>2. ui' = [ui EXCEPT !.loading = TRUE, !.sent = @ \cup {send}] /\ ~ui.loading
    BY <1>0, <1>5 DEF NewAccount!AddThisAccount, NewAccount!CanAdd, AccountFields
  <2> HIDE DEF send
  <2>3. Keeps(ui', ui, {"loading", "sent"}) /\ ui'.loading /\ ui'.sent = ui.sent \cup {send}
    BY <1>0, <2>2 DEF Keeps, AccountFields
  <2> QED BY <1>0, <2>1, <2>2, <2>3 DEF AccountInv, Keeps, AccountFields
<1>6. ASSUME NEW result, NewAccount!AddAnswered(result)
      PROVE  AccountInv(ui') \/ ui' = [closed |-> TRUE]
  <2> PICK send \in ui.sent :
        ui' = IF result = "resolved" THEN [closed |-> TRUE]
              ELSE [ui EXCEPT !.sent = @ \ {send}, !.loading = @ /\ send.visit # ui.visit]
    BY <1>6 DEF NewAccount!AddAnswered
  <2>1. CASE ui' = [ui EXCEPT !.sent = @ \ {send}, !.loading = @ /\ send.visit # ui.visit]
    <3>1. /\ Keeps(ui', ui, {"sent", "loading"}) /\ ui'.sent = ui.sent \ {send}
          /\ ui.loading /\ send.visit # ui.visit => ui'.loading
      BY <1>0, <2>1 DEF Keeps, AccountFields
    <3>2. /\ DOMAIN ui' = AccountFields /\ ui'.provider = ui.provider /\ ui'.tab = ui.tab
          /\ ui'.region = ui.region /\ ui'.visit = ui.visit
      BY <1>0, <3>1 DEF Keeps, AccountFields
    <3>3. \A other \in ui'.sent : other.visit = ui'.visit => ui'.loading
      BY <3>1, <3>2 DEF AccountInv
    <3> QED BY <3>1, <3>2, <3>3 DEF AccountInv
  <2> QED BY <2>1
<1>7. CASE NewAccount!Back
  BY <1>7 DEF NewAccount!Back
<1> QED BY <1>1, <1>2, <1>3, <1>4, <1>5, <1>6, <1>7 DEF NewAccount!AddAccountNext

LEMMA AccountHolds ==
    ASSUME NewAccount!Here => AccountInv(ui)
    PROVE  /\ NewAccount!TypeOK /\ NewAccount!AddsOneAtATime
  BY DEF AccountInv, NewAccount!TypeOK, NewAccount!AddsOneAtATime, NewAccount!MaxVisits

-----------------------------------------------------------------------------
(***************************************************************************)
(* The invariant of whichever of these pages is shown.                     *)
(***************************************************************************)
FormsInv ==
    /\ AddJdbc!Here => AddInv(ui)
    /\ EditJdbc!Here => EditInv(ui)
    /\ Runs!Here => RunsInv(ui)
    /\ Schema!Here => SchemaInv(ui)
    /\ Labels!Here => LabelInv(ui)
    /\ Props!Here => PropsInv(ui)
    /\ Form!Here => FormInv(ui)
    /\ Batch!Here => BatchInv(ui)
    /\ Tabs!Here => TabsInv(ui)
    /\ NewAccount!Here => AccountInv(ui)
    /\ Settings!Here => SetInv(ui)

-----------------------------------------------------------------------------
(***************************************************************************)
(* The filter above the tables, beside whatever page is shown.             *)
(***************************************************************************)
USE DEF filterVars, Filter!filterVars

LEMMA FilterStep ==
    ASSUME FilterOfProperty, Filter!FilterNext
    PROVE  FilterOfProperty'
<1> USE DEF FilterOfProperty, Filter!OptionsOfProperty, Filter!LoadingIsAnswered
<1>1. ASSUME NEW p \in Properties \cup {NoProperty}, Filter!HandleLoadItems(p)
      PROVE  FilterOfProperty'
  BY <1>1 DEF Filter!HandleLoadItems
<1>2. ASSUME NEW p \in Properties \cup {NoProperty}, Filter!Fetched(p)
      PROVE  FilterOfProperty'
  <2>1. CASE wanted = p
    BY <1>2, <2>1 DEF Filter!Fetched, Filter!UpToDate
  <2>2. CASE wanted # p
    BY <1>2, <2>2 DEF Filter!Fetched, Filter!UpToDate
  <2> QED BY <2>1, <2>2
<1>3. ASSUME NEW p \in Properties \cup {NoProperty}, Filter!FetchFailed(p)
      PROVE  FilterOfProperty'
  BY <1>3 DEF Filter!FetchFailed
<1> QED BY <1>1, <1>2, <1>3 DEF Filter!FilterNext

\* The values a filter offers are those of the property the user chose last, and
\* a filter that says it is loading has a request under way for them: answers
\* that overtake each other are dropped (request.current of the hook).
THEOREM FilterFollowsProperty == Spec => []FilterOfProperty
<1>1. Init => FilterOfProperty
  BY DEF Init, Filter!FilterInit, FilterOfProperty, Filter!OptionsOfProperty,
         Filter!LoadingIsAnswered
<1>2. FilterOfProperty /\ [Next]_vars => FilterOfProperty'
  <2>1. FilterOfProperty /\ UNCHANGED filterVars => FilterOfProperty'
    BY DEF FilterOfProperty, Filter!OptionsOfProperty, Filter!LoadingIsAnswered
  <2> QED BY <2>1, FilterStep DEF Next, FilterNext, vars
<1> QED BY <1>1, <1>2, PTL DEF Spec

-----------------------------------------------------------------------------
(***************************************************************************)
(* Forms and dialogs.  XFrame: a page X that is shown after a step was     *)
(* entered by it, or was shown before and made the step or none.           *)
(***************************************************************************)
USE DEF Sources!Here, AddJdbc!Here, EditJdbc!Here, Jobs!Here, Runs!Here, Run!Here,
        Catalog!Here, Folder!Here, Schema!Here, Labels!Here, Props!Here, Identifiers!Here,
        Form!Here, Template!Here, Adding!Here, Batch!Here, Accounts!Here, Tabs!Here,
        NewAccount!Here, Settings!Here, Picker!Here

LEMMA AddFrame ==
    ASSUME [Next]_vars, AddJdbc!Here'
    PROVE  \/ ui' \in {AddJdbc!Mounted(aws, IF aws THEN 0 ELSE 1) : aws \in BOOLEAN}
           \/ AddJdbc!Here /\ UNCHANGED ui
           \/ AddJdbc!Here /\ AddJdbc!ConnectionNext /\ ui' # Closed
  BY DEF Next, Open, Leave, PageNext, Stays, Pages, Enter, FilterNext, vars

LEMMA EditFrame ==
    ASSUME [Next]_vars, EditJdbc!Here'
    PROVE  \/ ui' \in {EditJdbc!Mounted(aws, known) : aws \in BOOLEAN, known \in BOOLEAN}
           \/ EditJdbc!Here /\ UNCHANGED ui
           \/ EditJdbc!Here /\ EditJdbc!EditNext /\ ui' # Closed
  BY DEF Next, Open, Leave, PageNext, Stays, Pages, Enter, FilterNext, vars

LEMMA RunsFrame ==
    ASSUME [Next]_vars, Runs!Here'
    PROVE  \/ ui' \in {Runs!Mounted}
           \/ Runs!Here /\ UNCHANGED ui
           \/ Runs!Here /\ Runs!JobDetailNext /\ ui' # Closed
  BY DEF Next, Open, Leave, PageNext, Stays, Pages, Enter, FilterNext, vars

LEMMA SchemaFrame ==
    ASSUME [Next]_vars, Schema!Here'
    PROVE  \/ ui' \in {Schema!Mounted(fromList) : fromList \in BOOLEAN}
           \/ Schema!Here /\ UNCHANGED ui
           \/ Schema!Here /\ Schema!SchemaNext /\ ui' # Closed
  BY DEF Next, Open, Leave, PageNext, Stays, Pages, Enter, FilterNext, vars

LEMMA LabelsFrame ==
    ASSUME [Next]_vars, Labels!Here'
    PROVE  \/ ui' \in {Labels!Mounted({"a"})}
           \/ Labels!Here /\ UNCHANGED ui
           \/ Labels!Here /\ Labels!LabelsNext /\ ui' # Closed
  BY DEF Next, Open, Leave, PageNext, Stays, Pages, Enter, FilterNext, vars

LEMMA PropsFrame ==
    ASSUME [Next]_vars, Props!Here'
    PROVE  \/ ui' \in {Props!Mounted({"c1", "l1"})}
           \/ Props!Here /\ UNCHANGED ui
           \/ Props!Here /\ Props!PropsNext /\ ui' # Closed
  BY DEF Next, Open, Leave, PageNext, Stays, Pages, Enter, FilterNext, vars

LEMMA FormFrame ==
    ASSUME [Next]_vars, Form!Here'
    PROVE  \/ ui' \in {Form!Mounted(old) : old \in {Form!NewIdentifier} \cup Form!Stored}
           \/ Form!Here /\ UNCHANGED ui
           \/ Form!Here /\ Form!FormNext /\ ui' # Closed
  BY DEF Next, Open, Leave, PageNext, Stays, Pages, Enter, FilterNext, vars

LEMMA BatchFrame ==
    ASSUME [Next]_vars, Batch!Here'
    PROVE  \/ ui' \in {Batch!Mounted}
           \/ Batch!Here /\ UNCHANGED ui
           \/ Batch!Here /\ Batch!BatchNext /\ ui' # Closed
  BY DEF Next, Open, Leave, PageNext, Stays, Pages, Enter, FilterNext, vars

LEMMA TabsFrame ==
    ASSUME [Next]_vars, Tabs!Here'
    PROVE  \/ ui' \in {Tabs!Mounted(provider) : provider \in {0, 1, 2, 4, 9}}
           \/ Tabs!Here /\ UNCHANGED ui
           \/ Tabs!Here /\ Tabs!AccountTabsNext /\ ui' # Closed
  BY DEF Next, Open, Leave, PageNext, Stays, Pages, Enter, FilterNext, vars

LEMMA AccountFrame ==
    ASSUME [Next]_vars, NewAccount!Here'
    PROVE  \/ ui' \in {NewAccount!Mounted(provider) : provider \in {1, 2}}
           \/ NewAccount!Here /\ UNCHANGED ui
           \/ NewAccount!Here /\ NewAccount!AddAccountNext /\ ui' # Closed
  BY DEF Next, Open, Leave, PageNext, Stays, Pages, Enter, FilterNext, vars

LEMMA SetFrame ==
    ASSUME [Next]_vars, Settings!Here'
    PROVE  \/ ui' \in {Settings!Mounted(subnets) : subnets \in [1 .. 2 -> Settings!Addresses]}
           \/ Settings!Here /\ UNCHANGED ui
           \/ Settings!Here /\ Settings!SettingsNext /\ ui' # Closed
  BY DEF Next, Open, Leave, PageNext, Stays, Pages, Enter, FilterNext, vars

LEMMA FormsStep ==
    ASSUME FormsInv, [Next]_vars
    PROVE  FormsInv'
<1>1. ASSUME AddJdbc!Here' PROVE AddInv(ui')
  <2>1. 0 \in 0 .. MaxSaves /\ 1 \in 0 .. MaxSaves
    BY Bounds
  <2>2. \A aws \in BOOLEAN : AddInv(AddJdbc!Mounted(aws, IF aws THEN 0 ELSE 1))
    BY <2>1, AddMounted
  <2> QED BY <1>1, <2>2, AddFrame, AddStep DEF FormsInv
<1>2. ASSUME EditJdbc!Here' PROVE EditInv(ui')
  BY <1>2, EditFrame, EditMounted, EditStep DEF FormsInv
<1>3. ASSUME Runs!Here' PROVE RunsInv(ui')
  BY <1>3, RunsFrame, RunsMounted, RunsStep DEF FormsInv
<1>4. ASSUME Schema!Here' PROVE SchemaInv(ui')
  BY <1>4, SchemaFrame, SchemaMounted, SchemaStep DEF FormsInv, Closed, Schema!Closed
<1>5. ASSUME Labels!Here' PROVE LabelInv(ui')
  BY <1>5, LabelsFrame, LabelsMounted, LabelsStep DEF FormsInv
<1>6. ASSUME Props!Here' PROVE PropsInv(ui')
  BY <1>6, PropsFrame, PropsMounted, PropsStep DEF FormsInv
<1>7. ASSUME Form!Here' PROVE FormInv(ui')
  BY <1>7, FormFrame, FormMounted, FormStep DEF FormsInv, Closed
<1>8. ASSUME Batch!Here' PROVE BatchInv(ui')
  BY <1>8, BatchFrame, BatchMounted, BatchStep DEF FormsInv
<1>9. ASSUME Tabs!Here' PROVE TabsInv(ui')
  BY <1>9, TabsFrame, TabsMounted, TabsStep DEF FormsInv
<1>10. ASSUME NewAccount!Here' PROVE AccountInv(ui')
  BY <1>10, AccountFrame, AccountMounted, AccountStep DEF FormsInv, Closed
<1>11. ASSUME Settings!Here' PROVE SetInv(ui')
  BY <1>11, SetFrame, SetMounted, SetStep DEF FormsInv
<1> QED BY <1>1, <1>2, <1>3, <1>4, <1>5, <1>6, <1>7, <1>8, <1>9, <1>10, <1>11 DEF FormsInv

\* Whatever form or dialog is shown, however it came to be shown, its state
\* satisfies the invariant of its page: the fields and the object that is sent,
\* the calls under way and the buttons that wait for them, the lists and the
\* reads that still are to come belong together.
THEOREM FormsKeepTheirInvariant == Spec => []FormsInv
<1>1. Init => FormsInv
  BY DEF Init, FormsInv
<1>2. FormsInv /\ [Next]_vars => FormsInv'
  BY FormsStep
<1> QED BY <1>1, <1>2, PTL DEF Spec

\* Databases that were found for one kind of connection are never in the object
\* that is sent with an URL of another kind, though the search is answered after
\* the kind was changed (schema and jdbc_connection of the dialogs).
THEOREM DatabasesAreOfTheirKind == Spec => []FoundForThisKind
<1>1. FormsInv => FoundForThisKind
  BY AddHolds, EditHolds DEF FormsInv, FoundForThisKind
<1> QED BY <1>1, FormsKeepTheirInvariant, PTL

\* What a dialog for a connection sends when it saves is what its fields show,
\* though the object that is sent is kept apart from them, late answers fill
\* either, and changes reset them; and the columns that are saved are those that
\* were edited.
THEOREM FormsSendWhatTheyShow == Spec => []SavesWhatIsShown
<1>1. FormsInv => SavesWhatIsShown
  BY AddHolds, EditHolds, SchemaHolds DEF FormsInv, SavesWhatIsShown
<1> QED BY <1>1, FormsKeepTheirInvariant, PTL

\* An identifier that is sent has a pattern or a keyword, whichever switches and
\* fields were used before; settings that are saved fit into every subnet, and
\* the estimate that is shown is the one of the numbers that are shown.
THEOREM FormsSendWhatIsValid == Spec => []SavesWhatIsValid
<1>1. FormsInv => SavesWhatIsValid
  BY FormHolds, SetHolds DEF FormsInv, SavesWhatIsValid
<1> QED BY <1>1, FormsKeepTheirInvariant, PTL

\* The result that is shown is the one of the file uploaded last, progress that is
\* shown is uploaded or polled, and a report is deleted only after it was offered
\* - for any number of uploads, unless two polls overlapped.
THEOREM BatchesAreFollowed == Spec => []BatchIsFollowed
<1>1. FormsInv => BatchIsFollowed
  BY BatchHolds DEF FormsInv, BatchIsFollowed
<1> QED BY <1>1, FormsKeepTheirInvariant, PTL

-----------------------------------------------------------------------------
(***************************************************************************)
(* Pages with a table.                                                     *)
(***************************************************************************)
LEMMA SourcesFrame ==
    ASSUME [Next]_vars, Sources!Here'
    PROVE  \/ ui' \in {Sources!Mounted(tag) : tag \in {"s3", "rds", "glue", "jdbc"}}
           \/ Sources!Here /\ UNCHANGED ui
           \/ Sources!Here /\ Sources!ListNext /\ ui' # Closed
  BY DEF Next, Open, Leave, PageNext, Stays, Pages, Enter, FilterNext, vars

LEMMA JobsFrame ==
    ASSUME [Next]_vars, Jobs!Here'
    PROVE  \/ ui' \in {Jobs!Mounted}
           \/ Jobs!Here /\ UNCHANGED ui
           \/ Jobs!Here /\ Jobs!JobListNext /\ ui' # Closed
  BY DEF Next, Open, Leave, PageNext, Stays, Pages, Enter, FilterNext, vars

LEMMA RunFrame ==
    ASSUME [Next]_vars, Run!Here'
    PROVE  \/ ui' \in {Run!Mounted}
           \/ Run!Here /\ UNCHANGED ui
           \/ Run!Here /\ Run!GlueJobNext /\ ui' # Closed
  BY DEF Next, Open, Leave, PageNext, Stays, Pages, Enter, FilterNext, vars

LEMMA CatalogFrame ==
    ASSUME [Next]_vars, Catalog!Here'
    PROVE  \/ ui' \in {Catalog!Mounted(kind,
                          byTag) : kind \in {"s3", "rds", "jdbc"},
                          byTag \in BOOLEAN}
           \/ Catalog!Here /\ UNCHANGED ui
           \/ Catalog!Here /\ Catalog!CatalogNext /\ ui' # Closed
  BY DEF Next, Open, Leave, PageNext, Stays, Pages, Enter, FilterNext, vars

LEMMA FolderFrame ==
    ASSUME [Next]_vars, Folder!Here'
    PROVE  \/ ui' \in {Folder!Mounted(kind) : kind \in {"s3", "rds"}}
           \/ Folder!Here /\ UNCHANGED ui
           \/ Folder!Here /\ Folder!DetailNext /\ ui' # Closed
  BY DEF Next, Open, Leave, PageNext, Stays, Pages, Enter, FilterNext, vars

LEMMA IdentifiersFrame ==
    ASSUME [Next]_vars, Identifiers!Here'
    PROVE  \/ ui' \in {Identifiers!Mounted(custom) : custom \in BOOLEAN}
           \/ Identifiers!Here /\ UNCHANGED ui
           \/ Identifiers!Here /\ Identifiers!IdentifiersNext /\ ui' # Closed
  BY DEF Next, Open, Leave, PageNext, Stays, Pages, Enter, FilterNext, vars

LEMMA TemplateFrame ==
    ASSUME [Next]_vars, Template!Here'
    PROVE  \/ ui' \in {Template!Mounted}
           \/ Template!Here /\ UNCHANGED ui
           \/ Template!Here /\ Template!TemplateNext /\ ui' # Closed
  BY DEF Next, Open, Leave, PageNext, Stays, Pages, Enter, FilterNext, vars

LEMMA AddingFrame ==
    ASSUME [Next]_vars, Adding!Here'
    PROVE  \/ ui' \in {Adding!Mounted(used) : used \in SUBSET Items}
           \/ Adding!Here /\ UNCHANGED ui
           \/ Adding!Here /\ Adding!AddNext /\ ui' # Closed
  BY DEF Next, Open, Leave, PageNext, Stays, Pages, Enter, FilterNext, vars

LEMMA AccountsFrame ==
    ASSUME [Next]_vars, Accounts!Here'
    PROVE  \/ ui' \in {Accounts!Mounted}
           \/ Accounts!Here /\ UNCHANGED ui
           \/ Accounts!Here /\ Accounts!AccountsNext /\ ui' # Closed
  BY DEF Next, Open, Leave, PageNext, Stays, Pages, Enter, FilterNext, vars

LEMMA PickerFrame ==
    ASSUME [Next]_vars, Picker!Here'
    PROVE  \/ ui' \in {Picker!Mounted(kind) : kind \in {"s3", "rds", "glue", "jdbc"}}
           \/ Picker!Here /\ UNCHANGED ui
           \/ Picker!Here /\ Picker!PickerNext /\ ui' # Closed
  BY DEF Next, Open, Leave, PageNext, Stays, Pages, Enter, FilterNext, vars

LEMMA TablesStep ==
    ASSUME TablesInv, [Next]_vars
    PROVE  TablesInv'
<1>1. ASSUME Sources!Here' PROVE SourcesInv(ui')
  BY <1>1, SourcesFrame, SourcesMounted, SourcesStep DEF TablesInv, Sources!Tags
<1>2. ASSUME Jobs!Here' PROVE JobsInv(ui')
  BY <1>2, JobsFrame, JobsMounted, JobsStep DEF TablesInv
<1>3. ASSUME Run!Here' PROVE RunInv(ui')
  BY <1>3, RunFrame, RunMounted, RunStep DEF TablesInv
<1>4. ASSUME Catalog!Here' PROVE CatalogInv(ui')
  BY <1>4, CatalogFrame, CatalogMounted, CatalogStep DEF TablesInv, Catalog!Kinds
<1>5. ASSUME Folder!Here' PROVE FolderInv(ui')
  BY <1>5, FolderFrame, FolderMounted, FolderStep DEF TablesInv
<1>6. ASSUME Identifiers!Here' PROVE IdentifiersInv(ui')
  BY <1>6, IdentifiersFrame, IdentifiersMounted, IdentifiersStep DEF TablesInv
<1>7. ASSUME Template!Here' PROVE TemplateInv(ui')
  BY <1>7, TemplateFrame, TemplateMounted, TemplateStep DEF TablesInv
<1>8. ASSUME Adding!Here' PROVE AddingInv(ui')
  BY <1>8, AddingFrame, AddingMounted, AddingStep DEF TablesInv, Closed
<1>9. ASSUME Accounts!Here' PROVE AccountsInv(ui')
  BY <1>9, AccountsFrame, AccountsMounted, AccountsStep DEF TablesInv
<1>10. ASSUME Picker!Here' PROVE PickerInv(ui')
  BY <1>10, PickerFrame, PickerMounted, PickerStep DEF TablesInv, PickerKinds
<1> QED BY <1>1, <1>2, <1>3, <1>4, <1>5, <1>6, <1>7, <1>8, <1>9, <1>10 DEF TablesInv

\* Whatever page with a table is shown, its state satisfies the invariant of its
\* page: the requests under way, the rows and what they were asked for, the rows
\* that are selected and the operations on them belong together, in whatever
\* order the answers came and whatever the user did between.
THEOREM TablesKeepTheirInvariant == Spec => []TablesInv
<1>1. Init => TablesInv
  BY DEF Init, TablesInv
<1>2. TablesInv /\ [Next]_vars => TablesInv'
  BY TablesStep
<1> QED BY <1>1, <1>2, PTL DEF Spec

\* Whatever page is shown, its state has the type of its page, for any number of
\* pages, items and requests under way.
THEOREM PagesAreTyped == Spec => []TypeOK
<1>1. FormsInv /\ TablesInv => TypeOK
  BY SourcesHolds, AddHolds, EditHolds, JobsHolds, RunsHolds, RunHolds,
     CatalogHolds, FolderHolds, SchemaHolds, LabelsHolds, PropsHolds,
     IdentifiersHolds, FormHolds, TemplateHolds, AddingHolds, BatchHolds,
     AccountsHolds, TabsHolds, AccountHolds, SetHolds, PickerHolds DEF FormsInv,
     TablesInv, TypeOK
<1> QED BY <1>1, FormsKeepTheirInvariant, TablesKeepTheirInvariant, PTL

\* Once the newest request of a table is answered and nothing is under way, the
\* rows are those of the page, the filter and the view that are selected - but for
\* the pages and the cases that the module of a page names, where an answer to an
\* older request overtakes (getPageData of every table).
THEOREM TablesShowWhatIsAsked == Spec => []ShowsWhatIsAsked
<1>1. TablesInv => ShowsWhatIsAsked
  BY SourcesHolds, JobsHolds, RunHolds, CatalogHolds, FolderHolds, IdentifiersHolds,
     TemplateHolds, AccountsHolds, PickerHolds DEF TablesInv, ShowsWhatIsAsked
<1> QED BY <1>1, TablesKeepTheirInvariant, PTL

\* A spinner, and a button that says loading, wait for a call that is under way, or
\* for one that was rejected and is caught by nothing: no order of answers leaves
\* one of them turning for a call that was answered.
THEOREM PagesWaitForACall == Spec => []WaitsForSomething
<1>1. FormsInv /\ TablesInv => WaitsForSomething
  BY SourcesHolds, AddHolds, JobsHolds, RunsHolds, RunHolds, CatalogHolds,
     FolderHolds, SchemaHolds, LabelsHolds, PropsHolds, IdentifiersHolds,
     TemplateHolds, AddingHolds, AccountsHolds, TabsHolds, PickerHolds DEF FormsInv,
     TablesInv, WaitsForSomething
<1> QED BY <1>1, FormsKeepTheirInvariant, TablesKeepTheirInvariant, PTL

\* What the user deletes, removes, adds, renames or opens is what was selected among
\* the rows that are shown, though answers replace rows between the tick and the
\* click - unless it was ticked while an answer was still to come, where nothing
\* clears the selection then, or in another case that the module of a page names.
THEOREM ActionsHitWhatIsShown == Spec => []ActsOnWhatIsShown
<1>1. FormsInv /\ TablesInv => ActsOnWhatIsShown
  BY SourcesHolds, TemplateHolds, AddingHolds, AccountsHolds, LabelsHolds,
     PropsHolds, IdentifiersHolds, CatalogHolds, PickerHolds DEF FormsInv,
     TablesInv, ActsOnWhatIsShown
<1> QED BY <1>1, FormsKeepTheirInvariant, TablesKeepTheirInvariant, PTL

\* A button does not start twice what it creates or adds, and adds nothing to the
\* template that is there - but where the answer of another call gives the button
\* back, or an answer was lost; and no run of a job is listed twice, in whatever
\* order the pages of runs come.
THEOREM NothingIsStartedTwice == Spec => []ActsOnce
<1>1. FormsInv /\ TablesInv => ActsOnce
  BY AddHolds, FormHolds, AddingHolds, AccountHolds, RunsHolds DEF FormsInv,
     TablesInv, ActsOnce
<1> QED BY <1>1, FormsKeepTheirInvariant, TablesKeepTheirInvariant, PTL

\* The privacy of a row of the catalog, and the label and the category of an
\* identifier, are shown as they were saved last, and saving one of the two keeps
\* the other; the switches of the template show what is stored once all is
\* answered, unless storing one failed or overlapped with another save or read.
\* (Not the privacy in the dialog that the list of tables opens.)
THEOREM StoredIsKept == Spec => []KeepsWhatIsStored
<1>1. FormsInv /\ TablesInv => KeepsWhatIsStored
  BY FolderHolds, SchemaHolds, PropsHolds, TemplateHolds DEF FormsInv, TablesInv,
     KeepsWhatIsStored
<1> QED BY <1>1, FormsKeepTheirInvariant, TablesKeepTheirInvariant, PTL

\* What one can choose from exists once the lists were read and answered in order,
\* numbers are those of the provider whose tab is active unless the readings of two
\* tabs crossed, and the progress of a run is a percentage that is 100 only when as
\* many tables have results as the agent has counted, for each kind of data whose
\* tables it could count.
THEOREM ShownExists == Spec => []ShowsWhatExists
<1>1. FormsInv /\ TablesInv => ShowsWhatExists
  BY LabelsHolds, PropsHolds, FormHolds, TabsHolds, RunHolds DEF FormsInv,
     TablesInv, ShowsWhatExists
<1> QED BY <1>1, FormsKeepTheirInvariant, TablesKeepTheirInvariant, PTL
================================================================================
