-------------------------- MODULE PortalTables_proof --------------------------
(***************************************************************************)
(* What each page of PortalTables keeps true of its state, for any         *)
(* constants: first what all tables have in common, then an inductive      *)
(* invariant XInv of the state u of a page X (XMounted: it holds when the  *)
(* page is entered; XStep: its steps keep it), and the properties of the   *)
(* page that follow from it (XHolds).  The theorems about the portal as a  *)
(* whole are in PortalPages_proof.                                         *)
(***************************************************************************)
EXTENDS PortalTables, FiniteSetTheorems, TLAPS

Table == INSTANCE TableRequests

\* What a copy of a record keeps of it.
Keeps(v, u, changed) ==
    DOMAIN v = DOMAIN u /\ \A f \in DOMAIN u : f \in changed \/ v[f] = u[f]

LEMMA SomePages == MaxPage \in Nat \ {0}
  BY TablesAssumption DEF Jobs!TableAssumption

-----------------------------------------------------------------------------
(***************************************************************************)
(* Tables.  HasTable(u, Q): the fields of TableRequests in the state u of  *)
(* a page have their types, the requests being for queries in Q; IsTable:  *)
(* and a request that counts as new is one for what is selected; IsCurrent:*)
(* the rows of an answer that counts as new are those of what is selected, *)
(* or a newer request is under way.                                        *)
(***************************************************************************)
TableFields == {"page", "query", "pending", "rows", "fresh", "loading", "ticked"}
PageParams(Q) == [page : 1 .. MaxPage, query : Q]
Requests(Q) == [params : PageParams(Q), newest : BOOLEAN]

HasTable(u, Q) ==
    /\ TableFields \subseteq DOMAIN u
    /\ u.page \in 1 .. MaxPage /\ u.query \in Q
    /\ u.pending \in Seq(Requests(Q))
    /\ u.rows \in PageParams(Q) \cup {Table!NoRows}
    /\ u.fresh \in BOOLEAN /\ u.loading \in BOOLEAN
    /\ u.ticked \in [ids : SUBSET Items, of : PageParams(Q) \cup {Table!NoRows}, early : BOOLEAN]

IsTable(u, Q) ==
    /\ HasTable(u, Q)
    /\ \A i \in DOMAIN u.pending : u.pending[i].newest => u.pending[i].params = Table!ParamsOf(u)

NewestAsked(u) == \E i \in DOMAIN u.pending : u.pending[i].newest

IsCurrent(u) == u.fresh => u.rows = Table!ParamsOf(u) \/ NewestAsked(u)

LEMMA ParamsTyped ==
    ASSUME NEW Q, NEW u, HasTable(u, Q)
    PROVE  Table!ParamsOf(u) \in PageParams(Q)
  BY DEF HasTable, Table!ParamsOf, PageParams

\* A sequence without its i-th element.
LEMMA Removed ==
    ASSUME NEW R, NEW s \in Seq(R), NEW i \in DOMAIN s
    PROVE  /\ Table!Without(s, i) \in Seq(R)
           /\ Len(Table!Without(s, i)) = Len(s) - 1
           /\ \A k \in DOMAIN Table!Without(s, i) :
                 \E j \in DOMAIN s : Table!Without(s, i)[k] = s[j]
           /\ \A j \in DOMAIN s :
                 j # i => \E k \in DOMAIN Table!Without(s, i) : Table!Without(s, i)[k] = s[j]
<1> DEFINE front == SubSeq(s, 1, i - 1)
           back == SubSeq(s, i + 1, Len(s))
           t == Table!Without(s, i)
<1>1. i \in 1 .. Len(s) /\ Len(s) \in Nat
  OBVIOUS
<1>2. front \in Seq(R) /\ Len(front) = i - 1 /\ \A k \in 1 .. i - 1 : front[k] = s[k]
  BY <1>1
<1>3. /\ back \in Seq(R) /\ Len(back) = Len(s) - i
      /\ \A k \in 1 .. Len(s) - i : back[k] = s[i + k]
  BY <1>1
<1>4. t = front \o back
  BY DEF Table!Without
<1> HIDE DEF front, back, t
<1>5. t \in Seq(R) /\ Len(t) = Len(s) - 1
  BY <1>1, <1>2, <1>3, <1>4
<1>6. \A k \in 1 .. i - 1 : t[k] = s[k]
  BY <1>1, <1>2, <1>3, <1>4
<1>7. \A k \in i .. Len(s) - 1 : t[k] = s[k + 1]
  <2>1. SUFFICES ASSUME NEW k \in i .. Len(s) - 1 PROVE t[k] = s[k + 1]
    OBVIOUS
  <2>2. t[k] = back[k - (i - 1)]
    BY <1>1, <1>2, <1>3, <1>4
  <2>3. k - (i - 1) \in 1 .. Len(s) - i
    BY <1>1
  <2>4. back[k - (i - 1)] = s[i + (k - (i - 1))] /\ i + (k - (i - 1)) = k + 1
    BY <1>1, <1>3, <2>3
  <2> QED BY <2>2, <2>4
<1>8. DOMAIN t = 1 .. Len(s) - 1 /\ DOMAIN s = 1 .. Len(s)
  BY <1>1, <1>5
<1>9. ASSUME NEW k \in DOMAIN t PROVE \E j \in DOMAIN s : t[k] = s[j]
  <2>1. CASE k < i
    BY <1>1, <1>6, <1>8, <2>1
  <2>2. CASE k >= i
    <3>1. k + 1 \in DOMAIN s /\ t[k] = s[k + 1]
      BY <1>1, <1>7, <1>8, <2>2
    <3> QED BY <3>1
  <2> QED BY <1>1, <1>8, <2>1, <2>2
<1>10. ASSUME NEW j \in DOMAIN s, j # i PROVE \E k \in DOMAIN t : t[k] = s[j]
  <2>1. CASE j < i
    BY <1>1, <1>6, <1>8, <2>1
  <2>2. CASE j > i
    <3>1. j - 1 \in DOMAIN t /\ t[j - 1] = s[(j - 1) + 1] /\ (j - 1) + 1 = j
      BY <1>1, <1>7, <1>8, <2>2
    <3> QED BY <3>1
  <2> QED BY <1>1, <1>8, <1>10, <2>1, <2>2
<1> QED BY <1>5, <1>9, <1>10 DEF t

\* Requests that do not count as new, and one more.
Aged(s) == [i \in DOMAIN s |-> [s[i] EXCEPT !.newest = FALSE]]
Request(p, b) == [params |-> p, newest |-> b]
Enlarged(s, p, b) == Append(Aged(s), Request(p, b))

LEMMA Appended ==
    ASSUME NEW Q, NEW s \in Seq(Requests(Q)), NEW p \in PageParams(Q), NEW b \in BOOLEAN
    PROVE  /\ Enlarged(s, p, b) \in Seq(Requests(Q)) /\ Enlarged(s, p, b) # << >>
           /\ Len(Enlarged(s, p, b)) > Len(s)
           /\ \A i \in DOMAIN Enlarged(s, p, b) :
                 Enlarged(s, p, b)[i].newest => b /\ Enlarged(s, p, b)[i].params = p
           /\ b => \E i \in DOMAIN Enlarged(s, p, b) : Enlarged(s, p, b)[i].newest
<1> DEFINE Old(r) == [r EXCEPT !.newest = FALSE]
           old == [i \in DOMAIN s |-> Old(s[i])]
           new == [params |-> p, newest |-> b]
           t == Enlarged(s, p, b)
<1>1. \A i \in DOMAIN s : s[i] \in Requests(Q)
  OBVIOUS
<1>2. \A i \in DOMAIN s : Old(s[i]) \in Requests(Q) /\ ~Old(s[i]).newest
  BY <1>1 DEF Requests
<1>6. t = Append(old, new)
  BY DEF Enlarged, Aged, Request
<1>3. DOMAIN s = 1 .. Len(s) /\ Len(s) \in Nat
  OBVIOUS
<1> HIDE DEF Old
<1>4. /\ old \in Seq(Requests(Q)) /\ Len(old) = Len(s)
      /\ \A i \in DOMAIN s : ~old[i].newest
  BY <1>2, <1>3
<1>5. new \in Requests(Q) /\ new.newest = b /\ new.params = p
  BY DEF Requests
<1> HIDE DEF old, new, t
<1>7. /\ t \in Seq(Requests(Q)) /\ Len(t) = Len(s) + 1 /\ DOMAIN t = 1 .. Len(s) + 1
      /\ \A i \in 1 .. Len(s) : t[i] = old[i]
      /\ t[Len(s) + 1] = new
  <2> DEFINE R == Requests(Q)
  <2>1. old \in Seq(R) /\ new \in R /\ Len(old) = Len(s)
    BY <1>4, <1>5
  <2> HIDE DEF R
  <2>2. t \in Seq(R) /\ Len(t) = Len(old) + 1 /\ t[Len(old) + 1] = new
    BY <2>1, <1>6
  <2>3. \A i \in 1 .. Len(old) : t[i] = old[i]
    BY <2>1, <1>6
  <2>4. DOMAIN t = 1 .. Len(old) + 1
    BY <2>2
  <2> QED BY <2>1, <2>2, <2>3, <2>4 DEF R
<1>8. \A i \in DOMAIN t : i = Len(s) + 1 \/ i \in 1 .. Len(s)
  BY <1>3, <1>7
<1>9. t # << >>
  BY <1>3, <1>7
<1> QED BY <1>3, <1>4, <1>5, <1>7, <1>8, <1>9 DEF t

\* A request is sent: nothing else changes, and it is the only one that may count
\* as new.
Sends(v, u, Q) ==
    /\ Keeps(v, u, {"pending", "loading"}) /\ v.loading = TRUE /\ v.pending # << >>
    /\ Len(v.pending) > Len(u.pending) /\ IsTable(v, Q)

LEMMA SendsWith ==
    ASSUME NEW Q, NEW u, HasTable(u, Q), NEW p \in PageParams(Q)
    PROVE  /\ Sends(Table!SendWith(u, p), u, Q)
           /\ p = Table!ParamsOf(u) => NewestAsked(Table!SendWith(u, p))
<1> DEFINE v == Table!SendWith(u, p)
           s == u.pending
           b == p = Table!ParamsOf(u)
           t == Enlarged(s, p, b)
<1>1. v = [u EXCEPT !.pending = t, !.loading = TRUE]
  BY DEF Table!SendWith, Enlarged, Aged, Request
<1>2. s \in Seq(Requests(Q)) /\ b \in BOOLEAN
  BY DEF HasTable
<1>3. /\ t \in Seq(Requests(Q)) /\ t # << >> /\ Len(t) > Len(s)
      /\ \A i \in DOMAIN t : t[i].newest => b /\ t[i].params = p
      /\ b => \E i \in DOMAIN t : t[i].newest
  <2> HIDE DEF b, s
  <2> QED BY <1>2, Appended
<1> HIDE DEF t
<1>4. Keeps(v, u, {"pending", "loading"}) /\ v.pending = t /\ v.loading = TRUE
  BY <1>1 DEF Keeps, HasTable, TableFields
<1> HIDE DEF v
<1>5. Table!ParamsOf(v) = Table!ParamsOf(u)
  BY <1>4 DEF Keeps, Table!ParamsOf, HasTable, TableFields
<1>6. HasTable(v, Q)
  BY <1>3, <1>4 DEF Keeps, HasTable, TableFields
<1>7. IsTable(v, Q)
  BY <1>3, <1>4, <1>5, <1>6 DEF IsTable
<1>8. Sends(v, u, Q)
  BY <1>3, <1>4, <1>7 DEF Sends
<1>9. b => NewestAsked(v)
  BY <1>3, <1>4 DEF NewestAsked
<1> QED BY <1>8, <1>9 DEF v

LEMMA SendsNow ==
    ASSUME NEW Q, NEW u, HasTable(u, Q)
    PROVE  Sends(Table!Send(u), u, Q) /\ IsCurrent(Table!Send(u))
<1>1. /\ Sends(Table!SendWith(u, Table!ParamsOf(u)), u, Q)
      /\ NewestAsked(Table!SendWith(u, Table!ParamsOf(u)))
  BY ParamsTyped, SendsWith
<1> QED BY <1>1 DEF Table!Send, IsCurrent

\* Another query, which leads to the first page.
Turns(v, u, Q, query) ==
    /\ Keeps(v, u, {"pending", "loading", "page", "query"})
    /\ v.loading = TRUE /\ v.pending # << >> /\ v.page = 1 /\ v.query = query
    /\ Len(v.pending) > Len(u.pending) /\ IsTable(v, Q) /\ IsCurrent(v)

LEMMA TurnsToFirst ==
    ASSUME NEW Q, NEW u, HasTable(u, Q), NEW query \in Q
    PROVE  Turns(Table!Queried(u, query), u, Q, query)
<1> DEFINE w == [u EXCEPT !.query = query]
           sent == Table!Send(w)
           x == [sent EXCEPT !.page = 1]
<1>0. 1 \in 1 .. MaxPage
  BY SomePages
<1>1. HasTable(w, Q) /\ Keeps(w, u, {"query"}) /\ w.query = query
  BY DEF HasTable, TableFields, Keeps
<1>2. Sends(sent, w, Q) /\ IsCurrent(sent)
  BY <1>1, SendsNow
<1>3. Table!Queried(u, query) = IF u.page = 1 THEN sent ELSE Table!Send(x)
  BY DEF Table!Queried
<1> HIDE DEF sent, w
<1>4. CASE u.page = 1
  BY <1>1, <1>2, <1>3, <1>4 DEF Turns, Sends, Keeps, HasTable, TableFields
<1>5. CASE u.page # 1
  <2>1. HasTable(x, Q) /\ Keeps(x, sent, {"page"}) /\ x.page = 1
    BY <1>0, <1>2 DEF Sends, IsTable, HasTable, TableFields, Keeps
  <2>2. Sends(Table!Send(x), x, Q) /\ IsCurrent(Table!Send(x))
    BY <2>1, SendsNow
  <2> HIDE DEF x
  <2>3. /\ Keeps(Table!Send(x), u, {"pending", "loading", "page", "query"})
        /\ Table!Send(x).page = 1 /\ Table!Send(x).query = query
    BY <1>1, <1>2, <2>1, <2>2 DEF Sends, Keeps, HasTable, TableFields
  <2>4. Len(Table!Send(x).pending) > Len(u.pending)
    <3>1. /\ w.pending = u.pending /\ x.pending = sent.pending
          /\ u.pending \in Seq(Requests(Q)) /\ sent.pending \in Seq(Requests(Q))
          /\ Table!Send(x).pending \in Seq(Requests(Q))
      BY <1>1, <1>2, <2>1, <2>2 DEF Sends, Keeps, IsTable, HasTable, TableFields
    <3>2. /\ Len(sent.pending) > Len(w.pending)
          /\ Len(Table!Send(x).pending) > Len(x.pending)
      BY <1>2, <2>2 DEF Sends
    <3> QED BY <3>1, <3>2
  <2> QED BY <1>3, <1>5, <2>2, <2>3, <2>4 DEF Turns, Sends
<1> QED BY <1>4, <1>5

\* An answer is shown.
Shows(v, u, Q, i) ==
    /\ Keeps(v, u, {"pending", "rows", "fresh", "loading"})
    /\ v.loading = FALSE /\ v.rows = u.pending[i].params /\ v.rows \in PageParams(Q)
    /\ Len(v.pending) = Len(u.pending) - 1
    /\ IsTable(v, Q) /\ IsCurrent(v)

LEMMA ShowsAnswer ==
    ASSUME NEW Q, NEW u, IsTable(u, Q), NEW i \in DOMAIN u.pending
    PROVE  Shows(Table!Shown(u, i), u, Q, i)
<1> DEFINE v == Table!Shown(u, i)
           s == u.pending
           t == Table!Without(s, i)
<1>1. s \in Seq(Requests(Q)) /\ i \in DOMAIN s
  BY DEF IsTable, HasTable
<1>2. /\ t \in Seq(Requests(Q)) /\ Len(t) = Len(s) - 1
      /\ \A k \in DOMAIN t : \E j \in DOMAIN s : t[k] = s[j]
  BY <1>1, Removed
<1>3. s[i] \in Requests(Q)
  BY <1>1
<1>4. v = [u EXCEPT !.pending = t, !.rows = s[i].params, !.fresh = s[i].newest, !.loading = FALSE]
  BY DEF Table!Shown
<1> HIDE DEF t
<1>5. /\ Keeps(v, u, {"pending", "rows", "fresh", "loading"}) /\ v.pending = t
      /\ v.rows = s[i].params /\ v.fresh = s[i].newest /\ v.loading = FALSE
  BY <1>4 DEF Keeps, IsTable, HasTable, TableFields
<1> HIDE DEF v
<1>6. Table!ParamsOf(v) = Table!ParamsOf(u)
  BY <1>5 DEF Keeps, Table!ParamsOf, IsTable, HasTable, TableFields
<1>7. s[i].params \in PageParams(Q) /\ s[i].newest \in BOOLEAN
  BY <1>3 DEF Requests
<1>8. HasTable(v, Q)
  BY <1>2, <1>5, <1>7 DEF Keeps, IsTable, HasTable, TableFields
<1>9. IsTable(v, Q)
  BY <1>2, <1>5, <1>6, <1>8 DEF IsTable
<1>10. IsCurrent(v)
  BY <1>1, <1>5, <1>6 DEF IsTable, IsCurrent
<1>11. Shows(v, u, Q, i)
  BY <1>2, <1>5, <1>7, <1>9, <1>10 DEF Shows
<1> QED BY <1>11 DEF v

\* An answer never comes.
Loses(v, u, Q) ==
    /\ Keeps(v, u, {"pending", "fresh"})
    /\ Len(v.pending) = Len(u.pending) - 1
    /\ IsTable(v, Q) /\ (IsCurrent(u) => IsCurrent(v))

LEMMA LosesAnswer ==
    ASSUME NEW Q, NEW u, IsTable(u, Q), NEW i \in DOMAIN u.pending
    PROVE  Loses(Table!Lost(u, i), u, Q)
<1> DEFINE v == Table!Lost(u, i)
           s == u.pending
           t == Table!Without(s, i)
<1>1. s \in Seq(Requests(Q)) /\ i \in DOMAIN s
  BY DEF IsTable, HasTable
<1>2. /\ t \in Seq(Requests(Q)) /\ Len(t) = Len(s) - 1
      /\ \A k \in DOMAIN t : \E j \in DOMAIN s : t[k] = s[j]
      /\ \A j \in DOMAIN s : j # i => \E k \in DOMAIN t : t[k] = s[j]
  BY <1>1, Removed
<1>3. s[i] \in Requests(Q)
  BY <1>1
<1>4. v = [u EXCEPT !.pending = t, !.fresh = u.fresh /\ ~s[i].newest]
  BY DEF Table!Lost
<1> HIDE DEF t
<1>5. /\ Keeps(v, u, {"pending", "fresh"}) /\ v.pending = t
      /\ v.fresh = (u.fresh /\ ~s[i].newest)
  BY <1>4 DEF Keeps, IsTable, HasTable, TableFields
<1> HIDE DEF v
<1>6. Table!ParamsOf(v) = Table!ParamsOf(u) /\ v.rows = u.rows
  BY <1>5 DEF Keeps, Table!ParamsOf, IsTable, HasTable, TableFields
<1>7. v.fresh \in BOOLEAN
  BY <1>5
<1>8. HasTable(v, Q)
  BY <1>2, <1>5, <1>7 DEF Keeps, IsTable, HasTable, TableFields
<1>9. IsTable(v, Q)
  BY <1>2, <1>5, <1>6, <1>8 DEF IsTable
<1>10. ASSUME IsCurrent(u), v.fresh PROVE v.rows = Table!ParamsOf(v) \/ NewestAsked(v)
  <2>1. u.fresh /\ ~s[i].newest
    BY <1>5, <1>10
  <2>2. CASE u.rows = Table!ParamsOf(u)
    BY <1>6, <2>2
  <2>3. CASE NewestAsked(u)
    <3>1. PICK j \in DOMAIN s : s[j].newest
      BY <2>3 DEF NewestAsked
    <3>2. j # i
      BY <2>1, <3>1
    <3>3. PICK k \in DOMAIN t : t[k] = s[j]
      BY <1>2, <3>2
    <3> QED BY <1>5, <3>1, <3>3 DEF NewestAsked
  <2> QED BY <1>10, <2>1, <2>2, <2>3 DEF IsCurrent
<1>11. Loses(v, u, Q)
  BY <1>2, <1>5, <1>9, <1>10 DEF Loses, IsCurrent
<1> QED BY <1>11 DEF v

Selections(Q) == [ids : SUBSET Items, of : PageParams(Q) \cup {Table!NoRows}, early : BOOLEAN]

\* Changes that leave the requests and the rows alone.
LEMMA TableKept ==
    ASSUME NEW Q, NEW u, IsTable(u, Q), NEW v, NEW changed, Keeps(v, u, changed),
           changed \cap {"page", "query", "pending", "rows", "fresh"} = {},
           v.loading \in BOOLEAN, v.ticked \in Selections(Q)
    PROVE  IsTable(v, Q) /\ (IsCurrent(u) => IsCurrent(v))
<1>1. /\ v.page = u.page /\ v.query = u.query /\ v.pending = u.pending
      /\ v.rows = u.rows /\ v.fresh = u.fresh /\ DOMAIN v = DOMAIN u
  BY DEF Keeps, IsTable, HasTable, TableFields
<1>2. Table!ParamsOf(v) = Table!ParamsOf(u)
  BY <1>1 DEF Table!ParamsOf
<1>3. HasTable(v, Q)
  BY <1>1 DEF IsTable, HasTable, Selections
<1> QED BY <1>1, <1>2, <1>3 DEF IsTable, IsCurrent, NewestAsked

LEMMA TableUntouched ==
    ASSUME NEW Q, NEW u, IsTable(u, Q), NEW v, NEW changed, Keeps(v, u, changed),
           changed \cap TableFields = {}
    PROVE  IsTable(v, Q) /\ (IsCurrent(u) => IsCurrent(v))
<1>1. v.loading = u.loading /\ v.ticked = u.ticked
  BY DEF Keeps, IsTable, HasTable, TableFields
<1>2. v.loading \in BOOLEAN /\ v.ticked \in Selections(Q)
  BY <1>1 DEF IsTable, HasTable, Selections
<1>3. changed \cap {"page", "query", "pending", "rows", "fresh"} = {}
  BY DEF TableFields
<1> QED BY <1>2, <1>3, TableKept

\* What is selected may be another page or query before a request is sent.
LEMMA TableMoved ==
    ASSUME NEW Q, NEW u, HasTable(u, Q), NEW v, NEW changed, Keeps(v, u, changed),
           changed \cap {"pending", "rows", "fresh", "loading"} = {},
           v.page \in 1 .. MaxPage, v.query \in Q, v.ticked \in Selections(Q)
    PROVE  HasTable(v, Q)
<1>1. /\ v.pending = u.pending /\ v.loading = u.loading
      /\ v.rows = u.rows /\ v.fresh = u.fresh /\ DOMAIN v = DOMAIN u
  BY DEF Keeps, HasTable, TableFields
<1> QED BY <1>1 DEF HasTable, Selections

LEMMA Selects ==
    ASSUME NEW Q, NEW u, HasTable(u, Q)
    PROVE  /\ u.ticked \in Selections(Q) /\ Table!NoTicks \in Selections(Q)
           /\ \A ids \in SUBSET Items : \A early \in BOOLEAN :
                 Table!Ticked(ids, u.rows, early) \in Selections(Q)
  BY DEF HasTable, Selections, Table!NoTicks, Table!Ticked

\* Rows are ticked.
LEMMA Ticks ==
    ASSUME NEW Q, NEW u, IsTable(u, Q), NEW ids \in SUBSET Items
    PROVE  LET v == Table!Tick(u, ids)
           IN  /\ Keeps(v, u, {"ticked"}) /\ v.ticked.ids = ids /\ v.ticked.of = u.rows
               /\ v.ticked.early <=> u.pending # << >>
               /\ IsTable(v, Q) /\ (IsCurrent(u) => IsCurrent(v))
<1> DEFINE v == Table!Tick(u, ids)
           new == Table!Ticked(ids, u.rows, u.pending # << >>)
<1>1. v = [u EXCEPT !.ticked = new]
  BY DEF Table!Tick
<1>2. new \in Selections(Q)
  BY Selects DEF IsTable
<1>3. new.ids = ids /\ new.of = u.rows /\ (new.early <=> u.pending # << >>)
  BY DEF Table!Ticked
<1> HIDE DEF new
<1>4. Keeps(v, u, {"ticked"}) /\ v.ticked = new /\ v.loading = u.loading
  BY <1>1 DEF Keeps, IsTable, HasTable, TableFields
<1> HIDE DEF v
<1>5. {"ticked"} \cap {"page", "query", "pending", "rows", "fresh"} = {}
  OBVIOUS
<1>6. u.loading \in BOOLEAN
  BY DEF IsTable, HasTable
<1>7. IsTable(v, Q) /\ (IsCurrent(u) => IsCurrent(v))
  BY <1>2, <1>4, <1>5, <1>6, TableKept
<1> QED BY <1>3, <1>4, <1>7 DEF v

\* The table of a page that was opened.
LEMMA Opens ==
    ASSUME NEW Q, "plain" \in Q, NEW own
    PROVE  LET u == Table!TableAnd(own)
           IN  /\ DOMAIN u = TableFields \cup DOMAIN own
               /\ \A f \in DOMAIN own : f \in TableFields \/ u[f] = own[f]
               /\ HasTable(u, Q) /\ u.page = 1 /\ u.query = "plain" /\ u.pending = << >>
               /\ u.rows = Table!NoRows /\ u.fresh = FALSE /\ u.loading = FALSE
               /\ u.ticked = Table!NoTicks
<1> DEFINE u == Table!TableAnd(own)
<1>1. DOMAIN Table!NewTable = TableFields
  BY DEF Table!NewTable, TableFields
<1>2. u = [f \in TableFields \cup DOMAIN own |-> IF f \in TableFields THEN Table!NewTable[f] ELSE own[f]]
  BY <1>1 DEF Table!TableAnd
<1> HIDE DEF u
<1>3. /\ DOMAIN u = TableFields \cup DOMAIN own
      /\ \A f \in DOMAIN own : f \in TableFields \/ u[f] = own[f]
      /\ \A f \in TableFields : u[f] = Table!NewTable[f]
  BY <1>2
<1>4. /\ u.page = 1 /\ u.query = "plain" /\ u.pending = << >>
      /\ u.rows = Table!NoRows /\ u.fresh = FALSE /\ u.loading = FALSE
      /\ u.ticked = Table!NoTicks
  BY <1>3 DEF TableFields, Table!NewTable
<1>5. 1 \in 1 .. MaxPage
  BY SomePages
<1>6. u.pending \in Seq(Requests(Q)) /\ TableFields \subseteq DOMAIN u
  BY <1>3, <1>4
<1>7. u.ticked \in Selections(Q)
  BY <1>4 DEF Selections, Table!NoTicks, Table!Ticked
<1>8. HasTable(u, Q)
  BY <1>4, <1>5, <1>6, <1>7 DEF HasTable, Selections
<1> QED BY <1>3, <1>4, <1>8 DEF u

\* What is stated of tables in the modules of the pages.
LEMMA TableHolds ==
    ASSUME NEW Q, NEW u, IsTable(u, Q)
    PROVE  /\ Table!TableTypeOver(u, PageParams(Q))
           /\ IsCurrent(u) => Table!RowsAreCurrent(u)
<1>1. Table!ParamsOf(u) \in PageParams(Q)
  BY ParamsTyped DEF IsTable
<1>2. \A i \in DOMAIN u.pending : u.pending[i] \in Requests(Q)
  BY DEF IsTable, HasTable
<1>3. Table!TableTypeOver(u, PageParams(Q))
  BY <1>1, <1>2 DEF Table!TableTypeOver, IsTable, HasTable, Requests
<1>4. IsCurrent(u) => Table!RowsAreCurrent(u)
  <2>1. u.pending = << >> => ~NewestAsked(u)
    BY DEF NewestAsked
  <2> QED BY <2>1 DEF IsCurrent, Table!RowsAreCurrent
<1> QED BY <1>3, <1>4

LEMMA Unticks ==
    ASSUME NEW Q, NEW u, HasTable(u, Q)
    PROVE  LET v == Table!Untick(u)
           IN  /\ Keeps(v, u, {"ticked"}) /\ v.ticked = Table!NoTicks /\ v.ticked.ids = {}
               /\ HasTable(v, Q)
<1> DEFINE v == Table!Untick(u)
<1>1. Table!NoTicks \in Selections(Q) /\ Table!NoTicks.ids = {}
  BY Selects DEF Table!NoTicks, Table!Ticked
<1>2. v = [u EXCEPT !.ticked = Table!NoTicks]
  BY DEF Table!Untick
<1>3. Keeps(v, u, {"ticked"}) /\ v.ticked = Table!NoTicks
  BY <1>2 DEF Keeps, HasTable, TableFields
<1> HIDE DEF v
<1>4. HasTable(v, Q)
  BY <1>1, <1>3 DEF Keeps, HasTable, TableFields, Selections
<1> QED BY <1>1, <1>3, <1>4 DEF v

\* An answer is shown, or does not come, and fields that are not of the table change.
ShowsWith(v, u, Q, i, own) ==
    /\ Keeps(v, u, {"pending", "rows", "fresh", "loading"} \cup own)
    /\ v.loading = FALSE /\ v.rows = u.pending[i].params /\ v.rows \in PageParams(Q)
    /\ u.pending # << >> /\ IsTable(v, Q) /\ IsCurrent(v)

LosesWith(v, u, Q, own) ==
    /\ Keeps(v, u, {"pending", "fresh"} \cup own)
    /\ u.pending # << >> /\ IsTable(v, Q) /\ (IsCurrent(u) => IsCurrent(v))

LEMMA ShowsAnd ==
    ASSUME NEW Q, NEW u, IsTable(u, Q), NEW i \in DOMAIN u.pending,
           NEW v, NEW own, Keeps(v, Table!Shown(u, i), own), own \cap TableFields = {}
    PROVE  ShowsWith(v, u, Q, i, own)
<1> DEFINE w == Table!Shown(u, i)
<1>1. Shows(w, u, Q, i)
  BY ShowsAnswer
<1>2. Keeps(v, w, own)
  OBVIOUS
<1> HIDE DEF w
<1>3. IsTable(v, Q) /\ IsCurrent(v)
  BY <1>1, <1>2, TableUntouched DEF Shows
<1>4. v.loading = w.loading /\ v.rows = w.rows
  BY <1>1, <1>2 DEF Shows, Keeps, IsTable, HasTable, TableFields
<1>5. Keeps(v, u, {"pending", "rows", "fresh", "loading"} \cup own)
  BY <1>1, <1>2 DEF Shows, Keeps
<1>6. u.pending # << >>
  BY DEF IsTable, HasTable
<1> QED BY <1>1, <1>3, <1>4, <1>5, <1>6 DEF Shows, ShowsWith

LEMMA LosesAnd ==
    ASSUME NEW Q, NEW u, IsTable(u, Q), NEW i \in DOMAIN u.pending,
           NEW v, NEW own, Keeps(v, Table!Lost(u, i), own),
           own \cap (TableFields \ {"loading"}) = {}, v.loading \in BOOLEAN
    PROVE  LosesWith(v, u, Q, own)
<1> DEFINE w == Table!Lost(u, i)
<1>1. Loses(w, u, Q)
  BY LosesAnswer
<1>2. Keeps(v, w, own)
  OBVIOUS
<1> HIDE DEF w
<1>3. v.ticked = w.ticked /\ w.ticked \in Selections(Q)
  BY <1>1, <1>2, Selects DEF Loses, Keeps, IsTable, HasTable, TableFields
<1>4. own \cap {"page", "query", "pending", "rows", "fresh"} = {}
  BY DEF TableFields
<1>5. IsTable(v, Q) /\ (IsCurrent(w) => IsCurrent(v))
  BY <1>1, <1>2, <1>3, <1>4, TableKept DEF Loses
<1>6. Keeps(v, u, {"pending", "fresh"} \cup own)
  BY <1>1, <1>2 DEF Loses, Keeps
<1>7. u.pending # << >>
  BY DEF IsTable, HasTable
<1> QED BY <1>1, <1>5, <1>6, <1>7 DEF Loses, LosesWith

-----------------------------------------------------------------------------
(***************************************************************************)
(* The data sources of an account (DataSourceList).                        *)
(***************************************************************************)
LEMMA SourcesTable ==
    /\ \A u, p : Sources!SendWith(u, p) = Table!SendWith(u, p)
    /\ \A u : Sources!Send(u) = Table!Send(u)
    /\ \A u, i : Sources!Shown(u, i) = Table!Shown(u, i)
    /\ \A u, i : Sources!Lost(u, i) = Table!Lost(u, i)
    /\ \A u, ids : Sources!Tick(u, ids) = Table!Tick(u, ids)
    /\ \A u : Sources!Untick(u) = Table!Untick(u)
    /\ Sources!NoTicks = Table!NoTicks
    /\ \A u : Sources!ParamsOf(u) = Table!ParamsOf(u)
    /\ \A u : Sources!PagesOf(u) \subseteq 1 .. MaxPage
    /\ \A own : Sources!TableAnd(own) = Table!TableAnd(own)
    /\ Sources!NoRows = Table!NoRows
    /\ Sources!Queries = Table!Queries
<1>1. Sources!NoRows = Table!NoRows
  BY DEF Sources!NoRows, Table!NoRows
<1>2. Sources!NoTicks = Table!NoTicks
  BY DEF Sources!NoTicks, Table!NoTicks, Sources!Ticked, Table!Ticked, Sources!NoRows,
     Table!NoRows
<1>3. Sources!Queries = Table!Queries
  BY DEF Sources!Queries, Table!Queries
<1>4. \A u : Sources!ParamsOf(u) = Table!ParamsOf(u)
  BY DEF Sources!ParamsOf, Table!ParamsOf
<1>5. \A u : Sources!PagesOf(u) \subseteq 1 .. MaxPage
  BY SomePages DEF Sources!PagesOf
<1>6. \A own : Sources!TableAnd(own) = Table!TableAnd(own)
  BY DEF Sources!TableAnd, Table!TableAnd, Sources!NewTable, Table!NewTable,
     Sources!NoTicks, Table!NoTicks, Sources!Ticked, Table!Ticked, Sources!NoRows,
     Table!NoRows
<1>7. \A u, ids : Sources!Tick(u, ids) = Table!Tick(u, ids)
  BY DEF Sources!Tick, Table!Tick, Sources!Ticked, Table!Ticked
<1>8. \A u : Sources!Untick(u) = Table!Untick(u)
  BY DEF Sources!Untick, Table!Untick, Sources!NoTicks, Table!NoTicks, Sources!Ticked,
     Table!Ticked, Sources!NoRows, Table!NoRows
<1>9. \A u, p : Sources!SendWith(u, p) = Table!SendWith(u, p)
  BY DEF Sources!SendWith, Table!SendWith, Sources!ParamsOf, Table!ParamsOf
<1>10. \A u : Sources!Send(u) = Table!Send(u)
  BY <1>9 DEF Sources!Send, Table!Send, Sources!ParamsOf, Table!ParamsOf
<1>11. \A s, i : Sources!Without(s, i) = Table!Without(s, i)
  BY DEF Sources!Without, Table!Without
<1>12. \A u, i : Sources!Shown(u, i) = Table!Shown(u, i)
  BY <1>11 DEF Sources!Shown, Table!Shown
<1>13. \A u, i : Sources!Lost(u, i) = Table!Lost(u, i)
  BY <1>11 DEF Sources!Lost, Table!Lost
<1> QED BY <1>9, <1>10, <1>12, <1>13, <1>7, <1>8, <1>2, <1>4, <1>5, <1>6, <1>1, <1>3

SourcesOwn ==
    {"tag", "spinner", "op", "dialog", "confirmed", "credential", "typed", "secret", "call",
     "lost", "outdated"}
SourcesFields == TableFields \cup SourcesOwn

\* Rows that are selected are shown, and asked for again only without them.
SourcesRows(u) ==
    /\ DOMAIN u = SourcesFields
    /\ IsTable(u, Table!Queries) /\ (u.outdated \/ IsCurrent(u))
    /\ u.ticked.ids # {} => u.ticked.early \/ (u.ticked.of = u.rows /\ u.pending = << >>)
    /\ u.loading => u.pending # << >> \/ u.lost

\* Operations have the spinner, and no dialog but the one they were started in.
SourcesActs(u) ==
    /\ u.tag \in Sources!Tags /\ u.op \in Sources!Operations /\ u.dialog \in Sources!Dialogs
    /\ u.credential \in {"none", "password", "secret"}
    /\ \/ u.call = Sources!NoCall
       \/ u.call \in [how : {"password", "secret"}, params : PageParams(Table!Queries)]
    /\ u.spinner <=> u.op # "none"
    /\ u.op \notin {"none", "confirmDelete"} => u.dialog = "none"
    /\ u.dialog \in {"edit", "delete"} => u.tag = "jdbc" /\ u.ticked.ids # {}
    /\ u.dialog = "rds" \/ u.call # Sources!NoCall => u.tag = "rds"

SourcesInv(u) == SourcesRows(u) /\ SourcesActs(u)

LEMMA SourcesOwnKept ==
    ASSUME NEW u, SourcesInv(u), NEW v, NEW changed, Keeps(v, u, changed),
           changed \cap (TableFields \cup {"outdated", "lost"}) = {}, SourcesActs(v)
    PROVE  SourcesInv(v)
<1>1. IsTable(v, Table!Queries) /\ (IsCurrent(u) => IsCurrent(v))
  BY TableUntouched DEF SourcesInv, SourcesRows
<1>2. /\ v.ticked = u.ticked /\ v.rows = u.rows /\ v.pending = u.pending
      /\ v.loading = u.loading /\ v.outdated = u.outdated /\ v.lost = u.lost
      /\ DOMAIN v = DOMAIN u
  BY DEF Keeps, SourcesInv, SourcesRows, SourcesFields, SourcesOwn, TableFields
<1> QED BY <1>1, <1>2 DEF SourcesInv, SourcesRows

\* The table as it is selected is asked for, and nothing is selected any more.
LEMMA SourcesAsk ==
    ASSUME NEW w, DOMAIN w = SourcesFields, HasTable(w, Table!Queries), SourcesActs(w),
           w.dialog \notin {"edit", "delete"}
    PROVE  SourcesInv(Sources!GetPageData(w))
<1> DEFINE x == [w EXCEPT !.outdated = FALSE]
           y == Table!Untick(x)
           v == Table!Send(y)
<1>1. Keeps(x, w, {"outdated"}) /\ HasTable(x, Table!Queries)
  BY DEF Keeps, HasTable, TableFields
<1>2. Sources!GetPageData(w) = v
  BY SourcesTable DEF Sources!GetPageData
<1> HIDE DEF x
<1>3. Keeps(y, x, {"ticked"}) /\ y.ticked.ids = {} /\ HasTable(y, Table!Queries)
  BY <1>1, Unticks
<1> HIDE DEF y
<1>4. Sends(v, y, Table!Queries) /\ IsCurrent(v)
  BY <1>3, SendsNow
<1> HIDE DEF v
<1>5. /\ Keeps(v, w, {"outdated", "ticked", "pending", "loading"}) /\ v.ticked.ids = {}
      /\ DOMAIN v = SourcesFields
  BY <1>1, <1>3, <1>4 DEF Sends, Keeps, SourcesFields, TableFields
<1>6. SourcesActs(v)
  BY <1>5 DEF SourcesActs, Keeps, SourcesFields, SourcesOwn
<1>7. SourcesRows(v)
  BY <1>4, <1>5 DEF Sends, SourcesRows
<1> QED BY <1>2, <1>6, <1>7 DEF SourcesInv

LEMMA SourcesMounted ==
    ASSUME NEW tag \in Sources!Tags
    PROVE  SourcesInv(Sources!Mounted(tag))
<1> DEFINE Q == Table!Queries
           own == [tag |-> tag, spinner |-> FALSE, op |-> "none",
                   dialog |-> "none", confirmed |-> FALSE, credential |-> "none",
                   typed |-> FALSE, secret |-> FALSE, call |-> Sources!NoCall,
                   lost |-> FALSE, outdated |-> FALSE]
           w == Table!TableAnd(own)
           First(u) == DOMAIN u = SourcesFields /\ HasTable(u, Q) /\ SourcesActs(u) /\ u.ticked.ids = {}
<1>1. /\ DOMAIN own = SourcesOwn
      /\ own.tag = tag /\ own.spinner = FALSE /\ own.op = "none" /\ own.dialog = "none"
      /\ own.credential = "none" /\ own.call = Sources!NoCall
  BY DEF SourcesOwn
<1>2. Sources!Mounted(tag) = IF tag = "jdbc" THEN Table!Send(Table!Send(Table!Send(w))) ELSE Table!Send(w)
  BY SourcesTable DEF Sources!Mounted
<1> HIDE DEF own
<1>3. "plain" \in Q
  BY DEF Table!Queries
<1>4. /\ DOMAIN w = TableFields \cup DOMAIN own /\ HasTable(w, Q)
      /\ \A f \in DOMAIN own : f \in TableFields \/ w[f] = own[f]
      /\ w.ticked = Table!NoTicks
  BY <1>3, Opens
<1>5. SourcesOwn \cap TableFields = {}
  BY DEF TableFields, SourcesOwn
<1>6. DOMAIN w = SourcesFields /\ HasTable(w, Q) /\ \A f \in SourcesOwn : w[f] = own[f]
  BY <1>1, <1>4, <1>5 DEF SourcesFields
<1> HIDE DEF w, Q
<1>7. /\ w.tag = tag /\ w.spinner = FALSE /\ w.op = "none" /\ w.dialog = "none"
      /\ w.credential = "none" /\ w.call = Sources!NoCall
  BY <1>1, <1>6 DEF SourcesOwn
<1>8. First(w)
  BY <1>4, <1>6, <1>7 DEF SourcesActs, Sources!Operations, Sources!Dialogs, Table!NoTicks, Table!Ticked
<1>9. ASSUME NEW u, First(u) PROVE First(Table!Send(u)) /\ SourcesInv(Table!Send(u))
  <2> DEFINE v == Table!Send(u)
  <2>1. Sends(v, u, Q) /\ IsCurrent(v)
    BY <1>9, SendsNow
  <2> HIDE DEF v
  <2>2. DOMAIN v = SourcesFields /\ v.ticked = u.ticked
    BY <1>9, <2>1 DEF Sends, Keeps, SourcesFields, TableFields
  <2>3. SourcesActs(v)
    BY <1>9, <2>1, <2>2 DEF SourcesActs, Sends, Keeps, SourcesFields, SourcesOwn
  <2>4. SourcesRows(v)
    BY <1>9, <2>1, <2>2 DEF Sends, SourcesRows, Q
  <2> QED BY <1>9, <2>1, <2>2, <2>3, <2>4 DEF v, SourcesInv, Sends, IsTable
<1> HIDE DEF First
<1> QED BY <1>2, <1>8, <1>9

LEMMA SourcesStep ==
    ASSUME Sources!Here, SourcesInv(ui), Sources!ListNext
    PROVE  SourcesInv(ui')
<1> DEFINE Q == Table!Queries
<1>0. /\ DOMAIN ui = SourcesFields /\ IsTable(ui, Q) /\ HasTable(ui, Q)
      /\ ui.loading \in BOOLEAN /\ ui.ticked \in Selections(Q) /\ Table!NoTicks \in Selections(Q)
      /\ ui.page \in 1 .. MaxPage /\ ui.query \in Q
      /\ SourcesActs(ui) /\ SourcesRows(ui)
  BY Selects DEF SourcesInv, SourcesRows, IsTable, HasTable
<1>d. SourcesOwn \subseteq DOMAIN ui /\ TableFields \subseteq DOMAIN ui /\ SourcesOwn \cap TableFields = {}
  BY <1>0 DEF SourcesFields, SourcesOwn, TableFields
<1>1. ASSUME NEW result, NEW i \in DOMAIN ui.pending, Sources!PageDataAnswered(i, result)
      PROVE  SourcesInv(ui')
  <2>0. ui.pending # << >>
    BY <1>0, <1>1 DEF HasTable
  <2>1. CASE ui' = [Table!Shown(ui, i) EXCEPT !.lost = FALSE]
    <3> DEFINE w == Table!Shown(ui, i)
    <3>1. Shows(w, ui, Q, i)
      BY <1>0, ShowsAnswer
    <3> HIDE DEF w
    <3>2. Keeps(ui', w, {"lost"}) /\ DOMAIN w = SourcesFields /\ {"lost"} \cap TableFields = {}
      BY <1>0, <2>1, <3>1 DEF w, Keeps, Shows, TableFields
    <3>3. IsTable(ui', Q) /\ (IsCurrent(w) => IsCurrent(ui'))
      BY <3>1, <3>2, TableUntouched DEF Shows
    <3>4. /\ Keeps(ui', ui, {"pending", "rows", "fresh", "loading", "lost"})
          /\ ui'.loading = FALSE /\ DOMAIN ui' = SourcesFields
      BY <1>0, <3>1, <3>2 DEF Keeps, Shows, SourcesFields, TableFields
    <3>5. ui'.ticked = ui.ticked /\ ui'.outdated = ui.outdated
      BY <1>d, <3>4 DEF Keeps, SourcesOwn, TableFields
    <3>6. SourcesActs(ui')
      BY <1>0, <1>d, <3>4, <3>5 DEF Keeps, SourcesActs, SourcesOwn
    <3>7. SourcesRows(ui')
      BY <1>0, <2>0, <3>1, <3>3, <3>4, <3>5 DEF Shows, SourcesRows
    <3> QED BY <3>6, <3>7 DEF SourcesInv
  <2>2. CASE ui' = [Table!Lost(ui, i) EXCEPT !.lost = TRUE]
    <3> DEFINE w == Table!Lost(ui, i)
    <3>1. Loses(w, ui, Q)
      BY <1>0, LosesAnswer
    <3> HIDE DEF w
    <3>2. /\ Keeps(ui', w, {"lost"}) /\ DOMAIN w = SourcesFields /\ {"lost"} \cap TableFields = {}
          /\ ui'.lost = TRUE
      BY <1>0, <2>2, <3>1 DEF w, Keeps, Loses, TableFields, SourcesFields, SourcesOwn
    <3>3. IsTable(ui', Q) /\ (IsCurrent(w) => IsCurrent(ui'))
      BY <3>1, <3>2, TableUntouched DEF Loses
    <3>4. Keeps(ui', ui, {"pending", "fresh", "lost"}) /\ DOMAIN ui' = SourcesFields
      BY <1>0, <3>1, <3>2 DEF Keeps, Loses, SourcesFields, TableFields
    <3>5. ui'.ticked = ui.ticked /\ ui'.outdated = ui.outdated
      BY <1>d, <3>4 DEF Keeps, SourcesOwn, TableFields
    <3>6. SourcesActs(ui')
      BY <1>0, <1>d, <3>4, <3>5 DEF Keeps, SourcesActs, SourcesOwn
    <3>7. SourcesRows(ui')
      BY <1>0, <2>0, <3>1, <3>2, <3>3, <3>4, <3>5 DEF Loses, SourcesRows
    <3> QED BY <3>6, <3>7 DEF SourcesInv
  <2> QED BY <1>1, <2>1, <2>2, SourcesTable DEF Sources!PageDataAnswered, Sources!At
<1>2. CASE Sources!Refresh
  <2>1. ui' = Sources!GetPageData(ui) /\ ui.dialog = "none"
    BY <1>2 DEF Sources!Refresh, Sources!OnPage, Sources!At
  <2> QED BY <1>0, <2>1, SourcesAsk
<1>3. CASE Sources!ChangePage
  <2> PICK page \in Sources!PagesOf(ui) : ui' = Sources!GetPageData([ui EXCEPT !.page = page]) /\ ui.dialog = "none"
    BY <1>3 DEF Sources!ChangePage, Sources!OnPage, Sources!At
  <2> DEFINE w == [ui EXCEPT !.page = page]
  <2>1. Keeps(w, ui, {"page"}) /\ w.page = page /\ w.query = ui.query /\ w.ticked = ui.ticked
    BY <1>d DEF Keeps, TableFields
  <2>2. page \in 1 .. MaxPage
    BY SourcesTable
  <2> HIDE DEF w
  <2>3. HasTable(w, Q)
    BY <1>0, <2>1, <2>2, TableMoved
  <2>4. DOMAIN w = SourcesFields /\ w.dialog = "none" /\ SourcesActs(w)
    BY <1>0, <1>d, <2>1 DEF Keeps, SourcesActs, SourcesOwn, TableFields
  <2> QED BY <2>3, <2>4, SourcesAsk DEF w
<1>4. CASE Sources!ChangeQuery
  <2> PICK query \in Q : ui' = Sources!GetPageData([ui EXCEPT !.query = query]) /\ ui.dialog = "none"
    BY <1>4, SourcesTable DEF Sources!ChangeQuery, Sources!OnPage, Sources!At
  <2> DEFINE w == [ui EXCEPT !.query = query]
  <2>1. Keeps(w, ui, {"query"}) /\ w.query = query /\ w.page = ui.page /\ w.ticked = ui.ticked
    BY <1>d DEF Keeps, TableFields
  <2> HIDE DEF w
  <2>3. HasTable(w, Q)
    BY <1>0, <2>1, TableMoved
  <2>4. DOMAIN w = SourcesFields /\ w.dialog = "none" /\ SourcesActs(w)
    BY <1>0, <1>d, <2>1 DEF Keeps, SourcesActs, SourcesOwn, TableFields
  <2> QED BY <2>3, <2>4, SourcesAsk DEF w
<1>5. CASE Sources!SelectRows
  <2> PICK ids \in SUBSET Items : ui' = Table!Tick(ui, ids) /\ ui.dialog = "none"
    BY <1>5, SourcesTable DEF Sources!SelectRows, Sources!OnPage, Sources!At
  <2>1. /\ Keeps(ui', ui, {"ticked"}) /\ ui'.ticked.ids = ids /\ ui'.ticked.of = ui.rows
        /\ ui'.ticked.early <=> ui.pending # << >>
        /\ IsTable(ui', Q) /\ (IsCurrent(ui) => IsCurrent(ui'))
    BY <1>0, Ticks
  <2>2. /\ DOMAIN ui' = SourcesFields /\ ui'.pending = ui.pending /\ ui'.rows = ui.rows
        /\ ui'.loading = ui.loading /\ ui'.lost = ui.lost /\ ui'.outdated = ui.outdated
    BY <1>0, <1>d, <2>1 DEF Keeps, SourcesOwn, TableFields
  <2>3. SourcesActs(ui')
    BY <1>0, <1>d, <2>1 DEF Keeps, SourcesActs, SourcesOwn
  <2>4. SourcesRows(ui')
    BY <1>0, <2>1, <2>2 DEF SourcesRows
  <2> QED BY <2>3, <2>4 DEF SourcesInv
<1>6. CASE Sources!ClkAllS3Connected
  <2>1. Keeps(ui', ui, {"op", "spinner"}) /\ ui'.op = "connectAll" /\ ui'.spinner = TRUE
    BY <1>d, <1>6 DEF Sources!ClkAllS3Connected, Sources!At, Keeps, SourcesOwn, Sources!Ready, Sources!Operate
  <2>2. ui'.ticked = ui.ticked
    BY <1>d, <2>1 DEF Keeps, TableFields
  <2>3. SourcesActs(ui')
    BY <1>0, <1>d, <1>6, <2>1, <2>2
    DEF Keeps, SourcesActs, SourcesOwn, Sources!ClkAllS3Connected, Sources!Ready, Sources!Operate, Sources!Operations, Sources!Dialogs
  <2> QED BY <1>0, <1>d, <2>1, <2>3, SourcesOwnKept DEF SourcesOwn, SourcesInv
<1>7. CASE Sources!ClkDeleteDatabase
  <2>1. Keeps(ui', ui, {"op", "spinner"}) /\ ui'.op = "deleteDatabase" /\ ui'.spinner = TRUE
    BY <1>d, <1>7 DEF Sources!ClkDeleteDatabase, Sources!At, Keeps, SourcesOwn, Sources!Ready, Sources!Operate
  <2>2. ui'.ticked = ui.ticked
    BY <1>d, <2>1 DEF Keeps, TableFields
  <2>3. SourcesActs(ui')
    BY <1>0, <1>d, <1>7, <2>1, <2>2
    DEF Keeps, SourcesActs, SourcesOwn, Sources!ClkDeleteDatabase, Sources!Ready, Sources!Operate, Sources!Operations, Sources!Dialogs
  <2> QED BY <1>0, <1>d, <2>1, <2>3, SourcesOwnKept DEF SourcesOwn, SourcesInv
<1>8. CASE Sources!ClkDisconnectDataSource
  <2>1. Keeps(ui', ui, {"op", "spinner"}) /\ ui'.op = "disconnect" /\ ui'.spinner = TRUE
    BY <1>d, <1>8 DEF Sources!ClkDisconnectDataSource, Sources!At, Keeps, SourcesOwn, Sources!Ready, Sources!Operate
  <2>2. ui'.ticked = ui.ticked
    BY <1>d, <2>1 DEF Keeps, TableFields
  <2>3. SourcesActs(ui')
    BY <1>0, <1>d, <1>8, <2>1, <2>2
    DEF Keeps, SourcesActs, SourcesOwn, Sources!ClkDisconnectDataSource, Sources!Ready, Sources!Operate, Sources!Operations, Sources!Dialogs
  <2> QED BY <1>0, <1>d, <2>1, <2>3, SourcesOwnKept DEF SourcesOwn, SourcesInv
<1>9. CASE Sources!ClkDeleteDataCatalog
  <2>1. Keeps(ui', ui, {"op", "spinner"}) /\ ui'.op = "deleteCatalog" /\ ui'.spinner = TRUE
    BY <1>d, <1>9 DEF Sources!ClkDeleteDataCatalog, Sources!At, Keeps, SourcesOwn, Sources!Ready, Sources!Operate
  <2>2. ui'.ticked = ui.ticked
    BY <1>d, <2>1 DEF Keeps, TableFields
  <2>3. SourcesActs(ui')
    BY <1>0, <1>d, <1>9, <2>1, <2>2
    DEF Keeps, SourcesActs, SourcesOwn, Sources!ClkDeleteDataCatalog, Sources!Ready, Sources!Operate, Sources!Operations, Sources!Dialogs
  <2> QED BY <1>0, <1>d, <2>1, <2>3, SourcesOwnKept DEF SourcesOwn, SourcesInv
<1>10. CASE Sources!ClkDisconnectAndDelete
  <2>1. Keeps(ui', ui, {"op", "spinner"}) /\ ui'.op = "disconnectAndDelete" /\ ui'.spinner = TRUE
    BY <1>d, <1>10 DEF Sources!ClkDisconnectAndDelete, Sources!At, Keeps, SourcesOwn, Sources!Ready, Sources!Operate
  <2>2. ui'.ticked = ui.ticked
    BY <1>d, <2>1 DEF Keeps, TableFields
  <2>3. SourcesActs(ui')
    BY <1>0, <1>d, <1>10, <2>1, <2>2
    DEF Keeps, SourcesActs, SourcesOwn, Sources!ClkDisconnectAndDelete, Sources!Ready, Sources!Operate, Sources!Operations, Sources!Dialogs
  <2> QED BY <1>0, <1>d, <2>1, <2>3, SourcesOwnKept DEF SourcesOwn, SourcesInv
<1>11. CASE Sources!ClkAddSource
  <2>1. Keeps(ui', ui, {"dialog"}) /\ ui'.dialog = "add"
    BY <1>d, <1>11 DEF Sources!ClkAddSource, Sources!At, Keeps, SourcesOwn, Sources!Ready
  <2>2. ui'.ticked = ui.ticked
    BY <1>d, <2>1 DEF Keeps, TableFields
  <2>3. SourcesActs(ui')
    BY <1>0, <1>d, <1>11, <2>1, <2>2
    DEF Keeps, SourcesActs, SourcesOwn, Sources!ClkAddSource, Sources!Ready, Sources!Operations, Sources!Dialogs
  <2> QED BY <1>0, <1>d, <2>1, <2>3, SourcesOwnKept DEF SourcesOwn, SourcesInv
<1>12. CASE Sources!DismissDelete
  <2>1. Keeps(ui', ui, {"dialog", "confirmed"}) /\ ui'.dialog = "none" /\ ui'.confirmed = FALSE
    BY <1>d, <1>12 DEF Sources!DismissDelete, Sources!At, Keeps, SourcesOwn, Sources!Dialog
  <2>2. ui'.ticked = ui.ticked
    BY <1>d, <2>1 DEF Keeps, TableFields
  <2>3. SourcesActs(ui')
    BY <1>0, <1>d, <1>12, <2>1, <2>2
    DEF Keeps, SourcesActs, SourcesOwn, Sources!DismissDelete, Sources!Dialog, Sources!Operations, Sources!Dialogs
  <2> QED BY <1>0, <1>d, <2>1, <2>3, SourcesOwnKept DEF SourcesOwn, SourcesInv
<1>13. CASE Sources!CloseDelResModal
  <2>1. Keeps(ui', ui, {"dialog"}) /\ ui'.dialog = "none"
    BY <1>d, <1>13 DEF Sources!CloseDelResModal, Sources!At, Keeps, SourcesOwn, Sources!Dialog
  <2>2. ui'.ticked = ui.ticked
    BY <1>d, <2>1 DEF Keeps, TableFields
  <2>3. SourcesActs(ui')
    BY <1>0, <1>d, <1>13, <2>1, <2>2
    DEF Keeps, SourcesActs, SourcesOwn, Sources!CloseDelResModal, Sources!Dialog, Sources!Operations, Sources!Dialogs
  <2> QED BY <1>0, <1>d, <2>1, <2>3, SourcesOwnKept DEF SourcesOwn, SourcesInv
<1>14. CASE Sources!DismissRds
  <2>1. Keeps(ui', ui, {"dialog"}) /\ ui'.dialog = "none"
    BY <1>d, <1>14 DEF Sources!DismissRds, Sources!At, Keeps, SourcesOwn, Sources!Dialog
  <2>2. ui'.ticked = ui.ticked
    BY <1>d, <2>1 DEF Keeps, TableFields
  <2>3. SourcesActs(ui')
    BY <1>0, <1>d, <1>14, <2>1, <2>2
    DEF Keeps, SourcesActs, SourcesOwn, Sources!DismissRds, Sources!Dialog, Sources!Operations, Sources!Dialogs
  <2> QED BY <1>0, <1>d, <2>1, <2>3, SourcesOwnKept DEF SourcesOwn, SourcesInv
<1>15. CASE Sources!TypePassword
  <2>1. Keeps(ui', ui, {"typed"}) /\ ui'.typed = TRUE
    BY <1>d, <1>15 DEF Sources!TypePassword, Sources!At, Keeps, SourcesOwn, Sources!Dialog
  <2>2. ui'.ticked = ui.ticked
    BY <1>d, <2>1 DEF Keeps, TableFields
  <2>3. SourcesActs(ui')
    BY <1>0, <1>d, <1>15, <2>1, <2>2
    DEF Keeps, SourcesActs, SourcesOwn, Sources!TypePassword, Sources!Dialog, Sources!Operations, Sources!Dialogs
  <2> QED BY <1>0, <1>d, <2>1, <2>3, SourcesOwnKept DEF SourcesOwn, SourcesInv
<1>16. CASE Sources!ChooseSecret
  <2>1. Keeps(ui', ui, {"secret"}) /\ ui'.secret = TRUE
    BY <1>d, <1>16 DEF Sources!ChooseSecret, Sources!At, Keeps, SourcesOwn, Sources!Dialog
  <2>2. ui'.ticked = ui.ticked
    BY <1>d, <2>1 DEF Keeps, TableFields
  <2>3. SourcesActs(ui')
    BY <1>0, <1>d, <1>16, <2>1, <2>2
    DEF Keeps, SourcesActs, SourcesOwn, Sources!ChooseSecret, Sources!Dialog, Sources!Operations, Sources!Dialogs
  <2> QED BY <1>0, <1>d, <2>1, <2>3, SourcesOwnKept DEF SourcesOwn, SourcesInv
<1>17. CASE Sources!ClkConfirmDelete
  <2>1. Keeps(ui', ui, {"op", "spinner"}) /\ ui'.op = "confirmDelete" /\ ui'.spinner = TRUE
    BY <1>d, <1>17 DEF Sources!ClkConfirmDelete, Sources!At, Keeps, SourcesOwn, Sources!Dialog, Sources!Operate
  <2>2. ui'.ticked = ui.ticked
    BY <1>d, <2>1 DEF Keeps, TableFields
  <2>3. SourcesActs(ui')
    BY <1>0, <1>d, <1>17, <2>1, <2>2
    DEF Keeps, SourcesActs, SourcesOwn, Sources!ClkConfirmDelete, Sources!Dialog, Sources!Operate, Sources!Operations, Sources!Dialogs
  <2> QED BY <1>0, <1>d, <2>1, <2>3, SourcesOwnKept DEF SourcesOwn, SourcesInv
<1>18. CASE Sources!TypeConfirm
  <2>1. Keeps(ui', ui, {"confirmed"}) /\ ui'.confirmed = ~ui.confirmed
    BY <1>d, <1>18 DEF Sources!TypeConfirm, Sources!At, Keeps, SourcesOwn, Sources!Dialog
  <2>2. ui'.ticked = ui.ticked
    BY <1>d, <2>1 DEF Keeps, TableFields
  <2>3. SourcesActs(ui')
    BY <1>0, <1>d, <1>18, <2>1, <2>2
    DEF Keeps, SourcesActs, SourcesOwn, Sources!TypeConfirm, Sources!Dialog, Sources!Operations, Sources!Dialogs
  <2> QED BY <1>0, <1>d, <2>1, <2>3, SourcesOwnKept DEF SourcesOwn, SourcesInv
<1>19. CASE Sources!ConnectRDS
  <2>1. Keeps(ui', ui, {"call"}) /\ ui'.call = [how |-> ui.credential, params |-> Table!ParamsOf(ui)]
    BY <1>d, <1>19, SourcesTable DEF Sources!ConnectRDS, Sources!At, Keeps, SourcesOwn, Sources!Dialog
  <2>2. ui'.ticked = ui.ticked
    BY <1>d, <2>1 DEF Keeps, TableFields
  <2>4. Table!ParamsOf(ui) \in PageParams(Q) /\ ui'.call \in [how : {"password", "secret"}, params : PageParams(Q)]
    BY <1>0, <1>19, <2>1, ParamsTyped DEF Sources!ConnectRDS
  <2>3. SourcesActs(ui')
    BY <1>0, <1>d, <1>19, <2>1, <2>2, <2>4
    DEF Keeps, SourcesActs, SourcesOwn, Sources!ConnectRDS, Sources!Dialog, Sources!Operations, Sources!Dialogs
  <2> QED BY <1>0, <1>d, <2>1, <2>3, SourcesOwnKept DEF SourcesOwn, SourcesInv
<1>20. CASE Sources!ChooseCredential
  <2> PICK c \in {"password", "secret"} : ui' = [ui EXCEPT !.credential = c]
    BY <1>20 DEF Sources!ChooseCredential, Sources!At
  <2>1. Keeps(ui', ui, {"credential"}) /\ ui'.credential = c
    BY <1>d DEF Keeps, SourcesOwn
  <2>2. ui'.ticked = ui.ticked
    BY <1>d, <2>1 DEF Keeps, TableFields
  <2>3. SourcesActs(ui')
    BY <1>0, <1>d, <2>1, <2>2 DEF Keeps, SourcesActs, SourcesOwn
  <2> QED BY <1>0, <1>d, <2>1, <2>3, SourcesOwnKept DEF SourcesOwn, SourcesInv
<1>21. CASE Sources!ClkEditSource
  <2>1. Keeps(ui', ui, {"dialog"}) /\ ui'.dialog = "edit"
    BY <1>d, <1>21 DEF Sources!ClkEditSource, Sources!At, Keeps, SourcesOwn
  <2>2. ui'.ticked = ui.ticked
    BY <1>d, <2>1 DEF Keeps, TableFields
  <2>3. ui.ticked.ids # {}
    BY <1>21 DEF Sources!ClkEditSource, Sources!OneOf
  <2>4. ui.tag = "jdbc" /\ ui.op = "none"
    BY <1>0, <1>21 DEF Sources!ClkEditSource, Sources!Ready, SourcesActs
  <2>5. SourcesActs(ui')
    BY <1>0, <1>d, <2>1, <2>2, <2>3, <2>4
    DEF Keeps, SourcesActs, SourcesOwn, Sources!Dialogs
  <2> QED BY <1>0, <1>d, <2>1, <2>5, SourcesOwnKept DEF SourcesOwn, SourcesInv
<1>22. CASE Sources!ClkConnected
  <2>1. \/ Keeps(ui', ui, {"dialog", "typed"}) /\ ui'.dialog = "rds" /\ ui.tag = "rds"
        \/ Keeps(ui', ui, {"op", "spinner"}) /\ ui'.op = "connect" /\ ui'.spinner = TRUE
    BY <1>d, <1>22 DEF Sources!ClkConnected, Sources!Operate, Sources!At, Keeps, SourcesOwn
  <2>2. ui'.ticked = ui.ticked
    BY <1>d, <2>1 DEF Keeps, TableFields
  <2>3. ui.dialog = "none" /\ ui.op = "none"
    BY <1>0, <1>22 DEF Sources!ClkConnected, Sources!Ready, SourcesActs
  <2>4. SourcesActs(ui')
    BY <1>0, <1>d, <2>1, <2>2, <2>3
    DEF Keeps, SourcesActs, SourcesOwn, Sources!Dialogs, Sources!Operations
  <2> QED BY <1>0, <1>d, <2>1, <2>4, SourcesOwnKept DEF SourcesOwn, SourcesInv
<1>23. CASE Sources!ClkDeleteDataSource
  <2>1. \/ Keeps(ui', ui, {"dialog"}) /\ ui'.dialog = "delete" /\ ui.tag = "jdbc"
        \/ Keeps(ui', ui, {"op", "spinner"}) /\ ui'.op = "deleteDataSource" /\ ui'.spinner = TRUE
    BY <1>d, <1>23 DEF Sources!ClkDeleteDataSource, Sources!Operate, Sources!At, Keeps, SourcesOwn
  <2>2. ui'.ticked = ui.ticked
    BY <1>d, <2>1 DEF Keeps, TableFields
  <2>3. ui.dialog = "none" /\ ui.op = "none" /\ ui.ticked.ids # {}
    BY <1>0, <1>23 DEF Sources!ClkDeleteDataSource, Sources!Ready, Sources!SomeTicked, SourcesActs
  <2>4. SourcesActs(ui')
    BY <1>0, <1>d, <2>1, <2>2, <2>3
    DEF Keeps, SourcesActs, SourcesOwn, Sources!Dialogs, Sources!Operations
  <2> QED BY <1>0, <1>d, <2>1, <2>4, SourcesOwnKept DEF SourcesOwn, SourcesInv
<1>o. LET over == Sources!Over(ui)
      IN  /\ Keeps(over, ui, {"op", "spinner"}) /\ over.op = "none" /\ over.spinner = FALSE
          /\ over.ticked = ui.ticked /\ SourcesActs(over) /\ SourcesInv(over)
  <2> DEFINE over == Sources!Over(ui)
  <2>1. Keeps(over, ui, {"op", "spinner"}) /\ over.op = "none" /\ over.spinner = FALSE
    BY <1>d DEF Sources!Over, Keeps, SourcesOwn
  <2> HIDE DEF over
  <2>2. over.ticked = ui.ticked
    BY <1>d, <2>1 DEF Keeps, TableFields
  <2>3. SourcesActs(over)
    BY <1>0, <1>d, <2>1, <2>2 DEF Keeps, SourcesActs, SourcesOwn, Sources!Operations
  <2>4. SourcesInv(over)
    BY <1>0, <1>d, <2>1, <2>3, SourcesOwnKept DEF SourcesOwn, SourcesInv
  <2> QED BY <2>1, <2>2, <2>3, <2>4 DEF over
<1>24. ASSUME NEW result, Sources!OperationAnswered(result) PROVE SourcesInv(ui')
  <2> DEFINE over == Sources!Over(ui)
             t == IF ui.op = "connectAll" THEN over.ticked ELSE Table!NoTicks
             w == [over EXCEPT !.ticked = t]
  <2>1. \/ ui' = Sources!GetPageData(w)
        \/ ui' = over
        \/ ui' = Table!Untick(over)
    BY <1>24, SourcesTable DEF Sources!OperationAnswered, Sources!At
  <2>2. over.dialog = "none"
    <3>1. ui.dialog = "none"
      BY <1>0, <1>24 DEF Sources!OperationAnswered, SourcesActs
    <3> QED BY <1>d, <1>o, <3>1 DEF Keeps, SourcesOwn
  <2>3. DOMAIN over = SourcesFields /\ IsTable(over, Q) /\ HasTable(over, Q) /\ over.loading \in BOOLEAN
    BY <1>o DEF SourcesInv, SourcesRows, IsTable, HasTable
  <2>4. t \in Selections(Q)
    BY <1>0, <1>o
  <2> HIDE DEF over, t
  <2>5. ASSUME ui' = Sources!GetPageData(w) PROVE SourcesInv(ui')
    <3>1. Keeps(w, over, {"ticked"}) /\ w.ticked = t
      BY <2>3 DEF Keeps, SourcesFields, TableFields
    <3> HIDE DEF w
    <3>2. HasTable(w, Q)
      <4>1. w.page = over.page /\ w.query = over.query
        BY <2>3, <3>1 DEF Keeps, HasTable, TableFields
      <4> QED BY <2>3, <2>4, <3>1, <4>1, TableMoved DEF HasTable
    <3>3. DOMAIN w = SourcesFields /\ w.dialog = "none" /\ SourcesActs(w)
      BY <1>o, <2>2, <2>3, <3>1 DEF Keeps, SourcesActs, SourcesFields, SourcesOwn, over
    <3> QED BY <2>5, <3>2, <3>3, SourcesAsk
  <2>6. ASSUME ui' = Table!Untick(over) PROVE SourcesInv(ui')
    <3>1. Keeps(ui', over, {"ticked"}) /\ ui'.ticked = Table!NoTicks /\ ui'.ticked.ids = {}
      BY <2>3, <2>6, Unticks
    <3>2. /\ ui'.pending = over.pending /\ ui'.rows = over.rows /\ ui'.loading = over.loading
          /\ ui'.lost = over.lost /\ ui'.outdated = over.outdated /\ DOMAIN ui' = SourcesFields
      BY <2>3, <3>1 DEF Keeps, SourcesFields, SourcesOwn, TableFields
    <3>3. {"ticked"} \cap {"page", "query", "pending", "rows", "fresh"} = {}
      OBVIOUS
    <3>4. IsTable(ui', Q) /\ (IsCurrent(over) => IsCurrent(ui'))
      BY <1>0, <2>3, <3>1, <3>2, <3>3, TableKept
    <3>5. SourcesRows(ui')
      BY <1>o, <3>1, <3>2, <3>4 DEF SourcesInv, SourcesRows, over
    <3>6. SourcesActs(ui')
      BY <1>o, <2>2, <2>3, <3>1 DEF Keeps, SourcesActs, SourcesFields, SourcesOwn, over
    <3> QED BY <3>5, <3>6 DEF SourcesInv
  <2> QED BY <1>o, <2>1, <2>5, <2>6 DEF over
<1>25. ASSUME NEW result, Sources!ConfirmDelete(result) PROVE SourcesInv(ui')
  <2> DEFINE over == Sources!Over(ui)
  <2>1. \/ \E next \in {"none", "failures"} :
              ui' = Sources!GetPageData([over EXCEPT !.dialog = next, !.confirmed = FALSE])
        \/ ui' = over
    BY <1>25 DEF Sources!ConfirmDelete, Sources!At
  <2>2. ASSUME NEW next \in {"none", "failures"},
               ui' = Sources!GetPageData([over EXCEPT !.dialog = next, !.confirmed = FALSE])
        PROVE  SourcesInv(ui')
    <3> DEFINE w == [over EXCEPT !.dialog = next, !.confirmed = FALSE]
    <3>1. DOMAIN over = SourcesFields /\ HasTable(over, Q)
      BY <1>o DEF SourcesInv, SourcesRows, IsTable
    <3> HIDE DEF over
    <3>2. Keeps(w, over, {"dialog", "confirmed"}) /\ w.dialog = next
      BY <3>1 DEF Keeps, SourcesFields, SourcesOwn
    <3> HIDE DEF w
    <3>3. HasTable(w, Q)
      BY <3>1, <3>2 DEF Keeps, HasTable, TableFields
    <3>4. w.ticked = over.ticked /\ DOMAIN w = SourcesFields
      BY <3>1, <3>2 DEF Keeps, HasTable, TableFields
    <3>5. SourcesActs(w)
      BY <1>o, <3>1, <3>2, <3>4
      DEF over, Keeps, SourcesActs, SourcesFields, SourcesOwn, Sources!Dialogs
    <3> QED BY <2>2, <3>2, <3>3, <3>4, <3>5, SourcesAsk DEF w
  <2> QED BY <1>o, <2>1, <2>2
<1>26. ASSUME NEW result, Sources!ConnectRDSAnswered(result) PROVE SourcesInv(ui')
  <2> DEFINE over == [ui EXCEPT !.call = Sources!NoCall]
             x == [over EXCEPT !.outdated = ui.call.params # Table!ParamsOf(ui)]
             y == Table!Untick(x)
  <2>0. /\ ui.call \in [how : {"password", "secret"}, params : PageParams(Q)]
        /\ ui.tag = "rds" /\ ui.call.params \in PageParams(Q)
    BY <1>0, <1>26 DEF Sources!ConnectRDSAnswered, SourcesActs
  <2>1. ui' = Table!SendWith(y, ui.call.params) \/ ui' = over
    BY <1>26, SourcesTable DEF Sources!ConnectRDSAnswered, Sources!At
  <2>2. Keeps(over, ui, {"call"}) /\ over.call = Sources!NoCall
    BY <1>d DEF Keeps, SourcesOwn
  <2>3. Keeps(x, ui, {"call", "outdated"}) /\ x.call = Sources!NoCall /\ (x.outdated <=> ui.call.params # Table!ParamsOf(ui))
    BY <1>d DEF Keeps, SourcesOwn
  <2> HIDE DEF over, x
  <2>4. ASSUME ui' = over PROVE SourcesInv(ui')
    <3>1. SourcesActs(over)
      <4>1. over.ticked = ui.ticked
        BY <1>d, <2>2 DEF Keeps, TableFields
      <4> QED BY <1>0, <1>d, <2>2, <4>1 DEF Keeps, SourcesActs, SourcesOwn
    <3> QED BY <1>0, <1>d, <2>2, <2>4, <3>1, SourcesOwnKept DEF SourcesOwn, SourcesInv
  <2>5. ASSUME ui' = Table!SendWith(y, ui.call.params) PROVE SourcesInv(ui')
    <3>1. HasTable(x, Q) /\ DOMAIN x = SourcesFields
      BY <1>0, <2>3 DEF Keeps, HasTable, TableFields
    <3>2. Keeps(y, x, {"ticked"}) /\ y.ticked.ids = {} /\ HasTable(y, Q)
      BY <3>1, Unticks
    <3> HIDE DEF y
    <3>3. Sends(ui', y, Q) /\ (ui.call.params = Table!ParamsOf(y) => NewestAsked(ui'))
      BY <2>0, <2>5, <3>2, SendsWith
    <3>4. /\ Keeps(ui', x, {"ticked", "pending", "loading"}) /\ DOMAIN ui' = SourcesFields
          /\ ui'.ticked.ids = {}
      BY <3>1, <3>2, <3>3 DEF Sends, Keeps, SourcesFields, TableFields
    <3>5. Table!ParamsOf(y) = Table!ParamsOf(ui) /\ ui'.outdated = x.outdated
      BY <1>d, <2>3, <3>1, <3>2, <3>3
      DEF Keeps, Sends, Table!ParamsOf, SourcesFields, SourcesOwn, TableFields
    <3>6. ui'.outdated \/ IsCurrent(ui')
      BY <2>3, <3>3, <3>5 DEF IsCurrent
    <3>7. SourcesRows(ui')
      BY <3>3, <3>4, <3>6 DEF Sources!NoCall, SourcesRows, Sends
    <3>8. SourcesActs(ui')
      <4>1. Keeps(ui', ui, {"call", "outdated", "ticked", "pending", "loading"}) /\ ui'.call = Sources!NoCall
        BY <1>d, <2>3, <3>1, <3>4 DEF Keeps, SourcesFields, SourcesOwn
      <4> QED BY <1>0, <1>d, <2>0, <3>4, <4>1 DEF Keeps, SourcesActs, SourcesOwn
    <3> QED BY <3>7, <3>8 DEF SourcesInv
  <2> QED BY <2>1, <2>4, <2>5
<1>27. CASE Sources!CloseConnection
  <2> DEFINE w == [ui EXCEPT !.dialog = "none"]
  <2>1. ui' = Sources!GetPageData(w) /\ ui.dialog \in {"add", "edit"}
    BY <1>27 DEF Sources!CloseConnection, Sources!At
  <2>2. Keeps(w, ui, {"dialog"}) /\ w.dialog = "none"
    BY <1>d DEF Keeps, SourcesOwn
  <2> HIDE DEF w
  <2>3. HasTable(w, Q) /\ DOMAIN w = SourcesFields /\ w.ticked = ui.ticked
    BY <1>0, <2>2 DEF Keeps, HasTable, TableFields
  <2>4. SourcesActs(w)
    BY <1>0, <1>d, <2>2, <2>3 DEF Keeps, SourcesActs, SourcesOwn, Sources!Dialogs
  <2> QED BY <2>1, <2>2, <2>3, <2>4, SourcesAsk
<1> QED BY <1>1, <1>2, <1>3, <1>4, <1>5, <1>6, <1>7, <1>8, <1>9, <1>10, <1>11, <1>12, <1>13, <1>14, <1>15, <1>16, <1>17, <1>18, <1>19, <1>20, <1>21, <1>22, <1>23, <1>24, <1>25, <1>26, <1>27 DEF Sources!ListNext

LEMMA SourcesHolds ==
    ASSUME Sources!Here => SourcesInv(ui)
    PROVE  /\ Sources!TypeOK /\ Sources!ShowsWhatIsAsked /\ Sources!WaitsForSomething
           /\ Sources!ActsOnWhatIsShown /\ Sources!DialogHasTarget
<1>1. SUFFICES ASSUME Sources!Here, SourcesInv(ui)
               PROVE  /\ Sources!TypeOK /\ Sources!ShowsWhatIsAsked /\ Sources!WaitsForSomething
                      /\ Sources!ActsOnWhatIsShown /\ Sources!DialogHasTarget
  BY DEF Sources!TypeOK, Sources!ShowsWhatIsAsked, Sources!WaitsForSomething,
         Sources!ActsOnWhatIsShown, Sources!DialogHasTarget
<1>2. /\ Table!TableTypeOver(ui, PageParams(Table!Queries))
      /\ IsCurrent(ui) => Table!RowsAreCurrent(ui)
  BY <1>1, TableHolds DEF SourcesInv, SourcesRows
<1>3. Sources!Params = PageParams(Table!Queries)
  BY SourcesTable DEF Sources!Params, PageParams
<1>4. Sources!TableType(ui)
  BY <1>2, <1>3, SourcesTable DEF Sources!TableType, Sources!TableTypeOver, Table!TableTypeOver
<1>5. IsCurrent(ui) => Sources!RowsAreCurrent(ui)
  BY <1>2, SourcesTable DEF Sources!RowsAreCurrent, Table!RowsAreCurrent
<1>6. Sources!TypeOK
  BY <1>1, <1>3, <1>4, SourcesTable DEF Sources!TypeOK, SourcesInv, SourcesActs, Sources!NoCall
<1>7. Sources!ShowsWhatIsAsked
  BY <1>1, <1>5 DEF Sources!ShowsWhatIsAsked, SourcesInv, SourcesRows
<1>8. Sources!WaitsForSomething
  BY <1>1 DEF Sources!WaitsForSomething, SourcesInv, SourcesRows, SourcesActs
<1>9. Sources!ActsOnWhatIsShown /\ Sources!DialogHasTarget
  BY <1>1 DEF Sources!ActsOnWhatIsShown, Sources!TicksAreShown, Sources!DialogHasTarget,
              SourcesInv, SourcesRows, SourcesActs
<1> QED BY <1>6, <1>7, <1>8, <1>9

-----------------------------------------------------------------------------
(***************************************************************************)
(* The list of the jobs (JobList).                                         *)
(***************************************************************************)
LEMMA JobsTable ==
    /\ \A u, p : Jobs!SendWith(u, p) = Table!SendWith(u, p)
    /\ \A u : Jobs!Send(u) = Table!Send(u)
    /\ \A u, query : Jobs!Queried(u, query) = Table!Queried(u, query)
    /\ \A u, i : Jobs!Shown(u, i) = Table!Shown(u, i)
    /\ \A u, i : Jobs!Lost(u, i) = Table!Lost(u, i)
    /\ \A u : Jobs!ParamsOf(u) = Table!ParamsOf(u)
    /\ \A u : Jobs!PagesOf(u) \subseteq 1 .. MaxPage
    /\ \A own : Jobs!TableAnd(own) = Table!TableAnd(own)
    /\ Jobs!NoRows = Table!NoRows
<1>1. \A u, p : Jobs!SendWith(u, p) = Table!SendWith(u, p)
  BY DEF Jobs!SendWith, Table!SendWith, Jobs!ParamsOf, Table!ParamsOf
<1>2. \A u : Jobs!Send(u) = Table!Send(u)
  BY <1>1 DEF Jobs!Send, Table!Send, Jobs!ParamsOf, Table!ParamsOf
<1>3. \A u, query : Jobs!Queried(u, query) = Table!Queried(u, query)
  BY <1>2 DEF Jobs!Queried, Table!Queried
<1>4. \A u, i : Jobs!Without(u, i) = Table!Without(u, i)
  BY DEF Jobs!Without, Table!Without
<1>5. \A u, i : Jobs!Shown(u, i) = Table!Shown(u, i)
  BY <1>4 DEF Jobs!Shown, Table!Shown
<1>6. \A u, i : Jobs!Lost(u, i) = Table!Lost(u, i)
  BY <1>4 DEF Jobs!Lost, Table!Lost
<1>7. \A u : Jobs!ParamsOf(u) = Table!ParamsOf(u)
  BY DEF Jobs!ParamsOf, Table!ParamsOf
<1>8. \A u : Jobs!PagesOf(u) \subseteq 1 .. MaxPage
  BY SomePages DEF Jobs!PagesOf
<1>9. \A own : Jobs!TableAnd(own) = Table!TableAnd(own)
  BY DEF Jobs!TableAnd, Table!TableAnd, Jobs!NewTable, Table!NewTable, Jobs!NoTicks, Table!NoTicks,
         Jobs!Ticked, Table!Ticked, Jobs!NoRows, Table!NoRows
<1>10. Jobs!NoRows = Table!NoRows
  BY DEF Jobs!NoRows, Table!NoRows
<1> QED BY <1>1, <1>2, <1>3, <1>5, <1>6, <1>7, <1>8, <1>9, <1>10

JobsFields == TableFields \cup {"state", "acting", "outdated"}

JobsInv(u) ==
    /\ DOMAIN u = JobsFields
    /\ IsTable(u, Table!Queries) /\ (u.outdated \/ IsCurrent(u))
    /\ u.loading => u.pending # << >>
    /\ u.acting \subseteq PageParams(Table!Queries)
    /\ u.state \in Jobs!JobStates \cup {"none"}

\* The table as it is selected is asked for.
LEMMA JobsAsk ==
    ASSUME NEW u, JobsInv(u), NEW w, HasTable(w, Table!Queries),
           NEW changed, Keeps(w, u, changed), changed \cap {"acting", "state"} = {}
    PROVE  JobsInv(Jobs!GetPageData(w))
<1> DEFINE x == [w EXCEPT !.outdated = FALSE]
           v == Table!Send(x)
<1>1. Keeps(x, w, {"outdated"}) /\ HasTable(x, Table!Queries)
  BY DEF Keeps, HasTable, TableFields
<1>2. Jobs!GetPageData(w) = v
  BY JobsTable DEF Jobs!GetPageData
<1> HIDE DEF x
<1>3. Sends(v, x, Table!Queries) /\ IsCurrent(v)
  BY <1>1, SendsNow
<1> HIDE DEF v
<1>4. DOMAIN v = JobsFields /\ v.acting = u.acting /\ v.state = u.state
  BY <1>1, <1>3 DEF Sends, Keeps, JobsInv, JobsFields
<1> QED BY <1>2, <1>3, <1>4 DEF Sends, JobsInv

LEMMA JobsMounted == JobsInv(Jobs!Mounted)
<1> DEFINE own == [state |-> "none", acting |-> {}, outdated |-> FALSE]
           w == Table!TableAnd(own)
           v == Table!Send(w)
<1>1. /\ DOMAIN own = {"state", "acting", "outdated"}
      /\ own.state = "none" /\ own.acting = {}
  OBVIOUS
<1>2. Jobs!Mounted = v
  BY JobsTable DEF Jobs!Mounted
<1> HIDE DEF own
<1>3. "plain" \in Table!Queries
  BY DEF Table!Queries
<1>7. /\ DOMAIN w = TableFields \cup DOMAIN own /\ HasTable(w, Table!Queries)
      /\ \A f \in DOMAIN own : f \in TableFields \/ w[f] = own[f]
  BY <1>3, Opens
<1>8. "state" \notin TableFields /\ "acting" \notin TableFields
  BY DEF TableFields
<1>4. DOMAIN w = JobsFields /\ HasTable(w, Table!Queries) /\ w.state = "none" /\ w.acting = {}
  BY <1>1, <1>7, <1>8 DEF JobsFields
<1> HIDE DEF w
<1>5. Sends(v, w, Table!Queries) /\ IsCurrent(v)
  BY <1>4, SendsNow
<1> HIDE DEF v
<1>6. DOMAIN v = JobsFields /\ v.acting = {} /\ v.state = "none"
  BY <1>4, <1>5 DEF Sends, Keeps, JobsFields
<1> QED BY <1>2, <1>5, <1>6 DEF Sends, JobsInv

LEMMA JobsStep ==
    ASSUME Jobs!Here, JobsInv(ui), Jobs!JobListNext
    PROVE  JobsInv(ui')
<1> DEFINE Q == Table!Queries
<1>0. /\ DOMAIN ui = JobsFields /\ IsTable(ui, Q) /\ HasTable(ui, Q)
      /\ ui.loading \in BOOLEAN
  BY DEF JobsInv, IsTable, HasTable
<1>1. ASSUME NEW result, NEW i \in DOMAIN ui.pending, Jobs!PageDataAnswered(i, result)
      PROVE  JobsInv(ui')
  <2>1. CASE ui' = Table!Shown(ui, i)
    <3>1. Shows(ui', ui, Q, i)
      BY <1>0, <2>1, ShowsAnswer
    <3>2. DOMAIN ui' = JobsFields /\ ui'.acting = ui.acting /\ ui'.state = ui.state
      BY <1>0, <3>1 DEF Shows, Keeps, JobsFields
    <3> QED BY <3>1, <3>2 DEF Shows, JobsInv
  <2>2. CASE ui' = [Table!Lost(ui, i) EXCEPT !.loading = FALSE]
    <3> DEFINE w == Table!Lost(ui, i)
    <3>1. Loses(w, ui, Q)
      BY <1>0, LosesAnswer
    <3> HIDE DEF w
    <3>2. Keeps(ui', w, {"loading"}) /\ ui'.loading = FALSE /\ ui'.ticked = w.ticked
      BY <1>0, <2>2, <3>1 DEF w, Loses, Keeps, JobsFields, TableFields
    <3>3. w.ticked \in Selections(Q)
      BY <3>1, Selects DEF Loses, IsTable
    <3>4. {"loading"} \cap {"page", "query", "pending", "rows", "fresh"} = {}
      OBVIOUS
    <3>5. IsTable(ui', Q) /\ (IsCurrent(w) => IsCurrent(ui'))
      BY <3>1, <3>2, <3>3, <3>4, TableKept DEF Loses
    <3>6. /\ DOMAIN ui' = JobsFields /\ ui'.acting = ui.acting /\ ui'.state = ui.state
          /\ ui'.outdated = ui.outdated
      BY <1>0, <3>1, <3>2 DEF Loses, Keeps, JobsFields, TableFields
    <3> QED BY <3>1, <3>2, <3>5, <3>6 DEF Loses, JobsInv
  <2> QED BY <1>1, <2>1, <2>2, JobsTable DEF Jobs!PageDataAnswered, Jobs!At, Jobs!PageFailed
<1>2. CASE Jobs!Refresh
  <2>1. ui' = Jobs!GetPageData(ui) /\ Keeps(ui, ui, {})
    BY <1>2 DEF Jobs!Refresh, Jobs!At, Keeps
  <2> QED BY <1>0, <2>1, JobsAsk
<1>3. CASE Jobs!ChangePage
  <2> PICK page \in Jobs!PagesOf(ui) : ui' = Jobs!GetPageData([ui EXCEPT !.page = page])
    BY <1>3 DEF Jobs!ChangePage, Jobs!At
  <2> DEFINE w == [ui EXCEPT !.page = page]
  <2>1. Keeps(w, ui, {"page"}) /\ w.page = page /\ w.query = ui.query /\ w.ticked = ui.ticked
    BY <1>0 DEF Keeps, JobsFields, TableFields
  <2> HIDE DEF w
  <2>2. HasTable(w, Q)
    BY <1>0, <2>1, JobsTable, Selects, TableMoved DEF HasTable
  <2> QED BY <2>1, <2>2, JobsAsk DEF w
<1>4. CASE Jobs!ChangeQuery
  <2> PICK query \in Q : ui' = Table!Queried([ui EXCEPT !.outdated = FALSE], query)
    BY <1>4, JobsTable DEF Jobs!ChangeQuery, Jobs!At, Jobs!Queries, Table!Queries
  <2> DEFINE w == [ui EXCEPT !.outdated = FALSE]
  <2>1. Keeps(w, ui, {"outdated"}) /\ HasTable(w, Q)
    BY <1>0 DEF Keeps, JobsFields, HasTable, TableFields
  <2> HIDE DEF w
  <2>2. Turns(ui', w, Q, query)
    BY <2>1, TurnsToFirst DEF w
  <2>3. DOMAIN ui' = JobsFields /\ ui'.acting = ui.acting /\ ui'.state = ui.state
    BY <1>0, <2>1, <2>2 DEF Turns, Keeps, JobsFields, TableFields
  <2> QED BY <2>2, <2>3 DEF Turns, JobsInv
<1>5. CASE Jobs!SelectRow
  <2> PICK state \in Jobs!JobStates : ui' = [ui EXCEPT !.state = state]
    BY <1>5 DEF Jobs!SelectRow, Jobs!At
  <2>1. Keeps(ui', ui, {"state"}) /\ ui'.state = state /\ {"state"} \cap TableFields = {}
    BY <1>0 DEF Keeps, JobsFields, TableFields
  <2>2. IsTable(ui', Q) /\ (IsCurrent(ui) => IsCurrent(ui'))
    BY <1>0, <2>1, TableUntouched
  <2> QED BY <2>1, <2>2 DEF JobsInv, JobsFields, TableFields, Keeps
<1>6. CASE Jobs!ClkOption
  <2>1. ui' = [ui EXCEPT !.acting = @ \cup {Table!ParamsOf(ui)}]
    BY <1>6, JobsTable DEF Jobs!ClkOption, Jobs!At
  <2>2. /\ Keeps(ui', ui, {"acting"}) /\ ui'.acting = ui.acting \cup {Table!ParamsOf(ui)}
        /\ {"acting"} \cap TableFields = {}
    BY <1>0, <2>1 DEF Keeps, JobsFields, TableFields
  <2>3. IsTable(ui', Q) /\ (IsCurrent(ui) => IsCurrent(ui'))
    BY <1>0, <2>2, TableUntouched
  <2>4. Table!ParamsOf(ui) \in PageParams(Q)
    BY <1>0, ParamsTyped
  <2> QED BY <2>2, <2>3, <2>4 DEF JobsInv, JobsFields, TableFields, Keeps
<1>7. ASSUME NEW result, Jobs!OptionAnswered(result) PROVE JobsInv(ui')
  <2> PICK params \in ui.acting :
        ui' = IF result = "resolved"
              THEN Table!SendWith([[ui EXCEPT !.acting = @ \ {params}]
                                      EXCEPT !.outdated = params # Table!ParamsOf(ui)], params)
              ELSE [ui EXCEPT !.acting = @ \ {params}]
    BY <1>7, JobsTable DEF Jobs!OptionAnswered, Jobs!At
  <2> DEFINE w == [[ui EXCEPT !.acting = @ \ {params}] EXCEPT !.outdated = params # Table!ParamsOf(ui)]
  <2>p. params \in PageParams(Q) /\ ui.acting \ {params} \subseteq PageParams(Q)
    BY DEF JobsInv
  <2>1. CASE ui' = Table!SendWith(w, params)
    <3>1. /\ Keeps(w, ui, {"acting", "outdated"}) /\ w.acting = ui.acting \ {params}
          /\ (w.outdated <=> params # Table!ParamsOf(ui))
          /\ Table!ParamsOf(w) = Table!ParamsOf(ui)
      BY <1>0 DEF Keeps, JobsFields, TableFields, Table!ParamsOf
    <3> HIDE DEF w
    <3>2. HasTable(w, Q)
      BY <1>0, <3>1 DEF HasTable, Keeps, TableFields
    <3>3. /\ Sends(ui', w, Q)
          /\ params = Table!ParamsOf(w) => NewestAsked(ui')
      BY <2>p, <2>1, <3>2, SendsWith
    <3>4. /\ DOMAIN ui' = JobsFields /\ ui'.acting = w.acting /\ ui'.state = ui.state
          /\ ui'.outdated = w.outdated
      BY <1>0, <3>1, <3>3 DEF Sends, Keeps, JobsFields, TableFields
    <3>5. ui'.outdated \/ IsCurrent(ui')
      BY <3>1, <3>3, <3>4 DEF IsCurrent
    <3> QED BY <2>p, <3>1, <3>3, <3>4, <3>5 DEF Sends, JobsInv
  <2>2. CASE ui' = [ui EXCEPT !.acting = @ \ {params}]
    <3>1. /\ Keeps(ui', ui, {"acting"}) /\ ui'.acting = ui.acting \ {params}
          /\ {"acting"} \cap TableFields = {}
      BY <1>0, <2>2 DEF Keeps, JobsFields, TableFields
    <3>2. IsTable(ui', Q) /\ (IsCurrent(ui) => IsCurrent(ui'))
      BY <1>0, <3>1, TableUntouched
    <3> QED BY <2>p, <3>1, <3>2 DEF JobsInv, JobsFields, TableFields, Keeps
  <2> QED BY <2>1, <2>2
<1> QED BY <1>1, <1>2, <1>3, <1>4, <1>5, <1>6, <1>7 DEF Jobs!JobListNext

LEMMA JobsHolds ==
    ASSUME Jobs!Here => JobsInv(ui)
    PROVE  Jobs!TypeOK /\ Jobs!ShowsWhatIsAsked /\ Jobs!WaitsForSomething
<1>1. SUFFICES ASSUME Jobs!Here, JobsInv(ui) PROVE Jobs!TypeOK /\ Jobs!ShowsWhatIsAsked /\ Jobs!WaitsForSomething
  BY DEF Jobs!TypeOK, Jobs!ShowsWhatIsAsked, Jobs!WaitsForSomething
<1>2. /\ Table!TableTypeOver(ui, PageParams(Table!Queries))
      /\ IsCurrent(ui) => Table!RowsAreCurrent(ui)
  BY <1>1, TableHolds DEF JobsInv
<1>3. Jobs!TableType(ui)
  BY <1>2 DEF Jobs!TableType, Jobs!TableTypeOver, Table!TableTypeOver, Jobs!Params, PageParams,
     Jobs!Queries, Table!Queries, Jobs!NoRows, Table!NoRows, Jobs!ParamsOf, Table!ParamsOf
<1>4. IsCurrent(ui) => Jobs!RowsAreCurrent(ui)
  BY <1>2 DEF Jobs!RowsAreCurrent, Table!RowsAreCurrent, Jobs!ParamsOf, Table!ParamsOf
<1>5. Jobs!Params = PageParams(Table!Queries)
  BY DEF Jobs!Params, PageParams, Jobs!Queries, Table!Queries
<1> QED BY <1>1, <1>3, <1>4, <1>5
        DEF JobsInv, Jobs!TypeOK, Jobs!ShowsWhatIsAsked, Jobs!WaitsForSomething

-----------------------------------------------------------------------------
(***************************************************************************)
(* The page of a run (GlueJob).                                            *)
(***************************************************************************)
LEMMA RunTable ==
    /\ \A u : Run!Send(u) = Table!Send(u)
    /\ \A u, query : Run!Queried(u, query) = Table!Queried(u, query)
    /\ \A u, i : Run!Shown(u, i) = Table!Shown(u, i)
    /\ \A u, i : Run!Lost(u, i) = Table!Lost(u, i)
    /\ \A u : Run!ParamsOf(u) = Table!ParamsOf(u)
    /\ \A u : Run!PagesOf(u) \subseteq 1 .. MaxPage
    /\ \A own : Run!TableAnd(own) = Table!TableAnd(own)
    /\ Run!NoRows = Table!NoRows
    /\ Run!Queries = Table!Queries
<1>1. Run!NoRows = Table!NoRows
  BY DEF Run!NoRows, Table!NoRows
<1>2. Run!Queries = Table!Queries
  BY DEF Run!Queries, Table!Queries
<1>3. \A u : Run!ParamsOf(u) = Table!ParamsOf(u)
  BY DEF Run!ParamsOf, Table!ParamsOf
<1>4. \A u : Run!PagesOf(u) \subseteq 1 .. MaxPage
  BY SomePages DEF Run!PagesOf
<1>5. \A own : Run!TableAnd(own) = Table!TableAnd(own)
  BY DEF Run!TableAnd, Table!TableAnd, Run!NewTable, Table!NewTable, Run!NoTicks,
     Table!NoTicks, Run!Ticked, Table!Ticked, Run!NoRows, Table!NoRows
<1>6. \A u, p : Run!SendWith(u, p) = Table!SendWith(u, p)
  BY DEF Run!SendWith, Table!SendWith, Run!ParamsOf, Table!ParamsOf
<1>7. \A u : Run!Send(u) = Table!Send(u)
  BY <1>6 DEF Run!Send, Table!Send, Run!ParamsOf, Table!ParamsOf
<1>8. \A u, query : Run!Queried(u, query) = Table!Queried(u, query)
  BY <1>7 DEF Run!Queried, Table!Queried
<1>9. \A s, i : Run!Without(s, i) = Table!Without(s, i)
  BY DEF Run!Without, Table!Without
<1>10. \A u, i : Run!Shown(u, i) = Table!Shown(u, i)
  BY <1>9 DEF Run!Shown, Table!Shown
<1>11. \A u, i : Run!Lost(u, i) = Table!Lost(u, i)
  BY <1>9 DEF Run!Lost, Table!Lost
<1> QED BY <1>7, <1>8, <1>10, <1>11, <1>3, <1>4, <1>5, <1>1, <1>2

\* A share, in percent.
LEMMA Percentage ==
    ASSUME NEW part \in Nat, NEW all \in Nat, part <= all, all # 0
    PROVE  /\ (part * 100) \div all \in Int
           /\ (part * 100) \div all <= 100 /\ (part * 100) \div all >= 0
           /\ (part * 100) \div all = 100 => part = all
<1> DEFINE q == (part * 100) \div all
<1>1. q \in Int /\ all * q <= part * 100 /\ part * 100 < all * (q + 1)
  OBVIOUS
<1> HIDE DEF q
<1>2. q <= 100
  <2>1. SUFFICES ASSUME q >= 101 PROVE FALSE
    BY <1>1
  <2>2. all * 101 <= all * q
    BY <1>1, <2>1
  <2> QED BY <1>1, <2>2
<1>3. q >= 0
  <2>1. SUFFICES ASSUME q + 1 <= 0 PROVE FALSE
    BY <1>1
  <2>2. all * (q + 1) <= 0
    BY <1>1, <2>1
  <2> QED BY <1>1, <2>2
<1>4. q = 100 => part = all
  BY <1>1
<1> QED BY <1>1, <1>2, <1>3, <1>4 DEF q

\* What the service answers about each kind of data, from what is known of it.
LEMMA ProgressOf ==
    ASSUME NEW task \in Run!Tasks
    PROVE  LET progress == Run!GetRunProgress(task)
           IN  /\ \A half \in DOMAIN task :
                      /\ half \in Run!Halves
                      /\ progress[half].current = task[half].scanned
                      /\ progress[half].current \in Nat /\ progress[half].total \in Nat
                      /\ progress[half].current <= progress[half].total
                      /\ task[half].tables <= progress[half].total
               /\ \A half \in Run!Halves \ DOMAIN task : progress[half] = Run!Unknown
<1>1. DOMAIN task \subseteq Run!Halves /\ \A half \in DOMAIN task : task[half] \in Run!Counts
  BY DEF Run!Tasks, Run!Halves
<1>2. \A counts \in Run!Counts :
         LET answer == Run!AtLeast(counts)
         IN  /\ answer.current = counts.scanned
             /\ answer.current \in Nat /\ answer.total \in Nat
             /\ answer.current <= answer.total /\ counts.tables <= answer.total
  <2> TAKE counts \in Run!Counts
  <2>1. counts.scanned \in Nat /\ counts.tables \in Int
    BY DEF Run!Counts
  <2> QED BY <2>1 DEF Run!AtLeast
<1> QED BY <1>1, <1>2 DEF Run!GetRunProgress

\* What a cell shows of the progress of a task.
LEMMA ProgressShown ==
    ASSUME NEW task \in Run!Tasks
    PROVE  LET shown == Run!DisplayJobProgress(Run!GetRunProgress(task))
           IN  /\ shown <= 100 /\ shown >= -2
               /\ shown = 100 => \A half \in DOMAIN task : task[half].scanned >= task[half].tables
<1> DEFINE progress == Run!GetRunProgress(task)
           s == progress.structured
           n == progress.unstructured
           Cur(p) == Run!CheckNegativeValue(p.current)
           Tot(p) == Run!CheckNegativeValue(p.total)
           Known(p) == p.current \in Nat /\ p.total \in Nat /\ p.current <= p.total
<1>1. \A p : p = Run!Unknown => Cur(p) = 0 /\ Tot(p) = 0
  BY DEF Run!Unknown, Run!CheckNegativeValue
<1>2. \A p : Known(p) => Cur(p) = p.current /\ Tot(p) = p.total
  BY DEF Run!CheckNegativeValue
<1>3. /\ \A half \in DOMAIN task :
              /\ half \in Run!Halves /\ Known(progress[half])
              /\ progress[half].current = task[half].scanned
              /\ task[half].tables <= progress[half].total
              /\ task[half].tables \in Int
      /\ \A half \in Run!Halves \ DOMAIN task : progress[half] = Run!Unknown
  <2>1. \A half \in DOMAIN task : task[half].tables \in Int
    BY DEF Run!Tasks, Run!Counts
  <2> QED BY <2>1, ProgressOf
<1>4. \A half \in Run!Halves : progress[half] = Run!Unknown \/ Known(progress[half])
  BY <1>3
<1>5. "structured" \in Run!Halves /\ "unstructured" \in Run!Halves
      /\ \A half \in Run!Halves : half = "structured" \/ half = "unstructured"
  BY DEF Run!Halves
<1> HIDE DEF Known, Cur, Tot, progress
<1> DEFINE current == Cur(s) + Cur(n)
           total == Tot(s) + Tot(n)
<1>6. \A p \in {s, n} : Cur(p) \in Nat /\ Tot(p) \in Nat /\ Cur(p) <= Tot(p)
  <2> TAKE p \in {s, n}
  <2>1. CASE p = Run!Unknown
    BY <1>1, <2>1
  <2>2. CASE Known(p)
    BY <1>2, <2>2 DEF Known
  <2> QED BY <1>4, <1>5, <2>1, <2>2
<1>7. Run!DisplayJobProgress(progress) =
        CASE s = Run!Unknown /\ n = Run!Unknown -> -1
          [] ~(s = Run!Unknown /\ n = Run!Unknown) /\ total = 0 -> -2
          [] OTHER -> (current * 100) \div total
  BY DEF Run!DisplayJobProgress, Cur, Tot
<1>8. current \in Nat /\ total \in Nat /\ current <= total
      /\ (current = total => Cur(s) = Tot(s) /\ Cur(n) = Tot(n))
  BY <1>6
<1> DEFINE q == (current * 100) \div total
<1> HIDE DEF current, total
<1>9. total # 0 => q \in Int /\ q <= 100 /\ q >= 0 /\ (q = 100 => current = total)
  BY <1>8, Percentage
<1>10. \/ Run!DisplayJobProgress(progress) = -1
       \/ Run!DisplayJobProgress(progress) = -2
       \/ Run!DisplayJobProgress(progress) = q /\ total # 0
  BY <1>7
<1> HIDE DEF q, s, n
<1>11. Run!DisplayJobProgress(progress) <= 100 /\ Run!DisplayJobProgress(progress) >= -2
  BY <1>9, <1>10
<1>12. Run!DisplayJobProgress(progress) = 100 => Cur(s) = Tot(s) /\ Cur(n) = Tot(n)
  BY <1>8, <1>9, <1>10
<1>13. ASSUME Run!DisplayJobProgress(progress) = 100, NEW half \in DOMAIN task
       PROVE  task[half].scanned >= task[half].tables
  <2>1. Cur(progress[half]) = Tot(progress[half])
    BY <1>3, <1>5, <1>12, <1>13 DEF s, n
  <2>2. progress[half].current = progress[half].total
    BY <1>2, <1>3, <2>1
  <2> QED BY <1>3, <2>2 DEF Known
<1> QED BY <1>11, <1>13 DEF progress

RunOwn == {"asking", "task", "progress", "loadingProgress", "chart", "lost"}
RunFields == TableFields \cup RunOwn

RunCells(u) ==
    /\ u.asking \subseteq {"status", "progress", "template"}
    /\ u.task \in Run!Tasks /\ u.progress = Run!GetRunProgress(u.task)
    /\ u.loadingProgress => "progress" \in u.asking \cup u.lost

RunInv(u) ==
    /\ DOMAIN u = RunFields /\ IsTable(u, Table!Queries) /\ IsCurrent(u)
    /\ u.loading => u.pending # << >> \/ "rows" \in u.lost
    /\ RunCells(u)

LEMMA RunAsked ==
    ASSUME NEW w, DOMAIN w = RunFields, HasTable(w, Table!Queries), RunCells(w)
    PROVE  RunInv(Table!Send(w))
<1> DEFINE v == Table!Send(w)
<1>1. Sends(v, w, Table!Queries) /\ IsCurrent(v)
  BY SendsNow
<1> HIDE DEF v
<1>2. RunCells(v)
  BY <1>1 DEF RunCells, Sends, Keeps, RunFields, RunOwn
<1> QED BY <1>1, <1>2 DEF v, Sends, Keeps, RunInv

LEMMA RunMounted == RunInv(Run!Mounted)
<1> DEFINE own == [asking |-> {"status"}, task |-> Run!NoTask,
                   progress |-> Run!GetRunProgress(Run!NoTask), loadingProgress |-> FALSE,
                   chart |-> [bar \in {} |-> 0], lost |-> {}]
           w == Table!TableAnd(own)
<1>1. /\ DOMAIN own = RunOwn
      /\ own.asking = {"status"} /\ own.loadingProgress = FALSE
      /\ own.task = Run!NoTask /\ own.progress = Run!GetRunProgress(Run!NoTask)
  BY DEF RunOwn
<1>2. Run!Mounted = Table!Send(w)
  BY RunTable DEF Run!Mounted
<1> HIDE DEF own
<1>3. "plain" \in Table!Queries
  BY DEF Table!Queries
<1>4. /\ DOMAIN w = TableFields \cup DOMAIN own /\ HasTable(w, Table!Queries)
      /\ \A f \in DOMAIN own : f \in TableFields \/ w[f] = own[f]
  BY <1>3, Opens
<1>5. RunOwn \cap TableFields = {}
  BY DEF TableFields, RunOwn
<1>6. DOMAIN w = RunFields /\ \A f \in RunOwn : w[f] = own[f]
  BY <1>1, <1>4, <1>5 DEF RunFields
<1> HIDE DEF w
<1>7. RunCells(w)
  <2>1. Run!NoTask \in Run!Tasks
    BY DEF Run!NoTask, Run!Tasks
  <2> QED BY <1>1, <1>6, <2>1 DEF RunCells, RunOwn
<1> QED BY <1>2, <1>4, <1>6, <1>7, RunAsked

LEMMA RunOwnKept ==
    ASSUME NEW u, RunInv(u), NEW v, NEW changed, Keeps(v, u, changed),
           changed \cap TableFields = {}, u.lost \subseteq v.lost, RunCells(v)
    PROVE  RunInv(v)
<1>1. IsTable(v, Table!Queries) /\ (IsCurrent(u) => IsCurrent(v))
  BY TableUntouched DEF RunInv
<1>2. v.pending = u.pending /\ v.loading = u.loading /\ DOMAIN v = DOMAIN u
  BY DEF Keeps, RunInv, RunFields, TableFields
<1> QED BY <1>1, <1>2 DEF RunInv

LEMMA RunStep ==
    ASSUME Run!Here, RunInv(ui), Run!GlueJobNext
    PROVE  RunInv(ui')
<1> DEFINE Q == Table!Queries
<1>0. /\ DOMAIN ui = RunFields /\ IsTable(ui, Q) /\ HasTable(ui, Q) /\ IsCurrent(ui)
      /\ ui.loading \in BOOLEAN /\ ui.ticked \in Selections(Q) /\ RunCells(ui)
      /\ ui.query \in Q
  BY Selects DEF RunInv, IsTable, HasTable
<1>d. RunOwn \subseteq DOMAIN ui /\ TableFields \subseteq DOMAIN ui /\ RunOwn \cap TableFields = {}
  BY <1>0 DEF RunFields, RunOwn, TableFields
<1>1. ASSUME NEW result, NEW i \in DOMAIN ui.pending, Run!PageDataAnswered(i, result)
      PROVE  RunInv(ui')
  <2>1. CASE ui' = Run!RowsShown(ui, i)
    <3> DEFINE w == Table!Shown(ui, i)
               own == {"asking", "loadingProgress", "lost"}
    <3>1. ui' = [w EXCEPT !.asking = @ \cup {"progress"}, !.loadingProgress = TRUE, !.lost = {}]
      BY <2>1, RunTable DEF Run!RowsShown
    <3>2. DOMAIN w = RunFields /\ w.asking = ui.asking
      BY <1>0, <1>d, ShowsAnswer DEF Shows, Keeps, RunOwn
    <3> HIDE DEF w
    <3>3. Keeps(ui', w, own) /\ ui'.asking = ui.asking \cup {"progress"}
      BY <3>1, <3>2 DEF Keeps, RunFields, RunOwn
    <3>4. own \cap TableFields = {}
      BY DEF TableFields
    <3> HIDE DEF own
    <3>5. ShowsWith(ui', ui, Q, i, own)
      BY <1>0, <3>3, <3>4, ShowsAnd DEF w
    <3>6. RunCells(ui')
      BY <1>0, <1>d, <3>3, <3>5 DEF ShowsWith, own, RunCells, Keeps, RunOwn
    <3> QED BY <1>0, <3>5, <3>6 DEF ShowsWith, RunInv, Keeps
  <2>2. CASE ui' = [Table!Lost(ui, i) EXCEPT !.lost = @ \cup {"rows"}]
    <3> DEFINE w == Table!Lost(ui, i)
               own == {"lost"}
    <3>2. DOMAIN w = RunFields /\ w.lost = ui.lost /\ w.loading = ui.loading
      BY <1>0, <1>d, LosesAnswer DEF Loses, Keeps, RunOwn, TableFields
    <3> HIDE DEF w
    <3>3. Keeps(ui', w, own) /\ ui'.lost = ui.lost \cup {"rows"} /\ ui'.loading \in BOOLEAN
      BY <1>0, <2>2, <3>2 DEF w, Keeps, RunFields, RunOwn, TableFields
    <3>4. own \cap (TableFields \ {"loading"}) = {}
      BY DEF TableFields
    <3> HIDE DEF own
    <3>5. LosesWith(ui', ui, Q, own)
      BY <1>0, <3>3, <3>4, LosesAnd DEF w
    <3>6. RunCells(ui')
      BY <1>0, <1>d, <3>3, <3>5 DEF LosesWith, own, RunCells, Keeps, RunOwn
    <3> QED BY <1>0, <3>3, <3>5, <3>6 DEF LosesWith, RunInv, Keeps
  <2> QED BY <1>1, <2>1, <2>2, RunTable DEF Run!PageDataAnswered, Run!At
<1>2. CASE Run!Refresh
  BY <1>0, <1>2, RunAsked, RunTable DEF Run!Refresh, Run!At
<1>3. CASE Run!ChangePage
  <2> PICK page \in Run!PagesOf(ui) : ui' = Table!Send([ui EXCEPT !.page = page])
    BY <1>3, RunTable DEF Run!ChangePage, Run!At
  <2> DEFINE w == [ui EXCEPT !.page = page]
  <2>1. Keeps(w, ui, {"page"}) /\ w.page = page /\ w.query = ui.query /\ w.ticked = ui.ticked
    BY <1>d DEF Keeps, TableFields
  <2>2. page \in 1 .. MaxPage
    BY RunTable
  <2> HIDE DEF w
  <2>3. HasTable(w, Q)
    BY <1>0, <2>1, <2>2, TableMoved
  <2>4. DOMAIN w = RunFields /\ RunCells(w)
    BY <1>0, <1>d, <2>1 DEF Keeps, RunCells, RunOwn
  <2> QED BY <2>3, <2>4, RunAsked DEF w
<1>4. CASE Run!ChangeQuery
  <2> PICK query \in Q : ui' = Table!Queried(ui, query)
    BY <1>4, RunTable DEF Run!ChangeQuery, Run!At
  <2>1. Turns(ui', ui, Q, query)
    BY <1>0, TurnsToFirst
  <2>2. DOMAIN ui' = RunFields /\ RunCells(ui')
    BY <1>0, <1>d, <2>1 DEF Turns, Keeps, RunCells, RunOwn
  <2> QED BY <2>1, <2>2 DEF Turns, RunInv
<1>5. ASSUME NEW task \in Run!Tasks, Run!ProgressAnswered(task) PROVE RunInv(ui')
  <2>1. /\ Keeps(ui', ui, {"asking", "loadingProgress", "task", "progress"})
        /\ ui'.asking = ui.asking \ {"progress"} /\ ui'.loadingProgress = FALSE
        /\ ui'.task = task /\ ui'.progress = Run!GetRunProgress(task)
    BY <1>d, <1>5 DEF Run!ProgressAnswered, Run!At, Keeps, RunOwn
  <2>2. RunCells(ui') /\ ui'.lost = ui.lost
    BY <1>0, <1>d, <2>1 DEF RunCells, Keeps, RunOwn
  <2> QED BY <1>d, <2>1, <2>2, RunOwnKept DEF RunOwn
<1>6. CASE Run!ProgressRejected
  <2>1. /\ Keeps(ui', ui, {"asking", "lost"})
        /\ ui'.asking = ui.asking \ {"progress"} /\ ui'.lost = ui.lost \cup {"progress"}
    BY <1>d, <1>6 DEF Run!ProgressRejected, Run!At, Keeps, RunOwn
  <2>2. RunCells(ui') /\ ui.lost \subseteq ui'.lost
    BY <1>0, <1>d, <2>1 DEF RunCells, Keeps, RunOwn
  <2> QED BY <1>d, <2>1, <2>2, RunOwnKept DEF RunOwn
<1>7. ASSUME NEW result, NEW states, Run!StatusAnswered(result, states) PROVE RunInv(ui')
  <2>1. Keeps(ui', ui, {"asking", "chart"}) /\ ui'.asking = ui.asking \ {"status"}
    BY <1>d, <1>7 DEF Run!StatusAnswered, Run!At, Keeps, RunOwn
  <2>2. RunCells(ui') /\ ui'.lost = ui.lost
    BY <1>0, <1>d, <2>1 DEF RunCells, Keeps, RunOwn
  <2> QED BY <1>d, <2>1, <2>2, RunOwnKept DEF RunOwn
<1>8. CASE Run!ClkDownloadTemplate \/ Run!TemplateAnswered
  <2>1. /\ Keeps(ui', ui, {"asking"})
        /\ ui'.asking = ui.asking \cup {"template"} \/ ui'.asking = ui.asking \ {"template"}
    BY <1>d, <1>8 DEF Run!ClkDownloadTemplate, Run!TemplateAnswered, Run!At, Keeps, RunOwn
  <2>2. RunCells(ui') /\ ui'.lost = ui.lost
    BY <1>0, <1>d, <2>1 DEF RunCells, Keeps, RunOwn
  <2> QED BY <1>d, <2>1, <2>2, RunOwnKept DEF RunOwn
<1> QED BY <1>1, <1>2, <1>3, <1>4, <1>5, <1>6, <1>7, <1>8 DEF Run!GlueJobNext

LEMMA RunHolds ==
    ASSUME Run!Here => RunInv(ui)
    PROVE  /\ Run!TypeOK /\ Run!ShowsWhatIsAsked /\ Run!WaitsForSomething
           /\ Run!ShowsPercentage
<1>1. SUFFICES ASSUME Run!Here, RunInv(ui)
               PROVE  /\ Run!TypeOK /\ Run!ShowsWhatIsAsked /\ Run!WaitsForSomething
                      /\ Run!ShowsPercentage
  BY DEF Run!TypeOK, Run!ShowsWhatIsAsked, Run!WaitsForSomething, Run!ShowsPercentage
<1>2. /\ Table!TableTypeOver(ui, PageParams(Table!Queries))
      /\ IsCurrent(ui) => Table!RowsAreCurrent(ui)
  BY <1>1, TableHolds DEF RunInv
<1>3. Run!Params = PageParams(Table!Queries)
  BY RunTable DEF Run!Params, PageParams
<1>4. Run!TableType(ui)
  BY <1>2, <1>3, RunTable DEF Run!TableType, Run!TableTypeOver, Table!TableTypeOver
<1>5. IsCurrent(ui) => Run!RowsAreCurrent(ui)
  BY <1>2, RunTable DEF Run!RowsAreCurrent, Table!RowsAreCurrent
<1>6. Run!TypeOK
  BY <1>1, <1>4 DEF Run!TypeOK, RunInv, RunCells
<1>7. Run!ShowsWhatIsAsked /\ Run!WaitsForSomething
  BY <1>1, <1>5 DEF Run!ShowsWhatIsAsked, Run!WaitsForSomething, RunInv, RunCells
<1>8. Run!ShowsPercentage
  BY <1>1, ProgressShown DEF Run!ShowsPercentage, RunInv, RunCells
<1> QED BY <1>6, <1>7, <1>8

-----------------------------------------------------------------------------
(***************************************************************************)
(* The data catalog (CatalogList).                                         *)
(***************************************************************************)
LEMMA CatalogTable ==
    /\ \A u : Catalog!Send(u) = Table!Send(u)
    /\ \A u, query : Catalog!Queried(u, query) = Table!Queried(u, query)
    /\ \A u, i : Catalog!Shown(u, i) = Table!Shown(u, i)
    /\ \A u, i : Catalog!Lost(u, i) = Table!Lost(u, i)
    /\ \A u : Catalog!ParamsOf(u) = Table!ParamsOf(u)
    /\ \A u : Catalog!PagesOf(u) \subseteq 1 .. MaxPage
    /\ \A own : Catalog!TableAnd(own) = Table!TableAnd(own)
    /\ Catalog!NoRows = Table!NoRows
    /\ Catalog!Queries = Table!Queries
<1>1. Catalog!NoRows = Table!NoRows
  BY DEF Catalog!NoRows, Table!NoRows
<1>2. Catalog!Queries = Table!Queries
  BY DEF Catalog!Queries, Table!Queries
<1>3. \A u : Catalog!ParamsOf(u) = Table!ParamsOf(u)
  BY DEF Catalog!ParamsOf, Table!ParamsOf
<1>4. \A u : Catalog!PagesOf(u) \subseteq 1 .. MaxPage
  BY SomePages DEF Catalog!PagesOf
<1>5. \A own : Catalog!TableAnd(own) = Table!TableAnd(own)
  BY DEF Catalog!TableAnd, Table!TableAnd, Catalog!NewTable, Table!NewTable,
     Catalog!NoTicks, Table!NoTicks, Catalog!Ticked, Table!Ticked, Catalog!NoRows,
     Table!NoRows
<1>6. \A u, p : Catalog!SendWith(u, p) = Table!SendWith(u, p)
  BY DEF Catalog!SendWith, Table!SendWith, Catalog!ParamsOf, Table!ParamsOf
<1>7. \A u : Catalog!Send(u) = Table!Send(u)
  BY <1>6 DEF Catalog!Send, Table!Send, Catalog!ParamsOf, Table!ParamsOf
<1>8. \A u, query : Catalog!Queried(u, query) = Table!Queried(u, query)
  BY <1>7 DEF Catalog!Queried, Table!Queried
<1>9. \A s, i : Catalog!Without(s, i) = Table!Without(s, i)
  BY DEF Catalog!Without, Table!Without
<1>10. \A u, i : Catalog!Shown(u, i) = Table!Shown(u, i)
  BY <1>9 DEF Catalog!Shown, Table!Shown
<1>11. \A u, i : Catalog!Lost(u, i) = Table!Lost(u, i)
  BY <1>9 DEF Catalog!Lost, Table!Lost
<1> QED BY <1>7, <1>8, <1>10, <1>11, <1>3, <1>4, <1>5, <1>1, <1>2

CatalogOwn == {"kind", "byTag", "selected", "counting", "detail", "schema", "lost"}
CatalogFields == TableFields \cup CatalogOwn
CatalogRows == Catalog!RowIds \cup {Catalog!None}

CatalogDetails(u) ==
    /\ u.kind \in Catalog!Kinds /\ u.counting \subseteq Catalog!RowIds
    /\ u.selected \in CatalogRows /\ u.detail \in CatalogRows /\ u.schema \in CatalogRows
    /\ u.detail # Catalog!None => u.selected = u.detail

CatalogInv(u) ==
    /\ DOMAIN u = CatalogFields /\ IsTable(u, Catalog!AllQueries) /\ IsCurrent(u)
    /\ u.loading => u.pending # << >> \/ u.lost
    /\ CatalogDetails(u)

LEMMA CatalogAsked ==
    ASSUME NEW w, DOMAIN w = CatalogFields, HasTable(w, Catalog!AllQueries), CatalogDetails(w)
    PROVE  CatalogInv(Table!Send(w))
<1> DEFINE v == Table!Send(w)
<1>1. Sends(v, w, Catalog!AllQueries) /\ IsCurrent(v)
  BY SendsNow
<1> HIDE DEF v
<1>2. CatalogDetails(v)
  BY <1>1 DEF CatalogDetails, Sends, Keeps, CatalogFields, CatalogOwn
<1> QED BY <1>1, <1>2 DEF v, Sends, Keeps, CatalogInv

LEMMA CatalogTurned ==
    ASSUME NEW w, DOMAIN w = CatalogFields, HasTable(w, Catalog!AllQueries), CatalogDetails(w),
           NEW query \in Catalog!AllQueries
    PROVE  CatalogInv(Table!Queried(w, query))
<1> DEFINE v == Table!Queried(w, query)
<1>1. Turns(v, w, Catalog!AllQueries, query)
  BY TurnsToFirst
<1> HIDE DEF v
<1>2. CatalogDetails(v)
  BY <1>1 DEF CatalogDetails, Turns, Keeps, CatalogFields, CatalogOwn
<1> QED BY <1>1, <1>2 DEF v, Turns, Keeps, CatalogInv

LEMMA CatalogMounted ==
    ASSUME NEW kind \in Catalog!Kinds, NEW byTag \in BOOLEAN
    PROVE  CatalogInv(Catalog!Mounted(kind, byTag))
<1> DEFINE own == [kind |-> kind, byTag |-> byTag, selected |-> Catalog!None,
                   counting |-> {}, detail |-> Catalog!None, schema |-> Catalog!None,
                   lost |-> FALSE]
           w == Table!TableAnd(own)
<1>1. /\ DOMAIN own = CatalogOwn
      /\ own.kind = kind /\ own.selected = Catalog!None /\ own.counting = {}
      /\ own.detail = Catalog!None /\ own.schema = Catalog!None
  BY DEF CatalogOwn
<1>2. Catalog!Mounted(kind, byTag) = Table!Send(w)
  BY CatalogTable DEF Catalog!Mounted
<1> HIDE DEF own
<1>3. "plain" \in Catalog!AllQueries
  BY DEF Catalog!AllQueries, Catalog!Queries
<1>4. /\ DOMAIN w = TableFields \cup DOMAIN own /\ HasTable(w, Catalog!AllQueries)
      /\ \A f \in DOMAIN own : f \in TableFields \/ w[f] = own[f]
  BY <1>3, Opens
<1>5. CatalogOwn \cap TableFields = {}
  BY DEF TableFields, CatalogOwn
<1>6. DOMAIN w = CatalogFields /\ \A f \in CatalogOwn : w[f] = own[f]
  BY <1>1, <1>4, <1>5 DEF CatalogFields
<1> HIDE DEF w
<1>7. CatalogDetails(w)
  BY <1>1, <1>6 DEF CatalogDetails, CatalogOwn, CatalogRows
<1> QED BY <1>2, <1>4, <1>6, <1>7, CatalogAsked

LEMMA CatalogOwnKept ==
    ASSUME NEW u, CatalogInv(u), NEW v, NEW changed, Keeps(v, u, changed),
           changed \cap TableFields = {}, "lost" \notin changed, CatalogDetails(v)
    PROVE  CatalogInv(v)
<1>1. IsTable(v, Catalog!AllQueries) /\ (IsCurrent(u) => IsCurrent(v))
  BY TableUntouched DEF CatalogInv
<1>2. v.pending = u.pending /\ v.loading = u.loading /\ v.lost = u.lost /\ DOMAIN v = DOMAIN u
  BY DEF Keeps, CatalogInv, CatalogFields, CatalogOwn, TableFields
<1> QED BY <1>1, <1>2 DEF CatalogInv

\* A row was clicked, perhaps after it was ticked.
LEMMA CatalogClicked ==
    ASSUME NEW u, CatalogInv(u), u.detail = Catalog!None, NEW v, NEW changed, Keeps(v, u, changed),
           changed \subseteq {"selected"}, NEW row \in Catalog!RowIds, v.selected \in CatalogRows
    PROVE  CatalogInv(v) /\ CatalogInv(Catalog!ClickRowName(v, row))
<1>1. DOMAIN u = CatalogFields /\ CatalogOwn \subseteq DOMAIN u /\ CatalogOwn \cap TableFields = {}
  BY DEF CatalogInv, CatalogFields, CatalogOwn, TableFields
<1>2. CatalogDetails(v) /\ DOMAIN v = CatalogFields
  BY <1>1 DEF CatalogInv, CatalogDetails, Keeps, CatalogOwn
<1>3. CatalogInv(v)
  BY <1>1, <1>2, CatalogOwnKept DEF CatalogOwn
<1> DEFINE w == Catalog!ClickRowName(v, row)
<1>4. CASE v.kind = "s3"
  <2>1. Keeps(w, v, {"counting"}) /\ w.counting = v.counting \cup {row}
    BY <1>1, <1>2, <1>4 DEF Catalog!ClickRowName, Keeps, CatalogOwn
  <2> HIDE DEF w
  <2>2. CatalogDetails(w)
    BY <1>1, <1>2, <2>1 DEF CatalogDetails, Keeps, CatalogOwn
  <2> QED BY <1>1, <1>3, <2>1, <2>2, CatalogOwnKept DEF CatalogOwn, w
<1>5. CASE v.kind # "s3"
  <2>1. Keeps(w, v, {"selected", "detail"}) /\ w.selected = row /\ w.detail = row
    BY <1>1, <1>2, <1>5 DEF Catalog!ClickRowName, Catalog!DetailOpened, Keeps, CatalogOwn
  <2> HIDE DEF w
  <2>2. CatalogDetails(w)
    BY <1>1, <1>2, <2>1 DEF CatalogDetails, Keeps, CatalogOwn, CatalogRows
  <2> QED BY <1>1, <1>3, <2>1, <2>2, CatalogOwnKept DEF CatalogOwn, w
<1> QED BY <1>3, <1>4, <1>5

LEMMA CatalogStep ==
    ASSUME Catalog!Here, CatalogInv(ui), Catalog!CatalogNext
    PROVE  CatalogInv(ui')
<1> DEFINE Q == Catalog!AllQueries
<1>0. /\ DOMAIN ui = CatalogFields /\ IsTable(ui, Q) /\ HasTable(ui, Q) /\ IsCurrent(ui)
      /\ ui.loading \in BOOLEAN /\ ui.ticked \in Selections(Q) /\ CatalogDetails(ui)
      /\ ui.query \in Q /\ ui.page \in 1 .. MaxPage
  BY Selects DEF CatalogInv, IsTable, HasTable
<1>d. /\ CatalogOwn \subseteq DOMAIN ui /\ TableFields \subseteq DOMAIN ui
      /\ CatalogOwn \cap TableFields = {}
  BY <1>0 DEF CatalogFields, CatalogOwn, TableFields
<1>q. \A query : Catalog!InView(query) \subseteq Q
  BY DEF Catalog!InView, Catalog!AllQueries
<1> HIDE DEF Q
<1>1. ASSUME NEW result, NEW i \in DOMAIN ui.pending, Catalog!PageDataAnswered(i, result)
      PROVE  CatalogInv(ui')
  <2>1. CASE ui' = Table!Shown(ui, i)
    <3>1. Keeps(ui', Table!Shown(ui, i), {}) /\ {} \cap TableFields = {}
      BY <2>1 DEF Keeps
    <3>2. ShowsWith(ui', ui, Q, i, {})
      BY <1>0, <3>1, ShowsAnd
    <3>3. CatalogDetails(ui')
      BY <1>0, <1>d, <3>2 DEF ShowsWith, CatalogDetails, Keeps, CatalogOwn
    <3> QED BY <1>0, <3>2, <3>3 DEF ShowsWith, CatalogInv, Keeps, Q
  <2>2. CASE ui' = [Table!Lost(ui, i) EXCEPT !.loading = FALSE]
    <3> DEFINE w == Table!Lost(ui, i)
    <3>1. DOMAIN w = CatalogFields
      BY <1>0, LosesAnswer DEF Loses, Keeps
    <3> HIDE DEF w
    <3>2. Keeps(ui', w, {"loading"}) /\ ui'.loading = FALSE
      BY <2>2, <3>1 DEF w, Keeps, CatalogFields, TableFields
    <3>3. {"loading"} \cap (TableFields \ {"loading"}) = {} /\ ui'.loading \in BOOLEAN
      BY <3>2
    <3>4. LosesWith(ui', ui, Q, {"loading"})
      BY <1>0, <3>2, <3>3, LosesAnd DEF w
    <3>5. CatalogDetails(ui')
      BY <1>0, <1>d, <3>4 DEF LosesWith, CatalogDetails, Keeps, CatalogOwn
    <3> QED BY <1>0, <3>2, <3>4, <3>5 DEF LosesWith, CatalogInv, Keeps, Q
  <2>3. CASE ui' = [Table!Lost(ui, i) EXCEPT !.lost = TRUE]
    <3> DEFINE w == Table!Lost(ui, i)
    <3>1. DOMAIN w = CatalogFields /\ w.loading = ui.loading
      BY <1>0, <1>d, LosesAnswer DEF Loses, Keeps, TableFields
    <3> HIDE DEF w
    <3>2. Keeps(ui', w, {"lost"}) /\ ui'.lost = TRUE /\ ui'.loading \in BOOLEAN
      BY <1>0, <2>3, <3>1 DEF w, Keeps, CatalogFields, CatalogOwn, TableFields
    <3>3. {"lost"} \cap (TableFields \ {"loading"}) = {}
      BY DEF TableFields
    <3>4. LosesWith(ui', ui, Q, {"lost"})
      BY <1>0, <3>2, <3>3, LosesAnd DEF w
    <3>5. CatalogDetails(ui')
      BY <1>0, <1>d, <3>4 DEF LosesWith, CatalogDetails, Keeps, CatalogOwn
    <3> QED BY <1>0, <3>2, <3>4, <3>5 DEF LosesWith, CatalogInv, Keeps, Q
  <2> QED BY <1>1, <2>1, <2>2, <2>3, CatalogTable
          DEF Catalog!PageDataAnswered, Catalog!At, Catalog!Rejected
<1>2. CASE Catalog!ChangePage
  <2> PICK page \in Catalog!PagesOf(ui) : ui' = Table!Send([ui EXCEPT !.page = page])
    BY <1>2, CatalogTable DEF Catalog!ChangePage, Catalog!At
  <2> DEFINE w == [ui EXCEPT !.page = page]
  <2>1. Keeps(w, ui, {"page"}) /\ w.page = page /\ w.query = ui.query /\ w.ticked = ui.ticked
    BY <1>d DEF Keeps, TableFields
  <2>2. page \in 1 .. MaxPage
    BY CatalogTable
  <2> HIDE DEF w
  <2>3. HasTable(w, Q)
    BY <1>0, <2>1, <2>2, TableMoved
  <2>4. DOMAIN w = CatalogFields /\ CatalogDetails(w)
    BY <1>0, <1>d, <2>1 DEF Keeps, CatalogDetails, CatalogOwn
  <2> QED BY <2>3, <2>4, CatalogAsked DEF w, Q
<1>3. CASE Catalog!Preferences
  <2> PICK query \in Catalog!InView(ui.query) : ui' = Table!Send([ui EXCEPT !.query = query])
    BY <1>3, CatalogTable DEF Catalog!Preferences, Catalog!At
  <2> DEFINE w == [ui EXCEPT !.query = query]
  <2>1. Keeps(w, ui, {"query"}) /\ w.page = ui.page /\ w.query = query /\ w.ticked = ui.ticked
    BY <1>d DEF Keeps, TableFields
  <2>2. query \in Q
    BY <1>q
  <2> HIDE DEF w
  <2>3. HasTable(w, Q)
    BY <1>0, <2>1, <2>2, TableMoved
  <2>4. DOMAIN w = CatalogFields /\ CatalogDetails(w)
    BY <1>0, <1>d, <2>1 DEF Keeps, CatalogDetails, CatalogOwn
  <2> QED BY <2>3, <2>4, CatalogAsked DEF w, Q
<1>4. CASE Catalog!ChangeQuery
  <2> PICK query \in Catalog!InView(ui.query) : ui' = Table!Queried(ui, query)
    BY <1>4, CatalogTable DEF Catalog!ChangeQuery, Catalog!At
  <2> QED BY <1>0, <1>q, CatalogTurned DEF Q
<1>5. CASE Catalog!RemoveTag
  <2> PICK query \in Catalog!InView(ui.query) : ui' = Table!Queried([ui EXCEPT !.byTag = FALSE], query)
    BY <1>5, CatalogTable DEF Catalog!RemoveTag, Catalog!At
  <2> DEFINE w == [ui EXCEPT !.byTag = FALSE]
  <2>1. Keeps(w, ui, {"byTag"})
    BY <1>d DEF Keeps
  <2> HIDE DEF w
  <2>2. "byTag" \notin TableFields
    BY DEF TableFields
  <2>3. HasTable(w, Q)
    BY <1>0, <2>1, <2>2, TableUntouched DEF IsTable
  <2>4. DOMAIN w = CatalogFields /\ CatalogDetails(w)
    BY <1>0, <1>d, <2>1 DEF Keeps, CatalogDetails, CatalogOwn
  <2> QED BY <1>q, <2>3, <2>4, CatalogTurned DEF w, Q
<1>6. CASE Catalog!ChangeView
  <2> PICK query \in Q : ui' = Catalog!Viewed(ui, query)
    BY <1>6 DEF Catalog!ChangeView, Catalog!At, Q
  <2> DEFINE w == [ui EXCEPT !.query = query, !.page = 1]
  <2>1. /\ Keeps(w, ui, {"query", "page"}) /\ w.page = 1 /\ w.query = query
        /\ w.ticked = ui.ticked
    BY <1>d DEF Keeps, TableFields
  <2>2. 1 \in 1 .. MaxPage
    BY SomePages
  <2>3. ui' = Table!Send(w) \/ ui' = Table!Send(Table!Send(w))
    BY CatalogTable DEF Catalog!Viewed
  <2> HIDE DEF w
  <2>4. HasTable(w, Q)
    BY <1>0, <2>1, <2>2, TableMoved
  <2>5. DOMAIN w = CatalogFields /\ CatalogDetails(w)
    BY <1>0, <1>d, <2>1 DEF Keeps, CatalogDetails, CatalogOwn
  <2>6. CatalogInv(Table!Send(w))
    BY <2>4, <2>5, CatalogAsked DEF Q
  <2>7. CatalogInv(Table!Send(Table!Send(w)))
    BY <2>6, CatalogAsked DEF CatalogInv, IsTable
  <2> QED BY <2>3, <2>6, <2>7
<1>7. CASE Catalog!ClickName
  <2> PICK row \in Catalog!RowIds : ui' = Catalog!ClickRowName(ui, row) /\ ui.detail = Catalog!None
    BY <1>7 DEF Catalog!ClickName, Catalog!At, Catalog!Covered
  <2>1. Keeps(ui, ui, {}) /\ {} \subseteq {"selected"} /\ ui.selected \in CatalogRows
    BY <1>0 DEF Keeps, CatalogDetails
  <2> QED BY <2>1, CatalogClicked
<1>8. CASE Catalog!SelectRow
  <2> PICK row \in Catalog!RowIds :
        /\ \/ ui' = [ui EXCEPT !.selected = row]
           \/ ui' = Catalog!ClickRowName([ui EXCEPT !.selected = row], row)
        /\ ui.detail = Catalog!None
    BY <1>8 DEF Catalog!SelectRow, Catalog!At, Catalog!Covered
  <2> DEFINE w == [ui EXCEPT !.selected = row]
  <2>1. Keeps(w, ui, {"selected"}) /\ w.selected \in CatalogRows
    BY <1>d DEF Keeps, CatalogOwn, CatalogRows
  <2> HIDE DEF w
  <2>2. CatalogInv(w) /\ CatalogInv(Catalog!ClickRowName(w, row))
    BY <2>1, CatalogClicked
  <2> QED BY <2>2 DEF w
<1>9. ASSUME NEW result, Catalog!CountAnswered(result) PROVE CatalogInv(ui')
  <2> PICK row \in ui.counting :
        ui' = Catalog!Counted(ui, row) \/ ui' = [ui EXCEPT !.counting = @ \ {row}]
    BY <1>9 DEF Catalog!CountAnswered, Catalog!At
  <2>1. \/ /\ Keeps(ui', ui, {"counting", "selected", "detail"})
           /\ ui'.selected = row /\ ui'.detail = row /\ ui'.counting = ui.counting \ {row}
        \/ Keeps(ui', ui, {"counting"}) /\ ui'.counting = ui.counting \ {row}
    BY <1>d DEF Catalog!Counted, Catalog!DetailOpened, Keeps, CatalogOwn
  <2>2. row \in Catalog!RowIds
    BY <1>0 DEF CatalogDetails
  <2>3. CatalogDetails(ui')
    BY <1>0, <1>d, <2>1, <2>2 DEF CatalogDetails, Keeps, CatalogOwn, CatalogRows
  <2> QED BY <1>d, <2>1, <2>3, CatalogOwnKept DEF CatalogOwn
<1>10. CASE Catalog!CloseDetail \/ Catalog!CloseSchema
  <2>1. \/ Keeps(ui', ui, {"detail"}) /\ ui'.detail = Catalog!None
        \/ Keeps(ui', ui, {"schema"}) /\ ui'.schema = Catalog!None
    BY <1>d, <1>10 DEF Catalog!CloseDetail, Catalog!CloseSchema, Catalog!At, Keeps, CatalogOwn
  <2>2. CatalogDetails(ui')
    BY <1>0, <1>d, <2>1 DEF CatalogDetails, Keeps, CatalogOwn, CatalogRows
  <2> QED BY <1>d, <2>1, <2>2, CatalogOwnKept DEF CatalogOwn
<1>11. CASE Catalog!ClickFolderName
  <2> PICK row \in Catalog!RowIds : ui' = [ui EXCEPT !.schema = row]
    BY <1>11 DEF Catalog!ClickFolderName, Catalog!At
  <2>1. Keeps(ui', ui, {"schema"}) /\ ui'.schema = row
    BY <1>d DEF Keeps, CatalogOwn
  <2>2. CatalogDetails(ui')
    BY <1>0, <1>d, <2>1 DEF CatalogDetails, Keeps, CatalogOwn, CatalogRows
  <2> QED BY <1>d, <2>1, <2>2, CatalogOwnKept DEF CatalogOwn
<1>12. CASE Catalog!UpdateFatherPage
  BY <1>0, <1>12, CatalogAsked, CatalogTable DEF Catalog!UpdateFatherPage, Catalog!At, Q
<1> QED BY <1>1, <1>2, <1>3, <1>4, <1>5, <1>6, <1>7, <1>8, <1>9, <1>10, <1>11, <1>12
        DEF Catalog!CatalogNext

LEMMA CatalogHolds ==
    ASSUME Catalog!Here => CatalogInv(ui)
    PROVE  /\ Catalog!TypeOK /\ Catalog!ShowsWhatIsAsked /\ Catalog!WaitsForSomething
           /\ Catalog!DetailOfSelection
<1>1. SUFFICES ASSUME Catalog!Here, CatalogInv(ui)
               PROVE  /\ Catalog!TypeOK /\ Catalog!ShowsWhatIsAsked
                      /\ Catalog!WaitsForSomething /\ Catalog!DetailOfSelection
  BY DEF Catalog!TypeOK, Catalog!ShowsWhatIsAsked, Catalog!WaitsForSomething,
         Catalog!DetailOfSelection
<1>2. /\ Table!TableTypeOver(ui, PageParams(Catalog!AllQueries))
      /\ IsCurrent(ui) => Table!RowsAreCurrent(ui)
  BY <1>1, TableHolds DEF CatalogInv
<1>3. [page : 1 .. MaxPage, query : Catalog!AllQueries] = PageParams(Catalog!AllQueries)
  BY DEF PageParams
<1>4. Catalog!TableTypeOver(ui, PageParams(Catalog!AllQueries))
  BY <1>2, CatalogTable DEF Catalog!TableTypeOver, Table!TableTypeOver
<1>5. IsCurrent(ui) => Catalog!RowsAreCurrent(ui)
  BY <1>2, CatalogTable DEF Catalog!RowsAreCurrent, Table!RowsAreCurrent
<1>6. Catalog!TypeOK
  BY <1>1, <1>3, <1>4 DEF Catalog!TypeOK, CatalogInv, CatalogDetails, CatalogRows
<1> QED BY <1>1, <1>5, <1>6
        DEF Catalog!ShowsWhatIsAsked, Catalog!WaitsForSomething, Catalog!DetailOfSelection,
            CatalogInv, CatalogDetails

-----------------------------------------------------------------------------
(***************************************************************************)
(* The details of a database of the catalog (CatalogDetail).               *)
(***************************************************************************)
LEMMA FolderTable ==
    /\ \A u, p : Folder!SendWith(u, p) = Table!SendWith(u, p)
    /\ \A u : Folder!Send(u) = Table!Send(u)
    /\ \A u, i : Folder!Shown(u, i) = Table!Shown(u, i)
    /\ \A u, i : Folder!Lost(u, i) = Table!Lost(u, i)
    /\ \A u : Folder!ParamsOf(u) = Table!ParamsOf(u)
    /\ \A u : Folder!PagesOf(u) \subseteq 1 .. MaxPage
    /\ \A own : Folder!TableAnd(own) = Table!TableAnd(own)
    /\ Folder!NoRows = Table!NoRows
    /\ Folder!Queries = Table!Queries
<1>1. Folder!NoRows = Table!NoRows
  BY DEF Folder!NoRows, Table!NoRows
<1>2. Folder!Queries = Table!Queries
  BY DEF Folder!Queries, Table!Queries
<1>3. \A u : Folder!ParamsOf(u) = Table!ParamsOf(u)
  BY DEF Folder!ParamsOf, Table!ParamsOf
<1>4. \A u : Folder!PagesOf(u) \subseteq 1 .. MaxPage
  BY SomePages DEF Folder!PagesOf
<1>5. \A own : Folder!TableAnd(own) = Table!TableAnd(own)
  BY DEF Folder!TableAnd, Table!TableAnd, Folder!NewTable, Table!NewTable, Folder!NoTicks,
     Table!NoTicks, Folder!Ticked, Table!Ticked, Folder!NoRows, Table!NoRows
<1>6. \A u, p : Folder!SendWith(u, p) = Table!SendWith(u, p)
  BY DEF Folder!SendWith, Table!SendWith, Folder!ParamsOf, Table!ParamsOf
<1>7. \A u : Folder!Send(u) = Table!Send(u)
  BY <1>6 DEF Folder!Send, Table!Send, Folder!ParamsOf, Table!ParamsOf
<1>8. \A s, i : Folder!Without(s, i) = Table!Without(s, i)
  BY DEF Folder!Without, Table!Without
<1>9. \A u, i : Folder!Shown(u, i) = Table!Shown(u, i)
  BY <1>8 DEF Folder!Shown, Table!Shown
<1>10. \A u, i : Folder!Lost(u, i) = Table!Lost(u, i)
  BY <1>8 DEF Folder!Lost, Table!Lost
<1> QED BY <1>6, <1>7, <1>9, <1>10, <1>3, <1>4, <1>5, <1>1, <1>2

FolderHead == {"row", "savedPrivacy", "editing", "checking", "lostCheck", "labelling", "saving"}
FolderOwn == FolderHead \cup {"kind", "tab", "behind", "lost", "schema"}
FolderFields == TableFields \cup FolderOwn
FolderQueries == Table!Queries \cup Folder!Tagged

FolderTab(u) ==
    /\ IsTable(u, FolderQueries) /\ (u.behind \/ IsCurrent(u))
    /\ u.loading => u.pending # << >> \/ u.lost

FolderRow(u) ==
    /\ u.row \in Folder!Row /\ u.checking \subseteq Folder!Row /\ u.saving \subseteq Folder!Row
    /\ u.row.privacy = u.savedPrivacy

FolderInv(u) == DOMAIN u = FolderFields /\ FolderTab(u) /\ FolderRow(u)

LEMMA FolderRowKept ==
    ASSUME NEW u, FolderOwn \subseteq DOMAIN u, FolderRow(u), NEW v,
           \A f \in FolderHead : v[f] = u[f]
    PROVE  FolderRow(v)
<1>1. /\ v.row = u.row /\ v.savedPrivacy = u.savedPrivacy /\ v.checking = u.checking
      /\ v.saving = u.saving
  BY DEF FolderHead
<1> QED BY <1>1 DEF FolderRow

LEMMA FolderHeadOnly ==
    ASSUME NEW u, FolderInv(u), NEW v, NEW changed, Keeps(v, u, changed),
           changed \subseteq FolderHead \cup {"schema"}, FolderRow(v)
    PROVE  FolderInv(v)
<1>1. changed \cap TableFields = {} /\ "behind" \notin changed /\ "lost" \notin changed
  BY DEF FolderHead, TableFields
<1>2. IsTable(v, FolderQueries) /\ (IsCurrent(u) => IsCurrent(v))
  BY <1>1, TableUntouched DEF FolderInv, FolderTab
<1>3. /\ v.pending = u.pending /\ v.loading = u.loading /\ v.behind = u.behind
      /\ v.lost = u.lost /\ DOMAIN v = FolderFields
  BY <1>1 DEF Keeps, FolderInv, FolderFields, FolderOwn, TableFields
<1> QED BY <1>2, <1>3 DEF FolderInv, FolderTab

\* A request for some parameters: it is noted whether they are those selected.
LEMMA FolderAsks ==
    ASSUME NEW w, DOMAIN w = FolderFields, HasTable(w, FolderQueries), FolderRow(w),
           NEW p \in PageParams(FolderQueries), NEW x, Keeps(x, w, {"behind"}),
           p = Table!ParamsOf(w) \/ x.behind
    PROVE  FolderInv(Table!SendWith(x, p))
<1> DEFINE v == Table!SendWith(x, p)
<1>1. {"behind"} \cap {"pending", "rows", "fresh", "loading"} = {}
  OBVIOUS
<1>2. x.page = w.page /\ x.query = w.query /\ x.ticked = w.ticked
  BY DEF Keeps, HasTable, TableFields
<1>3. HasTable(x, FolderQueries)
  BY <1>1, <1>2, TableMoved, Selects DEF HasTable
<1>4. Table!ParamsOf(x) = Table!ParamsOf(w)
  BY <1>2 DEF Table!ParamsOf
<1>5. Sends(v, x, FolderQueries) /\ (p = Table!ParamsOf(x) => NewestAsked(v))
  BY <1>3, SendsWith
<1> HIDE DEF v
<1>6. Keeps(v, w, {"behind", "pending", "loading"}) /\ DOMAIN v = FolderFields
  BY <1>5 DEF Sends, Keeps
<1>7. v.behind = x.behind
  BY <1>5 DEF Sends, Keeps, FolderFields, FolderOwn
<1>8. FolderTab(v)
  BY <1>4, <1>5, <1>7 DEF Sends, FolderTab, IsCurrent
<1>9. \A f \in FolderHead : v[f] = w[f]
  BY <1>6 DEF Keeps, FolderFields, FolderOwn, FolderHead
<1>10. FolderRow(v)
  BY <1>9, FolderRowKept DEF FolderFields
<1> QED BY <1>6, <1>8, <1>10 DEF FolderInv, v

\* A tab is opened: its table is new, the head stays.
LEMMA FolderOpens ==
    ASSUME NEW u, DOMAIN u \cup TableFields = FolderFields, FolderRow(u),
           NEW tab, NEW query \in FolderQueries
    PROVE  FolderInv(Folder!Opened(u, tab, query))
<1> DEFINE own == [u EXCEPT !.tab = tab, !.behind = FALSE, !.lost = FALSE]
           t == Table!TableAnd(own)
           w == [t EXCEPT !.query = query]
           p == Table!ParamsOf(w)
<1>0. Folder!Opened(u, tab, query) = Table!SendWith(w, p)
  BY FolderTable DEF Folder!Opened, Table!Send
<1>1. FolderOwn \cap TableFields = {}
  BY DEF FolderOwn, FolderHead, TableFields
<1>2. FolderOwn \subseteq DOMAIN u
  BY <1>1 DEF FolderFields
<1>3. /\ DOMAIN own = DOMAIN u
      /\ \A f \in FolderHead : own[f] = u[f]
  BY DEF FolderHead
<1> HIDE DEF own
<1>4. "plain" \in FolderQueries
  BY DEF FolderQueries, Table!Queries
<1>5. /\ DOMAIN t = TableFields \cup DOMAIN own
      /\ \A f \in DOMAIN own : f \in TableFields \/ t[f] = own[f]
      /\ HasTable(t, FolderQueries)
  BY <1>4, Opens
<1> HIDE DEF t
<1>t. t.ticked \in Selections(FolderQueries) /\ t.page \in 1 .. MaxPage
  BY <1>5, Selects DEF HasTable
<1>6. DOMAIN t = FolderFields
  BY <1>3, <1>5
<1>7. Keeps(w, t, {"query"}) /\ w.query = query /\ w.page = t.page /\ w.ticked = t.ticked
  BY <1>6 DEF Keeps, FolderFields, TableFields
<1> HIDE DEF w
<1>8. {"query"} \cap {"pending", "rows", "fresh", "loading"} = {}
  OBVIOUS
<1>9. HasTable(w, FolderQueries)
  BY <1>5, <1>t, <1>7, <1>8, TableMoved
<1>10. \A f \in FolderHead : w[f] = u[f]
  <2>1. \A f \in FolderHead : f \in FolderOwn /\ f \notin TableFields /\ f # "query"
    BY <1>1 DEF FolderOwn, TableFields
  <2>2. \A f \in FolderHead : f \in DOMAIN own /\ f \in DOMAIN t
    BY <1>2, <1>3, <1>6, <2>1 DEF FolderFields
  <2> QED BY <1>3, <1>5, <1>7, <2>1, <2>2 DEF Keeps
<1>11. FolderRow(w)
  BY <1>2, <1>10, FolderRowKept
<1>12. DOMAIN w = FolderFields /\ Keeps(w, w, {"behind"})
  BY <1>6, <1>7 DEF Keeps
<1>13. p \in PageParams(FolderQueries)
  BY <1>9, ParamsTyped
<1> HIDE DEF p
<1>14. FolderInv(Table!SendWith(w, p))
  BY <1>9, <1>11, <1>12, <1>13, FolderAsks DEF p
<1> QED BY <1>0, <1>14

LEMMA FolderMounted == \A kind : FolderInv(Folder!Mounted(kind))
<1>1. SUFFICES ASSUME NEW kind PROVE FolderInv(Folder!Mounted(kind))
  OBVIOUS
<1> DEFINE own == [kind |-> kind, tab |-> "none",
                   behind |-> FALSE, lost |-> FALSE, schema |-> FALSE]
           head == Folder!NewRow
           u == Folder!RowAnd(own)
<1>2. DOMAIN own = {"kind", "tab", "behind", "lost", "schema"}
  OBVIOUS
<1>3. /\ DOMAIN head = FolderHead /\ head.row = [privacy |-> 1, labels |-> 1]
      /\ head.checking = {} /\ head.saving = {} /\ head.savedPrivacy = 1
  BY DEF Folder!NewRow, FolderHead
<1>4. u = [f \in DOMAIN head \cup DOMAIN own |-> IF f \in DOMAIN head THEN head[f] ELSE own[f]]
  BY DEF Folder!RowAnd
<1> HIDE DEF own, head, u
<1>5. DOMAIN u = FolderOwn /\ \A f \in FolderHead : u[f] = head[f]
  BY <1>2, <1>3, <1>4 DEF FolderOwn
<1>6. /\ u.row = [privacy |-> 1, labels |-> 1] /\ u.savedPrivacy = 1
      /\ u.checking = {} /\ u.saving = {}
  BY <1>3, <1>5 DEF FolderHead
<1>7. FolderRow(u)
  BY <1>6 DEF FolderRow, Folder!Row, Folder!Privacies, Folder!Labels
<1>8. DOMAIN u \cup TableFields = FolderFields
  BY <1>5 DEF FolderFields
<1>9. "plain" \in FolderQueries
  BY DEF FolderQueries, Table!Queries
<1>10. FolderInv(Folder!Opened(u, "dataIdentifiers", "plain"))
  BY <1>7, <1>8, <1>9, FolderOpens
<1> QED BY <1>10 DEF Folder!Mounted, u, own

LEMMA FolderStep ==
    ASSUME Folder!Here, FolderInv(ui), Folder!DetailNext
    PROVE  FolderInv(ui')
<1> DEFINE Q == FolderQueries
<1>0. /\ DOMAIN ui = FolderFields /\ IsTable(ui, Q) /\ HasTable(ui, Q)
      /\ ui.loading \in BOOLEAN /\ ui.ticked \in Selections(Q)
      /\ ui.query \in Q /\ ui.page \in 1 .. MaxPage
      /\ FolderTab(ui) /\ FolderRow(ui)
  BY Selects DEF FolderInv, FolderTab, IsTable, HasTable
<1>d. /\ FolderOwn \subseteq DOMAIN ui /\ TableFields \subseteq DOMAIN ui
      /\ FolderOwn \cap TableFields = {}
  BY <1>0 DEF FolderFields, FolderOwn, FolderHead, TableFields
<1>a. \A change : Folder!At(change) => ui' = change
  BY DEF Folder!At
<1>q. /\ "plain" \in Q /\ "tagged" \in Q /\ \A query : Folder!Others(query) \subseteq Q
      /\ \A query \in Q : Folder!Unnamed(query) \in Q
  BY FolderTable DEF FolderQueries, Table!Queries, Folder!Tagged, Folder!Others, Folder!Unnamed
<1> HIDE DEF Q
\* Another page or filter is asked for.
<1>s. ASSUME NEW w, NEW changed, Keeps(w, ui, changed), changed \subseteq {"page", "query"},
             w.page \in 1 .. MaxPage, w.query \in Q, NEW p \in PageParams(Q), NEW x,
             Keeps(x, w, {"behind"}), p = Table!ParamsOf(w) \/ x.behind,
             ui' = Table!SendWith(x, p)
      PROVE  FolderInv(ui')
  <2>1. changed \cap {"pending", "rows", "fresh", "loading"} = {} /\ changed \subseteq TableFields
    BY <1>s DEF TableFields
  <2>2. w.ticked = ui.ticked
    BY <1>d, <1>s DEF Keeps, TableFields
  <2>3. HasTable(w, Q) /\ DOMAIN w = FolderFields
    BY <1>0, <1>s, <2>1, <2>2, TableMoved DEF Keeps
  <2>4. \A f \in FolderHead : f \in FolderOwn
    BY DEF FolderOwn
  <2>5. \A f \in FolderHead : w[f] = ui[f]
    BY <1>d, <1>s, <2>1, <2>4 DEF Keeps
  <2>6. FolderRow(w)
    BY <1>0, <1>d, <2>5, FolderRowKept
  <2> QED BY <1>s, <2>3, <2>6, FolderAsks DEF Q
\* The head of the dialog, and the dialogs above it.
<1>p. ASSUME NEW v, NEW changed, Keeps(v, ui, changed),
             changed \subseteq FolderHead \cup {"schema"}, FolderRow(v), ui' = v
      PROVE  FolderInv(ui')
  BY <1>p, FolderHeadOnly
<1>1. ASSUME NEW result, NEW i \in DOMAIN ui.pending, Folder!PageDataAnswered(i, result)
      PROVE  FolderInv(ui')
  <2> DEFINE w == Table!Lost(ui, i)
             x == [w EXCEPT !.loading = FALSE]
             y == [w EXCEPT !.lost = TRUE]
             z == Table!Shown(ui, i)
  <2>1. ui' = z \/ ui' = x \/ ui' = y
    BY <1>1, <1>a, FolderTable DEF Folder!PageDataAnswered, Folder!FoldersFailed,
       Folder!OthersFailed
  <2>2. Shows(z, ui, Q, i)
    BY <1>0, ShowsAnswer
  <2>3. Loses(w, ui, Q)
    BY <1>0, LosesAnswer
  <2> HIDE DEF w, z
  <2>4. DOMAIN w = FolderFields
    BY <1>0, <2>3 DEF Loses, Keeps
  <2>5. /\ Keeps(x, w, {"loading"}) /\ x.loading = FALSE
        /\ Keeps(y, w, {"lost"}) /\ y.lost = TRUE
    BY <2>4 DEF Keeps, FolderFields, FolderOwn, TableFields
  <2> HIDE DEF x, y
  <2>6. /\ {"loading"} \cap {"page", "query", "pending", "rows", "fresh"} = {}
        /\ {"lost"} \cap TableFields = {}
    BY DEF TableFields
  <2>7. x.ticked \in Selections(Q) /\ x.loading \in BOOLEAN
    BY <1>0, <1>d, <2>3, <2>4, <2>5 DEF Loses, Keeps, FolderFields, TableFields
  <2>8. IsTable(x, Q) /\ (IsCurrent(w) => IsCurrent(x))
    BY <2>3, <2>5, <2>6, <2>7, TableKept DEF Loses
  <2>9. IsTable(y, Q) /\ (IsCurrent(w) => IsCurrent(y))
    BY <2>3, <2>5, <2>6, TableUntouched DEF Loses
  <2>10. /\ Keeps(x, ui, {"pending", "fresh", "loading", "lost", "rows"})
         /\ Keeps(y, ui, {"pending", "fresh", "loading", "lost", "rows"})
         /\ Keeps(z, ui, {"pending", "fresh", "loading", "lost", "rows"})
    BY <2>2, <2>3, <2>5 DEF Shows, Loses, Keeps
  <2>11. x.behind = ui.behind /\ y.behind = ui.behind /\ z.behind = ui.behind
    BY <1>d, <2>10 DEF Keeps, FolderOwn
  <2>12. FolderTab(x) /\ FolderTab(y) /\ FolderTab(z)
    BY <1>0, <2>2, <2>3, <2>5, <2>8, <2>9, <2>11 DEF Shows, Loses, FolderTab, Q
  <2>13. \A f \in FolderHead : f \in FolderOwn /\ f \notin {"pending", "fresh", "loading", "lost", "rows"}
    BY DEF FolderOwn, FolderHead
  <2>14. \A f \in FolderHead : x[f] = ui[f] /\ y[f] = ui[f] /\ z[f] = ui[f]
    BY <1>d, <2>10, <2>13 DEF Keeps
  <2>15. FolderRow(x) /\ FolderRow(y) /\ FolderRow(z)
    BY <1>0, <1>d, <2>14, FolderRowKept
  <2> QED BY <1>0, <2>1, <2>10, <2>12, <2>15 DEF Keeps, FolderInv
<1>2. CASE Folder!ChangePage
  <2> PICK page \in Folder!PagesOf(ui) : ui' = Folder!Ask([ui EXCEPT !.page = page])
    BY <1>2, <1>a DEF Folder!ChangePage
  <2> DEFINE w == [ui EXCEPT !.page = page]
             x == [w EXCEPT !.behind = FALSE]
  <2>1. Keeps(w, ui, {"page"}) /\ w.page \in 1 .. MaxPage /\ w.query \in Q
    BY <1>0, <1>d, FolderTable DEF Keeps, TableFields
  <2>2. ui' = Table!SendWith(x, Table!ParamsOf(x))
    BY FolderTable DEF Folder!Ask, Table!Send
  <2> HIDE DEF w
  <2>3. Keeps(x, w, {"behind"}) /\ Table!ParamsOf(x) = Table!ParamsOf(w)
    BY <1>d, <2>1 DEF Keeps, TableFields, Table!ParamsOf
  <2>4. Table!ParamsOf(w) \in PageParams(Q)
    BY <2>1 DEF PageParams, Table!ParamsOf
  <2> HIDE DEF x
  <2> QED BY <1>s, <2>1, <2>2, <2>3, <2>4
<1>3. CASE Folder!ChangeQuery
  <2> PICK query \in Folder!Others(ui.query) : ui' = Folder!Ask([ui EXCEPT !.query = query])
    BY <1>3, <1>a DEF Folder!ChangeQuery
  <2> DEFINE w == [ui EXCEPT !.query = query]
             x == [w EXCEPT !.behind = FALSE]
  <2>1. Keeps(w, ui, {"query"}) /\ w.page \in 1 .. MaxPage /\ w.query \in Q
    BY <1>0, <1>d, <1>q DEF Keeps, TableFields
  <2>2. ui' = Table!SendWith(x, Table!ParamsOf(x))
    BY FolderTable DEF Folder!Ask, Table!Send
  <2> HIDE DEF w
  <2>3. Keeps(x, w, {"behind"}) /\ Table!ParamsOf(x) = Table!ParamsOf(w)
    BY <1>d, <2>1 DEF Keeps, TableFields, Table!ParamsOf
  <2>4. Table!ParamsOf(w) \in PageParams(Q)
    BY <2>1 DEF PageParams, Table!ParamsOf
  <2> HIDE DEF x
  <2> QED BY <1>s, <2>1, <2>2, <2>3, <2>4
<1>4. CASE Folder!ClearIdentifiersFilter
  <2> DEFINE w == [ui EXCEPT !.query = "plain"]
             p == [page |-> ui.page, query |-> "tagged"]
             x == [w EXCEPT !.behind = p # Table!ParamsOf(w)]
  <2>1. Keeps(w, ui, {"query"}) /\ w.page \in 1 .. MaxPage /\ w.query \in Q
    BY <1>0, <1>d, <1>q DEF Keeps, TableFields
  <2>2. ui' = Table!SendWith(x, p)
    BY <1>4, <1>a, FolderTable DEF Folder!ClearIdentifiersFilter, Folder!AskFor
  <2> HIDE DEF w
  <2>3. p \in PageParams(Q)
    BY <1>0, <1>q DEF PageParams
  <2> HIDE DEF p
  <2>4. Keeps(x, w, {"behind"}) /\ (p = Table!ParamsOf(w) \/ x.behind)
    BY <1>d, <2>1 DEF Keeps, FolderOwn
  <2> HIDE DEF x
  <2> QED BY <1>s, <2>1, <2>2, <2>3, <2>4
<1>5. CASE Folder!UpdateFatherPage
  <2> DEFINE p == [Table!ParamsOf(ui) EXCEPT !.query = Folder!Unnamed(@)]
             x == [ui EXCEPT !.behind = p # Table!ParamsOf(ui)]
  <2>1. Keeps(ui, ui, {}) /\ {} \subseteq {"page", "query"}
    BY DEF Keeps
  <2>2. ui' = Table!SendWith(x, p)
    BY <1>5, <1>a, FolderTable DEF Folder!UpdateFatherPage, Folder!AskFor
  <2>3. p \in PageParams(Q)
    BY <1>0, <1>q DEF PageParams, Table!ParamsOf
  <2> HIDE DEF p
  <2>4. Keeps(x, ui, {"behind"}) /\ (p = Table!ParamsOf(ui) \/ x.behind)
    BY <1>d DEF Keeps, FolderOwn
  <2> HIDE DEF x
  <2> QED BY <1>0, <1>s, <2>1, <2>2, <2>3, <2>4
\* The flags alone.
<1>f. ASSUME NEW v, NEW changed, Keeps(v, ui, changed),
             changed \subseteq {"schema", "editing", "labelling"}, ui' = v
      PROVE  FolderInv(ui')
  <2>1. changed \subseteq FolderHead \cup {"schema"}
    BY <1>f DEF FolderHead
  <2>2. v.row = ui.row /\ v.savedPrivacy = ui.savedPrivacy /\ v.checking = ui.checking /\ v.saving = ui.saving
    BY <1>d, <1>f DEF Keeps, FolderOwn, FolderHead
  <2>3. FolderRow(v)
    BY <1>0, <2>2 DEF FolderRow
  <2> QED BY <1>f, <1>p, <2>1, <2>3
<1>6. CASE Folder!ClickFolderName \/ Folder!CloseSchema
  <2> PICK open \in BOOLEAN : ui' = [ui EXCEPT !.schema = open]
    BY <1>6, <1>a DEF Folder!ClickFolderName, Folder!CloseSchema
  <2> DEFINE v == [ui EXCEPT !.schema = open]
  <2>1. Keeps(v, ui, {"schema"}) /\ ui' = v
    BY DEF Keeps
  <2> HIDE DEF v
  <2> QED BY <1>f, <2>1
<1>7. CASE Folder!EditPrivacy
  <2> DEFINE v == [ui EXCEPT !.editing = TRUE]
  <2>1. Keeps(v, ui, {"editing"}) /\ ui' = v
    BY <1>7, <1>a DEF Folder!EditPrivacy, Folder!PrivacyEdited, Keeps
  <2> HIDE DEF v
  <2> QED BY <1>f, <2>1
<1>8. CASE Folder!EditLabels \/ Folder!HideLabels
  <2> PICK open \in BOOLEAN : ui' = [ui EXCEPT !.labelling = open]
    BY <1>8, <1>a DEF Folder!EditLabels, Folder!HideLabels
  <2> DEFINE v == [ui EXCEPT !.labelling = open]
  <2>1. Keeps(v, ui, {"labelling"}) /\ ui' = v
    BY DEF Keeps
  <2> HIDE DEF v
  <2> QED BY <1>f, <2>1
\* What is sent has the type of a row, and so has what comes back.
<1>9. CASE Folder!ClkCheckIcon
  <2> PICK privacy \in Folder!Privacies : ui' = Folder!Check(ui, privacy)
    BY <1>9, <1>a DEF Folder!ClkCheckIcon
  <2> DEFINE sent == [ui.row EXCEPT !.privacy = privacy]
             v == [ui EXCEPT !.checking = {sent}]
  <2>1. ui' = v
    BY DEF Folder!Check
  <2>2. sent \in Folder!Row
    BY <1>0 DEF FolderRow, Folder!Row
  <2> HIDE DEF sent
  <2>3. /\ Keeps(v, ui, {"checking"}) /\ v.checking = {sent} /\ v.saving = ui.saving
        /\ v.row = ui.row /\ v.savedPrivacy = ui.savedPrivacy
    BY <1>d DEF Keeps, FolderOwn, FolderHead
  <2> HIDE DEF v
  <2>4. FolderRow(v)
    BY <1>0, <2>2, <2>3 DEF FolderRow
  <2> QED BY <1>p, <2>1, <2>3, <2>4 DEF FolderHead
<1>10. ASSUME NEW result, Folder!CheckAnswered(result) PROVE FolderInv(ui')
  <2> PICK sent \in ui.checking : ui' = Folder!Checked(ui, sent) \/ ui' = Folder!CheckRejected(ui)
    BY <1>10, <1>a DEF Folder!CheckAnswered
  <2> DEFINE v == [ui EXCEPT !.checking = {}, !.editing = FALSE, !.row = sent,
                             !.savedPrivacy = sent.privacy]
             x == [ui EXCEPT !.checking = {}, !.lostCheck = TRUE]
  <2>1. ui' = v \/ ui' = x
    BY DEF Folder!Checked, Folder!CheckRejected
  <2>2. /\ Keeps(v, ui, {"checking", "editing", "row", "savedPrivacy"}) /\ v.row = sent
        /\ v.checking = {} /\ v.savedPrivacy = sent.privacy /\ v.saving = ui.saving
    BY <1>d DEF Keeps, FolderOwn, FolderHead
  <2>3. /\ Keeps(x, ui, {"checking", "lostCheck"}) /\ x.checking = {} /\ x.row = ui.row
        /\ x.savedPrivacy = ui.savedPrivacy /\ x.saving = ui.saving
    BY <1>d DEF Keeps, FolderOwn, FolderHead
  <2> HIDE DEF v, x
  <2>4. sent \in Folder!Row
    BY <1>0 DEF FolderRow
  <2>5. FolderRow(v) /\ FolderRow(x)
    BY <1>0, <2>2, <2>3, <2>4 DEF FolderRow
  <2> QED BY <1>p, <2>1, <2>2, <2>3, <2>5 DEF FolderHead
<1>11. CASE Folder!SaveLabels
  <2> PICK labels \in Folder!Labels : ui' = Folder!LabelsSent(ui, labels)
    BY <1>11, <1>a DEF Folder!SaveLabels
  <2> DEFINE sent == [ui.row EXCEPT !.labels = labels]
             v == [ui EXCEPT !.saving = {sent}]
  <2>1. ui' = v
    BY DEF Folder!LabelsSent
  <2>2. sent \in Folder!Row
    BY <1>0 DEF FolderRow, Folder!Row
  <2> HIDE DEF sent
  <2>3. /\ Keeps(v, ui, {"saving"}) /\ v.saving = {sent} /\ v.checking = ui.checking
        /\ v.row = ui.row /\ v.savedPrivacy = ui.savedPrivacy
    BY <1>d DEF Keeps, FolderOwn, FolderHead
  <2> HIDE DEF v
  <2>4. FolderRow(v)
    BY <1>0, <2>2, <2>3 DEF FolderRow
  <2> QED BY <1>p, <2>1, <2>3, <2>4 DEF FolderHead
<1>12. ASSUME NEW result, Folder!LabelsAnswered(result) PROVE FolderInv(ui')
  <2> PICK sent \in ui.saving : ui' = Folder!LabelsSaved(ui, sent) \/ ui' = Folder!LabelsRejected(ui)
    BY <1>12, <1>a DEF Folder!LabelsAnswered
  <2> DEFINE row == [ui.row EXCEPT !.labels = sent.labels]
             v == [ui EXCEPT !.row = row, !.saving = {}, !.labelling = FALSE]
             x == [ui EXCEPT !.saving = {}]
  <2>1. ui' = v \/ ui' = x
    BY DEF Folder!LabelsSaved, Folder!Labelled, Folder!LabelsRejected
  <2>2. row \in Folder!Row /\ row.privacy = ui.row.privacy
    <3>1. sent \in Folder!Row /\ ui.row \in Folder!Row
      BY <1>0 DEF FolderRow
    <3> QED BY <3>1 DEF Folder!Row
  <2> HIDE DEF row
  <2>3. /\ Keeps(v, ui, {"row", "saving", "labelling"}) /\ v.row = row
        /\ v.saving = {} /\ v.savedPrivacy = ui.savedPrivacy /\ v.checking = ui.checking
    BY <1>d DEF Keeps, FolderOwn, FolderHead
  <2>4. /\ Keeps(x, ui, {"saving"}) /\ x.saving = {} /\ x.row = ui.row
        /\ x.savedPrivacy = ui.savedPrivacy /\ x.checking = ui.checking
    BY <1>d DEF Keeps, FolderOwn, FolderHead
  <2> HIDE DEF v, x
  <2>5. FolderRow(v) /\ FolderRow(x)
    BY <1>0, <2>2, <2>3, <2>4 DEF FolderRow
  <2> QED BY <1>p, <2>1, <2>3, <2>4, <2>5 DEF FolderHead
<1>13. CASE Folder!ChangeTab \/ Folder!ClickTableCount
  <2>1. ASSUME NEW tab, NEW query \in Q, ui' = Folder!Opened(ui, tab, query)
        PROVE  FolderInv(ui')
    <3>1. DOMAIN ui \cup TableFields = FolderFields
      BY <1>0 DEF FolderFields
    <3> QED BY <1>0, <2>1, <3>1, FolderOpens DEF Q
  <2>2. CASE Folder!ChangeTab
    BY <1>a, <1>q, <2>1, <2>2 DEF Folder!ChangeTab
  <2>3. CASE Folder!ClickTableCount
    BY <1>a, <1>q, <2>1, <2>3 DEF Folder!ClickTableCount
  <2> QED BY <1>13, <2>2, <2>3
<1> QED BY <1>1, <1>2, <1>3, <1>4, <1>5, <1>6, <1>7, <1>8, <1>9, <1>10, <1>11, <1>12, <1>13
        DEF Folder!DetailNext

LEMMA FolderHolds ==
    ASSUME Folder!Here => FolderInv(ui)
    PROVE  /\ Folder!TypeOK /\ Folder!ShowsWhatIsAsked
           /\ Folder!WaitsForSomething /\ Folder!PrivacyIsKept
<1>1. SUFFICES ASSUME Folder!Here, FolderInv(ui)
               PROVE  /\ Folder!TypeOK /\ Folder!ShowsWhatIsAsked
                      /\ Folder!WaitsForSomething /\ Folder!PrivacyIsKept
  BY DEF Folder!TypeOK, Folder!ShowsWhatIsAsked, Folder!WaitsForSomething,
         Folder!PrivacyIsKept
<1>2. /\ Table!TableTypeOver(ui, PageParams(FolderQueries))
      /\ IsCurrent(ui) => Table!RowsAreCurrent(ui)
  BY <1>1, TableHolds DEF FolderInv, FolderTab
<1>3. [page : 1 .. MaxPage, query : Folder!Queries \cup Folder!Tagged] = PageParams(FolderQueries)
  BY FolderTable DEF FolderQueries, PageParams
<1>4. Folder!TableTypeOver(ui, [page : 1 .. MaxPage, query : Folder!Queries \cup Folder!Tagged])
  BY <1>2, <1>3, FolderTable
  DEF Folder!TableTypeOver, Table!TableTypeOver
<1>5. IsCurrent(ui) => Folder!RowsAreCurrent(ui)
  BY <1>2, FolderTable DEF Folder!RowsAreCurrent, Table!RowsAreCurrent
<1>6. Folder!TypeOK
  BY <1>1, <1>4 DEF Folder!TypeOK, Folder!RowType, FolderInv, FolderRow
<1>7. Folder!ShowsWhatIsAsked /\ Folder!WaitsForSomething
  BY <1>1, <1>5 DEF Folder!ShowsWhatIsAsked, Folder!WaitsForSomething, FolderInv, FolderTab
<1>8. Folder!PrivacyIsKept
  BY <1>1 DEF Folder!PrivacyIsKept, Folder!PrivacyShown, FolderInv, FolderRow
<1> QED BY <1>6, <1>7, <1>8

-----------------------------------------------------------------------------
(***************************************************************************)
(* The identifiers (IdentifierTable).                                      *)
(***************************************************************************)
LEMMA IdentifiersTable ==
    /\ \A u, p : Identifiers!SendWith(u, p) = Table!SendWith(u, p)
    /\ \A u : Identifiers!Send(u) = Table!Send(u)
    /\ \A u, query : Identifiers!Queried(u, query) = Table!Queried(u, query)
    /\ \A u, i : Identifiers!Shown(u, i) = Table!Shown(u, i)
    /\ \A u, i : Identifiers!Lost(u, i) = Table!Lost(u, i)
    /\ \A u : Identifiers!ParamsOf(u) = Table!ParamsOf(u)
    /\ \A u : Identifiers!PagesOf(u) \subseteq 1 .. MaxPage
    /\ \A own : Identifiers!TableAnd(own) = Table!TableAnd(own)
    /\ Identifiers!NoRows = Table!NoRows
    /\ Identifiers!Queries = Table!Queries
<1>1. Identifiers!NoRows = Table!NoRows
  BY DEF Identifiers!NoRows, Table!NoRows
<1>2. Identifiers!Queries = Table!Queries
  BY DEF Identifiers!Queries, Table!Queries
<1>3. \A u : Identifiers!ParamsOf(u) = Table!ParamsOf(u)
  BY DEF Identifiers!ParamsOf, Table!ParamsOf
<1>4. \A u : Identifiers!PagesOf(u) \subseteq 1 .. MaxPage
  BY SomePages DEF Identifiers!PagesOf
<1>5. \A own : Identifiers!TableAnd(own) = Table!TableAnd(own)
  BY DEF Identifiers!TableAnd, Table!TableAnd, Identifiers!NewTable, Table!NewTable,
     Identifiers!NoTicks, Table!NoTicks, Identifiers!Ticked, Table!Ticked,
     Identifiers!NoRows, Table!NoRows
<1>6. \A u, p : Identifiers!SendWith(u, p) = Table!SendWith(u, p)
  BY DEF Identifiers!SendWith, Table!SendWith, Identifiers!ParamsOf, Table!ParamsOf
<1>7. \A u : Identifiers!Send(u) = Table!Send(u)
  BY <1>6 DEF Identifiers!Send, Table!Send, Identifiers!ParamsOf, Table!ParamsOf
<1>8. \A u, query : Identifiers!Queried(u, query) = Table!Queried(u, query)
  BY <1>7 DEF Identifiers!Queried, Table!Queried
<1>9. \A s, i : Identifiers!Without(s, i) = Table!Without(s, i)
  BY DEF Identifiers!Without, Table!Without
<1>10. \A u, i : Identifiers!Shown(u, i) = Table!Shown(u, i)
  BY <1>9 DEF Identifiers!Shown, Table!Shown
<1>11. \A u, i : Identifiers!Lost(u, i) = Table!Lost(u, i)
  BY <1>9 DEF Identifiers!Lost, Table!Lost
<1> QED BY <1>6, <1>7, <1>8, <1>10, <1>11, <1>3, <1>4, <1>5, <1>1, <1>2

IdentifiersOwn ==
    {"custom", "selected", "dialog", "confirmed", "conflicts", "blamed", "deleting", "reopened",
     "late", "outdated", "downloading", "lostExport"}
IdentifiersFields == TableFields \cup IdentifiersOwn
IdentifiersRows == Identifiers!RowIds \cup {Identifiers!None}

\* A deletion under way is for the row that is ticked, unless the dialog was closed
\* and opened again since.
IdentifiersDialog(u) ==
    /\ u.selected \in IdentifiersRows /\ u.blamed \in IdentifiersRows
    /\ u.conflicts \subseteq Identifiers!Conflicts
    /\ \A d \in u.deleting : d.row \in IdentifiersRows /\ d.params \in PageParams(Table!Queries)
    /\ u.dialog => u.reopened \/ \A d \in u.deleting : d.row = u.selected
    /\ u.dialog /\ u.conflicts # {} => u.late \/ u.blamed = u.selected

IdentifiersInv(u) ==
    /\ DOMAIN u = IdentifiersFields
    /\ IsTable(u, Table!Queries) /\ (u.outdated \/ IsCurrent(u))
    /\ u.loading => u.pending # << >>
    /\ IdentifiersDialog(u)

LEMMA IdentifiersAsked ==
    ASSUME NEW w, DOMAIN w = IdentifiersFields, HasTable(w, Table!Queries), IdentifiersDialog(w)
    PROVE  IdentifiersInv(Identifiers!GetPageData(w))
<1> DEFINE x == [w EXCEPT !.outdated = FALSE]
           v == Table!Send(x)
<1>1. Keeps(x, w, {"outdated"}) /\ HasTable(x, Table!Queries)
  BY DEF Keeps, HasTable, TableFields
<1>2. Identifiers!GetPageData(w) = v
  BY IdentifiersTable DEF Identifiers!GetPageData
<1> HIDE DEF x
<1>3. Sends(v, x, Table!Queries) /\ IsCurrent(v)
  BY <1>1, SendsNow
<1> HIDE DEF v
<1>4. Keeps(v, w, {"outdated", "pending", "loading"}) /\ DOMAIN v = IdentifiersFields
  BY <1>1, <1>3 DEF Sends, Keeps
<1>5. IdentifiersDialog(v)
  BY <1>4 DEF IdentifiersDialog, Keeps, IdentifiersFields, IdentifiersOwn
<1> QED BY <1>2, <1>3, <1>4, <1>5 DEF Sends, IdentifiersInv

LEMMA IdentifiersMounted ==
    ASSUME NEW custom \in BOOLEAN
    PROVE  IdentifiersInv(Identifiers!Mounted(custom))
<1> DEFINE own == [custom |-> custom, selected |-> Identifiers!None,
                   dialog |-> FALSE, confirmed |-> FALSE, conflicts |-> {},
                   blamed |-> Identifiers!None,
                   deleting |-> {}, reopened |-> FALSE, late |-> FALSE, outdated |-> FALSE,
                   downloading |-> FALSE, lostExport |-> FALSE]
           w == Table!TableAnd(own)
           v == Table!Send(w)
<1>1. /\ DOMAIN own = IdentifiersOwn
      /\ own.selected = Identifiers!None /\ own.dialog = FALSE /\ own.conflicts = {}
      /\ own.blamed = Identifiers!None /\ own.deleting = {}
  BY DEF IdentifiersOwn
<1>2. Identifiers!Mounted(custom) = v
  BY IdentifiersTable DEF Identifiers!Mounted
<1> HIDE DEF own
<1>3. "plain" \in Table!Queries
  BY DEF Table!Queries
<1>4. /\ DOMAIN w = TableFields \cup DOMAIN own /\ HasTable(w, Table!Queries)
      /\ \A f \in DOMAIN own : f \in TableFields \/ w[f] = own[f]
  BY <1>3, Opens
<1>5. IdentifiersOwn \cap TableFields = {}
  BY DEF TableFields, IdentifiersOwn
<1>6. DOMAIN w = IdentifiersFields /\ \A f \in IdentifiersOwn : w[f] = own[f]
  BY <1>1, <1>4, <1>5 DEF IdentifiersFields
<1> HIDE DEF w
<1>7. /\ w.selected = Identifiers!None /\ w.dialog = FALSE /\ w.conflicts = {}
      /\ w.blamed = Identifiers!None /\ w.deleting = {}
  BY <1>1, <1>6 DEF IdentifiersOwn
<1>8. Sends(v, w, Table!Queries) /\ IsCurrent(v)
  BY <1>4, SendsNow
<1> HIDE DEF v
<1>9. /\ v.selected = Identifiers!None /\ v.dialog = FALSE /\ v.conflicts = {}
      /\ v.blamed = Identifiers!None /\ v.deleting = {}
  BY <1>6, <1>7, <1>8 DEF Sends, Keeps, IdentifiersFields, IdentifiersOwn
<1>10. IdentifiersDialog(v)
  BY <1>9 DEF IdentifiersDialog, IdentifiersRows
<1> QED BY <1>2, <1>6, <1>8, <1>10 DEF Sends, Keeps, IdentifiersInv

LEMMA IdentifiersOwnKept ==
    ASSUME NEW u, IdentifiersInv(u), NEW v, NEW changed, Keeps(v, u, changed),
           changed \cap TableFields = {}, "outdated" \notin changed, IdentifiersDialog(v)
    PROVE  IdentifiersInv(v)
<1>1. IsTable(v, Table!Queries) /\ (IsCurrent(u) => IsCurrent(v))
  BY TableUntouched DEF IdentifiersInv
<1>2. /\ v.pending = u.pending /\ v.loading = u.loading /\ v.outdated = u.outdated
      /\ DOMAIN v = DOMAIN u
  BY DEF Keeps, IdentifiersInv, IdentifiersFields, IdentifiersOwn, TableFields
<1> QED BY <1>1, <1>2 DEF IdentifiersInv

LEMMA IdentifiersStep ==
    ASSUME Identifiers!Here, IdentifiersInv(ui), Identifiers!IdentifiersNext
    PROVE  IdentifiersInv(ui')
<1> DEFINE Q == Table!Queries
<1>0. /\ DOMAIN ui = IdentifiersFields /\ IsTable(ui, Q) /\ HasTable(ui, Q)
      /\ ui.loading \in BOOLEAN /\ ui.ticked \in Selections(Q) /\ IdentifiersDialog(ui)
      /\ ui.query \in Q /\ ui.page \in 1 .. MaxPage
  BY Selects DEF IdentifiersInv, IsTable, HasTable
<1>d. /\ IdentifiersOwn \subseteq DOMAIN ui /\ TableFields \subseteq DOMAIN ui
      /\ IdentifiersOwn \cap TableFields = {}
  BY <1>0 DEF IdentifiersFields, IdentifiersOwn, TableFields
<1> HIDE DEF Q
<1>1. ASSUME NEW result, NEW i \in DOMAIN ui.pending, Identifiers!PageDataAnswered(i, result)
      PROVE  IdentifiersInv(ui')
  <2>1. CASE ui' = Table!Shown(ui, i)
    <3>1. Keeps(ui', Table!Shown(ui, i), {}) /\ {} \cap TableFields = {}
      BY <2>1 DEF Keeps
    <3>2. ShowsWith(ui', ui, Q, i, {})
      BY <1>0, <3>1, ShowsAnd
    <3>3. IdentifiersDialog(ui')
      BY <1>0, <1>d, <3>2 DEF ShowsWith, IdentifiersDialog, Keeps, IdentifiersOwn
    <3> QED BY <1>0, <3>2, <3>3 DEF ShowsWith, IdentifiersInv, Keeps, Q
  <2>2. CASE ui' = [Table!Lost(ui, i) EXCEPT !.loading = FALSE]
    <3> DEFINE w == Table!Lost(ui, i)
    <3>1. DOMAIN w = IdentifiersFields
      BY <1>0, LosesAnswer DEF Loses, Keeps
    <3> HIDE DEF w
    <3>2. Keeps(ui', w, {"loading"}) /\ ui'.loading = FALSE
      BY <2>2, <3>1 DEF w, Keeps, IdentifiersFields, TableFields
    <3>3. {"loading"} \cap (TableFields \ {"loading"}) = {} /\ ui'.loading \in BOOLEAN
      BY <3>2
    <3>4. LosesWith(ui', ui, Q, {"loading"})
      BY <1>0, <3>2, <3>3, LosesAnd DEF w
    <3>5. IdentifiersDialog(ui') /\ ui'.outdated = ui.outdated
      BY <1>0, <1>d, <3>4 DEF LosesWith, IdentifiersDialog, Keeps, IdentifiersOwn
    <3> QED BY <1>0, <3>2, <3>4, <3>5 DEF LosesWith, IdentifiersInv, Keeps, Q
  <2> QED BY <1>1, <2>1, <2>2, IdentifiersTable
          DEF Identifiers!PageDataAnswered, Identifiers!At, Identifiers!PageFailed
<1>2. CASE Identifiers!Refresh
  BY <1>0, <1>2, IdentifiersAsked DEF Identifiers!Refresh, Identifiers!At, Q
<1>3. CASE Identifiers!ChangePage
  <2> PICK page \in Identifiers!PagesOf(ui) : ui' = Identifiers!GetPageData([ui EXCEPT !.page = page])
    BY <1>3 DEF Identifiers!ChangePage, Identifiers!At
  <2> DEFINE w == [ui EXCEPT !.page = page]
  <2>1. Keeps(w, ui, {"page"}) /\ w.page = page /\ w.query = ui.query /\ w.ticked = ui.ticked
    BY <1>d DEF Keeps, TableFields
  <2>2. page \in 1 .. MaxPage
    BY IdentifiersTable
  <2> HIDE DEF w
  <2>3. HasTable(w, Q)
    BY <1>0, <2>1, <2>2, TableMoved
  <2>4. DOMAIN w = IdentifiersFields /\ IdentifiersDialog(w)
    BY <1>0, <1>d, <2>1 DEF Keeps, IdentifiersDialog, IdentifiersOwn
  <2> QED BY <2>3, <2>4, IdentifiersAsked DEF w, Q
<1>4. CASE Identifiers!ChangeQuery
  <2> PICK query \in Q : ui' = Table!Queried([ui EXCEPT !.outdated = FALSE], query)
    BY <1>4, IdentifiersTable DEF Identifiers!ChangeQuery, Identifiers!At, Q
  <2> DEFINE w == [ui EXCEPT !.outdated = FALSE]
  <2>1. Keeps(w, ui, {"outdated"})
    BY <1>d DEF Keeps
  <2> HIDE DEF w
  <2>2. "outdated" \notin TableFields
    BY DEF TableFields
  <2>3. HasTable(w, Q)
    BY <1>0, <2>1, <2>2, TableUntouched DEF IsTable
  <2>4. Turns(ui', w, Q, query)
    BY <2>3, TurnsToFirst DEF w
  <2>6. /\ Keeps(ui', ui, {"outdated", "pending", "loading", "page", "query"})
        /\ DOMAIN ui' = IdentifiersFields
    BY <1>0, <2>1, <2>4 DEF Turns, Keeps
  <2>5. DOMAIN ui' = IdentifiersFields /\ IdentifiersDialog(ui')
    BY <1>0, <1>d, <2>6 DEF Keeps, IdentifiersDialog, IdentifiersOwn
  <2> QED BY <2>4, <2>5 DEF Turns, IdentifiersInv, Q
<1>5. CASE Identifiers!SelectRow
  <2> PICK row \in Identifiers!RowIds : ui' = [ui EXCEPT !.selected = row] /\ ~ui.dialog
    BY <1>5 DEF Identifiers!SelectRow, Identifiers!At, Identifiers!Free
  <2>1. Keeps(ui', ui, {"selected"}) /\ ui'.selected = row
    BY <1>d DEF Keeps, IdentifiersOwn
  <2>2. IdentifiersDialog(ui')
    BY <1>0, <1>d, <2>1 DEF IdentifiersDialog, Keeps, IdentifiersOwn, IdentifiersRows
  <2> QED BY <1>d, <2>1, <2>2, IdentifiersOwnKept DEF IdentifiersOwn
<1>6. CASE Identifiers!BatchExport \/ Identifiers!TypeConfirm
  <2>1. Keeps(ui', ui, {"downloading", "confirmed"})
    BY <1>d, <1>6 DEF Identifiers!BatchExport, Identifiers!TypeConfirm, Identifiers!At, Keeps
  <2>2. IdentifiersDialog(ui')
    BY <1>0, <1>d, <2>1 DEF IdentifiersDialog, Keeps, IdentifiersOwn
  <2> QED BY <1>d, <2>1, <2>2, IdentifiersOwnKept DEF IdentifiersOwn
<1>7. ASSUME NEW result, Identifiers!ExportAnswered(result) PROVE IdentifiersInv(ui')
  <2>1. Keeps(ui', ui, {"downloading", "lostExport"})
    BY <1>d, <1>7 DEF Identifiers!ExportAnswered, Identifiers!At, Keeps
  <2>2. IdentifiersDialog(ui')
    BY <1>0, <1>d, <2>1 DEF IdentifiersDialog, Keeps, IdentifiersOwn
  <2> QED BY <1>d, <2>1, <2>2, IdentifiersOwnKept DEF IdentifiersOwn
<1>8. CASE Identifiers!Dismiss
  <2>1. Keeps(ui', ui, {"dialog"}) /\ ui'.dialog = FALSE
    BY <1>d, <1>8 DEF Identifiers!Dismiss, Identifiers!At, Keeps, IdentifiersOwn
  <2>2. IdentifiersDialog(ui')
    BY <1>0, <1>d, <2>1 DEF IdentifiersDialog, Keeps, IdentifiersOwn
  <2> QED BY <1>d, <2>1, <2>2, IdentifiersOwnKept DEF IdentifiersOwn
<1>9. CASE Identifiers!ClkDelete
  <2>1. /\ Keeps(ui', ui, {"dialog", "confirmed", "conflicts", "blamed", "reopened"})
        /\ ui'.conflicts = {} /\ ui'.blamed = Identifiers!None
        /\ (ui'.reopened <=> ui.deleting # {})
    BY <1>d, <1>9 DEF Identifiers!ClkDelete, Identifiers!DialogShown, Identifiers!At, Keeps,
                      IdentifiersOwn
  <2>2. IdentifiersDialog(ui')
    BY <1>0, <1>d, <2>1 DEF IdentifiersDialog, Keeps, IdentifiersOwn, IdentifiersRows
  <2> QED BY <1>d, <2>1, <2>2, IdentifiersOwnKept DEF IdentifiersOwn
<1>10. CASE Identifiers!ClkConfirmDelete
  <2> DEFINE d == [row |-> ui.selected, params |-> Table!ParamsOf(ui)]
  <2>1. Keeps(ui', ui, {"deleting"}) /\ ui'.deleting = {d}
    BY <1>d, <1>10, IdentifiersTable
    DEF Identifiers!ClkConfirmDelete, Identifiers!At, Keeps, IdentifiersOwn
  <2>2. d.row = ui.selected /\ d.params \in PageParams(Q)
    BY <1>0, ParamsTyped
  <2> HIDE DEF d
  <2>3. IdentifiersDialog(ui')
    BY <1>0, <1>d, <2>1, <2>2 DEF IdentifiersDialog, Keeps, IdentifiersOwn, Q
  <2> QED BY <1>d, <2>1, <2>3, IdentifiersOwnKept DEF IdentifiersOwn
<1>11. ASSUME NEW result, Identifiers!DeleteAnswered(result) PROVE IdentifiersInv(ui')
  <2> PICK deletion \in ui.deleting :
        \/ ui' = Identifiers!Deleted(ui, deletion)
        \/ \E conflicts \in SUBSET Identifiers!Conflicts :
              ui' = Identifiers!Refused(ui, deletion, conflicts)
    BY <1>11 DEF Identifiers!DeleteAnswered, Identifiers!At
  <2>p. deletion.row \in IdentifiersRows /\ deletion.params \in PageParams(Q)
    BY <1>0 DEF IdentifiersDialog, Q
  <2>1. CASE ui' = Identifiers!Deleted(ui, deletion)
    <3> DEFINE w == [ui EXCEPT !.deleting = {}, !.dialog = FALSE, !.selected = Identifiers!None,
                               !.late = @ \/ ui.reopened,
                               !.outdated = deletion.params # Table!ParamsOf(ui)]
    <3>1. ui' = Table!SendWith(w, deletion.params)
      BY <2>1, IdentifiersTable DEF Identifiers!Deleted
    <3>2. /\ Keeps(w, ui, {"deleting", "dialog", "selected", "late", "outdated"})
          /\ w.deleting = {} /\ w.dialog = FALSE /\ w.selected = Identifiers!None
          /\ (w.outdated <=> deletion.params # Table!ParamsOf(ui))
      BY <1>d DEF Keeps, IdentifiersOwn
    <3> HIDE DEF w
    <3>3. {"deleting", "dialog", "selected", "late", "outdated"} \cap TableFields = {}
      BY DEF TableFields
    <3>4. HasTable(w, Q)
      BY <1>0, <3>2, <3>3, TableUntouched DEF IsTable
    <3>5. Sends(ui', w, Q) /\ (deletion.params = Table!ParamsOf(w) => NewestAsked(ui'))
      BY <2>p, <3>1, <3>4, SendsWith
    <3>6. Table!ParamsOf(w) = Table!ParamsOf(ui)
      BY <1>d, <3>2 DEF Keeps, Table!ParamsOf, TableFields
    <3>7. DOMAIN ui' = IdentifiersFields /\ ui'.outdated = w.outdated /\ IdentifiersDialog(ui')
      BY <1>0, <1>d, <3>2, <3>5
      DEF Sends, Keeps, IdentifiersDialog, IdentifiersOwn, IdentifiersRows
    <3>8. ui'.outdated \/ IsCurrent(ui')
      BY <3>2, <3>5, <3>6, <3>7 DEF IsCurrent
    <3> QED BY <3>5, <3>7, <3>8 DEF Sends, IdentifiersInv, Q
  <2>2. ASSUME NEW conflicts \in SUBSET Identifiers!Conflicts,
               ui' = Identifiers!Refused(ui, deletion, conflicts)
        PROVE  IdentifiersInv(ui')
    <3>1. /\ Keeps(ui', ui, {"deleting", "conflicts", "late", "blamed"})
          /\ ui'.deleting = {} /\ ui'.conflicts = conflicts
          /\ (ui'.late <=> ui.late \/ ui.reopened)
          /\ ui'.blamed = IF conflicts = {} THEN ui.blamed ELSE deletion.row
      BY <1>d, <2>2 DEF Identifiers!Refused, Keeps, IdentifiersOwn
    <3>2. IdentifiersDialog(ui')
      BY <1>0, <1>d, <2>p, <3>1 DEF IdentifiersDialog, Keeps, IdentifiersOwn
    <3> QED BY <1>d, <3>1, <3>2, IdentifiersOwnKept DEF IdentifiersOwn
  <2> QED BY <2>1, <2>2
<1> QED BY <1>1, <1>2, <1>3, <1>4, <1>5, <1>6, <1>7, <1>8, <1>9, <1>10, <1>11
        DEF Identifiers!IdentifiersNext

LEMMA IdentifiersHolds ==
    ASSUME Identifiers!Here => IdentifiersInv(ui)
    PROVE  /\ Identifiers!TypeOK /\ Identifiers!ShowsWhatIsAsked
           /\ Identifiers!WaitsForSomething /\ Identifiers!BlamesTheSelected
<1>1. SUFFICES ASSUME Identifiers!Here, IdentifiersInv(ui)
               PROVE  /\ Identifiers!TypeOK /\ Identifiers!ShowsWhatIsAsked
                      /\ Identifiers!WaitsForSomething /\ Identifiers!BlamesTheSelected
  BY DEF Identifiers!TypeOK, Identifiers!ShowsWhatIsAsked, Identifiers!WaitsForSomething,
         Identifiers!BlamesTheSelected
<1>2. /\ Table!TableTypeOver(ui, PageParams(Table!Queries))
      /\ IsCurrent(ui) => Table!RowsAreCurrent(ui)
  BY <1>1, TableHolds DEF IdentifiersInv
<1>3. Identifiers!Params = PageParams(Table!Queries)
  BY IdentifiersTable DEF Identifiers!Params, PageParams
<1>4. Identifiers!TableType(ui)
  BY <1>2, <1>3, IdentifiersTable
  DEF Identifiers!TableType, Identifiers!TableTypeOver, Table!TableTypeOver
<1>5. IsCurrent(ui) => Identifiers!RowsAreCurrent(ui)
  BY <1>2, IdentifiersTable DEF Identifiers!RowsAreCurrent, Table!RowsAreCurrent
<1>6. Identifiers!TypeOK
  BY <1>1, <1>4 DEF Identifiers!TypeOK, IdentifiersInv, IdentifiersDialog, IdentifiersRows
<1> QED BY <1>1, <1>5, <1>6
        DEF Identifiers!ShowsWhatIsAsked, Identifiers!WaitsForSomething,
            Identifiers!BlamesTheSelected, IdentifiersInv, IdentifiersDialog

-----------------------------------------------------------------------------
(***************************************************************************)
(* The template (DataTemplate).                                            *)
(***************************************************************************)
LEMMA TemplateTable ==
    /\ \A u, p : Template!SendWith(u, p) = Table!SendWith(u, p)
    /\ \A u : Template!Send(u) = Table!Send(u)
    /\ \A u, query : Template!Queried(u, query) = Table!Queried(u, query)
    /\ \A u, i : Template!Shown(u, i) = Table!Shown(u, i)
    /\ \A u, i : Template!Lost(u, i) = Table!Lost(u, i)
    /\ \A u, ids : Template!Tick(u, ids) = Table!Tick(u, ids)
    /\ \A u : Template!Untick(u) = Table!Untick(u)
    /\ \A u : Template!ParamsOf(u) = Table!ParamsOf(u)
    /\ \A u : Template!PagesOf(u) \subseteq 1 .. MaxPage
    /\ \A own : Template!TableAnd(own) = Table!TableAnd(own)
    /\ Template!NoRows = Table!NoRows
    /\ Template!Queries = Table!Queries
<1>1. Template!NoRows = Table!NoRows
  BY DEF Template!NoRows, Table!NoRows
<1>2. Template!Queries = Table!Queries
  BY DEF Template!Queries, Table!Queries
<1>3. \A u : Template!ParamsOf(u) = Table!ParamsOf(u)
  BY DEF Template!ParamsOf, Table!ParamsOf
<1>4. \A u : Template!PagesOf(u) \subseteq 1 .. MaxPage
  BY SomePages DEF Template!PagesOf
<1>5. \A own : Template!TableAnd(own) = Table!TableAnd(own)
  BY DEF Template!TableAnd, Table!TableAnd, Template!NewTable, Table!NewTable,
     Template!NoTicks, Table!NoTicks, Template!Ticked, Table!Ticked, Template!NoRows,
     Table!NoRows
<1>6. \A u, ids : Template!Tick(u, ids) = Table!Tick(u, ids)
  BY DEF Template!Tick, Table!Tick, Template!Ticked, Table!Ticked
<1>7. \A u : Template!Untick(u) = Table!Untick(u)
  BY DEF Template!Untick, Table!Untick, Template!NoTicks, Table!NoTicks, Template!Ticked,
     Table!Ticked, Template!NoRows, Table!NoRows
<1>8. \A u, p : Template!SendWith(u, p) = Table!SendWith(u, p)
  BY DEF Template!SendWith, Table!SendWith, Template!ParamsOf, Table!ParamsOf
<1>9. \A u : Template!Send(u) = Table!Send(u)
  BY <1>8 DEF Template!Send, Table!Send, Template!ParamsOf, Table!ParamsOf
<1>10. \A u, query : Template!Queried(u, query) = Table!Queried(u, query)
  BY <1>9 DEF Template!Queried, Table!Queried
<1>11. \A s, i : Template!Without(s, i) = Table!Without(s, i)
  BY DEF Template!Without, Table!Without
<1>12. \A u, i : Template!Shown(u, i) = Table!Shown(u, i)
  BY <1>11 DEF Template!Shown, Table!Shown
<1>13. \A u, i : Template!Lost(u, i) = Table!Lost(u, i)
  BY <1>11 DEF Template!Lost, Table!Lost
<1> QED BY <1>8, <1>9, <1>10, <1>12, <1>13, <1>6, <1>7, <1>3, <1>4, <1>5, <1>1, <1>2

TemplateOwn ==
    {"shown", "stored", "toggling", "crossed", "unsure", "dialog", "confirmed", "removing",
     "panel", "adding", "outdated"}
TemplateFields == TableFields \cup TemplateOwn

TemplateActs(u) ==
    /\ u.adding \subseteq PageParams(Table!Queries)
    /\ \A removal \in u.removing : removal.params \in PageParams(Table!Queries)

\* The calls under way will make of what is stored what is shown.
TemplateApplied(u) ==
    /\ \A call \in u.toggling : u.shown[call.item] = call.to
    /\ \A call, other \in u.toggling : call.item = other.item => call = other
    /\ \A item \in Items :
          u.shown[item] = u.stored[item] \/ \E call \in u.toggling : call.item = item

\* A list that is read without crossing a call is read while there is none.
TemplateSwitches(u) ==
    /\ u.shown \in Template!Switches /\ u.stored \in Template!Switches
    /\ u.toggling \subseteq [item : Items, to : BOOLEAN]
    /\ u.pending # << >> => u.crossed \/ u.toggling = {}
    /\ u.unsure \/ TemplateApplied(u)

TemplateRows(u) ==
    /\ IsTable(u, Table!Queries) /\ (u.outdated \/ IsCurrent(u))
    /\ u.loading => u.pending # << >>
    /\ u.ticked.ids # {} => u.ticked.of = u.rows

TemplateInv(u) ==
    /\ DOMAIN u = TemplateFields
    /\ TemplateRows(u) /\ TemplateActs(u) /\ TemplateSwitches(u)

TemplateAt(v, u, change) ==
    v = IF Len(change.pending) > Len(u.pending)
        THEN [change EXCEPT !.crossed = IF u.pending = << >> THEN u.toggling # {}
                                        ELSE @ \/ u.toggling # {}]
        ELSE change

\* A request was sent.
LEMMA TemplateSent ==
    ASSUME NEW u, TemplateInv(u), NEW change, NEW changed, Keeps(change, u, changed),
           changed \cap {"shown", "stored", "toggling", "unsure", "crossed"} = {},
           TemplateRows(change), TemplateActs(change), Len(change.pending) > Len(u.pending),
           NEW v, TemplateAt(v, u, change)
    PROVE  TemplateInv(v)
<1>0. /\ DOMAIN u = TemplateFields /\ DOMAIN change = TemplateFields
      /\ IsTable(change, Table!Queries)
  BY DEF TemplateInv, Keeps, TemplateRows
<1>1. v = [change EXCEPT !.crossed = IF u.pending = << >> THEN u.toggling # {}
                                     ELSE @ \/ u.toggling # {}]
  BY DEF TemplateAt
<1>2. /\ Keeps(v, change, {"crossed"}) /\ (v.crossed \/ u.toggling = {})
  BY <1>0, <1>1 DEF Keeps, TemplateFields, TemplateOwn
<1>3. "crossed" \notin TableFields /\ {"crossed"} \cap TableFields = {}
  BY DEF TableFields
<1>4. IsTable(v, Table!Queries) /\ (IsCurrent(change) => IsCurrent(v))
  BY <1>0, <1>2, <1>3, TableUntouched
<1>5. /\ v.outdated = change.outdated /\ v.loading = change.loading /\ v.pending = change.pending
      /\ v.ticked = change.ticked /\ v.rows = change.rows
  BY <1>0, <1>2 DEF Keeps, TemplateFields, TemplateOwn, TableFields
<1>6. TemplateRows(v)
  BY <1>4, <1>5 DEF TemplateRows
<1>7. TemplateActs(v)
  BY <1>0, <1>2 DEF Keeps, TemplateActs, TemplateFields, TemplateOwn
<1>8. /\ v.shown = u.shown /\ v.stored = u.stored /\ v.toggling = u.toggling
      /\ v.unsure = u.unsure
  BY <1>0, <1>2 DEF Keeps, TemplateFields, TemplateOwn
<1>9. TemplateSwitches(v)
  BY <1>2, <1>8 DEF TemplateInv, TemplateSwitches, TemplateApplied
<1> QED BY <1>0, <1>2, <1>6, <1>7, <1>9 DEF TemplateInv, Keeps

\* No request was sent, and the rows are the same.
LEMMA TemplateOwnKept ==
    ASSUME NEW u, TemplateInv(u), NEW change, NEW changed, Keeps(change, u, changed),
           changed \cap TableFields = {}, "outdated" \notin changed,
           TemplateActs(change), TemplateSwitches(change), NEW v, TemplateAt(v, u, change)
    PROVE  TemplateInv(v)
<1>1. /\ change.pending = u.pending /\ change.loading = u.loading /\ change.rows = u.rows
      /\ change.ticked = u.ticked /\ change.outdated = u.outdated
      /\ DOMAIN change = TemplateFields
  BY DEF TemplateInv, Keeps, TemplateFields, TemplateOwn, TableFields
<1>2. u.pending \in Seq(Requests(Table!Queries))
  BY DEF TemplateInv, TemplateRows, IsTable, HasTable
<1>3. ~ (Len(change.pending) > Len(u.pending))
  BY <1>1, <1>2
<1>4. v = change
  BY <1>3 DEF TemplateAt
<1>5. IsTable(change, Table!Queries) /\ (IsCurrent(u) => IsCurrent(change))
  BY TableUntouched DEF TemplateInv, TemplateRows
<1>6. TemplateRows(change)
  BY <1>1, <1>5 DEF TemplateInv, TemplateRows
<1> QED BY <1>1, <1>4, <1>6 DEF TemplateInv

LEMMA TemplateMounted == TemplateInv(Template!Mounted)
<1> DEFINE off == [i \in Items |-> FALSE]
           own == [shown |-> off,
                   stored |-> off, toggling |-> {},
                   crossed |-> FALSE, unsure |-> FALSE, dialog |-> FALSE, confirmed |-> FALSE,
                   removing |-> {}, panel |-> FALSE, adding |-> {}, outdated |-> FALSE]
           w == Table!TableAnd(own)
           v == Table!Send(w)
<1>0. off \in Template!Switches
  BY DEF Template!Switches
<1>2. Template!Mounted = v
  BY TemplateTable DEF Template!Mounted
<1> HIDE DEF off
<1>1. /\ DOMAIN own = TemplateOwn
      /\ own.shown = off /\ own.stored = off /\ own.toggling = {}
      /\ own.removing = {} /\ own.adding = {}
  BY DEF TemplateOwn
<1> HIDE DEF own
<1>3. "plain" \in Table!Queries
  BY DEF Table!Queries
<1>4. /\ DOMAIN w = TableFields \cup DOMAIN own /\ HasTable(w, Table!Queries)
      /\ \A f \in DOMAIN own : f \in TableFields \/ w[f] = own[f]
      /\ w.ticked = Table!NoTicks
  BY <1>3, Opens
<1>5. TemplateOwn \cap TableFields = {}
  BY DEF TableFields, TemplateOwn
<1>6. DOMAIN w = TemplateFields /\ \A f \in TemplateOwn : w[f] = own[f]
  BY <1>1, <1>4, <1>5 DEF TemplateFields
<1> HIDE DEF w
<1>7. /\ w.shown = off /\ w.stored = off /\ w.toggling = {}
      /\ w.removing = {} /\ w.adding = {}
  BY <1>1, <1>6 DEF TemplateOwn
<1>8. Sends(v, w, Table!Queries) /\ IsCurrent(v)
  BY <1>4, SendsNow
<1> HIDE DEF v
<1>9. /\ v.shown = off /\ v.stored = off /\ v.toggling = {}
      /\ v.removing = {} /\ v.adding = {} /\ v.ticked = Table!NoTicks
  BY <1>4, <1>6, <1>7, <1>8 DEF Sends, Keeps, TemplateFields, TemplateOwn, TableFields
<1>10. TemplateRows(v)
  BY <1>8, <1>9 DEF Sends, TemplateRows, Table!NoTicks, Table!Ticked
<1>11. TemplateSwitches(v)
  BY <1>0, <1>9 DEF TemplateSwitches, TemplateApplied
<1>12. TemplateActs(v)
  BY <1>9 DEF TemplateActs
<1> QED BY <1>2, <1>6, <1>8, <1>10, <1>11, <1>12 DEF Sends, Keeps, TemplateInv

LEMMA TemplateStep ==
    ASSUME Template!Here, TemplateInv(ui), Template!TemplateNext
    PROVE  TemplateInv(ui')
<1> DEFINE Q == Table!Queries
<1>0. /\ DOMAIN ui = TemplateFields /\ IsTable(ui, Q) /\ HasTable(ui, Q)
      /\ ui.loading \in BOOLEAN /\ ui.ticked \in Selections(Q)
      /\ ui.query \in Q /\ ui.page \in 1 .. MaxPage
      /\ TemplateRows(ui) /\ TemplateActs(ui) /\ TemplateSwitches(ui)
  BY Selects DEF TemplateInv, TemplateRows, IsTable, HasTable
<1>d. /\ TemplateOwn \subseteq DOMAIN ui /\ TableFields \subseteq DOMAIN ui
      /\ TemplateOwn \cap TableFields = {}
  BY <1>0 DEF TemplateFields, TemplateOwn, TableFields
<1>a. \A change : Template!At(change) => TemplateAt(ui', ui, change)
  BY DEF Template!At, Template!Overlap, TemplateAt
<1> HIDE DEF Q
\* The table as it is selected is asked for.
<1>s. ASSUME NEW w, NEW changed, Keeps(w, ui, changed), changed \subseteq {"page"},
             HasTable(w, Q), TemplateAt(ui', ui, Template!GetPageData(w))
      PROVE  TemplateInv(ui')
  <2> DEFINE x == [w EXCEPT !.outdated = FALSE]
             v == Table!Send(x)
  <2>1. Keeps(x, w, {"outdated"}) /\ HasTable(x, Q)
    BY <1>s DEF Keeps, HasTable, TableFields
  <2>2. Template!GetPageData(w) = v
    BY TemplateTable DEF Template!GetPageData
  <2> HIDE DEF x
  <2>3. Sends(v, x, Q) /\ IsCurrent(v)
    BY <2>1, SendsNow
  <2> HIDE DEF v
  <2>4. Keeps(v, ui, {"page", "outdated", "pending", "loading"})
    BY <1>s, <2>1, <2>3 DEF Sends, Keeps
  <2>5. v.ticked = ui.ticked /\ v.rows = ui.rows /\ x.pending = ui.pending
    BY <1>d, <1>s, <2>1, <2>4 DEF Keeps, TableFields
  <2>6. TemplateRows(v)
    BY <1>0, <2>3, <2>5 DEF Sends, TemplateRows, Q
  <2>7. TemplateActs(v)
    BY <1>0, <1>d, <2>4 DEF Keeps, TemplateActs, TemplateOwn
  <2>8. Len(v.pending) > Len(ui.pending)
    BY <2>3, <2>5 DEF Sends
  <2>9. {"page", "outdated", "pending", "loading"} \cap {"shown", "stored", "toggling", "unsure", "crossed"} = {}
    OBVIOUS
  <2> QED BY <1>s, <2>2, <2>4, <2>6, <2>7, <2>8, <2>9, TemplateSent
<1>1. ASSUME NEW result, NEW i \in DOMAIN ui.pending, Template!PageDataAnswered(i, result)
      PROVE  TemplateInv(ui')
  <2>0. ui.pending # << >> /\ ui.pending \in Seq(Requests(Q)) /\ i \in 1 .. Len(ui.pending)
    BY <1>0 DEF HasTable
  <2>1. ASSUME NEW switches \in Template!Switches, ui.crossed \/ switches = ui.stored,
               TemplateAt(ui', ui, Template!PageShown(ui, i, switches))
        PROVE  TemplateInv(ui')
    <3> DEFINE x == [ui EXCEPT !.shown = switches, !.unsure = ui.crossed]
               w == Table!Shown(x, i)
               v == Table!Untick(w)
    <3>1. Template!PageShown(ui, i, switches) = v
      BY TemplateTable DEF Template!PageShown
    <3>2. Keeps(x, ui, {"shown", "unsure"}) /\ x.shown = switches /\ x.unsure = ui.crossed
      BY <1>d DEF Keeps, TemplateOwn
    <3> HIDE DEF x
    <3>3. {"shown", "unsure"} \cap TableFields = {}
      BY DEF TableFields
    <3>4. IsTable(x, Q) /\ x.pending = ui.pending
      <4>1. IsTable(x, Q)
        BY <1>0, <3>2, <3>3, TableUntouched
      <4> QED BY <1>d, <3>2, <4>1 DEF Keeps, TableFields
    <3>5. Shows(w, x, Q, i)
      BY <3>4, ShowsAnswer
    <3> HIDE DEF w
    <3>6. Keeps(v, w, {"ticked"}) /\ v.ticked.ids = {} /\ v.ticked = Table!NoTicks
      BY <3>5, Unticks DEF Shows, IsTable
    <3> HIDE DEF v
    <3>7. /\ Keeps(v, ui, {"shown", "unsure", "pending", "rows", "fresh", "loading", "ticked"})
          /\ DOMAIN v = TemplateFields
      BY <1>0, <3>2, <3>5, <3>6 DEF Shows, Keeps
    <3>8. /\ v.loading = FALSE /\ v.shown = switches /\ v.unsure = ui.crossed
          /\ Len(v.pending) = Len(ui.pending) - 1
      BY <1>0, <1>d, <3>2, <3>4, <3>5, <3>6 DEF Shows, Keeps, TemplateOwn, TableFields
    <3>9. IsTable(v, Q) /\ IsCurrent(v)
      <4>1. {"ticked"} \cap {"page", "query", "pending", "rows", "fresh"} = {}
        OBVIOUS
      <4>2. v.ticked \in Selections(Q) /\ v.loading \in BOOLEAN
        BY <3>6, <3>8, <3>5, Selects DEF Shows, IsTable
      <4> QED BY <3>5, <3>6, <4>1, <4>2, TableKept DEF Shows
    <3>10. v.pending \in Seq(Requests(Q))
      BY <3>9 DEF IsTable, HasTable
    <3>11. ui' = v
      <4>1. ~ (Len(v.pending) > Len(ui.pending))
        BY <2>0, <3>8, <3>10
      <4> QED BY <2>1, <3>1, <4>1 DEF TemplateAt
    <3>12. TemplateRows(v)
      BY <3>6, <3>8, <3>9 DEF TemplateRows, Q
    <3>13. TemplateActs(v)
      BY <1>0, <1>d, <3>7 DEF Keeps, TemplateActs, TemplateOwn
    <3>14. v.stored = ui.stored /\ v.toggling = ui.toggling /\ v.crossed = ui.crossed
      BY <1>d, <3>7 DEF Keeps, TemplateOwn
    <3>15. TemplateSwitches(v)
      <4>1. CASE ui.crossed
        BY <1>0, <3>8, <3>14, <4>1 DEF TemplateSwitches
      <4>2. CASE ~ui.crossed
        <5>1. ui.toggling = {} /\ v.shown = v.stored
          BY <1>0, <2>0, <2>1, <3>8, <3>14, <4>2 DEF TemplateSwitches
        <5> QED BY <1>0, <3>8, <3>14, <5>1 DEF TemplateSwitches, TemplateApplied
      <4> QED BY <4>1, <4>2
    <3> QED BY <3>7, <3>11, <3>12, <3>13, <3>15 DEF TemplateInv
  <2>2. ASSUME TemplateAt(ui', ui, Template!PageFailed(ui, i)) PROVE TemplateInv(ui')
    <3> DEFINE w == Table!Lost(ui, i)
               v == [w EXCEPT !.loading = FALSE]
    <3>1. Template!PageFailed(ui, i) = v
      BY TemplateTable DEF Template!PageFailed
    <3>2. Loses(w, ui, Q)
      BY <1>0, LosesAnswer
    <3>w. Keeps(v, w, {"loading"}) /\ v.loading = FALSE /\ v.loading \in BOOLEAN /\ {"loading"} \cap (TableFields \ {"loading"}) = {}
      BY <1>0, <3>2 DEF Loses, Keeps, TemplateFields, TableFields
    <3> HIDE DEF v
    <3>3. LosesWith(v, ui, Q, {"loading"})
      BY <1>0, <3>w, LosesAnd
    <3> HIDE DEF w
    <3>4. Keeps(v, ui, {"pending", "fresh", "loading"}) /\ DOMAIN v = TemplateFields
      BY <1>0, <3>3 DEF LosesWith, Keeps
    <3>5. Len(v.pending) = Len(ui.pending) - 1 /\ v.pending \in Seq(Requests(Q))
      <4>1. v.pending = w.pending
        BY <1>d, <3>2, <3>w DEF Loses, Keeps, TableFields
      <4> QED BY <3>2, <3>3, <4>1 DEF Loses, LosesWith, IsTable, HasTable
    <3>6. ui' = v
      <4>1. ~ (Len(v.pending) > Len(ui.pending))
        BY <2>0, <3>5
      <4> QED BY <2>2, <3>1, <4>1 DEF TemplateAt
    <3>7. /\ v.ticked = ui.ticked /\ v.rows = ui.rows /\ v.outdated = ui.outdated
          /\ v.shown = ui.shown /\ v.stored = ui.stored /\ v.toggling = ui.toggling
          /\ v.crossed = ui.crossed /\ v.unsure = ui.unsure /\ v.adding = ui.adding
          /\ v.removing = ui.removing
      BY <1>d, <3>4 DEF Keeps, TemplateOwn, TableFields
    <3>8. TemplateRows(v)
      BY <1>0, <3>3, <3>7, <3>w DEF LosesWith, TemplateRows, Q
    <3>9. TemplateActs(v) /\ TemplateSwitches(v)
      BY <1>0, <2>0, <3>7 DEF TemplateActs, TemplateSwitches, TemplateApplied
    <3> QED BY <3>4, <3>6, <3>8, <3>9 DEF TemplateInv
  <2>3. ui.stored \in Template!Switches
    BY <1>0 DEF TemplateSwitches
  <2>4. \/ TemplateAt(ui', ui, Template!PageFailed(ui, i))
        \/ \E switches \in IF ui.crossed THEN Template!Switches ELSE {ui.stored} :
              TemplateAt(ui', ui, Template!PageShown(ui, i, switches))
    BY <1>1, <1>a DEF Template!PageDataAnswered
  <2> QED BY <2>1, <2>2, <2>3, <2>4
<1>2. CASE Template!Refresh
  <2>1. TemplateAt(ui', ui, Template!GetPageData(ui)) /\ Keeps(ui, ui, {}) /\ {} \subseteq {"page"}
    BY <1>2, <1>a DEF Template!Refresh, Keeps
  <2> QED BY <1>0, <1>s, <2>1
<1>3. CASE Template!ChangePage
  <2> PICK page \in Template!PagesOf(ui) :
        TemplateAt(ui', ui, Template!GetPageData([ui EXCEPT !.page = page]))
    BY <1>3, <1>a DEF Template!ChangePage
  <2> DEFINE w == [ui EXCEPT !.page = page]
  <2>1. Keeps(w, ui, {"page"}) /\ w.page = page /\ w.query = ui.query /\ w.ticked = ui.ticked
    BY <1>d DEF Keeps, TableFields
  <2>2. page \in 1 .. MaxPage
    BY TemplateTable
  <2> HIDE DEF w
  <2>3. HasTable(w, Q) /\ {"page"} \subseteq {"page"}
    BY <1>0, <2>1, <2>2, TableMoved
  <2>4. TemplateAt(ui', ui, Template!GetPageData(w))
    BY DEF w
  <2> QED BY <1>s, <2>1, <2>3, <2>4
<1>4. CASE Template!ChangeQuery
  <2> PICK query \in Q :
        TemplateAt(ui', ui, Template!Queried([ui EXCEPT !.outdated = FALSE], query))
    BY <1>4, <1>a, TemplateTable DEF Template!ChangeQuery, Q
  <2> DEFINE w == [ui EXCEPT !.outdated = FALSE]
             v == Table!Queried(w, query)
  <2>1. TemplateAt(ui', ui, v)
    BY TemplateTable
  <2>2. Keeps(w, ui, {"outdated"}) /\ "outdated" \notin TableFields
    BY <1>d DEF Keeps, TableFields
  <2> HIDE DEF w
  <2>3. HasTable(w, Q)
    BY <1>0, <2>2, TableUntouched DEF IsTable
  <2>4. Turns(v, w, Q, query)
    BY <2>3, TurnsToFirst
  <2> HIDE DEF v
  <2>5. Keeps(v, ui, {"outdated", "pending", "loading", "page", "query"})
    BY <2>2, <2>4 DEF Turns, Keeps
  <2>6. v.ticked = ui.ticked /\ v.rows = ui.rows /\ w.pending = ui.pending
    BY <1>d, <2>2, <2>5 DEF Keeps, TableFields
  <2>7. TemplateRows(v)
    BY <1>0, <2>4, <2>6 DEF Turns, TemplateRows, Q
  <2>8. TemplateActs(v)
    BY <1>0, <1>d, <2>5 DEF Keeps, TemplateActs, TemplateOwn
  <2>9. Len(v.pending) > Len(ui.pending)
    BY <2>4, <2>6 DEF Turns
  <2>10. {"outdated", "pending", "loading", "page", "query"}
            \cap {"shown", "stored", "toggling", "unsure", "crossed"} = {}
    OBVIOUS
  <2> QED BY <2>1, <2>5, <2>7, <2>8, <2>9, <2>10, TemplateSent
<1>5. CASE Template!SelectRows
  <2> PICK ids \in SUBSET Items : TemplateAt(ui', ui, Template!Tick(ui, ids))
    BY <1>5, <1>a DEF Template!SelectRows
  <2> DEFINE v == Table!Tick(ui, ids)
  <2>1. TemplateAt(ui', ui, v)
    BY TemplateTable
  <2>2. /\ Keeps(v, ui, {"ticked"}) /\ v.ticked.of = ui.rows
        /\ IsTable(v, Q) /\ (IsCurrent(ui) => IsCurrent(v))
    BY <1>0, Ticks
  <2> HIDE DEF v
  <2>3. /\ v.pending = ui.pending /\ v.loading = ui.loading /\ v.rows = ui.rows
        /\ v.outdated = ui.outdated
        /\ v.shown = ui.shown /\ v.stored = ui.stored /\ v.toggling = ui.toggling
        /\ v.crossed = ui.crossed /\ v.unsure = ui.unsure /\ v.adding = ui.adding
        /\ v.removing = ui.removing /\ DOMAIN v = TemplateFields
    BY <1>0, <1>d, <2>2 DEF Keeps, TemplateOwn, TableFields
  <2>4. ui' = v
    <3>1. ~ (Len(v.pending) > Len(ui.pending))
      BY <1>0, <2>3 DEF HasTable
    <3> QED BY <2>1, <3>1 DEF TemplateAt
  <2>5. TemplateRows(v) /\ TemplateActs(v) /\ TemplateSwitches(v)
    BY <1>0, <2>2, <2>3 DEF TemplateRows, TemplateActs, TemplateSwitches, TemplateApplied, Q
  <2> QED BY <2>3, <2>4, <2>5 DEF TemplateInv
<1>6. ASSUME NEW item \in Items, Template!SetToggleChecked(item) PROVE TemplateInv(ui')
  <2> DEFINE to == ~ui.shown[item]
             call == [item |-> item, to |-> to]
             v == [ui EXCEPT !.shown[item] = to, !.toggling = @ \cup {call},
                             !.unsure = @ \/ \E other \in ui.toggling : other.item = item,
                             !.crossed = @ \/ ui.pending # << >>]
  <2>0. ui.shown \in Template!Switches /\ to \in BOOLEAN
    BY <1>0 DEF TemplateSwitches
  <2>1. TemplateAt(ui', ui, v)
    BY <1>6, <1>a DEF Template!SetToggleChecked
  <2> HIDE DEF to
  <2>2. call \in [item : Items, to : BOOLEAN] /\ call.item = item /\ call.to = to
    BY <2>0
  <2> HIDE DEF call
  <2>3. /\ Keeps(v, ui, {"shown", "toggling", "unsure", "crossed"})
        /\ v.shown = [ui.shown EXCEPT ![item] = to]
        /\ v.toggling = ui.toggling \cup {call}
        /\ v.unsure <=> ui.unsure \/ \E other \in ui.toggling : other.item = item
        /\ v.crossed <=> ui.crossed \/ ui.pending # << >>
    BY <1>d DEF Keeps, TemplateOwn
  <2> HIDE DEF v
  <2>4. v.stored = ui.stored /\ v.pending = ui.pending
    BY <1>d, <2>3 DEF Keeps, TemplateOwn, TableFields
  <2>5. v.shown \in Template!Switches /\ v.shown[item] = to /\ \A j \in Items : j # item => v.shown[j] = ui.shown[j]
    BY <2>0, <2>3 DEF Template!Switches
  <2>6. v.unsure \/ TemplateApplied(v)
    <3>1. SUFFICES ASSUME ~ui.unsure, \A other \in ui.toggling : other.item # item
                   PROVE  TemplateApplied(v)
      BY <2>3
    <3>2. TemplateApplied(ui) /\ \A c \in ui.toggling : c.item \in Items
      BY <1>0, <3>1 DEF TemplateSwitches
    <3> QED BY <2>2, <2>3, <2>4, <2>5, <3>1, <3>2 DEF TemplateApplied
  <2>7. TemplateSwitches(v)
    BY <1>0, <2>2, <2>3, <2>4, <2>5, <2>6 DEF TemplateSwitches
  <2>8. TemplateActs(v)
    BY <1>0, <1>d, <2>3 DEF Keeps, TemplateActs, TemplateOwn
  <2> QED BY <1>d, <2>1, <2>3, <2>7, <2>8, TemplateOwnKept DEF TemplateOwn
<1>7. CASE Template!ToggleAnswered
  <2> PICK call \in ui.toggling, wire \in Template!Wire :
        \E performed \in Template!PerformedBy(wire) :
           TemplateAt(ui', ui, [ui EXCEPT !.toggling = @ \ {call},
                      !.stored[call.item] = IF performed THEN call.to ELSE @,
                      !.unsure = @ \/ Template!ApiResult(wire) = "rejected"])
    BY <1>7, <1>a DEF Template!ToggleAnswered
  <2> PICK performed \in Template!PerformedBy(wire) :
           TemplateAt(ui', ui, [ui EXCEPT !.toggling = @ \ {call},
                      !.stored[call.item] = IF performed THEN call.to ELSE @,
                      !.unsure = @ \/ Template!ApiResult(wire) = "rejected"])
    OBVIOUS
  <2> DEFINE now == IF performed THEN call.to ELSE ui.stored[call.item]
             v == [ui EXCEPT !.toggling = @ \ {call}, !.stored[call.item] = now,
                             !.unsure = @ \/ Template!ApiResult(wire) = "rejected"]
  <2>0. /\ ui.stored \in Template!Switches /\ call.item \in Items /\ call.to \in BOOLEAN
        /\ now \in BOOLEAN
    BY <1>0 DEF TemplateSwitches, Template!Switches
  <2>1. TemplateAt(ui', ui, v)
    OBVIOUS
  <2>2. Template!ApiResult(wire) = "rejected" \/ now = call.to
    BY DEF Template!Wire, Template!PerformedBy, Template!ApiResult, Template!Intercepted
  <2> HIDE DEF now
  <2>3. /\ Keeps(v, ui, {"stored", "toggling", "unsure"})
        /\ v.stored = [ui.stored EXCEPT ![call.item] = now]
        /\ v.toggling = ui.toggling \ {call}
        /\ v.unsure <=> ui.unsure \/ Template!ApiResult(wire) = "rejected"
    BY <1>d DEF Keeps, TemplateOwn
  <2> HIDE DEF v
  <2>4. v.shown = ui.shown /\ v.pending = ui.pending /\ v.crossed = ui.crossed
    BY <1>d, <2>3 DEF Keeps, TemplateOwn, TableFields
  <2>5. /\ v.stored \in Template!Switches /\ v.stored[call.item] = now
        /\ \A j \in Items : j # call.item => v.stored[j] = ui.stored[j]
    BY <2>0, <2>3 DEF Template!Switches
  <2>6. v.unsure \/ TemplateApplied(v)
    <3>1. SUFFICES ASSUME ~ui.unsure, now = call.to
                   PROVE  TemplateApplied(v)
      BY <2>2, <2>3
    <3>2. TemplateApplied(ui)
      BY <1>0, <3>1 DEF TemplateSwitches
    <3>3. v.shown[call.item] = v.stored[call.item]
      BY <2>4, <2>5, <3>1, <3>2 DEF TemplateApplied
    <3>4. \A c \in v.toggling : c \in ui.toggling /\ c.item # call.item
      BY <2>3, <3>2 DEF TemplateApplied
    <3>5. ASSUME NEW j \in Items, j # call.item
          PROVE  v.shown[j] = v.stored[j] \/ \E c \in v.toggling : c.item = j
      BY <2>3, <2>4, <2>5, <3>2, <3>5 DEF TemplateApplied
    <3> QED BY <2>4, <3>2, <3>3, <3>4, <3>5 DEF TemplateApplied
  <2>7. TemplateSwitches(v)
    BY <1>0, <2>3, <2>4, <2>5, <2>6 DEF TemplateSwitches
  <2>8. TemplateActs(v)
    BY <1>0, <1>d, <2>3 DEF Keeps, TemplateActs, TemplateOwn
  <2> QED BY <1>d, <2>1, <2>3, <2>7, <2>8, TemplateOwnKept DEF TemplateOwn
\* The dialog and the panel.
<1>p. ASSUME NEW v, NEW changed, Keeps(v, ui, changed),
             changed \subseteq {"dialog", "confirmed", "panel", "removing", "adding"},
             TemplateActs(v), TemplateAt(ui', ui, v)
      PROVE  TemplateInv(ui')
  <2>1. /\ v.shown = ui.shown /\ v.stored = ui.stored /\ v.toggling = ui.toggling
        /\ v.crossed = ui.crossed /\ v.unsure = ui.unsure /\ v.pending = ui.pending
    BY <1>d, <1>p DEF Keeps, TemplateOwn, TableFields
  <2>2. TemplateSwitches(v)
    BY <1>0, <2>1 DEF TemplateSwitches, TemplateApplied
  <2>3. changed \cap TableFields = {} /\ "outdated" \notin changed
    BY <1>p DEF TableFields
  <2> QED BY <1>p, <2>2, <2>3, TemplateOwnKept
<1>8. CASE Template!ClkDelete
  <2> DEFINE v == [ui EXCEPT !.dialog = TRUE]
  <2>1. TemplateAt(ui', ui, v)
    BY <1>8, <1>a DEF Template!ClkDelete
  <2>2. Keeps(v, ui, {"dialog"})
    BY <1>d DEF Keeps
  <2> HIDE DEF v
  <2>3. TemplateActs(v)
    BY <1>0, <1>d, <2>2 DEF Keeps, TemplateActs, TemplateOwn
  <2> QED BY <1>p, <2>1, <2>2, <2>3
<1>9. CASE Template!TypeConfirm
  <2> DEFINE v == [ui EXCEPT !.confirmed = TRUE]
  <2>1. TemplateAt(ui', ui, v)
    BY <1>9, <1>a DEF Template!TypeConfirm
  <2>2. Keeps(v, ui, {"confirmed"})
    BY <1>d DEF Keeps
  <2> HIDE DEF v
  <2>3. TemplateActs(v)
    BY <1>0, <1>d, <2>2 DEF Keeps, TemplateActs, TemplateOwn
  <2> QED BY <1>p, <2>1, <2>2, <2>3
<1>10. CASE Template!Dismiss
  <2> DEFINE v == [ui EXCEPT !.dialog = FALSE, !.confirmed = FALSE]
  <2>1. TemplateAt(ui', ui, v)
    BY <1>10, <1>a DEF Template!Dismiss
  <2>2. Keeps(v, ui, {"dialog", "confirmed"})
    BY <1>d DEF Keeps
  <2> HIDE DEF v
  <2>3. TemplateActs(v)
    BY <1>0, <1>d, <2>2 DEF Keeps, TemplateActs, TemplateOwn
  <2> QED BY <1>p, <2>1, <2>2, <2>3
<1>11. CASE Template!ConfirmDelete
  <2> DEFINE removal == [ids |-> ui.ticked.ids, params |-> Table!ParamsOf(ui)]
             v == [ui EXCEPT !.removing = {removal}]
  <2>1. TemplateAt(ui', ui, v)
    BY <1>11, <1>a, TemplateTable DEF Template!ConfirmDelete
  <2>2. removal.params \in PageParams(Q)
    BY <1>0, ParamsTyped
  <2> HIDE DEF removal
  <2>3. Keeps(v, ui, {"removing"}) /\ v.removing = {removal}
    BY <1>d DEF Keeps, TemplateOwn
  <2> HIDE DEF v
  <2>4. TemplateActs(v)
    BY <1>0, <1>d, <2>2, <2>3 DEF Keeps, TemplateActs, TemplateOwn, Q
  <2> QED BY <1>p, <2>1, <2>3, <2>4
<1>12. CASE Template!ClkAddDataIdentifier
  <2> DEFINE v == [ui EXCEPT !.panel = TRUE]
  <2>1. TemplateAt(ui', ui, v)
    BY <1>12, <1>a DEF Template!ClkAddDataIdentifier
  <2>2. Keeps(v, ui, {"panel"})
    BY <1>d DEF Keeps
  <2> HIDE DEF v
  <2>3. TemplateActs(v)
    BY <1>0, <1>d, <2>2 DEF Keeps, TemplateActs, TemplateOwn
  <2> QED BY <1>p, <2>1, <2>2, <2>3
<1>13. CASE Template!ClosePanel
  <2> DEFINE v == [ui EXCEPT !.panel = FALSE]
  <2>1. TemplateAt(ui', ui, v)
    BY <1>13, <1>a DEF Template!ClosePanel
  <2>2. Keeps(v, ui, {"panel"})
    BY <1>d DEF Keeps
  <2> HIDE DEF v
  <2>3. TemplateActs(v)
    BY <1>0, <1>d, <2>2 DEF Keeps, TemplateActs, TemplateOwn
  <2> QED BY <1>p, <2>1, <2>2, <2>3
<1>14. CASE Template!Add
  <2> DEFINE v == [ui EXCEPT !.adding = {Table!ParamsOf(ui)}]
  <2>1. TemplateAt(ui', ui, v)
    BY <1>14, <1>a, TemplateTable DEF Template!Add
  <2>2. Keeps(v, ui, {"adding"}) /\ v.adding = {Table!ParamsOf(ui)}
    BY <1>d DEF Keeps, TemplateOwn
  <2> HIDE DEF v
  <2>3. Table!ParamsOf(ui) \in PageParams(Q)
    BY <1>0, ParamsTyped
  <2>4. TemplateActs(v)
    BY <1>0, <1>d, <2>2, <2>3 DEF Keeps, TemplateActs, TemplateOwn, Q
  <2> QED BY <1>p, <2>1, <2>2, <2>4
<1>15. ASSUME NEW result, Template!DeleteAnswered(result) PROVE TemplateInv(ui')
  <2> PICK removal \in ui.removing :
        \/ TemplateAt(ui', ui, Template!Removed(ui, removal.params))
        \/ TemplateAt(ui', ui, [ui EXCEPT !.removing = {}])
    BY <1>15, <1>a DEF Template!DeleteAnswered
  <2> DEFINE params == removal.params
             x == [ui EXCEPT !.removing = {}]
             w == [ui EXCEPT !.removing = {}, !.dialog = FALSE, !.confirmed = FALSE,
                             !.outdated = params # Table!ParamsOf(ui)]
             v == Table!SendWith(w, params)
  <2>0. params \in PageParams(Q)
    BY <1>0 DEF TemplateActs, Q
  <2>1. TemplateAt(ui', ui, v) \/ TemplateAt(ui', ui, x)
    BY TemplateTable DEF Template!Removed
  <2>2. Keeps(x, ui, {"removing"}) /\ x.removing = {}
    BY <1>d DEF Keeps, TemplateOwn
  <2>3. /\ Keeps(w, ui, {"removing", "dialog", "confirmed", "outdated"}) /\ w.removing = {}
        /\ w.outdated <=> params # Table!ParamsOf(ui)
    BY <1>d DEF Keeps, TemplateOwn
  <2> HIDE DEF params, x, w
  <2>4. TemplateActs(x) /\ TemplateActs(w)
    BY <1>0, <1>d, <2>2, <2>3 DEF Keeps, TemplateActs, TemplateOwn
  <2>5. {"removing", "dialog", "confirmed", "outdated"} \cap TableFields = {}
    BY DEF TableFields
  <2>6. HasTable(w, Q)
    BY <1>0, <2>3, <2>5, TableUntouched DEF IsTable
  <2>7. Sends(v, w, Q) /\ (params = Table!ParamsOf(w) => NewestAsked(v))
    BY <2>0, <2>6, SendsWith
  <2> HIDE DEF v
  <2>8. Keeps(v, ui, {"removing", "dialog", "confirmed", "outdated", "pending", "loading"})
    BY <2>3, <2>7 DEF Sends, Keeps
  <2>9. /\ v.ticked = ui.ticked /\ v.rows = ui.rows /\ w.pending = ui.pending
        /\ v.outdated = w.outdated /\ Table!ParamsOf(w) = Table!ParamsOf(ui)
    BY <1>d, <2>3, <2>7, <2>8 DEF Sends, Keeps, TemplateOwn, TableFields, Table!ParamsOf
  <2>10. v.outdated \/ IsCurrent(v)
    BY <2>3, <2>7, <2>9 DEF IsCurrent
  <2>11. TemplateRows(v)
    BY <1>0, <2>7, <2>9, <2>10 DEF Sends, TemplateRows, Q
  <2>12. TemplateActs(v)
    BY <1>d, <2>3, <2>4, <2>7 DEF Sends, Keeps, TemplateActs, TemplateOwn
  <2>13. Len(v.pending) > Len(ui.pending)
    BY <2>7, <2>9 DEF Sends
  <2>14. {"removing", "dialog", "confirmed", "outdated", "pending", "loading"}
            \cap {"shown", "stored", "toggling", "unsure", "crossed"} = {}
    OBVIOUS
  <2>15. TemplateAt(ui', ui, v) => TemplateInv(ui')
    BY <2>8, <2>11, <2>12, <2>13, <2>14, TemplateSent
  <2>16. TemplateAt(ui', ui, x) => TemplateInv(ui')
    BY <1>p, <2>2, <2>4
  <2> QED BY <2>1, <2>15, <2>16
<1>16. ASSUME NEW result, Template!AddAnswered(result) PROVE TemplateInv(ui')
  <2> PICK params \in ui.adding :
        \/ TemplateAt(ui', ui, Template!Added(ui, params))
        \/ TemplateAt(ui', ui, [ui EXCEPT !.adding = {}])
    BY <1>16, <1>a DEF Template!AddAnswered
  <2> DEFINE x == [ui EXCEPT !.adding = {}]
             w == [ui EXCEPT !.adding = {}, !.panel = FALSE, !.page = 1, !.query = "plain"]
             first == Table!SendWith(w, params)
             once == [first EXCEPT !.outdated = params # Table!ParamsOf(first)]
             second == [first EXCEPT !.outdated = FALSE]
             twice == Table!Send(second)
             changed == {"adding", "panel", "page", "query", "outdated", "pending", "loading"}
  <2>0. params \in PageParams(Q) /\ 1 \in 1 .. MaxPage /\ "plain" \in Q
    BY <1>0, SomePages DEF TemplateActs, Q, Table!Queries
  <2>1. \/ TemplateAt(ui', ui, once) \/ TemplateAt(ui', ui, twice) \/ TemplateAt(ui', ui, x)
    BY TemplateTable DEF Template!Added, Template!Closed
  <2>2. Keeps(x, ui, {"adding"}) /\ x.adding = {}
    BY <1>d DEF Keeps, TemplateOwn
  <2>3. /\ Keeps(w, ui, {"adding", "panel", "page", "query"}) /\ w.adding = {}
        /\ w.page = 1 /\ w.query = "plain" /\ w.ticked = ui.ticked
    BY <1>d DEF Keeps, TemplateOwn, TableFields
  <2> HIDE DEF x, w
  <2>4. TemplateActs(x) /\ TemplateActs(w)
    BY <1>0, <1>d, <2>2, <2>3 DEF Keeps, TemplateActs, TemplateOwn
  <2>5. {"adding", "panel", "page", "query"} \cap {"pending", "rows", "fresh", "loading"} = {}
    OBVIOUS
  <2>6. HasTable(w, Q)
    BY <1>0, <2>0, <2>3, <2>5, TableMoved
  <2>7. Sends(first, w, Q) /\ (params = Table!ParamsOf(w) => NewestAsked(first))
    BY <2>0, <2>6, SendsWith
  <2> HIDE DEF first
  <2>8. Keeps(first, ui, {"adding", "panel", "page", "query", "pending", "loading"})
    BY <2>3, <2>7 DEF Sends, Keeps
  <2>9. Keeps(once, first, {"outdated"}) /\ (once.outdated <=> params # Table!ParamsOf(first))
    BY <1>d, <2>8 DEF Keeps, TemplateOwn
  <2>10. Keeps(second, first, {"outdated"})
    BY <1>d, <2>8 DEF Keeps
  <2> HIDE DEF once, second
  <2>11. {"outdated"} \cap TableFields = {}
    BY DEF TableFields
  <2>12. IsTable(once, Q) /\ (IsCurrent(first) => IsCurrent(once)) /\ HasTable(second, Q)
    BY <2>7, <2>9, <2>10, <2>11, TableUntouched DEF Sends, IsTable
  <2>13. Sends(twice, second, Q) /\ IsCurrent(twice)
    BY <2>12, SendsNow
  <2> HIDE DEF twice
  <2>14. Keeps(once, ui, changed) /\ Keeps(twice, ui, changed)
    BY <2>8, <2>9, <2>10, <2>13 DEF Sends, Keeps
  <2>15. /\ once.ticked = ui.ticked /\ once.rows = ui.rows /\ twice.ticked = ui.ticked
         /\ twice.rows = ui.rows /\ once.pending = first.pending
         /\ once.loading = first.loading
    BY <1>d, <2>8, <2>9, <2>14 DEF Keeps, TableFields
  <2>16. Table!ParamsOf(w) = Table!ParamsOf(first)
    BY <1>d, <2>3, <2>7 DEF Sends, Keeps, TableFields, Table!ParamsOf
  <2>17. once.outdated \/ IsCurrent(once)
    BY <2>7, <2>9, <2>12, <2>16 DEF IsCurrent
  <2>18. TemplateRows(once) /\ TemplateRows(twice)
    BY <1>0, <2>7, <2>12, <2>13, <2>15, <2>17 DEF Sends, TemplateRows, Q
  <2>19. once.adding = {} /\ once.removing = ui.removing /\ twice.adding = {} /\ twice.removing = ui.removing
    BY <1>d, <2>3, <2>7, <2>8, <2>9, <2>10, <2>13, <2>14 DEF Sends, Keeps, TemplateOwn
  <2>20. TemplateActs(once) /\ TemplateActs(twice)
    BY <1>0, <2>19 DEF TemplateActs
  <2>21. Len(once.pending) > Len(ui.pending) /\ Len(twice.pending) > Len(ui.pending)
    <3>1. w.pending = ui.pending /\ second.pending = first.pending
      BY <1>d, <2>3, <2>8, <2>10 DEF Keeps, TableFields
    <3>2. /\ Len(first.pending) > Len(w.pending) /\ Len(twice.pending) > Len(second.pending)
          /\ first.pending \in Seq(Requests(Q)) /\ twice.pending \in Seq(Requests(Q))
          /\ ui.pending \in Seq(Requests(Q))
      BY <1>0, <2>7, <2>13 DEF Sends, IsTable, HasTable
    <3> QED BY <2>15, <3>1, <3>2
  <2>22. changed \cap {"shown", "stored", "toggling", "unsure", "crossed"} = {}
    OBVIOUS
  <2> HIDE DEF changed
  <2>23. TemplateAt(ui', ui, once) => TemplateInv(ui')
    BY <2>14, <2>18, <2>20, <2>21, <2>22, TemplateSent
  <2>24. TemplateAt(ui', ui, twice) => TemplateInv(ui')
    BY <2>14, <2>18, <2>20, <2>21, <2>22, TemplateSent
  <2>25. TemplateAt(ui', ui, x) => TemplateInv(ui')
    BY <1>p, <2>2, <2>4
  <2> QED BY <2>1, <2>23, <2>24, <2>25
<1> QED BY <1>1, <1>2, <1>3, <1>4, <1>5, <1>6, <1>7, <1>8, <1>9, <1>10, <1>11, <1>12, <1>13,
          <1>14, <1>15, <1>16 DEF Template!TemplateNext

LEMMA TemplateHolds ==
    ASSUME Template!Here => TemplateInv(ui)
    PROVE  /\ Template!TypeOK /\ Template!ShowsWhatIsAsked /\ Template!WaitsForSomething
           /\ Template!SwitchesAreStored /\ Template!RemovesWhatIsShown
<1>1. SUFFICES ASSUME Template!Here, TemplateInv(ui)
               PROVE  /\ Template!TypeOK /\ Template!ShowsWhatIsAsked
                      /\ Template!WaitsForSomething
                      /\ Template!SwitchesAreStored /\ Template!RemovesWhatIsShown
  BY DEF Template!TypeOK, Template!ShowsWhatIsAsked, Template!WaitsForSomething,
         Template!SwitchesAreStored, Template!RemovesWhatIsShown
<1>2. /\ Table!TableTypeOver(ui, PageParams(Table!Queries))
      /\ IsCurrent(ui) => Table!RowsAreCurrent(ui)
  BY <1>1, TableHolds DEF TemplateInv, TemplateRows
<1>3. Template!Params = PageParams(Table!Queries)
  BY TemplateTable DEF Template!Params, PageParams
<1>4. Template!TableType(ui)
  BY <1>2, <1>3, TemplateTable
  DEF Template!TableType, Template!TableTypeOver, Table!TableTypeOver
<1>5. IsCurrent(ui) => Template!RowsAreCurrent(ui)
  BY <1>2, TemplateTable DEF Template!RowsAreCurrent, Table!RowsAreCurrent
<1>6. Template!TypeOK
  BY <1>1, <1>3, <1>4 DEF Template!TypeOK, TemplateInv, TemplateSwitches, TemplateActs
<1>7. Template!ShowsWhatIsAsked /\ Template!WaitsForSomething /\ Template!RemovesWhatIsShown
  BY <1>1, <1>5 DEF Template!ShowsWhatIsAsked, Template!WaitsForSomething,
                    Template!RemovesWhatIsShown, TemplateInv, TemplateRows
<1>8. Template!SwitchesAreStored
  <2>1. SUFFICES ASSUME ui.toggling = {}, ~ui.unsure PROVE ui.shown = ui.stored
    BY DEF Template!SwitchesAreStored
  <2>2. ui.shown \in [Items -> BOOLEAN] /\ ui.stored \in [Items -> BOOLEAN]
    BY <1>1 DEF TemplateInv, TemplateSwitches, Template!Switches
  <2>3. \A item \in Items : ui.shown[item] = ui.stored[item]
    BY <1>1, <2>1 DEF TemplateInv, TemplateSwitches, TemplateApplied
  <2> QED BY <2>2, <2>3
<1> QED BY <1>6, <1>7, <1>8

-----------------------------------------------------------------------------
(***************************************************************************)
(* Adding identifiers to the template (TemplateAdd).                       *)
(***************************************************************************)
LEMMA AddingTable ==
    /\ \A u : Adding!Send(u) = Table!Send(u)
    /\ \A u, query : Adding!Queried(u, query) = Table!Queried(u, query)
    /\ \A u, i : Adding!Shown(u, i) = Table!Shown(u, i)
    /\ \A u, i : Adding!Lost(u, i) = Table!Lost(u, i)
    /\ \A u, ids : Adding!Tick(u, ids) = Table!Tick(u, ids)
    /\ \A u : Adding!Untick(u) = Table!Untick(u)
    /\ \A u : Adding!ParamsOf(u) = Table!ParamsOf(u)
    /\ \A u : Adding!PagesOf(u) \subseteq 1 .. MaxPage
    /\ \A own : Adding!TableAnd(own) = Table!TableAnd(own)
    /\ Adding!NoRows = Table!NoRows
    /\ Adding!Queries = Table!Queries
    /\ \A s, i : Adding!Without(s, i) = Table!Without(s, i)
<1>1. Adding!NoRows = Table!NoRows
  BY DEF Adding!NoRows, Table!NoRows
<1>2. Adding!Queries = Table!Queries
  BY DEF Adding!Queries, Table!Queries
<1>3. \A u : Adding!ParamsOf(u) = Table!ParamsOf(u)
  BY DEF Adding!ParamsOf, Table!ParamsOf
<1>4. \A u : Adding!PagesOf(u) \subseteq 1 .. MaxPage
  BY SomePages DEF Adding!PagesOf
<1>5. \A own : Adding!TableAnd(own) = Table!TableAnd(own)
  BY DEF Adding!TableAnd, Table!TableAnd, Adding!NewTable, Table!NewTable, Adding!NoTicks,
     Table!NoTicks, Adding!Ticked, Table!Ticked, Adding!NoRows, Table!NoRows
<1>6. \A u, ids : Adding!Tick(u, ids) = Table!Tick(u, ids)
  BY DEF Adding!Tick, Table!Tick, Adding!Ticked, Table!Ticked
<1>7. \A u : Adding!Untick(u) = Table!Untick(u)
  BY DEF Adding!Untick, Table!Untick, Adding!NoTicks, Table!NoTicks, Adding!Ticked,
     Table!Ticked, Adding!NoRows, Table!NoRows
<1>8. \A u, p : Adding!SendWith(u, p) = Table!SendWith(u, p)
  BY DEF Adding!SendWith, Table!SendWith, Adding!ParamsOf, Table!ParamsOf
<1>9. \A u : Adding!Send(u) = Table!Send(u)
  BY <1>8 DEF Adding!Send, Table!Send, Adding!ParamsOf, Table!ParamsOf
<1>10. \A u, query : Adding!Queried(u, query) = Table!Queried(u, query)
  BY <1>9 DEF Adding!Queried, Table!Queried
<1>11. \A s, i : Adding!Without(s, i) = Table!Without(s, i)
  BY DEF Adding!Without, Table!Without
<1>12. \A u, i : Adding!Shown(u, i) = Table!Shown(u, i)
  BY <1>11 DEF Adding!Shown, Table!Shown
<1>13. \A u, i : Adding!Lost(u, i) = Table!Lost(u, i)
  BY <1>11 DEF Adding!Lost, Table!Lost
<1> QED BY <1>9, <1>10, <1>12, <1>13, <1>6, <1>7, <1>3, <1>4, <1>5, <1>1, <1>2, <1>11

AddingOwn == {"used", "inUse", "reading", "unsure", "adding", "again", "forsaken"}
AddingFields == TableFields \cup AddingOwn

AddingRows(u) ==
    /\ IsTable(u, Table!Queries)
    /\ u.ticked.ids # {} => u.ticked.of.page = u.page \/ u.ticked.early
    /\ u.loading => u.pending # << >> \/ u.adding # << >> \/ u.forsaken

\* Once the list of what is in use has come, neither what is selected nor what is
\* being added is in use; without another answer, adding keeps the button off.
AddingIds(u) ==
    /\ u.used \subseteq Items /\ u.inUse \subseteq u.used /\ u.adding \in Seq(SUBSET Items)
    /\ \/ u.unsure
       \/ /\ u.reading \/ u.inUse = u.used
          /\ u.ticked.ids \cap u.used = {}
          /\ \A k \in DOMAIN u.adding : u.adding[k] \cap u.used = {}
    /\ u.again \/ (Len(u.adding) <= 1 /\ (u.adding # << >> => u.loading))

AddingInv(u) == DOMAIN u = AddingFields /\ AddingRows(u) /\ AddingIds(u)

\* A request was sent: what is selected was so before, on this page.
LEMMA AddingSent ==
    ASSUME NEW u, AddingInv(u), NEW v,
           Keeps(v, u, {"page", "query", "pending", "loading", "ticked"}),
           IsTable(v, Table!Queries), v.pending # << >>, v.loading,
           v.ticked.ids = {} \/ (v.ticked = u.ticked /\ v.page = u.page)
    PROVE  AddingInv(v)
<1>1. /\ v.used = u.used /\ v.inUse = u.inUse /\ v.reading = u.reading /\ v.unsure = u.unsure
      /\ v.adding = u.adding /\ v.again = u.again /\ v.forsaken = u.forsaken
      /\ DOMAIN v = AddingFields
  BY DEF Keeps, AddingInv, AddingFields, AddingOwn, TableFields
<1>2. AddingRows(v)
  BY <1>1 DEF AddingInv, AddingRows
<1>3. AddingIds(v)
  BY <1>1 DEF AddingInv, AddingIds
<1> QED BY <1>1, <1>2, <1>3 DEF AddingInv

LEMMA AddingMounted ==
    ASSUME NEW used \in SUBSET Items
    PROVE  AddingInv(Adding!Mounted(used))
<1> DEFINE own == [used |-> used, inUse |-> {}, reading |-> TRUE,
                   unsure |-> FALSE, adding |-> << >>, again |-> FALSE, forsaken |-> FALSE]
           w == Table!TableAnd(own)
           v == Table!Send(w)
<1>1. DOMAIN own = AddingOwn /\ own.used = used /\ own.inUse = {} /\ own.reading = TRUE /\ own.adding = << >>
  BY DEF AddingOwn
<1>2. Adding!Mounted(used) = v
  BY AddingTable DEF Adding!Mounted
<1> HIDE DEF own
<1>3. "plain" \in Table!Queries
  BY DEF Table!Queries
<1>4. /\ DOMAIN w = TableFields \cup DOMAIN own /\ HasTable(w, Table!Queries)
      /\ \A f \in DOMAIN own : f \in TableFields \/ w[f] = own[f]
      /\ w.ticked = Table!NoTicks
  BY <1>3, Opens
<1>5. AddingOwn \cap TableFields = {}
  BY DEF TableFields, AddingOwn
<1>6. DOMAIN w = AddingFields /\ \A f \in AddingOwn : w[f] = own[f]
  BY <1>1, <1>4, <1>5 DEF AddingFields
<1> HIDE DEF w
<1>7. w.used = used /\ w.inUse = {} /\ w.reading = TRUE /\ w.adding = << >>
  BY <1>1, <1>6 DEF AddingOwn
<1>8. Sends(v, w, Table!Queries)
  BY <1>4, SendsNow
<1> HIDE DEF v
<1>9. /\ v.used = used /\ v.inUse = {} /\ v.reading = TRUE /\ v.adding = << >>
      /\ v.ticked = Table!NoTicks /\ DOMAIN v = AddingFields
  BY <1>4, <1>6, <1>7, <1>8 DEF Sends, Keeps, AddingFields, AddingOwn, TableFields
<1>10. Table!NoTicks.ids = {}
  BY DEF Table!NoTicks, Table!Ticked
<1>11. AddingRows(v)
  BY <1>8, <1>9, <1>10 DEF Sends, AddingRows
<1>12. v.adding \in Seq(SUBSET Items) /\ Len(v.adding) = 0 /\ DOMAIN v.adding = {}
  BY <1>9
<1>13. AddingIds(v)
  BY <1>9, <1>10, <1>12 DEF AddingIds
<1> QED BY <1>2, <1>9, <1>11, <1>13 DEF AddingInv

LEMMA AddingStep ==
    ASSUME Adding!Here, AddingInv(ui), Adding!AddNext, ui' # [closed |-> TRUE]
    PROVE  AddingInv(ui')
<1> DEFINE Q == Table!Queries
<1>0. /\ DOMAIN ui = AddingFields /\ IsTable(ui, Q) /\ HasTable(ui, Q)
      /\ ui.loading \in BOOLEAN /\ ui.ticked \in Selections(Q)
      /\ ui.query \in Q /\ ui.page \in 1 .. MaxPage /\ ui.pending \in Seq(Requests(Q))
      /\ AddingRows(ui) /\ AddingIds(ui)
  BY Selects DEF AddingInv, AddingRows, IsTable, HasTable
<1>d. /\ AddingOwn \subseteq DOMAIN ui /\ TableFields \subseteq DOMAIN ui
      /\ AddingOwn \cap TableFields = {}
  BY <1>0 DEF AddingFields, AddingOwn, TableFields
<1>a. \A change : Adding!At(change) => ui' = change
  BY DEF Adding!At
<1> HIDE DEF Q
<1>1. ASSUME NEW result, NEW i \in DOMAIN ui.pending, Adding!PageDataAnswered(i, result)
      PROVE  AddingInv(ui')
  <2>1. ASSUME ui' = Adding!PageShown(ui, i) PROVE AddingInv(ui')
    <3> DEFINE w == Table!Shown(ui, i)
               v == [w EXCEPT !.again = ui.again \/ ui.adding # << >>]
    <3>1. Shows(w, ui, Q, i)
      BY <1>0, ShowsAnswer
    <3> HIDE DEF w
    <3>2. w.again = ui.again /\ DOMAIN w = AddingFields
      BY <1>0, <1>d, <3>1 DEF Shows, Keeps, AddingOwn, TableFields
    <3>3. ui' = v
      BY <2>1, <3>2, AddingTable DEF Adding!PageShown, w
    <3>4. Keeps(v, w, {"again"}) /\ (v.again <=> ui.again \/ ui.adding # << >>)
      BY <3>2 DEF Keeps, AddingFields, AddingOwn
    <3> HIDE DEF v
    <3>5. {"again"} \cap TableFields = {}
      BY DEF TableFields
    <3>6. IsTable(v, Q) /\ v.loading = w.loading
      BY <1>d, <3>1, <3>2, <3>4, <3>5, TableUntouched DEF Shows, Keeps, AddingFields, TableFields
    <3>7. /\ Keeps(v, ui, {"pending", "rows", "fresh", "loading", "again"}) /\ v.loading = FALSE
      BY <3>1, <3>4, <3>6 DEF Shows, Keeps
    <3>8. /\ v.used = ui.used /\ v.inUse = ui.inUse /\ v.reading = ui.reading
          /\ v.unsure = ui.unsure /\ v.adding = ui.adding /\ v.forsaken = ui.forsaken
          /\ v.ticked = ui.ticked /\ v.page = ui.page /\ DOMAIN v = AddingFields
      BY <1>0, <1>d, <3>7 DEF Keeps, AddingOwn, TableFields
    <3>9. AddingRows(v)
      BY <1>0, <3>6, <3>7, <3>8 DEF AddingRows, Q
    <3>10. v.adding = << >> \/ v.again
      BY <3>4, <3>8
    <3>11. AddingIds(v)
      BY <1>0, <3>4, <3>8, <3>10 DEF AddingIds
    <3> QED BY <3>3, <3>8, <3>9, <3>11 DEF AddingInv
  <2>2. ASSUME ui' = Adding!PageFailed(ui, i) PROVE AddingInv(ui')
    <3> DEFINE w == Table!Lost(ui, i)
               v == [w EXCEPT !.forsaken = TRUE]
    <3>1. Loses(w, ui, Q)
      BY <1>0, LosesAnswer
    <3>2. ui' = v
      BY <2>2, AddingTable DEF Adding!PageFailed
    <3> HIDE DEF w
    <3>3. DOMAIN w = AddingFields
      BY <1>0, <3>1 DEF Loses, Keeps
    <3>4. Keeps(v, w, {"forsaken"}) /\ v.forsaken = TRUE
      BY <3>3 DEF Keeps, AddingFields, AddingOwn
    <3> HIDE DEF v
    <3>5. {"forsaken"} \cap TableFields = {}
      BY DEF TableFields
    <3>6. IsTable(v, Q)
      BY <3>1, <3>4, <3>5, TableUntouched DEF Loses
    <3>7. Keeps(v, ui, {"pending", "fresh", "forsaken"})
      BY <3>1, <3>4 DEF Loses, Keeps
    <3>8. /\ v.used = ui.used /\ v.inUse = ui.inUse /\ v.reading = ui.reading
          /\ v.unsure = ui.unsure /\ v.adding = ui.adding /\ v.again = ui.again
          /\ v.ticked = ui.ticked /\ v.page = ui.page /\ v.loading = ui.loading
          /\ DOMAIN v = AddingFields
      BY <1>0, <1>d, <3>7 DEF Keeps, AddingOwn, TableFields
    <3>9. AddingRows(v)
      BY <1>0, <3>4, <3>6, <3>8 DEF AddingRows, Q
    <3>10. AddingIds(v)
      BY <1>0, <3>8 DEF AddingIds
    <3> QED BY <3>2, <3>8, <3>9, <3>10 DEF AddingInv
  <2> QED BY <1>1, <1>a, <2>1, <2>2 DEF Adding!PageDataAnswered
<1>2. ASSUME NEW result, Adding!InUseAnswered(result) PROVE AddingInv(ui')
  <2> DEFINE x == [ui EXCEPT !.reading = FALSE, !.inUse = ui.used]
             y == [ui EXCEPT !.reading = FALSE, !.unsure = TRUE]
  <2>1. ui' = x \/ ui' = y
    BY <1>2, <1>a DEF Adding!InUseAnswered
  <2>2. /\ Keeps(x, ui, {"reading", "inUse", "unsure"}) /\ x.inUse = ui.used
        /\ x.unsure = ui.unsure
        /\ Keeps(y, ui, {"reading", "inUse", "unsure"}) /\ y.inUse = ui.inUse
        /\ y.unsure = TRUE
    BY <1>d DEF Keeps, AddingOwn
  <2> HIDE DEF x, y
  <2>3. /\ Keeps(ui', ui, {"reading", "inUse", "unsure"})
        /\ \/ ui'.inUse = ui.used /\ ui'.unsure = ui.unsure
           \/ ui'.inUse = ui.inUse /\ ui'.unsure
    BY <2>1, <2>2
  <2>4. {"reading", "inUse", "unsure"} \cap TableFields = {}
    BY DEF TableFields
  <2>5. IsTable(ui', Q)
    BY <1>0, <2>3, <2>4, TableUntouched
  <2>6. /\ ui'.used = ui.used /\ ui'.adding = ui.adding /\ ui'.again = ui.again
        /\ ui'.ticked = ui.ticked /\ ui'.page = ui.page /\ ui'.loading = ui.loading
        /\ ui'.pending = ui.pending /\ ui'.forsaken = ui.forsaken /\ DOMAIN ui' = AddingFields
    BY <1>0, <1>d, <2>3 DEF Keeps, AddingOwn, TableFields
  <2>7. AddingRows(ui')
    BY <1>0, <2>5, <2>6 DEF AddingRows, Q
  <2>8. AddingIds(ui')
    BY <1>0, <2>3, <2>6 DEF AddingIds
  <2> QED BY <2>6, <2>7, <2>8 DEF AddingInv
<1>3. CASE Adding!ChangePage
  <2> PICK page \in Adding!PagesOf(ui) : ui' = Adding!Paged(ui, page)
    BY <1>3, <1>a DEF Adding!ChangePage
  <2> DEFINE w == [ui EXCEPT !.page = page]
             x == Table!Untick(w)
             v == Table!Send(x)
  <2>1. page \in 1 .. MaxPage
    BY AddingTable
  <2>2. ui' = v
    BY AddingTable DEF Adding!Paged
  <2>3. Keeps(w, ui, {"page"}) /\ w.page = page /\ w.query = ui.query /\ w.ticked = ui.ticked
    BY <1>d DEF Keeps, TableFields
  <2> HIDE DEF w
  <2>4. {"page"} \cap {"pending", "rows", "fresh", "loading"} = {}
    OBVIOUS
  <2>5. HasTable(w, Q)
    BY <1>0, <2>1, <2>3, <2>4, TableMoved
  <2>6. Keeps(x, w, {"ticked"}) /\ x.ticked.ids = {} /\ HasTable(x, Q)
    BY <2>5, Unticks
  <2> HIDE DEF x
  <2>7. Sends(v, x, Q)
    BY <2>6, SendsNow
  <2> HIDE DEF v
  <2>8. Keeps(v, ui, {"page", "query", "pending", "loading", "ticked"})
    BY <2>3, <2>6, <2>7 DEF Sends, Keeps
  <2>9. v.ticked = x.ticked
    BY <1>d, <2>3, <2>6, <2>7 DEF Sends, Keeps, TableFields
  <2>10. v.ticked.ids = {}
    BY <2>6, <2>9
  <2> QED BY <2>2, <2>7, <2>8, <2>10, AddingSent DEF Sends, AddingInv, Q
<1>4. CASE Adding!ChangeQuery
  <2> PICK query \in Q :
        ui' = (LET sent == Table!Queried(ui, query)
               IN  IF ui.page = 1 THEN sent ELSE Table!Untick(sent))
    BY <1>4, <1>a, AddingTable DEF Adding!ChangeQuery, Q
  <2> DEFINE w == Table!Queried(ui, query)
             x == Table!Untick(w)
  <2>1. ui' = IF ui.page = 1 THEN w ELSE x
    OBVIOUS
  <2>2. Turns(w, ui, Q, query)
    BY <1>0, TurnsToFirst
  <2> HIDE DEF w
  <2>3. Keeps(x, w, {"ticked"}) /\ x.ticked.ids = {} /\ x.ticked \in Selections(Q) /\ HasTable(x, Q)
    BY <2>2, Unticks, Selects DEF Turns, IsTable
  <2> HIDE DEF x
  <2>4. /\ Keeps(w, ui, {"page", "query", "pending", "loading", "ticked"})
        /\ Keeps(x, ui, {"page", "query", "pending", "loading", "ticked"})
    BY <2>2, <2>3 DEF Turns, Keeps
  <2>5. /\ w.ticked = ui.ticked /\ w.page = 1 /\ x.pending = w.pending
        /\ x.loading = w.loading
    BY <1>d, <2>2, <2>3, <2>4 DEF Turns, Keeps, TableFields
  <2>6. {"ticked"} \cap {"page", "query", "pending", "rows", "fresh"} = {}
    OBVIOUS
  <2>7. IsTable(x, Q)
    BY <2>2, <2>3, <2>5, <2>6, TableKept DEF Turns
  <2>8. ASSUME ui.page = 1 PROVE AddingInv(w)
    BY <2>2, <2>4, <2>5, <2>8, AddingSent DEF Turns, Q
  <2>9. AddingInv(x)
    BY <2>2, <2>3, <2>4, <2>5, <2>7, AddingSent DEF Turns, Q
  <2> QED BY <2>1, <2>8, <2>9
<1>5. CASE Adding!SelectRows
  <2> PICK ids \in SUBSET (Items \ ui.inUse) :
        ui' = [Table!Tick(ui, ids) EXCEPT !.unsure = @ \/ ui.reading,
                               !.ticked.early = @ \/ ui.rows # Table!ParamsOf(ui)]
    BY <1>5, <1>a, AddingTable DEF Adding!SelectRows, Adding!Selectable
  <2> DEFINE w == Table!Tick(ui, ids)
             early == w.ticked.early \/ ui.rows # Table!ParamsOf(ui)
             new == [w.ticked EXCEPT !.early = early]
             v == [w EXCEPT !.unsure = ui.unsure \/ ui.reading, !.ticked = new]
  <2>1. /\ Keeps(w, ui, {"ticked"}) /\ w.ticked.ids = ids /\ w.ticked.of = ui.rows
        /\ (w.ticked.early <=> ui.pending # << >>) /\ IsTable(w, Q)
    BY <1>0, Ticks
  <2> HIDE DEF w
  <2>2. w.unsure = ui.unsure /\ DOMAIN w = AddingFields
    BY <1>0, <1>d, <2>1 DEF Keeps, AddingOwn
  <2>3. ui' = v
    BY <2>2 DEF w
  <2>4. w.ticked \in Selections(Q) /\ early \in BOOLEAN
    BY <2>1, Selects DEF IsTable
  <2>t. ui.rows # Table!ParamsOf(ui) => early
    OBVIOUS
  <2> HIDE DEF early
  <2>5. new \in Selections(Q) /\ new.ids = ids /\ new.of = ui.rows /\ new.early = early
    BY <2>1, <2>4 DEF Selections
  <2> HIDE DEF new
  <2>6. /\ Keeps(v, w, {"unsure", "ticked"}) /\ v.ticked = new
        /\ (v.unsure <=> ui.unsure \/ ui.reading)
    BY <2>2 DEF Keeps, AddingFields, AddingOwn, TableFields
  <2> HIDE DEF v
  <2>7. /\ v.used = ui.used /\ v.inUse = ui.inUse /\ v.reading = ui.reading
        /\ v.adding = ui.adding /\ v.again = ui.again /\ v.forsaken = ui.forsaken
        /\ v.page = ui.page /\ v.loading = ui.loading /\ w.loading = ui.loading
        /\ v.pending = ui.pending /\ DOMAIN v = AddingFields
    BY <1>0, <1>d, <2>1, <2>2, <2>6 DEF Keeps, AddingFields, AddingOwn, TableFields
  <2>8. {"unsure", "ticked"} \cap {"page", "query", "pending", "rows", "fresh"} = {}
    OBVIOUS
  <2>9. IsTable(v, Q)
    BY <1>0, <2>1, <2>5, <2>6, <2>7, <2>8, TableKept
  <2>10. Table!ParamsOf(ui).page = ui.page
    BY DEF Table!ParamsOf
  <2>11. AddingRows(v)
    BY <1>0, <2>5, <2>6, <2>7, <2>9, <2>10, <2>t DEF AddingRows, Q
  <2>12. ids \cap ui.inUse = {}
    OBVIOUS
  <2>13. AddingIds(v)
    BY <1>0, <2>5, <2>6, <2>7, <2>12 DEF AddingIds
  <2> QED BY <2>3, <2>7, <2>11, <2>13 DEF AddingInv
<1>6. CASE Adding!ClkAdd
  <2> DEFINE ids == ui.ticked.ids
             more == Append(ui.adding, ids)
             v == [ui EXCEPT !.adding = more, !.loading = TRUE]
  <2>1. ui' = v /\ ~ui.loading
    BY <1>6, <1>a DEF Adding!ClkAdd
  <2>2. ui.adding \in Seq(SUBSET Items) /\ ids \in SUBSET Items
    BY <1>0 DEF AddingIds, Selections
  <2> HIDE DEF ids
  <2>3. /\ more \in Seq(SUBSET Items) /\ more # << >> /\ Len(more) = Len(ui.adding) + 1
        /\ \A k \in DOMAIN more : more[k] = ids \/ \E j \in DOMAIN ui.adding : more[k] = ui.adding[j]
    <3>1. /\ more \in Seq(SUBSET Items) /\ Len(more) = Len(ui.adding) + 1
          /\ more[Len(ui.adding) + 1] = ids
          /\ \A k \in 1 .. Len(ui.adding) : more[k] = ui.adding[k]
      BY <2>2
    <3> HIDE DEF more
    <3>2. \A k \in DOMAIN more : k = Len(ui.adding) + 1 \/ k \in 1 .. Len(ui.adding)
      BY <2>2, <3>1
    <3>3. more # << >>
      BY <2>2, <3>1
    <3> QED BY <2>2, <3>1, <3>2, <3>3
  <2> HIDE DEF more
  <2>4. Keeps(v, ui, {"adding", "loading"}) /\ v.adding = more /\ v.loading = TRUE
    BY <1>d DEF Keeps, AddingOwn, TableFields
  <2> HIDE DEF v
  <2>5. /\ v.used = ui.used /\ v.inUse = ui.inUse /\ v.reading = ui.reading
        /\ v.unsure = ui.unsure /\ v.again = ui.again /\ v.forsaken = ui.forsaken
        /\ v.page = ui.page /\ v.ticked = ui.ticked
        /\ v.pending = ui.pending /\ DOMAIN v = AddingFields
    BY <1>0, <1>d, <2>4 DEF Keeps, AddingOwn, TableFields
  <2>6. {"adding", "loading"} \cap {"page", "query", "pending", "rows", "fresh"} = {}
    OBVIOUS
  <2>7. IsTable(v, Q)
    BY <1>0, <2>4, <2>5, <2>6, TableKept
  <2>8. AddingRows(v)
    BY <1>0, <2>3, <2>4, <2>5, <2>7 DEF AddingRows, Q
  <2>9. v.again \/ Len(v.adding) <= 1
    <3>1. ASSUME ~ui.again PROVE ui.adding = << >>
      BY <1>0, <2>1, <3>1 DEF AddingIds
    <3>2. ASSUME ui.adding = << >> PROVE Len(v.adding) <= 1
      <4>1. Len(ui.adding) = 0
        BY <3>2
      <4>2. Len(more) = 1
        BY <2>3, <4>1
      <4> QED BY <2>4, <4>2
    <3> QED BY <2>5, <3>1, <3>2
  <2>10. v.unsure \/ \A k \in DOMAIN v.adding : v.adding[k] \cap v.used = {}
    BY <1>0, <2>3, <2>4, <2>5 DEF AddingIds, ids
  <2>11. AddingIds(v)
    BY <1>0, <2>3, <2>4, <2>5, <2>9, <2>10 DEF AddingIds
  <2> QED BY <2>1, <2>5, <2>8, <2>11 DEF AddingInv
<1>7. CASE Adding!AddAnswered
  <2> PICK k \in DOMAIN ui.adding, performed \in BOOLEAN :
        ui' = [ui EXCEPT !.adding = Table!Without(ui.adding, k), !.loading = FALSE,
                         !.used = IF performed THEN ui.used \cup ui.adding[k] ELSE ui.used,
                         !.unsure = ui.unsure \/ performed]
    <3>1. \A wire : Adding!PerformedBy(wire) \subseteq BOOLEAN
      BY DEF Adding!PerformedBy
    <3> QED BY <1>7, <1>a, <3>1, AddingTable DEF Adding!AddAnswered
  <2> DEFINE t == Table!Without(ui.adding, k)
             ids == IF performed THEN ui.used \cup ui.adding[k] ELSE ui.used
             v == [ui EXCEPT !.adding = t, !.loading = FALSE, !.used = ids,
                             !.unsure = ui.unsure \/ performed]
  <2>1. ui' = v
    OBVIOUS
  <2>2. ui.adding \in Seq(SUBSET Items)
    BY <1>0 DEF AddingIds
  <2>3. /\ t \in Seq(SUBSET Items) /\ Len(t) = Len(ui.adding) - 1
        /\ \A n \in DOMAIN t : \E j \in DOMAIN ui.adding : t[n] = ui.adding[j]
    BY <2>2, Removed
  <2>4. ids \subseteq Items /\ ui.used \subseteq ids /\ (~performed => ids = ui.used)
    BY <1>0, <2>2 DEF AddingIds
  <2> HIDE DEF t, ids
  <2>5. /\ Keeps(v, ui, {"adding", "loading", "used", "unsure"}) /\ v.adding = t
        /\ v.loading = FALSE /\ v.used = ids /\ (v.unsure <=> ui.unsure \/ performed)
    BY <1>d DEF Keeps, AddingOwn, TableFields
  <2> HIDE DEF v
  <2>6. /\ v.inUse = ui.inUse /\ v.reading = ui.reading /\ v.again = ui.again
        /\ v.page = ui.page /\ v.ticked = ui.ticked /\ DOMAIN v = AddingFields
    BY <1>0, <1>d, <2>5 DEF Keeps, AddingOwn, TableFields
  <2>7. {"adding", "loading", "used", "unsure"} \cap {"page", "query", "pending", "rows", "fresh"} = {}
    OBVIOUS
  <2>8. IsTable(v, Q)
    BY <1>0, <2>5, <2>6, <2>7, TableKept
  <2>9. AddingRows(v)
    BY <1>0, <2>5, <2>6, <2>8 DEF AddingRows, Q
  <2>10. v.again \/ (Len(v.adding) <= 1 /\ v.adding = << >>)
    <3>1. ASSUME ~ui.again PROVE Len(ui.adding) <= 1
      BY <1>0, <3>1 DEF AddingIds
    <3>2. ASSUME Len(ui.adding) <= 1 PROVE Len(t) <= 1 /\ t = << >>
      BY <2>2, <2>3, <3>2
    <3> QED BY <2>5, <2>6, <3>1, <3>2
  <2>11. \/ v.unsure
         \/ /\ v.reading \/ v.inUse = v.used
            /\ v.ticked.ids \cap v.used = {}
            /\ \A n \in DOMAIN v.adding : v.adding[n] \cap v.used = {}
    BY <1>0, <2>3, <2>4, <2>5, <2>6 DEF AddingIds
  <2>12. AddingIds(v)
    BY <1>0, <2>3, <2>4, <2>5, <2>6, <2>10, <2>11 DEF AddingIds
  <2> QED BY <2>1, <2>6, <2>9, <2>12 DEF AddingInv
<1> QED BY <1>1, <1>2, <1>3, <1>4, <1>5, <1>6, <1>7 DEF Adding!AddNext

LEMMA AddingHolds ==
    ASSUME Adding!Here => AddingInv(ui)
    PROVE  /\ Adding!TypeOK /\ Adding!AddsFromThisPage
           /\ Adding!AddsWhatIsNew /\ Adding!WaitsForSomething
<1>1. SUFFICES ASSUME Adding!Here, AddingInv(ui)
               PROVE  /\ Adding!TypeOK /\ Adding!AddsFromThisPage
                      /\ Adding!AddsWhatIsNew /\ Adding!WaitsForSomething
  BY DEF Adding!TypeOK, Adding!AddsFromThisPage, Adding!AddsWhatIsNew,
         Adding!WaitsForSomething
<1>2. Table!TableTypeOver(ui, PageParams(Table!Queries))
  BY <1>1, TableHolds DEF AddingInv, AddingRows
<1>3. Adding!Params = PageParams(Table!Queries)
  BY AddingTable DEF Adding!Params, PageParams
<1>4. Adding!TableType(ui)
  BY <1>2, <1>3, AddingTable
  DEF Adding!TableType, Adding!TableTypeOver, Table!TableTypeOver, Adding!ParamsOf,
      Table!ParamsOf
<1>5. Adding!TypeOK
  BY <1>1, <1>4 DEF Adding!TypeOK, AddingInv, AddingIds
<1>6. Adding!AddsFromThisPage /\ Adding!AddsWhatIsNew /\ Adding!WaitsForSomething
  BY <1>1 DEF Adding!AddsFromThisPage, Adding!AddsWhatIsNew, Adding!WaitsForSomething,
              AddingInv, AddingRows, AddingIds
<1> QED BY <1>5, <1>6

-----------------------------------------------------------------------------
(***************************************************************************)
(* The accounts of a provider (AccountList).                               *)
(***************************************************************************)
LEMMA AccountsTable ==
    /\ \A u, p : Accounts!SendWith(u, p) = Table!SendWith(u, p)
    /\ \A u : Accounts!Send(u) = Table!Send(u)
    /\ \A u, i : Accounts!Shown(u, i) = Table!Shown(u, i)
    /\ \A u, i : Accounts!Lost(u, i) = Table!Lost(u, i)
    /\ \A u, ids : Accounts!Tick(u, ids) = Table!Tick(u, ids)
    /\ \A u : Accounts!Untick(u) = Table!Untick(u)
    /\ \A u : Accounts!ParamsOf(u) = Table!ParamsOf(u)
    /\ \A u : Accounts!PagesOf(u) \subseteq 1 .. MaxPage
    /\ \A own : Accounts!TableAnd(own) = Table!TableAnd(own)
    /\ Accounts!NoRows = Table!NoRows
    /\ Accounts!Queries = Table!Queries
<1>1. Accounts!NoRows = Table!NoRows
  BY DEF Accounts!NoRows, Table!NoRows
<1>2. Accounts!Queries = Table!Queries
  BY DEF Accounts!Queries, Table!Queries
<1>3. \A u : Accounts!ParamsOf(u) = Table!ParamsOf(u)
  BY DEF Accounts!ParamsOf, Table!ParamsOf
<1>4. \A u : Accounts!PagesOf(u) \subseteq 1 .. MaxPage
  BY SomePages DEF Accounts!PagesOf
<1>5. \A own : Accounts!TableAnd(own) = Table!TableAnd(own)
  BY DEF Accounts!TableAnd, Table!TableAnd, Accounts!NewTable, Table!NewTable,
     Accounts!NoTicks, Table!NoTicks, Accounts!Ticked, Table!Ticked, Accounts!NoRows,
     Table!NoRows
<1>6. \A u, ids : Accounts!Tick(u, ids) = Table!Tick(u, ids)
  BY DEF Accounts!Tick, Table!Tick, Accounts!Ticked, Table!Ticked
<1>7. \A u : Accounts!Untick(u) = Table!Untick(u)
  BY DEF Accounts!Untick, Table!Untick, Accounts!NoTicks, Table!NoTicks, Accounts!Ticked,
     Table!Ticked, Accounts!NoRows, Table!NoRows
<1>8. \A u, p : Accounts!SendWith(u, p) = Table!SendWith(u, p)
  BY DEF Accounts!SendWith, Table!SendWith, Accounts!ParamsOf, Table!ParamsOf
<1>9. \A u : Accounts!Send(u) = Table!Send(u)
  BY <1>8 DEF Accounts!Send, Table!Send, Accounts!ParamsOf, Table!ParamsOf
<1>10. \A s, i : Accounts!Without(s, i) = Table!Without(s, i)
  BY DEF Accounts!Without, Table!Without
<1>11. \A u, i : Accounts!Shown(u, i) = Table!Shown(u, i)
  BY <1>10 DEF Accounts!Shown, Table!Shown
<1>12. \A u, i : Accounts!Lost(u, i) = Table!Lost(u, i)
  BY <1>10 DEF Accounts!Lost, Table!Lost
<1> QED BY <1>8, <1>9, <1>11, <1>12, <1>6, <1>7, <1>3, <1>4, <1>5, <1>1, <1>2

AccountsActing ==
    {"loads", "accountsLoaded", "refreshing", "deleting", "acting", "forsaken"}
AccountsOwn == AccountsActing \cup {"overwritten", "outdated"}
AccountsFields == TableFields \cup AccountsOwn
Loads == [params : PageParams(Table!Queries), stage : Accounts!Stages]

AccountsTicks(u) == u.ticked.ids # {} => u.overwritten \/ u.ticked.of = u.rows

AccountsRows(u) ==
    /\ IsTable(u, Table!Queries) /\ AccountsTicks(u)
    /\ u.outdated \/ u.overwritten \/ IsCurrent(u)
    /\ u.loading => u.pending # << >>

\* A flag is set only together with a call, and the call ends it or is forsaken.
AccountsActs(u) ==
    /\ u.loads \subseteq Loads /\ u.acting \subseteq Loads
    /\ ~u.accountsLoaded => u.loads # {} \/ "loads" \in u.forsaken
    /\ u.refreshing => "refreshing" \in u.forsaken \/ \E act \in u.acting : act.stage = "refreshing"
    /\ u.deleting => "deleting" \in u.forsaken \/ \E act \in u.acting : act.stage = "deleting"

AccountsInv(u) == DOMAIN u = AccountsFields /\ AccountsRows(u) /\ AccountsActs(u)

LEMMA AccountsActsKept ==
    ASSUME NEW u, DOMAIN u = AccountsFields, AccountsActs(u), NEW v, NEW changed,
           Keeps(v, u, changed), changed \cap AccountsActing = {}
    PROVE  AccountsActs(v)
<1>1. /\ v.loads = u.loads /\ v.accountsLoaded = u.accountsLoaded
      /\ v.refreshing = u.refreshing /\ v.deleting = u.deleting
      /\ v.acting = u.acting /\ v.forsaken = u.forsaken
  BY DEF Keeps, AccountsFields, AccountsOwn, AccountsActing
<1> QED BY <1>1 DEF AccountsActs

LEMMA AccountsRowsKept ==
    ASSUME NEW u, DOMAIN u = AccountsFields, AccountsRows(u), NEW v, NEW changed,
           Keeps(v, u, changed), changed \subseteq AccountsActing
    PROVE  AccountsRows(v)
<1>1. changed \cap TableFields = {} /\ "overwritten" \notin changed /\ "outdated" \notin changed
  BY DEF AccountsActing, TableFields
<1>2. IsTable(v, Table!Queries) /\ (IsCurrent(u) => IsCurrent(v))
  BY <1>1, TableUntouched DEF AccountsRows
<1>3. /\ v.ticked = u.ticked /\ v.rows = u.rows /\ v.pending = u.pending
      /\ v.loading = u.loading /\ v.overwritten = u.overwritten /\ v.outdated = u.outdated
  BY <1>1 DEF Keeps, AccountsFields, AccountsOwn, TableFields
<1> QED BY <1>2, <1>3 DEF AccountsRows, AccountsTicks

\* The table as it is selected is asked for.
LEMMA AccountsAsk ==
    ASSUME NEW w, DOMAIN w = AccountsFields, HasTable(w, Table!Queries), AccountsTicks(w)
    PROVE  /\ Keeps(Accounts!GetPageData(w), w, {"outdated", "pending", "loading"})
           /\ AccountsRows(Accounts!GetPageData(w))
<1> DEFINE x == [w EXCEPT !.outdated = FALSE]
           v == Table!Send(x)
<1>1. Keeps(x, w, {"outdated"}) /\ HasTable(x, Table!Queries)
  BY DEF Keeps, HasTable, TableFields
<1>2. Accounts!GetPageData(w) = v
  BY AccountsTable DEF Accounts!GetPageData
<1> HIDE DEF x
<1>3. Sends(v, x, Table!Queries) /\ IsCurrent(v)
  BY <1>1, SendsNow
<1> HIDE DEF v
<1>4. Keeps(v, w, {"outdated", "pending", "loading"})
  BY <1>1, <1>3 DEF Sends, Keeps
<1>5. v.ticked = w.ticked /\ v.rows = w.rows /\ v.overwritten = w.overwritten
  BY <1>4 DEF Keeps, AccountsFields, AccountsOwn, TableFields
<1>6. AccountsRows(v)
  BY <1>3, <1>5 DEF Sends, AccountsRows, AccountsTicks
<1> QED BY <1>2, <1>4, <1>6

\* Every account is read and refreshed.
LEMMA AccountsLoad ==
    ASSUME NEW u, DOMAIN u = AccountsFields, HasTable(u, Table!Queries), AccountsRows(u),
           AccountsActs(u)
    PROVE  AccountsInv(Accounts!DynamicLoadAccounts(u))
<1> DEFINE load == Accounts!Load(Table!ParamsOf(u), "read")
           v == [u EXCEPT !.accountsLoaded = FALSE, !.loads = u.loads \cup {load}]
<1>1. Accounts!DynamicLoadAccounts(u) = v
  BY AccountsTable DEF Accounts!DynamicLoadAccounts
<1>2. load \in Loads
  BY ParamsTyped DEF Loads, Accounts!Load, Accounts!Stages
<1> HIDE DEF load
<1>3. Keeps(v, u, {"accountsLoaded", "loads"}) /\ v.loads = u.loads \cup {load}
  BY DEF Keeps, AccountsFields, AccountsOwn, AccountsActing
<1> HIDE DEF v
<1>4. AccountsRows(v)
  BY <1>3, AccountsRowsKept DEF AccountsActing
<1>5. /\ v.acting = u.acting /\ v.refreshing = u.refreshing
      /\ v.deleting = u.deleting /\ v.forsaken = u.forsaken
  BY <1>3 DEF Keeps, AccountsFields, AccountsOwn, AccountsActing
<1>6. AccountsActs(v)
  BY <1>2, <1>3, <1>5 DEF AccountsActs
<1> QED BY <1>1, <1>3, <1>4, <1>6 DEF Keeps, AccountsInv

LEMMA AccountsMounted == AccountsInv(Accounts!Mounted)
<1> DEFINE own == [loads |-> {}, accountsLoaded |-> FALSE, refreshing |-> FALSE,
                   deleting |-> FALSE, acting |-> {}, forsaken |-> {},
                   overwritten |-> FALSE, outdated |-> FALSE]
           w == Table!TableAnd(own)
           v == Table!Send(w)
           load == Accounts!Load(Table!ParamsOf(v), "read")
           x == [v EXCEPT !.accountsLoaded = FALSE, !.loads = @ \cup {load}]
<1>1. /\ DOMAIN own = AccountsOwn /\ own.loads = {} /\ own.acting = {}
      /\ own.refreshing = FALSE /\ own.deleting = FALSE
  BY DEF AccountsOwn, AccountsActing
<1>2. Accounts!Mounted = x
  BY AccountsTable DEF Accounts!Mounted, Accounts!DynamicLoadAccounts
<1> HIDE DEF own
<1>3. "plain" \in Table!Queries
  BY DEF Table!Queries
<1>4. /\ DOMAIN w = TableFields \cup DOMAIN own /\ HasTable(w, Table!Queries)
      /\ \A f \in DOMAIN own : f \in TableFields \/ w[f] = own[f]
      /\ w.ticked = Table!NoTicks
  BY <1>3, Opens
<1>5. AccountsOwn \cap TableFields = {}
  BY DEF TableFields, AccountsOwn, AccountsActing
<1>6. DOMAIN w = AccountsFields /\ \A f \in AccountsOwn : w[f] = own[f]
  BY <1>1, <1>4, <1>5 DEF AccountsFields
<1> HIDE DEF w
<1>7. Sends(v, w, Table!Queries) /\ IsCurrent(v)
  BY <1>4, SendsNow
<1> HIDE DEF v
<1>8. /\ v.loads = {} /\ v.acting = {} /\ v.refreshing = FALSE /\ v.deleting = FALSE
      /\ v.ticked = Table!NoTicks /\ DOMAIN v = AccountsFields
  BY <1>1, <1>4, <1>5, <1>6, <1>7 DEF Sends, Keeps, AccountsFields, AccountsOwn, AccountsActing,
     TableFields
<1>9. load \in Loads
  BY <1>7, ParamsTyped DEF Sends, IsTable, Loads, Accounts!Load, Accounts!Stages
<1> HIDE DEF load
<1>10. Keeps(x, v, {"accountsLoaded", "loads"}) /\ x.loads = {load}
  BY <1>8 DEF Keeps, AccountsFields, AccountsOwn, AccountsActing
<1> HIDE DEF x
<1>11. AccountsRows(v)
  BY <1>7, <1>8 DEF Sends, AccountsRows, AccountsTicks, Table!NoTicks, Table!Ticked
<1>12. AccountsRows(x)
  BY <1>8, <1>10, <1>11, AccountsRowsKept DEF AccountsActing
<1>13. /\ x.acting = {} /\ x.refreshing = FALSE /\ x.deleting = FALSE
  BY <1>8, <1>10 DEF Keeps, AccountsFields, AccountsOwn, AccountsActing
<1>14. AccountsActs(x)
  BY <1>9, <1>10, <1>13 DEF AccountsActs
<1> QED BY <1>2, <1>8, <1>10, <1>12, <1>14 DEF Keeps, AccountsInv

LEMMA AccountsStep ==
    ASSUME Accounts!Here, AccountsInv(ui), Accounts!AccountsNext
    PROVE  AccountsInv(ui')
<1> DEFINE Q == Table!Queries
<1>0. /\ DOMAIN ui = AccountsFields /\ IsTable(ui, Q) /\ HasTable(ui, Q)
      /\ ui.loading \in BOOLEAN /\ ui.ticked \in Selections(Q)
      /\ ui.query \in Q /\ ui.page \in 1 .. MaxPage
      /\ AccountsRows(ui) /\ AccountsActs(ui) /\ AccountsTicks(ui)
  BY Selects DEF AccountsInv, AccountsRows, IsTable, HasTable
<1>d. /\ AccountsOwn \subseteq DOMAIN ui /\ TableFields \subseteq DOMAIN ui
      /\ AccountsOwn \cap TableFields = {} /\ AccountsActing \subseteq AccountsOwn
  BY <1>0 DEF AccountsFields, AccountsOwn, AccountsActing, TableFields
<1>a. \A change : Accounts!At(change) => ui' = change
  BY DEF Accounts!At
<1> HIDE DEF Q
\* Another page or filter is asked for.
<1>s. ASSUME NEW w, NEW changed, Keeps(w, ui, changed), changed \subseteq {"page", "query"},
             w.page \in 1 .. MaxPage, w.query \in Q, ui' = Accounts!GetPageData(w)
      PROVE  AccountsInv(ui')
  <2> DEFINE v == Accounts!GetPageData(w)
  <2>1. changed \cap {"pending", "rows", "fresh", "loading"} = {}
    BY <1>s
  <2>2. w.ticked = ui.ticked /\ w.rows = ui.rows /\ w.overwritten = ui.overwritten
    BY <1>d, <1>s DEF Keeps, AccountsOwn, TableFields
  <2>3. HasTable(w, Q) /\ DOMAIN w = AccountsFields /\ AccountsTicks(w)
    BY <1>0, <1>s, <2>1, <2>2, TableMoved DEF Keeps, AccountsTicks
  <2>4. Keeps(v, w, {"outdated", "pending", "loading"}) /\ AccountsRows(v)
    BY <2>3, AccountsAsk DEF Q
  <2> HIDE DEF v
  <2>5. Keeps(v, ui, {"page", "query", "outdated", "pending", "loading"})
    BY <1>s, <2>4 DEF Keeps
  <2>6. AccountsActs(v)
    BY <1>0, <2>5, AccountsActsKept DEF AccountsActing
  <2> QED BY <1>0, <1>s, <2>4, <2>5, <2>6 DEF Keeps, AccountsInv, v
\* Calls other than those of the table.
<1>p. ASSUME NEW v, NEW changed, Keeps(v, ui, changed), changed \subseteq AccountsActing,
             AccountsActs(v), ui' = v
      PROVE  AccountsInv(ui')
  BY <1>0, <1>p, AccountsRowsKept DEF Keeps, AccountsInv
<1>1. ASSUME NEW result, NEW i \in DOMAIN ui.pending, Accounts!PageDataAnswered(i, result)
      PROVE  AccountsInv(ui')
  <2>1. ASSUME ui' = Accounts!PageShown(ui, i) PROVE AccountsInv(ui')
    <3> DEFINE x == [ui EXCEPT !.overwritten = FALSE]
               w == Table!Shown(x, i)
               v == Table!Untick(w)
    <3>1. ui' = v
      BY <2>1, AccountsTable DEF Accounts!PageShown
    <3>2. Keeps(x, ui, {"overwritten"}) /\ x.pending = ui.pending
      BY <1>d DEF Keeps, TableFields
    <3> HIDE DEF x
    <3>3. {"overwritten"} \cap TableFields = {}
      BY DEF TableFields
    <3>4. IsTable(x, Q)
      BY <1>0, <3>2, <3>3, TableUntouched
    <3>5. Shows(w, x, Q, i)
      BY <3>2, <3>4, ShowsAnswer
    <3> HIDE DEF w
    <3>6. Keeps(v, w, {"ticked"}) /\ v.ticked.ids = {} /\ v.ticked = Table!NoTicks
      BY <3>5, Unticks DEF Shows, IsTable
    <3> HIDE DEF v
    <3>7. Keeps(v, ui, {"overwritten", "pending", "rows", "fresh", "loading", "ticked"})
      BY <3>2, <3>5, <3>6 DEF Shows, Keeps
    <3>8. v.loading = FALSE
      BY <1>d, <3>2, <3>5, <3>6 DEF Shows, Keeps, TableFields
    <3>9. IsTable(v, Q) /\ IsCurrent(v)
      <4>1. {"ticked"} \cap {"page", "query", "pending", "rows", "fresh"} = {}
        OBVIOUS
      <4>2. v.ticked \in Selections(Q) /\ v.loading \in BOOLEAN
        BY <3>5, <3>6, <3>8, Selects DEF Shows, IsTable
      <4> QED BY <3>5, <3>6, <4>1, <4>2, TableKept DEF Shows
    <3>10. AccountsRows(v)
      BY <3>6, <3>8, <3>9 DEF AccountsRows, AccountsTicks, Q
    <3>11. AccountsActs(v)
      BY <1>0, <3>7, AccountsActsKept DEF AccountsActing
    <3> QED BY <1>0, <3>1, <3>7, <3>10, <3>11 DEF Keeps, AccountsInv
  <2>2. ASSUME ui' = Accounts!PageFailed(ui, i) PROVE AccountsInv(ui')
    <3> DEFINE w == Table!Lost(ui, i)
               v == [w EXCEPT !.loading = FALSE]
    <3>1. ui' = v
      BY <2>2, AccountsTable DEF Accounts!PageFailed
    <3>2. Loses(w, ui, Q)
      BY <1>0, LosesAnswer
    <3>3. /\ Keeps(v, w, {"loading"}) /\ v.loading = FALSE /\ v.loading \in BOOLEAN
          /\ {"loading"} \cap (TableFields \ {"loading"}) = {}
      BY <1>0, <3>2 DEF Loses, Keeps, AccountsFields, TableFields
    <3> HIDE DEF v
    <3>4. LosesWith(v, ui, Q, {"loading"})
      BY <1>0, <3>3, LosesAnd
    <3>5. Keeps(v, ui, {"pending", "fresh", "loading"})
      BY <3>4 DEF LosesWith, Keeps
    <3>6. /\ v.ticked = ui.ticked /\ v.rows = ui.rows /\ v.overwritten = ui.overwritten
          /\ v.outdated = ui.outdated
      BY <1>d, <3>5 DEF Keeps, AccountsOwn, TableFields
    <3>7. AccountsRows(v)
      BY <1>0, <3>3, <3>4, <3>6 DEF LosesWith, AccountsRows, AccountsTicks, Q
    <3>8. AccountsActs(v)
      BY <1>0, <3>5, AccountsActsKept DEF AccountsActing
    <3> QED BY <1>0, <3>1, <3>5, <3>7, <3>8 DEF Keeps, AccountsInv
  <2> QED BY <1>1, <1>a, <2>1, <2>2 DEF Accounts!PageDataAnswered
<1>2. CASE Accounts!ChangePage
  <2> PICK page \in Accounts!PagesOf(ui) : ui' = Accounts!GetPageData([ui EXCEPT !.page = page])
    BY <1>2, <1>a DEF Accounts!ChangePage
  <2> DEFINE w == [ui EXCEPT !.page = page]
  <2>1. /\ Keeps(w, ui, {"page"}) /\ w.page \in 1 .. MaxPage /\ w.query \in Q
        /\ ui' = Accounts!GetPageData(w)
    BY <1>0, <1>d, AccountsTable DEF Keeps, TableFields
  <2> HIDE DEF w
  <2> QED BY <1>s, <2>1
<1>3. CASE Accounts!ChangeQuery
  <2> PICK query \in Q : ui' = Accounts!GetPageData([ui EXCEPT !.query = query, !.page = 1])
    BY <1>3, <1>a, AccountsTable DEF Accounts!ChangeQuery, Q
  <2> DEFINE w == [ui EXCEPT !.query = query, !.page = 1]
  <2>0. 1 \in 1 .. MaxPage
    BY SomePages
  <2>1. Keeps(w, ui, {"page", "query"}) /\ w.page = 1 /\ w.query = query
    BY <1>d DEF Keeps, TableFields
  <2>2. ui' = Accounts!GetPageData(w)
    OBVIOUS
  <2> HIDE DEF w
  <2> QED BY <1>s, <2>0, <2>1, <2>2
<1>4. CASE Accounts!SelectRows
  <2> PICK ids \in SUBSET Items : ui' = Table!Tick(ui, ids)
    BY <1>4, <1>a, AccountsTable DEF Accounts!SelectRows
  <2> DEFINE v == Table!Tick(ui, ids)
  <2>1. /\ Keeps(v, ui, {"ticked"}) /\ v.ticked.of = ui.rows
        /\ IsTable(v, Q) /\ (IsCurrent(ui) => IsCurrent(v))
    BY <1>0, Ticks
  <2> HIDE DEF v
  <2>2. /\ v.rows = ui.rows /\ v.overwritten = ui.overwritten /\ v.outdated = ui.outdated
        /\ v.loading = ui.loading /\ v.pending = ui.pending
    BY <1>d, <2>1 DEF Keeps, AccountsOwn, TableFields
  <2>3. AccountsRows(v)
    BY <1>0, <2>1, <2>2 DEF AccountsRows, AccountsTicks, Q
  <2>4. AccountsActs(v)
    BY <1>0, <2>1, AccountsActsKept DEF AccountsActing
  <2> QED BY <1>0, <2>1, <2>3, <2>4 DEF Keeps, AccountsInv, v
<1>5. CASE Accounts!Refresh
  <2> DEFINE w == Accounts!GetPageData(ui)
  <2>1. ui' = Accounts!DynamicLoadAccounts(w)
    BY <1>5, <1>a DEF Accounts!Refresh
  <2>2. Keeps(w, ui, {"outdated", "pending", "loading"}) /\ AccountsRows(w)
    BY <1>0, AccountsAsk DEF Q
  <2> HIDE DEF w
  <2>3. AccountsActs(w)
    BY <1>0, <2>2, AccountsActsKept DEF AccountsActing
  <2>4. DOMAIN w = AccountsFields /\ HasTable(w, Table!Queries)
    BY <1>0, <2>2 DEF Keeps, AccountsRows, IsTable
  <2> QED BY <2>1, <2>2, <2>3, <2>4, AccountsLoad
<1>6. ASSUME NEW result, Accounts!AccountsRead(result) PROVE AccountsInv(ui')
  <2> PICK load \in ui.loads :
        \/ ui' = [ui EXCEPT !.loads = (ui.loads \ {load}) \cup {Accounts!Load(load.params, "refresh")},
                            !.forsaken = ui.forsaken]
        \/ ui' = [ui EXCEPT !.loads = (ui.loads \ {load}) \cup {}, !.forsaken = ui.forsaken \cup {"loads"}]
    BY <1>6, <1>a DEF Accounts!AccountsRead
  <2> DEFINE next == Accounts!Load(load.params, "refresh")
             x == [ui EXCEPT !.loads = (ui.loads \ {load}) \cup {next}, !.forsaken = ui.forsaken]
             y == [ui EXCEPT !.loads = (ui.loads \ {load}) \cup {},
                             !.forsaken = ui.forsaken \cup {"loads"}]
  <2>1. ui' = x \/ ui' = y
    OBVIOUS
  <2>2. next \in Loads
    BY <1>0 DEF AccountsActs, Loads, Accounts!Load, Accounts!Stages
  <2> HIDE DEF next
  <2>3. /\ Keeps(x, ui, {"loads", "forsaken"}) /\ x.loads = (ui.loads \ {load}) \cup {next}
        /\ x.forsaken = ui.forsaken
        /\ Keeps(y, ui, {"loads", "forsaken"}) /\ y.loads = ui.loads \ {load}
        /\ y.forsaken = ui.forsaken \cup {"loads"}
    BY <1>d DEF Keeps, AccountsOwn, AccountsActing
  <2> HIDE DEF x, y
  <2>4. /\ x.acting = ui.acting /\ x.refreshing = ui.refreshing /\ x.deleting = ui.deleting
        /\ x.accountsLoaded = ui.accountsLoaded
        /\ y.acting = ui.acting /\ y.refreshing = ui.refreshing /\ y.deleting = ui.deleting
        /\ y.accountsLoaded = ui.accountsLoaded
    BY <1>d, <2>3 DEF Keeps, AccountsOwn, AccountsActing
  <2>5. AccountsActs(x)
    BY <1>0, <2>2, <2>3, <2>4 DEF AccountsActs
  <2>6. AccountsActs(y)
    BY <1>0, <2>3, <2>4 DEF AccountsActs
  <2>7. {"loads", "forsaken"} \subseteq AccountsActing
    BY DEF AccountsActing
  <2> QED BY <1>p, <2>1, <2>3, <2>5, <2>6, <2>7
<1>7. CASE Accounts!AccountsRefreshed
  <2> PICK load \in ui.loads : ui' = Accounts!Refreshed(ui, load)
    BY <1>7, <1>a DEF Accounts!AccountsRefreshed
  <2> DEFINE v == [ui EXCEPT !.loads = ui.loads \ {load}, !.accountsLoaded = TRUE,
                             !.rows = load.params,
                             !.overwritten = ui.overwritten \/ load.params # ui.rows]
  <2>1. ui' = v
    BY DEF Accounts!Refreshed
  <2>2. load.params \in PageParams(Q)
    BY <1>0 DEF AccountsActs, Loads, Q
  <2>3. /\ Keeps(v, ui, {"loads", "accountsLoaded", "rows", "overwritten"})
        /\ v.loads = ui.loads \ {load} /\ v.accountsLoaded = TRUE /\ v.rows = load.params
        /\ (v.overwritten <=> ui.overwritten \/ load.params # ui.rows)
    BY <1>d DEF Keeps, AccountsOwn, AccountsActing, TableFields
  <2> HIDE DEF v
  <2>4. /\ v.page = ui.page /\ v.query = ui.query /\ v.pending = ui.pending
        /\ v.fresh = ui.fresh /\ v.loading = ui.loading /\ v.ticked = ui.ticked
        /\ v.outdated = ui.outdated /\ DOMAIN v = AccountsFields
    BY <1>0, <1>d, <2>3 DEF Keeps, AccountsOwn, TableFields
  <2>5. Table!ParamsOf(v) = Table!ParamsOf(ui)
    BY <2>4 DEF Table!ParamsOf
  <2>6. HasTable(v, Q)
    BY <1>0, <1>d, <2>2, <2>3, <2>4 DEF HasTable
  <2>7. IsTable(v, Q)
    BY <1>0, <2>4, <2>5, <2>6 DEF IsTable
  <2>8. v.overwritten \/ v.rows = ui.rows
    BY <2>3
  <2>9. v.overwritten \/ (IsCurrent(ui) => IsCurrent(v))
    BY <2>4, <2>5, <2>8 DEF IsCurrent, NewestAsked
  <2>10. AccountsRows(v)
    BY <1>0, <2>3, <2>4, <2>7, <2>8, <2>9 DEF AccountsRows, AccountsTicks, Q
  <2>11. /\ v.acting = ui.acting /\ v.refreshing = ui.refreshing /\ v.deleting = ui.deleting
         /\ v.forsaken = ui.forsaken
    BY <1>d, <2>3 DEF Keeps, AccountsOwn, AccountsActing
  <2>12. AccountsActs(v)
    BY <1>0, <2>3, <2>11 DEF AccountsActs
  <2> QED BY <2>1, <2>4, <2>10, <2>12 DEF AccountsInv
<1>8. CASE Accounts!ClkRefreshDatasource
  <2> DEFINE act == Accounts!Load(Table!ParamsOf(ui), "refreshing")
             v == [ui EXCEPT !.refreshing = TRUE, !.acting = ui.acting \cup {act}]
  <2>1. ui' = v
    BY <1>8, <1>a, AccountsTable DEF Accounts!ClkRefreshDatasource
  <2>2. act \in Loads /\ act.stage = "refreshing"
    BY <1>0, ParamsTyped DEF Loads, Accounts!Load, Accounts!Stages, Q
  <2> HIDE DEF act
  <2>3. Keeps(v, ui, {"refreshing", "acting"}) /\ v.acting = ui.acting \cup {act}
    BY <1>d DEF Keeps, AccountsOwn, AccountsActing
  <2> HIDE DEF v
  <2>4. /\ v.loads = ui.loads /\ v.accountsLoaded = ui.accountsLoaded
        /\ v.deleting = ui.deleting /\ v.forsaken = ui.forsaken
    BY <1>d, <2>3 DEF Keeps, AccountsOwn, AccountsActing
  <2>5. AccountsActs(v)
    BY <1>0, <2>2, <2>3, <2>4 DEF AccountsActs
  <2> QED BY <1>p, <2>1, <2>3, <2>5 DEF AccountsActing
<1>9. CASE Accounts!ClkDeleteAccount
  <2> DEFINE act == Accounts!Load(Table!ParamsOf(ui), "deleting")
             v == [ui EXCEPT !.deleting = TRUE, !.acting = ui.acting \cup {act}]
  <2>1. ui' = v
    BY <1>9, <1>a, AccountsTable DEF Accounts!ClkDeleteAccount
  <2>2. act \in Loads /\ act.stage = "deleting"
    BY <1>0, ParamsTyped DEF Loads, Accounts!Load, Accounts!Stages, Q
  <2> HIDE DEF act
  <2>3. Keeps(v, ui, {"deleting", "acting"}) /\ v.acting = ui.acting \cup {act}
    BY <1>d DEF Keeps, AccountsOwn, AccountsActing
  <2> HIDE DEF v
  <2>4. /\ v.loads = ui.loads /\ v.accountsLoaded = ui.accountsLoaded
        /\ v.refreshing = ui.refreshing /\ v.forsaken = ui.forsaken
    BY <1>d, <2>3 DEF Keeps, AccountsOwn, AccountsActing
  <2>5. AccountsActs(v)
    BY <1>0, <2>2, <2>3, <2>4 DEF AccountsActs
  <2> QED BY <1>p, <2>1, <2>3, <2>5 DEF AccountsActing
<1>10. ASSUME NEW result, Accounts!ActAnswered(result) PROVE AccountsInv(ui')
  <2> PICK act \in ui.acting :
        \/ ui' = Accounts!Acted([ui EXCEPT !.acting = ui.acting \ {act}], act)
        \/ ui' = [[ui EXCEPT !.acting = ui.acting \ {act}] EXCEPT !.forsaken = @ \cup {act.stage}]
    BY <1>10, <1>a DEF Accounts!ActAnswered
  <2> DEFINE over == [ui EXCEPT !.acting = ui.acting \ {act}]
             x == [over EXCEPT !.forsaken = over.forsaken \cup {act.stage}]
             w == [over EXCEPT !.outdated = act.params # Table!ParamsOf(over),
                               !.refreshing = over.refreshing /\ act.stage # "refreshing",
                               !.deleting = over.deleting /\ act.stage # "deleting",
                               !.accountsLoaded = over.accountsLoaded \/ act.stage = "refreshing"]
             v == Table!SendWith(w, act.params)
  <2>1. ui' = v \/ ui' = x
    BY AccountsTable DEF Accounts!Acted
  <2>2. act.params \in PageParams(Q)
    BY <1>0 DEF AccountsActs, Loads, Q
  <2>3. Keeps(over, ui, {"acting"}) /\ over.acting = ui.acting \ {act}
    BY <1>d DEF Keeps, AccountsOwn, AccountsActing
  <2> HIDE DEF over
  <2>4. /\ over.loads = ui.loads /\ over.accountsLoaded = ui.accountsLoaded
        /\ over.refreshing = ui.refreshing /\ over.deleting = ui.deleting
        /\ over.forsaken = ui.forsaken /\ DOMAIN over = AccountsFields
        /\ Table!ParamsOf(over) = Table!ParamsOf(ui)
    BY <1>0, <1>d, <2>3 DEF Keeps, AccountsOwn, AccountsActing, TableFields, Table!ParamsOf
  <2>5. Keeps(x, over, {"forsaken"}) /\ x.forsaken = ui.forsaken \cup {act.stage}
    BY <2>4 DEF Keeps, AccountsFields, AccountsOwn, AccountsActing
  <2>6. /\ Keeps(w, over, {"outdated", "refreshing", "deleting", "accountsLoaded"})
        /\ (w.outdated <=> act.params # Table!ParamsOf(ui))
        /\ (w.refreshing <=> ui.refreshing /\ act.stage # "refreshing")
        /\ (w.deleting <=> ui.deleting /\ act.stage # "deleting")
        /\ (w.accountsLoaded <=> ui.accountsLoaded \/ act.stage = "refreshing")
    BY <2>4 DEF Keeps, AccountsFields, AccountsOwn, AccountsActing
  <2> HIDE DEF x, w
  <2>7. /\ Keeps(x, ui, {"acting", "forsaken"}) /\ x.acting = ui.acting \ {act}
        /\ x.loads = ui.loads /\ x.accountsLoaded = ui.accountsLoaded
        /\ x.refreshing = ui.refreshing /\ x.deleting = ui.deleting
    BY <2>3, <2>4, <2>5 DEF Keeps, AccountsFields, AccountsOwn, AccountsActing
  <2>8. AccountsActs(x)
    BY <1>0, <2>5, <2>7 DEF AccountsActs
  <2>9. ui' = x => AccountsInv(ui')
    BY <1>p, <2>7, <2>8 DEF AccountsActing
  <2>10. /\ Keeps(w, ui, {"acting", "outdated", "refreshing", "deleting", "accountsLoaded"})
         /\ w.acting = ui.acting \ {act} /\ w.loads = ui.loads /\ w.forsaken = ui.forsaken
    BY <2>3, <2>4, <2>6 DEF Keeps, AccountsFields, AccountsOwn, AccountsActing
  <2>11. {"acting", "outdated", "refreshing", "deleting", "accountsLoaded"} \cap TableFields = {}
    BY DEF TableFields
  <2>12. HasTable(w, Q)
    BY <1>0, <2>10, <2>11, TableUntouched DEF IsTable
  <2>13. Sends(v, w, Q) /\ (act.params = Table!ParamsOf(w) => NewestAsked(v))
    BY <2>2, <2>12, SendsWith
  <2> HIDE DEF v
  <2>14. /\ DOMAIN w = AccountsFields /\ DOMAIN v = AccountsFields
         /\ v.ticked = ui.ticked /\ v.rows = ui.rows /\ v.overwritten = ui.overwritten
         /\ v.outdated = w.outdated
    BY <1>0, <1>d, <2>10, <2>13 DEF Sends, Keeps, AccountsFields, AccountsOwn, AccountsActing,
       TableFields
  <2>15. Table!ParamsOf(w) = Table!ParamsOf(ui)
    BY <1>d, <2>10 DEF Keeps, TableFields, Table!ParamsOf
  <2>16. v.outdated \/ IsCurrent(v)
    BY <2>6, <2>13, <2>14, <2>15 DEF IsCurrent
  <2>17. AccountsRows(v)
    BY <1>0, <2>13, <2>14, <2>16 DEF Sends, AccountsRows, AccountsTicks, Q
  <2>18. AccountsActs(w)
    BY <1>0, <2>6, <2>10 DEF AccountsActs
  <2>19. AccountsActs(v)
    BY <2>13, <2>14, <2>18, AccountsActsKept DEF Sends, AccountsActing
  <2>20. ui' = v => AccountsInv(ui')
    BY <2>14, <2>17, <2>19 DEF AccountsInv
  <2> QED BY <2>1, <2>9, <2>20
<1> QED BY <1>1, <1>2, <1>3, <1>4, <1>5, <1>6, <1>7, <1>8, <1>9, <1>10 DEF Accounts!AccountsNext

LEMMA AccountsHolds ==
    ASSUME Accounts!Here => AccountsInv(ui)
    PROVE  /\ Accounts!TypeOK /\ Accounts!ShowsWhatIsAsked
           /\ Accounts!DeletesWhatIsShown /\ Accounts!WaitsForSomething
<1>1. SUFFICES ASSUME Accounts!Here, AccountsInv(ui)
               PROVE  /\ Accounts!TypeOK /\ Accounts!ShowsWhatIsAsked
                      /\ Accounts!DeletesWhatIsShown /\ Accounts!WaitsForSomething
  BY DEF Accounts!TypeOK, Accounts!ShowsWhatIsAsked, Accounts!DeletesWhatIsShown,
         Accounts!WaitsForSomething
<1>2. /\ Table!TableTypeOver(ui, PageParams(Table!Queries))
      /\ IsCurrent(ui) => Table!RowsAreCurrent(ui)
  BY <1>1, TableHolds DEF AccountsInv, AccountsRows
<1>3. Accounts!Params = PageParams(Table!Queries)
  BY AccountsTable DEF Accounts!Params, PageParams
<1>4. Accounts!TableType(ui)
  BY <1>2, <1>3, AccountsTable
  DEF Accounts!TableType, Accounts!TableTypeOver, Table!TableTypeOver
<1>5. IsCurrent(ui) => Accounts!RowsAreCurrent(ui)
  BY <1>2, AccountsTable DEF Accounts!RowsAreCurrent, Table!RowsAreCurrent
<1>6. Accounts!TypeOK
  BY <1>1, <1>3, <1>4 DEF Accounts!TypeOK, AccountsInv, AccountsActs, Loads
<1>7. Accounts!ShowsWhatIsAsked
  BY <1>1, <1>5 DEF Accounts!ShowsWhatIsAsked, AccountsInv, AccountsRows
<1>8. Accounts!DeletesWhatIsShown
  BY <1>1 DEF Accounts!DeletesWhatIsShown, AccountsInv, AccountsRows, AccountsTicks
<1>9. Accounts!WaitsForSomething
  BY <1>1 DEF Accounts!WaitsForSomething, AccountsInv, AccountsRows, AccountsActs
<1> QED BY <1>6, <1>7, <1>8, <1>9

-----------------------------------------------------------------------------
(***************************************************************************)
(* The tables of a wizard, in which what to scan is picked (CatalogPicker).*)
(***************************************************************************)
LEMMA PickerTable ==
    /\ \A u : Picker!PagesOf(u) \subseteq 1 .. MaxPage
    /\ Picker!NoRows = Table!NoRows
    /\ Picker!Queries = Table!Queries
    /\ \A s, i : Picker!Without(s, i) = Table!Without(s, i)
<1>1. Picker!NoRows = Table!NoRows
  BY DEF Picker!NoRows, Table!NoRows
<1>2. Picker!Queries = Table!Queries
  BY DEF Picker!Queries, Table!Queries
<1>3. \A u : Picker!PagesOf(u) \subseteq 1 .. MaxPage
  BY SomePages DEF Picker!PagesOf
<1>4. \A s, i : Picker!Without(s, i) = Table!Without(s, i)
  BY DEF Picker!Without, Table!Without
<1> QED BY <1>3, <1>1, <1>2, <1>4

PickerKinds == {"s3", "rds", "glue", "jdbc"}
PickerFields ==
    {"kind", "specify", "view", "page", "query", "pending", "rows", "known", "total", "fresh",
     "loading", "ticked", "handed", "forsaken"}
PickerParams == PageParams(Table!Queries)
PickerRequests(kind) == [params : PickerParams, view : Picker!Views(kind), newest : BOOLEAN]

\* A request, or an answer, for some parameters and a view is for what is selected.
PickerAsks(u, params, view) ==
    /\ view = u.view /\ params.page = u.page
    /\ Picker!Follows(u) => params.query = u.query

PickerType(u) ==
    /\ DOMAIN u = PickerFields /\ u.kind \in PickerKinds /\ u.view \in Picker!Views(u.kind)
    /\ u.page \in 1 .. MaxPage /\ u.query \in Table!Queries
    /\ u.pending \in Seq(PickerRequests(u.kind))
    /\ u.rows \in PickerParams \cup {Table!NoRows} /\ u.known \subseteq Picker!Views(u.kind)
    /\ u.total \in Picker!Views(u.kind) \cup {"none"}

\* Requests that count as new are for what is selected.
PickerNewest(u) ==
    \A i \in DOMAIN u.pending :
        u.pending[i].newest => PickerAsks(u, u.pending[i].params, u.pending[i].view)

PickerCurrent(u) == u.fresh => PickerAsks(u, u.rows, u.total) \/ NewestAsked(u)

PickerHanded(u) ==
    /\ u.handed.view \in Picker!Views(u.kind) /\ u.handed.ids = u.ticked
    /\ u.ticked # {} => u.handed.view = u.view

PickerWaits(u) == u.loading => u.pending # << >> \/ u.forsaken

PickerInv(u) ==
    /\ PickerType(u) /\ PickerNewest(u) /\ PickerCurrent(u)
    /\ PickerHanded(u) /\ PickerWaits(u)

LEMMA PickerViews ==
    ASSUME NEW kind \in PickerKinds
    PROVE  Picker!FirstView(kind) \in Picker!Views(kind)
  BY DEF PickerKinds, Picker!FirstView, Picker!Views

\* Requests that do not count as new, and one more that does.
PickerEnlarged(s, r) == Append(Aged(s), r)

PickerGrown(t, kind, r) ==
    /\ t \in Seq(PickerRequests(kind)) /\ t # << >> /\ \E i \in DOMAIN t : t[i] = r
    /\ \A i \in DOMAIN t : t[i].newest => t[i] = r

LEMMA PickerAppended ==
    ASSUME NEW kind, NEW s \in Seq(PickerRequests(kind)), NEW r \in PickerRequests(kind)
    PROVE  PickerGrown(PickerEnlarged(s, r), kind, r)
<1> DEFINE R == PickerRequests(kind)
           Old(q) == [q EXCEPT !.newest = FALSE]
           old == [i \in DOMAIN s |-> Old(s[i])]
           t == PickerEnlarged(s, r)
<1>1. \A i \in DOMAIN s : s[i] \in R
  OBVIOUS
<1>2. \A i \in DOMAIN s : Old(s[i]) \in R /\ ~Old(s[i]).newest
  BY <1>1 DEF PickerRequests
<1>3. DOMAIN s = 1 .. Len(s) /\ Len(s) \in Nat
  OBVIOUS
<1>4. t = Append(old, r)
  BY DEF PickerEnlarged, Aged
<1> HIDE DEF Old, R
<1>5. old \in Seq(R) /\ Len(old) = Len(s) /\ \A i \in DOMAIN s : ~old[i].newest
  BY <1>2, <1>3
<1>6. r \in R
  BY DEF R
<1> HIDE DEF old, t
<1>7. /\ t \in Seq(R) /\ Len(t) = Len(old) + 1 /\ t[Len(old) + 1] = r
      /\ \A i \in 1 .. Len(old) : t[i] = old[i]
  BY <1>4, <1>5, <1>6
<1>8. Len(old) \in Nat /\ DOMAIN t = 1 .. Len(old) + 1
  BY <1>3, <1>5, <1>7
<1>9. \A i \in DOMAIN t : i = Len(old) + 1 \/ i \in 1 .. Len(old)
  BY <1>8
<1>10. Len(old) + 1 \in DOMAIN t /\ t # << >>
  BY <1>7, <1>8
<1> QED BY <1>3, <1>5, <1>7, <1>9, <1>10 DEF t, R, PickerGrown

\* A request is sent.
PickerSends(v, u) ==
    /\ Keeps(v, u, {"pending", "loading"}) /\ v.pending # << >>
    /\ v.pending \in Seq(PickerRequests(u.kind)) /\ PickerNewest(v) /\ NewestAsked(v)

LEMMA PickerAsked ==
    ASSUME NEW u, PickerType(u), NEW query \in Table!Queries,
           Picker!Follows(u) => query = u.query
    PROVE  /\ PickerSends(Picker!Ask(u, query), u)
           /\ PickerSends(Picker!Spinning(Picker!Ask(u, query)), u)
<1> DEFINE r == [params |-> [page |-> u.page, query |-> query], view |-> u.view, newest |-> TRUE]
           s == u.pending
           kind == u.kind
           t == PickerEnlarged(s, r)
           v == Picker!Ask(u, query)
           w == Picker!Spinning(v)
<1>1. /\ r \in PickerRequests(u.kind) /\ r.newest = TRUE /\ r.view = u.view
      /\ r.params.page = u.page /\ r.params.query = query
  BY DEF PickerType, PickerRequests, PickerParams, PageParams
<1>2. v = [u EXCEPT !.pending = t]
  BY DEF Picker!Ask, PickerEnlarged, Aged
<1>3. u.pending \in Seq(PickerRequests(u.kind))
  BY DEF PickerType
<1> HIDE DEF r
<1>4. /\ t \in Seq(PickerRequests(u.kind)) /\ t # << >>
      /\ \E i \in DOMAIN t : t[i] = r
      /\ \A i \in DOMAIN t : t[i].newest => t[i] = r
  <2>1. r \in PickerRequests(kind) /\ s \in Seq(PickerRequests(kind))
    BY <1>1, <1>3
  <2> HIDE DEF s, kind
  <2>2. PickerGrown(t, kind, r)
    BY <2>1, PickerAppended
  <2> QED BY <2>2 DEF kind, PickerGrown
<1> HIDE DEF t
<1>5. Keeps(v, u, {"pending"}) /\ v.pending = t
  BY <1>2 DEF Keeps, PickerType, PickerFields
<1> HIDE DEF v
<1>6. Keeps(w, u, {"pending", "loading"}) /\ w.pending = t
  BY <1>5 DEF Picker!Spinning, Keeps, PickerType, PickerFields
<1> HIDE DEF w
<1>7. ASSUME NEW x, Keeps(x, u, {"pending", "loading"}), x.pending = t
      PROVE  PickerSends(x, u)
  <2>1. x.kind = u.kind /\ x.view = u.view /\ x.page = u.page /\ x.query = u.query
    BY <1>7 DEF Keeps, PickerType, PickerFields
  <2>2. Picker!Follows(x) <=> Picker!Follows(u)
    BY <2>1 DEF Picker!Follows
  <2>3. PickerAsks(x, r.params, r.view)
    BY <1>1, <2>1, <2>2 DEF PickerAsks
  <2>4. PickerNewest(x)
    BY <1>4, <1>7, <2>3 DEF PickerNewest
  <2>5. NewestAsked(x)
    BY <1>1, <1>4, <1>7 DEF NewestAsked
  <2> QED BY <1>4, <1>7, <2>4, <2>5 DEF PickerSends
<1>8. Keeps(v, u, {"pending", "loading"})
  BY <1>5 DEF Keeps
<1> QED BY <1>5, <1>6, <1>7, <1>8 DEF v, w

\* The effect that asks does so whatever the kind and the view.
LEMMA PickerFetched ==
    ASSUME NEW u, PickerType(u), u.specify
    PROVE  PickerSends(Picker!Fetch(u), u)
<1> DEFINE plain == Picker!Ask(u, "plain")
           filtered == Picker!Ask(u, u.query)
<1>1. "plain" \in Table!Queries /\ u.query \in Table!Queries
  BY DEF Table!Queries, PickerType
<1>2. PickerSends(filtered, u) /\ PickerSends(Picker!Spinning(filtered), u)
  BY <1>1, PickerAsked
<1>3. ~Picker!Follows(u) => PickerSends(plain, u) /\ PickerSends(Picker!Spinning(plain), u)
  BY <1>1, PickerAsked
<1>4. CASE u.kind = "s3"
  <2>1. Picker!Fetch(u) = Picker!Spinning(plain)
    BY <1>4 DEF Picker!Fetch, Picker!GetS3CatalogData
  <2>2. ~Picker!Follows(u)
    BY <1>4 DEF Picker!Follows
  <2> QED BY <1>3, <2>1, <2>2
<1>5. CASE u.kind = "rds"
  <2>1. u.view = "instances" \/ u.view = "tables"
    BY <1>5 DEF PickerType, Picker!Views
  <2>2. Picker!Fetch(u) = Picker!Spinning(plain) \/ Picker!Fetch(u) = plain
    BY <1>5, <2>1 DEF Picker!Fetch, Picker!GetRdsCatalogData, Picker!GetRdsFolderData
  <2>3. ~Picker!Follows(u)
    BY <1>5 DEF Picker!Follows
  <2> QED BY <1>3, <2>2, <2>3
<1>6. CASE u.kind = "glue"
  <2>1. u.view = "databases" \/ u.view = "tables" \/ u.view = "accounts"
    BY <1>6 DEF PickerType, Picker!Views
  <2>2. CASE u.view = "databases"
    <3>1. Picker!Fetch(u) = Picker!Spinning(plain)
      BY <1>6, <2>2 DEF Picker!Fetch, Picker!GetGlueCatalogData
    <3>2. ~Picker!Follows(u)
      BY <1>6, <2>2 DEF Picker!Follows, Picker!FirstView
    <3> QED BY <1>3, <3>1, <3>2
  <2>3. CASE u.view # "databases"
    <3>1. Picker!Fetch(u) = Picker!Spinning(filtered)
      BY <1>6, <2>1, <2>3 DEF Picker!Fetch, Picker!GetGlueFolderData, Picker!GetAwsAccountList
    <3> QED BY <1>2, <3>1
  <2> QED BY <2>2, <2>3
<1>7. CASE u.kind = "jdbc"
  <2>1. u.view = "instances" \/ u.view = "tables"
    BY <1>7 DEF PickerType, Picker!Views
  <2>2. CASE u.view = "instances"
    <3>1. Picker!Fetch(u) = Picker!Spinning(plain)
      BY <1>7, <2>2 DEF Picker!Fetch, Picker!GetJdbcCatalogData
    <3>2. ~Picker!Follows(u)
      BY <1>7, <2>2 DEF Picker!Follows, Picker!FirstView
    <3> QED BY <1>3, <3>1, <3>2
  <2>3. CASE u.view # "instances"
    <3>1. Picker!Fetch(u) = filtered
      BY <1>7, <2>1, <2>3 DEF Picker!Fetch, Picker!GetJdbcFolderData
    <3> QED BY <1>2, <3>1
  <2> QED BY <2>2, <2>3
<1> QED BY <1>4, <1>5, <1>6, <1>7 DEF PickerType, PickerKinds

\* What is sent from a well-formed state leads to the invariant.
LEMMA PickerSent ==
    ASSUME NEW u, PickerType(u), PickerHanded(u), u.specify
    PROVE  PickerInv(Picker!Fetch(u)) /\ Keeps(Picker!Fetch(u), u, {"pending", "loading"})
<1> DEFINE v == Picker!Fetch(u)
<1>1. PickerSends(v, u)
  BY PickerFetched
<1> HIDE DEF v
<1>2. /\ v.kind = u.kind /\ v.view = u.view /\ v.page = u.page /\ v.query = u.query
      /\ v.rows = u.rows /\ v.known = u.known /\ v.total = u.total /\ v.handed = u.handed
      /\ v.ticked = u.ticked /\ DOMAIN v = PickerFields
  BY <1>1 DEF PickerSends, Keeps, PickerType, PickerFields
<1>3. PickerType(v)
  BY <1>1, <1>2 DEF PickerSends, PickerType
<1>4. PickerHanded(v)
  BY <1>2 DEF PickerHanded
<1> QED BY <1>1, <1>3, <1>4 DEF PickerSends, PickerInv, PickerCurrent, PickerWaits, v

LEMMA PickerMounted ==
    ASSUME NEW kind \in PickerKinds
    PROVE  PickerInv(Picker!Mounted(kind))
<1> DEFINE u == Picker!Mounted(kind)
           first == Picker!FirstView(kind)
           none == [ids |-> {}, view |-> first]
<1>1. first \in Picker!Views(kind) /\ 1 \in 1 .. MaxPage /\ "plain" \in Table!Queries
  BY PickerViews, SomePages DEF Table!Queries
<1> HIDE DEF first
<1>2. none.ids = {} /\ none.view = first
  OBVIOUS
<1> HIDE DEF none
<1>3. /\ u.kind = kind /\ u.view = first /\ u.page = 1 /\ u.query = "plain" /\ u.pending = << >>
      /\ u.rows = Table!NoRows /\ u.known = {} /\ u.total = "none" /\ u.fresh = FALSE
      /\ u.loading = FALSE /\ u.ticked = {} /\ u.handed = none /\ DOMAIN u = PickerFields
  BY PickerTable DEF Picker!Mounted, PickerFields, first, none
<1> HIDE DEF u
<1>4. u.pending \in Seq(PickerRequests(u.kind)) /\ DOMAIN u.pending = {}
  BY <1>3
<1>5. PickerType(u)
  BY <1>1, <1>3, <1>4 DEF PickerType
<1>6. PickerNewest(u) /\ PickerCurrent(u) /\ PickerHanded(u) /\ PickerWaits(u)
  BY <1>1, <1>2, <1>3, <1>4 DEF PickerNewest, PickerCurrent, PickerHanded, PickerWaits
<1> QED BY <1>5, <1>6 DEF PickerInv, u

LEMMA PickerStep ==
    ASSUME Picker!Here, PickerInv(ui), Picker!PickerNext
    PROVE  PickerInv(ui')
<1>0. /\ PickerType(ui) /\ PickerNewest(ui) /\ PickerCurrent(ui) /\ PickerHanded(ui)
      /\ PickerWaits(ui) /\ DOMAIN ui = PickerFields
      /\ ui.pending \in Seq(PickerRequests(ui.kind))
  BY DEF PickerInv, PickerType
<1>a. \A change : Picker!At(change) => ui' = change
  BY DEF Picker!At
<1>1. ASSUME NEW result, NEW i \in DOMAIN ui.pending, Picker!PageAnswered(i, result)
      PROVE  PickerInv(ui')
  <2> DEFINE s == ui.pending
             r == s[i]
             t == Table!Without(s, i)
             first == r.view = Picker!FirstView(ui.kind)
             v == [ui EXCEPT !.pending = t, !.loading = FALSE, !.fresh = r.newest,
                             !.rows = IF r.view = ui.view THEN r.params ELSE ui.rows,
                             !.known = ui.known \cup {r.view}, !.total = r.view]
             w == [ui EXCEPT !.pending = t, !.fresh = ui.fresh /\ ~r.newest,
                             !.loading = ui.loading /\ first, !.forsaken = ui.forsaken \/ first]
  <2>1. ui' = v \/ ui' = w
    BY <1>1, <1>a, PickerTable DEF Picker!PageAnswered, Picker!Answered, Picker!Rejected
  <2>2. r \in PickerRequests(ui.kind)
    BY <1>0
  <2>3. /\ t \in Seq(PickerRequests(ui.kind))
        /\ \A k \in DOMAIN t : \E j \in DOMAIN s : t[k] = s[j]
        /\ \A j \in DOMAIN s : j # i => \E k \in DOMAIN t : t[k] = s[j]
    BY <1>0, Removed
  <2>4. r.view \in Picker!Views(ui.kind) /\ r.params \in PickerParams
    BY <2>2 DEF PickerRequests
  <2>5. r.newest => PickerAsks(ui, r.params, r.view)
    BY <1>0 DEF PickerNewest
  <2> HIDE DEF t, first
  <2>6. /\ Keeps(v, ui, {"pending", "loading", "fresh", "rows", "known", "total", "forsaken"})
        /\ v.pending = t /\ v.loading = FALSE /\ v.fresh = r.newest
        /\ v.rows = (IF r.view = ui.view THEN r.params ELSE ui.rows)
        /\ v.known = ui.known \cup {r.view} /\ v.total = r.view
    BY <1>0 DEF Keeps, PickerFields
  <2>7. /\ Keeps(w, ui, {"pending", "loading", "fresh", "rows", "known", "total", "forsaken"})
        /\ w.pending = t /\ (w.fresh <=> ui.fresh /\ ~r.newest)
        /\ (w.loading <=> ui.loading /\ first) /\ (w.forsaken <=> ui.forsaken \/ first)
        /\ w.rows = ui.rows /\ w.known = ui.known /\ w.total = ui.total
    BY <1>0 DEF Keeps, PickerFields
  <2> HIDE DEF v, w
  <2>8. ASSUME NEW x, x.pending = t,
               Keeps(x, ui, {"pending", "loading", "fresh", "rows", "known", "total", "forsaken"}),
               x.rows \in PickerParams \cup {Table!NoRows}, x.known \subseteq Picker!Views(ui.kind),
               x.total \in Picker!Views(ui.kind) \cup {"none"}
        PROVE  /\ PickerType(x) /\ PickerNewest(x) /\ PickerHanded(x)
               /\ \A params, view : PickerAsks(x, params, view) <=> PickerAsks(ui, params, view)
    <3>1. /\ x.kind = ui.kind /\ x.view = ui.view /\ x.page = ui.page /\ x.query = ui.query
          /\ x.handed = ui.handed /\ x.ticked = ui.ticked /\ DOMAIN x = PickerFields
      BY <1>0, <2>8 DEF Keeps, PickerFields
    <3>2. \A params, view : PickerAsks(x, params, view) <=> PickerAsks(ui, params, view)
      BY <3>1 DEF PickerAsks, Picker!Follows
    <3>3. PickerType(x)
      BY <1>0, <2>3, <2>8, <3>1 DEF PickerType
    <3>4. PickerNewest(x)
      BY <1>0, <2>3, <2>8, <3>2 DEF PickerNewest
    <3>5. PickerHanded(x)
      BY <1>0, <3>1 DEF PickerHanded
    <3> QED BY <3>2, <3>3, <3>4, <3>5
  <2>9. PickerInv(v)
    <3>1. /\ v.rows \in PickerParams \cup {Table!NoRows} /\ v.known \subseteq Picker!Views(ui.kind)
          /\ v.total \in Picker!Views(ui.kind) \cup {"none"}
      BY <1>0, <2>4, <2>6 DEF PickerType
    <3>2. /\ PickerType(v) /\ PickerNewest(v) /\ PickerHanded(v)
          /\ \A params, view : PickerAsks(v, params, view) <=> PickerAsks(ui, params, view)
      BY <2>6, <2>8, <3>1
    <3>3. PickerCurrent(v)
      <4>1. SUFFICES ASSUME v.fresh PROVE PickerAsks(v, v.rows, v.total)
        BY DEF PickerCurrent
      <4>2. PickerAsks(ui, r.params, r.view)
        BY <2>5, <2>6, <4>1
      <4>3. v.rows = r.params /\ v.total = r.view
        BY <2>6, <4>2 DEF PickerAsks
      <4> QED BY <3>2, <4>2, <4>3
    <3> QED BY <2>6, <3>2, <3>3 DEF PickerInv, PickerWaits
  <2>10. PickerInv(w)
    <3>1. /\ w.rows \in PickerParams \cup {Table!NoRows} /\ w.known \subseteq Picker!Views(ui.kind)
          /\ w.total \in Picker!Views(ui.kind) \cup {"none"}
      BY <1>0, <2>7 DEF PickerType
    <3>2. /\ PickerType(w) /\ PickerNewest(w) /\ PickerHanded(w)
          /\ \A params, view : PickerAsks(w, params, view) <=> PickerAsks(ui, params, view)
      BY <2>7, <2>8, <3>1
    <3>3. PickerCurrent(w)
      <4>1. SUFFICES ASSUME w.fresh PROVE PickerAsks(w, w.rows, w.total) \/ NewestAsked(w)
        BY DEF PickerCurrent
      <4>2. ui.fresh /\ ~r.newest
        BY <2>7, <4>1
      <4>3. CASE PickerAsks(ui, ui.rows, ui.total)
        BY <2>7, <3>2, <4>3
      <4>4. CASE NewestAsked(ui)
        <5>1. PICK j \in DOMAIN s : s[j].newest
          BY <4>4 DEF NewestAsked
        <5>2. j # i
          BY <4>2, <5>1
        <5>3. PICK k \in DOMAIN t : t[k] = s[j]
          BY <2>3, <5>2
        <5> QED BY <2>7, <5>1, <5>3 DEF NewestAsked
      <4> QED BY <1>0, <4>2, <4>3, <4>4 DEF PickerCurrent
    <3>4. PickerWaits(w)
      BY <2>7 DEF PickerWaits
    <3> QED BY <3>2, <3>3, <3>4 DEF PickerInv
  <2> QED BY <2>1, <2>9, <2>10
\* What is asked for depends on something that changed.
<1>s. ASSUME NEW x, NEW changed, Keeps(x, ui, changed),
             changed \subseteq {"specify", "page", "query"}, x.specify,
             x.page \in 1 .. MaxPage, x.query \in Table!Queries
      PROVE  PickerInv(Picker!Fetch(x))
  <2>1. /\ x.kind = ui.kind /\ x.view = ui.view /\ x.pending = ui.pending /\ x.rows = ui.rows
        /\ x.known = ui.known /\ x.total = ui.total /\ x.handed = ui.handed
        /\ x.ticked = ui.ticked /\ DOMAIN x = PickerFields
    BY <1>0, <1>s DEF Keeps, PickerFields
  <2>2. PickerType(x) /\ PickerHanded(x)
    BY <1>0, <1>s, <2>1 DEF PickerType, PickerHanded
  <2> QED BY <1>s, <2>2, PickerSent
<1>2. CASE Picker!ChooseAll
  <2> DEFINE x == [ui EXCEPT !.specify = ~ui.specify]
  <2>1. ui' = Picker!Fetch(x)
    BY <1>2, <1>a DEF Picker!ChooseAll
  <2>2. Keeps(x, ui, {"specify"}) /\ x.page = ui.page /\ x.query = ui.query
    BY <1>0 DEF Keeps, PickerFields
  <2> HIDE DEF x
  <2>3. CASE x.specify
    <3>1. x.page \in 1 .. MaxPage /\ x.query \in Table!Queries
      BY <1>0, <2>2 DEF PickerType
    <3> QED BY <1>s, <2>1, <2>2, <2>3, <3>1
  <2>4. CASE ~x.specify
    <3>1. ui' = x
      BY <2>1, <2>4 DEF Picker!Fetch
    <3>2. /\ x.kind = ui.kind /\ x.view = ui.view /\ x.pending = ui.pending /\ x.rows = ui.rows
          /\ x.known = ui.known /\ x.total = ui.total /\ x.handed = ui.handed
          /\ x.fresh = ui.fresh /\ x.loading = ui.loading /\ x.forsaken = ui.forsaken
          /\ x.ticked = ui.ticked /\ DOMAIN x = PickerFields
      BY <1>0, <2>2 DEF Keeps, PickerFields
    <3>3. \A params, view : PickerAsks(x, params, view) <=> PickerAsks(ui, params, view)
      BY <2>2, <3>2 DEF PickerAsks, Picker!Follows
    <3>4. PickerType(x) /\ PickerHanded(x) /\ PickerWaits(x)
      BY <1>0, <2>2, <3>2 DEF PickerType, PickerHanded, PickerWaits
    <3>5. PickerNewest(x) /\ PickerCurrent(x)
      BY <1>0, <3>2, <3>3 DEF PickerNewest, PickerCurrent, NewestAsked
    <3> QED BY <3>1, <3>4, <3>5 DEF PickerInv
  <2> QED BY <2>3, <2>4
<1>3. CASE Picker!ChangePage
  <2> PICK page \in Picker!PagesOf(ui) : ui' = Picker!Fetch([ui EXCEPT !.page = page])
    BY <1>3, <1>a DEF Picker!ChangePage
  <2> DEFINE x == [ui EXCEPT !.page = page]
  <2>1. ui.specify /\ page \in 1 .. MaxPage
    BY <1>3, PickerTable DEF Picker!ChangePage
  <2>2. /\ Keeps(x, ui, {"page"}) /\ x.page = page /\ x.query = ui.query
        /\ x.specify = ui.specify
    BY <1>0 DEF Keeps, PickerFields
  <2>3. ui' = Picker!Fetch(x)
    OBVIOUS
  <2> HIDE DEF x
  <2>4. x.query \in Table!Queries
    BY <1>0, <2>2 DEF PickerType
  <2> QED BY <1>s, <2>1, <2>2, <2>3, <2>4
<1>4. CASE Picker!ChangeQuery
  <2> PICK query \in Table!Queries : ui' = Picker!Fetch([ui EXCEPT !.query = query])
    BY <1>4, <1>a, PickerTable DEF Picker!ChangeQuery
  <2> DEFINE x == [ui EXCEPT !.query = query]
  <2>1. ui.specify
    BY <1>4 DEF Picker!ChangeQuery
  <2>2. /\ Keeps(x, ui, {"query"}) /\ x.page = ui.page /\ x.query = query
        /\ x.specify = ui.specify
    BY <1>0 DEF Keeps, PickerFields
  <2>3. ui' = Picker!Fetch(x)
    OBVIOUS
  <2> HIDE DEF x
  <2>4. x.page \in 1 .. MaxPage
    BY <1>0, <2>2 DEF PickerType
  <2> QED BY <1>s, <2>1, <2>2, <2>3, <2>4
\* The selection and what is handed over.
<1>h. ASSUME NEW u, PickerInv(u), NEW v, Keeps(v, u, {"ticked", "handed"}), PickerHanded(v)
      PROVE  PickerInv(v)
  <2>1. /\ v.kind = u.kind /\ v.view = u.view /\ v.pending = u.pending /\ v.rows = u.rows
        /\ v.known = u.known /\ v.total = u.total /\ v.page = u.page /\ v.query = u.query
        /\ v.fresh = u.fresh /\ v.loading = u.loading /\ v.forsaken = u.forsaken
        /\ DOMAIN v = PickerFields
    BY <1>h DEF Keeps, PickerInv, PickerType, PickerFields
  <2>2. \A params, view : PickerAsks(v, params, view) <=> PickerAsks(u, params, view)
    BY <2>1 DEF PickerAsks, Picker!Follows
  <2>3. PickerType(v) /\ PickerWaits(v)
    BY <1>h, <2>1 DEF PickerInv, PickerType, PickerWaits
  <2>4. PickerNewest(v) /\ PickerCurrent(v)
    BY <1>h, <2>1, <2>2 DEF PickerInv, PickerNewest, PickerCurrent, NewestAsked
  <2> QED BY <1>h, <2>3, <2>4 DEF PickerInv
<1>5. CASE Picker!SelectRows
  <2> PICK ids \in SUBSET Items : ui' = Picker!Handed([ui EXCEPT !.ticked = ids])
    BY <1>5, <1>a DEF Picker!SelectRows
  <2> DEFINE given == [ids |-> ids, view |-> ui.view]
             v == [ui EXCEPT !.ticked = ids, !.handed = given]
  <2>1. ui' = v
    BY <1>0 DEF Picker!Handed, PickerFields
  <2>2. given.ids = ids /\ given.view = ui.view
    OBVIOUS
  <2> HIDE DEF given
  <2>3. /\ Keeps(v, ui, {"ticked", "handed"}) /\ v.ticked = ids /\ v.handed = given
        /\ v.view = ui.view /\ v.kind = ui.kind
    BY <1>0 DEF Keeps, PickerFields
  <2> HIDE DEF v
  <2>4. PickerHanded(v)
    BY <1>0, <2>2, <2>3 DEF PickerHanded, PickerType
  <2> QED BY <1>h, <2>1, <2>3, <2>4
<1>6. CASE Picker!ChangeView
  <2> PICK view \in Picker!Views(ui.kind) : ui' = Picker!Viewed(ui, view)
    BY <1>6, <1>a DEF Picker!ChangeView
  <2> DEFINE x == [ui EXCEPT !.view = view, !.rows = Picker!NoRows]
             first == Picker!Fetch(x)
             y == [first EXCEPT !.page = 1]
             z == Picker!Turned(first)
             given == [ids |-> {}, view |-> z.view]
             v == [z EXCEPT !.ticked = {}, !.handed = given]
  <2>0. ui.specify /\ 1 \in 1 .. MaxPage
    BY <1>6, SomePages DEF Picker!ChangeView
  <2>1. /\ x.kind = ui.kind /\ x.view = view /\ x.pending = ui.pending
        /\ x.rows = Table!NoRows /\ x.known = ui.known /\ x.total = ui.total
        /\ x.page = ui.page /\ x.query = ui.query /\ x.specify = ui.specify
        /\ DOMAIN x = PickerFields
    BY <1>0, PickerTable DEF PickerFields
  <2> HIDE DEF x
  <2>2. PickerType(x)
    BY <1>0, <2>1 DEF PickerType
  <2>3. PickerSends(first, x)
    BY <2>0, <2>1, <2>2, PickerFetched
  <2> HIDE DEF first
  <2>4. /\ first.kind = ui.kind /\ first.view = view /\ first.rows = x.rows
        /\ first.known = ui.known /\ first.total = ui.total /\ first.page = ui.page
        /\ first.query = ui.query /\ first.specify = ui.specify /\ DOMAIN first = PickerFields
        /\ first.pending \in Seq(PickerRequests(ui.kind))
    BY <2>1, <2>3 DEF PickerSends, Keeps, PickerFields
  <2>5. PickerType(first)
    BY <2>1, <2>2, <2>4 DEF PickerType
  <2>6. /\ y.kind = ui.kind /\ y.view = view /\ y.rows = x.rows
        /\ y.known = ui.known /\ y.total = ui.total /\ y.page = 1
        /\ y.query = ui.query /\ y.specify = ui.specify /\ DOMAIN y = PickerFields
        /\ y.pending = first.pending
    BY <2>4 DEF PickerFields
  <2> HIDE DEF y
  <2>7. PickerType(y)
    BY <2>0, <2>1, <2>2, <2>4, <2>6 DEF PickerType
  <2>8. PickerSends(Picker!Fetch(y), y)
    BY <2>0, <2>6, <2>7, PickerFetched
  <2>9. z = first \/ z = Picker!Fetch(y)
    BY DEF Picker!Turned, y
  <2>10. PickerType(z) /\ PickerNewest(z) /\ NewestAsked(z) /\ z.pending # << >>
    <3>1. CASE z = first
      BY <2>3, <2>5, <3>1 DEF PickerSends
    <3>2. CASE z = Picker!Fetch(y)
      <4>1. /\ z.kind = y.kind /\ z.view = y.view /\ z.rows = y.rows /\ z.known = y.known
            /\ z.total = y.total /\ z.page = y.page /\ z.query = y.query
            /\ DOMAIN z = PickerFields /\ z.pending \in Seq(PickerRequests(y.kind))
        BY <2>6, <2>8, <3>2 DEF PickerSends, Keeps, PickerFields
      <4>2. PickerType(z)
        BY <2>7, <4>1 DEF PickerType
      <4> QED BY <2>8, <3>2, <4>2 DEF PickerSends
    <3> QED BY <2>9, <3>1, <3>2
  <2>11. ui' = Picker!Handed([z EXCEPT !.ticked = {}])
    BY DEF Picker!Viewed, x, first
  <2> HIDE DEF z
  <2>12. ui' = v
    BY <2>10, <2>11 DEF Picker!Handed, PickerType, PickerFields
  <2>13. given.ids = {} /\ given.view = z.view
    OBVIOUS
  <2> HIDE DEF given
  <2>14. /\ v.ticked = {} /\ v.handed = given /\ v.kind = z.kind /\ v.view = z.view
         /\ v.pending = z.pending /\ v.rows = z.rows /\ v.known = z.known /\ v.total = z.total
         /\ v.page = z.page /\ v.query = z.query /\ DOMAIN v = PickerFields
    BY <2>10 DEF PickerType, PickerFields
  <2> HIDE DEF v
  <2>15. \A params, w : PickerAsks(v, params, w) <=> PickerAsks(z, params, w)
    BY <2>14 DEF PickerAsks, Picker!Follows
  <2>16. PickerType(v) /\ PickerHanded(v)
    BY <2>10, <2>13, <2>14 DEF PickerType, PickerHanded
  <2>17. PickerNewest(v) /\ PickerCurrent(v) /\ PickerWaits(v)
    BY <2>10, <2>14, <2>15 DEF PickerNewest, PickerCurrent, PickerWaits, NewestAsked
  <2> QED BY <2>12, <2>16, <2>17 DEF PickerInv
<1> QED BY <1>1, <1>2, <1>3, <1>4, <1>5, <1>6 DEF Picker!PickerNext

LEMMA PickerHolds ==
    ASSUME Picker!Here => PickerInv(ui)
    PROVE  /\ Picker!TypeOK /\ Picker!ShowsWhatIsAsked
           /\ Picker!HandsWhatIsPicked /\ Picker!WaitsForSomething
<1>1. SUFFICES ASSUME Picker!Here, PickerInv(ui)
               PROVE  /\ Picker!TypeOK /\ Picker!ShowsWhatIsAsked
                      /\ Picker!HandsWhatIsPicked /\ Picker!WaitsForSomething
  BY DEF Picker!TypeOK, Picker!ShowsWhatIsAsked, Picker!HandsWhatIsPicked,
         Picker!WaitsForSomething
<1>2. Picker!Params = PickerParams
  BY PickerTable DEF Picker!Params, PickerParams, PageParams
<1>3. \A i \in DOMAIN ui.pending : ui.pending[i].params \in PickerParams
  <2>1. \A i \in DOMAIN ui.pending : ui.pending[i] \in PickerRequests(ui.kind)
    BY <1>1 DEF PickerInv, PickerType
  <2> QED BY <2>1 DEF PickerRequests
<1>4. Picker!TypeOK
  BY <1>1, <1>2, <1>3, PickerTable DEF Picker!TypeOK, PickerInv, PickerType, PickerHanded
<1>5. Picker!ShowsWhatIsAsked
  <2>1. ui.pending = << >> => ~NewestAsked(ui)
    BY DEF NewestAsked
  <2> QED BY <1>1, <2>1 DEF Picker!ShowsWhatIsAsked, PickerInv, PickerCurrent, PickerAsks
<1>6. Picker!HandsWhatIsPicked /\ Picker!WaitsForSomething
  BY <1>1 DEF Picker!HandsWhatIsPicked, Picker!WaitsForSomething, PickerInv, PickerHanded,
              PickerWaits
<1> QED BY <1>4, <1>5, <1>6

-----------------------------------------------------------------------------
(***************************************************************************)
(* The invariant of whichever of these pages is shown.                     *)
(***************************************************************************)
TablesInv ==
    /\ Sources!Here => SourcesInv(ui)
    /\ Jobs!Here => JobsInv(ui)
    /\ Run!Here => RunInv(ui)
    /\ Catalog!Here => CatalogInv(ui)
    /\ Folder!Here => FolderInv(ui)
    /\ Identifiers!Here => IdentifiersInv(ui)
    /\ Template!Here => TemplateInv(ui)
    /\ Adding!Here => AddingInv(ui)
    /\ Accounts!Here => AccountsInv(ui)
    /\ Picker!Here => PickerInv(ui)
================================================================================
