----------------------------- MODULE CatalogRow -----------------------------
(***************************************************************************)
(* The head of the two dialogs of the data catalog (DetailModal for a      *)
(* database, SchemaModal for a table): the privacy and the labels of the   *)
(* row the dialog is about, which are edited and saved apart.  The dialog  *)
(* keeps its state in a record u.                                          *)
(***************************************************************************)
Privacies == {1, 2}
Labels == {1, 2}
Row == [privacy : Privacies, labels : Labels]

(* row: as shown; savedPrivacy: the privacy that was saved last; checking  *)
(* and saving: the rows that were sent and are not answered; labelling:    *)
(* the dialog of the labels is shown.                                      *)
NewRow ==
    [row |-> [privacy |-> 1, labels |-> 1], savedPrivacy |-> 1,
     editing |-> FALSE, checking |-> {}, lostCheck |-> FALSE,
     labelling |-> FALSE, saving |-> {}]

(* The state of a dialog that has such a head, and a state of its own.     *)
RowAnd(own) ==
    [field \in DOMAIN NewRow \cup DOMAIN own |->
        IF field \in DOMAIN NewRow THEN NewRow[field] ELSE own[field]]

PrivacyEdited(u) == [u EXCEPT !.editing = TRUE]

(* clkCheckIcon: nothing while it is under way; it sends the whole row.    *)
CanCheck(u) == u.editing /\ u.checking = {} /\ ~u.lostCheck
Check(u, privacy) == [u EXCEPT !.checking = {[u.row EXCEPT !.privacy = privacy]}]

(* The row that was sent becomes the one that is shown.  A rejected call   *)
(* is not caught: no privacy can be saved any more.                        *)
Checked(u, sent) ==
    [u EXCEPT !.checking = {}, !.editing = FALSE, !.row = sent, !.savedPrivacy = sent.privacy]

CheckRejected(u) == [u EXCEPT !.checking = {}, !.lostCheck = TRUE]

(* saveLabelsToCatelog and saveLabelsToTable: the button spins meanwhile.  *)
CanSaveLabels(u) == u.labelling /\ u.saving = {}
LabelsSent(u, labels) == [u EXCEPT !.saving = {[u.row EXCEPT !.labels = labels]}]

(* The labels are put into the row that is shown by now.                   *)
(* Mutant: into the row that was shown when they were sent.                *)
MutantLabelled(u, sent) == [u EXCEPT !.row = sent]

Labelled(u, sent) == [u EXCEPT !.row.labels = sent.labels]

LabelsSaved(u, sent) == [Labelled(u, sent) EXCEPT !.saving = {}, !.labelling = FALSE]

LabelsRejected(u) == [u EXCEPT !.saving = {}]

RowIsQuiet(u) == u.checking = {} /\ u.saving = {} /\ ~u.editing

RowType(u) == u.row \in Row /\ u.checking \subseteq Row /\ u.saving \subseteq Row

(* The privacy that is shown is the one that was saved last, though the    *)
(* labels of the same row are saved at the same time.  (The other way      *)
(* round it does not hold: the privacy is sent and shown with the labels   *)
(* of that moment.)                                                        *)
PrivacyShown(u) == u.row.privacy = u.savedPrivacy
=============================================================================
