--------------------------- MODULE IdentifierForm ---------------------------
(***************************************************************************)
(* The form in which a custom identifier is created or edited              *)
(* (pages/create-identifier), with the choice of its category among those  *)
(* there are (common/PropsSelect).                                         *)
(***************************************************************************)
EXTENDS ApiClient, Naturals, Sequences, SequencesExt, FiniteSets

CONSTANTS
    MaxWords        \* bound: keywords of an identifier (30, in the program)

FormAssumption == MaxWords \in Nat \ {0}

VARIABLES route, ui     \* which page is shown, and the state it keeps

Here == route = "identifierForm"

Patterns == {"empty", "valid", "invalid"}
Words == {"empty", "word"}
Categories == {"c1"}                \* that can be deleted
NoCategory == "N/A"

(* A kind of identifiers to open the form with: a new one, or what was     *)
(* stored, whose parts may be there, empty or missing (null).              *)
NewIdentifier == [id |-> 0, rule |-> "empty", keywords |-> << >>, patternOn |-> TRUE, keywordOn |-> TRUE]
Stored ==
    {[id |-> 1, rule |-> "valid", keywords |-> << >>, patternOn |-> TRUE, keywordOn |-> FALSE],
     [id |-> 1, rule |-> "empty", keywords |-> <<"word">>, patternOn |-> FALSE, keywordOn |-> TRUE]}

NoWords == <<"empty">>

(* read: what PropsSelect reads on its way.  (Hiding the dialog for the    *)
(* categories refreshes it; the effect of that dialog on cleanData hides   *)
(* it when the page is mounted, too.)                                      *)
Read(u) ==
    [u EXCEPT !.options = {},
              !.reads = {[r EXCEPT !.newest = FALSE] : r \in @}
                        \cup {[categories |-> u.exists, newest |-> TRUE]}]

Mounted(old) ==
    Read([id |-> old.id, name |-> old.id # 0,
          pattern |-> old.rule, patternToggle |-> old.patternOn,
          words |-> IF old.keywords = << >> THEN NoWords ELSE old.keywords,
          keywordToggle |-> old.keywordOn,
          loading |-> FALSE, leaving |-> FALSE, sent |-> << >>, performed |-> 0, lost |-> FALSE,
          exists |-> Categories, options |-> {}, reads |-> {}, fresh |-> FALSE,
          category |-> NoCategory, managing |-> FALSE])

Free == Here /\ ~ui.managing

-----------------------------------------------------------------------------
(***************************************************************************)
(* The fields                                                              *)
(***************************************************************************)
SetName == \E name \in BOOLEAN : Free /\ ui.id = 0 /\ name # ui.name /\ ui' = [ui EXCEPT !.name = name]

SetPattern ==
    \E pattern \in Patterns :
        Free /\ ui.patternToggle /\ pattern # ui.pattern /\ ui' = [ui EXCEPT !.pattern = pattern]

(* The effects on the two switches: to switch one off empties its field.   *)
(* Mutant: the pattern stays.                                              *)
MutantPatternSwitched(u) == [u EXCEPT !.patternToggle = ~@]

PatternSwitched(u) ==
    [u EXCEPT !.patternToggle = ~@, !.pattern = IF u.patternToggle THEN "empty" ELSE @]

SwitchPattern == Free /\ ui' = PatternSwitched(ui)

KeywordsSwitched(u) ==
    [u EXCEPT !.keywordToggle = ~@, !.words = IF u.keywordToggle THEN NoWords ELSE @]

SwitchKeywords == Free /\ ui' = KeywordsSwitched(ui)

AddNewContextWord ==
    /\ Free /\ ui.keywordToggle /\ Len(ui.words) < MaxWords
    /\ ui' = [ui EXCEPT !.words = Append(@, "empty")]

RemoveContextWord ==
    /\ Free /\ ui.keywordToggle /\ Len(ui.words) > 1
    /\ \E i \in DOMAIN ui.words : ui' = [ui EXCEPT !.words = RemoveAt(@, i)]

ChangeContextWord ==
    /\ Free /\ ui.keywordToggle
    /\ \E i \in DOMAIN ui.words, word \in Words :
          word # ui.words[i] /\ ui' = [ui EXCEPT !.words[i] = word]

-----------------------------------------------------------------------------
(***************************************************************************)
(* The category (PropsSelect), and the dialog that manages the categories  *)
(***************************************************************************)

(* The answer to any read is shown; a rejected one ends the wait.          *)
ReadAnswered(result) ==
    \E read \in ui.reads :
        ui' = IF result = "resolved"
              THEN [ui EXCEPT !.reads = @ \ {read}, !.options = read.categories, !.fresh = read.newest]
              ELSE [ui EXCEPT !.reads = @ \ {read}, !.fresh = @ /\ ~read.newest]

(* The list is read when it gets the focus.  Bound: two reads under way.   *)
Focus == Free /\ Cardinality(ui.reads) < 2 /\ ui' = Read(ui)

Choose ==
    /\ Free /\ ui.options # {}
    /\ \E category \in ui.options \cup {NoCategory} :
          ui' = [ui EXCEPT !.category = category]

ManageCategory == Free /\ ~ui.loading /\ ui' = [ui EXCEPT !.managing = TRUE]

(* What the dialog does to the categories, one deleted.                    *)
CategoryDeleted ==
    /\ Here /\ ui.managing
    /\ \E category \in ui.exists :
          ui' = [ui EXCEPT !.exists = @ \ {category}]

Managed(u) == Read([u EXCEPT !.managing = FALSE])

HideManage == Here /\ ui.managing /\ Cardinality(ui.reads) < 2 /\ ui' = Managed(ui)

-----------------------------------------------------------------------------
(***************************************************************************)
(* Saving (submitIdentifier)                                               *)
(***************************************************************************)
RuleNull(u) == u.pattern = "empty" /\ u.words = NoWords

RuleAccepted(u) ==
    /\ u.name /\ ~RuleNull(u) /\ u.pattern # "invalid"
    /\ u.keywordToggle => "empty" \notin ToSet(u.words)

(* What is sent of the rule: null for what is switched off.                *)
RequestParam(u) ==
    [rule |-> IF u.patternToggle THEN u.pattern ELSE "null",
     keywords |-> IF u.keywordToggle THEN ToSet(u.words) ELSE {}, category |-> u.category]

SubmitIdentifier ==
    /\ Free /\ ~ui.loading /\ RuleAccepted(ui)
    /\ ui' = [ui EXCEPT !.loading = TRUE, !.sent = <<RequestParam(ui)>>]

(* Done: the page is left after 0.8 seconds, and Save spins until then.    *)
Saved(u) == [u EXCEPT !.leaving = TRUE]

(* An answer without an id is reported, and the spinner stays.             *)
NotSaved(u) == [u EXCEPT !.lost = TRUE]

Failed(u) == [u EXCEPT !.loading = FALSE]

SubmitAnswered(wire) ==
    /\ ui.loading /\ ~ui.leaving /\ ~ui.lost
    /\ \E done \in PerformedBy(wire) :
          LET counted == [ui EXCEPT !.sent = << >>,
                              !.performed = IF done /\ wire = "success" THEN @ + 1 ELSE @]
          IN  \/ ui' = IF ApiResult(wire) = "resolved" THEN Saved(counted) ELSE Failed(counted)
              \/ wire = "success" /\ ui' = NotSaved([ui EXCEPT !.sent = << >>])

Leave == Here /\ ui.leaving /\ ui' = [closed |-> TRUE]

-----------------------------------------------------------------------------
FormNext ==
    \/ Here /\ (\/ \E result \in Results : ReadAnswered(result)
                \/ \E wire \in Wire : SubmitAnswered(wire))
    \/ SetName \/ SetPattern \/ SwitchPattern \/ SwitchKeywords
    \/ AddNewContextWord \/ RemoveContextWord \/ ChangeContextWord
    \/ Focus \/ Choose \/ ManageCategory \/ CategoryDeleted \/ HideManage
    \/ SubmitIdentifier \/ Leave

-----------------------------------------------------------------------------
TypeOK ==
    Here =>
        /\ ui.pattern \in Patterns /\ ui.words \in BoundedSeq(Words, MaxWords)
        /\ {ui.exists, ui.options} \subseteq SUBSET Categories
        /\ ui.category \in Categories \cup {NoCategory}

(* An identifier that is saved has a pattern or a keyword to be found by,  *)
(* and no empty keyword, though the checks look at the fields and what is  *)
(* sent depends on the switches.                                           *)
SavesARule ==
    Here =>
        \A i \in DOMAIN ui.sent :
            LET param == ui.sent[i]
            IN  (param.rule \in {"empty", "null"} => param.keywords # {}) /\ "empty" \notin param.keywords

(* A form saves one identifier, unless a call was performed that got no    *)
(* answer.                                                                 *)
SavesOnce == Here => ui.performed <= 1

(* The categories one can choose from are those there are, once the        *)
(* dialog that manages them is hidden and every read was answered, the     *)
(* newest one last and not rejected.                                       *)
OffersWhatExists ==
    Here /\ ~ui.managing /\ ui.reads = {} /\ ui.fresh => ui.options \subseteq ui.exists
=============================================================================
