------------------------------ MODULE JobWizard ------------------------------
(***************************************************************************)
(* The wizard of the portal that creates a discovery job                   *)
(* (portal/src/pages/create-job): five steps over one record jobData, the  *)
(* component of the step that is shown, and the calls of its submission.   *)
(* React runs the effects of a component when it is mounted and when one   *)
(* of their dependencies changes; here they are part of the action that    *)
(* mounts or changes it.                                                   *)
(***************************************************************************)
EXTENDS ApiClient, JobCron, Sequences, FiniteSets

CONSTANTS
    Accounts,       \* accounts that own catalogs
    Names,          \* names of buckets, instances and databases
    Tables,         \* names of tables
    RdsLimit,       \* databases.length allowed for RDS (50 in the code)
    Schedules,      \* the frequencies the user of the third step picks from
    Offers,         \* bound: sets of sources, one of which a behaviour considers
    Words,          \* lines of the keyword areas of the fourth step
    Extensions,     \* lines of its file extension areas
    MaxVisits,      \* bound: how often the page is mounted
    MaxCalls        \* bound: calls of createJob in one behaviour

VARIABLES
    open,           \* the page /createjob is shown
    visit,          \* how often it has been mounted
    ui,             \* the state of the mounted component
    calls,          \* the calls of createJob and what became of them
    offer           \* bound: the sources that are considered

vars == <<open, visit, ui, calls, offer>>

-----------------------------------------------------------------------------
(***************************************************************************)
(* Types of sources                                                        *)
(***************************************************************************)
Providers == 1 .. 3

(* The sources a provider offers, in the order of their tiles.             *)
SourcesOf(provider) ==
    CASE provider = 1 -> <<"s3", "rds", "glue", "jdbc_aws", "jdbc_proxy">>
      [] provider = 2 -> <<"jdbc_tencent">>
      [] OTHER -> <<"jdbc_google">>

Sources == UNION {{SourcesOf(p)[i] : i \in DOMAIN SourcesOf(p)} : p \in Providers}

(* All jdbc types share the component SelectJDBCCatalog.                   *)
Kind(source) == IF source \in {"s3", "rds", "glue"} THEN source ELSE "jdbc"
Kinds == {"s3", "rds", "glue", "jdbc"}

ViewsOf(kind) ==
    CASE kind = "s3" -> {"instance"}
      [] kind = "glue" -> {"instance", "table", "account"}
      [] OTHER -> {"instance", "table"}

(* A row of a catalog: an instance, bucket or Glue database, one of its    *)
(* tables, or an account.                                                  *)
Instances == [account : Accounts, name : Names, table : {""}]
TablesOfAll == [account : Accounts, name : Names, table : Tables]
AccountRows == [account : Accounts, name : {""}, table : {""}]

(* An entry of jobData.databases: the source of the rows it was made of,   *)
(* the account, the name of the database ("" stands for all of them) and   *)
(* the tables (none of them means all).                                    *)
Entry(source, account, name, tables) ==
    [source |-> source, account |-> account, name |-> name, tables |-> tables]

(* Buckets, instances, Glue databases and accounts become an entry each.   *)
OfBuckets(source, rows) == {{Entry(source, r.account, r.name, {}) : r \in rows}}
OfInstances(source, rows) == {{Entry(source, r.account, r.name, {}) : r \in rows}}
OfGlueDatabases(source, rows) == {{Entry(source, r.account, r.name, {}) : r \in rows}}
(* Mutant: the account is written to the name as well.                     *)
MutantOfAccounts(source, rows) == {{Entry(source, r.account, r.account, {}) : r \in rows}}

OfAccounts(source, rows) == {{Entry(source, r.account, "", {}) : r \in rows}}

(* Tables are combined by the name of their database; the account of the   *)
(* entry is that of the first table of the group.  The order in which the  *)
(* rows were ticked decides which that is: any can be the first.           *)
OfTables(source, rows) ==
    LET names == {r.name : r \in rows}
        group(n) == {r \in rows : r.name = n}
        firsts == {f \in [names -> rows] : \A n \in names : f[n] \in group(n)}
    IN  {{Entry(source, f[n].account, n, {r.table : r \in group(n)}) : n \in names}
            : f \in firsts}

-----------------------------------------------------------------------------
(***************************************************************************)
(* The state of the page when it is mounted                                *)
(***************************************************************************)
NoRules == [exclude |-> {}, include |-> {}, excludeFiles |-> {}, includeFiles |-> {}]

(* The third step: is there a name, how often the job runs, and whether    *)
(* structured and unstructured data are sampled at all.                    *)
InitSettings ==
    [named |-> FALSE,
     frequency |-> [type |-> "on_demand_run", day |-> NoDay, hour |-> 0],
     structured |-> TRUE, unstructured |-> FALSE]

(* INIT_JOB_DATA, after the effect of SelectProvider took the first source.*)
InitJob ==
    [provider |-> 1, source |-> SourcesOf(1)[1], all |-> FALSE, databases |-> {},
     view |-> [k \in Kinds |-> "instance"], settings |-> InitSettings, rules |-> NoRules]

ASSUME WizardAssumption ==
    /\ Schedules \subseteq Frequency
    /\ Offers \subseteq SUBSET Sources
    /\ RdsLimit \in Nat /\ MaxVisits \in Nat /\ MaxCalls \in Nat

(* activeStepIndex, the farthest step the Wizard component has shown, the  *)
(* state of SelectProvider ("loading", "shown" or "stuck"), jobData, the   *)
(* selection inside SelectS3Catalog and its siblings, and isLoading.       *)
Mounted ==
    [step |-> 0, farthest |-> 0, tiles |-> "loading", job |-> InitJob,
     selected |-> {}, isLoading |-> FALSE]

job == ui.job

Init ==
    /\ open = FALSE /\ visit = 0 /\ ui = Mounted /\ calls = << >>
    /\ offer = {}

(* The route /createjob is entered: the component is mounted anew.         *)
Open ==
    /\ ~open /\ open' = TRUE
    /\ visit < MaxVisits /\ visit' = visit + 1
    /\ ui' = Mounted /\ UNCHANGED calls
    /\ offer' \in Offers

(* "Cancel", "Back to the job list", or any link of the navigation.        *)
Leave ==
    /\ open /\ open' = FALSE
    /\ ui' = Mounted /\ UNCHANGED <<visit, calls, offer>>

(* A handler of the step that is shown.                                    *)
At(step, change) ==
    /\ open /\ ui.step = step
    /\ ui' = change
    /\ UNCHANGED <<open, visit, calls, offer>>

-----------------------------------------------------------------------------
(***************************************************************************)
(* Step 0: SelectProvider                                                  *)
(***************************************************************************)

(* The answer to getProviders.  It selects the provider jobData had when   *)
(* the component was mounted, which nothing can have changed; a call that  *)
(* is rejected leaves the spinner for good.                                *)
ProvidersAnswered(wire) ==
    /\ ui.tiles = "loading"
    /\ At(0, [ui EXCEPT !.tiles =
                IF ApiResult(wire) = "resolved" THEN "shown" ELSE "stuck"])

(* changeDataSource: the flags "all" of every kind are reset, the          *)
(* databases are kept.                                                     *)
WithSource(j, source) == [j EXCEPT !.source = source, !.all = FALSE]

(* changeProvider, and the effect on provider_id: the source is kept when  *)
(* the provider has it, otherwise it is the first one.                     *)
WithProvider(j, provider) ==
    LET offered == SourcesOf(provider)
        source == IF \E i \in DOMAIN offered : offered[i] = j.source
                  THEN j.source ELSE offered[1]
    IN  WithSource([j EXCEPT !.provider = provider], source)

Step0 ==
    /\ ui.tiles = "shown"
    /\ \/ \E p \in Providers \ {job.provider} :
             /\ \E i \in DOMAIN SourcesOf(p) : SourcesOf(p)[i] \in offer
             /\ At(0, [ui EXCEPT !.job = WithProvider(@, p)])
       \/ \E i \in DOMAIN SourcesOf(job.provider) :
             /\ SourcesOf(job.provider)[i] \in offer
             /\ At(0, [ui EXCEPT !.job = WithSource(@, SourcesOf(job.provider)[i])])

-----------------------------------------------------------------------------
(***************************************************************************)
(* Step 1: SelectS3Catalog, SelectRDSCatalog, SelectGlueCatalog and        *)
(* SelectJDBCCatalog                                                       *)
(***************************************************************************)
(* The callbacks of the page: the tile, the rows, and the view.            *)
WithAll(j, all) == [j EXCEPT !.all = all]
WithDatabases(j, databases) == [j EXCEPT !.databases = databases]
WithView(j, view) == [j EXCEPT !.view[Kind(j.source)] = view, !.databases = {}]

(* The tiles "all" and "specify" of a source: nothing else changes.        *)
ChooseAll == At(1, [ui EXCEPT !.job = WithAll(@, ~@.all)])

(* Ticking rows of the table in view, which is shown under "specify"; the  *)
(* effect on selectedItems hands them to the page.                         *)
Select(kind, view, ticked, entries) ==
    /\ Kind(job.source) = kind /\ job.view[kind] = view /\ ~job.all
    /\ ticked # ui.selected
    /\ At(1, [ui EXCEPT !.selected = ticked, !.job = WithDatabases(@, entries)])

SelectBuckets ==
    \E ticked \in SUBSET Instances : \E entries \in OfBuckets(job.source, ticked) :
        Select("s3", "instance", ticked, entries)
SelectRdsInstances ==
    \E ticked \in SUBSET Instances : \E entries \in OfInstances(job.source, ticked) :
        Select("rds", "instance", ticked, entries)
SelectRdsTables ==
    \E ticked \in SUBSET TablesOfAll : \E entries \in OfTables(job.source, ticked) :
        Select("rds", "table", ticked, entries)
SelectGlueDatabases ==
    \E ticked \in SUBSET Instances : \E entries \in OfGlueDatabases(job.source, ticked) :
        Select("glue", "instance", ticked, entries)
SelectGlueTables ==
    \E ticked \in SUBSET TablesOfAll : \E entries \in OfTables(job.source, ticked) :
        Select("glue", "table", ticked, entries)
SelectGlueAccounts ==
    \E ticked \in SUBSET AccountRows : \E entries \in OfAccounts(job.source, ticked) :
        Select("glue", "account", ticked, entries)
SelectJdbcInstances ==
    \E ticked \in SUBSET Instances : \E entries \in OfInstances(job.source, ticked) :
        Select("jdbc", "instance", ticked, entries)
SelectJdbcTables ==
    \E ticked \in SUBSET TablesOfAll : \E entries \in OfTables(job.source, ticked) :
        Select("jdbc", "table", ticked, entries)

(* Another view: the databases are cleared, and so is the selection.       *)
ChangeView ==
    /\ ~job.all
    /\ \E v \in ViewsOf(Kind(job.source)) \ {job.view[Kind(job.source)]} :
          At(1, [ui EXCEPT !.selected = {}, !.job = WithView(@, v)])

Step1 ==
    \/ ChooseAll \/ ChangeView
    \/ SelectBuckets
    \/ SelectRdsInstances \/ SelectRdsTables
    \/ SelectGlueDatabases \/ SelectGlueTables \/ SelectGlueAccounts
    \/ SelectJdbcInstances \/ SelectJdbcTables

-----------------------------------------------------------------------------
(***************************************************************************)
(* Steps 2 and 3: JobSettings and AdvancedSettings                         *)
(***************************************************************************)

(* The callbacks of the page for the third step.                           *)
WithSettings(j, settings) == [j EXCEPT !.settings = settings]

Step2(settings) == At(2, [ui EXCEPT !.job = WithSettings(@, settings)])

ChangeName == Step2([job.settings EXCEPT !.named = ~@])

(* The selects of the type, the day and the hour; the day survives when    *)
(* the type is changed and back.                                           *)
ChangeFrequency ==
    \E f \in Schedules :
        /\ Cardinality({k \in DOMAIN f : f[k] # job.settings.frequency[k]}) = 1
        /\ Step2([job.settings EXCEPT !.frequency = f])

(* The depths: S3 has one for each sort of data, and both can be "skip";   *)
(* other sources have only the first, which cannot.                        *)
ChangeDepth ==
    IF job.source = "s3"
    THEN \E depth \in {"structured", "unstructured"} :
            Step2([job.settings EXCEPT ![depth] = ~@])
    ELSE Step2([job.settings EXCEPT !.structured = TRUE])

(* The callbacks for the fourth step: a rule that is switched off loses its*)
(* text, a rule that is switched on has the text that is typed.            *)
WithRule(j, rule, text) == [j EXCEPT !.rules[rule] = text]

(* The toggles and text areas; the file extensions are shown for S3 only.  *)
ChangeRules ==
    \/ \E rule \in {"exclude", "include"}, text \in SUBSET Words :
          At(3, [ui EXCEPT !.job = WithRule(@, rule, text)])
    \/ /\ job.source = "s3"
       /\ \E rule \in {"excludeFiles", "includeFiles"}, text \in SUBSET Extensions :
             At(3, [ui EXCEPT !.job = WithRule(@, rule, text)])

-----------------------------------------------------------------------------
(***************************************************************************)
(* Moving between the steps                                                *)
(***************************************************************************)
(* Mutant: the catalogs of Glue are forgotten.                             *)
MutantNothingSelected(j) == j.source # "glue" /\ ~j.all /\ j.databases = {}

NothingSelected(j) ==
    CASE Kind(j.source) = "s3" -> ~j.all /\ j.databases = {}
      [] Kind(j.source) = "rds" -> ~j.all /\ j.databases = {}
      [] Kind(j.source) = "glue" -> ~j.all /\ j.databases = {}
      [] OTHER -> ~j.all /\ j.databases = {}

SettingsComplete(s) == s.named /\ (s.structured \/ s.unstructured)

(* The limit of RDS looks at what was ticked, for whatever source.         *)
(* Mutant: the limit is off by one.                                        *)
MutantTooManyForRds(j) ==
    j.source = "rds" /\ ~j.all /\ Cardinality(j.databases) > RdsLimit + 1

TooManyForRds(j) ==
    j.source = "rds" /\ ~j.all /\ Cardinality(j.databases) > RdsLimit

RulesDisjoint(rules) ==
    /\ rules.exclude \cap rules.include = {}
    /\ rules.excludeFiles \cap rules.includeFiles = {}

(* checkMustData: whether the step may be left for the requested one.      *)
(* Mutant: the rules are looked at with the settings only.                 *)
MutantCheckMustData(requested) ==
    \/ requested < ui.step
    \/ /\ requested # 1 => ~NothingSelected(job) /\ ~TooManyForRds(job)
       /\ requested = 3 => SettingsComplete(job.settings) /\ RulesDisjoint(job.rules)

CheckMustData(requested) ==
    \/ requested < ui.step
    \/ /\ requested # 1 => ~NothingSelected(job) /\ ~TooManyForRds(job)
       /\ requested = 3 => SettingsComplete(job.settings)
       /\ RulesDisjoint(job.rules)

(* clkFrequencyApply of the wizard looks at the time, which is never null. *)
FrequencyApplied == job.settings.frequency.hour \in 0 .. 23

(* The step is shown and its component mounted: SelectProvider calls       *)
(* changeDataSource with the source it finds, the catalogs of the second   *)
(* step start with nothing selected and say so.                            *)
ShowStep(requested) ==
    [ui EXCEPT
        !.step = requested,
        !.farthest = IF requested > @ THEN requested ELSE @,
        !.tiles = "loading",
        !.selected = {},
        !.job = CASE requested = 0 -> WithSource(@, @.source)
                  [] requested = 1 -> WithDatabases(@, {})
                  [] OTHER -> @]

(* "Next", "Previous", or the title of a step that was shown before.       *)
Navigate(requested) ==
    /\ ~ui.isLoading
    /\ requested # ui.step
    /\ requested <= ui.farthest \/ requested = ui.step + 1
    /\ requested = 3 => FrequencyApplied
    /\ CheckMustData(requested)
    /\ At(ui.step, ShowStep(requested))

-----------------------------------------------------------------------------
(***************************************************************************)
(* Submission                                                              *)
(***************************************************************************)

(* A call of createJob: the mount it was made from, how it ended, whether  *)
(* the service made the job, and the call of startJob that follows the     *)
(* success of a job on demand.                                             *)
NewCall(j) ==
    [visit |-> visit, answer |-> "pending", made |-> FALSE,
     start |-> IF j.settings.frequency.type = "on_demand_run" THEN "wanted" ELSE "none"]

(* Mutant: the button is not held back while a call is pending.            *)
MutantSubmit ==
    /\ open /\ ui.step = 4
    /\ Len(calls) < MaxCalls
    /\ ui' = [ui EXCEPT !.isLoading = TRUE]
    /\ calls' = Append(calls, NewCall(job))
    /\ UNCHANGED <<open, visit, offer>>

(* The button "Run a job" of the last step.                                *)
Submit ==
    /\ open /\ ui.step = 4 /\ ~ui.isLoading
    /\ Len(calls) < MaxCalls
    /\ ui' = [ui EXCEPT !.isLoading = TRUE]
    /\ calls' = Append(calls, NewCall(job))
    /\ UNCHANGED <<open, visit, offer>>

(* A job on demand is started once createJob has resolved.                 *)
(* Mutant: also when it was rejected.                                      *)
MutantStartAfter(start, wire) == IF start = "wanted" THEN "sent" ELSE "none"

StartAfter(start, wire) ==
    IF ApiResult(wire) = "resolved" /\ start = "wanted" THEN "sent" ELSE "none"

(* The form can be submitted again.                                        *)
(* Mutant: the button keeps its loading state.                             *)
MutantFreed(u) == u

Freed(u) == [u EXCEPT !.isLoading = FALSE]

(* The answer to createJob.  A success starts an on-demand job, without    *)
(* waiting, and goes to the list of jobs - from wherever the user is by    *)
(* then.                                                                   *)
CreateAnswered(i, wire) ==
    /\ i \in DOMAIN calls /\ calls[i].answer = "pending"
    /\ \E made \in PerformedBy(wire) :
         calls' = [calls EXCEPT
            ![i].answer = ApiResult(wire),
            ![i].made = made,
            ![i].start = StartAfter(@, wire)]
    /\ IF ApiResult(wire) = "resolved"
       THEN open' = FALSE /\ ui' = Mounted
       ELSE /\ UNCHANGED open
            /\ ui' = IF open /\ visit = calls[i].visit
                     THEN Freed(ui) ELSE ui
    /\ UNCHANGED <<visit, offer>>

(* Nothing awaits the answer of startJob.                                  *)
StartAnswered(i, wire) ==
    /\ i \in DOMAIN calls /\ calls[i].start = "sent"
    /\ \E started \in PerformedBy(wire) :
         calls' = [calls EXCEPT ![i].start = IF started THEN "started" ELSE "failed"]
    /\ UNCHANGED <<open, visit, ui, offer>>

-----------------------------------------------------------------------------
Answer ==
    \E wire \in Wire :
        \/ ProvidersAnswered(wire)
        \/ \E i \in DOMAIN calls : CreateAnswered(i, wire) \/ StartAnswered(i, wire)

Next ==
    \/ Open \/ Leave
    \/ Step0
    \/ Step1
    \/ ChangeName \/ ChangeFrequency \/ ChangeDepth
    \/ ChangeRules
    \/ \E requested \in 0 .. 4 : Navigate(requested)
    \/ Submit
    \/ Answer

Spec == Init /\ [][Next]_vars

-----------------------------------------------------------------------------
(***************************************************************************)
(* Properties                                                              *)
(***************************************************************************)
Jobs ==
    [provider : Providers, source : Sources, all : BOOLEAN,
     databases : SUBSET [source : Sources, account : Accounts,
                         name : Names \cup {""}, tables : SUBSET Tables],
     view : [Kinds -> {"instance", "table", "account"}],
     settings : [named : BOOLEAN, frequency : Frequency,
                 structured : BOOLEAN, unstructured : BOOLEAN],
     rules : [DOMAIN NoRules -> SUBSET (Words \cup Extensions)]]

(* The type of the state of the wizard.                                    *)
TypeOK ==
    /\ open \in BOOLEAN /\ visit \in Nat
    /\ ui \in [step : 0 .. 4, farthest : 0 .. 4, tiles : {"loading", "shown", "stuck"},
               job : Jobs, selected : SUBSET (Instances \cup TablesOfAll \cup AccountRows),
               isLoading : BOOLEAN]
    /\ Len(calls) <= MaxCalls /\ offer \in Offers \cup {{}}
    /\ \A i \in DOMAIN calls :
          /\ calls[i].answer \in {"pending", "resolved", "rejected"}
          /\ calls[i].start \in {"none", "wanted", "sent", "started", "failed"}

(* Whatever way the user took through the steps, back and forth and by the *)
(* titles of steps that were shown before, a job that can be submitted has *)
(* something to scan: all catalogs of its source or some of them           *)
(* (checkMustData; returning to the second step clears the databases,      *)
(* returning to the first one clears the flag).                            *)
SomethingToScan == ui.step = 4 => job.all \/ job.databases # {}

(* No job can be submitted that excludes a keyword or a file extension and *)
(* includes it too, however the two lists were edited (checkMustData and   *)
(* the toggles of AdvancedSettings).                                       *)
RulesAgree ==
    ui.step = 4 =>
        /\ job.rules.exclude \cap job.rules.include = {}
        /\ job.rules.excludeFiles \cap job.rules.includeFiles = {}

(* No RDS job names more databases than the wizard allows, whatever source *)
(* they were ticked for (checkMustData).                                   *)
RdsWithinLimit ==
    ui.step = 4 /\ job.source = "rds" /\ ~job.all => ~(Cardinality(job.databases) > RdsLimit)

(* What the button of the last step submits names something to scan,       *)
(* contradicts itself nowhere and keeps to the limit of its source,        *)
(* although most of what was checked lies several steps back and could be  *)
(* changed since.                                                          *)
SubmitsSoundJob == SomethingToScan /\ RulesAgree /\ RdsWithinLimit

(* One visit to the wizard makes one job: two jobs of the same visit exist *)
(* only if the answer that announced one of them was lost, although the    *)
(* user may leave, come back and press the button at any time.             *)
OneJobPerVisit ==
    \A i, j \in DOMAIN calls :
        /\ i # j /\ calls[i].visit = calls[j].visit
        /\ calls[i].made /\ calls[j].made
        => calls[i].answer = "rejected" \/ calls[j].answer = "rejected"

(* startJob is called for a job that exists, and never for the job of a   *)
(* call that was rejected, though the service may have made it.            *)
OnlyMadeIsStarted ==
    \A i \in DOMAIN calls :
        calls[i].start \in {"sent", "started", "failed"} =>
            calls[i].made /\ calls[i].answer = "resolved"

(* A visit makes one job, and what is started is that job.                 *)
SubmitsOnce == OneJobPerVisit /\ OnlyMadeIsStarted

(* The button is in its loading state only while a submission of this very *)
(* visit is under way: whatever its answer, the form can be submitted      *)
(* again or is gone (the try of submitCreateJob).                          *)
LoadingHasReason ==
    ui.isLoading =>
        \E i \in DOMAIN calls : calls[i].visit = visit /\ calls[i].answer = "pending"

(* What the label of the select promises ("Start hour of day (UTC+8)"): a  *)
(* job is scheduled for the hour that was chosen, on the user's clock.     *)
FiresAtChosenHour ==
    LET f == job.settings.frequency
    IN  ui.step = 4 /\ f.type # "on_demand_run" => LocalHour(ScheduleOf(f)) = f.hour
=============================================================================
