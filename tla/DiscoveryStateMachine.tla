------------------------- MODULE DiscoveryStateMachine -------------------------
(***************************************************************************)
(* The state machine SDPS-DiscoveryJob of an agent account                 *)
(* (lib/agent/DiscoveryJob.json), one execution for each database of a     *)
(* run.  All executions of this module scan the same data source: they     *)
(* share its crawler and the catalog the crawler writes.                   *)
(*                                                                         *)
(* An execution runs two branches in parallel.  One action is one Task     *)
(* state with the Choice states after it; Pass and Wait states have no     *)
(* effect here.  A Task whose retries are used up fails its branch, the    *)
(* other branch and the execution with it.                                 *)
(***************************************************************************)
EXTENDS SplitJob, FiniteSets

CONSTANTS
    Execution,      \* executions of the data source
    Inputs,         \* execution inputs (service.py): a subset of Input
    Table,          \* tables, numbers in the order in which Glue lists them
    Catalogs,       \* sets of tables a crawl or a parser job may leave
    JobNumber,      \* Glue jobs per branch and execution
    MaxOther,       \* bound: crawls and parser jobs started by anybody else
    Faults          \* subset of {"task", "stop", "cancel", "stopParser"}

Branch == {"Structured", "Unstructured"}
DatabaseType == {"s3", "glue", "jdbc"}

\* structured, unstructured: the depth is not "0".  tables: TableName, {} for ",".
Input == [type : DatabaseType, structured : BOOLEAN, unstructured : BOOLEAN,
          tables : SUBSET Table]

ASSUME StateMachineAssumption ==
    /\ Inputs \subseteq Input /\ Inputs # {}
    /\ Table \subseteq Nat /\ IsFiniteSet(Table)
    /\ Catalogs \subseteq SUBSET Table
    /\ JobNumber \in Nat \ {0}
    /\ MaxOther \in Nat

\* Where a branch is: at a Task state, in a Map, or at the Pass state that ends it.
\* "Off": the execution is not running.
Task == {"GetCrawler", "StartCrawler", "GetCrawler2", "UnstructuredCrawler",
         "CreateProcessingJob", "DescribeProcessingJob", "SendSchemaMessage", "SplitJob"}
Result == {"Succeeded", "Failed"}
ExecState == {"NONE", "RUNNING", "SUCCEEDED", "REPORTED_FAILED", "FAILED", "ABORTED"}

VARIABLES
    exec,         \* [Execution -> ExecState], its status
    sent,         \* [Execution -> Result.State of the message on the queue, or "NONE"]
    input,        \* [Execution -> Input]
    at,           \* [Execution -> [Branch -> Task, "Map", Result or "Off"]]
    todo,         \* [Execution -> [Branch -> job items of the Map not yet finished]]
    proc,         \* [Execution -> status of its SageMaker processing job]
    crawler,      \* state of the crawler, "READY" or "RUNNING" (STOPPING is still running)
    lastCrawl,    \* status of its last crawl
    others,       \* crawls and parser jobs anybody else has started
    catalog,      \* [Branch -> tables of the Glue database] the branch scans
    \* history:
    seen,         \* [Execution -> [Branch -> the catalog SplitJob has read]]
    scanned,      \* [Execution -> [Branch -> pairs of a table and the item with its results]]
    erred,        \* [Execution -> [Branch -> the same, in the error table]]
    moved,        \* branches whose catalog has changed between SplitJob and the last item
    crawled       \* executions during which a crawl has succeeded

statusVars  == <<exec, sent, input>>
crawlVars   == <<crawler, lastCrawl, others>>
historyVars == <<seen, scanned, erred, moved, crawled>>
vars == <<statusVars, at, todo, proc, crawlVars, catalog, historyVars>>

----------------------------------------------------------------------------
\* Helpers

Both(x) == [b \in Branch |-> x]

\* service.py: neither a Glue catalog nor a job on named tables needs the crawler.
NeedRunCrawler(i) == i.type # "glue" /\ i.tables = {}

Requested(i, b) ==
    IF b = "Structured" THEN i.structured ELSE i.type = "s3" /\ i.unstructured

\* NeedRunStructured, NeedRunCrawler, IsGlue; NeedRunUnstructured.
FirstTask(i, b) ==
    IF ~Requested(i, b) THEN "Succeeded"
    ELSE IF b = "Unstructured" THEN "UnstructuredCrawler"
    ELSE IF NeedRunCrawler(i) THEN "GetCrawler"
    ELSE IF i.type = "glue" THEN "SendSchemaMessage" ELSE "SplitJob"

At(e, b, place) == exec[e] = "RUNNING" /\ at[e][b] = place
Goto(e, b, place) == at' = [at EXCEPT ![e][b] = place]

\* The execution ends without a message; its branches are gone.
Fail(e, status) ==
    /\ exec' = [exec EXCEPT ![e] = status]
    /\ at'   = [at EXCEPT ![e] = Both("Off")]
    /\ todo' = [todo EXCEPT ![e] = Both({})]
    /\ UNCHANGED <<sent, input>>

\* The catalog of a branch becomes c, under the feet of the Maps that read it.
Recatalog(b, c) ==
    /\ catalog' = [catalog EXCEPT ![b] = c]
    /\ moved' = IF c = catalog[b] THEN moved
                ELSE moved \cup {<<e, b>> : e \in {f \in Execution : At(f, b, "Map")}}

----------------------------------------------------------------------------
\* __exec_run starts the execution.

StartExecution(e, i) ==
    /\ exec[e] = "NONE"
    /\ exec'  = [exec EXCEPT ![e] = "RUNNING"]
    /\ input' = [input EXCEPT ![e] = i]
    /\ at'    = [at EXCEPT ![e] = [b \in Branch |-> FirstTask(i, b)]]
    /\ UNCHANGED <<sent, todo, proc, crawlVars, catalog, historyVars>>

----------------------------------------------------------------------------
\* The structured branch: the crawler.

\* GetCrawler, NeedStartCrawler: a crawl that runs already is joined.
GetCrawler(e) ==
    /\ At(e, "Structured", "GetCrawler")
    /\ Goto(e, "Structured", IF crawler = "READY" THEN "StartCrawler" ELSE "GetCrawler2")
    /\ UNCHANGED <<statusVars, todo, proc, crawlVars, catalog, historyVars>>

\* A crawler that was started meanwhile raises CrawlerRunningException, which is
\* retried after 100, 200 and 400 seconds (see TaskFails).
StartCrawler(e) ==
    /\ At(e, "Structured", "StartCrawler")
    /\ crawler = "READY"
    /\ crawler' = "RUNNING"
    /\ Goto(e, "Structured", "GetCrawler2")
    /\ UNCHANGED <<statusVars, todo, proc, lastCrawl, others, catalog, historyVars>>

\* Mutant: the state of the crawler is not looked at, only that of the last crawl.
MutantCrawlIsOver == TRUE

CrawlIsOver == crawler = "READY"

\* GetCrawler2, CheckCrawlerState; the loop through WaitingForCrawler is a stutter.
GetCrawler2(e) ==
    /\ At(e, "Structured", "GetCrawler2")
    /\ CrawlIsOver
    /\ \/ /\ lastCrawl = "SUCCEEDED"
          /\ Goto(e, "Structured", "SplitJob")
          /\ UNCHANGED <<statusVars, todo>>
       \/ /\ lastCrawl = "FAILED"
          /\ Goto(e, "Structured", "Failed")
          /\ UNCHANGED <<statusVars, todo>>
       \/ \* "Structured Job Failed" finds no LastCrawl.ErrorMessage
          /\ lastCrawl \notin {"SUCCEEDED", "FAILED"}
          /\ Fail(e, "FAILED")
    /\ UNCHANGED <<proc, crawlVars, catalog, historyVars>>

----------------------------------------------------------------------------
\* The unstructured branch: the parser.

\* GetAgentBucketName, UnstructuredCrawler (lists the files to parse).
UnstructuredCrawler(e) ==
    /\ At(e, "Unstructured", "UnstructuredCrawler")
    /\ Goto(e, "Unstructured", "CreateProcessingJob")
    /\ UNCHANGED <<statusVars, todo, proc, crawlVars, catalog, historyVars>>

CreateProcessingJob(e) ==
    /\ At(e, "Unstructured", "CreateProcessingJob")
    /\ proc' = [proc EXCEPT ![e] = "InProgress"]
    /\ Goto(e, "Unstructured", "DescribeProcessingJob")
    /\ UNCHANGED <<statusVars, todo, crawlVars, catalog, historyVars>>

\* Mutant: a job that failed is waited out too.
MutantNextOf == [Completed |-> "SendSchemaMessage"]

\* "Job Complete?": any other status is waited out, a stopped job's too.
NextOf == [Completed |-> "SendSchemaMessage", Failed |-> "Failed"]

DescribeProcessingJob(e) ==
    /\ At(e, "Unstructured", "DescribeProcessingJob")
    /\ proc[e] \in DOMAIN NextOf
    /\ Goto(e, "Unstructured", NextOf[proc[e]])
    /\ UNCHANGED <<statusVars, todo, proc, crawlVars, catalog, historyVars>>

----------------------------------------------------------------------------
\* Both branches: schema message, SplitJob, Map.

\* SendSchemaMessageGlue and SendSchemaMessageUnstructured: the message goes to
\* the crawler queue of the admin account.
SendSchemaMessage(e, b) ==
    /\ At(e, b, "SendSchemaMessage")
    /\ Goto(e, b, "SplitJob")
    /\ UNCHANGED <<statusVars, todo, proc, crawlVars, catalog, historyVars>>

Items(i, c) ==
    IF i.tables # {} THEN {NamedItem} ELSE JobItems(Cardinality(c), JobNumber)

\* Mutant: a Map without items is entered.
MutantAfterSplit(items) == "Map"

\* NeedRunStructuredJob, NeedRunUnstructuredJob.
AfterSplit(items) == IF items = {} THEN "Succeeded" ELSE "Map"

\* SplitJob, SplitJobUnstructured.
SplitTables(e, b) ==
    LET items == Items(input[e], catalog[b])
    IN  /\ At(e, b, "SplitJob")
        /\ Goto(e, b, AfterSplit(items))
        /\ todo' = [todo EXCEPT ![e][b] = items]
        /\ seen' = [seen EXCEPT ![e][b] = catalog[b]]
        /\ UNCHANGED <<statusVars, proc, crawlVars, catalog, scanned, erred, moved, crawled>>

\* get_tables of the Glue jobs: the names, or a range of positions in the list.
Position(t, c) == Cardinality({u \in c : u < t})

TablesOf(i, c, item) ==
    IF item = NamedItem THEN i.tables \cap c
    ELSE {t \in c : item.begin <= Position(t, c) /\ Position(t, c) < item.end}

\* One Glue job, from the moment it has read the catalog.  A table whose detection
\* raises goes to the error table, and the job goes on and succeeds.  A table is in
\* both if an attempt failed after it had written the table, and the job was started
\* again (States.TaskFailed).
GlueJob(e, b, item) ==
    /\ At(e, b, "Map")
    /\ item \in todo[e][b]
    /\ \E good \in SUBSET TablesOf(input[e], catalog[b], item) :
       \E bad \in SUBSET TablesOf(input[e], catalog[b], item) :
           /\ good \cup bad = TablesOf(input[e], catalog[b], item)
           /\ good \cap bad # {} => "task" \in Faults
           /\ scanned' = [scanned EXCEPT ![e][b] = @ \cup (good \X {item})]
           /\ erred'   = [erred EXCEPT ![e][b] = @ \cup (bad \X {item})]
    /\ todo' = [todo EXCEPT ![e][b] = @ \ {item}]
    /\ Goto(e, b, IF todo[e][b] = {item} THEN "Succeeded" ELSE "Map")
    /\ UNCHANGED <<statusVars, proc, crawlVars, catalog, seen, moved, crawled>>

----------------------------------------------------------------------------
\* The end of an execution.

\* Mutant: the result of the structured branch is always taken.
MutantFiltered(e) == at[e]["Structured"]

\* Choice, FilterUnstructuredResult, FilterStructuredResult.
Filtered(e) ==
    IF at[e]["Unstructured"] = "Failed" THEN "Failed" ELSE at[e]["Structured"]

\* Mutant: a failed result is kept back.
MutantSendMessage(e) ==
    /\ exec[e] = "RUNNING"
    /\ \A b \in Branch : at[e][b] \in Result
    /\ exec' = [exec EXCEPT ![e] =
                   IF Filtered(e) = "Succeeded" THEN "SUCCEEDED" ELSE "REPORTED_FAILED"]
    /\ sent' = [sent EXCEPT ![e] = IF Filtered(e) = "Succeeded" THEN "Succeeded" ELSE "NONE"]
    /\ UNCHANGED <<input, at, todo, proc, crawlVars, catalog, historyVars>>

\* "SQS SendMessage", the last state.
SendMessage(e) ==
    /\ exec[e] = "RUNNING"
    /\ \A b \in Branch : at[e][b] \in Result
    /\ exec' = [exec EXCEPT ![e] =
                   IF Filtered(e) = "Succeeded" THEN "SUCCEEDED" ELSE "REPORTED_FAILED"]
    /\ sent' = [sent EXCEPT ![e] = Filtered(e)]
    /\ UNCHANGED <<input, at, todo, proc, crawlVars, catalog, historyVars>>

\* A Task has used up its retries (or has none, like SendMessage): no state
\* catches the error.
TaskFails(e) ==
    /\ exec[e] = "RUNNING"
    /\ \/ "task" \in Faults
       \/ At(e, "Structured", "StartCrawler") /\ crawler = "RUNNING"
    /\ Fail(e, "FAILED")
    /\ UNCHANGED <<proc, crawlVars, catalog, historyVars>>

\* __stop_step_function.  The crawler and the processing job go on.
StopExecution(e) ==
    /\ "stop" \in Faults
    /\ exec[e] = "RUNNING"
    /\ Fail(e, "ABORTED")
    /\ UNCHANGED <<proc, crawlVars, catalog, historyVars>>

----------------------------------------------------------------------------
\* The services: SageMaker and the crawler of the data source, started also by a
\* refresh or by scans that are not modelled here.

OtherCrawl ==
    /\ crawler = "READY"
    /\ others < MaxOther
    /\ crawler' = "RUNNING"
    /\ others' = others + 1
    /\ UNCHANGED <<statusVars, at, todo, proc, lastCrawl, catalog, historyVars>>

\* The parser of a scan of the same bucket that is not modelled here.
OtherParser(c) ==
    /\ others < MaxOther
    /\ others' = others + 1
    /\ c # catalog["Unstructured"]
    /\ Recatalog("Unstructured", c)
    /\ UNCHANGED <<statusVars, at, todo, proc, crawler, lastCrawl, seen, scanned, erred, crawled>>

CrawlEnds(status, c) ==
    /\ crawler = "RUNNING"
    /\ status = "CANCELLED" => "cancel" \in Faults
    /\ crawler' = "READY"
    /\ lastCrawl' = status
    /\ Recatalog("Structured", c)
    /\ crawled' = IF status # "SUCCEEDED" THEN crawled
                  ELSE crawled \cup {e \in Execution : exec[e] = "RUNNING"}
    /\ UNCHANGED <<statusVars, at, todo, proc, others, seen, scanned, erred>>

ProcessingJobEnds(e, status, c) ==
    /\ proc[e] = "InProgress"
    /\ status = "Stopped" => "stopParser" \in Faults
    /\ proc' = [proc EXCEPT ![e] = status]
    /\ Recatalog("Unstructured", c)
    /\ UNCHANGED <<statusVars, at, todo, crawlVars, seen, scanned, erred, crawled>>

----------------------------------------------------------------------------
Init ==
    /\ exec  = [e \in Execution |-> "NONE"]
    /\ sent  = [e \in Execution |-> "NONE"]
    /\ input = [e \in Execution |-> CHOOSE i \in Inputs : TRUE]   \* not yet given
    /\ at    = [e \in Execution |-> Both("Off")]
    /\ todo  = [e \in Execution |-> Both({})]
    /\ proc  = [e \in Execution |-> "NONE"]
    /\ crawler = "READY"
    /\ lastCrawl \in {"NONE", "SUCCEEDED", "FAILED", "CANCELLED"}
    /\ others = 0
    /\ catalog \in [Branch -> Catalogs]
    /\ seen    = [e \in Execution |-> Both({})]
    /\ scanned = [e \in Execution |-> Both({})]
    /\ erred   = [e \in Execution |-> Both({})]
    /\ moved   = {}
    /\ crawled = {}

CrawlerNext == \E c \in Catalogs : \E s \in {"SUCCEEDED", "FAILED", "CANCELLED"} : CrawlEnds(s, c)

ProcessingNext(e) ==
    \E c \in Catalogs : \E s \in {"Completed", "Failed", "Stopped"} : ProcessingJobEnds(e, s, c)

\* The steps Step Functions takes by itself.
BranchNext(e, b) ==
    \/ b = "Structured" /\ (GetCrawler(e) \/ StartCrawler(e) \/ GetCrawler2(e))
    \/ b = "Unstructured" /\ (UnstructuredCrawler(e) \/ CreateProcessingJob(e)
                                \/ DescribeProcessingJob(e))
    \/ SendSchemaMessage(e, b) \/ SplitTables(e, b)
    \/ \E item \in todo[e][b] : GlueJob(e, b, item)

Next ==
    \/ \E e \in Execution :
           \/ \E i \in Inputs : StartExecution(e, i)
           \/ \E b \in Branch : BranchNext(e, b)
           \/ SendMessage(e) \/ TaskFails(e) \/ StopExecution(e)
           \/ ProcessingNext(e)
    \/ OtherCrawl \/ CrawlerNext
    \/ \E c \in Catalogs : OtherParser(c)

Spec == Init /\ [][Next]_vars

\* Fairness: Step Functions takes the steps of every branch, crawls and
\* processing jobs end, and CrawlerRunningException is raised only so often.
Fairness ==
    /\ \A e \in Execution :
           /\ \A b \in Branch : WF_vars(BranchNext(e, b))
           /\ WF_vars(SendMessage(e))
           /\ WF_vars(ProcessingNext(e))
           /\ WF_vars(At(e, "Structured", "StartCrawler") /\ crawler = "RUNNING" /\ TaskFails(e))
    /\ WF_vars(CrawlerNext)

FairSpec == Spec /\ Fairness

----------------------------------------------------------------------------
\* Properties

\* The type invariant; with it, that a Map is entered only for items and left
\* when there are none, so that no branch waits for nothing.
TypeOK ==
    /\ exec \in [Execution -> ExecState]
    /\ sent \in [Execution -> Result \cup {"NONE"}]
    /\ input \in [Execution -> Inputs]
    /\ at \in [Execution -> [Branch -> Task \cup Result \cup {"Map", "Off"}]]
    /\ todo \in [Execution -> [Branch -> SUBSET JobItem]]
    /\ \A e \in Execution : \A b \in Branch : at[e][b] = "Map" <=> todo[e][b] # {}
    /\ proc \in [Execution -> {"NONE", "InProgress", "Completed", "Failed", "Stopped"}]
    /\ crawler \in {"READY", "RUNNING"}
    /\ lastCrawl \in {"NONE", "SUCCEEDED", "FAILED", "CANCELLED"}
    /\ others \in 0..MaxOther
    /\ catalog \in [Branch -> Catalogs]
    /\ seen \in [Execution -> [Branch -> Catalogs \cup {{}}]]
    /\ scanned \in [Execution -> [Branch -> SUBSET (Table \X JobItem)]]
    /\ erred \in [Execution -> [Branch -> SUBSET (Table \X JobItem)]]
    /\ moved \subseteq Execution \X Branch
    /\ crawled \subseteq Execution

\* What the admin account relies on: an execution that ends normally has sent one
\* result, one that fails or is stopped has sent none.
Contract == INSTANCE ExecutionContract WITH exec <- exec, sent <- sent
KeepsContract == Contract!Spec

\* Every execution ends, unless its processing job is stopped by somebody.
EveryExecutionEnds == \A e \in Execution : exec[e] = "RUNNING" ~> exec[e] # "RUNNING"

\* Success is reported only if every table of the catalog that was split, or every
\* table named, was taken by exactly one Glue job, in each branch that was asked for,
\* which left its results or named it in the error table, so that none is lost in the
\* division; unless the catalog changed while the Glue jobs were reading it.
ToScan(e, b) ==
    IF input[e].tables = {} THEN seen[e][b] ELSE input[e].tables \cap seen[e][b]

Written(e, b) == scanned[e][b] \cup erred[e][b]

EveryTableTakenOnce ==
    \A e \in Execution, b \in Branch :
        sent[e] = "Succeeded" /\ Requested(input[e], b) /\ <<e, b>> \notin moved =>
            \A t \in ToScan(e, b) :
                \E s \in Written(e, b) : {x \in Written(e, b) : x[1] = t} = {s}

\* A branch that failed is never reported as a success: the merge of the two
\* results keeps the failure, whichever branch it is in.
FailureIsReported ==
    \A e \in Execution : sent[e] = "Succeeded" => \A b \in Branch : at[e][b] = "Succeeded"

\* A branch never reads a catalog that was not written for it: a scan that needs
\* the crawler sees a crawl succeed during the execution (it neither overtakes a
\* crawl somebody else has started nor takes the success of an earlier one for its
\* own), and the unstructured branch sees its own processing job complete.
Scans(e, b) ==
    /\ exec[e] = "RUNNING" \/ sent[e] = "Succeeded"
    /\ Requested(input[e], b)
    /\ at[e][b] \in {"SendSchemaMessage", "SplitJob", "Map", "Succeeded"}

CatalogIsFresh ==
    \A e \in Execution :
        /\ Scans(e, "Structured") /\ NeedRunCrawler(input[e]) => e \in crawled
        /\ Scans(e, "Unstructured") => proc[e] = "Completed"
=============================================================================
