--------------------- MODULE DiscoveryStateMachine_proof ---------------------
(***************************************************************************)
(* Proofs about DiscoveryStateMachine, for any number of executions of a   *)
(* data source, any tables, Glue jobs and crawls: its types, that it       *)
(* implements the contract the admin account relies on, that a success is  *)
(* reported only if both branches succeeded and read a catalog written for *)
(* them, and that then every table was taken by exactly one Glue job.      *)
(***************************************************************************)
EXTENDS DiscoveryStateMachine, FiniteSetTheorems, TLAPS

----------------------------------------------------------------------------
\* The items of SplitJob partition the tables, whatever the number of tables and
\* of jobs.

\* Division with remainder, for any positive divisor.
LEMMA Division ==
    ASSUME NEW a \in Int, NEW b \in Nat \ {0}
    PROVE  /\ a \div b \in Int
           /\ b * (a \div b) <= a
           /\ a < b * (a \div b) + b
  OBVIOUS

LEMMA RoundUp ==
    ASSUME NEW a \in Nat, NEW b \in Nat \ {0}
    PROVE  /\ DivideAndRoundUp(a, b) \in Int
           /\ a <= b * DivideAndRoundUp(a, b)
           /\ b * DivideAndRoundUp(a, b) < a + b
  BY Division DEF DivideAndRoundUp

LEMMA Monotone ==
    ASSUME NEW i \in Int, NEW j \in Int, NEW s \in Nat, i <= j
    PROVE  i * s <= j * s
  OBVIOUS

\* The size of the items of a database that is not empty: the items cover it.
LEMMA Sizes ==
    ASSUME NEW tables \in Nat \ {0}, NEW jobs \in Nat \ {0}
    PROVE  /\ ActualJobNumber(tables, jobs) \in Nat \ {0}
           /\ ActualJobNumber(tables, jobs) <= jobs
           /\ TableSize(tables, jobs) \in Nat \ {0}
           /\ tables <= ActualJobNumber(tables, jobs) * TableSize(tables, jobs)
  <1> DEFINE k == ActualJobNumber(tables, jobs)
             s == TableSize(tables, jobs)
  <1>1. k \in Nat \ {0} /\ k <= jobs
    BY DEF ActualJobNumber
  <1> HIDE DEF k
  <1>2. s \in Int /\ tables <= k * s
    BY <1>1, RoundUp DEF TableSize, k
  <1> HIDE DEF s
  <1>3. s > 0
    <2>1. SUFFICES ASSUME s <= 0 PROVE FALSE
      BY <1>2
    <2>2. k * s <= 0
      BY <2>1, <1>1, <1>2
    <2> QED BY <2>2, <1>1, <1>2
  <1> QED BY <1>1, <1>2, <1>3 DEF k, s

\* An item is a range that is not empty and does not leave the list of tables.
THEOREM ItemsAreRanges ==
    ASSUME NEW tables \in Nat, NEW jobs \in Nat \ {0},
           NEW item \in JobItems(tables, jobs)
    PROVE  item \in JobItem /\ 0 <= item.begin /\ item.begin < item.end /\ item.end <= tables
  <1> DEFINE k == ActualJobNumber(tables, jobs)
             s == TableSize(tables, jobs)
  <1>1. PICK i \in 0..(k - 1) :
            /\ TableBegin(tables, jobs, i) < TableEnd(tables, jobs, i)
            /\ item = [begin |-> TableBegin(tables, jobs, i),
                       end |-> TableEnd(tables, jobs, i)]
    BY DEF JobItems
  <1>2. CASE tables = 0
    BY <1>1, <1>2 DEF ActualJobNumber
  <1>3. CASE tables # 0
    <2>1. k \in Nat \ {0} /\ s \in Nat \ {0}
      BY <1>3, Sizes
    <2> HIDE DEF k, s
    <2>2. i \in Nat /\ i * s \in Nat /\ (i + 1) * s \in Nat
      BY <2>1, <1>1
    <2>3. /\ TableBegin(tables, jobs, i) = i * s
          /\ TableEnd(tables, jobs, i) \in Nat
          /\ TableEnd(tables, jobs, i) <= tables
      BY <2>2 DEF TableBegin, TableEnd, s
    <2> QED BY <1>1, <2>2, <2>3 DEF JobItem
  <1> QED BY <1>2, <1>3

\* Every table is in exactly one item: its position is in one range and no other.
THEOREM ItemsPartition ==
    ASSUME NEW tables \in Nat, NEW jobs \in Nat \ {0}, NEW p \in 0..(tables - 1)
    PROVE  \E item \in JobItems(tables, jobs) :
               /\ item.begin <= p /\ p < item.end
               /\ \A other \in JobItems(tables, jobs) :
                      other.begin <= p /\ p < other.end => other = item
  <1> DEFINE k == ActualJobNumber(tables, jobs)
             s == TableSize(tables, jobs)
             begin(i) == TableBegin(tables, jobs, i)
             end(i) == TableEnd(tables, jobs, i)
  <1>1. k \in Nat \ {0} /\ s \in Nat \ {0} /\ tables <= k * s
    BY Sizes
  <1> HIDE DEF k, s
  <1>2. \A i \in Nat : /\ i * s \in Nat /\ (i + 1) * s = i * s + s
                       /\ begin(i) = i * s
                       /\ end(i) = IF i * s + s > tables THEN tables ELSE i * s + s
    BY <1>1 DEF TableBegin, TableEnd, s
  <1> HIDE DEF begin, end
  <1>3. \A i \in Nat : begin(i) <= p /\ p < end(i) <=> i * s <= p /\ p < i * s + s
    BY <1>1, <1>2
  <1>4. PICK q \in Nat : q < k /\ q * s <= p /\ p < q * s + s
    <2> DEFINE d == p \div s
    <2>1. d \in Int /\ s * d <= p /\ p < s * d + s
      BY <1>1, Division
    <2> HIDE DEF d
    <2>2. d * s = s * d
      BY <2>1, <1>1
    <2>3. d >= 0
      <3>1. SUFFICES ASSUME d <= -1 PROVE FALSE
        BY <2>1
      <3>2. d * s <= (-1) * s
        BY <3>1, <2>1, <1>1, Monotone
      <3> QED BY <3>2, <2>1, <2>2, <1>1
    <2>4. d < k
      <3>1. SUFFICES ASSUME k <= d PROVE FALSE
        BY <2>1, <1>1
      <3>2. k * s <= d * s
        BY <3>1, <2>1, <1>1, Monotone
      <3> QED BY <3>2, <2>1, <2>2, <1>1
    <2> QED BY <2>1, <2>2, <2>3, <2>4
  <1>5. \A i \in Nat : i * s <= p /\ p < i * s + s => i = q
    <2> SUFFICES ASSUME NEW i \in Nat, i * s <= p, p < i * s + s PROVE i = q
      OBVIOUS
    <2>1. CASE i < q
      <3>1. (i + 1) * s <= q * s
        BY <2>1, <1>1, Monotone
      <3> QED BY <3>1, <1>2, <1>1, <1>4
    <2>2. CASE q < i
      <3>1. (q + 1) * s <= i * s
        BY <2>2, <1>1, Monotone
      <3> QED BY <3>1, <1>2, <1>1, <1>4
    <2> QED BY <2>1, <2>2
  <1> DEFINE range(i) == [begin |-> begin(i), end |-> end(i)]
  <1>6. range(q) \in JobItems(tables, jobs)
    <2>1. q \in 0..(k - 1)
      BY <1>4, <1>1
    <2>2. begin(q) < end(q)
      BY <1>3, <1>4, <1>2, <1>1
    <2> QED BY <2>1, <2>2 DEF JobItems, k, begin, end
  <1>7. ASSUME NEW other \in JobItems(tables, jobs), other.begin <= p, p < other.end
        PROVE  other = range(q)
    <2>1. PICK i \in 0..(k - 1) : other = range(i)
      BY DEF JobItems, k, begin, end
    <2>2. i \in Nat /\ begin(i) <= p /\ p < end(i)
      BY <2>1, <1>7, <1>1
    <2> QED BY <2>1, <2>2, <1>3, <1>5
  <1>8. range(q).begin <= p /\ p < range(q).end
    BY <1>3, <1>4
  <1> QED BY <1>6, <1>7, <1>8

----------------------------------------------------------------------------

USE DEF statusVars, crawlVars, historyVars

LEMMA FiniteCatalog ==
    ASSUME NEW c \in Catalogs
    PROVE  IsFiniteSet(c) /\ Cardinality(c) \in Nat
  BY StateMachineAssumption, FS_Subset, FS_CardinalityType

LEMMA ItemsType ==
    ASSUME NEW i \in Inputs, NEW c \in Catalogs
    PROVE  Items(i, c) \in SUBSET JobItem
  BY FiniteCatalog, ItemsAreRanges, StateMachineAssumption DEF Items, NamedItem, JobItem

LEMMA TablesType ==
    ASSUME NEW i \in Inputs, NEW c \in Catalogs, NEW item \in JobItem
    PROVE  TablesOf(i, c, item) \X {item} \subseteq Table \X JobItem
  BY StateMachineAssumption DEF TablesOf

LEMMA FirstTaskType ==
    ASSUME NEW i \in Inputs, NEW b \in Branch
    PROVE  FirstTask(i, b) \in Task \cup {"Succeeded"}
  BY DEF FirstTask, Task

\* An execution that was not started is nowhere.
NotStarted == \A e \in Execution : exec[e] = "NONE" => \A b \in Branch : at[e][b] = "Off"
TypeInv == TypeOK /\ NotStarted

LEMMA TypeInit == ASSUME Init PROVE TypeInv
  BY StateMachineAssumption
     DEF Init, TypeInv, NotStarted, TypeOK, Both, Branch, ExecState, Result, Task, JobItem

\* An execution that ends without a message keeps the types.
LEMMA TypeFail ==
    ASSUME TypeInv, NEW e \in Execution, NEW status \in {"FAILED", "ABORTED"}, Fail(e, status),
           UNCHANGED <<proc, crawlVars, catalog, historyVars>>
    PROVE  TypeInv'
<1>1. at' \in [Execution -> [Branch -> Task \cup Result \cup {"Map", "Off"}]]
  BY DEF TypeInv, TypeOK, Fail, Both
<1>2. todo' \in [Execution -> [Branch -> SUBSET JobItem]]
  BY DEF TypeInv, TypeOK, Fail, Both
<1>3. \A f \in Execution, b \in Branch :
          IF f = e THEN at'[f][b] = "Off" /\ todo'[f][b] = {}
          ELSE at'[f][b] = at[f][b] /\ todo'[f][b] = todo[f][b]
  BY DEF TypeInv, TypeOK, Fail, Both
<1>4. ASSUME NEW f \in Execution, NEW b \in Branch
      PROVE  at'[f][b] = "Map" <=> todo'[f][b] # {}
  <2>1. CASE f = e
    BY <1>3, <2>1
  <2>2. CASE f # e
    BY <1>3, <2>2 DEF TypeInv, TypeOK
  <2> QED BY <2>1, <2>2
<1>5. exec' \in [Execution -> ExecState] /\ NotStarted'
  BY <1>3 DEF TypeInv, TypeOK, NotStarted, Fail, ExecState
<1> QED BY <1>1, <1>2, <1>4, <1>5 DEF TypeInv, TypeOK, Fail

\* What a Glue job writes: pairs of tables and items.
LEMMA GlueJobTypes ==
    ASSUME TypeInv, NEW e \in Execution, NEW b \in Branch, NEW item \in JobItem,
           GlueJob(e, b, item)
    PROVE  /\ scanned' \in [Execution -> [Branch -> SUBSET (Table \X JobItem)]]
           /\ erred' \in [Execution -> [Branch -> SUBSET (Table \X JobItem)]]
<1> DEFINE tables == TablesOf(input[e], catalog[b], item)
<1>1. PICK good \in SUBSET TablesOf(input[e], catalog[b], item),
           bad \in SUBSET TablesOf(input[e], catalog[b], item) :
         /\ good \cup bad = TablesOf(input[e], catalog[b], item)
         /\ scanned' = [scanned EXCEPT ![e][b] = @ \cup (good \X {item})]
         /\ erred' = [erred EXCEPT ![e][b] = @ \cup (bad \X {item})]
  BY Zenon DEF GlueJob
<1>2. input[e] \in Inputs /\ catalog[b] \in Catalogs
  BY DEF TypeInv, TypeOK
<1>3. tables \X {item} \subseteq Table \X JobItem
  BY <1>2, TablesType
<1>4. /\ scanned \in [Execution -> [Branch -> SUBSET (Table \X JobItem)]]
      /\ erred \in [Execution -> [Branch -> SUBSET (Table \X JobItem)]]
  BY DEF TypeInv, TypeOK
<1>5. good \X {item} \subseteq Table \X JobItem /\ bad \X {item} \subseteq Table \X JobItem
  BY <1>1, <1>3
<1> HIDE DEF tables
<1> QED BY <1>1, <1>4, <1>5

\* What it leaves alone.
LEMMA GlueJobLeaves ==
    ASSUME TypeInv, NEW e \in Execution, NEW b \in Branch, NEW item, GlueJob(e, b, item)
    PROVE  \A f \in Execution, a \in Branch : <<f, a>> # <<e, b>> =>
               scanned'[f][a] = scanned[f][a] /\ erred'[f][a] = erred[f][a]
<1> DEFINE tables == TablesOf(input[e], catalog[b], item)
<1>1. PICK good \in SUBSET TablesOf(input[e], catalog[b], item),
           bad \in SUBSET TablesOf(input[e], catalog[b], item) :
         /\ scanned' = [scanned EXCEPT ![e][b] = @ \cup (good \X {item})]
         /\ erred' = [erred EXCEPT ![e][b] = @ \cup (bad \X {item})]
  BY Zenon DEF GlueJob
<1> HIDE DEF tables
<1> QED BY <1>1 DEF TypeInv, TypeOK

\* Every table of the item, to one place or the other.
LEMMA GlueJobAll ==
    ASSUME TypeInv, NEW e \in Execution, NEW b \in Branch, NEW item, GlueJob(e, b, item)
    PROVE  scanned'[e][b] \cup erred'[e][b] =
               (scanned[e][b] \cup erred[e][b]) \cup (TablesOf(input[e], catalog[b], item) \X {item})
<1> DEFINE tables == TablesOf(input[e], catalog[b], item)
<1>1. PICK good \in SUBSET TablesOf(input[e], catalog[b], item),
           bad \in SUBSET TablesOf(input[e], catalog[b], item) :
         /\ good \cup bad = TablesOf(input[e], catalog[b], item)
         /\ scanned' = [scanned EXCEPT ![e][b] = @ \cup (good \X {item})]
         /\ erred' = [erred EXCEPT ![e][b] = @ \cup (bad \X {item})]
  BY Zenon DEF GlueJob
<1>2. /\ scanned'[e][b] = scanned[e][b] \cup (good \X {item})
      /\ erred'[e][b] = erred[e][b] \cup (bad \X {item})
  BY <1>1 DEF TypeInv, TypeOK
<1>3. (good \X {item}) \cup (bad \X {item}) = tables \X {item}
  BY <1>1
<1> HIDE DEF tables
<1>4. scanned'[e][b] \cup erred'[e][b] = (scanned[e][b] \cup erred[e][b]) \cup (tables \X {item})
  BY <1>2, <1>3
<1> QED BY <1>4 DEF tables

\* The steps of one branch.
LEMMA TypeBranch ==
    ASSUME TypeInv, NEW e \in Execution, NEW b \in Branch, BranchNext(e, b)
    PROVE  TypeInv'
<1> USE DEF TypeInv, NotStarted, TypeOK, At, Goto, Task, Result
<1>1. CASE b = "Structured" /\ GetCrawler(e)
  BY <1>1 DEF GetCrawler
<1>2. CASE b = "Structured" /\ StartCrawler(e)
  BY <1>2 DEF StartCrawler
<1>3. CASE b = "Structured" /\ GetCrawler2(e)
  <2>1. CASE lastCrawl \notin {"SUCCEEDED", "FAILED"}
    <3>1. Fail(e, "FAILED") /\ UNCHANGED <<proc, crawlVars, catalog, historyVars>>
      BY <1>3, <2>1 DEF GetCrawler2
    <3> QED BY <3>1, TypeFail
  <2>2. CASE lastCrawl \in {"SUCCEEDED", "FAILED"}
    <3>1. PICK place \in {"SplitJob", "Failed"} : at' = [at EXCEPT ![e]["Structured"] = place]
      BY <1>3, <2>2 DEF GetCrawler2
    <3>2. /\ UNCHANGED <<statusVars, todo, proc, crawlVars, catalog, historyVars>>
          /\ exec[e] = "RUNNING" /\ at[e]["Structured"] = "GetCrawler2"
      BY <1>3, <2>2 DEF GetCrawler2
    <3> QED BY <3>1, <3>2, <1>3
  <2> QED BY <2>1, <2>2
<1>4. CASE b = "Unstructured" /\ UnstructuredCrawler(e)
  BY <1>4 DEF UnstructuredCrawler
<1>5. CASE b = "Unstructured" /\ CreateProcessingJob(e)
  BY <1>5 DEF CreateProcessingJob
<1>6. CASE b = "Unstructured" /\ DescribeProcessingJob(e)
  BY <1>6 DEF DescribeProcessingJob, NextOf
<1>7. CASE SendSchemaMessage(e, b)
  BY <1>7 DEF SendSchemaMessage
<1>8. CASE SplitTables(e, b)
  <2>1. Items(input[e], catalog[b]) \in SUBSET JobItem
    BY ItemsType
  <2> QED BY <1>8, <2>1 DEF SplitTables, AfterSplit
<1>9. CASE \E item \in todo[e][b] : GlueJob(e, b, item)
  <2>1. PICK item \in todo[e][b] : GlueJob(e, b, item)
    BY <1>9
  <2>2. item \in JobItem
    BY <2>1
  <2>3. /\ scanned' \in [Execution -> [Branch -> SUBSET (Table \X JobItem)]]
        /\ erred' \in [Execution -> [Branch -> SUBSET (Table \X JobItem)]]
    BY <2>1, <2>2, GlueJobTypes
  <2> QED BY <2>1, <2>2, <2>3 DEF GlueJob
<1> QED BY <1>1, <1>2, <1>3, <1>4, <1>5, <1>6, <1>7, <1>8, <1>9 DEF BranchNext

LEMMA TypeStep == ASSUME TypeInv, Next PROVE TypeInv'
<1>1. CASE \E e \in Execution, b \in Branch : BranchNext(e, b)
  BY <1>1, TypeBranch
<1>2. ASSUME NEW e \in Execution, NEW i \in Inputs, StartExecution(e, i) PROVE TypeInv'
  <2>1. \A b \in Branch : FirstTask(i, b) \in Task \cup {"Succeeded"}
    BY FirstTaskType
  <2>2. /\ at' \in [Execution -> [Branch -> Task \cup Result \cup {"Map", "Off"}]]
        /\ \A b \in Branch : at'[e][b] \in Task \cup {"Succeeded"}
        /\ \A f \in Execution \ {e} : at'[f] = at[f]
    BY <1>2, <2>1 DEF StartExecution, TypeInv, TypeOK, Result
  <2>3. \A b \in Branch : at'[e][b] # "Map" /\ todo[e][b] = {}
    BY <1>2, <2>2 DEF StartExecution, TypeInv, NotStarted, TypeOK, Task
  <2>4. exec' \in [Execution -> ExecState] /\ NotStarted'
    BY <1>2, <2>2 DEF StartExecution, TypeInv, NotStarted, TypeOK, ExecState
  <2>5. ASSUME NEW f \in Execution, NEW b \in Branch
        PROVE  at'[f][b] = "Map" <=> todo'[f][b] # {}
    <3>1. CASE f = e
      BY <1>2, <2>3, <3>1 DEF StartExecution
    <3>2. CASE f # e
      BY <1>2, <2>2, <3>2 DEF StartExecution, TypeInv, TypeOK
    <3> QED BY <3>1, <3>2
  <2> QED BY <1>2, <2>2, <2>4, <2>5 DEF StartExecution, TypeInv, TypeOK
<1>3. ASSUME NEW e \in Execution, SendMessage(e) PROVE TypeInv'
  BY <1>3 DEF SendMessage, Filtered, TypeInv, NotStarted, TypeOK, ExecState, Branch, Result
<1>4. ASSUME NEW e \in Execution, TaskFails(e) \/ StopExecution(e) PROVE TypeInv'
  BY <1>4, TypeFail DEF TaskFails, StopExecution
<1>5. ASSUME NEW e \in Execution, ProcessingNext(e) PROVE TypeInv'
  BY <1>5 DEF ProcessingNext, ProcessingJobEnds, Recatalog, At, TypeInv, NotStarted, TypeOK, Branch
<1>6. CASE OtherCrawl
  BY <1>6, StateMachineAssumption DEF OtherCrawl, TypeInv, NotStarted, TypeOK
<1>7. CASE CrawlerNext
  BY <1>7 DEF CrawlerNext, CrawlEnds, Recatalog, At, TypeInv, NotStarted, TypeOK, Branch
<1>8. CASE \E c \in Catalogs : OtherParser(c)
  BY <1>8, StateMachineAssumption DEF OtherParser, Recatalog, At, TypeInv, NotStarted, TypeOK, Branch
<1> QED BY <1>1, <1>2, <1>3, <1>4, <1>5, <1>6, <1>7, <1>8 DEF Next

\* Positions, statuses and items keep to their enumerations, and a branch is in a
\* Map exactly while it has items to scan (TypeOK).
THEOREM StateMachineTypeCorrect == Spec => []TypeOK
<1>1. TypeInv /\ [Next]_vars => TypeInv'
  <2>1. TypeInv /\ UNCHANGED vars => TypeInv'
    BY DEF TypeInv, NotStarted, TypeOK, vars
  <2> QED BY <2>1, TypeStep
<1>2. TypeInv => TypeOK
  BY DEF TypeInv
<1> QED BY <1>1, <1>2, TypeInit, PTL DEF Spec

-----------------------------------------------------------------------------
\* What a step does to the status of executions: nothing, or it starts, ends or
\* fails one of them.

Silent   == UNCHANGED statusVars /\ \A f \in Execution : exec[f] # "RUNNING" => at'[f] = at[f]
Starts(e) == \E i \in Inputs : StartExecution(e, i)
Fails(e) ==
    /\ exec[e] = "RUNNING"
    /\ \E status \in {"FAILED", "ABORTED"} : Fail(e, status)
    /\ UNCHANGED <<proc, crawlVars, catalog, historyVars>>

LEMMA StepKinds ==
    ASSUME TypeInv, Next
    PROVE  \/ Silent
           \/ \E e \in Execution : Starts(e) \/ SendMessage(e) \/ Fails(e)
<1>1. ASSUME NEW e \in Execution, NEW b \in Branch, BranchNext(e, b)
      PROVE  Silent \/ Fails(e)
  <2> USE DEF Silent, At, Goto, TypeInv, TypeOK
  <2>1. CASE GetCrawler(e)          BY <2>1 DEF GetCrawler
  <2>2. CASE StartCrawler(e)        BY <2>2 DEF StartCrawler
  <2>3. CASE GetCrawler2(e)         BY <2>3 DEF GetCrawler2, Fails
  <2>4. CASE UnstructuredCrawler(e) BY <2>4 DEF UnstructuredCrawler
  <2>5. CASE CreateProcessingJob(e) BY <2>5 DEF CreateProcessingJob
  <2>6. CASE DescribeProcessingJob(e) BY <2>6 DEF DescribeProcessingJob
  <2>7. CASE SendSchemaMessage(e, b) BY <2>7 DEF SendSchemaMessage
  <2>8. CASE SplitTables(e, b)      BY <2>8 DEF SplitTables
  <2>9. CASE \E item \in todo[e][b] : GlueJob(e, b, item)
    BY <2>9 DEF GlueJob
  <2> QED BY <1>1, <2>1, <2>2, <2>3, <2>4, <2>5, <2>6, <2>7, <2>8, <2>9 DEF BranchNext
<1>2. ASSUME NEW e \in Execution, TaskFails(e) \/ StopExecution(e) PROVE Fails(e)
  BY <1>2 DEF TaskFails, StopExecution, Fails
<1>3. ASSUME NEW e \in Execution, ProcessingNext(e) PROVE Silent
  BY <1>3 DEF ProcessingNext, ProcessingJobEnds, Silent
<1>4. CASE OtherCrawl \/ CrawlerNext \/ \E c \in Catalogs : OtherParser(c)
  BY <1>4 DEF OtherCrawl, CrawlerNext, CrawlEnds, OtherParser, Silent
<1> QED BY <1>1, <1>2, <1>3, <1>4 DEF Next, Starts

\* An execution that has not ended normally has sent nothing; a success is sent
\* when both branches have succeeded, and they stay as they were.
StatusInv ==
    \A e \in Execution :
        /\ exec[e] \in {"NONE", "RUNNING", "FAILED", "ABORTED"} => sent[e] = "NONE"
        /\ sent[e] = "Succeeded" => \A b \in Branch : at[e][b] = "Succeeded"

LEMMA StatusStep == ASSUME TypeInv, StatusInv, Next PROVE StatusInv'
<1> USE DEF StatusInv, TypeInv, TypeOK
<1>1. CASE Silent
  BY <1>1 DEF Silent
<1>2. ASSUME NEW e \in Execution, Starts(e) PROVE StatusInv'
  BY <1>2 DEF Starts, StartExecution
<1>3. ASSUME NEW e \in Execution, SendMessage(e) PROVE StatusInv'
  BY <1>3 DEF SendMessage, Filtered, Result, Branch, ExecState
<1>4. ASSUME NEW e \in Execution, Fails(e) PROVE StatusInv'
  BY <1>4 DEF Fails, Fail
<1> QED BY <1>1, <1>2, <1>3, <1>4, StepKinds

\* A branch that failed is never reported as a success.
THEOREM FailuresAreReported == Spec => []FailureIsReported
<1>1. Init => TypeInv /\ StatusInv
  BY TypeInit DEF Init, StatusInv
<1>2. TypeInv /\ StatusInv /\ [Next]_vars => (TypeInv /\ StatusInv)'
  <2>1. TypeInv /\ StatusInv /\ UNCHANGED vars => (TypeInv /\ StatusInv)'
    BY DEF StatusInv, TypeInv, NotStarted, TypeOK, vars
  <2> QED BY <2>1, TypeStep, StatusStep
<1>3. StatusInv => FailureIsReported
  BY DEF StatusInv, FailureIsReported
<1> QED BY <1>1, <1>2, <1>3, PTL DEF Spec

-----------------------------------------------------------------------------
\* The contract.

USE DEF Contract!contractVars

LEMMA ContractStep ==
    ASSUME TypeInv, StatusInv, Next
    PROVE  Contract!Next \/ UNCHANGED Contract!contractVars
<1>1. CASE Silent
  BY <1>1 DEF Silent
<1>2. ASSUME NEW e \in Execution, Starts(e) PROVE Contract!Start(e)
  BY <1>2 DEF Starts, StartExecution, Contract!Start
<1>3. ASSUME NEW e \in Execution, SendMessage(e) PROVE Contract!End(e)
  BY <1>3 DEF SendMessage, Filtered, Result, Branch, Contract!End, Contract!Ends
<1>4. ASSUME NEW e \in Execution, Fails(e) PROVE Contract!End(e) \/ Contract!Stop(e)
  <2>1. PICK status \in {"FAILED", "ABORTED"} : Fail(e, status)
    BY <1>4 DEF Fails
  <2>2. exec[e] = "RUNNING" /\ sent[e] = "NONE"
    BY <1>4 DEF Fails, StatusInv
  <2>3. CASE status = "ABORTED"
    BY <2>1, <2>2, <2>3 DEF Fail, Contract!Stop
  <2>4. CASE status = "FAILED"
    <3>1. sent' = [sent EXCEPT ![e] = "NONE"]
      BY <2>1, <2>2 DEF Fail, TypeInv, TypeOK
    <3> QED BY <2>1, <2>2, <2>4, <3>1 DEF Fail, Contract!End, Contract!Ends
  <2> QED BY <2>3, <2>4
<1> QED BY <1>1, <1>2, <1>3, <1>4, StepKinds DEF Contract!Next

\* The state machine implements the contract: it ends normally with exactly one
\* message that tells its result, or fails or is stopped with none.
THEOREM ImplementsContract == Spec => KeepsContract
<1>1. Init => TypeInv /\ StatusInv /\ Contract!Init
  BY TypeInit DEF Init, StatusInv, Contract!Init
<1>2. TypeInv /\ StatusInv /\ [Next]_vars
      => (TypeInv /\ StatusInv)' /\ [Contract!Next]_Contract!contractVars
  <2>1. TypeInv /\ StatusInv /\ UNCHANGED vars
        => (TypeInv /\ StatusInv)' /\ UNCHANGED Contract!contractVars
    BY DEF StatusInv, TypeInv, NotStarted, TypeOK, vars
  <2> QED BY <2>1, TypeStep, StatusStep, ContractStep
<1> QED BY <1>1, <1>2, PTL DEF Spec, KeepsContract, Contract!Spec
-----------------------------------------------------------------------------
\* The catalog.

\* Where the branches of an execution are until their catalog has been written:
\* at GetCrawler2 only while the crawl runs, or after one that has failed.
FreshInv ==
    \A e \in Execution :
        exec[e] = "RUNNING" \/ sent[e] = "Succeeded" =>
            /\ Requested(input[e], "Structured") /\ NeedRunCrawler(input[e]) =>
                   \/ e \in crawled
                   \/ at[e]["Structured"] \in {"GetCrawler", "StartCrawler", "Failed"}
                   \/ /\ at[e]["Structured"] = "GetCrawler2"
                      /\ crawler = "RUNNING" \/ lastCrawl # "SUCCEEDED"
            /\ Requested(input[e], "Unstructured") =>
                   \/ proc[e] = "Completed"
                   \/ at[e]["Unstructured"] \in {"UnstructuredCrawler", "CreateProcessingJob",
                                                 "DescribeProcessingJob", "Failed"}

LEMMA FreshFails ==
    ASSUME TypeInv, StatusInv, FreshInv, NEW e \in Execution, Fails(e)
    PROVE  FreshInv'
<1>1. PICK status \in {"FAILED", "ABORTED"} : Fail(e, status)
  BY DEF Fails
<1>2. exec'[e] # "RUNNING" /\ sent'[e] # "Succeeded"
  BY <1>1 DEF Fail, Fails, StatusInv, TypeInv, TypeOK
<1>3. /\ \A f \in Execution \ {e} : exec'[f] = exec[f] /\ at'[f] = at[f]
      /\ UNCHANGED <<sent, input, proc, crawler, lastCrawl, crawled>>
  BY <1>1 DEF Fail, Fails, TypeInv, TypeOK
<1> QED BY <1>2, <1>3 DEF FreshInv

LEMMA FreshBranch ==
    ASSUME TypeInv, StatusInv, FreshInv, NEW e \in Execution, NEW b \in Branch, BranchNext(e, b)
    PROVE  FreshInv'
<1> USE DEF TypeInv, TypeOK, FreshInv, At, Goto, Branch
<1>1. CASE b = "Structured" /\ GetCrawler(e)
  BY <1>1 DEF GetCrawler
<1>2. CASE b = "Structured" /\ StartCrawler(e)
  BY <1>2 DEF StartCrawler
<1>3. CASE b = "Structured" /\ GetCrawler2(e)
  <2>1. CASE Fails(e)
    BY <2>1, FreshFails
  <2>2. CASE ~Fails(e)
    <3>1. PICK place \in {"SplitJob", "Failed"} : at' = [at EXCEPT ![e]["Structured"] = place]
      BY <1>3, <2>2 DEF GetCrawler2, Fails
    <3>2. /\ UNCHANGED <<statusVars, proc, crawlVars, crawled>>
          /\ exec[e] = "RUNNING" /\ at[e]["Structured"] = "GetCrawler2" /\ crawler = "READY"
          /\ place = "SplitJob" => lastCrawl = "SUCCEEDED"
      BY <1>3, <2>2, <3>1 DEF GetCrawler2, CrawlIsOver, Fails
    <3> QED BY <3>1, <3>2
  <2> QED BY <2>1, <2>2
<1>4. CASE b = "Unstructured" /\ UnstructuredCrawler(e)
  BY <1>4 DEF UnstructuredCrawler
<1>5. CASE b = "Unstructured" /\ CreateProcessingJob(e)
  BY <1>5 DEF CreateProcessingJob
<1>6. CASE b = "Unstructured" /\ DescribeProcessingJob(e)
  BY <1>6 DEF DescribeProcessingJob, NextOf
<1>7. CASE SendSchemaMessage(e, b)
  BY <1>7 DEF SendSchemaMessage
<1>8. CASE SplitTables(e, b)
  BY <1>8 DEF SplitTables
<1>9. CASE \E item \in todo[e][b] : GlueJob(e, b, item)
  BY <1>9 DEF GlueJob
<1> QED BY <1>1, <1>2, <1>3, <1>4, <1>5, <1>6, <1>7, <1>8, <1>9 DEF BranchNext

LEMMA FreshStep == ASSUME TypeInv, StatusInv, FreshInv, Next PROVE FreshInv'
<1> USE DEF TypeInv, TypeOK, FreshInv
<1>1. CASE \E e \in Execution, b \in Branch : BranchNext(e, b)
  BY <1>1, FreshBranch
<1>2. ASSUME NEW e \in Execution, NEW i \in Inputs, StartExecution(e, i) PROVE FreshInv'
  <2>1. /\ at'[e] = [b \in Branch |-> FirstTask(i, b)] /\ input'[e] = i
        /\ \A f \in Execution \ {e} : /\ at'[f] = at[f] /\ input'[f] = input[f]
                                      /\ exec'[f] = exec[f]
        /\ UNCHANGED <<sent, proc, crawler, lastCrawl, crawled>>
    BY <1>2 DEF StartExecution
  <2>2. Requested(i, "Structured") /\ NeedRunCrawler(i) => at'[e]["Structured"] = "GetCrawler"
    BY <2>1 DEF FirstTask, Branch
  <2>3. Requested(i, "Unstructured") => at'[e]["Unstructured"] = "UnstructuredCrawler"
    BY <2>1 DEF FirstTask, Branch
  <2>4. ASSUME NEW f \in Execution, f # e PROVE FreshInv!(f)'
    BY <2>1, <2>4
  <2>5. FreshInv!(e)'
    BY <2>1, <2>2, <2>3
  <2> QED BY <2>4, <2>5
<1>3. ASSUME NEW e \in Execution, SendMessage(e) PROVE FreshInv'
  BY <1>3 DEF SendMessage
<1>4. ASSUME NEW e \in Execution, TaskFails(e) \/ StopExecution(e) PROVE FreshInv'
  BY <1>4, FreshFails DEF TaskFails, StopExecution, Fails
<1>5. ASSUME NEW e \in Execution, ProcessingNext(e) PROVE FreshInv'
  BY <1>5 DEF ProcessingNext, ProcessingJobEnds
<1>6. CASE OtherCrawl
  BY <1>6 DEF OtherCrawl
<1>7. CASE CrawlerNext
  BY <1>7, StatusInv DEF CrawlerNext, CrawlEnds, StatusInv, Branch
<1>8. CASE \E c \in Catalogs : OtherParser(c)
  BY <1>8 DEF OtherParser
<1> QED BY <1>1, <1>2, <1>3, <1>4, <1>5, <1>6, <1>7, <1>8 DEF Next

\* No branch reads a catalog that was not written for its execution.
THEOREM CatalogsAreFresh == Spec => []CatalogIsFresh
<1>1. Init => TypeInv /\ StatusInv /\ FreshInv
  BY TypeInit DEF Init, StatusInv, FreshInv
<1>2. TypeInv /\ StatusInv /\ FreshInv /\ [Next]_vars => (TypeInv /\ StatusInv /\ FreshInv)'
  <2>1. TypeInv /\ StatusInv /\ FreshInv /\ UNCHANGED vars
        => (TypeInv /\ StatusInv /\ FreshInv)'
    BY DEF StatusInv, FreshInv, TypeInv, NotStarted, TypeOK, vars
  <2> QED BY <2>1, TypeStep, StatusStep, FreshStep
<1>3. FreshInv => CatalogIsFresh
  BY DEF FreshInv, CatalogIsFresh, Scans
<1> QED BY <1>1, <1>2, <1>3, PTL DEF Spec
-----------------------------------------------------------------------------
\* The tables.

\* What the Glue jobs of the items in done have written of a catalog.
DoneBy(i, c, done) ==
    {s \in Table \X JobItem : s[2] \in done /\ s[1] \in TablesOf(i, c, s[2])}

LEMMA DoneByNone ==
    ASSUME NEW i, NEW c
    PROVE  DoneBy(i, c, {}) = {}
  BY DEF DoneBy

LEMMA PositionRange ==
    ASSUME NEW c \in Catalogs, NEW t \in c
    PROVE  Position(t, c) \in 0..(Cardinality(c) - 1)
<1> DEFINE before == {u \in c : u < t}
<1>1. IsFiniteSet(c) /\ Cardinality(c) \in Nat
  BY FiniteCatalog
<1>2. IsFiniteSet(c \ {t}) /\ Cardinality(c \ {t}) = Cardinality(c) - 1
  BY <1>1, FS_RemoveElement
<1>3. before \subseteq c \ {t}
  BY StateMachineAssumption
<1>4. IsFiniteSet(before) /\ Cardinality(before) <= Cardinality(c \ {t})
  BY <1>2, <1>3, FS_Subset
<1>5. Cardinality(before) \in Nat
  BY <1>4, FS_CardinalityType
<1> QED BY <1>1, <1>2, <1>4, <1>5 DEF Position

\* Once all items are done, every table to be scanned has been, by one of them.
LEMMA AllDone ==
    ASSUME NEW i \in Inputs, NEW c \in Catalogs,
           NEW t \in IF i.tables = {} THEN c ELSE i.tables \cap c
    PROVE  \E s \in DoneBy(i, c, Items(i, c)) :
               {x \in DoneBy(i, c, Items(i, c)) : x[1] = t} = {s}
<1>1. t \in c /\ t \in Table /\ IsFiniteSet(c) /\ Cardinality(c) \in Nat
  BY FiniteCatalog, StateMachineAssumption
<1>2. Items(i, c) \in SUBSET JobItem
  BY ItemsType
<1>3. \E item \in Items(i, c) :
          /\ t \in TablesOf(i, c, item)
          /\ \A other \in Items(i, c) : t \in TablesOf(i, c, other) => other = item
  <2>1. CASE i.tables # {}
    BY <2>1 DEF Items, TablesOf
  <2>2. CASE i.tables = {}
    <3>1. Items(i, c) = JobItems(Cardinality(c), JobNumber) /\ JobNumber \in Nat \ {0}
      BY <2>2, StateMachineAssumption DEF Items
    <3>2. \A item \in Items(i, c) : item # NamedItem
      BY <3>1, <1>1, ItemsAreRanges DEF NamedItem
    <3>3. \A item \in Items(i, c) :
              t \in TablesOf(i, c, item) <=> item.begin <= Position(t, c) /\ Position(t, c) < item.end
      BY <3>2, <1>1 DEF TablesOf
    <3>4. Position(t, c) \in 0..(Cardinality(c) - 1)
      BY <1>1, PositionRange
    <3>5. PICK item \in JobItems(Cardinality(c), JobNumber) :
              /\ item.begin <= Position(t, c) /\ Position(t, c) < item.end
              /\ \A other \in JobItems(Cardinality(c), JobNumber) :
                     other.begin <= Position(t, c) /\ Position(t, c) < other.end => other = item
      BY <3>1, <3>4, <1>1, ItemsPartition
    <3> QED BY <3>1, <3>3, <3>5
  <2> QED BY <2>1, <2>2
<1>4. PICK item \in Items(i, c) :
          /\ t \in TablesOf(i, c, item)
          /\ \A other \in Items(i, c) : t \in TablesOf(i, c, other) => other = item
  BY <1>3
<1>5. <<t, item>> \in DoneBy(i, c, Items(i, c))
  BY <1>1, <1>2, <1>4 DEF DoneBy
<1>6. ASSUME NEW x \in DoneBy(i, c, Items(i, c)), x[1] = t PROVE x = <<t, item>>
  BY <1>6, <1>4 DEF DoneBy
<1> QED BY <1>5, <1>6

\* A branch has written nothing before its Map; in the Map, the items it has done,
\* of the catalog it has split (unless that has changed); and all of them after it.
ScanPart(e, b) ==
    /\ exec[e] = "NONE" \/ (exec[e] = "RUNNING" /\ at[e][b] \in Task) => Written(e, b) = {}
    /\ <<e, b>> \notin moved =>
           /\ exec[e] = "RUNNING" /\ at[e][b] = "Map" =>
                  /\ catalog[b] = seen[e][b]
                  /\ todo[e][b] \subseteq Items(input[e], seen[e][b])
                  /\ Written(e, b) = DoneBy(input[e], seen[e][b],
                                            Items(input[e], seen[e][b]) \ todo[e][b])
           /\ (exec[e] = "RUNNING" \/ sent[e] = "Succeeded")
              /\ at[e][b] = "Succeeded" /\ Requested(input[e], b) =>
                  /\ seen[e][b] \in Catalogs
                  /\ Written(e, b) = DoneBy(input[e], seen[e][b], Items(input[e], seen[e][b]))

ScanInv == \A e \in Execution, b \in Branch : ScanPart(e, b)

USE DEF Written

\* A branch of which a step changes nothing keeps its part; so does one that goes
\* to a Task or fails.
LEMMA ScanSame ==
    ASSUME NEW e \in Execution, NEW b \in Branch, ScanPart(e, b),
           exec'[e] = exec[e], sent'[e] = sent[e], input'[e] = input[e],
           at'[e][b] = at[e][b], todo'[e][b] = todo[e][b], seen'[e][b] = seen[e][b],
           Written(e, b)' = Written(e, b), moved \subseteq moved',
           catalog'[b] = catalog[b] \/ at[e][b] # "Map" \/ exec[e] # "RUNNING" \/ <<e, b>> \in moved'
    PROVE  ScanPart(e, b)'
  BY DEF ScanPart

LEMMA ScanBranch ==
    ASSUME TypeInv, ScanInv, NEW e \in Execution, NEW b \in Branch, BranchNext(e, b), ~Fails(e)
    PROVE  ScanInv'
<1> USE DEF TypeInv, TypeOK
\* Only this branch changes.
<1>1. /\ UNCHANGED <<exec, sent, input, catalog, moved>>
      /\ exec[e] = "RUNNING"
      /\ \A f \in Execution, a \in Branch : <<f, a>> # <<e, b>> =>
             /\ at'[f][a] = at[f][a] /\ todo'[f][a] = todo[f][a]
             /\ seen'[f][a] = seen[f][a] /\ Written(f, a)' = Written(f, a)
  <2> USE DEF At, Goto
  <2>1. CASE b = "Structured" /\ GetCrawler(e)            BY <2>1 DEF GetCrawler
  <2>2. CASE b = "Structured" /\ StartCrawler(e)          BY <2>2 DEF StartCrawler
  <2>3. CASE b = "Structured" /\ GetCrawler2(e)           BY <2>3 DEF GetCrawler2, Fails
  <2>4. CASE b = "Unstructured" /\ UnstructuredCrawler(e) BY <2>4 DEF UnstructuredCrawler
  <2>5. CASE b = "Unstructured" /\ CreateProcessingJob(e) BY <2>5 DEF CreateProcessingJob
  <2>6. CASE b = "Unstructured" /\ DescribeProcessingJob(e)
    BY <2>6 DEF DescribeProcessingJob
  <2>7. CASE SendSchemaMessage(e, b)                      BY <2>7 DEF SendSchemaMessage
  <2>8. CASE SplitTables(e, b)                            BY <2>8 DEF SplitTables
  <2>9. CASE \E item \in todo[e][b] : GlueJob(e, b, item)
    <3>1. PICK item \in todo[e][b] : GlueJob(e, b, item)
      BY <2>9
    <3>2. \A f \in Execution, a \in Branch : <<f, a>> # <<e, b>> =>
              scanned'[f][a] = scanned[f][a] /\ erred'[f][a] = erred[f][a]
      BY <3>1, GlueJobLeaves
    <3> QED BY <3>1, <3>2 DEF GlueJob
  <2> QED BY <2>1, <2>2, <2>3, <2>4, <2>5, <2>6, <2>7, <2>8, <2>9 DEF BranchNext
<1>2. ASSUME NEW f \in Execution, NEW a \in Branch, <<f, a>> # <<e, b>>
      PROVE  ScanPart(f, a)'
  <2>1. ScanPart(f, a)
    BY DEF ScanInv
  <2>2. /\ at'[f][a] = at[f][a] /\ todo'[f][a] = todo[f][a]
        /\ seen'[f][a] = seen[f][a] /\ Written(f, a)' = Written(f, a)
    BY <1>1, <1>2
  <2>3. /\ exec'[f] = exec[f] /\ sent'[f] = sent[f] /\ input'[f] = input[f]
        /\ catalog'[a] = catalog[a] /\ moved \subseteq moved'
    BY <1>1
  <2> QED BY ONLY <2>1, <2>2, <2>3, ScanSame
<1>3. ScanPart(e, b)'
  <2>1. CASE SplitTables(e, b)
    <3> DEFINE items == Items(input[e], catalog[b])
    <3>1. /\ at[e][b] = "SplitJob" /\ UNCHANGED <<scanned, erred>>
          /\ seen'[e][b] = catalog[b] /\ todo'[e][b] = items
          /\ at'[e][b] = AfterSplit(items)
      BY <2>1 DEF SplitTables, At, Goto
    <3>2. Written(e, b)' = {}
      BY <1>1, <3>1 DEF ScanInv, ScanPart, Task
    <3>3. /\ Written(e, b)' = DoneBy(input[e], catalog[b], items \ items)
          /\ items = {} => Written(e, b)' = DoneBy(input[e], catalog[b], items)
      <4>1. items \ items = {} /\ Written(e, b)' = DoneBy(input[e], catalog[b], {})
        BY <3>2, DoneByNone
      <4> QED BY <4>1
    <3>4. /\ input'[e] = input[e] /\ catalog'[b] = catalog[b] /\ catalog[b] \in Catalogs
          /\ exec'[e] = "RUNNING"
      BY <1>1
    <3>5. CASE items = {}
      <4>1. at'[e][b] = "Succeeded"
        BY <3>1, <3>5 DEF AfterSplit
      <4> QED BY <3>1, <3>3, <3>4, <3>5, <4>1 DEF ScanPart, Task
    <3>6. CASE items # {}
      <4>1. at'[e][b] = "Map"
        BY <3>1, <3>6 DEF AfterSplit
      <4>2. todo'[e][b] \subseteq Items(input'[e], seen'[e][b]) /\ catalog'[b] = seen'[e][b]
        BY <3>1, <3>4
      <4>3. Written(e, b)' = DoneBy(input'[e], seen'[e][b], Items(input'[e], seen'[e][b]) \ todo'[e][b])
        BY <3>1, <3>3, <3>4
      <4>4. at'[e][b] \notin Task /\ at'[e][b] # "Succeeded" /\ exec'[e] # "NONE"
        BY <3>4, <4>1 DEF Task
      <4> QED BY ONLY <4>1, <4>2, <4>3, <4>4 DEF ScanPart
    <3> QED BY <3>5, <3>6
  <2>2. CASE \E item \in todo[e][b] : GlueJob(e, b, item)
    <3>1. PICK item \in todo[e][b] : GlueJob(e, b, item)
      BY <2>2
    <3> DEFINE i     == input[e]
               c     == seen[e][b]
               items == Items(i, c)
    <3>2. /\ at[e][b] = "Map" /\ seen' = seen
          /\ todo'[e][b] = todo[e][b] \ {item}
          /\ Written(e, b)' = Written(e, b) \cup (TablesOf(i, catalog[b], item) \X {item})
          /\ at'[e][b] = IF todo[e][b] = {item} THEN "Succeeded" ELSE "Map"
      <4>1. Written(e, b)' = Written(e, b) \cup (TablesOf(i, catalog[b], item) \X {item})
        BY <3>1, GlueJobAll
      <4> QED BY <3>1, <4>1 DEF GlueJob, At, Goto
    <3>3. CASE <<e, b>> \in moved
      BY <1>1, <3>2, <3>3 DEF ScanPart, Task
    <3>4. CASE <<e, b>> \notin moved
      <4>1. /\ catalog[b] = c /\ todo[e][b] \subseteq items
            /\ Written(e, b) = DoneBy(i, c, items \ todo[e][b])
        BY <1>1, <3>2, <3>4 DEF ScanInv, ScanPart
      <4>2. item \in JobItem /\ c \in Catalogs /\ i \in Inputs
        BY <4>1
      <4>3. Written(e, b)' = DoneBy(i, c, (items \ todo[e][b]) \cup {item})
        <5> DEFINE done == items \ todo[e][b]
        <5>1. DoneBy(i, c, done) \cup (TablesOf(i, c, item) \X {item})
              = DoneBy(i, c, done \cup {item})
          <6> HIDE DEF done, i, c
          <6> QED BY <4>2, TablesType DEF DoneBy
        <5>2. Written(e, b)' = Written(e, b) \cup (TablesOf(i, c, item) \X {item})
          BY <3>2, <4>1
        <5>3. Written(e, b) = DoneBy(i, c, done)
          BY <4>1
        <5> HIDE DEF items, i, c
        <5> QED BY ONLY <5>1, <5>2, <5>3
      <4>4. (items \ todo[e][b]) \cup {item} = items \ todo'[e][b]
        BY <3>1, <3>2, <4>1
      <4>5. CASE todo[e][b] = {item}
        <5>1. items \ todo'[e][b] = items
          BY <3>2, <4>5
        <5> QED BY <1>1, <3>2, <4>2, <4>3, <4>4, <4>5, <5>1 DEF ScanPart, Task
      <4>6. CASE todo[e][b] # {item}
        BY <1>1, <3>2, <4>1, <4>3, <4>4, <4>6 DEF ScanPart, Task
      <4> QED BY <4>5, <4>6
    <3> QED BY <3>3, <3>4
  <2>3. CASE ~SplitTables(e, b) /\ ~\E item \in todo[e][b] : GlueJob(e, b, item)
    <3>1. /\ at[e][b] \in Task /\ at'[e][b] \in Task \cup {"Failed"}
          /\ UNCHANGED <<scanned, erred>>
      <4> USE DEF At, Goto, Task
      <4>1. CASE b = "Structured" /\ GetCrawler(e)            BY <4>1 DEF GetCrawler
      <4>2. CASE b = "Structured" /\ StartCrawler(e)          BY <4>2 DEF StartCrawler
      <4>3. CASE b = "Structured" /\ GetCrawler2(e)           BY <4>3 DEF GetCrawler2, Fails
      <4>4. CASE b = "Unstructured" /\ UnstructuredCrawler(e) BY <4>4 DEF UnstructuredCrawler
      <4>5. CASE b = "Unstructured" /\ CreateProcessingJob(e) BY <4>5 DEF CreateProcessingJob
      <4>6. CASE b = "Unstructured" /\ DescribeProcessingJob(e)
        BY <4>6 DEF DescribeProcessingJob, NextOf
      <4>7. CASE SendSchemaMessage(e, b)                      BY <4>7 DEF SendSchemaMessage
      <4> QED BY <2>3, <4>1, <4>2, <4>3, <4>4, <4>5, <4>6, <4>7 DEF BranchNext
    <3>2. Written(e, b)' = {} /\ at'[e][b] \notin {"Map", "Succeeded"}
      BY <1>1, <3>1 DEF ScanInv, ScanPart, Task
    <3> QED BY <1>1, <3>2 DEF ScanPart
  <2> QED BY <2>1, <2>2, <2>3
<1> QED BY <1>2, <1>3 DEF ScanInv

LEMMA ScanFails ==
    ASSUME TypeInv, StatusInv, ScanInv, NEW e \in Execution, Fails(e)
    PROVE  ScanInv'
<1>1. PICK status \in {"FAILED", "ABORTED"} : Fail(e, status)
  BY DEF Fails
<1>2. exec'[e] \notin {"NONE", "RUNNING"} /\ sent'[e] # "Succeeded"
  BY <1>1 DEF Fail, Fails, StatusInv, TypeInv, TypeOK
<1>3. /\ \A f \in Execution \ {e} : exec'[f] = exec[f] /\ at'[f] = at[f] /\ todo'[f] = todo[f]
      /\ UNCHANGED <<sent, input, seen, scanned, erred, moved, catalog>>
  BY <1>1 DEF Fail, Fails, TypeInv, TypeOK
<1>4. ASSUME NEW f \in Execution, NEW b \in Branch PROVE ScanPart(f, b)'
  <2>1. CASE f = e
    <3>1. exec'[f] \notin {"NONE", "RUNNING"} /\ sent'[f] # "Succeeded"
      BY <1>2, <2>1
    <3> QED BY <3>1 DEF ScanPart
  <2>2. CASE f # e
    <3>1. /\ exec'[f] = exec[f] /\ sent'[f] = sent[f] /\ input'[f] = input[f]
          /\ at'[f][b] = at[f][b] /\ todo'[f][b] = todo[f][b] /\ seen'[f][b] = seen[f][b]
          /\ Written(f, b)' = Written(f, b) /\ moved \subseteq moved'
          /\ catalog'[b] = catalog[b]
      BY <1>3, <2>2
    <3>2. ScanPart(f, b)
      BY DEF ScanInv
    <3> QED BY <3>1, <3>2, ScanSame
  <2> QED BY <2>1, <2>2
<1> QED BY <1>4 DEF ScanInv

\* A catalog that changes marks the branches that are reading it.
LEMMA ScanRecatalog ==
    ASSUME TypeInv, ScanInv, NEW b \in Branch, NEW c, Recatalog(b, c),
           UNCHANGED <<statusVars, at, todo, seen, scanned, erred>>
    PROVE  ScanInv'
<1>1. moved \subseteq moved'
  BY DEF Recatalog
<1>2. ASSUME NEW f \in Execution, NEW a \in Branch PROVE ScanPart(f, a)'
  <2>1. CASE catalog'[a] = catalog[a]
    BY <1>1, <2>1, ScanSame DEF ScanInv
  <2>2. CASE catalog'[a] # catalog[a]
    <3>1. a = b /\ c # catalog[b]
      BY <2>2 DEF Recatalog, TypeInv, TypeOK
    <3>2. at[f][a] # "Map" \/ exec[f] # "RUNNING" \/ <<f, a>> \in moved'
      BY <3>1 DEF Recatalog, At
    <3> QED BY <1>1, <3>2, ScanSame DEF ScanInv
  <2> QED BY <2>1, <2>2
<1> QED BY <1>2 DEF ScanInv

LEMMA ScanStep == ASSUME TypeInv, StatusInv, ScanInv, Next PROVE ScanInv'
<1>1. ASSUME NEW e \in Execution, NEW b \in Branch, BranchNext(e, b) PROVE ScanInv'
  BY <1>1, ScanFails, ScanBranch
<1>2. ASSUME NEW e \in Execution, NEW i \in Inputs, StartExecution(e, i) PROVE ScanInv'
  <2>1. /\ exec[e] = "NONE" /\ sent[e] = "NONE" /\ input'[e] = i
        /\ \A b \in Branch : at'[e][b] = FirstTask(i, b)
        /\ \A f \in Execution \ {e} : /\ at'[f] = at[f] /\ input'[f] = input[f]
                                      /\ exec'[f] = exec[f]
        /\ UNCHANGED <<sent, todo, catalog, seen, scanned, erred, moved>>
    BY <1>2 DEF StartExecution, StatusInv, TypeInv, TypeOK
  <2>2. ASSUME NEW f \in Execution, NEW b \in Branch PROVE ScanPart(f, b)'
    <3>1. CASE f = e
      <4>1. FirstTask(i, b) # "Map" /\ (FirstTask(i, b) = "Succeeded" => ~Requested(i, b))
        BY DEF FirstTask, Requested
      <4>2. Written(e, b)' = {}
        BY <2>1 DEF ScanInv, ScanPart
      <4>3. at'[e][b] # "Map" /\ (at'[e][b] = "Succeeded" => ~Requested(input'[e], b))
        BY <2>1, <4>1
      <4>4. ScanPart(e, b)'
        BY <4>2, <4>3, <2>1 DEF ScanPart
      <4> QED BY <3>1, <4>4
    <3>2. CASE f # e
      BY <2>1, <3>2, ScanSame DEF ScanInv
    <3> QED BY <3>1, <3>2
  <2> QED BY <2>2 DEF ScanInv
<1>3. ASSUME NEW e \in Execution, SendMessage(e) PROVE ScanInv'
  <2>1. /\ exec[e] = "RUNNING" /\ exec'[e] \notin {"NONE", "RUNNING"}
        /\ \A f \in Execution \ {e} : exec'[f] = exec[f] /\ sent'[f] = sent[f]
        /\ UNCHANGED <<input, at, todo, catalog, seen, scanned, erred, moved>>
    BY <1>3 DEF SendMessage, TypeInv, TypeOK
  <2>2. ASSUME NEW f \in Execution, NEW b \in Branch PROVE ScanPart(f, b)'
    <3>1. CASE f = e
      <4>1. ScanPart(e, b)
        BY DEF ScanInv
      <4>2. ScanPart(e, b)'
        BY <2>1, <4>1 DEF ScanPart
      <4> QED BY <3>1, <4>2
    <3>2. CASE f # e
      BY <2>1, <3>2, ScanSame DEF ScanInv
    <3> QED BY <3>1, <3>2
  <2> QED BY <2>2 DEF ScanInv
<1>4. ASSUME NEW e \in Execution, TaskFails(e) \/ StopExecution(e) PROVE ScanInv'
  BY <1>4, ScanFails DEF TaskFails, StopExecution, Fails
<1>5. CASE \/ \E e \in Execution : ProcessingNext(e)
           \/ CrawlerNext
           \/ \E c \in Catalogs : OtherParser(c)
  <2>1. PICK b \in Branch, c \in Catalogs :
            Recatalog(b, c) /\ UNCHANGED <<statusVars, at, todo, seen, scanned, erred>>
    BY <1>5 DEF ProcessingNext, ProcessingJobEnds, CrawlerNext, CrawlEnds, OtherParser, Branch
  <2> QED BY <2>1, ScanRecatalog
<1>6. CASE OtherCrawl
  BY <1>6, ScanSame DEF OtherCrawl, ScanInv
<1> QED BY <1>1, <1>2, <1>3, <1>4, <1>5, <1>6 DEF Next

\* A success is reported only if every table of the catalog that was split, or every
\* table named, was taken by exactly one Glue job, which wrote its results or an error
\* row for it (glue-job.py).
THEOREM TablesAreTakenOnce == Spec => []EveryTableTakenOnce
<1>1. Init => TypeInv /\ StatusInv /\ ScanInv
  BY TypeInit DEF Init, StatusInv, ScanInv, ScanPart, Both
<1>2. TypeInv /\ StatusInv /\ ScanInv /\ [Next]_vars => (TypeInv /\ StatusInv /\ ScanInv)'
  <2>1. TypeInv /\ StatusInv /\ ScanInv /\ UNCHANGED vars
        => (TypeInv /\ StatusInv /\ ScanInv)'
    <3> SUFFICES ASSUME TypeInv, StatusInv, ScanInv, UNCHANGED vars
                 PROVE  (TypeInv /\ StatusInv /\ ScanInv)'
      OBVIOUS
    <3>1. (TypeInv /\ StatusInv)'
      BY DEF StatusInv, TypeInv, NotStarted, TypeOK, vars
    <3>2. ScanInv'
      BY ScanSame DEF ScanInv, vars
    <3> QED BY <3>1, <3>2
  <2> QED BY <2>1, TypeStep, StatusStep, ScanStep
<1>3. TypeInv /\ StatusInv /\ ScanInv => EveryTableTakenOnce
  <2> SUFFICES ASSUME TypeInv, StatusInv, ScanInv, NEW e \in Execution, NEW b \in Branch,
                      sent[e] = "Succeeded", Requested(input[e], b), <<e, b>> \notin moved,
                      NEW t \in ToScan(e, b)
               PROVE  \E s \in Written(e, b) : {x \in Written(e, b) : x[1] = t} = {s}
    BY DEF EveryTableTakenOnce
  <2> DEFINE i == input[e]
             c == seen[e][b]
  <2>1. /\ i \in Inputs /\ c \in Catalogs
        /\ Written(e, b) = DoneBy(i, c, Items(i, c))
    <3>1. ScanPart(e, b)
      BY DEF ScanInv
    <3>2. at[e][b] = "Succeeded" /\ i \in Inputs
      BY DEF StatusInv, TypeInv, TypeOK
    <3> QED BY <3>1, <3>2 DEF ScanPart
  <2>2. t \in IF i.tables = {} THEN c ELSE i.tables \cap c
    BY DEF ToScan
  <2> QED BY <2>1, <2>2, AllDone
<1> QED BY <1>1, <1>2, <1>3, PTL DEF Spec

=============================================================================
