------------------------------- MODULE SplitJob -------------------------------
(***************************************************************************)
(* The lambda SDPS-SplitJob (lib/agent/split-job/split_job.py): divides    *)
(* the tables of a catalog database among the Glue jobs of one scan.  A    *)
(* job item names a range of positions in the list of tables, which every  *)
(* Glue job reads for itself.                                              *)
(***************************************************************************)
EXTENDS Integers

\* TableBegin and TableEnd of an item.
JobItem == [begin : Int, end : Int]

\* Mutant: rounds down.
MutantDivide(a, b) == a \div b

\* Python's -math.floor(-a/b); \div rounds down too.
DivideAndRoundUp(a, b) == -((-a) \div b)

\* No more jobs than tables.
ActualJobNumber(tables, jobs) == IF tables < jobs THEN tables ELSE jobs

TableSize(tables, jobs) == DivideAndRoundUp(tables, ActualJobNumber(tables, jobs))

\* The range of the index-th item; the last ranges are cut off or empty.
TableBegin(tables, jobs, index) == index * TableSize(tables, jobs)
TableEnd(tables, jobs, index) ==
    LET end == (index + 1) * TableSize(tables, jobs)
    IN  IF end > tables THEN tables ELSE end

\* The items of a database; none for an empty one.  The loop breaks at the first
\* empty range, after which all are empty.
JobItems(tables, jobs) ==
    {[begin |-> TableBegin(tables, jobs, i), end |-> TableEnd(tables, jobs, i)] :
        i \in {k \in 0..(ActualJobNumber(tables, jobs) - 1) :
                  TableBegin(tables, jobs, k) < TableEnd(tables, jobs, k)}}

\* The only item of a job that names its tables.
NamedItem == [begin |-> -1, end |-> -1]
=============================================================================
