CONSTANTS
    e1 = e1
    Execution = {e1}
    Inputs <- SomeInputs
    Table = {1, 2, 3, 4}
    Catalogs <- SomeCatalogs
    JobNumber = 2
    MaxOther = 2
    Faults = {"task", "stop", "cancel"}
SPECIFICATION FairSpec
INVARIANTS TypeOK EveryTableTakenOnce FailureIsReported CatalogIsFresh
PROPERTIES KeepsContract EveryExecutionEnds
CHECK_DEADLOCK FALSE
