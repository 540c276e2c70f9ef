SPECIFICATION Spec
CONSTANTS
    Items = {i}
    MaxPage = 2
    MaxPending = 2
    Networks = 1
    MaxSaves = 2
    HistoryPages = 3
    MaxTables = 1
    ColumnPages = 2
    MaxReads = 2
    MaxWords = 2
    MaxUploads = 2
    MaxNumber = 3
    Properties = {region, account}
    NoProperty = none
INVARIANTS
    TypeOK
    ShowsWhatIsAsked
    WaitsForSomething
    ActsOnWhatIsShown
    SavesWhatIsShown
    FoundForThisKind
    SavesWhatIsValid
    ActsOnce
    KeepsWhatIsStored
    ShowsWhatExists
    BatchIsFollowed
    FilterOfProperty
