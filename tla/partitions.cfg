SPECIFICATION LiveSpec
CONSTANTS
    Readers = {r1}
    MaxDay = 1
    MaxToday = 2
    MaxRows = 2
    MaxFiles = 2
    MaxKills = 1
    MaxCrashes = 1
    MaxRequests = 1
    Retries = 2
    HotRetention = 0
    DeleteAfter = 1
INVARIANTS
    PartitionsIInv
    RowsKept
    AnswersComplete
    NamesFromOwnFile
PROPERTIES
    DaysBecomeCold
