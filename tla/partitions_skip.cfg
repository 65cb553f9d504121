SPECIFICATION Spec
CONSTANTS
    Readers = {r1}
    MaxDay = 0
    MaxToday = 1
    MaxRows = 2
    MaxFiles = 2
    MaxKills = 0
    MaxCrashes = 0
    MaxRequests = 0
    Retries = 2
    HotRetention = 0
    DeleteAfter = 1
PROPERTIES
    SkipIsHarmless
