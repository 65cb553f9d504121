SPECIFICATION LiveSpec
CONSTANTS
    timer = timer
    Timer = timer
    Analysts = {timer}
    MaxDay = 1
    StartDay = 1
    MaxToday = 2
    StartRows <- MCStartRows
    Amounts = {1}
    MaxEvents = 2
    HotRetention = 0
    DeleteAfter = 1
    BaselineDays = 1
    MinBaseline = 1
    Threshold = 1
    MinCount = 12
INVARIANTS
    OncePerDay
    AckedWasSeen
    DailyIInv
PROPERTIES
    FiguresFallOnlyLate
    AnomaliesAlerted
