SPECIFICATION Spec
CONSTANTS
    ReportEvery = 2
    RunFor = 4
    Horizon = 7
    Patience = 2
    Duration = 3
INVARIANTS
    ReportsKeepTime
    RecordsToTheMark
PROPERTIES
    EndsIfTheFeedLetsIt
    CaptureEnds
