SPECIFICATION LoggerSpec
CONSTANTS
    OrderId = {1, 2}
    WalletId = {w1}
    Price = {1}
    QtyLimit = 3
    SyntheticId = {}
    ErrorLimit = 3
    UpdatesToLog = 1
    MaxList = 2
INVARIANTS
    ErrorsStayWithinTheLimit
    LogShowsTheBook
PROPERTY TheLimitStopsIt
\* The loop ends at the limit, with the connection, or with the process.
CHECK_DEADLOCK FALSE
