SPECIFICATION Spec
CONSTANTS
    Threads = {t1, t2, t3}
    NullPtr = NullPtr
    SizeRange = 16
    WordRange = 8192
    KLogger = kLogger
    Console = console
    DefaultFile <- MCDefaultFile
    FileNames <- MCFileNames
    Levels = {0, 30000}
    Severities = {10000, 40000}
INVARIANTS TypeOK RecordsAreWhole InitializedRecordsArrive NothingAfterShutdown
PROPERTIES InitReturns
\* Stops when the first Init has thrown and every thread is waiting for it.
CHECK_DEADLOCK FALSE
