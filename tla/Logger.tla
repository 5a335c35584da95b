-------------------------------- MODULE Logger --------------------------------
(***************************************************************************)
(* log/kflogger.h and kflogger.cc: one log4cplus logger for the process,   *)
(* set up by the first call of Logger::Init on any thread, used through    *)
(* the macros of kflogger.h by all of them, and shut down by Uninit.       *)
(* log4cplus is external: a logger has a list of appenders under a lock of *)
(* its own and a level, and gives a record of at least that level to each  *)
(* appender of the list.                                                   *)
(***************************************************************************)
EXTENDS StrUtil

CONSTANTS
    Threads,
    KLogger,           \* the address of kLogger
    Console,           \* the appender of the console; a file's is its name
    DefaultFile,       \* kKuafuLoggerDefaultFileName
    FileNames,         \* what callers pass for file_name, null or empty at times
    Levels,            \* the levels callers ask for
    Severities         \* the severities of the records

\* enum class Level, and the level log4cplus gives to the records of a macro.
Level == [LL_ALL |-> 0, LL_DEBUG_LOG |-> 10000, LL_INFO_LOG |-> 20000,
          LL_WARNING_LOG |-> 30000, LL_ERR_LOGOR |-> 40000, LL_OFF_LOG |-> 60000]
Macro == [TRACE_LOG |-> 0, DEBUG_LOG |-> 10000, INFO_LOG |-> 20000,
          WARNING_LOG |-> 30000, ERR_LOG |-> 40000]

ASSUME LoggerAssumption ==
    /\ KLogger # NullPtr
    /\ Levels \subseteq {Level[l] : l \in DOMAIN Level}
    /\ Severities \subseteq {Macro[m] : m \in DOMAIN Macro}

VARIABLES
    sKuafuLoggerInitStart,      \* the flag of the first call
    sKuafuLoggerInitFinished,   \* the flag the other calls wait for
    logger_,                    \* null or the address of kLogger, a plain pointer
    appenders,                  \* the appenders of kLogger
    level,                      \* its level
    pc,                         \* where each thread is
    wanted,                     \* the parameters of the call that found the flag clear
    synced,                     \* the threads that the write of logger_ happens before
    severity,                   \* of the record a thread is about to append
    record,                     \* the last record given to kLogger, and where it went
    threw,                      \* the first Init has thrown
    shut                        \* kLogger has been shut down

setup == <<sKuafuLoggerInitStart, sKuafuLoggerInitFinished, logger_, wanted>>
vars  == <<setup, appenders, level, pc, synced, severity, record, threw, shut>>

Args     == [level : Levels, file_name : FileNames, output_console : BOOLEAN]
NoArgs   == [level |-> 0, file_name |-> NullPtr, output_console |-> FALSE]
NoRecord == [severity |-> 0, to |-> <<>>, late |-> TRUE]

\* The lines of Init, of the macros and of Uninit at which a thread can be.
InsideFirst == {"file", "console", "level", "publish", "finish"}
Places      == InsideFirst \cup {"out", "spin", "append"}

\* A fault, for TypeOK: a null or empty name is used as it is.
FileAppenderAsGiven(a) == a.file_name

\* The appenders that a call asks for.
FileAppender(a) == IF NullOrEmpty(a.file_name) THEN DefaultFile ELSE a.file_name
Sinks(a) == IF a.output_console THEN <<FileAppender(a), Console>> ELSE <<FileAppender(a)>>

Init ==
    /\ sKuafuLoggerInitStart = FALSE /\ sKuafuLoggerInitFinished = FALSE
    /\ logger_ = NullPtr
    /\ appenders = <<>> /\ level = 0
    /\ pc = [t \in Threads |-> "out"]
    /\ wanted = NoArgs
    /\ synced = {}
    /\ severity = [t \in Threads |-> 0]
    /\ record = NoRecord
    /\ threw = FALSE /\ shut = FALSE

-----------------------------------------------------------------------------
(* Logger::Init                                                            *)

\* A fault, for RecordsAreWhole: the flag is tested, and not set.
TestAndSetForgets(value) == sKuafuLoggerInitStart' = sKuafuLoggerInitStart

\* The flag is set whatever it was.
TestAndSet(value) == sKuafuLoggerInitStart' = value

\* The first call goes on to the body, any other to the loop.
CallInit(t, a) ==
    /\ pc[t] = "out"
    /\ TestAndSet(TRUE)
    /\ IF sKuafuLoggerInitStart
       THEN pc' = [pc EXCEPT ![t] = "spin"] /\ wanted' = wanted
       ELSE pc' = [pc EXCEPT ![t] = "file"] /\ wanted' = a
    /\ UNCHANGED <<sKuafuLoggerInitFinished, logger_, appenders, level, synced, severity,
                   record, threw, shut>>

\* A fault, for InitializedRecordsArrive: the other calls do not wait.
SpinNever(t) ==
    /\ pc[t] = "spin"
    /\ pc' = [pc EXCEPT ![t] = "out"]
    /\ synced' = synced \cup {t}
    /\ UNCHANGED <<setup, appenders, level, severity, record, threw, shut>>

\* The load that finds the flag set ends the loop, and acquires what the first
\* call wrote before its release.
SpinEnds(t) ==
    /\ pc[t] = "spin"
    /\ sKuafuLoggerInitFinished
    /\ pc' = [pc EXCEPT ![t] = "out"]
    /\ synced' = synced \cup {t}
    /\ UNCHANGED <<setup, appenders, level, severity, record, threw, shut>>

\* A fault, for NothingAfterShutdown: the pointer is set when there is a first
\* appender, before the console's.
AddFileAppenderAndPublish(t) ==
    /\ pc[t] = "file"
    /\ appenders' = Append(appenders, FileAppender(wanted))
    /\ pc' = [pc EXCEPT ![t] = IF wanted.output_console THEN "console" ELSE "level"]
    /\ logger_' = KLogger
    /\ UNCHANGED <<sKuafuLoggerInitStart, sKuafuLoggerInitFinished, wanted, level, synced,
                   severity, record, threw, shut>>

AddFileAppender(t) ==
    /\ pc[t] = "file"
    /\ appenders' = Append(appenders, FileAppender(wanted))
    /\ pc' = [pc EXCEPT ![t] = IF wanted.output_console THEN "console" ELSE "level"]
    /\ UNCHANGED <<setup, level, synced, severity, record, threw, shut>>

AddConsoleAppender(t) ==
    /\ pc[t] = "console"
    /\ appenders' = Append(appenders, Console)
    /\ pc' = [pc EXCEPT ![t] = "level"]
    /\ UNCHANGED <<setup, level, synced, severity, record, threw, shut>>

\* An appender, its layout or the logger cannot be allocated: nothing catches it.
Throw(t) ==
    /\ pc[t] \in {"file", "console"}
    /\ pc' = [pc EXCEPT ![t] = "out"]
    /\ threw' = TRUE
    /\ UNCHANGED <<setup, appenders, level, synced, severity, record, shut>>

SetLogLevel(t) ==
    /\ pc[t] = "level"
    /\ level' = wanted.level
    /\ pc' = [pc EXCEPT ![t] = "publish"]
    /\ UNCHANGED <<setup, appenders, synced, severity, record, threw, shut>>

Publish(t) ==
    /\ pc[t] = "publish"
    /\ logger_' = KLogger
    /\ pc' = [pc EXCEPT ![t] = "finish"]
    /\ synced' = synced \cup {t}
    /\ UNCHANGED <<sKuafuLoggerInitStart, sKuafuLoggerInitFinished, wanted, appenders, level,
                   severity, record, threw, shut>>

\* A fault, for InitReturns: the flag is not set.
FinishForgets(t) ==
    /\ pc[t] = "finish"
    /\ pc' = [pc EXCEPT ![t] = "out"]
    /\ UNCHANGED <<setup, appenders, level, synced, severity, record, threw, shut>>

Finish(t) ==
    /\ pc[t] = "finish"
    /\ sKuafuLoggerInitFinished' = TRUE
    /\ pc' = [pc EXCEPT ![t] = "out"]
    /\ UNCHANGED <<sKuafuLoggerInitStart, logger_, wanted, appenders, level, synced, severity,
                   record, threw, shut>>

-----------------------------------------------------------------------------
(* The macros and Uninit                                                   *)

\* What a thread may read in logger_.  The read is not synchronised: a thread
\* that has not waited for the write may also miss it.
Instance(t) == IF t \in synced THEN {logger_} ELSE {logger_, NullPtr}

\* A record for a null logger is dropped: the macro does nothing.
Log(t, s) ==
    /\ pc[t] = "out"
    /\ KLogger \in Instance(t)
    /\ pc' = [pc EXCEPT ![t] = "append"]
    /\ severity' = [severity EXCEPT ![t] = s]
    /\ UNCHANGED <<setup, appenders, level, synced, record, threw, shut>>

\* log4cplus compares the levels, and walks the appenders under their lock.
AppendRecord(t) ==
    /\ pc[t] = "append"
    /\ pc' = [pc EXCEPT ![t] = "out"]
    /\ record' = [severity |-> severity[t],
                  to |-> IF severity[t] >= level THEN appenders ELSE <<>>,
                  late |-> shut]
    /\ severity' = [severity EXCEPT ![t] = 0]
    /\ UNCHANGED <<setup, appenders, level, synced, threw, shut>>

\* log4cplus closes and removes all the appenders; the pointer keeps its value.
Uninit(t) ==
    /\ pc[t] = "out"
    /\ KLogger \in Instance(t)
    /\ appenders' = <<>>
    /\ shut' = TRUE
    /\ UNCHANGED <<setup, level, pc, synced, severity, record, threw>>

-----------------------------------------------------------------------------
FirstStep(t) == \/ AddFileAppender(t)
                \/ AddConsoleAppender(t)
                \/ SetLogLevel(t)
                \/ Publish(t)
                \/ Finish(t)

Next == \E t \in Threads :
    \/ \E a \in Args : CallInit(t, a)
    \/ SpinEnds(t)
    \/ FirstStep(t)
    \/ Throw(t)
    \/ \E s \in Severities : Log(t, s)
    \/ AppendRecord(t)
    \/ Uninit(t)

\* A thread that is inside Init is run.
Fairness == \A t \in Threads : WF_vars(SpinEnds(t)) /\ WF_vars(FirstStep(t))

Spec == Init /\ [][Next]_vars /\ Fairness

-----------------------------------------------------------------------------
(* Properties                                                              *)

Sink == {f \in FileNames : ~NullOrEmpty(f)} \cup {DefaultFile, Console}

\* Type invariant.
TypeOK ==
    /\ sKuafuLoggerInitStart \in BOOLEAN /\ sKuafuLoggerInitFinished \in BOOLEAN
    /\ logger_ \in {NullPtr, KLogger}
    /\ appenders \in Seq(Sink)
    /\ level \in Levels \cup {0}
    /\ pc \in [Threads -> Places]
    /\ wanted \in Args \cup {NoArgs}
    /\ synced \subseteq Threads
    /\ severity \in [Threads -> Severities \cup {0}]
    /\ record \in [severity : Severities \cup {0}, to : Seq(Sink), late : BOOLEAN]
    /\ threw \in BOOLEAN /\ shut \in BOOLEAN

\* Until the logger is shut down a record goes to all the appenders that the
\* first caller of Init asked for, once to each and to no other, if it has the
\* level that caller asked for, and else to none: no thread sees a logger that
\* is half set up, however many race to set it up (kflogger.cc:30-89).
RecordsAreWhole ==
    ~record.late =>
        record.to = IF record.severity >= wanted.level THEN Sinks(wanted) ELSE <<>>

\* On a thread whose call of Init has returned, without having thrown, a macro
\* finds the logger, and kLogger has its appenders and its level, until it is
\* shut down (kflogger.cc:31-35, 87-89).
InitializedRecordsArrive ==
    \A t \in synced : /\ Instance(t) = {KLogger}
                      /\ ~shut => appenders = Sinks(wanted) /\ level = wanted.level

\* Once shut down, the logger has no appender, and no later call of Init gives
\* it one: its records go nowhere (kflogger.h:76-80, kflogger.cc:30).
NothingAfterShutdown == shut => appenders = <<>>

\* A call of Init returns, unless the first one threw: then every other call
\* waits for a flag that nobody will set (kflogger.cc:30-35).
InitReturns ==
    \A t \in Threads : pc[t] \in InsideFirst \cup {"spin"} ~> pc[t] = "out" \/ threw
=============================================================================
