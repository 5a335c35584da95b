----------------------------- MODULE LoggerProofs -----------------------------
(***************************************************************************)
(* The safety of Logger's initialization, for any number of threads and    *)
(* any parameters of their calls.                                          *)
(***************************************************************************)
EXTENDS Logger, SequenceTheorems, TLAPS

-----------------------------------------------------------------------------
(* Types                                                                   *)

\* What a call asks for is made of appenders, and has one or two.
LEMMA SinksType ==
    ASSUME NEW a \in Args \cup {NoArgs}
    PROVE  FileAppender(a) \in Sink /\ Sinks(a) \in Seq(Sink)
<1>1. a.file_name \in FileNames \cup {NullPtr}
  BY DEF Args, NoArgs
<1>2. FileAppender(a) \in Sink
  BY <1>1 DEF FileAppender, Sink, NullOrEmpty
<1>3. Console \in Sink
  BY DEF Sink
<1>. QED BY <1>2, <1>3 DEF Sinks

\* A second element appended to a first.
LEMMA AppendSecond ==
    ASSUME NEW S, NEW f \in S, NEW g \in S
    PROVE  Append(<<f>>, g) = <<f, g>>
<1>1. <<f>> \in Seq(S) /\ <<f, g>> \in Seq(S) /\ Len(<<f>>) = 1 /\ Len(<<f, g>>) = 2
  OBVIOUS
<1>2. /\ Append(<<f>>, g) \in Seq(S) /\ Len(Append(<<f>>, g)) = 2
      /\ Append(<<f>>, g)[1] = f /\ Append(<<f>>, g)[2] = g
  BY <1>1, AppendProperties
<1>3. <<f, g>>[1] = f /\ <<f, g>>[2] = g
  OBVIOUS
<1>4. \A i \in 1..2 : Append(<<f>>, g)[i] = <<f, g>>[i]
  BY <1>2, <1>3
<1>. QED BY <1>1, <1>2, <1>4, SeqEqual

\* The type invariant holds.
THEOREM TypeCorrect == Spec => []TypeOK
<1>1. Init => TypeOK
  <2>1. NoRecord \in [severity : Severities \cup {0}, to : Seq(Sink), late : BOOLEAN]
    BY DEF NoRecord
  <2>. SUFFICES ASSUME Init PROVE TypeOK
    OBVIOUS
  <2>2. appenders \in Seq(Sink) /\ pc \in [Threads -> Places]
    BY DEF Init, Places
  <2>3. severity \in [Threads -> Severities \cup {0}]
    BY DEF Init
  <2>. QED BY <2>1, <2>2, <2>3 DEF Init, TypeOK
<1>2. TypeOK /\ [Next]_vars => TypeOK'
  <2>. SUFFICES ASSUME TypeOK, [Next]_vars PROVE TypeOK'
    OBVIOUS
  <2>. USE DEF TypeOK, setup
  <2>1. ASSUME NEW t \in Threads, NEW a \in Args, CallInit(t, a) PROVE TypeOK'
    BY <2>1 DEF CallInit, TestAndSet, Places, InsideFirst
  <2>2. ASSUME NEW t \in Threads, SpinEnds(t) PROVE TypeOK'
    BY <2>2 DEF SpinEnds, Places
  <2>3. ASSUME NEW t \in Threads, AddFileAppender(t) PROVE TypeOK'
    BY <2>3, SinksType DEF AddFileAppender, Places, InsideFirst
  <2>4. ASSUME NEW t \in Threads, AddConsoleAppender(t) PROVE TypeOK'
    BY <2>4 DEF AddConsoleAppender, Sink, Places, InsideFirst
  <2>5. ASSUME NEW t \in Threads, SetLogLevel(t) PROVE TypeOK'
    BY <2>5 DEF SetLogLevel, Args, NoArgs, Places, InsideFirst
  <2>6. ASSUME NEW t \in Threads, Publish(t) PROVE TypeOK'
    BY <2>6 DEF Publish, Places, InsideFirst
  <2>7. ASSUME NEW t \in Threads, Finish(t) PROVE TypeOK'
    BY <2>7 DEF Finish, Places
  <2>8. ASSUME NEW t \in Threads, Throw(t) PROVE TypeOK'
    BY <2>8 DEF Throw, Places
  <2>9. ASSUME NEW t \in Threads, NEW s \in Severities, Log(t, s) PROVE TypeOK'
    BY <2>9 DEF Log, Places
  <2>10. ASSUME NEW t \in Threads, AppendRecord(t) PROVE TypeOK'
    <3>1. pc' \in [Threads -> Places] /\ severity' \in [Threads -> Severities \cup {0}]
      BY <2>10 DEF AppendRecord, Places
    <3>2. record' \in [severity : Severities \cup {0}, to : Seq(Sink), late : BOOLEAN]
      <4>1. (IF severity[t] >= level THEN appenders ELSE <<>>) \in Seq(Sink)
        OBVIOUS
      <4>2. severity[t] \in Severities \cup {0}
        OBVIOUS
      <4>. QED BY <2>10, <4>1, <4>2 DEF AppendRecord
    <3>. QED BY <2>10, <3>1, <3>2 DEF AppendRecord
  <2>11. ASSUME NEW t \in Threads, Uninit(t) PROVE TypeOK'
    BY <2>11 DEF Uninit
  <2>12. CASE UNCHANGED vars
    BY <2>12 DEF vars
  <2>. QED BY <2>1, <2>2, <2>3, <2>4, <2>5, <2>6, <2>7, <2>8, <2>9, <2>10, <2>11, <2>12
           DEF Next, FirstStep
<1>. QED BY <1>1, <1>2, PTL DEF Spec

-----------------------------------------------------------------------------
(* The invariant                                                           *)

\* One thread at most is in the body of Init, once, and only after the test
\* and set; nothing is published before it is there.
OneInside ==
    /\ \A t, u \in Threads : pc[t] \in InsideFirst /\ pc[u] \in InsideFirst => t = u
    /\ ~sKuafuLoggerInitStart => \A t \in Threads : pc[t] \notin InsideFirst
    /\ ~sKuafuLoggerInitStart => appenders = <<>> /\ logger_ = NullPtr

\* What the thread in the body has done when it is at each line.
Progress ==
    \A t \in Threads :
        /\ pc[t] = "file" => appenders = <<>>
        /\ pc[t] = "console" => wanted.output_console /\ appenders = <<FileAppender(wanted)>>
        /\ pc[t] \in {"level", "publish"} => appenders = Sinks(wanted)
        /\ pc[t] = "publish" => level = wanted.level
        /\ pc[t] \in InsideFirst \ {"finish"} => logger_ = NullPtr
        /\ pc[t] = "finish" => logger_ = KLogger

\* The published logger is whole; only a thread that has seen it published can
\* be about to append; only a published logger can be shut down.
Published ==
    /\ logger_ = KLogger =>
           level = wanted.level /\ appenders = IF shut THEN <<>> ELSE Sinks(wanted)
    /\ \A t \in Threads : pc[t] = "append" => logger_ = KLogger
    /\ sKuafuLoggerInitFinished => logger_ = KLogger
    /\ synced # {} => logger_ = KLogger
    /\ shut => logger_ = KLogger
    /\ ~record.late => logger_ = KLogger

Inv == OneInside /\ Progress /\ Published /\ RecordsAreWhole

LEMMA Invariance == Spec => []Inv
<1>. USE DEF InsideFirst, setup
<1>1. Init => Inv
  BY LoggerAssumption
     DEF Init, Inv, OneInside, Progress, Published, RecordsAreWhole, NoRecord
<1>2. TypeOK /\ Inv /\ [Next]_vars => Inv'
  <2>. SUFFICES ASSUME TypeOK, Inv, [Next]_vars PROVE Inv'
    OBVIOUS
  <2>0. KLogger # NullPtr /\ pc \in [Threads -> Places] /\ logger_ \in {NullPtr, KLogger}
    BY LoggerAssumption DEF TypeOK
  <2>. USE <2>0 DEF Inv, OneInside, Progress, Published, RecordsAreWhole
  <2>1. ASSUME NEW t \in Threads, NEW a \in Args, CallInit(t, a) PROVE Inv'
    <3>1. CASE sKuafuLoggerInitStart
      BY <2>1, <3>1 DEF CallInit, TestAndSet
    <3>2. CASE ~sKuafuLoggerInitStart
      <4>1. logger_ = NullPtr /\ appenders = <<>> /\ record.late
        BY <3>2 DEF TypeOK
      <4>. QED BY <2>1, <3>2, <4>1 DEF CallInit, TestAndSet
    <3>. QED BY <3>1, <3>2 DEF TypeOK
  <2>2. ASSUME NEW t \in Threads, SpinEnds(t) PROVE Inv'
    BY <2>2 DEF SpinEnds
  <2>3. ASSUME NEW t \in Threads, AddFileAppender(t) PROVE Inv'
    <3>0. FileAppender(wanted) \in Sink
      BY SinksType DEF TypeOK
    <3>1. appenders' = <<FileAppender(wanted)>>
      <4>1. appenders = <<>> /\ appenders' = Append(appenders, FileAppender(wanted))
        BY <2>3 DEF AddFileAppender
      <4>. QED BY <3>0, <4>1
    <3>2. ~wanted.output_console => appenders' = Sinks(wanted)
      BY <3>1 DEF Sinks
    <3>3. sKuafuLoggerInitStart
      BY <2>3 DEF AddFileAppender
    <3>. QED BY <2>3, <3>1, <3>2, <3>3 DEF AddFileAppender
  <2>4. ASSUME NEW t \in Threads, AddConsoleAppender(t) PROVE Inv'
    <3>0. FileAppender(wanted) \in Sink /\ Console \in Sink
      BY SinksType DEF TypeOK, Sink
    <3>1. appenders = <<FileAppender(wanted)>> /\ appenders' = Append(appenders, Console)
      BY <2>4 DEF AddConsoleAppender
    <3>2. appenders' = <<FileAppender(wanted), Console>>
      BY <3>0, <3>1, AppendSecond
    <3>3. appenders' = Sinks(wanted)
      BY <2>4, <3>2 DEF AddConsoleAppender, Sinks
    <3>. QED BY <2>4, <3>3 DEF AddConsoleAppender
  <2>5. ASSUME NEW t \in Threads, SetLogLevel(t) PROVE Inv'
    BY <2>5 DEF SetLogLevel
  <2>6. ASSUME NEW t \in Threads, Publish(t) PROVE Inv'
    BY <2>6 DEF Publish
  <2>7. ASSUME NEW t \in Threads, Finish(t) PROVE Inv'
    BY <2>7 DEF Finish
  <2>8. ASSUME NEW t \in Threads, Throw(t) PROVE Inv'
    BY <2>8 DEF Throw
  <2>9. ASSUME NEW t \in Threads, NEW s \in Severities, Log(t, s) PROVE Inv'
    <3>1. logger_ = KLogger
      BY <2>9 DEF Log, Instance
    <3>. QED BY <2>9, <3>1 DEF Log
  <2>10. ASSUME NEW t \in Threads, AppendRecord(t) PROVE Inv'
    <3>1. logger_ = KLogger
      BY <2>10 DEF AppendRecord
    <3>2. /\ record'.severity = severity[t] /\ record'.late = shut
          /\ record'.to = IF severity[t] >= level THEN appenders ELSE <<>>
      BY <2>10 DEF AppendRecord
    <3>3. RecordsAreWhole'
      BY <2>10, <3>1, <3>2 DEF AppendRecord
    <3>. QED BY <2>10, <3>1, <3>3 DEF AppendRecord
  <2>11. ASSUME NEW t \in Threads, Uninit(t) PROVE Inv'
    <3>1. logger_ = KLogger
      BY <2>11 DEF Uninit, Instance
    <3>. QED BY <2>11, <3>1 DEF Uninit
  <2>12. CASE UNCHANGED vars
    BY <2>12 DEF vars
  <2>. QED BY <2>1, <2>2, <2>3, <2>4, <2>5, <2>6, <2>7, <2>8, <2>9, <2>10, <2>11, <2>12
           DEF Next, FirstStep
<1>. QED BY <1>1, <1>2, TypeCorrect, PTL DEF Spec

-----------------------------------------------------------------------------
(* The properties                                                          *)

\* A record that is not too late goes to all the first caller's appenders.
THEOREM WholeRecords == Spec => []RecordsAreWhole
BY Invariance, PTL DEF Inv

\* A thread that has come back from Init finds the whole logger.
THEOREM Initialized == Spec => []InitializedRecordsArrive
<1>1. Inv => InitializedRecordsArrive
  BY DEF Inv, Published, InitializedRecordsArrive, Instance
<1>. QED BY <1>1, Invariance, PTL

\* A logger that is shut down stays without appenders.
THEOREM ShutForGood == Spec => []NothingAfterShutdown
<1>1. Inv => NothingAfterShutdown
  BY DEF Inv, Published, NothingAfterShutdown
<1>. QED BY <1>1, Invariance, PTL
=============================================================================
