---------------------------- MODULE LoggerProofs ----------------------------
(***************************************************************************)
(* Proofs about Logger for any threads, levels and numbers of records: who *)
(* can use the logger after its destruction, and that no record is lost or *)
(* written twice before it.                                                *)
(***************************************************************************)
EXTENDS Logger, LogFiles, SequenceTheorems, FiniteSetTheorems, TLAPS

Place == {"none", "idle", "check", "get", "append", "lock", "close", "open", "write", "fault",
          "stop", "done"}

(***************************************************************************)
(* The inductive invariant.                                                *)
(***************************************************************************)

\* No thread runs before the logger is built, and the logger stays what it was built
\* as until its base class is destroyed.
BuiltFirst ==
    /\ main \in {"singleton", "logger", "add", "start"} => \A t \in Threads : pc[t] = "none"
    /\ main \in {"singleton", "logger", "add"} => m_appenders = <<>>
    /\ main \notin {"singleton", "logger"} => m_maxSeverity = LOG_LEVEL
    /\ main \notin {"singleton", "logger", "add"} => m_appenders = <<"file">>
    /\ main \in {"logger", "add", "start", "run", "join", "exit", "unset"} => m_instance

\* Somebody has called Stop before it joins; a thread that has does nothing else.
Stoppers ==
    /\ main \in {"join", "exit", "unset", "close", "end"} => stops # {}
    /\ \A t \in Threads : t \in stops => pc[t] = "stop"

\* One caller of Stop, or none: the case in which the join keeps the workers away.
StoppedOnce == \E caller \in stops : stops = {caller}

\* exit() begins when the workers have been joined, unless Stop was called twice.
JoinedFirst ==
    main \in {"exit", "unset", "close", "end"} /\ StoppedOnce =>
        \A w \in Workers : pc[w] = "done"

\* The mutex's holder, and only it, is between lock and unlock.
HolderWrites ==
    AppenderLives => \A t \in Threads : pc[t] \in {"close", "open", "write"} => m_mutex = t

\* The file is open, but for the first write and the middle of a roll, or could not be.
FileReady ==
    AppenderLives =>
        /\ m_mutex = Free => m_firstWrite \/ m_file \/ m_fileSize = -1
        /\ \A t \in Threads : pc[t] = "write" => m_file \/ m_fileSize = -1
        /\ m_firstWrite \/ m_file => m_fileSize # -1
        /\ \A t \in Threads : pc[t] \in {"close", "open"} => m_fileSize # -1

\* The iterator of a thread at its appender, or past it.
Iterating ==
    \A t \in Threads :
        /\ pc[t] \in {"lock", "close", "open", "write"} => it[t] = 1
        /\ pc[t] = "append" => it[t] \in {1, 2}

\* No record is in the file before it is due.
NoneAhead ==
    \A t \in Threads : \A i \in DOMAIN lines :
        lines[i].thread = t => lines[i].number <= Due(t)

LifeInv == BuiltFirst /\ Stoppers /\ JoinedFirst /\ OnlyUnjoinedTouch
LockInv == HolderWrites /\ FileReady /\ Iterating
RecordInv == NoneAhead /\ EveryRecordOnce

(***************************************************************************)
(* Types.                                                                  *)
(***************************************************************************)

\* A thread goes somewhere, and the others stay where they are.
LEMMA Went ==
    ASSUME pc \in [Threads -> Place], NEW t \in Threads, NEW where \in Place, Goto(t, where)
    PROVE  /\ pc' \in [Threads -> Place] /\ pc'[t] = where
           /\ \A o \in Threads \ {t} : pc'[o] = pc[o]
    BY DEF Goto

\* The types, in the form the leaves use.
LEMMA Typed ==
    ASSUME TypeOK
    PROVE  /\ pc \in [Threads -> Place] /\ it \in [Threads -> Nat] /\ logged \in [Threads -> Nat]
           /\ lines \in Seq([thread : Threads, number : Nat])
           /\ m_mutex \in Threads \cup {Free} /\ Free \notin Threads
           /\ m_fileSize \in Nat \cup {-1} /\ touched \subseteq Threads
           /\ stops \subseteq Threads \cup {Main} /\ Main \notin Threads
           /\ main \in {"singleton", "logger", "add", "start", "run", "join", "exit", "unset",
                        "close", "end", "gone"}
    BY ThreadsAssumption DEF TypeOK, Place, Threads

\* What a step of a thread does to the places, and to the main thread and the logger
\* that it leaves alone.
LEMMA ThreadMoves ==
    ASSUME TypeOK, NEW t \in Threads,
           IfPlog(t) \/ Check(t) \/ Get(t) \/ AppendNext(t) \/ Lock(t) \/ Close(t) \/ Open(t)
             \/ Write(t) \/ Spawn(t) \/ WorkerEnds(t) \/ Crash(t)
    PROVE  /\ \E where \in Place : Goto(t, where)
           /\ UNCHANGED <<main, loggerVars, stops>>
           /\ main # "gone"
<1>1. UNCHANGED <<main, loggerVars, stops>> /\ main # "gone"
    BY DEF IfPlog, Check, Get, AppendNext, Lock, Close, Open, Write, Spawn, WorkerEnds, Crash, At,
           Misuse
<1> SUFFICES \E where \in Place : Goto(t, where)
    BY <1>1
<1>0. /\ "none" \in Place /\ "idle" \in Place /\ "get" \in Place /\ "append" \in Place
      /\ "check" \in Place
      /\ "lock" \in Place /\ "close" \in Place /\ "open" \in Place /\ "write" \in Place
      /\ "fault" \in Place /\ "done" \in Place
    BY DEF Place
<1>2. ASSUME NEW places \in SUBSET Place, Misuse(t, places)
      PROVE  \E where \in Place : Goto(t, where)
    BY <1>2, Zenon DEF Misuse
<1>3. CASE IfPlog(t) \/ Check(t)
    <2>1. {"fault"} \in SUBSET Place
        BY <1>0
    <2>2. \/ Goto(t, IF getInstance THEN "check" ELSE "idle")
          \/ \E severity \in Severity : Goto(t, IF checkSeverity(severity) THEN "get" ELSE "idle")
          \/ Misuse(t, {"fault"})
        BY <1>3, Zenon DEF IfPlog, Check
    <2> QED
        BY <1>0, <1>2, <2>1, <2>2, Zenon
<1>4. CASE Get(t)
    <2>1. {"fault"} \in SUBSET Place
        BY <1>0
    <2>2. Goto(t, "append") \/ Misuse(t, {"fault"})
        BY <1>4, Zenon DEF Get
    <2> QED
        BY <1>0, <1>2, <2>1, <2>2, Zenon
<1>5. CASE AppendNext(t)
    <2> DEFINE where == IF it[t] <= Len(m_appenders) THEN "lock" ELSE "idle"
    <2>1. where \in Place /\ {where, "idle", "fault"} \in SUBSET Place
        BY <1>0
    <2>2. Goto(t, where) \/ Misuse(t, {where, "idle", "fault"})
        BY <1>5, Zenon DEF AppendNext
    <2> HIDE DEF where
    <2> QED
        BY <1>2, <2>1, <2>2, Zenon
<1>6. CASE Lock(t)
    <2> DEFINE where == CASE m_firstWrite -> "open"
                          [] ~m_firstWrite /\ m_fileSize > m_maxFileSize -> "close"
                          [] OTHER -> "write"
    <2>1. where \in Place /\ {"idle", "fault"} \in SUBSET Place
        BY <1>0
    <2>2. Goto(t, where) \/ Misuse(t, {"idle", "fault"})
        BY <1>6, Zenon DEF Lock
    <2> HIDE DEF where
    <2> QED
        BY <1>2, <2>1, <2>2, Zenon
<1>7. CASE Close(t) \/ Open(t) \/ Write(t)
    <2>1. /\ {"open", "fault"} \in SUBSET Place /\ {"write", "fault"} \in SUBSET Place
          /\ {"append", "fault"} \in SUBSET Place
        BY <1>0
    <2>2. \/ Goto(t, "open") \/ Misuse(t, {"open", "fault"})
          \/ Goto(t, "write") \/ Misuse(t, {"write", "fault"})
          \/ Goto(t, "append") \/ Misuse(t, {"append", "fault"})
        BY <1>7, Zenon DEF Close, Open, Write
    <2> QED
        BY <1>0, <1>2, <2>1, <2>2, Zenon
<1>8. CASE Spawn(t) \/ WorkerEnds(t) \/ Crash(t)
    BY <1>0, <1>8, Zenon DEF Spawn, WorkerEnds, Crash
<1> QED
    BY <1>3, <1>4, <1>5, <1>6, <1>7, <1>8, Zenon

\* The steps of a thread but what it does when it has faulted.
ThreadStep(t) ==
    \/ IfPlog(t) \/ Check(t) \/ Get(t) \/ AppendNext(t) \/ Lock(t) \/ Close(t) \/ Open(t)
    \/ Write(t) \/ Spawn(t) \/ WorkerEnds(t) \/ Crash(t)

\* Every step is one of a thread, what it does when it has faulted, or the main thread's.
LEMMA NextCases ==
    Next => \/ MainStep \/ Stop
            \/ \E t \in Threads : ThreadStep(t) \/ SignalError(t)
<1>1. Workers \subseteq Threads
    BY DEF Threads
<1> QED
    BY <1>1, Zenon DEF Next, Plog, ThreadStep

\* Where a call of Stop takes the process.
LEMMA StopIs ==
    ASSUME NEW caller, StopCalled(caller)
    PROVE  /\ stops' = stops \cup {caller}
           /\ \/ main = "run" /\ main' = "join"
              \/ main = "join" /\ main' = "exit"
              \/ main \notin {"run", "join"} /\ main' = main
    BY DEF StopCalled

\* What the handler of a fault changes.
LEMMA SignalIs ==
    ASSUME NEW t, SignalError(t)
    PROVE  /\ pc[t] = "fault" /\ main # "gone" /\ Goto(t, "stop") /\ stops' = stops \cup {t}
           /\ UNCHANGED <<m_instance, m_maxSeverity, m_appenders, fileVars, it, logged, touched>>
           /\ \/ main = "run" /\ main' = "join"
              \/ main = "join" /\ main' = "exit"
              \/ main \notin {"run", "join"} /\ main' = main
              \/ (main = "run" \/ Exiting) /\ main' = "gone"
    BY StopIs DEF SignalError, At, loggerVars

LEMMA ThreadTypes ==
    ASSUME TypeOK, NEW t \in Threads, ThreadStep(t)
    PROVE  /\ it' \in [Threads -> Nat] /\ logged' \in [Threads -> Nat]
           /\ lines' \in Seq([thread : Threads, number : Nat])
           /\ m_mutex' \in Threads \cup {Free} /\ m_fileSize' \in Nat \cup {-1}
           /\ touched' \subseteq Threads
           /\ m_file' \in BOOLEAN /\ m_firstWrite' \in BOOLEAN
<1>0. /\ it \in [Threads -> Nat] /\ logged \in [Threads -> Nat]
      /\ lines \in Seq([thread : Threads, number : Nat])
      /\ m_mutex \in Threads \cup {Free} /\ m_fileSize \in Nat \cup {-1}
      /\ touched \subseteq Threads
      /\ m_file \in BOOLEAN /\ m_firstWrite \in BOOLEAN
    BY DEF TypeOK
<1>0a. it \in [Threads -> Nat]
    BY DEF TypeOK
<1>1. ASSUME NEW places, Misuse(t, places)
      PROVE  touched' = touched \cup {t} /\ UNCHANGED <<it, logged, fileVars>>
    BY <1>1 DEF Misuse
<1>2. CASE Check(t)
    <2>1. UNCHANGED <<fileVars, it>> /\ (touched' = touched \/ touched' = touched \cup {t})
        BY <1>1, <1>2 DEF Check
    <2>2. logged' = logged \/ \E severity \in Severity :
              logged' = [logged EXCEPT ![t] = IF severity <= LOG_LEVEL THEN @ + 1 ELSE @]
        BY <1>1, <1>2 DEF Check
    <2>3. logged' \in [Threads -> Nat]
        <3>1. logged \in [Threads -> Nat]
            BY <1>0
        <3>2. ASSUME NEW severity \in Severity,
                     logged' = [logged EXCEPT ![t] = IF severity <= LOG_LEVEL THEN @ + 1 ELSE @]
              PROVE  logged' \in [Threads -> Nat]
            BY <3>1, <3>2
        <3> QED
            BY <2>2, <3>1, <3>2
    <2>4. touched' \subseteq Threads
        BY <1>0, <2>1
    <2> QED
        BY <1>0, <2>1, <2>3, <2>4 DEF fileVars
<1>3. CASE Get(t)
    <2>1. /\ UNCHANGED <<fileVars, logged>>
          /\ touched' = touched \/ touched' = touched \cup {t}
        BY <1>1, <1>3 DEF Get
    <2>2. it' \in [Threads -> Nat]
        <3>1. it' = it \/ it' = [it EXCEPT ![t] = 1]
            BY <1>1, <1>3 DEF Get
        <3> QED
            BY <1>0a, <3>1
    <2>3. touched' \subseteq Threads
        BY <1>0, <2>1
    <2> QED
        BY <1>0, <2>1, <2>2, <2>3 DEF fileVars
<1>4. CASE AppendNext(t)
    <2>1. UNCHANGED <<fileVars, logged, it>> /\ (touched' = touched \/ touched' = touched \cup {t})
        BY <1>1, <1>4 DEF AppendNext
    <2> QED
        BY <1>0, <2>1 DEF fileVars
<1>5. CASE Lock(t)
    <2>1. /\ UNCHANGED <<logged, it, m_file, m_fileSize, m_firstWrite, lines>>
          /\ m_mutex' = t \/ m_mutex' = m_mutex
          /\ touched' = touched \/ touched' = touched \cup {t}
        BY <1>1, <1>5 DEF Lock, MutexLock, fileVars
    <2> QED
        BY <1>0, <2>1
<1>6. CASE Close(t)
    <2>1. /\ UNCHANGED <<logged, it, m_mutex, m_fileSize, m_firstWrite, lines>>
          /\ m_file' = FALSE \/ m_file' = m_file
          /\ touched' = touched \/ touched' = touched \cup {t}
        BY <1>1, <1>6 DEF Close, FileClose, fileVars
    <2> QED
        BY <1>0, <2>1
<1>7. CASE Open(t)
    <2>1. /\ UNCHANGED <<logged, it, m_mutex, lines>>
          /\ \/ m_file' \in BOOLEAN /\ m_fileSize' \in {0, -1} /\ m_firstWrite' = FALSE
             \/ UNCHANGED <<m_file, m_fileSize, m_firstWrite>>
          /\ touched' = touched \/ touched' = touched \cup {t}
        BY <1>1, <1>7 DEF Open, fileVars
    <2>2. m_file' \in BOOLEAN /\ m_firstWrite' \in BOOLEAN
        BY <1>0, <2>1, Zenon
    <2>3. m_fileSize' \in Nat \cup {-1} /\ touched' \subseteq Threads
        BY <1>0, <2>1
    <2> QED
        BY <1>0, <2>1, <2>2, <2>3
<1>8. CASE Write(t)
    <2>1. /\ UNCHANGED <<logged, m_file, m_firstWrite>>
          /\ m_fileSize' = m_fileSize + 1 \/ m_fileSize' = m_fileSize
          /\ m_mutex' = Free \/ m_mutex' = m_mutex
          /\ lines' = Append(lines, [thread |-> t, number |-> logged[t]]) \/ lines' = lines
          /\ touched' = touched \/ touched' = touched \cup {t}
        BY <1>1, <1>8 DEF Write, MutexUnlock, fileVars
    <2>2. lines' \in Seq([thread : Threads, number : Nat])
        <3> DEFINE record == [thread |-> t, number |-> logged[t]]
                   Records == [thread : Threads, number : Nat]
        <3>1. record \in Records
            BY <1>0
        <3>2. lines \in Seq(Records) /\ (lines' = Append(lines, record) \/ lines' = lines)
            BY <1>0, <2>1
        <3> HIDE DEF record, Records
        <3>3. lines' \in Seq(Records)
            BY <3>1, <3>2
        <3> QED
            BY <3>3 DEF Records
    <2>3. it' \in [Threads -> Nat]
        <3>1. it' = it \/ it' = [it EXCEPT ![t] = @ + 1]
            BY <1>1, <1>8 DEF Write
        <3> QED
            BY <1>0a, <3>1
    <2>4. /\ m_fileSize' \in Nat \cup {-1} /\ touched' \subseteq Threads
          /\ m_mutex' \in Threads \cup {Free}
        BY <1>0, <2>1
    <2> QED
        BY <1>0, <2>1, <2>2, <2>3, <2>4
<1>9. CASE IfPlog(t) \/ Spawn(t) \/ WorkerEnds(t) \/ Crash(t)
    <2>1. UNCHANGED <<fileVars, logged, it, touched>>
        BY <1>9 DEF IfPlog, Spawn, WorkerEnds, Crash
    <2> QED
        BY <1>0, <2>1 DEF fileVars
<1> QED
    BY <1>2, <1>3, <1>4, <1>5, <1>6, <1>7, <1>8, <1>9 DEF ThreadStep

\* What a step of the main thread leaves alone.
LEMMA MainKeeps ==
    ASSUME MainStep \/ Stop
    PROVE  /\ UNCHANGED <<m_mutex, m_fileSize, m_firstWrite, lines, it, logged, touched>>
           /\ m_file' = m_file \/ (m_file' = FALSE /\ main = "close" /\ main' = "end")
           /\ pc' = pc \/ (main = "start" /\ main' = "run" /\ pc' =
                [t \in Threads |-> IF t \in Workers \cup Handlers THEN "idle" ELSE pc[t]])
    BY DEF MainStep, Singleton, LoggerCtor, AddAppender, Start, Stop, Join, DestroyAppenders,
           DestroySingleton, DestroyAppender, Exit, FileClose, fileVars, threadVars

LEMMA TypeStep == TypeOK /\ [Next]_vars => TypeOK'
<1> SUFFICES ASSUME TypeOK, [Next]_vars PROVE TypeOK'
    OBVIOUS
<1>1. CASE UNCHANGED vars
    BY <1>1 DEF TypeOK, vars, loggerVars, fileVars, threadVars
<1>2. ASSUME NEW t \in Threads, ThreadStep(t) PROVE TypeOK'
    <2>1. /\ \E where \in Place : Goto(t, where)
          /\ UNCHANGED <<main, loggerVars, stops>>
        BY <1>2, ThreadMoves DEF ThreadStep
    <2>2. pc' \in [Threads -> Place]
        BY <2>1, Typed, Went
    <2> QED
        BY <1>2, <2>1, <2>2, ThreadTypes DEF TypeOK, loggerVars, Place
<1>3. ASSUME NEW t \in Threads, SignalError(t) PROVE TypeOK'
    <2>1. pc' \in [Threads -> Place]
        <3>1. "stop" \in Place
            BY DEF Place
        <3> QED
            BY <1>3, <3>1, SignalIs, Typed, Went
    <2>2. /\ main' \in {"singleton", "logger", "add", "start", "run", "join", "exit", "unset",
                        "close", "end", "gone"}
          /\ stops' \subseteq Threads \cup {Main}
        BY <1>3, SignalIs, Typed
    <2> QED
        BY <1>3, <2>1, <2>2, SignalIs DEF TypeOK, Place, fileVars
<1>4. CASE MainStep \/ Stop
    <2>1. pc' \in [Threads -> Place]
        <3>1. "idle" \in Place /\ pc \in [Threads -> Place]
            BY Typed DEF Place
        <3> QED
            BY <1>4, <3>1, MainKeeps
    <2>2. m_file' \in BOOLEAN /\ m_appenders' \in Seq({"file"}) /\ m_maxSeverity' \in 0..6
        <3>1. m_appenders' = m_appenders \/ m_appenders' = Append(m_appenders, "file")
            BY <1>4 DEF MainStep, Singleton, LoggerCtor, AddAppender, Start, Stop, Join,
                        DestroyAppenders, DestroySingleton, DestroyAppender, Exit, addAppender,
                        loggerVars
        <3>2. m_maxSeverity' = m_maxSeverity \/ m_maxSeverity' = LOG_LEVEL
            BY <1>4 DEF MainStep, Singleton, LoggerCtor, AddAppender, Start, Stop, Join,
                        DestroyAppenders, DestroySingleton, DestroyAppender, Exit, loggerVars
        <3>3. m_file' = m_file \/ m_file' = FALSE
            BY <1>4, MainKeeps
        <3>4. m_appenders \in Seq({"file"}) /\ m_maxSeverity \in 0..6 /\ m_file \in BOOLEAN
            BY DEF TypeOK
        <3>5. m_appenders' \in Seq({"file"})
            BY <3>1, <3>4
        <3>6. m_file' \in BOOLEAN
            BY <3>3, <3>4, Zenon
        <3> QED
            BY <3>2, <3>4, <3>5, <3>6, LogLevelAssumption
    <2>3. m_instance' \in BOOLEAN
        <3>1. m_instance' = m_instance \/ m_instance' = TRUE \/ m_instance' = FALSE
            BY <1>4 DEF MainStep, Singleton, LoggerCtor, AddAppender, Start, Stop, Join,
                        DestroyAppenders, DestroySingleton, DestroyAppender, Exit, loggerVars
        <3> QED
            BY <3>1 DEF TypeOK
    <2>4. /\ main' \in {"singleton", "logger", "add", "start", "run", "join", "exit", "unset",
                        "close", "end", "gone"}
          /\ stops' \subseteq Threads \cup {Main}
        BY <1>4, StopIs DEF MainStep, Singleton, LoggerCtor, AddAppender, Start, Stop, Join,
                            DestroyAppenders, DestroySingleton, DestroyAppender, Exit, TypeOK
    <2> QED
        BY <1>4, <2>1, <2>2, <2>3, <2>4, MainKeeps DEF TypeOK, Place
<1> QED
    BY <1>1, <1>2, <1>3, <1>4, NextCases

\* The variables of the logger and of its threads have their types.
THEOREM TypeCorrect == Spec => []TypeOK
<1>1. Init => TypeOK
    <2>1. /\ <<>> \in Seq({"file"}) /\ <<>> \in Seq([thread : Threads, number : Nat])
          /\ [t \in Threads |-> 0] \in [Threads -> Nat] /\ {} \subseteq Threads /\ 0 \in 0..6
        OBVIOUS
    <2>2. [t \in Threads |-> "none"] \in [Threads -> {"none", "idle", "check", "get", "append",
              "lock", "close", "open", "write", "fault", "stop", "done"}]
        OBVIOUS
    <2>3. /\ FALSE \in BOOLEAN /\ TRUE \in BOOLEAN /\ 0 \in Nat \cup {-1}
          /\ Free \in Threads \cup {Free} /\ {} \subseteq Threads \cup {Main}
        OBVIOUS
    <2>4. "singleton" \in {"singleton", "logger", "add", "start", "run", "join", "exit", "unset",
                           "close", "end", "gone"}
        OBVIOUS
    <2> QED
        BY <2>1, <2>2, <2>3, <2>4, Zenon DEF Init, TypeOK
<1> QED
    BY <1>1, TypeStep, PTL DEF Spec

(***************************************************************************)
(* The logger's life: who may find it destroyed.                           *)
(***************************************************************************)

\* A thread in the middle of a record finds a destroyed object only while exit()
\* runs, and a worker only if Stop was called twice.
LEMMA MisuseLate ==
    ASSUME TypeOK, LifeInv, NEW t \in Threads, pc[t] \notin {"none", "done"}, main # "gone",
           ~(LoggerLives /\ AppenderLives /\ getInstance)
    PROVE  Exiting /\ (t \in Workers => ~StoppedOnce)
<1>1. main \in {"singleton", "logger", "add", "start", "run", "join", "exit", "unset", "close",
                "end", "gone"}
    BY Typed
<1>2. main \notin {"singleton", "logger", "add", "start"}
    BY DEF LifeInv, BuiltFirst
<1>3. main \notin {"run", "join"}
    BY DEF LifeInv, BuiltFirst, LoggerLives, AppenderLives, getInstance
<1>4. Exiting /\ main \in {"exit", "unset", "close", "end"}
    BY <1>1, <1>2, <1>3 DEF Exiting
<1> QED
    BY <1>4 DEF LifeInv, JoinedFirst

\* A thread steps after Start, and a worker that has ended does not step.
LEMMA StepsLate ==
    ASSUME TypeOK, LifeInv, NEW t \in Threads, ThreadStep(t)
    PROVE  main \notin {"singleton", "logger", "add", "start"} /\ pc[t] \notin {"stop", "done"}
<1>1. Workers \subseteq Threads
    BY DEF Threads
<1>2. \/ pc[t] \in {"idle", "check", "get", "append", "lock", "close", "open", "write"}
      \/ pc[t] = "none" /\ \E w \in Workers : pc[w] = "idle"
    BY DEF ThreadStep, IfPlog, Check, Get, AppendNext, Lock, Close, Open, Write, Spawn, WorkerEnds,
           Crash, At
<1> QED
    BY <1>1, <1>2 DEF LifeInv, BuiltFirst

\* What a step of a thread does to the history.
LEMMA TouchedBy ==
    ASSUME TypeOK, LifeInv, NEW t \in Threads, ThreadStep(t)
    PROVE  \/ touched' = touched
           \/ touched' = touched \cup {t} /\ Exiting /\ (t \in Workers => ~StoppedOnce)
<1>0. main # "gone"
    BY ThreadMoves DEF ThreadStep
<1>1. ASSUME NEW places, Misuse(t, places), pc[t] \notin {"none", "done"},
             ~(LoggerLives /\ AppenderLives /\ getInstance)
      PROVE  touched' = touched \cup {t} /\ Exiting /\ (t \in Workers => ~StoppedOnce)
    BY <1>0, <1>1, MisuseLate DEF Misuse
<1>2. CASE Check(t) \/ Get(t)
    <2>1. pc[t] \notin {"none", "done"}
        BY <1>2 DEF Check, Get, At
    <2>2. touched' = touched \/ (~getInstance /\ Misuse(t, {"fault"}))
        BY <1>2, Zenon DEF Check, Get
    <2> QED
        BY <1>1, <2>1, <2>2
<1>3. CASE AppendNext(t)
    <2> DEFINE where == IF it[t] <= Len(m_appenders) THEN "lock" ELSE "idle"
    <2>1. pc[t] \notin {"none", "done"}
        BY <1>3 DEF AppendNext, At
    <2>2. touched' = touched \/ (~LoggerLives /\ Misuse(t, {where, "idle", "fault"}))
        BY <1>3 DEF AppendNext
    <2> HIDE DEF where
    <2> QED
        BY <1>1, <2>1, <2>2
<1>4. CASE Lock(t) \/ Close(t) \/ Open(t) \/ Write(t)
    <2>1. pc[t] \notin {"none", "done"}
        BY <1>4 DEF Lock, Close, Open, Write, At
    <2>2. \/ touched' = touched
          \/ /\ ~AppenderLives
             /\ \/ Misuse(t, {"idle", "fault"}) \/ Misuse(t, {"open", "fault"})
                \/ Misuse(t, {"write", "fault"}) \/ Misuse(t, {"append", "fault"})
        BY <1>4, Zenon DEF Lock, Close, Open, Write
    <2> QED
        BY <1>1, <2>1, <2>2
<1>5. CASE IfPlog(t) \/ Spawn(t) \/ WorkerEnds(t) \/ Crash(t)
    BY <1>5 DEF IfPlog, Spawn, WorkerEnds, Crash
<1> QED
    BY <1>2, <1>3, <1>4, <1>5 DEF ThreadStep

LEMMA ThreadLife ==
    ASSUME TypeOK, LifeInv, NEW t \in Threads, ThreadStep(t)
    PROVE  LifeInv'
<1>1. /\ main' = main /\ stops' = stops
      /\ UNCHANGED <<m_instance, m_maxSeverity, m_appenders>>
    BY ThreadMoves DEF ThreadStep, loggerVars
<1>2. \A o \in Threads \ {t} : pc'[o] = pc[o]
    BY ThreadMoves, Typed, Went DEF ThreadStep
<1>3. main \notin {"singleton", "logger", "add", "start"} /\ pc[t] \notin {"stop", "done"}
    BY StepsLate
<1>4. (Exiting' <=> Exiting) /\ (StoppedOnce' <=> StoppedOnce)
    BY <1>1 DEF Exiting, StoppedOnce
<1>5. Workers \subseteq Threads
    BY DEF Threads
<1>6. BuiltFirst'
    BY <1>1, <1>3 DEF LifeInv, BuiltFirst
<1>7. JoinedFirst'
    BY <1>1, <1>2, <1>3, <1>4, <1>5 DEF LifeInv, JoinedFirst
<1>8. Stoppers'
    BY <1>1, <1>2, <1>3 DEF LifeInv, Stoppers
<1>9. OnlyUnjoinedTouch'
    BY <1>1, <1>4, TouchedBy DEF LifeInv, OnlyUnjoinedTouch, StoppedOnce
<1> QED
    BY <1>6, <1>7, <1>8, <1>9 DEF LifeInv

\* A call of Stop, by the main thread or by one that faulted.
LEMMA StopLife ==
    ASSUME TypeOK, LifeInv, NEW caller, caller \notin stops, stops' = stops \cup {caller},
           UNCHANGED <<m_instance, m_maxSeverity, m_appenders, touched>>,
           main \notin {"singleton", "logger", "add", "start", "gone"},
           \/ main = "run" /\ main' = "join"
           \/ main = "join" /\ main' = "exit"
           \/ main \notin {"run", "join"} /\ main' = main
           \/ (main = "run" \/ Exiting) /\ main' = "gone",
           \A t \in Threads : pc'[t] = IF t = caller THEN "stop" ELSE pc[t],
           caller \in Threads => pc[caller] # "done"
    PROVE  LifeInv'
<1>1. main \in {"run", "join", "exit", "unset", "close", "end"}
    BY Typed
<1>2. BuiltFirst'
    BY <1>1 DEF LifeInv, BuiltFirst, Exiting
<1>3. Stoppers'
    BY DEF LifeInv, Stoppers
\* A second caller, or the first: before exit() begins.
<1>4. main # "run" => stops # {} /\ ~StoppedOnce'
    <2>1. main # "run" => stops # {}
        BY <1>1 DEF LifeInv, Stoppers
    <2> QED
        BY <2>1 DEF StoppedOnce
<1>5. JoinedFirst'
    BY <1>4 DEF JoinedFirst
<1>6. OnlyUnjoinedTouch'
    <2>1. Exiting => main # "run" /\ Exiting'
        BY <1>1 DEF Exiting
    <2> QED
        BY <1>4, <2>1 DEF LifeInv, OnlyUnjoinedTouch, StoppedOnce
<1> QED
    BY <1>2, <1>3, <1>5, <1>6 DEF LifeInv

LEMMA LifeStep == TypeOK /\ LifeInv /\ [Next]_vars => LifeInv'
<1> SUFFICES ASSUME TypeOK, LifeInv, [Next]_vars PROVE LifeInv'
    OBVIOUS
<1>1. CASE UNCHANGED vars
    BY <1>1 DEF vars, loggerVars, threadVars, LifeInv, BuiltFirst, Stoppers, JoinedFirst,
                OnlyUnjoinedTouch, StoppedOnce, Exiting
<1>2. ASSUME NEW t \in Threads, SignalError(t) PROVE LifeInv'
    <2>1. pc[t] = "fault" /\ t \notin stops
        BY <1>2, SignalIs DEF LifeInv, Stoppers
    <2>2. main \notin {"singleton", "logger", "add", "start", "gone"}
        BY <1>2, <2>1, SignalIs DEF LifeInv, BuiltFirst
    <2>3. \A o \in Threads : pc'[o] = IF o = t THEN "stop" ELSE pc[o]
        <3>1. "stop" \in Place
            BY DEF Place
        <3> QED
            BY <1>2, <3>1, SignalIs, Typed, Went
    <2> QED
        BY <1>2, <2>1, <2>2, <2>3, SignalIs, StopLife
<1>8. CASE Stop
    <2>1. /\ Main \notin stops /\ main \in {"run", "join"} /\ StopCalled(Main)
          /\ UNCHANGED <<m_instance, m_maxSeverity, m_appenders, touched, pc>>
        BY <1>8 DEF Stop, loggerVars, threadVars
    <2>2. Main \notin Threads
        BY Typed
    <2> QED
        BY <2>1, <2>2, StopIs, StopLife
<1> USE DEF LifeInv, BuiltFirst, Stoppers, JoinedFirst, OnlyUnjoinedTouch, StoppedOnce, Exiting
<1>3. CASE Singleton \/ LoggerCtor
    BY <1>3 DEF Singleton, LoggerCtor, threadVars
<1>4. CASE AddAppender
    <2>1. m_appenders' = Append(<<>>, "file")
        BY <1>4 DEF AddAppender, addAppender
    <2>2. m_appenders' = <<"file">>
        BY <2>1
    <2> QED
        BY <1>4, <2>2 DEF AddAppender, threadVars
<1>5. CASE Start
    <2>1. main = "start" /\ main' = "run" /\ UNCHANGED <<loggerVars, touched, stops>>
        BY <1>5 DEF Start
    <2> QED
        BY <2>1 DEF loggerVars
<1>6. CASE Join
    BY <1>6 DEF Join, loggerVars, threadVars
<1>7. CASE DestroyAppenders \/ DestroySingleton \/ DestroyAppender \/ Exit
    BY <1>7 DEF DestroyAppenders, DestroySingleton, DestroyAppender, Exit, loggerVars, threadVars
<1> QED
    BY <1>1, <1>2, <1>3, <1>4, <1>5, <1>6, <1>7, <1>8, ThreadLife, NextCases DEF MainStep

LEMMA LifeInit == Init => LifeInv
    BY DEF Init, LifeInv, BuiltFirst, Stoppers, JoinedFirst, OnlyUnjoinedTouch, StoppedOnce, Exiting

\* A destroyed logger or appender is used only while exit() runs, and by a thread that
\* Controller::Stop joins only if Stop was called twice, whatever the threads log, however
\* they fault and whenever they are told to stop.
THEOREM UnjoinedTouchOnly == Spec => []OnlyUnjoinedTouch
<1>1. LifeInv => OnlyUnjoinedTouch
    BY DEF LifeInv
<1> QED
    BY <1>1, LifeInit, LifeStep, TypeCorrect, PTL DEF Spec

(***************************************************************************)
(* The appender's mutex and its file.                                      *)
(***************************************************************************)

\* A step that keeps the appender and takes a thread where it holds no lock.
LEMMA LockKept ==
    ASSUME TypeOK, LockInv, NEW t \in Threads, NEW where \in Place, Goto(t, where),
           where \notin {"close", "open", "write"},
           UNCHANGED <<main, m_mutex, m_file, m_fileSize, m_firstWrite>>,
           \A o \in Threads \ {t} : it'[o] = it[o],
           where = "lock" => it'[t] = 1, where = "append" => it'[t] \in {1, 2}
    PROVE  LockInv'
<1>1. pc'[t] = where /\ \A o \in Threads \ {t} : pc'[o] = pc[o]
    BY Typed, Went
<1>2. AppenderLives' <=> AppenderLives
    BY DEF AppenderLives
<1>3. HolderWrites' /\ FileReady'
    BY <1>1, <1>2 DEF LockInv, HolderWrites, FileReady
<1>4. Iterating'
    BY <1>1 DEF LockInv, Iterating
<1> QED
    BY <1>3, <1>4 DEF LockInv

\* A use of what is destroyed changes nothing but the thread's place.
LEMMA LockMisused ==
    ASSUME TypeOK, LockInv, NEW t \in Threads, NEW places \in SUBSET Place, Misuse(t, places),
           ~AppenderLives \/ places \cap {"close", "open", "write"} = {},
           "append" \in places \/ places \cap {"lock", "close", "open", "write"} # {}
              => it[t] = 1
    PROVE  LockInv'
<1>1. PICK where \in places : Goto(t, where)
    BY DEF Misuse
<1>2. UNCHANGED <<main, m_mutex, m_file, m_fileSize, m_firstWrite, it>>
    BY DEF Misuse, fileVars
<1>3. pc'[t] = where /\ \A o \in Threads \ {t} : pc'[o] = pc[o]
    BY <1>1, Typed, Went
<1>4. AppenderLives' <=> AppenderLives
    BY <1>2 DEF AppenderLives
<1>5. HolderWrites' /\ FileReady'
    BY <1>2, <1>3, <1>4 DEF LockInv, HolderWrites, FileReady
<1>6. Iterating'
    BY <1>2, <1>3 DEF LockInv, Iterating
<1> QED
    BY <1>5, <1>6 DEF LockInv

LEMMA ThreadLock ==
    ASSUME TypeOK, LifeInv, LockInv, NEW t \in Threads, ThreadStep(t)
    PROVE  LockInv'
<1>0. /\ pc \in [Threads -> Place] /\ it \in [Threads -> Nat]
      /\ m_mutex \in Threads \cup {Free} /\ Free \notin Threads
    BY Typed
<1>1. main' = main /\ (AppenderLives' <=> AppenderLives)
    BY ThreadMoves DEF ThreadStep, AppenderLives
<1>2. CASE IfPlog(t) \/ Check(t)
    <2>1. CASE \E where \in {"check", "get", "idle"} : Goto(t, where) /\ UNCHANGED <<fileVars, it>>
        <3>1. PICK where \in {"check", "get", "idle"} : Goto(t, where) /\ UNCHANGED <<fileVars, it>>
            BY <2>1
        <3>2. UNCHANGED <<main, m_mutex, m_file, m_fileSize, m_firstWrite, it>>
            BY <1>1, <3>1 DEF fileVars
        <3>3. where \in Place /\ where \notin {"close", "open", "write", "lock", "append"}
            BY DEF Place
        <3> QED
            BY <3>1, <3>2, <3>3, LockKept
    <2>2. CASE Misuse(t, {"fault"})
        <3>1. {"fault"} \in SUBSET Place
            BY DEF Place
        <3> QED
            BY <2>2, <3>1, LockMisused
    <2> QED
        BY <1>2, <2>1, <2>2 DEF IfPlog, Check
<1>3. CASE Get(t)
    <2>1. CASE getInstance
        <3>1. /\ Goto(t, "append") /\ it' = [it EXCEPT ![t] = 1]
              /\ UNCHANGED <<main, m_mutex, m_file, m_fileSize, m_firstWrite>>
            BY <1>3, <2>1 DEF Get, fileVars
        <3>2. it'[t] = 1 /\ \A o \in Threads \ {t} : it'[o] = it[o]
            BY <1>0, <3>1
        <3>3. "append" \in Place /\ "append" \notin {"close", "open", "write"}
            BY DEF Place
        <3> QED
            BY <3>1, <3>2, <3>3, LockKept
    <2>2. CASE ~getInstance
        <3>1. Misuse(t, {"fault"}) /\ {"fault"} \in SUBSET Place
            BY <1>3, <2>2 DEF Get, Place
        <3> QED
            BY <3>1, LockMisused
    <2> QED
        BY <2>1, <2>2
<1>4. CASE AppendNext(t)
    <2> DEFINE where == IF it[t] <= Len(m_appenders) THEN "lock" ELSE "idle"
    <2>1. it[t] \in {1, 2} /\ m_appenders = <<"file">>
        <3>1. pc[t] = "append" /\ main \notin {"singleton", "logger", "add", "start"}
            BY <1>4, StepsLate DEF AppendNext, At
        <3> QED
            BY <3>1 DEF LockInv, Iterating, LifeInv, BuiltFirst
    <2>2. Len(m_appenders) = 1
        BY <2>1
    <2>3. /\ where = "lock" => it[t] = 1
          /\ where \in {"lock", "idle"} /\ {where, "idle", "fault"} \in SUBSET Place
        BY <2>1, <2>2 DEF Place
    <2>4. \/ Goto(t, where) /\ UNCHANGED <<main, m_mutex, m_file, m_fileSize, m_firstWrite, it>>
          \/ Misuse(t, {where, "idle", "fault"})
        BY <1>4 DEF AppendNext, fileVars
    <2> HIDE DEF where
    <2>5. CASE Goto(t, where) /\ UNCHANGED <<main, m_mutex, m_file, m_fileSize, m_firstWrite, it>>
        BY <2>3, <2>5, LockKept
    <2>6. CASE Misuse(t, {where, "idle", "fault"})
        BY <2>3, <2>6, LockMisused
    <2> QED
        BY <2>4, <2>5, <2>6
<1>5. CASE Lock(t)
    <2>1. CASE AppenderLives
        <3> DEFINE where == CASE m_firstWrite -> "open"
                              [] ~m_firstWrite /\ m_fileSize > m_maxFileSize -> "close"
                              [] OTHER -> "write"
        <3>1. /\ m_mutex = Free /\ m_mutex' = t /\ Goto(t, where)
              /\ UNCHANGED <<m_file, m_fileSize, m_firstWrite, it>>
            BY <1>5, <2>1 DEF Lock, MutexLock
        <3>2. where \in {"open", "close", "write"} /\ where \in Place
            BY DEF Place
        <3>3. /\ where = "write" => m_file \/ m_fileSize = -1
              /\ where \in {"open", "close"} => m_fileSize # -1
            <4>1. m_fileSize \in Int /\ m_maxFileSize \in Nat
                BY Typed, LogLevelAssumption
            <4> QED
                BY <2>1, <3>1, <4>1 DEF LockInv, FileReady
        <3> HIDE DEF where
        <3>4. pc'[t] = where /\ \A o \in Threads \ {t} : pc'[o] = pc[o]
            BY <1>0, <3>1, <3>2, Went
        <3>5. \A o \in Threads : pc[o] \notin {"close", "open", "write"}
            BY <1>0, <2>1, <3>1 DEF LockInv, HolderWrites
        <3>6. pc[t] = "lock"
            BY <1>5 DEF Lock, At
        <3>7. HolderWrites'
            BY <3>1, <3>4, <3>5 DEF HolderWrites
        <3>8. FileReady'
            BY <1>0, <2>1, <3>1, <3>2, <3>3, <3>4, <3>5 DEF LockInv, FileReady
        <3>9. Iterating'
            BY <3>1, <3>2, <3>4, <3>6 DEF LockInv, Iterating
        <3> QED
            BY <3>7, <3>8, <3>9 DEF LockInv
    <2>2. CASE ~AppenderLives
        <3>1. Misuse(t, {"idle", "fault"}) /\ {"idle", "fault"} \in SUBSET Place
            BY <1>5, <2>2 DEF Lock, Place
        <3> QED
            BY <3>1, LockMisused
    <2> QED
        BY <2>1, <2>2
<1>6. CASE Close(t) \/ Open(t)
    <2>1. it[t] = 1 /\ pc[t] \in {"close", "open"}
        BY <1>6 DEF Close, Open, At, LockInv, Iterating
    <2>2. CASE AppenderLives
        <3>1. PICK where \in {"open", "write"} :
                 /\ Goto(t, where) /\ UNCHANGED <<m_mutex, it>>
                 /\ where = "write" => m_file' \/ m_fileSize' = -1
                 /\ m_firstWrite' \/ m_file' => m_fileSize' # -1
                 /\ where = "open" => m_fileSize' # -1
            <4>1. m_fileSize # -1
                BY <2>1, <2>2 DEF LockInv, FileReady
            <4>2. CASE Close(t)
                BY <2>2, <4>1, <4>2 DEF Close, FileClose
            <4>3. CASE Open(t)
                BY <2>2, <4>3 DEF Open
            <4> QED
                BY <1>6, <4>2, <4>3
        <3>2. where \in Place
            BY DEF Place
        <3>3. pc'[t] = where /\ \A o \in Threads \ {t} : pc'[o] = pc[o]
            BY <1>0, <3>1, <3>2, Went
        <3>4. m_mutex = t
            BY <2>1, <2>2 DEF LockInv, HolderWrites
        <3>5. \A o \in Threads \ {t} : pc[o] \notin {"close", "open", "write"}
            BY <2>2, <3>4 DEF LockInv, HolderWrites
        <3>6. HolderWrites'
            BY <3>1, <3>3, <3>4, <3>5 DEF HolderWrites
        <3>7. FileReady'
            BY <1>0, <3>1, <3>3, <3>4, <3>5 DEF FileReady
        <3>8. Iterating'
            BY <2>1, <3>1, <3>3 DEF LockInv, Iterating
        <3> QED
            BY <3>6, <3>7, <3>8 DEF LockInv
    <2>3. CASE ~AppenderLives
        <3>1. \/ Misuse(t, {"open", "fault"}) /\ {"open", "fault"} \in SUBSET Place
              \/ Misuse(t, {"write", "fault"}) /\ {"write", "fault"} \in SUBSET Place
            BY <1>6, <2>3 DEF Close, Open, Place
        <3> QED
            BY <2>1, <2>3, <3>1, LockMisused
    <2> QED
        BY <2>2, <2>3
<1>7. CASE Write(t)
    <2>1. it[t] = 1 /\ pc[t] = "write"
        BY <1>7 DEF Write, At, LockInv, Iterating
    <2>2. CASE AppenderLives
        <3>1. /\ Goto(t, "append") /\ it' = [it EXCEPT ![t] = @ + 1] /\ m_mutex' = Free
              /\ UNCHANGED <<m_file, m_firstWrite>>
              /\ m_fileSize' = IF m_file THEN m_fileSize + 1 ELSE m_fileSize
            BY <1>7, <2>2 DEF Write, MutexUnlock
        <3>2. "append" \in Place
            BY DEF Place
        <3>3. pc'[t] = "append" /\ \A o \in Threads \ {t} : pc'[o] = pc[o]
            BY <1>0, <3>1, <3>2, Went
        <3>4. /\ m_mutex = t /\ (m_file \/ m_fileSize = -1)
              /\ m_firstWrite \/ m_file => m_fileSize # -1
            BY <2>1, <2>2 DEF LockInv, HolderWrites, FileReady
        <3>4a. m_fileSize' = -1 <=> m_fileSize = -1
            BY <3>1, <3>4, Typed
        <3>5. \A o \in Threads \ {t} : pc[o] \notin {"close", "open", "write"}
            BY <2>2, <3>4 DEF LockInv, HolderWrites
        <3>6. it'[t] = 2 /\ \A o \in Threads \ {t} : it'[o] = it[o]
            BY <1>0, <2>1, <3>1
        <3>7. HolderWrites' /\ FileReady'
            BY <3>1, <3>3, <3>4, <3>4a, <3>5 DEF HolderWrites, FileReady
        <3>8. Iterating'
            BY <3>3, <3>6 DEF LockInv, Iterating
        <3> QED
            BY <3>7, <3>8 DEF LockInv
    <2>3. CASE ~AppenderLives
        <3>1. Misuse(t, {"append", "fault"}) /\ {"append", "fault"} \in SUBSET Place
            BY <1>7, <2>3 DEF Write, Place
        <3> QED
            BY <2>1, <3>1, LockMisused
    <2> QED
        BY <2>2, <2>3
<1>8. CASE Spawn(t) \/ WorkerEnds(t) \/ Crash(t)
    <2>1. PICK where \in {"idle", "done", "fault"} : Goto(t, where)
        BY <1>8 DEF Spawn, WorkerEnds, Crash
    <2>2. UNCHANGED <<main, m_mutex, m_file, m_fileSize, m_firstWrite, it>>
        BY <1>8 DEF Spawn, WorkerEnds, Crash, fileVars
    <2>3. where \in Place /\ where \notin {"close", "open", "write", "lock", "append"}
        BY DEF Place
    <2> QED
        BY <2>1, <2>2, <2>3, LockKept
<1> QED
    BY <1>2, <1>3, <1>4, <1>5, <1>6, <1>7, <1>8 DEF ThreadStep

LEMMA LockStep == TypeOK /\ LifeInv /\ LockInv /\ [Next]_vars => LockInv'
<1> SUFFICES ASSUME TypeOK, LifeInv, LockInv, [Next]_vars PROVE LockInv'
    OBVIOUS
<1>1. CASE UNCHANGED vars
    BY <1>1 DEF LockInv, HolderWrites, FileReady, Iterating, AppenderLives, vars, fileVars, threadVars
<1>2. ASSUME NEW t \in Threads, SignalError(t) PROVE LockInv'
    <2>1. pc'[t] = "stop" /\ \A o \in Threads \ {t} : pc'[o] = pc[o]
        <3>1. "stop" \in Place
            BY DEF Place
        <3> QED
            BY <1>2, <3>1, SignalIs, Typed, Went
    <2>2. UNCHANGED <<m_mutex, m_file, m_fileSize, m_firstWrite, it>>
        BY <1>2, SignalIs DEF fileVars
    <2>3. AppenderLives' => AppenderLives
        BY <1>2, SignalIs DEF AppenderLives
    <2>4. HolderWrites' /\ FileReady'
        BY <2>1, <2>2, <2>3 DEF LockInv, HolderWrites, FileReady
    <2>5. Iterating'
        BY <2>1, <2>2 DEF LockInv, Iterating
    <2> QED
        BY <2>4, <2>5 DEF LockInv
<1>3. CASE MainStep \/ Stop
    <2>1. /\ UNCHANGED <<m_mutex, m_fileSize, m_firstWrite, it>>
          /\ m_file' = m_file \/ ~AppenderLives'
        BY <1>3, MainKeeps DEF AppenderLives
    <2>2. AppenderLives' => AppenderLives
        BY <1>3, StopIs DEF MainStep, Singleton, LoggerCtor, AddAppender, Start, Stop, Join,
                    DestroyAppenders, DestroySingleton, DestroyAppender, Exit, AppenderLives
    <2>3. \A t \in Threads : pc'[t] = pc[t] \/ pc'[t] = "idle"
        BY <1>3, MainKeeps
    <2>4. HolderWrites' /\ FileReady'
        BY <2>1, <2>2, <2>3 DEF LockInv, HolderWrites, FileReady
    <2>5. Iterating'
        BY <2>1, <2>3 DEF LockInv, Iterating
    <2> QED
        BY <2>4, <2>5 DEF LockInv
<1> QED
    BY <1>1, <1>2, <1>3, ThreadLock, NextCases

(***************************************************************************)
(* The records.                                                            *)
(***************************************************************************)

\* The places where a thread has a record in hand.
InHand(where, i) ==
    where \in {"get", "lock", "close", "open", "write"} \/ (where = "append" /\ i = 1)

LEMMA DueIs ==
    ASSUME NEW t
    PROVE  /\ Due(t) = IF InHand(pc[t], it[t]) THEN logged[t] - 1 ELSE logged[t]
           /\ Due(t)' = IF InHand(pc'[t], it'[t]) THEN logged'[t] - 1 ELSE logged'[t]
    BY DEF Due, InHand

\* A file that could not be opened is not opened any more.
LEMMA StaysShut ==
    ASSUME TypeOK, LockInv, NEW t \in Threads, ThreadStep(t), m_fileSize = -1
    PROVE  m_fileSize' = -1
<1>1. CASE Open(t)
    <2>1. ~AppenderLives
        BY <1>1 DEF Open, At, LockInv, FileReady
    <2> QED
        BY <1>1, <2>1 DEF Open, Misuse, fileVars
<1>2. CASE Write(t)
    <2>1. AppenderLives => ~m_file
        BY DEF LockInv, FileReady
    <2> QED
        BY <1>2, <2>1 DEF Write, Misuse, fileVars
<1> QED
    BY <1>1, <1>2 DEF ThreadStep, IfPlog, Check, Get, AppendNext, Lock, Close, Spawn, WorkerEnds,
                      Crash, Misuse, fileVars

\* What is due of a thread: its own write adds the record it has in hand; nothing else
\* changes it before exit() if there is a file, and nothing ever lowers it.
LEMMA DueGrows ==
    ASSUME TypeOK, LifeInv, LockInv, NEW t \in Threads, ThreadStep(t)
    PROVE  /\ \A o \in Threads \ {t} : Due(o)' = Due(o)
           /\ \/ /\ lines' = lines /\ Due(t)' >= Due(t)
                 /\ ~Exiting /\ m_fileSize # -1 => Due(t)' = Due(t)
              \/ /\ lines' = Append(lines, [thread |-> t, number |-> logged[t]])
                 /\ Due(t) = logged[t] - 1 /\ Due(t)' = logged[t]
<1>0. pc \in [Threads -> Place] /\ it \in [Threads -> Nat] /\ logged \in [Threads -> Nat]
    BY Typed
<1>1. logged[t] \in Nat
    BY <1>0
<1>2. \A o \in Threads \ {t} : pc'[o] = pc[o]
    BY <1>0, ThreadMoves, Went DEF ThreadStep
<1>3. \A o \in Threads \ {t} : it'[o] = it[o]
    <2>1. it' = it \/ it' = [it EXCEPT ![t] = 1] \/ it' = [it EXCEPT ![t] = @ + 1]
        BY DEF ThreadStep, IfPlog, Check, Get, AppendNext, Lock, Close, Open, Write, Spawn,
               WorkerEnds, Crash, Misuse
    <2> QED
        BY <1>0, <2>1
<1>4. \A o \in Threads \ {t} : logged'[o] = logged[o]
    <2>1. CASE Check(t)
        <3>1. \/ logged' = logged
              \/ \E severity \in Severity :
                  logged' = [logged EXCEPT ![t] = IF severity <= LOG_LEVEL THEN @ + 1 ELSE @]
            BY <2>1 DEF Check, Misuse
        <3> QED
            BY <1>0, <3>1
    <2>2. CASE ~Check(t)
        <3>1. logged' = logged
            BY <2>2 DEF ThreadStep, IfPlog, Get, AppendNext, Lock, Close, Open, Write, Spawn,
                        WorkerEnds, Crash, Misuse
        <3> QED
            BY <3>1
    <2> QED
        BY <2>1, <2>2
<1>5. \A o \in Threads \ {t} : Due(o)' = Due(o)
    BY <1>2, <1>3, <1>4 DEF Due
<1> SUFFICES \/ /\ lines' = lines /\ Due(t)' >= Due(t)
                /\ ~Exiting /\ m_fileSize # -1 => Due(t)' = Due(t)
             \/ /\ lines' = Append(lines, [thread |-> t, number |-> logged[t]])
                /\ Due(t) = logged[t] - 1 /\ Due(t)' = logged[t]
    BY <1>5
\* The misuse of what is destroyed: after exit() began, and the record may be given up.
<1>6. ASSUME NEW places \in SUBSET Place, Misuse(t, places), Exiting,
             InHand(pc[t], it[t]) \/ places \subseteq {"idle", "fault"}
      PROVE  lines' = lines /\ Due(t)' >= Due(t)
    <2>1. lines' = lines /\ logged' = logged /\ it' = it
        BY <1>6 DEF Misuse, fileVars
    <2>2. PICK where \in places : Goto(t, where)
        BY <1>6 DEF Misuse
    <2>3. pc'[t] = where
        BY <1>0, <2>2, Went
    <2>4. InHand(pc'[t], it'[t]) => InHand(pc[t], it[t])
        BY <1>6, <2>1, <2>3 DEF InHand
    <2> QED
        BY <1>1, <2>1, <2>4, DueIs
<1>6a. main # "gone"
    BY ThreadMoves DEF ThreadStep
<1>7. CASE Check(t)
    <2>1. pc[t] = "check"
        BY <1>7 DEF Check, At
    <2>2. CASE getInstance
        <3>1. PICK severity \in Severity :
                  /\ logged' = [logged EXCEPT ![t] = IF severity <= LOG_LEVEL THEN @ + 1 ELSE @]
                  /\ Goto(t, IF checkSeverity(severity) THEN "get" ELSE "idle")
            BY <1>7, <2>2 DEF Check
        <3>2. lines' = lines /\ it' = it
            BY <1>7, <2>2 DEF Check, fileVars
        <3>3. logged'[t] = IF severity <= LOG_LEVEL THEN logged[t] + 1 ELSE logged[t]
            BY <1>0, <3>1
        <3>4. checkSeverity(severity) <=> severity <= LOG_LEVEL
            BY StepsLate DEF LifeInv, BuiltFirst, checkSeverity
        <3>5. pc'[t] = IF checkSeverity(severity) THEN "get" ELSE "idle"
            <4>1. (IF checkSeverity(severity) THEN "get" ELSE "idle") \in Place
                BY DEF Place
            <4> QED
                BY <1>0, <3>1, <4>1, Went
        <3>6. ~InHand(pc[t], it[t]) /\ (InHand(pc'[t], it'[t]) <=> severity <= LOG_LEVEL)
            BY <2>1, <3>4, <3>5 DEF InHand
        <3>7. Due(t) = logged[t] /\ Due(t)' = logged[t]
            BY <1>1, <3>3, <3>6, DueIs
        <3> QED
            BY <1>1, <3>2, <3>7
    <2>3. CASE ~getInstance
        <3>1. Misuse(t, {"fault"}) /\ {"fault"} \in SUBSET Place
            BY <1>7, <2>3 DEF Check, Place
        <3>2. Exiting
            BY <1>6a, <2>1, <2>3, MisuseLate
        <3> QED
            BY <1>6, <3>1, <3>2
    <2> QED
        BY <2>2, <2>3
\* The record stays in hand.
<1>8. ASSUME NEW where \in Place, Goto(t, where), lines' = lines, logged' = logged,
             InHand(pc[t], it[t]) <=> InHand(where, it'[t])
      PROVE  lines' = lines /\ Due(t)' >= Due(t) /\ Due(t)' = Due(t)
    <2>1. pc'[t] = where
        BY <1>0, <1>8, Went
    <2> QED
        BY <1>1, <1>8, <2>1, DueIs
<1>9. CASE Get(t)
    <2>1. pc[t] = "get"
        BY <1>9 DEF Get, At
    <2>2. CASE getInstance
        <3>1. Goto(t, "append") /\ it' = [it EXCEPT ![t] = 1] /\ lines' = lines /\ logged' = logged
            BY <1>9, <2>2 DEF Get, fileVars
        <3>2. it'[t] = 1 /\ "append" \in Place
            BY <1>0, <3>1 DEF Place
        <3>3. InHand(pc[t], it[t]) /\ InHand("append", it'[t])
            BY <2>1, <3>2 DEF InHand
        <3> QED
            BY <1>8, <3>1, <3>2, <3>3
    <2>3. CASE ~getInstance
        <3>1. Misuse(t, {"fault"}) /\ {"fault"} \in SUBSET Place
            BY <1>9, <2>3 DEF Get, Place
        <3>2. Exiting
            BY <1>6a, <2>1, <2>3, MisuseLate
        <3>3. InHand(pc[t], it[t])
            BY <2>1 DEF InHand
        <3> QED
            BY <1>6, <3>1, <3>2, <3>3
    <2> QED
        BY <2>2, <2>3
<1>10. CASE AppendNext(t)
    <2> DEFINE where == IF it[t] <= Len(m_appenders) THEN "lock" ELSE "idle"
    <2>1. pc[t] = "append" /\ it[t] \in {1, 2} /\ Len(m_appenders) = 1
        <3>1. pc[t] = "append" /\ main \notin {"singleton", "logger", "add", "start"}
            BY <1>10, StepsLate DEF AppendNext, At
        <3>2. m_appenders = <<"file">>
            BY <3>1 DEF LifeInv, BuiltFirst
        <3> QED
            BY <3>1, <3>2 DEF LockInv, Iterating
    <2>2. where \in {"lock", "idle"} /\ (where = "lock" <=> it[t] = 1)
        BY <2>1
    <2>3. \/ Goto(t, where) /\ it' = it /\ lines' = lines /\ logged' = logged
          \/ ~LoggerLives /\ Misuse(t, {where, "idle", "fault"})
        BY <1>10 DEF AppendNext, fileVars
    <2> HIDE DEF where
    <2>4. where \in Place /\ {where, "idle", "fault"} \in SUBSET Place
        BY <2>2 DEF Place
    <2>5. CASE Goto(t, where) /\ it' = it /\ lines' = lines /\ logged' = logged
        <3>1. InHand(pc[t], it[t]) <=> InHand(where, it'[t])
            BY <2>1, <2>2, <2>5 DEF InHand
        <3> QED
            BY <1>8, <2>4, <2>5, <3>1
    <2>6. CASE ~LoggerLives /\ Misuse(t, {where, "idle", "fault"})
        <3>1. Exiting
            BY <1>6a, <2>1, <2>6, MisuseLate
        <3>2. InHand(pc[t], it[t]) \/ {where, "idle", "fault"} \subseteq {"idle", "fault"}
            BY <2>1, <2>2 DEF InHand
        <3> QED
            BY <1>6, <2>4, <2>6, <3>1, <3>2
    <2> QED
        BY <2>3, <2>5, <2>6
<1>11. CASE Lock(t)
    <2> DEFINE where == CASE m_firstWrite -> "open"
                          [] ~m_firstWrite /\ m_fileSize > m_maxFileSize -> "close"
                          [] OTHER -> "write"
    <2>1. /\ where \in {"open", "close", "write"} /\ where \in Place
          /\ {"idle", "fault"} \in SUBSET Place
        BY DEF Place
    <2>2. \/ Goto(t, where) /\ it' = it /\ lines' = lines /\ logged' = logged
          \/ ~AppenderLives /\ Misuse(t, {"idle", "fault"})
        BY <1>11 DEF Lock
    <2> HIDE DEF where
    <2>3. InHand(pc[t], it[t]) /\ \A i : InHand(where, i)
        BY <1>11, <2>1 DEF Lock, At, InHand
    <2>4. CASE Goto(t, where) /\ it' = it /\ lines' = lines /\ logged' = logged
        BY <1>8, <2>1, <2>3, <2>4
    <2>5. CASE ~AppenderLives /\ Misuse(t, {"idle", "fault"})
        <3>1. pc[t] = "lock"
            BY <1>11 DEF Lock, At
        <3>2. Exiting
            BY <1>6a, <2>5, <3>1, MisuseLate
        <3> QED
            BY <1>6, <2>1, <2>3, <2>5, <3>2
    <2> QED
        BY <2>2, <2>4, <2>5
<1>12. CASE Close(t) \/ Open(t)
    <2>1. pc[t] \in {"close", "open"} /\ InHand(pc[t], it[t])
        BY <1>12 DEF Close, Open, At, InHand
    <2>2. /\ "open" \in Place /\ "write" \in Place
          /\ {"open", "fault"} \in SUBSET Place /\ {"write", "fault"} \in SUBSET Place
          /\ \A i : InHand("open", i) /\ InHand("write", i)
        BY DEF Place, InHand
    <2>3. \/ /\ Goto(t, "open") \/ Goto(t, "write")
             /\ it' = it /\ lines' = lines /\ logged' = logged
          \/ ~AppenderLives /\ (Misuse(t, {"open", "fault"}) \/ Misuse(t, {"write", "fault"}))
        BY <1>12 DEF Close, Open
    <2>4. CASE ~AppenderLives /\ (Misuse(t, {"open", "fault"}) \/ Misuse(t, {"write", "fault"}))
        <3>1. Exiting
            BY <1>6a, <2>1, <2>4, MisuseLate
        <3> QED
            BY <1>6, <2>1, <2>2, <2>4, <3>1
    <2> QED
        BY <1>8, <2>1, <2>2, <2>3, <2>4
<1>13. CASE Write(t)
    <2>1. pc[t] = "write" /\ it[t] = 1 /\ InHand(pc[t], it[t]) /\ Due(t) = logged[t] - 1
        BY <1>13, DueIs DEF Write, At, InHand, LockInv, Iterating
    <2>2. CASE AppenderLives
        <3>1. m_file \/ m_fileSize = -1
            BY <2>1, <2>2 DEF LockInv, FileReady
        <3>2. /\ lines' = IF m_file THEN Append(lines, [thread |-> t, number |-> logged[t]])
                                    ELSE lines
              /\ it' = [it EXCEPT ![t] = @ + 1] /\ Goto(t, "append") /\ logged' = logged
            BY <1>13, <2>2 DEF Write
        <3>3. it'[t] = 2
            BY <1>0, <2>1, <3>2
        <3>4. pc'[t] = "append"
            <4>1. "append" \in Place
                BY DEF Place
            <4> QED
                BY <1>0, <3>2, <4>1, Went
        <3>5. ~InHand(pc'[t], it'[t])
            BY <3>3, <3>4 DEF InHand
        <3>6. Due(t)' = logged[t]
            BY <3>2, <3>5, DueIs
        <3> QED
            BY <1>1, <2>1, <3>1, <3>2, <3>6
    <2>3. CASE ~AppenderLives
        <3>1. Misuse(t, {"append", "fault"}) /\ {"append", "fault"} \in SUBSET Place
            BY <1>13, <2>3 DEF Write, Place
        <3>2. Exiting
            BY <1>6a, <2>1, <2>3, MisuseLate
        <3> QED
            BY <1>6, <2>1, <3>1, <3>2
    <2> QED
        BY <2>2, <2>3
<1>14. CASE IfPlog(t) \/ Spawn(t) \/ WorkerEnds(t) \/ Crash(t)
    <2>1. PICK where \in {"check", "idle", "done", "fault"} : Goto(t, where)
        BY <1>14 DEF IfPlog, Spawn, WorkerEnds, Crash
    <2>2. it' = it /\ lines' = lines /\ logged' = logged /\ pc[t] \in {"none", "idle"}
        BY <1>14 DEF IfPlog, Spawn, WorkerEnds, Crash, At, fileVars
    <2>3. where \in Place /\ ~InHand(pc[t], it[t]) /\ ~InHand(where, it'[t])
        BY <2>2 DEF Place, InHand
    <2> QED
        BY <1>8, <2>1, <2>2, <2>3
<1> QED
    BY <1>7, <1>9, <1>10, <1>11, <1>12, <1>13, <1>14 DEF ThreadStep

\* The records of a file with one more.
LEMMA OneMore ==
    ASSUME NEW R, NEW s \in Seq(R), NEW e \in R
    PROVE  /\ DOMAIN s = 1..Len(s) /\ Len(s) \in Nat
           /\ DOMAIN Append(s, e) = 1..Len(s) + 1
           /\ \A i \in 1..Len(s) : Append(s, e)[i] = s[i]
           /\ Append(s, e)[Len(s) + 1] = e
    OBVIOUS

\* The records of the file are of threads, and numbered.
LEMMA LineIs ==
    ASSUME TypeOK
    PROVE  \A i \in DOMAIN lines : lines[i].thread \in Threads /\ lines[i].number \in Nat
<1>1. ASSUME NEW R, NEW s \in Seq(R) PROVE \A i \in DOMAIN s : s[i] \in R
    OBVIOUS
<1>2. lines \in Seq([thread : Threads, number : Nat])
    BY Typed
<1>3. \A i \in DOMAIN lines : lines[i] \in [thread : Threads, number : Nat]
    BY <1>1, <1>2
<1> QED
    BY <1>3

\* A step that writes nothing keeps the records, if what is due only grows, and grows
\* only once exit() has begun or a file could not be opened.
LEMMA RecordKept ==
    ASSUME TypeOK, RecordInv, lines' = lines, Exiting => Exiting',
           m_fileSize = -1 => m_fileSize' = -1,
           \A t \in Threads : /\ Due(t) \in Int /\ Due(t)' \in Int /\ Due(t)' >= Due(t)
                              /\ ~Exiting' /\ m_fileSize' # -1 => Due(t)' = Due(t)
    PROVE  RecordInv'
<1>1. \A i \in DOMAIN lines : lines[i].thread \in Threads /\ lines[i].number \in Nat
    BY LineIs
<1>2. NoneAhead'
    BY <1>1 DEF RecordInv, NoneAhead
<1>3. EveryRecordOnce'
    BY <1>1 DEF RecordInv, EveryRecordOnce
<1> QED
    BY <1>2, <1>3 DEF RecordInv

\* A write adds the record that its thread has in hand, after all its others.
LEMMA RecordAdded ==
    ASSUME TypeOK, RecordInv, NEW t \in Threads, Exiting => Exiting',
           m_fileSize = -1 => m_fileSize' = -1,
           lines' = Append(lines, [thread |-> t, number |-> logged[t]]),
           Due(t) = logged[t] - 1, Due(t)' = logged[t],
           \A o \in Threads \ {t} : Due(o)' = Due(o)
    PROVE  RecordInv'
<1> DEFINE R == [thread : Threads, number : Nat]
           e == [thread |-> t, number |-> logged[t]]
           n == Len(lines) + 1
<1>1. lines \in Seq(R) /\ logged[t] \in Nat
    BY Typed
<1>2. e \in R /\ e.thread = t /\ e.number = logged[t]
    BY <1>1
<1>4. \A i \in DOMAIN lines : lines[i].thread \in Threads /\ lines[i].number \in Nat
    BY LineIs
<1>5. lines' = Append(lines, e)
    OBVIOUS
<1>6. lines = lines /\ Len(lines) \in Nat /\ DOMAIN lines = 1..Len(lines) /\ DOMAIN lines' = 1..n
      /\ \A i \in 1..Len(lines) : lines'[i] = lines[i]
    <2> HIDE DEF R, e
    <2> QED
        BY <1>1, <1>2, <1>5, OneMore
<1>7. lines'[n] = e
    <2> HIDE DEF R, e
    <2> QED
        BY <1>1, <1>2, <1>5, OneMore
<1>8. \A i \in DOMAIN lines' : i = n \/ (i \in DOMAIN lines /\ i < n)
    BY <1>6
<1>8a. n \in Nat /\ n \in DOMAIN lines' /\ \A i \in DOMAIN lines : i \in DOMAIN lines'
    BY <1>6
<1> HIDE DEF R, e, n
<1>9. \A i \in DOMAIN lines : lines[i].thread = t => lines[i].number < logged[t]
    BY <1>1, <1>4 DEF RecordInv, NoneAhead
<1>10. NoneAhead'
    <2> SUFFICES ASSUME NEW o \in Threads, NEW i \in DOMAIN lines', lines'[i].thread = o
                 PROVE  lines'[i].number <= Due(o)'
        BY DEF NoneAhead
    <2>1. CASE i = n
        <3>1. o = t /\ lines'[i].number = logged[t]
            BY <1>2, <1>7, <2>1
        <3> QED
            BY <1>1, <3>1
    <2>2. CASE i \in DOMAIN lines
        <3>1. lines'[i] = lines[i]
            BY <1>6, <2>2
        <3>2. CASE o = t
            <4>1. lines[i].number < logged[t] /\ lines[i].number \in Nat
                BY <1>4, <1>9, <2>2, <3>1, <3>2
            <4> QED
                BY <1>1, <3>1, <3>2, <4>1
        <3>3. CASE o # t
            <4>1. lines[i].number <= Due(o)
                BY <2>2, <3>1 DEF RecordInv, NoneAhead
            <4> QED
                BY <3>1, <3>3, <4>1
        <3> QED
            BY <3>2, <3>3
    <2> QED
        BY <1>8, <2>1, <2>2
<1>11. ~Exiting' /\ m_fileSize' # -1 => \A o \in Threads : \A k \in 1..Due(o)' :
              \E i \in DOMAIN lines' : lines'[i] = [thread |-> o, number |-> k]
    <2> SUFFICES ASSUME ~Exiting', m_fileSize' # -1, NEW o \in Threads, NEW k \in 1..Due(o)'
                 PROVE  \E i \in DOMAIN lines' : lines'[i] = [thread |-> o, number |-> k]
        OBVIOUS
    <2>1. CASE k \in 1..Due(o)
        <3>1. PICK i \in DOMAIN lines : lines[i] = [thread |-> o, number |-> k]
            BY <2>1 DEF RecordInv, EveryRecordOnce
        <3>2. lines'[i] = lines[i] /\ i \in DOMAIN lines'
            BY <1>6, <1>8a
        <3> QED
            BY <3>1, <3>2
    <2>2. CASE k \notin 1..Due(o)
        <3>1. o = t /\ k = logged[t]
            BY <1>1, <2>2
        <3>2. lines'[n] = [thread |-> o, number |-> k]
            BY <1>7, <3>1 DEF e
        <3> QED
            BY <1>8a, <3>2
    <2> QED
        BY <2>1, <2>2
<1>12. \A i, j \in DOMAIN lines' :
          (i < j /\ lines'[i].thread = lines'[j].thread) => lines'[i].number < lines'[j].number
    <2> SUFFICES ASSUME NEW i \in DOMAIN lines', NEW j \in DOMAIN lines', i < j,
                        lines'[i].thread = lines'[j].thread
                 PROVE  lines'[i].number < lines'[j].number
        OBVIOUS
    <2>0. \A x \in DOMAIN lines' : x \in Nat /\ (x = n \/ (x \in DOMAIN lines /\ x < n))
        BY <1>6, <1>8, <1>8a
    <2>1. i \in DOMAIN lines /\ lines'[i] = lines[i]
        BY <1>6, <1>8a, <2>0
    <2>2. CASE j = n
        BY <1>2, <1>7, <1>9, <2>1, <2>2
    <2>3. CASE j \in DOMAIN lines
        <3>1. lines'[j] = lines[j]
            BY <1>6, <2>3
        <3> QED
            BY <2>1, <2>3, <3>1 DEF RecordInv, EveryRecordOnce
    <2> QED
        BY <2>0, <2>2, <2>3
<1> QED
    BY <1>10, <1>11, <1>12 DEF RecordInv, EveryRecordOnce

LEMMA RecordStep == TypeOK /\ LifeInv /\ LockInv /\ RecordInv /\ [Next]_vars => RecordInv'
<1> SUFFICES ASSUME TypeOK, LifeInv, LockInv, RecordInv, [Next]_vars PROVE RecordInv'
    OBVIOUS
<1>0. \A t \in Threads : Due(t) \in Int
    BY Typed DEF Due
<1>1. ASSUME NEW t \in Threads, ThreadStep(t) PROVE RecordInv'
    <2>1. Exiting' <=> Exiting
        BY <1>1, ThreadMoves DEF ThreadStep, Exiting
    <2>1a. m_fileSize = -1 => m_fileSize' = -1
        BY <1>1, StaysShut
    <2>2. CASE /\ lines' = lines /\ Due(t)' >= Due(t)
               /\ ~Exiting /\ m_fileSize # -1 => Due(t)' = Due(t)
        <3>1. Due(t)' \in Int
            BY <1>1, ThreadTypes DEF Due
        <3>2. \A o \in Threads \ {t} : Due(o)' = Due(o)
            BY <1>1, DueGrows
        <3> QED
            BY <1>0, <2>1, <2>1a, <2>2, <3>1, <3>2, RecordKept
    <2>3. CASE /\ lines' = Append(lines, [thread |-> t, number |-> logged[t]])
               /\ Due(t) = logged[t] - 1 /\ Due(t)' = logged[t]
        <3>1. \A o \in Threads \ {t} : Due(o)' = Due(o)
            BY <1>1, DueGrows
        <3> QED
            BY <2>1, <2>1a, <2>3, <3>1, RecordAdded
    <2> QED
        BY <1>1, <2>2, <2>3, DueGrows
<1>2. ASSUME \A t \in Threads : Due(t)' = Due(t), lines' = lines, Exiting => Exiting',
             m_fileSize' = m_fileSize
      PROVE  RecordInv'
    BY <1>0, <1>2, RecordKept
<1>3. CASE UNCHANGED vars
    BY <1>2, <1>3 DEF vars, fileVars, threadVars, Due, Exiting
<1>4. ASSUME NEW t \in Threads, SignalError(t) PROVE RecordInv'
    <2>1. UNCHANGED <<lines, m_fileSize, it, logged>> /\ pc[t] = "fault"
        BY <1>4, SignalIs DEF fileVars
    <2>2. pc'[t] = "stop" /\ \A o \in Threads \ {t} : pc'[o] = pc[o]
        <3>1. "stop" \in Place
            BY DEF Place
        <3> QED
            BY <1>4, <3>1, SignalIs, Typed, Went
    <2>3. Exiting => Exiting'
        BY <1>4, SignalIs DEF Exiting
    <2>4. \A o \in Threads : Due(o)' = Due(o)
        BY <2>1, <2>2 DEF Due
    <2> QED
        BY <1>2, <2>1, <2>3, <2>4
<1>5. CASE MainStep \/ Stop
    <2>1. lines' = lines /\ m_fileSize' = m_fileSize /\ it' = it /\ logged' = logged
        BY <1>5, MainKeeps
    <2>2. \A t \in Threads : pc'[t] = pc[t] \/ (pc[t] = "none" /\ pc'[t] = "idle")
        BY <1>5, MainKeeps DEF LifeInv, BuiltFirst
    <2>3. Exiting => Exiting'
        BY <1>5, StopIs DEF MainStep, Singleton, LoggerCtor, AddAppender, Start, Stop, Join,
                            DestroyAppenders, DestroySingleton, DestroyAppender, Exit, Exiting
    <2>4. \A t \in Threads : Due(t)' = Due(t)
        BY <2>1, <2>2 DEF Due
    <2> QED
        BY <1>2, <2>1, <2>3, <2>4
<1> QED
    BY <1>1, <1>3, <1>4, <1>5, NextCases

LEMMA RecordInit == Init => LockInv /\ RecordInv
<1> SUFFICES ASSUME Init PROVE LockInv /\ RecordInv
    OBVIOUS
<1>1. /\ \A t \in Threads : pc[t] = "none" /\ logged[t] = 0
      /\ lines = <<>> /\ m_firstWrite /\ m_fileSize = 0
    BY DEF Init
<1>2. \A t \in Threads : Due(t) = 0
    BY <1>1 DEF Due
<1>3. DOMAIN lines = {}
    BY <1>1
<1> QED
    BY <1>1, <1>2, <1>3
       DEF LockInv, HolderWrites, FileReady, Iterating, RecordInv, NoneAhead, EveryRecordOnce

\* Until exit() begins or a file cannot be opened, every record that LOG_LEVEL admits is
\* in the file, and always once and in its thread's order, for any number of threads and
\* however often the file is rolled.
THEOREM RecordsOnce == Spec => []EveryRecordOnce
<1>1. RecordInv => EveryRecordOnce
    BY DEF RecordInv
<1> QED
    BY <1>1, LifeInit, LifeStep, LockStep, RecordInit, RecordStep, TypeCorrect, PTL DEF Spec

----------------------------------------------------------------------------
(***************************************************************************)
(* The files of the log (RollingFileAppender), for any number of processes,*)
(* files and records.                                                      *)
(***************************************************************************)
CONSTANTS Processes, m_lastFileNumber, RecordBound, MaxStarts

VARIABLES proc, starts

Log == INSTANCE RollingFileAppender WITH MaxRecords <- RecordBound

\* The constants that RollingFileAppender assumes.
LogConstants ==
    /\ m_maxFileSize \in Nat /\ m_lastFileNumber \in Nat
    /\ RecordBound \in Nat /\ MaxStarts \in Nat
    /\ IsFiniteSet(Processes)

\* A file that neither a name nor a process holds.
Unheld(f) ==
    /\ \A n \in DOMAIN names : names[n] # f
    /\ \A q \in Processes : proc[q].m_file # f

LEMMA Image ==
    ASSUME NEW S, IsFiniteSet(S), NEW f, f = [x \in S |-> f[x]]
    PROVE  /\ IsFiniteSet({f[x] : x \in S}) /\ Cardinality({f[x] : x \in S}) \in Nat
           /\ Cardinality({f[x] : x \in S}) <= Cardinality(S)
<1> DEFINE T == {f[x] : x \in S}
<1>1. f \in [S -> T]
    <2>1. [x \in S |-> f[x]] \in [S -> T]
        OBVIOUS
    <2> QED
        BY <2>1, Zenon
<1>2. f \in Surjection(S, T)
    BY <1>1 DEF Surjection
<1> HIDE DEF T
<1>3. IsFiniteSet(T) /\ Cardinality(T) <= Cardinality(S)
    BY <1>2, FS_Surjection
<1> QED
    BY <1>3, FS_CardinalityType DEF T

\* There is one when the first name is free, for openLogFile to create.
LEMMA FreshFile ==
    ASSUME LogConstants, Log!TypeOK, names[0] = 0
    PROVE  \E f \in Log!Files : Unheld(f)
<1> DEFINE N == m_lastFileNumber
           C == Cardinality(Processes)
           A == {names[n] : n \in 1..N}
           B == {proc[q].m_file : q \in Processes}
<1>1. N \in Nat /\ C \in Nat /\ IsFiniteSet(Processes)
    BY FS_CardinalityType DEF LogConstants
<1>2. IsFiniteSet(A) /\ Cardinality(A) \in Nat /\ Cardinality(A) <= N
    <2> DEFINE f == [n \in 1..N |-> names[n]]
    <2>1. IsFiniteSet(1..N) /\ Cardinality(1..N) = N
        BY <1>1, FS_Interval, SMTT(30)
    <2>2. f = [n \in 1..N |-> f[n]] /\ {f[n] : n \in 1..N} = A
        OBVIOUS
    <2> HIDE DEF f, A
    <2>3. /\ IsFiniteSet({f[n] : n \in 1..N}) /\ Cardinality({f[n] : n \in 1..N}) \in Nat
          /\ Cardinality({f[n] : n \in 1..N}) <= Cardinality(1..N)
        BY <2>1, <2>2, Image
    <2> QED
        BY <2>1, <2>2, <2>3
<1>3. IsFiniteSet(B) /\ Cardinality(B) \in Nat /\ Cardinality(B) <= C
    <2> DEFINE f == [q \in Processes |-> proc[q].m_file]
    <2>2. f = [q \in Processes |-> f[q]] /\ {f[q] : q \in Processes} = B
        OBVIOUS
    <2> HIDE DEF f, B
    <2>3. /\ IsFiniteSet({f[q] : q \in Processes}) /\ Cardinality({f[q] : q \in Processes}) \in Nat
          /\ Cardinality({f[q] : q \in Processes}) <= C
        BY <1>1, <2>2, Image
    <2> QED
        BY <2>2, <2>3
<1>4. IsFiniteSet(A \cup B) /\ Cardinality(A \cup B) \in Nat /\ Cardinality(A \cup B) <= N + C
    <2> HIDE DEF A, B
    <2>1. A \cap B \in SUBSET A
        OBVIOUS
    <2>2. IsFiniteSet(A \cap B)
        BY <1>2, <2>1, FS_Subset
    <2>3. Cardinality(A \cap B) \in Nat
        BY <2>2, FS_CardinalityType
    <2>4. IsFiniteSet(A \cup B)
          /\ Cardinality(A \cup B) = Cardinality(A) + Cardinality(B) - Cardinality(A \cap B)
        BY <1>2, <1>3, FS_Union
    <2>5. Cardinality(A \cup B) \in Nat
        BY <2>4, FS_CardinalityType
    <2> QED
        BY <1>1, <1>2, <1>3, <2>3, <2>4, <2>5
<1>5. Log!Files = 1..(N + 1 + C) /\ Cardinality(1..(N + 1 + C)) = N + 1 + C
    <2>1. Log!Files = 1..(N + 1 + Log!Cardinality(Processes))
        BY Zenon DEF Log!Files
    <2>2. Log!Cardinality(Processes) = C
        BY Zenon DEF Log!Cardinality, Cardinality
    <2> HIDE DEF C
    <2>3. 1 \in Int /\ N + 1 + C \in Int /\ ~(1 > N + 1 + C)
        BY <1>1
    <2> QED
        BY <1>1, <2>1, <2>2, <2>3, FS_Interval
<1>6. ~(Log!Files \subseteq A \cup B)
    <2> HIDE DEF A, B
    <2> SUFFICES ASSUME Log!Files \subseteq A \cup B PROVE FALSE
        OBVIOUS
    <2>1. Cardinality(Log!Files) <= Cardinality(A \cup B)
        BY <1>4, FS_Subset
    <2> QED
        BY <1>1, <1>4, <1>5, <2>1
<1>7. PICK f \in Log!Files : f \notin A /\ f \notin B
    BY <1>6
<1>8. \A n \in DOMAIN names : n = 0 \/ n \in 1..N
    BY <1>1 DEF Log!TypeOK
<1>9. f # 0
    BY <1>1, <1>5
<1> QED
    BY <1>7, <1>8, <1>9 DEF Unheld

ProcessType ==
    [pc : Log!Places, m_file : Log!Files \cup {0}, offset : Nat, m_fileSize : Int,
     m_firstWrite : BOOLEAN, n : Nat]

\* Types, and what a process knows of its file and of its roll, overlapped or not.
RollType ==
    /\ Log!TypeOK
    /\ \A p \in Processes :
          /\ proc[p].pc \in {"unlink", "rename"} => m_lastFileNumber > 0
          /\ proc[p].pc = "rename" => proc[p].n < m_lastFileNumber
          /\ proc[p].pc = "header" => proc[p].m_file # 0
          /\ proc[p].m_file # 0 => proc[p].offset <= Len(content[proc[p].m_file])

LEMMA LogTypes ==
    ASSUME LogConstants, Log!TypeOK
    PROVE  /\ m_lastFileNumber \in Nat /\ 0 \notin Log!Files /\ 0 \in 0..m_lastFileNumber
           /\ names \in [0..m_lastFileNumber -> Log!Files \cup {0}]
           /\ content \in [Log!Files -> Seq(Nat)]
           /\ proc \in [Processes -> ProcessType]
           /\ \A p \in Processes :
                 /\ proc[p].pc \in Log!Places /\ proc[p].m_file \in Log!Files \cup {0}
                 /\ proc[p].offset \in Nat /\ proc[p].m_fileSize \in Int
                 /\ proc[p].m_firstWrite \in BOOLEAN /\ proc[p].n \in Nat
           /\ number \in Nat /\ starts \in 0..MaxStarts
           /\ failed \in BOOLEAN /\ overlapped \in BOOLEAN
<1>1. m_lastFileNumber \in Nat
    BY DEF LogConstants
<1>2. 0 \notin Log!Files
    BY DEF Log!Files
<1>3. proc \in [Processes -> ProcessType]
    BY Zenon DEF Log!TypeOK, ProcessType, Log!None
<1>4. ASSUME NEW p \in Processes
      PROVE  /\ proc[p].pc \in Log!Places /\ proc[p].m_file \in Log!Files \cup {0}
             /\ proc[p].offset \in Nat /\ proc[p].m_fileSize \in Int
             /\ proc[p].m_firstWrite \in BOOLEAN /\ proc[p].n \in Nat
    <2>1. proc[p] \in ProcessType
        BY <1>3
    <2> QED
        BY <2>1 DEF ProcessType
<1>5. 0 \in 0..m_lastFileNumber
    BY <1>1
<1> QED
    BY <1>1, <1>2, <1>3, <1>4, <1>5, Zenon DEF Log!TypeOK, Log!None

\* One process moves.
Moves(p, at, file, offset, first, k) ==
    /\ proc' \in [Processes -> ProcessType]
    /\ \A q \in Processes : q # p => proc'[q] = proc[q]
    /\ proc'[p].pc = at /\ proc'[p].m_file = file /\ proc'[p].offset = offset
    /\ proc'[p].m_firstWrite = first /\ proc'[p].n = k

LEMMA MovesIs ==
    ASSUME LogConstants, Log!TypeOK, NEW p \in Processes, NEW r \in ProcessType,
           proc' = [proc EXCEPT ![p] = r]
    PROVE  Moves(p, r.pc, r.m_file, r.offset, r.m_firstWrite, r.n)
<1>1. proc \in [Processes -> ProcessType]
    BY LogTypes
<1>2. proc' \in [Processes -> ProcessType] /\ proc'[p] = r
      /\ \A q \in Processes : q # p => proc'[q] = proc[q]
    BY <1>1
<1> QED
    BY <1>2 DEF Moves

\* What each operation does, with the files it concerns.
Unchanged == names' = names /\ content' = content /\ number' = number

LEMMA StartIs ==
    ASSUME LogConstants, RollType, NEW p \in Processes, Log!Start(p)
    PROVE  /\ Unchanged /\ failed' = failed /\ overlapped' = overlapped
           /\ starts' \in 0..MaxStarts
           /\ proc[p].pc = "dead"
           /\ Moves(p, "idle", proc[p].m_file, proc[p].offset, proc[p].m_firstWrite, proc[p].n)
<1>1. /\ starts \in 0..MaxStarts /\ proc \in [Processes -> ProcessType] /\ proc[p] \in ProcessType
    BY LogTypes DEF RollType
<1> DEFINE r == [proc[p] EXCEPT !.pc = "idle"]
<1>2. proc' = [proc EXCEPT ![p] = r]
    BY DEF Log!Start, Log!Goto
<1>3. /\ r \in ProcessType /\ r.pc = "idle" /\ r.m_file = proc[p].m_file /\ r.offset = proc[p].offset
      /\ r.m_firstWrite = proc[p].m_firstWrite /\ r.n = proc[p].n
    BY <1>1 DEF ProcessType, Log!Places
<1> HIDE DEF r
<1>4. Moves(p, "idle", proc[p].m_file, proc[p].offset, proc[p].m_firstWrite, proc[p].n)
    BY <1>2, <1>3, MovesIs DEF RollType
<1>5. starts' \in 0..MaxStarts
    BY <1>1 DEF Log!Start, LogConstants
<1> QED
    BY <1>4, <1>5 DEF Log!Start, Log!At, Unchanged

LEMMA DieIs ==
    ASSUME LogConstants, RollType, NEW p \in Processes, Log!Die(p)
    PROVE  /\ Unchanged /\ failed' = failed /\ overlapped' = overlapped /\ starts' = starts
           /\ Moves(p, "dead", 0, 0, TRUE, 0)
<1> DEFINE r == Log!Dead
<1>1. proc' = [proc EXCEPT ![p] = r]
    BY DEF Log!Die
<1>2. /\ r \in ProcessType /\ r.pc = "dead" /\ r.m_file = 0 /\ r.offset = 0 /\ r.m_firstWrite = TRUE
      /\ r.n = 0
    BY DEF ProcessType, Log!Places, Log!Dead, Log!None
<1> HIDE DEF r
<1> QED
    BY <1>1, <1>2, MovesIs DEF Log!Die, RollType, Unchanged, Log!history

LEMMA WriteIs ==
    ASSUME LogConstants, RollType, NEW p \in Processes, Log!Write(p)
    PROVE  /\ Unchanged /\ failed' = failed /\ overlapped' = overlapped /\ starts' = starts
           /\ proc[p].pc = "idle"
           /\ \/ /\ proc[p].m_firstWrite
                 /\ Moves(p, "open", proc[p].m_file, proc[p].offset, FALSE, proc[p].n)
              \/ /\ ~proc[p].m_firstWrite /\ m_lastFileNumber > 0
                 /\ Moves(p, "unlink", 0, proc[p].offset, FALSE, proc[p].n)
              \/ /\ ~proc[p].m_firstWrite
                 /\ Moves(p, "write", proc[p].m_file, proc[p].offset, FALSE, proc[p].n)
<1>1. /\ proc \in [Processes -> ProcessType] /\ proc[p] \in ProcessType
      /\ proc[p].m_firstWrite \in BOOLEAN
    BY LogTypes DEF RollType
<1> DEFINE me == proc[p]
           roll == m_lastFileNumber > 0 /\ me.m_fileSize > m_maxFileSize
           at == CASE me.m_firstWrite -> "open"
                   [] ~me.m_firstWrite /\ roll -> "unlink"
                   [] OTHER -> "write"
           file == IF ~me.m_firstWrite /\ roll THEN 0 ELSE me.m_file
           r == [me EXCEPT !.pc = at, !.m_file = file, !.m_firstWrite = FALSE]
<1>2. proc' = [proc EXCEPT ![p] = r]
    BY <1>1 DEF Log!Write, Log!None
<1>3. Unchanged /\ failed' = failed /\ overlapped' = overlapped /\ starts' = starts
      /\ proc[p].pc = "idle"
    BY DEF Log!Write, Log!At, Log!history, Unchanged
<1>4. ASSUME NEW where \in Log!Places, NEW f \in Log!Files \cup {0}, at = where, file = f
      PROVE  Moves(p, where, f, proc[p].offset, FALSE, proc[p].n)
    <2> HIDE DEF at, file
    <2>1. /\ r \in ProcessType /\ r.pc = where /\ r.m_file = f /\ r.offset = me.offset
          /\ r.m_firstWrite = FALSE /\ r.n = me.n
        BY <1>1, <1>4 DEF ProcessType
    <2> HIDE DEF r
    <2> QED
        BY <1>2, <2>1, MovesIs DEF RollType
<1>5. me.m_file \in Log!Files \cup {0} /\ {"open", "unlink", "write"} \subseteq Log!Places
    BY <1>1 DEF ProcessType, Log!Places
<1>6. CASE me.m_firstWrite
    <2>1. at = "open" /\ file = me.m_file
        BY <1>6
    <2> QED
        BY <1>3, <1>4, <1>5, <1>6, <2>1
<1>7. CASE ~me.m_firstWrite /\ roll
    <2>1. at = "unlink" /\ file = 0
        BY <1>7
    <2> QED
        BY <1>3, <1>4, <1>5, <1>7, <2>1
<1>8. CASE ~me.m_firstWrite /\ ~roll
    <2>1. at = "write" /\ file = me.m_file
        BY <1>8
    <2> QED
        BY <1>3, <1>4, <1>5, <1>8, <2>1
<1> QED
    BY <1>6, <1>7, <1>8

LEMMA UnlinkIs ==
    ASSUME LogConstants, RollType, NEW p \in Processes, Log!Unlink(p)
    PROVE  /\ content' = content /\ number' = number
           /\ failed' = failed /\ overlapped' = overlapped /\ starts' = starts
           /\ names' = [names EXCEPT ![m_lastFileNumber] = 0]
           /\ proc[p].pc = "unlink" /\ m_lastFileNumber > 0
           /\ Moves(p, "rename", proc[p].m_file, proc[p].offset, proc[p].m_firstWrite,
                    m_lastFileNumber - 1)
<1>1. /\ proc \in [Processes -> ProcessType] /\ proc[p] \in ProcessType /\ m_lastFileNumber \in Nat
    BY LogTypes DEF RollType
<1>2. proc[p].pc = "unlink" /\ m_lastFileNumber > 0
    BY DEF Log!Unlink, Log!At, RollType
<1> DEFINE k == m_lastFileNumber - 1
           r == [proc[p] EXCEPT !.pc = "rename", !.n = k]
<1>3. proc' = [proc EXCEPT ![p] = r]
    BY <1>1 DEF Log!Unlink
<1>4. k \in Nat
    BY <1>1, <1>2
<1> HIDE DEF k
<1>5. /\ r \in ProcessType /\ r.pc = "rename" /\ r.m_file = proc[p].m_file /\ r.offset = proc[p].offset
      /\ r.m_firstWrite = proc[p].m_firstWrite /\ r.n = k
    BY <1>1, <1>4 DEF ProcessType, Log!Places
<1> HIDE DEF r
<1>6. Moves(p, "rename", proc[p].m_file, proc[p].offset, proc[p].m_firstWrite, k)
    BY <1>3, <1>5, MovesIs DEF RollType
<1> QED
    BY <1>2, <1>6 DEF Log!Unlink, Log!FileUnlink, Log!None, Log!history, k

LEMMA RenameIs ==
    ASSUME LogConstants, RollType, NEW p \in Processes, Log!Rename(p)
    PROVE  /\ content' = content /\ number' = number /\ overlapped' = overlapped /\ starts' = starts
           /\ proc[p].pc = "rename" /\ m_lastFileNumber > 0 /\ proc[p].n < m_lastFileNumber
           /\ \/ names' = names /\ failed'
              \/ names[proc[p].n] = 0 /\ names' = names /\ failed' = failed
              \/ /\ names[proc[p].n] # 0 /\ failed' = failed
                 /\ names' = [names EXCEPT ![proc[p].n + 1] = names[proc[p].n], ![proc[p].n] = 0]
           /\ \/ /\ proc[p].n = 0
                 /\ Moves(p, "open", proc[p].m_file, proc[p].offset, proc[p].m_firstWrite, 0)
              \/ /\ proc[p].n # 0
                 /\ Moves(p, "rename", proc[p].m_file, proc[p].offset, proc[p].m_firstWrite,
                          proc[p].n - 1)
<1>1. /\ proc \in [Processes -> ProcessType] /\ proc[p] \in ProcessType /\ proc[p].n \in Nat
    BY LogTypes DEF RollType
<1>2. /\ proc[p].pc = "rename" /\ m_lastFileNumber > 0 /\ proc[p].n < m_lastFileNumber
    BY DEF Log!Rename, Log!At, RollType
<1>3. \/ names' = names /\ failed'
      \/ names[proc[p].n] = 0 /\ names' = names /\ failed' = failed
      \/ /\ names[proc[p].n] # 0 /\ failed' = failed
         /\ names' = [names EXCEPT ![proc[p].n + 1] = names[proc[p].n], ![proc[p].n] = 0]
    BY DEF Log!Rename, Log!FileRename, Log!None
<1> DEFINE k == proc[p].n
           r == [proc[p] EXCEPT !.pc = IF k = 0 THEN "open" ELSE "rename",
                                !.n = IF k = 0 THEN 0 ELSE k - 1]
<1>4. proc' = [proc EXCEPT ![p] = r]
    BY <1>1, <1>2 DEF Log!Rename
<1>5. ASSUME k = 0
      PROVE  Moves(p, "open", proc[p].m_file, proc[p].offset, proc[p].m_firstWrite, 0)
    <2>1. /\ r \in ProcessType /\ r.pc = "open" /\ r.m_file = proc[p].m_file /\ r.offset = proc[p].offset
          /\ r.m_firstWrite = proc[p].m_firstWrite /\ r.n = 0
        BY <1>1, <1>5 DEF ProcessType, Log!Places
    <2> HIDE DEF r
    <2> QED
        BY <1>4, <2>1, MovesIs DEF RollType
<1>6. ASSUME k # 0
      PROVE  Moves(p, "rename", proc[p].m_file, proc[p].offset, proc[p].m_firstWrite, k - 1)
    <2>0. k - 1 \in Nat
        BY <1>1, <1>6
    <2>1. /\ r \in ProcessType /\ r.pc = "rename" /\ r.m_file = proc[p].m_file
          /\ r.offset = proc[p].offset
          /\ r.m_firstWrite = proc[p].m_firstWrite /\ r.n = k - 1
        BY <1>1, <1>6, <2>0 DEF ProcessType, Log!Places
    <2> HIDE DEF r
    <2> QED
        BY <1>4, <2>1, MovesIs DEF RollType
<1> QED
    BY <1>2, <1>3, <1>5, <1>6 DEF Log!Rename

\* The file that openLogFile opens, and its size.
Opens(f, size) ==
    /\ f \in Log!Files /\ size \in Nat
    /\ names' = [names EXCEPT ![0] = f]
    /\ names[0] # 0 => /\ f = names[0] /\ content' = content
                       /\ size = Len(content[f])
    /\ names[0] = 0 => /\ Unheld(f) /\ size = 0
                       /\ content' = [content EXCEPT ![f] = <<>>]

LEMMA OpenIs ==
    ASSUME LogConstants, RollType, NEW p \in Processes, Log!OpenLogFile(p)
    PROVE  /\ number' = number /\ failed' = failed /\ starts' = starts
           /\ proc[p].pc = "open"
           /\ overlapped' = (overlapped \/ \E q \in Processes \ {p} :
                                 proc[q].pc \notin {"dead", "idle"} \/ proc[q].m_file # 0)
           /\ \E f, size : /\ Opens(f, size)
                           /\ Moves(p, IF size = 0 THEN "header" ELSE "write", f, size,
                                    proc[p].m_firstWrite, proc[p].n)
<1>1. /\ proc \in [Processes -> ProcessType] /\ proc[p] \in ProcessType
      /\ names \in [0..m_lastFileNumber -> Log!Files \cup {0}] /\ 0 \in 0..m_lastFileNumber
      /\ content \in [Log!Files -> Seq(Nat)] /\ DOMAIN names = 0..m_lastFileNumber
    BY LogTypes DEF RollType
<1> DEFINE held == {names[n] : n \in DOMAIN names} \cup {proc[q].m_file : q \in Processes}
           file == IF names[0] # 0 THEN names[0] ELSE CHOOSE f \in Log!Files : f \notin held
           size == IF names[0] # 0 THEN Len(content[file]) ELSE 0
           r == [proc[p] EXCEPT !.pc = IF size = 0 THEN "header" ELSE "write",
                                !.m_file = file, !.offset = size, !.m_fileSize = size]
<1>2. /\ names' = [names EXCEPT ![0] = file]
      /\ content' = [content EXCEPT ![file] = SubSeq(content[file], 1, size)]
      /\ proc' = [proc EXCEPT ![p] = r]
    <2>1. /\ names' = [names EXCEPT ![0] = file]
          /\ content' = [content EXCEPT ![file] = SubSeq(content[file], 1, size)]
          /\ proc' = [proc EXCEPT ![p].pc = IF size = 0 THEN "header" ELSE "write",
                                  ![p].m_file = file, ![p].offset = size, ![p].m_fileSize = size]
        BY Zenon DEF Log!OpenLogFile, Log!None
    <2> HIDE DEF size, file
    <2> QED
        BY <1>1, <2>1
<1>3. file \in Log!Files /\ (names[0] = 0 => Unheld(file))
    <2>1. CASE names[0] # 0
        BY <1>1, <2>1
    <2>2. CASE names[0] = 0
        <3>1. PICK g \in Log!Files : Unheld(g)
            BY <2>2, FreshFile DEF RollType
        <3>2. g \notin held
            BY <3>1 DEF Unheld
        <3> HIDE DEF held
        <3>3. file = CHOOSE f \in Log!Files : f \notin held
            BY <2>2
        <3>4. file \in Log!Files /\ file \notin held
            BY <3>2, <3>3
        <3> HIDE DEF file
        <3> QED
            BY <3>4 DEF Unheld, held
    <2> QED
        BY <2>1, <2>2
<1> HIDE DEF file, held
<1>4. content[file] \in Seq(Nat) /\ Len(content[file]) \in Nat /\ size \in Nat
    BY <1>1, <1>3
<1>5. names[0] # 0 => file = names[0] /\ size = Len(content[file]) /\ content' = content
    <2> SUFFICES ASSUME names[0] # 0
                 PROVE  file = names[0] /\ size = Len(content[file]) /\ content' = content
        OBVIOUS
    <2>1. file = names[0] /\ size = Len(content[file])
        BY DEF file
    <2>2. SubSeq(content[file], 1, Len(content[file])) = content[file]
        BY <1>4
    <2> HIDE DEF size
    <2> QED
        BY <1>1, <1>2, <1>3, <2>1, <2>2
<1>6. names[0] = 0 => size = 0 /\ content' = [content EXCEPT ![file] = <<>>]
    <2>1. SubSeq(content[file], 1, 0) = <<>>
        BY <1>4
    <2> QED
        BY <1>2, <2>1
<1> HIDE DEF size
<1>7. Opens(file, size)
    BY <1>2, <1>3, <1>4, <1>5, <1>6 DEF Opens
<1>8. /\ r \in ProcessType /\ r.pc = (IF size = 0 THEN "header" ELSE "write") /\ r.m_file = file
      /\ r.offset = size /\ r.m_firstWrite = proc[p].m_firstWrite /\ r.n = proc[p].n
    <2> DEFINE at == IF size = 0 THEN "header" ELSE "write"
    <2>1. at \in Log!Places /\ size \in Int /\ file \in Log!Files \cup {0}
        BY <1>3, <1>4 DEF Log!Places
    <2> HIDE DEF at
    <2>2. r = [proc[p] EXCEPT !.pc = at, !.m_file = file, !.offset = size, !.m_fileSize = size]
        BY DEF at
    <2> HIDE DEF r
    <2>3. /\ r \in ProcessType /\ r.pc = at /\ r.m_file = file
          /\ r.offset = size /\ r.m_firstWrite = proc[p].m_firstWrite /\ r.n = proc[p].n
        BY <1>1, <1>4, <2>1, <2>2 DEF ProcessType
    <2> QED
        BY <2>3 DEF at
<1> HIDE DEF r
<1>9. Moves(p, IF size = 0 THEN "header" ELSE "write", file, size, proc[p].m_firstWrite, proc[p].n)
    BY <1>2, <1>8, MovesIs DEF RollType
<1> QED
    BY <1>7, <1>9 DEF Log!OpenLogFile, Log!At, Log!None

LEMMA OpenFailsIs ==
    ASSUME LogConstants, RollType, NEW p \in Processes, Log!OpenFails(p)
    PROVE  /\ Unchanged /\ failed' = TRUE /\ overlapped' = overlapped /\ starts' = starts
           /\ Moves(p, "write", proc[p].m_file, proc[p].offset, proc[p].m_firstWrite, proc[p].n)
<1>1. /\ proc \in [Processes -> ProcessType] /\ proc[p] \in ProcessType
    BY LogTypes DEF RollType
<1> DEFINE size == -1
           r == [proc[p] EXCEPT !.pc = "write", !.m_fileSize = size]
<1>0. size \in Int
    OBVIOUS
<1>2. proc' = [proc EXCEPT ![p] = r]
    BY <1>1 DEF Log!OpenFails
<1> HIDE DEF size
<1>3. /\ r \in ProcessType /\ r.pc = "write" /\ r.m_file = proc[p].m_file /\ r.offset = proc[p].offset
      /\ r.m_firstWrite = proc[p].m_firstWrite /\ r.n = proc[p].n
    BY <1>0, <1>1 DEF ProcessType, Log!Places
<1> HIDE DEF r
<1>4. Moves(p, "write", proc[p].m_file, proc[p].offset, proc[p].m_firstWrite, proc[p].n)
    BY <1>2, <1>3, MovesIs DEF RollType
<1> QED
    BY <1>4 DEF Log!OpenFails, Unchanged

\* A file g with cell at an offset, over what was there.
Overwrites(g, text, offset, cell) ==
    /\ g \in Seq(Nat)
    /\ Len(g) = IF offset < Len(text) THEN Len(text) ELSE offset + 1
    /\ g[offset + 1] = cell
    /\ \A i \in 1..Len(text) : i # offset + 1 => g[i] = text[i]

LEMMA FileWriteIs ==
    ASSUME LogConstants, RollType, NEW p \in Processes, proc[p].m_file # 0,
           NEW cell \in Nat, NEW at \in Log!Places, Log!FileWrite(p, cell, at)
    PROVE  /\ proc[p].m_file \in Log!Files
           /\ \E g : /\ Overwrites(g, content[proc[p].m_file], proc[p].offset, cell)
                     /\ content' = [content EXCEPT ![proc[p].m_file] = g]
           /\ Moves(p, at, proc[p].m_file, proc[p].offset + 1, proc[p].m_firstWrite, proc[p].n)
<1>1. /\ proc \in [Processes -> ProcessType] /\ proc[p] \in ProcessType
      /\ content \in [Log!Files -> Seq(Nat)]
      /\ proc[p].m_file \in Log!Files /\ proc[p].offset \in Nat /\ proc[p].m_fileSize \in Int
      /\ proc[p].offset <= Len(content[proc[p].m_file])
    BY LogTypes DEF RollType
<1> DEFINE f == proc[p].m_file
           off == proc[p].offset
           text == content[f]
           n == IF off < Len(text) THEN Len(text) ELSE off + 1
           g == [i \in 1..n |-> IF i = off + 1 THEN cell ELSE text[i]]
           r == [proc[p] EXCEPT !.offset = off + 1, !.m_fileSize = proc[p].m_fileSize + 1, !.pc = at]
<1>2. content' = [content EXCEPT ![f] = g]
    BY Zenon DEF Log!FileWrite
<1>3. proc' = [proc EXCEPT ![p] = r]
    <2>1. proc' = [proc EXCEPT ![p].offset = @ + 1, ![p].m_fileSize = @ + 1, ![p].pc = at]
        BY Zenon DEF Log!FileWrite
    <2> QED
        BY <1>1, <2>1
<1>4. Overwrites(g, text, off, cell)
    <2>1. text \in Seq(Nat) /\ Len(text) \in Nat /\ \A i \in 1..Len(text) : text[i] \in Nat
        BY <1>1
    <2>2. off \in Nat /\ off <= Len(text)
        BY <1>1
    <2> HIDE DEF text, off
    <2>3. n \in Nat /\ off + 1 \in 1..n /\ (\A i \in 1..Len(text) : i \in 1..n)
          /\ \A i \in 1..n : i = off + 1 \/ i \in 1..Len(text)
        BY <2>1, <2>2
    <2>4. n = IF off < Len(text) THEN Len(text) ELSE off + 1
        OBVIOUS
    <2> HIDE DEF n
    <2>5. g \in [1..n -> Nat]
        BY <2>1, <2>3
    <2>6. g[off + 1] = cell /\ \A i \in 1..Len(text) : i # off + 1 => g[i] = text[i]
        BY <2>3
    <2> HIDE DEF g
    <2>7. g \in Seq(Nat) /\ Len(g) = n
        BY <2>3, <2>5
    <2> QED
        BY <2>4, <2>6, <2>7 DEF Overwrites
<1>5. /\ r \in ProcessType /\ r.pc = at /\ r.m_file = f /\ r.offset = off + 1
      /\ r.m_firstWrite = proc[p].m_firstWrite /\ r.n = proc[p].n
    <2>1. off + 1 \in Nat /\ proc[p].m_fileSize + 1 \in Int
        BY <1>1
    <2> QED
        BY <1>1, <2>1 DEF ProcessType
<1> HIDE DEF r
<1>6. Moves(p, at, f, off + 1, proc[p].m_firstWrite, proc[p].n)
    BY <1>3, <1>5, MovesIs DEF RollType
<1> HIDE DEF g
<1> QED
    BY <1>1, <1>2, <1>4, <1>6

LEMMA WriteHeaderIs ==
    ASSUME LogConstants, RollType, NEW p \in Processes, Log!WriteHeader(p)
    PROVE  /\ names' = names /\ number' = number /\ failed' = failed /\ overlapped' = overlapped
           /\ starts' = starts
           /\ proc[p].pc = "header" /\ proc[p].m_file \in Log!Files
           /\ \E g : /\ Overwrites(g, content[proc[p].m_file], proc[p].offset, 0)
                     /\ content' = [content EXCEPT ![proc[p].m_file] = g]
           /\ Moves(p, "write", proc[p].m_file, proc[p].offset + 1, proc[p].m_firstWrite, proc[p].n)
<1>1. proc[p].pc = "header" /\ proc[p].m_file # 0
    BY DEF Log!WriteHeader, Log!At, RollType
<1>2. Log!FileWrite(p, 0, "write") /\ "write" \in Log!Places
    BY DEF Log!WriteHeader, Log!Header, Log!Places
<1>3. 0 \in Nat
    OBVIOUS
<1>4. /\ proc[p].m_file \in Log!Files
      /\ \E g : /\ Overwrites(g, content[proc[p].m_file], proc[p].offset, 0)
                /\ content' = [content EXCEPT ![proc[p].m_file] = g]
      /\ Moves(p, "write", proc[p].m_file, proc[p].offset + 1, proc[p].m_firstWrite, proc[p].n)
    BY <1>1, <1>2, <1>3, FileWriteIs, Zenon
<1> QED
    BY <1>1, <1>4 DEF Log!WriteHeader, Log!history

LEMMA WriteRecordIs ==
    ASSUME LogConstants, RollType, NEW p \in Processes, Log!WriteRecord(p)
    PROVE  /\ names' = names /\ number' = number + 1 /\ failed' = failed /\ overlapped' = overlapped
           /\ starts' = starts /\ proc[p].pc = "write"
           /\ \/ /\ proc[p].m_file = 0 /\ content' = content
                 /\ Moves(p, "idle", 0, proc[p].offset, proc[p].m_firstWrite, proc[p].n)
              \/ /\ proc[p].m_file \in Log!Files
                 /\ \E g : /\ Overwrites(g, content[proc[p].m_file], proc[p].offset, number + 1)
                           /\ content' = [content EXCEPT ![proc[p].m_file] = g]
                 /\ Moves(p, "idle", proc[p].m_file, proc[p].offset + 1, proc[p].m_firstWrite,
                          proc[p].n)
<1>1. /\ proc \in [Processes -> ProcessType] /\ proc[p] \in ProcessType /\ number \in Nat
    BY LogTypes DEF RollType
<1>2. /\ names' = names /\ number' = number + 1 /\ failed' = failed /\ overlapped' = overlapped
      /\ starts' = starts /\ proc[p].pc = "write"
    BY DEF Log!WriteRecord, Log!At, Log!history
<1>3. CASE proc[p].m_file # 0
    <2>1. Log!FileWrite(p, number', "idle")
        BY <1>3 DEF Log!WriteRecord, Log!None
    <2>2. number' \in Nat /\ number' = number + 1 /\ "idle" \in Log!Places
        BY <1>1, <1>2 DEF Log!Places
    <2>m. PICK m : m = number'
        OBVIOUS
    <2>3. Log!FileWrite(p, m, "idle") /\ m \in Nat /\ m = number + 1
        BY <2>1, <2>2, <2>m, Zenon
    <2>4. /\ proc[p].m_file \in Log!Files
          /\ \E g : /\ Overwrites(g, content[proc[p].m_file], proc[p].offset, m)
                    /\ content' = [content EXCEPT ![proc[p].m_file] = g]
          /\ Moves(p, "idle", proc[p].m_file, proc[p].offset + 1, proc[p].m_firstWrite, proc[p].n)
        BY <1>3, <2>2, <2>3, FileWriteIs, Zenon
    <2> QED
        BY <1>2, <2>3, <2>4, Zenon
<1>4. CASE proc[p].m_file = 0
    <2> DEFINE r == [proc[p] EXCEPT !.pc = "idle"]
    <2>1. proc' = [proc EXCEPT ![p] = r] /\ content' = content
        BY <1>1, <1>4 DEF Log!WriteRecord, Log!None, Log!Goto
    <2>2. /\ r \in ProcessType /\ r.pc = "idle" /\ r.m_file = 0 /\ r.offset = proc[p].offset
          /\ r.m_firstWrite = proc[p].m_firstWrite /\ r.n = proc[p].n
        BY <1>1, <1>4 DEF ProcessType, Log!Places
    <2> HIDE DEF r
    <2>3. Moves(p, "idle", 0, proc[p].offset, proc[p].m_firstWrite, proc[p].n)
        BY <2>1, <2>2, MovesIs DEF RollType
    <2> QED
        BY <1>2, <1>4, <2>1, <2>3
<1> QED
    BY <1>3, <1>4

\* A move keeps RollType when no file that somebody else writes gets shorter.
SoundMove(p, at, file, offset, first, k) ==
    /\ Moves(p, at, file, offset, first, k)
    /\ names' \in [0..m_lastFileNumber -> Log!Files \cup {0}]
    /\ content' \in [Log!Files -> Seq(Nat)]
    /\ number' \in Nat /\ starts' \in 0..MaxStarts /\ failed' \in BOOLEAN /\ overlapped' \in BOOLEAN
    /\ \A q \in Processes : q # p /\ proc[q].m_file # 0 =>
          Len(content[proc[q].m_file]) <= Len(content'[proc[q].m_file])
    /\ at \in {"unlink", "rename"} => m_lastFileNumber > 0
    /\ at = "rename" => k < m_lastFileNumber
    /\ at = "header" => file # 0
    /\ file # 0 => offset <= Len(content'[file])

LEMMA RollTypeKept ==
    ASSUME LogConstants, RollType, NEW p \in Processes,
           NEW at, NEW file, NEW offset, NEW first, NEW k, SoundMove(p, at, file, offset, first, k)
    PROVE  RollType'
<1> SUFFICES ASSUME
           Moves(p, at, file, offset, first, k),
           names' \in [0..m_lastFileNumber -> Log!Files \cup {0}],
           content' \in [Log!Files -> Seq(Nat)],
           number' \in Nat, starts' \in 0..MaxStarts, failed' \in BOOLEAN, overlapped' \in BOOLEAN,
           \A q \in Processes : q # p /\ proc[q].m_file # 0 =>
                Len(content[proc[q].m_file]) <= Len(content'[proc[q].m_file]),
           at \in {"unlink", "rename"} => m_lastFileNumber > 0,
           at = "rename" => k < m_lastFileNumber,
           at = "header" => file # 0,
           file # 0 => offset <= Len(content'[file])
             PROVE RollType'
    BY Zenon DEF SoundMove
<1>1. proc' \in [Processes -> ProcessType] /\ content \in [Log!Files -> Seq(Nat)]
      /\ \A q \in Processes : proc[q].m_file \in Log!Files \cup {0} /\ proc[q].offset \in Nat
    BY LogTypes DEF RollType, Moves
<1>2. Log!TypeOK'
    BY <1>1, Zenon DEF Log!TypeOK, ProcessType, Log!None
<1>3. ASSUME NEW q \in Processes
      PROVE  /\ proc'[q].pc \in {"unlink", "rename"} => m_lastFileNumber > 0
             /\ proc'[q].pc = "rename" => proc'[q].n < m_lastFileNumber
             /\ proc'[q].pc = "header" => proc'[q].m_file # 0
             /\ proc'[q].m_file # 0 => proc'[q].offset <= Len(content'[proc'[q].m_file])
    <2>1. CASE q = p
        BY <2>1 DEF Moves
    <2>2. CASE q # p
        <3>1. proc'[q] = proc[q]
            BY <2>2 DEF Moves
        <3>2. /\ proc[q].pc \in {"unlink", "rename"} => m_lastFileNumber > 0
              /\ proc[q].pc = "rename" => proc[q].n < m_lastFileNumber
              /\ proc[q].pc = "header" => proc[q].m_file # 0
              /\ proc[q].m_file # 0 => proc[q].offset <= Len(content[proc[q].m_file])
            BY DEF RollType
        <3>3. proc[q].m_file # 0 => proc[q].offset <= Len(content'[proc[q].m_file])
            <4> SUFFICES ASSUME proc[q].m_file # 0
                         PROVE  proc[q].offset <= Len(content'[proc[q].m_file])
                OBVIOUS
            <4> DEFINE f == proc[q].m_file
            <4>1. f \in Log!Files /\ Len(content[f]) \in Nat /\ Len(content'[f]) \in Nat
                BY <1>1
            <4>2. Len(content[f]) <= Len(content'[f]) /\ proc[q].offset <= Len(content[f])
                BY <2>2, <3>2
            <4> HIDE DEF f
            <4>3. proc[q].offset <= Len(content'[f])
                BY <1>1, <4>1, <4>2
            <4> QED
                BY <4>3 DEF f
        <3> QED
            BY <3>1, <3>2, <3>3
    <2> QED
        BY <2>1, <2>2
<1> QED
    BY <1>2, <1>3 DEF RollType

LEMMA RollTypeInit == LogConstants /\ Log!Init => RollType
<1> SUFFICES ASSUME LogConstants, Log!Init PROVE RollType
    OBVIOUS
<1>1. Log!Dead \in [pc : Log!Places, m_file : Log!Files \cup {Log!None}, offset : Nat,
                    m_fileSize : Int, m_firstWrite : BOOLEAN, n : Nat]
    BY DEF Log!Dead, Log!Places, Log!None
<1>2. Log!TypeOK
    <2>1. /\ names \in [0..m_lastFileNumber -> Log!Files \cup {Log!None}]
          /\ content \in [Log!Files -> Seq(Nat)]
        BY DEF Log!Init
    <2>2. proc \in [Processes -> [pc : Log!Places, m_file : Log!Files \cup {Log!None}, offset : Nat,
                                  m_fileSize : Int, m_firstWrite : BOOLEAN, n : Nat]]
        BY <1>1 DEF Log!Init
    <2>3. number \in Nat /\ starts \in 0..MaxStarts
        BY DEF Log!Init, LogConstants
    <2>4. failed \in BOOLEAN /\ overlapped \in BOOLEAN
        BY Zenon DEF Log!Init
    <2> QED
        BY <2>1, <2>2, <2>3, <2>4, Zenon DEF Log!TypeOK
<1>3. \A p \in Processes : proc[p].pc = "dead" /\ proc[p].m_file = 0
    BY DEF Log!Init, Log!Dead, Log!None
<1> QED
    BY <1>2, <1>3 DEF RollType

\* Files get longer only, but for one that openLogFile creates.
Longer(old, new) ==
    /\ new \in [Log!Files -> Seq(Nat)]
    /\ \A f \in Log!Files : Len(old[f]) <= Len(new[f])

LEMMA OverwriteLonger ==
    ASSUME LogConstants, Log!TypeOK, NEW f \in Log!Files, NEW off \in Nat, NEW cell, NEW g,
           off <= Len(content[f]),
           Overwrites(g, content[f], off, cell), content' = [content EXCEPT ![f] = g]
    PROVE  /\ Longer(content, content') /\ off + 1 <= Len(content'[f]) /\ content'[f] = g
           /\ \A h \in Log!Files : h # f => content'[h] = content[h]
<1>1. content \in [Log!Files -> Seq(Nat)] /\ Len(content[f]) \in Nat
    BY LogTypes
<1>2. /\ g \in Seq(Nat) /\ Len(g) = IF off < Len(content[f]) THEN Len(content[f]) ELSE off + 1
    BY DEF Overwrites
<1>3. /\ content' \in [Log!Files -> Seq(Nat)] /\ content'[f] = g
      /\ \A h \in Log!Files : h # f => content'[h] = content[h]
    BY <1>1, <1>2
<1>4. \A h \in Log!Files : Len(content[h]) \in Nat
    BY <1>1
<1>5. Len(content[f]) <= Len(g) /\ off + 1 <= Len(g)
    BY <1>1, <1>2
<1> QED
    BY <1>3, <1>4, <1>5 DEF Longer

\* A process that writes nothing and stays with its file, or with none.
LEMMA QuietMove ==
    ASSUME LogConstants, RollType, NEW p \in Processes,
           NEW at, NEW file, NEW offset, NEW first, NEW k,
           Moves(p, at, file, offset, first, k), Unchanged,
           failed' = failed, overlapped' = overlapped, starts' = starts,
           at \notin {"rename", "header"}, at = "unlink" => m_lastFileNumber > 0,
           file = 0 \/ (file = proc[p].m_file /\ offset = proc[p].offset)
    PROVE  RollType'
<1>1. /\ names \in [0..m_lastFileNumber -> Log!Files \cup {0}]
      /\ content \in [Log!Files -> Seq(Nat)]
      /\ number \in Nat /\ starts \in 0..MaxStarts /\ failed \in BOOLEAN /\ overlapped \in BOOLEAN
      /\ \A q \in Processes : proc[q].m_file \in Log!Files \cup {0}
    BY LogTypes DEF RollType
<1>2. \A q \in Processes : proc[q].m_file # 0 => proc[q].offset <= Len(content[proc[q].m_file])
    BY DEF RollType
<1>3. \A f \in Log!Files : Len(content[f]) \in Nat
    BY <1>1
<1>4. SoundMove(p, at, file, offset, first, k)
    BY <1>1, <1>2, <1>3 DEF SoundMove, Unchanged
<1> QED
    BY <1>4, RollTypeKept

LEMMA RollTypeStep == LogConstants /\ RollType /\ [Log!Next]_(Log!vars) => RollType'
<1> SUFFICES ASSUME LogConstants, RollType, [Log!Next]_(Log!vars) PROVE RollType'
    OBVIOUS
<1>1. CASE UNCHANGED Log!vars
    BY <1>1 DEF Log!vars, RollType, Log!TypeOK
<1>2. CASE Log!Next
    <2>0. PICK p \in Processes :
             \/ Log!Start(p) \/ Log!Die(p) \/ Log!Write(p) \/ Log!Unlink(p) \/ Log!Rename(p)
             \/ Log!OpenLogFile(p) \/ Log!OpenFails(p) \/ Log!WriteHeader(p) \/ Log!WriteRecord(p)
        BY <1>2 DEF Log!Next
    <2>1. /\ names \in [0..m_lastFileNumber -> Log!Files \cup {0}]
          /\ content \in [Log!Files -> Seq(Nat)]
          /\ number \in Nat /\ starts \in 0..MaxStarts /\ failed \in BOOLEAN /\ overlapped \in BOOLEAN
          /\ m_lastFileNumber \in Nat
          /\ \A q \in Processes : proc[q].m_file \in Log!Files \cup {0} /\ proc[q].offset \in Nat
                                 /\ proc[q].n \in Nat
        BY LogTypes DEF RollType
    <2>2. \A q \in Processes :
             /\ proc[q].pc \in {"unlink", "rename"} => m_lastFileNumber > 0
             /\ proc[q].pc = "rename" => proc[q].n < m_lastFileNumber
             /\ proc[q].pc = "header" => proc[q].m_file # 0
             /\ proc[q].m_file # 0 => proc[q].offset <= Len(content[proc[q].m_file])
        BY DEF RollType
    <2>3. \A f \in Log!Files : Len(content[f]) \in Nat
        BY <2>1
    <2>4. CASE Log!Start(p)
        <3>1. /\ Unchanged /\ failed' = failed /\ overlapped' = overlapped /\ starts' \in 0..MaxStarts
              /\ Moves(p, "idle", proc[p].m_file, proc[p].offset, proc[p].m_firstWrite, proc[p].n)
            BY <2>4, StartIs
        <3>s. SoundMove(p, "idle", proc[p].m_file, proc[p].offset, proc[p].m_firstWrite, proc[p].n)
            BY <2>1, <2>2, <2>3, <3>1 DEF SoundMove, Unchanged
        <3> QED
            BY <3>s, RollTypeKept
    <2>5. CASE Log!Die(p)
        <3>1. /\ Unchanged /\ failed' = failed /\ overlapped' = overlapped /\ starts' = starts
              /\ Moves(p, "dead", 0, 0, TRUE, 0)
            BY <2>5, DieIs
        <3>2. PICK first : first = TRUE
            OBVIOUS
        <3>3. Moves(p, "dead", 0, 0, first, 0)
            BY <3>1, <3>2, Zenon
        <3> QED
            BY <3>1, <3>3, QuietMove
    <2>6. CASE Log!Write(p)
        <3>1. /\ Unchanged /\ failed' = failed /\ overlapped' = overlapped /\ starts' = starts
              /\ \/ Moves(p, "open", proc[p].m_file, proc[p].offset, FALSE, proc[p].n)
                 \/ /\ m_lastFileNumber > 0
                    /\ Moves(p, "unlink", 0, proc[p].offset, FALSE, proc[p].n)
                 \/ Moves(p, "write", proc[p].m_file, proc[p].offset, FALSE, proc[p].n)
            BY <2>6, WriteIs
        <3>2. PICK first : first = FALSE
            OBVIOUS
        <3>3. CASE Moves(p, "open", proc[p].m_file, proc[p].offset, FALSE, proc[p].n)
            <4>1. Moves(p, "open", proc[p].m_file, proc[p].offset, first, proc[p].n)
                BY <3>2, <3>3, Zenon
            <4> QED
                BY <3>1, <4>1, QuietMove
        <3>4. CASE m_lastFileNumber > 0 /\ Moves(p, "unlink", 0, proc[p].offset, FALSE, proc[p].n)
            <4>1. Moves(p, "unlink", 0, proc[p].offset, first, proc[p].n)
                BY <3>2, <3>4, Zenon
            <4> QED
                BY <3>1, <3>4, <4>1, QuietMove
        <3>5. CASE Moves(p, "write", proc[p].m_file, proc[p].offset, FALSE, proc[p].n)
            <4>1. Moves(p, "write", proc[p].m_file, proc[p].offset, first, proc[p].n)
                BY <3>2, <3>5, Zenon
            <4> QED
                BY <3>1, <4>1, QuietMove
        <3> QED
            BY <3>1, <3>3, <3>4, <3>5, Zenon
    <2>7. CASE Log!Unlink(p)
        <3>1. /\ content' = content /\ number' = number
              /\ failed' = failed /\ overlapped' = overlapped /\ starts' = starts
              /\ names' = [names EXCEPT ![m_lastFileNumber] = 0] /\ m_lastFileNumber > 0
              /\ Moves(p, "rename", proc[p].m_file, proc[p].offset, proc[p].m_firstWrite,
                       m_lastFileNumber - 1)
            BY <2>7, UnlinkIs
        <3>2. names' \in [0..m_lastFileNumber -> Log!Files \cup {0}]
            BY <2>1, <3>1
        <3>3. m_lastFileNumber - 1 < m_lastFileNumber
            BY <2>1
        <3>s. SoundMove(p, "rename", proc[p].m_file, proc[p].offset, proc[p].m_firstWrite, m_lastFileNumber - 1)
            BY <2>1, <2>2, <2>3, <3>1, <3>2, <3>3 DEF SoundMove
        <3> QED
            BY <3>s, RollTypeKept
    <2>8. CASE Log!Rename(p)
        <3>1. /\ content' = content /\ number' = number /\ overlapped' = overlapped /\ starts' = starts
              /\ m_lastFileNumber > 0 /\ proc[p].n < m_lastFileNumber
              /\ \/ names' = names /\ failed'
                 \/ names[proc[p].n] = 0 /\ names' = names /\ failed' = failed
                 \/ /\ names[proc[p].n] # 0 /\ failed' = failed
                    /\ names' = [names EXCEPT ![proc[p].n + 1] = names[proc[p].n], ![proc[p].n] = 0]
              /\ \/ /\ proc[p].n = 0
                    /\ Moves(p, "open", proc[p].m_file, proc[p].offset, proc[p].m_firstWrite, 0)
                 \/ /\ proc[p].n # 0
                    /\ Moves(p, "rename", proc[p].m_file, proc[p].offset, proc[p].m_firstWrite,
                             proc[p].n - 1)
            BY <2>8, RenameIs
        <3>2. names' \in [0..m_lastFileNumber -> Log!Files \cup {0}]
            <4>1. proc[p].n \in 0..m_lastFileNumber /\ proc[p].n + 1 \in 0..m_lastFileNumber
                BY <2>1, <3>1
            <4> QED
                BY <2>1, <3>1, <4>1
        <3>3. failed' \in BOOLEAN
            BY <2>8, <2>1 DEF Log!Rename, Log!FileRename
        <3>4. proc[p].n # 0 => proc[p].n - 1 < m_lastFileNumber
            BY <2>1, <3>1
        <3>5. CASE Moves(p, "open", proc[p].m_file, proc[p].offset, proc[p].m_firstWrite, 0)
            <4>1. SoundMove(p, "open", proc[p].m_file, proc[p].offset, proc[p].m_firstWrite, 0)
                BY <2>1, <2>2, <2>3, <3>1, <3>2, <3>3, <3>5 DEF SoundMove
            <4> QED
                BY <4>1, RollTypeKept
        <3>6. CASE /\ proc[p].n # 0
                   /\ Moves(p, "rename", proc[p].m_file, proc[p].offset, proc[p].m_firstWrite,
                            proc[p].n - 1)
            <4>1. SoundMove(p, "rename", proc[p].m_file, proc[p].offset, proc[p].m_firstWrite, proc[p].n - 1)
                BY <2>1, <2>2, <2>3, <3>1, <3>2, <3>3, <3>4, <3>6 DEF SoundMove
            <4> QED
                BY <4>1, RollTypeKept
        <3> QED
            BY <3>1, <3>5, <3>6
    <2>9. CASE Log!OpenLogFile(p)
        <3>1. number' = number /\ failed' = failed /\ starts' = starts
            BY <2>9, OpenIs
        <3>2. PICK f, size : /\ Opens(f, size)
                             /\ Moves(p, IF size = 0 THEN "header" ELSE "write", f, size,
                                      proc[p].m_firstWrite, proc[p].n)
            BY <2>9, OpenIs
        <3>3. overlapped' \in BOOLEAN
            BY <2>9, OpenIs
        <3>4. /\ f \in Log!Files /\ size \in Nat /\ names' = [names EXCEPT ![0] = f]
              /\ names[0] # 0 => content' = content /\ size = Len(content[f])
              /\ names[0] = 0 => /\ Unheld(f) /\ size = 0
                                 /\ content' = [content EXCEPT ![f] = <<>>]
            BY <3>2 DEF Opens
        <3>5. names' \in [0..m_lastFileNumber -> Log!Files \cup {0}] /\ f # 0
            BY <2>1, <3>4, LogTypes DEF RollType
        <3>6. content' \in [Log!Files -> Seq(Nat)] /\ size <= Len(content'[f])
            <4>1. CASE names[0] # 0
                BY <2>1, <2>3, <3>4, <4>1
            <4>2. CASE names[0] = 0
                <5>1. content' \in [Log!Files -> Seq(Nat)] /\ content'[f] = <<>> /\ size = 0
                    <6>1. PICK e : e = <<>>
                        OBVIOUS
                    <6>2. e \in Seq(Nat)
                        BY <6>1
                    <6>3. content' = [content EXCEPT ![f] = e] /\ size = 0
                        BY <3>4, <4>2, <6>1, Zenon
                    <6>4. content' \in [Log!Files -> Seq(Nat)] /\ content'[f] = e
                        BY <2>1, <3>4, <6>2, <6>3
                    <6> QED
                        BY <6>1, <6>3, <6>4, Zenon
                <5> QED
                    BY <5>1
            <4> QED
                BY <4>1, <4>2
        <3>7. \A q \in Processes : q # p /\ proc[q].m_file # 0 =>
                 Len(content[proc[q].m_file]) <= Len(content'[proc[q].m_file])
            <4> SUFFICES ASSUME NEW q \in Processes, proc[q].m_file # 0
                         PROVE  content'[proc[q].m_file] = content[proc[q].m_file]
                BY <2>1, <2>3
            <4>1. CASE names[0] # 0
                BY <3>4, <4>1
            <4>2. CASE names[0] = 0
                <5>1. proc[q].m_file # f
                    BY <3>4, <4>2 DEF Unheld
                <5> QED
                    BY <2>1, <3>4, <4>2, <5>1
            <4> QED
                BY <4>1, <4>2
        <3>8. CASE size = 0
            <4>1. SoundMove(p, "header", f, size, proc[p].m_firstWrite, proc[p].n)
                BY <2>1, <2>2, <3>1, <3>2, <3>3, <3>5, <3>6, <3>7, <3>8 DEF SoundMove
            <4> QED
                BY <4>1, RollTypeKept
        <3>9. CASE size # 0
            <4>1. SoundMove(p, "write", f, size, proc[p].m_firstWrite, proc[p].n)
                BY <2>1, <2>2, <3>1, <3>2, <3>3, <3>5, <3>6, <3>7, <3>9 DEF SoundMove
            <4> QED
                BY <4>1, RollTypeKept
        <3> QED
            BY <3>8, <3>9
    <2>10. CASE Log!OpenFails(p)
        <3>1. /\ Unchanged /\ failed' = TRUE /\ overlapped' = overlapped /\ starts' = starts
              /\ Moves(p, "write", proc[p].m_file, proc[p].offset, proc[p].m_firstWrite, proc[p].n)
            BY <2>10, OpenFailsIs
        <3>s. SoundMove(p, "write", proc[p].m_file, proc[p].offset, proc[p].m_firstWrite, proc[p].n)
            BY <2>1, <2>2, <2>3, <3>1 DEF SoundMove, Unchanged
        <3> QED
            BY <3>s, RollTypeKept
    <2>11. CASE Log!WriteHeader(p)
        <3>1. /\ names' = names /\ number' = number /\ failed' = failed /\ overlapped' = overlapped
              /\ starts' = starts /\ proc[p].m_file \in Log!Files
              /\ Moves(p, "write", proc[p].m_file, proc[p].offset + 1, proc[p].m_firstWrite, proc[p].n)
            BY <2>11, WriteHeaderIs
        <3>2. PICK g : /\ Overwrites(g, content[proc[p].m_file], proc[p].offset, 0)
                       /\ content' = [content EXCEPT ![proc[p].m_file] = g]
            BY <2>11, WriteHeaderIs
        <3>3. proc[p].m_file # 0 /\ proc[p].offset <= Len(content[proc[p].m_file]) /\ proc[p].offset \in Nat
            BY <2>1, <2>2, <3>1, LogTypes DEF RollType
        <3>4. Longer(content, content') /\ proc[p].offset + 1 <= Len(content'[proc[p].m_file])
            BY <3>1, <3>2, <3>3, OverwriteLonger DEF RollType
        <3>s. SoundMove(p, "write", proc[p].m_file, proc[p].offset + 1, proc[p].m_firstWrite, proc[p].n)
            BY <2>1, <2>2, <3>1, <3>4 DEF SoundMove, Longer
        <3> QED
            BY <3>s, RollTypeKept
    <2>12. CASE Log!WriteRecord(p)
        <3>1. /\ names' = names /\ number' = number + 1 /\ failed' = failed /\ overlapped' = overlapped
              /\ starts' = starts
            BY <2>12, WriteRecordIs
        <3>2. CASE /\ proc[p].m_file = 0 /\ content' = content
                   /\ Moves(p, "idle", 0, proc[p].offset, proc[p].m_firstWrite, proc[p].n)
            <4>1. SoundMove(p, "idle", 0, proc[p].offset, proc[p].m_firstWrite, proc[p].n)
                BY <2>1, <2>2, <2>3, <3>1, <3>2 DEF SoundMove
            <4> QED
                BY <4>1, RollTypeKept
        <3>3. CASE /\ proc[p].m_file \in Log!Files
                   /\ \E g : /\ Overwrites(g, content[proc[p].m_file], proc[p].offset, number + 1)
                             /\ content' = [content EXCEPT ![proc[p].m_file] = g]
                   /\ Moves(p, "idle", proc[p].m_file, proc[p].offset + 1, proc[p].m_firstWrite,
                            proc[p].n)
            <4>1. PICK g : /\ Overwrites(g, content[proc[p].m_file], proc[p].offset, number + 1)
                           /\ content' = [content EXCEPT ![proc[p].m_file] = g]
                BY <3>3
            <4>2. proc[p].m_file # 0 /\ proc[p].offset <= Len(content[proc[p].m_file])
                  /\ proc[p].offset \in Nat
                BY <2>1, <2>2, <3>3, LogTypes DEF RollType
            <4>3. Longer(content, content') /\ proc[p].offset + 1 <= Len(content'[proc[p].m_file])
                BY <3>3, <4>1, <4>2, OverwriteLonger DEF RollType
            <4>4. number' \in Nat
                BY <2>1, <3>1
            <4>s. SoundMove(p, "idle", proc[p].m_file, proc[p].offset + 1, proc[p].m_firstWrite, proc[p].n)
                BY <2>1, <2>2, <3>1, <3>3, <4>3, <4>4 DEF SoundMove, Longer
            <4> QED
                BY <4>s, RollTypeKept
        <3> QED
            BY <2>12, <3>2, <3>3, WriteRecordIs
    <2> QED
        BY <2>0, <2>4, <2>5, <2>6, <2>7, <2>8, <2>9, <2>10, <2>11, <2>12
<1> QED
    BY <1>1, <1>2

\* The appenders' types, for any processes, files and overlaps.
THEOREM LogTypeCorrect == LogConstants /\ Log!Spec => []Log!TypeOK
<1>1. LogConstants => []LogConstants
    <2>1. LogConstants => LogConstants'
        BY DEF LogConstants
    <2> QED
        BY <2>1, PTL
<1>2. RollType => Log!TypeOK
    BY DEF RollType
<1> QED
    BY <1>1, <1>2, RollTypeInit, RollTypeStep, PTL DEF Log!Spec

----------------------------------------------------------------------------
(***************************************************************************)
(* The log as the texts T of its files, from the newest, 0, to the oldest. *)
(***************************************************************************)
FileNumbers == 0..m_lastFileNumber

Has(T, r) == \E n \in FileNumbers : \E i \in 1..Len(T[n]) : T[n][i] = r

Ordered(T) ==
    \A n, m \in FileNumbers : \A i \in 1..Len(T[n]), j \in 1..Len(T[m]) :
        (n > m \/ (n = m /\ i < j)) /\ T[n][i] # 0 /\ T[m][j] # 0 => T[n][i] < T[m][j]

HoldsLast(T, last) ==
    /\ Ordered(T)
    /\ \A n \in FileNumbers : \A i \in 1..Len(T[n]) : T[n][i] <= last
    /\ last > 0 => Has(T, last)
    /\ \A r \in 1..last - 1 : Has(T, r) => Has(T, r + 1)

\* Every cell of U is a cell of T, and those of T that U lacks come before one it has.
LEMMA Fewer ==
    ASSUME m_lastFileNumber \in Nat, m_lastFileNumber > 0, NEW last \in Nat,
           NEW T \in [FileNumbers -> Seq(Nat)], NEW U \in [FileNumbers -> Seq(Nat)],
           U[m_lastFileNumber] = << >>, \A n \in FileNumbers : n # m_lastFileNumber => U[n] = T[n],
           HoldsLast(T, last), \E i \in 1..Len(T[0]) : T[0][i] = last
    PROVE  HoldsLast(U, last)
<1>1. ASSUME NEW n \in FileNumbers, NEW i \in 1..Len(U[n])
      PROVE  n # m_lastFileNumber /\ U[n] = T[n] /\ i \in 1..Len(T[n]) /\ n < m_lastFileNumber
    <2>1. n # m_lastFileNumber
        BY <1>1
    <2> QED
        BY <2>1 DEF FileNumbers
<1>2. Ordered(U)
    BY <1>1 DEF HoldsLast, Ordered
<1>3. \A n \in FileNumbers : \A i \in 1..Len(U[n]) : U[n][i] <= last
    BY <1>1 DEF HoldsLast
<1>4. last > 0 => Has(U, last)
    <2>1. 0 \in FileNumbers /\ U[0] = T[0]
        BY DEF FileNumbers
    <2> QED
        BY <2>1 DEF Has
<1>5. ASSUME NEW r \in 1..last - 1, Has(U, r) PROVE Has(U, r + 1)
    <2>1. PICK n \in FileNumbers : \E i \in 1..Len(U[n]) : U[n][i] = r
        BY <1>5 DEF Has
    <2>2. PICK i \in 1..Len(U[n]) : U[n][i] = r
        BY <2>1
    <2>3. n < m_lastFileNumber /\ i \in 1..Len(T[n]) /\ T[n][i] = r
        BY <1>1, <2>2
    <2>4. Has(T, r + 1)
        BY <2>3 DEF HoldsLast, Has
    <2>5. PICK m \in FileNumbers : \E j \in 1..Len(T[m]) : T[m][j] = r + 1
        BY <2>4 DEF Has
    <2>6. PICK j \in 1..Len(T[m]) : T[m][j] = r + 1
        BY <2>5
    <2>7. m # m_lastFileNumber
        <3> SUFFICES ASSUME m > n PROVE FALSE
            BY <2>3
        <3>0. r \in Nat /\ r # 0
            OBVIOUS
        <3>1. r # 0 /\ r + 1 # 0 /\ ~(r + 1 < r)
            BY <3>0
        <3> QED
            BY <2>3, <2>6, <3>1 DEF HoldsLast, Ordered
    <2> QED
        BY <2>6, <2>7 DEF Has
<1> QED
    BY <1>2, <1>3, <1>4, <1>5 DEF HoldsLast

\* A text moves into the empty place before it.
LEMMA Shifted ==
    ASSUME m_lastFileNumber \in Nat, NEW last \in Nat, NEW k \in FileNumbers, k + 1 \in FileNumbers,
           NEW T \in [FileNumbers -> Seq(Nat)], NEW U \in [FileNumbers -> Seq(Nat)],
           T[k + 1] = << >>, U[k + 1] = T[k], U[k] = << >>,
           \A n \in FileNumbers : n # k /\ n # k + 1 => U[n] = T[n],
           HoldsLast(T, last)
    PROVE  HoldsLast(U, last)
<1> DEFINE From(n) == IF n = k + 1 THEN k ELSE n
<1>1. ASSUME NEW n \in FileNumbers, NEW i \in 1..Len(U[n])
      PROVE  n # k /\ From(n) \in FileNumbers /\ U[n] = T[From(n)] /\ i \in 1..Len(T[From(n)])
    <2>1. n # k
        BY <1>1
    <2> QED
        BY <2>1
<1>2. \A r : Has(T, r) <=> Has(U, r)
    <2> SUFFICES ASSUME NEW r PROVE Has(T, r) <=> Has(U, r)
        OBVIOUS
    <2>1. ASSUME Has(U, r) PROVE Has(T, r)
        <3>1. PICK n \in FileNumbers : \E i \in 1..Len(U[n]) : U[n][i] = r
            BY <2>1 DEF Has
        <3>2. PICK i \in 1..Len(U[n]) : U[n][i] = r
            BY <3>1
        <3>3. From(n) \in FileNumbers /\ i \in 1..Len(T[From(n)]) /\ T[From(n)][i] = r
            BY <1>1, <3>2
        <3> HIDE DEF From
        <3> QED
            BY <3>3 DEF Has
    <2>2. ASSUME Has(T, r) PROVE Has(U, r)
        <3>1. PICK n \in FileNumbers : \E i \in 1..Len(T[n]) : T[n][i] = r
            BY <2>2 DEF Has
        <3>2. PICK i \in 1..Len(T[n]) : T[n][i] = r
            BY <3>1
        <3>3. n # k + 1
            BY <3>2
        <3>4. CASE n = k
            BY <3>2, <3>4 DEF Has
        <3>5. CASE n # k
            <4>1. U[n] = T[n]
                BY <3>3, <3>5
            <4> QED
                BY <3>2, <4>1 DEF Has
        <3> QED
            BY <3>4, <3>5
    <2> QED
        BY <2>1, <2>2
<1>3. Ordered(U)
    <2> SUFFICES ASSUME NEW n \in FileNumbers, NEW m \in FileNumbers,
                        NEW i \in 1..Len(U[n]), NEW j \in 1..Len(U[m]),
                        n > m \/ (n = m /\ i < j), U[n][i] # 0, U[m][j] # 0
                 PROVE  U[n][i] < U[m][j]
        BY DEF Ordered
    <2>1. n # k /\ m # k /\ k \in Nat /\ n \in Nat /\ m \in Nat
        BY <1>1 DEF FileNumbers
    <2>2. From(n) > From(m) \/ (From(n) = From(m) /\ i < j)
        <3>1. CASE n > m
            <4>1. CASE n = k + 1
                <5>1. From(n) = k /\ From(m) = m /\ m < k
                    BY <2>1, <3>1, <4>1
                <5> QED
                    BY <2>1, <5>1
            <4>2. CASE n # k + 1 /\ m = k + 1
                <5>1. From(n) = n /\ From(m) = k /\ n > k
                    BY <2>1, <3>1, <4>2
                <5> QED
                    BY <5>1
            <4>3. CASE n # k + 1 /\ m # k + 1
                <5>1. From(n) = n /\ From(m) = m
                    BY <4>3
                <5> QED
                    BY <3>1, <5>1
            <4> QED
                BY <4>1, <4>2, <4>3
        <3>2. CASE n = m /\ i < j
            BY <3>2
        <3> QED
            BY <3>1, <3>2
    <2>3. /\ From(n) \in FileNumbers /\ U[n] = T[From(n)] /\ i \in 1..Len(T[From(n)])
          /\ From(m) \in FileNumbers /\ U[m] = T[From(m)] /\ j \in 1..Len(T[From(m)])
        BY <1>1
    <2> HIDE DEF From
    <2>4. Ordered(T)
        BY DEF HoldsLast
    <2> DEFINE p == From(n)
               q == From(m)
    <2> HIDE DEF p, q
    <2>5. /\ p \in FileNumbers /\ q \in FileNumbers /\ i \in 1..Len(T[p]) /\ j \in 1..Len(T[q])
          /\ p > q \/ (p = q /\ i < j)
          /\ U[n][i] = T[p][i] /\ U[m][j] = T[q][j]
        BY <2>2, <2>3 DEF p, q
    <2>6. T[p][i] # 0 /\ T[q][j] # 0
        BY <2>5
    <2>7. T[p][i] < T[q][j]
        BY <2>4, <2>5, <2>6, Zenon DEF Ordered
    <2> QED
        BY <2>5, <2>7
<1>4. \A n \in FileNumbers : \A i \in 1..Len(U[n]) : U[n][i] <= last
    <2> SUFFICES ASSUME NEW n \in FileNumbers, NEW i \in 1..Len(U[n]) PROVE U[n][i] <= last
        OBVIOUS
    <2>1. From(n) \in FileNumbers /\ U[n] = T[From(n)] /\ i \in 1..Len(T[From(n)])
        BY <1>1
    <2> HIDE DEF From
    <2> QED
        BY <2>1 DEF HoldsLast
<1> QED
    BY <1>2, <1>3, <1>4 DEF HoldsLast

\* The newest text gets a cell at its end.
Extends(U, T, cell) ==
    /\ Len(U[0]) = Len(T[0]) + 1 /\ U[0][Len(T[0]) + 1] = cell
    /\ \A i \in 1..Len(T[0]) : U[0][i] = T[0][i]
    /\ \A n \in FileNumbers : n # 0 => U[n] = T[n]

LEMMA ExtendedHas ==
    ASSUME m_lastFileNumber \in Nat, NEW cell \in Nat,
           NEW T \in [FileNumbers -> Seq(Nat)], NEW U \in [FileNumbers -> Seq(Nat)],
           Extends(U, T, cell)
    PROVE  /\ 0 \in FileNumbers /\ Len(T[0]) \in Nat
           /\ \A n \in FileNumbers : \A i \in 1..Len(U[n]) :
                 \/ i \in 1..Len(T[n]) /\ U[n][i] = T[n][i]
                 \/ n = 0 /\ i = Len(T[0]) + 1 /\ U[n][i] = cell
           /\ \A n \in FileNumbers : \A i \in 1..Len(T[n]) : i \in 1..Len(U[n]) /\ U[n][i] = T[n][i]
           /\ \A r : Has(U, r) <=> Has(T, r) \/ r = cell
<1>1. 0 \in FileNumbers /\ Len(T[0]) \in Nat
    BY DEF FileNumbers
<1>2. ASSUME NEW n \in FileNumbers, NEW i \in 1..Len(U[n])
      PROVE  \/ i \in 1..Len(T[n]) /\ U[n][i] = T[n][i]
             \/ n = 0 /\ i = Len(T[0]) + 1 /\ U[n][i] = cell
    <2>1. CASE n = 0
        BY <1>1, <2>1 DEF Extends
    <2>2. CASE n # 0
        BY <2>2 DEF Extends
    <2> QED
        BY <2>1, <2>2
<1>3. ASSUME NEW n \in FileNumbers, NEW i \in 1..Len(T[n])
      PROVE  i \in 1..Len(U[n]) /\ U[n][i] = T[n][i]
    <2>1. CASE n = 0
        BY <1>1, <2>1 DEF Extends
    <2>2. CASE n # 0
        BY <2>2 DEF Extends
    <2> QED
        BY <2>1, <2>2
<1>4. Len(T[0]) + 1 \in 1..Len(U[0]) /\ U[0][Len(T[0]) + 1] = cell
    BY <1>1 DEF Extends
<1>5. \A r : Has(U, r) <=> Has(T, r) \/ r = cell
    <2> SUFFICES ASSUME NEW r PROVE Has(U, r) <=> Has(T, r) \/ r = cell
        OBVIOUS
    <2>1. ASSUME Has(U, r) PROVE Has(T, r) \/ r = cell
        <3>1. PICK n \in FileNumbers : \E i \in 1..Len(U[n]) : U[n][i] = r
            BY <2>1 DEF Has
        <3>2. PICK i \in 1..Len(U[n]) : U[n][i] = r
            BY <3>1
        <3> QED
            BY <1>2, <3>2 DEF Has
    <2>2. ASSUME Has(T, r) PROVE Has(U, r)
        <3>1. PICK n \in FileNumbers : \E i \in 1..Len(T[n]) : T[n][i] = r
            BY <2>2 DEF Has
        <3>2. PICK i \in 1..Len(T[n]) : T[n][i] = r
            BY <3>1
        <3>3. i \in 1..Len(U[n]) /\ U[n][i] = r
            BY <1>3, <3>2
        <3> QED
            BY <3>3 DEF Has
    <2>3. Has(U, cell)
        BY <1>1, <1>4 DEF Has
    <2> QED
        BY <2>1, <2>2, <2>3
<1> QED
    BY <1>1, <1>2, <1>3, <1>5

\* A header changes nothing; the next record is then the last.
LEMMA Extended ==
    ASSUME m_lastFileNumber \in Nat, NEW last \in Nat, NEW cell \in {0, last + 1},
           NEW next \in Nat, next = IF cell = 0 THEN last ELSE last + 1,
           NEW T \in [FileNumbers -> Seq(Nat)], NEW U \in [FileNumbers -> Seq(Nat)],
           Extends(U, T, cell), HoldsLast(T, last)
    PROVE  HoldsLast(U, next)
<1>0. cell \in Nat
    OBVIOUS
<1>1. /\ 0 \in FileNumbers /\ Len(T[0]) \in Nat
      /\ \A n \in FileNumbers : \A i \in 1..Len(U[n]) :
            \/ i \in 1..Len(T[n]) /\ U[n][i] = T[n][i]
            \/ n = 0 /\ i = Len(T[0]) + 1 /\ U[n][i] = cell
      /\ \A n \in FileNumbers : \A i \in 1..Len(T[n]) : i \in 1..Len(U[n]) /\ U[n][i] = T[n][i]
      /\ \A r : Has(U, r) <=> Has(T, r) \/ r = cell
    BY <1>0, ExtendedHas
<1>2. \A n \in FileNumbers : \A i \in 1..Len(T[n]) : T[n][i] <= last /\ T[n][i] \in Nat
    BY DEF HoldsLast
<1>3. Ordered(U)
    <2> SUFFICES ASSUME NEW n \in FileNumbers, NEW m \in FileNumbers,
                        NEW i \in 1..Len(U[n]), NEW j \in 1..Len(U[m]),
                        n > m \/ (n = m /\ i < j), U[n][i] # 0, U[m][j] # 0
                 PROVE  U[n][i] < U[m][j]
        BY DEF Ordered
    <2>1. i \in 1..Len(T[n]) /\ U[n][i] = T[n][i]
        <3> SUFFICES ASSUME n = 0, i = Len(T[0]) + 1 PROVE FALSE
            BY <1>1
        <3>1. n = m /\ i < j
            BY DEF FileNumbers
        <3>2. Len(U[0]) = Len(T[0]) + 1
            BY DEF Extends
        <3> QED
            BY <1>1, <3>1, <3>2
    <2>2. CASE j \in 1..Len(T[m]) /\ U[m][j] = T[m][j]
        BY <2>1, <2>2 DEF HoldsLast, Ordered
    <2>3. CASE U[m][j] = cell
        BY <1>2, <2>1, <2>3
    <2> QED
        BY <1>1, <2>2, <2>3
<1>4. \A n \in FileNumbers : \A i \in 1..Len(U[n]) : U[n][i] <= next
    <2> SUFFICES ASSUME NEW n \in FileNumbers, NEW i \in 1..Len(U[n]) PROVE U[n][i] <= next
        OBVIOUS
    <2>1. CASE i \in 1..Len(T[n]) /\ U[n][i] = T[n][i]
        <3>1. T[n][i] <= last /\ T[n][i] \in Nat
            BY <1>2, <2>1
        <3> QED
            BY <2>1, <3>1
    <2>2. CASE U[n][i] = cell
        BY <2>2
    <2> QED
        BY <1>1, <2>1, <2>2
<1>5. next > 0 => Has(U, next)
    BY <1>1 DEF HoldsLast
<1>6. ASSUME NEW r \in 1..next - 1, Has(U, r) PROVE Has(U, r + 1)
    <2>1. Has(T, r)
        BY <1>1, <1>6
    <2>2. CASE r \in 1..last - 1
        BY <1>1, <2>1, <2>2 DEF HoldsLast
    <2>3. CASE r = last
        BY <1>1, <2>3
    <2> QED
        BY <2>2, <2>3
<1> QED
    BY <1>3, <1>4, <1>5, <1>6 DEF HoldsLast

----------------------------------------------------------------------------
(***************************************************************************)
(* What the processes do with the log while none overlaps another and no   *)
(* system call fails.                                                      *)
(***************************************************************************)
TextsOf(N, C) == [n \in FileNumbers |-> IF N[n] = 0 THEN << >> ELSE C[N[n]]]

Texts == TextsOf(names, content)

\* The last record is at the end of the first file.
Newest ==
    /\ names[0] # 0 /\ number > 0
    /\ Len(content[names[0]]) > 0 /\ content[names[0]][Len(content[names[0]])] = number

\* A process between two uses of the log, or before its first.
Aloof(q) ==
    /\ proc[q].m_file = 0 /\ proc[q].pc \in {"dead", "idle", "open"}
    /\ proc[q].pc = "open" <=> ~proc[q].m_firstWrite

\* One that has the file of the first name, or is about to roll.
Busy(q) ==
    /\ ~proc[q].m_firstWrite
    /\ proc[q].pc \in {"idle", "unlink", "rename", "header", "write"}
    /\ proc[q].m_file = 0 <=> proc[q].pc \in {"unlink", "rename"}
    /\ proc[q].m_file # 0 => /\ proc[q].m_file = names[0]
                             /\ proc[q].offset = Len(content[names[0]])
    /\ proc[q].pc \in {"idle", "unlink"} => Newest
    /\ proc[q].pc = "rename" => names[proc[q].n + 1] = 0
    /\ proc[q].pc = "header" => content[names[0]] = <<>>

NamesOnce ==
    \A n, m \in FileNumbers : names[n] = names[m] /\ names[n] # 0 => n = m

Alone ==
    /\ NamesOnce
    /\ \A q \in Processes : Aloof(q) \/ Busy(q)
    /\ \A p, q \in Processes : p # q => Aloof(p) \/ Aloof(q)
    /\ HoldsLast(Texts, number)

\* Inductive: what a process knows of the files it writes or moves.
LogInv ==
    /\ RollType
    /\ ~failed /\ ~overlapped => Alone

LEMMA TextsOfIs ==
    ASSUME NEW N \in [FileNumbers -> Log!Files \cup {0}], NEW C \in [Log!Files -> Seq(Nat)]
    PROVE  /\ TextsOf(N, C) \in [FileNumbers -> Seq(Nat)]
           /\ \A n \in FileNumbers : TextsOf(N, C)[n] = IF N[n] = 0 THEN << >> ELSE C[N[n]]
<1>1. \A n \in FileNumbers : TextsOf(N, C)[n] = IF N[n] = 0 THEN << >> ELSE C[N[n]]
    BY DEF TextsOf
<1>2. << >> \in Seq(Nat)
    OBVIOUS
<1>3. ASSUME NEW n \in FileNumbers PROVE (IF N[n] = 0 THEN << >> ELSE C[N[n]]) \in Seq(Nat)
    <2>1. CASE N[n] = 0
        BY <1>2, <2>1, Zenon
    <2>2. CASE N[n] # 0
        <3>1. N[n] \in Log!Files
            BY <2>2
        <3>2. C[N[n]] \in Seq(Nat)
            BY <3>1
        <3> QED
            BY <2>2, <3>2, Zenon
    <2> QED
        BY <2>1, <2>2
<1>4. TextsOf(N, C) \in [FileNumbers -> Seq(Nat)]
    BY <1>3, Zenon DEF TextsOf
<1> QED
    BY <1>1, <1>4

LEMMA TextsAre ==
    ASSUME LogConstants, Log!TypeOK
    PROVE  /\ m_lastFileNumber \in Nat /\ 0 \in FileNumbers /\ DOMAIN names = FileNumbers
           /\ names \in [FileNumbers -> Log!Files \cup {0}] /\ content \in [Log!Files -> Seq(Nat)]
           /\ Texts \in [FileNumbers -> Seq(Nat)]
           /\ \A n \in FileNumbers : Texts[n] = IF names[n] = 0 THEN << >> ELSE content[names[n]]
<1>1. /\ m_lastFileNumber \in Nat /\ 0 \in FileNumbers /\ DOMAIN names = FileNumbers
      /\ names \in [FileNumbers -> Log!Files \cup {0}] /\ content \in [Log!Files -> Seq(Nat)]
    BY LogTypes DEF FileNumbers
<1> QED
    BY <1>1, TextsOfIs DEF Texts

LEMMA KeptIs ==
    ASSUME LogConstants, Log!TypeOK, ~failed /\ ~overlapped => HoldsLast(Texts, number)
    PROVE  KeptIsSuffix
<1> SUFFICES ASSUME HoldsLast(Texts, number)
             PROVE  /\ InOrder
                    /\ \A n \in DOMAIN names : \A i \in 1..Len(Text(n)) : Text(n)[i] <= number
                    /\ number > 0 => IsKept(number)
                    /\ \A record \in 1..number - 1 : IsKept(record) => IsKept(record + 1)
    BY Zenon DEF KeptIsSuffix
<1>1. DOMAIN names = FileNumbers
    BY TextsAre
<1>2. \A n \in FileNumbers : Texts[n] = Text(n)
    BY TextsAre, Zenon DEF Text, None
<1>3. \A r : IsKept(r) <=> Has(Texts, r)
    BY <1>1, <1>2, Zenon DEF IsKept, Has
<1>4. InOrder
    BY <1>1, <1>2 DEF InOrder, HoldsLast, Ordered, Header
<1>5. \A n \in DOMAIN names : \A i \in 1..Len(Text(n)) : Text(n)[i] <= number
    BY <1>1, <1>2 DEF HoldsLast
<1> QED
    BY <1>3, <1>4, <1>5 DEF HoldsLast

\* Who is aloof does not mind what the others do.
LEMMA StaysAloof ==
    ASSUME NEW p, NEW q, q # p, q \in Processes, Aloof(q),
           NEW at, NEW file, NEW offset, NEW first, NEW k, Moves(p, at, file, offset, first, k)
    PROVE  Aloof(q)'
<1>1. proc'[q] = proc[q]
    BY DEF Moves
<1> QED
    BY <1>1 DEF Aloof

LEMMA OthersAloof ==
    ASSUME Alone, NEW p \in Processes, ~Aloof(p)
    PROVE  Busy(p) /\ \A q \in Processes : q # p => Aloof(q)
BY DEF Alone

\* A step of p while the others are aloof.
LEMMA MovesAlone ==
    ASSUME NEW p \in Processes, \A q \in Processes : q # p => Aloof(q),
           NEW at, NEW file, NEW offset, NEW first, NEW k, Moves(p, at, file, offset, first, k),
           NamesOnce', HoldsLast(Texts, number)', Aloof(p)' \/ Busy(p)'
    PROVE  Alone'
<1>1. \A q \in Processes : q # p => Aloof(q)'
    BY StaysAloof
<1> QED
    BY <1>1, Zenon DEF Alone

\* A step of p that leaves the log and stays away from it.
LEMMA MovesAloof ==
    ASSUME Alone, NEW p \in Processes, Unchanged,
           NEW at, NEW file, NEW offset, NEW first, NEW k, Moves(p, at, file, offset, first, k),
           Aloof(p)'
    PROVE  Alone'
<1>1. \A q \in Processes : q # p => proc'[q] = proc[q]
    BY DEF Moves
<1>2. \A q \in Processes : q # p => (Aloof(q)' <=> Aloof(q))
    BY <1>1 DEF Aloof
<1>3. Newest' <=> Newest
    BY DEF Newest, Unchanged
<1>4. \A q \in Processes : q # p => (Busy(q)' <=> Busy(q))
    BY <1>1, <1>3 DEF Busy, Unchanged
<1>5. NamesOnce' /\ HoldsLast(Texts, number)'
    <2>1. Texts' = Texts
        BY Zenon DEF Texts, Unchanged
    <2> QED
        BY <2>1 DEF Alone, NamesOnce, HoldsLast, Ordered, Has, Unchanged
<1> QED
    BY <1>2, <1>4, <1>5, Zenon DEF Alone

\* The steps, one by one.
LEMMA StartAlone ==
    ASSUME LogConstants, RollType, Alone, NEW p \in Processes, Log!Start(p) PROVE Alone'
<1>1. /\ Unchanged /\ proc[p].pc = "dead"
      /\ Moves(p, "idle", proc[p].m_file, proc[p].offset, proc[p].m_firstWrite, proc[p].n)
    BY StartIs
<1>2. Aloof(p)
    BY <1>1 DEF Alone, Busy
<1>3. Aloof(p)'
    BY <1>1, <1>2 DEF Aloof, Moves
<1> QED
    BY <1>1, <1>3, MovesAloof

LEMMA DieAlone ==
    ASSUME LogConstants, RollType, Alone, NEW p \in Processes, Log!Die(p) PROVE Alone'
<1>1. Unchanged /\ Moves(p, "dead", 0, 0, TRUE, 0)
    BY DieIs
<1>2. Aloof(p)'
    BY <1>1 DEF Aloof, Moves
<1>3. PICK first : first = TRUE
    OBVIOUS
<1>4. Moves(p, "dead", 0, 0, first, 0)
    BY <1>1, <1>3, Zenon
<1> QED
    BY <1>1, <1>2, <1>4, MovesAloof

LEMMA WriteAlone ==
    ASSUME LogConstants, RollType, Alone, NEW p \in Processes, Log!Write(p) PROVE Alone'
<1>1. /\ Unchanged /\ proc[p].pc = "idle"
      /\ \/ /\ proc[p].m_firstWrite
            /\ Moves(p, "open", proc[p].m_file, proc[p].offset, FALSE, proc[p].n)
         \/ /\ ~proc[p].m_firstWrite /\ m_lastFileNumber > 0
            /\ Moves(p, "unlink", 0, proc[p].offset, FALSE, proc[p].n)
         \/ /\ ~proc[p].m_firstWrite
            /\ Moves(p, "write", proc[p].m_file, proc[p].offset, FALSE, proc[p].n)
    BY WriteIs
<1>2. PICK first : first = FALSE
    OBVIOUS
<1>3. NamesOnce' /\ HoldsLast(Texts, number)' /\ (Newest' <=> Newest)
    <2>1. Texts' = Texts
        BY <1>1, Zenon DEF Texts, Unchanged
    <2> QED
        BY <1>1, <2>1 DEF Alone, NamesOnce, HoldsLast, Ordered, Has, Unchanged, Newest
<1>4. CASE /\ proc[p].m_firstWrite
           /\ Moves(p, "open", proc[p].m_file, proc[p].offset, FALSE, proc[p].n)
    <2>1. Aloof(p)
        BY <1>4 DEF Alone, Busy
    <2>2. Aloof(p)'
        BY <1>4, <2>1 DEF Aloof, Moves
    <2>3. Moves(p, "open", proc[p].m_file, proc[p].offset, first, proc[p].n)
        BY <1>2, <1>4, Zenon
    <2> QED
        BY <1>1, <2>2, <2>3, MovesAloof
<1>5. CASE /\ ~proc[p].m_firstWrite
           /\ Moves(p, "unlink", 0, proc[p].offset, FALSE, proc[p].n)
    <2>1. ~Aloof(p)
        BY <1>1, <1>5 DEF Aloof
    <2>2. Busy(p) /\ \A q \in Processes : q # p => Aloof(q)
        BY <2>1, OthersAloof
    <2>3. Busy(p)'
        BY <1>1, <1>3, <1>5, <2>2 DEF Busy, Moves, Unchanged
    <2>4. Moves(p, "unlink", 0, proc[p].offset, first, proc[p].n)
        BY <1>2, <1>5, Zenon
    <2> QED
        BY <1>3, <2>2, <2>3, <2>4, MovesAlone
<1>6. CASE /\ ~proc[p].m_firstWrite
           /\ Moves(p, "write", proc[p].m_file, proc[p].offset, FALSE, proc[p].n)
    <2>1. ~Aloof(p)
        BY <1>1, <1>6 DEF Aloof
    <2>2. Busy(p) /\ \A q \in Processes : q # p => Aloof(q)
        BY <2>1, OthersAloof
    <2>3. Busy(p)'
        BY <1>1, <1>3, <1>6, <2>2 DEF Busy, Moves, Unchanged
    <2>4. Moves(p, "write", proc[p].m_file, proc[p].offset, first, proc[p].n)
        BY <1>2, <1>6, Zenon
    <2> QED
        BY <1>3, <2>2, <2>3, <2>4, MovesAlone
<1> QED
    BY <1>1, <1>4, <1>5, <1>6, Zenon

LEMMA UnlinkAlone ==
    ASSUME LogConstants, RollType, Alone, NEW p \in Processes, Log!Unlink(p) PROVE Alone'
<1> DEFINE L == m_lastFileNumber
<1>1. /\ content' = content /\ number' = number /\ names' = [names EXCEPT ![L] = 0]
      /\ proc[p].pc = "unlink" /\ L > 0
      /\ Moves(p, "rename", proc[p].m_file, proc[p].offset, proc[p].m_firstWrite, L - 1)
    BY UnlinkIs
<1>2. /\ L \in Nat /\ number \in Nat /\ 0 \in FileNumbers /\ L \in FileNumbers
      /\ names \in [FileNumbers -> Log!Files \cup {0}] /\ content \in [Log!Files -> Seq(Nat)]
      /\ Texts \in [FileNumbers -> Seq(Nat)]
      /\ \A n \in FileNumbers : Texts[n] = IF names[n] = 0 THEN << >> ELSE content[names[n]]
    BY TextsAre, LogTypes DEF RollType, FileNumbers
<1>3. Busy(p) /\ \A q \in Processes : q # p => Aloof(q)
    BY <1>1, OthersAloof DEF Aloof
<1>4. /\ names' \in [FileNumbers -> Log!Files \cup {0}] /\ names'[L] = 0
      /\ \A n \in FileNumbers : n # L => names'[n] = names[n]
    BY <1>1, <1>2
<1>5. NamesOnce'
    BY <1>4 DEF Alone, NamesOnce
<1>6. Busy(p)'
    <2>1. proc[p].m_file = 0 /\ ~proc[p].m_firstWrite
        BY <1>1, <1>3 DEF Busy
    <2>2. /\ proc'[p].pc = "rename" /\ proc'[p].m_file = 0 /\ ~proc'[p].m_firstWrite
          /\ proc'[p].n = L - 1
        BY <1>1, <2>1 DEF Moves
    <2>3. names'[proc'[p].n + 1] = 0
        BY <1>2, <1>4, <2>2
    <2> QED
        BY <2>2, <2>3 DEF Busy
<1>7. HoldsLast(Texts, number)'
    <2>1. PICK U : U = Texts'
        OBVIOUS
    <2>2. /\ U \in [FileNumbers -> Seq(Nat)]
          /\ \A n \in FileNumbers : U[n] = IF names'[n] = 0 THEN << >> ELSE content[names'[n]]
        <3>1. PICK N : N = names'
            OBVIOUS
        <3>2. U = TextsOf(N, content) /\ N \in [FileNumbers -> Log!Files \cup {0}]
            BY <1>1, <1>4, <2>1, <3>1 DEF Texts
        <3> QED
            BY <1>2, <3>1, <3>2, TextsOfIs
    <2>3. U[L] = << >> /\ \A n \in FileNumbers : n # L => U[n] = Texts[n]
        BY <1>2, <1>4, <2>2
    <2>4. \E i \in 1..Len(Texts[0]) : Texts[0][i] = number
        <3>1. Newest
            BY <1>1, <1>3 DEF Busy
        <3>2. Texts[0] = content[names[0]] /\ Texts[0] \in Seq(Nat) /\ Len(Texts[0]) > 0
              /\ Texts[0][Len(Texts[0])] = number
            BY <1>2, <3>1 DEF Newest
        <3>3. Len(Texts[0]) \in 1..Len(Texts[0])
            BY <3>2
        <3> QED
            BY <3>2, <3>3
    <2>5. HoldsLast(Texts, number)
        BY DEF Alone
    <2>6. HoldsLast(U, number)
        BY <1>1, <1>2, <2>2, <2>3, <2>4, <2>5, Fewer
    <2>7. number' = number
        BY <1>1
    <2> QED
        BY <2>1, <2>6, <2>7 DEF HoldsLast, Ordered, Has
<1> QED
    BY <1>1, <1>3, <1>5, <1>6, <1>7, MovesAlone

LEMMA RenameAlone ==
    ASSUME LogConstants, RollType, Alone, NEW p \in Processes, Log!Rename(p), ~failed' PROVE Alone'
<1> DEFINE k == proc[p].n
<1>1. /\ content' = content /\ number' = number
      /\ proc[p].pc = "rename" /\ m_lastFileNumber > 0 /\ k < m_lastFileNumber
      /\ \/ names[k] = 0 /\ names' = names
         \/ names[k] # 0 /\ names' = [names EXCEPT ![k + 1] = names[k], ![k] = 0]
      /\ \/ /\ k = 0
            /\ Moves(p, "open", proc[p].m_file, proc[p].offset, proc[p].m_firstWrite, 0)
         \/ /\ k # 0
            /\ Moves(p, "rename", proc[p].m_file, proc[p].offset, proc[p].m_firstWrite, k - 1)
    BY RenameIs
<1>2. /\ m_lastFileNumber \in Nat /\ number \in Nat /\ k \in Nat
      /\ names \in [FileNumbers -> Log!Files \cup {0}] /\ content \in [Log!Files -> Seq(Nat)]
      /\ Texts \in [FileNumbers -> Seq(Nat)]
      /\ \A n \in FileNumbers : Texts[n] = IF names[n] = 0 THEN << >> ELSE content[names[n]]
    BY TextsAre, LogTypes DEF RollType
<1>3. Busy(p) /\ \A q \in Processes : q # p => Aloof(q)
    BY <1>1, OthersAloof DEF Aloof
<1>4. k \in FileNumbers /\ k + 1 \in FileNumbers /\ k # k + 1 /\ names[k + 1] = 0
    <2>1. names[k + 1] = 0
        BY <1>1, <1>3 DEF Busy
    <2>2. k \in FileNumbers /\ k + 1 \in FileNumbers /\ k # k + 1
        <3> HIDE DEF k
        <3> QED
            BY <1>1, <1>2 DEF FileNumbers
    <2> QED
        BY <2>1, <2>2
<1>5. /\ proc[p].m_file = 0 /\ ~proc[p].m_firstWrite
    BY <1>1, <1>3 DEF Busy
<1>6. names'[k] = 0
    <2>1. CASE names[k] = 0 /\ names' = names
        BY <2>1
    <2>2. CASE names' = [names EXCEPT ![k + 1] = names[k], ![k] = 0]
        BY <1>2, <1>4, <2>2
    <2> QED
        BY <1>1, <2>1, <2>2
<1>7. NamesOnce' /\ HoldsLast(Texts, number)'
    <2>1. CASE names[k] = 0 /\ names' = names
        <3>1. Texts' = Texts
            BY <1>1, <2>1, Zenon DEF Texts
        <3> QED
            BY <1>1, <2>1, <3>1 DEF Alone, NamesOnce, HoldsLast, Ordered, Has
    <2>2. CASE names' = [names EXCEPT ![k + 1] = names[k], ![k] = 0]
        <3>1. /\ names' \in [FileNumbers -> Log!Files \cup {0}]
              /\ names'[k + 1] = names[k] /\ names'[k] = 0
              /\ \A n \in FileNumbers : n # k /\ n # k + 1 => names'[n] = names[n]
            BY <1>2, <1>4, <2>2
        <3>2. NamesOnce'
            BY <1>4, <3>1 DEF Alone, NamesOnce
        <3>3. PICK U : U = Texts'
            OBVIOUS
        <3>4. /\ U \in [FileNumbers -> Seq(Nat)]
              /\ \A n \in FileNumbers : U[n] = IF names'[n] = 0 THEN << >> ELSE content[names'[n]]
            <4>1. PICK N : N = names'
                OBVIOUS
            <4>2. U = TextsOf(N, content) /\ N \in [FileNumbers -> Log!Files \cup {0}]
                BY <1>1, <3>1, <3>3, <4>1 DEF Texts
            <4> QED
                BY <1>2, <4>1, <4>2, TextsOfIs
        <3>5. /\ Texts[k + 1] = << >> /\ U[k + 1] = Texts[k] /\ U[k] = << >>
              /\ \A n \in FileNumbers : n # k /\ n # k + 1 => U[n] = Texts[n]
            <4> HIDE DEF k
            <4>1. Texts[k + 1] = << >>
                BY <1>2, <1>4, Zenon
            <4>2. U[k + 1] = Texts[k]
                BY <1>2, <1>4, <3>1, <3>4, Zenon
            <4>3. U[k] = << >>
                BY <1>4, <3>1, <3>4, Zenon
            <4>4. ASSUME NEW n \in FileNumbers, n # k /\ n # k + 1 PROVE U[n] = Texts[n]
                <5>1. names'[n] = names[n]
                    BY <3>1, <4>4, Zenon
                <5>2. U[n] = IF names[n] = 0 THEN << >> ELSE content[names[n]]
                    BY <3>4, <5>1, Zenon
                <5>3. Texts[n] = IF names[n] = 0 THEN << >> ELSE content[names[n]]
                    BY <1>2, Zenon
                <5> QED
                    BY <5>2, <5>3, Zenon
            <4> QED
                BY <4>1, <4>2, <4>3, <4>4
        <3>6. HoldsLast(Texts, number)
            BY DEF Alone
        <3>7. HoldsLast(U, number)
            BY <1>2, <1>4, <3>4, <3>5, <3>6, Shifted
        <3>8. number' = number
            BY <1>1
        <3> QED
            BY <3>2, <3>3, <3>7, <3>8 DEF HoldsLast, Ordered, Has
    <2> QED
        BY <1>1, <2>1, <2>2
<1>8. CASE /\ k = 0
           /\ Moves(p, "open", proc[p].m_file, proc[p].offset, proc[p].m_firstWrite, 0)
    <2>1. Aloof(p)'
        BY <1>5, <1>8 DEF Aloof, Moves
    <2> QED
        BY <1>3, <1>7, <1>8, <2>1, MovesAlone
<1>9. CASE /\ k # 0
           /\ Moves(p, "rename", proc[p].m_file, proc[p].offset, proc[p].m_firstWrite, k - 1)
    <2>1. /\ proc'[p].pc = "rename" /\ proc'[p].m_file = 0 /\ ~proc'[p].m_firstWrite
          /\ proc'[p].n = k - 1
        BY <1>5, <1>9 DEF Moves
    <2>2. proc'[p].n + 1 = k
        BY <1>2, <2>1
    <2>3. Busy(p)'
        BY <1>6, <2>1, <2>2 DEF Busy
    <2> QED
        BY <1>3, <1>7, <1>9, <2>3, MovesAlone
<1> QED
    BY <1>1, <1>8, <1>9

\* Where only one process writes, it writes at the end of the first file.
LEMMA Appended ==
    ASSUME LogConstants, RollType, Alone, NEW p \in Processes, Busy(p), proc[p].m_file # 0,
           NEW cell \in {0, number + 1}, NEW next \in Nat,
           next = IF cell = 0 THEN number ELSE number + 1, NEW g,
           Overwrites(g, content[proc[p].m_file], proc[p].offset, cell),
           content' = [content EXCEPT ![proc[p].m_file] = g],
           names' = names, number' = next
    PROVE  /\ NamesOnce' /\ HoldsLast(Texts, number)'
           /\ proc[p].m_file = names[0] /\ names[0] # 0 /\ proc[p].offset \in Nat
           /\ content'[names[0]] = g /\ Len(g) = proc[p].offset + 1
<1> DEFINE f == names[0]
<1>1. /\ m_lastFileNumber \in Nat /\ number \in Nat /\ 0 \in FileNumbers /\ proc[p].offset \in Nat
      /\ names \in [FileNumbers -> Log!Files \cup {0}] /\ content \in [Log!Files -> Seq(Nat)]
      /\ Texts \in [FileNumbers -> Seq(Nat)]
      /\ \A n \in FileNumbers : Texts[n] = IF names[n] = 0 THEN << >> ELSE content[names[n]]
    BY TextsAre, LogTypes DEF RollType
<1>2. /\ proc[p].m_file = f /\ f # 0 /\ f \in Log!Files /\ proc[p].offset = Len(content[f])
    BY <1>1 DEF Busy
<1>3. /\ g \in Seq(Nat) /\ Len(g) = Len(content[f]) + 1 /\ g[Len(content[f]) + 1] = cell
      /\ \A i \in 1..Len(content[f]) : g[i] = content[f][i]
    <2>1. PICK off : off = Len(content[f])
        OBVIOUS
    <2>2. Overwrites(g, content[f], off, cell) /\ off \in Nat
        BY <1>1, <1>2, <2>1
    <2>3. /\ g \in Seq(Nat) /\ Len(g) = IF off < off THEN off ELSE off + 1
          /\ g[off + 1] = cell /\ \A i \in 1..off : i # off + 1 => g[i] = content[f][i]
        BY <2>1, <2>2, Zenon DEF Overwrites
    <2>4. Len(g) = off + 1 /\ \A i \in 1..off : i # off + 1
        BY <2>2, <2>3
    <2>5. \A i \in 1..off : g[i] = content[f][i]
        BY <2>3, <2>4, Zenon
    <2> QED
        BY <2>1, <2>3, <2>4, <2>5, Zenon
<1>4. /\ content' \in [Log!Files -> Seq(Nat)] /\ content'[f] = g
      /\ \A h \in Log!Files : h # f => content'[h] = content[h]
    BY <1>1, <1>2, <1>3
<1>5. NamesOnce'
    BY DEF Alone, NamesOnce
<1>6. HoldsLast(Texts, number)'
    <2>1. PICK U : U = Texts'
        OBVIOUS
    <2>2. /\ U \in [FileNumbers -> Seq(Nat)]
          /\ \A n \in FileNumbers : U[n] = IF names[n] = 0 THEN << >> ELSE content'[names[n]]
        <3>1. PICK C : C = content'
            OBVIOUS
        <3>2. U = TextsOf(names, C) /\ C \in [Log!Files -> Seq(Nat)]
            BY <1>4, <2>1, <3>1 DEF Texts
        <3>3. /\ U \in [FileNumbers -> Seq(Nat)]
              /\ \A n \in FileNumbers : U[n] = IF names[n] = 0 THEN << >> ELSE C[names[n]]
            BY <1>1, <3>2, TextsOfIs
        <3> QED
            BY <3>1, <3>3, Zenon
    <2>3. U[0] = g /\ Texts[0] = content[f]
        BY <1>1, <1>2, <1>4, <2>2
    <2>4. ASSUME NEW n \in FileNumbers, n # 0 PROVE U[n] = Texts[n]
        <3>1. CASE names[n] = 0
            BY <1>1, <2>2, <3>1
        <3>2. CASE names[n] # 0
            <4>1. names[n] # f
                BY <1>1, <2>4, <3>2 DEF Alone, NamesOnce
            <4>2. names[n] \in Log!Files
                BY <1>1, <3>2
            <4>3. content'[names[n]] = content[names[n]]
                BY <1>4, <4>1, <4>2
            <4> QED
                BY <1>1, <2>2, <3>2, <4>3
        <3> QED
            BY <3>1, <3>2
    <2>5. Extends(U, Texts, cell)
        BY <1>3, <2>3, <2>4 DEF Extends
    <2>6. HoldsLast(Texts, number)
        BY DEF Alone
    <2>7. HoldsLast(U, next)
        BY <1>1, <2>2, <2>5, <2>6, Extended
    <2> QED
        BY <2>1, <2>7 DEF HoldsLast, Ordered, Has
<1> QED
    BY <1>1, <1>2, <1>3, <1>4, <1>5, <1>6

LEMMA WriteHeaderAlone ==
    ASSUME LogConstants, RollType, Alone, NEW p \in Processes, Log!WriteHeader(p) PROVE Alone'
<1>1. /\ names' = names /\ number' = number
      /\ proc[p].pc = "header" /\ proc[p].m_file \in Log!Files
      /\ Moves(p, "write", proc[p].m_file, proc[p].offset + 1, proc[p].m_firstWrite, proc[p].n)
    BY WriteHeaderIs
<1>2. PICK g : /\ Overwrites(g, content[proc[p].m_file], proc[p].offset, 0)
               /\ content' = [content EXCEPT ![proc[p].m_file] = g]
    BY WriteHeaderIs
<1>3. Busy(p) /\ \A q \in Processes : q # p => Aloof(q)
    BY <1>1, OthersAloof DEF Aloof
<1>4. number \in Nat /\ proc[p].m_file # 0
    BY <1>1, LogTypes DEF RollType
<1>5. /\ NamesOnce' /\ HoldsLast(Texts, number)'
      /\ proc[p].m_file = names[0] /\ names[0] # 0 /\ proc[p].offset \in Nat
      /\ content'[names[0]] = g /\ Len(g) = proc[p].offset + 1
    <2>1. PICK cell : cell = 0
        OBVIOUS
    <2>2. PICK next : next = number
        OBVIOUS
    <2>3. /\ cell \in {0, number + 1} /\ next \in Nat /\ number' = next
          /\ next = IF cell = 0 THEN number ELSE number + 1
          /\ Overwrites(g, content[proc[p].m_file], proc[p].offset, cell)
        BY <1>1, <1>2, <1>4, <2>1, <2>2
    <2> QED
        BY <1>1, <1>2, <1>3, <1>4, <2>3, Appended
<1>6. Busy(p)'
    <2>1. /\ proc'[p].pc = "write" /\ proc'[p].m_file = names[0] /\ ~proc'[p].m_firstWrite
          /\ proc'[p].offset = proc[p].offset + 1
        BY <1>1, <1>3, <1>5 DEF Moves, Busy
    <2> QED
        BY <1>1, <1>5, <2>1 DEF Busy
<1> QED
    BY <1>1, <1>3, <1>5, <1>6, MovesAlone

LEMMA WriteRecordAlone ==
    ASSUME LogConstants, RollType, Alone, NEW p \in Processes, Log!WriteRecord(p) PROVE Alone'
<1>1. /\ names' = names /\ number' = number + 1 /\ proc[p].pc = "write"
    BY WriteRecordIs
<1>2. Busy(p) /\ \A q \in Processes : q # p => Aloof(q)
    BY <1>1, OthersAloof DEF Aloof
<1>3. number \in Nat /\ proc[p].m_file # 0
    BY <1>1, <1>2, LogTypes DEF RollType, Busy
<1>4. Moves(p, "idle", proc[p].m_file, proc[p].offset + 1, proc[p].m_firstWrite, proc[p].n)
    BY <1>3, WriteRecordIs
<1>5. PICK g : /\ Overwrites(g, content[proc[p].m_file], proc[p].offset, number + 1)
               /\ content' = [content EXCEPT ![proc[p].m_file] = g]
    BY <1>3, WriteRecordIs
<1>6. /\ NamesOnce' /\ HoldsLast(Texts, number)'
      /\ proc[p].m_file = names[0] /\ names[0] # 0 /\ proc[p].offset \in Nat
      /\ content'[names[0]] = g /\ Len(g) = proc[p].offset + 1
      /\ g[proc[p].offset + 1] = number + 1
    <2>1. PICK cell : cell = number + 1
        OBVIOUS
    <2>2. PICK next : next = number + 1
        OBVIOUS
    <2>3. /\ cell \in {0, number + 1} /\ next \in Nat /\ number' = next
          /\ next = IF cell = 0 THEN number ELSE number + 1
          /\ Overwrites(g, content[proc[p].m_file], proc[p].offset, cell)
          /\ content' = [content EXCEPT ![proc[p].m_file] = g] /\ names' = names
          /\ Busy(p) /\ proc[p].m_file # 0
        BY <1>1, <1>2, <1>3, <1>5, <2>1, <2>2
    <2>4. /\ NamesOnce' /\ HoldsLast(Texts, number)'
          /\ proc[p].m_file = names[0] /\ names[0] # 0 /\ proc[p].offset \in Nat
          /\ content'[names[0]] = g /\ Len(g) = proc[p].offset + 1
        BY <2>3, Appended
    <2>5. g[proc[p].offset + 1] = number + 1
        BY <1>5 DEF Overwrites
    <2> QED
        BY <2>4, <2>5
<1>7. Busy(p)'
    <2>1. /\ proc'[p].pc = "idle" /\ proc'[p].m_file = names[0] /\ ~proc'[p].m_firstWrite
          /\ proc'[p].offset = proc[p].offset + 1
        BY <1>2, <1>4, <1>6 DEF Moves, Busy
    <2>2. Newest'
        BY <1>1, <1>3, <1>6 DEF Newest
    <2> QED
        BY <1>1, <1>6, <2>1, <2>2 DEF Busy
<1> QED
    BY <1>2, <1>4, <1>6, <1>7, MovesAlone

LEMMA OpenAlone ==
    ASSUME LogConstants, RollType, Alone, NEW p \in Processes, Log!OpenLogFile(p), ~overlapped'
    PROVE  Alone'
<1>1. /\ number' = number /\ proc[p].pc = "open"
      /\ \A q \in Processes : q # p => proc[q].pc \in {"dead", "idle"} /\ proc[q].m_file = 0
    BY OpenIs
<1>2. PICK f, size : /\ Opens(f, size)
                     /\ Moves(p, IF size = 0 THEN "header" ELSE "write", f, size,
                              proc[p].m_firstWrite, proc[p].n)
    BY OpenIs
<1>3. /\ m_lastFileNumber \in Nat /\ number \in Nat /\ 0 \in FileNumbers
      /\ names \in [FileNumbers -> Log!Files \cup {0}] /\ content \in [Log!Files -> Seq(Nat)]
      /\ Texts \in [FileNumbers -> Seq(Nat)] /\ DOMAIN names = FileNumbers /\ 0 \notin Log!Files
      /\ \A n \in FileNumbers : Texts[n] = IF names[n] = 0 THEN << >> ELSE content[names[n]]
    BY TextsAre, LogTypes DEF RollType
<1>4. \A q \in Processes : q # p => Aloof(q)
    BY <1>1 DEF Alone, Busy, Aloof
<1>5. Aloof(p)
    BY <1>1 DEF Alone, Busy
<1>6. /\ f \in Log!Files /\ f # 0 /\ size \in Nat /\ names' = [names EXCEPT ![0] = f]
      /\ names[0] # 0 => f = names[0] /\ content' = content /\ size = Len(content[f])
      /\ names[0] = 0 => Unheld(f) /\ size = 0 /\ content' = [content EXCEPT ![f] = << >>]
    BY <1>2, <1>3 DEF Opens
<1>7. /\ names' \in [FileNumbers -> Log!Files \cup {0}] /\ names'[0] = f
      /\ \A n \in FileNumbers : n # 0 => names'[n] = names[n]
    BY <1>3, <1>6
<1>8. /\ content' \in [Log!Files -> Seq(Nat)] /\ size = Len(content'[f])
      /\ names[0] = 0 => content'[f] = << >>
      /\ \A h \in Log!Files : h # f => content'[h] = content[h]
      /\ names[0] # 0 => content' = content
    <2>1. CASE names[0] # 0
        BY <1>3, <1>6, <2>1
    <2>2. CASE names[0] = 0
        <3>1. PICK e : e = << >>
            OBVIOUS
        <3>2. e \in Seq(Nat) /\ Len(e) = 0
            BY <3>1
        <3>3. content' = [content EXCEPT ![f] = e] /\ size = 0
            BY <1>6, <2>2, <3>1, Zenon
        <3>4. /\ content' \in [Log!Files -> Seq(Nat)] /\ content'[f] = e
              /\ \A h \in Log!Files : h # f => content'[h] = content[h]
            BY <1>3, <1>6, <3>2, <3>3
        <3> QED
            BY <2>2, <3>1, <3>2, <3>3, <3>4, Zenon
    <2> QED
        BY <2>1, <2>2
<1>9. \A n \in FileNumbers : n # 0 => names[n] # f
    <2>1. CASE names[0] = 0
        BY <1>3, <1>6, <2>1 DEF Unheld
    <2>2. CASE names[0] # 0
        BY <1>3, <1>6, <2>2 DEF Alone, NamesOnce
    <2> QED
        BY <2>1, <2>2
<1>10. NamesOnce'
    BY <1>7, <1>9 DEF Alone, NamesOnce
<1>11. HoldsLast(Texts, number)'
    <2>1. PICK N : N = names'
        OBVIOUS
    <2>2. PICK C : C = content'
        OBVIOUS
    <2>3. Texts' = TextsOf(N, C)
        BY <2>1, <2>2, Zenon DEF Texts
    <2>4. N \in [FileNumbers -> Log!Files \cup {0}] /\ C \in [Log!Files -> Seq(Nat)]
        BY <1>7, <1>8, <2>1, <2>2, Zenon
    <2>5. /\ TextsOf(N, C) \in [FileNumbers -> Seq(Nat)]
          /\ \A n \in FileNumbers : TextsOf(N, C)[n] = IF N[n] = 0 THEN << >> ELSE C[N[n]]
        BY <2>4, TextsOfIs
    <2>6. ASSUME NEW n \in FileNumbers PROVE TextsOf(N, C)[n] = Texts[n]
        <3>1. CASE n = 0
            <4>1. TextsOf(N, C)[0] = C[f]
                BY <1>3, <1>6, <1>7, <2>1, <2>5, Zenon
            <4>2. CASE names[0] = 0
                BY <1>3, <1>8, <2>2, <3>1, <4>1, <4>2, Zenon
            <4>3. CASE names[0] # 0
                BY <1>3, <1>6, <1>8, <2>2, <3>1, <4>1, <4>3, Zenon
            <4> QED
                BY <4>2, <4>3
        <3>2. CASE n # 0
            <4>1. N[n] = names[n] /\ names[n] # f
                BY <1>7, <1>9, <2>1, <3>2, Zenon
            <4>2. CASE names[n] = 0
                BY <1>3, <2>5, <4>1, <4>2, Zenon
            <4>3. CASE names[n] # 0
                <5>1. names[n] \in Log!Files
                    BY <1>3, <4>3
                <5>2. C[names[n]] = content[names[n]]
                    BY <1>8, <2>2, <4>1, <5>1, Zenon
                <5> QED
                    BY <1>3, <2>5, <4>1, <4>3, <5>2, Zenon
            <4> QED
                BY <4>2, <4>3
        <3> QED
            BY <3>1, <3>2
    <2>7. TextsOf(N, C) = Texts
        <3>1. PICK U : U = TextsOf(N, C)
            OBVIOUS
        <3>2. U \in [FileNumbers -> Seq(Nat)] /\ \A n \in FileNumbers : U[n] = Texts[n]
            BY <2>5, <2>6, <3>1, Zenon
        <3>3. U = Texts
            BY <1>3, <3>2
        <3> QED
            BY <3>1, <3>3
    <2>8. Texts' = Texts /\ HoldsLast(Texts, number)
        BY <2>3, <2>7, Zenon DEF Alone
    <2> QED
        BY <1>1, <2>8 DEF HoldsLast, Ordered, Has
<1>12. Busy(p)'
    <2>1. /\ proc'[p].pc \in {"header", "write"}
          /\ proc'[p].pc = "header" => size = 0
        BY <1>2 DEF Moves
    <2>2. proc'[p].m_file = f /\ proc'[p].offset = size /\ ~proc'[p].m_firstWrite
        BY <1>1, <1>2, <1>5 DEF Moves, Aloof
    <2>3. content'[f] \in Seq(Nat)
        BY <1>6, <1>8
    <2>4. size = 0 => content'[f] = << >>
        <3>1. PICK c : c = content'[f]
            OBVIOUS
        <3>2. c \in Seq(Nat) /\ size = Len(c)
            BY <1>8, <2>3, <3>1
        <3>3. size = 0 => c = << >>
            BY <3>2, EmptySeq
        <3> QED
            BY <3>1, <3>3
    <2>5. names'[0] = f /\ size = Len(content'[f]) /\ f # 0
        BY <1>6, <1>7, <1>8
    <2>6. proc'[p].m_file # 0 /\ proc'[p].m_file = names'[0]
          /\ proc'[p].offset = Len(content'[names'[0]])
        BY <2>2, <2>5
    <2>7. proc'[p].pc = "header" => content'[names'[0]] = << >>
        BY <2>1, <2>4, <2>5
    <2>8. proc'[p].pc \in {"idle", "unlink", "rename", "header", "write"}
          /\ proc'[p].pc \notin {"idle", "unlink", "rename"}
        BY <2>1
    <2> QED
        BY <2>2, <2>6, <2>7, <2>8 DEF Busy
<1> QED
    <2>1. PICK at : at = IF size = 0 THEN "header" ELSE "write"
        OBVIOUS
    <2>2. Moves(p, at, f, size, proc[p].m_firstWrite, proc[p].n)
        BY <1>2, <2>1
    <2> QED
        BY <1>4, <1>10, <1>11, <1>12, <2>2, MovesAlone

LEMMA LogInvInit == LogConstants /\ Log!Init => LogInv
<1> SUFFICES ASSUME LogConstants, Log!Init PROVE LogInv
    OBVIOUS
<1>1. RollType
    BY RollTypeInit
<1>2. /\ m_lastFileNumber \in Nat /\ number \in Nat /\ Texts \in [FileNumbers -> Seq(Nat)]
      /\ \A n \in FileNumbers : Texts[n] = IF names[n] = 0 THEN << >> ELSE content[names[n]]
    BY <1>1, TextsAre, LogTypes DEF RollType
<1>3. (\A n \in FileNumbers : names[n] = 0) /\ number = 0
    BY DEF Log!Init, FileNumbers, Log!None
<1>4. \A n \in FileNumbers : Texts[n] = << >>
    BY <1>2, <1>3, Zenon
<1>5. \A n \in FileNumbers : 1..Len(Texts[n]) = {}
    BY <1>4
<1>6. HoldsLast(Texts, number)
    BY <1>3, <1>5 DEF HoldsLast, Ordered, Has
<1>7. \A q \in Processes : Aloof(q)
    BY DEF Log!Init, Log!Dead, Log!None, Aloof
<1> QED
    BY <1>1, <1>3, <1>6, <1>7 DEF LogInv, Alone, NamesOnce

LEMMA LogInvStep == LogConstants /\ LogInv /\ [Log!Next]_(Log!vars) => LogInv'
<1> SUFFICES ASSUME LogConstants, LogInv, [Log!Next]_(Log!vars) PROVE LogInv'
    OBVIOUS
<1>1. RollType /\ RollType'
    BY RollTypeStep DEF LogInv
<1>2. CASE UNCHANGED Log!vars
    <2>1. /\ names' = names /\ content' = content /\ proc' = proc /\ number' = number
          /\ failed' = failed /\ overlapped' = overlapped
        BY <1>2 DEF Log!vars
    <2>2. Alone' <=> Alone
        BY <2>1 DEF Alone, NamesOnce, Aloof, Busy, Newest, Texts, TextsOf, HoldsLast, Ordered, Has
    <2> QED
        BY <1>1, <2>1, <2>2, Zenon DEF LogInv
<1>3. ASSUME Log!Next, ~failed', ~overlapped' PROVE Alone'
    <2>0. PICK p \in Processes :
             \/ Log!Start(p) \/ Log!Die(p) \/ Log!Write(p) \/ Log!Unlink(p) \/ Log!Rename(p)
             \/ Log!OpenLogFile(p) \/ Log!OpenFails(p) \/ Log!WriteHeader(p) \/ Log!WriteRecord(p)
        BY <1>3 DEF Log!Next
    <2>1. ASSUME ~failed, ~overlapped PROVE Alone
        BY <2>1, Zenon DEF LogInv
    <2>2. CASE Log!Start(p)
        BY <1>1, <1>3, <2>1, <2>2, StartIs, StartAlone
    <2>3. CASE Log!Die(p)
        BY <1>1, <1>3, <2>1, <2>3, DieIs, DieAlone
    <2>4. CASE Log!Write(p)
        BY <1>1, <1>3, <2>1, <2>4, WriteIs, WriteAlone
    <2>5. CASE Log!Unlink(p)
        BY <1>1, <1>3, <2>1, <2>5, UnlinkIs, UnlinkAlone
    <2>6. CASE Log!Rename(p)
        <3>1. ~overlapped
            BY <1>1, <1>3, <2>6, RenameIs
        <3>2. ~failed
            BY <1>1, <1>3, <2>6, RenameIs
        <3> QED
            BY <1>1, <1>3, <2>1, <2>6, <3>1, <3>2, RenameAlone
    <2>7. CASE Log!OpenLogFile(p)
        <3>1. ~overlapped /\ ~failed
            BY <1>1, <1>3, <2>7, OpenIs
        <3> QED
            BY <1>1, <1>3, <2>1, <2>7, <3>1, OpenAlone
    <2>8. CASE Log!OpenFails(p)
        BY <1>1, <1>3, <2>8, OpenFailsIs
    <2>9. CASE Log!WriteHeader(p)
        BY <1>1, <1>3, <2>1, <2>9, WriteHeaderIs, WriteHeaderAlone
    <2>10. CASE Log!WriteRecord(p)
        BY <1>1, <1>3, <2>1, <2>10, WriteRecordIs, WriteRecordAlone
    <2> QED
        BY <2>0, <2>2, <2>3, <2>4, <2>5, <2>6, <2>7, <2>8, <2>9, <2>10
<1>4. CASE Log!Next
    BY <1>1, <1>3, <1>4, Zenon DEF LogInv
<1> QED
    BY <1>2, <1>4

\* KeptIsSuffix for any processes and any number of files, wherever in a roll a
\* process dies: the log is the last records, in order and without a gap.
THEOREM KeptIsLogSuffix == LogConstants /\ Log!Spec => []KeptIsSuffix
<1>1. LogConstants => []LogConstants
    <2>1. LogConstants => LogConstants'
        BY DEF LogConstants
    <2> QED
        BY <2>1, PTL
<1>2. LogConstants /\ LogInv => KeptIsSuffix
    <2> SUFFICES ASSUME LogConstants, LogInv PROVE KeptIsSuffix
        OBVIOUS
    <2>1. Log!TypeOK
        BY DEF LogInv, RollType
    <2>2. ~failed /\ ~overlapped => HoldsLast(Texts, number)
        BY Zenon DEF LogInv, Alone
    <2> QED
        BY <2>1, <2>2, KeptIs
<1> QED
    BY <1>1, <1>2, LogInvInit, LogInvStep, PTL DEF Log!Spec
=============================================================================
