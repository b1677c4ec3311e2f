------------------------------- MODULE Logger -------------------------------
(***************************************************************************)
(* plog's Logger (plog/Logger.h, Init.h, Log.h, Util.h) in a child process *)
(* of the daemon: built by Controller's constructor, used by every thread  *)
(* through the PLOG macros, and destroyed by exit() with the other static  *)
(* objects.                                                                *)
(*                                                                         *)
(* Controller::Stop joins the threads of the RPC client only.  The alert   *)
(* handler and the detached generators live on while exit() takes the      *)
(* logger apart.  What a thread does with a destroyed object is undefined: *)
(* it may get nowhere, go on as before, or fault.  A thread that faults    *)
(* stops the controller and calls exit() in its turn (SignalError).        *)
(*                                                                         *)
(* A record is a number, counted per thread; the file is the list of the   *)
(* records written, older files included (RollingFileAppender has the      *)
(* files).                                                                 *)
(***************************************************************************)
EXTENDS Integers, Sequences, FiniteSets

CONSTANTS
    Workers,            \* threads of the RPC client, joined by Stop
    Handlers,           \* the alert handler, started with them and never joined
    Generators,         \* detached threads that workers start
    LOG_LEVEL,          \* what the build passes to plog::init
    m_maxFileSize,      \* in records
    MaxRecords          \* bound: MaxRecords[t] records are logged by thread t

Free == "free"
Main == "main"

ASSUME ThreadsAssumption ==
    /\ Workers \cap (Handlers \cup Generators) = {}
    /\ Free \notin Workers \cup Handlers \cup Generators
    /\ Main \notin Workers \cup Handlers \cup Generators

Threads == Workers \cup Handlers \cup Generators

ASSUME LogLevelAssumption == LOG_LEVEL \in 0..6 /\ m_maxFileSize \in Nat
ASSUME RecordsAssumption == MaxRecords \in [Threads -> Nat]

VARIABLES
    main,           \* where the process is: building, running, taking apart
    m_instance,     \* whether Singleton::m_instance is set
    m_maxSeverity, m_appenders,
    m_mutex,        \* the holder of the appender's mutex
    m_file,         \* whether the appender's file is open
    m_fileSize, m_firstWrite,   \* the size is -1 when the file could not be opened
    lines,          \* the records written
    pc,             \* where each thread is in a PLOG
    it,             \* its iterator over m_appenders
    logged,         \* the records it has logged that LOG_LEVEL admits
    touched,        \* history: threads that used a destroyed object
    stops           \* history: threads that called Controller::Stop

loggerVars == <<m_instance, m_maxSeverity, m_appenders>>
fileVars   == <<m_mutex, m_file, m_fileSize, m_firstWrite, lines>>
threadVars == <<pc, it, logged, touched>>
vars == <<main, loggerVars, fileVars, threadVars, stops>>

Severity == 1..6    \* fatal .. verbose; none is 0

\* Singleton::getInstance, not null.
getInstance == m_instance

Init ==
    /\ main = "singleton"
    /\ m_instance = FALSE /\ m_maxSeverity = 0 /\ m_appenders = <<>>
    /\ m_mutex = Free /\ m_file = FALSE /\ m_fileSize = 0 /\ m_firstWrite = TRUE
    /\ lines = <<>>
    /\ pc = [t \in Threads |-> "none"] /\ it = [t \in Threads |-> 0]
    /\ logged = [t \in Threads |-> 0]
    /\ touched = {} /\ stops = {}

FileClose == m_file' = FALSE

MutexLock(t) == m_mutex = Free /\ m_mutex' = t
MutexUnlock == m_mutex' = Free

\* Where the logger's members, and the appender's, are what they should be.
LoggerLives   == main \in {"start", "run", "join", "exit"}
AppenderLives == main \in {"singleton", "logger", "add", "start", "run", "join", "exit",
                           "unset", "close"}
Exiting       == main \in {"exit", "unset", "close", "end", "gone"}

----------------------------------------------------------------------------
(* The main thread.  plog::init: the appender is a static of its own and is     *)
(* built first (Init).                                                          *)

\* Logger's base class comes before its members ...
Singleton ==
    /\ main = "singleton"
    /\ m_instance' = TRUE /\ main' = "logger"
    /\ UNCHANGED <<m_maxSeverity, m_appenders, fileVars, threadVars, stops>>

LoggerCtor ==
    /\ main = "logger"
    /\ m_maxSeverity' = LOG_LEVEL /\ main' = "add"
    /\ UNCHANGED <<m_instance, m_appenders, fileVars, threadVars, stops>>

addAppender(appender) == m_appenders' = Append(m_appenders, appender)

\* ... and then it gets its appender.
AddAppender ==
    /\ main = "add"
    /\ addAppender("file") /\ main' = "start"
    /\ UNCHANGED <<m_instance, m_maxSeverity, fileVars, threadVars, stops>>

\* Controller::Start: the alert handler and the RPC client's threads.
Start ==
    /\ main = "start"
    /\ pc' = [t \in Threads |-> IF t \in Workers \cup Handlers THEN "idle" ELSE pc[t]]
    /\ main' = "run"
    /\ UNCHANGED <<loggerVars, fileVars, it, logged, touched, stops>>

\* Controller::Stop releases the RPC client, whose destructor joins its threads.  Who
\* comes second finds the client gone, and exit() begins.
StopCalled(caller) ==
    /\ stops' = stops \cup {caller}
    /\ main' = CASE main = "run" -> "join" [] main = "join" -> "exit" [] OTHER -> main

\* A signal to stop.
Stop ==
    /\ Main \notin stops /\ main \in {"run", "join"}
    /\ StopCalled(Main)
    /\ UNCHANGED <<loggerVars, fileVars, threadVars>>

\* A Stop that releases the RPC client as it does the torrent.
JoinNobody ==
    /\ main = "join"
    /\ main' = "exit"
    /\ UNCHANGED <<loggerVars, fileVars, threadVars, stops>>

\* Stop has waited for the RPC client's threads, and exit() begins.
Join ==
    /\ main = "join" /\ \A w \in Workers : pc[w] = "done"
    /\ main' = "exit"
    /\ UNCHANGED <<loggerVars, fileVars, threadVars, stops>>

\* The logger was built last and goes first: its members (m_appenders gives back its
\* memory, which looks the same for a while), then the base class.
DestroyAppenders ==
    /\ main = "exit"
    /\ main' = "unset"
    /\ UNCHANGED <<loggerVars, fileVars, threadVars, stops>>

DestroySingleton ==
    /\ main = "unset"
    /\ m_instance' = FALSE /\ main' = "close"
    /\ UNCHANGED <<m_maxSeverity, m_appenders, fileVars, threadVars, stops>>

\* Then the appender, whoever has its mutex.
DestroyAppender ==
    /\ main = "close"
    /\ FileClose /\ main' = "end"
    /\ UNCHANGED <<loggerVars, m_mutex, m_fileSize, m_firstWrite, lines, threadVars, stops>>

Exit ==
    /\ main = "end"
    /\ main' = "gone"
    /\ UNCHANGED <<loggerVars, fileVars, threadVars, stops>>

MainStep ==
    \/ Singleton \/ LoggerCtor \/ AddAppender \/ Start \/ Join
    \/ DestroyAppenders \/ DestroySingleton \/ DestroyAppender \/ Exit

----------------------------------------------------------------------------
(* A thread. *)

At(t, where) == main # "gone" /\ pc[t] = where
Goto(t, where) == pc' = [pc EXCEPT ![t] = where]

\* It uses what is destroyed.
Misuse(t, outcomes) ==
    /\ touched' = touched \cup {t}
    /\ \E where \in outcomes : Goto(t, where)
    /\ UNCHANGED <<main, loggerVars, fileVars, it, logged, stops>>

\* CreateTorrentAsync, in a task of a worker.
Spawn(g) ==
    /\ At(g, "none") /\ g \in Generators
    /\ \E w \in Workers : pc[w] = "idle"
    /\ Goto(g, "idle")
    /\ UNCHANGED <<main, loggerVars, fileVars, it, logged, touched, stops>>

WorkerEnds(w) ==
    /\ At(w, "idle") /\ stops # {}
    /\ Goto(w, "done")
    /\ UNCHANGED <<main, loggerVars, fileVars, it, logged, touched, stops>>

checkSeverity(severity) == severity <= m_maxSeverity

\* IF_PLOG_: is there a logger ...
IfPlog(t) ==
    /\ At(t, "idle") /\ logged[t] < MaxRecords[t]
    /\ Goto(t, IF getInstance THEN "check" ELSE "idle")
    /\ UNCHANGED <<main, loggerVars, fileVars, it, logged, touched, stops>>

\* ... and, asked for again, does it take the record?
Check(t) ==
    /\ At(t, "check")
    /\ IF getInstance
       THEN /\ \E severity \in Severity :
                  /\ logged' = [logged EXCEPT ![t] = IF severity <= LOG_LEVEL THEN @ + 1 ELSE @]
                  /\ Goto(t, IF checkSeverity(severity) THEN "get" ELSE "idle")
            /\ UNCHANGED <<main, loggerVars, fileVars, it, touched, stops>>
       ELSE Misuse(t, {"fault"})

\* PLOG_ asks a third time, and does not look whether there is one.
Get(t) ==
    /\ At(t, "get")
    /\ IF getInstance
       THEN /\ Goto(t, "append") /\ it' = [it EXCEPT ![t] = 1]
            /\ UNCHANGED <<main, loggerVars, fileVars, logged, touched, stops>>
       ELSE Misuse(t, {"fault"})

\* operator+=: the next appender, or the end.
AppendNext(t) ==
    /\ At(t, "append")
    /\ LET where == IF it[t] <= Len(m_appenders) THEN "lock" ELSE "idle"
       IN  IF LoggerLives
           THEN /\ Goto(t, where)
                /\ UNCHANGED <<main, loggerVars, fileVars, it, logged, touched, stops>>
           ELSE Misuse(t, {where, "idle", "fault"})

\* A write that takes no lock.
LockNothing(t) ==
    /\ At(t, "lock")
    /\ IF AppenderLives
       THEN /\ Goto(t, CASE m_firstWrite -> "open"
                         [] ~m_firstWrite /\ m_fileSize > m_maxFileSize -> "close"
                         [] OTHER -> "write")
            /\ UNCHANGED <<main, loggerVars, fileVars, it, logged, touched, stops>>
       ELSE Misuse(t, {"idle", "fault"})

\* RollingFileAppender::write: MutexLock, and open the file, roll it or neither.
Lock(t) ==
    /\ At(t, "lock")
    /\ IF AppenderLives
       THEN /\ MutexLock(t)
            /\ Goto(t, CASE m_firstWrite -> "open"
                         [] ~m_firstWrite /\ m_fileSize > m_maxFileSize -> "close"
                         [] OTHER -> "write")
            /\ UNCHANGED <<main, loggerVars, m_file, m_fileSize, m_firstWrite, lines, it, logged,
                           touched, stops>>
       ELSE Misuse(t, {"idle", "fault"})

\* rollLogFiles closes the file, and there is none ...
Close(t) ==
    /\ At(t, "close")
    /\ IF AppenderLives
       THEN /\ FileClose /\ Goto(t, "open")
            /\ UNCHANGED <<main, loggerVars, m_mutex, m_fileSize, m_firstWrite, lines, it, logged,
                           touched, stops>>
       ELSE Misuse(t, {"open", "fault"})

\* ... until openLogFile, which may fail; then nothing is opened or rolled any more.
Open(t) ==
    /\ At(t, "open")
    /\ IF AppenderLives
       THEN /\ m_file' \in BOOLEAN /\ m_fileSize' = IF m_file' THEN 0 ELSE -1
            /\ m_firstWrite' = FALSE /\ Goto(t, "write")
            /\ UNCHANGED <<main, loggerVars, m_mutex, lines, it, logged, touched, stops>>
       ELSE Misuse(t, {"write", "fault"})

\* The record; a file that is not open takes nothing, and nobody asks.  The lock goes.
Write(t) ==
    /\ At(t, "write")
    /\ IF AppenderLives
       THEN /\ lines' = IF m_file THEN Append(lines, [thread |-> t, number |-> logged[t]])
                                  ELSE lines
            /\ m_fileSize' = IF m_file THEN m_fileSize + 1 ELSE m_fileSize
            /\ MutexUnlock
            /\ it' = [it EXCEPT ![t] = @ + 1] /\ Goto(t, "append")
            /\ UNCHANGED <<main, loggerVars, m_file, m_firstWrite, logged, touched, stops>>
       ELSE Misuse(t, {"append", "fault"})

\* A fault that has nothing to do with the logger.
Crash(t) ==
    /\ At(t, "idle")
    /\ Goto(t, "fault")
    /\ UNCHANGED <<main, loggerVars, fileVars, it, logged, touched, stops>>

\* SignalError: Controller::Stop and exit() in the thread that faulted.  A worker would
\* join itself, which ends the process; a second exit() goes on with what the first has
\* left, and may be done before it.
SignalError(t) ==
    /\ At(t, "fault")
    /\ \/ /\ main = "run" => t \notin Workers
          /\ StopCalled(t)
       \/ /\ (main = "run" /\ t \in Workers) \/ Exiting
          /\ main' = "gone" /\ stops' = stops \cup {t}
    /\ Goto(t, "stop")
    /\ UNCHANGED <<loggerVars, fileVars, it, logged, touched>>

Plog(t) ==
    \/ Check(t) \/ Get(t) \/ AppendNext(t) \/ Lock(t) \/ Close(t) \/ Open(t) \/ Write(t)
    \/ SignalError(t)

Next ==
    \/ MainStep \/ Stop
    \/ \E t \in Threads : IfPlog(t) \/ Plog(t) \/ Spawn(t) \/ Crash(t)
    \/ \E w \in Workers : WorkerEnds(w)

Spec == Init /\ [][Next]_vars

----------------------------------------------------------------------------
TypeOK ==
    /\ main \in {"singleton", "logger", "add", "start", "run", "join", "exit", "unset", "close",
                 "end", "gone"}
    /\ m_instance \in BOOLEAN /\ m_maxSeverity \in 0..6 /\ m_appenders \in Seq({"file"})
    /\ m_mutex \in Threads \cup {Free}
    /\ m_file \in BOOLEAN /\ m_fileSize \in Nat \cup {-1} /\ m_firstWrite \in BOOLEAN
    /\ lines \in Seq([thread : Threads, number : Nat])
    /\ pc \in [Threads -> {"none", "idle", "check", "get", "append", "lock", "close", "open",
                           "write", "fault", "stop", "done"}]
    /\ it \in [Threads -> Nat] /\ logged \in [Threads -> Nat]
    /\ touched \subseteq Threads
    /\ stops \subseteq Threads \cup {Main}

\* A destroyed logger or appender is used only while exit() runs, and by a thread of
\* the RPC client only if Controller::Stop was called twice, by a thread that faulted and
\* another: the first call's join is what keeps exit() away from these threads.
OnlyUnjoinedTouch ==
    /\ touched # {} => Exiting
    /\ touched \cap Workers # {} => \A caller \in stops : stops # {caller}

\* How many of a thread's records should be in the file: all but the one it is at.
Due(t) ==
    IF pc[t] \in {"get", "lock", "close", "open", "write"} \/ (pc[t] = "append" /\ it[t] = 1)
    THEN logged[t] - 1 ELSE logged[t]

\* Until exit() begins, and as long as every file could be opened, every record that
\* LOG_LEVEL admits is in the file; always once and in the order of its thread, although
\* the file is closed in the middle of a roll.
EveryRecordOnce ==
    /\ ~Exiting /\ m_fileSize # -1 => \A t \in Threads : \A k \in 1..Due(t) :
                      \E i \in DOMAIN lines : lines[i] = [thread |-> t, number |-> k]
    /\ \A i, j \in DOMAIN lines :
          (i < j /\ lines[i].thread = lines[j].thread) =>
              lines[i].number < lines[j].number
=============================================================================
