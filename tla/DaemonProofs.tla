---------------------------- MODULE DaemonProofs -----------------------------
(***************************************************************************)
(* Proofs about Daemon for any set of uuids: its types, where the child's  *)
(* threads may meet a null pointer, and what of the configuration survives *)
(* crashes, SIGKILL and failing writes at any moment.                      *)
(***************************************************************************)
EXTENDS Daemon, SequenceTheorems, TLAPS

(***************************************************************************)
(* The keys a process has yet to write.                                    *)
(***************************************************************************)

\* What TorrentKeys and DaemonKeys name.
Keys == {"version", "uuid", "downloadFolder", "interface", "port"}

\* A key is not among those to write.
NoKey(keys, key) == \A i \in 1..Len(keys) : keys[i] # key

\* Sequences that are written out.
LEMMA Written ==
    ASSUME NEW S, NEW a \in S, NEW b \in S, NEW c \in S
    PROVE  /\ <<>> \in Seq(S) /\ Len(<<>>) = 0
           /\ <<a>> \in Seq(S) /\ Len(<<a>>) = 1 /\ <<a>>[1] = a
           /\ <<a, b, c>> \in Seq(S) /\ Len(<<a, b, c>>) = 3
           /\ <<a, b, c>>[1] = a /\ <<a, b, c>>[2] = b /\ <<a, b, c>>[3] = c
    OBVIOUS

\* DaemonKeys is empty only for a tree that needs no write, and writes no uuid over
\* one that is there.
LEMMA KeysOfTree ==
    ASSUME NEW tree
    PROVE  /\ DaemonKeys(tree) \in Seq(Keys)
           /\ DaemonKeys(tree) = <<>> => tree.version = VERSION /\ tree.uuid # NoUUID
           /\ tree.uuid # NoUUID => NoKey(DaemonKeys(tree), "uuid")
<1> DEFINE p == IF tree.version # VERSION THEN <<"version">> ELSE <<>>
           q == IF tree.uuid = NoUUID THEN <<"uuid">> ELSE <<>>
<1>1. /\ p \in Seq(Keys) /\ q \in Seq(Keys) /\ Len(p) \in {0, 1} /\ Len(q) \in {0, 1}
      /\ Len(p) = 0 => tree.version = VERSION
      /\ Len(p) = 1 => p[1] = "version"
      /\ Len(q) = 0 <=> tree.uuid # NoUUID
    <2>1. "version" \in Keys /\ "uuid" \in Keys
        BY DEF Keys
    <2>2. /\ <<"version">> \in Seq(Keys) /\ Len(<<"version">>) = 1 /\ <<"version">>[1] = "version"
          /\ <<"uuid">> \in Seq(Keys) /\ Len(<<"uuid">>) = 1
          /\ <<>> \in Seq(Keys) /\ Len(<<>>) = 0
        BY <2>1, Written, Zenon
    <2>3. /\ p = <<"version">> \/ (p = <<>> /\ tree.version = VERSION)
          /\ (q = <<"uuid">> /\ tree.uuid = NoUUID) \/ (q = <<>> /\ tree.uuid # NoUUID)
        BY Zenon
    <2> QED
        BY <2>2, <2>3
<1>2. DaemonKeys(tree) = p \o q
    BY DEF DaemonKeys
<1> HIDE DEF p, q
<1>3. /\ p \o q \in Seq(Keys) /\ Len(p \o q) = Len(p) + Len(q)
      /\ \A i \in 1..Len(p) : (p \o q)[i] = p[i]
    BY <1>1
<1>4. Len(p \o q) = 0 <=> p \o q = <<>>
    BY <1>3
<1> QED
    BY <1>1, <1>2, <1>3, <1>4 DEF NoKey

\* ConfigTorrent has keys to write, and the uuid is not one of them.
LEMMA KeysOfTorrent ==
    TorrentKeys \in Seq(Keys) /\ TorrentKeys # <<>> /\ NoKey(TorrentKeys, "uuid")
<1>1. /\ "downloadFolder" \in Keys /\ "interface" \in Keys /\ "port" \in Keys
      /\ "downloadFolder" # "uuid" /\ "interface" # "uuid" /\ "port" # "uuid"
    BY DEF Keys
<1>2. /\ TorrentKeys \in Seq(Keys) /\ Len(TorrentKeys) = 3
      /\ TorrentKeys[1] # "uuid" /\ TorrentKeys[2] # "uuid" /\ TorrentKeys[3] # "uuid"
    BY <1>1, Written DEF TorrentKeys
<1>3. 3 # 0 /\ \A i \in 1..3 : i = 1 \/ i = 2 \/ i = 3
    OBVIOUS
<1>4. TorrentKeys # <<>>
    BY <1>2, <1>3, Written, Zenon
<1>5. ASSUME NEW i \in 1..Len(TorrentKeys) PROVE TorrentKeys[i] # "uuid"
    BY <1>2, <1>3
<1> QED
    BY <1>2, <1>4, <1>5 DEF NoKey

\* A key less to write.
LEMMA KeysLeft ==
    ASSUME NEW keys \in Seq(Keys), keys # <<>>
    PROVE  /\ Tail(keys) \in Seq(Keys)
           /\ NoKey(keys, "uuid") => NoKey(Tail(keys), "uuid") /\ Head(keys) # "uuid"
<1>1. /\ Len(keys) \in Nat \ {0} /\ Head(keys) = keys[1]
      /\ Tail(keys) \in Seq(Keys) /\ Len(Tail(keys)) = Len(keys) - 1
      /\ \A i \in 1..Len(keys) - 1 : Tail(keys)[i] = keys[i + 1]
    OBVIOUS
<1>2. \A i \in 1..Len(Tail(keys)) : i + 1 \in 1..Len(keys)
    BY <1>1
<1> QED
    BY <1>1, <1>2 DEF NoKey

(***************************************************************************)
(* The inductive invariant, part by part.                                  *)
(***************************************************************************)

\* The type invariant in the parts that its proof takes one by one.
PlacesOK ==
    /\ parent \in {"fork", "wait", "reap", "stopping", "exited"}
    /\ pending \in SUBSET {"TERM", "CHLD"}
    /\ main \in {"none", "init", "config", "startTorrent", "startClient", "running", "stop",
                 "stopClient", "join", "exit", "hung", "zombie"}
    /\ worker \in {"off", "starting", "idle", "silent", "task", "report", "null", "fault",
                   "ended", "stuck"}
    /\ other \in {"ok", "fault", "stopClient", "join", "release", "exit"}
    /\ status \in {NeedToWork, NeedToTerminate}

FlagsOK ==
    /\ torrent \in BOOLEAN /\ rpcClient \in BOOLEAN /\ dmn \in BOOLEAN
    /\ childTerm \in BOOLEAN /\ asked \in SUBSET {"parent", "child"} /\ failed \in BOOLEAN
    /\ crashed \in BOOLEAN

ConfigOK ==
    /\ folder \in BOOLEAN /\ file \in Tree \cup {Absent, Torn} /\ root \in Tree
    /\ open \in BOOLEAN /\ known \in UUIDs \cup {NoUUID}

ChildOK == ((parent = "fork") => ~Alive) /\ (Alive => ~crashed)

\* As long as no other thread has faulted, Controller's objects are there whenever
\* the worker may run a task, and a worker that met a null pointer is still waited for.
ObjectsInPlace ==
    /\ main \in {"none", "zombie", "init", "config", "startTorrent", "startClient"} => worker = "off"
    /\ (other = "ok" /\ main \in {"startClient", "running", "stop"}) => torrent
    /\ (other = "ok" /\ main \in {"running", "stop", "stopClient"}) => rpcClient
    /\ (other = "ok" /\ main \in {"exit", "hung"}) => worker \in {"off", "ended"}
    /\ NullOnlyInShutdown

\* Past the writes of the two constructors.
Started == {"startClient", "running", "stop", "stopClient", "join"}

\* Nothing is written while there is nothing to write, and a process without keys to
\* write has its tree on disk.
TreeOnDisk ==
    /\ todo \in Seq(Keys) /\ (open = TRUE => todo # <<>>)
    /\ main \in {"none", "zombie", "init"} => todo = <<>>
    /\ main \in {"config", "startTorrent"} /\ todo = <<>> => file = root
    /\ main \in Started => todo = <<>> /\ file = root

\* A uuid that the server knows is in the file, unless that is torn, and in every
\* process, which has no uuid to write.
UuidInPlace ==
    known # NoUUID =>
        /\ file = Torn \/ file.uuid = known
        /\ main \notin {"none", "zombie", "init"} => root.uuid = known /\ NoKey(todo, "uuid")

\* What the parts need to know of trees.
LEMMA Trees ==
    /\ Empty \in Tree /\ Absent \notin Tree /\ Torn \notin Tree /\ Absent # Torn
    /\ Empty.uuid = NoUUID /\ Absent.uuid = NoUUID /\ Torn.uuid = NoUUID /\ Empty.version = "none"
    /\ <<>> \in Seq(Keys) /\ NoKey(<<>>, "uuid")
PROOF BY DEF Empty, Tree, Absent, Torn, VERSION, NoKey

(***************************************************************************)
(* Every step, by what it is about.                                        *)
(***************************************************************************)

Loading  == LoadConfig \/ LoadFolderless \/ LoadAborts
Writing  == WriteConfig \/ WriteFails
Starting == Construct \/ StartTorrent \/ StartClient \/ StartFails
Stopping == SigWaitChild \/ StopTorrent \/ StopClient \/ JoinWorker \/ StopOnNull
            \/ ChildExits \/ ChildHangs
Working  == WorkerBegins \/ StartTask \/ UseTorrent \/ ReportError \/ SignalErrorWorker
            \/ WorkerEnds \/ WorkerFaults \/ RpcHangs
Faulting == SignalErrorStop \/ SignalErrorExit \/ OtherFaults
Signals  == OperatorTerm \/ TermChild \/ PauseChild \/ KillChild

\* Every step is of one of these kinds.
LEMMA Steps ==
    ASSUME [Next]_vars
    PROVE  ParentStep \/ Loading \/ Writing \/ Starting \/ Stopping \/ Working \/ Faulting
           \/ Signals \/ UNCHANGED vars
PROOF BY DEF Next, MainStep, TaskStep, OtherStep, Faults, Outside, Finished, Loading, Writing,
             Starting, Stopping, Working, Faulting, Signals

\* A step keeps the places and the exit status within their types.
LEMMA PlacesStep ==
    ASSUME PlacesOK, [Next]_vars
    PROVE  PlacesOK'
<1> USE DEF PlacesOK, childRest, childOnly, parentVars, childVars, controller, config, disk,
            settings, MainGoto, StartThrows, WorkerGoto, OtherGoto, Dies, ConfigForgets, NeedToWork,
            NeedToTerminate, Alive
<1>1. CASE ParentStep
    <2>1. CASE Fork
        BY <2>1 DEF Fork
    <2>2. CASE SigWait
        BY <2>2 DEF SigWait
    <2>3. CASE Reap
        BY <2>3 DEF Reap
    <2>4. CASE ParentExits
        BY <2>4 DEF ParentExits
    <2> QED
        BY <1>1, <2>1, <2>2, <2>3, <2>4 DEF ParentStep
<1>2. CASE Loading
    BY <1>2, ZenonT(30)
       DEF Loading, LoadConfig, LoadFolderless, LoadAborts, ConfigLoads, ConfigLoadsFolderless
<1>3. CASE Writing
    BY <1>3
       DEF Writing, WriteConfig, WriteFails, WriteStringOpens, WriteStringWrites,
           WriteStringThrows
<1>4. CASE Starting
    BY <1>4, ZenonT(30) DEF Starting, Construct, StartTorrent, StartClient, StartFails
<1>5. CASE Stopping
    <2>1. CASE SigWaitChild
        BY <2>1 DEF SigWaitChild
    <2>2. CASE StopTorrent
        BY <2>2 DEF StopTorrent
    <2>3. CASE StopClient
        BY <2>3 DEF StopClient
    <2>4. CASE JoinWorker
        BY <2>4 DEF JoinWorker
    <2>5. CASE StopOnNull
        BY <2>5 DEF StopOnNull
    <2>6. CASE ChildExits
        BY <2>6 DEF ChildExits
    <2>7. CASE ChildHangs
        BY <2>7 DEF ChildHangs
    <2> QED
        BY <1>5, <2>1, <2>2, <2>3, <2>4, <2>5, <2>6, <2>7 DEF Stopping
<1>6. CASE Working
    <2>1. CASE StartTask
        BY <2>1 DEF StartTask
    <2>2. CASE UseTorrent
        BY <2>2 DEF UseTorrent
    <2>3. CASE ReportError
        BY <2>3 DEF ReportError
    <2>4. CASE SignalErrorWorker
        BY <2>4 DEF SignalErrorWorker
    <2>5. CASE WorkerEnds
        BY <2>5 DEF WorkerEnds
    <2>6. CASE WorkerFaults
        BY <2>6 DEF WorkerFaults
    <2>7. CASE WorkerBegins
        BY <2>7 DEF WorkerBegins
    <2>8. CASE RpcHangs
        BY <2>8 DEF RpcHangs
    <2> QED
        BY <1>6, <2>1, <2>2, <2>3, <2>4, <2>5, <2>6, <2>7, <2>8 DEF Working
<1>7. CASE Faulting
    <2>1. CASE SignalErrorStop
        <3>1. /\ parent' = parent /\ pending' = pending /\ main' = main /\ worker' = worker
              /\ status' = status
            BY <2>1 DEF SignalErrorStop
        <3>2. other' \in {"stopClient", "join", "release"}
            BY <2>1 DEF SignalErrorStop
        <3> QED
            BY <3>1, <3>2
    <2>2. CASE SignalErrorExit
        BY <2>2 DEF SignalErrorExit
    <2>3. CASE OtherFaults
        BY <2>3 DEF OtherFaults
    <2> QED
        BY <1>7, <2>1, <2>2, <2>3 DEF Faulting
<1>8. CASE Signals
    <2>1. CASE OperatorTerm
        BY <2>1 DEF OperatorTerm
    <2>2. CASE TermChild
        BY <2>2 DEF TermChild
    <2>3. CASE PauseChild
        BY <2>3 DEF PauseChild
    <2>4. CASE KillChild
        BY <2>4 DEF KillChild
    <2> QED
        BY <1>8, <2>1, <2>2, <2>3, <2>4 DEF Signals
<1>9. CASE UNCHANGED vars
    BY <1>9 DEF vars
<1> QED
    BY <1>1, <1>2, <1>3, <1>4, <1>5, <1>6, <1>7, <1>8, <1>9, Steps

\* A step keeps the flags Booleans.
LEMMA FlagsStep ==
    ASSUME FlagsOK, [Next]_vars
    PROVE  FlagsOK'
<1> USE DEF FlagsOK, childRest, childOnly, parentVars, childVars, controller, config, disk,
            settings, MainGoto, StartThrows, WorkerGoto, OtherGoto, Dies, ConfigForgets, NeedToWork,
            NeedToTerminate, Alive
<1>1. CASE ParentStep
    BY <1>1 DEF ParentStep, Fork, SigWait, Reap, ParentExits
<1>2. CASE Loading
    BY <1>2
       DEF Loading, LoadConfig, LoadFolderless, LoadAborts, ConfigLoads, ConfigLoadsFolderless
<1>3. CASE Writing
    BY <1>3
       DEF Writing, WriteConfig, WriteFails, WriteStringOpens, WriteStringWrites,
           WriteStringThrows
<1>4. CASE Starting
    BY <1>4 DEF Starting, Construct, StartTorrent, StartClient, StartFails
<1>5. CASE Stopping
    BY <1>5
       DEF Stopping, SigWaitChild, StopTorrent, StopClient, JoinWorker, StopOnNull, ChildExits,
           ChildHangs
<1>6. CASE Working
    BY <1>6
       DEF Working, WorkerBegins, RpcHangs, StartTask, UseTorrent, ReportError,
           SignalErrorWorker, WorkerEnds, WorkerFaults
<1>7. CASE Faulting
    BY <1>7 DEF Faulting, SignalErrorStop, SignalErrorExit, OtherFaults
<1>8. CASE Signals
    BY <1>8 DEF Signals, OperatorTerm, TermChild, PauseChild, KillChild
<1>9. CASE UNCHANGED vars
    BY <1>9 DEF vars
<1> QED
    BY <1>1, <1>2, <1>3, <1>4, <1>5, <1>6, <1>7, <1>8, <1>9, Steps

\* A step keeps the types of the file, the tree in memory and the uuid the server knows.
LEMMA ConfigStep ==
    ASSUME ConfigOK, [Next]_vars
    PROVE  ConfigOK'
<1> USE DEF ConfigOK, childRest, childOnly, parentVars, childVars, controller, config, disk,
            settings, MainGoto, StartThrows, WorkerGoto, OtherGoto, Dies, ConfigForgets, NeedToWork,
            NeedToTerminate, Alive
<1>1. CASE ParentStep
    BY <1>1, UUIDsAssumption, Trees DEF ParentStep, Fork, SigWait, Reap, ParentExits
<1>2. CASE Loading
    BY <1>2, UUIDsAssumption, Trees
       DEF Loading, LoadConfig, LoadFolderless, LoadAborts, ConfigLoads, ConfigLoadsFolderless,
           Tree, VERSION
<1>3. CASE Writing
    BY <1>3, UUIDsAssumption, Trees
       DEF Writing, WriteConfig, WriteFails, WriteStringOpens, WriteStringWrites,
           WriteStringThrows, Tree, VERSION
<1>4. CASE Starting
    BY <1>4, UUIDsAssumption, Trees
       DEF Starting, Construct, StartTorrent, StartClient, StartFails, Tree, VERSION
<1>5. CASE Stopping
    BY <1>5, UUIDsAssumption, Trees
       DEF Stopping, SigWaitChild, StopTorrent, StopClient, JoinWorker, StopOnNull, ChildExits,
           ChildHangs
<1>6. CASE Working
    BY <1>6, UUIDsAssumption, Trees
       DEF Working, WorkerBegins, RpcHangs, StartTask, UseTorrent, ReportError,
           SignalErrorWorker, WorkerEnds, WorkerFaults
<1>7. CASE Faulting
    BY <1>7, UUIDsAssumption, Trees DEF Faulting, SignalErrorStop, SignalErrorExit, OtherFaults
<1>8. CASE Signals
    BY <1>8, UUIDsAssumption, Trees DEF Signals, OperatorTerm, TermChild, PauseChild, KillChild
<1>9. CASE UNCHANGED vars
    BY <1>9 DEF vars
<1> QED
    BY <1>1, <1>2, <1>3, <1>4, <1>5, <1>6, <1>7, <1>8, <1>9, Steps

\* A parent about to fork has no living child; a living child has not crashed.
LEMMA ChildStep ==
    ASSUME ChildOK, [Next]_vars
    PROVE  ChildOK'
<1> USE DEF ChildOK, childRest, childOnly, parentVars, childVars, controller, config, disk,
            settings, MainGoto, StartThrows, WorkerGoto, OtherGoto, Dies, ConfigForgets, NeedToWork,
            NeedToTerminate, Alive
<1>1. CASE ParentStep
    BY <1>1 DEF ParentStep, Fork, SigWait, Reap, ParentExits
<1>2. CASE Loading
    BY <1>2
       DEF Loading, LoadConfig, LoadFolderless, LoadAborts, ConfigLoads, ConfigLoadsFolderless
<1>3. CASE Writing
    BY <1>3
       DEF Writing, WriteConfig, WriteFails, WriteStringOpens, WriteStringWrites,
           WriteStringThrows
<1>4. CASE Starting
    BY <1>4 DEF Starting, Construct, StartTorrent, StartClient, StartFails
<1>5. CASE Stopping
    BY <1>5
       DEF Stopping, SigWaitChild, StopTorrent, StopClient, JoinWorker, StopOnNull, ChildExits,
           ChildHangs
<1>6. CASE Working
    BY <1>6
       DEF Working, WorkerBegins, RpcHangs, StartTask, UseTorrent, ReportError,
           SignalErrorWorker, WorkerEnds, WorkerFaults
<1>7. CASE Faulting
    BY <1>7 DEF Faulting, SignalErrorStop, SignalErrorExit, OtherFaults
<1>8. CASE Signals
    BY <1>8 DEF Signals, OperatorTerm, TermChild, PauseChild, KillChild
<1>9. CASE UNCHANGED vars
    BY <1>9 DEF vars
<1> QED
    BY <1>1, <1>2, <1>3, <1>4, <1>5, <1>6, <1>7, <1>8, <1>9, Steps

\* Start creates what the worker uses before it starts the worker, and Stop takes it
\* away in an order that only a worker which is waited for can notice.
LEMMA ObjectsStep ==
    ASSUME ObjectsInPlace, PlacesOK, [Next]_vars
    PROVE  ObjectsInPlace'
<1> USE DEF ObjectsInPlace, NullOnlyInShutdown, childRest, childOnly, parentVars, childVars,
            controller, config, disk, settings, MainGoto, StartThrows, WorkerGoto, OtherGoto, Dies,
            ConfigForgets, NeedToWork, NeedToTerminate, Alive
<1>1. CASE ParentStep
    BY <1>1 DEF ParentStep, Fork, SigWait, Reap, ParentExits
<1>2. CASE Loading
    BY <1>2
       DEF Loading, LoadConfig, LoadFolderless, LoadAborts, ConfigLoads, ConfigLoadsFolderless
<1>3. CASE Writing
    BY <1>3
       DEF Writing, WriteConfig, WriteFails, WriteStringOpens, WriteStringWrites,
           WriteStringThrows
<1>4. CASE Starting
    BY <1>4 DEF Starting, Construct, StartTorrent, StartClient, StartFails
<1>5. CASE Stopping
    BY <1>5
       DEF Stopping, SigWaitChild, StopTorrent, StopClient, JoinWorker, StopOnNull, ChildExits,
           ChildHangs
<1>6. CASE Working
    BY <1>6
       DEF Working, WorkerBegins, RpcHangs, StartTask, UseTorrent, ReportError,
           SignalErrorWorker, WorkerEnds, WorkerFaults, PlacesOK
<1>7. CASE Faulting
    BY <1>7 DEF Faulting, SignalErrorStop, SignalErrorExit, OtherFaults
<1>8. CASE Signals
    BY <1>8 DEF Signals, OperatorTerm, TermChild, PauseChild, KillChild
<1>9. CASE UNCHANGED vars
    BY <1>9 DEF vars
<1> QED
    BY <1>1, <1>2, <1>3, <1>4, <1>5, <1>6, <1>7, <1>8, <1>9, Steps

\* Every way into the running child goes through a file that was read or written whole.
LEMMA TreeStep ==
    ASSUME TreeOnDisk, ConfigOK, ChildOK, [Next]_vars
    PROVE  TreeOnDisk'
<1> USE DEF TreeOnDisk, Started, childRest, childOnly, parentVars, childVars, controller,
            config, disk, settings, MainGoto, StartThrows, WorkerGoto, OtherGoto, Dies, ConfigForgets,
            NeedToWork, NeedToTerminate, Alive
<1>1. CASE ParentStep
    <2>1. CASE Fork
        BY <2>1, Trees DEF Fork, ChildOK
    <2>2. CASE SigWait
        BY <2>2, Trees DEF SigWait, ChildOK
    <2>3. CASE Reap
        BY <2>3, Trees DEF Reap, ChildOK
    <2>4. CASE ParentExits
        BY <2>4, Trees DEF ParentExits, ChildOK
    <2> QED
        BY <1>1, <2>1, <2>2, <2>3, <2>4 DEF ParentStep
<1>2. CASE Loading
    <2>1. CASE LoadConfig
        BY <2>1, Trees, KeysOfTree, KeysOfTorrent DEF LoadConfig, ConfigLoads, Tree, VERSION
    <2>2. CASE LoadFolderless
        BY <2>2, Trees, KeysOfTree, KeysOfTorrent DEF LoadFolderless, ConfigLoadsFolderless, Tree, VERSION
    <2>3. CASE LoadAborts
        BY <2>3, Trees, KeysOfTree, KeysOfTorrent DEF LoadAborts, Tree, VERSION
    <2> QED
        BY <1>2, <2>1, <2>2, <2>3 DEF Loading
<1>3. CASE Writing
    <2>1. CASE WriteConfig
        <3>1. CASE WriteStringOpens
            BY <2>1, <3>1 DEF WriteConfig, WriteStringOpens
        <3>2. CASE WriteStringWrites
            <4>1. Tail(todo) \in Seq(Keys)
                BY <3>2, KeysLeft DEF WriteStringWrites
            <4> QED
                BY <2>1, <3>2, <4>1 DEF WriteConfig, WriteStringWrites
        <3> QED
            BY <2>1, <3>1, <3>2 DEF WriteConfig
    <2>2. CASE WriteFails
        BY <2>2, Trees, KeysOfTree, KeysOfTorrent DEF WriteFails, WriteStringThrows, Tree, VERSION
    <2> QED
        BY <1>3, <2>1, <2>2 DEF Writing
<1>4. CASE Starting
    <2>1. CASE Construct
        BY <2>1, Trees, KeysOfTree, KeysOfTorrent DEF Construct
    <2>2. CASE StartTorrent
        BY <2>2, Trees, KeysOfTree, KeysOfTorrent DEF StartTorrent
    <2>3. CASE StartClient
        BY <2>3, Trees, KeysOfTree, KeysOfTorrent DEF StartClient
    <2>4. CASE StartFails
        BY <2>4, Trees, KeysOfTree, KeysOfTorrent DEF StartFails
    <2> QED
        BY <1>4, <2>1, <2>2, <2>3, <2>4 DEF Starting
<1>5. CASE Stopping
    BY <1>5, Trees
       DEF Stopping, SigWaitChild, StopTorrent, StopClient, JoinWorker, StopOnNull, ChildExits,
           ChildHangs
<1>6. CASE Working
    BY <1>6, Trees
       DEF Working, WorkerBegins, RpcHangs, StartTask, UseTorrent, ReportError,
           SignalErrorWorker, WorkerEnds, WorkerFaults
<1>7. CASE Faulting
    BY <1>7, Trees DEF Faulting, SignalErrorStop, SignalErrorExit, OtherFaults
<1>8. CASE Signals
    BY <1>8, Trees DEF Signals, OperatorTerm, TermChild, PauseChild, KillChild
<1>9. CASE UNCHANGED vars
    BY <1>9 DEF vars
<1> QED
    BY <1>1, <1>2, <1>3, <1>4, <1>5, <1>6, <1>7, <1>8, <1>9, Steps

\* A uuid that was on disk when the server learned it is read back or kept, never replaced.
LEMMA UuidStep ==
    ASSUME UuidInPlace, TreeOnDisk, ConfigOK, [Next]_vars
    PROVE  UuidInPlace'
<1> USE DEF UuidInPlace, Started, TreeOnDisk, ConfigOK, childRest, childOnly, parentVars,
            childVars, controller, config, disk, settings, MainGoto, StartThrows, WorkerGoto, OtherGoto,
            Dies, ConfigForgets, NeedToWork, NeedToTerminate, Alive
<1>1. CASE ParentStep
    BY <1>1, Trees DEF ParentStep, Fork, SigWait, Reap, ParentExits
<1>2. CASE Loading
    <2>1. CASE LoadConfig
        BY <2>1, Trees, KeysOfTree, KeysOfTorrent DEF LoadConfig, ConfigLoads, Tree, VERSION
    <2>2. CASE LoadFolderless
        BY <2>2, Trees, KeysOfTree, KeysOfTorrent DEF LoadFolderless, ConfigLoadsFolderless, Tree, VERSION
    <2>3. CASE LoadAborts
        BY <2>3, Trees, KeysOfTree, KeysOfTorrent DEF LoadAborts, Tree, VERSION
    <2> QED
        BY <1>2, <2>1, <2>2, <2>3 DEF Loading
<1>3. CASE Writing
    <2>1. CASE WriteConfig
        <3>1. CASE WriteStringOpens
            <4>1. known # NoUUID => Head(todo) # "uuid"
                BY <2>1, <3>1, KeysLeft DEF WriteConfig, WriteStringOpens
            <4>2. known # NoUUID => root'.uuid = root.uuid
                BY <3>1, <4>1 DEF WriteStringOpens, Tree
            <4> QED
                BY <2>1, <3>1, <4>2 DEF WriteConfig, WriteStringOpens
        <3>2. CASE WriteStringWrites
            <4>1. NoKey(todo, "uuid") => NoKey(Tail(todo), "uuid")
                BY <3>2, KeysLeft DEF WriteStringWrites
            <4> QED
                BY <2>1, <3>2, <4>1 DEF WriteConfig, WriteStringWrites
        <3> QED
            BY <2>1, <3>1, <3>2 DEF WriteConfig
    <2>2. CASE WriteFails
        BY <2>2, Trees, KeysOfTree, KeysOfTorrent DEF WriteFails, WriteStringThrows, Tree, VERSION
    <2> QED
        BY <1>3, <2>1, <2>2 DEF Writing
<1>4. CASE Starting
    <2>1. CASE Construct
        BY <2>1, Trees, KeysOfTree, KeysOfTorrent DEF Construct, Tree, VERSION
    <2>2. CASE StartTorrent
        BY <2>2, Trees, KeysOfTree, KeysOfTorrent DEF StartTorrent, Tree, VERSION
    <2>3. CASE StartClient
        BY <2>3, Trees, KeysOfTree, KeysOfTorrent DEF StartClient, Tree, VERSION
    <2>4. CASE StartFails
        BY <2>4, Trees, KeysOfTree, KeysOfTorrent DEF StartFails, Tree, VERSION
    <2> QED
        BY <1>4, <2>1, <2>2, <2>3, <2>4 DEF Starting
<1>5. CASE Stopping
    BY <1>5, Trees
       DEF Stopping, SigWaitChild, StopTorrent, StopClient, JoinWorker, StopOnNull, ChildExits,
           ChildHangs
<1>6. CASE Working
    BY <1>6, Trees
       DEF Working, WorkerBegins, RpcHangs, StartTask, UseTorrent, ReportError,
           SignalErrorWorker, WorkerEnds, WorkerFaults
<1>7. CASE Faulting
    BY <1>7, Trees DEF Faulting, SignalErrorStop, SignalErrorExit, OtherFaults
<1>8. CASE Signals
    BY <1>8, Trees DEF Signals, OperatorTerm, TermChild, PauseChild, KillChild
<1>9. CASE UNCHANGED vars
    BY <1>9 DEF vars
<1> QED
    BY <1>1, <1>2, <1>3, <1>4, <1>5, <1>6, <1>7, <1>8, <1>9, Steps

(***************************************************************************)
(* The theorems.                                                           *)
(***************************************************************************)

Inv ==
    /\ PlacesOK /\ FlagsOK /\ ConfigOK /\ ChildOK
    /\ ObjectsInPlace /\ TreeOnDisk /\ UuidInPlace

\* The initial states satisfy the invariant.
LEMMA InitInv == Init => Inv
<1> SUFFICES ASSUME Init PROVE Inv
    OBVIOUS
<1> USE DEF Init, Inv
<1>1. PlacesOK /\ FlagsOK /\ ChildOK
    BY DEF PlacesOK, FlagsOK, ChildOK, Alive, NeedToWork
<1>2. ConfigOK
    BY Trees DEF ConfigOK, ConfigInit, Tree
<1>3. ObjectsInPlace
    BY DEF ObjectsInPlace, NullOnlyInShutdown
<1>4. TreeOnDisk
    BY Trees DEF TreeOnDisk, Started, ConfigInit
<1>5. UuidInPlace
    BY DEF UuidInPlace
<1> QED
    BY <1>1, <1>2, <1>3, <1>4, <1>5

\* Every step keeps it.
LEMMA NextInv == Inv /\ [Next]_vars => Inv'
PROOF BY PlacesStep, FlagsStep, ConfigStep, ChildStep, ObjectsStep, TreeStep, UuidStep DEF Inv

\* The inductive invariant: processes, threads and Controller's objects are in step,
\* and what the configuration holds on disk and in memory follows from where main is.
THEOREM InvCorrect == Spec => []Inv
PROOF BY InitInv, NextInv, PTL DEF Spec

\* The variables keep their types, and a living child belongs to a parent that waits
\* for it.
THEOREM TypeCorrect == Spec => []TypeOK
<1>1. Inv => TypeOK
    BY DEF Inv, PlacesOK, FlagsOK, ConfigOK, ChildOK, TypeOK
<1> QED
    BY <1>1, InvCorrect, PTL

\* The RPC client's worker meets a null pointer only while the child is being stopped
\* (Controller::Start, Stop).
THEOREM PointersKept == Spec => []NullOnlyInShutdown
<1>1. Inv => NullOnlyInShutdown
    BY DEF Inv, ObjectsInPlace
<1> QED
    BY <1>1, InvCorrect, PTL

\* A child past its start has its configuration on disk, whatever crashes and failing
\* writes came before (Config::WriteString).
THEOREM ConfigSaved == Spec => []RunsOnSavedConfig
<1>1. Inv => RunsOnSavedConfig
    BY DEF Inv, TreeOnDisk, Started, RunsOnSavedConfig
<1> QED
    BY <1>1, InvCorrect, PTL

\* The server knows a daemon by one uuid for ever (ConfigDaemon::Init).
THEOREM UuidKept == Spec => UuidStable
<1>1. Inv /\ [Next]_vars => (known # NoUUID => known' = known)
    <2> SUFFICES ASSUME Inv, [Next]_vars, known # NoUUID PROVE known' = known
        OBVIOUS
    <2>1. CASE StartClient
        BY <2>1 DEF StartClient, Inv, UuidInPlace
    <2>2. CASE ~StartClient
        <3> USE DEF childRest, childOnly, parentVars, childVars, controller, config, disk,
                settings, MainGoto, StartThrows, WorkerGoto, OtherGoto, Dies
        <3>1. CASE ParentStep \/ Signals
            BY <3>1 DEF ParentStep, Fork, SigWait, Reap, ParentExits, Signals, OperatorTerm,
                        TermChild, PauseChild, KillChild
        <3>2. CASE Loading \/ Writing \/ Starting
            BY <3>2, <2>2 DEF Loading, LoadConfig, LoadFolderless, LoadAborts, Writing, WriteConfig,
                              WriteFails, Starting, Construct, StartTorrent, StartFails
        <3>3. CASE Stopping
            BY <3>3 DEF Stopping, SigWaitChild, StopTorrent, StopClient, JoinWorker, StopOnNull,
                        ChildExits, ChildHangs
        <3>4. CASE Working \/ Faulting
            BY <3>4 DEF Working, WorkerBegins, RpcHangs, StartTask, UseTorrent, ReportError, SignalErrorWorker,
                        WorkerEnds, WorkerFaults, Faulting, SignalErrorStop, SignalErrorExit,
                        OtherFaults
        <3>5. CASE UNCHANGED vars
            BY <3>5 DEF vars
        <3> QED
            BY <3>1, <3>2, <3>3, <3>4, <3>5, Steps
    <2> QED
        BY <2>1, <2>2
<1>2. Inv /\ [Next]_vars => [known # NoUUID => known' = known]_vars
    BY <1>1
<1> QED
    BY <1>2, InvCorrect, PTL DEF Spec, UuidStable
==============================================================================
