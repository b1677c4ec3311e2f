------------------------------- MODULE Config -------------------------------
(***************************************************************************)
(* The daemon's configuration (Daemon/config): a tree of keys in memory,   *)
(* read from one JSON file when a process starts and written back as a     *)
(* whole by every WriteString.  ConfigDaemon and ConfigTorrent write while *)
(* the main thread of the process is alone; nothing writes later, and      *)
(* GetString, which is always given a default, never does.                 *)
(*                                                                         *)
(* Of the keys only the version and the uuid decide anything.              *)
(***************************************************************************)
EXTENDS Sequences

CONSTANTS UUIDs, NoUUID     \* what GenerateUUID gives; an empty string

ASSUME UUIDsAssumption == UUIDs # {} /\ NoUUID \notin UUIDs

VERSION == "new"
Empty  == [version |-> "none", uuid |-> NoUUID]
Tree   == [version : {"none", "old", VERSION}, uuid : UUIDs \cup {NoUUID}]
Absent == [version |-> "absent", uuid |-> NoUUID]   \* there is no file
Torn   == [version |-> "torn", uuid |-> NoUUID]     \* it is empty or incomplete

VARIABLES
    folder,     \* whether the folder of the file exists
    file,       \* the file: Absent, Torn or a tree
    root,       \* the tree in memory
    todo,       \* the keys that the constructor running has yet to write
    open        \* a write_json is under way

disk     == <<folder, file>>
settings == <<root, todo, open>>

\* No daemon has run here yet, with or without the folder; or an older one has.
ConfigInit ==
    /\ \/ folder \in BOOLEAN /\ file = Absent
       \/ folder = TRUE /\ file \in [version : {"old"}, uuid : UUIDs]
    /\ root = Empty /\ todo = <<>> /\ open = FALSE

\* ConfigDaemon::Init: the version if it is another one, the uuid if there is none.
DaemonKeys(tree) ==
    (IF tree.version # VERSION THEN <<"version">> ELSE <<>>) \o
    (IF tree.uuid = NoUUID THEN <<"uuid">> ELSE <<>>)

\* ConfigTorrent::Init sets what it gets.
TorrentKeys == <<"downloadFolder", "interface", "port">>

\* A Config::Init that begins anew when it cannot parse the file.
ConfigLoadsAnyway ==
    /\ root' = IF file \in {Absent, Torn} THEN Empty ELSE file
    /\ todo' = DaemonKeys(root')
    /\ folder' = TRUE
    /\ UNCHANGED <<file, open>>

\* Config::Init reads the file, or creates the folder for one.
ConfigLoads ==
    /\ file # Torn
    /\ root' = IF file = Absent THEN Empty ELSE file
    /\ todo' = DaemonKeys(root')
    /\ folder' = TRUE
    /\ UNCHANGED <<file, open>>

\* CreateFolder fails and does not say so.
ConfigLoadsFolderless ==
    /\ file = Absent /\ ~folder
    /\ root' = Empty /\ todo' = DaemonKeys(Empty)
    /\ UNCHANGED <<disk, open>>

\* WriteString: the tree in memory first, and the file is truncated ...
WriteStringOpens ==
    /\ todo # <<>> /\ ~open /\ folder
    /\ \/ Head(todo) = "version" /\ root' = [root EXCEPT !.version = VERSION]
       \/ Head(todo) = "uuid" /\ \E u \in UUIDs : root' = [root EXCEPT !.uuid = u]
       \/ Head(todo) \notin {"version", "uuid"} /\ UNCHANGED root
    /\ file' = Torn /\ open' = TRUE
    /\ UNCHANGED <<folder, todo>>

\* ... and written.
WriteStringWrites ==
    /\ open
    /\ file' = root /\ open' = FALSE /\ todo' = Tail(todo)
    /\ UNCHANGED <<folder, root>>

\* The file cannot be opened, or not all of it can be written: write_json throws.
WriteStringThrows == todo # <<>>

\* The process is gone, and with it the tree in memory.
ConfigForgets == root' = Empty /\ todo' = <<>> /\ open' = FALSE
=============================================================================
