------------------------------ MODULE Torrent -------------------------------
(***************************************************************************)
(* torrent::Torrent with its TorrentInfo records and TorrentInfoManager    *)
(* (Daemon/src/torrent*.cpp), as the RPC client drives it through          *)
(* Controller (Daemon/src/controller.cpp).                                 *)
(*                                                                         *)
(* Four kinds of threads share the records: the RPC client's worker, which *)
(* starts generations and downloads and copies records to report them; a   *)
(* detached thread per generation; the alert handler; and libtorrent's     *)
(* session, which is external and only posts alerts.  Every setter and     *)
(* getter of TorrentInfo locks by itself, so each is a step of its own;    *)
(* what a thread does on its own data belongs to the step before it.       *)
(*                                                                         *)
(* A record's id and its two paths are left out; its link is a Boolean     *)
(* (set or empty).  TorrentInfoManager::Get of an unknown id gives a fresh *)
(* record, so infoList is a total function and Create changes nothing.     *)
(* Stop is not modelled: Controller releases the object and never stops    *)
(* it.  State updates are not modelled: nothing calls                      *)
(* post_torrent_updates, so their alert never comes.                       *)
(***************************************************************************)
EXTENDS Integers, Sequences, FiniteSets

CONSTANTS
    Ids,            \* torrent ids, ordered as the keys of std::map are
    Generated,      \* those this daemon is asked to generate, not to download
    Names,          \* names of torrents
    Generators,     \* generator threads
    Loads,          \* bound: the ids the server asks about, the threads that run; names;
                    \* the levels of that path which are the download folder's too
    Levels,         \* levels of the path of the folder of torrent files
    Pieces,         \* pieces of a torrent
    MaxAlerts       \* bound: alerts posted and not handled

ASSUME IdsAssumption == Ids \subseteq Nat /\ IsFiniteSet(Ids) /\ Generated \subseteq Ids
ASSUME LoadsAssumption ==
    Loads \subseteq [ids : SUBSET Ids, threads : SUBSET Generators, names : [Ids -> Names],
                     shared : 0..Levels]
ASSUME GeneratorsAssumption == Generators \cap {"free", "worker", "handler"} = {}
ASSUME LevelsAssumption == Levels \in Nat \ {0}
ASSUME PiecesAssumption == Pieces \in Nat \ {0}
ASSUME AlertsAssumption == MaxAlerts \in Nat \ {0}

Nobody == 0     \* GetIdByName's empty string; no id

ASSUME NobodyAssumption == Nobody \notin Ids

VARIABLES
    infoList,           \* [Ids -> TorrentInfo]
    torrentsIdList,     \* ids in the map
    listMtx,            \* holder of torrentIdListMtx, "free" when free
    load,               \* what this behaviour is about
    folder,             \* how many levels of the folder's path exist
    level,              \* level[th]: the one that a thread found missing and will make
    files,              \* names of the torrent files on disk
    gen,                \* gen[g]: [pc, id, piece] of a generator thread
    workerPc, workerId, \* the RPC client's worker
    snap,               \* the copy it is making, to be reported
    handlerPc, handlerId,
    alerts,             \* posted and not handled: sequence of [kind, id]
    session,            \* libtorrent: what it does with each torrent
    hashFailed,         \* history: generations that set_piece_hashes gave up
    refused,            \* history: a mkdir failed that no other thread was faster with
    terminated          \* an exception left a thread function

workerVars  == <<workerPc, workerId, snap>>
handlerVars == <<handlerPc, handlerId, alerts>>
listVars    == <<torrentsIdList, listMtx>>
history     == <<load, hashFailed>>
diskVars    == <<folder, level, files, refused>>
vars == <<infoList, listVars, diskVars, gen, workerVars, handlerVars, session, history,
          terminated>>

\* nameOf[id]: the torrent's name, its project's folder.
nameOf == load.names
Shared == load.shared

Writers == Generators \cup {"handler"}     \* of torrent files
Makers == Writers \cup {"worker"}          \* of folders

Info == [status |-> "UNKNOWN", progress |-> 0, link |-> FALSE]
Status == {"UNKNOWN", "DOWNLOADING", "DOWNLOADED", "DOWNLOADING_ERROR",
           "GENERATING", "GENERATED", "GENERATION_ERROR", "PAUSED"}

\* Files may be left from an earlier run of the daemon.  ConfigTorrent has made the
\* download folder, or was refused.
Init ==
    /\ infoList = [id \in Ids |-> Info]
    /\ torrentsIdList = {} /\ listMtx = "free"
    /\ load \in Loads
    /\ folder \in 0..Levels /\ level = [th \in Makers |-> 0]
    /\ refused = (folder < Shared)
    /\ files \in SUBSET {nameOf[id] : id \in load.ids} /\ (folder < Levels => files = {})
    /\ gen = [g \in Generators |-> [pc |-> "none", id |-> Nobody, piece |-> 0]]
    /\ workerPc = "idle" /\ workerId = Nobody
    /\ snap = Info
    /\ handlerPc = "idle" /\ handlerId = Nobody /\ alerts = <<>>
    /\ session = [id \in Ids |-> "none"]
    /\ hashFailed = {}
    /\ terminated = FALSE

----------------------------------------------------------------------------
(* TorrentInfo's setters, and the calls several threads share. *)

SetStatus(id, s)   == infoList' = [infoList EXCEPT ![id].status = s]
SetProgress(id, p) == infoList' = [infoList EXCEPT ![id].progress = p]
SetLink(id)        == infoList' = [infoList EXCEPT ![id].link = TRUE]

\* A GetIdByName that also matches the name inside the torrent file.
GetIdByAnyName(name) ==
    LET found == {id \in torrentsIdList : nameOf[id] = name}
    IN  IF found = {} THEN Nobody ELSE CHOOSE id \in found : \A o \in found : id <= o

\* The first id whose add_torrent_params carry this name: a torrent added from a
\* file has its name in param.ti and an empty param.name.
GetIdByName(name) ==
    LET found == {id \in torrentsIdList \ Generated : nameOf[id] = name}
    IN  IF found = {} THEN Nobody ELSE CHOOSE id \in found : \A o \in found : id <= o

\* A CreateFolder that makes the first missing level only.
WriteTorrentNextOneLevel(th, pc, name) ==
    CASE pc = "folder" -> IF folder = Levels THEN "exists" ELSE "mkdir"
      [] pc = "mkdir"  -> "exists"
      [] pc = "exists" -> IF name \in files THEN "remove" ELSE "write"
      [] pc = "remove" -> "write"
      [] pc = "write"  -> "written"

\* A WriteTorrent that removes the old file without asking whether there is one.
WriteTorrentNextUnchecked(th, pc, name) ==
    CASE pc = "folder" -> IF folder = Levels THEN "exists" ELSE "mkdir"
      [] pc = "mkdir"  -> IF folder >= level[th] \/ level[th] = Levels THEN "exists" ELSE "folder"
      [] pc = "exists" -> "remove"
      [] pc = "remove" -> "write"
      [] pc = "write"  -> "written"

\* WriteTorrent, step by step on a file system other threads use too.  First
\* CreateFolder: which level is missing, make it, and so on; a mkdir that another
\* thread was faster with fails, as does one that is refused (MkdirRefused), and
\* CreateFolder returns.  Then: does the file exist, remove it (which throws if it has
\* gone), write it (which nobody notices to fail without the folder).
WriteTorrentNext(th, pc, name) ==
    CASE pc = "folder" -> IF folder = Levels THEN "exists" ELSE "mkdir"
      [] pc = "mkdir"  -> IF folder >= level[th] \/ level[th] = Levels THEN "exists" ELSE "folder"
      [] pc = "exists" -> IF name \in files THEN "remove" ELSE "write"
      [] pc = "remove" -> "write"
      [] pc = "write"  -> "written"

Writing == {"folder", "mkdir", "exists", "remove", "write"}

\* What a step does to the folders of a path that is depth levels long: find the one
\* that is missing, make it.
CreateFolder(th, pc, depth) ==
    /\ folder' = IF pc = "mkdir" /\ folder < level[th] THEN level[th] ELSE folder
    /\ level' = [level EXCEPT ![th] = IF pc = "folder" /\ folder < depth THEN folder + 1 ELSE 0]

\* mkdir fails, and not because the level is there by now: no permission, no space, a
\* file in its place.
MkdirRefused(th) ==
    /\ folder < level[th]
    /\ level' = [level EXCEPT ![th] = 0] /\ refused' = TRUE
    /\ UNCHANGED <<folder, files>>

\* What a step of WriteTorrent does to folders and files.
WriteTorrentDisk(th, pc, name) ==
    /\ CreateFolder(th, pc, Levels)
    /\ files' = CASE pc = "remove" -> files \ {name}
                  [] pc = "write" /\ folder = Levels -> files \cup {name}
                  [] OTHER -> files
    /\ terminated' = (pc = "remove" /\ name \notin files)
    /\ UNCHANGED refused

\* async_add_torrent: an id the session has is not added again.
AsyncAdd(id) ==
    session' = IF session[id] = "none" THEN [session EXCEPT ![id] = "adding"]
                                       ELSE session

----------------------------------------------------------------------------
(* The generator threads: CreateTorrent. *)

GenAt(g, pc) == gen[g].pc = pc
GenGoto(g, pc) == gen' = [gen EXCEPT ![g].pc = pc]

\* What no step of a generator changes.
genOthers == <<workerVars, handlerVars>>

\* A generation that returns silently when there are no files.
GenStartSilent(g) ==
    /\ GenAt(g, "start")
    /\ SetStatus(gen[g].id, "GENERATING")
    /\ \E pc \in {"hash", "done"} : GenGoto(g, pc)
    /\ UNCHANGED <<listVars, diskVars, session, history, terminated, genOthers>>

\* The status, and then add_files: something to hash, or nothing.
GenStart(g) ==
    /\ GenAt(g, "start")
    /\ SetStatus(gen[g].id, "GENERATING")
    /\ \E pc \in {"hash", "error"} : GenGoto(g, pc)
    /\ UNCHANGED <<listVars, diskVars, session, history, terminated, genOthers>>

\* UpdateCreationProgress, called for each piece: the status ...
GenPieceStatus(g) ==
    /\ GenAt(g, "hash")
    /\ SetStatus(gen[g].id, "GENERATING")
    /\ GenGoto(g, "hashProgress")
    /\ UNCHANGED <<listVars, diskVars, session, history, terminated, genOthers>>

\* ... and then the progress, in per cent.  After the last piece generate() gives
\* an entry to write, or fails.
GenPieceProgress(g) ==
    /\ GenAt(g, "hashProgress")
    /\ SetProgress(gen[g].id, (gen[g].piece * 100) \div Pieces)
    /\ LET next == gen[g].piece + 1
       IN  \E pc \in (IF next < Pieces THEN {"hash"} ELSE {"folder", "error"}) :
              gen' = [gen EXCEPT ![g].piece = next, ![g].pc = pc]
    /\ UNCHANGED <<listVars, diskVars, session, history, terminated, genOthers>>

\* set_piece_hashes reports an error: it is logged, the status stays.
GenHashFails(g) ==
    /\ GenAt(g, "hash")
    /\ hashFailed' = hashFailed \cup {gen[g].id}
    /\ GenGoto(g, "done")
    /\ UNCHANGED <<infoList, listVars, diskVars, session, load, terminated, genOthers>>

GenWrite(g) ==
    /\ gen[g].pc \in Writing
    /\ WriteTorrentDisk(g, gen[g].pc, nameOf[gen[g].id])
    /\ GenGoto(g, WriteTorrentNext(g, gen[g].pc, nameOf[gen[g].id]))
    /\ UNCHANGED <<infoList, listVars, session, history, genOthers>>

\* CreateFolder returns, and WriteTorrent goes on without the folder.
GenMkdirRefused(g) ==
    /\ GenAt(g, "mkdir") /\ MkdirRefused(g)
    /\ GenGoto(g, "exists")
    /\ UNCHANGED <<infoList, listVars, session, history, terminated, genOthers>>

\* CreateInfoFromFile reads the file back; it throws if the file is gone or broken.
GenReadBack(g) ==
    /\ GenAt(g, "written")
    /\ \/ nameOf[gen[g].id] \in files /\ GenGoto(g, "link")
       \/ GenGoto(g, "error")
    /\ UNCHANGED <<infoList, listVars, diskVars, session, history, terminated, genOthers>>

\* A generation that publishes its status before the rest of the record.
GenPublishStatusFirst(g) ==
    /\ \/ GenAt(g, "link") /\ SetStatus(gen[g].id, "GENERATED") /\ GenGoto(g, "progress")
       \/ GenAt(g, "progress") /\ SetProgress(gen[g].id, 100) /\ GenGoto(g, "status")
       \/ GenAt(g, "status") /\ SetLink(gen[g].id) /\ GenGoto(g, "add")
    /\ UNCHANGED <<listVars, diskVars, session, history, terminated, genOthers>>

\* The record is filled in field by field, its status last.
GenPublish(g) ==
    /\ \/ GenAt(g, "link") /\ SetLink(gen[g].id) /\ GenGoto(g, "progress")
       \/ GenAt(g, "progress") /\ SetProgress(gen[g].id, 100) /\ GenGoto(g, "status")
       \/ GenAt(g, "status") /\ SetStatus(gen[g].id, "GENERATED") /\ GenGoto(g, "add")
    /\ UNCHANGED <<listVars, diskVars, session, history, terminated, genOthers>>

\* AddTorrent reads the file once more and throws, although GENERATED is set.
GenAddFails(g) ==
    /\ GenAt(g, "add")
    /\ GenGoto(g, "error")
    /\ UNCHANGED <<infoList, listVars, diskVars, session, history, terminated, genOthers>>

\* AddTorrent takes torrentIdListMtx and hands the torrent to the session ...
GenAdd(g) ==
    /\ GenAt(g, "add") /\ listMtx = "free"
    /\ nameOf[gen[g].id] \in files
    /\ listMtx' = g
    /\ AsyncAdd(gen[g].id)
    /\ GenGoto(g, "insert")
    /\ UNCHANGED <<infoList, torrentsIdList, diskVars, history, terminated, genOthers>>

\* ... and notes it in torrentsIdList before it lets go.
GenInsert(g) ==
    /\ GenAt(g, "insert")
    /\ torrentsIdList' = torrentsIdList \cup {gen[g].id}
    /\ listMtx' = "free"
    /\ GenGoto(g, "done")
    /\ UNCHANGED <<infoList, diskVars, session, history, terminated, genOthers>>

\* UpdateStatus(GENERATION_ERROR, 0).
GenError(g) ==
    /\ \/ GenAt(g, "error") /\ SetStatus(gen[g].id, "GENERATION_ERROR")
                            /\ GenGoto(g, "errorProgress")
       \/ GenAt(g, "errorProgress") /\ SetProgress(gen[g].id, 0) /\ GenGoto(g, "done")
    /\ UNCHANGED <<listVars, diskVars, session, history, terminated, genOthers>>

GenStep(g) ==
    \/ GenStart(g) \/ GenPieceStatus(g) \/ GenPieceProgress(g)
    \/ GenHashFails(g) \/ GenWrite(g) \/ GenMkdirRefused(g) \/ GenReadBack(g)
    \/ GenPublish(g) \/ GenAddFails(g) \/ GenAdd(g) \/ GenInsert(g) \/ GenError(g)

----------------------------------------------------------------------------
(* The RPC client's worker, one call at a time. *)

WorkerGoto(pc) == workerPc' = pc /\ UNCHANGED workerId
WorkerDone == workerPc' = "idle" /\ workerId' = Nobody

\* What no step of the worker changes, and none but the one that makes a folder.
workerRest   == <<handlerVars, history, terminated>>
workerOthers == <<diskVars, workerRest>>

\* Controller::GenerateTorrent; the server may ask for a generation again.
\* CreateTorrentAsync reads the status once ...
CallGenerate(id) ==
    /\ workerPc = "idle" /\ id \in Generated \cap load.ids
    /\ infoList[id].status # "GENERATING"
    /\ workerPc' = "generated?" /\ workerId' = id
    /\ UNCHANGED <<infoList, listVars, gen, snap, session, workerOthers>>

\* ... and again, and starts a thread unless the torrent is GENERATED (or the bound
\* on the number of threads is reached).
CreateTorrentAsync ==
    /\ workerPc = "generated?"
    /\ \/ /\ infoList[workerId].status # "GENERATED"
          /\ \E g \in load.threads : GenAt(g, "none")
          /\ LET g == CHOOSE h \in load.threads : GenAt(h, "none")
             IN  gen' = [gen EXCEPT ![g].pc = "start", ![g].id = workerId]
       \/ /\ \/ infoList[workerId].status = "GENERATED"
             \/ \A g \in load.threads : ~GenAt(g, "none")
          /\ UNCHANGED gen
    /\ WorkerDone
    /\ UNCHANGED <<infoList, listVars, snap, session, workerOthers>>

\* Controller::DownloadTorrent, as often as the server asks: DownloadAsync stores the
\* link,
CallDownload(id) ==
    /\ workerPc = "idle" /\ id \in load.ids \ Generated
    /\ SetLink(id)
    /\ workerPc' = "downloading" /\ workerId' = id
    /\ UNCHANGED <<listVars, gen, snap, session, workerOthers>>

\* then the status, and parses the link; a link that does not parse ends it with
\* UpdateStatus(DOWNLOADING_ERROR, 0) and an exception that Controller catches.
DownloadAsync ==
    /\ \/ workerPc = "downloading" /\ SetStatus(workerId, "DOWNLOADING")
                                   /\ \E pc \in {"folder", "error"} : WorkerGoto(pc)
       \/ workerPc = "error" /\ SetStatus(workerId, "DOWNLOADING_ERROR")
                             /\ WorkerGoto("errorProgress")
       \/ workerPc = "errorProgress" /\ SetProgress(workerId, 0) /\ WorkerDone
    /\ UNCHANGED <<listVars, gen, snap, session, workerOthers>>

\* CreateFolder for the folder of resume data, which lies in the download folder: the
\* levels that it has in common with the folder of torrent files.  Whether it comes
\* about makes no difference to the download: there is nothing to resume from.
DownloadFolder ==
    /\ \/ /\ workerPc = "folder" /\ CreateFolder("worker", "folder", Shared)
          /\ WorkerGoto(IF folder < Shared THEN "mkdir" ELSE "add")
          /\ UNCHANGED <<files, refused>>
       \/ /\ workerPc = "mkdir" /\ CreateFolder("worker", "mkdir", Shared)
          /\ WorkerGoto(IF folder >= level["worker"] \/ level["worker"] = Shared THEN "add"
                        ELSE "folder")
          /\ UNCHANGED <<files, refused>>
       \/ workerPc = "mkdir" /\ MkdirRefused("worker") /\ WorkerGoto("add")
    /\ UNCHANGED <<infoList, listVars, gen, snap, session, workerRest>>

\* An AddTorrent that does not hold torrentIdListMtx meanwhile.
DownloadAddUnlocked ==
    /\ workerPc = "add" /\ listMtx = "free"
    /\ AsyncAdd(workerId)
    /\ WorkerGoto("insert")
    /\ UNCHANGED <<infoList, torrentsIdList, listMtx, gen, snap, workerOthers>>

\* AddTorrent for the magnet link: the session first, torrentsIdList next, both
\* under torrentIdListMtx.
DownloadAdd ==
    /\ workerPc = "add" /\ listMtx = "free"
    /\ listMtx' = "worker"
    /\ AsyncAdd(workerId)
    /\ WorkerGoto("insert")
    /\ UNCHANGED <<infoList, torrentsIdList, gen, snap, workerOthers>>

DownloadInsert ==
    /\ workerPc = "insert"
    /\ torrentsIdList' = torrentsIdList \cup {workerId}
    /\ listMtx' = "free"
    /\ WorkerDone
    /\ UNCHANGED <<infoList, gen, snap, session, workerOthers>>

\* Controller::UpdateTorrentInfo: GetTorrentInfo begins to copy the record.
CallUpdate(id) ==
    /\ workerPc = "idle" /\ id \in load.ids
    /\ snap' = [Info EXCEPT !.link = infoList[id].link]
    /\ workerPc' = "copyStatus" /\ workerId' = id
    /\ UNCHANGED <<infoList, listVars, gen, session, workerOthers>>

\* One locked getter per field, in the order of Copy: the status after the link, ...
Copy ==
    /\ workerPc = "copyStatus"
    /\ snap' = [snap EXCEPT !.status = infoList[workerId].status]
    /\ WorkerGoto("report")
    /\ UNCHANGED <<infoList, listVars, gen, session, workerOthers>>

\* Controller::ConvertTorrentStatus.
ConvertTorrentStatus(s) ==
    CASE s \in {"DOWNLOADING_ERROR", "GENERATION_ERROR"} -> "ERROR"
      [] s = "UNKNOWN" -> "NONE"
      [] OTHER -> s

\* The status the server is told.
Reported == IF workerPc = "report" THEN ConvertTorrentStatus(snap.status) ELSE "nothing"

\* ... and the progress last; the copy is converted and sent to the server.
Report ==
    /\ workerPc = "report"
    /\ snap' = Info
    /\ WorkerDone
    /\ UNCHANGED <<infoList, listVars, gen, session, workerOthers>>

WorkerStep ==
    \/ CreateTorrentAsync \/ DownloadAsync \/ DownloadFolder \/ DownloadAdd \/ DownloadInsert
    \/ Copy \/ Report

----------------------------------------------------------------------------
(* The alert handler: HandlerAlerts. *)

\* What no step of the handler changes.
handlerOthers == <<listVars, gen, workerVars, session, history>>

AlertDone == handlerPc' = "idle" /\ handlerId' = Nobody /\ alerts' = Tail(alerts)
HandlerGoto(pc) == handlerPc' = pc /\ UNCHANGED <<handlerId, alerts>>

\* An alert about a torrent: its id is looked up by name, under torrentIdListMtx.
\* add_torrent_alert stores the handle, which nothing reads.
HandleLookup ==
    /\ handlerPc = "idle" /\ alerts # <<>> /\ listMtx = "free"
    /\ LET alert == Head(alerts)
           id    == GetIdByName(nameOf[alert.id])
       IN  /\ alert.kind \notin {"metadata", "metadataFailed"}
           /\ IF alert.kind = "added" \/ id = Nobody
                 THEN AlertDone
                 ELSE /\ handlerPc' = alert.kind /\ handlerId' = id
                      /\ UNCHANGED alerts
    /\ UNCHANGED <<infoList, diskVars, terminated, handlerOthers>>

\* torrent_finished_alert: UpdateStatus(DOWNLOADED, 100).
HandleFinished ==
    /\ \/ handlerPc = "finished" /\ SetStatus(handlerId, "DOWNLOADED")
                                 /\ HandlerGoto("finishedProgress")
       \/ handlerPc = "finishedProgress" /\ SetProgress(handlerId, 100) /\ AlertDone
    /\ UNCHANGED <<diskVars, terminated, handlerOthers>>

\* torrent_error_alert, or add_torrent_alert with an error: it is only logged.
HandleErrorIgnored ==
    /\ handlerPc = "error" /\ UNCHANGED infoList /\ AlertDone
    /\ UNCHANGED <<diskVars, terminated, handlerOthers>>

\* torrent_error_alert, or add_torrent_alert with an error:
\* UpdateStatus(DOWNLOADING_ERROR, 0).
HandleError ==
    /\ \/ handlerPc = "error" /\ SetStatus(handlerId, "DOWNLOADING_ERROR")
                              /\ HandlerGoto("errorProgress")
       \/ handlerPc = "errorProgress" /\ SetProgress(handlerId, 0) /\ AlertDone
    /\ UNCHANGED <<diskVars, terminated, handlerOthers>>

\* metadata_received_alert: the torrent file is written (the handle is valid, since
\* nothing removes a torrent from the session).
HandleMetadata ==
    /\ handlerPc = "idle" /\ alerts # <<>> /\ Head(alerts).kind = "metadata"
    /\ handlerPc' = "folder" /\ handlerId' = Head(alerts).id
    /\ UNCHANGED <<infoList, diskVars, alerts, terminated, handlerOthers>>

\* metadata_failed_alert is logged, like torrent_paused_alert, and changes nothing;
\* state_update_alert never comes.
HandleMetadataFailed ==
    /\ handlerPc = "idle" /\ alerts # <<>> /\ Head(alerts).kind = "metadataFailed"
    /\ AlertDone
    /\ UNCHANGED <<infoList, diskVars, terminated, handlerOthers>>

HandlerWrite ==
    /\ handlerPc \in Writing
    /\ WriteTorrentDisk("handler", handlerPc, nameOf[handlerId])
    /\ IF handlerPc = "write"
       THEN AlertDone
       ELSE HandlerGoto(WriteTorrentNext("handler", handlerPc, nameOf[handlerId]))
    /\ UNCHANGED <<infoList, handlerOthers>>

HandlerMkdirRefused ==
    /\ handlerPc = "mkdir" /\ MkdirRefused("handler")
    /\ HandlerGoto("exists")
    /\ UNCHANGED <<infoList, terminated, handlerOthers>>

HandlerStep ==
    \/ HandleLookup \/ HandleFinished \/ HandleError
    \/ HandleMetadata \/ HandleMetadataFailed \/ HandlerWrite \/ HandlerMkdirRefused

----------------------------------------------------------------------------
(* libtorrent's session (external). *)

\* A torrent goes on from one stage to the next and an alert says so.
SessionPosts(id, from, to, kind) ==
    /\ session[id] \in from /\ Len(alerts) < MaxAlerts
    /\ session' = [session EXCEPT ![id] = to]
    /\ alerts' = Append(alerts, [kind |-> kind, id |-> id])
    /\ UNCHANGED <<infoList, listVars, diskVars, gen, workerVars, handlerPc, handlerId,
                   history, terminated>>

SessionProgress(id) ==
    \/ SessionPosts(id, {"adding"}, "added", "added")
    \/ id \notin Generated /\ SessionPosts(id, {"added"}, "retrying", "metadataFailed")
    \/ id \notin Generated /\ SessionPosts(id, {"added", "retrying"}, "ready", "metadata")
    \/ SessionPosts(id, IF id \in Generated THEN {"added"} ELSE {"ready"},
                    "finished", "finished")

SessionError(id) == SessionPosts(id, {"adding", "added", "retrying", "ready"}, "failed", "error")

----------------------------------------------------------------------------
Next ==
    \/ /\ ~terminated
       /\ \/ \E g \in Generators : GenStep(g)
          \/ \E id \in Ids :
                \/ CallGenerate(id) \/ CallDownload(id) \/ CallUpdate(id)
                \/ SessionProgress(id) \/ SessionError(id)
          \/ WorkerStep \/ HandlerStep
    \/ terminated /\ UNCHANGED vars

\* Every thread runs, and the handler comes by torrentIdListMtx although others take
\* it again and again.  Nothing is asked of the session: a torrent without peers
\* never finishes.
Fairness ==
    /\ \A g \in Generators : WF_vars(~terminated /\ GenStep(g))
    /\ WF_vars(~terminated /\ WorkerStep)
    /\ SF_vars(~terminated /\ HandlerStep)

Spec == Init /\ [][Next]_vars /\ Fairness

----------------------------------------------------------------------------
InfoType == [status : Status, progress : 0..100, link : BOOLEAN]

TypeOK ==
    /\ infoList \in [Ids -> InfoType]
    /\ torrentsIdList \in SUBSET Ids
    /\ listMtx \in {"free", "worker"} \cup Generators
    /\ files \in SUBSET Names /\ load \in Loads
    /\ folder \in 0..Levels /\ level \in [Makers -> 0..Levels] /\ refused \in BOOLEAN
    /\ \A g \in Generators : gen[g].id \in Ids \cup {Nobody} /\ gen[g].piece \in 0..Pieces
    /\ workerId \in Ids \cup {Nobody} /\ handlerId \in Ids \cup {Nobody}
    /\ snap \in InfoType
    /\ \A i \in DOMAIN alerts : alerts[i].id \in Ids
    /\ session \in [Ids -> {"none", "adding", "added", "retrying", "ready", "finished", "failed"}]
    /\ hashFailed \in SUBSET Ids
    /\ terminated \in BOOLEAN

\* CreateTorrentAsync has started a second thread for a torrent: it tests a status
\* that the first thread sets only once it runs.
GeneratedTwice(id) == \E g, h \in Generators : g # h /\ gen[g].id = id /\ gen[h].id = id

SharesName(id) == \E o \in Ids \ {id} : nameOf[o] = nameOf[id]

\* A record that says GENERATED has its link: the generator fills
\* the record in before it sets the status, whoever else writes to it.
GeneratedHasLink ==
    \A id \in Ids :
        infoList[id].status = "GENERATED" => infoList[id].link

\* Whenever the handler can look a torrent up, every torrent it has an alert of is
\* in the map: AddTorrent keeps torrentIdListMtx over both insertions.
AlertsFindTheirTorrent ==
    (listMtx = "free") => \A i \in DOMAIN alerts : alerts[i].id \in torrentsIdList

\* No alert about a torrent this daemon seeds changes the record of its generation.
GeneratedIsFinal ==
    [][\A id \in Generated :
          (infoList[id].status = "GENERATED" /\ ~GeneratedTwice(id)) =>
              infoList'[id].status \in {"GENERATED", "GENERATION_ERROR"}]_vars

\* WriteTorrent throws out of its thread, which ends the daemon, only when two
\* threads write the file of one name.
OneWriterIsSafe ==
    terminated => \E id \in Ids : SharesName(id) \/ GeneratedTwice(id)

\* As long as no mkdir was refused, a torrent file is written without its folder only
\* while another thread is still making the levels: CreateFolder returns when somebody
\* else has made one.
FolderRaceOnly ==
    \A th \in Writers :
        LET pc(w) == IF w = "handler" THEN handlerPc ELSE gen[w].pc
        IN  (pc(th) = "write" /\ folder < Levels) =>
                refused \/ \E other \in Writers \ {th} : pc(other) \in {"folder", "mkdir"}

\* A generation ends with GENERATED or GENERATION_ERROR, unless hashing failed.
GenerationEnds ==
    \A id \in Generated :
        (infoList[id].status = "GENERATING") ~>
            (infoList[id].status # "GENERATING" \/ id \in hashFailed \/ terminated)

\* An alert about a torrent's end that the handler has not begun with.
News(id) ==
    \E i \in DOMAIN alerts :
        /\ alerts[i].id = id /\ alerts[i].kind \in {"finished", "error"}
        /\ i > 1 \/ handlerPc = "idle"

\* What libtorrent makes of a download with a name of its own reaches its record: when
\* it says that it has finished it or given it up, so does the record at some time
\* after.  (Not for good: a server that asks for the download once more sets it back,
\* and libtorrent does not say it again.)
DownloadEnds ==
    \A id \in Ids \ Generated :
        (News(id) /\ ~SharesName(id)) ~>
            (infoList[id].status \in {"DOWNLOADED", "DOWNLOADING_ERROR"} \/ terminated)
=============================================================================
