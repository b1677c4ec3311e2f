--------------------------- MODULE ServerHandler ----------------------------
(***************************************************************************)
(* The polling protocol from the server's side: ServerHandler of           *)
(* Daemon/tests/grpc_server.cpp behind grpcserver::ServerImpl, with the    *)
(* daemons that call it.  The server hands its first daemon a torrent to   *)
(* generate and passes what has been generated on to the others.           *)
(*                                                                         *)
(* Each daemon has one call at a time, each call a thread at the server.   *)
(* A call that the daemon gives up, because its connection breaks or its   *)
(* child dies, is still served: it becomes an orphan, beside the calls     *)
(* that the daemon makes from then on.                                     *)
(* mtxTUpdate is only ever taken last, so what happens under it is part of *)
(* the step around it; mtxTDeque and mtxTDownload are taken in both        *)
(* orders: at "give" a call holds mtxTDeque and wants mtxTDownload, at     *)
(* "task" the other way round.                                             *)
(*                                                                         *)
(* A daemon is GRPCClient and Torrent cut down to what the server sees:    *)
(* its line of tasks, its deferred tasks, and the state of its torrents.   *)
(***************************************************************************)
EXTENDS Integers, Sequences, FiniteSets

CONSTANTS
    Daemons,        \* ordered as uuids, the std::set of the server, is
    MaxTorrents,    \* bound: torrents generated
    MaxFaults       \* bound: restarts of daemons, and calls given up that go on

ASSUME DaemonsAssumption == Daemons \subseteq Nat \ {0} /\ IsFiniteSet(Daemons)
ASSUME BoundsAssumption == MaxTorrents \in Nat /\ MaxFaults \in Nat

Torrents == 1..MaxTorrents

\* The places of calls: one for each daemon, and one for a call that it gave up.
Orphan(d) == -d
Slots == Daemons \cup {Orphan(d) : d \in Daemons}

VARIABLES
    \* the server
    uuids, isFirst, torrentDeque, tasks, t2DownloadMap, t2UpdateMap,
    made,           \* how many torrents it has asked for
    \* the calls: [rpc, at, info, list], where list is what it has yet to go
    \* through or has to answer
    call,
    \* the daemons
    line, deffered, reports, torrents,
    \* history
    lost,           \* an answer broke off, or a daemon restarted
    orphans,        \* calls given up that the server went on with
    restarts

serverVars == <<uuids, isFirst, torrentDeque, tasks, t2DownloadMap, t2UpdateMap, made>>
daemonVars == <<line, deffered, reports, torrents>>
history == <<lost, orphans, restarts>>
vars == <<serverVars, call, daemonVars, history>>

NoInfo == [id |-> 0, link |-> FALSE, status |-> "NONE"]
NewCall(rpc, at, info) == [rpc |-> rpc, at |-> at, info |-> info, list |-> <<>>]
NoCall == NewCall("none", "none", NoInfo)

Init ==
    /\ uuids = {} /\ isFirst = TRUE /\ torrentDeque = <<>> /\ made = 0
    /\ tasks = [d \in Daemons |-> <<>>]
    /\ t2DownloadMap = [d \in Daemons |-> {}] /\ t2UpdateMap = [d \in Daemons |-> {}]
    /\ call = [k \in Slots |-> NoCall]
    /\ line = [d \in Daemons |-> <<"MAKE_HANDSHAKE">>]
    /\ deffered = [d \in Daemons |-> {}]
    /\ reports = [d \in Daemons |-> <<>>]
    /\ torrents = [d \in Daemons |-> [t \in Torrents |-> "NONE"]]
    /\ lost = FALSE /\ orphans = 0 /\ restarts = 0

----------------------------------------------------------------------------
(* The server. *)

DequeFree    == \A k \in Slots : call[k].at # "give"      \* mtxTDeque
DownloadFree == \A k \in Slots : call[k].at # "task"      \* mtxTDownload

\* A walk through what an ordered container holds.
InOrder(S) ==
    {s \in [1..Cardinality(S) -> S] :
        /\ \A x \in S : \E i \in DOMAIN s : s[i] = x
        /\ \A i, j \in DOMAIN s : i < j => s[i] < s[j]}

\* The steps of the server are those of the call in slot k, which is d's.
Called(k, rpc) == call[k].rpc = rpc /\ call[k].at = "called"
CallGoto(k, at, list) == call' = [call EXCEPT ![k].at = at, ![k].list = list]
Reply(k, list) == CallGoto(k, "replied", list)

\* The rest of the system, for a step of the server.
others == <<daemonVars, history>>

AddTask(d, types) == tasks' = [tasks EXCEPT ![d] = @ \o types]

\* A server that asks every daemon to generate a torrent.
HandshakeAll(d, k) ==
    /\ Called(k, "Handshake") /\ DequeFree
    /\ uuids' = uuids \cup {d}
    /\ AddTask(d, <<"GENERATE_MAGENT", "UPDATE_TORRENT_STATUS">>)
    /\ Reply(k, <<>>)
    /\ UNCHANGED <<isFirst, torrentDeque, t2DownloadMap, t2UpdateMap, made, others>>

\* A server that forgets the first daemon's task to report.
HandshakeNoUpdate(d, k) ==
    /\ Called(k, "Handshake") /\ DequeFree
    /\ uuids' = uuids \cup {d} /\ isFirst' = FALSE
    /\ IF isFirst
       THEN AddTask(d, <<"GENERATE_MAGENT">>) /\ Reply(k, <<>>)
       ELSE UNCHANGED tasks /\ CallGoto(k, "give", <<d>>)
    /\ UNCHANGED <<torrentDeque, t2DownloadMap, t2UpdateMap, made, others>>

\* A server that has no torrent for a daemon that comes late.
HandshakeLate(d, k) ==
    /\ Called(k, "Handshake") /\ DequeFree
    /\ uuids' = uuids \cup {d} /\ isFirst' = FALSE
    /\ IF isFirst
       THEN AddTask(d, <<"GENERATE_MAGENT", "UPDATE_TORRENT_STATUS">>)
       ELSE UNCHANGED tasks
    /\ Reply(k, <<>>)
    /\ UNCHANGED <<torrentDeque, t2DownloadMap, t2UpdateMap, made, others>>

\* The first daemon is to generate a torrent and to report on it, any other to
\* download what waits.
Handshake(d, k) ==
    /\ Called(k, "Handshake") /\ DequeFree
    /\ uuids' = uuids \cup {d} /\ isFirst' = FALSE
    /\ IF isFirst
       THEN AddTask(d, <<"GENERATE_MAGENT", "UPDATE_TORRENT_STATUS">>) /\ Reply(k, <<>>)
       ELSE UNCHANGED tasks /\ CallGoto(k, "give", <<d>>)
    /\ UNCHANGED <<torrentDeque, t2DownloadMap, t2UpdateMap, made, others>>

\* A DownloadTorrent that leaves the torrent in the deque.
DownloadTorrentKeeps(d, k) ==
    /\ call[k].at = "give"
    /\ \/ torrentDeque = <<>> /\ UNCHANGED <<torrentDeque, t2DownloadMap, tasks>>
       \/ /\ torrentDeque # <<>> /\ DownloadFree
          /\ LET to == Head(call[k].list) IN
                /\ t2DownloadMap' = [t2DownloadMap EXCEPT ![to] = @ \cup {Head(torrentDeque)}]
                /\ AddTask(to, <<"DOWNLOAD_TORRENT">>)
          /\ UNCHANGED torrentDeque
    /\ LET rest == Tail(call[k].list)
       IN  CallGoto(k, IF rest = <<>> THEN "replied" ELSE "give", rest)
    /\ UNCHANGED <<uuids, isFirst, t2UpdateMap, made, others>>

\* DownloadTorrent, for the next daemon of the call's list: the torrent that has
\* waited longest, if there is one, is put on the daemon's list.
DownloadTorrent(d, k) ==
    /\ call[k].at = "give"
    /\ \/ torrentDeque = <<>> /\ UNCHANGED <<torrentDeque, t2DownloadMap, tasks>>
       \/ /\ torrentDeque # <<>> /\ DownloadFree
          /\ LET to == Head(call[k].list) IN
                /\ t2DownloadMap' = [t2DownloadMap EXCEPT ![to] = @ \cup {Head(torrentDeque)}]
                /\ AddTask(to, <<"DOWNLOAD_TORRENT">>)
          /\ torrentDeque' = Tail(torrentDeque)
    /\ LET rest == Tail(call[k].list)
       IN  CallGoto(k, IF rest = <<>> THEN "replied" ELSE "give", rest)
    /\ UNCHANGED <<uuids, isFirst, t2UpdateMap, made, others>>

\* A report.  A generated torrent goes to the other daemons that are known; a torrent
\* on which there is nothing more to report leaves the update list; of any other a
\* new report is asked for.
UpdateTorrentStatus(d, k) ==
    /\ Called(k, "UpdateTorrentStatus") /\ DequeFree
    /\ LET info    == call[k].info
           passing == info.status = "GENERATED" /\ info.link
       IN  /\ torrentDeque' = IF passing THEN Append(torrentDeque, info.id) ELSE torrentDeque
           /\ t2UpdateMap' = IF passing \/ info.status = "DOWNLOADED"
                             THEN [t2UpdateMap EXCEPT ![d] = @ \ {info.id}] ELSE t2UpdateMap
           /\ IF info.status \in {"GENERATED", "DOWNLOADED"}
              THEN UNCHANGED tasks ELSE AddTask(d, <<"UPDATE_TORRENT_STATUS">>)
           /\ IF passing /\ uuids \ {d} # {}
              THEN \E to \in InOrder(uuids \ {d}) : CallGoto(k, "give", to)
              ELSE Reply(k, <<>>)
    /\ UNCHANGED <<uuids, isFirst, t2DownloadMap, made, others>>

GetTaskList(d, k) ==
    /\ Called(k, "GetTaskList") /\ DequeFree
    /\ tasks' = [tasks EXCEPT ![d] = <<>>]
    /\ Reply(k, tasks[d])
    /\ UNCHANGED <<uuids, isFirst, torrentDeque, t2DownloadMap, t2UpdateMap, made, others>>

\* The daemon has shaken hands, so it is known.
GetInfoForGenerateTorrents(d, k) ==
    /\ Called(k, "GetInfoForGenerateTorrents") /\ DequeFree
    /\ made < MaxTorrents /\ made' = made + 1
    /\ t2UpdateMap' = [t2UpdateMap EXCEPT ![d] = @ \cup {made'}]
    /\ Reply(k, <<made'>>)
    /\ UNCHANGED <<uuids, isFirst, torrentDeque, tasks, t2DownloadMap, others>>

GetTorrentsForUpdateStatus(d, k) ==
    /\ Called(k, "GetTorrentsForUpdateStatus")
    /\ \E list \in InOrder(t2UpdateMap[d]) : Reply(k, list)
    /\ UNCHANGED <<serverVars, others>>

\* What is on the daemon's download list moves to its update list ...
GetTorrentsForDownload(d, k) ==
    /\ Called(k, "GetTorrentsForDownload") /\ DownloadFree
    /\ t2UpdateMap' = [t2UpdateMap EXCEPT ![d] = @ \cup t2DownloadMap[d]]
    /\ t2DownloadMap' = [t2DownloadMap EXCEPT ![d] = {}]
    /\ \E list \in InOrder(t2DownloadMap[d]) :
          CallGoto(k, IF t2DownloadMap[d] = {} THEN "replied" ELSE "task", list)
    /\ UNCHANGED <<uuids, isFirst, torrentDeque, tasks, made, others>>

\* ... and is to be reported on.
ReportOnDownloads(d, k) ==
    /\ call[k].at = "task" /\ DequeFree
    /\ AddTask(d, <<"UPDATE_TORRENT_STATUS">>)
    /\ Reply(k, call[k].list)
    /\ UNCHANGED <<uuids, isFirst, torrentDeque, t2DownloadMap, t2UpdateMap, made, others>>

\* Nobody hears the answer to a call that was given up.
Unheard(d, k) ==
    /\ k # d /\ call[k].at = "replied"
    /\ call' = [call EXCEPT ![k] = NoCall]
    /\ UNCHANGED <<serverVars, others>>

ServerStep(d, k) ==
    \/ Handshake(d, k) \/ DownloadTorrent(d, k) \/ UpdateTorrentStatus(d, k) \/ GetTaskList(d, k)
    \/ GetInfoForGenerateTorrents(d, k) \/ GetTorrentsForUpdateStatus(d, k)
    \/ GetTorrentsForDownload(d, k) \/ ReportOnDownloads(d, k)
    \/ Unheard(d, k)

----------------------------------------------------------------------------
(* A daemon. *)

\* The call each task begins with.
Stub == [MAKE_HANDSHAKE        |-> "Handshake",
         UPDATE_TASK_LIST      |-> "GetTaskList",
         GENERATE_MAGENT       |-> "GetInfoForGenerateTorrents",
         UPDATE_TORRENT_STATUS |-> "GetTorrentsForUpdateStatus",
         DOWNLOAD_TORRENT      |-> "GetTorrentsForDownload"]

RunTask(d) ==
    /\ call[d] = NoCall /\ reports[d] = <<>> /\ line[d] # <<>>
    /\ call' = [call EXCEPT ![d] = NewCall(Stub[Head(line[d])], "called", NoInfo)]
    /\ line' = [line EXCEPT ![d] = Tail(@)]
    /\ UNCHANGED <<serverVars, deffered, reports, torrents, history>>

\* What the task does with the answer it got.
Continue(d, ok, got) ==
    LET rpc == call[d].rpc
        starting == [i \in Torrents |-> IF \E k \in DOMAIN got : got[k] = i
                                        THEN IF rpc = "GetTorrentsForDownload"
                                             THEN "DOWNLOADING" ELSE "GENERATING"
                                        ELSE torrents[d][i]]
    IN  /\ line' = [line EXCEPT ![d] = @ \o
              CASE rpc = "Handshake" /\ ok -> <<"UPDATE_TASK_LIST">>
                [] rpc = "GetTaskList" -> got
                [] rpc = "GetTorrentsForDownload" -> <<"UPDATE_TORRENT_STATUS">>
                [] OTHER -> <<>>]
        /\ deffered' = [deffered EXCEPT ![d] = @ \cup
              CASE rpc = "Handshake" /\ ~ok -> {"MAKE_HANDSHAKE"}
                [] rpc = "GetTaskList" -> {"UPDATE_TASK_LIST"}
                [] rpc = "GetInfoForGenerateTorrents" -> {"UPDATE_TORRENT_STATUS"}
                [] OTHER -> {}]
        /\ reports' = [reports EXCEPT ![d] =
              IF rpc = "GetTorrentsForUpdateStatus" THEN got ELSE @]
        /\ torrents' = [torrents EXCEPT ![d] =
              IF rpc \in {"GetInfoForGenerateTorrents", "GetTorrentsForDownload"}
              THEN starting ELSE @]
        /\ UNCHANGED <<serverVars, restarts>>

Receive(d) ==
    /\ call[d].at = "replied"
    /\ Continue(d, TRUE, call[d].list)
    /\ call' = [call EXCEPT ![d] = NoCall]
    /\ UNCHANGED <<lost, orphans>>

\* The call fails before the server sees it, or its answer breaks off.
Break(d) ==
    /\ \/ call[d].at = "called" /\ Continue(d, FALSE, <<>>)
       \/ /\ call[d].at = "replied" /\ (call[d].list # <<>> \/ call[d].rpc = "Handshake")
          /\ \E n \in 0..Len(call[d].list) - 1 \cup {0} :
                Continue(d, FALSE, SubSeq(call[d].list, 1, n))
    /\ call' = [call EXCEPT ![d] = NoCall]
    /\ lost' = (lost \/ call[d].rpc # "Handshake")
    /\ UNCHANGED orphans

\* The server goes on with a call that nobody waits for any more.
Orphaned(d) ==
    /\ call[d].at \in {"called", "give", "task"} /\ call[Orphan(d)] = NoCall
    /\ orphans' = orphans + 1
    /\ call' = [call EXCEPT ![d] = NoCall, ![Orphan(d)] = call[d]]

\* The connection breaks, and the daemon gives the call up that the server has begun
\* with or will begin with.
GiveUp(d) ==
    /\ restarts + orphans < MaxFaults
    /\ Orphaned(d) /\ Continue(d, FALSE, <<>>)
    /\ lost' = TRUE

\* UpdateTorrentTask reports one torrent after the other; each is copied field by
\* field, the link first ...
CopyLink(d) ==
    /\ call[d] = NoCall /\ reports[d] # <<>>
    /\ LET t == Head(reports[d])
           link == torrents[d][t] \in {"GENERATED", "DOWNLOADING", "DOWNLOADED"}
           info == [id |-> t, link |-> link, status |-> "NONE"]
       IN  call' = [call EXCEPT ![d] = NewCall("UpdateTorrentStatus", "copy", info)]
    /\ reports' = [reports EXCEPT ![d] = Tail(@)]
    /\ UNCHANGED <<serverVars, line, deffered, torrents, history>>

\* ... and the status next.
CopyStatus(d) ==
    /\ call[d].at = "copy"
    /\ LET info == [call[d].info EXCEPT !.status = torrents[d][call[d].info.id]]
       IN  call' = [call EXCEPT ![d] = NewCall("UpdateTorrentStatus", "called", info)]
    /\ UNCHANGED <<serverVars, daemonVars, history>>

\* A deferred task joins the line.
Timer(d, ty) ==
    /\ ty \in deffered[d]
    /\ deffered' = [deffered EXCEPT ![d] = @ \ {ty}]
    /\ line' = [line EXCEPT ![d] = Append(@, ty)]
    /\ UNCHANGED <<serverVars, call, reports, torrents, history>>

\* A torrent that hashing has failed for stays GENERATING, one without peers
\* DOWNLOADING.  One that is GENERATED is taken back when it cannot be added.
TorrentEnds(d, t) ==
    /\ \E end \in {<<"GENERATING", "GENERATED">>, <<"GENERATING", "GENERATION_ERROR">>,
                   <<"GENERATED", "GENERATION_ERROR">>,
                   <<"DOWNLOADING", "DOWNLOADED">>, <<"DOWNLOADING", "DOWNLOADING_ERROR">>} :
          torrents[d][t] = end[1] /\ torrents' = [torrents EXCEPT ![d][t] = end[2]]
    /\ UNCHANGED <<serverVars, call, line, deffered, reports, history>>

\* The daemon's child is replaced, and knows nothing but its uuid.  The server may go
\* on with the call it died in.
Restart(d) ==
    /\ restarts + orphans < MaxFaults /\ restarts' = restarts + 1
    /\ \/ Orphaned(d)
       \/ /\ call[d].at \notin {"give", "task"} /\ UNCHANGED orphans
          /\ call' = [call EXCEPT ![d] = NoCall]
    /\ line' = [line EXCEPT ![d] = <<"MAKE_HANDSHAKE">>]
    /\ deffered' = [deffered EXCEPT ![d] = {}]
    /\ reports' = [reports EXCEPT ![d] = <<>>]
    /\ torrents' = [torrents EXCEPT ![d] = [t \in Torrents |-> "NONE"]]
    /\ lost' = TRUE
    /\ UNCHANGED serverVars

WorkerStep(d) == RunTask(d) \/ CopyLink(d) \/ CopyStatus(d)

----------------------------------------------------------------------------
\* One call holds mtxTDownload and wants mtxTDeque, another one the other way round.
LocksCross ==
    \E j, k \in Slots : call[j].at = "task" /\ call[k].at = "give" /\ torrentDeque # <<>>

Next ==
    \/ \E d \in Daemons :
          \/ \E k \in {d, Orphan(d)} : ServerStep(d, k)
          \/ WorkerStep(d) \/ Receive(d) \/ Break(d) \/ GiveUp(d) \/ Restart(d)
          \/ \E ty \in DOMAIN Stub : Timer(d, ty)
          \/ \E t \in Torrents : TorrentEnds(d, t)
    \/ LocksCross /\ UNCHANGED vars      \* for good: the server never answers again

Spec == Init /\ [][Next]_vars

----------------------------------------------------------------------------
\* What the server asks for, and what a daemon defers.
ServerTasks == {"GENERATE_MAGENT", "UPDATE_TORRENT_STATUS", "DOWNLOAD_TORRENT"}
DefferedTypes == {"MAKE_HANDSHAKE", "UPDATE_TASK_LIST", "UPDATE_TORRENT_STATUS"}

Status == {"NONE", "GENERATING", "GENERATED", "GENERATION_ERROR",
           "DOWNLOADING", "DOWNLOADED", "DOWNLOADING_ERROR"}

Rpcs == {"Handshake", "GetTaskList", "GetInfoForGenerateTorrents",
         "GetTorrentsForUpdateStatus", "UpdateTorrentStatus", "GetTorrentsForDownload"}

\* A call goes through tasks, or through torrents or daemons.
Calls(rpcs, lists) ==
    [rpc  : rpcs,
     at   : {"none", "copy", "called", "give", "task", "replied"},
     info : [id : Torrents \cup {0}, link : BOOLEAN, status : Status],
     list : lists]

TypeOK ==
    /\ uuids \subseteq Daemons /\ isFirst \in BOOLEAN /\ made \in 0..MaxTorrents
    /\ torrentDeque \in Seq(Torrents)
    /\ tasks \in [Daemons -> Seq(ServerTasks)]
    /\ t2DownloadMap \in [Daemons -> SUBSET Torrents]
    /\ t2UpdateMap \in [Daemons -> SUBSET Torrents]
    /\ call \in [Slots -> Calls({"GetTaskList"}, Seq(ServerTasks))
                            \cup Calls((Rpcs \cup {"none"}) \ {"GetTaskList"}, Seq(Nat))]
    /\ line \in [Daemons -> Seq(ServerTasks \cup DefferedTypes)]
    /\ deffered \in [Daemons -> SUBSET DefferedTypes]
    /\ reports \in [Daemons -> Seq(Torrents)]
    /\ torrents \in [Daemons -> [Torrents -> Status]]
    /\ lost \in BOOLEAN /\ orphans \in 0..MaxFaults /\ restarts \in 0..MaxFaults

\* The two locks are taken in both orders, and yet no two calls wait for each other:
\* with one torrent, passed on once, there is nothing in the deque when something is on
\* a download list.  That holds as long as the server does not go on with a call that
\* its daemon gave up: an orphaned report may pass the torrent on a second time.
LocksDoNotCross == orphans = 0 => ~LocksCross

\* Where a task of a type is on its way: at the server, in an answer, at the daemon.
OnItsWay(d, ty) ==
    \/ \E i \in DOMAIN tasks[d] : tasks[d][i] = ty
    \/ call[d].rpc = "GetTaskList" /\ \E i \in DOMAIN call[d].list : call[d].list[i] = ty
    \/ \E i \in DOMAIN line[d] : line[d][i] = ty
    \/ ty \in deffered[d] \/ call[d].rpc = Stub[ty]

\* As long as no answer is lost or cut off, no torrent is left on a list of the server without
\* a task that will ask for it: a torn report of a generation ends one of the two
\* tasks that report, never both.
NothingStranded ==
    ~lost => \A d \in Daemons :
        /\ t2DownloadMap[d] # {} => OnItsWay(d, "DOWNLOAD_TORRENT")
        /\ t2UpdateMap[d] # {} =>
              OnItsWay(d, "UPDATE_TORRENT_STATUS") \/ reports[d] # <<>>
              \/ call[d].rpc \in {"UpdateTorrentStatus", "GetTorrentsForDownload"}

Count(ty, s) == Cardinality({i \in DOMAIN s : s[i] = ty})

\* Tasks to report do not pile up: a daemon that does not restart, and whose calls end
\* with it, has at most two.
TwoReportTasks ==
    restarts = 0 /\ orphans = 0 => \A d \in Daemons :
        Count("UPDATE_TORRENT_STATUS", tasks[d] \o line[d]) <= 2

\* Unless an answer was lost, a torrent that a daemon has generated gets lost nowhere
\* on its way to another one: off the daemon's update list, it is on a download list, in
\* an answer or at another daemon, or it waits in the deque, and then for a daemon that
\* has yet to shake hands or that is being given it.
GeneratedIsPassedOn ==
    ~lost => \A d \in Daemons, t \in Torrents :
        torrents[d][t] = "GENERATED" /\ t \notin t2UpdateMap[d] =>
            \/ /\ \E i \in DOMAIN torrentDeque : torrentDeque[i] = t
               /\ \A e \in uuids \ {d} : \E c \in Daemons :
                     call[c].at = "give" /\ \E i \in DOMAIN call[c].list : call[c].list[i] = e
            \/ \E e \in Daemons \ {d} :
                  \/ t \in t2DownloadMap[e] \/ torrents[e][t] # "NONE"
                  \/ /\ call[e].rpc = "GetTorrentsForDownload"
                     /\ \E i \in DOMAIN call[e].list : call[e].list[i] = t
=============================================================================
