---------------------------- MODULE TorrentProofs ----------------------------
(***************************************************************************)
(* Proofs about Torrent for any torrents, names, generator threads, levels *)
(* of the folder and pieces: its types, what a GENERATED record can be     *)
(* relied on for, that alerts find their torrent, that the race over files *)
(* is the known one, and that a folder is missing only by the race over it *)
(* or because the system refused to make it.                               *)
(***************************************************************************)
EXTENDS Torrent, SequenceTheorems, WellFoundedInduction, TLAPS

(***************************************************************************)
(* The inductive invariant, part by part.                                  *)
(***************************************************************************)

GenPc == {"none", "start", "hash", "hashProgress", "written", "link", "progress", "status",
          "add", "insert", "done", "error", "errorProgress"} \cup Writing
WorkerPc == {"idle", "generated?", "downloading", "folder", "mkdir", "add", "insert", "error",
             "errorProgress", "copyStatus", "report"}
HandlerPc == {"idle", "finished", "finishedProgress", "error", "errorProgress"} \cup Writing
Alert == [kind : {"added", "metadata", "metadataFailed", "finished", "error"}, id : Ids]

\* The type invariant, with the places of the threads.
RecordsOK ==
    /\ infoList \in [Ids -> InfoType] /\ snap \in InfoType
    /\ hashFailed \in SUBSET Ids /\ load \in Loads /\ terminated \in BOOLEAN
ThreadsOK ==
    /\ gen \in [Generators -> [pc : GenPc, id : Ids \cup {Nobody}, piece : 0..Pieces]]
    /\ workerPc \in WorkerPc /\ workerId \in Ids \cup {Nobody}
    /\ handlerPc \in HandlerPc /\ handlerId \in Ids \cup {Nobody}
SharedOK ==
    /\ torrentsIdList \in SUBSET Ids
    /\ listMtx \in {"free", "worker"} \cup Generators
    /\ alerts \in Seq(Alert)
    /\ session \in [Ids -> {"none", "adding", "added", "retrying", "ready", "finished", "failed"}]
DiskOK ==
    /\ files \in SUBSET Names
    /\ folder \in 0..Levels /\ level \in [Makers -> 0..Levels] /\ refused \in BOOLEAN

Types == RecordsOK /\ ThreadsOK /\ SharedOK /\ DiskOK

\* Generators work on torrents to generate, one each and for good; the handler and
\* the downloads of the worker never touch those.
GenPlaces ==
    \A g \in Generators :
        /\ gen[g].pc = "none" => gen[g].id = Nobody
        /\ gen[g].pc # "none" => gen[g].id \in Generated
        /\ gen[g].pc \in {"none", "start", "hash", "hashProgress"} => gen[g].piece < Pieces
CallPlaces ==
    /\ workerPc # "idle" => workerId \in Ids
    /\ workerPc = "generated?" => workerId \in Generated
    /\ workerPc \in {"downloading", "folder", "mkdir", "add", "insert", "error", "errorProgress"} =>
          workerId \notin Generated
    /\ handlerPc # "idle" => handlerId \in Ids \ Generated /\ alerts # <<>>
    /\ \A i \in 1..Len(alerts) : alerts[i].kind = "metadata" => alerts[i].id \notin Generated

Places == GenPlaces /\ CallPlaces

\* The link is there before the status that promises it.
LinkFirst ==
    /\ GeneratedHasLink
    /\ \A g \in Generators :
          gen[g].pc \in {"progress", "status"} => infoList[gen[g].id].link

\* Whoever is between the two insertions of AddTorrent holds the lock, and what the
\* session knows is in the map or about to be.
Inserting(id) ==
    \/ workerPc = "insert" /\ workerId = id
    \/ \E g \in Generators : gen[g].pc = "insert" /\ gen[g].id = id
ListLocked ==
    /\ workerPc = "insert" <=> listMtx = "worker"
    /\ \A g \in Generators : gen[g].pc = "insert" <=> listMtx = g
    /\ \A id \in Ids : session[id] # "none" => id \in torrentsIdList \/ Inserting(id)
    /\ \A i \in 1..Len(alerts) : session[alerts[i].id] # "none"

\* With one writer per name, a file that is about to be removed is there.
OneWriter ==
    \/ \E id \in Ids : SharesName(id) \/ GeneratedTwice(id)
    \/ /\ ~terminated
       /\ \A g \in Generators : gen[g].pc = "remove" => nameOf[gen[g].id] \in files
       /\ handlerPc = "remove" => nameOf[handlerId] \in files

\* Where a thread that writes a torrent file is.
WriterPc(w) == IF w = "handler" THEN handlerPc ELSE gen[w].pc

\* It does not wait for the folder any more, or will not after its next mkdir.
GaveUp(w) ==
    \/ WriterPc(w) \in {"exists", "remove", "write"}
    \/ WriterPc(w) = "mkdir" /\ level[w] <= folder

\* It makes the next level, or will look for it.
Making(w) ==
    \/ WriterPc(w) = "folder"
    \/ WriterPc(w) = "mkdir" /\ level[w] = folder + 1

\* Unless a mkdir was refused, the levels that the worker could make are there, and as
\* long as another one is missing, a thread that gave up leaves one that goes on.
FolderInHand ==
    /\ \A w \in Writers : WriterPc(w) = "mkdir" => level[w] \in 1..(folder + 1)
    /\ workerPc = "mkdir" => level["worker"] \in 1..Shared
    /\ ~refused => folder >= Shared
    /\ ~refused /\ folder < Levels /\ (\E w \in Writers : GaveUp(w)) =>
          \E w \in Writers : Making(w)

\* The one generator of a GENERATED torrent has nothing to do but to add it.
Published == {"add", "insert", "done", "error", "errorProgress"}
GeneratorIsDone ==
    \A id \in Generated :
        infoList[id].status = "GENERATED" =>
            \E g \in Generators : gen[g].id = id /\ gen[g].pc \in Published

Inv == Types /\ Places /\ LinkFirst /\ ListLocked /\ OneWriter /\ FolderInHand
       /\ GeneratorIsDone

(***************************************************************************)
(* Lemmas about numbers, alerts and files.                                 *)
(***************************************************************************)

LEMMA Smallest ==
    ASSUME NEW T \in SUBSET Nat, T # {}
    PROVE  \E x \in T : \A y \in T : x <= y
<1>1. PICK x \in T : \A y \in T : ~ (<<y, x>> \in OpToRel(<, Nat))
    BY NatLessThanWellFounded, WFMin, Zenon
<1>2. \A y \in T : y < x => <<y, x>> \in OpToRel(<, Nat)
    BY DEF OpToRel
<1>3. \A y \in T : ~(y < x)
    BY <1>1, <1>2, Zenon
<1>4. \A y \in T : ~(y < x) => x <= y
    OBVIOUS
<1> QED
    BY <1>3, <1>4, Zenon

\* A progress in per cent.
LEMMA Percent ==
    ASSUME NEW n \in Nat \ {0}, NEW p \in 0..n
    PROVE  (p * 100) \div n \in 0..100
    OBVIOUS

\* GetIdByName finds a torrent of the map that is not generated here, or nobody.
LEMMA FoundByName ==
    ASSUME torrentsIdList \in SUBSET Ids, NEW name
    PROVE  GetIdByName(name) = Nobody \/ GetIdByName(name) \in torrentsIdList \ Generated
<1> DEFINE found == {id \in torrentsIdList \ Generated : nameOf[id] = name}
<1>1. found \in SUBSET Nat
    BY IdsAssumption
<1>2. ASSUME found # {}
      PROVE  (CHOOSE id \in found : \A o \in found : id <= o) \in found
    <2>1. \E id \in found : \A o \in found : id <= o
        BY <1>1, <1>2, Smallest
    <2> QED
        BY <2>1, Zenon
<1>3. GetIdByName(name) = IF found = {} THEN Nobody
                          ELSE CHOOSE id \in found : \A o \in found : id <= o
    BY DEF GetIdByName
<1>4. found \subseteq torrentsIdList \ Generated
    OBVIOUS
<1> HIDE DEF found
<1> QED
    BY <1>2, <1>3, <1>4, Zenon

\* An alert is handled or posted.
LEMMA AlertsLeft ==
    ASSUME NEW q \in Seq(Alert), q # <<>>
    PROVE  /\ Head(q) \in Alert /\ Head(q) = q[1] /\ Len(q) \in Nat \ {0}
           /\ Tail(q) \in Seq(Alert) /\ Len(Tail(q)) = Len(q) - 1
           /\ \A i \in 1..Len(Tail(q)) : i + 1 \in 1..Len(q) /\ Tail(q)[i] = q[i + 1]
    OBVIOUS

LEMMA AlertIds ==
    ASSUME NEW q \in Seq(Alert), NEW i \in 1..Len(q)
    PROVE  q[i].id \in Ids
<1>1. q[i] \in Alert
    OBVIOUS
<1> QED
    BY <1>1 DEF Alert

LEMMA AlertPosted ==
    ASSUME NEW q \in Seq(Alert), NEW a \in Alert
    PROVE  /\ Append(q, a) \in Seq(Alert) /\ Append(q, a) # <<>>
           /\ \A i \in 1..Len(Append(q, a)) :
                 Append(q, a)[i] = a \/ (i \in 1..Len(q) /\ Append(q, a)[i] = q[i])
    OBVIOUS

\* The steps of a write lead from one place to the next.
LEMMA WriteGoesOn ==
    ASSUME NEW th, NEW pc \in Writing, NEW name, folder \in Nat, level[th] \in Nat
    PROVE  /\ WriteTorrentNext(th, pc, name) \in Writing \cup {"written"}
           /\ WriteTorrentNext(th, pc, name) = "written" <=> pc = "write"
           /\ WriteTorrentNext(th, pc, name) = "remove" <=> (pc = "exists" /\ name \in files)
           /\ WriteTorrentNext(th, pc, name) = "folder" =>
                 pc = "mkdir" /\ folder < level[th] /\ level[th] # Levels
           /\ WriteTorrentNext(th, pc, name) = "mkdir" <=> pc = "folder" /\ folder # Levels
           /\ pc = "folder" /\ folder = Levels => WriteTorrentNext(th, pc, name) = "exists"
    BY DEF WriteTorrentNext, Writing

(***************************************************************************)
(* The steps.                                                              *)
(***************************************************************************)

GenSteps == \E g \in Generators : GenStep(g)
Calls == \E id \in Ids : CallGenerate(id) \/ CallDownload(id) \/ CallUpdate(id)
SessionSteps == \E id \in Ids : SessionProgress(id) \/ SessionError(id)

LEMMA Steps ==
    [Next]_vars => GenSteps \/ Calls \/ WorkerStep \/ HandlerStep \/ SessionSteps
                   \/ UNCHANGED vars
    BY DEF Next, GenSteps, Calls, SessionSteps

\* The session's steps are all of one kind.
LEMMA SessionStep ==
    ASSUME SessionSteps
    PROVE  \E id \in Ids, from \in SUBSET {"adding", "added", "retrying", "ready"},
              to \in {"added", "retrying", "ready", "finished", "failed"},
              kind \in {"added", "metadata", "metadataFailed", "finished", "error"} :
              SessionPosts(id, from, to, kind) /\ (kind = "metadata" => id \notin Generated)
    BY DEF SessionSteps, SessionProgress, SessionError

\* What a setter of TorrentInfo changes, and what it leaves alone.
LEMMA Setters ==
    ASSUME infoList \in [Ids -> InfoType], NEW id \in Ids
    PROVE  /\ \A s \in Status : SetStatus(id, s) =>
                 /\ infoList' \in [Ids -> InfoType]
                 /\ \A o \in Ids : infoList'[o].link = infoList[o].link
                 /\ infoList'[id].status = s
                 /\ \A o \in Ids \ {id} : infoList'[o].status = infoList[o].status
           /\ \A p \in 0..100 : SetProgress(id, p) =>
                 /\ infoList' \in [Ids -> InfoType]
                 /\ \A o \in Ids : infoList'[o].link = infoList[o].link
                 /\ \A o \in Ids : infoList'[o].status = infoList[o].status
           /\ SetLink(id) =>
                 /\ infoList' \in [Ids -> InfoType]
                 /\ \A o \in Ids \ {id} : infoList'[o].link = infoList[o].link
                 /\ infoList'[id].link = TRUE
                 /\ \A o \in Ids : infoList'[o].status = infoList[o].status
<1> USE DEF InfoType
<1>1. ASSUME NEW s \in Status, SetStatus(id, s)
      PROVE  /\ infoList' \in [Ids -> InfoType]
             /\ \A o \in Ids : infoList'[o].link = infoList[o].link
             /\ infoList'[id].status = s
             /\ \A o \in Ids \ {id} : infoList'[o].status = infoList[o].status
    BY <1>1 DEF SetStatus
<1>2. ASSUME NEW p \in 0..100, SetProgress(id, p)
      PROVE  /\ infoList' \in [Ids -> InfoType]
             /\ \A o \in Ids : infoList'[o].link = infoList[o].link
             /\ \A o \in Ids : infoList'[o].status = infoList[o].status
    BY <1>2 DEF SetProgress
<1>3. ASSUME SetLink(id)
      PROVE  /\ infoList' \in [Ids -> InfoType]
             /\ \A o \in Ids \ {id} : infoList'[o].link = infoList[o].link
             /\ infoList'[id].link = TRUE
             /\ \A o \in Ids : infoList'[o].status = infoList[o].status
    BY <1>3, ZenonT(30) DEF SetLink
<1> QED
    BY <1>1, <1>2, <1>3

\* The copy of a record, field by field.
LEMMA InfoFields ==
    /\ Info \in InfoType
    /\ \A r, q \in InfoType :
          /\ [r EXCEPT !.link = q.link] \in InfoType
          /\ [r EXCEPT !.status = q.status] \in InfoType
<1>1. ASSUME NEW r \in InfoType, NEW q \in InfoType
      PROVE  /\ [r EXCEPT !.link = q.link] \in InfoType
             /\ [r EXCEPT !.status = q.status] \in InfoType
    BY DEF InfoType
<1> QED
    BY <1>1 DEF Info, InfoType, Status

LEMMA Values ==
    /\ "GENERATING" \in Status /\ "GENERATED" \in Status /\ "GENERATION_ERROR" \in Status
    /\ "DOWNLOADING" \in Status /\ "DOWNLOADED" \in Status /\ "DOWNLOADING_ERROR" \in Status
    /\ 0 \in 0..100 /\ 100 \in 0..100
    BY DEF Status

\* The names of the torrents.
LEMMA NamesOK ==
    ASSUME load \in Loads
    PROVE  load.ids \subseteq Ids /\ load.threads \subseteq Generators
           /\ \A id \in Ids : nameOf[id] \in Names
    BY LoadsAssumption DEF nameOf

LEMMA InitTypes == Init => Types
<1> SUFFICES ASSUME Init PROVE Types
    OBVIOUS
<1> USE DEF Init
<1>1. Info \in InfoType
    BY DEF Info, InfoType, Status
<1>2. RecordsOK
    BY <1>1 DEF RecordsOK
<1>3. ThreadsOK
    BY PiecesAssumption DEF ThreadsOK, GenPc, WorkerPc, HandlerPc
<1>4. SharedOK
    BY DEF SharedOK
<1>5. DiskOK
    <2>1. {nameOf[id] : id \in load.ids} \subseteq Names
        BY NamesOK
    <2> QED
        BY <2>1, LevelsAssumption DEF DiskOK
<1> QED
    BY <1>2, <1>3, <1>4, <1>5 DEF Types

LEMMA NextRecords ==
    ASSUME Types, Places, [Next]_vars
    PROVE  RecordsOK'
<1> USE DEF RecordsOK, listVars, diskVars, history, workerVars, handlerVars
<1>0. /\ RecordsOK
      /\ \A g \in Generators : gen[g].pc # "none" => gen[g].id \in Ids
      /\ \A g \in Generators : gen[g].piece \in 0..Pieces
      /\ workerPc # "idle" => workerId \in Ids
      /\ handlerPc # "idle" => handlerId \in Ids
    BY IdsAssumption DEF Types, Places, ThreadsOK, GenPlaces, CallPlaces
<1> USE <1>0
<1>1. CASE GenSteps
    <2> SUFFICES ASSUME NEW g \in Generators, GenStep(g) PROVE RecordsOK'
        BY <1>1 DEF GenSteps
    <2> USE DEF GenAt, genOthers
    <2>1. CASE GenPieceProgress(g)
        <3>1. (gen[g].piece * 100) \div Pieces \in 0..100
            BY PiecesAssumption, Percent
        <3> QED
            BY <2>1, <3>1, Setters DEF GenPieceProgress
    <2>2. CASE GenStart(g) \/ GenPieceStatus(g)
        BY <2>2, Setters, Values DEF GenStart, GenPieceStatus
    <2>3. CASE GenHashFails(g) \/ GenReadBack(g)
        BY <2>3 DEF GenHashFails, GenReadBack
    <2>4. CASE GenWrite(g) \/ GenMkdirRefused(g)
        BY <2>4 DEF GenWrite, GenMkdirRefused, WriteTorrentDisk
    <2>5. CASE GenPublish(g)
        BY <2>5, Setters, Values DEF GenPublish
    <2>6. CASE GenError(g)
        BY <2>6, Setters, Values DEF GenError
    <2>7. CASE GenAddFails(g) \/ GenAdd(g) \/ GenInsert(g)
        BY <2>7 DEF GenAddFails, GenAdd, GenInsert
    <2> QED
        BY <2>1, <2>2, <2>3, <2>4, <2>5, <2>6, <2>7 DEF GenStep
<1>2. CASE Calls
    <2> SUFFICES ASSUME NEW id \in Ids, CallGenerate(id) \/ CallDownload(id) \/ CallUpdate(id)
                 PROVE  RecordsOK'
        BY <1>2 DEF Calls
    <2>1. CASE CallGenerate(id)
        BY <2>1 DEF CallGenerate, workerOthers, workerRest
    <2>2. CASE CallDownload(id)
        BY <2>2, Setters DEF CallDownload, workerOthers, workerRest
    <2>3. CASE CallUpdate(id)
        <3>1. Info \in InfoType /\ infoList[id] \in InfoType
            BY InfoFields
        <3>2. [Info EXCEPT !.link = infoList[id].link] \in InfoType
            BY <3>1, InfoFields, Zenon
        <3> QED
            BY <2>3, <3>2 DEF CallUpdate, workerOthers, workerRest
    <2> QED
        BY <2>1, <2>2, <2>3
<1>3. CASE WorkerStep
    <2> USE DEF workerOthers, workerRest
    <2>1. CASE CreateTorrentAsync \/ DownloadFolder \/ DownloadAdd \/ DownloadInsert
        BY <2>1 DEF CreateTorrentAsync, DownloadFolder, DownloadAdd, DownloadInsert
    <2>2. CASE DownloadAsync
        BY <2>2, Setters, Values DEF DownloadAsync
    <2>3. CASE Copy
        BY <2>3, InfoFields DEF Copy
    <2>4. CASE Report
        BY <2>4, InfoFields DEF Report
    <2> QED
        BY <1>3, <2>1, <2>2, <2>3, <2>4 DEF WorkerStep
<1>4. CASE HandlerStep
    <2> USE DEF handlerOthers
    <2>1. CASE HandleLookup \/ HandleMetadata \/ HandleMetadataFailed
        BY <2>1 DEF HandleLookup, HandleMetadata, HandleMetadataFailed
    <2>2. CASE HandleFinished
        BY <2>2, Setters, Values DEF HandleFinished
    <2>3. CASE HandleError
        BY <2>3, Setters, Values DEF HandleError
    <2>4. CASE HandlerWrite \/ HandlerMkdirRefused
        BY <2>4 DEF HandlerWrite, HandlerMkdirRefused, WriteTorrentDisk
    <2> QED
        BY <1>4, <2>1, <2>2, <2>3, <2>4 DEF HandlerStep
<1>5. CASE SessionSteps
    BY <1>5, SessionStep DEF SessionPosts
<1>6. CASE UNCHANGED vars
    BY <1>6 DEF vars
<1> QED
    BY <1>1, <1>2, <1>3, <1>4, <1>5, <1>6, Steps

(***************************************************************************)
(* Where the threads are.                                                  *)
(***************************************************************************)

GenType == [pc : GenPc, id : Ids \cup {Nobody}, piece : 0..Pieces]

LEMMA GenMoves ==
    ASSUME gen \in [Generators -> GenType], NEW g \in Generators, NEW to \in GenPc
    PROVE  GenGoto(g, to) =>
              /\ gen' \in [Generators -> GenType]
              /\ gen'[g].pc = to /\ gen'[g].id = gen[g].id /\ gen'[g].piece = gen[g].piece
              /\ \A h \in Generators \ {g} : gen'[h] = gen[h]
    BY DEF GenGoto, GenType

LEMMA GenNames ==
    /\ Writing \subseteq GenPc /\ Writing \subseteq HandlerPc
    /\ "start" \in GenPc /\ "hash" \in GenPc /\ "hashProgress" \in GenPc /\ "written" \in GenPc
    /\ "link" \in GenPc /\ "progress" \in GenPc /\ "status" \in GenPc /\ "add" \in GenPc
    /\ "insert" \in GenPc /\ "done" \in GenPc /\ "error" \in GenPc /\ "errorProgress" \in GenPc
    /\ "folder" \in Writing /\ "mkdir" \in Writing /\ "exists" \in Writing
    /\ "remove" \in Writing /\ "write" \in Writing
    /\ \A pc \in Writing : pc \notin {"none", "start", "hash", "hashProgress", "written",
                                      "link", "progress", "status"} \cup Published
    BY DEF GenPc, HandlerPc, Writing, Published

\* A step of a generator moves that generator only, and keeps its torrent.
LEMMA GenFrame ==
    ASSUME Types, Places, NEW g \in Generators, GenStep(g)
    PROVE  /\ gen' \in [Generators -> GenType]
           /\ \A h \in Generators \ {g} : gen'[h] = gen[h]
           /\ gen[g].pc # "none" /\ gen'[g].pc # "none"
           /\ gen'[g].id = gen[g].id /\ gen[g].id \in Generated /\ gen[g].id \in Ids
           /\ gen'[g].pc \in {"start", "hash", "hashProgress"} => gen'[g].piece < Pieces
           /\ UNCHANGED <<workerVars, handlerVars, load>>
<1>0. /\ gen \in [Generators -> GenType] /\ folder \in Nat /\ level[g] \in Nat
      /\ gen[g].pc # "none" => gen[g].id \in Generated /\ gen[g].id \in Ids
      /\ gen[g].pc \in {"start", "hash", "hashProgress"} => gen[g].piece < Pieces
      /\ gen[g].piece \in 0..Pieces
    <2>1. folder \in Nat /\ level[g] \in Nat
        BY LevelsAssumption DEF Types, DiskOK, Writers, Makers
    <2>2. gen \in [Generators -> GenType]
        BY DEF Types, ThreadsOK, GenType
    <2> QED
        BY <2>1, <2>2, IdsAssumption DEF Places, GenPlaces, GenType
<1> USE <1>0, GenNames DEF GenAt, genOthers, history
<1>1. CASE GenStart(g) \/ GenPieceStatus(g)
    BY <1>1, GenMoves DEF GenStart, GenPieceStatus
<1>2. CASE GenPieceProgress(g)
    <2> DEFINE next == gen[g].piece + 1
    <2>1. PICK to \in {"hash", "folder", "error"} :
             /\ gen' = [gen EXCEPT ![g].piece = next, ![g].pc = to]
             /\ to = "hash" => next < Pieces
        BY <1>2 DEF GenPieceProgress
    <2>2. gen[g].pc = "hashProgress" /\ UNCHANGED <<workerVars, handlerVars, load>>
        BY <1>2 DEF GenPieceProgress
    <2>3. next \in 0..Pieces /\ to \in GenPc
        BY <2>2, PiecesAssumption
    <2> HIDE DEF next
    <2>4. /\ gen' \in [Generators -> GenType] /\ gen'[g].id = gen[g].id
          /\ gen'[g].pc = to /\ gen'[g].piece = next
          /\ \A h \in Generators \ {g} : gen'[h] = gen[h]
        BY <2>1, <2>3 DEF GenType
    <2> QED
        BY <2>1, <2>2, <2>4
<1>3. CASE GenHashFails(g) \/ GenReadBack(g)
    BY <1>3, GenMoves DEF GenHashFails, GenReadBack
<1>8. CASE GenMkdirRefused(g)
    BY <1>8, GenMoves DEF GenMkdirRefused
<1>4. CASE GenWrite(g)
    <2> DEFINE to == WriteTorrentNext(g, gen[g].pc, nameOf[gen[g].id])
    <2>1. gen[g].pc \in Writing /\ GenGoto(g, to) /\ UNCHANGED <<workerVars, handlerVars, load>>
        BY <1>4 DEF GenWrite
    <2>2. to \in Writing \cup {"written"}
        BY <2>1, WriteGoesOn
    <2> HIDE DEF to
    <2> QED
        BY <2>1, <2>2, GenMoves
<1>5. CASE GenPublish(g)
    BY <1>5, GenMoves DEF GenPublish
<1>6. CASE GenError(g)
    BY <1>6, GenMoves DEF GenError
<1>7. CASE GenAddFails(g) \/ GenAdd(g) \/ GenInsert(g)
    BY <1>7, GenMoves DEF GenAddFails, GenAdd, GenInsert
<1> QED
    BY <1>1, <1>2, <1>3, <1>4, <1>5, <1>6, <1>7, <1>8 DEF GenStep

\* CreateTorrentAsync starts a thread that was not running, for a torrent to generate,
\* or none.
LEMMA ThreadStarts ==
    ASSUME Types, Places, CreateTorrentAsync
    PROVE  \/ gen' = gen
           \/ /\ infoList[workerId].status # "GENERATED" /\ workerId \in Generated
              /\ \E g \in Generators :
                    /\ gen[g].pc = "none"
                    /\ gen' = [gen EXCEPT ![g].pc = "start", ![g].id = workerId]
<1>1. CASE UNCHANGED gen
    BY <1>1
<1>2. CASE /\ infoList[workerId].status # "GENERATED"
           /\ \E g \in load.threads : GenAt(g, "none")
           /\ gen' = [gen EXCEPT ![CHOOSE h \in load.threads : GenAt(h, "none")].pc = "start",
                                 ![CHOOSE h \in load.threads : GenAt(h, "none")].id = workerId]
    <2> DEFINE g == CHOOSE h \in load.threads : GenAt(h, "none")
    <2>1. g \in load.threads /\ GenAt(g, "none")
        BY <1>2, Zenon
    <2>2. load.threads \subseteq Generators
        BY NamesOK DEF Types, RecordsOK
    <2>3. workerId \in Generated
        BY DEF CreateTorrentAsync, Places, CallPlaces
    <2>4. gen' = [gen EXCEPT ![g].pc = "start", ![g].id = workerId]
        BY <1>2
    <2> HIDE DEF g
    <2> QED
        BY <1>2, <2>1, <2>2, <2>3, <2>4 DEF GenAt
<1> QED
    BY <1>1, <1>2 DEF CreateTorrentAsync

\* No step but those of generators and CreateTorrentAsync moves a generator.
LEMMA GenStays ==
    ASSUME Calls \/ (WorkerStep /\ ~CreateTorrentAsync) \/ HandlerStep \/ SessionSteps
           \/ UNCHANGED vars
    PROVE  gen' = gen
<1>1. CASE Calls
    BY <1>1 DEF Calls, CallGenerate, CallDownload, CallUpdate
<1>2. CASE WorkerStep /\ ~CreateTorrentAsync
    BY <1>2 DEF WorkerStep, DownloadAsync, DownloadFolder, DownloadAdd, DownloadInsert, Copy, Report
<1>3. CASE HandlerStep
    BY <1>3 DEF HandlerStep, HandleLookup, HandleFinished, HandleError, HandleMetadata, HandleMetadataFailed,
                HandlerWrite, HandlerMkdirRefused, handlerOthers
<1>4. CASE SessionSteps
    BY <1>4, SessionStep DEF SessionPosts
<1>5. CASE UNCHANGED vars
    BY <1>5 DEF vars
<1> QED
    BY <1>1, <1>2, <1>3, <1>4, <1>5

LEMMA NextGen ==
    ASSUME Types, Places, [Next]_vars
    PROVE  gen' \in [Generators -> GenType] /\ GenPlaces'
<1>0. /\ gen \in [Generators -> GenType] /\ GenPlaces /\ "start" \in GenPc
    BY GenNames DEF Types, Places, ThreadsOK, GenType
<1>1. CASE GenSteps
    <2> SUFFICES ASSUME NEW g \in Generators, GenStep(g)
                 PROVE  gen' \in [Generators -> GenType] /\ GenPlaces'
        BY <1>1 DEF GenSteps
    <2> QED
        BY <1>0, GenFrame DEF GenPlaces
<1>2. CASE CreateTorrentAsync
    <2>1. workerId \in Generated /\ workerId \in Ids
        BY <1>2, IdsAssumption DEF CreateTorrentAsync, Places, CallPlaces
    <2>2. ASSUME NEW g \in Generators, gen[g].pc = "none",
                 gen' = [gen EXCEPT ![g].pc = "start", ![g].id = workerId]
          PROVE  gen' \in [Generators -> GenType] /\ GenPlaces'
        BY <1>0, <2>1, <2>2 DEF GenType, GenPlaces
    <2>3. CASE gen' = gen
        BY <2>3, <1>0 DEF GenPlaces
    <2> QED
        BY <1>2, <2>2, <2>3, ThreadStarts
<1>3. CASE gen' = gen
    BY <1>3, <1>0 DEF GenPlaces
<1> QED
    BY <1>1, <1>2, <1>3, Steps, GenStays

\* The places of worker and handler, and the alerts.
LEMMA NextCalls ==
    ASSUME Types, Places, [Next]_vars
    PROVE  ThreadsOK' /\ CallPlaces' /\ alerts' \in Seq(Alert)
<1> DEFINE Goal == /\ workerPc' \in WorkerPc /\ workerId' \in Ids \cup {Nobody}
                   /\ handlerPc' \in HandlerPc /\ handlerId' \in Ids \cup {Nobody}
                   /\ alerts' \in Seq(Alert) /\ CallPlaces'
<1>0. /\ workerPc \in WorkerPc /\ workerId \in Ids \cup {Nobody}
      /\ handlerPc \in HandlerPc /\ handlerId \in Ids \cup {Nobody}
      /\ alerts \in Seq(Alert) /\ CallPlaces /\ torrentsIdList \in SUBSET Ids
      /\ Generated \subseteq Ids
    BY IdsAssumption DEF Types, Places, ThreadsOK, SharedOK
<1>1. CASE GenSteps
    <2>1. UNCHANGED <<workerVars, handlerVars>>
        BY <1>1, GenFrame DEF GenSteps
    <2> QED
        BY <2>1, <1>0, NextGen DEF ThreadsOK, GenType, CallPlaces, workerVars, handlerVars
<1>2. ASSUME Calls \/ WorkerStep PROVE Goal
    <2>1. UNCHANGED handlerVars
        BY <1>2 DEF Calls, CallGenerate, CallDownload, CallUpdate, WorkerStep,
            CreateTorrentAsync, DownloadAsync, DownloadFolder, DownloadAdd, DownloadInsert, Copy,
            Report, workerOthers, workerRest
    <2>2. /\ workerPc' \in WorkerPc /\ workerId' \in Ids \cup {Nobody}
          /\ workerPc' # "idle" => workerId' \in Ids
          /\ workerPc' = "generated?" => workerId' \in Generated
          /\ workerPc' \in {"downloading", "folder", "mkdir", "add", "insert", "error",
                          "errorProgress"} =>
                workerId' \notin Generated
        <3> USE <1>0 DEF CallPlaces, WorkerPc
        <3>1. CASE Calls
            BY <3>1 DEF Calls, CallGenerate, CallDownload, CallUpdate
        <3>2. CASE WorkerStep
            BY <3>2 DEF WorkerStep, CreateTorrentAsync, DownloadAsync, DownloadFolder, DownloadAdd,
                DownloadInsert, Copy, Report, WorkerGoto, WorkerDone
        <3> QED
            BY <1>2, <3>1, <3>2
    <2> QED
        BY <2>1, <2>2, <1>0 DEF CallPlaces, handlerVars
<1>3. ASSUME HandlerStep PROVE Goal
    <2>1. UNCHANGED workerVars
        BY <1>3 DEF HandlerStep, HandleLookup, HandleFinished, HandleError, HandleMetadata, HandleMetadataFailed,
                    HandlerWrite, HandlerMkdirRefused, handlerOthers
    <2>2. alerts' = alerts \/ (alerts # <<>> /\ alerts' = Tail(alerts) /\ handlerPc' = "idle"
                               /\ handlerId' = Nobody)
        BY <1>3, <1>0 DEF HandlerStep, HandleLookup, HandleFinished, HandleError, HandleMetadata, HandleMetadataFailed,
                    HandlerWrite, HandlerMkdirRefused, AlertDone, HandlerGoto, CallPlaces, Writing
    <2>3. /\ alerts' \in Seq(Alert)
          /\ \A i \in 1..Len(alerts') : alerts'[i].kind = "metadata" => alerts'[i].id \notin Generated
        <3>1. CASE alerts' = alerts
            BY <3>1, <1>0 DEF CallPlaces
        <3>2. CASE alerts # <<>> /\ alerts' = Tail(alerts)
            BY <3>2, <1>0, AlertsLeft DEF CallPlaces
        <3> QED
            BY <2>2, <3>1, <3>2
    <2>4. /\ handlerPc' \in HandlerPc /\ handlerId' \in Ids \cup {Nobody}
          /\ handlerPc' # "idle" => handlerId' \in Ids \ Generated /\ alerts' # <<>>
        <3>1. CASE HandleLookup
            <4>1. alerts # <<>> /\ Head(alerts) \in Alert
                BY <3>1, <1>0, AlertsLeft DEF HandleLookup
            <4>2. Head(alerts).kind \in {"added", "metadata", "metadataFailed", "finished", "error"}
                BY <4>1 DEF Alert
            <4>3. \/ GetIdByName(nameOf[Head(alerts).id]) = Nobody
                  \/ GetIdByName(nameOf[Head(alerts).id]) \in Ids \ Generated
                BY <1>0, FoundByName
            <4> QED
                BY <3>1, <4>1, <4>2, <4>3, <1>0 DEF HandleLookup, AlertDone, HandlerPc
        <3>2. CASE HandleFinished \/ HandleError
            BY <3>2, <1>0 DEF HandleFinished, HandleError, AlertDone, HandlerGoto, CallPlaces,
                              HandlerPc
        <3>3. CASE HandleMetadata
            <4>1. alerts # <<>> /\ Head(alerts) \in Alert /\ Head(alerts) = alerts[1]
                  /\ 1 \in 1..Len(alerts)
                BY <3>3, <1>0, AlertsLeft DEF HandleMetadata
            <4>2. Head(alerts).id \in Ids \ Generated
                BY <3>3, <4>1, <1>0 DEF HandleMetadata, CallPlaces, Alert
            <4> QED
                BY <3>3, <4>1, <4>2, GenNames DEF HandleMetadata
        <3>5. CASE HandleMetadataFailed
            BY <3>5 DEF HandleMetadataFailed, AlertDone, HandlerPc
        <3>4. CASE HandlerWrite
            <4> DEFINE to == WriteTorrentNext("handler", handlerPc, nameOf[handlerId])
            <4>0. folder \in Nat /\ level["handler"] \in Nat
                BY LevelsAssumption DEF Types, DiskOK, Writers, Makers
            <4>1. handlerPc \in Writing /\ to \in Writing \cup {"written"}
                  /\ (to = "written" <=> handlerPc = "write")
                BY <3>4, <4>0, WriteGoesOn DEF HandlerWrite
            <4>2. AlertDone \/ (handlerPc # "write" /\ HandlerGoto(to))
                BY <3>4 DEF HandlerWrite
            <4>3. handlerPc # "idle" /\ "idle" \in HandlerPc
                BY <4>1, GenNames DEF HandlerPc, Writing
            <4> HIDE DEF to
            <4> QED
                BY <4>1, <4>2, <4>3, <1>0, GenNames DEF AlertDone, HandlerGoto, CallPlaces
        <3>6. CASE HandlerMkdirRefused
            BY <3>6, <1>0 DEF HandlerMkdirRefused, HandlerGoto, CallPlaces, HandlerPc, Writing
        <3> QED
            BY <1>3, <3>1, <3>2, <3>3, <3>4, <3>5, <3>6 DEF HandlerStep
    <2> QED
        BY <2>1, <2>3, <2>4, <1>0 DEF CallPlaces, workerVars
<1>4. ASSUME SessionSteps PROVE Goal
    <2>1. PICK id \in Ids, from \in SUBSET {"adding", "added", "retrying", "ready"},
               to \in {"added", "retrying", "ready", "finished", "failed"},
               kind \in {"added", "metadata", "metadataFailed", "finished", "error"} :
             SessionPosts(id, from, to, kind) /\ (kind = "metadata" => id \notin Generated)
        BY <1>4, SessionStep
    <2> DEFINE a == [kind |-> kind, id |-> id]
    <2>2. a \in Alert /\ a.kind = kind /\ a.id = id
        BY DEF Alert
    <2>3. alerts' = Append(alerts, a) /\ UNCHANGED <<workerVars, handlerPc, handlerId>>
        BY <2>1 DEF SessionPosts
    <2> HIDE DEF a
    <2> QED
        BY <2>1, <2>2, <2>3, <1>0, AlertPosted DEF CallPlaces, workerVars
<1>5. ASSUME UNCHANGED vars PROVE Goal
    BY <1>5, <1>0 DEF vars, CallPlaces, workerVars, handlerVars
<1>6. Goal => ThreadsOK' /\ CallPlaces' /\ alerts' \in Seq(Alert)
    BY NextGen DEF ThreadsOK, GenType
<1> QED
    BY <1>1, <1>2, <1>3, <1>4, <1>5, <1>6, Steps

(***************************************************************************)
(* The lock over both insertions of AddTorrent.                            *)
(***************************************************************************)

\* A generator that does not add its torrent leaves the list and the session alone.
LEMMA GenOutsideList ==
    ASSUME Types, Places, NEW g \in Generators, GenStep(g), ~GenAdd(g), ~GenInsert(g)
    PROVE  gen[g].pc # "insert" /\ gen'[g].pc # "insert" /\ UNCHANGED <<listVars, session>>
<1>0. /\ gen \in [Generators -> GenType] /\ folder \in Nat /\ level[g] \in Nat
    BY LevelsAssumption DEF Types, ThreadsOK, DiskOK, GenType, Writers, Makers
<1> USE <1>0, GenNames DEF GenAt, genOthers, Published
<1>1. CASE GenStart(g) \/ GenPieceStatus(g)
    BY <1>1, GenMoves DEF GenStart, GenPieceStatus
<1>2. CASE GenPieceProgress(g)
    BY <1>2 DEF GenPieceProgress, GenType
<1>3. CASE GenHashFails(g) \/ GenReadBack(g)
    BY <1>3, GenMoves DEF GenHashFails, GenReadBack
<1>4. CASE GenWrite(g)
    <2>1. PICK to \in Writing \cup {"written"} : GenGoto(g, to)
        BY <1>4, WriteGoesOn DEF GenWrite
    <2>2. gen[g].pc \in Writing /\ UNCHANGED <<listVars, session>>
        BY <1>4 DEF GenWrite
    <2> QED
        BY <2>1, <2>2, GenMoves
<1>5. CASE GenPublish(g)
    BY <1>5, GenMoves DEF GenPublish
<1>6. CASE GenError(g)
    BY <1>6, GenMoves DEF GenError
<1>7. CASE GenAddFails(g) \/ GenMkdirRefused(g)
    BY <1>7, GenMoves DEF GenAddFails, GenMkdirRefused
<1> QED
    BY <1>1, <1>2, <1>3, <1>4, <1>5, <1>6, <1>7 DEF GenStep

\* async_add_torrent knows the torrent afterwards, and forgets none.
LEMMA Adds ==
    ASSUME session \in [Ids -> {"none", "adding", "added", "retrying", "ready", "finished", "failed"}],
           NEW id \in Ids, AsyncAdd(id)
    PROVE  /\ session' \in [Ids -> {"none", "adding", "added", "retrying", "ready", "finished", "failed"}]
           /\ session'[id] # "none"
           /\ \A o \in Ids \ {id} : session'[o] = session[o]
    BY DEF AsyncAdd

LEMMA NextList ==
    ASSUME Types, Places, ListLocked, [Next]_vars
    PROVE  SharedOK' /\ ListLocked'
<1>0. /\ SharedOK /\ ListLocked /\ gen \in [Generators -> GenType]
      /\ "free" \notin Generators /\ "worker" \notin Generators
    BY GeneratorsAssumption DEF Types, ThreadsOK, GenType
<1>a. alerts' \in Seq(Alert)
    BY NextCalls
<1>1. CASE GenSteps
    <2> SUFFICES ASSUME NEW g \in Generators, GenStep(g) PROVE SharedOK' /\ ListLocked'
        BY <1>1 DEF GenSteps
    <2>0. /\ \A h \in Generators \ {g} : gen'[h] = gen[h]
          /\ gen'[g].id = gen[g].id /\ gen[g].id \in Ids
          /\ workerPc' = workerPc /\ workerId' = workerId /\ alerts' = alerts
        BY GenFrame DEF workerVars, handlerVars
    <2>1. CASE GenAdd(g)
        <3>1. /\ gen[g].pc = "add" /\ gen'[g].pc = "insert" /\ listMtx = "free" /\ listMtx' = g
              /\ torrentsIdList' = torrentsIdList /\ AsyncAdd(gen[g].id)
            BY <2>1, <1>0, GenMoves, GenNames DEF GenAdd, GenAt
        <3>2. \A h \in Generators : gen[h].pc # "insert"
            BY <3>1, <1>0 DEF ListLocked
        <3>3. workerPc # "insert"
            BY <3>1, <1>0 DEF ListLocked
        <3>4. /\ session' \in [Ids -> {"none", "adding", "added", "retrying", "ready", "finished", "failed"}]
              /\ session'[gen[g].id] # "none"
              /\ \A o \in Ids \ {gen[g].id} : session'[o] = session[o]
            BY <3>1, <2>0, <1>0, Adds DEF SharedOK
        <3>5. \A i \in 1..Len(alerts') : session'[alerts'[i].id] # "none"
            BY <3>4, <2>0, <1>0, AlertIds DEF ListLocked, SharedOK
        <3>6. \A id \in Ids : session'[id] # "none" => id \in torrentsIdList' \/ Inserting(id)'
            <4> SUFFICES ASSUME NEW id \in Ids, session'[id] # "none"
                         PROVE  id \in torrentsIdList' \/ Inserting(id)'
                OBVIOUS
            <4>1. CASE id = gen[g].id
                BY <4>1, <3>1, <2>0 DEF Inserting
            <4>2. CASE id # gen[g].id
                BY <4>2, <3>1, <3>2, <3>3, <3>4, <1>0 DEF Inserting, ListLocked
            <4> QED
                BY <4>1, <4>2
        <3> QED
            BY <3>1, <3>2, <3>3, <3>4, <3>5, <3>6, <2>0, <1>0, <1>a DEF ListLocked, SharedOK
    <2>2. CASE GenInsert(g)
        <3>1. /\ gen[g].pc = "insert" /\ gen'[g].pc = "done" /\ listMtx = g /\ listMtx' = "free"
              /\ torrentsIdList' = torrentsIdList \cup {gen[g].id} /\ session' = session
            BY <2>2, <1>0, GenMoves, GenNames DEF GenInsert, GenAt, ListLocked
        <3> QED
            BY <3>1, <2>0, <1>0, <1>a DEF ListLocked, SharedOK, Inserting
    <2>3. CASE ~GenAdd(g) /\ ~GenInsert(g)
        <3>1. gen[g].pc # "insert" /\ gen'[g].pc # "insert" /\ UNCHANGED <<listVars, session>>
            BY <2>3, GenOutsideList
        <3> QED
            BY <3>1, <2>0, <1>0, <1>a DEF ListLocked, SharedOK, Inserting, listVars
    <2> QED
        BY <2>1, <2>2, <2>3
<1>2. CASE DownloadAdd
    <2>1. /\ workerPc = "add" /\ workerPc' = "insert" /\ listMtx = "free" /\ listMtx' = "worker"
          /\ torrentsIdList' = torrentsIdList /\ AsyncAdd(workerId) /\ workerId' = workerId
          /\ alerts' = alerts /\ gen' = gen /\ workerId \in Ids
        BY <1>2 DEF DownloadAdd, WorkerGoto, workerOthers, workerRest, handlerVars, Places, CallPlaces
    <2>2. \A h \in Generators : gen[h].pc # "insert"
        BY <2>1, <1>0 DEF ListLocked
    <2>3. /\ session' \in [Ids -> {"none", "adding", "added", "retrying", "ready", "finished", "failed"}]
          /\ session'[workerId] # "none"
          /\ \A o \in Ids \ {workerId} : session'[o] = session[o]
        BY <2>1, <1>0, Adds DEF SharedOK
    <2>4. \A i \in 1..Len(alerts') : session'[alerts'[i].id] # "none"
        BY <2>1, <2>3, <1>0, AlertIds DEF ListLocked, SharedOK
    <2>5. \A id \in Ids : session'[id] # "none" => id \in torrentsIdList' \/ Inserting(id)'
        BY <2>1, <2>2, <2>3, <1>0 DEF Inserting, ListLocked
    <2> QED
        BY <2>1, <2>2, <2>3, <2>4, <2>5, <1>0, <1>a DEF ListLocked, SharedOK
<1>3. CASE DownloadInsert
    <2>1. /\ workerPc = "insert" /\ workerPc' = "idle" /\ listMtx = "worker" /\ listMtx' = "free"
          /\ torrentsIdList' = torrentsIdList \cup {workerId} /\ session' = session
          /\ alerts' = alerts /\ gen' = gen /\ workerId \in Ids
        BY <1>3, <1>0 DEF DownloadInsert, WorkerDone, workerOthers, workerRest, handlerVars, Places, CallPlaces,
                    ListLocked
    <2> QED
        BY <2>1, <1>0, <1>a DEF ListLocked, SharedOK, Inserting
<1>4. CASE Calls \/ (WorkerStep /\ ~DownloadAdd /\ ~DownloadInsert)
    <2>1. /\ workerPc # "insert" /\ workerPc' # "insert"
          /\ alerts' = alerts /\ UNCHANGED <<listVars, session>>
        BY <1>4 DEF Calls, CallGenerate, CallDownload, CallUpdate, WorkerStep, CreateTorrentAsync,
            DownloadAsync, DownloadFolder, Copy, Report, workerOthers, workerRest, WorkerGoto,
            WorkerDone, handlerVars
    <2>2. \A g \in Generators : /\ gen[g].pc = "insert" <=> gen'[g].pc = "insert"
                                /\ gen[g].pc = "insert" => gen'[g].id = gen[g].id
        <3>1. CASE CreateTorrentAsync
            BY <3>1, <1>0, ThreadStarts DEF GenType
        <3>2. CASE ~CreateTorrentAsync
            BY <3>2, <1>4, GenStays
        <3> QED
            BY <3>1, <3>2
    <2> QED
        BY <2>1, <2>2, <1>0, <1>a DEF ListLocked, SharedOK, Inserting, listVars
<1>5. CASE HandlerStep
    <2>1. /\ UNCHANGED <<listVars, workerVars, session>> /\ gen' = gen
          /\ alerts' = alerts \/ (alerts # <<>> /\ alerts' = Tail(alerts))
        BY <1>5 DEF HandlerStep, HandleLookup, HandleFinished, HandleError, HandleMetadata, HandleMetadataFailed,
            HandlerWrite, HandlerMkdirRefused, handlerOthers, AlertDone, HandlerGoto, Places, CallPlaces, Writing
    <2>2. \A i \in 1..Len(alerts') : session'[alerts'[i].id] # "none"
        <3>1. CASE alerts' = alerts
            BY <3>1, <2>1, <1>0 DEF ListLocked
        <3>2. CASE alerts # <<>> /\ alerts' = Tail(alerts)
            BY <3>2, <2>1, <1>0, AlertsLeft DEF ListLocked, SharedOK
        <3> QED
            BY <2>1, <3>1, <3>2
    <2> QED
        BY <2>1, <2>2, <1>0, <1>a DEF ListLocked, SharedOK, Inserting, listVars, workerVars
<1>6. CASE SessionSteps
    <2>1. PICK id \in Ids, from \in SUBSET {"adding", "added", "retrying", "ready"},
               to \in {"added", "retrying", "ready", "finished", "failed"},
               kind \in {"added", "metadata", "metadataFailed", "finished", "error"} :
             SessionPosts(id, from, to, kind)
        BY <1>6, SessionStep
    <2>2. /\ session[id] # "none" /\ session' = [session EXCEPT ![id] = to]
          /\ alerts' = Append(alerts, [kind |-> kind, id |-> id])
          /\ UNCHANGED <<listVars, workerVars>> /\ gen' = gen
        BY <2>1 DEF SessionPosts
    <2>3. /\ session' \in [Ids -> {"none", "adding", "added", "retrying", "ready", "finished", "failed"}]
          /\ \A o \in Ids : session'[o] = "none" <=> session[o] = "none"
        BY <2>2, <1>0 DEF SharedOK
    <2>4. \A i \in 1..Len(alerts') : session'[alerts'[i].id] # "none"
        <3> DEFINE a == [kind |-> kind, id |-> id]
        <3>1. a \in Alert /\ a.id = id /\ alerts \in Seq(Alert) /\ alerts' = Append(alerts, a)
            BY <2>2, <1>0 DEF Alert, SharedOK
        <3> HIDE DEF a
        <3>2. \A i \in 1..Len(alerts') : alerts'[i] = a \/ (i \in 1..Len(alerts) /\ alerts'[i] = alerts[i])
            BY <3>1, AlertPosted
        <3>3. \A i \in 1..Len(alerts) : alerts[i].id \in Ids /\ session[alerts[i].id] # "none"
            BY <3>1, <1>0, AlertIds DEF ListLocked
        <3> QED
            BY <3>1, <3>2, <3>3, <2>2, <2>3
    <2> QED
        BY <2>2, <2>3, <2>4, <1>0, <1>a DEF ListLocked, SharedOK, Inserting, listVars, workerVars
<1>7. CASE UNCHANGED vars
    BY <1>7, <1>0 DEF vars, ListLocked, SharedOK, Inserting, listVars, workerVars, handlerVars
<1> QED
    BY <1>1, <1>2, <1>3, <1>4, <1>5, <1>6, <1>7, Steps DEF WorkerStep

(***************************************************************************)
(* What a GENERATED record promises.                                       *)
(***************************************************************************)

\* A step keeps the promises of the records: links stay, and a torrent becomes
\* GENERATED only with its link, by a generator that is done; ...
RecordsKeep ==
    \A o \in Ids :
        /\ infoList[o].link = TRUE => infoList'[o].link = TRUE
        /\ infoList'[o].status = "GENERATED" =>
              \/ infoList[o].status = "GENERATED"
              \/ /\ infoList[o].link = TRUE
                 /\ \E g \in Generators : gen'[g].id = o /\ gen'[g].pc \in Published

\* ... a generator comes to setting the status by setting the link, and one that is
\* done goes back on it only with the status.
GenKeeps(g) ==
    /\ gen'[g].pc \in {"progress", "status"} =>
          \/ gen'[g].id \in Ids /\ infoList'[gen'[g].id].link = TRUE
          \/ gen[g].pc \in {"progress", "status"} /\ gen'[g].id = gen[g].id
    /\ gen[g].pc \in Published =>
          (gen'[g].pc \in Published /\ gen'[g].id = gen[g].id)

LEMMA PromisesKept ==
    ASSUME LinkFirst, GeneratorIsDone, RecordsKeep, \A g \in Generators : GenKeeps(g),
           infoList \in [Ids -> InfoType], infoList' \in [Ids -> InfoType],
           \A g \in Generators : gen[g].pc \in {"progress", "status"} => gen[g].id \in Ids
    PROVE  LinkFirst' /\ GeneratorIsDone'
<1>0. \A id \in Ids : infoList[id].link \in BOOLEAN /\ infoList'[id].link \in BOOLEAN
    BY DEF InfoType
<1>1. ASSUME NEW id \in Ids, infoList'[id].status = "GENERATED"
      PROVE  infoList'[id].link
    BY <1>1, <1>0 DEF LinkFirst, GeneratedHasLink, RecordsKeep
<1>2. ASSUME NEW g \in Generators, gen'[g].pc \in {"progress", "status"}
      PROVE  infoList'[gen'[g].id].link
    BY <1>2, <1>0 DEF LinkFirst, RecordsKeep, GenKeeps
<1>3. ASSUME NEW id \in Generated, infoList'[id].status = "GENERATED"
      PROVE  \E g \in Generators : gen'[g].id = id /\ gen'[g].pc \in Published
    BY <1>3, IdsAssumption DEF GeneratorIsDone, RecordsKeep, GenKeeps
<1> QED
    BY <1>1, <1>2, <1>3 DEF LinkFirst, GeneratorIsDone, GeneratedHasLink

LEMMA NextPromises ==
    ASSUME Types, Places, LinkFirst, GeneratorIsDone, [Next]_vars
    PROVE  LinkFirst' /\ GeneratorIsDone'
<1>0. /\ infoList \in [Ids -> InfoType] /\ gen \in [Generators -> GenType]
      /\ Generated \subseteq Ids
      /\ \A g \in Generators : gen[g].pc \in {"progress", "status"} => gen[g].id \in Ids
    BY IdsAssumption DEF Types, RecordsOK, ThreadsOK, GenType, Places, GenPlaces
<1>a. RecordsKeep /\ (\A g \in Generators : GenKeeps(g)) => LinkFirst' /\ GeneratorIsDone'
    <2>1. infoList' \in [Ids -> InfoType]
        BY NextRecords DEF RecordsOK
    <2> QED
        BY <2>1, <1>0, PromisesKept
<1>1. CASE GenSteps
    <2> SUFFICES ASSUME NEW g \in Generators, GenStep(g) PROVE RecordsKeep /\ GenKeeps(g)
        <3>1. ASSUME NEW g \in Generators, GenStep(g), NEW h \in Generators \ {g} PROVE GenKeeps(h)
            BY <3>1, GenFrame DEF GenKeeps
        <3> QED
            BY <1>1, <1>a, <3>1 DEF GenSteps
    <2> DEFINE id == gen[g].id
    <2>0. gen'[g].id = id /\ id \in Ids
        BY GenFrame
    <2>w. folder \in Nat /\ level[g] \in Nat
        BY LevelsAssumption DEF Types, DiskOK, Writers, Makers
    <2>r. infoList' = infoList => RecordsKeep
        BY DEF RecordsKeep
    <2>p. \A p \in 0..100 : SetProgress(id, p) => RecordsKeep
        BY <2>0, <1>0, Setters DEF RecordsKeep
    <2>s. \A s \in Status \ {"GENERATED"} : SetStatus(id, s) => RecordsKeep
        BY <2>0, <1>0, Setters, ZenonT(30) DEF RecordsKeep
    <2> HIDE DEF id
    <2>1. CASE GenStart(g) \/ GenPieceStatus(g)
        <3>1. SetStatus(id, "GENERATING") /\ gen[g].pc \notin Published
              /\ gen'[g].pc \notin {"progress", "status"}
            BY <2>1, <1>0, GenMoves, GenNames DEF GenStart, GenPieceStatus, GenAt, Published, id
        <3> QED
            BY <3>1, <2>s, Values DEF GenKeeps
    <2>2. CASE GenPieceProgress(g)
        <3>1. SetProgress(id, (gen[g].piece * 100) \div Pieces) /\ gen[g].pc \notin Published
              /\ gen'[g].pc \notin {"progress", "status"}
            BY <2>2, <1>0 DEF GenPieceProgress, GenAt, GenType, Published, id
        <3>2. (gen[g].piece * 100) \div Pieces \in 0..100
            BY <1>0, PiecesAssumption, Percent DEF GenType
        <3> QED
            BY <3>1, <3>2, <2>p DEF GenKeeps
    <2>3. CASE GenHashFails(g) \/ GenReadBack(g) \/ GenAddFails(g) \/ GenAdd(g) \/ GenInsert(g)
        <3>1. /\ infoList' = infoList /\ gen'[g].pc \notin {"progress", "status"}
              /\ gen[g].pc \in Published => gen'[g].pc \in Published
            BY <2>3, <1>0, GenMoves, GenNames
            DEF GenHashFails, GenReadBack, GenAddFails, GenAdd, GenInsert, GenAt, Published
        <3> QED
            BY <3>1, <2>0, <2>r DEF GenKeeps, id
    <2>10. CASE GenMkdirRefused(g)
        <3>1. /\ infoList' = infoList /\ gen'[g].pc \notin {"progress", "status"}
              /\ gen[g].pc \notin Published
            BY <2>10, <1>0, GenMoves, GenNames DEF GenMkdirRefused, GenAt
        <3> QED
            BY <3>1, <2>r DEF GenKeeps
    <2>4. CASE GenWrite(g)
        <3>1. PICK to \in Writing \cup {"written"} : GenGoto(g, to)
            BY <2>4, <2>w, WriteGoesOn DEF GenWrite
        <3>2. /\ infoList' = infoList /\ gen'[g].pc \notin {"progress", "status"}
              /\ gen[g].pc \notin Published
            BY <2>4, <3>1, <1>0, GenMoves, GenNames DEF GenWrite
        <3> QED
            BY <3>2, <2>r DEF GenKeeps
    <2>5. CASE GenAt(g, "link") /\ SetLink(id) /\ GenGoto(g, "progress")
        <3>1. gen[g].pc = "link" /\ gen'[g].pc = "progress"
            BY <2>5, <1>0, GenMoves, GenNames DEF GenAt
        <3>2. infoList'[id].link = TRUE /\ RecordsKeep
            BY <2>5, <2>0, <1>0, Setters DEF RecordsKeep
        <3> QED
            BY <3>1, <3>2, <2>0 DEF GenKeeps, Published
    <2>6. CASE GenAt(g, "progress") /\ SetProgress(id, 100) /\ GenGoto(g, "status")
        <3>1. gen[g].pc = "progress" /\ gen'[g].pc = "status"
            BY <2>6, <1>0, GenMoves, GenNames DEF GenAt
        <3> QED
            BY <3>1, <2>6, <2>0, <2>p, Values DEF GenKeeps, Published, id
    <2>7. CASE GenAt(g, "status") /\ SetStatus(id, "GENERATED") /\ GenGoto(g, "add")
        <3>1. gen[g].pc = "status" /\ gen'[g].pc = "add"
            BY <2>7, <1>0, GenMoves, GenNames DEF GenAt
        <3>2. infoList[id].link = TRUE
            BY <3>1, <2>0, <1>0 DEF LinkFirst, id, InfoType
        <3>3. RecordsKeep
            BY <3>1, <3>2, <2>7, <2>0, <1>0, Setters, Values DEF RecordsKeep, Published
        <3> QED
            BY <3>1, <3>3, <2>0 DEF GenKeeps, Published
    <2>8. CASE GenAt(g, "error") /\ SetStatus(id, "GENERATION_ERROR") /\ GenGoto(g, "errorProgress")
        <3>1. gen[g].pc = "error" /\ gen'[g].pc = "errorProgress"
            BY <2>8, <1>0, GenMoves, GenNames DEF GenAt
        <3> QED
            BY <3>1, <2>8, <2>0, <2>s, Values DEF GenKeeps, Published, id
    <2>9. CASE GenAt(g, "errorProgress") /\ SetProgress(id, 0) /\ GenGoto(g, "done")
        <3>1. gen[g].pc = "errorProgress" /\ gen'[g].pc = "done"
            BY <2>9, <1>0, GenMoves, GenNames DEF GenAt
        <3> QED
            BY <3>1, <2>9, <2>0, <2>p, Values DEF GenKeeps, Published, id
    <2> QED
        BY <2>1, <2>2, <2>3, <2>4, <2>5, <2>6, <2>7, <2>8, <2>9, <2>10
        DEF GenStep, GenPublish, GenError, id
<1>g. gen' = gen => \A g \in Generators : GenKeeps(g)
    BY DEF GenKeeps
<1>2. ASSUME gen' = gen, NEW id \in Ids,
             \/ \E s \in Status \ {"GENERATED"} : SetStatus(id, s)
             \/ \E p \in 0..100 : SetProgress(id, p)
             \/ SetLink(id)
      PROVE  LinkFirst' /\ GeneratorIsDone'
    <2>1. RecordsKeep
        BY <1>2, <1>0, Setters DEF RecordsKeep
    <2> QED
        BY <1>2, <2>1, <1>a, <1>g
<1>3. CASE CreateTorrentAsync
    <2>1. RecordsKeep
        BY <1>3 DEF CreateTorrentAsync, RecordsKeep
    <2>2. \A g \in Generators : \/ gen'[g] = gen[g]
                                \/ gen[g].pc = "none" /\ gen'[g].pc = "start"
        BY <1>3, <1>0, ThreadStarts DEF GenType
    <2>3. \A g \in Generators : GenKeeps(g)
        BY <2>2 DEF GenKeeps, Published
    <2> QED
        BY <2>1, <2>3, <1>a
<1>4. CASE DownloadAsync
    <2>1. workerId \in Ids /\ gen' = gen
        BY <1>4 DEF DownloadAsync, Places, CallPlaces
    <2>2. \/ \E s \in Status \ {"GENERATED"} : SetStatus(workerId, s)
          \/ \E p \in 0..100 : SetProgress(workerId, p)
        BY <1>4, Values DEF DownloadAsync
    <2> QED
        BY <2>1, <2>2, <1>2
<1>5. CASE \E id \in Ids : CallDownload(id)
    BY <1>5, <1>2 DEF CallDownload
<1>6. CASE HandleFinished \/ HandleError
    <2>1. handlerId \in Ids /\ gen' = gen
        BY <1>6 DEF HandleFinished, HandleError, Places, CallPlaces, handlerOthers
    <2>2. \/ \E s \in Status \ {"GENERATED"} : SetStatus(handlerId, s)
          \/ \E p \in 0..100 : SetProgress(handlerId, p)
        BY <1>6, Values DEF HandleFinished, HandleError
    <2> QED
        BY <2>1, <2>2, <1>2
<1>7. CASE infoList' = infoList /\ gen' = gen
    BY <1>7, <1>a, <1>g DEF RecordsKeep
<1>8. CASE SessionSteps
    BY <1>8, <1>7, SessionStep DEF SessionPosts
<1>9. CASE Calls \/ WorkerStep \/ HandlerStep \/ UNCHANGED vars
    BY <1>9, <1>3, <1>4, <1>5, <1>6, <1>7
    DEF Calls, CallGenerate, CallUpdate, WorkerStep, DownloadFolder, DownloadAdd, DownloadInsert, Copy,
        Report, HandlerStep, HandleLookup, HandleMetadata, HandleMetadataFailed,
        HandlerWrite, HandlerMkdirRefused, handlerOthers, vars
<1> QED
    BY <1>1, <1>8, <1>9, Steps

(***************************************************************************)
(* Writers of torrent files.                                               *)
(***************************************************************************)

WriterName(w) == IF w = "handler" THEN nameOf[handlerId] ELSE nameOf[gen[w].id]

\* A step of WriteTorrent by w.
WriteStep(w) ==
    /\ WriterPc(w) \in Writing
    /\ WriteTorrentDisk(w, WriterPc(w), WriterName(w))
    /\ \/ WriterPc(w)' = WriteTorrentNext(w, WriterPc(w), WriterName(w))
       \/ WriterPc(w) = "write" /\ WriterPc(w)' \notin Writing
    /\ WriterName(w)' = WriterName(w) \/ WriterPc(w)' \notin Writing
    /\ \A v \in Writers \ {w} : WriterPc(v)' = WriterPc(v) /\ WriterName(v)' = WriterName(v)
    /\ workerPc' = workerPc

\* A mkdir of w that the system refuses.
RefusedStep(w) ==
    /\ WriterPc(w) = "mkdir" /\ MkdirRefused(w) /\ WriterPc(w)' = "exists"
    /\ \A v \in Writers \ {w} : WriterPc(v)' = WriterPc(v)
    /\ \A v \in Writers : WriterName(v)' = WriterName(v)
    /\ UNCHANGED <<terminated, workerPc>>

\* A step of the worker to make the folder of resume data.
FolderStep ==
    /\ DownloadFolder
    /\ \A v \in Writers : WriterPc(v)' = WriterPc(v) /\ WriterName(v)' = WriterName(v)

\* A step that leaves the disk alone; a writer may begin or move outside WriteTorrent.
OtherStep ==
    /\ UNCHANGED diskVars /\ terminated' = terminated
    /\ workerPc' = "mkdir" => workerPc = "mkdir"
    /\ \A w \in Writers : \/ WriterPc(w)' = WriterPc(w) /\ WriterName(w)' = WriterName(w)
                          \/ WriterPc(w) \notin Writing /\ WriterPc(w)' \notin Writing \ {"folder"}

\* Two generators of one torrent, or two torrents of one name.
Crowded == \E id \in Ids : SharesName(id) \/ GeneratedTwice(id)

LEMMA WriterSteps ==
    ASSUME Types, Places, [Next]_vars
    PROVE  (\E w \in Writers : WriteStep(w) \/ RefusedStep(w)) \/ FolderStep \/ OtherStep
<1>0. /\ gen \in [Generators -> GenType] /\ "handler" \notin Generators /\ load \in Loads
      /\ folder \in Nat /\ \A w \in Writers : level[w] \in Nat
    BY GeneratorsAssumption, LevelsAssumption
    DEF Types, ThreadsOK, GenType, DiskOK, RecordsOK, Writers, Makers
<1>1. CASE GenSteps
    <2> SUFFICES ASSUME NEW g \in Generators, GenStep(g)
                 PROVE  (\E w \in Writers : WriteStep(w) \/ RefusedStep(w)) \/ OtherStep
        BY <1>1 DEF GenSteps
    <2>0. /\ \A h \in Generators \ {g} : gen'[h] = gen[h]
          /\ gen'[g].id = gen[g].id /\ load' = load
          /\ handlerPc' = handlerPc /\ handlerId' = handlerId /\ workerPc' = workerPc
        BY GenFrame DEF handlerVars, workerVars
    <2>1. \A v \in Writers \ {g} : WriterPc(v)' = WriterPc(v) /\ WriterName(v)' = WriterName(v)
        BY <2>0, <1>0 DEF Writers, WriterPc, WriterName, nameOf
    <2>2. /\ g \in Writers /\ WriterPc(g) = gen[g].pc /\ WriterPc(g)' = gen'[g].pc
          /\ WriterName(g) = nameOf[gen[g].id] /\ WriterName(g)' = WriterName(g)
        BY <2>0, <1>0 DEF Writers, WriterPc, WriterName, nameOf
    <2>3. CASE GenWrite(g)
        <3>1. PICK to \in Writing \cup {"written"} :
                 GenGoto(g, to) /\ to = WriteTorrentNext(g, gen[g].pc, nameOf[gen[g].id])
            BY <2>3, <1>0, WriteGoesOn DEF GenWrite, Writers
        <3>2. gen'[g].pc = to
            BY <3>1, <1>0, GenMoves, GenNames
        <3>3. gen[g].pc \in Writing /\ WriteTorrentDisk(g, gen[g].pc, nameOf[gen[g].id])
            BY <2>3 DEF GenWrite
        <3>4. WriteStep(g)
            BY <3>1, <3>2, <3>3, <2>0, <2>1, <2>2 DEF WriteStep
        <3> QED
            BY <3>4, <2>2
    <2>5. CASE GenMkdirRefused(g)
        <3>1. gen'[g].pc = "exists"
            BY <2>5, <1>0, GenMoves, GenNames DEF GenMkdirRefused
        <3>2. RefusedStep(g)
            BY <2>5, <3>1, <2>0, <2>1, <2>2 DEF GenMkdirRefused, GenAt, RefusedStep
        <3> QED
            BY <3>2, <2>2
    <2>4. CASE ~GenWrite(g) /\ ~GenMkdirRefused(g)
        <3>1. UNCHANGED diskVars /\ terminated' = terminated
            BY <2>4 DEF GenStep, GenStart, GenPieceStatus, GenPieceProgress, GenHashFails,
                GenReadBack, GenPublish, GenAddFails, GenAdd, GenInsert, GenError
        <3>2. gen[g].pc \notin Writing
            BY <2>4, GenNames DEF GenStep, GenStart, GenPieceStatus, GenPieceProgress, GenHashFails,
                GenReadBack, GenPublish, GenAddFails, GenAdd, GenInsert, GenError, GenAt, Published
        <3>3. gen'[g].pc \notin Writing \ {"folder"}
            <4> USE <1>0, GenNames DEF GenAt, Published
            <4>1. CASE GenStart(g) \/ GenPieceStatus(g)
                BY <4>1, GenMoves DEF GenStart, GenPieceStatus
            <4>2. CASE GenPieceProgress(g)
                BY <4>2 DEF GenPieceProgress, GenType
            <4>3. CASE GenHashFails(g) \/ GenReadBack(g)
                BY <4>3, GenMoves DEF GenHashFails, GenReadBack
            <4>4. CASE GenPublish(g)
                BY <4>4, GenMoves DEF GenPublish
            <4>5. CASE GenError(g)
                BY <4>5, GenMoves DEF GenError
            <4>6. CASE GenAddFails(g) \/ GenAdd(g) \/ GenInsert(g)
                BY <4>6, GenMoves DEF GenAddFails, GenAdd, GenInsert
            <4> QED
                BY <2>4, <4>1, <4>2, <4>3, <4>4, <4>5, <4>6 DEF GenStep
        <3> QED
            BY <3>1, <3>2, <3>3, <2>0, <2>1, <2>2 DEF OtherStep
    <2> QED
        BY <2>3, <2>4, <2>5
<1>2. CASE HandlerStep
    <2>0. gen' = gen /\ load' = load /\ workerPc' = workerPc
        BY <1>2 DEF HandlerStep, HandleLookup, HandleFinished, HandleError, HandleMetadata, HandleMetadataFailed,
                    HandlerWrite, HandlerMkdirRefused, handlerOthers, history, workerVars
    <2>1. \A v \in Writers \ {"handler"} : WriterPc(v)' = WriterPc(v) /\ WriterName(v)' = WriterName(v)
        BY <2>0 DEF WriterPc, WriterName, nameOf
    <2>2. /\ "handler" \in Writers /\ WriterPc("handler") = handlerPc
          /\ WriterPc("handler")' = handlerPc' /\ WriterName("handler") = nameOf[handlerId]
          /\ handlerId' = handlerId => WriterName("handler")' = WriterName("handler")
        BY <2>0 DEF Writers, WriterPc, WriterName, nameOf
    <2>3. CASE HandlerWrite
        <3>1. /\ handlerPc \in Writing
              /\ WriteTorrentDisk("handler", handlerPc, nameOf[handlerId])
              /\ \/ handlerPc = "write" /\ handlerPc' = "idle"
                 \/ /\ handlerPc' = WriteTorrentNext("handler", handlerPc, nameOf[handlerId])
                    /\ handlerId' = handlerId
            BY <2>3 DEF HandlerWrite, AlertDone, HandlerGoto
        <3>2. "idle" \notin Writing
            BY DEF Writing
        <3>3. WriteStep("handler")
            BY <3>1, <3>2, <2>0, <2>1, <2>2 DEF WriteStep
        <3> QED
            BY <3>3, <2>2
    <2>5. CASE HandlerMkdirRefused
        <3>1. RefusedStep("handler")
            BY <2>5, <2>0, <2>1, <2>2 DEF HandlerMkdirRefused, HandlerGoto, RefusedStep
        <3> QED
            BY <3>1, <2>2
    <2>4. CASE HandleLookup \/ HandleFinished \/ HandleError \/ HandleMetadata \/ HandleMetadataFailed
        <3>1. UNCHANGED diskVars /\ terminated' = terminated
            BY <2>4 DEF HandleLookup, HandleFinished, HandleError, HandleMetadata, HandleMetadataFailed
        <3>2. handlerPc \notin Writing
            BY <2>4 DEF HandleLookup, HandleFinished, HandleError, HandleMetadata, HandleMetadataFailed, Writing
        <3>3. handlerPc' \notin Writing \ {"folder"}
            <4>1. CASE HandleLookup
                <5>1. Head(alerts).kind \in {"added", "metadata", "metadataFailed", "finished", "error"}
                    BY <4>1, AlertsLeft DEF HandleLookup, Types, SharedOK, Alert
                <5> QED
                    BY <5>1, <4>1 DEF HandleLookup, AlertDone, Writing
            <4>2. CASE HandleFinished \/ HandleError \/ HandleMetadata \/ HandleMetadataFailed
                BY <4>2 DEF HandleFinished, HandleError, HandleMetadata, HandleMetadataFailed, AlertDone, HandlerGoto,
                            Writing
            <4> QED
                BY <2>4, <4>1, <4>2
        <3> QED
            BY <3>1, <3>2, <3>3, <2>0, <2>1, <2>2 DEF OtherStep
    <2> QED
        BY <1>2, <2>3, <2>4, <2>5 DEF HandlerStep
<1>4. CASE DownloadFolder
    <2>1. UNCHANGED <<gen, handlerPc, handlerId, load>>
        BY <1>4 DEF DownloadFolder, workerRest, history, handlerVars
    <2> QED
        BY <1>4, <2>1 DEF FolderStep, WriterPc, WriterName, nameOf
<1>3. CASE (Calls \/ WorkerStep \/ SessionSteps \/ UNCHANGED vars) /\ ~DownloadFolder
    <2>1. /\ UNCHANGED <<diskVars, handlerPc, handlerId, load, terminated>>
          /\ workerPc' = "mkdir" => workerPc = "mkdir"
        <3>1. CASE SessionSteps
            BY <3>1, SessionStep DEF SessionPosts, history, workerVars
        <3>2. CASE UNCHANGED vars
            BY <3>2 DEF vars, history, handlerVars, workerVars
        <3>3. CASE Calls \/ WorkerStep
            BY <3>3, <1>3 DEF Calls, CallGenerate, CallDownload, CallUpdate, WorkerStep,
                CreateTorrentAsync, DownloadAsync, DownloadAdd, DownloadInsert, Copy,
                Report, workerOthers, workerRest, history, handlerVars, WorkerDone, WorkerGoto
        <3> QED
            BY <1>3, <3>1, <3>2, <3>3
    <2>2. \A g \in Generators : \/ gen'[g] = gen[g]
                                \/ gen[g].pc = "none" /\ gen'[g].pc = "start"
        <3>1. CASE CreateTorrentAsync
            BY <3>1, <1>0, ThreadStarts DEF GenType
        <3>2. CASE ~CreateTorrentAsync
            BY <3>2, <1>3, GenStays
        <3> QED
            BY <3>1, <3>2
    <2> QED
        BY <2>1, <2>2, <1>0 DEF OtherStep, Writers, WriterPc, WriterName, nameOf, Writing
<1> QED
    BY <1>1, <1>2, <1>3, <1>4, Steps

\* What this behaviour is about does not change.
LEMMA LoadStays ==
    ASSUME Types, Places, [Next]_vars
    PROVE  load' = load
<1>1. CASE GenSteps
    BY <1>1, GenFrame DEF GenSteps
<1>2. CASE Calls \/ WorkerStep
    BY <1>2 DEF Calls, CallGenerate, CallDownload, CallUpdate, WorkerStep,
            CreateTorrentAsync, DownloadAsync, DownloadFolder, DownloadAdd, DownloadInsert, Copy,
            Report, workerOthers, workerRest, history
<1>3. CASE HandlerStep
    BY <1>3 DEF HandlerStep, HandleLookup, HandleFinished, HandleError, HandleMetadata,
                HandleMetadataFailed, HandlerWrite, HandlerMkdirRefused, handlerOthers, history
<1>4. CASE SessionSteps
    BY <1>4, SessionStep DEF SessionPosts, history
<1>5. CASE UNCHANGED vars
    BY <1>5 DEF vars, history
<1> QED
    BY <1>1, <1>2, <1>3, <1>4, <1>5, Steps

LEMMA SharedStays ==
    ASSUME Types, Places, [Next]_vars
    PROVE  Shared \in 0..Levels /\ Shared' = Shared
    BY LoadStays, LoadsAssumption DEF Shared, Types, RecordsOK

\* The folder, level by level.
LEMMA NextFolder ==
    ASSUME Types, Places, FolderInHand, [Next]_vars
    PROVE  DiskOK' /\ FolderInHand'
<1>0. /\ DiskOK /\ Levels \in Nat \ {0} /\ folder \in Nat
      /\ \A w \in Writers : level[w] \in Nat
      /\ \A w \in Writers : WriterPc(w) = "mkdir" => level[w] \in 1..(folder + 1)
      /\ Writers \subseteq Makers /\ "worker" \in Makers \ Writers
    BY LevelsAssumption, GeneratorsAssumption DEF Types, DiskOK, FolderInHand, Writers, Makers
<1>s. Shared \in 0..Levels /\ Shared' = Shared
    BY SharedStays
<1>1. CASE OtherStep
    <2>1. UNCHANGED <<folder, level, files, refused>>
        BY <1>1 DEF OtherStep, diskVars
    <2>2. \A w \in Writers : /\ WriterPc(w)' = "mkdir" => WriterPc(w) = "mkdir"
                             /\ GaveUp(w)' => GaveUp(w)
                             /\ Making(w) => Making(w)'
        BY <1>1, <2>1 DEF OtherStep, GaveUp, Making, Writing
    <2> QED
        BY <2>1, <2>2, <1>0, <1>s, <1>1 DEF FolderInHand, DiskOK, OtherStep
<1>2. ASSUME NEW w \in Writers, WriteStep(w) PROVE DiskOK' /\ FolderInHand'
    <2> DEFINE pc == WriterPc(w)
               to == WriterPc(w)'
    <2>0. /\ pc \in Writing /\ CreateFolder(w, pc, Levels)
          /\ \/ to = WriteTorrentNext(w, pc, WriterName(w))
             \/ pc = "write" /\ to \notin Writing
          /\ \A v \in Writers \ {w} : WriterPc(v)' = WriterPc(v)
          /\ refused' = refused /\ workerPc' = workerPc
        BY <1>2 DEF WriteStep, WriteTorrentDisk
    <2>1. /\ to = "mkdir" => pc = "folder" /\ folder # Levels
          /\ pc = "folder" => to = "mkdir" \/ folder = Levels
          /\ pc = "mkdir" => to = IF folder >= level[w] \/ level[w] = Levels THEN "exists" ELSE "folder"
        BY <2>0, <1>0 DEF WriteTorrentNext, Writing
    <2>2. /\ folder' = IF pc = "mkdir" /\ folder < level[w] THEN level[w] ELSE folder
          /\ level' = [level EXCEPT ![w] = IF pc = "folder" /\ folder < Levels THEN folder + 1 ELSE 0]
        BY <2>0 DEF CreateFolder
    <2> HIDE DEF pc, to
    <2>3. /\ pc = "mkdir" => level[w] \in 1..(folder + 1)
          /\ folder' \in 0..Levels /\ folder <= folder' /\ level' \in [Makers -> 0..Levels]
        BY <2>2, <1>0 DEF DiskOK, pc
    <2>4. files' \in SUBSET Names
        <3>1. WriterPc(w) \in Writing => WriterName(w) \in Names
            <4>1. CASE w = "handler"
                BY <4>1, NamesOK DEF WriterPc, WriterName, Writing, Types, RecordsOK, Places,
                                     CallPlaces
            <4>2. CASE w # "handler"
                BY <4>2, NamesOK, IdsAssumption DEF WriterPc, WriterName, Writing, Types, RecordsOK,
                                     Places, GenPlaces, Writers
            <4> QED
                BY <4>1, <4>2
        <3> QED
            BY <3>1, <1>2, <1>0 DEF WriteStep, WriteTorrentDisk, DiskOK
    <2>5. ASSUME NEW v \in Writers, WriterPc(v)' = "mkdir" PROVE level'[v] \in 1..(folder' + 1)
        <3>1. CASE v = w
            BY <3>1, <2>5, <2>1, <2>2, <2>3, <1>0 DEF to, DiskOK
        <3>2. CASE v # w
            BY <3>2, <2>5, <2>0, <2>2, <2>3, <1>0 DEF DiskOK
        <3> QED
            BY <3>1, <3>2
    <2>6. ASSUME folder' < Levels, ~refused, NEW v \in Writers, GaveUp(v)'
          PROVE  \E u \in Writers : Making(u)'
        <3>1. CASE pc = "mkdir" /\ folder < level[w]
            \* w made the level it was at, and looks for the next one
            <4>1. to = "folder"
                BY <3>1, <2>1, <2>2, <2>6, <1>0
            <4> QED
                BY <4>1 DEF Making, to
        <3>2. CASE ~(pc = "mkdir" /\ folder < level[w])
            <4>1. folder' = folder
                BY <3>2, <2>2
            <4>2. \E u \in Writers : GaveUp(u)
                <5>1. CASE v # w
                    BY <5>1, <2>6, <2>0, <2>2, <4>1, <1>0 DEF GaveUp, DiskOK
                <5>2. CASE v = w
                    <6>1. to # "mkdir"
                        <7>1. level'[w] \in 0..Levels /\ (to = "mkdir" => level'[w] = folder + 1)
                            BY <2>1, <2>2, <2>3, <1>0 DEF DiskOK
                        <7>2. to = "mkdir" => ~(level'[w] <= folder)
                            BY <7>1, <1>0
                        <7> QED
                            BY <5>2, <7>2, <4>1, <2>6 DEF GaveUp, to
                    <6>2. to \in {"exists", "remove", "write"}
                        BY <5>2, <6>1, <2>6 DEF GaveUp, to
                    <6>3. pc # "folder"
                        BY <6>1, <2>1, <2>6, <4>1, <1>0
                    <6>4. pc = "mkdir" => level[w] <= folder
                        BY <3>2, <1>0
                    <6>5. GaveUp(w)
                        BY <6>3, <6>4, <2>0 DEF GaveUp, pc, Writing
                    <6> QED
                        BY <6>5
                <5> QED
                    BY <5>1, <5>2
            <4>3. PICK u \in Writers : Making(u)
                BY <4>1, <4>2, <2>6 DEF FolderInHand
            <4>4. CASE u # w
                BY <4>4, <4>3, <4>1, <2>0, <2>2, <1>0 DEF Making, DiskOK
            <4>5. CASE u = w
                <5>1. pc = "folder"
                    BY <4>5, <4>3, <3>2, <1>0 DEF Making, pc
                <5>2. to = "mkdir" /\ level'[w] = folder + 1
                    BY <5>1, <2>1, <2>2, <2>6, <4>1, <1>0 DEF DiskOK
                <5> QED
                    BY <5>2, <4>1 DEF Making, to
            <4> QED
                BY <4>4, <4>5
        <3> QED
            BY <3>1, <3>2
    <2>7. level'["worker"] = level["worker"] /\ folder' \in Nat
        BY <2>2, <2>3, <1>0 DEF DiskOK
    <2>8. /\ workerPc' = "mkdir" => level'["worker"] \in 1..Shared'
          /\ ~refused' => folder' >= Shared'
        BY <2>0, <2>3, <2>7, <1>0, <1>s DEF FolderInHand
    <2> QED
        BY <2>0, <2>3, <2>4, <2>5, <2>6, <2>8, <1>0 DEF FolderInHand, DiskOK
<1>3. ASSUME NEW w \in Writers, RefusedStep(w) PROVE DiskOK' /\ FolderInHand'
    <2>1. /\ refused' = TRUE /\ UNCHANGED <<folder, files, workerPc>>
          /\ level' = [level EXCEPT ![w] = 0]
          /\ WriterPc(w)' = "exists" /\ \A v \in Writers \ {w} : WriterPc(v)' = WriterPc(v)
        BY <1>3 DEF RefusedStep, MkdirRefused
    <2>2. level' \in [Makers -> 0..Levels] /\ \A m \in Makers \ {w} : level'[m] = level[m]
        BY <2>1, <1>0 DEF DiskOK
    <2> QED
        BY <2>1, <2>2, <1>0, <1>s DEF FolderInHand, DiskOK
<1>4. CASE FolderStep
    <2>0. /\ \A v \in Writers : WriterPc(v)' = WriterPc(v)
          /\ files' = files /\ DownloadFolder
        BY <1>4 DEF FolderStep, DownloadFolder, MkdirRefused
    <2>1. /\ level' \in [Makers -> 0..Levels] /\ \A v \in Writers : level'[v] = level[v]
          /\ folder' \in 0..Levels /\ folder <= folder'
          /\ workerPc' = "mkdir" => level'["worker"] \in 1..Shared'
          /\ refused' \in BOOLEAN /\ (~refused' => ~refused /\ folder' = folder)
        <3> DEFINE mine == level["worker"]
        <3>0. mine \in 0..Levels /\ (workerPc = "mkdir" => mine \in 1..Shared)
            BY <1>0 DEF DiskOK, FolderInHand
        <3>1. CASE workerPc = "folder" /\ CreateFolder("worker", "folder", Shared)
            <4>1. level' = [level EXCEPT !["worker"] = IF folder < Shared THEN folder + 1 ELSE 0]
                  /\ folder' = folder /\ refused' = refused
                  /\ workerPc' = IF folder < Shared THEN "mkdir" ELSE "add"
                BY <2>0, <3>1 DEF DownloadFolder, CreateFolder, WorkerGoto
            <4> QED
                BY <4>1, <1>0, <1>s DEF DiskOK
        <3>2. CASE workerPc = "mkdir" /\ CreateFolder("worker", "mkdir", Shared) /\ refused' = refused
                   /\ workerPc' # "mkdir"
            <4>1. level' = [level EXCEPT !["worker"] = 0]
                  /\ folder' = IF folder < mine THEN mine ELSE folder
                BY <3>2 DEF CreateFolder
            <4>2. ~refused => folder >= Shared
                BY DEF FolderInHand
            <4> QED
                BY <4>1, <4>2, <3>0, <3>2, <1>0, <1>s DEF DiskOK
        <3>3. CASE MkdirRefused("worker") /\ workerPc' = "add"
            <4>1. level' = [level EXCEPT !["worker"] = 0] /\ folder' = folder /\ refused' = TRUE
                BY <3>3 DEF MkdirRefused
            <4> QED
                BY <4>1, <3>3, <1>0, <1>s DEF DiskOK
        <3> QED
            BY <2>0, <3>1, <3>2, <3>3 DEF DownloadFolder, WorkerGoto
    <2>2. \A v \in Writers : WriterPc(v)' = "mkdir" => level'[v] \in 1..(folder' + 1)
        BY <2>0, <2>1, <1>0
    <2>3. folder' = folder => \A v \in Writers : (GaveUp(v)' => GaveUp(v)) /\ (Making(v) => Making(v)')
        BY <2>0, <2>1 DEF GaveUp, Making
    <2> QED
        BY <2>0, <2>1, <2>2, <2>3, <1>0, <1>s DEF FolderInHand, DiskOK
<1> QED
    BY <1>1, <1>2, <1>3, <1>4, WriterSteps

\* In an uncrowded directory writers have names of their own.
LEMMA OwnNames ==
    ASSUME Types, Places, ~Crowded, NEW v \in Writers, NEW w \in Writers, v # w,
           WriterPc(v) \in Writing, WriterPc(w) \in Writing
    PROVE  WriterName(v) # WriterName(w)
<1> DEFINE IdOf(u) == IF u = "handler" THEN handlerId ELSE gen[u].id
<1>0. \A u \in Writers : WriterPc(u) \in Writing =>
         /\ IdOf(u) \in Ids /\ WriterName(u) = nameOf[IdOf(u)]
         /\ u = "handler" <=> IdOf(u) \notin Generated
    <2>1. handlerPc \in Writing => handlerId \in Ids \ Generated
        BY DEF Places, CallPlaces, Writing
    <2>2. \A g \in Generators : gen[g].pc \in Writing => gen[g].id \in Ids /\ gen[g].id \in Generated
        BY IdsAssumption DEF Places, GenPlaces, Writing
    <2> QED
        BY <2>1, <2>2 DEF Writers, WriterPc, WriterName
<1>1. CASE IdOf(v) # IdOf(w)
    BY <1>0, <1>1 DEF Crowded, SharesName
<1>2. CASE IdOf(v) = IdOf(w)
    <2>1. v \in Generators /\ w \in Generators /\ v # "handler" /\ w # "handler"
        BY <1>0, <1>2, GeneratorsAssumption DEF Writers
    <2>2. GeneratedTwice(gen[v].id) /\ gen[v].id \in Ids
        BY <1>0, <1>2, <2>1 DEF GeneratedTwice
    <2> QED
        BY <2>2 DEF Crowded
<1> QED
    BY <1>1, <1>2

\* A torrent that has two generators keeps them, and the names do not change.
LEMMA StaysCrowded ==
    ASSUME Types, Places, [Next]_vars, Crowded
    PROVE  Crowded'
<1>1. \A g \in Generators : gen[g].id \in Ids => gen'[g].id = gen[g].id
    <2>0. gen \in [Generators -> GenType] /\ \A g \in Generators : gen[g].pc = "none" => gen[g].id \notin Ids
        BY NobodyAssumption DEF Types, ThreadsOK, GenType, Places, GenPlaces
    <2>1. CASE GenSteps
        BY <2>1, GenFrame DEF GenSteps
    <2>2. CASE CreateTorrentAsync
        BY <2>0, <2>2, ThreadStarts DEF GenType
    <2>3. CASE gen' = gen
        BY <2>3
    <2> QED
        BY <2>1, <2>2, <2>3, Steps, GenStays
<1>2. load' = load
    BY LoadStays
<1> QED
    BY <1>1, <1>2 DEF Crowded, SharesName, GeneratedTwice, nameOf

\* OneWriter, in terms of writers.
LEMMA OneWriterMeans ==
    OneWriter <=> \/ Crowded
                  \/ /\ ~terminated
                     /\ \A w \in Writers : WriterPc(w) = "remove" => WriterName(w) \in files
    BY GeneratorsAssumption DEF OneWriter, Crowded, Writers, WriterPc, WriterName

LEMMA NextOneWriter ==
    ASSUME Types, Places, OneWriter, [Next]_vars
    PROVE  OneWriter'
<1> DEFINE Safe == ~terminated
                   /\ \A w \in Writers : WriterPc(w) = "remove" => WriterName(w) \in files
<1>0. (Crowded' \/ Safe') => OneWriter'
    BY GeneratorsAssumption DEF OneWriter, Crowded, Writers, WriterPc, WriterName
<1> SUFFICES ASSUME ~Crowded, Safe PROVE Safe'
    BY <1>0, StaysCrowded, OneWriterMeans
<1>1. CASE OtherStep
    BY <1>1 DEF OtherStep, diskVars, Writing
<1>2. ASSUME NEW w \in Writers, WriteStep(w) PROVE Safe'
    <2>0. /\ folder \in Nat /\ level[w] \in Nat
        BY LevelsAssumption DEF Types, DiskOK, Writers, Makers
    <2>1. ~terminated'
        BY <1>2 DEF WriteStep, WriteTorrentDisk
    <2>2. ASSUME WriterPc(w)' = "remove" PROVE WriterName(w)' \in files'
        <3>1. WriterPc(w)' = WriteTorrentNext(w, WriterPc(w), WriterName(w))
              /\ WriterName(w)' = WriterName(w)
            BY <1>2, <2>2 DEF WriteStep, Writing
        <3>2. WriterPc(w) = "exists" /\ WriterName(w) \in files
            BY <3>1, <2>2, <1>2 DEF WriteStep, WriteTorrentNext, Writing
        <3> QED
            BY <3>1, <3>2, <1>2 DEF WriteStep, WriteTorrentDisk
    <2>3. ASSUME NEW v \in Writers \ {w}, WriterPc(v)' = "remove" PROVE WriterName(v)' \in files'
        <3>1. WriterPc(v) = "remove" /\ WriterName(v)' = WriterName(v) /\ WriterName(v) \in files
            BY <1>2, <2>3 DEF WriteStep
        <3>2. WriterName(v) # WriterName(w)
            BY <3>1, <1>2, OwnNames, GenNames DEF WriteStep
        <3> QED
            BY <3>1, <3>2, <1>2 DEF WriteStep, WriteTorrentDisk
    <2> QED
        BY <2>1, <2>2, <2>3
<1>3. ASSUME NEW w \in Writers, RefusedStep(w) PROVE Safe'
    BY <1>3 DEF RefusedStep, MkdirRefused
<1>4. CASE FolderStep
    <2>1. files' = files /\ terminated' = terminated
        BY <1>4 DEF FolderStep, DownloadFolder, MkdirRefused, workerRest
    <2> QED
        BY <1>4, <2>1 DEF FolderStep
<1> QED
    BY <1>1, <1>2, <1>3, <1>4, WriterSteps

(***************************************************************************)
(* The theorems.                                                           *)
(***************************************************************************)

LEMMA InitInv == Init => Inv
<1> SUFFICES ASSUME Init PROVE Inv
    OBVIOUS
<1>1. Types
    BY InitTypes
<1>2. Places
    BY PiecesAssumption DEF Init, Places, GenPlaces, CallPlaces
<1>3. LinkFirst /\ GeneratorIsDone
    BY IdsAssumption DEF Init, LinkFirst, GeneratedHasLink, GeneratorIsDone, Info
<1>4. ListLocked
    BY GeneratorsAssumption DEF Init, ListLocked
<1>5. OneWriter
    BY DEF Init, OneWriter
<1>6. FolderInHand
    <2>1. Shared \in 0..Levels /\ folder \in 0..Levels
        BY <1>1, LoadsAssumption DEF Shared, Types, RecordsOK, DiskOK
    <2>2. ~refused => folder >= Shared
        <3>1. refused = (folder < Shared)
            BY DEF Init
        <3>2. ~(folder < Shared) => folder >= Shared
            BY <2>1, LevelsAssumption
        <3> QED
            BY <3>1, <3>2, Zenon
    <2>3. \A w \in Writers : WriterPc(w) \in {"none", "idle"}
        BY DEF Init, WriterPc, Writers
    <2> QED
        BY <2>2, <2>3 DEF FolderInHand, GaveUp, Init
<1> QED
    BY <1>1, <1>2, <1>3, <1>4, <1>5, <1>6 DEF Inv

LEMMA NextInv == Inv /\ [Next]_vars => Inv'
<1> SUFFICES ASSUME Inv, [Next]_vars PROVE Inv'
    OBVIOUS
<1>1. Types' /\ Places'
    BY NextRecords, NextGen, NextCalls, NextList, NextFolder DEF Inv, Types, Places
<1>2. LinkFirst' /\ ListLocked' /\ OneWriter' /\ FolderInHand' /\ GeneratorIsDone'
    BY NextPromises, NextList, NextOneWriter, NextFolder DEF Inv
<1> QED
    BY <1>1, <1>2 DEF Inv

\* Everything the threads of the torrent component rely on, for any number of them.
THEOREM InvCorrect == Spec => []Inv
    BY InitInv, NextInv, PTL DEF Spec

\* The records, the map of ids, the session's torrents and the folders keep their types.
THEOREM TypeCorrect == Spec => []TypeOK
<1>1. Inv => TypeOK
    <2> SUFFICES ASSUME Inv PROVE TypeOK
        OBVIOUS
    <2>1. \A g \in Generators : gen[g].id \in Ids \cup {Nobody} /\ gen[g].piece \in 0..Pieces
        BY DEF Inv, Types, ThreadsOK
    <2>2. \A i \in DOMAIN alerts : alerts[i].id \in Ids
        BY AlertIds DEF Inv, Types, SharedOK
    <2> QED
        BY <2>1, <2>2 DEF Inv, Types, RecordsOK, ThreadsOK, SharedOK, DiskOK, TypeOK
<1> QED
    BY <1>1, InvCorrect, PTL

\* A record that says GENERATED has its link, whoever else writes to the record
\* (CreateTorrent sets the status last).
THEOREM LinksComeFirst == Spec => []GeneratedHasLink
<1>1. Inv => GeneratedHasLink
    BY DEF Inv, LinkFirst
<1> QED
    BY <1>1, InvCorrect, PTL

\* No alert comes before its torrent is in the map (AddTorrent holds torrentIdListMtx).
THEOREM AlertsFind == Spec => []AlertsFindTheirTorrent
<1>1. Inv => AlertsFindTheirTorrent
    <2> SUFFICES ASSUME Inv, listMtx = "free", NEW i \in DOMAIN alerts
                 PROVE  alerts[i].id \in torrentsIdList
        BY DEF AlertsFindTheirTorrent
    <2>1. i \in 1..Len(alerts) /\ alerts[i].id \in Ids
        BY AlertIds DEF Inv, Types, SharedOK
    <2>2. \A id \in Ids : ~Inserting(id)
        BY GeneratorsAssumption DEF Inv, ListLocked, Inserting
    <2> QED
        BY <2>1, <2>2 DEF Inv, ListLocked
<1> QED
    BY <1>1, InvCorrect, PTL

\* WriteTorrent's remove throws only when two threads write one name.
THEOREM WritersAreSafe == Spec => []OneWriterIsSafe
<1>1. Inv => OneWriterIsSafe
    BY DEF Inv, OneWriter, OneWriterIsSafe
<1> QED
    BY <1>1, InvCorrect, PTL

\* Unless a mkdir was refused, a torrent file is written without its folder only while
\* another thread still makes it.
THEOREM FolderRace == Spec => []FolderRaceOnly
<1>1. Inv => FolderRaceOnly
    <2> SUFFICES ASSUME Inv, NEW th \in Writers, WriterPc(th) = "write", folder < Levels, ~refused
                 PROVE  \E other \in Writers \ {th} : WriterPc(other) \in {"folder", "mkdir"}
        BY DEF FolderRaceOnly, WriterPc
    <2>1. PICK w \in Writers : Making(w)
        BY DEF Inv, FolderInHand, GaveUp
    <2> QED
        BY <2>1 DEF Making
<1> QED
    BY <1>1, InvCorrect, PTL

\* The record of a torrent that one thread generated changes only if that thread
\* cannot add it.
THEOREM GeneratedStays == Spec => GeneratedIsFinal
<1>1. ASSUME Inv, [Next]_vars, NEW id \in Generated, infoList[id].status = "GENERATED",
             ~GeneratedTwice(id)
      PROVE  infoList'[id].status \in {"GENERATED", "GENERATION_ERROR"}
    <2>0. /\ infoList \in [Ids -> InfoType] /\ id \in Ids /\ gen \in [Generators -> GenType]
          /\ Types /\ Places
        BY <1>1, IdsAssumption DEF Inv, Types, RecordsOK, ThreadsOK, GenType
    <2>1. PICK h \in Generators : gen[h].id = id /\ gen[h].pc \in Published
        BY <1>1 DEF Inv, GeneratorIsDone
    <2>2. CASE GenSteps
        <3>1. PICK g \in Generators : GenStep(g)
            BY <2>2 DEF GenSteps
        <3>2. gen[g].id \in Ids
            BY <3>1, <2>0, GenFrame
        <3>3. CASE GenError(g)
            <4>1. CASE SetStatus(gen[g].id, "GENERATION_ERROR")
                <5>1. CASE gen[g].id = id
                    BY <4>1, <5>1, <2>0, <1>1, Setters, Values
                <5>2. CASE gen[g].id # id
                    BY <4>1, <5>2, <3>2, <2>0, <1>1, Setters, Values
                <5> QED
                    BY <5>1, <5>2
            <4>2. CASE SetProgress(gen[g].id, 0)
                <5>1. 0 \in 0..100
                    OBVIOUS
                <5> QED
                    BY <4>2, <5>1, <3>2, <2>0, <1>1, Setters
            <4> QED
                BY <3>3, <4>1, <4>2 DEF GenError
        <3>4. CASE GenAddFails(g) \/ GenAdd(g) \/ GenInsert(g) \/ GenHashFails(g) \/ GenWrite(g)
                   \/ GenMkdirRefused(g) \/ GenReadBack(g)
            BY <3>4, <1>1 DEF GenAddFails, GenAdd, GenInsert, GenHashFails, GenWrite,
                              GenMkdirRefused, GenReadBack
        <3>5. CASE GenStart(g) \/ GenPieceStatus(g) \/ GenPieceProgress(g) \/ GenPublish(g)
            <4>1. gen[g].pc \notin Published
                BY <3>5 DEF GenStart, GenPieceStatus, GenPieceProgress, GenPublish, GenAt, Published
            <4>2. gen[g].id # id
                BY <4>1, <2>1, <1>1 DEF GeneratedTwice
            <4>3. (gen[g].piece * 100) \div Pieces \in 0..100
                BY <2>0, PiecesAssumption, Percent DEF GenType
            <4> QED
                BY <3>5, <3>2, <4>2, <4>3, <2>0, <1>1, Setters, Values, ZenonT(30)
                DEF GenStart, GenPieceStatus, GenPieceProgress, GenPublish
        <3> QED
            BY <3>1, <3>3, <3>4, <3>5 DEF GenStep
    <2>3. ASSUME NEW o \in Ids \ Generated,
                 \/ \E s \in Status : SetStatus(o, s)
                 \/ \E p \in 0..100 : SetProgress(o, p)
                 \/ SetLink(o)
          PROVE  infoList'[id].status \in {"GENERATED", "GENERATION_ERROR"}
        BY <2>3, <2>0, <1>1, Setters
    <2>4. CASE DownloadAsync
        <3>1. workerId \in Ids \ Generated
            BY <2>4, <2>0 DEF DownloadAsync, Places, CallPlaces
        <3>2. (\E s \in Status : SetStatus(workerId, s)) \/ \E p \in 0..100 : SetProgress(workerId, p)
            BY <2>4, Values DEF DownloadAsync
        <3> QED
            BY <3>1, <3>2, <2>3
    <2>5. CASE \E o \in Ids : CallDownload(o)
        BY <2>5, <2>3 DEF CallDownload
    <2>6. CASE HandleFinished \/ HandleError
        <3>1. handlerId \in Ids \ Generated
            BY <2>6, <2>0 DEF HandleFinished, HandleError, Places, CallPlaces
        <3>2. (\E s \in Status : SetStatus(handlerId, s)) \/ \E p \in 0..100 : SetProgress(handlerId, p)
            BY <2>6, Values DEF HandleFinished, HandleError
        <3> QED
            BY <3>1, <3>2, <2>3
    <2>7. CASE infoList' = infoList
        BY <2>7, <1>1
    <2>8. CASE SessionSteps
        BY <2>7, <2>8, SessionStep DEF SessionPosts
    <2>9. CASE Calls \/ WorkerStep \/ HandlerStep \/ UNCHANGED vars
        BY <2>4, <2>5, <2>6, <2>7, <2>9
        DEF Calls, CallGenerate, CallUpdate, WorkerStep, CreateTorrentAsync, DownloadFolder, DownloadAdd,
            DownloadInsert, Copy, Report, HandlerStep, HandleLookup, HandleMetadata, HandleMetadataFailed,
            HandlerWrite, HandlerMkdirRefused, vars
    <2> QED
        BY <1>1, <2>2, <2>8, <2>9, Steps
<1>2. Inv /\ [Next]_vars =>
         [\A id \in Generated :
             (infoList[id].status = "GENERATED" /\ ~GeneratedTwice(id)) =>
                 infoList'[id].status \in {"GENERATED", "GENERATION_ERROR"}]_vars
    BY <1>1
<1> QED
    BY <1>2, InvCorrect, PTL DEF Spec, GeneratedIsFinal
==============================================================================
