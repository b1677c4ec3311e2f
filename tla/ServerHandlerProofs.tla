------------------------ MODULE ServerHandlerProofs -------------------------
(***************************************************************************)
(* Proofs about ServerHandler for any set of daemons, any number of        *)
(* torrents and of restarts: its types, that the two orders of locks never *)
(* meet, that tasks to report do not pile up, and that nothing on a list   *)
(* of the server is left without a task that asks for it.  All of it is    *)
(* about a server each of whose calls has a daemon that waits for it: the  *)
(* invariant ends with the first orphan.                                   *)
(***************************************************************************)
EXTENDS ServerHandler, SequenceTheorems, FiniteSetTheorems, TLAPS

GEN == "GENERATE_MAGENT"
UPD == "UPDATE_TORRENT_STATUS"
DOWN == "DOWNLOAD_TORRENT"

(***************************************************************************)
(* The inductive invariant.                                                *)
(***************************************************************************)

\* What a call holds at each of its places.  Of torrents there is only the one.
CallShape(d) ==
    LET rpc == call[d].rpc  at == call[d].at  list == call[d].list IN
    /\ at = "none" \/ rpc = "none" => call[d] = NoCall
    /\ at \in {"called", "copy"} => list = <<>>
    /\ at = "copy" => rpc = "UpdateTorrentStatus"
    /\ at = "give" => /\ rpc \in {"Handshake", "UpdateTorrentStatus"}
                      /\ list \in Seq(Daemons) /\ list # <<>>
    /\ at = "task" => rpc = "GetTorrentsForDownload" /\ list = << 1 >> /\ 1 \in Torrents
    /\ at = "replied" =>
          /\ rpc \in {"Handshake", "UpdateTorrentStatus"} => list = <<>>
          /\ rpc = "GetTaskList" => list \in Seq(ServerTasks)
          /\ rpc = "GetInfoForGenerateTorrents" => list = << 1 >> /\ 1 \in t2UpdateMap[d]
          /\ rpc = "GetTorrentsForUpdateStatus" =>
                list = IF 1 \in t2UpdateMap[d] THEN << 1 >> ELSE <<>>
          /\ rpc = "GetTorrentsForDownload" => list = <<>> \/ (list = << 1 >> /\ 1 \in Torrents)

\* What a daemon reports on is on its update list, and it reports on it once.
ReportShape(d) ==
    LET info == call[d].info IN
    /\ reports[d] # <<>> => reports[d] = << 1 >> /\ 1 \in t2UpdateMap[d] /\ call[d] = NoCall
    /\ call[d].rpc = "UpdateTorrentStatus" /\ call[d].at \in {"copy", "called"} =>
          /\ info.id = 1 /\ 1 \in t2UpdateMap[d]
          /\ call[d].at = "called" /\ info.status = "GENERATED" =>
                torrents[d][1] \in {"GENERATED", "GENERATION_ERROR"}

\* A daemon that has yet to shake hands does nothing else.
Shaking(d) ==
    \/ call[d].rpc = "Handshake" \/ "MAKE_HANDSHAKE" \in deffered[d]
    \/ \E i \in DOMAIN line[d] : line[d][i] = "MAKE_HANDSHAKE"

ShakesAlone(d) ==
    Shaking(d) =>
        /\ reports[d] = <<>> /\ torrents[d] = [t \in Torrents |-> "NONE"]
        /\ \/ line[d] = <<"MAKE_HANDSHAKE">> /\ deffered[d] = {} /\ call[d] = NoCall
           \/ line[d] = <<>> /\ deffered[d] = {"MAKE_HANDSHAKE"} /\ call[d] = NoCall
           \/ line[d] = <<>> /\ deffered[d] = {} /\ call[d].rpc = "Handshake"

\* Only torrent number one is ever known, and it only once it is asked for.
OnlyOne(d) ==
    /\ t2DownloadMap[d] \subseteq 1..made /\ t2UpdateMap[d] \subseteq 1..made
    /\ \A t \in Torrents : torrents[d][t] # "NONE" => t \in 1..made
    /\ made = 0 /\ call[d].at = "give" => call[d].list = <<d>>
    /\ call[d].rpc = "GetTorrentsForDownload" /\ call[d].list # <<>> => made = 1

ShapeInv ==
    /\ TypeOK
    /\ made <= 1 /\ torrentDeque \in {<<>>, << 1 >>} /\ (made = 0 => torrentDeque = <<>>)
    /\ \A d \in Daemons : CallShape(d) /\ ReportShape(d) /\ ShakesAlone(d) /\ OnlyOne(d)

(* Tasks on their way, counted. *)

One(b) == IF b THEN 1 ELSE 0
Answer(d) == IF call[d].rpc = "GetTaskList" THEN call[d].list ELSE <<>>
InLines(ty, d) == Count(ty, tasks[d]) + Count(ty, Answer(d)) + Count(ty, line[d])

\* Tasks to generate, with the call of one.
Gens(d) == InLines(GEN, d) + One(call[d].rpc = "GetInfoForGenerateTorrents")

\* Tasks to report, with the one that is running.
Reporting(d) ==
    \/ reports[d] # <<>>
    \/ call[d].rpc = "UpdateTorrentStatus" /\ call[d].at \in {"copy", "called"}
Ups(d) ==
    InLines(UPD, d) + One(UPD \in deffered[d])
    + One(call[d].rpc = "GetTorrentsForUpdateStatus" \/ Reporting(d))

\* Tasks to download, with the call of one until it is served.
Downs(d) == InLines(DOWN, d) + One(call[d].rpc = "GetTorrentsForDownload" /\ call[d].at = "called")

\* Tasks to report that a call will still yield.
Owed(d) ==
    IF call[d].rpc # "GetTorrentsForDownload" THEN 0
    ELSE IF call[d].at = "task" THEN 2 ELSE IF call[d].at = "replied" THEN 1 ELSE 0

Weight(d) == Gens(d) + Ups(d) + 2 * Downs(d) + Owed(d)

\* One daemon is asked to generate, once.
Answered(d) == call[d].rpc = "GetInfoForGenerateTorrents" /\ call[d].at = "replied"

AskedOnce ==
    /\ isFirst => made = 0
    /\ \A d \in Daemons :
          /\ Gens(d) <= 1
          /\ isFirst => Gens(d) = 0
          /\ Gens(d) > 0 /\ made > 0 => Answered(d)
          /\ Answered(d) => made = 1
          /\ UPD \in deffered[d] => ~isFirst /\ \A e \in Daemons : Gens(e) = 0
          /\ \A e \in Daemons : Gens(d) > 0 /\ Gens(e) > 0 => d = e

\* The daemon that generates the torrent, and that has yet to pass it on.
Generator(d) ==
    Answered(d)
    \/ (1 \in Torrents /\ torrents[d][1] \in {"GENERATING", "GENERATED", "GENERATION_ERROR"})
Fresh(d) == Generator(d) /\ 1 \in t2UpdateMap[d]

NoDownloads == \A e \in Daemons : t2DownloadMap[e] = {} /\ call[e].at # "task"

\* It never comes to download what it generates, and passes it on once.
PassedOnce ==
    /\ torrentDeque # <<>> => NoDownloads
    /\ \A d \in Daemons :
          /\ Generator(d) => /\ t2DownloadMap[d] = {} /\ call[d].at # "task"
                             /\ call[d].rpc = "GetTorrentsForDownload" => call[d].list = <<>>
                             /\ \A e \in Daemons : call[e].at = "give" =>
                                   \A i \in DOMAIN call[e].list : call[e].list[i] # d
          /\ Fresh(d) => torrentDeque = <<>> /\ NoDownloads
          /\ \A e \in Daemons : Generator(d) /\ Generator(e) => d = e

\* A torrent is on the update list for as long as it is being generated.
Listed ==
    \A d \in Daemons :
        /\ 1 \in Torrents /\ torrents[d][1] = "GENERATING" => 1 \in t2UpdateMap[d]
        /\ call[d].rpc = "UpdateTorrentStatus" /\ call[d].at = "called" /\ call[d].info.status = "DOWNLOADED"
              => torrents[d][1] # "GENERATING"

\* Without restarts only the daemon that generates has tasks, until it passes the
\* torrent on, and then one more.
Bounded ==
    restarts = 0 =>
        \A d \in Daemons :
            /\ Weight(d) <= 2
            /\ isFirst => Weight(d) = 0
            /\ torrentDeque # <<>> => Weight(d) = 0 \/ Generator(d)
            /\ Gens(d) > 0 \/ Fresh(d) => \A e \in Daemons : e # d => Weight(e) = 0

\* A task to generate has a task to report behind it.
Followed(s) == \A i \in DOMAIN s : s[i] = GEN => \E j \in DOMAIN s : j > i /\ s[j] = UPD

\* Two tasks report as long as a torn report may still end one of them.
MayTear(d) ==
    \/ torrents[d][1] = "GENERATING" \/ Answered(d)
    \/ /\ call[d].rpc = "UpdateTorrentStatus" /\ ~call[d].info.link
       /\ \/ call[d].at = "copy" /\ torrents[d][1] = "GENERATED"
          \/ call[d].at = "called" /\ call[d].info.status = "GENERATED"

Kept ==
    ~lost =>
        \A d \in Daemons :
            /\ Followed(tasks[d]) /\ Followed(Answer(d)) /\ Followed(line[d])
            /\ call[d].rpc = "GetInfoForGenerateTorrents" => Count(UPD, line[d]) >= 1
            /\ t2DownloadMap[d] # {} => Downs(d) >= 1
            /\ 1 \in t2UpdateMap[d] =>
                  Ups(d) + One(call[d].rpc \in {"GetInfoForGenerateTorrents", "GetTorrentsForDownload"})
                      >= IF MayTear(d) THEN 2 ELSE 1

\* As long as the server has not gone on with a call that was given up.
NoOrphans == \A d \in Daemons : call[Orphan(d)] = NoCall

Alike == ShapeInv /\ AskedOnce /\ PassedOnce /\ Listed /\ Bounded /\ Kept

Inv ==
    /\ orphans \in Nat /\ (~lost => orphans = 0)
    /\ orphans = 0 => NoOrphans /\ Alike

----------------------------------------------------------------------------
(***************************************************************************)
(* Counting the tasks of a type in a line.                                 *)
(***************************************************************************)

Types == ServerTasks \cup DefferedTypes

\* The positions counted are finitely many.
LEMMA CountType ==
    ASSUME NEW ty, NEW s \in Seq(Types)
    PROVE  /\ IsFiniteSet({i \in DOMAIN s : s[i] = ty})
           /\ Count(ty, s) \in Nat
<1>1. IsFiniteSet(1..Len(s)) /\ DOMAIN s = 1..Len(s)
    BY FS_Interval
<1>2. {i \in DOMAIN s : s[i] = ty} \in SUBSET (1..Len(s))
    BY <1>1
<1>3. IsFiniteSet({i \in DOMAIN s : s[i] = ty})
    BY <1>1, <1>2, FS_Subset
<1> QED
    BY <1>3, FS_CardinalityType DEF Count

\* An empty line has none.
LEMMA CountEmpty == \A ty : Count(ty, <<>>) = 0
<1> TAKE ty
<1>1. {i \in DOMAIN <<>> : <<>>[i] = ty} = {}
    OBVIOUS
<1> QED
    BY <1>1, FS_EmptySet DEF Count

\* A task is counted if and only if it is there.
LEMMA CountPositive ==
    ASSUME NEW ty, NEW s \in Seq(Types)
    PROVE  Count(ty, s) > 0 <=> \E i \in DOMAIN s : s[i] = ty
<1> DEFINE all == {i \in DOMAIN s : s[i] = ty}
<1>1. IsFiniteSet(all) /\ Count(ty, s) = Cardinality(all)
    BY CountType DEF Count
<1>2. Cardinality(all) \in Nat /\ (Cardinality(all) = 0 <=> all = {})
    BY <1>1, FS_CardinalityType, FS_EmptySet
<1> QED
    BY <1>1, <1>2

\* One task.
LEMMA CountSingle ==
    ASSUME NEW ty, NEW e \in Types
    PROVE  <<e>> \in Seq(Types) /\ Count(ty, <<e>>) = One(e = ty)
<1>1. {i \in DOMAIN <<e>> : <<e>>[i] = ty} = IF e = ty THEN {1} ELSE {}
    OBVIOUS
<1>2. <<e>> \in Seq(Types)
    OBVIOUS
<1> QED
    BY <1>1, <1>2, FS_EmptySet, FS_Singleton DEF Count, One

\* The line without its first task.
LEMMA CountTail ==
    ASSUME NEW ty, NEW s \in Seq(Types), s # <<>>
    PROVE  /\ Tail(s) \in Seq(Types) /\ Head(s) \in Types
           /\ Count(ty, s) = Count(ty, Tail(s)) + One(Head(s) = ty)
<1> DEFINE all  == {i \in DOMAIN s : s[i] = ty}
           rest == {i \in DOMAIN Tail(s) : Tail(s)[i] = ty}
           next == [i \in rest |-> i + 1]
<1>1. /\ Tail(s) \in Seq(Types) /\ Head(s) \in Types /\ Head(s) = s[1]
      /\ DOMAIN s = 1..Len(s) /\ Len(s) \in Nat \ {0}
      /\ DOMAIN Tail(s) = 1..Len(s) - 1
      /\ \A i \in 1..Len(s) - 1 : Tail(s)[i] = s[i + 1]
    OBVIOUS
<1>2. next \in Bijection(rest, all \ {1})
    <2>1. next \in [rest -> all \ {1}]
        BY <1>1
    <2>2. \A i, j \in rest : next[i] = next[j] => i = j
        BY <1>1
    <2>3. ASSUME NEW j \in all \ {1} PROVE \E i \in rest : next[i] = j
        <3>1. j - 1 \in rest /\ next[j - 1] = j
            BY <1>1
        <3> QED
            BY <3>1
    <2> QED
        BY <2>1, <2>2, <2>3 DEF Bijection, Injection, Surjection, IsInjective
<1>3. IsFiniteSet(rest) /\ IsFiniteSet(all)
    BY <1>1, CountType
<1>4. Cardinality(all \ {1}) = Cardinality(rest)
    BY <1>2, <1>3, FS_Bijection DEF ExistsBijection
<1>5. /\ Cardinality(all \ {1}) = IF 1 \in all THEN Cardinality(all) - 1 ELSE Cardinality(all)
      /\ Cardinality(all) \in Nat /\ Cardinality(rest) \in Nat
    BY <1>3, FS_RemoveElement, FS_CardinalityType
<1>6. 1 \in all <=> Head(s) = ty
    BY <1>1
<1>7. Count(ty, s) = Cardinality(all) /\ Count(ty, Tail(s)) = Cardinality(rest)
    BY DEF Count
<1> HIDE DEF all, rest
<1> QED
    BY <1>1, <1>4, <1>5, <1>6, <1>7 DEF One

\* Two lines, one after the other.
LEMMA CountConcat ==
    ASSUME NEW ty, NEW s \in Seq(Types), NEW t \in Seq(Types)
    PROVE  s \o t \in Seq(Types) /\ Count(ty, s \o t) = Count(ty, s) + Count(ty, t)
<1> DEFINE all    == {i \in DOMAIN (s \o t) : (s \o t)[i] = ty}
           first  == {i \in DOMAIN s : s[i] = ty}
           second == {i \in DOMAIN t : t[i] = ty}
           moved  == {i \in all : i > Len(s)}
           move   == [i \in second |-> Len(s) + i]
<1>1. /\ s \o t \in Seq(Types) /\ Len(s) \in Nat /\ Len(t) \in Nat
      /\ DOMAIN s = 1..Len(s) /\ DOMAIN t = 1..Len(t)
      /\ DOMAIN (s \o t) = 1..Len(s) + Len(t)
      /\ \A i \in 1..Len(s) : (s \o t)[i] = s[i]
      /\ \A i \in 1..Len(t) : (s \o t)[Len(s) + i] = t[i]
    OBVIOUS
<1>2. move \in Bijection(second, moved)
    <2>1. move \in [second -> moved]
        BY <1>1
    <2>2. \A i, j \in second : move[i] = move[j] => i = j
        BY <1>1
    <2>3. ASSUME NEW j \in moved PROVE \E i \in second : move[i] = j
        <3>1. j - Len(s) \in 1..Len(t) /\ Len(s) + (j - Len(s)) = j
            BY <1>1
        <3>2. j - Len(s) \in second /\ move[j - Len(s)] = j
            BY <1>1, <3>1
        <3> QED
            BY <3>2
    <2> QED
        BY <2>1, <2>2, <2>3 DEF Bijection, Injection, Surjection, IsInjective
<1>3. IsFiniteSet(first) /\ IsFiniteSet(second)
    BY CountType
<1>4. IsFiniteSet(moved) /\ Cardinality(moved) = Cardinality(second)
    BY <1>2, <1>3, FS_Bijection DEF ExistsBijection
<1>5. all = first \cup moved /\ first \cap moved = {}
    BY <1>1
<1>7. /\ Count(ty, s \o t) = Cardinality(all)
      /\ Count(ty, s) = Cardinality(first) /\ Count(ty, t) = Cardinality(second)
    BY DEF Count
<1> HIDE DEF all, first, second, moved
<1>6. /\ Cardinality(first \cup moved)
          = Cardinality(first) + Cardinality(moved) - Cardinality(first \cap moved)
      /\ Cardinality(first \cap moved) = 0
      /\ Cardinality(first) \in Nat /\ Cardinality(second) \in Nat
    BY <1>3, <1>4, <1>5, FS_Union, FS_EmptySet, FS_CardinalityType
<1> QED
    BY <1>1, <1>4, <1>5, <1>6, <1>7

\* A line that was cut off has no more of them.
LEMMA CountPrefix ==
    ASSUME NEW ty, NEW s \in Seq(Types), NEW n \in 0..Len(s)
    PROVE  SubSeq(s, 1, n) \in Seq(Types) /\ Count(ty, SubSeq(s, 1, n)) <= Count(ty, s)
<1> DEFINE t     == SubSeq(s, 1, n)
           all   == {i \in DOMAIN s : s[i] = ty}
           first == {i \in DOMAIN t : t[i] = ty}
<1>1. /\ t \in Seq(Types) /\ DOMAIN s = 1..Len(s) /\ Len(s) \in Nat /\ DOMAIN t = 1..n
      /\ \A i \in 1..n : t[i] = s[i]
    OBVIOUS
<1>2. first \in SUBSET all
    BY <1>1
<1>3. IsFiniteSet(all)
    BY CountType
<1>4. Cardinality(first) <= Cardinality(all)
    BY <1>2, <1>3, FS_Subset
<1>5. Count(ty, s) = Cardinality(all) /\ Count(ty, t) = Cardinality(first)
    BY DEF Count
<1> QED
    BY <1>1, <1>4, <1>5

\* What holds of a task to report behind each task to generate.
LEMMA FollowedConcat ==
    ASSUME NEW s \in Seq(Types), NEW t \in Seq(Types), Followed(s), Followed(t)
    PROVE  Followed(s \o t)
<1>1. /\ s \o t \in Seq(Types) /\ Len(s) \in Nat /\ Len(t) \in Nat
      /\ DOMAIN s = 1..Len(s) /\ DOMAIN t = 1..Len(t)
      /\ DOMAIN (s \o t) = 1..Len(s) + Len(t)
      /\ \A i \in 1..Len(s) : (s \o t)[i] = s[i]
      /\ \A i \in 1..Len(t) : (s \o t)[Len(s) + i] = t[i]
    OBVIOUS
<1> SUFFICES ASSUME NEW i \in DOMAIN (s \o t), (s \o t)[i] = GEN
             PROVE  \E j \in DOMAIN (s \o t) : j > i /\ (s \o t)[j] = UPD
    BY DEF Followed
<1>2. CASE i \in 1..Len(s)
    <2>1. PICK j \in DOMAIN s : j > i /\ s[j] = UPD
        BY <1>1, <1>2 DEF Followed
    <2> QED
        BY <1>1, <2>1
<1>3. CASE i \notin 1..Len(s)
    <2>1. i - Len(s) \in 1..Len(t) /\ i = Len(s) + (i - Len(s))
        BY <1>1, <1>3
    <2>2. t[i - Len(s)] = GEN
        BY <1>1, <2>1
    <2>3. PICK j \in DOMAIN t : j > i - Len(s) /\ t[j] = UPD
        BY <1>1, <2>1, <2>2 DEF Followed
    <2>4. Len(s) + j \in DOMAIN (s \o t) /\ Len(s) + j > i /\ (s \o t)[Len(s) + j] = UPD
        BY <1>1, <2>1, <2>3
    <2> QED
        BY <2>4
<1> QED
    BY <1>2, <1>3

LEMMA FollowedTail ==
    ASSUME NEW s \in Seq(Types), s # <<>>, Followed(s)
    PROVE  /\ Followed(Tail(s))
           /\ Head(s) = GEN => Count(UPD, Tail(s)) >= 1
<1>1. /\ Tail(s) \in Seq(Types) /\ Head(s) = s[1]
      /\ DOMAIN s = 1..Len(s) /\ Len(s) \in Nat \ {0}
      /\ DOMAIN Tail(s) = 1..Len(s) - 1
      /\ \A i \in 1..Len(s) - 1 : Tail(s)[i] = s[i + 1]
    OBVIOUS
<1>2. ASSUME NEW i \in DOMAIN s, s[i] = GEN
      PROVE  \E j \in DOMAIN Tail(s) : j > i - 1 /\ Tail(s)[j] = UPD
    <2>1. PICK j \in DOMAIN s : j > i /\ s[j] = UPD
        BY <1>2 DEF Followed
    <2>2. j - 1 \in DOMAIN Tail(s) /\ j - 1 > i - 1 /\ Tail(s)[j - 1] = UPD
        BY <1>1, <2>1
    <2> QED
        BY <2>2
<1>3. ASSUME NEW i \in DOMAIN Tail(s), Tail(s)[i] = GEN
      PROVE  \E j \in DOMAIN Tail(s) : j > i /\ Tail(s)[j] = UPD
    <2>1. i + 1 \in DOMAIN s /\ s[i + 1] = GEN /\ (i + 1) - 1 = i
        BY <1>1, <1>3
    <2> QED
        BY <1>2, <2>1
<1>4. Head(s) = GEN => \E j \in DOMAIN Tail(s) : Tail(s)[j] = UPD
    BY <1>1, <1>2
<1>5. Count(UPD, Tail(s)) \in Nat /\ (Count(UPD, Tail(s)) > 0 <=> \E j \in DOMAIN Tail(s) : Tail(s)[j] = UPD)
    BY <1>1, CountType, CountPositive
<1> QED
    BY <1>3, <1>4, <1>5 DEF Followed

----------------------------------------------------------------------------
(***************************************************************************)
(* Calls and walks.                                                        *)
(***************************************************************************)

Places == {"none", "copy", "called", "give", "task", "replied"}
Infos == [id : Torrents \cup {0}, link : BOOLEAN, status : Status]
Lists(rpc) == IF rpc = "GetTaskList" THEN Seq(ServerTasks) ELSE Seq(Nat)
AnyCall == Calls({"GetTaskList"}, Seq(ServerTasks))
           \cup Calls((Rpcs \cup {"none"}) \ {"GetTaskList"}, Seq(Nat))

\* A call is its four fields.
LEMMA CallFields ==
    ASSUME NEW c \in AnyCall
    PROVE  /\ c.rpc \in Rpcs \cup {"none"} /\ c.at \in Places /\ c.info \in Infos
           /\ c.list \in Lists(c.rpc)
           /\ c = [rpc |-> c.rpc, at |-> c.at, info |-> c.info, list |-> c.list]
    BY DEF AnyCall, Calls, Places, Infos, Lists, Rpcs

LEMMA CallOf ==
    ASSUME NEW rpc \in Rpcs \cup {"none"}, NEW at \in Places, NEW info \in Infos,
           NEW list \in Lists(rpc)
    PROVE  [rpc |-> rpc, at |-> at, info |-> info, list |-> list] \in AnyCall
    BY DEF AnyCall, Calls, Places, Infos, Lists, Rpcs

\* The places of the daemons' own calls are not those of orphans.
LEMMA SlotsApart ==
    \A d \in Daemons : /\ d \in Slots /\ Orphan(d) \in Slots
                       /\ Orphan(d) # d /\ \A e \in Daemons : Orphan(d) # e
<1> TAKE d \in Daemons
<1>1. d \in Slots /\ Orphan(d) \in Slots
    BY DEF Slots
<1>2. d \in Nat /\ d # 0
    BY DaemonsAssumption
<1>3. Orphan(d) \notin Nat
    BY <1>2 DEF Orphan
<1>4. \A e \in Daemons : e \in Nat
    BY DaemonsAssumption
<1> QED
    BY <1>1, <1>2, <1>3, <1>4

\* What CallGoto does.
LEMMA CallGotoStep ==
    ASSUME TypeOK, NEW d \in Daemons, NEW at \in Places, NEW list \in Lists(call[d].rpc),
           CallGoto(d, at, list)
    PROVE  /\ call' \in [Slots -> AnyCall]
           /\ call'[d].rpc = call[d].rpc /\ call'[d].at = at /\ call'[d].list = list
           /\ call'[d].info = call[d].info
           /\ \A e \in Daemons : e # d => call'[e] = call[e]
<1>1. call \in [Slots -> AnyCall]
    BY DEF TypeOK, AnyCall
<1> DEFINE c == call[d]
           new == [rpc |-> c.rpc, at |-> at, info |-> c.info, list |-> list]
<1>2. /\ c \in AnyCall /\ c.rpc \in Rpcs \cup {"none"} /\ c.info \in Infos
      /\ c = [rpc |-> c.rpc, at |-> c.at, info |-> c.info, list |-> c.list]
    BY <1>1, CallFields, SlotsApart
<1>3. new \in AnyCall
    BY <1>2, CallOf
<1>4. ASSUME NEW x, x = [rpc |-> x.rpc, at |-> x.at, info |-> x.info, list |-> x.list]
      PROVE  /\ [x EXCEPT !.at = at] = [rpc |-> x.rpc, at |-> at, info |-> x.info, list |-> x.list]
             /\ [x EXCEPT !.list = list] = [rpc |-> x.rpc, at |-> x.at, info |-> x.info, list |-> list]
    BY <1>4
<1>4a. [[c EXCEPT !.at = at] EXCEPT !.list = list] = new
    <2> DEFINE moved == [c EXCEPT !.at = at]
    <2>1. moved = [rpc |-> c.rpc, at |-> at, info |-> c.info, list |-> c.list]
        BY <1>2, <1>4
    <2> HIDE DEF moved
    <2>2. moved.rpc = c.rpc /\ moved.at = at /\ moved.info = c.info /\ moved.list = c.list
        BY <2>1
    <2>3. [moved EXCEPT !.list = list] = [rpc |-> moved.rpc, at |-> moved.at, info |-> moved.info, list |-> list]
        BY <2>1, <2>2, <1>4
    <2> QED
        BY <2>2, <2>3 DEF moved
<1>5. call' = [call EXCEPT ![d] = new]
    BY <1>1, <1>4a DEF CallGoto
<1> HIDE DEF new
<1>6. call'[d] = new /\ call' \in [Slots -> AnyCall] /\ \A e \in Daemons : e # d => call'[e] = call[e]
    BY <1>1, <1>3, <1>5, SlotsApart
<1> QED
    BY <1>6 DEF new

\* A walk through what holds torrent one at most.
LEMMA InOrderOne ==
    ASSUME NEW S \in SUBSET {1}, NEW s \in InOrder(S)
    PROVE  s = IF 1 \in S THEN << 1 >> ELSE <<>>
<1>1. CASE 1 \notin S
    <2>1. S = {} /\ Cardinality(S) = 0
        BY <1>1, FS_EmptySet
    <2>2. s \in [1..0 -> {}]
        BY <2>1 DEF InOrder
    <2> QED
        BY <2>2, <1>1
<1>2. CASE 1 \in S
    <2>0. S = {1}
        BY <1>2
    <2>1. S = {1} /\ Cardinality(S) = 1
        BY <2>0, FS_Singleton
    <2>2. s \in [1..1 -> {1}]
        BY <2>1 DEF InOrder
    <2> QED
        BY <2>2, <1>2
<1> QED
    BY <1>1, <1>2

\* A walk through daemons.
LEMMA InOrderDaemons ==
    ASSUME NEW S \in SUBSET Daemons, NEW s \in InOrder(S)
    PROVE  /\ s \in Seq(Daemons) /\ s \in Seq(Nat)
           /\ \A i \in DOMAIN s : s[i] \in S
           /\ S # {} => s # <<>>
<1>1. IsFiniteSet(S) /\ Cardinality(S) \in Nat
    BY DaemonsAssumption, FS_Subset, FS_CardinalityType
<1>2. /\ s \in [1..Cardinality(S) -> S] /\ \A x \in S : \E i \in DOMAIN s : s[i] = x
    BY DEF InOrder
<1>3. s \in [1..Cardinality(S) -> Daemons] /\ s \in [1..Cardinality(S) -> Nat]
    BY <1>2, DaemonsAssumption
<1>4. s \in Seq(Daemons) /\ s \in Seq(Nat)
    BY <1>1, <1>3
<1>5. ASSUME S # {} PROVE s # <<>>
    <2>1. PICK x \in S : TRUE
        BY <1>5
    <2>2. PICK i \in DOMAIN s : s[i] = x
        BY <1>2
    <2> QED
        BY <2>2
<1> QED
    BY <1>2, <1>4, <1>5

----------------------------------------------------------------------------
(***************************************************************************)
(* What the steps of the server change.                                    *)
(***************************************************************************)

\* A step of a daemon or of its call leaves the other daemons and calls alone.
Alone(d) ==
    \A e \in Daemons : e # d =>
        /\ tasks'[e] = tasks[e]
        /\ t2DownloadMap'[e] = t2DownloadMap[e] /\ t2UpdateMap'[e] = t2UpdateMap[e]
        /\ call'[e] = call[e] /\ line'[e] = line[e] /\ deffered'[e] = deffered[e]
        /\ reports'[e] = reports[e] /\ torrents'[e] = torrents[e]

\* What a step of a call makes of it.
CallNow(d, at, list) ==
    /\ call'[d].rpc = call[d].rpc /\ call'[d].at = at /\ call'[d].list = list
    /\ call'[d].info = call[d].info
    /\ \A e \in Daemons : e # d => call'[e] = call[e]

LEMMA CallGotoType ==
    ASSUME TypeOK, NEW d \in Daemons, NEW at \in Places, NEW list \in Lists(call[d].rpc),
           CallGoto(d, at, list)
    PROVE  call' \in [Slots -> AnyCall] /\ CallNow(d, at, list)
    BY CallGotoStep DEF CallNow

LEMMA EmptyList == \A rpc : <<>> \in Lists(rpc)
    BY DEF Lists

LEMMA AddTaskStep ==
    ASSUME TypeOK, NEW d \in Daemons, NEW types \in Seq(ServerTasks), AddTask(d, types)
    PROVE  /\ tasks' \in [Daemons -> Seq(ServerTasks)]
           /\ tasks'[d] = tasks[d] \o types
           /\ \A e \in Daemons : e # d => tasks'[e] = tasks[e]
<1>1. tasks \in [Daemons -> Seq(ServerTasks)]
    BY DEF TypeOK
<1> DEFINE new == tasks[d] \o types
<1>2. new \in Seq(ServerTasks)
    BY <1>1
<1>3. tasks' = [tasks EXCEPT ![d] = new]
    BY DEF AddTask
<1> HIDE DEF new
<1>4. /\ tasks' \in [Daemons -> Seq(ServerTasks)] /\ tasks'[d] = new
      /\ \A e \in Daemons : e # d => tasks'[e] = tasks[e]
    BY <1>1, <1>2, <1>3
<1> QED
    BY <1>4 DEF new

\* The daemons' own variables and the history.
LEMMA OthersStep ==
    ASSUME UNCHANGED others
    PROVE  /\ line' = line /\ deffered' = deffered /\ reports' = reports
           /\ torrents' = torrents /\ lost' = lost /\ orphans' = orphans /\ restarts' = restarts
    BY DEF others, daemonVars, history

LEMMA HandshakeStep ==
    ASSUME TypeOK, NEW d \in Daemons, Handshake(d, d)
    PROVE  /\ TypeOK' /\ Alone(d) /\ UNCHANGED others
           /\ UNCHANGED <<torrentDeque, t2DownloadMap, t2UpdateMap, made>>
           /\ call[d].rpc = "Handshake" /\ call[d].at = "called" /\ isFirst' = FALSE
           /\ \/ /\ isFirst /\ tasks'[d] = tasks[d] \o <<GEN, UPD>>
                 /\ CallNow(d, "replied", <<>>)
              \/ /\ ~isFirst /\ tasks' = tasks /\ CallNow(d, "give", <<d>>)
<1>1. /\ UNCHANGED others /\ UNCHANGED <<torrentDeque, t2DownloadMap, t2UpdateMap, made>>
      /\ call[d].rpc = "Handshake" /\ call[d].at = "called" /\ isFirst' = FALSE
      /\ uuids' = uuids \cup {d}
    BY DEF Handshake, Called
<1>2. /\ line' = line /\ deffered' = deffered /\ reports' = reports
      /\ torrents' = torrents /\ lost' = lost /\ orphans' = orphans /\ restarts' = restarts
    BY <1>1, OthersStep
<1>3. CASE isFirst
    <2>1. AddTask(d, <<GEN, UPD>>) /\ CallGoto(d, "replied", <<>>)
        BY <1>3 DEF Handshake, Reply, GEN, UPD
    <2>2. <<GEN, UPD>> \in Seq(ServerTasks) /\ "replied" \in Places
        BY DEF ServerTasks, GEN, UPD, Places
    <2>3. call' \in [Slots -> AnyCall] /\ CallNow(d, "replied", <<>>)
        BY <2>1, <2>2, CallGotoType, EmptyList
    <2>4. /\ tasks' \in [Daemons -> Seq(ServerTasks)] /\ tasks'[d] = tasks[d] \o <<GEN, UPD>>
          /\ \A e \in Daemons : e # d => tasks'[e] = tasks[e]
        BY <2>1, <2>2, AddTaskStep
    <2>5. TypeOK'
        BY <1>1, <1>2, <2>3, <2>4 DEF TypeOK, AnyCall
    <2>6. Alone(d)
        BY <1>1, <1>2, <2>3, <2>4 DEF Alone, CallNow
    <2> QED
        BY <1>1, <1>3, <2>3, <2>4, <2>5, <2>6
<1>4. CASE ~isFirst
    <2>1. tasks' = tasks /\ CallGoto(d, "give", <<d>>)
        BY <1>4 DEF Handshake
    <2>2. "give" \in Places /\ <<d>> \in Lists(call[d].rpc)
        BY <1>1, DaemonsAssumption DEF Places, Lists
    <2>3. call' \in [Slots -> AnyCall] /\ CallNow(d, "give", <<d>>)
        BY <2>1, <2>2, CallGotoType
    <2>5. TypeOK'
        BY <1>1, <1>2, <2>1, <2>3 DEF TypeOK, AnyCall
    <2>6. Alone(d)
        BY <1>1, <1>2, <2>1, <2>3 DEF Alone, CallNow
    <2> QED
        BY <1>1, <1>4, <2>1, <2>3, <2>5, <2>6
<1> QED
    BY <1>3, <1>4

LEMMA DaemonNumbers == \A s \in Seq(Daemons) : s \in Seq(Nat)
<1> TAKE s \in Seq(Daemons)
<1>1. Len(s) \in Nat /\ s \in [1..Len(s) -> Daemons]
    OBVIOUS
<1>2. s \in [1..Len(s) -> Nat]
    BY <1>1, DaemonsAssumption
<1> QED
    BY <1>1, <1>2

LEMMA DownloadTorrentStep ==
    ASSUME ShapeInv, NEW d \in Daemons, DownloadTorrent(d, d)
    PROVE  /\ TypeOK' /\ UNCHANGED others /\ UNCHANGED <<uuids, isFirst, t2UpdateMap, made>>
           /\ call[d].at = "give" /\ Head(call[d].list) \in Daemons
           /\ \/ CallNow(d, "replied", <<>>)
              \/ /\ Tail(call[d].list) # <<>> /\ CallNow(d, "give", Tail(call[d].list))
           /\ \/ UNCHANGED <<torrentDeque, t2DownloadMap, tasks>>
              \/ /\ torrentDeque = << 1 >> /\ torrentDeque' = <<>> /\ DownloadFree
                 /\ LET to == Head(call[d].list) IN
                    /\ t2DownloadMap'[to] = t2DownloadMap[to] \cup {1}
                    /\ tasks'[to] = tasks[to] \o <<DOWN>>
                    /\ \A e \in Daemons : e # to =>
                          tasks'[e] = tasks[e] /\ t2DownloadMap'[e] = t2DownloadMap[e]
<1> DEFINE to == Head(call[d].list)
           rest == Tail(call[d].list)
<1>0. TypeOK /\ torrentDeque \in {<<>>, << 1 >>}
    BY DEF ShapeInv
<1>1. /\ UNCHANGED others /\ UNCHANGED <<uuids, isFirst, t2UpdateMap, made>> /\ call[d].at = "give"
      /\ CallGoto(d, IF rest = <<>> THEN "replied" ELSE "give", rest)
    BY DEF DownloadTorrent
<1>2. /\ line' = line /\ deffered' = deffered /\ reports' = reports
      /\ torrents' = torrents /\ lost' = lost /\ orphans' = orphans /\ restarts' = restarts
    BY <1>1, OthersStep
<1>3. /\ call[d].rpc # "GetTaskList" /\ call[d].list \in Seq(Daemons) /\ call[d].list # <<>>
    BY <1>1 DEF ShapeInv, CallShape
<1>4. to \in Daemons /\ rest \in Seq(Daemons)
    BY <1>3
<1>5. rest \in Lists(call[d].rpc)
    BY <1>3, <1>4, DaemonNumbers DEF Lists
<1>6. "replied" \in Places /\ "give" \in Places
    BY DEF Places
<1>7. /\ call' \in [Slots -> AnyCall]
      /\ \/ CallNow(d, "replied", <<>>)
         \/ /\ rest # <<>> /\ CallNow(d, "give", rest)
    <2>1. CASE rest = <<>>
        <3>1. CallGoto(d, "replied", <<>>)
            BY <1>1, <2>1
        <3> QED
            BY <1>0, <1>6, <3>1, CallGotoType, EmptyList
    <2>2. CASE rest # <<>>
        <3>1. CallGoto(d, "give", rest)
            BY <1>1, <2>2
        <3> QED
            BY <1>0, <1>5, <1>6, <2>2, <3>1, CallGotoType
    <2> QED
        BY <2>1, <2>2
<1>8. CASE UNCHANGED <<torrentDeque, t2DownloadMap, tasks>>
    <2>1. TypeOK'
        BY <1>0, <1>1, <1>2, <1>7, <1>8 DEF TypeOK, AnyCall
    <2> QED
        BY <1>1, <1>4, <1>7, <1>8, <2>1
<1>9. CASE ~UNCHANGED <<torrentDeque, t2DownloadMap, tasks>>
    <2>1. /\ torrentDeque # <<>> /\ DownloadFree /\ AddTask(to, <<DOWN>>)
          /\ t2DownloadMap' = [t2DownloadMap EXCEPT ![to] = t2DownloadMap[to] \cup {Head(torrentDeque)}]
          /\ torrentDeque' = Tail(torrentDeque)
        BY <1>9 DEF DownloadTorrent, DOWN
    <2>2. torrentDeque = << 1 >> /\ torrentDeque \in Seq(Torrents)
        BY <1>0, <2>1 DEF TypeOK
    <2>3. Head(torrentDeque) = 1 /\ Tail(torrentDeque) = <<>> /\ 1 \in Torrents
        BY <2>2
    <2>4. /\ t2DownloadMap'[to] = t2DownloadMap[to] \cup {1}
          /\ \A e \in Daemons : e # to => t2DownloadMap'[e] = t2DownloadMap[e]
          /\ t2DownloadMap' \in [Daemons -> SUBSET Torrents]
        BY <1>0, <1>4, <2>1, <2>3 DEF TypeOK
    <2>5. <<DOWN>> \in Seq(ServerTasks)
        BY DEF ServerTasks, DOWN
    <2>6. /\ tasks' \in [Daemons -> Seq(ServerTasks)] /\ tasks'[to] = tasks[to] \o <<DOWN>>
          /\ \A e \in Daemons : e # to => tasks'[e] = tasks[e]
        BY <1>0, <1>4, <2>1, <2>5, AddTaskStep
    <2>7. torrentDeque' = <<>>
        BY <2>1, <2>3
    <2>7a. torrentDeque' \in Seq(Torrents)
        BY <2>7
    <2>8. TypeOK'
        BY <1>0, <1>1, <1>2, <1>7, <2>4, <2>6, <2>7a DEF TypeOK, AnyCall
    <2> QED
        BY <1>1, <1>4, <1>7, <2>1, <2>2, <2>4, <2>6, <2>7, <2>8
<1> QED
    BY <1>8, <1>9

Passing(d) == call[d].info.status = "GENERATED" /\ call[d].info.link

LEMMA UpdateTorrentStatusStep ==
    ASSUME ShapeInv, NEW d \in Daemons, UpdateTorrentStatus(d, d)
    PROVE  /\ TypeOK' /\ Alone(d) /\ UNCHANGED others
           /\ UNCHANGED <<uuids, isFirst, t2DownloadMap, made>>
           /\ call[d].rpc = "UpdateTorrentStatus" /\ call[d].at = "called"
           /\ torrentDeque' = IF Passing(d) THEN Append(torrentDeque, 1) ELSE torrentDeque
           /\ t2UpdateMap'[d] = IF Passing(d) \/ call[d].info.status = "DOWNLOADED"
                                THEN t2UpdateMap[d] \ {1} ELSE t2UpdateMap[d]
           /\ IF call[d].info.status \in {"GENERATED", "DOWNLOADED"}
              THEN tasks' = tasks ELSE tasks'[d] = tasks[d] \o <<UPD>>
           /\ \/ CallNow(d, "replied", <<>>)
              \/ /\ Passing(d)
                 /\ \E to \in Seq(Daemons) : /\ CallNow(d, "give", to) /\ to # <<>>
                                             /\ \A i \in DOMAIN to : to[i] # d
<1>0. TypeOK
    BY DEF ShapeInv
<1>1. /\ UNCHANGED others /\ UNCHANGED <<uuids, isFirst, t2DownloadMap, made>>
      /\ call[d].rpc = "UpdateTorrentStatus" /\ call[d].at = "called"
      /\ torrentDeque' = IF Passing(d) THEN Append(torrentDeque, call[d].info.id) ELSE torrentDeque
      /\ t2UpdateMap' = IF Passing(d) \/ call[d].info.status = "DOWNLOADED"
                        THEN [t2UpdateMap EXCEPT ![d] = t2UpdateMap[d] \ {call[d].info.id}] ELSE t2UpdateMap
      /\ IF call[d].info.status \in {"GENERATED", "DOWNLOADED"}
         THEN tasks' = tasks ELSE AddTask(d, <<UPD>>)
      /\ IF Passing(d) /\ uuids \ {d} # {}
         THEN \E to \in InOrder(uuids \ {d}) : CallGoto(d, "give", to)
         ELSE CallGoto(d, "replied", <<>>)
    BY DEF UpdateTorrentStatus, Called, Passing, Reply, UPD
<1>2. /\ line' = line /\ deffered' = deffered /\ reports' = reports
      /\ torrents' = torrents /\ lost' = lost /\ orphans' = orphans /\ restarts' = restarts
    BY <1>1, OthersStep
<1>3. call[d].info.id = 1 /\ 1 \in t2UpdateMap[d]
    BY <1>1 DEF ShapeInv, ReportShape
<1>4. 1 \in Torrents
    BY <1>0, <1>3 DEF TypeOK
<1>5. /\ torrentDeque' = IF Passing(d) THEN Append(torrentDeque, 1) ELSE torrentDeque
      /\ torrentDeque' \in Seq(Torrents)
    BY <1>0, <1>1, <1>3, <1>4 DEF TypeOK
<1>6. /\ t2UpdateMap' \in [Daemons -> SUBSET Torrents]
      /\ t2UpdateMap'[d] = IF Passing(d) \/ call[d].info.status = "DOWNLOADED"
                           THEN t2UpdateMap[d] \ {1} ELSE t2UpdateMap[d]
      /\ \A e \in Daemons : e # d => t2UpdateMap'[e] = t2UpdateMap[e]
    BY <1>0, <1>1, <1>3 DEF TypeOK
<1>7. /\ tasks' \in [Daemons -> Seq(ServerTasks)]
      /\ IF call[d].info.status \in {"GENERATED", "DOWNLOADED"}
         THEN tasks' = tasks ELSE tasks'[d] = tasks[d] \o <<UPD>>
      /\ \A e \in Daemons : e # d => tasks'[e] = tasks[e]
    <2>1. <<UPD>> \in Seq(ServerTasks) /\ tasks \in [Daemons -> Seq(ServerTasks)]
        BY <1>0 DEF ServerTasks, UPD, TypeOK
    <2>2. CASE call[d].info.status \in {"GENERATED", "DOWNLOADED"}
        BY <1>1, <2>1, <2>2
    <2>3. CASE call[d].info.status \notin {"GENERATED", "DOWNLOADED"}
        <3>1. AddTask(d, <<UPD>>)
            BY <1>1, <2>3
        <3> QED
            BY <1>0, <2>1, <2>3, <3>1, AddTaskStep
    <2> QED
        BY <2>2, <2>3
<1>8. /\ call' \in [Slots -> AnyCall] /\ \A e \in Daemons : e # d => call'[e] = call[e]
      /\ \/ CallNow(d, "replied", <<>>)
         \/ /\ Passing(d)
            /\ \E to \in Seq(Daemons) : /\ CallNow(d, "give", to) /\ to # <<>>
                                        /\ \A i \in DOMAIN to : to[i] # d
    <2>0. "replied" \in Places /\ "give" \in Places
        BY DEF Places
    <2>1. CASE Passing(d) /\ uuids \ {d} # {}
        <3>1. PICK to \in InOrder(uuids \ {d}) : CallGoto(d, "give", to)
            BY <1>1, <2>1
        <3>2. uuids \ {d} \in SUBSET Daemons
            BY <1>0 DEF TypeOK
        <3>3. /\ to \in Seq(Daemons) /\ to \in Seq(Nat) /\ to # <<>>
              /\ \A i \in DOMAIN to : to[i] # d
            BY <2>1, <3>2, InOrderDaemons
        <3>4. to \in Lists(call[d].rpc)
            BY <1>1, <3>3 DEF Lists
        <3>5. call' \in [Slots -> AnyCall] /\ CallNow(d, "give", to)
            BY <1>0, <2>0, <3>1, <3>4, CallGotoType
        <3>6. \A e \in Daemons : e # d => call'[e] = call[e]
            BY <3>5 DEF CallNow
        <3> QED
            BY <2>1, <3>3, <3>5, <3>6
    <2>2. CASE ~(Passing(d) /\ uuids \ {d} # {})
        <3>1. CallGoto(d, "replied", <<>>)
            BY <1>1, <2>2
        <3>2. call' \in [Slots -> AnyCall] /\ CallNow(d, "replied", <<>>)
            BY <1>0, <2>0, <3>1, CallGotoType, EmptyList
        <3>6. \A e \in Daemons : e # d => call'[e] = call[e]
            BY <3>2 DEF CallNow
        <3> QED
            BY <3>2, <3>6
    <2> QED
        BY <2>1, <2>2
<1>9. TypeOK'
    BY <1>0, <1>1, <1>2, <1>5, <1>6, <1>7, <1>8 DEF TypeOK, AnyCall
<1>10. Alone(d)
    BY <1>1, <1>2, <1>6, <1>7, <1>8 DEF Alone
<1> QED
    BY <1>1, <1>5, <1>6, <1>7, <1>8, <1>9, <1>10

LEMMA GetTaskListStep ==
    ASSUME TypeOK, NEW d \in Daemons, GetTaskList(d, d)
    PROVE  /\ TypeOK' /\ Alone(d) /\ UNCHANGED others
           /\ UNCHANGED <<uuids, isFirst, torrentDeque, t2DownloadMap, t2UpdateMap, made>>
           /\ call[d].rpc = "GetTaskList" /\ call[d].at = "called"
           /\ tasks'[d] = <<>> /\ CallNow(d, "replied", tasks[d])
<1>1. /\ UNCHANGED others
      /\ UNCHANGED <<uuids, isFirst, torrentDeque, t2DownloadMap, t2UpdateMap, made>>
      /\ call[d].rpc = "GetTaskList" /\ call[d].at = "called"
      /\ tasks' = [tasks EXCEPT ![d] = <<>>] /\ CallGoto(d, "replied", tasks[d])
    BY DEF GetTaskList, Called, Reply
<1>2. /\ line' = line /\ deffered' = deffered /\ reports' = reports
      /\ torrents' = torrents /\ lost' = lost /\ orphans' = orphans /\ restarts' = restarts
    BY <1>1, OthersStep
<1>3. /\ tasks' \in [Daemons -> Seq(ServerTasks)] /\ tasks'[d] = <<>>
      /\ \A e \in Daemons : e # d => tasks'[e] = tasks[e]
    BY <1>1 DEF TypeOK
<1>4. "replied" \in Places /\ tasks[d] \in Lists(call[d].rpc)
    BY <1>1 DEF Places, Lists, TypeOK
<1>5. call' \in [Slots -> AnyCall] /\ CallNow(d, "replied", tasks[d])
    BY <1>1, <1>4, CallGotoType
<1>6. TypeOK'
    BY <1>1, <1>2, <1>3, <1>5 DEF TypeOK, AnyCall
<1>7. Alone(d)
    BY <1>1, <1>2, <1>3, <1>5 DEF Alone, CallNow
<1> QED
    BY <1>1, <1>3, <1>5, <1>6, <1>7

LEMMA GetInfoStep ==
    ASSUME TypeOK, made = 0, NEW d \in Daemons, GetInfoForGenerateTorrents(d, d)
    PROVE  /\ TypeOK' /\ Alone(d) /\ UNCHANGED others
           /\ UNCHANGED <<uuids, isFirst, torrentDeque, tasks, t2DownloadMap>>
           /\ call[d].rpc = "GetInfoForGenerateTorrents" /\ call[d].at = "called"
           /\ made' = 1 /\ 1 \in Torrents /\ t2UpdateMap'[d] = t2UpdateMap[d] \cup {1}
           /\ CallNow(d, "replied", << 1 >>)
<1>1. /\ UNCHANGED others
      /\ UNCHANGED <<uuids, isFirst, torrentDeque, tasks, t2DownloadMap>>
      /\ call[d].rpc = "GetInfoForGenerateTorrents" /\ call[d].at = "called"
      /\ made < MaxTorrents /\ made' = made + 1
      /\ t2UpdateMap' = [t2UpdateMap EXCEPT ![d] = t2UpdateMap[d] \cup {made'}]
      /\ CallGoto(d, "replied", <<made'>>)
    BY DEF GetInfoForGenerateTorrents, Called, Reply
<1>2. /\ line' = line /\ deffered' = deffered /\ reports' = reports
      /\ torrents' = torrents /\ lost' = lost /\ orphans' = orphans /\ restarts' = restarts
    BY <1>1, OthersStep
<1>3. made' = 1 /\ 1 \in Torrents /\ made' \in 0..MaxTorrents
    BY <1>1, BoundsAssumption DEF Torrents
<1>4. /\ t2UpdateMap' \in [Daemons -> SUBSET Torrents] /\ t2UpdateMap'[d] = t2UpdateMap[d] \cup {1}
      /\ \A e \in Daemons : e # d => t2UpdateMap'[e] = t2UpdateMap[e]
    BY <1>1, <1>3 DEF TypeOK
<1>5. "replied" \in Places /\ << 1 >> \in Lists(call[d].rpc)
    BY <1>1 DEF Places, Lists
<1>6. call' \in [Slots -> AnyCall] /\ CallNow(d, "replied", << 1 >>)
    BY <1>1, <1>3, <1>5, CallGotoType
<1>7. TypeOK'
    BY <1>1, <1>2, <1>3, <1>4, <1>6 DEF TypeOK, AnyCall
<1>8. Alone(d)
    BY <1>1, <1>2, <1>4, <1>6 DEF Alone, CallNow
<1> QED
    BY <1>1, <1>3, <1>4, <1>6, <1>7, <1>8

LEMMA GetForUpdateStep ==
    ASSUME TypeOK, NEW d \in Daemons, t2UpdateMap[d] \subseteq {1}, GetTorrentsForUpdateStatus(d, d)
    PROVE  /\ TypeOK' /\ Alone(d) /\ UNCHANGED others /\ UNCHANGED serverVars
           /\ call[d].rpc = "GetTorrentsForUpdateStatus" /\ call[d].at = "called"
           /\ CallNow(d, "replied", IF 1 \in t2UpdateMap[d] THEN << 1 >> ELSE <<>>)
<1> DEFINE list == IF 1 \in t2UpdateMap[d] THEN << 1 >> ELSE <<>>
<1>1. /\ UNCHANGED others /\ UNCHANGED serverVars
      /\ call[d].rpc = "GetTorrentsForUpdateStatus" /\ call[d].at = "called"
      /\ \E l \in InOrder(t2UpdateMap[d]) : CallGoto(d, "replied", l)
    BY DEF GetTorrentsForUpdateStatus, Called, Reply
<1>2. /\ line' = line /\ deffered' = deffered /\ reports' = reports
      /\ torrents' = torrents /\ lost' = lost /\ orphans' = orphans /\ restarts' = restarts
    BY <1>1, OthersStep
<1>3. CallGoto(d, "replied", list)
    BY <1>1, InOrderOne
<1>4. list \in Seq(Nat)
    OBVIOUS
<1>5. "replied" \in Places /\ list \in Lists(call[d].rpc)
    BY <1>1, <1>4 DEF Places, Lists
<1> HIDE DEF list
<1>6. call' \in [Slots -> AnyCall] /\ CallNow(d, "replied", list)
    BY <1>3, <1>5, CallGotoType
<1>7. TypeOK'
    BY <1>1, <1>2, <1>6 DEF TypeOK, AnyCall, serverVars
<1>8. Alone(d)
    BY <1>1, <1>2, <1>6 DEF Alone, CallNow, serverVars
<1> QED
    BY <1>1, <1>6, <1>7, <1>8 DEF list

LEMMA GetForDownloadStep ==
    ASSUME TypeOK, NEW d \in Daemons, t2DownloadMap[d] \subseteq {1}, GetTorrentsForDownload(d, d)
    PROVE  /\ TypeOK' /\ Alone(d) /\ UNCHANGED others
           /\ UNCHANGED <<uuids, isFirst, torrentDeque, tasks, made>>
           /\ call[d].rpc = "GetTorrentsForDownload" /\ call[d].at = "called"
           /\ t2UpdateMap'[d] = t2UpdateMap[d] \cup t2DownloadMap[d] /\ t2DownloadMap'[d] = {}
           /\ \/ t2DownloadMap[d] = {} /\ CallNow(d, "replied", <<>>)
              \/ t2DownloadMap[d] = {1} /\ CallNow(d, "task", << 1 >>)
<1>1. /\ UNCHANGED others /\ UNCHANGED <<uuids, isFirst, torrentDeque, tasks, made>>
      /\ call[d].rpc = "GetTorrentsForDownload" /\ call[d].at = "called"
      /\ t2UpdateMap' = [t2UpdateMap EXCEPT ![d] = t2UpdateMap[d] \cup t2DownloadMap[d]]
      /\ t2DownloadMap' = [t2DownloadMap EXCEPT ![d] = {}]
      /\ \E list \in InOrder(t2DownloadMap[d]) :
            CallGoto(d, IF t2DownloadMap[d] = {} THEN "replied" ELSE "task", list)
    BY DEF GetTorrentsForDownload, Called
<1>2. /\ line' = line /\ deffered' = deffered /\ reports' = reports
      /\ torrents' = torrents /\ lost' = lost /\ orphans' = orphans /\ restarts' = restarts
    BY <1>1, OthersStep
<1>3. /\ t2UpdateMap' \in [Daemons -> SUBSET Torrents]
      /\ t2UpdateMap'[d] = t2UpdateMap[d] \cup t2DownloadMap[d]
      /\ \A e \in Daemons : e # d => t2UpdateMap'[e] = t2UpdateMap[e]
    BY <1>1 DEF TypeOK
<1>4. /\ t2DownloadMap' \in [Daemons -> SUBSET Torrents] /\ t2DownloadMap'[d] = {}
      /\ \A e \in Daemons : e # d => t2DownloadMap'[e] = t2DownloadMap[e]
    BY <1>1 DEF TypeOK
<1>5. /\ "replied" \in Places /\ "task" \in Places /\ << 1 >> \in Lists(call[d].rpc)
    BY <1>1 DEF Places, Lists
<1>6. /\ call' \in [Slots -> AnyCall] /\ \A e \in Daemons : e # d => call'[e] = call[e]
      /\ \/ t2DownloadMap[d] = {} /\ CallNow(d, "replied", <<>>)
         \/ t2DownloadMap[d] = {1} /\ CallNow(d, "task", << 1 >>)
    <2>1. CASE t2DownloadMap[d] = {}
        <3>1. CallGoto(d, "replied", <<>>)
            BY <1>1, <2>1, InOrderOne
        <3>2. call' \in [Slots -> AnyCall] /\ CallNow(d, "replied", <<>>)
            BY <1>5, <3>1, CallGotoType, EmptyList
        <3> QED
            BY <2>1, <3>2 DEF CallNow
    <2>2. CASE t2DownloadMap[d] = {1}
        <3>1. CallGoto(d, "task", << 1 >>)
            BY <1>1, <2>2, InOrderOne
        <3>2. call' \in [Slots -> AnyCall] /\ CallNow(d, "task", << 1 >>)
            BY <1>5, <3>1, CallGotoType
        <3> QED
            BY <2>2, <3>2 DEF CallNow
    <2> QED
        BY <2>1, <2>2
<1>7. TypeOK'
    BY <1>1, <1>2, <1>3, <1>4, <1>6 DEF TypeOK, AnyCall
<1>8. Alone(d)
    BY <1>1, <1>2, <1>3, <1>4, <1>6 DEF Alone
<1> QED
    BY <1>1, <1>3, <1>4, <1>6, <1>7, <1>8

LEMMA ReportOnDownloadsStep ==
    ASSUME TypeOK, NEW d \in Daemons, ReportOnDownloads(d, d)
    PROVE  /\ TypeOK' /\ Alone(d) /\ UNCHANGED others
           /\ UNCHANGED <<uuids, isFirst, torrentDeque, t2DownloadMap, t2UpdateMap, made>>
           /\ call[d].at = "task" /\ tasks'[d] = tasks[d] \o <<UPD>>
           /\ CallNow(d, "replied", call[d].list)
<1>1. /\ UNCHANGED others
      /\ UNCHANGED <<uuids, isFirst, torrentDeque, t2DownloadMap, t2UpdateMap, made>>
      /\ call[d].at = "task" /\ AddTask(d, <<UPD>>) /\ CallGoto(d, "replied", call[d].list)
    BY DEF ReportOnDownloads, Reply, UPD
<1>2. /\ line' = line /\ deffered' = deffered /\ reports' = reports
      /\ torrents' = torrents /\ lost' = lost /\ orphans' = orphans /\ restarts' = restarts
    BY <1>1, OthersStep
<1>3. "replied" \in Places /\ <<UPD>> \in Seq(ServerTasks)
    BY DEF Places, ServerTasks, UPD
<1>4. call[d] \in AnyCall
    BY SlotsApart DEF TypeOK, AnyCall
<1>5. call[d].list \in Lists(call[d].rpc)
    BY <1>4, CallFields
<1>6. call' \in [Slots -> AnyCall] /\ CallNow(d, "replied", call[d].list)
    BY <1>1, <1>3, <1>5, CallGotoType
<1>7. /\ tasks' \in [Daemons -> Seq(ServerTasks)] /\ tasks'[d] = tasks[d] \o <<UPD>>
      /\ \A e \in Daemons : e # d => tasks'[e] = tasks[e]
    BY <1>1, <1>3, AddTaskStep
<1>8. TypeOK'
    BY <1>1, <1>2, <1>6, <1>7 DEF TypeOK, AnyCall
<1>9. Alone(d)
    BY <1>1, <1>2, <1>6, <1>7 DEF Alone, CallNow
<1> QED
    BY <1>1, <1>6, <1>7, <1>8, <1>9

----------------------------------------------------------------------------
(***************************************************************************)
(* What the steps of the daemons change.                                   *)
(***************************************************************************)

LEMMA NoCallType ==
    /\ NoInfo \in Infos /\ NoCall \in AnyCall
    /\ NoCall.rpc = "none" /\ NoCall.at = "none" /\ NoCall.list = <<>>
<1>1. NoInfo \in Infos
    BY DEF NoInfo, Infos, Status
<1>2. "none" \in Places /\ <<>> \in Lists("none")
    BY DEF Places, Lists
<1>3. NoCall \in AnyCall
    BY <1>1, <1>2, CallOf DEF NoCall, NewCall
<1> QED
    BY <1>1, <1>3 DEF NoCall, NewCall

\* A new call, in the place of the daemon's last one.
Puts(d, rpc, at, info) == call' = [call EXCEPT ![d] = NewCall(rpc, at, info)]
IsNew(d, rpc, at, info) ==
    /\ call' \in [Slots -> AnyCall]
    /\ call'[d].rpc = rpc /\ call'[d].at = at /\ call'[d].info = info /\ call'[d].list = <<>>
    /\ \A e \in Daemons : e # d => call'[e] = call[e]

LEMMA NewCallStep ==
    ASSUME TypeOK, NEW d \in Daemons, NEW rpc \in Rpcs \cup {"none"}, NEW at \in Places,
           NEW info \in Infos, Puts(d, rpc, at, info)
    PROVE  IsNew(d, rpc, at, info)
<1>1. call \in [Slots -> AnyCall]
    BY DEF TypeOK, AnyCall
<1>2. NewCall(rpc, at, info) \in AnyCall
    BY CallOf, EmptyList DEF NewCall
<1>3. /\ call' \in [Slots -> AnyCall] /\ call'[d] = NewCall(rpc, at, info)
      /\ \A e \in Daemons : e # d => call'[e] = call[e]
    BY <1>1, <1>2, SlotsApart DEF Puts
<1> QED
    BY <1>3 DEF NewCall, IsNew

LEMMA RunTaskStep ==
    ASSUME TypeOK, NEW d \in Daemons, RunTask(d)
    PROVE  /\ TypeOK' /\ Alone(d)
           /\ UNCHANGED <<serverVars, deffered, reports, torrents, lost, orphans, restarts>>
           /\ call[d] = NoCall /\ reports[d] = <<>> /\ line[d] # <<>>
           /\ Head(line[d]) \in Types /\ line'[d] = Tail(line[d])
           /\ call'[d].rpc = Stub[Head(line[d])] /\ call'[d].rpc \in Rpcs
           /\ call'[d].at = "called" /\ call'[d].list = <<>>
<1>1. /\ UNCHANGED <<serverVars, deffered, reports, torrents, lost, orphans, restarts>>
      /\ call[d] = NoCall /\ reports[d] = <<>> /\ line[d] # <<>>
      /\ call' = [call EXCEPT ![d] = NewCall(Stub[Head(line[d])], "called", NoInfo)]
      /\ line' = [line EXCEPT ![d] = Tail(line[d])]
    BY DEF RunTask, history
<1>2. line \in [Daemons -> Seq(Types)]
    BY DEF TypeOK, Types
<1>3. Head(line[d]) \in Types /\ Tail(line[d]) \in Seq(Types)
    BY <1>1, <1>2
<1>4. /\ line' \in [Daemons -> Seq(Types)] /\ line'[d] = Tail(line[d])
      /\ \A e \in Daemons : e # d => line'[e] = line[e]
    BY <1>1, <1>2, <1>3
<1>5. Stub[Head(line[d])] \in Rpcs
    BY <1>3 DEF Stub, Types, ServerTasks, DefferedTypes, Rpcs
<1>6. "called" \in Places /\ NoInfo \in Infos /\ Stub[Head(line[d])] \in Rpcs \cup {"none"}
    BY <1>5, NoCallType DEF Places
<1>7. /\ call' \in [Slots -> AnyCall]
      /\ call'[d].rpc = Stub[Head(line[d])] /\ call'[d].at = "called" /\ call'[d].list = <<>>
      /\ \A e \in Daemons : e # d => call'[e] = call[e]
    <2> DEFINE r == Stub[Head(line[d])]
    <2>1. Puts(d, r, "called", NoInfo)
        BY <1>1 DEF Puts
    <2>2. r \in Rpcs \cup {"none"}
        BY <1>6
    <2> HIDE DEF r
    <2>3. IsNew(d, r, "called", NoInfo)
        BY <1>6, <2>1, <2>2, NewCallStep
    <2> QED
        BY <2>3 DEF r, IsNew
<1>8. TypeOK'
    BY <1>1, <1>4, <1>7 DEF TypeOK, AnyCall, serverVars, Types
<1>9. Alone(d)
    BY <1>1, <1>4, <1>7 DEF Alone, serverVars
<1> QED
    BY <1>1, <1>3, <1>4, <1>5, <1>7, <1>8, <1>9

\* An answer, whole or cut off.
GotOK(d, got) ==
    /\ call[d].rpc \in Rpcs
    /\ call[d].rpc = "GetTaskList" => got \in Seq(ServerTasks)
    /\ call[d].rpc \in {"GetInfoForGenerateTorrents", "GetTorrentsForUpdateStatus",
                        "GetTorrentsForDownload"} => got = <<>> \/ (got = << 1 >> /\ 1 \in Torrents)

\* The records of torrents that a daemon starts on.
LEMMA StartingType ==
    ASSUME TypeOK, NEW d \in Daemons, NEW got, NEW s \in Status,
           got = <<>> \/ (got = << 1 >> /\ 1 \in Torrents),
           NEW new, new = [i \in Torrents |-> IF \E k \in DOMAIN got : got[k] = i
                                              THEN s ELSE torrents[d][i]]
    PROVE  /\ new \in [Torrents -> Status]
           /\ \A t \in Torrents : t # 1 => new[t] = torrents[d][t]
           /\ got = <<>> => new = torrents[d]
           /\ got = << 1 >> => new[1] = s
<1>1. torrents[d] \in [Torrents -> Status]
    BY DEF TypeOK
<1>2. CASE got = <<>>
    BY <1>1, <1>2
<1>3. CASE got = << 1 >> /\ 1 \in Torrents
    <2>1. \A i : (\E k \in DOMAIN got : got[k] = i) <=> i = 1
        BY <1>3
    <2>2. got # <<>>
        BY <1>3
    <2> HIDE <1>3
    <2>3. 1 \in Torrents
        BY <1>3
    <2>4. new = [i \in Torrents |-> IF i = 1 THEN s ELSE torrents[d][i]]
        BY <2>1
    <2> QED
        BY <1>1, <2>2, <2>3, <2>4
<1> QED
    BY <1>2, <1>3

\* It goes on with it, and the call is over.
Ends(d, ok, got) ==
    Continue(d, ok, got) /\ call' = [call EXCEPT ![d] = NoCall] /\ orphans' = orphans

LEMMA ContinueStep ==
    ASSUME TypeOK, NEW d \in Daemons, NEW ok \in BOOLEAN, NEW got, GotOK(d, got),
           Ends(d, ok, got), lost' \in BOOLEAN
    PROVE  /\ TypeOK' /\ Alone(d) /\ UNCHANGED <<serverVars, restarts>> /\ call'[d] = NoCall
           /\ call[d].rpc = "Handshake" =>
                 /\ ok  => line'[d] = line[d] \o <<"UPDATE_TASK_LIST">> /\ deffered'[d] = deffered[d]
                 /\ ~ok => line'[d] = line[d] /\ deffered'[d] = deffered[d] \cup {"MAKE_HANDSHAKE"}
           /\ call[d].rpc = "GetTaskList" =>
                 line'[d] = line[d] \o got /\ deffered'[d] = deffered[d] \cup {"UPDATE_TASK_LIST"}
           /\ call[d].rpc = "GetInfoForGenerateTorrents" =>
                 line'[d] = line[d] /\ deffered'[d] = deffered[d] \cup {UPD}
           /\ call[d].rpc = "GetTorrentsForDownload" =>
                 line'[d] = line[d] \o <<UPD>> /\ deffered'[d] = deffered[d]
           /\ call[d].rpc \in {"GetTorrentsForUpdateStatus", "UpdateTorrentStatus"} =>
                 line'[d] = line[d] /\ deffered'[d] = deffered[d]
           /\ reports'[d] = IF call[d].rpc = "GetTorrentsForUpdateStatus" THEN got ELSE reports[d]
           /\ IF call[d].rpc \in {"GetInfoForGenerateTorrents", "GetTorrentsForDownload"}
              THEN /\ \A t \in Torrents : t # 1 => torrents'[d][t] = torrents[d][t]
                   /\ got = <<>> => torrents'[d] = torrents[d]
                   /\ got = << 1 >> => torrents'[d][1] = IF call[d].rpc = "GetTorrentsForDownload"
                                                       THEN "DOWNLOADING" ELSE "GENERATING"
              ELSE torrents'[d] = torrents[d]
<1> DEFINE rpc == call[d].rpc
           s == IF rpc = "GetTorrentsForDownload" THEN "DOWNLOADING" ELSE "GENERATING"
           starting == [i \in Torrents |-> IF \E k \in DOMAIN got : got[k] = i
                                           THEN s ELSE torrents[d][i]]
           more == CASE rpc = "Handshake" /\ ok -> <<"UPDATE_TASK_LIST">>
                     [] rpc = "GetTaskList" -> got
                     [] rpc = "GetTorrentsForDownload" -> <<"UPDATE_TORRENT_STATUS">>
                     [] OTHER -> <<>>
           later == CASE rpc = "Handshake" /\ ~ok -> {"MAKE_HANDSHAKE"}
                      [] rpc = "GetTaskList" -> {"UPDATE_TASK_LIST"}
                      [] rpc = "GetInfoForGenerateTorrents" -> {"UPDATE_TORRENT_STATUS"}
                      [] OTHER -> {}
           started == IF rpc \in {"GetInfoForGenerateTorrents", "GetTorrentsForDownload"}
                      THEN starting ELSE torrents[d]
           told == IF rpc = "GetTorrentsForUpdateStatus" THEN got ELSE reports[d]
<1>1. /\ call' = [call EXCEPT ![d] = NoCall]
      /\ line' = [line EXCEPT ![d] = line[d] \o more]
      /\ deffered' = [deffered EXCEPT ![d] = deffered[d] \cup later]
      /\ reports' = [reports EXCEPT ![d] = told]
      /\ torrents' = [torrents EXCEPT ![d] = started]
      /\ orphans' = orphans /\ UNCHANGED <<serverVars, restarts>>
    BY DEF Ends, Continue
<1>2. rpc \in Rpcs
    BY DEF GotOK
<1>3. /\ more \in Seq(Types)
      /\ rpc = "Handshake" /\ ok => more = <<"UPDATE_TASK_LIST">>
      /\ rpc = "GetTaskList" => more = got
      /\ rpc = "GetTorrentsForDownload" => more = <<UPD>>
      /\ (rpc = "Handshake" /\ ~ok) \/ rpc \in {"GetInfoForGenerateTorrents",
            "GetTorrentsForUpdateStatus", "UpdateTorrentStatus"} => more = <<>>
    <2>1. CASE rpc = "Handshake"
        <3>1. "UPDATE_TASK_LIST" \in Types
            BY DEF Types, DefferedTypes
        <3>2. <<"UPDATE_TASK_LIST">> \in Seq(Types) /\ <<>> \in Seq(Types)
            BY <3>1
        <3>3. more = IF ok THEN <<"UPDATE_TASK_LIST">> ELSE <<>>
            BY <2>1
        <3> QED
            BY <2>1, <3>2, <3>3
    <2>2. CASE rpc = "GetTaskList"
        <3>1. got \in Seq(ServerTasks) /\ ServerTasks \subseteq Types
            BY <2>2 DEF GotOK, Types
        <3>2. got \in Seq(Types)
            BY <3>1, SeqMonotonic
        <3> QED
            BY <2>2, <3>2
    <2>3. CASE rpc = "GetTorrentsForDownload"
        BY <2>3 DEF Types, ServerTasks, DefferedTypes, UPD
    <2>4. CASE rpc \in {"GetInfoForGenerateTorrents", "GetTorrentsForUpdateStatus", "UpdateTorrentStatus"}
        BY <2>4
    <2> QED
        BY <1>2, <2>1, <2>2, <2>3, <2>4 DEF Rpcs
<1>4. /\ later \in SUBSET DefferedTypes
      /\ rpc = "Handshake" /\ ~ok => later = {"MAKE_HANDSHAKE"}
      /\ rpc = "GetTaskList" => later = {"UPDATE_TASK_LIST"}
      /\ rpc = "GetInfoForGenerateTorrents" => later = {UPD}
      /\ (rpc = "Handshake" /\ ok) \/ rpc \in {"GetTorrentsForDownload",
            "GetTorrentsForUpdateStatus", "UpdateTorrentStatus"} => later = {}
    BY <1>2 DEF Rpcs, DefferedTypes, UPD
<1>5. /\ started \in [Torrents -> Status]
      /\ IF rpc \in {"GetInfoForGenerateTorrents", "GetTorrentsForDownload"}
         THEN /\ \A t \in Torrents : t # 1 => started[t] = torrents[d][t]
              /\ got = <<>> => started = torrents[d]
              /\ got = << 1 >> => started[1] = s
         ELSE started = torrents[d]
    <2>1. CASE rpc \in {"GetInfoForGenerateTorrents", "GetTorrentsForDownload"}
        <3>1. got = <<>> \/ (got = << 1 >> /\ 1 \in Torrents)
            BY <2>1 DEF GotOK
        <3>2. s \in Status
            BY DEF Status
        <3> HIDE DEF s
        <3>3. /\ starting \in [Torrents -> Status]
              /\ \A t \in Torrents : t # 1 => starting[t] = torrents[d][t]
              /\ got = <<>> => starting = torrents[d]
              /\ got = << 1 >> => starting[1] = s
            BY <3>1, <3>2, StartingType
        <3> HIDE DEF starting
        <3> QED
            BY <2>1, <3>3
    <2>2. CASE rpc \notin {"GetInfoForGenerateTorrents", "GetTorrentsForDownload"}
        BY <2>2 DEF TypeOK
    <2> QED
        BY <2>1, <2>2
<1>6. told \in Seq(Torrents)
    <2>1. CASE rpc = "GetTorrentsForUpdateStatus"
        <3>1. got = <<>> \/ (got = << 1 >> /\ 1 \in Torrents)
            BY <2>1 DEF GotOK
        <3>1a. 1 \in Torrents => << 1 >> \in Seq(Torrents)
            OBVIOUS
        <3>1b. <<>> \in Seq(Torrents)
            OBVIOUS
        <3>2. got \in Seq(Torrents)
            BY <3>1, <3>1a, <3>1b
        <3> QED
            BY <2>1, <3>2
    <2>2. CASE rpc # "GetTorrentsForUpdateStatus"
        BY <2>2 DEF TypeOK
    <2> QED
        BY <2>1, <2>2
<1> HIDE DEF more, later, started, starting, s
<1>7. line \in [Daemons -> Seq(Types)]
    BY DEF TypeOK, Types
<1>8. line[d] \o more \in Seq(Types) /\ (more = <<>> => line[d] \o more = line[d])
    BY <1>3, <1>7
<1>9. /\ line' \in [Daemons -> Seq(Types)] /\ line'[d] = line[d] \o more
      /\ \A e \in Daemons : e # d => line'[e] = line[e]
    BY <1>1, <1>7, <1>8
<1>10. /\ deffered' \in [Daemons -> SUBSET DefferedTypes] /\ deffered'[d] = deffered[d] \cup later
       /\ \A e \in Daemons : e # d => deffered'[e] = deffered[e]
    BY <1>1, <1>4 DEF TypeOK
<1>11. /\ torrents' \in [Daemons -> [Torrents -> Status]] /\ torrents'[d] = started
       /\ \A e \in Daemons : e # d => torrents'[e] = torrents[e]
    BY <1>1, <1>5 DEF TypeOK
<1>12. /\ reports' \in [Daemons -> Seq(Torrents)] /\ reports'[d] = told
       /\ \A e \in Daemons : e # d => reports'[e] = reports[e]
    BY <1>1, <1>6 DEF TypeOK
<1>13. /\ call' \in [Slots -> AnyCall] /\ call'[d] = NoCall
       /\ \A e \in Daemons : e # d => call'[e] = call[e]
    BY <1>1, NoCallType, SlotsApart DEF TypeOK, AnyCall
<1>14. TypeOK'
    BY <1>1, <1>9, <1>10, <1>11, <1>12, <1>13 DEF TypeOK, serverVars, AnyCall, Types
<1>15. Alone(d)
    BY <1>1, <1>9, <1>10, <1>11, <1>12, <1>13 DEF Alone, serverVars
<1>16. /\ rpc = "Handshake" =>
             /\ ok  => line'[d] = line[d] \o <<"UPDATE_TASK_LIST">> /\ deffered'[d] = deffered[d]
             /\ ~ok => line'[d] = line[d] /\ deffered'[d] = deffered[d] \cup {"MAKE_HANDSHAKE"}
       /\ rpc = "GetTaskList" =>
             line'[d] = line[d] \o got /\ deffered'[d] = deffered[d] \cup {"UPDATE_TASK_LIST"}
       /\ rpc = "GetInfoForGenerateTorrents" =>
             line'[d] = line[d] /\ deffered'[d] = deffered[d] \cup {UPD}
       /\ rpc = "GetTorrentsForDownload" =>
             line'[d] = line[d] \o <<UPD>> /\ deffered'[d] = deffered[d]
       /\ rpc \in {"GetTorrentsForUpdateStatus", "UpdateTorrentStatus"} =>
             line'[d] = line[d] /\ deffered'[d] = deffered[d]
    BY <1>3, <1>4, <1>8, <1>9, <1>10
<1> QED
    BY <1>1, <1>5, <1>11, <1>12, <1>13, <1>14, <1>15, <1>16 DEF s

\* What a daemon takes from an answer: got is what has come of it.
Takes(d, ok, got) ==
    /\ Ends(d, ok, got) /\ GotOK(d, got) /\ lost' \in BOOLEAN
    /\ call[d].at \in {"called", "replied"}
    /\ call[d].rpc = "GetTaskList" => \A ty : Count(ty, got) <= Count(ty, call[d].list)
    /\ got # <<>> => call[d].at = "replied"
    /\ call[d].rpc \in {"GetInfoForGenerateTorrents", "GetTorrentsForUpdateStatus",
                        "GetTorrentsForDownload"} /\ got # <<>> => got = call[d].list
    /\ ~lost' => ~lost
    /\ ~lost' /\ call[d].rpc # "Handshake" => call[d].at = "replied" /\ got = call[d].list

\* An answer is received whole, or cut off, or the call fails.
LEMMA AnswerStep ==
    ASSUME ShapeInv, NEW d \in Daemons, Receive(d) \/ Break(d)
    PROVE  \E ok \in BOOLEAN : \E got : Takes(d, ok, got)
<1> USE DEF Takes
<1>0. TypeOK /\ CallShape(d)
    BY DEF ShapeInv
<1>1. call[d].at \in {"called", "replied"}
    BY DEF Receive, Break
<1> DEFINE c == call[d]
<1>2. c \in AnyCall
    BY <1>0, SlotsApart DEF TypeOK, AnyCall
<1>3. c.rpc \in Rpcs /\ c.list \in Lists(c.rpc)
    BY <1>0, <1>1, <1>2, CallFields, NoCallType DEF CallShape
<1>4. c.rpc = "GetTaskList" => c.list \in Seq(ServerTasks) /\ c.list \in Seq(Types)
    <2>1. ServerTasks \subseteq Types
        BY DEF Types
    <2> QED
        BY <1>3, <2>1, SeqMonotonic DEF Lists
<1>5. c.rpc = "GetTaskList" => \A ty : /\ Count(ty, c.list) <= Count(ty, c.list)
                                       /\ Count(ty, <<>>) <= Count(ty, c.list)
    <2> SUFFICES ASSUME c.rpc = "GetTaskList", NEW ty
                 PROVE  /\ Count(ty, c.list) <= Count(ty, c.list)
                        /\ Count(ty, <<>>) <= Count(ty, c.list)
        OBVIOUS
    <2>1. Count(ty, c.list) \in Nat
        BY <1>4, CountType
    <2>2. Count(ty, <<>>) = 0
        BY CountEmpty
    <2> QED
        BY <2>1, <2>2
<1>6. c.at = "replied" => GotOK(d, c.list)
    <2>1. ASSUME 1 \in t2UpdateMap[d] PROVE 1 \in Torrents
        BY <1>0, <2>1 DEF TypeOK
    <2> QED
        BY <1>0, <1>3, <1>4, <2>1 DEF CallShape, GotOK
<1>7. GotOK(d, <<>>)
    BY <1>3 DEF GotOK
<1>8. CASE Receive(d)
    <2>1. Ends(d, TRUE, c.list) /\ lost' = lost /\ c.at = "replied"
        BY <1>8 DEF Receive, Ends
    <2>2. lost' \in BOOLEAN
        BY <1>0, <2>1 DEF TypeOK
    <2> QED
        BY <1>1, <1>5, <1>6, <2>1, <2>2
<1>9. CASE Break(d)
    <2>1. lost' \in BOOLEAN /\ (~lost' => ~lost /\ c.rpc = "Handshake")
        BY <1>9 DEF Break
    <2>2. CASE c.at = "called" /\ Ends(d, FALSE, <<>>)
        BY <1>1, <1>5, <1>7, <2>1, <2>2
    <2>3. CASE c.at = "replied" /\ Ends(d, FALSE, <<>>)
        BY <1>1, <1>5, <1>7, <2>1, <2>3
    <2>4. ASSUME c.at = "replied", NEW n \in 0..Len(c.list) - 1, n # 0,
                 Ends(d, FALSE, SubSeq(c.list, 1, n))
          PROVE  c.rpc = "GetTaskList"
        <3>1. c.list # <<>> /\ c.list # << 1 >>
            BY <2>4
        <3> QED
            BY <1>0, <1>3, <2>4, <3>1 DEF CallShape, Rpcs
    <2>5. ASSUME c.at = "replied", NEW n \in 0..Len(c.list) - 1, n # 0,
                 Ends(d, FALSE, SubSeq(c.list, 1, n))
          PROVE  \E got :
                    /\ Ends(d, FALSE, got) /\ GotOK(d, got)
                    /\ \A ty : Count(ty, got) <= Count(ty, c.list)
        <3>1. c.rpc = "GetTaskList" /\ c.list \in Seq(ServerTasks) /\ c.list \in Seq(Types)
            BY <1>4, <2>4, <2>5
        <3>2. n \in 0..Len(c.list) /\ SubSeq(c.list, 1, n) \in Seq(ServerTasks)
            BY <3>1
        <3>3. \A ty : Count(ty, SubSeq(c.list, 1, n)) <= Count(ty, c.list)
            BY <3>1, <3>2, CountPrefix
        <3>4. GotOK(d, SubSeq(c.list, 1, n))
            BY <1>3, <3>1, <3>2 DEF GotOK
        <3> QED
            BY <2>5, <3>3, <3>4
    <2>6. SubSeq(c.list, 1, 0) = <<>>
        BY <1>3 DEF Lists
    <2>7. \/ c.at = "called" /\ Ends(d, FALSE, <<>>)
          \/ c.at = "replied" /\ \E n \in 0..Len(c.list) - 1 \cup {0} :
                Ends(d, FALSE, SubSeq(c.list, 1, n))
        BY <1>9 DEF Break, Ends
    <2>8. ASSUME c.at = "replied", NEW n \in 0..Len(c.list) - 1, n # 0,
                 Ends(d, FALSE, SubSeq(c.list, 1, n))
          PROVE  \E got :
                    /\ Ends(d, FALSE, got) /\ GotOK(d, got)
                    /\ \A ty : Count(ty, got) <= Count(ty, c.list)
                    /\ c.at = "replied" /\ c.rpc = "GetTaskList"
        BY <2>4, <2>5, <2>8
    <2>9. \/ c.at = "replied" /\ Ends(d, FALSE, <<>>)
          \/ c.at = "called" /\ Ends(d, FALSE, <<>>)
          \/ \E got : /\ Ends(d, FALSE, got) /\ GotOK(d, got)
                      /\ \A ty : Count(ty, got) <= Count(ty, c.list)
                      /\ c.at = "replied" /\ c.rpc = "GetTaskList"
        BY <2>6, <2>7, <2>8
    <2> QED
        BY <1>1, <2>1, <2>2, <2>3, <2>9
<1> QED
    BY <1>8, <1>9

Links == {"GENERATED", "DOWNLOADING", "DOWNLOADED"}

LEMMA CopyLinkStep ==
    ASSUME ShapeInv, NEW d \in Daemons, CopyLink(d)
    PROVE  /\ TypeOK' /\ Alone(d)
           /\ UNCHANGED <<serverVars, line, deffered, torrents, lost, orphans, restarts>>
           /\ call[d] = NoCall /\ reports[d] = << 1 >> /\ reports'[d] = <<>>
           /\ call'[d].rpc = "UpdateTorrentStatus" /\ call'[d].at = "copy" /\ call'[d].list = <<>>
           /\ call'[d].info.id = 1 /\ call'[d].info.status = "NONE"
           /\ call'[d].info.link = (torrents[d][1] \in Links)
<1>0. TypeOK /\ ReportShape(d)
    BY DEF ShapeInv
<1> DEFINE info == [id |-> Head(reports[d]), link |-> torrents[d][Head(reports[d])] \in Links,
                    status |-> "NONE"]
<1>1. /\ UNCHANGED <<serverVars, line, deffered, torrents, lost, orphans, restarts>>
      /\ call[d] = NoCall /\ reports[d] # <<>>
      /\ call' = [call EXCEPT ![d] = NewCall("UpdateTorrentStatus", "copy", info)]
      /\ reports' = [reports EXCEPT ![d] = Tail(reports[d])]
    BY DEF CopyLink, Links, history
<1>2. reports[d] = << 1 >> /\ reports \in [Daemons -> Seq(Torrents)]
    BY <1>0, <1>1 DEF ReportShape, TypeOK
<1>3. reports[d] \in Seq(Torrents)
    BY <1>2
<1>4. Head(reports[d]) = 1 /\ Tail(reports[d]) = <<>> /\ 1 \in Torrents
    BY <1>2, <1>3
<1>5. /\ reports' \in [Daemons -> Seq(Torrents)] /\ reports'[d] = <<>>
      /\ \A e \in Daemons : e # d => reports'[e] = reports[e]
    BY <1>1, <1>2, <1>4
<1>6. /\ info \in Infos /\ info.id = 1 /\ info.status = "NONE"
      /\ info.link = (torrents[d][1] \in Links)
    BY <1>4 DEF Infos, Status
<1>7. /\ TypeOK /\ info \in Infos
      /\ "UpdateTorrentStatus" \in Rpcs \cup {"none"} /\ "copy" \in Places
    BY <1>0, <1>6 DEF Rpcs, Places
<1> DEFINE rpc == "UpdateTorrentStatus"
           at == "copy"
<1>7a. Puts(d, rpc, at, info)
    BY <1>1 DEF Puts
<1>7b. rpc \in Rpcs \cup {"none"} /\ at \in Places
    BY <1>7
<1> HIDE DEF info, rpc, at
<1>8. /\ call' \in [Slots -> AnyCall]
      /\ call'[d].rpc = rpc /\ call'[d].at = at /\ call'[d].info = info
      /\ call'[d].list = <<>> /\ \A e \in Daemons : e # d => call'[e] = call[e]
    <2>1. IsNew(d, rpc, at, info)
        BY <1>7, <1>7a, <1>7b, NewCallStep
    <2> QED
        BY <2>1 DEF IsNew
<1>9. TypeOK'
    BY <1>0, <1>1, <1>5, <1>8 DEF TypeOK, AnyCall, serverVars
<1>10. Alone(d)
    BY <1>1, <1>5, <1>8 DEF Alone, serverVars
<1> QED
    BY <1>1, <1>2, <1>5, <1>6, <1>8, <1>9, <1>10 DEF rpc, at

LEMMA CopyStatusStep ==
    ASSUME ShapeInv, NEW d \in Daemons, CopyStatus(d)
    PROVE  /\ TypeOK' /\ Alone(d) /\ UNCHANGED <<serverVars, daemonVars, lost, orphans, restarts>>
           /\ call[d].rpc = "UpdateTorrentStatus" /\ call[d].at = "copy"
           /\ call'[d].rpc = "UpdateTorrentStatus" /\ call'[d].at = "called" /\ call'[d].list = <<>>
           /\ call'[d].info.id = 1 /\ call'[d].info.link = call[d].info.link
           /\ call'[d].info.status = torrents[d][1]
<1>0. TypeOK /\ ReportShape(d) /\ CallShape(d)
    BY DEF ShapeInv
<1> DEFINE old == call[d].info
           info == [old EXCEPT !.status = torrents[d][old.id]]
<1>1. /\ UNCHANGED <<serverVars, daemonVars, lost, orphans, restarts>> /\ call[d].at = "copy"
      /\ call' = [call EXCEPT ![d] = NewCall("UpdateTorrentStatus", "called", info)]
    BY DEF CopyStatus, history
<1>2. call[d].rpc = "UpdateTorrentStatus" /\ old.id = 1 /\ 1 \in t2UpdateMap[d]
    BY <1>0, <1>1 DEF CallShape, ReportShape
<1>3. 1 \in Torrents /\ torrents[d][1] \in Status
    BY <1>0, <1>2 DEF TypeOK
<1>4. call[d] \in AnyCall
    BY <1>0, SlotsApart DEF TypeOK, AnyCall
<1>5. old \in Infos
    BY <1>4, CallFields
<1>6. info \in Infos /\ info.id = 1 /\ info.link = old.link /\ info.status = torrents[d][1]
    BY <1>2, <1>3, <1>5 DEF Infos
<1>7. /\ TypeOK /\ info \in Infos
      /\ "UpdateTorrentStatus" \in Rpcs \cup {"none"} /\ "called" \in Places
    BY <1>0, <1>6 DEF Rpcs, Places
<1> DEFINE rpc == "UpdateTorrentStatus"
           at == "called"
<1>7a. Puts(d, rpc, at, info)
    BY <1>1 DEF Puts
<1>7b. rpc \in Rpcs \cup {"none"} /\ at \in Places
    BY <1>7
<1> HIDE DEF info, rpc, at
<1>8. /\ call' \in [Slots -> AnyCall]
      /\ call'[d].rpc = rpc /\ call'[d].at = at /\ call'[d].info = info
      /\ call'[d].list = <<>> /\ \A e \in Daemons : e # d => call'[e] = call[e]
    <2>1. IsNew(d, rpc, at, info)
        BY <1>7, <1>7a, <1>7b, NewCallStep
    <2> QED
        BY <2>1 DEF IsNew
<1>9. TypeOK'
    BY <1>0, <1>1, <1>8 DEF TypeOK, AnyCall, serverVars, daemonVars
<1>10. Alone(d)
    BY <1>1, <1>8 DEF Alone, serverVars, daemonVars
<1> QED
    BY <1>1, <1>2, <1>6, <1>8, <1>9, <1>10 DEF rpc, at

LEMMA TimerStep ==
    ASSUME TypeOK, NEW d \in Daemons, NEW ty, Timer(d, ty)
    PROVE  /\ TypeOK' /\ Alone(d) /\ UNCHANGED <<serverVars, call, reports, torrents, lost, orphans, restarts>>
           /\ ty \in deffered[d] /\ ty \in DefferedTypes
           /\ deffered'[d] = deffered[d] \ {ty} /\ line'[d] = line[d] \o <<ty>>
<1>1. /\ UNCHANGED <<serverVars, call, reports, torrents, lost, orphans, restarts>> /\ ty \in deffered[d]
      /\ deffered' = [deffered EXCEPT ![d] = deffered[d] \ {ty}]
      /\ line' = [line EXCEPT ![d] = Append(line[d], ty)]
    BY DEF Timer, history
<1>2. ty \in DefferedTypes /\ line \in [Daemons -> Seq(Types)]
    BY <1>1 DEF TypeOK, Types
<1>3. Append(line[d], ty) \in Seq(Types) /\ Append(line[d], ty) = line[d] \o <<ty>>
    <2>1. line[d] \in Seq(Types) /\ ty \in Types
        BY <1>2 DEF Types
    <2> QED
        BY <2>1, AppendIsConcat
<1>4. /\ line' \in [Daemons -> Seq(Types)] /\ line'[d] = line[d] \o <<ty>>
      /\ \A e \in Daemons : e # d => line'[e] = line[e]
    BY <1>1, <1>2, <1>3
<1>5. /\ deffered' \in [Daemons -> SUBSET DefferedTypes] /\ deffered'[d] = deffered[d] \ {ty}
      /\ \A e \in Daemons : e # d => deffered'[e] = deffered[e]
    BY <1>1 DEF TypeOK
<1>6. TypeOK'
    BY <1>1, <1>4, <1>5 DEF TypeOK, serverVars, Types
<1>7. Alone(d)
    BY <1>1, <1>4, <1>5 DEF Alone, serverVars
<1> QED
    BY <1>1, <1>2, <1>4, <1>5, <1>6, <1>7

LEMMA TorrentEndsStep ==
    ASSUME TypeOK, NEW d \in Daemons, NEW t \in Torrents, TorrentEnds(d, t)
    PROVE  /\ TypeOK' /\ Alone(d)
           /\ UNCHANGED <<serverVars, call, line, deffered, reports, lost, orphans, restarts>>
           /\ \A u \in Torrents : u # t => torrents'[d][u] = torrents[d][u]
           /\ \/ torrents[d][t] = "GENERATING" /\ torrents'[d][t] \in {"GENERATED", "GENERATION_ERROR"}
              \/ torrents[d][t] = "GENERATED" /\ torrents'[d][t] = "GENERATION_ERROR"
              \/ torrents[d][t] = "DOWNLOADING" /\ torrents'[d][t] \in {"DOWNLOADED", "DOWNLOADING_ERROR"}
<1>1. UNCHANGED <<serverVars, call, line, deffered, reports, lost, orphans, restarts>>
    BY DEF TorrentEnds, history
<1>2. PICK s \in Status :
         /\ torrents' = [torrents EXCEPT ![d] = [torrents[d] EXCEPT ![t] = s]]
         /\ \/ torrents[d][t] = "GENERATING" /\ s \in {"GENERATED", "GENERATION_ERROR"}
            \/ torrents[d][t] = "GENERATED" /\ s = "GENERATION_ERROR"
            \/ torrents[d][t] = "DOWNLOADING" /\ s \in {"DOWNLOADED", "DOWNLOADING_ERROR"}
    <2>1. {"GENERATED", "GENERATION_ERROR", "DOWNLOADED", "DOWNLOADING_ERROR"} \subseteq Status
        BY DEF Status
    <2>2. PICK end \in {<<"GENERATING", "GENERATED">>, <<"GENERATING", "GENERATION_ERROR">>,
                        <<"GENERATED", "GENERATION_ERROR">>,
                        <<"DOWNLOADING", "DOWNLOADED">>, <<"DOWNLOADING", "DOWNLOADING_ERROR">>} :
             torrents[d][t] = end[1] /\ torrents' = [torrents EXCEPT ![d][t] = end[2]]
        BY DEF TorrentEnds
    <2>3. torrents' = [torrents EXCEPT ![d] = [torrents[d] EXCEPT ![t] = end[2]]]
        BY <2>2
    <2>4. \/ end[1] = "GENERATING" /\ end[2] \in {"GENERATED", "GENERATION_ERROR"}
          \/ end[1] = "GENERATED" /\ end[2] = "GENERATION_ERROR"
          \/ end[1] = "DOWNLOADING" /\ end[2] \in {"DOWNLOADED", "DOWNLOADING_ERROR"}
        BY <2>2
    <2> QED
        BY <2>1, <2>2, <2>3, <2>4
<1>3. torrents[d] \in [Torrents -> Status]
    BY DEF TypeOK
<1> DEFINE new == [torrents[d] EXCEPT ![t] = s]
<1>4. /\ new \in [Torrents -> Status] /\ new[t] = s
      /\ \A u \in Torrents : u # t => new[u] = torrents[d][u]
    BY <1>3
<1> HIDE DEF new
<1>5. /\ torrents' \in [Daemons -> [Torrents -> Status]] /\ torrents'[d] = new
      /\ \A e \in Daemons : e # d => torrents'[e] = torrents[e]
    BY <1>2, <1>4 DEF TypeOK, new
<1>6. TypeOK'
    BY <1>1, <1>5 DEF TypeOK, serverVars
<1>7. Alone(d)
    BY <1>1, <1>5 DEF Alone, serverVars
<1> QED
    BY <1>1, <1>2, <1>4, <1>5, <1>6, <1>7

LEMMA RestartStep ==
    ASSUME TypeOK, NEW d \in Daemons, Restart(d), orphans' = orphans
    PROVE  /\ TypeOK' /\ Alone(d) /\ UNCHANGED serverVars
           /\ call'[d] = NoCall /\ restarts' > 0 /\ lost' = TRUE
           /\ line'[d] = <<"MAKE_HANDSHAKE">> /\ deffered'[d] = {} /\ reports'[d] = <<>>
           /\ torrents'[d] = [t \in Torrents |-> "NONE"]
<1> DEFINE none == [t \in Torrents |-> "NONE"]
<1>0. orphans \in Nat /\ restarts \in Nat
    BY DEF TypeOK
<1>0a. orphans + 1 # orphans
    BY <1>0
<1>1. /\ UNCHANGED serverVars /\ call' = [call EXCEPT ![d] = NoCall] /\ lost' = TRUE
      /\ restarts + orphans < MaxFaults /\ restarts' = restarts + 1
      /\ line' = [line EXCEPT ![d] = <<"MAKE_HANDSHAKE">>]
      /\ deffered' = [deffered EXCEPT ![d] = {}]
      /\ reports' = [reports EXCEPT ![d] = <<>>]
      /\ torrents' = [torrents EXCEPT ![d] = none]
    BY <1>0a DEF Restart, Orphaned
<1>2. restarts' > 0 /\ restarts' \in 0..MaxFaults
    BY <1>0, <1>1, BoundsAssumption
<1>2a. /\ call' \in [Slots -> AnyCall] /\ call'[d] = NoCall
       /\ \A e \in Daemons : e # d => call'[e] = call[e]
    BY <1>1, NoCallType, SlotsApart DEF TypeOK, AnyCall
<1>3. /\ line' \in [Daemons -> Seq(Types)] /\ line'[d] = <<"MAKE_HANDSHAKE">>
      /\ \A e \in Daemons : e # d => line'[e] = line[e]
    <2>1. line \in [Daemons -> Seq(Types)] /\ "MAKE_HANDSHAKE" \in Types
        BY DEF TypeOK, Types, DefferedTypes
    <2>2. <<"MAKE_HANDSHAKE">> \in Seq(Types)
        BY <2>1
    <2> QED
        BY <1>1, <2>1, <2>2
<1>4. /\ deffered' \in [Daemons -> SUBSET DefferedTypes] /\ deffered'[d] = {}
      /\ \A e \in Daemons : e # d => deffered'[e] = deffered[e]
    BY <1>1 DEF TypeOK
<1>5. /\ reports' \in [Daemons -> Seq(Torrents)] /\ reports'[d] = <<>>
      /\ \A e \in Daemons : e # d => reports'[e] = reports[e]
    BY <1>1 DEF TypeOK
<1>6. none \in [Torrents -> Status]
    BY DEF Status
<1> HIDE DEF none
<1>7. /\ torrents' \in [Daemons -> [Torrents -> Status]] /\ torrents'[d] = none
      /\ \A e \in Daemons : e # d => torrents'[e] = torrents[e]
    BY <1>1, <1>6 DEF TypeOK
<1>8. TypeOK'
    BY <1>1, <1>2, <1>2a, <1>3, <1>4, <1>5, <1>7 DEF TypeOK, AnyCall, serverVars, Types
<1>9. Alone(d)
    BY <1>1, <1>2a, <1>3, <1>4, <1>5, <1>7 DEF Alone, serverVars
<1> QED
    BY <1>1, <1>2, <1>2a, <1>3, <1>4, <1>5, <1>7, <1>8, <1>9 DEF none

----------------------------------------------------------------------------
(***************************************************************************)
(* The shape of calls and daemons is kept.                                 *)
(***************************************************************************)

Shape(d) == CallShape(d) /\ ReportShape(d) /\ ShakesAlone(d) /\ OnlyOne(d)

\* It depends on what is the daemon's own, and on made, which grows from 0 to 1.
LEMMA AloneShape ==
    ASSUME NEW d \in Daemons, Alone(d), NEW e \in Daemons, e # d, Shape(e),
           made' = made \/ (made = 0 /\ made' = 1)
    PROVE  Shape(e)'
<1>1. /\ tasks'[e] = tasks[e]
      /\ t2DownloadMap'[e] = t2DownloadMap[e] /\ t2UpdateMap'[e] = t2UpdateMap[e]
      /\ call'[e] = call[e] /\ line'[e] = line[e] /\ deffered'[e] = deffered[e]
      /\ reports'[e] = reports[e] /\ torrents'[e] = torrents[e]
    BY DEF Alone
<1>2. CallShape(e)'
    BY <1>1 DEF Shape, CallShape
<1>3. ReportShape(e)'
    BY <1>1 DEF Shape, ReportShape
<1>4. ShakesAlone(e)'
    BY <1>1 DEF Shape, ShakesAlone, Shaking
<1>5. OnlyOne(e)'
    BY <1>1 DEF Shape, OnlyOne
<1> QED
    BY <1>2, <1>3, <1>4, <1>5 DEF Shape

\* A daemon with a call other than Handshake has shaken hands.
LEMMA ShakenHands ==
    ASSUME NEW d \in Daemons, ShakesAlone(d), call[d].at # "none", call[d].rpc # "Handshake"
    PROVE  /\ "MAKE_HANDSHAKE" \notin deffered[d]
           /\ \A i \in DOMAIN line[d] : line[d][i] # "MAKE_HANDSHAKE"
<1>1. call[d] # NoCall
    BY NoCallType
<1> QED
    BY <1>1 DEF ShakesAlone, Shaking

\* A call that goes on at the server, with the daemon's variables unchanged.
LEMMA ServedShape ==
    ASSUME NEW d \in Daemons, Shape(d), call[d].at # "none", call'[d].rpc = call[d].rpc,
           UNCHANGED others
    PROVE  ShakesAlone(d)'
<1>1. line' = line /\ deffered' = deffered /\ reports' = reports /\ torrents' = torrents
    BY OthersStep
<1>2. call[d] # NoCall
    BY NoCallType
<1> QED
    BY <1>1, <1>2 DEF Shape, ShakesAlone, Shaking

LEMMA HandshakeShape ==
    ASSUME ShapeInv, NEW d \in Daemons, Handshake(d, d)
    PROVE  Shape(d)' /\ made' = made
<1>0. TypeOK /\ Shape(d)
    BY DEF ShapeInv, Shape
<1>1. /\ UNCHANGED others
      /\ UNCHANGED <<torrentDeque, t2DownloadMap, t2UpdateMap, made>>
      /\ call[d].rpc = "Handshake" /\ call[d].at = "called"
      /\ CallNow(d, "replied", <<>>) \/ CallNow(d, "give", <<d>>)
    BY <1>0, HandshakeStep
<1>2. line' = line /\ deffered' = deffered /\ reports' = reports /\ torrents' = torrents
    BY <1>1, OthersStep
<1>3. ShakesAlone(d)'
    BY <1>0, <1>1, ServedShape DEF CallNow
<1>4. <<d>> \in Seq(Daemons) /\ <<d>> # <<>>
    OBVIOUS
<1>5. CallShape(d)'
    BY <1>1, <1>4 DEF CallShape, CallNow
<1>6. ReportShape(d)'
    <2>1. reports[d] = <<>>
        BY <1>0, <1>1 DEF Shape, ShakesAlone, Shaking
    <2> QED
        BY <1>1, <1>2, <2>1 DEF ReportShape, CallNow
<1>7. OnlyOne(d)'
    BY <1>0, <1>1, <1>2 DEF Shape, OnlyOne, CallNow
<1> QED
    BY <1>1, <1>3, <1>5, <1>6, <1>7 DEF Shape

LEMMA GetTaskListShape ==
    ASSUME ShapeInv, NEW d \in Daemons, GetTaskList(d, d)
    PROVE  Shape(d)' /\ made' = made
<1>0. TypeOK /\ Shape(d)
    BY DEF ShapeInv, Shape
<1>1. /\ UNCHANGED others
      /\ UNCHANGED <<uuids, isFirst, torrentDeque, t2DownloadMap, t2UpdateMap, made>>
      /\ call[d].rpc = "GetTaskList" /\ call[d].at = "called"
      /\ CallNow(d, "replied", tasks[d])
    BY <1>0, GetTaskListStep
<1>2. line' = line /\ deffered' = deffered /\ reports' = reports /\ torrents' = torrents
    BY <1>1, OthersStep
<1>3. ShakesAlone(d)'
    BY <1>0, <1>1, ServedShape DEF CallNow
<1>4. tasks[d] \in Seq(ServerTasks)
    BY <1>0 DEF TypeOK
<1>5. CallShape(d)'
    BY <1>1, <1>4 DEF CallShape, CallNow
<1>6. ReportShape(d)'
    <2>1. reports[d] = <<>>
        BY <1>0, <1>1, NoCallType DEF Shape, ReportShape
    <2> QED
        BY <1>1, <1>2, <2>1 DEF ReportShape, CallNow
<1>7. OnlyOne(d)'
    BY <1>0, <1>1, <1>2 DEF Shape, OnlyOne, CallNow
<1> QED
    BY <1>1, <1>3, <1>5, <1>6, <1>7 DEF Shape

LEMMA GetInfoShape ==
    ASSUME ShapeInv, made = 0, NEW d \in Daemons, GetInfoForGenerateTorrents(d, d)
    PROVE  Shape(d)' /\ made' = 1
<1>0. TypeOK /\ Shape(d)
    BY DEF ShapeInv, Shape
<1>1. /\ UNCHANGED others
      /\ UNCHANGED <<uuids, isFirst, torrentDeque, tasks, t2DownloadMap>>
      /\ call[d].rpc = "GetInfoForGenerateTorrents" /\ call[d].at = "called"
      /\ made' = 1 /\ t2UpdateMap'[d] = t2UpdateMap[d] \cup {1}
      /\ CallNow(d, "replied", << 1 >>)
    BY <1>0, GetInfoStep
<1>2. line' = line /\ deffered' = deffered /\ reports' = reports /\ torrents' = torrents
    BY <1>1, OthersStep
<1>3. ShakesAlone(d)'
    BY <1>0, <1>1, ServedShape DEF CallNow
<1>5. CallShape(d)'
    BY <1>1 DEF CallShape, CallNow
<1>6. ReportShape(d)'
    <2>1. reports[d] = <<>>
        BY <1>0, <1>1, NoCallType DEF Shape, ReportShape
    <2> QED
        BY <1>1, <1>2, <2>1 DEF ReportShape, CallNow
<1>7. OnlyOne(d)'
    BY <1>0, <1>1, <1>2 DEF Shape, OnlyOne, CallNow
<1> QED
    BY <1>1, <1>3, <1>5, <1>6, <1>7 DEF Shape

\* The known torrents of a daemon.
LEMMA KnownTorrents ==
    ASSUME ShapeInv, NEW d \in Daemons
    PROVE  /\ t2UpdateMap[d] \subseteq {1} /\ t2DownloadMap[d] \subseteq {1}
           /\ 1 \in t2UpdateMap[d] \cup t2DownloadMap[d] => made = 1 /\ 1 \in Torrents
<1>1. made \in 0..MaxTorrents /\ made <= 1 /\ OnlyOne(d)
    BY DEF ShapeInv, TypeOK
<1> QED
    BY <1>1, BoundsAssumption DEF OnlyOne, Torrents

LEMMA GetForUpdateShape ==
    ASSUME ShapeInv, NEW d \in Daemons, GetTorrentsForUpdateStatus(d, d)
    PROVE  Shape(d)' /\ made' = made
<1>0. TypeOK /\ Shape(d) /\ t2UpdateMap[d] \subseteq {1}
    BY KnownTorrents DEF ShapeInv, Shape
<1>1. /\ UNCHANGED others /\ UNCHANGED serverVars
      /\ call[d].rpc = "GetTorrentsForUpdateStatus" /\ call[d].at = "called"
      /\ CallNow(d, "replied", IF 1 \in t2UpdateMap[d] THEN << 1 >> ELSE <<>>)
    BY <1>0, GetForUpdateStep
<1>2. /\ line' = line /\ deffered' = deffered /\ reports' = reports /\ torrents' = torrents
      /\ t2UpdateMap' = t2UpdateMap /\ t2DownloadMap' = t2DownloadMap /\ made' = made
    BY <1>1, OthersStep DEF serverVars
<1>3. ShakesAlone(d)'
    BY <1>0, <1>1, ServedShape DEF CallNow
<1>5. CallShape(d)'
    BY <1>1, <1>2 DEF CallShape, CallNow
<1>6. ReportShape(d)'
    <2>1. reports[d] = <<>>
        BY <1>0, <1>1, NoCallType DEF Shape, ReportShape
    <2> QED
        BY <1>1, <1>2, <2>1 DEF ReportShape, CallNow
<1>7. OnlyOne(d)'
    BY <1>0, <1>1, <1>2 DEF Shape, OnlyOne, CallNow
<1> QED
    BY <1>1, <1>2, <1>3, <1>5, <1>6, <1>7 DEF Shape

LEMMA GetForDownloadShape ==
    ASSUME ShapeInv, NEW d \in Daemons, GetTorrentsForDownload(d, d)
    PROVE  Shape(d)' /\ made' = made
<1>0. TypeOK /\ Shape(d) /\ t2DownloadMap[d] \subseteq {1}
    BY KnownTorrents DEF ShapeInv, Shape
<1>1. /\ UNCHANGED others /\ UNCHANGED <<uuids, isFirst, torrentDeque, tasks, made>>
      /\ call[d].rpc = "GetTorrentsForDownload" /\ call[d].at = "called"
      /\ t2UpdateMap'[d] = t2UpdateMap[d] \cup t2DownloadMap[d] /\ t2DownloadMap'[d] = {}
      /\ \/ t2DownloadMap[d] = {} /\ CallNow(d, "replied", <<>>)
         \/ t2DownloadMap[d] = {1} /\ CallNow(d, "task", << 1 >>)
    BY <1>0, GetForDownloadStep
<1>2. line' = line /\ deffered' = deffered /\ reports' = reports /\ torrents' = torrents
    BY <1>1, OthersStep
<1>3. ShakesAlone(d)'
    BY <1>0, <1>1, ServedShape DEF CallNow
<1>5. CallShape(d)'
    <2>1. t2DownloadMap[d] = {1} => 1 \in Torrents
        BY KnownTorrents
    <2> QED
        BY <1>1, <2>1 DEF CallShape, CallNow
<1>6. ReportShape(d)'
    <2>1. reports[d] = <<>>
        BY <1>0, <1>1, NoCallType DEF Shape, ReportShape
    <2> QED
        BY <1>1, <1>2, <2>1 DEF ReportShape, CallNow
<1>7. OnlyOne(d)'
    <2>1. t2DownloadMap[d] = {1} => made = 1
        BY KnownTorrents
    <2> QED
        BY <1>0, <1>1, <1>2, <2>1 DEF Shape, OnlyOne, CallNow
<1> QED
    BY <1>1, <1>3, <1>5, <1>6, <1>7 DEF Shape

LEMMA ReportOnDownloadsShape ==
    ASSUME ShapeInv, NEW d \in Daemons, ReportOnDownloads(d, d)
    PROVE  Shape(d)' /\ made' = made
<1>0. TypeOK /\ Shape(d)
    BY DEF ShapeInv, Shape
<1>1. /\ UNCHANGED others
      /\ UNCHANGED <<uuids, isFirst, torrentDeque, t2DownloadMap, t2UpdateMap, made>>
      /\ call[d].at = "task" /\ CallNow(d, "replied", call[d].list)
    BY <1>0, ReportOnDownloadsStep
<1>1a. call[d].rpc = "GetTorrentsForDownload" /\ call[d].list = << 1 >> /\ 1 \in Torrents
    BY <1>0, <1>1 DEF Shape, CallShape
<1>2. line' = line /\ deffered' = deffered /\ reports' = reports /\ torrents' = torrents
    BY <1>1, OthersStep
<1>3. ShakesAlone(d)'
    BY <1>0, <1>1, ServedShape DEF CallNow
<1>5. CallShape(d)'
    BY <1>1, <1>1a DEF CallShape, CallNow
<1>6. ReportShape(d)'
    <2>1. reports[d] = <<>>
        BY <1>0, <1>1, NoCallType DEF Shape, ReportShape
    <2> QED
        BY <1>1, <1>1a, <1>2, <2>1 DEF ReportShape, CallNow
<1>7. OnlyOne(d)'
    BY <1>0, <1>1, <1>2 DEF Shape, OnlyOne, CallNow
<1> QED
    BY <1>1, <1>3, <1>5, <1>6, <1>7 DEF Shape

LEMMA UpdateTorrentStatusShape ==
    ASSUME ShapeInv, NEW d \in Daemons, UpdateTorrentStatus(d, d)
    PROVE  Shape(d)' /\ made' = made
<1>0. TypeOK /\ Shape(d)
    BY DEF ShapeInv, Shape
<1>1. /\ UNCHANGED others /\ UNCHANGED <<uuids, isFirst, t2DownloadMap, made>>
      /\ call[d].rpc = "UpdateTorrentStatus" /\ call[d].at = "called"
      /\ t2UpdateMap'[d] = IF Passing(d) \/ call[d].info.status = "DOWNLOADED"
                           THEN t2UpdateMap[d] \ {1} ELSE t2UpdateMap[d]
      /\ \/ CallNow(d, "replied", <<>>)
         \/ \E to \in Seq(Daemons) : CallNow(d, "give", to) /\ to # <<>>
    BY UpdateTorrentStatusStep
<1>2. line' = line /\ deffered' = deffered /\ reports' = reports /\ torrents' = torrents
    BY <1>1, OthersStep
<1>3. call'[d].rpc = call[d].rpc /\ call'[d].at \in {"replied", "give"}
    BY <1>1 DEF CallNow
<1>4. ShakesAlone(d)'
    BY <1>0, <1>1, <1>3, ServedShape
<1>5. CallShape(d)'
    BY <1>1 DEF CallShape, CallNow
<1>6. ReportShape(d)'
    <2>1. reports[d] = <<>>
        BY <1>0, <1>1, NoCallType DEF Shape, ReportShape
    <2> QED
        BY <1>2, <1>3, <2>1 DEF ReportShape
<1>7. OnlyOne(d)'
    <2>1. made = 1
        BY <1>0, <1>1, KnownTorrents DEF Shape, ReportShape
    <2> QED
        BY <1>0, <1>1, <1>2, <2>1 DEF Shape, OnlyOne
<1> QED
    BY <1>1, <1>4, <1>5, <1>6, <1>7 DEF Shape

LEMMA DownloadTorrentShape ==
    ASSUME ShapeInv, NEW d \in Daemons, DownloadTorrent(d, d), NEW e \in Daemons
    PROVE  Shape(e)' /\ made' = made
<1>0. TypeOK /\ Shape(d) /\ Shape(e)
    BY DEF ShapeInv, Shape
<1>1. /\ UNCHANGED others /\ UNCHANGED <<uuids, isFirst, t2UpdateMap, made>>
      /\ call[d].at = "give" /\ Head(call[d].list) \in Daemons
      /\ \/ CallNow(d, "replied", <<>>)
         \/ /\ Tail(call[d].list) # <<>> /\ CallNow(d, "give", Tail(call[d].list))
    BY DownloadTorrentStep
<1>1a. \/ t2DownloadMap' = t2DownloadMap
       \/ /\ torrentDeque = << 1 >>
          /\ \A f \in Daemons : t2DownloadMap'[f] \subseteq t2DownloadMap[f] \cup {1}
    BY DownloadTorrentStep
<1>2. line' = line /\ deffered' = deffered /\ reports' = reports /\ torrents' = torrents
    BY <1>1, OthersStep
<1>2a. \A f \in Daemons : f # d => call'[f] = call[f]
    BY <1>1 DEF CallNow
<1>2b. call[d].list \in Seq(Daemons) /\ call[d].list # <<>>
    BY <1>0, <1>1 DEF Shape, CallShape
<1>3. made = 0 => Tail(call[d].list) = <<>>
    <2>1. made = 0 => call[d].list = <<d>>
        BY <1>0, <1>1 DEF Shape, OnlyOne
    <2>2. Tail(<<d>>) = <<>>
        OBVIOUS
    <2> QED
        BY <2>1, <2>2
<1>4. Tail(call[d].list) \in Seq(Daemons)
    BY <1>2b
<1>5. t2DownloadMap'[e] \subseteq 1..made
    <2>1. torrentDeque = << 1 >> => made = 1
        <3>1. torrentDeque = << 1 >> => torrentDeque # <<>>
            OBVIOUS
        <3> QED
            BY <3>1 DEF ShapeInv, TypeOK
    <2> QED
        BY <1>0, <1>1a, <2>1 DEF Shape, OnlyOne
<1>6. CASE e = d
    <2>1. ShakesAlone(d)'
        BY <1>0, <1>1, ServedShape DEF CallNow
    <2>2. CallShape(d)'
        <3>1. call[d].rpc \in {"Handshake", "UpdateTorrentStatus"}
            BY <1>0, <1>1 DEF Shape, CallShape
        <3> QED
            BY <1>1, <1>4, <3>1 DEF CallShape, CallNow
    <2>3. ReportShape(d)'
        <3>1. reports[d] = <<>>
            BY <1>0, <1>1, NoCallType DEF Shape, ReportShape
        <3> QED
            BY <1>1, <1>2, <3>1 DEF ReportShape, CallNow
    <2>4. OnlyOne(d)'
        BY <1>0, <1>1, <1>2, <1>3, <1>5, <1>6 DEF Shape, OnlyOne, CallNow
    <2> QED
        BY <1>1, <1>6, <2>1, <2>2, <2>3, <2>4 DEF Shape
<1>7. CASE e # d
    <2>0. /\ call'[e] = call[e] /\ t2UpdateMap' = t2UpdateMap /\ made' = made
        BY <1>1, <1>2a, <1>7
    <2>1. CallShape(e)'
        BY <1>0, <2>0 DEF Shape, CallShape
    <2>2. ReportShape(e)'
        BY <1>0, <1>2, <2>0 DEF Shape, ReportShape
    <2>3. ShakesAlone(e)'
        BY <1>0, <1>2, <2>0 DEF Shape, ShakesAlone, Shaking
    <2>4. OnlyOne(e)'
        BY <1>0, <1>2, <1>5, <2>0 DEF Shape, OnlyOne
    <2> QED
        BY <2>0, <2>1, <2>2, <2>3, <2>4 DEF Shape
<1> QED
    BY <1>6, <1>7

LEMMA StubOf ==
    /\ Stub["MAKE_HANDSHAKE"] = "Handshake"
    /\ Stub["UPDATE_TASK_LIST"] = "GetTaskList"
    /\ Stub[GEN] = "GetInfoForGenerateTorrents"
    /\ Stub[UPD] = "GetTorrentsForUpdateStatus"
    /\ Stub[DOWN] = "GetTorrentsForDownload"
    /\ Types = {"MAKE_HANDSHAKE", "UPDATE_TASK_LIST", GEN, UPD, DOWN}
    BY DEF Stub, GEN, UPD, DOWN, Types, ServerTasks, DefferedTypes

LEMMA RunTaskShape ==
    ASSUME ShapeInv, NEW d \in Daemons, RunTask(d)
    PROVE  Shape(d)' /\ made' = made
<1>0. TypeOK /\ Shape(d)
    BY DEF ShapeInv, Shape
<1>1. /\ UNCHANGED <<serverVars, deffered, reports, torrents, lost, orphans, restarts>>
      /\ call[d] = NoCall /\ reports[d] = <<>> /\ line[d] # <<>>
      /\ Head(line[d]) \in Types /\ line'[d] = Tail(line[d])
      /\ call'[d].rpc = Stub[Head(line[d])] /\ call'[d].rpc \in Rpcs
      /\ call'[d].at = "called" /\ call'[d].list = <<>>
    BY <1>0, RunTaskStep
<1>2. /\ deffered' = deffered /\ reports' = reports /\ torrents' = torrents
      /\ t2UpdateMap' = t2UpdateMap /\ t2DownloadMap' = t2DownloadMap /\ made' = made
    BY <1>1 DEF serverVars
<1>3. line[d] \in Seq(Types)
    BY <1>0 DEF TypeOK, Types
<1>4. call'[d].rpc # "UpdateTorrentStatus" /\ call'[d].rpc # "none"
    BY <1>1, StubOf
<1>5. CallShape(d)'
    BY <1>1, <1>4 DEF CallShape
<1>6. ReportShape(d)'
    BY <1>1, <1>2, <1>4 DEF ReportShape
<1>7. OnlyOne(d)'
    BY <1>0, <1>1, <1>2 DEF Shape, OnlyOne
<1>8. ShakesAlone(d)'
    <2>0. NoCall.rpc # "Handshake"
        BY NoCallType
    <2>1. CASE Shaking(d)
        <3>1. /\ line[d] = <<"MAKE_HANDSHAKE">> /\ deffered[d] = {}
              /\ torrents[d] = [t \in Torrents |-> "NONE"]
            BY <1>0, <1>1, <2>0, <2>1 DEF Shape, ShakesAlone
        <3>2. line'[d] = <<>> /\ Head(line[d]) = "MAKE_HANDSHAKE"
            BY <1>1, <3>1
        <3>3. call'[d].rpc = "Handshake"
            BY <1>1, <3>2, StubOf
        <3> QED
            BY <1>1, <1>2, <3>1, <3>2, <3>3 DEF ShakesAlone
    <2>2. CASE ~Shaking(d)
        <3>1. /\ "MAKE_HANDSHAKE" \notin deffered[d]
              /\ \A i \in DOMAIN line[d] : line[d][i] # "MAKE_HANDSHAKE"
            BY <2>2 DEF Shaking
        <3>2. /\ Head(line[d]) = line[d][1] /\ 1 \in DOMAIN line[d]
              /\ \A i \in DOMAIN Tail(line[d]) : i + 1 \in DOMAIN line[d] /\ Tail(line[d])[i] = line[d][i + 1]
            BY <1>1, <1>3
        <3>3. Head(line[d]) # "MAKE_HANDSHAKE"
            BY <3>1, <3>2
        <3>4. call'[d].rpc # "Handshake"
            BY <1>1, <3>3, StubOf
        <3>5. ~Shaking(d)'
            BY <1>1, <1>2, <3>1, <3>2, <3>4 DEF Shaking
        <3> QED
            BY <3>5 DEF ShakesAlone
    <2> QED
        BY <2>1, <2>2
<1> QED
    BY <1>2, <1>5, <1>6, <1>7, <1>8 DEF Shape

\* A line of tasks that has no handshake, with more tasks behind it.
LEMMA NoHandshakeConcat ==
    ASSUME NEW s \in Seq(Types), NEW t \in Seq(Types),
           \A i \in DOMAIN s : s[i] # "MAKE_HANDSHAKE",
           \A i \in DOMAIN t : t[i] # "MAKE_HANDSHAKE"
    PROVE  \A i \in DOMAIN (s \o t) : (s \o t)[i] # "MAKE_HANDSHAKE"
<1>1. /\ Len(s) \in Nat /\ Len(t) \in Nat
      /\ DOMAIN s = 1..Len(s) /\ DOMAIN t = 1..Len(t)
      /\ DOMAIN (s \o t) = 1..Len(s) + Len(t)
      /\ \A i \in 1..Len(s) : (s \o t)[i] = s[i]
      /\ \A i \in 1..Len(t) : (s \o t)[Len(s) + i] = t[i]
    OBVIOUS
<1> TAKE i \in DOMAIN (s \o t)
<1>2. CASE i \in 1..Len(s)
    BY <1>1, <1>2
<1>3. CASE i \notin 1..Len(s)
    <2>1. i - Len(s) \in 1..Len(t) /\ Len(s) + (i - Len(s)) = i
        BY <1>1, <1>3
    <2> QED
        BY <1>1, <2>1
<1> QED
    BY <1>2, <1>3

LEMMA AnswerShape ==
    ASSUME ShapeInv, NEW d \in Daemons, Receive(d) \/ Break(d)
    PROVE  Shape(d)' /\ made' = made /\ TypeOK' /\ Alone(d)
<1>0. TypeOK /\ Shape(d)
    BY DEF ShapeInv, Shape
<1>1. PICK ok \in BOOLEAN : \E got : Takes(d, ok, got)
    BY AnswerStep
<1>2. PICK got : Takes(d, ok, got)
    BY <1>1
<1> USE DEF Takes
<1> DEFINE rpc == call[d].rpc
<1>3. /\ TypeOK' /\ Alone(d) /\ UNCHANGED <<serverVars, restarts>> /\ call'[d] = NoCall
      /\ rpc = "Handshake" =>
            /\ ok  => line'[d] = line[d] \o <<"UPDATE_TASK_LIST">> /\ deffered'[d] = deffered[d]
            /\ ~ok => line'[d] = line[d] /\ deffered'[d] = deffered[d] \cup {"MAKE_HANDSHAKE"}
      /\ rpc = "GetTaskList" =>
            line'[d] = line[d] \o got /\ deffered'[d] = deffered[d] \cup {"UPDATE_TASK_LIST"}
      /\ rpc = "GetInfoForGenerateTorrents" =>
            line'[d] = line[d] /\ deffered'[d] = deffered[d] \cup {UPD}
      /\ rpc = "GetTorrentsForDownload" =>
            line'[d] = line[d] \o <<UPD>> /\ deffered'[d] = deffered[d]
      /\ rpc \in {"GetTorrentsForUpdateStatus", "UpdateTorrentStatus"} =>
            line'[d] = line[d] /\ deffered'[d] = deffered[d]
      /\ reports'[d] = IF rpc = "GetTorrentsForUpdateStatus" THEN got ELSE reports[d]
      /\ IF rpc \in {"GetInfoForGenerateTorrents", "GetTorrentsForDownload"}
         THEN /\ \A t \in Torrents : t # 1 => torrents'[d][t] = torrents[d][t]
              /\ got = <<>> => torrents'[d] = torrents[d]
         ELSE torrents'[d] = torrents[d]
    BY <1>0, <1>2, ContinueStep
<1>4. t2UpdateMap' = t2UpdateMap /\ t2DownloadMap' = t2DownloadMap /\ made' = made
    BY <1>3 DEF serverVars
<1>5. rpc \in Rpcs /\ line[d] \in Seq(Types)
    BY <1>0, <1>2 DEF GotOK, TypeOK, Types
<1>6. reports[d] = <<>>
    BY <1>0, <1>2, NoCallType DEF Shape, ReportShape
<1>7. CallShape(d)'
    BY <1>3, NoCallType DEF CallShape
<1>8. ReportShape(d)'
    <2>1. reports'[d] # <<>> => rpc = "GetTorrentsForUpdateStatus" /\ reports'[d] = got /\ got # <<>>
        BY <1>3, <1>6
    <2>2. reports'[d] # <<>> => call[d].at = "replied" /\ call[d].list = got
        BY <1>2, <2>1
    <2>3. reports'[d] # <<>> => reports'[d] = << 1 >> /\ 1 \in t2UpdateMap[d]
        BY <1>0, <2>1, <2>2 DEF Shape, CallShape
    <2> QED
        BY <1>3, <1>4, <2>3, NoCallType DEF ReportShape
<1>9. OnlyOne(d)'
    <2>1. CASE rpc \in {"GetInfoForGenerateTorrents", "GetTorrentsForDownload"} /\ got # <<>>
        <3>1. call[d].at = "replied" /\ call[d].list = << 1 >> /\ 1 \in Torrents
            BY <1>2, <2>1 DEF GotOK
        <3>2. made = 1
            <4>1. rpc = "GetInfoForGenerateTorrents" => 1 \in t2UpdateMap[d]
                BY <1>0, <3>1 DEF Shape, CallShape
            <4>2. rpc = "GetTorrentsForDownload" => made = 1
                <5>1. << 1 >> # <<>>
                    OBVIOUS
                <5> QED
                    BY <1>0, <3>1, <5>1 DEF Shape, OnlyOne
            <4> QED
                BY <2>1, <4>1, <4>2, KnownTorrents
        <3>3. \A t \in Torrents : torrents'[d][t] # "NONE" => t \in 1..made
            BY <1>0, <1>3, <2>1, <3>2 DEF Shape, OnlyOne
        <3> QED
            BY <1>0, <1>3, <1>4, <3>3, NoCallType DEF Shape, OnlyOne
    <2>2. CASE ~(rpc \in {"GetInfoForGenerateTorrents", "GetTorrentsForDownload"} /\ got # <<>>)
        <3>1. torrents'[d] = torrents[d]
            BY <1>3, <2>2
        <3> QED
            BY <1>0, <1>3, <1>4, <3>1, NoCallType DEF Shape, OnlyOne
    <2> QED
        BY <2>1, <2>2
<1>10. ShakesAlone(d)'
    <2>1. CASE rpc = "Handshake"
        <3>1. /\ torrents[d] = [t \in Torrents |-> "NONE"] /\ call[d] # NoCall
              /\ line[d] = <<>> /\ deffered[d] = {}
            BY <1>0, <2>1, NoCallType DEF Shape, ShakesAlone, Shaking
        <3>2. torrents'[d] = torrents[d] /\ reports'[d] = <<>>
            BY <1>3, <1>6, <2>1
        <3>3. CASE ok
            <4>1. line'[d] = <<>> \o <<"UPDATE_TASK_LIST">> /\ deffered'[d] = {}
                BY <1>3, <2>1, <3>1, <3>3
            <4>2. <<>> \o <<"UPDATE_TASK_LIST">> = <<"UPDATE_TASK_LIST">>
                OBVIOUS
            <4>3. \A i \in DOMAIN <<"UPDATE_TASK_LIST">> : <<"UPDATE_TASK_LIST">>[i] # "MAKE_HANDSHAKE"
                OBVIOUS
            <4>4. ~Shaking(d)'
                BY <1>3, <4>1, <4>2, <4>3, NoCallType DEF Shaking
            <4> QED
                BY <4>4 DEF ShakesAlone
        <3>4. CASE ~ok
            <4>1. line'[d] = <<>> /\ deffered'[d] = {"MAKE_HANDSHAKE"}
                BY <1>3, <2>1, <3>1, <3>4
            <4> QED
                BY <1>3, <3>1, <3>2, <4>1 DEF ShakesAlone
        <3> QED
            BY <3>3, <3>4
    <2>2. CASE rpc # "Handshake"
        <3>1. /\ "MAKE_HANDSHAKE" \notin deffered[d]
              /\ \A i \in DOMAIN line[d] : line[d][i] # "MAKE_HANDSHAKE"
            BY <1>0, <1>2, <2>2, ShakenHands DEF Shape
        <3>2. "MAKE_HANDSHAKE" \notin deffered'[d]
            BY <1>3, <1>5, <2>2, <3>1 DEF Rpcs, UPD
        <3>3. \A i \in DOMAIN line'[d] : line'[d][i] # "MAKE_HANDSHAKE"
            <4>1. CASE rpc = "GetTaskList"
                <5>1. got \in Seq(ServerTasks) /\ ServerTasks \subseteq Types
                    BY <1>2, <4>1 DEF GotOK, Types
                <5>2. got \in Seq(Types)
                    BY <5>1, SeqMonotonic
                <5>3. \A i \in DOMAIN got : got[i] # "MAKE_HANDSHAKE"
                    BY <5>1 DEF ServerTasks
                <5> QED
                    BY <1>3, <1>5, <3>1, <4>1, <5>2, <5>3, NoHandshakeConcat
            <4>2. CASE rpc = "GetTorrentsForDownload"
                <5>1. <<UPD>> \in Seq(Types) /\ \A i \in DOMAIN <<UPD>> : <<UPD>>[i] # "MAKE_HANDSHAKE"
                    BY DEF UPD, Types, ServerTasks
                <5> QED
                    BY <1>3, <1>5, <3>1, <4>2, <5>1, NoHandshakeConcat
            <4>3. CASE rpc \notin {"GetTaskList", "GetTorrentsForDownload"}
                BY <1>3, <1>5, <2>2, <3>1, <4>3 DEF Rpcs
            <4> QED
                BY <4>1, <4>2, <4>3
        <3>4. ~Shaking(d)'
            BY <1>3, <3>2, <3>3, NoCallType DEF Shaking
        <3> QED
            BY <3>4 DEF ShakesAlone
    <2> QED
        BY <2>1, <2>2
<1> QED
    BY <1>3, <1>4, <1>7, <1>8, <1>9, <1>10 DEF Shape

LEMMA CopyLinkShape ==
    ASSUME ShapeInv, NEW d \in Daemons, CopyLink(d)
    PROVE  Shape(d)' /\ made' = made
<1>0. TypeOK /\ Shape(d)
    BY DEF ShapeInv, Shape
<1>1. /\ UNCHANGED <<serverVars, line, deffered, torrents, lost, orphans, restarts>>
      /\ call[d] = NoCall /\ reports[d] = << 1 >> /\ reports'[d] = <<>>
      /\ call'[d].rpc = "UpdateTorrentStatus" /\ call'[d].at = "copy" /\ call'[d].list = <<>>
      /\ call'[d].info.id = 1
    BY CopyLinkStep
<1>2. /\ line' = line /\ deffered' = deffered /\ torrents' = torrents
      /\ t2UpdateMap' = t2UpdateMap /\ t2DownloadMap' = t2DownloadMap /\ made' = made
    BY <1>1 DEF serverVars
<1>3. reports[d] # <<>>
    BY <1>1
<1>4. 1 \in t2UpdateMap[d]
    BY <1>0, <1>3 DEF Shape, ReportShape
<1>5. CallShape(d)'
    BY <1>1 DEF CallShape
<1>6. ReportShape(d)'
    BY <1>1, <1>2, <1>4 DEF ReportShape
<1>7. OnlyOne(d)'
    BY <1>0, <1>1, <1>2 DEF Shape, OnlyOne
<1>8. ~Shaking(d)
    BY <1>0, <1>3 DEF Shape, ShakesAlone
<1>9. ~Shaking(d)'
    BY <1>1, <1>2, <1>8 DEF Shaking
<1> QED
    BY <1>2, <1>5, <1>6, <1>7, <1>9 DEF Shape, ShakesAlone

LEMMA CopyStatusShape ==
    ASSUME ShapeInv, NEW d \in Daemons, CopyStatus(d)
    PROVE  Shape(d)' /\ made' = made
<1>0. TypeOK /\ Shape(d)
    BY DEF ShapeInv, Shape
<1>1. /\ UNCHANGED <<serverVars, daemonVars, lost, orphans, restarts>>
      /\ call[d].rpc = "UpdateTorrentStatus" /\ call[d].at = "copy"
      /\ call'[d].rpc = "UpdateTorrentStatus" /\ call'[d].at = "called" /\ call'[d].list = <<>>
      /\ call'[d].info.id = 1 /\ call'[d].info.status = torrents[d][1]
    BY CopyStatusStep
<1>2. /\ line' = line /\ deffered' = deffered /\ torrents' = torrents /\ reports' = reports
      /\ t2UpdateMap' = t2UpdateMap /\ t2DownloadMap' = t2DownloadMap /\ made' = made
    BY <1>1 DEF serverVars, daemonVars
<1>3. 1 \in t2UpdateMap[d] /\ reports[d] = <<>>
    BY <1>0, <1>1, NoCallType DEF Shape, ReportShape
<1>5. CallShape(d)'
    BY <1>1 DEF CallShape
<1>6. ReportShape(d)'
    BY <1>1, <1>2, <1>3 DEF ReportShape
<1>7. OnlyOne(d)'
    BY <1>0, <1>1, <1>2 DEF Shape, OnlyOne
<1>8. /\ "MAKE_HANDSHAKE" \notin deffered[d]
      /\ \A i \in DOMAIN line[d] : line[d][i] # "MAKE_HANDSHAKE"
    BY <1>0, <1>1, ShakenHands DEF Shape
<1>9. ~Shaking(d)'
    BY <1>1, <1>2, <1>8 DEF Shaking
<1> QED
    BY <1>2, <1>5, <1>6, <1>7, <1>9 DEF Shape, ShakesAlone

LEMMA TimerShape ==
    ASSUME ShapeInv, NEW d \in Daemons, NEW ty, Timer(d, ty)
    PROVE  Shape(d)' /\ made' = made
<1>0. TypeOK /\ Shape(d)
    BY DEF ShapeInv, Shape
<1>1. /\ UNCHANGED <<serverVars, call, reports, torrents, lost, orphans, restarts>>
      /\ ty \in deffered[d] /\ ty \in DefferedTypes
      /\ deffered'[d] = deffered[d] \ {ty} /\ line'[d] = line[d] \o <<ty>>
    BY <1>0, TimerStep
<1>2. /\ call' = call /\ torrents' = torrents /\ reports' = reports
      /\ t2UpdateMap' = t2UpdateMap /\ t2DownloadMap' = t2DownloadMap /\ made' = made
    BY <1>1 DEF serverVars
<1>5. CallShape(d)'
    BY <1>0, <1>2 DEF Shape, CallShape
<1>6. ReportShape(d)'
    BY <1>0, <1>2 DEF Shape, ReportShape
<1>7. OnlyOne(d)'
    BY <1>0, <1>2 DEF Shape, OnlyOne
<1>8. ShakesAlone(d)'
    <2>1. CASE ty = "MAKE_HANDSHAKE"
        <3>1. /\ reports[d] = <<>> /\ torrents[d] = [t \in Torrents |-> "NONE"]
              /\ line[d] = <<>> /\ deffered[d] = {"MAKE_HANDSHAKE"} /\ call[d] = NoCall
            BY <1>0, <1>1, <2>1 DEF Shape, ShakesAlone, Shaking
        <3>2. <<>> \o <<ty>> = <<ty>>
            OBVIOUS
        <3>3. line'[d] = <<"MAKE_HANDSHAKE">> /\ deffered'[d] = {}
            BY <1>1, <2>1, <3>1, <3>2
        <3> QED
            BY <1>2, <3>1, <3>3 DEF ShakesAlone
    <2>2. CASE ty # "MAKE_HANDSHAKE"
        <3>1. ~Shaking(d)
            BY <1>0, <1>1, <2>2 DEF Shape, ShakesAlone
        <3>2. line[d] \in Seq(Types) /\ <<ty>> \in Seq(Types)
            BY <1>0, <1>1 DEF TypeOK, Types
        <3>3. \A i \in DOMAIN <<ty>> : <<ty>>[i] # "MAKE_HANDSHAKE"
            BY <2>2
        <3>4. \A i \in DOMAIN (line[d] \o <<ty>>) : (line[d] \o <<ty>>)[i] # "MAKE_HANDSHAKE"
            BY <3>1, <3>2, <3>3, NoHandshakeConcat DEF Shaking
        <3>5. ~Shaking(d)'
            BY <1>1, <1>2, <3>1, <3>4 DEF Shaking
        <3> QED
            BY <3>5 DEF ShakesAlone
    <2> QED
        BY <2>1, <2>2
<1> QED
    BY <1>2, <1>5, <1>6, <1>7, <1>8 DEF Shape

LEMMA TorrentEndsShape ==
    ASSUME ShapeInv, NEW d \in Daemons, NEW t \in Torrents, TorrentEnds(d, t)
    PROVE  Shape(d)' /\ made' = made
<1>0. TypeOK /\ Shape(d)
    BY DEF ShapeInv, Shape
<1>1. /\ UNCHANGED <<serverVars, call, line, deffered, reports, lost, orphans, restarts>>
      /\ \A u \in Torrents : u # t => torrents'[d][u] = torrents[d][u]
      /\ \/ torrents[d][t] = "GENERATING" /\ torrents'[d][t] \in {"GENERATED", "GENERATION_ERROR"}
         \/ torrents[d][t] = "GENERATED" /\ torrents'[d][t] = "GENERATION_ERROR"
         \/ torrents[d][t] = "DOWNLOADING" /\ torrents'[d][t] \in {"DOWNLOADED", "DOWNLOADING_ERROR"}
    BY <1>0, TorrentEndsStep
<1>2. /\ call' = call /\ line' = line /\ deffered' = deffered /\ reports' = reports
      /\ t2UpdateMap' = t2UpdateMap /\ t2DownloadMap' = t2DownloadMap /\ made' = made
    BY <1>1 DEF serverVars
<1>5. CallShape(d)'
    BY <1>0, <1>2 DEF Shape, CallShape
<1>6. ReportShape(d)'
    <2>1. 1 \in t2UpdateMap[d] => 1 \in Torrents
        BY KnownTorrents
    <2> QED
        BY <1>0, <1>1, <1>2, <2>1 DEF Shape, ReportShape
<1>7. OnlyOne(d)'
    BY <1>0, <1>1, <1>2 DEF Shape, OnlyOne
<1>8. ~Shaking(d)
    BY <1>0, <1>1 DEF Shape, ShakesAlone
<1>9. ~Shaking(d)'
    BY <1>2, <1>8 DEF Shaking
<1> QED
    BY <1>2, <1>5, <1>6, <1>7, <1>9 DEF Shape, ShakesAlone

LEMMA RestartShape ==
    ASSUME ShapeInv, NEW d \in Daemons, Restart(d), orphans' = orphans
    PROVE  Shape(d)' /\ made' = made
<1>0. TypeOK /\ Shape(d)
    BY DEF ShapeInv, Shape
<1>1. /\ UNCHANGED serverVars /\ call'[d] = NoCall
      /\ line'[d] = <<"MAKE_HANDSHAKE">> /\ deffered'[d] = {} /\ reports'[d] = <<>>
      /\ torrents'[d] = [t \in Torrents |-> "NONE"]
    BY <1>0, RestartStep
<1>2. /\ t2UpdateMap' = t2UpdateMap /\ t2DownloadMap' = t2DownloadMap /\ made' = made
    BY <1>1 DEF serverVars
<1>5. CallShape(d)'
    BY <1>1, NoCallType DEF CallShape
<1>6. ReportShape(d)'
    BY <1>1, <1>2, NoCallType DEF ReportShape
<1>7. OnlyOne(d)'
    BY <1>0, <1>1, <1>2, NoCallType DEF Shape, OnlyOne
<1>8. ShakesAlone(d)'
    BY <1>1, <1>2 DEF ShakesAlone
<1> QED
    BY <1>2, <1>5, <1>6, <1>7, <1>8 DEF Shape

----------------------------------------------------------------------------
(***************************************************************************)
(* What the steps do to the tasks on their way.                            *)
(***************************************************************************)

LEMMA LinesType ==
    ASSUME TypeOK, NEW d \in Daemons
    PROVE  /\ tasks[d] \in Seq(Types) /\ Answer(d) \in Seq(Types) /\ line[d] \in Seq(Types)
           /\ call[d].rpc # "GetTaskList" => Answer(d) = <<>>
<1>1. ServerTasks \subseteq Types
    BY DEF Types
<1>2. tasks[d] \in Seq(Types)
    <2>1. tasks[d] \in Seq(ServerTasks)
        BY DEF TypeOK
    <2> QED
        BY <1>1, <2>1, SeqMonotonic
<1>3. line[d] \in Seq(Types)
    BY DEF TypeOK, Types
<1>4. call[d] \in AnyCall
    BY SlotsApart DEF TypeOK, AnyCall
<1>5. call[d].list \in Lists(call[d].rpc)
    BY <1>4, CallFields
<1>6. CASE call[d].rpc = "GetTaskList"
    <2>1. call[d].list \in Seq(ServerTasks) /\ Answer(d) = call[d].list
        BY <1>5, <1>6 DEF Lists, Answer
    <2>2. Answer(d) \in Seq(Types)
        BY <1>1, <2>1, SeqMonotonic
    <2> QED
        BY <1>2, <1>3, <1>6, <2>2
<1>7. CASE call[d].rpc # "GetTaskList"
    BY <1>2, <1>3, <1>7 DEF Answer
<1> QED
    BY <1>6, <1>7

LEMMA LinesCount ==
    ASSUME TypeOK, NEW d \in Daemons, NEW ty
    PROVE  /\ Count(ty, tasks[d]) \in Nat /\ Count(ty, Answer(d)) \in Nat
           /\ Count(ty, line[d]) \in Nat /\ InLines(ty, d) \in Nat
           /\ call[d].rpc # "GetTaskList" => Count(ty, Answer(d)) = 0
<1>1. Count(ty, tasks[d]) \in Nat /\ Count(ty, Answer(d)) \in Nat /\ Count(ty, line[d]) \in Nat
    BY LinesType, CountType
<1>2. call[d].rpc # "GetTaskList" => Count(ty, Answer(d)) = 0
    BY LinesType, CountEmpty
<1> QED
    BY <1>1, <1>2 DEF InLines

LEMMA TokensType ==
    ASSUME TypeOK, NEW d \in Daemons
    PROVE  Gens(d) \in Nat /\ Ups(d) \in Nat /\ Downs(d) \in Nat /\ Owed(d) \in Nat /\ Weight(d) \in Nat
<1>1. InLines(GEN, d) \in Nat /\ InLines(UPD, d) \in Nat /\ InLines(DOWN, d) \in Nat
    BY LinesCount
<1>2. Gens(d) \in Nat /\ Downs(d) \in Nat /\ Owed(d) \in Nat
    BY <1>1 DEF Gens, Downs, Owed, One
<1>3. Ups(d) \in Nat
    BY <1>1 DEF Ups, One
<1> QED
    BY <1>2, <1>3 DEF Weight

\* The same, of the next state too.
TokensAreNumbers ==
    \A d \in Daemons :
        /\ Gens(d) \in Nat /\ Ups(d) \in Nat /\ Downs(d) \in Nat /\ Owed(d) \in Nat
        /\ Weight(d) \in Nat
        /\ tasks[d] \in Seq(Types) /\ Answer(d) \in Seq(Types) /\ line[d] \in Seq(Types)
        /\ InLines(GEN, d) \in Nat /\ InLines(UPD, d) \in Nat /\ InLines(DOWN, d) \in Nat

LEMMA TypedTokens == TypeOK => TokensAreNumbers
    BY TokensType, LinesType, LinesCount DEF TokensAreNumbers

LEMMA TypedTokensNext ==
    ASSUME TypeOK'
    PROVE  TokensAreNumbers'
    BY TypedTokens, PTL

\* Nothing changes for the other daemons.
LEMMA AloneTokens ==
    ASSUME NEW d \in Daemons, Alone(d), NEW e \in Daemons, e # d
    PROVE  /\ Gens(e)' = Gens(e) /\ Ups(e)' = Ups(e) /\ Downs(e)' = Downs(e) /\ Owed(e)' = Owed(e)
           /\ Weight(e)' = Weight(e) /\ Answered(e)' = Answered(e)
           /\ Generator(e)' = Generator(e) /\ Fresh(e)' = Fresh(e) /\ MayTear(e)' = MayTear(e)
           /\ Answer(e)' = Answer(e)
<1>1. /\ tasks'[e] = tasks[e]
      /\ t2DownloadMap'[e] = t2DownloadMap[e] /\ t2UpdateMap'[e] = t2UpdateMap[e]
      /\ call'[e] = call[e] /\ line'[e] = line[e] /\ deffered'[e] = deffered[e]
      /\ reports'[e] = reports[e] /\ torrents'[e] = torrents[e]
    BY DEF Alone
<1>2. Answer(e)' = Answer(e)
    BY <1>1 DEF Answer
<1>3. \A ty : InLines(ty, e)' = InLines(ty, e)
    BY <1>1, <1>2 DEF InLines
<1>4. Gens(e)' = Gens(e) /\ Downs(e)' = Downs(e) /\ Owed(e)' = Owed(e)
    BY <1>1, <1>3 DEF Gens, Downs, Owed
<1>5. Ups(e)' = Ups(e)
    BY <1>1, <1>3 DEF Ups, Reporting
<1>6. Weight(e)' = Weight(e)
    BY <1>4, <1>5 DEF Weight
<1>7. Answered(e)' = Answered(e) /\ MayTear(e)' = MayTear(e)
    BY <1>1 DEF Answered, MayTear
<1>8. Generator(e)' = Generator(e) /\ Fresh(e)' = Fresh(e)
    BY <1>1, <1>7 DEF Generator, Fresh
<1> QED
    BY <1>2, <1>4, <1>5, <1>6, <1>7, <1>8

SameTokens(d) ==
    Gens(d)' = Gens(d) /\ Ups(d)' = Ups(d) /\ Downs(d)' = Downs(d) /\ Owed(d)' = Owed(d)

(* When a step that adds no task keeps each part of the invariant. *)

GensAt(e) ==
    /\ Gens(e)' <= Gens(e)
    /\ Answered(e)' <=> (Answered(e) /\ Gens(e)' > 0)
    /\ UPD \in deffered'[e] => UPD \in deffered[e] \/ (~isFirst /\ \A f \in Daemons : Gens(f)' = 0)

QuietGens == isFirst' = isFirst /\ made' = made /\ \A e \in Daemons : GensAt(e)

LEMMA QuietAsked ==
    ASSUME TokensAreNumbers, TokensAreNumbers', AskedOnce, QuietGens
    PROVE  AskedOnce'
<1>1. \A e \in Daemons : Gens(e) \in Nat /\ Gens(e)' \in Nat /\ Gens(e)' <= Gens(e)
    BY DEF TokensAreNumbers, QuietGens, GensAt
<1>2. \A e \in Daemons : (Gens(e)' > 0 => Gens(e) > 0) /\ (Gens(e) = 0 => Gens(e)' = 0)
                         /\ (Gens(e) <= 1 => Gens(e)' <= 1)
    BY <1>1
<1>3. (isFirst => made = 0)'
    BY DEF AskedOnce, QuietGens, GensAt
<1>4. ASSUME NEW d \in Daemons
      PROVE  /\ Gens(d)' <= 1
             /\ isFirst' => Gens(d)' = 0
             /\ Gens(d)' > 0 /\ made' > 0 => Answered(d)'
             /\ Answered(d)' => made' = 1
             /\ \A e \in Daemons : Gens(d)' > 0 /\ Gens(e)' > 0 => d = e
    BY <1>2, <1>4 DEF AskedOnce, QuietGens, GensAt
<1>5. ASSUME NEW d \in Daemons, UPD \in deffered'[d]
      PROVE  ~isFirst' /\ \A e \in Daemons : Gens(e)' = 0
    BY <1>2, <1>5 DEF AskedOnce, QuietGens, GensAt
<1> QED
    BY <1>3, <1>4, <1>5 DEF AskedOnce

DownloadsAt(e) ==
    /\ t2DownloadMap[e] = {} => t2DownloadMap'[e] = {}
    /\ call'[e].at = "task" => call[e].at = "task" \/ t2DownloadMap[e] # {}
    /\ call'[e].rpc = "GetTorrentsForDownload" /\ call'[e].list # <<>> =>
          \/ call[e].rpc = "GetTorrentsForDownload" /\ call[e].list # <<>>
          \/ t2DownloadMap[e] # {}
    /\ call'[e].at = "give" =>
          \/ call[e].at = "give" /\ call'[e].list = call[e].list
          \/ \A i \in DOMAIN call'[e].list : ~Generator(call'[e].list[i])
    /\ Generator(e)' => Generator(e)
    /\ Fresh(e)' => Fresh(e)

QuietDownloads == torrentDeque' = torrentDeque /\ \A e \in Daemons : DownloadsAt(e)

LEMMA QuietPassed ==
    ASSUME PassedOnce, QuietDownloads
    PROVE  PassedOnce'
<1>1. NoDownloads => NoDownloads'
    BY DEF NoDownloads, QuietDownloads, DownloadsAt
<1>2. ASSUME NEW d \in Daemons, Generator(d)'
      PROVE  /\ t2DownloadMap'[d] = {} /\ call'[d].at # "task"
             /\ call'[d].rpc = "GetTorrentsForDownload" => call'[d].list = <<>>
             /\ \A e \in Daemons : call'[e].at = "give" =>
                    \A i \in DOMAIN call'[e].list : call'[e].list[i] # d
    BY <1>2 DEF PassedOnce, QuietDownloads, DownloadsAt
<1>3. ASSUME NEW d \in Daemons, Fresh(d)' PROVE torrentDeque' = <<>> /\ NoDownloads'
    BY <1>1, <1>3 DEF PassedOnce, QuietDownloads, DownloadsAt
<1>4. \A d, e \in Daemons : Generator(d)' /\ Generator(e)' => d = e
    BY DEF PassedOnce, QuietDownloads, DownloadsAt
<1>5. torrentDeque' # <<>> => NoDownloads'
    BY <1>1 DEF PassedOnce, QuietDownloads, DownloadsAt
<1> QED
    BY <1>2, <1>3, <1>4, <1>5 DEF PassedOnce

WeightsAt(e) ==
    /\ Weight(e)' <= Weight(e)
    /\ Gens(e)' > 0 \/ Fresh(e)' => Gens(e) > 0 \/ Fresh(e)
    /\ torrentDeque # <<>> /\ Generator(e) => Generator(e)'

QuietWeights ==
    /\ restarts' = 0 => restarts = 0
    /\ isFirst' => isFirst
    /\ torrentDeque' # <<>> => torrentDeque # <<>>
    /\ \A e \in Daemons : WeightsAt(e)

LEMMA QuietBounded ==
    ASSUME TokensAreNumbers, TokensAreNumbers', Bounded, QuietWeights
    PROVE  Bounded'
<1> SUFFICES ASSUME restarts' = 0, NEW d \in Daemons
             PROVE  /\ Weight(d)' <= 2
                    /\ isFirst' => Weight(d)' = 0
                    /\ torrentDeque' # <<>> => Weight(d)' = 0 \/ Generator(d)'
                    /\ Gens(d)' > 0 \/ Fresh(d)' => \A e \in Daemons : e # d => Weight(e)' = 0
    BY DEF Bounded
<1>1. \A e \in Daemons : Weight(e) \in Nat /\ Weight(e)' \in Nat /\ Weight(e)' <= Weight(e)
    BY DEF TokensAreNumbers, QuietWeights, WeightsAt
<1>2. \A e \in Daemons : (Weight(e) = 0 => Weight(e)' = 0) /\ (Weight(e) <= 2 => Weight(e)' <= 2)
    BY <1>1
<1>3. restarts = 0
    BY DEF QuietWeights, WeightsAt
<1>4. Weight(d)' <= 2 /\ (isFirst' => Weight(d)' = 0)
    BY <1>2, <1>3 DEF Bounded, QuietWeights, WeightsAt
<1>5. torrentDeque' # <<>> => Weight(d)' = 0 \/ Generator(d)'
    BY <1>2, <1>3 DEF Bounded, QuietWeights, WeightsAt
<1>6. Gens(d)' > 0 \/ Fresh(d)' => \A e \in Daemons : e # d => Weight(e)' = 0
    BY <1>2, <1>3 DEF Bounded, QuietWeights, WeightsAt
<1> QED
    BY <1>4, <1>5, <1>6

\* The rest of the invariant, daemon by daemon.
KeptAt(d) ==
    /\ Followed(tasks[d]) /\ Followed(Answer(d)) /\ Followed(line[d])
    /\ call[d].rpc = "GetInfoForGenerateTorrents" => Count(UPD, line[d]) >= 1
    /\ t2DownloadMap[d] # {} => Downs(d) >= 1
    /\ 1 \in t2UpdateMap[d] =>
          Ups(d) + One(call[d].rpc \in {"GetInfoForGenerateTorrents", "GetTorrentsForDownload"})
              >= IF MayTear(d) THEN 2 ELSE 1

ListedAt(d) ==
    /\ 1 \in Torrents /\ torrents[d][1] = "GENERATING" => 1 \in t2UpdateMap[d]
    /\ call[d].rpc = "UpdateTorrentStatus" /\ call[d].at = "called" /\ call[d].info.status = "DOWNLOADED"
          => torrents[d][1] # "GENERATING"

LEMMA AloneKept ==
    ASSUME NEW d \in Daemons, Alone(d), NEW e \in Daemons, e # d
    PROVE  KeptAt(e)' = KeptAt(e) /\ ListedAt(e)' = ListedAt(e)
<1>1. /\ tasks'[e] = tasks[e]
      /\ t2DownloadMap'[e] = t2DownloadMap[e] /\ t2UpdateMap'[e] = t2UpdateMap[e]
      /\ call'[e] = call[e] /\ line'[e] = line[e] /\ torrents'[e] = torrents[e]
    BY DEF Alone
<1>2. Ups(e)' = Ups(e) /\ Downs(e)' = Downs(e) /\ MayTear(e)' = MayTear(e) /\ Answer(e)' = Answer(e)
    BY AloneTokens
<1>3. KeptAt(e)' = KeptAt(e)
    BY <1>1, <1>2 DEF KeptAt
<1>4. ListedAt(e)' = ListedAt(e)
    BY <1>1 DEF ListedAt
<1> QED
    BY <1>3, <1>4

LEMMA AloneQuiet ==
    ASSUME TokensAreNumbers, NEW d \in Daemons, Alone(d), NEW e \in Daemons, e # d
    PROVE  GensAt(e) /\ DownloadsAt(e) /\ WeightsAt(e)
<1>1. /\ Gens(e)' = Gens(e) /\ Weight(e)' = Weight(e) /\ Answered(e)' = Answered(e)
      /\ Generator(e)' = Generator(e) /\ Fresh(e)' = Fresh(e)
    BY AloneTokens
<1>2. /\ t2DownloadMap'[e] = t2DownloadMap[e] /\ call'[e] = call[e] /\ deffered'[e] = deffered[e]
    BY DEF Alone
<1>3. Gens(e) \in Nat /\ Weight(e) \in Nat /\ InLines(GEN, e) \in Nat
    BY DEF TokensAreNumbers
<1>4. Answered(e) => Gens(e) > 0
    BY <1>3 DEF Answered, Gens, One
<1>5. GensAt(e)
    BY <1>1, <1>2, <1>3, <1>4 DEF GensAt
<1>6. DownloadsAt(e)
    BY <1>1, <1>2 DEF DownloadsAt
<1>7. WeightsAt(e)
    BY <1>1, <1>3 DEF WeightsAt
<1> QED
    BY <1>5, <1>6, <1>7

\* The parts of the invariant that are about the whole system.
Rest == AskedOnce /\ PassedOnce /\ Listed /\ Bounded /\ Kept

\* A step of one daemon, or for it, that adds no task.
QuietStep(d) ==
    /\ TypeOK' /\ Alone(d)
    /\ isFirst' = isFirst /\ made' = made /\ torrentDeque' = torrentDeque
    /\ restarts' = 0 => restarts = 0
    /\ ~lost' => ~lost
    /\ GensAt(d) /\ DownloadsAt(d) /\ WeightsAt(d)
    /\ ListedAt(d)' /\ (~lost' => KeptAt(d)')

LEMMA QuietRest ==
    ASSUME ShapeInv, Rest, NEW d \in Daemons, QuietStep(d)
    PROVE  Rest'
<1>1. TypeOK /\ TypeOK' /\ Alone(d)
    BY DEF ShapeInv, QuietStep
<1>2. TokensAreNumbers /\ TokensAreNumbers'
    BY <1>1, TypedTokens, TypedTokensNext
<1>3. \A e \in Daemons : GensAt(e) /\ DownloadsAt(e) /\ WeightsAt(e)
    BY <1>1, <1>2, AloneQuiet DEF QuietStep
<1>4. QuietGens /\ QuietDownloads /\ QuietWeights
    BY <1>3 DEF QuietGens, QuietDownloads, QuietWeights, QuietStep
<1>5. AskedOnce' /\ PassedOnce' /\ Bounded'
    BY <1>2, <1>4, QuietAsked, QuietPassed, QuietBounded DEF Rest
<1>6. \A e \in Daemons : ListedAt(e)'
    BY <1>1, AloneKept DEF QuietStep, Rest, Listed, ListedAt
<1>7. ~lost' => \A e \in Daemons : KeptAt(e)'
    <2>1. ~lost => \A e \in Daemons : KeptAt(e)
        BY DEF Rest, Kept, KeptAt
    <2> QED
        BY <1>1, <2>1, AloneKept DEF QuietStep
<1>8. Listed' /\ Kept'
    BY <1>6, <1>7 DEF Listed, ListedAt, Kept, KeptAt
<1> QED
    BY <1>5, <1>8 DEF Rest

\* What holds of one daemon.
LEMMA RestAt ==
    ASSUME ShapeInv, Rest, NEW d \in Daemons
    PROVE  TypeOK /\ Shape(d) /\ ListedAt(d) /\ (~lost => KeptAt(d)) /\ TokensAreNumbers
    BY TypedTokens DEF ShapeInv, Shape, Rest, Listed, ListedAt, Kept, KeptAt

LEMMA SameWeight ==
    ASSUME TokensAreNumbers, NEW d \in Daemons, SameTokens(d)
    PROVE  Gens(d)' <= Gens(d) /\ Weight(d)' <= Weight(d)
<1>1. Gens(d) \in Nat /\ Weight(d) \in Nat
    BY DEF TokensAreNumbers
<1>2. Weight(d)' = Weight(d) /\ Gens(d)' = Gens(d)
    BY DEF Weight, SameTokens
<1> QED
    BY <1>1, <1>2

LEMMA AnsweredCounts ==
    ASSUME TokensAreNumbers, NEW d \in Daemons, call[d].rpc = "GetInfoForGenerateTorrents"
    PROVE  Gens(d) > 0
<1>1. InLines(GEN, d) \in Nat
    BY DEF TokensAreNumbers
<1> QED
    BY <1>1 DEF Gens, One

LEMMA FollowedEmpty == Followed(<<>>)
    BY DEF Followed

LEMMA FollowedOne ==
    ASSUME NEW s \in Seq(Types), Followed(s), NEW ty \in Types, ty # GEN
    PROVE  Followed(s \o <<ty>>)
<1>1. <<ty>> \in Seq(Types)
    OBVIOUS
<1>2. \A i \in DOMAIN <<ty>> : <<ty>>[i] = ty
    OBVIOUS
<1>3. Followed(<<ty>>)
    BY <1>2 DEF Followed
<1> QED
    BY <1>1, <1>3, FollowedConcat

\* A call that goes on at the server.
LEMMA ServedTokens ==
    ASSUME NEW d \in Daemons, UNCHANGED others, call'[d].rpc = call[d].rpc,
           call[d].rpc \notin {"UpdateTorrentStatus", "GetTorrentsForDownload"},
           \A ty : InLines(ty, d)' = InLines(ty, d)
    PROVE  SameTokens(d)
<1>1. deffered' = deffered /\ reports' = reports
    BY OthersStep
<1>2. Gens(d)' = Gens(d) /\ Downs(d)' = Downs(d) /\ Owed(d)' = Owed(d)
    BY DEF Gens, Downs, Owed
<1>3. Reporting(d)' = Reporting(d)
    BY <1>1 DEF Reporting
<1>4. Ups(d)' = Ups(d)
    BY <1>1, <1>3 DEF Ups
<1> QED
    BY <1>2, <1>4 DEF SameTokens

LEMMA GetTaskListQuiet ==
    ASSUME ShapeInv, Rest, NEW d \in Daemons, GetTaskList(d, d)
    PROVE  QuietStep(d)
<1>0. TypeOK /\ Shape(d) /\ ListedAt(d) /\ (~lost => KeptAt(d)) /\ TokensAreNumbers
    BY RestAt
<1>1. /\ TypeOK' /\ Alone(d) /\ UNCHANGED others
      /\ UNCHANGED <<uuids, isFirst, torrentDeque, t2DownloadMap, t2UpdateMap, made>>
      /\ call[d].rpc = "GetTaskList" /\ call[d].at = "called"
      /\ tasks'[d] = <<>> /\ CallNow(d, "replied", tasks[d])
    BY <1>0, GetTaskListStep
<1>2. /\ line' = line /\ deffered' = deffered /\ reports' = reports /\ torrents' = torrents
      /\ lost' = lost /\ orphans' = orphans /\ restarts' = restarts
    BY <1>1, OthersStep
<1>3. Answer(d) = <<>> /\ Answer(d)' = tasks[d] /\ call'[d].rpc = "GetTaskList"
      /\ call'[d].at = "replied"
    BY <1>0, <1>1 DEF Shape, CallShape, CallNow, Answer
<1>4. \A ty : InLines(ty, d)' = InLines(ty, d)
    <2> TAKE ty
    <2>1. Count(ty, <<>>) = 0 /\ Count(ty, tasks[d]) \in Nat /\ Count(ty, line[d]) \in Nat
        BY <1>0, CountEmpty, LinesCount
    <2> QED
        BY <1>1, <1>2, <1>3, <2>1 DEF InLines
<1>5. SameTokens(d)
    BY <1>1, <1>3, <1>4, ServedTokens
<1>6. ~Answered(d) /\ ~Answered(d)' /\ MayTear(d)' = MayTear(d)
    BY <1>1, <1>2, <1>3 DEF Answered, MayTear
<1>7. GensAt(d)
    BY <1>0, <1>2, <1>5, <1>6, SameWeight DEF GensAt
<1>8. Generator(d)' = Generator(d) /\ Fresh(d)' = Fresh(d)
    BY <1>1, <1>2, <1>6 DEF Generator, Fresh
<1>9. DownloadsAt(d)
    BY <1>1, <1>3, <1>8 DEF DownloadsAt
<1>10. WeightsAt(d)
    BY <1>0, <1>5, <1>8, SameWeight DEF WeightsAt, SameTokens
<1>11. ListedAt(d)'
    BY <1>0, <1>1, <1>2, <1>3 DEF ListedAt
<1>12. ASSUME ~lost' PROVE KeptAt(d)'
    <2>1. KeptAt(d)
        BY <1>0, <1>2, <1>12
    <2>2. Followed(tasks[d])' /\ Followed(Answer(d))' /\ Followed(line[d])'
        BY <1>1, <1>2, <1>3, <2>1, FollowedEmpty DEF KeptAt
    <2> QED
        BY <1>1, <1>2, <1>3, <1>5, <1>6, <2>1, <2>2 DEF KeptAt, SameTokens
<1> QED
    BY <1>1, <1>2, <1>7, <1>9, <1>10, <1>11, <1>12 DEF QuietStep

\* A step that moves the tasks of a daemon, and nothing else.
LEMMA SameQuiet ==
    ASSUME TokensAreNumbers, NEW d \in Daemons, SameTokens(d),
           Answered(d)' <=> Answered(d), torrents'[d] = torrents[d],
           t2UpdateMap'[d] = t2UpdateMap[d], t2DownloadMap'[d] = t2DownloadMap[d],
           UPD \in deffered'[d] => UPD \in deffered[d],
           \/ call'[d] = call[d]
           \/ /\ call'[d].at \notin {"give", "task"}
              /\ call'[d].rpc = "GetTorrentsForDownload" => call'[d].list = <<>>
    PROVE  GensAt(d) /\ DownloadsAt(d) /\ WeightsAt(d)
<1>1. Generator(d)' = Generator(d) /\ Fresh(d)' = Fresh(d)
    BY DEF Generator, Fresh
<1>2. Answered(d) => Gens(d) > 0
    BY AnsweredCounts DEF Answered
<1>3. Gens(d)' <= Gens(d) /\ Weight(d)' <= Weight(d) /\ Gens(d)' = Gens(d)
    BY SameWeight DEF SameTokens
<1>4. GensAt(d)
    BY <1>2, <1>3 DEF GensAt
<1>5. DownloadsAt(d)
    BY <1>1 DEF DownloadsAt
<1>6. WeightsAt(d)
    BY <1>1, <1>3 DEF WeightsAt
<1> QED
    BY <1>4, <1>5, <1>6

LEMMA GetForUpdateQuiet ==
    ASSUME ShapeInv, Rest, NEW d \in Daemons, GetTorrentsForUpdateStatus(d, d)
    PROVE  QuietStep(d)
<1>0. TypeOK /\ Shape(d) /\ ListedAt(d) /\ (~lost => KeptAt(d)) /\ TokensAreNumbers
    BY RestAt
<1>1. /\ TypeOK' /\ Alone(d) /\ UNCHANGED others /\ UNCHANGED serverVars
      /\ call[d].rpc = "GetTorrentsForUpdateStatus" /\ call[d].at = "called"
      /\ call'[d].rpc = "GetTorrentsForUpdateStatus" /\ call'[d].at = "replied"
    BY <1>0, KnownTorrents, GetForUpdateStep DEF CallNow
<1>2. /\ line' = line /\ deffered' = deffered /\ reports' = reports /\ torrents' = torrents
      /\ lost' = lost /\ orphans' = orphans /\ restarts' = restarts
    BY <1>1, OthersStep
<1>3. /\ isFirst' = isFirst /\ torrentDeque' = torrentDeque /\ made' = made /\ tasks' = tasks
      /\ t2DownloadMap' = t2DownloadMap /\ t2UpdateMap' = t2UpdateMap
    BY <1>1 DEF serverVars
<1>4. Answer(d)' = Answer(d)
    BY <1>1 DEF Answer
<1>5. \A ty : InLines(ty, d)' = InLines(ty, d)
    BY <1>2, <1>3, <1>4 DEF InLines
<1>6. SameTokens(d)
    BY <1>1, <1>5, ServedTokens
<1>7. ~Answered(d) /\ ~Answered(d)' /\ MayTear(d)' = MayTear(d)
    BY <1>1, <1>2 DEF Answered, MayTear
<1>8. GensAt(d) /\ DownloadsAt(d) /\ WeightsAt(d)
    BY <1>0, <1>1, <1>2, <1>3, <1>6, <1>7, SameQuiet
<1>9. ListedAt(d)'
    BY <1>0, <1>1, <1>2, <1>3 DEF ListedAt
<1>10. ~lost' => KeptAt(d)'
    BY <1>0, <1>1, <1>2, <1>3, <1>4, <1>6, <1>7 DEF KeptAt, SameTokens
<1> QED
    BY <1>1, <1>2, <1>3, <1>8, <1>9, <1>10 DEF QuietStep

LEMMA CopyLinkQuiet ==
    ASSUME ShapeInv, Rest, NEW d \in Daemons, CopyLink(d)
    PROVE  QuietStep(d)
<1>0. TypeOK /\ Shape(d) /\ ListedAt(d) /\ (~lost => KeptAt(d)) /\ TokensAreNumbers
    BY RestAt
<1>1. /\ TypeOK' /\ Alone(d)
      /\ UNCHANGED <<serverVars, line, deffered, torrents, lost, orphans, restarts>>
      /\ call[d].rpc = "none" /\ reports[d] = << 1 >> /\ reports'[d] = <<>>
      /\ call'[d].rpc = "UpdateTorrentStatus" /\ call'[d].at = "copy" /\ call'[d].list = <<>>
      /\ call'[d].info.link = (torrents[d][1] \in Links)
    BY CopyLinkStep, NoCallType
<1>2. line' = line /\ deffered' = deffered /\ torrents' = torrents /\ lost' = lost /\ orphans' = orphans /\ restarts' = restarts
    BY <1>1
<1>3. /\ isFirst' = isFirst /\ torrentDeque' = torrentDeque /\ made' = made /\ tasks' = tasks
      /\ t2DownloadMap' = t2DownloadMap /\ t2UpdateMap' = t2UpdateMap
    BY <1>1 DEF serverVars
<1>4. Answer(d)' = Answer(d)
    BY <1>1 DEF Answer
<1>5. \A ty : InLines(ty, d)' = InLines(ty, d)
    BY <1>2, <1>3, <1>4 DEF InLines
<1>6. << 1 >> # <<>>
    OBVIOUS
<1>7. Reporting(d) /\ Reporting(d)'
    BY <1>1, <1>6 DEF Reporting
<1>8. SameTokens(d)
    <2>1. Gens(d)' = Gens(d) /\ Downs(d)' = Downs(d) /\ Owed(d)' = Owed(d)
        BY <1>1, <1>5 DEF Gens, Downs, Owed
    <2>2. Ups(d)' = Ups(d)
        BY <1>1, <1>2, <1>5, <1>7 DEF Ups
    <2> QED
        BY <2>1, <2>2 DEF SameTokens
<1>9. ~Answered(d) /\ ~Answered(d)' /\ MayTear(d)' = MayTear(d)
    BY <1>1, <1>2 DEF Answered, MayTear, Links
<1>10. GensAt(d) /\ DownloadsAt(d) /\ WeightsAt(d)
    BY <1>0, <1>1, <1>2, <1>3, <1>8, <1>9, SameQuiet
<1>11. ListedAt(d)'
    BY <1>0, <1>1, <1>2, <1>3 DEF ListedAt
<1>12. ~lost' => KeptAt(d)'
    BY <1>0, <1>1, <1>2, <1>3, <1>4, <1>8, <1>9 DEF KeptAt, SameTokens
<1> QED
    BY <1>1, <1>2, <1>3, <1>10, <1>11, <1>12 DEF QuietStep

LEMMA CopyStatusQuiet ==
    ASSUME ShapeInv, Rest, NEW d \in Daemons, CopyStatus(d)
    PROVE  QuietStep(d)
<1>0. TypeOK /\ Shape(d) /\ ListedAt(d) /\ (~lost => KeptAt(d)) /\ TokensAreNumbers
    BY RestAt
<1>1. /\ TypeOK' /\ Alone(d) /\ UNCHANGED <<serverVars, daemonVars, lost, orphans, restarts>>
      /\ call[d].rpc = "UpdateTorrentStatus" /\ call[d].at = "copy"
      /\ call'[d].rpc = "UpdateTorrentStatus" /\ call'[d].at = "called" /\ call'[d].list = <<>>
      /\ call'[d].info.link = call[d].info.link /\ call'[d].info.status = torrents[d][1]
    BY CopyStatusStep
<1>2. /\ line' = line /\ deffered' = deffered /\ reports' = reports /\ torrents' = torrents
      /\ lost' = lost /\ orphans' = orphans /\ restarts' = restarts
    BY <1>1 DEF daemonVars
<1>3. /\ isFirst' = isFirst /\ torrentDeque' = torrentDeque /\ made' = made /\ tasks' = tasks
      /\ t2DownloadMap' = t2DownloadMap /\ t2UpdateMap' = t2UpdateMap
    BY <1>1 DEF serverVars
<1>4. Answer(d)' = Answer(d)
    BY <1>1 DEF Answer
<1>5. \A ty : InLines(ty, d)' = InLines(ty, d)
    BY <1>2, <1>3, <1>4 DEF InLines
<1>7. Reporting(d) /\ Reporting(d)'
    BY <1>1 DEF Reporting
<1>8. SameTokens(d)
    <2>1. Gens(d)' = Gens(d) /\ Downs(d)' = Downs(d) /\ Owed(d)' = Owed(d)
        BY <1>1, <1>5 DEF Gens, Downs, Owed
    <2>2. Ups(d)' = Ups(d)
        BY <1>1, <1>2, <1>5, <1>7 DEF Ups
    <2> QED
        BY <2>1, <2>2 DEF SameTokens
<1>9. ~Answered(d) /\ ~Answered(d)' /\ MayTear(d)' = MayTear(d)
    BY <1>1, <1>2 DEF Answered, MayTear
<1>10. GensAt(d) /\ DownloadsAt(d) /\ WeightsAt(d)
    BY <1>0, <1>1, <1>2, <1>3, <1>8, <1>9, SameQuiet
<1>11. ListedAt(d)'
    BY <1>0, <1>1, <1>2, <1>3 DEF ListedAt
<1>12. ~lost' => KeptAt(d)'
    BY <1>0, <1>1, <1>2, <1>3, <1>4, <1>8, <1>9 DEF KeptAt, SameTokens
<1> QED
    BY <1>1, <1>2, <1>3, <1>10, <1>11, <1>12 DEF QuietStep

LEMMA RunTaskQuiet ==
    ASSUME ShapeInv, Rest, NEW d \in Daemons, RunTask(d)
    PROVE  QuietStep(d)
<1>0. TypeOK /\ Shape(d) /\ ListedAt(d) /\ (~lost => KeptAt(d)) /\ TokensAreNumbers
    BY RestAt
<1> DEFINE ty == Head(line[d])
<1>1. /\ TypeOK' /\ Alone(d)
      /\ UNCHANGED <<serverVars, deffered, reports, torrents, lost, orphans, restarts>>
      /\ call[d].rpc = "none" /\ call[d].at = "none" /\ reports[d] = <<>> /\ line[d] # <<>>
      /\ ty \in Types /\ line'[d] = Tail(line[d])
      /\ call'[d].rpc = Stub[ty] /\ call'[d].rpc \in Rpcs
      /\ call'[d].at = "called" /\ call'[d].list = <<>>
    BY <1>0, RunTaskStep, NoCallType
<1>2. /\ deffered' = deffered /\ reports' = reports /\ torrents' = torrents
      /\ lost' = lost /\ orphans' = orphans /\ restarts' = restarts
    BY <1>1
<1>3. /\ isFirst' = isFirst /\ torrentDeque' = torrentDeque /\ made' = made /\ tasks' = tasks
      /\ t2DownloadMap' = t2DownloadMap /\ t2UpdateMap' = t2UpdateMap
    BY <1>1 DEF serverVars
<1>4. Answer(d) = <<>> /\ Answer(d)' = <<>>
    BY <1>1 DEF Answer
<1>5. /\ call'[d].rpc = "GetInfoForGenerateTorrents" <=> ty = GEN
      /\ call'[d].rpc = "GetTorrentsForUpdateStatus" <=> ty = UPD
      /\ call'[d].rpc = "GetTorrentsForDownload" <=> ty = DOWN
      /\ call'[d].rpc # "UpdateTorrentStatus"
    BY <1>1, StubOf DEF GEN, UPD, DOWN
<1>6. line[d] \in Seq(Types)
    BY <1>0 DEF TokensAreNumbers
<1> HIDE DEF ty
<1>7. ASSUME NEW k \in {GEN, UPD, DOWN}
      PROVE  InLines(k, d)' + One(ty = k) = InLines(k, d)
    <2>1. Count(k, line[d]) = Count(k, line'[d]) + One(ty = k) /\ line'[d] \in Seq(Types)
        BY <1>1, <1>6, CountTail DEF ty
    <2>2. Count(k, line'[d]) \in Nat /\ Count(k, tasks[d]) \in Nat /\ Count(k, <<>>) = 0
        BY <1>0, <2>1, LinesCount, CountType, CountEmpty
    <2>3. One(ty = k) \in Nat
        BY DEF One
    <2> QED
        BY <1>3, <1>4, <2>1, <2>2, <2>3 DEF InLines
<1>8. ASSUME NEW k \in {GEN, UPD, DOWN}
      PROVE  InLines(k, d) \in Nat /\ InLines(k, d)' \in Nat
    BY <1>0, <1>1, TypedTokensNext DEF TokensAreNumbers
<1>9. SameTokens(d)
    <2>1. Gens(d)' = Gens(d)
        BY <1>1, <1>5, <1>7, <1>8 DEF Gens, One
    <2>2. Downs(d)' = Downs(d)
        BY <1>1, <1>5, <1>7, <1>8 DEF Downs, One
    <2>3. Owed(d)' = Owed(d)
        BY <1>1 DEF Owed
    <2>4. ~Reporting(d) /\ ~Reporting(d)'
        BY <1>1, <1>2, <1>5 DEF Reporting
    <2>5. Ups(d)' = Ups(d)
        BY <1>1, <1>2, <1>5, <1>7, <1>8, <2>4 DEF Ups, One
    <2> QED
        BY <2>1, <2>2, <2>3, <2>5 DEF SameTokens
<1>10. ~Answered(d) /\ ~Answered(d)'
    BY <1>1 DEF Answered
<1>11. MayTear(d)' <=> MayTear(d)
    BY <1>1, <1>2, <1>5, <1>10 DEF MayTear
<1>12. GensAt(d) /\ DownloadsAt(d) /\ WeightsAt(d)
    BY <1>0, <1>1, <1>2, <1>3, <1>9, <1>10, SameQuiet
<1>13. ListedAt(d)'
    BY <1>0, <1>2, <1>3, <1>5 DEF ListedAt
<1>14. ASSUME ~lost' PROVE KeptAt(d)'
    <2>1. KeptAt(d)
        BY <1>0, <1>2, <1>14
    <2>2. Followed(line'[d]) /\ (ty = GEN => Count(UPD, line'[d]) >= 1)
        BY <1>1, <1>6, <2>1, FollowedTail DEF KeptAt, ty
    <2>3. Followed(tasks[d])' /\ Followed(Answer(d))' /\ Followed(line[d])'
        BY <1>3, <1>4, <2>1, <2>2 DEF KeptAt
    <2>4. t2DownloadMap'[d] # {} => Downs(d)' >= 1
        BY <1>3, <1>9, <2>1 DEF KeptAt, SameTokens
    <2>5. Ups(d) \in Nat
        BY <1>0 DEF TokensAreNumbers
    <2>6. 1 \in t2UpdateMap'[d] => Ups(d) >= IF MayTear(d) THEN 2 ELSE 1
        BY <1>1, <1>3, <2>1, <2>5 DEF KeptAt, One
    <2>7. 1 \in t2UpdateMap'[d] =>
             Ups(d)' + One(call'[d].rpc \in {"GetInfoForGenerateTorrents", "GetTorrentsForDownload"})
                 >= IF MayTear(d)' THEN 2 ELSE 1
        BY <1>9, <1>11, <2>5, <2>6 DEF SameTokens, One
    <2> QED
        BY <1>5, <2>2, <2>3, <2>4, <2>7 DEF KeptAt
<1> QED
    BY <1>1, <1>2, <1>3, <1>12, <1>13, <1>14 DEF QuietStep

LEMMA TimerQuiet ==
    ASSUME ShapeInv, Rest, NEW d \in Daemons, NEW ty, Timer(d, ty)
    PROVE  QuietStep(d)
<1>0. TypeOK /\ Shape(d) /\ ListedAt(d) /\ (~lost => KeptAt(d)) /\ TokensAreNumbers
    BY RestAt
<1>1. /\ TypeOK' /\ Alone(d) /\ UNCHANGED <<serverVars, call, reports, torrents, lost, orphans, restarts>>
      /\ ty \in deffered[d] /\ ty \in DefferedTypes
      /\ deffered'[d] = deffered[d] \ {ty} /\ line'[d] = line[d] \o <<ty>>
    BY <1>0, TimerStep
<1>2. call' = call /\ reports' = reports /\ torrents' = torrents /\ lost' = lost /\ orphans' = orphans /\ restarts' = restarts
    BY <1>1
<1>3. /\ isFirst' = isFirst /\ torrentDeque' = torrentDeque /\ made' = made /\ tasks' = tasks
      /\ t2DownloadMap' = t2DownloadMap /\ t2UpdateMap' = t2UpdateMap
    BY <1>1 DEF serverVars
<1>4. Answer(d)' = Answer(d)
    BY <1>2 DEF Answer
<1>5. ty \in Types /\ ty # GEN /\ ty # DOWN
    BY <1>1 DEF Types, DefferedTypes, GEN, DOWN
<1>6. line[d] \in Seq(Types)
    BY <1>0 DEF TokensAreNumbers
<1>7. ASSUME NEW k
      PROVE  /\ InLines(k, d)' = InLines(k, d) + One(ty = k)
             /\ Count(k, line'[d]) = Count(k, line[d]) + One(ty = k)
             /\ Count(k, line[d]) \in Nat /\ InLines(k, d) \in Nat
    <2>1. Count(k, <<ty>>) = One(ty = k) /\ <<ty>> \in Seq(Types)
        BY <1>5, CountSingle
    <2>4. Count(k, line[d] \o <<ty>>) = Count(k, line[d]) + Count(k, <<ty>>)
        BY <1>6, <2>1, CountConcat
    <2>2. Count(k, line'[d]) = Count(k, line[d]) + One(ty = k)
        BY <1>1, <2>1, <2>4
    <2>3. Count(k, line[d]) \in Nat /\ Count(k, tasks[d]) \in Nat /\ Count(k, Answer(d)) \in Nat
          /\ One(ty = k) \in Nat
        BY <1>0, LinesCount DEF One
    <2> QED
        BY <1>3, <1>4, <2>2, <2>3 DEF InLines
<1>8. SameTokens(d)
    <2>1. One(ty = GEN) = 0 /\ One(ty = DOWN) = 0
        BY <1>5 DEF One
    <2>2. InLines(GEN, d)' = InLines(GEN, d) /\ InLines(DOWN, d)' = InLines(DOWN, d)
        BY <1>7, <2>1
    <2>3. Gens(d)' = Gens(d) /\ Downs(d)' = Downs(d) /\ Owed(d)' = Owed(d)
        BY <1>2, <2>2 DEF Gens, Downs, Owed
    <2>4. One(ty = UPD) + One(UPD \in deffered'[d]) = One(UPD \in deffered[d])
        BY <1>1 DEF One
    <2>5. Reporting(d)' = Reporting(d)
        BY <1>2 DEF Reporting
    <2> DEFINE running == One(call[d].rpc = "GetTorrentsForUpdateStatus" \/ Reporting(d))
    <2>6. running \in Nat /\ One(ty = UPD) \in Nat /\ One(UPD \in deffered'[d]) \in Nat
          /\ One(UPD \in deffered[d]) \in Nat
        BY DEF One
    <2>7. /\ Ups(d) = InLines(UPD, d) + One(UPD \in deffered[d]) + running
          /\ Ups(d)' = InLines(UPD, d)' + One(UPD \in deffered'[d]) + running
        BY <1>2, <2>5 DEF Ups
    <2> HIDE DEF running
    <2>8. Ups(d)' = Ups(d)
        BY <1>7, <2>4, <2>6, <2>7
    <2> QED
        BY <2>3, <2>8 DEF SameTokens
<1>9. /\ Answered(d)' <=> Answered(d)
      /\ MayTear(d)' <=> MayTear(d)
    BY <1>2 DEF Answered, MayTear
<1>10. GensAt(d) /\ DownloadsAt(d) /\ WeightsAt(d)
    BY <1>0, <1>1, <1>2, <1>3, <1>8, <1>9, SameQuiet
<1>11. ListedAt(d)'
    BY <1>0, <1>2, <1>3 DEF ListedAt
<1>12. ASSUME ~lost' PROVE KeptAt(d)'
    <2>1. KeptAt(d)
        BY <1>0, <1>2, <1>12
    <2>2. Followed(line[d])'
        BY <1>1, <1>5, <1>6, <2>1, FollowedOne DEF KeptAt
    <2>3. Count(UPD, line[d])' >= Count(UPD, line[d]) /\ Count(UPD, line[d]) \in Nat
          /\ Count(UPD, line[d])' \in Nat
        BY <1>7 DEF One
    <2>4. call'[d].rpc = "GetInfoForGenerateTorrents" => Count(UPD, line[d])' >= 1
        BY <1>2, <2>1, <2>3 DEF KeptAt
    <2> QED
        BY <1>2, <1>3, <1>4, <1>8, <1>9, <2>1, <2>2, <2>4 DEF KeptAt, SameTokens
<1> QED
    BY <1>1, <1>2, <1>3, <1>10, <1>11, <1>12 DEF QuietStep

LEMMA TorrentEndsQuiet ==
    ASSUME ShapeInv, Rest, NEW d \in Daemons, NEW t \in Torrents, TorrentEnds(d, t)
    PROVE  QuietStep(d)
<1>0. TypeOK /\ Shape(d) /\ ListedAt(d) /\ (~lost => KeptAt(d)) /\ TokensAreNumbers
    BY RestAt
<1>1. /\ TypeOK' /\ Alone(d)
      /\ UNCHANGED <<serverVars, call, line, deffered, reports, lost, orphans, restarts>>
      /\ \/ torrents[d][t] = "GENERATING" /\ torrents'[d][t] \in {"GENERATED", "GENERATION_ERROR"}
         \/ torrents[d][t] = "GENERATED" /\ torrents'[d][t] = "GENERATION_ERROR"
         \/ torrents[d][t] = "DOWNLOADING" /\ torrents'[d][t] \in {"DOWNLOADED", "DOWNLOADING_ERROR"}
    BY <1>0, TorrentEndsStep
<1>2. /\ call' = call /\ line' = line /\ deffered' = deffered /\ reports' = reports
      /\ lost' = lost /\ orphans' = orphans /\ restarts' = restarts
    BY <1>1
<1>3. /\ isFirst' = isFirst /\ torrentDeque' = torrentDeque /\ made' = made /\ tasks' = tasks
      /\ t2DownloadMap' = t2DownloadMap /\ t2UpdateMap' = t2UpdateMap
    BY <1>1 DEF serverVars
<1>4. t = 1
    <2>1. t \in 1..made /\ made <= 1 /\ made \in Nat
        BY <1>0, <1>1, BoundsAssumption DEF Shape, OnlyOne, ShapeInv, TypeOK
    <2> QED
        BY <2>1
<1>5. Answer(d)' = Answer(d)
    BY <1>2 DEF Answer
<1>6. \A k : InLines(k, d)' = InLines(k, d)
    BY <1>2, <1>3, <1>5 DEF InLines
<1>7. SameTokens(d)
    <2>1. Gens(d)' = Gens(d) /\ Downs(d)' = Downs(d) /\ Owed(d)' = Owed(d)
        BY <1>2, <1>6 DEF Gens, Downs, Owed
    <2>2. Ups(d)' = Ups(d)
        BY <1>2, <1>6 DEF Ups, Reporting
    <2> QED
        BY <2>1, <2>2 DEF SameTokens
<1>8. /\ Answered(d)' <=> Answered(d)
      /\ MayTear(d)' => MayTear(d)
    BY <1>1, <1>2, <1>4 DEF Answered, MayTear
<1>9. (Generator(d)' => Generator(d)) /\ (Fresh(d)' => Fresh(d))
    BY <1>1, <1>3, <1>4, <1>8 DEF Generator, Fresh
<1>10. Generator(d) => Generator(d)'
    BY <1>1, <1>4, <1>8 DEF Generator
<1>11. Gens(d)' = Gens(d) /\ Gens(d)' <= Gens(d) /\ Weight(d)' <= Weight(d)
    BY <1>0, <1>7, SameWeight DEF SameTokens
<1>12. Answered(d) => Gens(d) > 0
    BY <1>0, AnsweredCounts DEF Answered
<1>13. GensAt(d)
    BY <1>2, <1>8, <1>11, <1>12 DEF GensAt
<1>14. DownloadsAt(d)
    BY <1>2, <1>3, <1>9 DEF DownloadsAt
<1>15. WeightsAt(d)
    BY <1>9, <1>10, <1>11 DEF WeightsAt
<1>16. ListedAt(d)'
    BY <1>0, <1>1, <1>4 DEF ListedAt
<1>17. ASSUME ~lost' PROVE KeptAt(d)'
    <2>1. KeptAt(d)
        BY <1>0, <1>2, <1>17
    <2>2. Ups(d) \in Nat
        BY <1>0 DEF TokensAreNumbers
    <2>3. 1 \in t2UpdateMap'[d] =>
             Ups(d)' + One(call'[d].rpc \in {"GetInfoForGenerateTorrents", "GetTorrentsForDownload"})
                 >= IF MayTear(d)' THEN 2 ELSE 1
        BY <1>2, <1>3, <1>7, <1>8, <2>1, <2>2 DEF KeptAt, SameTokens, One
    <2> QED
        BY <1>2, <1>3, <1>5, <1>7, <2>1, <2>3 DEF KeptAt, SameTokens
<1> QED
    BY <1>1, <1>2, <1>3, <1>13, <1>14, <1>15, <1>16, <1>17 DEF QuietStep

LEMMA RestartQuiet ==
    ASSUME ShapeInv, Rest, NEW d \in Daemons, Restart(d), orphans' = orphans
    PROVE  Rest'
<1>0. TypeOK /\ Shape(d) /\ ListedAt(d) /\ TokensAreNumbers
    BY RestAt
<1>1. /\ TypeOK' /\ Alone(d) /\ UNCHANGED serverVars
      /\ call'[d].rpc = "none" /\ call'[d].at = "none" /\ call'[d].list = <<>>
      /\ restarts' > 0 /\ lost' = TRUE
      /\ line'[d] = <<"MAKE_HANDSHAKE">> /\ deffered'[d] = {}
      /\ torrents'[d] = [t \in Torrents |-> "NONE"]
    BY <1>0, RestartStep, NoCallType
<1>2. /\ isFirst' = isFirst /\ torrentDeque' = torrentDeque /\ made' = made
      /\ tasks' = tasks /\ t2DownloadMap' = t2DownloadMap /\ t2UpdateMap' = t2UpdateMap
    BY <1>1 DEF serverVars
<1>3. TokensAreNumbers'
    BY <1>1, TypedTokensNext
<1>4. Gens(d)' <= Gens(d) /\ Gens(d)' = Count(GEN, tasks[d])
    <2>1. "MAKE_HANDSHAKE" \in Types /\ "MAKE_HANDSHAKE" # GEN
        BY DEF Types, DefferedTypes, GEN
    <2>2. Count(GEN, line'[d]) = 0
        BY <1>1, <2>1, CountSingle DEF One
    <2>3. Count(GEN, Answer(d)') = 0
        BY <1>1, CountEmpty DEF Answer
    <2>4. /\ Count(GEN, line[d]) \in Nat /\ Count(GEN, tasks[d]) \in Nat
          /\ Count(GEN, Answer(d)) \in Nat
        BY <1>0, LinesCount
    <2>5. Gens(d)' = Count(GEN, tasks[d])
        BY <1>1, <1>2, <2>2, <2>3, <2>4 DEF Gens, InLines, One
    <2> QED
        BY <2>4, <2>5 DEF Gens, InLines, One
<1>5. ~Answered(d)' /\ (Answered(d) => Gens(d)' = 0)
    <2>1. ASSUME Answered(d) PROVE Gens(d)' = 0
        <3>1. Gens(d) <= 1
            BY DEF Rest, AskedOnce
        <3>2. Gens(d) = InLines(GEN, d) + 1
            BY <2>1 DEF Gens, Answered, One
        <3>3. /\ Count(GEN, line[d]) \in Nat /\ Count(GEN, tasks[d]) \in Nat
              /\ Count(GEN, Answer(d)) \in Nat
            BY <1>0, LinesCount
        <3>4. Count(GEN, tasks[d]) = 0
            BY <3>1, <3>2, <3>3 DEF InLines
        <3> QED
            BY <1>4, <3>4
    <2> QED
        BY <1>1, <2>1 DEF Answered
<1>6. ~Generator(d)' /\ ~Fresh(d)'
    BY <1>1, <1>5 DEF Generator, Fresh
<1>7. GensAt(d)
    BY <1>1, <1>4, <1>5 DEF GensAt
<1>8. DownloadsAt(d)
    BY <1>1, <1>2, <1>6 DEF DownloadsAt
<1>9. \A e \in Daemons : GensAt(e) /\ DownloadsAt(e)
    BY <1>0, <1>1, <1>7, <1>8, AloneQuiet
<1>10. QuietGens /\ QuietDownloads
    BY <1>2, <1>9 DEF QuietGens, QuietDownloads
<1>11. AskedOnce' /\ PassedOnce'
    BY <1>0, <1>3, <1>10, QuietAsked, QuietPassed DEF Rest
<1>12. Bounded' /\ Kept'
    <2>1. restarts' # 0
        BY <1>1
    <2> QED
        BY <1>1, <2>1 DEF Bounded, Kept
<1>13. ListedAt(d)'
    <2>1. 1 \in Torrents => torrents'[d][1] = "NONE"
        BY <1>1
    <2> QED
        BY <1>1, <1>2, <2>1 DEF ListedAt
<1>14. \A e \in Daemons : ListedAt(e)'
    BY <1>1, <1>13, AloneKept DEF Rest, Listed, ListedAt
<1> QED
    BY <1>11, <1>12, <1>14 DEF Rest, Listed, ListedAt

LEMMA CountOneMore ==
    ASSUME NEW s \in Seq(Types), NEW ty \in Types, NEW k
    PROVE  Count(k, s \o <<ty>>) = Count(k, s) + One(ty = k)
<1>1. Count(k, <<ty>>) = One(ty = k) /\ <<ty>> \in Seq(Types)
    BY CountSingle
<1>2. Count(k, s \o <<ty>>) = Count(k, s) + Count(k, <<ty>>)
    BY <1>1, CountConcat
<1> QED
    BY <1>1, <1>2

\* One task more at the server.
LEMMA TaskAdded ==
    ASSUME TypeOK, NEW d \in Daemons, NEW ty \in Types, NEW k, tasks'[d] = tasks[d] \o <<ty>>,
           line'[d] = line[d], call'[d].rpc = call[d].rpc, call[d].rpc # "GetTaskList"
    PROVE  InLines(k, d)' = InLines(k, d) + One(ty = k) /\ Answer(d)' = <<>>
<1>1. Answer(d) = <<>> /\ Answer(d)' = <<>>
    BY DEF Answer
<1>2. tasks[d] \in Seq(Types)
    BY LinesType
<1>3. Count(k, tasks'[d]) = Count(k, tasks[d]) + One(ty = k)
    BY <1>2, CountOneMore
<1>4. Count(k, line[d]) \in Nat /\ Count(k, tasks[d]) \in Nat /\ Count(k, <<>>) = 0
    BY LinesCount, CountEmpty
<1>5. One(ty = k) \in Nat
    BY DEF One
<1>6. InLines(k, d)' = Count(k, tasks'[d]) + 0 + Count(k, line[d])
    BY <1>1, <1>4 DEF InLines
<1>7. InLines(k, d) = Count(k, tasks[d]) + 0 + Count(k, line[d])
    BY <1>1, <1>4 DEF InLines
<1> QED
    BY <1>1, <1>3, <1>4, <1>5, <1>6, <1>7

LEMMA TaskTypes == GEN \in Types /\ UPD \in Types /\ DOWN \in Types /\ UPD # GEN /\ DOWN # GEN /\ DOWN # UPD
    BY DEF Types, ServerTasks, GEN, UPD, DOWN

LEMMA ReportOnDownloadsQuiet ==
    ASSUME ShapeInv, Rest, NEW d \in Daemons, ReportOnDownloads(d, d)
    PROVE  QuietStep(d)
<1>0. TypeOK /\ Shape(d) /\ ListedAt(d) /\ (~lost => KeptAt(d)) /\ TokensAreNumbers
    BY RestAt
<1>1. /\ TypeOK' /\ Alone(d) /\ UNCHANGED others
      /\ UNCHANGED <<uuids, isFirst, torrentDeque, t2DownloadMap, t2UpdateMap, made>>
      /\ call[d].at = "task" /\ tasks'[d] = tasks[d] \o <<UPD>>
      /\ CallNow(d, "replied", call[d].list)
    BY <1>0, ReportOnDownloadsStep
<1>2. /\ line' = line /\ deffered' = deffered /\ reports' = reports /\ torrents' = torrents
      /\ lost' = lost /\ orphans' = orphans /\ restarts' = restarts
    BY <1>1, OthersStep
<1>3. /\ call[d].rpc = "GetTorrentsForDownload" /\ call'[d].rpc = "GetTorrentsForDownload"
      /\ call'[d].at = "replied" /\ call'[d].list = call[d].list
    BY <1>0, <1>1 DEF Shape, CallShape, CallNow
<1>4. \A k : InLines(k, d)' = InLines(k, d) + One(UPD = k) /\ Answer(d)' = <<>>
    <2>1. TypeOK /\ TypeOK' /\ line'[d] = line[d] /\ tasks'[d] = tasks[d] \o <<UPD>>
        BY <1>0, <1>1, <1>2
    <2>2. Answer(d) = <<>> /\ Answer(d)' = <<>> /\ UPD \in Types
        BY <1>3, TaskTypes DEF Answer
    <2> QED
        BY <1>3, <2>1, <2>2, TaskAdded, TaskTypes
<1>5. One(UPD = GEN) = 0 /\ One(UPD = DOWN) = 0 /\ One(UPD = UPD) = 1
    BY TaskTypes DEF One
<1>6. InLines(GEN, d) \in Nat /\ InLines(UPD, d) \in Nat /\ InLines(DOWN, d) \in Nat
    BY <1>0 DEF TokensAreNumbers
<1>7. InLines(GEN, d)' = InLines(GEN, d) /\ InLines(UPD, d)' = InLines(UPD, d) + 1
      /\ InLines(DOWN, d)' = InLines(DOWN, d)
    BY <1>4, <1>5, <1>6
<1>8. Gens(d)' = Gens(d) /\ Downs(d)' = Downs(d) /\ Owed(d) = 2 /\ Owed(d)' = 1
    BY <1>1, <1>3, <1>7 DEF Gens, Downs, Owed
<1>9. Ups(d)' = Ups(d) + 1
    <2>1. Reporting(d)' = Reporting(d)
        BY <1>2, <1>3 DEF Reporting
    <2> QED
        BY <1>2, <1>3, <1>6, <1>7, <2>1 DEF Ups, One
<1>10. Gens(d) \in Nat /\ Ups(d) \in Nat /\ Downs(d) \in Nat
    BY <1>0 DEF TokensAreNumbers
<1>11. Weight(d)' <= Weight(d)
    BY <1>8, <1>9, <1>10 DEF Weight
<1>12. ~Answered(d) /\ ~Answered(d)' /\ (MayTear(d)' <=> MayTear(d))
    BY <1>1, <1>2, <1>3 DEF Answered, MayTear
<1>13. Generator(d)' = Generator(d) /\ Fresh(d)' = Fresh(d)
    BY <1>1, <1>2, <1>12 DEF Generator, Fresh
<1>14. GensAt(d)
    BY <1>2, <1>8, <1>10, <1>12 DEF GensAt
<1>15. DownloadsAt(d)
    BY <1>1, <1>3, <1>13 DEF DownloadsAt
<1>16. WeightsAt(d)
    BY <1>8, <1>11, <1>13 DEF WeightsAt
<1>17. ListedAt(d)'
    BY <1>0, <1>1, <1>2, <1>3 DEF ListedAt
<1>18. ASSUME ~lost' PROVE KeptAt(d)'
    <2>1. KeptAt(d)
        BY <1>0, <1>2, <1>18
    <2>2. Followed(tasks[d])'
        BY <1>0, <1>1, <2>1, FollowedOne, TaskTypes DEF KeptAt, TokensAreNumbers
    <2>3. 1 \in t2UpdateMap'[d] => Ups(d)' + 1 >= IF MayTear(d)' THEN 2 ELSE 1
        BY <1>9, <1>10
    <2>4. Followed(Answer(d))'
        BY <1>4, FollowedEmpty
    <2> QED
        BY <1>1, <1>2, <1>3, <1>8, <2>1, <2>2, <2>3, <2>4 DEF KeptAt, One
<1> QED
    BY <1>1, <1>2, <1>14, <1>15, <1>16, <1>17, <1>18 DEF QuietStep

LEMMA GetForDownloadQuiet ==
    ASSUME ShapeInv, Rest, NEW d \in Daemons, GetTorrentsForDownload(d, d)
    PROVE  QuietStep(d)
<1>0. TypeOK /\ Shape(d) /\ ListedAt(d) /\ (~lost => KeptAt(d)) /\ TokensAreNumbers
    BY RestAt
<1>1. /\ TypeOK' /\ Alone(d) /\ UNCHANGED others
      /\ UNCHANGED <<uuids, isFirst, torrentDeque, tasks, made>>
      /\ call[d].rpc = "GetTorrentsForDownload" /\ call[d].at = "called"
      /\ t2UpdateMap'[d] = t2UpdateMap[d] \cup t2DownloadMap[d] /\ t2DownloadMap'[d] = {}
      /\ \/ t2DownloadMap[d] = {} /\ CallNow(d, "replied", <<>>)
         \/ t2DownloadMap[d] = {1} /\ CallNow(d, "task", << 1 >>)
    BY <1>0, KnownTorrents, GetForDownloadStep
<1>2. /\ line' = line /\ deffered' = deffered /\ reports' = reports /\ torrents' = torrents
      /\ lost' = lost /\ orphans' = orphans /\ restarts' = restarts
    BY <1>1, OthersStep
<1>3. /\ call'[d].rpc = "GetTorrentsForDownload"
      /\ \/ t2DownloadMap[d] = {} /\ call'[d].at = "replied" /\ call'[d].list = <<>>
         \/ t2DownloadMap[d] = {1} /\ call'[d].at = "task"
    BY <1>1 DEF CallNow
<1>4. Answer(d) = <<>> /\ Answer(d)' = <<>>
    BY <1>1, <1>3 DEF Answer
<1>5. \A k : InLines(k, d)' = InLines(k, d)
    BY <1>1, <1>2, <1>4 DEF InLines
<1>6. InLines(GEN, d) \in Nat /\ InLines(UPD, d) \in Nat /\ InLines(DOWN, d) \in Nat
    BY <1>0 DEF TokensAreNumbers
<1>7. Gens(d)' = Gens(d) /\ Downs(d)' = Downs(d) - 1 /\ Owed(d) = 0 /\ Owed(d)' <= 2 /\ Owed(d)' \in Nat
    BY <1>1, <1>3, <1>5, <1>6 DEF Gens, Downs, Owed, One
<1>8. Ups(d)' = Ups(d)
    <2>1. Reporting(d)' = Reporting(d)
        BY <1>1, <1>2, <1>3 DEF Reporting
    <2> QED
        BY <1>1, <1>2, <1>3, <1>5, <2>1 DEF Ups
<1>9. Gens(d) \in Nat /\ Ups(d) \in Nat /\ Downs(d) \in Nat
    BY <1>0 DEF TokensAreNumbers
<1>10. Weight(d)' <= Weight(d)
    BY <1>7, <1>8, <1>9 DEF Weight
<1>11. ~Answered(d) /\ ~Answered(d)' /\ (MayTear(d)' <=> MayTear(d))
    BY <1>1, <1>2, <1>3 DEF Answered, MayTear
<1>12. Generator(d)' = Generator(d)
    BY <1>2, <1>11 DEF Generator
<1>13. Generator(d) => t2DownloadMap[d] = {}
    BY DEF Rest, PassedOnce
<1>14. Fresh(d)' <=> Fresh(d)
    BY <1>1, <1>12, <1>13 DEF Fresh
<1>15. GensAt(d)
    BY <1>2, <1>7, <1>9, <1>11 DEF GensAt
<1>16. DownloadsAt(d)
    BY <1>1, <1>3, <1>12, <1>14 DEF DownloadsAt
<1>17. WeightsAt(d)
    BY <1>7, <1>10, <1>12, <1>14 DEF WeightsAt
<1>18. ListedAt(d)'
    BY <1>0, <1>1, <1>2, <1>3 DEF ListedAt
<1>19. ASSUME ~lost' PROVE KeptAt(d)'
    <2>1. KeptAt(d)
        BY <1>0, <1>2, <1>19
    <2>2. CASE 1 \in t2UpdateMap[d]
        <3>1. Ups(d) + 1 >= IF MayTear(d) THEN 2 ELSE 1
            BY <1>1, <2>1, <2>2 DEF KeptAt, One
        <3>2. Ups(d)' + 1 >= IF MayTear(d)' THEN 2 ELSE 1
            BY <1>8, <1>11, <3>1
        <3> QED
            BY <1>1, <1>2, <1>3, <1>4, <2>1, <3>2 DEF KeptAt, One
    <2>3. CASE 1 \notin t2UpdateMap[d]
        <3>1. 1 \in t2UpdateMap'[d] => t2DownloadMap[d] # {} /\ 1 \in Torrents
            BY <1>1, <2>3, KnownTorrents
        <3>2. 1 \in t2UpdateMap'[d] => ~MayTear(d)
            BY <1>1, <1>11, <1>13, <3>1 DEF MayTear, Generator
        <3>3. Ups(d)' + 1 >= 1
            BY <1>8, <1>9
        <3>4. 1 \in t2UpdateMap'[d] => Ups(d)' + 1 >= IF MayTear(d)' THEN 2 ELSE 1
            BY <1>11, <3>2, <3>3
        <3> QED
            BY <1>1, <1>2, <1>3, <1>4, <2>1, <3>4 DEF KeptAt, One
    <2> QED
        BY <2>2, <2>3
<1> QED
    BY <1>1, <1>2, <1>15, <1>16, <1>17, <1>18, <1>19 DEF QuietStep

\* A daemon with its answer.
Answering(d, ok, got) ==
    /\ ok \in BOOLEAN /\ GotOK(d, got) /\ call[d].at \in {"called", "replied"}
    /\ call[d].rpc = "GetTaskList" => \A ty : Count(ty, got) <= Count(ty, call[d].list)
    /\ got # <<>> => call[d].at = "replied"
    /\ call[d].rpc \in {"GetInfoForGenerateTorrents", "GetTorrentsForUpdateStatus",
                        "GetTorrentsForDownload"} /\ got # <<>> => got = call[d].list
    /\ ~lost' => ~lost
    /\ ~lost' /\ call[d].rpc # "Handshake" => call[d].at = "replied" /\ got = call[d].list
    /\ TypeOK' /\ Alone(d) /\ call'[d].rpc = "none" /\ call'[d].at = "none" /\ call'[d].list = <<>>
    /\ isFirst' = isFirst /\ torrentDeque' = torrentDeque /\ made' = made /\ tasks' = tasks
    /\ t2DownloadMap' = t2DownloadMap /\ t2UpdateMap' = t2UpdateMap /\ restarts' = restarts
    /\ Answer(d)' = <<>> /\ ~Answered(d)'
    /\ reports'[d] = IF call[d].rpc = "GetTorrentsForUpdateStatus" THEN got ELSE reports[d]

LEMMA IsAnswering ==
    ASSUME ShapeInv, NEW d \in Daemons, Receive(d) \/ Break(d)
    PROVE  \E ok \in BOOLEAN : \E got : Answering(d, ok, got) /\ Ends(d, ok, got) /\ lost' \in BOOLEAN
<1>0. PICK ok \in BOOLEAN : \E got : Takes(d, ok, got)
    BY AnswerStep
<1>1. PICK got : Takes(d, ok, got)
    BY <1>0
<1> USE DEF Takes
<1>2. TypeOK
    BY DEF ShapeInv
<1>3. /\ TypeOK' /\ Alone(d) /\ UNCHANGED <<serverVars, restarts>> /\ call'[d] = NoCall
      /\ reports'[d] = IF call[d].rpc = "GetTorrentsForUpdateStatus" THEN got ELSE reports[d]
    BY <1>1, <1>2, ContinueStep
<1>4. call'[d].rpc = "none" /\ call'[d].at = "none" /\ call'[d].list = <<>>
    BY <1>3, NoCallType
<1>5. /\ isFirst' = isFirst /\ torrentDeque' = torrentDeque /\ made' = made /\ tasks' = tasks
      /\ t2DownloadMap' = t2DownloadMap /\ t2UpdateMap' = t2UpdateMap /\ restarts' = restarts
    BY <1>3 DEF serverVars
<1>6. Answer(d)' = <<>> /\ ~Answered(d)'
    BY <1>4 DEF Answer, Answered
<1>7. Answering(d, ok, got)
    BY <1>1, <1>3, <1>4, <1>5, <1>6 DEF Answering
<1> QED
    BY <1>1, <1>7

LEMMA AnswerHandshakeQuiet ==
    ASSUME ShapeInv, Rest, NEW d \in Daemons, NEW ok \in BOOLEAN, NEW got, Answering(d, ok, got),
           Ends(d, ok, got), lost' \in BOOLEAN, call[d].rpc = "Handshake"
    PROVE  QuietStep(d)
<1>0. TypeOK /\ Shape(d) /\ ListedAt(d) /\ (~lost => KeptAt(d)) /\ TokensAreNumbers
    BY RestAt
<1>1. /\ torrents'[d] = torrents[d] /\ reports'[d] = reports[d]
      /\ \/ line'[d] = line[d] \o <<"UPDATE_TASK_LIST">> /\ deffered'[d] = deffered[d]
         \/ line'[d] = line[d] /\ deffered'[d] = deffered[d] \cup {"MAKE_HANDSHAKE"}
    BY <1>0, ContinueStep DEF Answering
<1>2. UPD \in deffered'[d] <=> UPD \in deffered[d]
    BY <1>1 DEF UPD
<1>3. line[d] \in Seq(Types) /\ "UPDATE_TASK_LIST" \in Types
      /\ "UPDATE_TASK_LIST" \notin {GEN, UPD, DOWN}
    BY <1>0 DEF TokensAreNumbers, Types, DefferedTypes, GEN, UPD, DOWN
<1>4. ASSUME NEW k \in {GEN, UPD, DOWN} PROVE Count(k, line'[d]) = Count(k, line[d])
    <2>1. Count(k, line[d] \o <<"UPDATE_TASK_LIST">>) = Count(k, line[d]) + One("UPDATE_TASK_LIST" = k)
        BY <1>3, CountOneMore
    <2>2. One("UPDATE_TASK_LIST" = k) = 0
        BY <1>3 DEF One
    <2>3. Count(k, line[d]) \in Nat
        BY <1>0, LinesCount
    <2>4. Count(k, line[d] \o <<"UPDATE_TASK_LIST">>) = Count(k, line[d])
        BY <2>1, <2>2, <2>3
    <2> QED
        BY <1>1, <2>4
<1>5. Answer(d) = <<>> /\ Answer(d)' = <<>> /\ tasks'[d] = tasks[d]
    BY DEF Answer, Answering
<1>6. ASSUME NEW k \in {GEN, UPD, DOWN} PROVE InLines(k, d)' = InLines(k, d)
    BY <1>4, <1>5 DEF InLines
<1>7. SameTokens(d)
    <2>1. InLines(GEN, d)' = InLines(GEN, d) /\ InLines(UPD, d)' = InLines(UPD, d)
          /\ InLines(DOWN, d)' = InLines(DOWN, d)
        BY <1>6
    <2>2. Gens(d)' = Gens(d) /\ Downs(d)' = Downs(d) /\ Owed(d)' = Owed(d)
        BY <2>1 DEF Gens, Downs, Owed, Answering
    <2>3. Reporting(d)' = Reporting(d)
        BY <1>1 DEF Reporting, Answering
    <2>4. Ups(d)' = Ups(d)
        BY <1>2, <2>1, <2>3 DEF Ups, Answering
    <2> QED
        BY <2>2, <2>4 DEF SameTokens
<1>8. ~Answered(d) /\ ~Answered(d)' /\ (MayTear(d)' <=> MayTear(d))
    BY <1>1 DEF Answered, MayTear, Answering
<1>9. GensAt(d) /\ DownloadsAt(d) /\ WeightsAt(d)
    BY <1>0, <1>1, <1>2, <1>7, <1>8, SameQuiet DEF Answering
<1>10. ListedAt(d)'
    BY <1>0, <1>1 DEF ListedAt, Answering
<1>11. ASSUME ~lost' PROVE KeptAt(d)'
    <2>1. KeptAt(d)
        BY <1>0, <1>11 DEF Answering
    <2>2. Followed(line[d])'
        BY <1>1, <1>3, <2>1, FollowedOne DEF KeptAt
    <2>3. Followed(tasks[d])' /\ Followed(Answer(d))'
        BY <1>5, <2>1 DEF KeptAt
    <2> QED
        BY <1>7, <1>8, <2>1, <2>2, <2>3 DEF KeptAt, SameTokens, Answering
<1> QED
    BY <1>9, <1>10, <1>11 DEF QuietStep, Answering

LEMMA AnswerTaskListQuiet ==
    ASSUME ShapeInv, Rest, NEW d \in Daemons, NEW ok \in BOOLEAN, NEW got, Answering(d, ok, got),
           Ends(d, ok, got), lost' \in BOOLEAN, call[d].rpc = "GetTaskList"
    PROVE  QuietStep(d)
<1>0. TypeOK /\ Shape(d) /\ ListedAt(d) /\ (~lost => KeptAt(d)) /\ TokensAreNumbers
    BY RestAt
<1>1. /\ torrents'[d] = torrents[d] /\ reports'[d] = reports[d] /\ line'[d] = line[d] \o got
      /\ deffered'[d] = deffered[d] \cup {"UPDATE_TASK_LIST"}
    BY <1>0, ContinueStep DEF Answering
<1>2. UPD \in deffered'[d] <=> UPD \in deffered[d]
    BY <1>1 DEF UPD
<1>3. got \in Seq(ServerTasks) /\ ServerTasks \subseteq Types
    BY DEF Answering, GotOK, Types
<1>4. got \in Seq(Types) /\ line[d] \in Seq(Types)
    BY <1>0, <1>3, SeqMonotonic DEF TokensAreNumbers
<1>5. Answer(d) = call[d].list /\ Answer(d)' = <<>> /\ tasks'[d] = tasks[d]
    BY DEF Answer, Answering
<1>6. ASSUME NEW k
      PROVE  /\ InLines(k, d)' <= InLines(k, d)
             /\ got = call[d].list => InLines(k, d)' = InLines(k, d)
    <2>1. Count(k, line[d] \o got) = Count(k, line[d]) + Count(k, got)
        BY <1>4, CountConcat
    <2>2. /\ Count(k, tasks[d]) \in Nat /\ Count(k, Answer(d)) \in Nat /\ Count(k, line[d]) \in Nat
          /\ Count(k, got) \in Nat /\ Count(k, <<>>) = 0
        BY <1>0, <1>4, LinesCount, CountType, CountEmpty
    <2>3. Count(k, got) <= Count(k, Answer(d))
        BY <1>5 DEF Answering
    <2>4. InLines(k, d)' = Count(k, tasks[d]) + 0 + (Count(k, line[d]) + Count(k, got))
        BY <1>1, <1>5, <2>1, <2>2 DEF InLines
    <2>5. InLines(k, d) = Count(k, tasks[d]) + Count(k, Answer(d)) + Count(k, line[d])
        BY DEF InLines
    <2>6. InLines(k, d)' <= InLines(k, d)
        BY <2>2, <2>3, <2>4, <2>5
    <2>7. got = call[d].list => Count(k, got) = Count(k, Answer(d))
        BY <1>5
    <2>8. Count(k, got) = Count(k, Answer(d)) => InLines(k, d)' = InLines(k, d)
        BY <2>2, <2>4, <2>5
    <2> QED
        BY <2>6, <2>7, <2>8
<1>7. InLines(GEN, d)' <= InLines(GEN, d) /\ InLines(UPD, d)' <= InLines(UPD, d)
      /\ InLines(DOWN, d)' <= InLines(DOWN, d)
    BY <1>6
<1>8. TokensAreNumbers'
    BY TypedTokensNext DEF Answering
<1>9. /\ InLines(GEN, d) \in Nat /\ InLines(UPD, d) \in Nat /\ InLines(DOWN, d) \in Nat
      /\ InLines(GEN, d)' \in Nat /\ InLines(UPD, d)' \in Nat /\ InLines(DOWN, d)' \in Nat
    BY <1>0, <1>8 DEF TokensAreNumbers
<1>10. /\ Gens(d)' = InLines(GEN, d)' /\ Gens(d) = InLines(GEN, d)
       /\ Downs(d)' = InLines(DOWN, d)' /\ Downs(d) = InLines(DOWN, d)
       /\ Owed(d)' = 0 /\ Owed(d) = 0
    BY <1>9 DEF Gens, Downs, Owed, One, Answering
<1>11. \E x \in Nat : Ups(d)' = InLines(UPD, d)' + x /\ Ups(d) = InLines(UPD, d) + x
    <2>1. Reporting(d)' <=> Reporting(d)
        BY <1>1 DEF Reporting, Answering
    <2> DEFINE x == One(UPD \in deffered[d]) + One(Reporting(d))
    <2>2. x \in Nat /\ One(UPD \in deffered[d]) \in Nat /\ One(Reporting(d)) \in Nat
        BY DEF One
    <2>3. One(UPD \in deffered[d])' = One(UPD \in deffered[d])
        BY <1>2 DEF One
    <2>4. /\ One(call[d].rpc = "GetTorrentsForUpdateStatus" \/ Reporting(d)) = One(Reporting(d))
          /\ One(call[d].rpc = "GetTorrentsForUpdateStatus" \/ Reporting(d))' = One(Reporting(d))
        BY <2>1 DEF One, Answering
    <2>5. Ups(d)' = InLines(UPD, d)' + x /\ Ups(d) = InLines(UPD, d) + x
        BY <1>9, <2>2, <2>3, <2>4 DEF Ups
    <2> QED
        BY <2>2, <2>5
<1>12. Ups(d)' <= Ups(d) /\ Ups(d)' \in Nat /\ Ups(d) \in Nat
    BY <1>7, <1>9, <1>11
<1>13. Gens(d)' <= Gens(d) /\ Weight(d)' <= Weight(d)
    BY <1>7, <1>9, <1>10, <1>12 DEF Weight
<1>14. ~Answered(d) /\ ~Answered(d)' /\ (MayTear(d)' <=> MayTear(d))
    BY <1>1 DEF Answered, MayTear, Answering
<1>15. (Generator(d)' <=> Generator(d)) /\ (Fresh(d)' <=> Fresh(d))
    BY <1>1, <1>14 DEF Generator, Fresh, Answering
<1>16. GensAt(d)
    BY <1>2, <1>13, <1>14 DEF GensAt
<1>17. DownloadsAt(d)
    BY <1>15 DEF DownloadsAt, Answering
<1>18. WeightsAt(d)
    BY <1>9, <1>10, <1>7, <1>13, <1>15 DEF WeightsAt
<1>19. ListedAt(d)'
    BY <1>0, <1>1 DEF ListedAt, Answering
<1>20. ASSUME ~lost' PROVE KeptAt(d)'
    <2>1. KeptAt(d) /\ got = call[d].list
        BY <1>0, <1>20 DEF Answering
    <2>2. Followed(got)
        BY <1>5, <2>1 DEF KeptAt
    <2>3. Followed(line[d])'
        BY <1>1, <1>4, <2>1, <2>2, FollowedConcat DEF KeptAt
    <2>4. Followed(tasks[d])' /\ Followed(Answer(d))'
        BY <1>5, <2>1, FollowedEmpty DEF KeptAt
    <2>5. Downs(d)' = Downs(d) /\ Ups(d)' = Ups(d)
        BY <1>6, <1>10, <1>11, <2>1
    <2> QED
        BY <1>14, <2>1, <2>3, <2>4, <2>5 DEF KeptAt, Answering
<1> QED
    BY <1>16, <1>17, <1>18, <1>19, <1>20 DEF QuietStep, Answering

LEMMA AnswerInfoQuiet ==
    ASSUME ShapeInv, Rest, NEW d \in Daemons, NEW ok \in BOOLEAN, NEW got, Answering(d, ok, got),
           Ends(d, ok, got), lost' \in BOOLEAN, call[d].rpc = "GetInfoForGenerateTorrents"
    PROVE  QuietStep(d)
<1>0. TypeOK /\ Shape(d) /\ ListedAt(d) /\ (~lost => KeptAt(d)) /\ TokensAreNumbers
    BY RestAt
<1>1. /\ reports'[d] = reports[d] /\ line'[d] = line[d]
      /\ deffered'[d] = deffered[d] \cup {UPD}
      /\ got = <<>> => torrents'[d] = torrents[d]
      /\ got = << 1 >> => torrents'[d][1] = "GENERATING"
    BY <1>0, ContinueStep DEF Answering
<1>2. got = <<>> \/ (got = << 1 >> /\ 1 \in Torrents /\ Answered(d) /\ 1 \in t2UpdateMap[d])
    BY <1>0 DEF Answering, GotOK, Answered, Shape, CallShape
<1>3. Gens(d) \in Nat /\ Gens(d) <= 1 /\ Gens(d) > 0
    BY <1>0, AnsweredCounts DEF TokensAreNumbers, Rest, AskedOnce
<1>4. ~isFirst /\ (\A e \in Daemons : e # d => Gens(e) = 0) /\ UPD \notin deffered[d]
    <2>1. ~isFirst /\ UPD \notin deffered[d]
        BY <1>3 DEF Rest, AskedOnce
    <2>2. ASSUME NEW e \in Daemons, e # d PROVE Gens(e) = 0
        <3>1. ~(Gens(e) > 0) /\ Gens(e) \in Nat
            BY <1>0, <1>3, <2>2 DEF Rest, AskedOnce, TokensAreNumbers
        <3> QED
            BY <3>1
    <2> QED
        BY <2>1, <2>2
<1>5. Answer(d) = <<>> /\ Answer(d)' = <<>> /\ tasks'[d] = tasks[d]
    BY DEF Answer, Answering
<1>6. \A k : InLines(k, d)' = InLines(k, d)
    BY <1>1, <1>5 DEF InLines
<1>7. InLines(GEN, d) \in Nat /\ InLines(UPD, d) \in Nat /\ InLines(DOWN, d) \in Nat
    BY <1>0 DEF TokensAreNumbers
<1>8. Gens(d)' = Gens(d) - 1 /\ Downs(d)' = Downs(d) /\ Owed(d)' = 0 /\ Owed(d) = 0
    BY <1>6, <1>7 DEF Gens, Downs, Owed, One, Answering
<1>9. Ups(d)' = Ups(d) + 1
    <2>1. reports[d] = <<>>
        BY <1>0, NoCallType DEF Shape, ReportShape
    <2>2. ~Reporting(d) /\ ~Reporting(d)'
        BY <1>1, <2>1 DEF Reporting, Answering
    <2>3. UPD \in deffered'[d]
        BY <1>1
    <2> QED
        BY <1>4, <1>6, <1>7, <2>2, <2>3 DEF Ups, One, Answering
<1>10. Ups(d) \in Nat /\ Downs(d) \in Nat
    BY <1>0 DEF TokensAreNumbers
<1>11. Gens(d)' = 0 /\ Weight(d)' <= Weight(d)
    BY <1>3, <1>8, <1>9, <1>10 DEF Weight
<1>12. \A f \in Daemons : Gens(f)' = 0
    <2>1. \A f \in Daemons : f # d => Gens(f)' = Gens(f)
        BY AloneTokens DEF Answering
    <2> QED
        BY <1>4, <1>11, <2>1
<1>13. GensAt(d)
    <2>1. ~Answered(d)' /\ Gens(d)' <= Gens(d) /\ ~(Gens(d)' > 0)
        BY <1>3, <1>11 DEF Answering
    <2> QED
        BY <1>4, <1>12, <2>1 DEF GensAt
<1>14. Generator(d)' => Generator(d)
    BY <1>1, <1>2 DEF Generator, Answering
<1>15. Fresh(d)' => Fresh(d)
    BY <1>14 DEF Fresh, Answering
<1>16. DownloadsAt(d)
    BY <1>14, <1>15 DEF DownloadsAt, Answering
<1>17. torrentDeque # <<>> /\ Generator(d) => Generator(d)'
    <2>1. CASE Answered(d)
        <3>1. Fresh(d)
            BY <1>0, <2>1 DEF Answered, Fresh, Generator, Shape, CallShape
        <3> QED
            BY <3>1 DEF Rest, PassedOnce
    <2>2. CASE ~Answered(d)
        BY <1>1, <1>2, <2>2 DEF Generator
    <2> QED
        BY <2>1, <2>2
<1>18. WeightsAt(d)
    BY <1>3, <1>11, <1>17 DEF WeightsAt
<1>19. ListedAt(d)'
    BY <1>0, <1>1, <1>2 DEF ListedAt, Answering
<1>20. ASSUME ~lost' PROVE KeptAt(d)'
    <2>1. KeptAt(d) /\ Answered(d)
        BY <1>0, <1>20 DEF Answering, Answered
    <2>2. MayTear(d)
        BY <2>1 DEF MayTear
    <2>3. 1 \in t2UpdateMap[d] => Ups(d) + 1 >= 2
        BY <2>1, <2>2 DEF KeptAt, One
    <2>4. 1 \in t2UpdateMap'[d] => Ups(d)' + 0 >= IF MayTear(d)' THEN 2 ELSE 1
        BY <1>9, <1>10, <2>3 DEF Answering
    <2>5. Followed(tasks[d])' /\ Followed(Answer(d))' /\ Followed(line[d])'
        BY <1>1, <1>5, <2>1 DEF KeptAt
    <2> QED
        BY <1>8, <2>1, <2>4, <2>5 DEF KeptAt, One, Answering
<1> QED
    BY <1>13, <1>16, <1>18, <1>19, <1>20 DEF QuietStep, Answering

LEMMA AnswerForUpdateQuiet ==
    ASSUME ShapeInv, Rest, NEW d \in Daemons, NEW ok \in BOOLEAN, NEW got, Answering(d, ok, got),
           Ends(d, ok, got), lost' \in BOOLEAN,
           call[d].rpc \in {"GetTorrentsForUpdateStatus", "UpdateTorrentStatus"}
    PROVE  QuietStep(d)
<1>0. TypeOK /\ Shape(d) /\ ListedAt(d) /\ (~lost => KeptAt(d)) /\ TokensAreNumbers
    BY RestAt
<1>1. /\ line'[d] = line[d] /\ deffered'[d] = deffered[d] /\ torrents'[d] = torrents[d]
    BY <1>0, ContinueStep DEF Answering
<1>2. /\ reports[d] = <<>>
      /\ reports'[d] = IF call[d].rpc = "GetTorrentsForUpdateStatus" THEN got ELSE <<>>
    BY <1>0, NoCallType DEF Shape, ReportShape, Answering
<1>3. Answer(d) = <<>> /\ Answer(d)' = <<>> /\ tasks'[d] = tasks[d]
    BY DEF Answer, Answering
<1>4. \A k : InLines(k, d)' = InLines(k, d)
    BY <1>1, <1>3 DEF InLines
<1>5. InLines(UPD, d) \in Nat /\ Gens(d) \in Nat /\ Downs(d) \in Nat
    BY <1>0 DEF TokensAreNumbers
<1>6. Gens(d)' = Gens(d) /\ Downs(d)' = Downs(d) /\ Owed(d)' = 0 /\ Owed(d) = 0
    BY <1>4 DEF Gens, Downs, Owed, Answering
<1>7. Reporting(d)' => call[d].rpc = "GetTorrentsForUpdateStatus" \/ Reporting(d)
    BY <1>2 DEF Reporting, Answering
<1>8. Ups(d)' <= Ups(d) /\ Ups(d) \in Nat /\ Ups(d)' \in Nat
    BY <1>1, <1>4, <1>5, <1>7 DEF Ups, One, Answering
<1>9. Weight(d)' <= Weight(d) /\ Gens(d)' <= Gens(d)
    BY <1>5, <1>6, <1>8 DEF Weight
<1>10. ~Answered(d) /\ ~Answered(d)' /\ (MayTear(d)' => MayTear(d))
    BY <1>1 DEF Answered, MayTear, Answering
<1>11. (Generator(d)' <=> Generator(d)) /\ (Fresh(d)' <=> Fresh(d))
    BY <1>1, <1>10 DEF Generator, Fresh, Answering
<1>12. GensAt(d)
    BY <1>1, <1>9, <1>10 DEF GensAt
<1>13. DownloadsAt(d)
    BY <1>11 DEF DownloadsAt, Answering
<1>14. WeightsAt(d)
    BY <1>6, <1>9, <1>11 DEF WeightsAt
<1>15. ListedAt(d)'
    BY <1>0, <1>1 DEF ListedAt, Answering
<1>16. ASSUME ~lost' PROVE KeptAt(d)'
    <2>1. KeptAt(d) /\ call[d].at = "replied" /\ got = call[d].list
        BY <1>0, <1>16 DEF Answering
    <2>2. 1 \in t2UpdateMap[d] => Ups(d)' = Ups(d)
        <3>1. << 1 >> # <<>>
            OBVIOUS
        <3>2. 1 \in t2UpdateMap[d] /\ call[d].rpc = "GetTorrentsForUpdateStatus" => Reporting(d)'
            BY <1>0, <1>2, <2>1, <3>1 DEF Reporting, Shape, CallShape
        <3>3. call[d].rpc = "UpdateTorrentStatus" => ~Reporting(d) /\ ~Reporting(d)'
            BY <1>2, <2>1 DEF Reporting, Answering
        <3> QED
            BY <1>1, <1>4, <3>2, <3>3 DEF Ups, One, Answering
    <2>3. 1 \in t2UpdateMap[d] => Ups(d) >= IF MayTear(d) THEN 2 ELSE 1
        BY <1>8, <2>1 DEF KeptAt, One
    <2>4. 1 \in t2UpdateMap'[d] => Ups(d)' + 0 >= IF MayTear(d)' THEN 2 ELSE 1
        BY <1>8, <1>10, <2>2, <2>3 DEF Answering
    <2>5. Followed(tasks[d])' /\ Followed(Answer(d))' /\ Followed(line[d])'
        BY <1>1, <1>3, <2>1 DEF KeptAt
    <2> QED
        BY <1>6, <2>1, <2>4, <2>5 DEF KeptAt, One, Answering
<1> QED
    BY <1>12, <1>13, <1>14, <1>15, <1>16 DEF QuietStep, Answering

LEMMA AnswerForDownloadQuiet ==
    ASSUME ShapeInv, Rest, NEW d \in Daemons, NEW ok \in BOOLEAN, NEW got, Answering(d, ok, got),
           Ends(d, ok, got), lost' \in BOOLEAN, call[d].rpc = "GetTorrentsForDownload"
    PROVE  QuietStep(d)
<1>0. TypeOK /\ Shape(d) /\ ListedAt(d) /\ (~lost => KeptAt(d)) /\ TokensAreNumbers
    BY RestAt
<1>1. /\ reports'[d] = reports[d] /\ line'[d] = line[d] \o <<UPD>> /\ deffered'[d] = deffered[d]
      /\ got = <<>> => torrents'[d] = torrents[d]
      /\ got = << 1 >> => torrents'[d][1] = "DOWNLOADING"
    BY <1>0, ContinueStep DEF Answering
<1>2. got = <<>> \/ (got = << 1 >> /\ 1 \in Torrents /\ call[d].list # <<>>)
    <2>1. << 1 >> # <<>>
        OBVIOUS
    <2> QED
        BY <2>1 DEF Answering, GotOK
<1>3. Answer(d) = <<>> /\ Answer(d)' = <<>> /\ tasks'[d] = tasks[d]
    BY DEF Answer, Answering
<1>4. line[d] \in Seq(Types)
    BY <1>0 DEF TokensAreNumbers
<1>5. \A k : InLines(k, d)' = InLines(k, d) + One(UPD = k)
    <2> TAKE k
    <2>1. Count(k, line'[d]) = Count(k, line[d]) + One(UPD = k)
        BY <1>1, <1>4, CountOneMore, TaskTypes
    <2>2. Count(k, line[d]) \in Nat /\ Count(k, tasks[d]) \in Nat /\ Count(k, Answer(d)) \in Nat
          /\ One(UPD = k) \in Nat
        BY <1>0, LinesCount DEF One
    <2> QED
        BY <1>3, <2>1, <2>2 DEF InLines
<1>6. One(UPD = GEN) = 0 /\ One(UPD = DOWN) = 0 /\ One(UPD = UPD) = 1
    BY TaskTypes DEF One
<1>7. /\ InLines(GEN, d) \in Nat /\ InLines(UPD, d) \in Nat /\ InLines(DOWN, d) \in Nat
      /\ Gens(d) \in Nat /\ Ups(d) \in Nat /\ Downs(d) \in Nat
    BY <1>0 DEF TokensAreNumbers
<1>8. InLines(GEN, d)' = InLines(GEN, d) /\ InLines(UPD, d)' = InLines(UPD, d) + 1
      /\ InLines(DOWN, d)' = InLines(DOWN, d)
    BY <1>5, <1>6, <1>7
<1>9. Gens(d)' = Gens(d)
    BY <1>8 DEF Gens, Answering
<1>10. /\ Owed(d)' = 0
       /\ \/ call[d].at = "called" /\ Owed(d) = 0 /\ Downs(d)' = Downs(d) - 1
          \/ call[d].at = "replied" /\ Owed(d) = 1 /\ Downs(d)' = Downs(d)
    BY <1>7, <1>8 DEF Owed, Downs, One, Answering
<1>11. Ups(d)' = Ups(d) + 1
    <2>1. Reporting(d)' <=> Reporting(d)
        BY <1>1 DEF Reporting, Answering
    <2> QED
        BY <1>1, <1>7, <1>8, <2>1 DEF Ups, One, Answering
<1>12. Gens(d)' <= Gens(d) /\ Weight(d)' <= Weight(d)
    BY <1>7, <1>9, <1>10, <1>11 DEF Weight
<1>13. ~Answered(d) /\ ~Answered(d)'
    BY DEF Answered, Answering
<1>14. MayTear(d)' => MayTear(d)
    BY <1>1, <1>2, <1>13 DEF MayTear, Answering
<1>15. Generator(d)' => Generator(d)
    BY <1>1, <1>2, <1>13 DEF Generator
<1>16. Fresh(d)' => Fresh(d)
    BY <1>15 DEF Fresh, Answering
<1>17. Generator(d) => Generator(d)'
    <2>1. Generator(d) => call[d].list = <<>>
        BY DEF Rest, PassedOnce
    <2> QED
        BY <1>1, <1>2, <1>13, <2>1 DEF Generator
<1>18. GensAt(d)
    BY <1>1, <1>12, <1>13 DEF GensAt
<1>19. DownloadsAt(d)
    BY <1>15, <1>16 DEF DownloadsAt, Answering
<1>20. WeightsAt(d)
    BY <1>9, <1>12, <1>16, <1>17 DEF WeightsAt
<1>21. ListedAt(d)'
    BY <1>0, <1>1, <1>2 DEF ListedAt, Answering
<1>22. ASSUME ~lost' PROVE KeptAt(d)'
    <2>1. KeptAt(d) /\ call[d].at = "replied"
        BY <1>0, <1>22 DEF Answering
    <2>2. Downs(d)' = Downs(d)
        BY <1>10, <2>1
    <2>3. 1 \in t2UpdateMap[d] => Ups(d) + 1 >= IF MayTear(d) THEN 2 ELSE 1
        BY <2>1 DEF KeptAt, One
    <2>4. 1 \in t2UpdateMap'[d] => Ups(d)' + 0 >= IF MayTear(d)' THEN 2 ELSE 1
        BY <1>7, <1>11, <1>14, <2>3 DEF Answering
    <2>5. Followed(line[d])'
        BY <1>1, <1>4, <2>1, FollowedOne, TaskTypes DEF KeptAt
    <2>6. Followed(tasks[d])' /\ Followed(Answer(d))'
        BY <1>3, <2>1 DEF KeptAt
    <2> QED
        BY <2>1, <2>2, <2>4, <2>5, <2>6 DEF KeptAt, One, Answering
<1> QED
    BY <1>18, <1>19, <1>20, <1>21, <1>22 DEF QuietStep, Answering

LEMMA AnswerQuiet ==
    ASSUME ShapeInv, Rest, NEW d \in Daemons, Receive(d) \/ Break(d)
    PROVE  QuietStep(d)
<1>1. PICK ok, got :
          ok \in BOOLEAN /\ Answering(d, ok, got) /\ Ends(d, ok, got) /\ lost' \in BOOLEAN
    BY IsAnswering, Zenon
<1>2. call[d].rpc \in Rpcs
    BY <1>1 DEF Answering, GotOK
<1>3. CASE call[d].rpc = "Handshake"
    BY <1>1, <1>3, AnswerHandshakeQuiet
<1>4. CASE call[d].rpc = "GetTaskList"
    BY <1>1, <1>4, AnswerTaskListQuiet
<1>5. CASE call[d].rpc = "GetInfoForGenerateTorrents"
    BY <1>1, <1>5, AnswerInfoQuiet
<1>6. CASE call[d].rpc \in {"GetTorrentsForUpdateStatus", "UpdateTorrentStatus"}
    BY <1>1, <1>6, AnswerForUpdateQuiet
<1>7. CASE call[d].rpc = "GetTorrentsForDownload"
    BY <1>1, <1>7, AnswerForDownloadQuiet
<1> QED
    BY <1>2, <1>3, <1>4, <1>5, <1>6, <1>7 DEF Rpcs

(* The steps that add tasks, or that make a torrent known. *)

LEMMA RestFrom ==
    ASSUME Rest, NEW d \in Daemons, Alone(d), AskedOnce', PassedOnce', Bounded',
           ListedAt(d)', ~lost' => ~lost, ~lost' => KeptAt(d)'
    PROVE  Rest'
<1>1. \A e \in Daemons : ListedAt(e)'
    BY AloneKept DEF Rest, Listed, ListedAt
<1>2. ~lost' => \A e \in Daemons : KeptAt(e)'
    <2>1. ~lost => \A e \in Daemons : KeptAt(e)
        BY DEF Rest, Kept, KeptAt
    <2> QED
        BY <2>1, AloneKept
<1>3. Listed' /\ Kept'
    BY <1>1, <1>2 DEF Listed, ListedAt, Kept, KeptAt
<1> QED
    BY <1>3 DEF Rest

LEMMA HandshakeNextQuiet ==
    ASSUME ShapeInv, Rest, NEW d \in Daemons, Handshake(d, d), ~isFirst
    PROVE  QuietStep(d)
<1>0. TypeOK /\ Shape(d) /\ ListedAt(d) /\ (~lost => KeptAt(d)) /\ TokensAreNumbers
    BY RestAt
<1>1. /\ TypeOK' /\ Alone(d) /\ UNCHANGED others
      /\ UNCHANGED <<torrentDeque, t2DownloadMap, t2UpdateMap, made>>
      /\ call[d].rpc = "Handshake" /\ call[d].at = "called" /\ isFirst' = FALSE
      /\ tasks' = tasks /\ CallNow(d, "give", <<d>>)
    BY <1>0, HandshakeStep
<1>2. /\ line' = line /\ deffered' = deffered /\ reports' = reports /\ torrents' = torrents
      /\ lost' = lost /\ orphans' = orphans /\ restarts' = restarts
    BY <1>1, OthersStep
<1>3. call'[d].rpc = "Handshake" /\ call'[d].at = "give" /\ call'[d].list = <<d>>
    BY <1>1 DEF CallNow
<1>4. Answer(d)' = Answer(d)
    BY <1>1, <1>3 DEF Answer
<1>5. \A k : InLines(k, d)' = InLines(k, d)
    BY <1>1, <1>2, <1>4 DEF InLines
<1>6. SameTokens(d)
    BY <1>1, <1>3, <1>5, ServedTokens
<1>7. ~Answered(d) /\ ~Answered(d)' /\ (MayTear(d)' <=> MayTear(d))
    BY <1>1, <1>2, <1>3 DEF Answered, MayTear
<1>8. ~Generator(d)
    <2>1. torrents[d] = [t \in Torrents |-> "NONE"]
        BY <1>0, <1>1 DEF Shape, ShakesAlone, Shaking
    <2> QED
        BY <1>7, <2>1 DEF Generator
<1>9. (Generator(d)' <=> Generator(d)) /\ (Fresh(d)' <=> Fresh(d))
    BY <1>1, <1>2, <1>7 DEF Generator, Fresh
<1>10. Gens(d)' = Gens(d) /\ Gens(d)' <= Gens(d) /\ Weight(d)' <= Weight(d)
    BY <1>0, <1>6, SameWeight DEF SameTokens
<1>11. GensAt(d)
    BY <1>2, <1>7, <1>10 DEF GensAt
<1>12. DownloadsAt(d)
    <2>1. \A i \in DOMAIN <<d>> : <<d>>[i] = d
        OBVIOUS
    <2> QED
        BY <1>1, <1>3, <1>8, <1>9, <2>1 DEF DownloadsAt
<1>13. WeightsAt(d)
    BY <1>9, <1>10 DEF WeightsAt
<1>14. ListedAt(d)'
    BY <1>0, <1>1, <1>2, <1>3 DEF ListedAt
<1>15. ~lost' => KeptAt(d)'
    BY <1>0, <1>1, <1>2, <1>3, <1>4, <1>6, <1>7 DEF KeptAt, SameTokens
<1>16. isFirst' = isFirst
    BY <1>0, <1>1 DEF TypeOK
<1> QED
    BY <1>1, <1>2, <1>11, <1>12, <1>13, <1>14, <1>15, <1>16 DEF QuietStep

LEMMA HandshakeFirst ==
    ASSUME ShapeInv, Rest, NEW d \in Daemons, Handshake(d, d), isFirst
    PROVE  Rest'
<1>0. TypeOK /\ Shape(d) /\ ListedAt(d) /\ (~lost => KeptAt(d)) /\ TokensAreNumbers
    BY RestAt
<1>1. /\ TypeOK' /\ Alone(d) /\ UNCHANGED others
      /\ UNCHANGED <<torrentDeque, t2DownloadMap, t2UpdateMap, made>>
      /\ call[d].rpc = "Handshake" /\ call[d].at = "called" /\ isFirst' = FALSE
      /\ tasks'[d] = tasks[d] \o <<GEN, UPD>> /\ CallNow(d, "replied", <<>>)
    BY <1>0, HandshakeStep
<1>2. /\ line' = line /\ deffered' = deffered /\ reports' = reports /\ torrents' = torrents
      /\ lost' = lost /\ orphans' = orphans /\ restarts' = restarts
    BY <1>1, OthersStep
<1>3. call'[d].rpc = "Handshake" /\ call'[d].at = "replied" /\ call'[d].list = <<>>
    BY <1>1 DEF CallNow
<1>4. Answer(d) = <<>> /\ Answer(d)' = <<>>
    BY <1>1, <1>3 DEF Answer
<1>5. tasks[d] \in Seq(Types) /\ TokensAreNumbers'
    BY <1>0, <1>1, TypedTokensNext DEF TokensAreNumbers
<1>6. <<GEN, UPD>> \in Seq(Types) /\ <<GEN, UPD>> = <<GEN>> \o <<UPD>> /\ <<GEN>> \in Seq(Types)
    <2>1. ASSUME NEW x \in Types, NEW y \in Types
          PROVE  <<x, y>> \in Seq(Types) /\ <<x>> \in Seq(Types) /\ <<x, y>> = <<x>> \o <<y>>
        <3> DEFINE s == <<x, y>>
                   t == <<x>> \o <<y>>
        <3>1. s \in Seq(Types) /\ Len(s) = 2 /\ s[1] = x /\ s[2] = y
            OBVIOUS
        <3>2. /\ <<x>> \in Seq(Types) /\ <<y>> \in Seq(Types) /\ Len(<<x>>) = 1 /\ Len(<<y>>) = 1
              /\ <<x>>[1] = x /\ <<y>>[1] = y
            OBVIOUS
        <3>3. t \in Seq(Types) /\ Len(t) = 2 /\ t[1] = x /\ t[2] = y
            BY <3>2, ConcatProperties
        <3> HIDE DEF s, t
        <3>4. \A i \in 1..Len(s) : s[i] = t[i]
            BY <3>1, <3>3
        <3>5. s = t
            BY <3>1, <3>3, <3>4, SeqEqual
        <3> QED
            BY <3>1, <3>2, <3>5 DEF s, t
    <2> QED
        BY <2>1, TaskTypes
<1>7. \A k : InLines(k, d)' = InLines(k, d) + One(GEN = k) + One(UPD = k)
    <2> TAKE k
    <2>1. Count(k, <<GEN>> \o <<UPD>>) = Count(k, <<GEN>>) + One(UPD = k)
        BY <1>6, CountOneMore, TaskTypes
    <2>2. Count(k, <<GEN>>) = One(GEN = k)
        BY CountSingle, TaskTypes
    <2>3. Count(k, tasks[d] \o <<GEN, UPD>>) = Count(k, tasks[d]) + Count(k, <<GEN, UPD>>)
        BY <1>5, <1>6, CountConcat
    <2>4. Count(k, <<GEN, UPD>>) = One(GEN = k) + One(UPD = k)
        BY <1>6, <2>1, <2>2
    <2>5. /\ Count(k, line[d]) \in Nat /\ Count(k, tasks[d]) \in Nat /\ Count(k, Answer(d)) \in Nat
          /\ One(GEN = k) \in Nat /\ One(UPD = k) \in Nat
        BY <1>0, LinesCount DEF One
    <2>6. InLines(k, d)' = (Count(k, tasks[d]) + (One(GEN = k) + One(UPD = k))) + Count(k, Answer(d))
                           + Count(k, line[d])
        BY <1>1, <1>2, <1>4, <2>3, <2>4 DEF InLines
    <2>7. InLines(k, d) = Count(k, tasks[d]) + Count(k, Answer(d)) + Count(k, line[d])
        BY DEF InLines
    <2> QED
        BY <2>5, <2>6, <2>7
<1>8. /\ One(GEN = GEN) = 1 /\ One(UPD = GEN) = 0 /\ One(GEN = UPD) = 0 /\ One(UPD = UPD) = 1
      /\ One(GEN = DOWN) = 0 /\ One(UPD = DOWN) = 0
    BY TaskTypes DEF One
<1>9. /\ InLines(GEN, d) \in Nat /\ InLines(UPD, d) \in Nat /\ InLines(DOWN, d) \in Nat
      /\ Gens(d) \in Nat /\ Ups(d) \in Nat /\ Downs(d) \in Nat /\ Owed(d) \in Nat
    BY <1>0 DEF TokensAreNumbers
<1>10. InLines(GEN, d)' = InLines(GEN, d) + 1 /\ InLines(UPD, d)' = InLines(UPD, d) + 1
       /\ InLines(DOWN, d)' = InLines(DOWN, d)
    BY <1>7, <1>8, <1>9
<1>11. Gens(d)' = Gens(d) + 1 /\ Downs(d)' = Downs(d) /\ Owed(d)' = Owed(d)
    BY <1>1, <1>3, <1>9, <1>10 DEF Gens, Downs, Owed, One
<1>12. Ups(d)' = Ups(d) + 1
    <2>1. Reporting(d)' <=> Reporting(d)
        BY <1>1, <1>2, <1>3 DEF Reporting
    <2> QED
        BY <1>1, <1>2, <1>3, <1>9, <1>10, <2>1 DEF Ups, One
<1>13. Weight(d)' = Weight(d) + 2
    BY <1>9, <1>11, <1>12 DEF Weight
<1>14. ~Answered(d) /\ ~Answered(d)' /\ (MayTear(d)' <=> MayTear(d))
    BY <1>1, <1>2, <1>3 DEF Answered, MayTear
<1>15. (Generator(d)' <=> Generator(d)) /\ (Fresh(d)' <=> Fresh(d))
    BY <1>1, <1>2, <1>14 DEF Generator, Fresh
<1>16. made = 0 /\ torrentDeque = <<>> /\ \A e \in Daemons : Gens(e) = 0 /\ ~Fresh(e) /\ ~Answered(e)
                                                             /\ UPD \notin deffered[e]
    <2>1. made = 0 /\ torrentDeque = <<>>
        BY DEF Rest, AskedOnce, ShapeInv
    <2>2. ASSUME NEW e \in Daemons PROVE 1 \notin t2UpdateMap[e]
        BY <2>1, KnownTorrents
    <2> QED
        BY <2>1, <2>2 DEF Rest, AskedOnce, Fresh
<1>17. AskedOnce'
    <2>1. \A e \in Daemons : e # d => Gens(e)' = 0 /\ ~Answered(e)'
        BY <1>1, <1>16, AloneTokens
    <2>2. Gens(d)' = 1 /\ ~Answered(d)'
        BY <1>11, <1>14, <1>16
    <2>3. \A e \in Daemons : UPD \notin deffered'[e]
        BY <1>2, <1>16
    <2>4. isFirst' = FALSE /\ made' = 0
        BY <1>1, <1>16
    <2>5. \A e \in Daemons : Gens(e)' <= 1
        BY <2>1, <2>2
    <2>6. \A e, f \in Daemons : Gens(e)' > 0 /\ Gens(f)' > 0 => e = f
        BY <2>1
    <2>7. \A e \in Daemons : ~Answered(e)' /\ ~(made' > 0)
        BY <2>1, <2>2, <2>4
    <2> QED
        BY <2>3, <2>4, <2>5, <2>6, <2>7 DEF AskedOnce
<1>18. PassedOnce'
    <2>1. DownloadsAt(d)
        BY <1>1, <1>3, <1>15 DEF DownloadsAt
    <2>2. QuietDownloads
        BY <1>0, <1>1, <2>1, AloneQuiet DEF QuietDownloads
    <2> QED
        BY <2>2, QuietPassed DEF Rest
<1>19. Bounded'
    <2> SUFFICES ASSUME restarts' = 0 PROVE Bounded'
        BY DEF Bounded
    <2>1. \A e \in Daemons : Weight(e) = 0
        BY <1>2 DEF Rest, Bounded
    <2>2. \A e \in Daemons : e # d => Weight(e)' = 0 /\ Gens(e)' = 0 /\ ~Fresh(e)'
        BY <1>1, <1>16, <2>1, AloneTokens
    <2>3. Weight(d)' = 2
        BY <1>13, <2>1
    <2>4. \A e \in Daemons : Weight(e)' <= 2
        BY <2>2, <2>3
    <2>5. torrentDeque' = <<>> /\ ~isFirst'
        BY <1>1, <1>16
    <2>6. \A e \in Daemons : Gens(e)' > 0 \/ Fresh(e)' => e = d
        BY <2>2
    <2> QED
        BY <2>2, <2>4, <2>5, <2>6 DEF Bounded
<1>20. ListedAt(d)'
    BY <1>0, <1>1, <1>2, <1>3 DEF ListedAt
<1>21. ASSUME ~lost' PROVE KeptAt(d)'
    <2>1. KeptAt(d)
        BY <1>0, <1>2, <1>21
    <2>2. Followed(<<GEN, UPD>>)
        BY TaskTypes DEF Followed
    <2>3. Followed(tasks[d])'
        BY <1>1, <1>5, <1>6, <2>1, <2>2, FollowedConcat DEF KeptAt
    <2>4. Followed(Answer(d))' /\ Followed(line[d])'
        BY <1>2, <1>4, <2>1 DEF KeptAt
    <2>5. 1 \notin t2UpdateMap'[d]
        BY <1>1, <1>16, KnownTorrents
    <2> QED
        BY <1>1, <1>3, <1>11, <2>1, <2>3, <2>4, <2>5 DEF KeptAt
<1> QED
    BY <1>1, <1>2, <1>17, <1>18, <1>19, <1>20, <1>21, RestFrom

\* Nobody has been asked before.
LEMMA NotYetMade ==
    ASSUME ShapeInv, Rest, NEW d \in Daemons, GetInfoForGenerateTorrents(d, d)
    PROVE  made = 0
<1>1. call[d].rpc = "GetInfoForGenerateTorrents" /\ call[d].at = "called"
    BY DEF GetInfoForGenerateTorrents, Called
<1>2. Gens(d) > 0 /\ ~Answered(d)
    BY <1>1, TypedTokens, AnsweredCounts DEF ShapeInv, Answered
<1>3. ~(made > 0) /\ made \in Nat
    BY <1>2, BoundsAssumption DEF Rest, AskedOnce, ShapeInv, TypeOK
<1> QED
    BY <1>3

LEMMA GetInfoRest ==
    ASSUME ShapeInv, Rest, NEW d \in Daemons, GetInfoForGenerateTorrents(d, d)
    PROVE  Rest'
<1>0. TypeOK /\ Shape(d) /\ ListedAt(d) /\ (~lost => KeptAt(d)) /\ TokensAreNumbers /\ made = 0
    BY RestAt, NotYetMade
<1>1. /\ TypeOK' /\ Alone(d) /\ UNCHANGED others
      /\ UNCHANGED <<uuids, isFirst, torrentDeque, tasks, t2DownloadMap>>
      /\ call[d].rpc = "GetInfoForGenerateTorrents" /\ call[d].at = "called"
      /\ made' = 1 /\ t2UpdateMap'[d] = t2UpdateMap[d] \cup {1}
      /\ CallNow(d, "replied", << 1 >>)
    BY <1>0, GetInfoStep
<1>2. /\ line' = line /\ deffered' = deffered /\ reports' = reports /\ torrents' = torrents
      /\ lost' = lost /\ orphans' = orphans /\ restarts' = restarts
    BY <1>1, OthersStep
<1>3. call'[d].rpc = "GetInfoForGenerateTorrents" /\ call'[d].at = "replied"
    BY <1>1 DEF CallNow
<1>4. Answer(d) = <<>> /\ Answer(d)' = <<>>
    BY <1>1, <1>3 DEF Answer
<1>5. \A k : InLines(k, d)' = InLines(k, d)
    BY <1>1, <1>2, <1>4 DEF InLines
<1>6. SameTokens(d)
    BY <1>1, <1>3, <1>5, ServedTokens
<1>7. Answered(d)' /\ Gens(d) > 0 /\ Gens(d)' = Gens(d)
    BY <1>0, <1>1, <1>3, <1>6, AnsweredCounts DEF Answered, SameTokens
<1>8. \A e \in Daemons : Gens(e)' = Gens(e)
    BY <1>1, <1>7, AloneTokens
<1>9. \A e \in Daemons : ~Answered(e) /\ ~Generator(e)
    <2> TAKE e \in Daemons
    <2>1. ~Answered(e)
        BY <1>0 DEF Rest, AskedOnce
    <2>2. OnlyOne(e) /\ TypeOK
        BY DEF ShapeInv
    <2>3. 1 \in Torrents => torrents[e][1] = "NONE"
        BY <1>0, <2>2 DEF OnlyOne
    <2> QED
        BY <2>1, <2>3 DEF Generator
<1>10. AskedOnce'
    <2>1. ~isFirst' /\ made' = 1
        BY <1>1, <1>7 DEF Rest, AskedOnce
    <2>2. \A e \in Daemons : Gens(e)' > 0 => e = d
        BY <1>7, <1>8 DEF Rest, AskedOnce
    <2>3. \A e \in Daemons : Gens(e)' <= 1
        BY <1>8 DEF Rest, AskedOnce
    <2>4. \A e \in Daemons : UPD \notin deffered'[e]
        <3>1. ~(Gens(d) = 0)
            BY <1>7
        <3> QED
            BY <1>2, <3>1 DEF Rest, AskedOnce
    <2> QED
        BY <1>7, <2>1, <2>2, <2>3, <2>4 DEF AskedOnce
<1>11. PassedOnce'
    <2>1. ASSUME NEW e \in Daemons
          PROVE  /\ t2DownloadMap'[e] = {} /\ call'[e].at # "task"
                 /\ call'[e].rpc = "GetTorrentsForDownload" => call'[e].list = <<>>
                 /\ call'[e].at = "give" => e # d /\ call'[e].list = <<e>>
        <3>1. OnlyOne(e) /\ CallShape(e)
            BY DEF ShapeInv
        <3>2. t2DownloadMap'[e] = {}
            BY <1>0, <1>1, <3>1 DEF OnlyOne
        <3>3. << 1 >> # <<>>
            OBVIOUS
        <3>4. CASE e = d
            BY <1>3, <3>2, <3>4
        <3>5. CASE e # d
            <4>1. call'[e] = call[e]
                BY <1>1, <3>5 DEF Alone
            <4>2. call[e].rpc = "GetTorrentsForDownload" => call[e].list = <<>>
                BY <1>0, <3>1 DEF OnlyOne
            <4>3. call[e].at # "task"
                BY <3>1, <3>3, <4>2 DEF CallShape
            <4>4. call[e].at = "give" => call[e].list = <<e>>
                BY <1>0, <3>1 DEF OnlyOne
            <4> QED
                BY <3>2, <3>5, <4>1, <4>2, <4>3, <4>4
        <3> QED
            BY <3>4, <3>5
    <2>2. \A e \in Daemons : Generator(e)' => e = d
        <3>1. \A e \in Daemons : e # d => Generator(e)' = Generator(e)
            BY <1>1, AloneTokens
        <3> QED
            BY <1>9, <3>1
    <2>3. torrentDeque' = <<>>
        BY <1>0, <1>1 DEF ShapeInv
    <2>4. NoDownloads'
        BY <2>1 DEF NoDownloads
    <2>5. ASSUME NEW e \in Daemons, call'[e].at = "give", NEW i \in DOMAIN call'[e].list
          PROVE  call'[e].list[i] # d
        <3>1. e # d /\ call'[e].list = <<e>>
            BY <2>1, <2>5
        <3>2. \A j \in DOMAIN <<e>> : <<e>>[j] = e
            OBVIOUS
        <3> QED
            BY <2>5, <3>1, <3>2
    <2>6. ASSUME NEW e \in Daemons, Generator(e)'
          PROVE  /\ t2DownloadMap'[e] = {} /\ call'[e].at # "task"
                 /\ call'[e].rpc = "GetTorrentsForDownload" => call'[e].list = <<>>
                 /\ \A f \in Daemons : call'[f].at = "give" =>
                       \A i \in DOMAIN call'[f].list : call'[f].list[i] # e
        BY <2>1, <2>2, <2>5, <2>6
    <2>7. \A e, f \in Daemons : Generator(e)' /\ Generator(f)' => e = f
        BY <2>2
    <2> QED
        BY <2>3, <2>4, <2>6, <2>7 DEF PassedOnce
<1>12. Bounded'
    <2>1. torrentDeque = <<>>
        BY <1>0 DEF ShapeInv
    <2>2. WeightsAt(d)
        BY <1>0, <1>6, <1>7, <2>1, SameWeight DEF WeightsAt
    <2>3. QuietWeights
        BY <1>0, <1>1, <1>2, <2>2, AloneQuiet DEF QuietWeights
    <2> QED
        BY <1>0, <1>1, <2>3, TypedTokensNext, QuietBounded DEF Rest
<1>13. ListedAt(d)'
    BY <1>0, <1>1, <1>2, <1>3 DEF ListedAt
<1>14. ASSUME ~lost' PROVE KeptAt(d)'
    <2>1. KeptAt(d)
        BY <1>0, <1>2, <1>14
    <2>2. Count(UPD, line[d]) >= 1
        BY <1>1, <2>1 DEF KeptAt
    <2>3. /\ Count(UPD, line[d]) \in Nat /\ Count(UPD, tasks[d]) \in Nat
          /\ Count(UPD, Answer(d)) \in Nat /\ Ups(d) \in Nat
        BY <1>0, LinesCount DEF TokensAreNumbers
    <2>4. InLines(UPD, d) >= 1 /\ InLines(UPD, d) \in Nat
        BY <2>2, <2>3 DEF InLines
    <2>5. Ups(d) >= 1
        BY <2>4 DEF Ups, One
    <2>6. Ups(d)' + 1 >= IF MayTear(d)' THEN 2 ELSE 1
        BY <1>6, <2>3, <2>5 DEF SameTokens
    <2>7. Followed(tasks[d])' /\ Followed(Answer(d))' /\ Followed(line[d])'
        BY <1>1, <1>2, <1>4, <2>1 DEF KeptAt
    <2> QED
        BY <1>1, <1>2, <1>3, <1>6, <2>1, <2>2, <2>6, <2>7 DEF KeptAt, One, SameTokens
<1> QED
    BY <1>1, <1>2, <1>10, <1>11, <1>12, <1>13, <1>14, RestFrom

LEMMA UpdateTorrentStatusRest ==
    ASSUME ShapeInv, Rest, NEW d \in Daemons, UpdateTorrentStatus(d, d)
    PROVE  Rest'
<1>0. TypeOK /\ Shape(d) /\ ListedAt(d) /\ (~lost => KeptAt(d)) /\ TokensAreNumbers
    BY RestAt
<1> DEFINE ends == call[d].info.status \in {"GENERATED", "DOWNLOADED"}
<1>1. /\ TypeOK' /\ Alone(d) /\ UNCHANGED others
      /\ UNCHANGED <<uuids, isFirst, t2DownloadMap, made>>
      /\ call[d].rpc = "UpdateTorrentStatus" /\ call[d].at = "called"
      /\ torrentDeque' = IF Passing(d) THEN Append(torrentDeque, 1) ELSE torrentDeque
      /\ t2UpdateMap'[d] = IF Passing(d) \/ call[d].info.status = "DOWNLOADED"
                           THEN t2UpdateMap[d] \ {1} ELSE t2UpdateMap[d]
      /\ ends => tasks' = tasks
      /\ ~ends => tasks'[d] = tasks[d] \o <<UPD>>
      /\ \/ CallNow(d, "replied", <<>>)
         \/ /\ Passing(d)
            /\ \E to \in Seq(Daemons) : CallNow(d, "give", to) /\ \A i \in DOMAIN to : to[i] # d
    BY UpdateTorrentStatusStep
<1>2. /\ line' = line /\ deffered' = deffered /\ reports' = reports /\ torrents' = torrents
      /\ lost' = lost /\ orphans' = orphans /\ restarts' = restarts
    BY <1>1, OthersStep
<1>3. /\ call'[d].rpc = "UpdateTorrentStatus" /\ call'[d].at \in {"replied", "give"}
      /\ call'[d].at = "give" => /\ Passing(d) /\ call'[d].list \in Seq(Daemons)
                                 /\ \A i \in DOMAIN call'[d].list : call'[d].list[i] # d
    BY <1>1 DEF CallNow
<1>4. Answer(d) = <<>> /\ Answer(d)' = <<>>
    BY <1>1, <1>3 DEF Answer
<1>5. \A k : InLines(k, d)' = InLines(k, d) + (IF ends THEN 0 ELSE One(UPD = k))
    <2> TAKE k
    <2>1. CASE ends
        <3>1. InLines(k, d)' = InLines(k, d) /\ InLines(k, d) \in Nat
            BY <1>0, <1>1, <1>2, <1>4, <2>1, LinesCount DEF InLines
        <3> QED
            BY <2>1, <3>1
    <2>2. CASE ~ends
        <3>1. InLines(k, d)' = InLines(k, d) + One(UPD = k)
            BY <1>0, <1>1, <1>2, <1>3, <2>2, TaskAdded, TaskTypes
        <3> QED
            BY <2>2, <3>1
    <2> QED
        BY <2>1, <2>2
<1>6. One(UPD = GEN) = 0 /\ One(UPD = DOWN) = 0 /\ One(UPD = UPD) = 1
    BY TaskTypes DEF One
<1>7. /\ InLines(GEN, d) \in Nat /\ InLines(UPD, d) \in Nat /\ InLines(DOWN, d) \in Nat
      /\ Gens(d) \in Nat /\ Ups(d) \in Nat /\ Downs(d) \in Nat /\ Weight(d) \in Nat
    BY <1>0 DEF TokensAreNumbers
<1>8. /\ InLines(GEN, d)' = InLines(GEN, d) /\ InLines(DOWN, d)' = InLines(DOWN, d)
      /\ InLines(UPD, d)' = InLines(UPD, d) + (IF ends THEN 0 ELSE 1)
    BY <1>5, <1>6, <1>7
<1> HIDE DEF ends
<1>9. Gens(d)' = Gens(d) /\ Downs(d)' = Downs(d) /\ Owed(d)' = Owed(d) /\ Owed(d) = 0
    BY <1>1, <1>3, <1>8 DEF Gens, Downs, Owed
<1>10. Ups(d)' = IF ends THEN Ups(d) - 1 ELSE Ups(d)
    <2>1. reports[d] = <<>>
        BY <1>0, <1>1, NoCallType DEF Shape, ReportShape
    <2>2. Reporting(d) /\ ~Reporting(d)'
        BY <1>1, <1>2, <1>3, <2>1 DEF Reporting
    <2> QED
        BY <1>1, <1>2, <1>3, <1>7, <1>8, <2>2 DEF Ups, One
<1>11. Gens(d)' <= Gens(d) /\ Weight(d)' <= Weight(d)
    BY <1>7, <1>9, <1>10 DEF Weight
<1>12. ~Answered(d) /\ ~Answered(d)' /\ (Generator(d)' <=> Generator(d))
    BY <1>1, <1>2, <1>3 DEF Answered, Generator
<1>13. Fresh(d)' => Fresh(d) /\ ~Passing(d)
    BY <1>1, <1>12 DEF Fresh
<1>14. Passing(d) => torrents[d][1] \in {"GENERATED", "GENERATION_ERROR"} /\ 1 \in t2UpdateMap[d] /\ 1 \in Torrents
    BY <1>0, <1>1, KnownTorrents DEF Shape, ReportShape, Passing
<1>15. Passing(d) => Fresh(d) /\ Generator(d)
    BY <1>14 DEF Fresh, Generator
<1>16. GensAt(d)
    BY <1>2, <1>11, <1>12 DEF GensAt
<1>17. DownloadsAt(d)
    <2>1. ASSUME call'[d].at = "give", NEW i \in DOMAIN call'[d].list
          PROVE  ~Generator(call'[d].list[i])
        <3>1. call'[d].list[i] \in Daemons /\ call'[d].list[i] # d
            BY <1>3, <2>1
        <3> QED
            BY <1>3, <1>15, <2>1, <3>1 DEF Rest, PassedOnce
    <2> QED
        BY <1>1, <1>3, <1>12, <1>13, <2>1 DEF DownloadsAt
<1>18. WeightsAt(d)
    BY <1>9, <1>11, <1>12, <1>13 DEF WeightsAt
<1>19. ListedAt(d)'
    BY <1>0, <1>1, <1>2, <1>3, <1>14 DEF ListedAt
<1>20. ASSUME ~lost' PROVE KeptAt(d)'
    <2>1. KeptAt(d)
        BY <1>0, <1>2, <1>20
    <2>2. 1 \in t2UpdateMap'[d] => 1 \in t2UpdateMap[d] /\ ~Passing(d) /\ call[d].info.status # "DOWNLOADED"
        BY <1>1
    <2>3. 1 \in t2UpdateMap[d] => Ups(d) >= IF MayTear(d) THEN 2 ELSE 1
        BY <1>1, <1>7, <2>1 DEF KeptAt, One
    <2>4. ASSUME 1 \in t2UpdateMap'[d] PROVE Ups(d)' + 0 >= IF MayTear(d)' THEN 2 ELSE 1
        <3>1. MayTear(d)' <=> torrents[d][1] = "GENERATING"
            BY <1>2, <1>3, <1>12 DEF MayTear
        <3>2. CASE ends
            <4>1. call[d].info.status = "GENERATED" /\ ~call[d].info.link
                BY <2>2, <2>4, <3>2 DEF ends, Passing
            <4>2. torrents[d][1] # "GENERATING"
                BY <1>0, <1>1, <4>1 DEF Shape, ReportShape
            <4>3. MayTear(d) /\ ~MayTear(d)'
                BY <1>1, <3>1, <4>1, <4>2 DEF MayTear
            <4> QED
                BY <1>7, <1>10, <2>2, <2>3, <2>4, <3>2, <4>3
        <3>3. CASE ~ends
            <4>1. MayTear(d)' => MayTear(d)
                BY <3>1 DEF MayTear
            <4> QED
                BY <1>7, <1>10, <2>2, <2>3, <2>4, <3>3, <4>1
        <3> QED
            BY <3>2, <3>3
    <2>5. Followed(tasks[d])'
        <3>1. Followed(tasks[d] \o <<UPD>>)
            BY <1>0, <2>1, FollowedOne, TaskTypes DEF KeptAt, TokensAreNumbers
        <3> QED
            BY <1>1, <2>1, <3>1 DEF KeptAt
    <2>6. Followed(Answer(d))' /\ Followed(line[d])'
        BY <1>2, <1>4, <2>1 DEF KeptAt
    <2> QED
        BY <1>1, <1>3, <1>9, <2>1, <2>4, <2>5, <2>6 DEF KeptAt, One
<1>21. CASE ~Passing(d)
    <2>1. QuietStep(d)
        BY <1>1, <1>2, <1>16, <1>17, <1>18, <1>19, <1>20, <1>21 DEF QuietStep
    <2> QED
        BY <2>1, QuietRest
<1>22. CASE Passing(d)
    <2>1. \A e \in Daemons : GensAt(e) /\ DownloadsAt(e) /\ WeightsAt(e)
        BY <1>0, <1>1, <1>16, <1>17, <1>18, AloneQuiet
    <2>2. QuietGens /\ TokensAreNumbers'
        BY <1>1, <2>1, TypedTokensNext DEF QuietGens
    <2>3. AskedOnce'
        BY <1>0, <2>2, QuietAsked DEF Rest
    <2>4. NoDownloads /\ \A e \in Daemons : Generator(e) => e = d
        BY <1>15, <1>22 DEF Rest, PassedOnce
    <2>5. NoDownloads' /\ \A e \in Daemons : ~Fresh(e)'
        <3>1. NoDownloads'
            BY <2>1, <2>4 DEF NoDownloads, DownloadsAt
        <3>2. \A e \in Daemons : Fresh(e)' => e = d
            BY <2>1, <2>4 DEF DownloadsAt, Fresh
        <3> QED
            BY <1>13, <1>22, <3>1, <3>2
    <2>6. PassedOnce'
        <3>1. ASSUME NEW e \in Daemons, Generator(e)'
              PROVE  /\ t2DownloadMap'[e] = {} /\ call'[e].at # "task"
                     /\ call'[e].rpc = "GetTorrentsForDownload" => call'[e].list = <<>>
                     /\ \A f \in Daemons : call'[f].at = "give" =>
                            \A i \in DOMAIN call'[f].list : call'[f].list[i] # e
            BY <2>1, <3>1 DEF Rest, PassedOnce, DownloadsAt
        <3>2. \A e, f \in Daemons : Generator(e)' /\ Generator(f)' => e = f
            BY <2>1, <2>4 DEF DownloadsAt
        <3> QED
            BY <2>5, <3>1, <3>2 DEF PassedOnce
    <2>7. Bounded'
        <3> SUFFICES ASSUME restarts' = 0 PROVE Bounded'
            BY DEF Bounded
        <3>1. Weight(d) <= 2 /\ (isFirst => Weight(d) = 0) /\ \A e \in Daemons : e # d => Weight(e) = 0
            BY <1>2, <1>15, <1>22 DEF Rest, Bounded
        <3>2. \A e \in Daemons : e # d => Weight(e)' = 0 /\ Gens(e)' = Gens(e)
            BY <1>1, <3>1, AloneTokens
        <3>3. ASSUME NEW e \in Daemons, e # d PROVE ~(Gens(e)' > 0)
            <4>1. Weight(e) = 0 /\ Gens(e) \in Nat /\ Ups(e) \in Nat /\ Downs(e) \in Nat /\ Owed(e) \in Nat
                BY <1>0, <3>1, <3>3 DEF TokensAreNumbers
            <4>2. Gens(e) = 0
                BY <4>1 DEF Weight
            <4> QED
                BY <3>2, <3>3, <4>2
        <3>4. Weight(d)' \in Nat
            BY <2>2 DEF TokensAreNumbers
        <3>5. Weight(d)' <= 2 /\ (isFirst' => Weight(d)' = 0)
            BY <1>1, <1>7, <1>11, <3>1, <3>4
        <3>6. Generator(d)'
            BY <1>12, <1>15, <1>22
        <3>7. \A e \in Daemons : Weight(e)' <= 2
            BY <3>2, <3>5
        <3> QED
            BY <2>5, <3>2, <3>3, <3>5, <3>6, <3>7 DEF Bounded
    <2> QED
        BY <1>1, <1>2, <1>19, <1>20, <2>3, <2>6, <2>7, RestFrom
<1> QED
    BY <1>21, <1>22

\* A call that gives torrents has none of the daemons in view that generate one.
LEMMA GivesToOthers ==
    ASSUME ShapeInv, Rest, NEW d \in Daemons, call[d].at = "give"
    PROVE  /\ call[d].rpc \in {"Handshake", "UpdateTorrentStatus"}
           /\ ~Generator(Head(call[d].list))
           /\ \A i \in DOMAIN Tail(call[d].list) : ~Generator(Tail(call[d].list)[i])
<1>1. /\ call[d].rpc \in {"Handshake", "UpdateTorrentStatus"}
      /\ call[d].list \in Seq(Daemons) /\ call[d].list # <<>>
    BY DEF ShapeInv, CallShape
<1> DEFINE s == call[d].list
<1>2. /\ Len(s) \in Nat \ {0} /\ DOMAIN s = 1..Len(s) /\ Head(s) = s[1]
      /\ DOMAIN Tail(s) = 1..Len(s) - 1 /\ \A i \in 1..Len(s) - 1 : Tail(s)[i] = s[i + 1]
      /\ \A i \in 1..Len(s) : s[i] \in Daemons
    BY <1>1
<1>3. \A i \in DOMAIN s : ~Generator(s[i])
    BY <1>2 DEF Rest, PassedOnce
<1>4. ASSUME NEW i \in DOMAIN Tail(s) PROVE ~Generator(Tail(s)[i])
    <2>1. i + 1 \in DOMAIN s /\ Tail(s)[i] = s[i + 1]
        BY <1>2
    <2> QED
        BY <1>3, <2>1
<1>5. ~Generator(Head(s))
    <2>1. 1 \in DOMAIN s
        BY <1>2
    <2> QED
        BY <1>2, <1>3, <2>1
<1> QED
    BY <1>1, <1>4, <1>5

\* The call of DownloadTorrent goes on, and what is counted stays.
LEMMA GiveTokens ==
    ASSUME NEW d \in Daemons, NEW e \in Daemons, UNCHANGED others, t2UpdateMap' = t2UpdateMap,
           call[d].at = "give", call[d].rpc \in {"Handshake", "UpdateTorrentStatus"},
           call'[d].rpc = call[d].rpc, call'[d].at \in {"give", "replied"},
           e # d => call'[e] = call[e]
    PROVE  /\ Answer(e)' = Answer(e) /\ (Answered(e)' <=> Answered(e)) /\ (Generator(e)' <=> Generator(e))
           /\ (Fresh(e)' <=> Fresh(e)) /\ (MayTear(e)' <=> MayTear(e)) /\ Owed(e)' = Owed(e)
           /\ InLines(GEN, e)' = InLines(GEN, e) => Gens(e)' = Gens(e)
           /\ InLines(UPD, e)' = InLines(UPD, e) => Ups(e)' = Ups(e)
           /\ InLines(DOWN, e)' = InLines(DOWN, e) => Downs(e)' = Downs(e)
<1>1. line' = line /\ deffered' = deffered /\ reports' = reports /\ torrents' = torrents
    BY OthersStep
<1>2. call'[e].rpc = call[e].rpc
    OBVIOUS
<1>3. Answer(e)' = Answer(e)
    BY DEF Answer
<1>4. (Answered(e)' <=> Answered(e)) /\ (MayTear(e)' <=> MayTear(e)) /\ Owed(e)' = Owed(e)
    BY <1>1 DEF Answered, MayTear, Owed
<1>5. (Generator(e)' <=> Generator(e)) /\ (Fresh(e)' <=> Fresh(e))
    BY <1>1, <1>4 DEF Generator, Fresh
<1>6. Reporting(e)' <=> Reporting(e)
    BY <1>1 DEF Reporting
<1>7. InLines(GEN, e)' = InLines(GEN, e) => Gens(e)' = Gens(e)
    BY <1>2 DEF Gens
<1>8. InLines(UPD, e)' = InLines(UPD, e) => Ups(e)' = Ups(e)
    BY <1>1, <1>2, <1>6 DEF Ups, One
<1>9. InLines(DOWN, e)' = InLines(DOWN, e) => Downs(e)' = Downs(e)
    BY DEF Downs
<1> QED
    BY <1>3, <1>4, <1>5, <1>7, <1>8, <1>9

\* There is nothing to give.
LEMMA NothingGiven ==
    ASSUME ShapeInv, Rest, NEW d \in Daemons, DownloadTorrent(d, d),
           UNCHANGED <<torrentDeque, t2DownloadMap, tasks>>
    PROVE  QuietStep(d)
<1>0. TypeOK /\ Shape(d) /\ ListedAt(d) /\ (~lost => KeptAt(d)) /\ TokensAreNumbers
    BY RestAt
<1>1. /\ TypeOK' /\ UNCHANGED others /\ UNCHANGED <<uuids, isFirst, t2UpdateMap, made>>
      /\ call[d].at = "give"
      /\ \/ CallNow(d, "replied", <<>>)
         \/ CallNow(d, "give", Tail(call[d].list))
    BY DownloadTorrentStep
<1>2. /\ line' = line /\ deffered' = deffered /\ reports' = reports /\ torrents' = torrents
      /\ lost' = lost /\ orphans' = orphans /\ restarts' = restarts
    BY <1>1, OthersStep
<1>3. /\ call'[d].rpc = call[d].rpc /\ call'[d].at \in {"give", "replied"}
      /\ call'[d].at = "give" => call'[d].list = Tail(call[d].list)
      /\ \A e \in Daemons : e # d => call'[e] = call[e]
    BY <1>1 DEF CallNow
<1>4. Alone(d)
    BY <1>1, <1>2, <1>3 DEF Alone
<1>5. /\ call[d].rpc \in {"Handshake", "UpdateTorrentStatus"}
      /\ \A i \in DOMAIN Tail(call[d].list) : ~Generator(Tail(call[d].list)[i])
    BY <1>1, GivesToOthers
<1>6. /\ Answer(d)' = Answer(d) /\ (Answered(d)' <=> Answered(d)) /\ (Generator(d)' <=> Generator(d))
      /\ (Fresh(d)' <=> Fresh(d)) /\ (MayTear(d)' <=> MayTear(d)) /\ Owed(d)' = Owed(d)
      /\ InLines(GEN, d)' = InLines(GEN, d) => Gens(d)' = Gens(d)
      /\ InLines(UPD, d)' = InLines(UPD, d) => Ups(d)' = Ups(d)
      /\ InLines(DOWN, d)' = InLines(DOWN, d) => Downs(d)' = Downs(d)
    BY <1>1, <1>3, <1>5, GiveTokens
<1>7. \A k : InLines(k, d)' = InLines(k, d)
    BY <1>2, <1>6 DEF InLines
<1>8. SameTokens(d)
    BY <1>6, <1>7 DEF SameTokens
<1>9. Gens(d)' = Gens(d) /\ Gens(d)' <= Gens(d) /\ Weight(d)' <= Weight(d)
    BY <1>0, <1>8, SameWeight DEF SameTokens
<1>10. ~Answered(d)
    BY <1>5 DEF Answered
<1>11. GensAt(d)
    BY <1>2, <1>6, <1>9, <1>10 DEF GensAt
<1>12. DownloadsAt(d)
    BY <1>3, <1>5, <1>6 DEF DownloadsAt
<1>13. WeightsAt(d)
    BY <1>6, <1>9 DEF WeightsAt
<1>14. ListedAt(d)'
    BY <1>0, <1>1, <1>2, <1>3 DEF ListedAt
<1>15. ~lost' => KeptAt(d)'
    BY <1>0, <1>1, <1>2, <1>3, <1>6, <1>8 DEF KeptAt, SameTokens
<1> QED
    BY <1>1, <1>2, <1>4, <1>11, <1>12, <1>13, <1>14, <1>15 DEF QuietStep

LEMMA TorrentGiven ==
    ASSUME ShapeInv, Rest, NEW d \in Daemons, DownloadTorrent(d, d),
           ~UNCHANGED <<torrentDeque, t2DownloadMap, tasks>>
    PROVE  Rest'
<1>0. TypeOK /\ TokensAreNumbers /\ \A e \in Daemons : ListedAt(e) /\ (~lost => KeptAt(e))
    BY RestAt, TypedTokens DEF ShapeInv
<1>a. Head(call[d].list) \in Daemons
    BY DownloadTorrentStep
<1>b. PICK to \in Daemons : to = Head(call[d].list)
    BY <1>a
<1>1. /\ TypeOK' /\ UNCHANGED others /\ UNCHANGED <<uuids, isFirst, t2UpdateMap, made>>
      /\ call[d].at = "give" /\ to \in Daemons
      /\ \/ CallNow(d, "replied", <<>>)
         \/ CallNow(d, "give", Tail(call[d].list))
      /\ torrentDeque = << 1 >> /\ torrentDeque' = <<>>
      /\ t2DownloadMap'[to] = t2DownloadMap[to] \cup {1}
      /\ tasks'[to] = tasks[to] \o <<DOWN>>
      /\ \A e \in Daemons : e # to => tasks'[e] = tasks[e] /\ t2DownloadMap'[e] = t2DownloadMap[e]
    BY <1>b, DownloadTorrentStep
<1>2. /\ line' = line /\ deffered' = deffered /\ reports' = reports /\ torrents' = torrents
      /\ lost' = lost /\ orphans' = orphans /\ restarts' = restarts
    BY <1>1, OthersStep
<1>3. /\ call'[d].rpc = call[d].rpc /\ call'[d].at \in {"give", "replied"}
      /\ call'[d].at = "give" => call'[d].list = Tail(call[d].list)
      /\ \A e \in Daemons : e # d => call'[e] = call[e]
    BY <1>1 DEF CallNow
<1>4. /\ call[d].rpc \in {"Handshake", "UpdateTorrentStatus"} /\ ~Generator(to)
      /\ \A i \in DOMAIN Tail(call[d].list) : ~Generator(Tail(call[d].list)[i])
    BY <1>b, <1>1, GivesToOthers
<1>5. ASSUME NEW e \in Daemons
      PROVE  /\ Answer(e)' = Answer(e) /\ (Answered(e)' <=> Answered(e)) /\ (Generator(e)' <=> Generator(e))
             /\ (Fresh(e)' <=> Fresh(e)) /\ (MayTear(e)' <=> MayTear(e)) /\ Owed(e)' = Owed(e)
             /\ InLines(GEN, e)' = InLines(GEN, e) => Gens(e)' = Gens(e)
             /\ InLines(UPD, e)' = InLines(UPD, e) => Ups(e)' = Ups(e)
             /\ InLines(DOWN, e)' = InLines(DOWN, e) => Downs(e)' = Downs(e)
    BY <1>1, <1>3, <1>4, GiveTokens
<1>6. ASSUME NEW e \in Daemons, e # to, NEW k PROVE InLines(k, e)' = InLines(k, e)
    BY <1>1, <1>2, <1>5, <1>6 DEF InLines
<1>7. ASSUME NEW k PROVE InLines(k, to)' = InLines(k, to) + One(DOWN = k)
    <2>1. tasks[to] \in Seq(Types)
        BY <1>0, <1>1 DEF TokensAreNumbers
    <2>2. Count(k, tasks'[to]) = Count(k, tasks[to]) + One(DOWN = k)
        BY <1>1, <2>1, CountOneMore, TaskTypes
    <2>3. /\ Count(k, line[to]) \in Nat /\ Count(k, tasks[to]) \in Nat /\ Count(k, Answer(to)) \in Nat
          /\ One(DOWN = k) \in Nat
        BY <1>0, <1>1, LinesCount DEF One
    <2>4. Answer(to)' = Answer(to)
        BY <1>1, <1>5
    <2>5. InLines(k, to)' = (Count(k, tasks[to]) + One(DOWN = k)) + Count(k, Answer(to)) + Count(k, line[to])
        BY <1>2, <2>2, <2>4 DEF InLines
    <2>6. InLines(k, to) = Count(k, tasks[to]) + Count(k, Answer(to)) + Count(k, line[to])
        BY DEF InLines
    <2> QED
        BY <2>3, <2>5, <2>6
<1>8. /\ InLines(GEN, to)' = InLines(GEN, to) /\ InLines(UPD, to)' = InLines(UPD, to)
      /\ InLines(DOWN, to)' = InLines(DOWN, to) + 1
    <2>1. One(DOWN = GEN) = 0 /\ One(DOWN = UPD) = 0 /\ One(DOWN = DOWN) = 1
        BY TaskTypes DEF One
    <2>2. InLines(GEN, to) \in Nat /\ InLines(UPD, to) \in Nat /\ InLines(DOWN, to) \in Nat
        BY <1>0, <1>1 DEF TokensAreNumbers
    <2> QED
        BY <1>7, <2>1, <2>2
<1>9. \A e \in Daemons : Gens(e)' = Gens(e) /\ Ups(e)' = Ups(e) /\ Owed(e)' = Owed(e)
    BY <1>5, <1>6, <1>8
<1>10. \A e \in Daemons : e # to => Downs(e)' = Downs(e) /\ Weight(e)' = Weight(e)
    BY <1>5, <1>6, <1>9 DEF Weight
<1>11. Downs(to)' = Downs(to) + 1
    <2>1. /\ call'[to].rpc = call[to].rpc
          /\ call[to].rpc = "GetTorrentsForDownload" => call'[to].at = call[to].at
        BY <1>1, <1>3, <1>4
    <2>2. InLines(DOWN, to) \in Nat
        BY <1>0, <1>1 DEF TokensAreNumbers
    <2> QED
        BY <1>8, <2>1, <2>2 DEF Downs, One
<1>12. TokensAreNumbers'
    BY <1>1, TypedTokensNext
<1>13. << 1 >> # <<>>
    OBVIOUS
<1>14. NoDownloads /\ \A e \in Daemons : ~Fresh(e) /\ ~(Gens(e) > 0)
    <2>1. NoDownloads /\ \A e \in Daemons : ~Fresh(e)
        BY <1>1, <1>13 DEF Rest, PassedOnce
    <2>2. made > 0
        BY <1>1, <1>13, BoundsAssumption DEF ShapeInv, TypeOK
    <2>3. ASSUME NEW e \in Daemons, Gens(e) > 0 PROVE FALSE
        <3>1. Answered(e)
            BY <2>2, <2>3 DEF Rest, AskedOnce
        <3>2. Fresh(e)
            BY <3>1 DEF Answered, Fresh, Generator, ShapeInv, CallShape
        <3> QED
            BY <2>1, <3>2
    <2> QED
        BY <2>1, <2>3
<1>15. AskedOnce'
    <2>1. \A e \in Daemons : Gens(e) \in Nat /\ (Answered(e) => Gens(e) > 0)
        BY <1>0, AnsweredCounts DEF TokensAreNumbers, Answered
    <2>2. \A e \in Daemons : GensAt(e)
        BY <1>2, <1>5, <1>9, <2>1 DEF GensAt
    <2>3. QuietGens
        BY <1>1, <2>2 DEF QuietGens
    <2> QED
        BY <1>0, <1>12, <2>3, QuietAsked DEF Rest
<1>16. PassedOnce'
    <2>1. ASSUME NEW e \in Daemons, Generator(e)'
          PROVE  /\ t2DownloadMap'[e] = {} /\ call'[e].at # "task"
                 /\ call'[e].rpc = "GetTorrentsForDownload" => call'[e].list = <<>>
                 /\ \A f \in Daemons : call'[f].at = "give" =>
                        \A i \in DOMAIN call'[f].list : call'[f].list[i] # e
        <3>1. Generator(e) /\ e # to
            BY <1>4, <1>5, <2>1
        <3>2. t2DownloadMap'[e] = {}
            BY <1>1, <3>1 DEF Rest, PassedOnce
        <3>3. call'[e].at # "task" /\ (call'[e].rpc = "GetTorrentsForDownload" => call'[e].list = <<>>)
            BY <1>3, <1>4, <3>1 DEF Rest, PassedOnce
        <3>4. ASSUME NEW f \in Daemons, call'[f].at = "give", NEW i \in DOMAIN call'[f].list
              PROVE  call'[f].list[i] # e
            <4>1. CASE f = d
                BY <1>3, <1>4, <3>1, <3>4, <4>1
            <4>2. CASE f # d
                BY <1>3, <3>1, <3>4, <4>2 DEF Rest, PassedOnce
            <4> QED
                BY <4>1, <4>2
        <3> QED
            BY <3>2, <3>3, <3>4
    <2>2. \A e, f \in Daemons : Generator(e)' /\ Generator(f)' => e = f
        BY <1>5 DEF Rest, PassedOnce
    <2>3. \A e \in Daemons : ~Fresh(e)'
        BY <1>5, <1>14
    <2> QED
        BY <1>1, <2>1, <2>2, <2>3 DEF PassedOnce
<1>17. Bounded'
    <2> SUFFICES ASSUME restarts' = 0 PROVE Bounded'
        BY DEF Bounded
    <2>1. Weight(to) = 0
        BY <1>1, <1>2, <1>4, <1>13 DEF Rest, Bounded
    <2>2. /\ Gens(to) \in Nat /\ Ups(to) \in Nat /\ Downs(to) \in Nat /\ Owed(to) \in Nat
        BY <1>0, <1>1 DEF TokensAreNumbers
    <2>3. Weight(to)' = 2
        <3>1. Weight(to)' = Gens(to) + Ups(to) + 2 * (Downs(to) + 1) + Owed(to)
            BY <1>1, <1>9, <1>11 DEF Weight
        <3>2. Gens(to) + Ups(to) + 2 * Downs(to) + Owed(to) = 0
            BY <2>1 DEF Weight
        <3> QED
            BY <2>2, <3>1, <3>2
    <2>4. \A e \in Daemons : Weight(e) <= 2
        BY <1>2 DEF Rest, Bounded
    <2>5. \A e \in Daemons : Weight(e)' <= 2
        BY <1>10, <2>3, <2>4
    <2>6. ~isFirst'
        <3>1. made # 0
            BY <1>1, <1>13 DEF ShapeInv
        <3> QED
            BY <1>1, <3>1 DEF Rest, AskedOnce
    <2>7. \A e \in Daemons : ~(Gens(e)' > 0) /\ ~Fresh(e)'
        BY <1>5, <1>9, <1>14
    <2> QED
        BY <1>1, <2>5, <2>6, <2>7 DEF Bounded
<1>18. Listed'
    <2>1. \A e \in Daemons : ListedAt(e)'
        BY <1>0, <1>1, <1>2, <1>3 DEF ListedAt
    <2> QED
        BY <2>1 DEF Listed, ListedAt
<1>19. Kept'
    <2> SUFFICES ASSUME ~lost', NEW e \in Daemons PROVE KeptAt(e)'
        BY DEF Kept, KeptAt
    <2>1. KeptAt(e)
        BY <1>0, <1>2
    <2>2. call'[e].rpc = call[e].rpc
        BY <1>3
    <2>3. Followed(tasks[e])'
        <3>1. CASE e = to
            BY <1>0, <1>1, <2>1, <3>1, FollowedOne, TaskTypes DEF KeptAt, TokensAreNumbers
        <3>2. CASE e # to
            BY <1>1, <2>1, <3>2 DEF KeptAt
        <3> QED
            BY <3>1, <3>2
    <2>4. t2DownloadMap'[e] # {} => Downs(e)' >= 1
        <3>1. CASE e = to
            <4>1. Downs(to) \in Nat
                BY <1>0, <1>1 DEF TokensAreNumbers
            <4> QED
                BY <1>11, <3>1, <4>1
        <3>2. CASE e # to
            BY <1>1, <1>10, <2>1, <3>2 DEF KeptAt
        <3> QED
            BY <3>1, <3>2
    <2>5. MayTear(e)' <=> MayTear(e)
        BY <1>5
    <2>6. Followed(Answer(e))' /\ Followed(line[e])'
        BY <1>2, <1>5, <2>1 DEF KeptAt
    <2> QED
        BY <1>1, <1>2, <1>9, <2>1, <2>2, <2>3, <2>4, <2>5, <2>6 DEF KeptAt
<1> QED
    BY <1>15, <1>16, <1>17, <1>18, <1>19 DEF Rest

----------------------------------------------------------------------------
(***************************************************************************)
(* The theorems.                                                           *)
(***************************************************************************)

LEMMA AloneShapeInv ==
    ASSUME ShapeInv, NEW d \in Daemons, Alone(d), TypeOK', Shape(d)',
           made' = made \/ (made = 0 /\ made' = 1),
           torrentDeque' = torrentDeque \/ (torrentDeque' = << 1 >> /\ made # 0)
    PROVE  ShapeInv'
<1>1. \A e \in Daemons : Shape(e)
    BY DEF ShapeInv, Shape
<1>2. \A e \in Daemons : Shape(e)'
    BY <1>1, AloneShape
<1>3. made' <= 1 /\ torrentDeque' \in {<<>>, << 1 >>} /\ (made' = 0 => torrentDeque' = <<>>)
    BY DEF ShapeInv
<1> QED
    BY <1>2, <1>3 DEF ShapeInv, Shape

LEMMA UpdateTorrentStatusInv ==
    ASSUME ShapeInv, Rest, NEW d \in Daemons, UpdateTorrentStatus(d, d)
    PROVE  ShapeInv' /\ Rest'
<1>1. /\ TypeOK' /\ Alone(d)
      /\ call[d].rpc = "UpdateTorrentStatus" /\ call[d].at = "called"
      /\ torrentDeque' = IF Passing(d) THEN Append(torrentDeque, 1) ELSE torrentDeque
    BY UpdateTorrentStatusStep
<1>2. Shape(d)' /\ made' = made
    BY UpdateTorrentStatusShape
<1>3. torrentDeque' = torrentDeque \/ (torrentDeque' = << 1 >> /\ made # 0)
    <2>1. CASE Passing(d)
        <3>1. torrents[d][1] \in {"GENERATED", "GENERATION_ERROR"} /\ 1 \in t2UpdateMap[d]
            BY <1>1, <2>1 DEF ShapeInv, ReportShape, Passing
        <3>2. made = 1 /\ 1 \in Torrents
            BY <3>1, KnownTorrents
        <3>3. Fresh(d)
            BY <3>1, <3>2 DEF Fresh, Generator
        <3>4. torrentDeque = <<>>
            BY <3>3 DEF Rest, PassedOnce
        <3>5. Append(<<>>, 1) = << 1 >>
            OBVIOUS
        <3> QED
            BY <1>1, <2>1, <3>2, <3>4, <3>5
    <2>2. CASE ~Passing(d)
        BY <1>1, <2>2
    <2> QED
        BY <2>1, <2>2
<1>4. ShapeInv'
    BY <1>1, <1>2, <1>3, AloneShapeInv
<1> QED
    BY <1>4, UpdateTorrentStatusRest

LEMMA DownloadTorrentInv ==
    ASSUME ShapeInv, Rest, NEW d \in Daemons, DownloadTorrent(d, d)
    PROVE  ShapeInv' /\ Rest'
<1>1. /\ TypeOK' /\ made' = made
      /\ torrentDeque' = torrentDeque \/ torrentDeque' = <<>>
    BY DownloadTorrentStep
<1>2. \A e \in Daemons : Shape(e)'
    BY DownloadTorrentShape
<1>3. ShapeInv'
    BY <1>1, <1>2 DEF ShapeInv, Shape
<1>4. CASE UNCHANGED <<torrentDeque, t2DownloadMap, tasks>>
    <2>1. QuietStep(d)
        BY <1>4, NothingGiven
    <2> QED
        BY <1>3, <2>1, QuietRest
<1>5. CASE ~UNCHANGED <<torrentDeque, t2DownloadMap, tasks>>
    BY <1>3, <1>5, TorrentGiven
<1> QED
    BY <1>4, <1>5

\* A quiet step keeps the whole invariant.
LEMMA QuietInv ==
    ASSUME ShapeInv, Rest, NEW d \in Daemons, QuietStep(d), Shape(d)'
    PROVE  ShapeInv' /\ Rest'
<1>1. ShapeInv'
    BY AloneShapeInv DEF QuietStep
<1> QED
    BY <1>1, QuietRest

LEMMA ServerInv ==
    ASSUME ShapeInv, Rest, NEW d \in Daemons, ServerStep(d, d)
    PROVE  ShapeInv' /\ Rest'
<1>0. TypeOK /\ isFirst \in BOOLEAN
    BY DEF ShapeInv, TypeOK
<1>1. CASE Handshake(d, d)
    <2>1. CASE isFirst
        <3>1. TypeOK' /\ Alone(d) /\ torrentDeque' = torrentDeque /\ Shape(d)' /\ made' = made
            BY <1>0, <1>1, HandshakeStep, HandshakeShape
        <3>2. ShapeInv'
            BY <3>1, AloneShapeInv
        <3> QED
            BY <1>1, <2>1, <3>2, HandshakeFirst
    <2>2. CASE ~isFirst
        BY <1>1, <2>2, HandshakeNextQuiet, HandshakeShape, QuietInv
    <2> QED
        BY <2>1, <2>2
<1>2. CASE DownloadTorrent(d, d)
    BY <1>2, DownloadTorrentInv
<1>3. CASE UpdateTorrentStatus(d, d)
    BY <1>3, UpdateTorrentStatusInv
<1>4. CASE GetTaskList(d, d)
    BY <1>4, GetTaskListQuiet, GetTaskListShape, QuietInv
<1>5. CASE GetInfoForGenerateTorrents(d, d)
    <2>1. made = 0
        BY <1>5, NotYetMade
    <2>2. TypeOK' /\ Alone(d) /\ torrentDeque' = torrentDeque /\ Shape(d)' /\ made' = 1
        BY <1>0, <1>5, <2>1, GetInfoStep, GetInfoShape
    <2>3. ShapeInv'
        BY <2>1, <2>2, AloneShapeInv
    <2> QED
        BY <1>5, <2>3, GetInfoRest
<1>6. CASE GetTorrentsForUpdateStatus(d, d)
    BY <1>6, GetForUpdateQuiet, GetForUpdateShape, QuietInv
<1>7. CASE GetTorrentsForDownload(d, d)
    BY <1>7, GetForDownloadQuiet, GetForDownloadShape, QuietInv
<1>8. CASE ReportOnDownloads(d, d)
    BY <1>8, ReportOnDownloadsQuiet, ReportOnDownloadsShape, QuietInv
<1> QED
    BY <1>1, <1>2, <1>3, <1>4, <1>5, <1>6, <1>7, <1>8 DEF ServerStep, Unheard

LEMMA DaemonInv ==
    ASSUME ShapeInv, Rest, NEW d \in Daemons,
           \/ WorkerStep(d) \/ Receive(d) \/ Break(d) \/ (Restart(d) /\ orphans' = orphans)
           \/ \E ty \in DOMAIN Stub : Timer(d, ty)
           \/ \E t \in Torrents : TorrentEnds(d, t)
    PROVE  ShapeInv' /\ Rest'
<1>1. CASE RunTask(d)
    BY <1>1, RunTaskQuiet, RunTaskShape, QuietInv
<1>2. CASE CopyLink(d)
    BY <1>2, CopyLinkQuiet, CopyLinkShape, QuietInv
<1>3. CASE CopyStatus(d)
    BY <1>3, CopyStatusQuiet, CopyStatusShape, QuietInv
<1>4. CASE Receive(d) \/ Break(d)
    BY <1>4, AnswerQuiet, AnswerShape, QuietInv
<1>5. CASE Restart(d) /\ orphans' = orphans
    <2>1. TypeOK' /\ Alone(d) /\ torrentDeque' = torrentDeque /\ Shape(d)' /\ made' = made
        BY <1>5, RestartStep, RestartShape DEF ShapeInv, serverVars
    <2>2. ShapeInv'
        BY <2>1, AloneShapeInv
    <2> QED
        BY <1>5, <2>2, RestartQuiet
<1>6. CASE \E ty \in DOMAIN Stub : Timer(d, ty)
    BY <1>6, TimerQuiet, TimerShape, QuietInv
<1>7. CASE \E t \in Torrents : TorrentEnds(d, t)
    BY <1>7, TorrentEndsQuiet, TorrentEndsShape, QuietInv
<1> QED
    BY <1>1, <1>2, <1>3, <1>4, <1>5, <1>6, <1>7 DEF WorkerStep

LEMMA InitInv == Init => Inv
<1> SUFFICES ASSUME Init PROVE Inv
    OBVIOUS
<1>0. NoCall \in AnyCall /\ NoCall.rpc = "none" /\ NoCall.at = "none" /\ NoCall.list = <<>>
    BY NoCallType
<1>1. /\ <<>> \in Seq(Torrents) /\ <<>> \in Seq(ServerTasks)
      /\ <<"MAKE_HANDSHAKE">> \in Seq(ServerTasks \cup DefferedTypes)
    BY DEF DefferedTypes
<1>2. ASSUME NEW d \in Daemons
      PROVE  /\ call[d] = NoCall /\ tasks[d] = <<>> /\ line[d] = <<"MAKE_HANDSHAKE">>
             /\ deffered[d] = {} /\ reports[d] = <<>> /\ t2DownloadMap[d] = {} /\ t2UpdateMap[d] = {}
             /\ torrents[d] = [t \in Torrents |-> "NONE"]
             /\ call[d].rpc = "none" /\ call[d].at = "none" /\ call[d].list = <<>>
    BY <1>0, SlotsApart DEF Init
<1>3. TypeOK
    <2>1. [t \in Torrents |-> "NONE"] \in [Torrents -> Status]
        BY DEF Status
    <2>6. 0 \in 0..MaxTorrents /\ 0 \in 0..MaxFaults
        BY BoundsAssumption
    <2>7. isFirst \in BOOLEAN /\ lost \in BOOLEAN
        BY DEF Init
    <2>2. /\ uuids \subseteq Daemons /\ isFirst \in BOOLEAN /\ made \in 0..MaxTorrents
          /\ lost \in BOOLEAN /\ orphans \in 0..MaxFaults
          /\ restarts \in 0..MaxFaults /\ torrentDeque \in Seq(Torrents)
        BY <1>1, <2>6, <2>7 DEF Init
    <2>3. call \in [Slots -> AnyCall]
        BY <1>0 DEF Init
    <2>4. /\ tasks \in [Daemons -> Seq(ServerTasks)]
          /\ line \in [Daemons -> Seq(ServerTasks \cup DefferedTypes)]
          /\ reports \in [Daemons -> Seq(Torrents)]
        BY <1>1 DEF Init
    <2>5. /\ t2DownloadMap \in [Daemons -> SUBSET Torrents] /\ t2UpdateMap \in [Daemons -> SUBSET Torrents]
          /\ deffered \in [Daemons -> SUBSET DefferedTypes]
          /\ torrents \in [Daemons -> [Torrents -> Status]]
        BY <2>1 DEF Init
    <2> QED
        BY <2>2, <2>3, <2>4, <2>5 DEF TypeOK, AnyCall
<1>4. ASSUME NEW d \in Daemons PROVE CallShape(d) /\ ReportShape(d) /\ ShakesAlone(d) /\ OnlyOne(d)
    <2>1. CallShape(d)
        BY <1>2 DEF CallShape
    <2>2. ReportShape(d)
        BY <1>2 DEF ReportShape
    <2>3. ShakesAlone(d)
        BY <1>2 DEF ShakesAlone
    <2>4. OnlyOne(d)
        BY <1>2 DEF OnlyOne
    <2> QED
        BY <2>1, <2>2, <2>3, <2>4
<1>5. ShapeInv
    BY <1>3, <1>4 DEF ShapeInv, Init
<1>6. ASSUME NEW d \in Daemons
      PROVE  /\ Gens(d) = 0 /\ Ups(d) = 0 /\ Downs(d) = 0 /\ Owed(d) = 0
             /\ ~Answered(d) /\ ~Generator(d) /\ Answer(d) = <<>>
    <2>1. Answer(d) = <<>>
        BY <1>2 DEF Answer
    <2>2. "MAKE_HANDSHAKE" \in Types /\ "MAKE_HANDSHAKE" \notin {GEN, UPD, DOWN}
        BY DEF Types, DefferedTypes, GEN, UPD, DOWN
    <2>3. ASSUME NEW k \in {GEN, UPD, DOWN} PROVE InLines(k, d) = 0
        <3>1. Count(k, <<"MAKE_HANDSHAKE">>) = 0
            BY <2>2, CountSingle DEF One
        <3> QED
            BY <1>2, <2>1, <3>1, CountEmpty DEF InLines
    <2>4. InLines(GEN, d) = 0 /\ InLines(UPD, d) = 0 /\ InLines(DOWN, d) = 0
        BY <2>3
    <2>5. ~Reporting(d) /\ ~Answered(d)
        BY <1>2 DEF Reporting, Answered
    <2>6. ~Generator(d)
        BY <1>2, <2>5 DEF Generator
    <2>7. Gens(d) = 0 /\ Downs(d) = 0 /\ Owed(d) = 0
        BY <1>2, <2>4 DEF Gens, Downs, Owed, One
    <2>8. Ups(d) = 0
        BY <1>2, <2>4, <2>5 DEF Ups, One
    <2> QED
        BY <2>1, <2>5, <2>6, <2>7, <2>8
<1>7. AskedOnce
    BY <1>2, <1>6 DEF AskedOnce, Init
<1>8. PassedOnce
    BY <1>6 DEF PassedOnce, Fresh, Init
<1>9. Listed
    BY <1>2 DEF Listed
<1>10. Bounded
    <2>1. \A d \in Daemons : Weight(d) = 0
        BY <1>6 DEF Weight
    <2> QED
        BY <2>1 DEF Bounded, Init
<1>11. Kept
    <2>1. Followed(<<>>)
        BY FollowedEmpty
    <2>2. Followed(<<"MAKE_HANDSHAKE">>)
        BY DEF Followed, GEN
    <2> QED
        BY <1>2, <1>6, <2>1, <2>2 DEF Kept
<1>12. NoOrphans /\ orphans = 0
    BY SlotsApart DEF NoOrphans, Init
<1> QED
    BY <1>5, <1>7, <1>8, <1>9, <1>10, <1>11, <1>12 DEF Inv, Alike

\* A step of anybody else.
LEMMA StutterInv ==
    ASSUME ShapeInv, Rest, UNCHANGED vars
    PROVE  ShapeInv' /\ Rest'
<1>1. /\ UNCHANGED <<uuids, isFirst, torrentDeque, tasks, t2DownloadMap, t2UpdateMap, made>>
      /\ UNCHANGED <<call, line, deffered, reports, torrents, lost, orphans, restarts>>
    BY DEF vars, serverVars, daemonVars, history
<1>2. TypeOK'
    BY <1>1 DEF ShapeInv, TypeOK
<1>3. ASSUME NEW d \in Daemons
      PROVE  CallShape(d)' /\ ReportShape(d)' /\ ShakesAlone(d)' /\ OnlyOne(d)'
    <2>1. CallShape(d)'
        BY <1>1 DEF ShapeInv, CallShape
    <2>2. ReportShape(d)'
        BY <1>1 DEF ShapeInv, ReportShape
    <2>3. ShakesAlone(d)'
        BY <1>1 DEF ShapeInv, ShakesAlone, Shaking
    <2>4. OnlyOne(d)'
        BY <1>1 DEF ShapeInv, OnlyOne
    <2> QED
        BY <2>1, <2>2, <2>3, <2>4
<1>4. ShapeInv'
    BY <1>1, <1>2, <1>3 DEF ShapeInv
<1>5. /\ \A d : Answer(d)' = Answer(d) /\ \A k : InLines(k, d)' = InLines(k, d)
    BY <1>1 DEF Answer, InLines
<1>6. \A d : /\ Gens(d)' = Gens(d) /\ Ups(d)' = Ups(d) /\ Downs(d)' = Downs(d) /\ Owed(d)' = Owed(d)
             /\ Answered(d)' = Answered(d) /\ Generator(d)' = Generator(d) /\ Fresh(d)' = Fresh(d)
             /\ MayTear(d)' = MayTear(d) /\ Weight(d)' = Weight(d)
    BY <1>1, <1>5 DEF Gens, Ups, Downs, Owed, Reporting, Answered, Generator, Fresh, MayTear, Weight
<1>7. AskedOnce' /\ PassedOnce'
    BY <1>1, <1>6 DEF Rest, AskedOnce, PassedOnce, NoDownloads
<1>8. Listed' /\ Bounded'
    BY <1>1, <1>6 DEF Rest, Listed, Bounded
<1>9. Kept'
    BY <1>1, <1>5, <1>6 DEF Rest, Kept
<1> QED
    BY <1>4, <1>7, <1>8, <1>9 DEF Rest

\* Without orphans, a step that makes none leaves the places of orphans empty.
OrphansAlone == \A e \in Daemons : call'[Orphan(e)] = call[Orphan(e)]

LEMMA PutAlone ==
    ASSUME TypeOK, NEW d \in Daemons, NEW c, call' = [call EXCEPT ![d] = c]
    PROVE  OrphansAlone
<1>1. DOMAIN call = Slots
    BY DEF TypeOK
<1> QED
    BY <1>1, SlotsApart DEF OrphansAlone

LEMMA GotoAlone ==
    ASSUME TypeOK, NEW d \in Daemons, NEW at, NEW list, CallGoto(d, at, list)
    PROVE  OrphansAlone
<1>1. PICK c : call' = [call EXCEPT ![d] = c]
    BY DEF CallGoto
<1> QED
    BY <1>1, PutAlone

LEMMA ServedAlone ==
    ASSUME TypeOK, NEW d \in Daemons, ServerStep(d, d)
    PROVE  OrphansAlone
<1>1. \E at, list : CallGoto(d, at, list)
    <2>1. CASE Handshake(d, d)
        BY <2>1 DEF Handshake, Reply
    <2>2. CASE DownloadTorrent(d, d)
        BY <2>2 DEF DownloadTorrent
    <2>3. CASE UpdateTorrentStatus(d, d)
        BY <2>3 DEF UpdateTorrentStatus, Reply
    <2>4. CASE GetTaskList(d, d) \/ GetInfoForGenerateTorrents(d, d) \/ ReportOnDownloads(d, d)
        BY <2>4 DEF GetTaskList, GetInfoForGenerateTorrents, ReportOnDownloads, Reply
    <2>5. CASE GetTorrentsForUpdateStatus(d, d) \/ GetTorrentsForDownload(d, d)
        BY <2>5 DEF GetTorrentsForUpdateStatus, GetTorrentsForDownload, Reply
    <2> QED
        BY <2>1, <2>2, <2>3, <2>4, <2>5 DEF ServerStep, Unheard
<1> QED
    BY <1>1, GotoAlone

\* A call that is not there is not served.
LEMMA NoneServed ==
    ASSUME NoOrphans, NEW d \in Daemons
    PROVE  ~ServerStep(d, Orphan(d))
<1> DEFINE k == Orphan(d)
<1>1. call[k].at = "none"
    BY NoCallType DEF NoOrphans
<1> HIDE DEF k
<1>2. /\ ~Handshake(d, k) /\ ~DownloadTorrent(d, k) /\ ~UpdateTorrentStatus(d, k)
      /\ ~GetTaskList(d, k) /\ ~GetInfoForGenerateTorrents(d, k)
    BY <1>1 DEF Handshake, DownloadTorrent, UpdateTorrentStatus, GetTaskList,
                GetInfoForGenerateTorrents, Called
<1>3. /\ ~GetTorrentsForUpdateStatus(d, k) /\ ~GetTorrentsForDownload(d, k)
      /\ ~ReportOnDownloads(d, k) /\ ~Unheard(d, k)
    BY <1>1 DEF GetTorrentsForUpdateStatus, GetTorrentsForDownload, ReportOnDownloads, Unheard, Called
<1> QED
    BY <1>2, <1>3 DEF ServerStep, k

\* What the daemons do to their own calls.
LEMMA OwnAlone ==
    ASSUME TypeOK, NEW d \in Daemons,
           \/ WorkerStep(d) \/ Receive(d) \/ Break(d) \/ (Restart(d) /\ orphans' = orphans)
           \/ \E ty \in DOMAIN Stub : Timer(d, ty)
           \/ \E t \in Torrents : TorrentEnds(d, t)
    PROVE  OrphansAlone
<1>1. CASE call' = call
    BY <1>1 DEF OrphansAlone
<1>2. CASE \E c : call' = [call EXCEPT ![d] = c]
    BY <1>2, PutAlone
<1>3. CASE WorkerStep(d)
    BY <1>2, <1>3 DEF WorkerStep, RunTask, CopyLink, CopyStatus
<1>4. CASE Receive(d) \/ Break(d)
    BY <1>2, <1>4 DEF Receive, Break
<1>5. CASE Restart(d) /\ orphans' = orphans
    <2>1. orphans + 1 # orphans
        BY DEF TypeOK
    <2> QED
        BY <1>2, <1>5, <2>1 DEF Restart, Orphaned
<1>6. CASE (\E ty \in DOMAIN Stub : Timer(d, ty)) \/ \E t \in Torrents : TorrentEnds(d, t)
    BY <1>1, <1>6 DEF Timer, TorrentEnds
<1> QED
    BY <1>3, <1>4, <1>5, <1>6

\* The history: calls are given up one by one, and not without a loss.
LEMMA HistoryStep ==
    ASSUME orphans \in Nat, ~lost => orphans = 0, [Next]_vars
    PROVE  /\ orphans' \in Nat /\ (~lost' => orphans' = 0)
           /\ orphans' = 0 => orphans = 0
           /\ \A d \in Daemons : GiveUp(d) => orphans' # 0
           /\ \A d \in Daemons : Restart(d) => orphans' = orphans \/ orphans' # 0
<1>0. \A d \in Daemons : /\ GiveUp(d) => orphans' = orphans + 1
                         /\ Restart(d) => orphans' \in {orphans, orphans + 1}
    BY DEF GiveUp, Restart, Orphaned
<1>1. CASE UNCHANGED vars
    <2>1. orphans' = orphans /\ lost' = lost
        BY <1>1 DEF vars, history
    <2> QED
        BY <1>0, <2>1
<1>2. ASSUME NEW d \in Daemons, NEW k \in {d, Orphan(d)}, ServerStep(d, k)
      PROVE  orphans' = orphans /\ lost' = lost
    <2>1. UNCHANGED others
        BY <1>2 DEF ServerStep, Handshake, DownloadTorrent, UpdateTorrentStatus, GetTaskList,
                    GetInfoForGenerateTorrents, GetTorrentsForUpdateStatus, GetTorrentsForDownload,
                    ReportOnDownloads, Unheard
    <2> QED
        BY <2>1 DEF others, history
<1>3. ASSUME NEW d \in Daemons, WorkerStep(d) PROVE orphans' = orphans /\ lost' = lost
    BY <1>3 DEF WorkerStep, RunTask, CopyLink, CopyStatus, history
<1>4. ASSUME NEW d \in Daemons, Receive(d) \/ Break(d)
      PROVE  orphans' = orphans /\ (~lost' => ~lost)
    <2>1. CASE Receive(d)
        BY <2>1 DEF Receive
    <2>2. CASE Break(d)
        <3>1. orphans' = orphans /\ lost' = (lost \/ call[d].rpc # "Handshake")
            BY <2>2 DEF Break
        <3> QED
            BY <3>1
    <2> QED
        BY <1>4, <2>1, <2>2
<1>5. ASSUME NEW d \in Daemons, GiveUp(d) \/ Restart(d)
      PROVE  orphans' \in {orphans, orphans + 1} /\ lost' = TRUE
    BY <1>5 DEF GiveUp, Restart, Orphaned
<1>6. ASSUME NEW d \in Daemons,
             (\E ty \in DOMAIN Stub : Timer(d, ty)) \/ \E t \in Torrents : TorrentEnds(d, t)
      PROVE  orphans' = orphans /\ lost' = lost
    BY <1>6 DEF Timer, TorrentEnds, history
<1>7. \/ orphans' = orphans /\ (~lost' => ~lost)
      \/ orphans' \in {orphans, orphans + 1} /\ lost' = TRUE
    <2>1. CASE LocksCross /\ UNCHANGED vars
        BY <2>1 DEF vars, history
    <2>2. CASE UNCHANGED vars
        BY <2>2 DEF vars, history
    <2> QED
        BY <1>2, <1>3, <1>4, <1>5, <1>6, <2>1, <2>2 DEF Next
<1> QED
    BY <1>7, <1>0

LEMMA NextInv == Inv /\ [Next]_vars => Inv'
<1> SUFFICES ASSUME Inv, [Next]_vars PROVE Inv'
    OBVIOUS
<1>1. /\ orphans' \in Nat /\ (~lost' => orphans' = 0)
      /\ orphans' = 0 => orphans = 0
      /\ \A d \in Daemons : GiveUp(d) => orphans' # 0
      /\ \A d \in Daemons : Restart(d) => orphans' = orphans \/ orphans' # 0
    BY HistoryStep DEF Inv
<1>2. ASSUME orphans' = 0 PROVE NoOrphans' /\ Alike'
    <2>1. orphans = 0 /\ NoOrphans /\ ShapeInv /\ Rest /\ TypeOK
        BY <1>1, <1>2 DEF Inv, Alike, Rest, ShapeInv
    <2>2. CASE UNCHANGED vars
        <3>1. call' = call
            BY <2>2 DEF vars
        <3> QED
            BY <2>1, <2>2, <3>1, StutterInv DEF NoOrphans, Alike, Rest
    <2>3. ASSUME NEW d \in Daemons, ServerStep(d, d) PROVE NoOrphans' /\ Alike'
        <3>1. OrphansAlone /\ ShapeInv' /\ Rest'
            BY <2>1, <2>3, ServedAlone, ServerInv
        <3> QED
            BY <2>1, <3>1 DEF OrphansAlone, NoOrphans, Alike, Rest
    <2>4. ASSUME NEW d \in Daemons,
                 \/ WorkerStep(d) \/ Receive(d) \/ Break(d) \/ (Restart(d) /\ orphans' = orphans)
                 \/ \E ty \in DOMAIN Stub : Timer(d, ty)
                 \/ \E t \in Torrents : TorrentEnds(d, t)
          PROVE  NoOrphans' /\ Alike'
        <3>1. OrphansAlone /\ ShapeInv' /\ Rest'
            BY <2>1, <2>4, OwnAlone, DaemonInv
        <3> QED
            BY <2>1, <3>1 DEF OrphansAlone, NoOrphans, Alike, Rest
    <2>5. ASSUME NEW d \in Daemons PROVE ~ServerStep(d, Orphan(d)) /\ ~GiveUp(d)
        BY <1>1, <1>2, <2>1, NoneServed
    <2> QED
        BY <1>1, <1>2, <2>1, <2>2, <2>3, <2>4, <2>5 DEF Next
<1> QED
    BY <1>1, <1>2 DEF Inv

\* The invariant holds, for any daemons, any number of torrents and of restarts: as long
\* as the server has not gone on with a call that its daemon gave up, one daemon is asked
\* to generate, once, and passes the torrent on once, whatever other calls fail.
THEOREM InvCorrect == Spec => []Inv
<1>1. Init => Inv
    BY InitInv
<1>2. Inv /\ [Next]_vars => Inv'
    BY NextInv
<1> QED
    BY <1>1, <1>2, PTL DEF Spec

\* As long as no call was given up that the server goes on with, every variable keeps its
\* type, whatever walks the server's containers give.
THEOREM TypeCorrect == Spec => [](orphans = 0 => TypeOK)
<1>1. Inv => (orphans = 0 => TypeOK)
    BY DEF Inv, Alike, ShapeInv
<1> QED
    BY <1>1, InvCorrect, PTL

\* GetTorrentsForDownload holds mtxTDownload and waits for mtxTDeque while DownloadTorrent
\* holds mtxTDeque and waits for mtxTDownload: never at the same time, as long as each
\* call at the server has a daemon that waits for it.
THEOREM LocksNeverCross == Spec => []LocksDoNotCross
<1>1. Inv => LocksDoNotCross
    <2> SUFFICES ASSUME Inv, orphans = 0, NEW j \in Slots, NEW k \in Slots,
                        call[j].at = "task", call[k].at = "give", torrentDeque # <<>>
                 PROVE  FALSE
        BY DEF LocksDoNotCross, LocksCross
    <2>1. NoOrphans /\ PassedOnce
        BY DEF Inv, Alike
    <2>2. j \in Daemons
        BY <2>1, NoCallType DEF Slots, NoOrphans
    <2> QED
        BY <2>1, <2>2 DEF PassedOnce, NoDownloads
<1> QED
    BY <1>1, InvCorrect, PTL

\* Without restarts, and calls given up that the server goes on with, no daemon ever has
\* more than two tasks to report, at the server and in its line together, however many
\* answers break off.
THEOREM ReportsBounded == Spec => []TwoReportTasks
<1>1. Inv => TwoReportTasks
    <2> SUFFICES ASSUME Inv, restarts = 0, orphans = 0, NEW d \in Daemons
                 PROVE  Count(UPD, tasks[d] \o line[d]) <= 2
        BY DEF TwoReportTasks, UPD
    <2>1. TypeOK /\ TokensAreNumbers
        BY TypedTokens DEF Inv, Alike, ShapeInv
    <2>2. Count(UPD, tasks[d] \o line[d]) = Count(UPD, tasks[d]) + Count(UPD, line[d])
        BY <2>1, CountConcat DEF TokensAreNumbers
    <2>3. Count(UPD, tasks[d]) \in Nat /\ Count(UPD, Answer(d)) \in Nat /\ Count(UPD, line[d]) \in Nat
        BY <2>1, LinesCount
    <2>4. Count(UPD, tasks[d]) + Count(UPD, line[d]) <= InLines(UPD, d) /\ InLines(UPD, d) \in Nat
        BY <2>3 DEF InLines
    <2>5. InLines(UPD, d) <= Ups(d)
        BY <2>4 DEF Ups, One
    <2>6. Gens(d) \in Nat /\ Ups(d) \in Nat /\ Downs(d) \in Nat /\ Owed(d) \in Nat
        BY <2>1 DEF TokensAreNumbers
    <2>7. Ups(d) <= Weight(d) /\ Weight(d) \in Nat
        BY <2>6 DEF Weight
    <2>8. Weight(d) <= 2
        BY DEF Inv, Alike, Bounded
    <2> QED
        BY <2>2, <2>3, <2>4, <2>5, <2>6, <2>7, <2>8
<1> QED
    BY <1>1, InvCorrect, PTL

\* As long as no answer is cut off, a torrent on a list of the server has a task that
\* will ask for it.
THEOREM NothingIsStranded == Spec => []NothingStranded
<1>1. Inv => NothingStranded
    <2> SUFFICES ASSUME Inv, ~lost, NEW d \in Daemons
                 PROVE  /\ t2DownloadMap[d] # {} => OnItsWay(d, DOWN)
                        /\ t2UpdateMap[d] # {} =>
                              OnItsWay(d, UPD) \/ reports[d] # <<>>
                              \/ call[d].rpc \in {"UpdateTorrentStatus", "GetTorrentsForDownload"}
        BY DEF NothingStranded, UPD, DOWN
    <2>1. TypeOK /\ TokensAreNumbers /\ KeptAt(d) /\ t2UpdateMap[d] \subseteq {1}
        BY TypedTokens, KnownTorrents DEF Inv, Alike, ShapeInv, Kept, KeptAt
    <2>2. tasks[d] \in Seq(Types) /\ Answer(d) \in Seq(Types) /\ line[d] \in Seq(Types)
        BY <2>1 DEF TokensAreNumbers
    <2>3. ASSUME NEW k, InLines(k, d) > 0 PROVE OnItsWay(d, k)
        <3>1. Count(k, tasks[d]) \in Nat /\ Count(k, Answer(d)) \in Nat /\ Count(k, line[d]) \in Nat
            BY <2>1, LinesCount
        <3>2. Count(k, tasks[d]) > 0 \/ Count(k, Answer(d)) > 0 \/ Count(k, line[d]) > 0
            BY <2>3, <3>1 DEF InLines
        <3>3. CASE Count(k, tasks[d]) > 0
            BY <2>2, <3>3, CountPositive DEF OnItsWay
        <3>4. CASE Count(k, line[d]) > 0
            BY <2>2, <3>4, CountPositive DEF OnItsWay
        <3>5. CASE Count(k, Answer(d)) > 0
            <4>1. \E i \in DOMAIN Answer(d) : Answer(d)[i] = k
                BY <2>2, <3>5, CountPositive
            <4>2. call[d].rpc = "GetTaskList" /\ Answer(d) = call[d].list
                BY <4>1 DEF Answer
            <4> QED
                BY <4>1, <4>2 DEF OnItsWay
        <3> QED
            BY <3>2, <3>3, <3>4, <3>5
    <2>4. InLines(UPD, d) \in Nat /\ InLines(DOWN, d) \in Nat
        BY <2>1 DEF TokensAreNumbers
    <2>5. ASSUME t2DownloadMap[d] # {} PROVE OnItsWay(d, DOWN)
        <3>1. Downs(d) >= 1
            BY <2>1, <2>5 DEF KeptAt
        <3>2. InLines(DOWN, d) > 0 \/ call[d].rpc = "GetTorrentsForDownload"
            BY <2>4, <3>1 DEF Downs, One
        <3> QED
            BY <2>3, <3>2, StubOf DEF OnItsWay
    <2>6. ASSUME t2UpdateMap[d] # {}
          PROVE  OnItsWay(d, UPD) \/ reports[d] # <<>>
                 \/ call[d].rpc \in {"UpdateTorrentStatus", "GetTorrentsForDownload"}
        <3>1. 1 \in t2UpdateMap[d]
            BY <2>1, <2>6
        <3>2. Ups(d) \in Nat
            BY <2>1 DEF TokensAreNumbers
        <3>3. Ups(d) + One(call[d].rpc \in {"GetInfoForGenerateTorrents", "GetTorrentsForDownload"}) >= 1
            BY <2>1, <3>1, <3>2 DEF KeptAt, One
        <3>4. CASE call[d].rpc = "GetInfoForGenerateTorrents"
            <4>1. Count(UPD, line[d]) >= 1 /\ Count(UPD, line[d]) \in Nat
                BY <2>1, <3>4, LinesCount DEF KeptAt
            <4>2. \E i \in DOMAIN line[d] : line[d][i] = UPD
                BY <2>2, <4>1, CountPositive
            <4> QED
                BY <4>2 DEF OnItsWay
        <3>5. CASE call[d].rpc \notin {"GetInfoForGenerateTorrents", "GetTorrentsForDownload"}
            <4>1. Ups(d) >= 1
                BY <3>2, <3>3, <3>5 DEF One
            <4>2. \/ InLines(UPD, d) > 0 \/ UPD \in deffered[d]
                  \/ call[d].rpc = "GetTorrentsForUpdateStatus" \/ Reporting(d)
                BY <2>4, <4>1 DEF Ups, One
            <4> QED
                BY <2>3, <4>2, StubOf DEF OnItsWay, Reporting
        <3> QED
            BY <3>4, <3>5
    <2> QED
        BY <2>5, <2>6
<1> QED
    BY <1>1, InvCorrect, PTL
=============================================================================
