-------------------------- MODULE GRPCClientProofs --------------------------
(***************************************************************************)
(* Proofs about GRPCClient for any tasks of the server and any number of   *)
(* them: its types, and that there is one chain of handshakes and polls.   *)
(***************************************************************************)
EXTENDS GRPCClient, SequenceTheorems, FiniteSetTheorems, TLAPS

Entry == TaskType \cup {Nil, Unknown}

(***************************************************************************)
(* Counting the handshakes and polls of a line.                            *)
(***************************************************************************)

\* The positions counted are finitely many.
LEMMA PollsType ==
    ASSUME NEW s \in Seq(Entry)
    PROVE  /\ IsFiniteSet({i \in DOMAIN s : s[i] \in PollTypes})
           /\ PollsIn(s) \in Nat
<1>1. IsFiniteSet(1..Len(s)) /\ DOMAIN s = 1..Len(s)
    BY FS_Interval
<1>2. {i \in DOMAIN s : s[i] \in PollTypes} \in SUBSET (1..Len(s))
    BY <1>1
<1>3. IsFiniteSet({i \in DOMAIN s : s[i] \in PollTypes})
    BY <1>1, <1>2, FS_Subset
<1> QED
    BY <1>3, FS_CardinalityType DEF PollsIn

\* An empty line has none.
LEMMA PollsEmpty == PollsIn(<<>>) = 0
<1>1. {i \in DOMAIN <<>> : <<>>[i] \in PollTypes} = {}
    OBVIOUS
<1> QED
    BY <1>1, FS_EmptySet DEF PollsIn

\* One more entry at the end counts for itself.
LEMMA PollsAppend ==
    ASSUME NEW s \in Seq(Entry), NEW e \in Entry
    PROVE  /\ Append(s, e) \in Seq(Entry)
           /\ PollsIn(Append(s, e)) = PollsIn(s) + (IF e \in PollTypes THEN 1 ELSE 0)
<1> DEFINE here  == {i \in DOMAIN s : s[i] \in PollTypes}
           there == {i \in DOMAIN Append(s, e) : Append(s, e)[i] \in PollTypes}
           n     == Len(s) + 1
<1>1. /\ Append(s, e) \in Seq(Entry) /\ DOMAIN s = 1..Len(s) /\ Len(s) \in Nat
      /\ DOMAIN Append(s, e) = 1..n /\ Append(s, e)[n] = e
      /\ \A i \in 1..Len(s) : Append(s, e)[i] = s[i]
    OBVIOUS
<1>2. there = IF e \in PollTypes THEN here \cup {n} ELSE here
    BY <1>1
<1>3. n \notin here
    BY <1>1
<1>3a. IsFiniteSet(here)
    BY PollsType
<1>4. PollsIn(s) = Cardinality(here) /\ PollsIn(Append(s, e)) = Cardinality(there)
    BY DEF PollsIn
<1>5. Cardinality(here \cup {n}) = Cardinality(here) + 1 /\ Cardinality(here) \in Nat
    BY <1>3, <1>3a, FS_AddElement, FS_CardinalityType
<1> HIDE DEF here, there, n
<1> QED
    BY <1>1, <1>2, <1>4, <1>5

\* The line without its first entry.
LEMMA PollsTail ==
    ASSUME NEW s \in Seq(Entry), s # <<>>
    PROVE  /\ Tail(s) \in Seq(Entry) /\ Head(s) \in Entry
           /\ PollsIn(s) = PollsIn(Tail(s)) + (IF Head(s) \in PollTypes THEN 1 ELSE 0)
<1> DEFINE all  == {i \in DOMAIN s : s[i] \in PollTypes}
           rest == {i \in DOMAIN Tail(s) : Tail(s)[i] \in PollTypes}
           next == [i \in rest |-> i + 1]
<1>1. /\ Tail(s) \in Seq(Entry) /\ Head(s) \in Entry /\ Head(s) = s[1]
      /\ DOMAIN s = 1..Len(s) /\ Len(s) \in Nat \ {0}
      /\ DOMAIN Tail(s) = 1..Len(s) - 1
      /\ \A i \in 1..Len(s) - 1 : Tail(s)[i] = s[i + 1]
    OBVIOUS
<1>2. next \in Bijection(rest, all \ {1})
    <2>1. next \in [rest -> all \ {1}]
        BY <1>1
    <2>2. \A i, j \in rest : next[i] = next[j] => i = j
        BY <1>1
    <2>3. ASSUME NEW j \in all \ {1} PROVE \E i \in rest : next[i] = j
        <3>1. j - 1 \in rest /\ next[j - 1] = j
            BY <1>1
        <3> QED
            BY <3>1
    <2> QED
        BY <2>1, <2>2, <2>3 DEF Bijection, Injection, Surjection, IsInjective
<1>3. IsFiniteSet(rest) /\ IsFiniteSet(all)
    BY <1>1, PollsType
<1>4. Cardinality(all \ {1}) = Cardinality(rest)
    BY <1>2, <1>3, FS_Bijection, ZenonT(30) DEF ExistsBijection
<1>5. /\ Cardinality(all \ {1}) = IF 1 \in all THEN Cardinality(all) - 1 ELSE Cardinality(all)
      /\ Cardinality(all) \in Nat /\ Cardinality(rest) \in Nat
    BY <1>3, FS_RemoveElement, FS_CardinalityType
<1>6. 1 \in all <=> Head(s) \in PollTypes
    BY <1>1
<1>7. PollsIn(s) = Cardinality(all) /\ PollsIn(Tail(s)) = Cardinality(rest)
    BY DEF PollsIn
<1> HIDE DEF all, rest
<1> QED
    BY <1>1, <1>4, <1>5, <1>6, <1>7

\* Two lines, one after the other.
LEMMA PollsConcat ==
    ASSUME NEW s \in Seq(Entry), NEW t \in Seq(Entry)
    PROVE  s \o t \in Seq(Entry) /\ PollsIn(s \o t) = PollsIn(s) + PollsIn(t)
<1> DEFINE all    == {i \in DOMAIN (s \o t) : (s \o t)[i] \in PollTypes}
           first  == {i \in DOMAIN s : s[i] \in PollTypes}
           second == {i \in DOMAIN t : t[i] \in PollTypes}
           moved  == {i \in all : i > Len(s)}
           move   == [i \in second |-> Len(s) + i]
<1>1. /\ s \o t \in Seq(Entry) /\ Len(s) \in Nat /\ Len(t) \in Nat
      /\ DOMAIN s = 1..Len(s) /\ DOMAIN t = 1..Len(t)
      /\ DOMAIN (s \o t) = 1..Len(s) + Len(t)
      /\ \A i \in 1..Len(s) : (s \o t)[i] = s[i]
      /\ \A i \in 1..Len(t) : (s \o t)[Len(s) + i] = t[i]
    OBVIOUS
<1>2. move \in Bijection(second, moved)
    <2>1. move \in [second -> moved]
        BY <1>1
    <2>2. \A i, j \in second : move[i] = move[j] => i = j
        BY <1>1
    <2>3. ASSUME NEW j \in moved PROVE \E i \in second : move[i] = j
        <3>1. j - Len(s) \in 1..Len(t) /\ Len(s) + (j - Len(s)) = j
            BY <1>1
        <3>2. j - Len(s) \in second /\ move[j - Len(s)] = j
            BY <1>1, <3>1
        <3> QED
            BY <3>2
    <2> QED
        BY <2>1, <2>2, <2>3 DEF Bijection, Injection, Surjection, IsInjective
<1>3. IsFiniteSet(first) /\ IsFiniteSet(second)
    BY PollsType
<1>4. IsFiniteSet(moved) /\ Cardinality(moved) = Cardinality(second)
    BY <1>2, <1>3, FS_Bijection DEF ExistsBijection
<1>5. all = first \cup moved /\ first \cap moved = {}
    BY <1>1
<1>7. /\ PollsIn(s \o t) = Cardinality(all)
      /\ PollsIn(s) = Cardinality(first) /\ PollsIn(t) = Cardinality(second)
    BY DEF PollsIn
<1> HIDE DEF all, first, second, moved
<1>6. /\ Cardinality(first \cup moved)
            = Cardinality(first) + Cardinality(moved) - Cardinality(first \cap moved)
      /\ Cardinality(first \cap moved) = 0
      /\ Cardinality(first) \in Nat /\ Cardinality(moved) \in Nat
    BY <1>3, <1>4, <1>5, FS_Union, FS_EmptySet, FS_CardinalityType
<1> QED
    BY <1>1, <1>4, <1>5, <1>6, <1>7

\* A cut line has no more than the whole one.
LEMMA PollsCut ==
    ASSUME NEW s \in Seq(Entry), NEW n \in 0..Len(s)
    PROVE  SubSeq(s, 1, n) \in Seq(Entry) /\ PollsIn(SubSeq(s, 1, n)) <= PollsIn(s)
<1> DEFINE all == {i \in DOMAIN s : s[i] \in PollTypes}
           cut == {i \in DOMAIN SubSeq(s, 1, n) : SubSeq(s, 1, n)[i] \in PollTypes}
<1>1. SubSeq(s, 1, n) \in Seq(Entry) /\ DOMAIN s = 1..Len(s) /\ Len(s) \in Nat
    OBVIOUS
<1>2. Len(SubSeq(s, 1, n)) = n /\ \A i \in 1..n : SubSeq(s, 1, n)[i] = s[i]
    OBVIOUS
<1>3. DOMAIN SubSeq(s, 1, n) = 1..n
    BY <1>1, <1>2
<1>4. cut \in SUBSET all
    BY <1>1, <1>2, <1>3
<1>5. IsFiniteSet(all)
    BY PollsType
<1>6. PollsIn(s) = Cardinality(all) /\ PollsIn(SubSeq(s, 1, n)) = Cardinality(cut)
    BY DEF PollsIn
<1> HIDE DEF all, cut
<1> QED
    BY <1>1, <1>4, <1>5, <1>6, FS_Subset

\* AddTasks adds what the types count for: an unknown type is neither a handshake
\* nor a poll, and is not made one.
LEMMA PollsAdded ==
    ASSUME NEW line \in Seq(TaskType \cup {Nil}), NEW types \in Seq(TaskType \cup {Unknown})
    PROVE  /\ AddTasks(line, types) \in Seq(TaskType \cup {Nil})
           /\ PollsIn(AddTasks(line, types)) = PollsIn(line) + PollsIn(types)
<1> DEFINE made == [i \in DOMAIN types |-> CreateTask(types[i])]
<1>1. DOMAIN types = 1..Len(types) /\ Len(types) \in Nat
    OBVIOUS
<1>2. \A i \in DOMAIN types :
          /\ CreateTask(types[i]) \in TaskType \cup {Nil}
          /\ CreateTask(types[i]) \in PollTypes <=> types[i] \in PollTypes
    BY DEF CreateTask, TaskType, PollTypes, Nil
<1>3. made \in Seq(TaskType \cup {Nil}) /\ DOMAIN made = DOMAIN types
    BY <1>1, <1>2, IsASeq
<1>4. {i \in DOMAIN made : made[i] \in PollTypes} = {i \in DOMAIN types : types[i] \in PollTypes}
    BY <1>2, <1>3
<1>5. PollsIn(made) = PollsIn(types)
    BY <1>4 DEF PollsIn
<1>6. AddTasks(line, types) = line \o made
    BY DEF AddTasks
<1>7. line \in Seq(Entry) /\ made \in Seq(Entry)
    BY <1>3, SeqMonotonic DEF Entry
<1> HIDE DEF made
<1>8. line \o made \in Seq(TaskType \cup {Nil})
    BY <1>3
<1> QED
    BY <1>5, <1>6, <1>7, <1>8, PollsConcat

\* One task of a known type.
LEMMA PollsOne ==
    ASSUME NEW ty \in TaskType
    PROVE  /\ <<ty>> \in Seq(TaskType \cup {Unknown})
           /\ PollsIn(<<ty>>) = IF ty \in PollTypes THEN 1 ELSE 0
<1>1. <<>> \in Seq(Entry) /\ ty \in Entry /\ Append(<<>>, ty) = <<ty>>
    BY DEF Entry
<1>2. PollsIn(Append(<<>>, ty)) = PollsIn(<<>>) + (IF ty \in PollTypes THEN 1 ELSE 0)
    BY <1>1, PollsAppend
<1>3. <<ty>> \in Seq(TaskType \cup {Unknown})
    OBVIOUS
<1> QED
    BY <1>1, <1>2, <1>3, PollsEmpty

\* The types are finitely many.
LEMMA TypesFinite == IsFiniteSet(TaskType) /\ IsFiniteSet(PollTypes)
<1>1. IsFiniteSet({"MAKE_HANDSHAKE"})
    BY FS_Singleton
<1>2. IsFiniteSet({"MAKE_HANDSHAKE"} \cup {"UPDATE_TASK_LIST"})
    BY <1>1, FS_AddElement
<1>3. PollTypes = {"MAKE_HANDSHAKE"} \cup {"UPDATE_TASK_LIST"}
    BY DEF PollTypes
<1>4. IsFiniteSet(PollTypes \cup {"GENERATE_MAGENT"})
    BY <1>2, <1>3, FS_AddElement
<1>5. IsFiniteSet((PollTypes \cup {"GENERATE_MAGENT"}) \cup {"DOWNLOAD_TORRENT"})
    BY <1>4, FS_AddElement
<1>6. IsFiniteSet(((PollTypes \cup {"GENERATE_MAGENT"}) \cup {"DOWNLOAD_TORRENT"})
                  \cup {"UPDATE_TORRENT_STATUS"})
    BY <1>5, FS_AddElement
<1>7. TaskType = ((PollTypes \cup {"GENERATE_MAGENT"}) \cup {"DOWNLOAD_TORRENT"})
                 \cup {"UPDATE_TORRENT_STATUS"}
    BY DEF TaskType
<1> QED
    BY <1>2, <1>3, <1>6, <1>7

\* A scan puts at most one handshake and one poll in line, and only deferred ones.
LEMMA PollsScanned ==
    ASSUME NEW due \in SUBSET TaskType, NEW line \in SetToSeqs(due)
    PROVE  /\ line \in Seq(TaskType)
           /\ PollsIn(line) <= (IF "MAKE_HANDSHAKE" \in due THEN 1 ELSE 0)
                               + (IF "UPDATE_TASK_LIST" \in due THEN 1 ELSE 0)
<1> DEFINE at == {i \in DOMAIN line : line[i] \in PollTypes}
           polls == due \cap PollTypes
           what == [i \in at |-> line[i]]
<1>1. IsFiniteSet(due) /\ Cardinality(due) \in Nat
    BY TypesFinite, FS_Subset, FS_CardinalityType
<1>2. /\ line \in [1..Cardinality(due) -> due]
      /\ \A i, j \in 1..Cardinality(due) : i # j => line[i] # line[j]
    BY DEF SetToSeqs
<1>3. line \in Seq(due) /\ line \in Seq(TaskType)
    BY <1>1, <1>2, IsASeq
<1>4. what \in Injection(at, polls)
    <2>1. what \in [at -> polls]
        BY <1>2
    <2>2. \A i, j \in at : what[i] = what[j] => i = j
        BY <1>2
    <2> QED
        BY <2>1, <2>2 DEF Injection, IsInjective
<1>5. polls = (IF "MAKE_HANDSHAKE" \in due THEN {"MAKE_HANDSHAKE"} ELSE {})
              \cup (IF "UPDATE_TASK_LIST" \in due THEN {"UPDATE_TASK_LIST"} ELSE {})
    BY DEF PollTypes
<1>6. PollsIn(line) = Cardinality(at)
    BY DEF PollsIn
<1>7. IsFiniteSet(polls)
    BY <1>1, FS_Subset
<1> HIDE DEF at, polls, what
<1>8. Cardinality(at) <= Cardinality(polls)
    BY <1>4, <1>7, FS_Injection
<1>9. /\ Cardinality({"MAKE_HANDSHAKE"}) = 1 /\ Cardinality({"UPDATE_TASK_LIST"}) = 1
      /\ Cardinality({"MAKE_HANDSHAKE"} \cup {"UPDATE_TASK_LIST"}) = 2
      /\ Cardinality({}) = 0
    <2>1. IsFiniteSet({"MAKE_HANDSHAKE"}) /\ "UPDATE_TASK_LIST" \notin {"MAKE_HANDSHAKE"}
        BY FS_Singleton
    <2>2. /\ Cardinality({"MAKE_HANDSHAKE"}) = 1 /\ Cardinality({"UPDATE_TASK_LIST"}) = 1
          /\ Cardinality({}) = 0
        BY FS_Singleton, FS_EmptySet
    <2>3. Cardinality({"MAKE_HANDSHAKE"} \cup {"UPDATE_TASK_LIST"})
             = Cardinality({"MAKE_HANDSHAKE"}) + 1
        BY <2>1, FS_AddElement
    <2> QED
        BY <2>2, <2>3
<1>10. Cardinality(polls) = (IF "MAKE_HANDSHAKE" \in due THEN 1 ELSE 0)
                            + (IF "UPDATE_TASK_LIST" \in due THEN 1 ELSE 0)
    <2>1. CASE "MAKE_HANDSHAKE" \in due /\ "UPDATE_TASK_LIST" \in due
        BY <1>5, <1>9, <2>1
    <2>2. CASE "MAKE_HANDSHAKE" \in due /\ "UPDATE_TASK_LIST" \notin due
        <3>1. polls = {"MAKE_HANDSHAKE"}
            BY <1>5, <2>2
        <3> QED
            BY <1>9, <2>2, <3>1
    <2>3. CASE "MAKE_HANDSHAKE" \notin due /\ "UPDATE_TASK_LIST" \in due
        <3>1. polls = {"UPDATE_TASK_LIST"}
            BY <1>5, <2>3
        <3> QED
            BY <1>9, <2>3, <3>1
    <2>4. CASE "MAKE_HANDSHAKE" \notin due /\ "UPDATE_TASK_LIST" \notin due
        <3>1. polls = {}
            BY <1>5, <2>4
        <3> QED
            BY <1>9, <2>4, <3>1
    <2> QED
        BY <2>1, <2>2, <2>3, <2>4
<1> QED
    BY <1>3, <1>6, <1>8, <1>10

(***************************************************************************)
(* The inductive invariant.                                                *)
(***************************************************************************)

\* Every handshake and poll that came as a task was created by the server, and so
\* were those it still has.
JoinedAreCreated == joined + PollsIn(serverTasks) <= created

\* Before Start nothing runs and nothing waits.
NothingBeforeStart ==
    owner = "created" =>
        /\ worker = "off" /\ handler = "off" /\ current = Nil /\ tasks = <<>>
        /\ deffered["MAKE_HANDSHAKE"] = 0 /\ deffered["UPDATE_TASK_LIST"] = 0
        /\ joined = 0

\* Between Start and Stop the client runs, and its handler thread does not yet make its
\* last scan.
StartedRuns == owner = "started" => isRun /\ handler # "last"

ClientInv ==
    TypeOK /\ JoinedAreCreated /\ NothingBeforeStart /\ StartedRuns
    /\ PollChains

\* The variables are what TypeOK says, in the form the leaves use.
LEMMA Typed ==
    ASSUME TypeOK
    PROVE  /\ isRun \in BOOLEAN /\ stub \in BOOLEAN /\ crashed \in BOOLEAN
           /\ clientInfo \in {"empty", "ok"}
           /\ tasks \in Seq(TaskType \cup {Nil}) /\ tasks \in Seq(Entry)
           /\ deffered \in [TaskType -> Nat]
           /\ worker \in {"off", "starting", "on", "draining", "ended"}
           /\ handler \in {"off", "starting", "on", "last"}
           /\ current \in TaskType \cup {Nil} /\ step \in {"begin", "call", "rpc", "report", "hung"}
           /\ current = Nil => step = "begin"
           /\ owner \in {"created", "started", "stopped", "destroying"}
           /\ serverTasks \in Seq(TaskType \cup {Unknown}) /\ serverTasks \in Seq(ServerTypes)
           /\ serverTasks \in Seq(Entry)
           /\ created \in 0..MaxTasks /\ joined \in 0..MaxTasks /\ MaxTasks \in Nat
           /\ PollsIn(tasks) \in Nat /\ PollsIn(serverTasks) \in Nat
<1>1. tasks \in Seq(TaskType \cup {Nil}) /\ serverTasks \in Seq(ServerTypes)
    BY DEF TypeOK
<1>2. tasks \in Seq(Entry) /\ serverTasks \in Seq(TaskType \cup {Unknown})
      /\ serverTasks \in Seq(Entry)
    BY <1>1, SeqMonotonic, ServerTypesAssumption DEF Entry
<1> QED
    BY <1>1, <1>2, PollsType, MaxTasksAssumption DEF TypeOK

\* The tokens are the parts they are made of.
LEMMA Counted ==
    ASSUME TypeOK
    PROVE  /\ deffered["MAKE_HANDSHAKE"] \in Nat /\ deffered["UPDATE_TASK_LIST"] \in Nat
           /\ PollsIn(tasks) \in Nat /\ joined \in Nat /\ PollTokens \in Nat
<1>1. /\ deffered["MAKE_HANDSHAKE"] \in Nat /\ deffered["UPDATE_TASK_LIST"] \in Nat
      /\ PollsIn(tasks) \in Nat /\ joined \in Nat
    BY Typed DEF TaskType, PollTypes
<1> QED
    BY <1>1 DEF PollTokens

\* One more deferred task.
LEMMA Deffered ==
    ASSUME deffered \in [TaskType -> Nat], NEW ty \in TaskType, Deffer(ty)
    PROVE  /\ deffered' \in [TaskType -> Nat]
           /\ deffered'[ty] = deffered[ty] + 1
           /\ \A o \in TaskType \ {ty} : deffered'[o] = deffered[o]
    BY DEF Deffer

\* Which types are handshakes and polls.
LEMMA Tokens ==
    /\ "MAKE_HANDSHAKE" \in TaskType /\ "UPDATE_TASK_LIST" \in TaskType
    /\ "GENERATE_MAGENT" \in TaskType /\ "DOWNLOAD_TORRENT" \in TaskType
    /\ "UPDATE_TORRENT_STATUS" \in TaskType
    /\ "MAKE_HANDSHAKE" \in PollTypes /\ "UPDATE_TASK_LIST" \in PollTypes
    /\ "GENERATE_MAGENT" \notin PollTypes /\ "DOWNLOAD_TORRENT" \notin PollTypes
    /\ "UPDATE_TORRENT_STATUS" \notin PollTypes
    /\ Nil \notin PollTypes /\ Nil \notin TaskType /\ PollTypes \subseteq TaskType
    BY DEF TaskType, PollTypes, Nil

----------------------------------------------------------------------------
(* The owner. *)

LEMMA StartStep == ClientInv /\ Start => ClientInv'
<1> SUFFICES ASSUME ClientInv, Start PROVE ClientInv'
    OBVIOUS
<1>0. TypeOK /\ owner = "created"
    BY DEF ClientInv, Start
<1>1. /\ tasks = <<>> /\ current = Nil /\ joined = 0
      /\ deffered["MAKE_HANDSHAKE"] = 0 /\ deffered["UPDATE_TASK_LIST"] = 0
    BY <1>0 DEF ClientInv, NothingBeforeStart
<1>2. tasks' \in Seq(TaskType \cup {Nil}) /\ PollsIn(tasks') = 1
    <2>1. <<"MAKE_HANDSHAKE">> \in Seq(TaskType \cup {Unknown}) /\ PollsIn(<<"MAKE_HANDSHAKE">>) = 1
        BY Tokens, PollsOne
    <2>2. tasks' = AddTasks(tasks, <<"MAKE_HANDSHAKE">>) /\ PollsIn(tasks) = 0
        BY <1>1, PollsEmpty DEF Start
    <2>3. tasks \in Seq(TaskType \cup {Nil})
        BY <1>0, Typed
    <2>4. /\ AddTasks(tasks, <<"MAKE_HANDSHAKE">>) \in Seq(TaskType \cup {Nil})
          /\ PollsIn(AddTasks(tasks, <<"MAKE_HANDSHAKE">>))
                = PollsIn(tasks) + PollsIn(<<"MAKE_HANDSHAKE">>)
        BY <2>1, <2>3, PollsAdded
    <2> QED
        BY <2>1, <2>2, <2>4
<1>3. TypeOK'
    BY <1>0, <1>2 DEF Start, TypeOK, serverVars, runVars
<1>4. PollTokens' = 1 /\ joined' = 0
    BY <1>1, <1>2, Tokens DEF Start, PollTokens, serverVars, runVars
<1> QED
    BY <1>3, <1>4, Typed, PollsType
       DEF ClientInv, JoinedAreCreated, NothingBeforeStart, StartedRuns,
           PollChains, Start, serverVars

\* Stop and the destructor drop what is deferred, and the client is not started any more.
LEMMA StopStep == ClientInv /\ (Stop \/ Destroy) => ClientInv'
<1> SUFFICES ASSUME ClientInv, Stop \/ Destroy PROVE ClientInv'
    OBVIOUS
<1>0. TypeOK
    BY DEF ClientInv
<1>1. /\ deffered' = [ty \in TaskType |-> 0] /\ worker' \in {"off", "starting", "draining", "ended"}
      /\ handler' \in {"off", "starting", "last"} /\ owner' \in {"stopped", "destroying"}
      /\ isRun' \in BOOLEAN /\ stub' \in BOOLEAN /\ clientInfo' \in {"empty", "ok"}
      /\ UNCHANGED <<tasks, runVars, serverVars, crashed>>
    BY <1>0, Typed DEF Stop, Destroy, StopWorker
<1>2. TypeOK'
    BY <1>0, <1>1 DEF TypeOK, runVars, serverVars
<1>3. PollTokens' <= PollTokens /\ PollTokens \in Nat /\ PollTokens' \in Nat
    <2>1. deffered'["MAKE_HANDSHAKE"] = 0 /\ deffered'["UPDATE_TASK_LIST"] = 0
        BY <1>1, Tokens
    <2>2. tasks' = tasks /\ current' = current
        BY <1>1 DEF runVars
    <2> QED
        BY <1>0, <1>2, <2>1, <2>2, Counted DEF PollTokens
<1>4. PollTokens <= 1 + joined /\ joined' = joined /\ joined \in Nat
    BY <1>0, <1>1, Typed DEF ClientInv, PollChains, serverVars
<1> QED
    BY <1>1, <1>2, <1>3, <1>4 DEF ClientInv, JoinedAreCreated, NothingBeforeStart, StartedRuns,
                                  PollChains, serverVars

----------------------------------------------------------------------------
(* The executor. *)

\* A step that keeps the count, the client and the server keeps the chains.
LEMMA SameTokens ==
    ASSUME ClientInv, TypeOK', PollTokens' = PollTokens, owner # "created",
           UNCHANGED <<isRun, owner, serverVars>>, handler' = "last" => handler = "last"
    PROVE  ClientInv'
    BY DEF ClientInv, JoinedAreCreated, NothingBeforeStart, StartedRuns,
           PollChains, serverVars

LEMMA FireStep ==
    ASSUME ClientInv, NEW ty \in TaskType, FireDeffered(ty)
    PROVE  ClientInv'
<1>0. TypeOK /\ owner # "created"
    BY DEF ClientInv, NothingBeforeStart, FireDeffered
<1>1. /\ deffered' \in [TaskType -> Nat] /\ deffered'[ty] = deffered[ty] - 1
      /\ \A o \in TaskType \ {ty} : deffered'[o] = deffered[o]
    BY <1>0, Typed DEF FireDeffered
<1>2. /\ tasks' \in Seq(TaskType \cup {Nil})
      /\ PollsIn(tasks') = PollsIn(tasks) + (IF ty \in PollTypes THEN 1 ELSE 0)
    <2>1. tasks \in Seq(TaskType \cup {Nil}) /\ tasks \in Seq(Entry) /\ ty \in Entry
          /\ tasks' = Append(tasks, ty)
        BY <1>0, Typed DEF FireDeffered, Entry
    <2> QED
        BY <2>1, PollsAppend
<1>3. TypeOK'
    BY <1>0, <1>1, <1>2 DEF TypeOK, FireDeffered, clientVars, workerVars, runVars, serverVars
<1>4. PollTokens' = PollTokens
    <2>1. UNCHANGED current
        BY DEF FireDeffered, runVars
    <2>2. CASE ty = "MAKE_HANDSHAKE"
        <3>1. /\ deffered'["MAKE_HANDSHAKE"] = deffered["MAKE_HANDSHAKE"] - 1
              /\ deffered'["UPDATE_TASK_LIST"] = deffered["UPDATE_TASK_LIST"]
              /\ PollsIn(tasks') = PollsIn(tasks) + 1
            BY <1>1, <1>2, <2>2, Tokens
        <3> QED
            BY <1>0, <1>3, <2>1, <3>1, Counted DEF PollTokens
    <2>3. CASE ty = "UPDATE_TASK_LIST"
        <3>1. /\ deffered'["UPDATE_TASK_LIST"] = deffered["UPDATE_TASK_LIST"] - 1
              /\ deffered'["MAKE_HANDSHAKE"] = deffered["MAKE_HANDSHAKE"]
              /\ PollsIn(tasks') = PollsIn(tasks) + 1
            BY <1>1, <1>2, <2>3, Tokens
        <3> QED
            BY <1>0, <1>3, <2>1, <3>1, Counted DEF PollTokens
    <2>4. CASE ty \notin PollTypes
        <3>1. /\ deffered'["MAKE_HANDSHAKE"] = deffered["MAKE_HANDSHAKE"]
              /\ deffered'["UPDATE_TASK_LIST"] = deffered["UPDATE_TASK_LIST"]
              /\ PollsIn(tasks') = PollsIn(tasks)
            BY <1>0, <1>1, <1>2, <2>4, Tokens, Counted
        <3> QED
            BY <2>1, <3>1 DEF PollTokens
    <2> QED
        BY <2>2, <2>3, <2>4 DEF PollTypes
<1> QED
    BY <1>0, <1>3, <1>4, SameTokens DEF FireDeffered, clientVars, workerVars

LEMMA ScanStep == ClientInv /\ LastScan => ClientInv'
<1> SUFFICES ASSUME ClientInv, LastScan PROVE ClientInv'
    OBVIOUS
<1>0. TypeOK /\ owner # "created"
    BY DEF ClientInv, NothingBeforeStart, LastScan
<1>1. PICK due \in SUBSET {ty \in TaskType : deffered[ty] > 0} :
          /\ deffered' = [ty \in TaskType |-> IF ty \in due THEN deffered[ty] - 1
                                                            ELSE deffered[ty]]
          /\ \E line \in SetToSeqs(due) : tasks' = tasks \o line
    BY DEF LastScan
<1>2. PICK line \in SetToSeqs(due) : tasks' = tasks \o line
    BY <1>1
<1>3. due \in SUBSET TaskType /\ deffered' \in [TaskType -> Nat]
    BY <1>0, <1>1, Typed
<1>4. /\ line \in Seq(TaskType) /\ line \in Seq(Entry)
      /\ PollsIn(line) <= (IF "MAKE_HANDSHAKE" \in due THEN 1 ELSE 0)
                          + (IF "UPDATE_TASK_LIST" \in due THEN 1 ELSE 0)
    BY <1>3, PollsScanned, SeqMonotonic DEF Entry
<1>5. tasks' \in Seq(TaskType \cup {Nil}) /\ PollsIn(tasks') = PollsIn(tasks) + PollsIn(line)
    <2>1. tasks' \in Seq(TaskType \cup {Nil})
        BY <1>0, <1>2, <1>4, Typed
    <2> QED
        BY <1>0, <1>2, <1>4, <2>1, Typed, PollsConcat
<1>6. TypeOK'
    BY <1>0, <1>3, <1>5 DEF TypeOK, LastScan, clientVars, runVars, serverVars
<1>7. PollTokens' <= PollTokens /\ PollTokens' \in Int
    <2> DEFINE h == IF "MAKE_HANDSHAKE" \in due THEN 1 ELSE 0
               u == IF "UPDATE_TASK_LIST" \in due THEN 1 ELSE 0
               run == IF current \in PollTypes THEN 1 ELSE 0
    <2>1. UNCHANGED current
        BY DEF LastScan, runVars
    <2>2. /\ deffered'["MAKE_HANDSHAKE"] = deffered["MAKE_HANDSHAKE"] - h
          /\ deffered'["UPDATE_TASK_LIST"] = deffered["UPDATE_TASK_LIST"] - u
        BY <1>0, <1>1, Typed, Tokens
    <2>3. PollsIn(line) \in Nat /\ h \in Nat /\ u \in Nat /\ run \in Nat
        BY <1>4, PollsType
    <2>4. /\ PollTokens = PollsIn(tasks) + deffered["MAKE_HANDSHAKE"] + deffered["UPDATE_TASK_LIST"]
                          + run
          /\ PollTokens' = PollsIn(tasks') + deffered'["MAKE_HANDSHAKE"]
                           + deffered'["UPDATE_TASK_LIST"] + run
        BY <2>1 DEF PollTokens
    <2>5. PollsIn(line) <= h + u
        BY <1>4
    <2>6. /\ deffered["MAKE_HANDSHAKE"] \in Nat /\ deffered["UPDATE_TASK_LIST"] \in Nat
          /\ PollsIn(tasks) \in Nat
        BY <1>0, Counted
    <2> HIDE DEF h, u, run
    <2>7. PollTokens' = PollsIn(tasks) + PollsIn(line) + (deffered["MAKE_HANDSHAKE"] - h)
                        + (deffered["UPDATE_TASK_LIST"] - u) + run
        BY <1>5, <2>2, <2>4
    <2> QED
        BY <2>3, <2>4, <2>5, <2>6, <2>7
\* The last scan is made after Stop.
<1>8. owner # "started"
    BY DEF ClientInv, StartedRuns, LastScan
<1>9. PollTokens \in Nat /\ PollTokens <= 1 + joined /\ joined' = joined /\ joined \in Nat
    BY <1>0, <1>6, Counted DEF ClientInv, PollChains, LastScan, serverVars
<1> QED
    BY <1>0, <1>6, <1>7, <1>8, <1>9
       DEF ClientInv, JoinedAreCreated, NothingBeforeStart, StartedRuns, PollChains, LastScan,
           clientVars, serverVars

\* The threads begin, or the worker ends.
LEMMA BeginStep == ClientInv /\ (WorkerBegins \/ HandlerBegins) => ClientInv'
<1> SUFFICES ASSUME ClientInv, WorkerBegins \/ HandlerBegins PROVE ClientInv'
    OBVIOUS
<1>0. TypeOK /\ owner # "created"
    BY DEF ClientInv, NothingBeforeStart, WorkerBegins, HandlerBegins
<1>1. TypeOK' /\ PollTokens' = PollTokens
    BY <1>0 DEF TypeOK, PollTokens, WorkerBegins, HandlerBegins, clientVars, runVars, serverVars
<1> QED
    BY <1>0, <1>1, SameTokens DEF WorkerBegins, HandlerBegins, clientVars

LEMMA RunStep == ClientInv /\ (RunTask \/ WorkerEnd) => ClientInv'
<1> SUFFICES ASSUME ClientInv, RunTask \/ WorkerEnd PROVE ClientInv'
    OBVIOUS
<1>0. TypeOK /\ owner # "created"
    BY DEF ClientInv, NothingBeforeStart, RunTask, WorkerEnd
<1>1. CASE RunTask
    <2>1. tasks \in Seq(TaskType \cup {Nil}) /\ tasks \in Seq(Entry) /\ tasks # <<>>
          /\ current = Nil /\ tasks' = Tail(tasks) /\ current' = Head(tasks)
          /\ step = "begin" /\ UNCHANGED <<step, deffered>>
        BY <1>0, <1>1, Typed DEF RunTask
    <2>2. tasks' \in Seq(TaskType \cup {Nil}) /\ current' \in TaskType \cup {Nil}
        BY <2>1
    <2>3. TypeOK'
        BY <1>0, <1>1, <2>1, <2>2 DEF TypeOK, RunTask, clientVars, workerVars, serverVars
    <2>4. PollsIn(tasks) = PollsIn(tasks') + (IF current' \in PollTypes THEN 1 ELSE 0)
        BY <2>1, PollsTail
    <2>5. tasks' \in Seq(Entry)
        BY <2>1, PollsTail
    <2>6. PollsIn(tasks') \in Nat
        BY <2>5, PollsType
    <2>7. PollTokens' = PollTokens
        BY <1>0, <2>1, <2>4, <2>6, Counted, Tokens, SMTT(30) DEF PollTokens
    <2> QED
        BY <1>0, <1>1, <2>3, <2>7, SameTokens DEF RunTask, clientVars, workerVars
<1>2. CASE WorkerEnd
    <2>1. TypeOK' /\ PollTokens' = PollTokens
        BY <1>0, <1>2 DEF TypeOK, PollTokens, WorkerEnd, clientVars, runVars, serverVars
    <2> QED
        BY <1>0, <1>2, <2>1, SameTokens DEF WorkerEnd, clientVars, runVars
<1> QED
    BY <1>1, <1>2

----------------------------------------------------------------------------
(* The task being run. *)

\* It runs after Start only.
LEMMA Running ==
    ASSUME ClientInv, current # Nil \/ step # "begin"
    PROVE  TypeOK /\ owner # "created" /\ current \in TaskType
<1>1. TypeOK /\ current # Nil
    BY Typed DEF ClientInv
<1> QED
    BY <1>1, Typed DEF ClientInv, NothingBeforeStart

\* The steps that leave everything else alone.
LEMMA MoveStep == ClientInv /\ (Begin \/ Call \/ CallOnNull \/ RpcHangs \/ Report) => ClientInv'
<1> SUFFICES ASSUME ClientInv, Begin \/ Call \/ CallOnNull \/ RpcHangs \/ Report PROVE ClientInv'
    OBVIOUS
<1>0. current # Nil \/ step # "begin"
    BY Tokens DEF Begin, Call, CallOnNull, RpcHangs, Report, Answered
<1>1. TypeOK /\ owner # "created" /\ current \in TaskType
    BY <1>0, Running
<1>2. /\ UNCHANGED <<isRun, stub, owner, workerVars, serverVars, clientInfo, tasks, deffered>>
      /\ crashed' \in BOOLEAN /\ (crashed => crashed')
    <2>1. UNCHANGED <<isRun, stub, owner, workerVars, serverVars, clientInfo, tasks, deffered>>
        BY DEF Begin, Call, CallOnNull, RpcHangs, Report, runOthers, serverVars
    <2>2. crashed' = crashed \/ crashed' = TRUE
        BY DEF Begin, Call, CallOnNull, RpcHangs, Report
    <2>3. crashed \in BOOLEAN
        BY <1>1, Typed
    <2>4. crashed' \in BOOLEAN /\ (crashed => crashed')
        <3>1. CASE crashed' = crashed
            BY <2>3, <3>1
        <3>2. CASE crashed' = TRUE
            BY <3>2
        <3> QED
            BY <2>2, <3>1, <3>2
    <2> QED
        BY <2>1, <2>4
<1>3. \/ current' = current /\ step' \in {"begin", "call", "rpc", "report", "hung"}
      \/ current' = Nil /\ step' = "begin" /\ current = "UPDATE_TASK_LIST" /\ ~isRun
    BY <1>1, Typed DEF Begin, Call, CallOnNull, RpcHangs, Report, Return, runVars
<1>4. current # Nil
    BY <1>1, Tokens
<1>5. TypeOK'
    BY <1>1, <1>2, <1>3, <1>4 DEF TypeOK, workerVars, serverVars
<1>6. CASE current' = current
    <2>1. PollTokens' = PollTokens
        BY <1>2, <1>6 DEF PollTokens
    <2> QED
        BY <1>1, <1>2, <1>5, <2>1, SameTokens DEF workerVars
\* A poll that finds the client stopped ends its chain; it is not started any more.
<1>7. CASE current' = Nil /\ current = "UPDATE_TASK_LIST" /\ ~isRun
    <2>1. PollTokens' = PollTokens - 1
        BY <1>1, <1>2, <1>7, Counted, Tokens DEF PollTokens
    <2>2. owner # "started" /\ PollTokens <= 1 + joined
        BY <1>7 DEF ClientInv, StartedRuns, PollChains
    <2>3. PollTokens' <= 1 + joined' /\ owner' # "started" /\ owner' # "created"
        BY <1>1, <1>2, <2>1, <2>2, Counted DEF workerVars, serverVars
    <2>4. JoinedAreCreated'
        BY <1>2 DEF ClientInv, JoinedAreCreated, serverVars
    <2> QED
        BY <1>5, <2>3, <2>4
           DEF ClientInv, NothingBeforeStart, StartedRuns, PollChains
<1> QED
    BY <1>3, <1>6, <1>7

\* A task that returns and leaves one of its kind behind, in line or deferred.
LEMMA ReturnStep ==
    ASSUME ClientInv, current # Nil, Return,
           UNCHANGED <<isRun, stub, owner, workerVars, serverVars, crashed>>,
           clientInfo' \in {"empty", "ok"},
           tasks' \in Seq(TaskType \cup {Nil}), deffered' \in [TaskType -> Nat],
           PollsIn(tasks') + deffered'["MAKE_HANDSHAKE"] + deffered'["UPDATE_TASK_LIST"]
             = PollsIn(tasks) + deffered["MAKE_HANDSHAKE"] + deffered["UPDATE_TASK_LIST"]
               + (IF current \in PollTypes THEN 1 ELSE 0)
    PROVE  ClientInv'
<1>1. TypeOK /\ owner # "created"
    BY Running
<1>2. current' = Nil /\ step' = "begin"
    BY DEF Return
<1>3. TypeOK'
    BY <1>1, <1>2 DEF TypeOK, workerVars, serverVars
<1>4. PollTokens' = PollsIn(tasks') + deffered'["MAKE_HANDSHAKE"] + deffered'["UPDATE_TASK_LIST"] + 0
    BY <1>2, Tokens DEF PollTokens
<1>5. deffered'["MAKE_HANDSHAKE"] \in Nat /\ deffered'["UPDATE_TASK_LIST"] \in Nat
    BY Tokens
<1>6. PollsIn(tasks') \in Nat
    <2>1. tasks' \in Seq(Entry)
        BY SeqMonotonic DEF Entry
    <2> QED
        BY <2>1, PollsType
<1>7. PollTokens' = PollTokens
    BY <1>4, <1>5, <1>6 DEF PollTokens
<1> QED
    BY <1>1, <1>3, <1>7, SameTokens DEF workerVars

LEMMA AnsweredStep ==
    ASSUME ClientInv,
           HandshakeAccepted \/ HandshakeFailed \/ TaskListUnread \/ TorrentsGenerated
             \/ TorrentsHandled
    PROVE  ClientInv'
<1>0. current # Nil
    BY Tokens DEF HandshakeAccepted, HandshakeFailed, TaskListUnread, TorrentsGenerated,
                  TorrentsHandled, Answered
<1>1. TypeOK /\ owner # "created"
    BY <1>0, Running
<1>2. /\ Return /\ UNCHANGED <<isRun, stub, owner, workerVars, serverVars, crashed>>
      /\ clientInfo' \in {"empty", "ok"}
    BY <1>1, Typed DEF HandshakeAccepted, HandshakeFailed, TaskListUnread, TorrentsGenerated,
                       TorrentsHandled, runOthers, serverVars
<1>3. deffered \in [TaskType -> Nat] /\ tasks \in Seq(TaskType \cup {Nil})
    BY <1>1, Typed
<1>3a. /\ deffered["MAKE_HANDSHAKE"] \in Nat /\ deffered["UPDATE_TASK_LIST"] \in Nat
       /\ PollsIn(tasks) \in Nat
    BY <1>1, Counted
<1>4. CASE HandshakeAccepted
    <2>1. <<"UPDATE_TASK_LIST">> \in Seq(TaskType \cup {Unknown}) /\ PollsIn(<<"UPDATE_TASK_LIST">>) = 1
        BY Tokens, PollsOne
    <2>2. /\ AddTasks(tasks, <<"UPDATE_TASK_LIST">>) \in Seq(TaskType \cup {Nil})
          /\ PollsIn(AddTasks(tasks, <<"UPDATE_TASK_LIST">>))
                = PollsIn(tasks) + PollsIn(<<"UPDATE_TASK_LIST">>)
        BY <1>3, <2>1, PollsAdded
    <2>3. /\ tasks' = AddTasks(tasks, <<"UPDATE_TASK_LIST">>) /\ deffered' = deffered
          /\ current \in PollTypes
        BY <1>4, Tokens DEF HandshakeAccepted, Answered
    <2>4. tasks' \in Seq(TaskType \cup {Nil})
        BY <2>2, <2>3
    <2>4a. PollsIn(tasks') = PollsIn(tasks) + 1
        BY <2>1, <2>2, <2>3
    <2>5. PollsIn(tasks') + deffered'["MAKE_HANDSHAKE"] + deffered'["UPDATE_TASK_LIST"]
             = PollsIn(tasks) + deffered["MAKE_HANDSHAKE"] + deffered["UPDATE_TASK_LIST"]
               + (IF current \in PollTypes THEN 1 ELSE 0)
        <3>1. /\ deffered'["MAKE_HANDSHAKE"] = deffered["MAKE_HANDSHAKE"]
              /\ deffered'["UPDATE_TASK_LIST"] = deffered["UPDATE_TASK_LIST"]
              /\ (IF current \in PollTypes THEN 1 ELSE 0) = 1
            BY <2>3
        <3> QED
            BY <1>3a, <2>4a, <3>1
    <2>6. tasks' \in Seq(TaskType \cup {Nil}) /\ deffered' \in [TaskType -> Nat]
        BY <1>3, <2>3, <2>4
    <2> QED
        BY <1>0, <1>2, <2>5, <2>6, ReturnStep
<1>5. CASE HandshakeFailed
    <2>1. Deffer("MAKE_HANDSHAKE") /\ tasks' = tasks /\ current \in PollTypes
        BY <1>5, Tokens DEF HandshakeFailed, Answered
    <2>2. /\ deffered' \in [TaskType -> Nat]
          /\ deffered'["MAKE_HANDSHAKE"] = deffered["MAKE_HANDSHAKE"] + 1
          /\ deffered'["UPDATE_TASK_LIST"] = deffered["UPDATE_TASK_LIST"]
        BY <1>3, <2>1, Deffered, Tokens
    <2>5. PollsIn(tasks') + deffered'["MAKE_HANDSHAKE"] + deffered'["UPDATE_TASK_LIST"]
             = PollsIn(tasks) + deffered["MAKE_HANDSHAKE"] + deffered["UPDATE_TASK_LIST"]
               + (IF current \in PollTypes THEN 1 ELSE 0)
        BY <1>3a, <2>1, <2>2
    <2>6. tasks' \in Seq(TaskType \cup {Nil}) /\ deffered' \in [TaskType -> Nat]
        BY <1>3, <2>1, <2>2
    <2> QED
        BY <1>0, <1>2, <2>5, <2>6, ReturnStep
<1>6. CASE TaskListUnread
    <2>1. Deffer("UPDATE_TASK_LIST") /\ tasks' = tasks /\ current \in PollTypes
        BY <1>6, Tokens DEF TaskListUnread, Answered
    <2>2. /\ deffered' \in [TaskType -> Nat]
          /\ deffered'["UPDATE_TASK_LIST"] = deffered["UPDATE_TASK_LIST"] + 1
          /\ deffered'["MAKE_HANDSHAKE"] = deffered["MAKE_HANDSHAKE"]
        BY <1>3, <2>1, Deffered, Tokens
    <2>5. PollsIn(tasks') + deffered'["MAKE_HANDSHAKE"] + deffered'["UPDATE_TASK_LIST"]
             = PollsIn(tasks) + deffered["MAKE_HANDSHAKE"] + deffered["UPDATE_TASK_LIST"]
               + (IF current \in PollTypes THEN 1 ELSE 0)
        BY <1>3a, <2>1, <2>2
    <2>6. tasks' \in Seq(TaskType \cup {Nil}) /\ deffered' \in [TaskType -> Nat]
        BY <1>3, <2>1, <2>2
    <2> QED
        BY <1>0, <1>2, <2>5, <2>6, ReturnStep
<1>7. CASE TorrentsGenerated
    <2>1. Deffer("UPDATE_TORRENT_STATUS") /\ tasks' = tasks /\ current \notin PollTypes
        BY <1>7, Tokens DEF TorrentsGenerated, Answered
    <2>2. /\ deffered' \in [TaskType -> Nat]
          /\ deffered'["UPDATE_TASK_LIST"] = deffered["UPDATE_TASK_LIST"]
          /\ deffered'["MAKE_HANDSHAKE"] = deffered["MAKE_HANDSHAKE"]
        BY <1>3, <2>1, Deffered, Tokens
    <2>5. PollsIn(tasks') + deffered'["MAKE_HANDSHAKE"] + deffered'["UPDATE_TASK_LIST"]
             = PollsIn(tasks) + deffered["MAKE_HANDSHAKE"] + deffered["UPDATE_TASK_LIST"]
               + (IF current \in PollTypes THEN 1 ELSE 0)
        BY <1>3a, <2>1, <2>2
    <2>6. tasks' \in Seq(TaskType \cup {Nil}) /\ deffered' \in [TaskType -> Nat]
        BY <1>3, <2>1, <2>2
    <2> QED
        BY <1>0, <1>2, <2>5, <2>6, ReturnStep
<1>8. CASE TorrentsHandled
    <2>1. /\ <<"UPDATE_TORRENT_STATUS">> \in Seq(TaskType \cup {Unknown})
          /\ PollsIn(<<"UPDATE_TORRENT_STATUS">>) = 0
        BY Tokens, PollsOne
    <2>2. /\ AddTasks(tasks, <<"UPDATE_TORRENT_STATUS">>) \in Seq(TaskType \cup {Nil})
          /\ PollsIn(AddTasks(tasks, <<"UPDATE_TORRENT_STATUS">>))
                = PollsIn(tasks) + PollsIn(<<"UPDATE_TORRENT_STATUS">>)
        BY <1>3, <2>1, PollsAdded
    <2>3. /\ tasks' \in {tasks, AddTasks(tasks, <<"UPDATE_TORRENT_STATUS">>)}
          /\ deffered' = deffered /\ current \notin PollTypes
        BY <1>8, Tokens DEF TorrentsHandled
    <2>4. tasks' \in Seq(TaskType \cup {Nil}) /\ PollsIn(tasks') = PollsIn(tasks)
        BY <1>3, <1>3a, <2>1, <2>2, <2>3
    <2>5. PollsIn(tasks') + deffered'["MAKE_HANDSHAKE"] + deffered'["UPDATE_TASK_LIST"]
             = PollsIn(tasks) + deffered["MAKE_HANDSHAKE"] + deffered["UPDATE_TASK_LIST"]
               + (IF current \in PollTypes THEN 1 ELSE 0)
        BY <1>3a, <2>3, <2>4
    <2>6. tasks' \in Seq(TaskType \cup {Nil}) /\ deffered' \in [TaskType -> Nat]
        BY <1>3, <2>3, <2>4
    <2> QED
        BY <1>0, <1>2, <2>5, <2>6, ReturnStep
<1> QED
    BY <1>4, <1>5, <1>6, <1>7, <1>8

\* The server's tasks join the line: as many handshakes and polls as are counted in
\* joined, however much of the stream arrives.
LEMMA ReadStep ==
    ASSUME ClientInv, NEW n \in 0..Len(serverTasks), TaskListRead(n)
    PROVE  ClientInv'
<1> PICK got : got = SubSeq(serverTasks, 1, n)
    OBVIOUS
<1>0. current = "UPDATE_TASK_LIST"
    BY DEF TaskListRead, Answered
<1>1. TypeOK /\ owner # "created"
    BY <1>0, Running, Tokens
<1>2. /\ current' = Nil /\ step' = "begin" /\ serverTasks' = <<>>
      /\ tasks' = AddTasks(tasks, got) /\ joined' = joined + PollsIn(got)
      /\ Deffer("UPDATE_TASK_LIST")
      /\ UNCHANGED <<clientInfo, crashed, isRun, stub, owner, workerVars, created>>
    BY DEF TaskListRead, Return
<1>3. got \in Seq(TaskType \cup {Unknown}) /\ got \in Seq(Entry)
      /\ PollsIn(got) <= PollsIn(serverTasks)
    <2>1. serverTasks \in Seq(TaskType \cup {Unknown}) /\ serverTasks \in Seq(Entry)
        BY <1>1, Typed
    <2>2. got \in Seq(TaskType \cup {Unknown})
        BY <2>1
    <2> QED
        BY <2>1, <2>2, PollsCut
<1>4. PollsIn(got) \in Nat /\ PollsIn(serverTasks) \in Nat
    BY <1>1, <1>3, PollsType, Typed
<1>5. tasks' \in Seq(TaskType \cup {Nil})
    BY <1>1, <1>2, <1>3, PollsAdded, Typed
<1>6. PollsIn(tasks') = PollsIn(tasks) + PollsIn(got)
    BY <1>1, <1>2, <1>3, PollsAdded, Typed
<1>7. /\ deffered' \in [TaskType -> Nat]
      /\ deffered'["UPDATE_TASK_LIST"] = deffered["UPDATE_TASK_LIST"] + 1
      /\ deffered'["MAKE_HANDSHAKE"] = deffered["MAKE_HANDSHAKE"]
    BY <1>1, <1>2, Deffered, Tokens, Typed
<1>8. created \in Nat /\ joined \in Nat /\ created <= MaxTasks /\ MaxTasks \in Nat
    BY <1>1, Typed
<1>9. joined + PollsIn(serverTasks) <= created
    BY DEF ClientInv, JoinedAreCreated
<1>10. joined' \in 0..MaxTasks /\ joined' \in Nat /\ joined' <= created'
    BY <1>2, <1>3, <1>4, <1>8, <1>9
<1>11. TypeOK'
    BY <1>1, <1>2, <1>5, <1>7, <1>10 DEF TypeOK, workerVars
<1>12. PollTokens' = PollTokens + PollsIn(got)
    <2> DEFINE p == PollsIn(tasks)
               h == deffered["MAKE_HANDSHAKE"]
               u == deffered["UPDATE_TASK_LIST"]
               g == PollsIn(got)
    <2>1. PollTokens = p + h + u + 1
        BY <1>0, Tokens DEF PollTokens
    <2>2. PollTokens' = PollsIn(tasks') + deffered'["MAKE_HANDSHAKE"]
                        + deffered'["UPDATE_TASK_LIST"] + 0
        BY <1>2, Tokens DEF PollTokens
    <2>3. h \in Nat /\ u \in Nat /\ p \in Nat /\ g \in Nat
        BY <1>1, <1>4, Counted
    <2>4. PollTokens' = (p + g) + h + (u + 1) + 0
        BY <1>6, <1>7, <2>2
    <2> HIDE DEF p, h, u, g
    <2>5. (p + g) + h + (u + 1) + 0 = (p + h + u + 1) + g
        BY <2>3
    <2>6. PollTokens' = PollTokens + g
        BY <2>1, <2>4, <2>5
    <2> QED
        BY <2>6 DEF g
<1>13. PollTokens \in Nat
    BY <1>1, Counted
<1>14. PollChains'
    BY <1>2, <1>4, <1>8, <1>12, <1>13 DEF ClientInv, PollChains, workerVars
<1>15. JoinedAreCreated'
    <2>1. PollsIn(serverTasks') = 0
        BY <1>2, PollsEmpty
    <2> QED
        BY <1>10, <2>1 DEF JoinedAreCreated
<1> QED
    BY <1>1, <1>2, <1>11, <1>14, <1>15
       DEF ClientInv, NothingBeforeStart, StartedRuns, workerVars

LEMMA ServerStep ==
    ASSUME ClientInv, NEW ty \in ServerTypes, ServerAddTask(ty)
    PROVE  ClientInv'
<1>0. TypeOK
    BY DEF ClientInv
<1>1. /\ created < MaxTasks /\ created' = created + 1 /\ joined' = joined
      /\ serverTasks' = Append(serverTasks, ty)
      /\ UNCHANGED <<clientVars, tasks, deffered, workerVars, runVars, crashed>>
    BY DEF ServerAddTask
<1>2. created \in Nat /\ joined \in Nat /\ MaxTasks \in Nat /\ PollsIn(serverTasks) \in Nat
    BY <1>0, Typed
<1>3. serverTasks \in Seq(ServerTypes) /\ serverTasks \in Seq(Entry) /\ ty \in Entry
    BY <1>0, Typed, ServerTypesAssumption DEF Entry
<1>4. serverTasks' \in Seq(ServerTypes)
    BY <1>1, <1>3
<1>5. PollsIn(serverTasks') = PollsIn(serverTasks) + (IF ty \in PollTypes THEN 1 ELSE 0)
    BY <1>1, <1>3, PollsAppend
<1>6. TypeOK'
    BY <1>0, <1>1, <1>2, <1>4 DEF TypeOK, clientVars, workerVars, runVars
<1>7. JoinedAreCreated'
    BY <1>1, <1>2, <1>5 DEF ClientInv, JoinedAreCreated
<1>8. PollTokens' = PollTokens
    BY <1>1 DEF PollTokens, runVars
<1> QED
    BY <1>1, <1>6, <1>7, <1>8
       DEF ClientInv, NothingBeforeStart, StartedRuns, PollChains,
           clientVars, workerVars, runVars

----------------------------------------------------------------------------
LEMMA ClientStep == ClientInv /\ [Next]_vars => ClientInv'
<1> SUFFICES ASSUME ClientInv, [Next]_vars PROVE ClientInv'
    OBVIOUS
<1>1. CASE UNCHANGED vars
    <2>1. TypeOK' /\ PollTokens' = PollTokens
        BY <1>1 DEF ClientInv, TypeOK, PollTokens, vars, clientVars, workerVars, runVars, serverVars
    <2> QED
        BY <1>1, <2>1
           DEF ClientInv, JoinedAreCreated, NothingBeforeStart, StartedRuns,
               PollChains, vars, clientVars, workerVars, runVars, serverVars
<1>2. CASE Start \/ Stop \/ Destroy
    BY <1>2, StartStep, StopStep
<1>3. CASE WorkerStep
    <2>1. CASE \E n \in 0..Len(serverTasks) : TaskListRead(n)
        BY <2>1, ReadStep
    <2> QED
        BY <1>3, <2>1, BeginStep, RunStep, MoveStep, AnsweredStep DEF WorkerStep, TaskStep
<1>4. CASE HandlerStep \/ RpcHangs
    BY <1>4, BeginStep, ScanStep, FireStep, MoveStep DEF HandlerStep
<1>5. CASE \E ty \in ServerTypes : ServerAddTask(ty)
    BY <1>5, ServerStep
<1> QED
    BY <1>1, <1>2, <1>3, <1>4, <1>5 DEF Next, Finished

LEMMA ClientInit == Init => ClientInv
<1> SUFFICES ASSUME Init PROVE ClientInv
    OBVIOUS
<1>1. /\ tasks = <<>> /\ serverTasks = <<>> /\ joined = 0 /\ created = 0 /\ current = Nil
      /\ deffered["MAKE_HANDSHAKE"] = 0 /\ deffered["UPDATE_TASK_LIST"] = 0
      /\ worker = "off" /\ handler = "off" /\ owner = "created"
    BY Tokens DEF Init
<1>2. TypeOK
    <2>1. /\ <<>> \in Seq(TaskType \cup {Nil}) /\ <<>> \in Seq(ServerTypes) /\ 0 \in 0..MaxTasks
          /\ [ty \in TaskType |-> 0] \in [TaskType -> Nat]
        BY MaxTasksAssumption
    <2>2. FALSE \in BOOLEAN
        OBVIOUS
    <2> QED
        BY <2>1, <2>2, Zenon DEF Init, TypeOK
<1>3. PollTokens = 0
    BY <1>1, PollsEmpty, Tokens DEF PollTokens
<1> QED
    BY <1>1, <1>2, <1>3, PollsEmpty
       DEF ClientInv, JoinedAreCreated, NothingBeforeStart, StartedRuns,
           PollChains

\* The types, and what ties the chains to the server's tasks and to Start and Stop.
THEOREM ClientInvCorrect == Spec => []ClientInv
    BY ClientInit, ClientStep, PTL DEF Spec

\* Whatever RPC fails or hangs, whatever prefix of a stream arrives, whatever the threads'
\* start races do and whenever the client is stopped, the chains of handshakes and polls
\* are one and those the server itself started: never more, and never fewer before Stop.
THEOREM OneChain == Spec => []PollChains
<1>1. ClientInv => PollChains
    BY DEF ClientInv
<1> QED
    BY <1>1, ClientInvCorrect, PTL
=============================================================================
