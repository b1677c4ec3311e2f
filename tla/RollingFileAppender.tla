------------------------ MODULE RollingFileAppender -------------------------
(***************************************************************************)
(* The daemon's log: plog's RollingFileAppender (plog/Appenders) over      *)
(* util::File (LogFiles), as one child after the other uses it.  m_mutex*)
(* makes the threads of a process take turns, so a process writes one      *)
(* record at a time; it may die between any two system calls, and a child  *)
(* that is slow to stop may still log when the next daemon's child does,   *)
(* for the parent does not wait for it (VerAIDaemonProc).                  *)
(*                                                                         *)
(* Sizes are in records; the header, a byte order mark, counts as one.  A  *)
(* file is written at the offset of the process, without O_APPEND.         *)
(***************************************************************************)
EXTENDS LogFiles, FiniteSets

CONSTANTS
    Processes,
    m_maxFileSize,
    m_lastFileNumber,
    MaxRecords,     \* bound: records logged
    MaxStarts       \* bound: processes started

ASSUME SizesAssumption == m_maxFileSize \in Nat /\ m_lastFileNumber \in Nat
ASSUME LogBoundsAssumption == MaxRecords \in Nat /\ MaxStarts \in Nat
ASSUME ProcessesAssumption == IsFiniteSet(Processes)

Files == 1..(m_lastFileNumber + 1 + Cardinality(Processes))    \* inodes

VARIABLES
    proc,           \* the appender of each process
    starts          \* history: processes started

vars == <<names, content, proc, number, starts, failed, overlapped>>
history == <<starts, failed, overlapped>>

Dead == [pc |-> "dead", m_file |-> None, offset |-> 0, m_fileSize |-> 0,
         m_firstWrite |-> TRUE, n |-> 0]

Init ==
    /\ names = [n \in 0..m_lastFileNumber |-> None]
    /\ content = [f \in Files |-> <<>>]
    /\ proc = [p \in Processes |-> Dead]
    /\ number = 0 /\ starts = 0
    /\ failed = FALSE /\ overlapped = FALSE

At(p, pc) == proc[p].pc = pc
Goto(p, pc) == proc' = [proc EXCEPT ![p].pc = pc]

----------------------------------------------------------------------------
Start(p) ==
    /\ At(p, "dead") /\ starts < MaxStarts
    /\ starts' = starts + 1
    /\ Goto(p, "idle")
    /\ UNCHANGED <<names, content, number, failed, overlapped>>

\* The process ends, wherever it is; the kernel closes its file.
Die(p) ==
    /\ ~At(p, "dead")
    /\ proc' = [proc EXCEPT ![p] = Dead]
    /\ UNCHANGED <<names, content, number, history>>

\* write(): open, roll or neither, and then the record.  A file that could not be
\* opened has size -1 and is not tried again.
Write(p) ==
    /\ At(p, "idle") /\ number < MaxRecords
    /\ LET me   == proc[p]
           roll == m_lastFileNumber > 0 /\ me.m_fileSize > m_maxFileSize
       IN  proc' = [proc EXCEPT ![p].pc = CASE me.m_firstWrite -> "open"
                                            [] ~me.m_firstWrite /\ roll -> "unlink"
                                            [] OTHER -> "write",
                                ![p].m_file = IF ~me.m_firstWrite /\ roll THEN None ELSE @,
                                ![p].m_firstWrite = FALSE]
    /\ UNCHANGED <<names, content, number, history>>

\* rollLogFiles: the last file goes ...
Unlink(p) ==
    /\ At(p, "unlink")
    /\ FileUnlink(m_lastFileNumber)
    /\ proc' = [proc EXCEPT ![p].pc = "rename", ![p].n = m_lastFileNumber - 1]
    /\ UNCHANGED <<content, number, history>>

\* ... and the others move up, in descending order; nobody looks at the result.
Rename(p) ==
    /\ At(p, "rename")
    /\ FileRename(proc[p].n, proc[p].n + 1)
    /\ proc' = [proc EXCEPT ![p].pc = IF proc[p].n = 0 THEN "open" ELSE @,
                            ![p].n = IF @ = 0 THEN 0 ELSE @ - 1]
    /\ UNCHANGED <<content, number, starts, overlapped>>

\* An openLogFile that does not go to the end of the file.
OpenAtStart(p) ==
    /\ At(p, "open")
    /\ LET held == {names[n] : n \in DOMAIN names} \cup {proc[q].m_file : q \in Processes}
           file == IF names[0] # None THEN names[0] ELSE CHOOSE f \in Files : f \notin held
       IN  /\ names' = [names EXCEPT ![0] = file]
           /\ content' = [content EXCEPT ![file] = IF names[0] # None THEN @ ELSE <<>>]
           /\ proc' = [proc EXCEPT ![p].pc = "header", ![p].m_file = file, ![p].offset = 0,
                                   ![p].m_fileSize = 0]
    /\ overlapped' = (overlapped \/ \E q \in Processes \ {p} : proc[q].m_file # None)
    /\ UNCHANGED <<number, starts, failed>>

\* openLogFile: the file is created if it is not there, and written at its end.
OpenLogFile(p) ==
    /\ At(p, "open")
    /\ LET held  == {names[n] : n \in DOMAIN names} \cup {proc[q].m_file : q \in Processes}
           file  == IF names[0] # None THEN names[0]
                    ELSE CHOOSE f \in Files : f \notin held
           size  == IF names[0] # None THEN Len(content[file]) ELSE 0
       IN  /\ names' = [names EXCEPT ![0] = file]
           /\ content' = [content EXCEPT ![file] = SubSeq(@, 1, size)]
           /\ proc' = [proc EXCEPT ![p].pc = IF size = 0 THEN "header" ELSE "write",
                                   ![p].m_file = file, ![p].offset = size,
                                   ![p].m_fileSize = size]
    /\ overlapped' = (overlapped \/ \E q \in Processes \ {p} : proc[q].pc \notin {"dead", "idle"}
                                                              \/ proc[q].m_file # None)
    /\ UNCHANGED <<number, starts, failed>>

OpenFails(p) ==
    /\ At(p, "open")
    /\ proc' = [proc EXCEPT ![p].pc = "write", ![p].m_fileSize = -1]
    /\ failed' = TRUE
    /\ UNCHANGED <<names, content, number, starts, overlapped>>

\* util::File::write at the process's offset, over what is there.
FileWrite(p, cell, pc) ==
    LET me == proc[p]
    IN  /\ content' = [content EXCEPT ![me.m_file] =
              [i \in 1..(IF me.offset < Len(@) THEN Len(@) ELSE me.offset + 1) |->
                  IF i = me.offset + 1 THEN cell ELSE @[i]]]
        /\ proc' = [proc EXCEPT ![p].offset = @ + 1, ![p].m_fileSize = @ + 1, ![p].pc = pc]

WriteHeader(p) ==
    /\ At(p, "header")
    /\ FileWrite(p, Header, "write")
    /\ UNCHANGED <<names, number, history>>

WriteRecord(p) ==
    /\ At(p, "write") /\ number' = number + 1
    /\ IF proc[p].m_file # None THEN FileWrite(p, number', "idle")
                                ELSE Goto(p, "idle") /\ UNCHANGED content
    /\ UNCHANGED <<names, history>>

----------------------------------------------------------------------------
Next ==
    \E p \in Processes :
        \/ Start(p) \/ Die(p) \/ Write(p) \/ Unlink(p) \/ Rename(p)
        \/ OpenLogFile(p) \/ OpenFails(p) \/ WriteHeader(p) \/ WriteRecord(p)

Spec == Init /\ [][Next]_vars

----------------------------------------------------------------------------
Places == {"dead", "idle", "open", "unlink", "rename", "header", "write"}

TypeOK ==
    /\ names \in [0..m_lastFileNumber -> Files \cup {None}]
    /\ content \in [Files -> Seq(Nat)]
    /\ proc \in [Processes -> [pc : Places, m_file : Files \cup {None}, offset : Nat,
                               m_fileSize : Int, m_firstWrite : BOOLEAN, n : Nat]]
    /\ number \in Nat /\ starts \in 0..MaxStarts
    /\ failed \in BOOLEAN /\ overlapped \in BOOLEAN
=============================================================================
