------------------------------ MODULE LogFiles ------------------------------
(***************************************************************************)
(* The files of the daemon's log as they are on disk, and what they keep   *)
(* of the records logged, whoever wrote them: the two system calls of      *)
(* util::File (plog/Util.h) that change names, and the reader's view.      *)
(***************************************************************************)
EXTENDS Integers, Sequences

VARIABLES
    names,          \* names[n]: the file of buildFileName(n)
    content,        \* content[f]: what is in it
    number,         \* history: the last record's number
    failed,         \* history: a system call failed
    overlapped      \* history: two processes had the log open

Header == 0         \* record numbers begin with 1
None == 0           \* no file

\* util::File's unlink, and its rename, which may fail; one of a file that is not there
\* changes nothing.
FileUnlink(n) == names' = [names EXCEPT ![n] = None]

FileRename(n, m) ==
    \/ /\ names' = IF names[n] = None THEN names
                    ELSE [names EXCEPT ![m] = names[n], ![n] = None]
       /\ UNCHANGED failed
    \/ names[n] # None /\ failed' = TRUE /\ UNCHANGED names

----------------------------------------------------------------------------
\* What is in the file of name n.
Text(n) == IF names[n] = None THEN <<>> ELSE content[names[n]]

IsKept(record) ==
    \E n \in DOMAIN names : \E i \in 1..Len(Text(n)) : Text(n)[i] = record

\* The records come in the order they were logged in, from the oldest file to the newest.
InOrder ==
    \A n, m \in DOMAIN names : \A i \in 1..Len(Text(n)), j \in 1..Len(Text(m)) :
        /\ n > m \/ (n = m /\ i < j)
        /\ Text(n)[i] # Header /\ Text(m)[j] # Header
        => Text(n)[i] < Text(m)[j]

\* Read in order, the files hold the last records logged, each once and without a gap,
\* wherever in a roll processes died; unless a system call failed or two processes
\* overlapped.
KeptIsSuffix ==
    (~failed /\ ~overlapped) =>
        /\ InOrder
        /\ \A n \in DOMAIN names : \A i \in 1..Len(Text(n)) : Text(n)[i] <= number
        /\ number > 0 => IsKept(number)
        /\ \A record \in 1..number - 1 : IsKept(record) => IsKept(record + 1)
=============================================================================
