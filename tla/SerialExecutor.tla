--------------------------- MODULE SerialExecutor ---------------------------
(***************************************************************************)
(* What common::WorkingThread promises its callers                         *)
(* (Daemon/common/working_thread.h, the class comment): one line of        *)
(* pending tasks, run one at a time from its front.  A caller may add a    *)
(* task at the end or nearer to the front, and may discard tasks from the  *)
(* end of the line.  Nil entries only wake the executor up.                *)
(***************************************************************************)
EXTENDS Integers, Sequences

CONSTANTS
    Tasks,      \* each is submitted at most once
    Nil         \* an empty shared_ptr, not a task

VARIABLES
    pending,    \* entries not yet run, next one first
    executed,   \* tasks run, in order
    accepted    \* tasks ever added to the line

vars == <<pending, executed, accepted>>

Init ==
    /\ pending = <<>>
    /\ executed = <<>>
    /\ accepted = {}

Submit(t) ==
    /\ t \notin accepted
    /\ pending' = Append(pending, t)
    /\ accepted' = accepted \cup {t}
    /\ UNCHANGED executed

\* Ahead of some of the pending entries: a batch already handed to the thread
\* is not overtaken, so the place is not always the very front.
SubmitAhead(t) ==
    /\ t \notin accepted
    /\ \E k \in 0..Len(pending) :
          pending' = SubSeq(pending, 1, k) \o <<t>>
                         \o SubSeq(pending, k + 1, Len(pending))
    /\ accepted' = accepted \cup {t}
    /\ UNCHANGED executed

WakeUp ==
    /\ pending' = Append(pending, Nil)
    /\ UNCHANGED <<executed, accepted>>

Execute ==
    /\ pending # <<>>
    /\ pending' = Tail(pending)
    /\ executed' = IF Head(pending) = Nil THEN executed
                                          ELSE Append(executed, Head(pending))
    /\ UNCHANGED accepted

Discard ==
    /\ \E k \in 0..Len(pending) : pending' = SubSeq(pending, 1, k)
    /\ UNCHANGED <<executed, accepted>>

Next ==
    \/ \E t \in Tasks : Submit(t) \/ SubmitAhead(t)
    \/ WakeUp \/ Execute \/ Discard

Spec == Init /\ [][Next]_vars
=============================================================================
