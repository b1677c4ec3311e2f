----------------------------- MODULE Deadlines ------------------------------
(***************************************************************************)
(* Deferred tasks as the callers of EnqueueTaskAfterTimeOut see them: when *)
(* each was deferred and for how long, and what has been put into the main *)
(* queue since (Daemon/common/working_thread.h).                           *)
(***************************************************************************)
EXTENDS Integers, Sequences

CONSTANTS
    Update,     \* updateDefferedTasksMS
    Parts       \* ticks of the clock in a millisecond

ASSUME UpdateAssumption == Update \in Nat \ {0}
ASSUME PartsAssumption == Parts \in Nat \ {0}

VARIABLES
    asked,              \* history: asked[t], the ms of the call, -1 before it
    age,                \* history: ticks since the call, until the task is fired
    fired,              \* history: the tasks fired, in order
    credit,             \* history: ticks the handler had already waited at the call
    beforeStart,        \* history: the tasks deferred before the first wait
    cut                 \* history: waits charged to the task that ended within a millisecond

Ticks(ms) == ms * Parts

\* A task waits longer than was asked for by less than a millisecond for each wait that
\* was ended by something else within one, whose elapsed time is cut to whole
\* milliseconds (working_thread.cpp:139); a handler that is woken in every millisecond
\* fires nothing.  Otherwise none does, whatever is deferred before and after it: the
\* sort keeps the next wait as short as the nearest task needs.  A task deferred before
\* the handler's first wait may be late by that idle wait, too.
LateByCutsOnly ==
    \A t \in DOMAIN asked :
        asked[t] # -1 =>
            age[t] <= Ticks(asked[t] + cut[t] + (IF t \in beforeStart THEN Update ELSE 0))

\* A task is fired early by at most the time the handler had already waited when
\* the task was deferred, and not at all when the list had been empty; against
\* working_thread.h:68, which calls ms the "time in milliseconds to wait before task
\* will be added to main queue".
EarlyByCreditOnly ==
    \A i \in DOMAIN fired :
        age[fired[i]] >= Ticks(asked[fired[i]]) - credit[fired[i]]

\* DefferedTasksHandler, which charges every wait to the whole list and sorts what is
\* left, fires a task late only by what the cuts lose, and early only by the wait it
\* came into.
OnTime == LateByCutsOnly /\ EarlyByCreditOnly
=============================================================================
