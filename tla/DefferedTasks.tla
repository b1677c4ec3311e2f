--------------------------- MODULE DefferedTasks ----------------------------
(***************************************************************************)
(* When WorkingThread::DefferedTasksHandler fires its tasks                *)
(* (Daemon/common/working_thread.cpp).  The list holds, for each task, the *)
(* time it still has to wait; every wake-up charges the time of the wait   *)
(* that just ended to the whole list, and the next wait lasts as long as   *)
(* the smallest remaining time.                                            *)
(*                                                                         *)
(* A tick is a part of a millisecond, which is the unit the handler        *)
(* charges.  Time passes only while it waits: the threads' own steps take  *)
(* none, and wait_for returns when its time is up.  Stop and the start     *)
(* race are WorkingThread's; here the handler runs and is not stopped.     *)
(***************************************************************************)
EXTENDS Deadlines, Functions

CONSTANTS
    Tasks,      \* each is deferred at most once
    Delays,     \* the values of ms that callers pass
    MaxWakeUps  \* bound: spurious wake-ups

ASSUME DelaysAssumption == Delays \subseteq Nat
ASSUME MaxWakeUpsAssumption == MaxWakeUps \in Nat

VARIABLES
    pc,                 \* "start", "wait" or "woken"
    defferedTasksList,  \* sequence of [task, ms]
    nextWait,           \* how long the handler waits
    isFirstWait,
    waited,             \* ticks since t1, when the handler began to wait
    wakeUps             \* spurious wake-ups so far

history == <<asked, credit, beforeStart>>
vars == <<pc, defferedTasksList, nextWait, isFirstWait, waited, wakeUps, age, fired, cut,
          history>>

Listed == {defferedTasksList[i].task : i \in DOMAIN defferedTasksList}

Init ==
    /\ pc = "start"
    /\ defferedTasksList = <<>>
    /\ nextWait = Update
    /\ isFirstWait = TRUE
    /\ waited = 0 /\ wakeUps = 0
    /\ asked = [t \in Tasks |-> -1]
    /\ age = [t \in Tasks |-> 0]
    /\ fired = <<>>
    /\ credit = [t \in Tasks |-> 0]
    /\ beforeStart = {}
    /\ cut = [t \in Tasks |-> 0]

----------------------------------------------------------------------------
\* push_back and notify_one.
EnqueueTaskAfterTimeOut(t, ms) ==
    /\ asked[t] = -1
    /\ defferedTasksList' = Append(defferedTasksList, [task |-> t, ms |-> ms])
    /\ pc' = IF pc = "wait" THEN "woken" ELSE pc
    /\ asked' = [asked EXCEPT ![t] = ms]
    /\ credit' = [credit EXCEPT ![t] = IF isFirstWait THEN 0 ELSE waited]
    /\ beforeStart' = IF pc = "start" THEN beforeStart \cup {t} ELSE beforeStart
    /\ UNCHANGED <<nextWait, isFirstWait, waited, wakeUps, age, fired, cut>>

\* The handler thread begins its first wait.
Start ==
    /\ pc = "start"
    /\ pc' = "wait"
    /\ UNCHANGED <<defferedTasksList, nextWait, isFirstWait, waited, wakeUps, age, fired,
                   cut, history>>

\* A part of a millisecond passes in wait_for.
Tick ==
    /\ pc = "wait" /\ waited < Ticks(nextWait)
    /\ waited' = waited + 1
    /\ age' = [t \in Tasks |-> IF t \in Listed THEN age[t] + 1 ELSE age[t]]
    /\ UNCHANGED <<pc, defferedTasksList, nextWait, isFirstWait, wakeUps, fired, cut,
                   history>>

\* wait_for returns: its time is up ...
TimeOut ==
    /\ pc = "wait" /\ waited = Ticks(nextWait)
    /\ pc' = "woken"
    /\ UNCHANGED <<defferedTasksList, nextWait, isFirstWait, waited, wakeUps, age, fired,
                   cut, history>>

\* ... or it wakes spuriously.
WakeUp ==
    /\ pc = "wait" /\ wakeUps < MaxWakeUps
    /\ pc' = "woken" /\ wakeUps' = wakeUps + 1
    /\ UNCHANGED <<defferedTasksList, nextWait, isFirstWait, waited, age, fired, cut,
                   history>>

----------------------------------------------------------------------------
(* The loop body after wait_for, under defferedTasksMtx. *)

\* duration_cast cuts the elapsed time to whole milliseconds.
CurWait == waited \div Parts

\* A handler that does not sort its list.
Unsorted(list) == {list}

\* qsort by ms; equal entries may come out in any order.
Sorted(list) ==
    {s \in {[i \in DOMAIN list |-> list[p[i]]] : p \in Injection(DOMAIN list, DOMAIN list)} :
        \A i \in 1..Len(s) - 1 : s[i].ms <= s[i + 1].ms}

\* An entry that is due only after its time.
DueLater(e, curWait) == e.ms - curWait < 0

\* An entry is due when the wait covers what remains of its time.
Due(e, curWait) == e.ms - curWait <= 0

\* How many entries the loop over the list fires and erases: the list is sorted, so they
\* are its first ones.
Fires(list, curWait) ==
    {k \in 0..Len(list) : \A i \in DOMAIN list : Due(list[i], curWait) <=> i <= k}

\* The others stay, and the loop charges the wait to them.
Charge(list, k, curWait) ==
    [i \in 1..Len(list) - k |-> [list[k + i] EXCEPT !.ms = @ - curWait]]

\* An empty list: wait again, as long as before.
HandleNothing ==
    /\ pc = "woken" /\ defferedTasksList = <<>>
    /\ pc' = "wait" /\ waited' = 0
    /\ UNCHANGED <<defferedTasksList, nextWait, isFirstWait, wakeUps, age, fired, cut,
                   history>>

\* The first wake-up with tasks in the list charges them nothing.
HandleFirst ==
    /\ pc = "woken" /\ defferedTasksList # <<>> /\ isFirstWait
    /\ \E list \in Sorted(defferedTasksList) :
          /\ defferedTasksList' = list
          /\ nextWait' = list[1].ms
    /\ isFirstWait' = FALSE
    /\ pc' = "wait" /\ waited' = 0
    /\ UNCHANGED <<wakeUps, age, fired, cut, history>>

\* Later wake-ups fire what is due and charge the rest.
Handle ==
    /\ pc = "woken" /\ defferedTasksList # <<>> /\ ~isFirstWait
    /\ \E list \in Sorted(defferedTasksList) : \E k \in Fires(list, CurWait) :
          LET rest == Charge(list, k, CurWait)
          IN  /\ fired' = fired \o [i \in 1..k |-> list[i].task]
              /\ defferedTasksList' = rest
              /\ isFirstWait' = (rest = <<>>)
              /\ nextWait' = IF rest = <<>> THEN Update ELSE rest[1].ms
    /\ cut' = [t \in Tasks |-> IF t \in Listed /\ waited # Ticks(CurWait)
                               THEN cut[t] + 1 ELSE cut[t]]
    /\ pc' = "wait" /\ waited' = 0
    /\ UNCHANGED <<wakeUps, age, history>>

Next ==
    \/ \E t \in Tasks, ms \in Delays : EnqueueTaskAfterTimeOut(t, ms)
    \/ Start \/ Tick \/ TimeOut \/ WakeUp \/ HandleNothing \/ HandleFirst \/ Handle

\* The handler runs, and time passes.
Fairness ==
    /\ WF_vars(Start) /\ WF_vars(HandleNothing \/ HandleFirst \/ Handle)
    /\ WF_vars(TimeOut) /\ SF_vars(Tick)

Spec == Init /\ [][Next]_vars /\ Fairness

----------------------------------------------------------------------------
TypeOK ==
    /\ pc \in {"start", "wait", "woken"}
    /\ defferedTasksList \in Seq([task : Tasks, ms : Nat])
    /\ nextWait \in Nat /\ waited \in 0..Ticks(nextWait)
    /\ wakeUps \in 0..MaxWakeUps
    /\ isFirstWait \in BOOLEAN
    /\ asked \in [Tasks -> Delays \cup {-1}]
    /\ age \in [Tasks -> Nat] /\ credit \in [Tasks -> Nat] /\ cut \in [Tasks -> Nat]
    /\ fired \in Seq(Tasks)
    /\ beforeStart \in SUBSET Tasks

\* Every deferred task is fired, although each wake-up recomputes the next wait: as
\* long as the handler is not woken in every millisecond for ever (MaxWakeUps).
EveryTaskFires ==
    \A t \in Tasks : (t \in Listed) ~> (\E i \in DOMAIN fired : fired[i] = t)
=============================================================================
