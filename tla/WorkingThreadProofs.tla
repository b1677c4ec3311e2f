------------------------ MODULE WorkingThreadProofs -------------------------
(***************************************************************************)
(* Proofs about WorkingThread for any set of tasks: its types, what Stop   *)
(* guarantees, and that it implements SerialExecutor.                      *)
(***************************************************************************)
EXTENDS WorkingThread, Deadlines, SequenceTheorems, WellFoundedInduction, TLAPS

(***************************************************************************)
(* The elements of a sequence.                                             *)
(***************************************************************************)

\* Appending adds one element.
LEMMA RangeAppend ==
    ASSUME NEW S, NEW s \in Seq(S), NEW e \in S
    PROVE  /\ SeqRange(Append(s, e)) = SeqRange(s) \cup {e}
           /\ Append(s, e) \in Seq(S)
<1>1. /\ Len(Append(s, e)) = Len(s) + 1
      /\ \A i \in 1..Len(s) : Append(s, e)[i] = s[i]
      /\ Append(s, e)[Len(s) + 1] = e
      /\ Len(s) \in Nat
    OBVIOUS
<1> QED
    BY <1>1 DEF SeqRange

\* The elements of a concatenation.
LEMMA RangeConcat ==
    ASSUME NEW S, NEW s \in Seq(S), NEW t \in Seq(S)
    PROVE  /\ SeqRange(s \o t) = SeqRange(s) \cup SeqRange(t)
           /\ s \o t \in Seq(S)
<1>1. /\ Len(s) \in Nat /\ Len(t) \in Nat
      /\ Len(s \o t) = Len(s) + Len(t)
      /\ \A i \in 1..Len(s) : (s \o t)[i] = s[i]
      /\ \A i \in 1..Len(t) : (s \o t)[Len(s) + i] = t[i]
    OBVIOUS
<1>2. SeqRange(s \o t) \subseteq SeqRange(s) \cup SeqRange(t)
    <2> SUFFICES ASSUME NEW i \in 1..Len(s) + Len(t)
                 PROVE  (s \o t)[i] \in SeqRange(s) \cup SeqRange(t)
        BY <1>1 DEF SeqRange
    <2>1. CASE i <= Len(s)
        BY <2>1, <1>1 DEF SeqRange
    <2>2. CASE i > Len(s)
        <3>1. i - Len(s) \in 1..Len(t) /\ Len(s) + (i - Len(s)) = i
            BY <2>2, <1>1
        <3> QED
            BY <3>1, <1>1 DEF SeqRange
    <2> QED
        BY <2>1, <2>2, <1>1
<1>3. \A i \in 1..Len(s) : s[i] \in SeqRange(s \o t)
    BY <1>1 DEF SeqRange
<1>4. \A i \in 1..Len(t) : t[i] \in SeqRange(s \o t)
    <2> TAKE i \in 1..Len(t)
    <2>1. Len(s) + i \in 1..Len(s \o t)
        BY <1>1
    <2> QED
        BY <2>1, <1>1 DEF SeqRange
<1>5. s \o t \in Seq(S)
    OBVIOUS
<1> QED
    BY <1>2, <1>3, <1>4, <1>5 DEF SeqRange

\* The elements of a non-empty sequence are its head and those of its tail.
LEMMA RangeHeadTail ==
    ASSUME NEW S, NEW s \in Seq(S), s # <<>>
    PROVE  /\ SeqRange(s) = {Head(s)} \cup SeqRange(Tail(s))
           /\ Head(s) \in S /\ Tail(s) \in Seq(S)
<1>1. /\ Len(s) \in Nat \ {0} /\ Head(s) = s[1] /\ Head(s) \in S
      /\ Tail(s) \in Seq(S) /\ Len(Tail(s)) = Len(s) - 1
      /\ \A i \in 1..Len(s) - 1 : Tail(s)[i] = s[i + 1]
    OBVIOUS
<1>2. ASSUME NEW i \in 1..Len(s) PROVE s[i] \in {Head(s)} \cup SeqRange(Tail(s))
    <2>1. CASE i = 1
        BY <2>1, <1>1
    <2>2. CASE i # 1
        <3>1. i - 1 \in 1..Len(Tail(s)) /\ Tail(s)[i - 1] = s[i]
            BY <2>2, <1>1
        <3> QED
            BY <3>1 DEF SeqRange
    <2> QED
        BY <2>1, <2>2
<1>3. ASSUME NEW i \in 1..Len(Tail(s)) PROVE Tail(s)[i] \in SeqRange(s)
    <2>1. i + 1 \in 1..Len(s) /\ Tail(s)[i] = s[i + 1]
        BY <1>1
    <2> QED
        BY <2>1 DEF SeqRange
<1>4. Head(s) \in SeqRange(s)
    BY <1>1 DEF SeqRange
<1> QED
    BY <1>1, <1>2, <1>3, <1>4 DEF SeqRange

\* Sequences with no and with one element.
LEMMA RangeSmall ==
    /\ SeqRange(<<>>) = {}
    /\ \A e : SeqRange(<<e>>) = {e}
PROOF BY DEF SeqRange

(***************************************************************************)
(* Types.                                                                  *)
(***************************************************************************)

\* In a typed state, the line of pending entries is typed too, and its elements
\* are those of the batch and of the queue.
LEMMA LineType ==
    ASSUME TypeOK
    PROVE  /\ deq \o taskQueue \in Seq(Entries)
           /\ Queued = (SeqRange(deq) \cup SeqRange(taskQueue)) \ {Nil}
           /\ Queued \subseteq Tasks
           /\ SeqRange(taskQueue) \subseteq Entries
           /\ SeqRange(executed) \subseteq Tasks
<1>1. /\ deq \in Seq(Entries) /\ taskQueue \in Seq(Entries) /\ executed \in Seq(Tasks)
    BY DEF TypeOK
<1>2. /\ SeqRange(deq) \subseteq Entries /\ SeqRange(taskQueue) \subseteq Entries
      /\ SeqRange(executed) \subseteq Tasks
    BY <1>1 DEF SeqRange
<1> QED
    BY <1>1, <1>2, RangeConcat DEF Queued, Entries

\* Running an entry keeps the type of the history.
LEMMA RunEntryType ==
    ASSUME executed \in Seq(Tasks), NEW e \in Entries, RunEntry(e)
    PROVE  /\ executed' \in Seq(Tasks)
           /\ SeqRange(executed') = SeqRange(executed) \cup ({e} \ {Nil})
<1>1. CASE e = Nil
    BY <1>1 DEF RunEntry
<1>2. CASE e # Nil
    <2>1. e \in Tasks /\ executed' = Append(executed, e)
        BY <1>2 DEF Entries, RunEntry
    <2> QED
        BY <1>2, <2>1, RangeAppend
<1> QED
    BY <1>1, <1>2

\* Every step keeps the flags Boolean.
LEMMA FlagsStep == FlagsOK /\ [Next]_vars => FlagsOK'
<1> SUFFICES ASSUME FlagsOK, [Next]_vars PROVE FlagsOK'
    OBVIOUS
<1> USE DEF FlagsOK, workVars, defVars, ownerVars
<1>1. CASE UNCHANGED vars
    BY <1>1 DEF vars
<1>2. CASE Submitters
    BY <1>2, Zenon DEF Submitters, EnqueueTask, EnqueueTaskFront, EnqueueTaskAfterTimeOut
<1>3. CASE OwnerCalls \/ OwnerStep
    <2>1. CASE RunWorker \/ RunHandler
        BY <2>1, Zenon DEF RunWorker, RunHandler, ownerRest
    <2>2. CASE ClearQueueTasks
        BY <2>2, Zenon DEF ClearQueueTasks
    <2>3. CASE Stop \/ Destroy
        BY <2>3, Zenon DEF Stop, Destroy, StopStore
    <2>4. CASE StopPush \/ StopNotify
        BY <2>4, Zenon DEF StopPush, StopNotify, ownerRest
    <2>5. CASE JoinWork \/ JoinDeffered
        BY <2>5, Zenon DEF JoinWork, JoinDeffered, ownerRest
    <2> QED
        BY <1>3, <2>1, <2>2, <2>3, <2>4, <2>5 DEF OwnerCalls, OwnerStep
<1>4. CASE WorkStep
    <2>1. CASE WorkStart \/ WorkLoop \/ WorkBatchEnd
        BY <2>1, Zenon DEF WorkStart, WorkLoop, WorkBatchEnd, workOthers
    <2>2. CASE WorkPoll
        BY <2>2, Zenon DEF WorkPoll, vars
    <2>3. CASE WorkTake \/ WorkBatch
        BY <2>3, Zenon DEF WorkTake, WorkBatch, workOthers
    <2>4. CASE WorkDrain \/ WorkPop \/ WorkPopThrows \/ WorkClose
        BY <2>4, Zenon DEF WorkDrain, WorkPop, WorkPopThrows, WorkClose, workOthers
    <2> QED
        BY <1>4, <2>1, <2>2, <2>3, <2>4 DEF WorkStep
<1>5. CASE DefStep
    <2>1. CASE DefStart \/ DefCheck \/ DefWait \/ DefTimeout \/ DefWake
        BY <2>1, Zenon DEF DefStart, DefCheck, DefWait, DefTimeout, DefWake, defOthers
    <2>2. CASE DefFirstScan \/ (\E t \in Tasks : DefFire(t)) \/ DefScanEnd
        BY <2>2, Zenon DEF DefFirstScan, DefFire, DefScanEnd, defOthers
    <2> QED
        BY <1>5, <2>1, <2>2 DEF DefStep
<1> QED
    BY <1>1, <1>2, <1>3, <1>4, <1>5 DEF Next, Finished

\* Every step keeps the variables in their types.
LEMMA TypeStep == TypeOK /\ [Next]_vars => TypeOK'
<1> SUFFICES ASSUME TypeOK, [Next]_vars PROVE TypeOK'
    OBVIOUS
<1>0. FlagsOK'
    BY FlagsStep DEF TypeOK
<1> USE <1>0 DEF workVars, defVars, ownerVars
<1>1. CASE UNCHANGED vars
    BY <1>1 DEF vars, TypeOK
<1>2. ASSUME NEW t \in Tasks, EnqueueTask(t) PROVE TypeOK'
    BY <1>2 DEF EnqueueTask, TypeOK, Entries
<1>3. ASSUME NEW t \in Tasks, EnqueueTaskFront(t) PROVE TypeOK'
    BY <1>3 DEF EnqueueTaskFront, TypeOK, Entries
<1>4. ASSUME NEW t \in Tasks, EnqueueTaskAfterTimeOut(t) PROVE TypeOK'
    BY <1>4 DEF EnqueueTaskAfterTimeOut, TypeOK, MaySubmit
<1>5. CASE RunWorker
    BY <1>5 DEF RunWorker, ownerRest, TypeOK
<1>6. CASE RunHandler
    BY <1>6 DEF RunHandler, ownerRest, TypeOK
<1>7. CASE ClearQueueTasks
    BY <1>7, LineType DEF ClearQueueTasks, TypeOK, Entries
<1>8. CASE Stop \/ Destroy
    BY <1>8, LineType DEF Stop, Destroy, StopStore, TypeOK
<1>9. CASE StopPush
    BY <1>9 DEF StopPush, ownerRest, TypeOK, Entries
<1>10. CASE StopNotify
    BY <1>10 DEF StopNotify, ownerRest, TypeOK
<1>11. CASE JoinWork \/ JoinDeffered
    BY <1>11 DEF JoinWork, JoinDeffered, ownerRest, TypeOK
<1>12. CASE WorkStart \/ WorkLoop \/ WorkBatchEnd \/ WorkDrain \/ WorkPopThrows
                      \/ WorkClose
    BY <1>12 DEF WorkStart, WorkLoop, WorkBatchEnd, WorkDrain, WorkPopThrows,
                 WorkClose, workOthers, TypeOK
<1>13. CASE WorkPoll
    BY <1>13 DEF WorkPoll, vars, TypeOK
<1>14. CASE WorkTake
    BY <1>14 DEF WorkTake, workOthers, TypeOK
<1>15. CASE WorkBatch
    <2>1. Head(deq) \in Entries /\ Tail(deq) \in Seq(Entries)
        BY <1>15, RangeHeadTail DEF WorkBatch, TypeOK
    <2>2. executed' \in Seq(Tasks)
        BY <1>15, <2>1, RunEntryType DEF WorkBatch, TypeOK
    <2> QED
        BY <1>15, <2>1, <2>2 DEF WorkBatch, workOthers, TypeOK
<1>16. CASE WorkPop
    <2>1. Head(taskQueue) \in Entries /\ Tail(taskQueue) \in Seq(Entries)
        BY <1>16, RangeHeadTail DEF WorkPop, TypeOK
    <2>2. executed' \in Seq(Tasks)
        BY <1>16, <2>1, RunEntryType DEF WorkPop, TypeOK
    <2> QED
        BY <1>16, <2>1, <2>2 DEF WorkPop, workOthers, TypeOK
<1>17. CASE DefStart \/ DefCheck \/ DefWait \/ DefTimeout \/ DefWake \/ DefFirstScan
    BY <1>17 DEF DefStart, DefCheck, DefWait, DefTimeout, DefWake, DefFirstScan,
                 defOthers, TypeOK
<1>18. ASSUME NEW t \in Tasks, DefFire(t) PROVE TypeOK'
    BY <1>18 DEF DefFire, defOthers, TypeOK, Entries
<1>19. CASE DefScanEnd
    BY <1>19 DEF DefScanEnd, defOthers, TypeOK
<1> QED
    BY <1>1, <1>2, <1>3, <1>4, <1>5, <1>6, <1>7, <1>8, <1>9, <1>10, <1>11, <1>12,
       <1>13, <1>14, <1>15, <1>16, <1>17, <1>18, <1>19
       DEF Next, Submitters, OwnerCalls, OwnerStep, WorkStep, DefStep, Finished

\* The variables keep their types, and no thread outlives the object.
THEOREM TypeCorrect == Spec => []TypeOK
<1>1. Init => FlagsOK
    BY Zenon DEF Init, FlagsOK
<1>2. Init => TypeOK
    BY <1>1 DEF Init, TypeOK
<1> QED
    BY <1>2, TypeStep, PTL DEF Spec

(***************************************************************************)
(* The flag and the threads.                                               *)
(***************************************************************************)

\* What ties isRunning to the places of the three threads.
FlagInv == FlagFollowsWorker /\ FlagFollowsStop /\ StopWakesHandler

\* Every step keeps the flag in step with the threads.
LEMMA FlagStep == TypeOK /\ FlagInv /\ [Next]_vars => FlagInv'
<1> SUFFICES ASSUME TypeOK, FlagInv, [Next]_vars PROVE FlagInv'
    OBVIOUS
<1> USE DEF FlagInv, FlagFollowsWorker, FlagFollowsStop, StopWakesHandler, StopCalled,
            StopReturned, workVars, defVars, ownerVars
<1>1. CASE UNCHANGED vars
    BY <1>1 DEF vars
<1>2. CASE Submitters
    BY <1>2 DEF Submitters, EnqueueTask, EnqueueTaskFront, EnqueueTaskAfterTimeOut
<1>3. CASE OwnerCalls \/ OwnerStep
    <2>1. CASE RunWorker \/ RunHandler
        BY <2>1 DEF RunWorker, RunHandler, ownerRest
    <2>2. CASE ClearQueueTasks
        BY <2>2 DEF ClearQueueTasks
    <2>3. CASE Stop \/ Destroy
        BY <2>3 DEF Stop, Destroy, StopStore
    <2>4. CASE StopPush
        BY <2>4 DEF StopPush, ownerRest
    <2>5. CASE StopNotify
        BY <2>5 DEF StopNotify, HandlerLocks, ownerRest, TypeOK
    <2>6. CASE JoinWork \/ JoinDeffered
        BY <2>6 DEF JoinWork, JoinDeffered, ownerRest
    <2> QED
        BY <1>3, <2>1, <2>2, <2>3, <2>4, <2>5, <2>6 DEF OwnerCalls, OwnerStep
<1>4. CASE WorkStep
    <2>1. CASE WorkStart
        BY <2>1 DEF WorkStart, workOthers
    <2>2. CASE WorkLoop
        BY <2>2 DEF WorkLoop, workOthers
    <2>3. CASE WorkPoll
        BY <2>3 DEF WorkPoll, vars
    <2>4. CASE WorkTake \/ WorkBatch \/ WorkBatchEnd
        BY <2>4 DEF WorkTake, WorkBatch, WorkBatchEnd, workOthers
    <2>5. CASE WorkDrain \/ WorkPop \/ WorkPopThrows
        BY <2>5 DEF WorkDrain, WorkPop, WorkPopThrows, workOthers
    <2>6. CASE WorkClose
        BY <2>6 DEF WorkClose, workOthers
    <2> QED
        BY <1>4, <2>1, <2>2, <2>3, <2>4, <2>5, <2>6 DEF WorkStep
<1>5. CASE DefStep
    <2>1. CASE DefStart \/ DefWait \/ DefTimeout
        BY <2>1 DEF DefStart, DefWait, DefTimeout, defOthers
    <2>2. CASE DefCheck
        BY <2>2 DEF DefCheck, defOthers
    <2>3. CASE DefWake
        BY <2>3 DEF DefWake, defOthers
    <2>4. CASE DefFirstScan \/ (\E t \in Tasks : DefFire(t)) \/ DefScanEnd
        BY <2>4 DEF DefFirstScan, DefFire, DefScanEnd, defOthers
    <2> QED
        BY <1>5, <2>1, <2>2, <2>3, <2>4 DEF DefStep
<1> QED
    BY <1>1, <1>2, <1>3, <1>4, <1>5 DEF Next, Finished

\* The flag is in step with the threads from the beginning.
LEMMA FlagInit == Init => FlagInv
PROOF BY DEF Init, FlagInv, FlagFollowsWorker, FlagFollowsStop, StopWakesHandler,
             StopCalled, StopReturned

\* When Stop has returned and the flag is down, the handler thread is awake.
THEOREM HandlerWoken == Spec => []StopWakesHandler
<1>1. FlagInv => StopWakesHandler
    BY DEF FlagInv
<1> QED
    BY <1>1, FlagInit, FlagStep, TypeCorrect, PTL DEF Spec

(***************************************************************************)
(* The line of tasks.                                                      *)
(***************************************************************************)

\* The tasks that have ever been in line.
Accepted == Queued \cup SeqRange(executed) \cup cleared

\* A step that leaves the line, its history and the deferred tasks alone.
LineUnchanged ==
    UNCHANGED <<deq, taskQueue, executed, cleared, defferedTasksList, owed>>

\* Each kind of step moves tasks between the line, what ran and what was cleared,
\* and adds at most one task to the line.
LEMMA EnqueueLine ==
    ASSUME TypeOK, TypeOK', NEW t \in Tasks, UNCHANGED <<deq, executed, cleared>>,
           taskQueue' = Append(taskQueue, t) \/ taskQueue' = <<t>> \o taskQueue
    PROVE  Queued' = Queued \cup {t} /\ Accepted' = Accepted \cup {t}
<1>1. t \in Entries /\ t # Nil
    BY NilAssumption DEF Entries
<1>2. SeqRange(taskQueue') = SeqRange(taskQueue) \cup {t}
    <2>1. taskQueue \in Seq(Entries) /\ <<t>> \in Seq(Entries)
        BY <1>1 DEF TypeOK
    <2>2. CASE taskQueue' = Append(taskQueue, t)
        BY <1>1, <2>1, <2>2, RangeAppend
    <2>3. CASE taskQueue' = <<t>> \o taskQueue
        <3>1. SeqRange(<<t>> \o taskQueue) = SeqRange(<<t>>) \cup SeqRange(taskQueue)
            BY <2>1, RangeConcat, ZenonT(30)
        <3> QED
            BY <2>3, <3>1, RangeSmall
    <2> QED
        BY <2>2, <2>3
<1>3. /\ Queued = (SeqRange(deq) \cup SeqRange(taskQueue)) \ {Nil}
      /\ Queued' = (SeqRange(deq') \cup SeqRange(taskQueue')) \ {Nil}
    BY RangeConcat DEF TypeOK, Queued
<1>4. Queued' = Queued \cup {t}
    BY <1>1, <1>2, <1>3
<1> QED
    BY <1>4 DEF Accepted

\* The worker runs the front entry of its batch, or of the queue while draining.
LEMMA RunLine ==
    ASSUME TypeOK, TypeOK', BatchOnlyInLoop, WorkBatch \/ WorkPop
    PROVE  /\ Queued' \subseteq Queued /\ Accepted' = Accepted
           /\ Queued \subseteq Queued' \cup SeqRange(executed')
           /\ SeqRange(executed) \subseteq SeqRange(executed')
           /\ deq \o taskQueue # <<>>
           /\ (deq \o taskQueue)' = Tail(deq \o taskQueue)
           /\ executed' = IF Head(deq \o taskQueue) = Nil THEN executed
                             ELSE Append(executed, Head(deq \o taskQueue))
<1> DEFINE line == deq \o taskQueue
<1>1. line \in Seq(Entries) /\ line' \in Seq(Entries) /\ executed \in Seq(Tasks)
    BY RangeConcat DEF TypeOK
<1>2. /\ line # <<>> /\ line' = Tail(line) /\ RunEntry(Head(line))
      /\ cleared' = cleared
    <2>1. CASE WorkBatch
        <3>1. deq # <<>> /\ deq' = Tail(deq) /\ taskQueue' = taskQueue
              /\ RunEntry(Head(deq)) /\ cleared' = cleared
            BY <2>1 DEF WorkBatch, workOthers
        <3>2. /\ deq \o taskQueue # <<>> /\ Head(deq \o taskQueue) = Head(deq)
              /\ Tail(deq \o taskQueue) = Tail(deq) \o taskQueue
            BY <3>1 DEF TypeOK
        <3> QED
            BY <3>1, <3>2
    <2>2. CASE WorkPop
        <3>1. deq = <<>> /\ deq' = <<>> /\ taskQueue # <<>> /\ cleared' = cleared
              /\ taskQueue' = Tail(taskQueue) /\ RunEntry(Head(taskQueue))
            BY <2>2 DEF WorkPop, workOthers, BatchOnlyInLoop
        <3>2. line = taskQueue /\ line' = taskQueue'
            BY <3>1 DEF TypeOK
        <3> QED
            BY <3>1, <3>2
    <2> QED
        BY <2>1, <2>2
<1> HIDE DEF line
<1>3. SeqRange(line) = {Head(line)} \cup SeqRange(line') /\ Head(line) \in Entries
    BY <1>1, <1>2, RangeHeadTail
<1>4. SeqRange(executed') = SeqRange(executed) \cup ({Head(line)} \ {Nil})
    BY <1>1, <1>2, <1>3, RunEntryType
<1>5. Queued = SeqRange(line) \ {Nil} /\ Queued' = SeqRange(line') \ {Nil}
    BY DEF Queued, line
<1>6. executed' = IF Head(line) = Nil THEN executed ELSE Append(executed, Head(line))
    BY <1>2 DEF RunEntry
<1> QED
    BY <1>2, <1>3, <1>4, <1>5, <1>6 DEF Accepted, line

\* WaitAndReturnAll moves the whole queue into the empty batch.
LEMMA TakeLine ==
    ASSUME TypeOK, BatchOnlyInLoop, WorkTake
    PROVE  (deq \o taskQueue)' = deq \o taskQueue
<1>1. deq = <<>> /\ deq' = taskQueue /\ taskQueue' = <<>>
    BY DEF WorkTake, BatchOnlyInLoop
<1> QED
    BY <1>1 DEF TypeOK

\* ClearQueueTasks cuts the line after the worker's batch.
LEMMA CutLine ==
    ASSUME TypeOK, ClearQueueTasks
    PROVE  /\ Accepted' = Accepted /\ Queued \subseteq Queued' \cup cleared'
           /\ (deq \o taskQueue)' = SubSeq(deq \o taskQueue, 1, Len(deq))
           /\ Len(deq) \in 0..Len(deq \o taskQueue)
           /\ executed' = executed
<1>1. /\ deq' = deq /\ taskQueue' = <<>> /\ executed' = executed
      /\ cleared' = cleared \cup (SeqRange(taskQueue) \ {Nil})
      /\ deq \in Seq(Entries) /\ taskQueue \in Seq(Entries)
    BY DEF ClearQueueTasks, workVars, TypeOK
<1>2. /\ Queued = (SeqRange(deq) \cup SeqRange(taskQueue)) \ {Nil}
      /\ Queued' = SeqRange(deq) \ {Nil}
    BY <1>1, RangeConcat DEF Queued
<1>3. /\ deq \o <<>> = deq
      /\ SubSeq(deq \o taskQueue, 1, Len(deq)) = deq
      /\ Len(deq) \in 0..Len(deq \o taskQueue)
    BY <1>1
<1> QED
    BY <1>1, <1>2, <1>3 DEF Accepted

\* Stop's empty task changes the line but no task in it.
LEMMA WakeUpLine ==
    ASSUME TypeOK, StopPush
    PROVE  /\ Queued' = Queued /\ Accepted' = Accepted
           /\ (deq \o taskQueue)' = Append(deq \o taskQueue, Nil)
<1>1. /\ deq' = deq /\ taskQueue' = Append(taskQueue, Nil)
      /\ UNCHANGED <<executed, cleared>>
      /\ deq \in Seq(Entries) /\ taskQueue \in Seq(Entries) /\ Nil \in Entries
    BY DEF StopPush, ownerRest, workVars, TypeOK, Entries
<1>2. /\ deq \o Append(taskQueue, Nil) = Append(deq \o taskQueue, Nil)
      /\ deq \o taskQueue \in Seq(Entries)
    BY <1>1
<1>3. ASSUME NEW line \in Seq(Entries)
      PROVE  SeqRange(Append(line, Nil)) = SeqRange(line) \cup {Nil}
    BY <1>1, RangeAppend
<1>4. (deq \o taskQueue)' = Append(deq \o taskQueue, Nil)
    BY <1>1, <1>2
<1>5. Queued' = Queued
    BY <1>2, <1>3, <1>4 DEF Queued
<1> QED
    BY <1>1, <1>4, <1>5 DEF Accepted

\* What ties the line to the worker, to what Stop owes and to the deferred tasks.
LineInv == BatchOnlyInLoop /\ OwedAccounted /\ DeferredApart

\* Every step keeps the line accounted for.
LEMMA LineStep ==
    TypeOK /\ FlagInv /\ LineInv /\ [Next]_vars => LineInv'
<1> SUFFICES ASSUME TypeOK, FlagInv, LineInv, [Next]_vars PROVE LineInv'
    OBVIOUS
<1>0. TypeOK'
    BY TypeStep
<1> USE DEF LineInv, BatchOnlyInLoop, OwedAccounted, DeferredApart
<1>1. ASSUME UNCHANGED <<deq, taskQueue, executed, cleared, owed>>,
             defferedTasksList' \subseteq defferedTasksList \cup (Tasks \ Accepted),
             workPc' = workPc \/ {workPc, workPc'} \cap {"batch", "closing", "done"} = {}
      PROVE  LineInv'
    BY <1>1 DEF Queued, Accepted
<1>2. ASSUME NEW t \in Tasks,
             UNCHANGED <<deq, executed, cleared, owed, workPc>>,
             taskQueue' = Append(taskQueue, t) \/ taskQueue' = <<t>> \o taskQueue,
             defferedTasksList' \subseteq defferedTasksList,
             t \notin defferedTasksList'
      PROVE  LineInv'
    <2>1. Queued' = Queued \cup {t}
        BY <1>0, <1>2, EnqueueLine
    <2> QED
        BY <1>2, <2>1
<1>3. CASE Submitters
    <2>1. ASSUME NEW t \in Tasks, EnqueueTask(t) \/ EnqueueTaskFront(t) PROVE LineInv'
        <3>1. t \notin defferedTasksList
            BY <2>1 DEF EnqueueTask, EnqueueTaskFront, MaySubmit, Submitted
        <3> QED
            BY <1>2, <2>1, <3>1 DEF EnqueueTask, EnqueueTaskFront, workVars, ownerVars
    <2>2. ASSUME NEW t \in Tasks, EnqueueTaskAfterTimeOut(t) PROVE LineInv'
        <3>1. t \notin Accepted
            BY <2>2 DEF EnqueueTaskAfterTimeOut, MaySubmit, Submitted, Accepted
        <3> QED
            BY <1>1, <2>2, <3>1 DEF EnqueueTaskAfterTimeOut, workVars, ownerVars
    <2> QED
        BY <1>3, <2>1, <2>2 DEF Submitters
<1>4. CASE OwnerCalls \/ OwnerStep
    <2>1. CASE RunWorker
        <3>1. workPc = "none" /\ workPc' = "starting"
            BY <2>1 DEF RunWorker, FlagInv, FlagFollowsWorker
        <3> QED
            BY <1>1, <2>1, <3>1 DEF RunWorker, ownerRest, workVars
    <2>2. CASE RunHandler \/ JoinWork \/ JoinDeffered
        BY <1>1, <2>2 DEF RunHandler, JoinWork, JoinDeffered, ownerRest, workVars
    <2>3. CASE StopNotify
        BY <1>1, <2>3 DEF StopNotify, ownerRest, workVars
    <2>4. CASE ClearQueueTasks
        <3>1. /\ Accepted' = Accepted /\ Queued \subseteq Queued' \cup cleared'
              /\ executed' = executed
            BY <2>4, CutLine
        <3>2. /\ cleared \subseteq cleared'
              /\ UNCHANGED <<owed, defferedTasksList, workPc, deq>>
            BY <2>4 DEF ClearQueueTasks, ownerVars, workVars
        <3> QED
            BY <3>1, <3>2 DEF Accepted
    <2>5. CASE Stop \/ Destroy
        <3>1. /\ UNCHANGED <<deq, taskQueue, executed, cleared, workPc, defferedTasksList>>
              /\ owed' = IF StopCalled THEN owed ELSE Queued
            BY <2>5 DEF Stop, Destroy, StopStore, workVars
        <3>2. workPc \in {"closing", "done"} => StopCalled
            BY DEF FlagInv, FlagFollowsStop
        <3>3. Queued' = Queued
            BY <3>1 DEF Queued
        <3> QED
            BY <3>1, <3>2, <3>3
    <2>6. CASE StopPush
        <3>1. Queued' = Queued
            BY <2>6, WakeUpLine
        <3>2. UNCHANGED <<deq, executed, cleared, owed, workPc, defferedTasksList>>
            BY <2>6 DEF StopPush, ownerRest, workVars
        <3> QED
            BY <3>1, <3>2
    <2> QED
        BY <1>4, <2>1, <2>2, <2>3, <2>4, <2>5, <2>6 DEF OwnerCalls, OwnerStep
<1>5. CASE WorkStep
    <2> USE DEF workOthers, ownerVars, workVars
    <2>1. CASE WorkStart \/ WorkLoop \/ WorkPopThrows
        BY <1>1, <2>1 DEF WorkStart, WorkLoop, WorkPopThrows
    <2>2. CASE WorkPoll
        BY <1>1, <2>2 DEF WorkPoll, vars
    <2>3. CASE WorkTake
        <3>1. Queued' = Queued
            BY <2>3, TakeLine DEF Queued
        <3> QED
            BY <2>3, <3>1 DEF WorkTake
    <2>4. CASE WorkBatch \/ WorkPop
        <3>1. /\ Queued \subseteq Queued' \cup SeqRange(executed')
              /\ SeqRange(executed) \subseteq SeqRange(executed')
              /\ Accepted' = Accepted
            BY <1>0, <2>4, RunLine
        <3>2. /\ UNCHANGED <<cleared, owed, defferedTasksList>>
              /\ workPc' # "batch" => deq' = <<>>
              /\ workPc' \notin {"closing", "done"}
            BY <2>4 DEF WorkBatch, WorkPop
        <3> QED
            BY <3>1, <3>2 DEF Accepted
    <2>5. CASE WorkBatchEnd
        <3>1. UNCHANGED <<deq, taskQueue, executed, cleared, owed, defferedTasksList>>
              /\ deq = <<>> /\ workPc' = "loop"
            BY <2>5 DEF WorkBatchEnd
        <3> QED
            BY <3>1 DEF Queued
    <2>6. CASE WorkDrain
        <3>1. /\ UNCHANGED <<deq, taskQueue, executed, cleared, owed, defferedTasksList>>
              /\ deq = <<>> /\ workPc' \in {"closing", "pop"}
              /\ workPc' = "closing" => taskQueue = <<>>
            BY <2>6 DEF WorkDrain
        <3>2. workPc' = "closing" => Queued = {}
            BY <3>1, RangeConcat, RangeSmall DEF Queued, TypeOK
        <3> QED
            BY <3>1, <3>2 DEF Queued
    <2>7. CASE WorkClose
        <3>1. /\ UNCHANGED <<deq, taskQueue, executed, cleared, owed, defferedTasksList>>
              /\ workPc = "closing" /\ workPc' = "done"
            BY <2>7 DEF WorkClose
        <3> QED
            BY <3>1 DEF Queued
    <2> QED
        BY <1>5, <2>1, <2>2, <2>3, <2>4, <2>5, <2>6, <2>7 DEF WorkStep
<1>6. CASE DefStep
    <2> USE DEF defOthers, defVars, ownerVars, workVars
    <2>1. CASE DefStart \/ DefCheck \/ DefWait \/ DefTimeout \/ DefWake
        BY <1>1, <2>1 DEF DefStart, DefCheck, DefWait, DefTimeout, DefWake
    <2>2. CASE DefFirstScan \/ DefScanEnd
        BY <1>1, <2>2 DEF DefFirstScan, DefScanEnd
    <2>3. ASSUME NEW t \in Tasks, DefFire(t) PROVE LineInv'
        BY <1>2, <2>3 DEF DefFire
    <2> QED
        BY <1>6, <2>1, <2>2, <2>3 DEF DefStep
<1>7. CASE UNCHANGED vars
    BY <1>1, <1>7 DEF vars, workVars, ownerVars
<1> QED
    BY <1>3, <1>4, <1>5, <1>6, <1>7 DEF Next, Finished

\* The line is accounted for from the beginning.
LEMMA LineInit == Init => LineInv
<1> SUFFICES ASSUME Init PROVE LineInv
    OBVIOUS
<1>1. deq \o taskQueue = <<>> /\ executed = <<>>
    BY DEF Init
<1> QED
    BY <1>1, RangeSmall DEF Init, LineInv, BatchOnlyInLoop, OwedAccounted,
                            DeferredApart, Queued

\* The inductive invariant as the runs check it.
THEOREM StopInvCorrect == Spec => []StopInv
<1>1. FlagInv /\ LineInv => StopInv
    BY DEF FlagInv, LineInv, StopInv
<1> QED
    BY <1>1, FlagInit, FlagStep, LineInit, LineStep, TypeCorrect, PTL DEF Spec

\* When the worker thread has ended, every task that was queued when Stop was
\* first called has run or was cleared.
THEOREM OwedTasksRun == Spec => []StopRunsQueuedTasks
<1>1. StopInv => StopRunsQueuedTasks
    BY DEF StopInv, OwedAccounted, StopRunsQueuedTasks
<1> QED
    BY <1>1, StopInvCorrect, PTL

(***************************************************************************)
(* WorkingThread implements SerialExecutor.                                *)
(***************************************************************************)

\* The mapped variables of SerialExecutor.
ExecutorVars == <<deq \o taskQueue, executed, Accepted>>

\* A submitted task goes to the end of the line or behind the worker's batch.
LEMMA SubmitImplements ==
    ASSUME TypeOK, TypeOK', NEW t \in Tasks, t \notin Accepted,
           UNCHANGED <<deq, executed, cleared>>,
           taskQueue' = Append(taskQueue, t) \/ taskQueue' = <<t>> \o taskQueue
    PROVE  Executor!Submit(t) \/ Executor!SubmitAhead(t)
<1>1. Accepted' = Accepted \cup {t}
    BY EnqueueLine
<1>2. deq \in Seq(Entries) /\ taskQueue \in Seq(Entries) /\ t \in Entries
    BY DEF TypeOK, Entries
<1>3. CASE taskQueue' = Append(taskQueue, t)
    <2>1. (deq \o taskQueue)' = Append(deq \o taskQueue, t)
        BY <1>2, <1>3
    <2> QED
        BY <1>1, <2>1 DEF Executor!Submit, Accepted
<1>4. CASE taskQueue' = <<t>> \o taskQueue
    <2> DEFINE line == deq \o taskQueue
    <2>1. /\ Len(deq) \in 0..Len(line)
          /\ SubSeq(line, 1, Len(deq)) = deq
          /\ SubSeq(line, Len(deq) + 1, Len(line)) = taskQueue
          /\ deq \o (<<t>> \o taskQueue) = (deq \o <<t>>) \o taskQueue
        BY <1>2
    <2>2. (deq \o taskQueue)' = (deq \o <<t>>) \o taskQueue
        BY <1>4, <2>1
    <2>3. \E k \in 0..Len(line) :
             line' = SubSeq(line, 1, k) \o <<t>> \o SubSeq(line, k + 1, Len(line))
        BY <2>1, <2>2, Zenon
    <2> QED
        BY <1>1, <2>3 DEF Executor!SubmitAhead, Accepted
<1> QED
    BY <1>3, <1>4

\* A step that changes nothing the callers can see.
LEMMA StutterImplements ==
    ASSUME UNCHANGED <<deq \o taskQueue, executed, cleared>>
    PROVE  UNCHANGED ExecutorVars
PROOF BY DEF ExecutorVars, Accepted, Queued

\* Every step is a step of SerialExecutor or changes nothing it shows.
LEMMA StepImplements ==
    TypeOK /\ FlagInv /\ LineInv /\ [Next]_vars
        => [Executor!Next]_ExecutorVars
<1> SUFFICES ASSUME TypeOK, FlagInv, LineInv, [Next]_vars
             PROVE  Executor!Next \/ UNCHANGED ExecutorVars
    BY DEF Executor!Next
<1>0. TypeOK' /\ BatchOnlyInLoop
    BY TypeStep DEF LineInv
<1> USE DEF workVars
<1>1. CASE UNCHANGED vars
    BY <1>1, StutterImplements DEF vars
<1>2. CASE Submitters
    <2>1. ASSUME NEW t \in Tasks, EnqueueTask(t) \/ EnqueueTaskFront(t)
          PROVE  Executor!Next
        <3>1. t \notin Accepted
            BY <2>1 DEF EnqueueTask, EnqueueTaskFront, MaySubmit, Submitted, Accepted
        <3>2. Executor!Submit(t) \/ Executor!SubmitAhead(t)
            BY <1>0, <2>1, <3>1, SubmitImplements DEF EnqueueTask, EnqueueTaskFront
        <3> QED
            BY <3>2 DEF Executor!Next
    <2>2. ASSUME NEW t \in Tasks, EnqueueTaskAfterTimeOut(t)
          PROVE  UNCHANGED ExecutorVars
        BY <2>2, StutterImplements DEF EnqueueTaskAfterTimeOut
    <2> QED
        BY <1>2, <2>1, <2>2 DEF Submitters
<1>3. CASE OwnerCalls \/ OwnerStep
    <2>1. CASE RunWorker \/ RunHandler \/ JoinWork \/ JoinDeffered \/ StopNotify
        BY <2>1, StutterImplements
           DEF RunWorker, RunHandler, JoinWork, JoinDeffered, StopNotify, ownerRest
    <2>2. CASE Stop \/ Destroy
        BY <2>2, StutterImplements DEF Stop, Destroy, StopStore
    <2>3. CASE StopPush
        <3>1. Executor!WakeUp
            BY <2>3, WakeUpLine DEF Executor!WakeUp, Accepted, StopPush, ownerRest
        <3> QED
            BY <3>1 DEF Executor!Next
    <2>4. CASE ClearQueueTasks
        <3>1. Executor!Discard
            BY <2>4, CutLine DEF Executor!Discard, Accepted
        <3> QED
            BY <3>1 DEF Executor!Next
    <2> QED
        BY <1>3, <2>1, <2>2, <2>3, <2>4 DEF OwnerCalls, OwnerStep
<1>4. CASE WorkStep
    <2>1. CASE WorkStart \/ WorkLoop \/ WorkBatchEnd \/ WorkDrain \/ WorkPopThrows
                         \/ WorkClose
        BY <2>1, StutterImplements
           DEF WorkStart, WorkLoop, WorkBatchEnd, WorkDrain, WorkPopThrows, WorkClose,
               workOthers
    <2>2. CASE WorkPoll
        BY <2>2, StutterImplements DEF WorkPoll, vars
    <2>3. CASE WorkTake
        BY <1>0, <2>3, TakeLine, StutterImplements DEF WorkTake, workOthers
    <2>4. CASE WorkBatch \/ WorkPop
        <3>1. Executor!Execute
            BY <1>0, <2>4, RunLine DEF Executor!Execute, Accepted
        <3> QED
            BY <3>1 DEF Executor!Next
    <2> QED
        BY <1>4, <2>1, <2>2, <2>3, <2>4 DEF WorkStep
<1>5. CASE DefStep
    <2>1. CASE DefStart \/ DefCheck \/ DefWait \/ DefTimeout \/ DefWake
                        \/ DefFirstScan \/ DefScanEnd
        BY <2>1, StutterImplements
           DEF DefStart, DefCheck, DefWait, DefTimeout, DefWake, DefFirstScan,
               DefScanEnd, defOthers
    <2>2. ASSUME NEW t \in Tasks, DefFire(t) PROVE Executor!Next
        <3>1. t \notin Accepted
            BY <2>2 DEF DefFire, LineInv, DeferredApart, Accepted
        <3>2. Executor!Submit(t) \/ Executor!SubmitAhead(t)
            BY <1>0, <2>2, <3>1, SubmitImplements DEF DefFire, defOthers
        <3> QED
            BY <3>2 DEF Executor!Next
    <2> QED
        BY <1>5, <2>1, <2>2 DEF DefStep
<1> QED
    BY <1>1, <1>2, <1>3, <1>4, <1>5 DEF Next, Finished

\* The initial state is an initial state of SerialExecutor.
LEMMA InitImplements == Init => Executor!Init
<1> SUFFICES ASSUME Init PROVE Executor!Init
    OBVIOUS
<1>1. deq \o taskQueue = <<>> /\ executed = <<>> /\ cleared = {}
    BY DEF Init
<1>2. Queued = {} /\ SeqRange(executed) = {}
    BY <1>1, RangeSmall DEF Queued
<1> QED
    BY <1>1, <1>2 DEF Executor!Init

\* For its callers a WorkingThread is one line of tasks run in order: batches,
\* front insertions, deferred firings, clears and the drain included.
THEOREM ImplementsSerialExecutor == Spec => RunsAsSerialExecutor
<1>1. TypeOK /\ FlagInv /\ LineInv /\ [Next]_vars => [Executor!Next]_(Executor!vars)
    BY StepImplements DEF ExecutorVars, Executor!vars, Accepted
<1> QED
    BY <1>1, InitImplements, FlagInit, FlagStep, LineInit, LineStep, TypeCorrect, PTL
       DEF Spec, RunsAsSerialExecutor, Executor!Spec

(***************************************************************************)
(* The only way the worker dies.                                           *)
(***************************************************************************)

\* IsEmpty said no before every Pop, so a queue that is empty at the Pop was
\* cleared in between.
PopInv ==
    /\ (workPc = "pop" /\ taskQueue = <<>>) => clearedLast
    /\ TerminatesByLateClear

\* No step of a submitter, the owner, the worker or the handler breaks it: who
\* clears clearedLast also fills the queue, and Stop is never taken back.
LEMMA PopStep == TypeOK /\ FlagInv /\ PopInv /\ [Next]_vars => PopInv'
<1> SUFFICES ASSUME TypeOK, FlagInv, PopInv, [Next]_vars PROVE PopInv'
    OBVIOUS
<1>0. /\ taskQueue \in Seq(Entries) /\ clearedLast \in BOOLEAN /\ terminated \in BOOLEAN
      /\ workPc = "pop" => StopCalled
    BY DEF TypeOK, FlagsOK, FlagInv, FlagFollowsStop
<1>1. CASE UNCHANGED vars
    BY <1>1 DEF vars, PopInv, TerminatesByLateClear, StopCalled, workVars, ownerVars
<1> SUFFICES ASSUME ~terminated, Submitters \/ OwnerCalls \/ OwnerStep \/ WorkStep \/ DefStep
             PROVE  PopInv'
    BY <1>1 DEF Next, Finished
<1>2. ASSUME NEW t \in Tasks, EnqueueTask(t) \/ EnqueueTaskFront(t) \/ DefFire(t)
      PROVE  PopInv'
    <2>1. t \in Entries /\ Append(taskQueue, t) # <<>> /\ <<t>> \o taskQueue # <<>>
        BY <1>0 DEF Entries
    <2>2. taskQueue' # <<>> /\ ~terminated'
        BY <1>2, <2>1 DEF EnqueueTask, EnqueueTaskFront, DefFire, defOthers
    <2> QED
        BY <2>2 DEF PopInv, TerminatesByLateClear
<1>3. ASSUME NEW t \in Tasks, EnqueueTaskAfterTimeOut(t) PROVE PopInv'
    BY <1>3 DEF EnqueueTaskAfterTimeOut, PopInv, TerminatesByLateClear, workVars
<1>4. CASE RunWorker \/ RunHandler \/ StopNotify \/ JoinWork \/ JoinDeffered
    BY <1>4 DEF RunWorker, RunHandler, StopNotify, JoinWork, JoinDeffered, ownerRest,
                PopInv, TerminatesByLateClear, workVars
<1>5. CASE ClearQueueTasks
    BY <1>5 DEF ClearQueueTasks, PopInv, TerminatesByLateClear
<1>6. CASE Stop \/ Destroy
    BY <1>6 DEF Stop, Destroy, StopStore, PopInv, TerminatesByLateClear, workVars
<1>7. CASE StopPush
    <2>1. Nil \in Entries /\ Append(taskQueue, Nil) # <<>>
        BY <1>0 DEF Entries
    <2> QED
        BY <1>7, <2>1 DEF StopPush, ownerRest, PopInv, TerminatesByLateClear
<1>8. CASE WorkStart \/ WorkLoop \/ WorkTake \/ WorkBatchEnd \/ WorkDrain \/ WorkClose
    BY <1>8 DEF WorkStart, WorkLoop, WorkTake, WorkBatchEnd, WorkDrain, WorkClose,
                workOthers, PopInv, TerminatesByLateClear
<1>9. CASE WorkPoll
    BY <1>1, <1>9 DEF WorkPoll
<1>10. CASE WorkBatch \/ WorkPop
    BY <1>10 DEF WorkBatch, WorkPop, PopInv, TerminatesByLateClear
\* The exception: the worker is in its last loop, so Stop was called.
<1>11. CASE WorkPopThrows
    <2>1. StopCalled /\ clearedLast
        BY <1>0, <1>11 DEF WorkPopThrows, PopInv
    <2>2. StopCalled' /\ clearedLast'
        BY <1>11, <2>1 DEF WorkPopThrows, workOthers, ownerVars, StopCalled
    <2> QED
        BY <2>2 DEF PopInv, TerminatesByLateClear
<1>12. CASE DefStart \/ DefCheck \/ DefWait \/ DefTimeout \/ DefWake \/ DefFirstScan
            \/ DefScanEnd
    BY <1>12 DEF DefStart, DefCheck, DefWait, DefTimeout, DefWake, DefFirstScan,
                 DefScanEnd, defOthers, PopInv, TerminatesByLateClear, workVars
<1> QED
    BY <1>2, <1>3, <1>4, <1>5, <1>6, <1>7, <1>8, <1>9, <1>10, <1>11, <1>12
       DEF Submitters, OwnerCalls, OwnerStep, WorkStep, DefStep

\* The worker thread dies of an empty Pop only after Stop, and only when nothing has
\* been submitted since a ClearQueueTasks.
THEOREM DiesByLateClear == Spec => []TerminatesByLateClear
<1>1. Init => PopInv
    BY DEF Init, PopInv, TerminatesByLateClear
<1>2. PopInv => TerminatesByLateClear
    BY DEF PopInv
<1> QED
    BY <1>1, <1>2, PopStep, FlagInit, FlagStep, TypeCorrect, PTL DEF Spec

----------------------------------------------------------------------------
(***************************************************************************)
(* The times of the deferred tasks (DefferedTasks), for any tasks, delays, *)
(* idle wait and parts of a millisecond.  The list of the tasks that wait  *)
(* is waiting here: the set defferedTasksList above leaves the times out.  *)
(***************************************************************************)
CONSTANTS Delays, MaxWakeUps

VARIABLES pc, waiting, nextWait, firstWait, waited, wakeUps

Timing == INSTANCE DefferedTasks WITH defferedTasksList <- waiting, isFirstWait <- firstWait

\* Ticks is additive and monotone.
LEMMA TicksAre ==
    ASSUME Parts \in Nat \ {0}
    PROVE  /\ \A a : Timing!Ticks(a) = Ticks(a)
           /\ \A a \in Int : Ticks(a) \in Int
           /\ \A a \in Nat : Ticks(a) \in Nat
           /\ \A a, b \in Int : Ticks(a + b) = Ticks(a) + Ticks(b)
           /\ \A a, b \in Int : Ticks(a - b) = Ticks(a) - Ticks(b)
           /\ \A a, b \in Int : a <= b => Ticks(a) <= Ticks(b)
           /\ Ticks(0) = 0 /\ Ticks(1) = Parts
<1>1. \A a \in Int : a * Parts \in Int
    OBVIOUS
<1>2. \A a \in Nat : a * Parts \in Nat
    OBVIOUS
<1>3. \A a, b \in Int : (a + b) * Parts = a * Parts + b * Parts
    OBVIOUS
<1>4. \A a, b \in Int : (a - b) * Parts = a * Parts - b * Parts
    OBVIOUS
<1>5. \A a, b \in Int : a <= b => a * Parts <= b * Parts
    <2>1. \A a, b \in Int : a <= b => b - a \in Nat /\ b = a + (b - a)
        OBVIOUS
    <2>2. \A a, b \in Int : a <= b => /\ b * Parts = a * Parts + (b - a) * Parts
                                     /\ (b - a) * Parts \in Nat
        BY <1>2, <1>3, <2>1
    <2> QED
        BY <1>1, <2>2
<1>6. 0 * Parts = 0 /\ 1 * Parts = Parts
    OBVIOUS
<1> QED
    BY <1>1, <1>2, <1>3, <1>4, <1>5, <1>6 DEF Ticks, Timing!Ticks

\* The naturals are integers.
LEMMA NatInInt == \A a \in Nat : a \in Int
OBVIOUS

\* What is charged is the wait, but for a part of a millisecond.
LEMMA CurWaitIs ==
    ASSUME Parts \in Nat \ {0}, waited \in Nat
    PROVE  /\ Timing!CurWait \in Nat
           /\ Ticks(Timing!CurWait) <= waited
           /\ waited < Ticks(Timing!CurWait) + Parts
BY DEF Timing!CurWait, Ticks

\* The least number principle.
LEMMA Smallest ==
    ASSUME NEW T \in SUBSET Nat, T # {}
    PROVE  \E x \in T : \A y \in T : x <= y
<1>1. PICK x \in T : \A y \in T : ~ (<<y, x>> \in OpToRel(<, Nat))
    BY NatLessThanWellFounded, WFMin, Zenon
<1>2. \A y \in T : y < x => <<y, x>> \in OpToRel(<, Nat)
    BY DEF OpToRel
<1>3. \A y \in T : ~(y < x)
    BY <1>1, <1>2, Zenon
<1>4. \A y \in T : ~(y < x) => x <= y
    OBVIOUS
<1> QED
    BY <1>3, <1>4, Zenon

\* A set that has 0 and, up to n, the successor of its members has 0..n.
LEMMA Induction ==
    ASSUME NEW n \in Nat, NEW T, 0 \in T, \A m \in 0..n : m \in T /\ m < n => m + 1 \in T
    PROVE  \A m \in 0..n : m \in T
<1> SUFFICES ASSUME NEW m \in 0..n, m \notin T PROVE FALSE
    OBVIOUS
<1> DEFINE F == {k \in 0..n : k \notin T}
<1>1. F \in SUBSET Nat /\ F # {}
    OBVIOUS
<1>2. PICK x \in F : \A y \in F : x <= y
    BY <1>1, Smallest, Zenon
<1>3. x \in 0..n /\ x \notin T /\ x # 0
    OBVIOUS
<1>4. x - 1 \in 0..n /\ x - 1 < n /\ (x - 1) + 1 = x
    BY <1>3
<1>5. x - 1 \notin F
    BY <1>2, <1>3
<1> QED
    BY <1>3, <1>4, <1>5

\* The entries of the list.
Entry == [task : Tasks, ms : Nat]

LEMMA EntryIs ==
    /\ \A e \in Entry : e.task \in Tasks /\ e.ms \in Nat
    /\ \A t \in Tasks, m \in Nat : [task |-> t, ms |-> m] \in Entry
BY DEF Entry

LEMMA ListIs ==
    ASSUME NEW S, NEW l \in Seq(S)
    PROVE  Len(l) \in Nat /\ DOMAIN l = 1..Len(l) /\ \A i \in 1..Len(l) : l[i] \in S
OBVIOUS

LEMMA ListOf ==
    ASSUME NEW S, NEW n \in Nat, NEW f \in [1..n -> S]
    PROVE  f \in Seq(S) /\ Len(f) = n
OBVIOUS

\* What qsort leaves: the same entries, in the order of their times.
LEMMA SortedIs ==
    ASSUME NEW l \in Seq(Entry), NEW s \in Timing!Sorted(l)
    PROVE  /\ s \in Seq(Entry) /\ Len(s) = Len(l)
           /\ \E p \in [1..Len(l) -> 1..Len(l)] :
                 /\ \A i, j \in 1..Len(l) : p[i] = p[j] => i = j
                 /\ \A i \in 1..Len(l) : s[i] = l[p[i]]
           /\ \A i, j \in 1..Len(l) : i <= j => s[i].ms <= s[j].ms
<1> DEFINE n == Len(l)
<1>1. n \in Nat /\ DOMAIN l = 1..n /\ \A i \in 1..n : l[i] \in Entry
    BY ListIs
<1> HIDE DEF n
<1>2. PICK p \in [1..n -> 1..n] :
         /\ \A i, j \in 1..n : p[i] = p[j] => i = j
         /\ s = [i \in 1..n |-> l[p[i]]]
    BY <1>1 DEF Timing!Sorted, Timing!Injection, Timing!IsInjective
<1>3. \A i \in 1..Len(s) - 1 : s[i].ms <= s[i + 1].ms
    BY DEF Timing!Sorted
<1>4. s \in Seq(Entry) /\ Len(s) = n /\ \A i \in 1..n : s[i] = l[p[i]]
    <2>1. s \in [1..n -> Entry]
        BY <1>1, <1>2
    <2>2. \A i \in 1..n : s[i] = l[p[i]]
        BY <1>2
    <2> QED
        BY <1>1, <2>1, <2>2, ListOf
<1>5. ASSUME NEW i \in 1..n, NEW j \in 1..n, i <= j
      PROVE  s[i].ms <= s[j].ms
    <2> DEFINE T == {d \in Nat : i + d <= n => s[i].ms <= s[i + d].ms}
    <2>0. \A k \in 1..n : s[k].ms \in Nat
        BY <1>4, ListIs, EntryIs
    <2>1. 0 \in T
        <3>1. i + 0 = i
            OBVIOUS
        <3> QED
            BY <2>0, <3>1
    <2>2. \A d \in 0..n : d \in T /\ d < n => d + 1 \in T
        <3> SUFFICES ASSUME NEW d \in Nat, d \in T, i + (d + 1) <= n
                     PROVE  s[i].ms <= s[i + (d + 1)].ms
            BY <1>1
        <3>1. /\ i + d \in 1..n /\ i + d \in 1..n - 1 /\ (i + d) + 1 = i + (d + 1)
              /\ i + (d + 1) \in 1..n /\ i + d <= n
            BY <1>1
        <3>2. s[i + d].ms <= s[i + (d + 1)].ms
            BY <1>3, <1>4, <3>1
        <3>3. s[i].ms <= s[i + d].ms
            BY <3>1
        <3>4. s[i].ms \in Nat /\ s[i + d].ms \in Nat /\ s[i + (d + 1)].ms \in Nat
            BY <2>0, <3>1
        <3> QED
            BY <3>2, <3>3, <3>4
    <2>3. \A d \in 0..n : d \in T
        <3> HIDE DEF T
        <3> QED
            BY <1>1, <2>1, <2>2, Induction, Zenon
    <2>4. j - i \in 0..n /\ i + (j - i) = j
        BY <1>1, <1>5
    <2>5. i + (j - i) <= n => s[i].ms <= s[i + (j - i)].ms
        BY <2>3, <2>4
    <2> QED
        BY <1>1, <2>4, <2>5
<1> QED
    BY <1>2, <1>4, <1>5 DEF n

\* Entries come from calls and are not fired yet; no task has two.
ListedOnce ==
    /\ \A i \in 1..Len(waiting) : /\ asked[waiting[i].task] # -1
                                  /\ \A j \in 1..Len(fired) : fired[j] # waiting[i].task
    /\ \A i, j \in 1..Len(waiting) : waiting[i].task = waiting[j].task => i = j
    /\ \A j \in 1..Len(fired) : asked[fired[j]] # -1
    /\ \A t \in Tasks : asked[t] = -1 => age[t] = 0

\* In the idle wait nothing is charged, and only tasks from before it grow older.
IdleEntry(e) ==
    /\ e.ms = asked[e.task]
    /\ age[e.task] <= IF e.task \in beforeStart THEN waited ELSE 0
    /\ pc # "woken" => e.task \in beforeStart

Idle ==
    firstWait => /\ nextWait = Update
                 /\ pc = "start" => waited = 0
                 /\ \A i \in 1..Len(waiting) : IdleEntry(waiting[i])

\* Afterwards what an entry has paid of the time asked for is its age, but for what the
\* cuts have lost.
Slack(t) == IF t \in beforeStart THEN Ticks(Update) ELSE 0

Paid(e) == Ticks(asked[e.task] - e.ms)

ChargedEntry(e) ==
    /\ age[e.task] <= Paid(e) + Ticks(cut[e.task]) + waited + Slack(e.task)
    /\ age[e.task] >= Paid(e) + waited - credit[e.task]
    /\ pc = "wait" => nextWait <= e.ms

Charged ==
    ~firstWait => /\ waiting # <<>> /\ pc # "start"
                  /\ \A i \in 1..Len(waiting) : ChargedEntry(waiting[i])

\* LateByCutsOnly, for the tasks there are.
InTime ==
    \A t \in Tasks :
        asked[t] # -1 => age[t] <= Ticks(asked[t]) + Ticks(cut[t]) + Slack(t)

TimingInv ==
    Timing!TypeOK /\ ListedOnce /\ Idle /\ Charged /\ InTime /\ EarlyByCreditOnly

\* The constants that DefferedTasks assumes.
TimingConstants ==
    Delays \subseteq Nat /\ Update \in Nat \ {0} /\ Parts \in Nat \ {0} /\ MaxWakeUps \in Nat

LEMMA TimingTypes ==
    ASSUME TimingConstants, Timing!TypeOK
    PROVE  /\ waiting \in Seq(Entry) /\ fired \in Seq(Tasks)
           /\ asked \in [Tasks -> Delays \cup {-1}]
           /\ \A t \in Tasks : asked[t] \in Int /\ asked[t] >= -1
                              /\ (asked[t] # -1 => asked[t] \in Nat)
           /\ age \in [Tasks -> Nat] /\ credit \in [Tasks -> Nat]
           /\ cut \in [Tasks -> Nat] /\ wakeUps \in 0..MaxWakeUps
           /\ nextWait \in Nat /\ waited \in Nat /\ Update \in Nat
           /\ Ticks(nextWait) \in Nat /\ waited <= Ticks(nextWait)
           /\ firstWait \in BOOLEAN /\ beforeStart \in SUBSET Tasks
           /\ \A i \in 1..Len(waiting) : waiting[i] \in Entry /\ waiting[i].task \in Tasks
                                                     /\ waiting[i].ms \in Nat
           /\ \A j \in 1..Len(fired) : fired[j] \in Tasks
<1>1. waiting \in Seq(Entry) /\ fired \in Seq(Tasks)
    BY DEF Timing!TypeOK, Entry
<1>2. \A i \in 1..Len(waiting) : waiting[i] \in Entry /\ waiting[i].task \in Tasks
                                                /\ waiting[i].ms \in Nat
    BY <1>1, ListIs, EntryIs
<1>3. \A j \in 1..Len(fired) : fired[j] \in Tasks
    BY <1>1, ListIs
<1>4. /\ asked \in [Tasks -> Delays \cup {-1}] /\ age \in [Tasks -> Nat]
      /\ credit \in [Tasks -> Nat] /\ cut \in [Tasks -> Nat] /\ wakeUps \in 0..MaxWakeUps
      /\ nextWait \in Nat /\ waited \in 0..Timing!Ticks(nextWait) /\ Update \in Nat
      /\ firstWait \in BOOLEAN /\ beforeStart \in SUBSET Tasks
    BY DEF Timing!TypeOK, TimingConstants
<1>6. waited \in Nat /\ Ticks(nextWait) \in Nat /\ waited <= Ticks(nextWait)
    <2>1. Timing!Ticks(nextWait) = Ticks(nextWait) /\ Ticks(nextWait) \in Nat
        BY <1>4, TicksAre DEF TimingConstants
    <2> QED
        BY <1>4, <2>1
<1>5. \A t \in Tasks : asked[t] \in Int /\ asked[t] >= -1 /\ (asked[t] # -1 => asked[t] \in Nat)
    <2>1. \A d \in Delays \cup {-1} : d \in Int /\ d >= -1 /\ (d # -1 => d \in Nat)
        BY DEF TimingConstants
    <2> QED
        BY <1>4, <2>1
<1> QED
    BY <1>1, <1>2, <1>3, <1>4, <1>5, <1>6

LEMMA TimingInit == TimingConstants /\ Timing!Init => TimingInv
<1> SUFFICES ASSUME TimingConstants, Timing!Init PROVE TimingInv
    OBVIOUS
<1>1. Timing!TypeOK
    <2>1. Timing!Ticks(Update) \in Nat
        BY TicksAre DEF TimingConstants
    <2> QED
        BY <2>1 DEF Timing!Init, Timing!TypeOK, TimingConstants
<1>2. Len(waiting) = 0 /\ Len(fired) = 0
    BY DEF Timing!Init
<1> QED
    BY <1>1, <1>2 DEF Timing!Init, TimingInv, ListedOnce, Idle, Charged, InTime, EarlyByCreditOnly, TimingConstants

\* A new entry: it charges nothing yet but the wait it came into.
LEMMA TimingEnqueue ==
    ASSUME TimingConstants, TimingInv, NEW t \in Tasks, NEW ms \in Delays,
           Timing!EnqueueTaskAfterTimeOut(t, ms)
    PROVE  TimingInv'
<1> DEFINE e == [task |-> t, ms |-> ms]
<1>n. PICK n : n = Len(waiting)
    OBVIOUS
<1>0. Timing!TypeOK /\ ListedOnce /\ Idle /\ Charged /\ InTime /\ EarlyByCreditOnly
    BY DEF TimingInv
<1>1. /\ waiting \in Seq(Entry) /\ fired \in Seq(Tasks)
      /\ asked \in [Tasks -> Delays \cup {-1}]
      /\ \A u \in Tasks : asked[u] \in Int /\ asked[u] >= -1
      /\ age \in [Tasks -> Nat] /\ credit \in [Tasks -> Nat]
      /\ nextWait \in Nat /\ waited \in Nat /\ Update \in Nat
      /\ firstWait \in BOOLEAN /\ beforeStart \in SUBSET Tasks
      /\ \A i \in 1..Len(waiting) : waiting[i] \in Entry /\ waiting[i].task \in Tasks
                                                /\ waiting[i].ms \in Nat
      /\ \A j \in 1..Len(fired) : fired[j] \in Tasks
    BY <1>0, TimingTypes
<1>w. /\ cut \in [Tasks -> Nat] /\ wakeUps \in 0..MaxWakeUps
      /\ waited \in Nat /\ Ticks(nextWait) \in Nat /\ waited <= Ticks(nextWait)
    BY <1>0, TimingTypes
<1>2. ms \in Nat /\ ms # -1 /\ e \in Entry /\ e.task = t /\ e.ms = ms
    BY EntryIs DEF TimingConstants
<1>3. /\ asked[t] = -1 /\ asked' = [asked EXCEPT ![t] = ms]
      /\ waiting' = Append(waiting, e)
      /\ pc' = IF pc = "wait" THEN "woken" ELSE pc
      /\ credit' = [credit EXCEPT ![t] = IF firstWait THEN 0 ELSE waited]
      /\ beforeStart' = IF pc = "start" THEN beforeStart \cup {t} ELSE beforeStart
      /\ nextWait' = nextWait /\ firstWait' = firstWait /\ waited' = waited
      /\ age' = age /\ fired' = fired /\ cut' = cut /\ wakeUps' = wakeUps
    BY DEF Timing!EnqueueTaskAfterTimeOut
<1>k. /\ \A a \in Int : Ticks(a) \in Int
      /\ \A a \in Nat : Ticks(a) \in Nat
      /\ Ticks(0) = 0
    BY TicksAre DEF TimingConstants
<1>s. Slack(t)' \in Nat /\ Ticks(cut[t]) \in Nat
    <2>1. cut[t] \in Nat
        BY <1>w
    <2>2. Ticks(Update) \in Nat /\ Ticks(cut[t]) \in Nat /\ 0 \in Nat
        BY <1>1, <1>k, <2>1
    <2>3. Slack(t)' \in {Ticks(Update), 0}
        BY DEF Slack
    <2> QED
        BY <2>2, <2>3
<1>4. /\ waiting' \in Seq(Entry) /\ Len(waiting') = n + 1 /\ n \in Nat
      /\ \A i \in 1..n : waiting'[i] = waiting[i]
      /\ waiting'[n + 1] = e
    BY <1>1, <1>2, <1>3, <1>n
<1> HIDE DEF e
<1>5. asked'[t] = ms /\ \A u \in Tasks : u # t => asked'[u] = asked[u] /\ credit'[u] = credit[u]
    BY <1>1, <1>3
<1>6. Timing!TypeOK'
    BY <1>0, <1>1, <1>3, <1>4 DEF Timing!TypeOK, Entry
<1>7. \A i \in 1..n : waiting[i].task # t
    BY <1>n, <1>0, <1>1, <1>3 DEF ListedOnce
<1>8. \A j \in 1..Len(fired) : fired[j] # t /\ fired[j] \in Tasks
    BY <1>0, <1>1, <1>3 DEF ListedOnce
<1>9. \A i \in 1..(n + 1) : i \in 1..n \/ i = n + 1
    BY <1>4
<1>10. ListedOnce'
    <2>1. ASSUME NEW i \in 1..(n + 1)
          PROVE  asked'[waiting'[i].task] # -1 /\ \A j \in 1..Len(fired) : fired[j] # waiting'[i].task
        <3>1. CASE i = n + 1
            BY <1>2, <1>4, <1>5, <1>8, <3>1
        <3>2. CASE i \in 1..n
            <4>1. waiting'[i] = waiting[i] /\ waiting[i].task \in Tasks /\ waiting[i].task # t
                BY <1>n, <1>1, <1>4, <1>7, <3>2
            <4>2. /\ asked[waiting[i].task] # -1
                  /\ \A j \in 1..Len(fired) : fired[j] # waiting[i].task
                BY <1>n, <1>0, <3>2 DEF ListedOnce
            <4> QED
                BY <1>5, <4>1, <4>2
        <3> QED
            BY <1>9, <3>1, <3>2
    <2>2. ASSUME NEW i \in 1..(n + 1), NEW j \in 1..(n + 1), waiting'[i].task = waiting'[j].task
          PROVE  i = j
        BY <1>n, <1>0, <1>2, <1>4, <1>7, <1>9, <2>2 DEF ListedOnce
    <2>3. \A j \in 1..Len(fired) : asked'[fired[j]] # -1
        BY <1>0, <1>5, <1>8 DEF ListedOnce
    <2>4. \A u \in Tasks : asked'[u] = -1 => age[u] = 0
        BY <1>0, <1>2, <1>5 DEF ListedOnce
    <2> QED
        BY <1>3, <1>4, <2>1, <2>2, <2>3, <2>4 DEF ListedOnce
<1>11. age[t] = 0
    BY <1>0, <1>3 DEF ListedOnce
<1>12. ASSUME firstWait PROVE Idle'
    <2>1. nextWait = Update /\ (pc = "start" => waited = 0) /\ \A i \in 1..n : IdleEntry(waiting[i])
        BY <1>n, <1>0, <1>12 DEF Idle
    <2>2. ASSUME NEW i \in 1..n PROVE IdleEntry(waiting[i])'
        <3>1. IdleEntry(waiting[i]) /\ waiting[i].task \in Tasks /\ waiting[i].task # t /\ waiting'[i] = waiting[i]
            BY <1>n, <1>1, <1>4, <1>7, <2>1
        <3> QED
            BY <1>3, <1>5, <3>1 DEF IdleEntry
    <2>3. IdleEntry(e)'
        <3>1. e.task = t /\ e.ms = ms
            BY <1>2
        <3>2. pc' # "woken" => t \in beforeStart'
            BY <1>0, <1>3 DEF Timing!TypeOK
        <3> QED
            BY <1>1, <1>3, <1>5, <1>11, <3>1, <3>2 DEF IdleEntry
    <2> QED
        BY <1>3, <1>4, <1>9, <2>1, <2>2, <2>3 DEF Idle
<1>13. ASSUME ~firstWait PROVE Charged'
    <2>1. pc # "start" /\ \A i \in 1..n : ChargedEntry(waiting[i])
        BY <1>n, <1>0, <1>13 DEF Charged
    <2>2. pc' # "start" /\ pc' # "wait" /\ beforeStart' = beforeStart
        BY <1>3, <2>1
    <2>3. ASSUME NEW i \in 1..n PROVE ChargedEntry(waiting[i])'
        <3>1. ChargedEntry(waiting[i]) /\ waiting[i].task \in Tasks /\ waiting[i].task # t /\ waiting'[i] = waiting[i]
            BY <1>n, <1>1, <1>4, <1>7, <2>1
        <3> QED
            BY <1>3, <1>5, <2>2, <3>1 DEF ChargedEntry, Slack, Paid
    <2>4. ChargedEntry(e)'
        <3>1. e.task = t /\ e.ms = ms
            BY <1>2
        <3>2. credit'[t] = waited
            BY <1>1, <1>3, <1>13
        <3>3. Slack(t)' \in Nat /\ Ticks(cut[t]) \in Nat
            BY <1>s
        <3>4. Paid(e)' = 0
            <4>1. ms - ms = 0
                BY <1>2
            <4> QED
                BY <1>5, <1>k, <3>1, <4>1 DEF Paid
        <3> QED
            BY <1>1, <1>2, <1>3, <1>11, <2>2, <3>1, <3>2, <3>3, <3>4 DEF ChargedEntry
    <2>5. waiting' # <<>>
        BY <1>4
    <2> QED
        BY <1>4, <1>9, <2>2, <2>3, <2>4, <2>5 DEF Charged
<1>14. InTime'
    <2> SUFFICES ASSUME NEW u \in Tasks, asked'[u] # -1
                 PROVE  age'[u] <= Ticks(asked'[u]) + Ticks(cut'[u]) + Slack(u)'
        BY DEF InTime
    <2>1. CASE u = t
        <3>1. Ticks(ms) \in Nat /\ Ticks(cut[t]) \in Nat /\ Slack(t)' \in Nat
            BY <1>2, <1>k, <1>s, Zenon
        <3> QED
            BY <1>3, <1>5, <1>11, <2>1, <3>1
    <2>2. CASE u # t
        <3>1. Slack(u)' = Slack(u)
            BY <1>3, <2>2 DEF Slack
        <3> QED
            BY <1>0, <1>3, <1>5, <2>2, <3>1 DEF InTime
    <2> QED
        BY <2>1, <2>2
<1>15. EarlyByCreditOnly'
    <2>1. DOMAIN fired = 1..Len(fired)
        BY <1>1, ListIs
    <2> QED
        BY <1>0, <1>3, <1>5, <1>8, <2>1 DEF EarlyByCreditOnly
<1> QED
    BY <1>3, <1>6, <1>10, <1>12, <1>13, <1>14, <1>15 DEF TimingInv, Idle, Charged

\* A tick: who is listed grows older, and the wait with them.
LEMMA TimingTick ==
    ASSUME TimingConstants, TimingInv, Timing!Tick
    PROVE  TimingInv'
<1>0. Timing!TypeOK /\ ListedOnce /\ Idle /\ Charged /\ InTime /\ EarlyByCreditOnly
    BY DEF TimingInv
<1>1. /\ waiting \in Seq(Entry) /\ fired \in Seq(Tasks)
      /\ \A u \in Tasks : asked[u] \in Int /\ (asked[u] # -1 => asked[u] \in Nat)
      /\ age \in [Tasks -> Nat] /\ credit \in [Tasks -> Nat]
      /\ nextWait \in Nat /\ waited \in Nat /\ Update \in Nat
      /\ firstWait \in BOOLEAN
      /\ \A i \in 1..Len(waiting) : waiting[i] \in Entry /\ waiting[i].task \in Tasks
                                                /\ waiting[i].ms \in Nat
      /\ \A j \in 1..Len(fired) : fired[j] \in Tasks
    BY <1>0, TimingTypes
<1>w. /\ cut \in [Tasks -> Nat] /\ wakeUps \in 0..MaxWakeUps
      /\ waited \in Nat /\ Ticks(nextWait) \in Nat /\ waited <= Ticks(nextWait)
    BY <1>0, TimingTypes
<1>2. /\ pc = "wait" /\ waited < Timing!Ticks(nextWait) /\ waited' = waited + 1
      /\ cut' = cut /\ wakeUps' = wakeUps
      /\ age' = [u \in Tasks |-> IF u \in Timing!Listed THEN age[u] + 1 ELSE age[u]]
      /\ pc' = pc /\ waiting' = waiting /\ nextWait' = nextWait /\ firstWait' = firstWait
      /\ fired' = fired /\ asked' = asked /\ credit' = credit /\ beforeStart' = beforeStart
    BY DEF Timing!Tick, Timing!history
<1>k. Timing!Ticks(nextWait) = Ticks(nextWait) /\ waited + 1 <= Ticks(nextWait)
    <2>1. Timing!Ticks(nextWait) = Ticks(nextWait)
        BY <1>1, TicksAre DEF TimingConstants
    <2> QED
        BY <1>w, <1>2, <2>1
<1>t. /\ \A a \in Int : Ticks(a) \in Int
      /\ \A a \in Nat : Ticks(a) \in Nat
      /\ \A a, b \in Int : Ticks(a - b) = Ticks(a) - Ticks(b)
      /\ \A a, b \in Int : a <= b => Ticks(a) <= Ticks(b)
    BY TicksAre DEF TimingConstants
<1>3. Timing!Listed = {waiting[i].task : i \in 1..Len(waiting)}
    BY <1>1, ListIs DEF Timing!Listed
<1>4. /\ age' \in [Tasks -> Nat]
      /\ \A i \in 1..Len(waiting) : age'[waiting[i].task] = age[waiting[i].task] + 1
      /\ \A u \in Tasks : (\A i \in 1..Len(waiting) : waiting[i].task # u) => age'[u] = age[u]
    <2> DEFINE older == [u \in Tasks |-> IF u \in Timing!Listed THEN age[u] + 1 ELSE age[u]]
    <2>1. age' = older
        BY <1>2
    <2>2. /\ \A u \in Tasks : older[u] \in Nat
          /\ \A u \in Timing!Listed \cap Tasks : older[u] = age[u] + 1
          /\ \A u \in Tasks \ Timing!Listed : older[u] = age[u]
        BY <1>1
    <2>3. older \in [Tasks -> Nat]
        BY <2>2
    <2> HIDE DEF older
    <2>4. \A i \in 1..Len(waiting) : waiting[i].task \in Timing!Listed \cap Tasks
        BY <1>1, <1>3
    <2>5. \A u \in Tasks : (\A i \in 1..Len(waiting) : waiting[i].task # u) => u \notin Timing!Listed
        BY <1>3
    <2> QED
        BY <2>1, <2>2, <2>3, <2>4, <2>5, Zenon
<1>5. Timing!TypeOK'
    <2>1. waited + 1 \in 0..Timing!Ticks(nextWait)
        BY <1>w, <1>k
    <2>2. Timing!Ticks(nextWait)' = Timing!Ticks(nextWait)
        BY <1>2, Zenon DEF Timing!Ticks
    <2> QED
        BY <1>0, <1>1, <1>2, <1>4, <2>1, <2>2 DEF Timing!TypeOK
<1>6. ListedOnce'
    <2>1. \A u \in Tasks : asked[u] = -1 => \A i \in 1..Len(waiting) : waiting[i].task # u
        BY <1>0 DEF ListedOnce
    <2> QED
        BY <1>0, <1>2, <1>4, <2>1 DEF ListedOnce
<1>7. Idle'
    <2> SUFFICES ASSUME firstWait, NEW i \in 1..Len(waiting) PROVE IdleEntry(waiting[i])'
        BY <1>0, <1>2 DEF Idle
    <2>1. IdleEntry(waiting[i])
        BY <1>0 DEF Idle
    <2> DEFINE u == waiting[i].task
    <2>2. age'[u] = age[u] + 1 /\ age[u] \in Nat
        BY <1>1, <1>4
    <2>3. u \in beforeStart /\ age[u] <= waited /\ waiting[i].ms = asked[u]
        BY <1>2, <2>1 DEF IdleEntry
    <2>4. age'[u] <= waited'
        BY <1>w, <1>2, <2>2, <2>3
    <2> QED
        BY <1>2, <2>3, <2>4 DEF IdleEntry
<1>8. Charged'
    <2> SUFFICES ASSUME ~firstWait, NEW i \in 1..Len(waiting) PROVE ChargedEntry(waiting[i])'
        BY <1>0, <1>2 DEF Charged
    <2>1. ChargedEntry(waiting[i])
        BY <1>0 DEF Charged
    <2>2. Slack(waiting[i].task)' = Slack(waiting[i].task) /\ Slack(waiting[i].task) \in Nat
        <3>1. Slack(waiting[i].task)' = Slack(waiting[i].task)
            BY <1>2 DEF Slack
        <3>2. Ticks(Update) \in Nat
            BY <1>1, <1>t
        <3> QED
            BY <3>1, <3>2 DEF Slack
    <2> DEFINE u == waiting[i].task
               a == age[u]
               g == credit[u]
               h == Slack(u)
               p == Paid(waiting[i])
               c == Ticks(cut[u])
    <2>3. /\ u \in Tasks /\ a \in Nat /\ g \in Nat /\ h \in Nat /\ p \in Int /\ c \in Nat
          /\ age'[u] = a + 1
        <3>1. /\ u \in Tasks /\ a \in Nat /\ g \in Nat /\ h \in Nat /\ age'[u] = a + 1
              /\ cut[u] \in Nat
            BY <1>1, <1>w, <1>4, <2>2
        <3>2. c \in Nat
            BY <1>t, <3>1
        <3>3. asked[u] - waiting[i].ms \in Int
            BY <1>1
        <3>4. Ticks(asked[u] - waiting[i].ms) \in Int
            BY <1>t, <3>3
        <3> QED
            BY <3>1, <3>2, <3>4 DEF Paid
    <2>4. a <= p + c + waited + h /\ a >= p + waited - g /\ nextWait <= waiting[i].ms
        BY <1>2, <2>1 DEF ChargedEntry
    <2>5. Paid(waiting[i])' = p
        BY <1>2 DEF Paid
    <2> HIDE DEF a, g, h, p, c
    <2>6. a + 1 <= p + c + (waited + 1) + h /\ a + 1 >= p + (waited + 1) - g
        BY <1>w, <2>3, <2>4
    <2> QED
        BY <1>2, <2>2, <2>3, <2>4, <2>5, <2>6 DEF ChargedEntry, a, g, h, p, c
<1>9. InTime'
    <2> SUFFICES ASSUME NEW u \in Tasks, asked[u] # -1
                 PROVE  age'[u] <= Ticks(asked[u]) + Ticks(cut[u]) + Slack(u)
        BY <1>2 DEF InTime, Slack
    <2>1. /\ Slack(u) \in Nat /\ Ticks(asked[u]) \in Nat /\ Ticks(cut[u]) \in Nat
          /\ age[u] \in Nat /\ asked[u] \in Nat
          /\ age[u] <= Ticks(asked[u]) + Ticks(cut[u]) + Slack(u)
        <3>1. age[u] \in Nat /\ asked[u] \in Nat /\ cut[u] \in Nat /\ Update \in Nat
            BY <1>1, <1>w
        <3>2. Ticks(asked[u]) \in Nat /\ Ticks(cut[u]) \in Nat /\ Ticks(Update) \in Nat
            BY <1>t, <3>1
        <3>3. age[u] <= Ticks(asked[u]) + Ticks(cut[u]) + Slack(u)
            BY <1>0 DEF InTime
        <3> QED
            BY <3>1, <3>2, <3>3 DEF Slack
    <2>2. CASE \A i \in 1..Len(waiting) : waiting[i].task # u
        BY <1>4, <2>1, <2>2
    <2>3. ASSUME NEW i \in 1..Len(waiting), waiting[i].task = u
          PROVE  age'[u] <= Ticks(asked[u]) + Ticks(cut[u]) + Slack(u)
        <3>1. age'[u] = age[u] + 1 /\ waiting[i].ms \in Nat
            BY <1>1, <1>4, <2>3
        <3>2. CASE firstWait
            <4>1. IdleEntry(waiting[i]) /\ nextWait = Update
                BY <1>0, <3>2 DEF Idle
            <4>2. u \in beforeStart /\ age[u] <= waited /\ Slack(u) = Ticks(Update)
                BY <1>2, <2>3, <4>1 DEF IdleEntry, Slack
            <4>3. waited + 1 <= Slack(u)
                BY <1>k, <4>1, <4>2
            <4> QED
                BY <1>1, <2>1, <3>1, <4>2, <4>3
        <3>3. CASE ~firstWait
            <4> DEFINE a == age[u]
                       c == Ticks(cut[u])
                       d == Ticks(asked[u])
                       h == Slack(u)
                       m == Ticks(waiting[i].ms)
                       p == Paid(waiting[i])
            <4>1. ChargedEntry(waiting[i])
                BY <1>0, <3>3 DEF Charged
            <4>2. a <= p + c + waited + h /\ nextWait <= waiting[i].ms
                BY <1>2, <2>3, <4>1 DEF ChargedEntry
            <4>3. waited + 1 <= m /\ m \in Nat
                <5>1. m \in Nat /\ Ticks(nextWait) <= m
                    BY <1>1, <1>t, <3>1, <4>2, NatInInt, Zenon
                <5> QED
                    BY <1>w, <1>k, <5>1
            <4>4. p = d - m
                <5>1. Ticks(asked[u] - waiting[i].ms) = d - m
                    BY <1>t, <2>1, <3>1, NatInInt, Zenon
                <5> QED
                    BY <2>3, <5>1 DEF Paid
            <4>5. a \in Nat /\ c \in Nat /\ d \in Nat /\ h \in Nat /\ waited \in Nat
                BY <1>1, <2>1
            <4> HIDE DEF a, c, d, h, m, p
            <4>6. a + 1 <= d + c + h
                BY <4>2, <4>3, <4>4, <4>5
            <4> QED
                BY <3>1, <4>6 DEF a, c, d, h
        <3> QED
            BY <1>1, <3>2, <3>3
    <2> QED
        BY <2>2, <2>3
<1>10. EarlyByCreditOnly'
    <2>1. DOMAIN fired = 1..Len(fired)
        BY <1>1, ListIs
    <2>2. \A j \in 1..Len(fired) : age'[fired[j]] = age[fired[j]]
        BY <1>0, <1>1, <1>4 DEF ListedOnce
    <2> QED
        BY <1>0, <1>2, <2>1, <2>2 DEF EarlyByCreditOnly
<1> QED
    BY <1>5, <1>6, <1>7, <1>8, <1>9, <1>10 DEF TimingInv

\* The steps that move only the handler.
LEMMA TimingMoves ==
    ASSUME TimingConstants, TimingInv,
           Timing!Start \/ Timing!TimeOut \/ Timing!WakeUp \/ Timing!HandleNothing
    PROVE  TimingInv'
<1>0. Timing!TypeOK /\ ListedOnce /\ Idle /\ Charged /\ InTime /\ EarlyByCreditOnly
    BY DEF TimingInv
<1>1. /\ waiting \in Seq(Entry) /\ fired \in Seq(Tasks)
      /\ \A u \in Tasks : asked[u] \in Int /\ (asked[u] # -1 => asked[u] \in Nat)
      /\ age \in [Tasks -> Nat] /\ credit \in [Tasks -> Nat]
      /\ nextWait \in Nat /\ waited \in Nat /\ Update \in Nat
      /\ firstWait \in BOOLEAN
      /\ \A i \in 1..Len(waiting) : waiting[i] \in Entry /\ waiting[i].task \in Tasks
                                                /\ waiting[i].ms \in Nat
      /\ \A j \in 1..Len(fired) : fired[j] \in Tasks
    BY <1>0, TimingTypes
<1>w. /\ cut \in [Tasks -> Nat] /\ wakeUps \in 0..MaxWakeUps
      /\ waited \in Nat /\ Ticks(nextWait) \in Nat /\ waited <= Ticks(nextWait)
    BY <1>0, TimingTypes
<1>2. /\ waiting' = waiting /\ nextWait' = nextWait /\ firstWait' = firstWait /\ age' = age
      /\ fired' = fired /\ asked' = asked /\ credit' = credit /\ beforeStart' = beforeStart
      /\ cut' = cut
    BY DEF Timing!Start, Timing!TimeOut, Timing!WakeUp, Timing!HandleNothing, Timing!history
<1>3. ListedOnce' /\ InTime' /\ EarlyByCreditOnly'
    BY <1>0, <1>2 DEF ListedOnce, InTime, EarlyByCreditOnly, Slack
<1>4. Timing!TypeOK'
    <2>1. /\ Timing!Ticks(nextWait) \in Nat
          /\ Timing!Ticks(nextWait)' = Timing!Ticks(nextWait)
        <3>1. Timing!Ticks(nextWait) \in Nat
            BY <1>1, TicksAre DEF TimingConstants
        <3>2. Timing!Ticks(nextWait)' = Timing!Ticks(nextWait)
            BY <1>2, Zenon DEF Timing!Ticks
        <3> QED
            BY <3>1, <3>2
    <2>2. wakeUps' \in 0..MaxWakeUps /\ (waited' = waited \/ waited' = 0)
          /\ pc' \in {"start", "wait", "woken"}
        BY <1>w DEF Timing!Start, Timing!TimeOut, Timing!WakeUp, Timing!HandleNothing,
                    TimingConstants
    <2>3. waited' \in 0..Timing!Ticks(nextWait)
        BY <1>0, <2>1, <2>2 DEF Timing!TypeOK
    <2> QED
        BY <1>0, <1>1, <1>2, <2>1, <2>2, <2>3 DEF Timing!TypeOK
<1>5. CASE Timing!Start
    <2>1. pc = "start" /\ pc' = "wait" /\ waited' = waited /\ firstWait
        BY <1>0, <1>1, <1>5 DEF Timing!Start, Charged
    <2>2. ASSUME NEW i \in 1..Len(waiting) PROVE IdleEntry(waiting[i])'
        BY <1>0, <1>2, <2>1 DEF Idle, IdleEntry
    <2> QED
        BY <1>0, <1>2, <1>3, <1>4, <2>1, <2>2 DEF TimingInv, Idle, Charged
<1>6. CASE Timing!TimeOut \/ Timing!WakeUp
    <2>1. pc' = "woken" /\ waited' = waited
        BY <1>6 DEF Timing!TimeOut, Timing!WakeUp
    <2>2. Idle'
        BY <1>0, <1>2, <2>1 DEF Idle, IdleEntry
    <2>3. Charged'
        BY <1>0, <1>2, <2>1 DEF Charged, ChargedEntry, Slack, Paid
    <2> QED
        BY <1>3, <1>4, <2>2, <2>3 DEF TimingInv
<1>7. CASE Timing!HandleNothing
    <2>1. waiting = <<>> /\ pc' = "wait" /\ waited' = 0 /\ firstWait
        BY <1>0, <1>1, <1>7 DEF Timing!HandleNothing, Charged
    <2>2. Len(waiting) = 0
        BY <2>1
    <2> QED
        BY <1>0, <1>2, <1>3, <1>4, <2>1, <2>2 DEF TimingInv, Idle, Charged
<1> QED
    BY <1>5, <1>6, <1>7

\* What the sort makes of the list: entries of it, each once, the nearest first.
LEMMA SortedWaiting ==
    ASSUME TimingConstants, TimingInv, NEW s \in Timing!Sorted(waiting), NEW n, n = Len(waiting)
    PROVE  /\ s \in Seq(Entry) /\ Len(s) = n /\ n \in Nat
           /\ \A i \in 1..n : /\ s[i].task \in Tasks /\ s[i].ms \in Nat
                              /\ asked[s[i].task] # -1
                              /\ \A j \in 1..Len(fired) : fired[j] # s[i].task
                              /\ firstWait => IdleEntry(s[i])
                              /\ ~firstWait => ChargedEntry(s[i])
                              /\ \E j \in 1..n : s[i] = waiting[j]
           /\ \A i, j \in 1..n : s[i].task = s[j].task => i = j
           /\ \A i, j \in 1..n : i <= j => s[i].ms <= s[j].ms
<1>0. Timing!TypeOK /\ ListedOnce /\ Idle /\ Charged
    BY DEF TimingInv
<1>1. /\ waiting \in Seq(Entry) /\ firstWait \in BOOLEAN
      /\ \A i \in 1..n : waiting[i].task \in Tasks /\ waiting[i].ms \in Nat
    BY <1>0, TimingTypes
<1>2. n \in Nat /\ s \in Seq(Entry) /\ Len(s) = n /\ \A i, j \in 1..n : i <= j => s[i].ms <= s[j].ms
    BY <1>1, SortedIs, ListIs
<1>3. PICK p \in [1..n -> 1..n] : /\ \A i, j \in 1..n : p[i] = p[j] => i = j
                                  /\ \A i \in 1..n : s[i] = waiting[p[i]]
    BY <1>1, SortedIs
<1>4. \A i \in 1..n : p[i] \in 1..n
    BY <1>3
<1>5. \A i \in 1..n : /\ waiting[i].task \in Tasks /\ waiting[i].ms \in Nat
                      /\ asked[waiting[i].task] # -1
                      /\ \A j \in 1..Len(fired) : fired[j] # waiting[i].task
                      /\ firstWait => IdleEntry(waiting[i])
                      /\ ~firstWait => ChargedEntry(waiting[i])
    BY <1>0, <1>1 DEF ListedOnce, Idle, Charged
<1>6. \A i, j \in 1..n : waiting[i].task = waiting[j].task => i = j
    BY <1>0 DEF ListedOnce
<1>7. ASSUME NEW i \in 1..n, NEW j \in 1..n, s[i].task = s[j].task PROVE i = j
    <2>1. p[i] = p[j]
        BY <1>3, <1>4, <1>6, <1>7
    <2> QED
        BY <1>3, <2>1
<1>8. ASSUME NEW i \in 1..n
      PROVE  /\ s[i].task \in Tasks /\ s[i].ms \in Nat
             /\ asked[s[i].task] # -1
             /\ \A j \in 1..Len(fired) : fired[j] # s[i].task
             /\ firstWait => IdleEntry(s[i])
             /\ ~firstWait => ChargedEntry(s[i])
             /\ \E j \in 1..n : s[i] = waiting[j]
    <2>1. p[i] \in 1..n /\ s[i] = waiting[p[i]]
        BY <1>3, <1>4
    <2> QED
        BY <1>5, <2>1
<1> QED
    BY <1>2, <1>7, <1>8

\* The first wake-up with a list begins to charge the waits.
LEMMA TimingFirst ==
    ASSUME TimingConstants, TimingInv, Timing!HandleFirst
    PROVE  TimingInv'
<1>0. Timing!TypeOK /\ ListedOnce /\ Idle /\ Charged /\ InTime /\ EarlyByCreditOnly
    BY DEF TimingInv
<1>1. /\ waiting \in Seq(Entry) /\ fired \in Seq(Tasks)
      /\ \A u \in Tasks : asked[u] \in Int /\ (asked[u] # -1 => asked[u] \in Nat)
      /\ age \in [Tasks -> Nat] /\ credit \in [Tasks -> Nat]
      /\ nextWait \in Nat /\ waited \in Nat /\ Update \in Nat
      /\ firstWait \in BOOLEAN
      /\ \A i \in 1..Len(waiting) : waiting[i] \in Entry /\ waiting[i].task \in Tasks
                                                /\ waiting[i].ms \in Nat
      /\ \A j \in 1..Len(fired) : fired[j] \in Tasks
    BY <1>0, TimingTypes
<1>w. /\ cut \in [Tasks -> Nat] /\ wakeUps \in 0..MaxWakeUps
      /\ waited \in Nat /\ Ticks(nextWait) \in Nat /\ waited <= Ticks(nextWait)
    BY <1>0, TimingTypes
<1>n. PICK n : n = Len(waiting)
    OBVIOUS
<1>2. PICK s \in Timing!Sorted(waiting) : waiting' = s /\ nextWait' = s[1].ms
    BY DEF Timing!HandleFirst
<1>3. /\ waiting # <<>> /\ firstWait /\ firstWait' = FALSE /\ pc' = "wait" /\ waited' = 0
      /\ age' = age /\ fired' = fired /\ asked' = asked /\ credit' = credit
      /\ beforeStart' = beforeStart /\ cut' = cut /\ wakeUps' = wakeUps
    BY DEF Timing!HandleFirst, Timing!history
<1>k. /\ \A a \in Nat : Ticks(a) \in Nat
      /\ Ticks(0) = 0
      /\ \A a : Timing!Ticks(a) = Ticks(a)
    BY TicksAre DEF TimingConstants
<1>4. /\ s \in Seq(Entry) /\ Len(s) = n /\ n \in Nat
      /\ \A i \in 1..n : /\ s[i].task \in Tasks /\ s[i].ms \in Nat
                         /\ asked[s[i].task] # -1
                         /\ \A j \in 1..Len(fired) : fired[j] # s[i].task
                         /\ IdleEntry(s[i])
      /\ \A i, j \in 1..n : s[i].task = s[j].task => i = j
      /\ \A i, j \in 1..n : i <= j => s[i].ms <= s[j].ms
    BY <1>n, <1>3, SortedWaiting
<1>5. n # 0 /\ 1 \in 1..n
    BY <1>1, <1>n, <1>3, <1>4
<1>6. Timing!TypeOK'
    <2>1. nextWait' \in Nat /\ waited' \in 0..Timing!Ticks(nextWait')
        BY <1>2, <1>3, <1>4, <1>5, <1>k
    <2>2. Timing!Ticks(nextWait)' = Timing!Ticks(nextWait')
        BY Zenon DEF Timing!Ticks
    <2> QED
        BY <1>0, <1>2, <1>3, <1>4, <2>1, <2>2 DEF Timing!TypeOK, Entry
<1>7. ListedOnce'
    BY <1>0, <1>2, <1>3, <1>4 DEF ListedOnce
<1>8. ASSUME NEW i \in 1..n PROVE ChargedEntry(s[i])'
    <2> DEFINE u == s[i].task
    <2>1. /\ u \in Tasks /\ s[i].ms \in Nat /\ age[u] \in Nat /\ credit[u] \in Nat
          /\ asked[u] = s[i].ms /\ age[u] <= IF u \in beforeStart THEN waited ELSE 0
        BY <1>1, <1>4 DEF IdleEntry
    <2>2. waited <= Ticks(Update) /\ waited \in Nat
        BY <1>0, <1>w, <1>3 DEF Idle
    <2>3. age[u] <= Slack(u) /\ Slack(u)' = Slack(u) /\ Slack(u) \in Nat
        <3>1. Ticks(Update) \in Nat
            BY <1>1, <1>k
        <3> QED
            BY <1>3, <2>1, <2>2, <3>1 DEF Slack
    <2>4. nextWait' <= s[i].ms
        BY <1>2, <1>4, <1>5
    <2>5. Paid(s[i])' = 0 /\ Ticks(cut[u]) \in Nat
        <3>1. asked[u] - s[i].ms = 0
            BY <2>1
        <3> QED
            <4>1. cut[u] \in Nat
                BY <1>w, <2>1
            <4>2. Ticks(cut[u]) \in Nat
                BY <1>k, <4>1, Zenon
            <4>3. Paid(s[i])' = Ticks(asked[u] - s[i].ms)
                BY <1>3 DEF Paid
            <4> QED
                BY <1>k, <3>1, <4>2, <4>3
    <2> HIDE DEF u
    <2>6. age[u] <= 0 + Ticks(cut[u]) + 0 + Slack(u) /\ age[u] >= 0 + 0 - credit[u]
        BY <2>1, <2>3, <2>5
    <2> QED
        BY <1>3, <2>3, <2>4, <2>5, <2>6 DEF ChargedEntry, u
<1>9. Charged'
    <2>1. s # <<>>
        BY <1>4, <1>5
    <2> QED
        BY <1>2, <1>3, <1>4, <1>8, <2>1 DEF Charged
<1>10. Idle'
    BY <1>3 DEF Idle
<1>11. InTime' /\ EarlyByCreditOnly'
    BY <1>0, <1>3 DEF InTime, EarlyByCreditOnly, Slack
<1> QED
    BY <1>6, <1>7, <1>9, <1>10, <1>11 DEF TimingInv

\* Later ones fire the front of the list and charge the wait to the rest.
LEMMA TimingHandle ==
    ASSUME TimingConstants, TimingInv, Timing!Handle
    PROVE  TimingInv'
<1>0. Timing!TypeOK /\ ListedOnce /\ Idle /\ Charged /\ InTime /\ EarlyByCreditOnly
    BY DEF TimingInv
<1>1. /\ waiting \in Seq(Entry) /\ fired \in Seq(Tasks)
      /\ \A u \in Tasks : asked[u] \in Int /\ (asked[u] # -1 => asked[u] \in Nat)
      /\ age \in [Tasks -> Nat] /\ credit \in [Tasks -> Nat]
      /\ nextWait \in Nat /\ waited \in Nat /\ Update \in Nat
      /\ firstWait \in BOOLEAN
      /\ \A i \in 1..Len(waiting) : waiting[i] \in Entry /\ waiting[i].task \in Tasks
                                                /\ waiting[i].ms \in Nat
      /\ \A j \in 1..Len(fired) : fired[j] \in Tasks
    BY <1>0, TimingTypes
<1>w. /\ cut \in [Tasks -> Nat] /\ wakeUps \in 0..MaxWakeUps
      /\ waited \in Nat /\ Ticks(nextWait) \in Nat /\ waited <= Ticks(nextWait)
    BY <1>0, TimingTypes
<1>n. PICK n : n = Len(waiting)
    OBVIOUS
<1>c. PICK cw : cw = Timing!CurWait
    OBVIOUS
<1>k. /\ cw \in Nat /\ Ticks(cw) <= waited /\ waited < Ticks(cw) + Parts
      /\ Ticks(cw) \in Nat /\ Timing!Ticks(Timing!CurWait) = Ticks(cw)
    BY <1>1, <1>c, CurWaitIs, TicksAre DEF TimingConstants
<1>t. /\ \A a \in Int : Ticks(a) \in Int
      /\ \A a \in Nat : Ticks(a) \in Nat /\ Timing!Ticks(a) = Ticks(a)
      /\ \A a, b \in Int : Ticks(a + b) = Ticks(a) + Ticks(b)
      /\ \A a, b \in Int : Ticks(a - b) = Ticks(a) - Ticks(b)
      /\ \A a, b \in Int : a <= b => Ticks(a) <= Ticks(b)
      /\ Ticks(1) = Parts /\ Parts \in Nat
    BY TicksAre DEF TimingConstants
<1>a. PICK s \in Timing!Sorted(waiting) : \E k \in Timing!Fires(s, cw) :
         /\ fired' = fired \o [i \in 1..k |-> s[i].task]
         /\ waiting' = Timing!Charge(s, k, cw)
         /\ firstWait' = (Timing!Charge(s, k, cw) = <<>>)
         /\ nextWait' = IF Timing!Charge(s, k, cw) = <<>> THEN Update
                        ELSE Timing!Charge(s, k, cw)[1].ms
    BY <1>c, Zenon DEF Timing!Handle
<1>2. PICK k \in Timing!Fires(s, cw) :
         /\ fired' = fired \o [i \in 1..k |-> s[i].task]
         /\ waiting' = Timing!Charge(s, k, cw)
         /\ firstWait' = (Timing!Charge(s, k, cw) = <<>>)
         /\ nextWait' = IF Timing!Charge(s, k, cw) = <<>> THEN Update
                        ELSE Timing!Charge(s, k, cw)[1].ms
    BY <1>a, Zenon
<1>3. /\ ~firstWait /\ pc' = "wait" /\ waited' = 0
      /\ age' = age /\ asked' = asked /\ credit' = credit /\ beforeStart' = beforeStart
      /\ wakeUps' = wakeUps
    BY DEF Timing!Handle, Timing!history
<1>u. /\ cut' \in [Tasks -> Nat]
      /\ \A u \in Tasks : cut'[u] \in Nat /\ cut[u] \in Nat /\ cut[u] <= cut'[u]
      /\ \A u \in Tasks : u \in Timing!Listed /\ waited # Ticks(cw) => cut'[u] = cut[u] + 1
    <2>1. cut' = [u \in Tasks |-> IF u \in Timing!Listed /\ waited # Ticks(cw)
                                  THEN cut[u] + 1 ELSE cut[u]]
        BY <1>k DEF Timing!Handle
    <2> QED
        BY <1>w, <2>1
<1>4. /\ s \in Seq(Entry) /\ Len(s) = n /\ n \in Nat
      /\ \A i \in 1..n : /\ s[i].task \in Tasks /\ s[i].ms \in Nat
                         /\ asked[s[i].task] # -1
                         /\ \A j \in 1..Len(fired) : fired[j] # s[i].task
                         /\ ChargedEntry(s[i])
                         /\ \E j \in 1..n : s[i] = waiting[j]
      /\ \A i, j \in 1..n : s[i].task = s[j].task => i = j
      /\ \A i, j \in 1..n : i <= j => s[i].ms <= s[j].ms
    BY <1>n, <1>3, SortedWaiting
<1>r. PICK rest : rest = Timing!Charge(s, k, cw)
    OBVIOUS
<1> DEFINE m == n - k
           due == [i \in 1..k |-> s[i].task]
<1>5. /\ k \in Nat /\ k <= n /\ m \in Nat
      /\ \A i \in 1..k : i \in 1..n /\ s[i].ms <= cw
      /\ \A i \in 1..m : k + i \in 1..n /\ s[k + i].ms > cw
    <2>1. DOMAIN s = 1..n
        BY <1>4, ListIs
    <2>2. k \in 0..n /\ \A i \in 1..n : s[i].ms - cw <= 0 <=> i <= k
        BY <1>4, <2>1 DEF Timing!Fires, Timing!Due
    <2>3. k \in Nat /\ k <= n /\ m \in Nat
        BY <1>4, <2>2
    <2>4. \A i \in 1..k : i \in 1..n /\ i <= k
        BY <1>4, <2>3
    <2>5. \A i \in 1..m : k + i \in 1..n /\ ~(k + i <= k)
        BY <1>4, <2>3
    <2>6. \A i \in 1..k : s[i].ms <= cw
        <3> SUFFICES ASSUME NEW i \in 1..k PROVE s[i].ms <= cw
            OBVIOUS
        <3>1. i \in 1..n /\ i <= k /\ s[i].ms - cw <= 0 /\ s[i].ms \in Nat
            BY <1>4, <2>2, <2>4
        <3> QED
            BY <1>k, <3>1
    <2>7. \A i \in 1..m : s[k + i].ms > cw
        <3> SUFFICES ASSUME NEW i \in 1..m PROVE s[k + i].ms > cw
            OBVIOUS
        <3>1. k + i \in 1..n /\ ~(s[k + i].ms - cw <= 0) /\ s[k + i].ms \in Nat
            BY <1>4, <2>2, <2>5
        <3> QED
            BY <1>k, <3>1
    <2> QED
        BY <2>3, <2>4, <2>5, <2>6, <2>7
<1>6. /\ rest \in Seq(Entry) /\ Len(rest) = m
      /\ \A i \in 1..m : rest[i].task = s[k + i].task /\ rest[i].ms = s[k + i].ms - cw
    <2>1. rest = [i \in 1..m |-> [s[k + i] EXCEPT !.ms = s[k + i].ms - cw]]
        BY <1>4, <1>r DEF Timing!Charge
    <2>2. ASSUME NEW i \in 1..m
          PROVE  /\ rest[i].task = s[k + i].task /\ rest[i].ms = s[k + i].ms - cw
                 /\ rest[i] \in Entry
        <3>1. k + i \in 1..n /\ s[k + i] \in Entry /\ s[k + i].ms > cw /\ s[k + i].ms \in Nat
            BY <1>4, <1>5, ListIs
        <3>2. s[k + i].ms - cw \in Nat
            BY <1>k, <3>1
        <3>3. rest[i] = [s[k + i] EXCEPT !.ms = s[k + i].ms - cw]
            BY <2>1
        <3> QED
            BY <3>1, <3>2, <3>3 DEF Entry
    <2>3. rest \in [1..m -> Entry]
        BY <2>1, <2>2
    <2> HIDE DEF m
    <2> QED
        BY <1>5, <2>2, <2>3, ListOf
<1>7. /\ due \in Seq(Tasks) /\ Len(due) = k /\ \A i \in 1..k : due[i] = s[i].task
    <2>1. due \in [1..k -> Tasks] /\ \A i \in 1..k : due[i] = s[i].task
        BY <1>4, <1>5
    <2> HIDE DEF due
    <2> QED
        BY <1>5, <2>1, ListOf
<1>8. fired' = fired \o due /\ waiting' = rest /\ firstWait' = (rest = <<>>)
      /\ nextWait' = IF rest = <<>> THEN Update ELSE rest[1].ms
    BY <1>2, <1>r
<1> HIDE DEF due, m
<1>9. /\ fired' \in Seq(Tasks) /\ Len(fired') = Len(fired) + k /\ Len(fired) \in Nat
      /\ \A j \in 1..Len(fired) : fired'[j] = fired[j]
      /\ \A j \in 1..k : fired'[Len(fired) + j] = s[j].task
      /\ \A j \in 1..Len(fired') : j \in 1..Len(fired) \/ \E q \in 1..k : j = Len(fired) + q
    <2>1. /\ fired' \in Seq(Tasks) /\ Len(fired') = Len(fired) + k /\ Len(fired) \in Nat
          /\ \A j \in 1..Len(fired) : fired'[j] = fired[j]
          /\ \A j \in 1..k : fired'[Len(fired) + j] = due[j]
        <3>1. /\ fired \o due \in Seq(Tasks) /\ Len(fired \o due) = Len(fired) + Len(due)
              /\ Len(fired) \in Nat
              /\ \A j \in 1..Len(fired) : (fired \o due)[j] = fired[j]
              /\ \A j \in 1..Len(due) : (fired \o due)[Len(fired) + j] = due[j]
            BY <1>1, <1>7, SMTT(30)
        <3> QED
            BY <1>7, <1>8, <3>1
    <2>2. ASSUME NEW j \in 1..(Len(fired) + k), j \notin 1..Len(fired)
          PROVE  \E q \in 1..k : j = Len(fired) + q
        <3>1. j - Len(fired) \in 1..k /\ j = Len(fired) + (j - Len(fired))
            BY <1>5, <2>1, <2>2
        <3> QED
            BY <3>1
    <2> QED
        BY <1>7, <2>1, <2>2
<1>10. \A i \in 1..m : rest[i].task \in Tasks /\ rest[i].ms \in Nat
    BY <1>6, ListIs, EntryIs
<1>11. rest # <<>> => 1 \in 1..m
    BY <1>5, <1>6
<1>12. Timing!TypeOK'
    <2>1. nextWait' \in Nat /\ firstWait' \in BOOLEAN
        BY <1>1, <1>8, <1>10, <1>11
    <2>2. waited' \in 0..Timing!Ticks(nextWait)'
        <3>1. Timing!Ticks(nextWait)' = Timing!Ticks(nextWait')
            BY Zenon DEF Timing!Ticks
        <3>2. Timing!Ticks(nextWait') \in Nat
            BY <1>t, <2>1
        <3> QED
            BY <1>3, <3>1, <3>2
    <2> QED
        BY <1>0, <1>1, <1>3, <1>6, <1>8, <1>9, <1>u, <2>1, <2>2 DEF Timing!TypeOK, Entry
<1>13. ListedOnce'
    <2>1. ASSUME NEW i \in 1..m
          PROVE  /\ asked[rest[i].task] # -1
                 /\ \A j \in 1..Len(fired') : fired'[j] # rest[i].task
        <3>1. k + i \in 1..n /\ rest[i].task = s[k + i].task
            BY <1>5, <1>6
        <3>2. ASSUME NEW j \in 1..Len(fired) PROVE fired'[j] # rest[i].task
            <4>1. fired'[j] = fired[j] /\ fired[j] # s[k + i].task
                BY <1>4, <1>9, <3>1, Zenon
            <4> QED
                BY <3>1, <4>1, Zenon
        <3>3. ASSUME NEW q \in 1..k PROVE fired'[Len(fired) + q] # rest[i].task
            <4>1. q \in 1..n /\ q # k + i
                BY <1>5
            <4> QED
                BY <1>4, <1>9, <3>1, <4>1
        <3> QED
            <4>1. asked[rest[i].task] # -1
                BY <1>4, <3>1
            <4> QED
                BY <1>9, <3>2, <3>3, <4>1
    <2>2. ASSUME NEW i \in 1..m, NEW j \in 1..m, rest[i].task = rest[j].task PROVE i = j
        <3>1. k + i \in 1..n /\ k + j \in 1..n /\ s[k + i].task = s[k + j].task
            BY <1>5, <1>6, <2>2
        <3>2. k + i = k + j
            BY <1>4, <3>1
        <3> QED
            BY <1>5, <3>2
    <2>3. ASSUME NEW j \in 1..Len(fired') PROVE asked[fired'[j]] # -1
        <3>1. CASE j \in 1..Len(fired)
            BY <1>0, <1>9, <3>1 DEF ListedOnce
        <3>2. ASSUME NEW q \in 1..k PROVE asked[fired'[Len(fired) + q]] # -1
            <4>1. q \in 1..n /\ fired'[Len(fired) + q] = s[q].task
                BY <1>5, <1>9
            <4> QED
                BY <1>4, <4>1
        <3> QED
            BY <1>9, <3>1, <3>2
    <2> QED
        BY <1>0, <1>3, <1>6, <1>8, <2>1, <2>2, <2>3 DEF ListedOnce
<1>14. ASSUME NEW i \in 1..n
       PROVE  /\ s[i].task \in Tasks /\ s[i].ms \in Nat /\ age[s[i].task] \in Nat
              /\ asked[s[i].task] \in Nat /\ credit[s[i].task] \in Nat
              /\ Slack(s[i].task) \in Nat /\ Paid(s[i]) \in Int
              /\ age[s[i].task] <= Paid(s[i]) + Ticks(cut[s[i].task]) + waited + Slack(s[i].task)
              /\ age[s[i].task] >= Paid(s[i]) + waited - credit[s[i].task]
              /\ s[i].task \in Timing!Listed
    <2>1. s[i].task \in Tasks /\ s[i].ms \in Nat /\ asked[s[i].task] # -1 /\ ChargedEntry(s[i])
        BY <1>4
    <2>2. s[i].task \in Timing!Listed
        <3>1. PICK j \in 1..n : s[i] = waiting[j]
            BY <1>4
        <3>2. j \in DOMAIN waiting
            BY <1>1, <1>n, ListIs
        <3> QED
            BY <3>1, <3>2 DEF Timing!Listed
    <2> QED
        <3> DEFINE u == s[i].task
        <3>1. age[u] \in Nat /\ credit[u] \in Nat /\ asked[u] \in Nat /\ Update \in Nat
            BY <1>1, <2>1
        <3>2. asked[u] - s[i].ms \in Int
            BY <2>1, <3>1
        <3>3. Paid(s[i]) \in Int
            BY <1>t, <3>2, Zenon DEF Paid
        <3>4. Slack(u) \in Nat
            BY <1>t, <3>1, Zenon DEF Slack
        <3>5. /\ age[u] <= Paid(s[i]) + Ticks(cut[u]) + waited + Slack(u)
              /\ age[u] >= Paid(s[i]) + waited - credit[u]
            BY <2>1, Zenon DEF ChargedEntry
        <3> QED
            BY <2>1, <2>2, <3>1, <3>3, <3>4, <3>5, Zenon
<1>15. ASSUME NEW i \in 1..m PROVE ChargedEntry(waiting[i])'
    <2>0. k + i \in 1..n /\ s[k + i].ms > cw
        BY <1>5
    <2> DEFINE u == s[k + i].task
               d == s[k + i].ms
               a == age[u]
               g == credit[u]
               h == Slack(u)
               p == Paid(s[k + i])
               c == Ticks(cut[u])
               b == Ticks(cut'[u])
    <2>1. /\ d \in Nat /\ a \in Nat /\ g \in Nat /\ h \in Nat /\ p \in Int
          /\ a <= p + c + waited + h /\ a >= p + waited - g
          /\ u \in Tasks /\ u \in Timing!Listed /\ asked[u] \in Nat
        BY <1>14, <2>0
    <2>2. rest[i].task = u /\ rest[i].ms = d - cw
        BY <1>6
    <2>3. nextWait' <= rest[i].ms
        <3>1. 1 \in 1..m /\ k + 1 \in 1..n /\ k + 1 <= k + i /\ rest # <<>>
            BY <1>5, <1>6
        <3>2. rest[1].ms = s[k + 1].ms - cw /\ s[k + 1].ms <= d /\ s[k + 1].ms \in Nat
            BY <1>4, <1>6, <2>0, <3>1
        <3> HIDE DEF d
        <3> QED
            BY <1>k, <1>8, <2>1, <2>2, <3>1, <3>2, SMTT(30)
    <2>4. Slack(u)' = Slack(u)
        BY <1>3 DEF Slack
    <2>5. Paid(rest[i])' = p + Ticks(cw)
        <3>1. Paid(rest[i])' = Ticks(asked[u] - (d - cw))
            BY <1>3, <2>2 DEF Paid
        <3>2. /\ asked[u] - (d - cw) = (asked[u] - d) + cw /\ asked[u] - d \in Int
            BY <1>k, <2>1
        <3>3. Ticks((asked[u] - d) + cw) = Ticks(asked[u] - d) + Ticks(cw)
            BY <1>k, <1>t, <3>2
        <3> QED
            BY <3>1, <3>2, <3>3 DEF Paid
    <2>6. /\ c \in Nat /\ b \in Nat /\ c <= b
          /\ waited # Ticks(cw) => b = c + Parts
        <3>1. cut[u] \in Nat /\ cut'[u] \in Nat /\ cut[u] <= cut'[u]
              /\ (waited # Ticks(cw) => cut'[u] = cut[u] + 1)
            BY <1>u, <2>1
        <3>2. Ticks(cut[u] + 1) = Ticks(cut[u]) + Parts
            <4>1. cut[u] \in Int /\ 1 \in Int
                BY <3>1
            <4>2. Ticks(cut[u] + 1) = Ticks(cut[u]) + Ticks(1)
                BY <1>t, <4>1, Zenon
            <4> QED
                BY <1>t, <4>2, Zenon
        <3>3. c \in Nat /\ b \in Nat /\ c <= b
            BY <1>t, <3>1, NatInInt, Zenon
        <3>4. waited # Ticks(cw) => b = c + Parts
            BY <3>1, <3>2, Zenon
        <3> QED
            BY <3>3, <3>4, Zenon
    <2> HIDE DEF a, g, h, p, c, b, d
    <2>7. a <= (p + Ticks(cw)) + b + 0 + h /\ a >= (p + Ticks(cw)) + 0 - g
        <3> DEFINE w == Ticks(cw)
        <3>1. w \in Nat /\ waited \in Nat /\ w <= waited /\ waited < w + Parts /\ Parts \in Nat
            BY <1>1, <1>k, <1>t
        <3>2. waited # w => b = c + Parts
            BY <2>6
        <3> HIDE DEF w
        <3>3. a <= (p + w) + b + 0 + h /\ a >= (p + w) + 0 - g
            BY <2>1, <2>6, <3>1, <3>2
        <3> QED
            BY <3>3 DEF w
    <2>8. /\ age'[rest[i].task] = a /\ credit'[rest[i].task] = g /\ Slack(rest[i].task)' = h
          /\ Ticks(cut[rest[i].task])' = b
        BY <1>3, <2>2, <2>4 DEF a, g, h, b
    <2> QED
        BY <1>3, <1>8, <2>3, <2>5, <2>7, <2>8 DEF ChargedEntry
<1>16. Charged'
    BY <1>3, <1>6, <1>8, <1>15 DEF Charged
<1>17. Idle'
    <2>1. CASE rest = <<>>
        <3>1. Len(waiting') = 0 /\ nextWait' = Update /\ pc' # "start"
            BY <1>3, <1>8, <2>1
        <3> QED
            BY <3>1 DEF Idle
    <2>2. CASE rest # <<>>
        <3>1. ~firstWait'
            BY <1>8, <2>2
        <3> QED
            BY <3>1 DEF Idle
    <2> QED
        BY <2>1, <2>2
<1>18. InTime'
    <2> SUFFICES ASSUME NEW u \in Tasks, asked[u] # -1
                 PROVE  age[u] <= Ticks(asked[u]) + Ticks(cut'[u]) + Slack(u)
        BY <1>3 DEF InTime, Slack
    <2>1. /\ age[u] <= Ticks(asked[u]) + Ticks(cut[u]) + Slack(u)
          /\ age[u] \in Nat /\ Ticks(asked[u]) \in Nat /\ Slack(u) \in Nat
        BY <1>0, <1>1, <1>t DEF InTime, Slack
    <2>2. Ticks(cut[u]) <= Ticks(cut'[u]) /\ Ticks(cut[u]) \in Nat /\ Ticks(cut'[u]) \in Nat
        BY <1>t, <1>u, NatInInt, Zenon
    <2> QED
        BY <2>1, <2>2
<1>19. EarlyByCreditOnly'
    <2> SUFFICES ASSUME NEW j \in 1..Len(fired')
                 PROVE  age[fired'[j]] >= Ticks(asked[fired'[j]]) - credit[fired'[j]]
        BY <1>3, <1>9, ListIs DEF EarlyByCreditOnly
    <2>1. CASE j \in 1..Len(fired)
        <3>1. DOMAIN fired = 1..Len(fired)
            BY <1>1, ListIs
        <3> QED
            BY <1>0, <1>9, <2>1, <3>1 DEF EarlyByCreditOnly
    <2>2. ASSUME NEW q \in 1..k, j = Len(fired) + q
          PROVE  age[fired'[j]] >= Ticks(asked[fired'[j]]) - credit[fired'[j]]
        <3>1. fired'[j] = s[q].task /\ q \in 1..n /\ s[q].ms <= cw
            BY <1>5, <1>9, <2>2
        <3> DEFINE u == s[q].task
                   a == age[u]
                   g == credit[u]
                   p == Paid(s[q])
                   d == Ticks(s[q].ms)
        <3>2. a \in Nat /\ g \in Nat /\ p \in Int /\ a >= p + waited - g /\ d \in Nat
            BY <1>14, <1>t, <3>1, Zenon
        <3>3. d <= Ticks(cw)
            BY <1>14, <1>k, <1>t, <3>1, NatInInt, Zenon
        <3>4. p = Ticks(asked[u]) - d /\ Ticks(asked[u]) \in Nat
            BY <1>14, <1>t, <3>1, NatInInt, Zenon DEF Paid
        <3> DEFINE full == Ticks(asked[u])
                   w == Ticks(cw)
        <3>5. w \in Nat /\ w <= waited /\ waited \in Nat /\ d <= w /\ p = full - d /\ full \in Nat
            BY <1>1, <1>k, <3>3, <3>4, Zenon
        <3> HIDE DEF u, a, g, p, d, full, w
        <3>6. a >= full - g
            BY <3>2, <3>5
        <3> QED
            BY <3>1, <3>6 DEF u, a, g, full
    <2> QED
        BY <1>9, <2>1, <2>2
<1> QED
    BY <1>12, <1>13, <1>16, <1>17, <1>18, <1>19 DEF TimingInv

LEMMA TimingStep ==
    TimingConstants /\ TimingInv /\ [Timing!Next]_(Timing!vars) => TimingInv'
<1> SUFFICES ASSUME TimingConstants, TimingInv, [Timing!Next]_(Timing!vars) PROVE TimingInv'
    OBVIOUS
<1>1. CASE UNCHANGED Timing!vars
    BY <1>1 DEF Timing!vars, Timing!history, TimingInv, Timing!TypeOK, ListedOnce, Idle, IdleEntry,
                Charged, ChargedEntry, Slack, Paid, InTime,
                EarlyByCreditOnly, Timing!Ticks
<1>2. ASSUME NEW t \in Tasks, NEW ms \in Delays, Timing!EnqueueTaskAfterTimeOut(t, ms)
      PROVE  TimingInv'
    BY <1>2, TimingEnqueue
<1>3. CASE Timing!Tick
    BY <1>3, TimingTick
<1>4. CASE Timing!Start \/ Timing!TimeOut \/ Timing!WakeUp \/ Timing!HandleNothing
    BY <1>4, TimingMoves
<1>5. CASE Timing!HandleFirst
    BY <1>5, TimingFirst
<1>6. CASE Timing!Handle
    BY <1>6, TimingHandle
<1> QED
    BY <1>1, <1>2, <1>3, <1>4, <1>5, <1>6, Zenon DEF Timing!Next

\* What an entry has paid of its time is its age, but for the wait it came into and the
\* parts of a millisecond that the cuts have lost, for any tasks, delays, idle wait and
\* fineness of the clock.
THEOREM TimingInvCorrect == TimingConstants /\ Timing!Spec => []TimingInv
<1>1. TimingConstants => []TimingConstants
    <2>1. TimingConstants => TimingConstants'
        BY DEF TimingConstants
    <2> QED
        BY <2>1, PTL
<1> QED
    BY <1>1, TimingInit, TimingStep, PTL DEF Timing!Spec

\* Whatever is deferred when, and however the handler is woken, it fires no task later than
\* was asked for, but by a millisecond for each wait that was cut and by the idle wait for
\* a task from before it, and none earlier but by the wait it came into.
THEOREM FiresOnTime == TimingConstants /\ Timing!Spec => []OnTime
<1>1. TimingConstants /\ TimingInv => OnTime
    <2> SUFFICES ASSUME TimingConstants, TimingInv PROVE OnTime
        OBVIOUS
    <2>1. DOMAIN asked = Tasks
        BY DEF TimingInv, Timing!TypeOK
    <2> DEFINE idle(t) == IF t \in beforeStart THEN Update ELSE 0
    <2>2. ASSUME NEW t \in Tasks, asked[t] # -1
          PROVE  age[t] <= Ticks(asked[t] + cut[t] + idle(t))
        <3>1. asked[t] \in Nat /\ cut[t] \in Nat /\ idle(t) \in Nat
            BY <2>2, TimingTypes DEF TimingInv
        <3>2. Ticks(idle(t)) = Slack(t)
            BY TicksAre DEF Slack, TimingConstants
        <3>3. Ticks(asked[t] + cut[t] + idle(t)) = Ticks(asked[t]) + Ticks(cut[t]) + Slack(t)
            <4> HIDE DEF idle
            <4>1. Ticks(asked[t] + cut[t]) = Ticks(asked[t]) + Ticks(cut[t])
                BY <3>1, TicksAre, NatInInt, Zenon DEF TimingConstants
            <4>2. asked[t] + cut[t] \in Int /\ idle(t) \in Int
                BY <3>1
            <4>3. Ticks((asked[t] + cut[t]) + idle(t)) = Ticks(asked[t] + cut[t]) + Ticks(idle(t))
                BY <4>2, TicksAre, Zenon DEF TimingConstants
            <4> QED
                BY <3>2, <4>1, <4>3, Zenon
        <3> QED
            BY <2>2, <3>3 DEF TimingInv, InTime
    <2> QED
        BY <2>1, <2>2 DEF TimingInv, OnTime, LateByCutsOnly
<1>2. TimingConstants => []TimingConstants
    <2>1. TimingConstants => TimingConstants'
        BY DEF TimingConstants
    <2> QED
        BY <2>1, PTL
<1> QED
    BY <1>1, <1>2, TimingInvCorrect, PTL

\* The loop that fires the front of the sorted list treats every entry: the entries that
\* are due are the front, so Handle has a step whenever the list is not empty.
LEMMA FiresIs ==
    ASSUME NEW l \in Seq(Entry), NEW s \in Timing!Sorted(l), NEW w \in Nat
    PROVE  Timing!Fires(s, w) # {}
<1>n. PICK n : n = Len(s)
    OBVIOUS
<1>1. /\ s \in Seq(Entry) /\ n \in Nat /\ DOMAIN s = 1..n
      /\ \A i \in 1..n : s[i].ms \in Nat
      /\ \A i, j \in 1..n : i <= j => s[i].ms <= s[j].ms
    BY <1>n, SortedIs, ListIs, EntryIs
<1> DEFINE F == {k \in 0..n : \A i \in 1..n : Timing!Due(s[i], w) => i <= k}
<1>2. F \in SUBSET Nat /\ n \in F
    BY <1>1
<1>3. PICK k \in F : \A y \in F : k <= y
    BY <1>2, Smallest, Zenon
<1>4. ASSUME NEW i \in 1..n, i <= k PROVE Timing!Due(s[i], w)
    <2>1. k \in 0..n /\ k - 1 \in 0..n /\ k # 0 /\ k \in 1..n
        BY <1>1, <1>3, <1>4
    <2>2. k - 1 \notin F
        BY <1>3, <2>1
    <2>3. PICK j \in 1..n : Timing!Due(s[j], w) /\ ~(j <= k - 1)
        BY <2>1, <2>2
    <2>4. j <= k
        BY <1>3, <2>3
    <2>5. s[i].ms <= s[j].ms /\ s[i].ms \in Nat /\ s[j].ms \in Nat
        BY <1>1, <1>4, <2>1, <2>3, <2>4
    <2> QED
        BY <2>3, <2>5, SMTT(30) DEF Timing!Due
<1>5. k \in Timing!Fires(s, w)
    BY <1>n, <1>1, <1>3, <1>4 DEF Timing!Fires
<1> QED
    BY <1>5
=============================================================================
