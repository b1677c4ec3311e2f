---------------------------- MODULE MessageQueue ----------------------------
(***************************************************************************)
(* utilities::MessageQueue<T> (Daemon/common/message_queue.h): an          *)
(* unbounded deque behind one mutex and one condition variable.            *)
(*                                                                         *)
(* Everything a method does while it holds mtx is one action.  The calls   *)
(* that may block are split where condVar releases the mutex: a consumer   *)
(* inside Wait or WaitAndReturnAll is either contending for the mutex      *)
(* ("ready", about to test queueMessages.empty()) or parked in condVar     *)
(* ("waiting").  A timed wait differs from an untimed one only in that it  *)
(* may also wake by itself; std::condition_variable allows the untimed one *)
(* to wake spuriously, so both may.                                        *)
(*                                                                         *)
(* Pop on an empty deque throws std::runtime_error and a null output       *)
(* pointer throws std::invalid_argument: neither changes the queue, so     *)
(* both are stuttering here (WorkingThread models what the throw does to   *)
(* its caller).                                                            *)
(***************************************************************************)
EXTENDS Integers, Sequences

CONSTANTS
    Consumers,      \* threads that call Wait, WaitAndReturnAll and Pop
    Items           \* distinct items; each is pushed at most once

VARIABLES
    queueMessages,  \* the deque
    call,           \* call[c]: the blocking call c is in, "none" when in none
    parked,         \* the consumers parked in condVar
    taken,          \* history: items handed to consumers, in order
    cleared,        \* history: items removed by Clear
    stamp           \* history: 0, or the place in Line where Push put the item

vars == <<queueMessages, call, parked, taken, cleared, stamp>>

----------------------------------------------------------------------------
SeqRange(s) == {s[i] : i \in 1..Len(s)}

\* Every item taken so far followed by every item still queued.
Line == taken \o queueMessages

\* The items that have been pushed, by either end.
Pushed == SeqRange(Line) \cup cleared

Init ==
    /\ queueMessages = <<>>
    /\ call = [c \in Consumers |-> "none"]
    /\ parked = {}
    /\ taken = <<>>
    /\ cleared = {}
    /\ stamp = [i \in Items |-> 0]

----------------------------------------------------------------------------
(* Producers *)

\* A Push that forgets condVar.notify_all().
PushSilently(item) ==
    /\ item \in Items \ Pushed
    /\ queueMessages' = Append(queueMessages, item)
    /\ stamp' = [stamp EXCEPT ![item] = Len(Line) + 1]
    /\ UNCHANGED <<call, parked, taken, cleared>>

\* A Push that adds the item at the wrong end.
PushAtFront(item) ==
    /\ item \in Items \ Pushed
    /\ queueMessages' = <<item>> \o queueMessages
    /\ stamp' = [stamp EXCEPT ![item] = Len(Line) + 1]
    /\ parked' = {}
    /\ UNCHANGED <<call, taken, cleared>>

\* push_back, then notify_all releases every parked consumer.
Push(item) ==
    /\ item \in Items \ Pushed
    /\ queueMessages' = Append(queueMessages, item)
    /\ stamp' = [stamp EXCEPT ![item] = Len(Line) + 1]
    /\ parked' = {}
    /\ UNCHANGED <<call, taken, cleared>>

\* push_front, then notify_all.
PushFront(item) ==
    /\ item \in Items \ Pushed
    /\ queueMessages' = <<item>> \o queueMessages
    /\ parked' = {}
    /\ UNCHANGED <<call, taken, cleared, stamp>>

Clear ==
    /\ queueMessages # <<>>
    /\ queueMessages' = <<>>
    /\ cleared' = cleared \cup SeqRange(queueMessages)
    /\ UNCHANGED <<call, parked, taken, stamp>>

----------------------------------------------------------------------------
(* Consumers *)

CallWait(c) ==
    /\ call[c] = "none"
    /\ call' = [call EXCEPT ![c] = "Wait"]
    /\ UNCHANGED <<queueMessages, parked, taken, cleared, stamp>>

CallWaitAndReturnAll(c) ==
    /\ call[c] = "none"
    /\ call' = [call EXCEPT ![c] = "WaitAndReturnAll"]
    /\ UNCHANGED <<queueMessages, parked, taken, cleared, stamp>>

\* The loop test finds the deque empty: park, releasing the mutex atomically.
Park(c) ==
    /\ call[c] # "none" /\ c \notin parked
    /\ queueMessages = <<>>
    /\ parked' = parked \cup {c}
    /\ UNCHANGED <<queueMessages, call, taken, cleared, stamp>>

\* The timeout of wait_for expires, or the wait ends spuriously.
WakeUp(c) ==
    /\ c \in parked
    /\ parked' = parked \ {c}
    /\ UNCHANGED <<queueMessages, call, taken, cleared, stamp>>

\* A Wait that copies the front item and forgets pop_front().
ReturnWaitKeeping(c) ==
    /\ call[c] = "Wait" /\ c \notin parked
    /\ queueMessages # <<>>
    /\ taken' = Append(taken, Head(queueMessages))
    /\ queueMessages' = queueMessages
    /\ call' = [call EXCEPT ![c] = "none"]
    /\ UNCHANGED <<parked, cleared, stamp>>

\* Wait returns: *item = front(); pop_front().
ReturnWait(c) ==
    /\ call[c] = "Wait" /\ c \notin parked
    /\ queueMessages # <<>>
    /\ taken' = Append(taken, Head(queueMessages))
    /\ queueMessages' = Tail(queueMessages)
    /\ call' = [call EXCEPT ![c] = "none"]
    /\ UNCHANGED <<parked, cleared, stamp>>

\* WaitAndReturnAll returns: the whole deque is swapped out.
ReturnAll(c) ==
    /\ call[c] = "WaitAndReturnAll" /\ c \notin parked
    /\ queueMessages # <<>>
    /\ taken' = taken \o queueMessages
    /\ queueMessages' = <<>>
    /\ call' = [call EXCEPT ![c] = "none"]
    /\ UNCHANGED <<parked, cleared, stamp>>

\* Pop never blocks.
Pop(c) ==
    /\ call[c] = "none"
    /\ queueMessages # <<>>
    /\ taken' = Append(taken, Head(queueMessages))
    /\ queueMessages' = Tail(queueMessages)
    /\ UNCHANGED <<call, parked, cleared, stamp>>

----------------------------------------------------------------------------
ConsumerStep(c) == Park(c) \/ ReturnWait(c) \/ ReturnAll(c)

Next ==
    \/ \E item \in Items : Push(item) \/ PushFront(item)
    \/ Clear
    \/ \E c \in Consumers :
          \/ CallWait(c) \/ CallWaitAndReturnAll(c)
          \/ ConsumerStep(c) \/ WakeUp(c) \/ Pop(c)

\* A consumer that is not parked gets the mutex in the end and goes on with its
\* call.  Nothing is assumed of timeouts and spurious wake-ups.
Fairness == \A c \in Consumers : WF_vars(ConsumerStep(c))

Spec == Init /\ [][Next]_vars /\ Fairness

----------------------------------------------------------------------------
(* Properties *)

TypeOK ==
    /\ queueMessages \in Seq(Items)
    /\ call \in [Consumers -> {"none", "Wait", "WaitAndReturnAll"}]
    /\ parked \in SUBSET Consumers
    /\ \A c \in parked : call[c] # "none"
    /\ taken \in Seq(Items)
    /\ cleared \in SUBSET Items
    /\ stamp \in [Items -> Nat]

\* While the deque holds an item and a consumer is parked, some other consumer
\* is awake inside a blocking call and will take the item: no notification that
\* Push or PushFront owes is ever lost, whatever takes, clears and wake-ups come
\* in between.
NoLostWakeup ==
    (queueMessages # <<>> /\ parked # {}) =>
        \E c \in Consumers \ parked : call[c] # "none"

\* Items pushed at the back leave in the order they were pushed, across all
\* consumers and both ways to wait, however PushFront and Clear interleave.  The code
\* takes from the front, which this is about; the comment on Wait says that it hands
\* out the "Last element of queue" (message_queue.h:69), against line 85 and against
\* what WorkingThread needs.
FifoOrder ==
    \A i, j \in 1..Len(Line) :
        (i < j /\ stamp[Line[i]] > 0 /\ stamp[Line[j]] > 0) =>
            stamp[Line[i]] < stamp[Line[j]]

\* No item is handed out twice, handed out after Clear removed it, or handed
\* out and still queued.
ExactlyOnce ==
    /\ \A i, j \in 1..Len(Line) : Line[i] = Line[j] => i = j
    /\ SeqRange(Line) \cap cleared = {}

\* A consumer in Wait or WaitAndReturnAll returns once there is something in the
\* deque, or somebody else empties the deque first; even with timeout_ms = 0.
WaiterReturns ==
    \A c \in Consumers :
        (call[c] # "none" /\ queueMessages # <<>>) ~>
            (call[c] = "none" \/ queueMessages = <<>>)

\* The invariant that makes NoLostWakeup inductive: notify_all releases every
\* consumer, so nobody is parked beside a non-empty deque.
NobodyParkedBesideItems == queueMessages # <<>> => parked = {}

\* What makes FifoOrder inductive: items only ever move towards the back of Line.
StampBelowPlace ==
    /\ \A i \in 1..Len(Line) : stamp[Line[i]] <= i
    /\ \A i \in Items \ Pushed : stamp[i] = 0
=============================================================================
