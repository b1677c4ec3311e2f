------------------------- MODULE MessageQueueProofs -------------------------
(***************************************************************************)
(* Proofs, for any sets of consumers and items, of the safety properties   *)
(* of MessageQueue.                                                        *)
(***************************************************************************)
EXTENDS MessageQueue, SequenceTheorems, TLAPS

(***************************************************************************)
(* Sequences.                                                              *)
(***************************************************************************)

\* Moving the head of a queue to the end of what was taken leaves the line as
\* it is.
LEMMA MoveHead ==
    ASSUME NEW S, NEW s \in Seq(S), NEW q \in Seq(S), q # <<>>
    PROVE  /\ Append(s, Head(q)) \o Tail(q) = s \o q
           /\ Append(s, Head(q)) \in Seq(S)
           /\ Tail(q) \in Seq(S)
PROOF OBVIOUS

\* Moving the whole queue leaves the line as it is.
LEMMA MoveAll ==
    ASSUME NEW S, NEW s \in Seq(S), NEW q \in Seq(S)
    PROVE  (s \o q) \o <<>> = s \o q
PROOF OBVIOUS

\* Push: the item becomes the last of the line.
LEMMA PushLine ==
    ASSUME NEW S, NEW s \in Seq(S), NEW q \in Seq(S), NEW e \in S
    PROVE  /\ s \o Append(q, e) \in Seq(S)
           /\ Len(s \o Append(q, e)) = Len(s \o q) + 1
           /\ \A i \in 1..Len(s \o q) : (s \o Append(q, e))[i] = (s \o q)[i]
           /\ (s \o Append(q, e))[Len(s \o q) + 1] = e
PROOF OBVIOUS

\* PushFront: the item follows what was taken, and what was queued moves one
\* place back.
LEMMA PushFrontLine ==
    ASSUME NEW S, NEW s \in Seq(S), NEW q \in Seq(S), NEW e \in S
    PROVE  LET new == s \o (<<e>> \o q)
           IN  /\ new \in Seq(S)
               /\ Len(new) = Len(s \o q) + 1
               /\ \A i \in 1..Len(s) : new[i] = (s \o q)[i]
               /\ new[Len(s) + 1] = e
               /\ \A i \in Len(s) + 2..Len(new) : new[i] = (s \o q)[i - 1]
PROOF OBVIOUS

\* Clear: the line is cut after what was taken.
LEMMA ClearLine ==
    ASSUME NEW S, NEW s \in Seq(S), NEW q \in Seq(S)
    PROVE  /\ s \o <<>> \in Seq(S)
           /\ Len(s \o <<>>) = Len(s)
           /\ Len(s) <= Len(s \o q)
           /\ \A i \in 1..Len(s) : (s \o <<>>)[i] = (s \o q)[i]
           /\ \A i \in 1..Len(q) : (s \o q)[Len(s) + i] = q[i]
           /\ Len(s \o q) = Len(s) + Len(q)
PROOF OBVIOUS

(***************************************************************************)
(* Types and wake-ups.                                                     *)
(***************************************************************************)

\* Every step keeps the variables in their types.
LEMMA TypeStep == TypeOK /\ [Next]_vars => TypeOK'
<1> SUFFICES ASSUME TypeOK, [Next]_vars PROVE TypeOK'
    OBVIOUS
<1> USE DEF TypeOK
<1>1. CASE UNCHANGED vars
    BY <1>1 DEF vars
<1>2. ASSUME NEW item \in Items, Push(item) PROVE TypeOK'
    <2>1. Len(Line) + 1 \in Nat
        BY DEF Line
    <2> QED
        BY <1>2, <2>1 DEF Push
<1>3. ASSUME NEW item \in Items, PushFront(item) PROVE TypeOK'
    BY <1>3 DEF PushFront
<1>4. CASE Clear
    BY <1>4 DEF Clear, SeqRange
<1>5. ASSUME NEW c \in Consumers, CallWait(c) \/ CallWaitAndReturnAll(c)
      PROVE  TypeOK'
    BY <1>5 DEF CallWait, CallWaitAndReturnAll
<1>6. ASSUME NEW c \in Consumers, Park(c) \/ WakeUp(c) PROVE TypeOK'
    BY <1>6 DEF Park, WakeUp
<1>7. ASSUME NEW c \in Consumers, ReturnWait(c) PROVE TypeOK'
    BY <1>7, MoveHead DEF ReturnWait
<1>8. ASSUME NEW c \in Consumers, ReturnAll(c) PROVE TypeOK'
    BY <1>8 DEF ReturnAll
<1>9. ASSUME NEW c \in Consumers, Pop(c) PROVE TypeOK'
    BY <1>9, MoveHead DEF Pop
<1> QED
    BY <1>1, <1>2, <1>3, <1>4, <1>5, <1>6, <1>7, <1>8, <1>9
       DEF Next, ConsumerStep

\* The variables of the queue keep their types.
THEOREM TypeCorrect == Spec => []TypeOK
<1>1. Init => TypeOK
    BY DEF Init, TypeOK
<1> QED
    BY <1>1, TypeStep, PTL DEF Spec

\* Every step leaves nobody parked beside a non-empty deque: Push and PushFront
\* unpark everybody and a consumer parks only when the deque is empty.
LEMMA ParkedStep ==
    TypeOK /\ NobodyParkedBesideItems /\ [Next]_vars => NobodyParkedBesideItems'
<1> SUFFICES ASSUME TypeOK, NobodyParkedBesideItems, [Next]_vars
             PROVE  NobodyParkedBesideItems'
    OBVIOUS
<1> USE DEF NobodyParkedBesideItems
<1>1. CASE UNCHANGED vars
    BY <1>1 DEF vars
<1>2. ASSUME NEW item \in Items, Push(item) \/ PushFront(item)
      PROVE  NobodyParkedBesideItems'
    BY <1>2 DEF Push, PushFront
<1>3. CASE Clear
    BY <1>3 DEF Clear
<1>4. ASSUME NEW c \in Consumers, CallWait(c) \/ CallWaitAndReturnAll(c) \/ Park(c)
      PROVE  NobodyParkedBesideItems'
    BY <1>4 DEF CallWait, CallWaitAndReturnAll, Park
<1>5. ASSUME NEW c \in Consumers, WakeUp(c) PROVE NobodyParkedBesideItems'
    BY <1>5 DEF WakeUp, TypeOK
<1>6. ASSUME NEW c \in Consumers, ReturnWait(c) \/ ReturnAll(c) \/ Pop(c)
      PROVE  NobodyParkedBesideItems'
    BY <1>6 DEF ReturnWait, ReturnAll, Pop
<1> QED
    BY <1>1, <1>2, <1>3, <1>4, <1>5, <1>6 DEF Next, ConsumerStep

\* No wake-up is lost: an item in the deque and a parked consumer never come
\* together without another consumer awake in a blocking call.
THEOREM WakeupsKept == Spec => []NoLostWakeup
<1>1. Init => NobodyParkedBesideItems
    BY DEF Init, NobodyParkedBesideItems
<1>2. NobodyParkedBesideItems => NoLostWakeup
    BY DEF NobodyParkedBesideItems, NoLostWakeup
<1> QED
    BY <1>1, <1>2, ParkedStep, TypeCorrect, PTL DEF Spec

(***************************************************************************)
(* Order.                                                                  *)
(***************************************************************************)

\* The inductive invariant behind FifoOrder and ExactlyOnce.
OrderInv == TypeOK /\ FifoOrder /\ ExactlyOnce /\ StampBelowPlace

\* A step that leaves the line, the stamps and the cleared items alone keeps
\* the order.
LEMMA SameLine ==
    ASSUME OrderInv, TypeOK', Line' = Line, UNCHANGED <<stamp, cleared>>
    PROVE  OrderInv'
PROOF BY DEF OrderInv, FifoOrder, ExactlyOnce, StampBelowPlace, Pushed, SeqRange

\* Push adds the newest item at the end of the line.
LEMMA PushKeepsOrder ==
    ASSUME NEW item \in Items, OrderInv, TypeOK', Push(item)
    PROVE  OrderInv'
<1> DEFINE n == Len(Line)
<1>1. /\ Line \in Seq(Items) /\ n \in Nat
      /\ item \notin SeqRange(Line) /\ item \notin cleared
    BY DEF OrderInv, TypeOK, Line, Push, Pushed
<1>2. /\ Line' \in Seq(Items)
      /\ Len(Line') = n + 1
      /\ \A i \in 1..n : Line'[i] = Line[i]
      /\ Line'[n + 1] = item
    BY PushLine DEF OrderInv, TypeOK, Line, Push
<1>3. /\ stamp'[item] = n + 1 /\ cleared' = cleared
      /\ \A i \in Items \ {item} : stamp'[i] = stamp[i]
    BY DEF OrderInv, TypeOK, Push
<1>4. \A i \in 1..n : Line[i] \in Items /\ Line[i] # item
    BY <1>1 DEF SeqRange
<1>5. \A i \in 1..n : stamp'[Line'[i]] = stamp[Line[i]] /\ stamp[Line[i]] <= i
    BY <1>2, <1>3, <1>4 DEF OrderInv, StampBelowPlace
<1>6. stamp \in [Items -> Nat]
    BY DEF OrderInv, TypeOK
<1>7. FifoOrder'
    <2> SUFFICES ASSUME NEW i \in 1..n + 1, NEW j \in 1..n + 1, i < j,
                        stamp'[Line'[i]] > 0, stamp'[Line'[j]] > 0
                 PROVE  stamp'[Line'[i]] < stamp'[Line'[j]]
        BY <1>2 DEF FifoOrder
    <2>1. CASE j = n + 1
        <3>1. i \in 1..n /\ stamp[Line[i]] \in Nat
            BY <2>1, <1>1, <1>4, <1>6
        <3> QED
            BY <2>1, <3>1, <1>1, <1>2, <1>3, <1>5
    <2>2. CASE j # n + 1
        <3>1. i \in 1..n /\ j \in 1..n
            BY <2>2, <1>1
        <3> QED
            BY <3>1, <1>5 DEF OrderInv, FifoOrder
    <2> QED
        BY <2>1, <2>2
<1>8. ExactlyOnce'
    <2>1. \A i, j \in 1..n + 1 : Line'[i] = Line'[j] => i = j
        BY <1>1, <1>2, <1>4 DEF OrderInv, ExactlyOnce
    <2>2. SeqRange(Line)' = SeqRange(Line) \cup {item}
        BY <1>1, <1>2 DEF SeqRange
    <2> QED
        BY <2>1, <2>2, <1>1, <1>2, <1>3 DEF OrderInv, ExactlyOnce
<1>9. StampBelowPlace'
    <2>1. \A i \in 1..n + 1 : stamp'[Line'[i]] <= i
        BY <1>1, <1>2, <1>3, <1>5
    <2>2. SeqRange(Line)' = SeqRange(Line) \cup {item}
        BY <1>1, <1>2 DEF SeqRange
    <2>3. \A i \in Items \ Pushed' : stamp'[i] = 0
        BY <2>2, <1>3 DEF Pushed, OrderInv, StampBelowPlace
    <2> QED
        BY <2>1, <2>3, <1>2 DEF StampBelowPlace
<1> QED
    BY <1>7, <1>8, <1>9 DEF OrderInv

\* PushFront inserts an unstamped item and moves the queued ones back.
LEMMA PushFrontKeepsOrder ==
    ASSUME NEW item \in Items, OrderInv, TypeOK', PushFront(item)
    PROVE  OrderInv'
<1> DEFINE n == Len(Line)
           k == Len(taken)
           old(i) == IF i <= k THEN i ELSE i - 1
<1>1. /\ Line \in Seq(Items) /\ n \in Nat /\ k \in 0..n
      /\ item \notin SeqRange(Line) /\ item \notin cleared
      /\ stamp[item] = 0 /\ stamp \in [Items -> Nat]
    BY DEF OrderInv, TypeOK, Line, PushFront, Pushed, StampBelowPlace
<1>2. /\ Line' \in Seq(Items)
      /\ Len(Line') = n + 1
      /\ Line'[k + 1] = item
      /\ \A i \in 1..n + 1 : i # k + 1 => Line'[i] = Line[old(i)]
    BY PushFrontLine, SMTT(30) DEF OrderInv, TypeOK, Line, PushFront
<1>3. /\ stamp' = stamp /\ cleared' = cleared
    BY DEF PushFront
<1>4. \A i \in 1..n + 1 : i # k + 1 =>
          /\ old(i) \in 1..n /\ old(i) <= i
          /\ Line[old(i)] \in Items /\ Line[old(i)] # item
    BY <1>1 DEF SeqRange
<1>5. FifoOrder'
    <2> SUFFICES ASSUME NEW i \in 1..n + 1, NEW j \in 1..n + 1, i < j,
                        stamp[Line'[i]] > 0, stamp[Line'[j]] > 0
                 PROVE  stamp[Line'[i]] < stamp[Line'[j]]
        BY <1>2, <1>3 DEF FifoOrder
    <2>1. i # k + 1 /\ j # k + 1
        BY <1>1, <1>2, SMTT(30)
    <2>2. old(i) < old(j)
        BY <2>1, <1>1
    <2> QED
        BY <2>1, <2>2, <1>2, <1>4 DEF OrderInv, FifoOrder
<1>6. SeqRange(Line)' = SeqRange(Line) \cup {item}
    <2>1. ASSUME NEW i \in 1..n
          PROVE  \E j \in 1..n + 1 : Line'[j] = Line[i]
        <3>1. CASE i <= k
            <4>1. i \in 1..n + 1 /\ i # k + 1 /\ old(i) = i
                BY <3>1, <1>1
            <4> QED
                BY <4>1, <1>2
        <3>2. CASE i > k
            <4>1. i + 1 \in 1..n + 1 /\ i + 1 # k + 1 /\ old(i + 1) = i
                BY <3>2, <1>1
            <4> QED
                BY <4>1, <1>2
        <3> QED
            BY <3>1, <3>2, <1>1
    <2>2. \A j \in 1..n + 1 : Line'[j] \in SeqRange(Line) \cup {item}
        BY <1>2, <1>4 DEF SeqRange
    <2>3. k + 1 \in 1..n + 1 /\ Line'[k + 1] = item
        BY <1>1, <1>2
    <2>4. SeqRange(Line)' = {Line'[j] : j \in 1..n + 1}
        BY <1>2 DEF SeqRange
    <2>5. SeqRange(Line) = {Line[i] : i \in 1..n}
        BY DEF SeqRange
    <2> HIDE DEF n, k, old
    <2> QED
        BY <2>1, <2>2, <2>3, <2>4, <2>5
<1>7. ExactlyOnce'
    <2>1. ASSUME NEW i \in 1..n + 1, NEW j \in 1..n + 1, Line'[i] = Line'[j]
          PROVE  i = j
        <3>1. CASE i = k + 1 \/ j = k + 1
            BY <3>1, <2>1, <1>2, <1>4
        <3>2. CASE i # k + 1 /\ j # k + 1
            <4>1. old(i) \in 1..n /\ old(j) \in 1..n
                BY <3>2, <1>4
            <4>2. Line[old(i)] = Line[old(j)]
                BY <3>2, <2>1, <1>2
            <4>3. \A a, b \in 1..n : Line[a] = Line[b] => a = b
                BY DEF OrderInv, ExactlyOnce
            <4>4. old(i) = old(j)
                <5> HIDE DEF n, k, old
                <5> QED
                    BY <4>1, <4>2, <4>3
            <4> QED
                BY <4>4, <3>2, <1>1
        <3> QED
            BY <3>1, <3>2
    <2> QED
        BY <2>1, <1>1, <1>2, <1>3, <1>6 DEF OrderInv, ExactlyOnce
<1>8. StampBelowPlace'
    <2>1. ASSUME NEW i \in 1..n + 1 PROVE stamp[Line'[i]] <= i
        <3>1. CASE i = k + 1
            BY <3>1, <1>1, <1>2
        <3>2. CASE i # k + 1
            <4>1. stamp[Line[old(i)]] <= old(i)
                BY <3>2, <1>4 DEF OrderInv, StampBelowPlace
            <4>2. stamp[Line[old(i)]] \in Nat
                BY <3>2, <1>1, <1>4
            <4> QED
                BY <4>1, <4>2, <3>2, <1>1, <1>2, <1>4
        <3> QED
            BY <3>1, <3>2
    <2>2. \A i \in Items \ Pushed' : stamp[i] = 0
        BY <1>3, <1>6 DEF Pushed, OrderInv, StampBelowPlace
    <2> QED
        BY <2>1, <2>2, <1>2, <1>3 DEF StampBelowPlace
<1> QED
    BY <1>5, <1>7, <1>8 DEF OrderInv

\* Clear cuts the line after the items already taken.
LEMMA ClearKeepsOrder ==
    ASSUME OrderInv, TypeOK', Clear
    PROVE  OrderInv'
<1> DEFINE n == Len(Line)
           k == Len(taken)
<1>1. /\ Line \in Seq(Items) /\ n \in Nat /\ k \in 0..n /\ n = k + Len(queueMessages)
      /\ queueMessages \in Seq(Items)
      /\ \A i \in 1..Len(queueMessages) : Line[k + i] = queueMessages[i]
    BY ClearLine DEF OrderInv, TypeOK, Line
<1>2. /\ Line' \in Seq(Items)
      /\ Len(Line') = k
      /\ \A i \in 1..k : Line'[i] = Line[i]
    BY ClearLine DEF OrderInv, TypeOK, Line, Clear
<1>3. stamp' = stamp /\ cleared' = cleared \cup SeqRange(queueMessages)
    BY DEF Clear
<1>4. FifoOrder'
    BY <1>1, <1>2, <1>3 DEF OrderInv, FifoOrder
<1>5. SeqRange(Line) = SeqRange(Line') \cup SeqRange(queueMessages)
    <2>1. ASSUME NEW i \in 1..n
          PROVE  Line[i] \in SeqRange(Line') \cup SeqRange(queueMessages)
        <3>1. CASE i <= k
            BY <3>1, <1>1, <1>2 DEF SeqRange
        <3>2. CASE i > k
            <4>1. i - k \in 1..Len(queueMessages) /\ k + (i - k) = i
                BY <3>2, <1>1
            <4> QED
                BY <4>1, <1>1 DEF SeqRange
        <3> QED
            BY <3>1, <3>2, <1>1
    <2>2. ASSUME NEW i \in 1..Len(queueMessages)
          PROVE  queueMessages[i] \in SeqRange(Line)
        <3>1. k + i \in 1..n
            BY <1>1
        <3> QED
            BY <3>1, <1>1 DEF SeqRange
    <2>3. \A i \in 1..k : Line'[i] \in SeqRange(Line)
        BY <1>1, <1>2 DEF SeqRange
    <2> QED
        BY <2>1, <2>2, <2>3, <1>2 DEF SeqRange
<1>6. SeqRange(Line') \cap SeqRange(queueMessages) = {}
    <2> SUFFICES ASSUME NEW i \in 1..k, NEW j \in 1..Len(queueMessages),
                        Line[i] = Line[k + j]
                 PROVE  FALSE
        BY <1>1, <1>2 DEF SeqRange
    <2>1. i \in 1..n /\ k + j \in 1..n /\ i # k + j
        BY <1>1
    <2> QED
        BY <2>1 DEF OrderInv, ExactlyOnce
<1>7. ExactlyOnce'
    <2>1. \A i, j \in 1..k : Line'[i] = Line'[j] => i = j
        BY <1>1, <1>2 DEF OrderInv, ExactlyOnce
    <2>2. SeqRange(Line') \cap cleared = {}
        BY <1>5 DEF OrderInv, ExactlyOnce
    <2> QED
        BY <2>1, <2>2, <1>2, <1>3, <1>6 DEF ExactlyOnce, SeqRange
<1>8. StampBelowPlace'
    <2>1. \A i \in 1..k : stamp[Line'[i]] <= i
        BY <1>1, <1>2 DEF OrderInv, StampBelowPlace
    <2>2. Pushed' = Pushed
        BY <1>3, <1>5 DEF Pushed, SeqRange
    <2> QED
        BY <2>1, <2>2, <1>2, <1>3 DEF OrderInv, StampBelowPlace
<1> QED
    BY <1>4, <1>7, <1>8 DEF OrderInv

\* Every step keeps the order.
LEMMA OrderStep == OrderInv /\ [Next]_vars => OrderInv'
<1> SUFFICES ASSUME OrderInv, [Next]_vars PROVE OrderInv'
    OBVIOUS
<1>0. TypeOK /\ TypeOK'
    BY TypeStep DEF OrderInv
<1>1. CASE UNCHANGED vars
    BY <1>0, <1>1, SameLine DEF vars, Line
<1>2. ASSUME NEW item \in Items, Push(item) PROVE OrderInv'
    BY <1>0, <1>2, PushKeepsOrder
<1>3. ASSUME NEW item \in Items, PushFront(item) PROVE OrderInv'
    BY <1>0, <1>3, PushFrontKeepsOrder
<1>4. CASE Clear
    BY <1>0, <1>4, ClearKeepsOrder
<1>5. ASSUME NEW c \in Consumers,
             CallWait(c) \/ CallWaitAndReturnAll(c) \/ Park(c) \/ WakeUp(c)
      PROVE  OrderInv'
    <2>1. Line' = Line /\ UNCHANGED <<stamp, cleared>>
        BY <1>5 DEF CallWait, CallWaitAndReturnAll, Park, WakeUp, Line
    <2> QED
        BY <2>1, <1>0, SameLine
<1>6. ASSUME NEW c \in Consumers, ReturnWait(c) \/ Pop(c) PROVE OrderInv'
    <2>1. Line' = Line /\ UNCHANGED <<stamp, cleared>>
        BY <1>0, <1>6, MoveHead, ZenonT(30) DEF ReturnWait, Pop, Line, TypeOK
    <2> QED
        BY <2>1, <1>0, SameLine
<1>7. ASSUME NEW c \in Consumers, ReturnAll(c) PROVE OrderInv'
    <2>1. Line' = Line /\ UNCHANGED <<stamp, cleared>>
        BY <1>0, <1>7, MoveAll DEF ReturnAll, Line, TypeOK
    <2> QED
        BY <2>1, <1>0, SameLine
<1> QED
    BY <1>1, <1>2, <1>3, <1>4, <1>5, <1>6, <1>7 DEF Next, ConsumerStep

\* The empty queue is in order.
LEMMA OrderInit == Init => OrderInv
PROOF BY DEF Init, OrderInv, TypeOK, FifoOrder, ExactlyOnce, StampBelowPlace,
             Line, SeqRange, Pushed

\* Back-pushed items leave in the order of their pushes.
THEOREM FifoKept == Spec => []FifoOrder
<1>1. OrderInv => FifoOrder
    BY DEF OrderInv
<1> QED
    BY <1>1, OrderInit, OrderStep, PTL DEF Spec

\* No item is delivered twice, or delivered after having been cleared.
THEOREM DeliveredOnce == Spec => []ExactlyOnce
<1>1. OrderInv => ExactlyOnce
    BY DEF OrderInv
<1> QED
    BY <1>1, OrderInit, OrderStep, PTL DEF Spec
=============================================================================
