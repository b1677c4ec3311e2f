------------------------- MODULE GraphBuilderProofs -------------------------
(***************************************************************************)
(* Proofs, for any set of documents, data sets and batches, that the       *)
(* program's steps are GraphBuilder's, that create_components stays within *)
(* its list and that it creates components after those they depend on.     *)
(***************************************************************************)
EXTENDS Training, SequenceTheorems, FiniteSetTheorems, WellFoundedInduction, TLAPS

\* What is left of a list without its element n + 1.
LEMMA Removed ==
    ASSUME NEW S, NEW s \in Seq(S), NEW n \in Nat, n < Len(s)
    PROVE  LET t == SubSeq(s, 1, n) \o SubSeq(s, n + 2, Len(s))
           IN  /\ t \in Seq(S)
               /\ Len(t) = Len(s) - 1
               /\ s[n + 1] \in S
<1>1. SubSeq(s, 1, n) \in Seq(S) /\ Len(SubSeq(s, 1, n)) = n
    OBVIOUS
<1>2. SubSeq(s, n + 2, Len(s)) \in Seq(S) /\ Len(SubSeq(s, n + 2, Len(s))) = Len(s) - n - 1
    OBVIOUS
<1>3. Len(SubSeq(s, 1, n) \o SubSeq(s, n + 2, Len(s))) = Len(s) - 1
    <2> DEFINE a == SubSeq(s, 1, n)
               b == SubSeq(s, n + 2, Len(s))
    <2>1. a \in Seq(S) /\ b \in Seq(S) /\ Len(a) = n /\ Len(b) = Len(s) - n - 1
        BY <1>1, <1>2
    <2> HIDE DEF a, b
    <2>2. Len(a \o b) = Len(a) + Len(b)
        BY <2>1
    <2>3. Len(s) \in Nat
        OBVIOUS
    <2>4. Len(a \o b) = Len(s) - 1
        BY <2>1, <2>2, <2>3
    <2> QED
        BY <2>4 DEF a, b
<1>4. SubSeq(s, 1, n) \o SubSeq(s, n + 2, Len(s)) \in Seq(S)
    BY <1>1, <1>2, ConcatProperties
<1>5. s[n + 1] \in S
    OBVIOUS
<1> QED
    BY <1>3, <1>4, <1>5

\* The index after a turn is an index of what is left, if anything is.
LEMMA NextIndexInRange ==
    ASSUME NEW left \in Nat, i \in Nat
    PROVE  /\ NextIndex(left) \in Nat
           /\ left # 0 => NextIndex(left) < left
BY DEF NextIndex

\* The part of the type invariant that the order of creation rests on.
Shape ==
    /\ IsDocument(doc)
    /\ json_items \in Seq(Items)
    /\ created \in Seq(Items)
    /\ i \in Nat
    /\ bound \in [Items -> SUBSET Nat]

\* The document is read only.
LEMMA SameDocument == doc' = doc /\ IsDocument(doc) => IsDocument(doc)'
BY Zenon DEF IsDocument

\* In a turn the item is one of the document's.
LEMMA TurnItem ==
    ASSUME Shape, IndexInRange, Turn
    PROVE  /\ Item \in Items
           /\ i < Len(json_items)
           /\ Len(json_items) \in Nat
BY DEF Shape, IndexInRange, Turn, Item

\* The initial list is the document's items.
LEMMA InitShape == Init => Shape /\ IndexInRange
<1> SUFFICES ASSUME Init PROVE Shape /\ IndexInRange
    OBVIOUS
<1>1. IsDocument(doc) /\ doc.n \in Nat
    BY DocumentsAssumption DEF Init, IsDocument
<1>2. json_items \in Seq(Items) /\ Len(json_items) = doc.n
    BY <1>1 DEF Init, Items
<1>3. created \in Seq(Items) /\ i = 0
    BY DEF Init
<1>4. bound \in [Items -> SUBSET Nat]
    BY DEF Init, Items
<1>5. doc.n > 0
    BY <1>1 DEF IsDocument
<1> QED
    BY <1>1, <1>2, <1>3, <1>4, <1>5 DEF Shape, IndexInRange

\* Every step keeps the shape, and the index within the list.
LEMMA ShapeStep == Shape /\ IndexInRange /\ [Next]_vars => Shape' /\ IndexInRange'
<1> SUFFICES ASSUME Shape, IndexInRange, [Next]_vars PROVE Shape' /\ IndexInRange'
    OBVIOUS
<1>1. CASE UNCHANGED <<doc, json_items, i, created, bound>>
    BY <1>1, SameDocument DEF Shape, IndexInRange, Items
<1>2. CASE Postpone
    <2>1. Len(json_items) \in Nat /\ i \in Nat
        BY DEF Shape
    <2>2. i' \in Nat /\ (Len(json_items) # 0 => i' < Len(json_items))
        BY <1>2, <2>1, NextIndexInRange DEF Postpone
    <2> QED
        BY <1>2, <2>1, <2>2, SameDocument DEF Postpone, Shape, IndexInRange, Items
<1>3. CASE Create
    <2>1. Item \in Items /\ i < Len(json_items) /\ Len(json_items) \in Nat /\ i \in Nat
        BY <1>3, TurnItem DEF Create, Shape
    <2>2. json_items' \in Seq(Items) /\ Len(json_items') = Len(json_items) - 1
        BY <1>3, <2>1, Removed DEF Create, Shape
    <2>3. i' \in Nat /\ (Len(json_items') # 0 => i' < Len(json_items'))
        <3>1. Len(json_items) - 1 \in Nat
            BY <2>1
        <3>2. i' = NextIndex(Len(json_items) - 1)
            BY <1>3 DEF Create
        <3> QED
            BY <2>1, <2>2, <3>1, <3>2, NextIndexInRange
    <2>4. created' \in Seq(Items)
        BY <1>3, <2>1 DEF Create, Shape
    <2>5. SetInputs(Item) \in SUBSET Nat
        BY DEF SetInputs
    <2>6. bound' \in [Items -> SUBSET Nat]
        BY <1>3, <2>1, <2>5 DEF Create, Shape
    <2>7. doc' = doc /\ Items' = Items
        BY <1>3 DEF Create, Items
    <2>8. IsDocument(doc)'
        BY <2>7, SameDocument DEF Shape
    <2> QED
        BY <2>2, <2>3, <2>4, <2>6, <2>7, <2>8 DEF Shape, IndexInRange
<1> QED
    BY <1>1, <1>2, <1>3
    DEF Next, vars, CheckRaises, CreateRaises, Raise, AllCreated, InitializerRaises, Initialize,
          RunRaises,
        RunTrain, RunTest, Run

\* The steps of Training are steps of GraphBuilder or leave its state alone:
\* the turns of run_train's loop but the last one.
THEOREM TrainingImplementsBuilder == TSpec => Init /\ [][Next]_vars
<1>1. TInit => Init
    BY DEF TInit
<1>2. [TNext]_tvars => [Next]_vars
    <2>1. Elsewhere => Next
        BY DEF Elsewhere, Next
    <2>2. TCreate => Next
        BY DEF TCreate, Next
    <2>3. TrainStep => [Next]_vars
        BY DEF TrainStep, Next
    <2>4. TestStep => Next
        BY DEF TestStep, Next
    <2>5. UNCHANGED tvars => UNCHANGED vars
        BY DEF tvars
    <2> QED
        BY <2>1, <2>2, <2>3, <2>4, <2>5 DEF TNext
<1> QED
    BY <1>1, <1>2, PTL DEF TSpec

\* create_components never indexes past its list, whatever the document.
THEOREM IndexCorrect == TSpec => []IndexInRange
<1>1. Init => Shape /\ IndexInRange
    BY InitShape
<1>2. Shape /\ IndexInRange /\ [Next]_vars => (Shape /\ IndexInRange)'
    BY ShapeStep
<1> QED
    BY <1>1, <1>2, TrainingImplementsBuilder, PTL

\* An item that is ready has its plain important inputs set by set_inputs.
LEMMA ReadySets ==
    ASSUME Shape, NEW x \in Items, Ready(x), NEW k \in 1..Len(doc.refs[x]),
           doc.refs[x][k].important
    PROVE  /\ doc.refs[x][k].obj \in Created
           /\ doc.refs[x][k].form = "plain" => k \in SetInputs(x)
BY DEF Ready, Passes, SetInputs, Named

\* DependencesFirst as a predicate of a list of components, a document and the
\* inputs that are set.
InOrder(c, d, b) ==
    \A m \in 1..Len(c) : \A k \in 1..Len(d.refs[c[m]]) :
       d.refs[c[m]][k].important =>
          /\ \E j \in 1..(m - 1) : c[j] = d.refs[c[m]][k].obj
          /\ d.refs[c[m]][k].form = "plain" => k \in b[c[m]]

LEMMA InOrderIs ==
    /\ DependencesFirst <=> InOrder(created, doc, bound)
    /\ DependencesFirst' <=> InOrder(created', doc', bound')
BY Zenon DEF DependencesFirst, InOrder

\* Every step keeps the order of creation.
LEMMA OrderStep ==
    ASSUME Shape, IndexInRange, DependencesFirst, [Next]_vars
    PROVE  DependencesFirst'
<1>1. CASE UNCHANGED <<doc, created, bound>>
    <2>1. doc' = doc /\ created' = created /\ bound' = bound
        BY <1>1
    <2> QED
        BY <2>1, InOrderIs
<1>2. CASE Create
    <2>0. doc' = doc
        BY <1>2 DEF Create
    <2>1. Item \in Items /\ Ready(Item)
        BY <1>2, TurnItem DEF Create
    <2>2. doc' = doc /\ created' = Append(created, Item)
          /\ bound' = [bound EXCEPT ![Item] = SetInputs(Item)]
        BY <1>2 DEF Create
    <2>3. Len(created) \in Nat /\ Len(created') = Len(created) + 1
          /\ created'[Len(created) + 1] = Item
          /\ \A m \in 1..Len(created) : created'[m] = created[m] /\ created[m] \in Items
        BY <2>1, <2>2 DEF Shape
    <2> SUFFICES InOrder(created', doc, bound')
        BY <2>0, InOrderIs
    <2> SUFFICES ASSUME NEW m \in 1..Len(created'), NEW k \in 1..Len(doc.refs[created'[m]]),
                        doc.refs[created'[m]][k].important
                 PROVE  /\ \E j \in 1..(m - 1) : created'[j] = doc.refs[created'[m]][k].obj
                        /\ doc.refs[created'[m]][k].form = "plain" => k \in bound'[created'[m]]
        BY Zenon DEF InOrder
    <2>4. CASE m = Len(created) + 1
        <3>1. created'[m] = Item
            BY <2>3, <2>4
        <3>2. /\ doc.refs[Item][k].obj \in Created
              /\ doc.refs[Item][k].form = "plain" => k \in SetInputs(Item)
            BY <2>1, <3>1, ReadySets
        <3>3. PICK j \in 1..Len(created) : created[j] = doc.refs[Item][k].obj
            BY <3>2 DEF Created
        <3>4. j \in 1..(m - 1) /\ created'[j] = created[j]
            BY <2>3, <2>4, <3>3
        <3>5. bound'[Item] = SetInputs(Item)
            BY <2>1, <2>2 DEF Shape
        <3> QED
            BY <3>1, <3>2, <3>3, <3>4, <3>5
    <2>5. CASE m # Len(created) + 1
        <3>1. m \in 1..Len(created) /\ created'[m] = created[m] /\ created[m] \in Items
            BY <2>3, <2>5
        <3>2. /\ \E j \in 1..(m - 1) : created[j] = doc.refs[created[m]][k].obj
              /\ doc.refs[created[m]][k].form = "plain" => k \in bound[created[m]]
            BY <3>1 DEF DependencesFirst
        <3>3. \E j \in 1..(m - 1) : created'[j] = doc.refs[created[m]][k].obj
            BY <2>3, <3>1, <3>2
        <3>4. CASE created[m] = Item
            <4>1. doc.refs[Item][k].form = "plain" => k \in SetInputs(Item)
                BY <2>1, <3>1, <3>4, ReadySets
            <4> QED
                BY <2>1, <2>2, <3>1, <3>3, <3>4, <4>1 DEF Shape
        <3>5. CASE created[m] # Item
            BY <2>1, <2>2, <3>1, <3>2, <3>3, <3>5 DEF Shape
        <3> QED
            BY <3>4, <3>5
    <2> QED
        BY <2>4, <2>5
<1> QED
    BY <1>1, <1>2
    DEF Next, vars, Postpone, CheckRaises, CreateRaises, Raise, AllCreated, InitializerRaises,
          Initialize, RunRaises,
        RunTrain, RunTest, Run

\* Whatever the document and the order of its items, a component is created
\* after those its important inputs name, and these inputs are set.
THEOREM OrderCorrect == TSpec => []DependencesFirst
<1>1. Init => Shape /\ IndexInRange
    BY InitShape
<1>2. Init => DependencesFirst
    BY DEF Init, DependencesFirst
<1>3. Shape /\ IndexInRange /\ [Next]_vars => (Shape /\ IndexInRange)'
    BY ShapeStep
<1>4. Shape /\ IndexInRange /\ DependencesFirst /\ [Next]_vars => DependencesFirst'
    BY OrderStep
<1> QED
    BY <1>1, <1>2, <1>3, <1>4, TrainingImplementsBuilder, PTL

(***************************************************************************)
(* Induction over the naturals, as facts about sets: the least number      *)
(* principle, and that a function defined by recursion exists.             *)
(***************************************************************************)

LEMMA Smallest ==
    ASSUME NEW T \in SUBSET Nat, T # {}
    PROVE  \E x \in T : \A y \in T : x <= y
<1>1. PICK x \in T : \A y \in T : ~ (<<y, x>> \in OpToRel(<, Nat))
    BY NatLessThanWellFounded, WFMin, Zenon
<1>2. \A y \in T : y < x => <<y, x>> \in OpToRel(<, Nat)
    BY DEF OpToRel
<1>3. \A y \in T : ~(y < x)
    BY <1>1, <1>2, Zenon
<1>4. \A y \in T : ~(y < x) => x <= y
    OBVIOUS
<1> QED
    BY <1>3, <1>4, Zenon

\* A set that has 0 and, up to n, the successor of its members has 0..n.
LEMMA Induction ==
    ASSUME NEW n \in Nat, NEW T, 0 \in T, \A m \in 0..n : m \in T /\ m < n => m + 1 \in T
    PROVE  \A m \in 0..n : m \in T
<1> SUFFICES ASSUME NEW m \in 0..n, m \notin T PROVE FALSE
    OBVIOUS
<1> DEFINE F == {k \in 0..n : k \notin T}
<1>1. F \in SUBSET Nat /\ F # {}
    OBVIOUS
<1>2. PICK x \in F : \A y \in F : x <= y
    BY <1>1, Smallest, Zenon
<1>3. x \in 0..n /\ x \notin T /\ x # 0
    OBVIOUS
<1>4. x - 1 \in 0..n /\ x - 1 < n /\ (x - 1) + 1 = x
    BY <1>3
<1>5. x - 1 \notin F
    BY <1>2, <1>3
<1> QED
    BY <1>3, <1>4, <1>5

\* f is what recursion makes of a base and a step.
Recurs(f, n, S, base, step) ==
    /\ f = [m \in 0..n |-> IF m = 0 THEN base ELSE step[<<m, f[m - 1]>>]]
    /\ f \in [0..n -> S]

\* For any base and step there is such a function.
LEMMA Recursion ==
    ASSUME NEW n \in Nat, NEW S, NEW base \in S, NEW step \in [Nat \X S -> S]
    PROVE  \E f : Recurs(f, n, S, base, step)
<1> DEFINE Is(f, k) == /\ f = [m \in 0..k |-> IF m = 0 THEN base ELSE step[<<m, f[m - 1]>>]]
                       /\ f \in [0..k -> S]
           T == {k \in Nat : \E f : Is(f, k)}
<1>1. 0 \in T
    <2> DEFINE f == [m \in 0..0 |-> base]
    <2>1. \A m \in 0..0 : m = 0
        OBVIOUS
    <2>2. f = [m \in 0..0 |-> IF m = 0 THEN base ELSE step[<<m, f[m - 1]>>]]
        BY <2>1, Zenon
    <2>3. f \in [0..0 -> S]
        OBVIOUS
    <2> QED
        BY <2>2, <2>3
<1>2. \A k \in 0..n : k \in T /\ k < n => k + 1 \in T
    <2> SUFFICES ASSUME NEW k \in Nat, k \in T PROVE k + 1 \in T
        OBVIOUS
    <2>1. PICK f : Is(f, k)
        OBVIOUS
    <2> DEFINE g == [m \in 0..k + 1 |-> IF m = k + 1 THEN step[<<m, f[k]>>] ELSE f[m]]
    <2>2. f \in [0..k -> S]
        BY <2>1, Zenon
    <2>3. \A m \in 0..k : f[m] = IF m = 0 THEN base ELSE step[<<m, f[m - 1]>>]
        BY <2>1
    <2>4. \A m \in 0..k + 1 : m \in Nat /\ (m # k + 1 => m \in 0..k) /\ (m # 0 => m - 1 \in 0..k)
        OBVIOUS
    <2>5. \A m \in 0..k : g[m] = f[m]
        OBVIOUS
    <2>6. g \in [0..k + 1 -> S]
        <3>1. step[<<k + 1, f[k]>>] \in S
            BY <2>2
        <3> QED
            BY <2>2, <2>4, <3>1
    <2>7. \A m \in 0..k + 1 : g[m] = IF m = 0 THEN base ELSE step[<<m, g[m - 1]>>]
        <3> TAKE m \in 0..k + 1
        <3>1. CASE m = k + 1
            <4>1. m # 0 /\ m - 1 = k /\ k \in 0..k
                BY <3>1
            <4>2. g[m] = step[<<m, f[k]>>]
                BY <3>1
            <4>3. g[m - 1] = f[k]
                BY <4>1, <2>5
            <4> QED
                BY <4>1, <4>2, <4>3, Zenon
        <3>2. CASE m # k + 1
            <4>1. m \in 0..k /\ (m # 0 => m - 1 \in 0..k)
                BY <3>2, <2>4
            <4>2. g[m] = f[m] /\ (m # 0 => g[m - 1] = f[m - 1])
                BY <4>1, <2>5
            <4> HIDE DEF g
            <4> QED
                BY <4>1, <4>2, <2>3, Zenon
        <3> QED
            BY <3>1, <3>2
    <2>8. g = [m \in 0..k + 1 |-> g[m]]
        OBVIOUS
    <2> HIDE DEF g
    <2>9. g = [m \in 0..k + 1 |-> IF m = 0 THEN base ELSE step[<<m, g[m - 1]>>]]
        BY <2>7, <2>8, Zenon
    <2>10. Is(g, k + 1)
        BY <2>6, <2>9, Zenon
    <2> HIDE DEF Is
    <2>11. \E h : Is(h, k + 1)
        BY <2>10, Zenon
    <2>12. k + 1 \in Nat
        OBVIOUS
    <2> QED
        BY <2>11, <2>12, Zenon
<1> HIDE DEF T
<1>3. n \in T
    BY <1>1, <1>2, Induction
<1> QED
    BY <1>3, Zenon DEF T, Recurs

(***************************************************************************)
(* The inductive invariant of the builder.                                 *)
(***************************************************************************)

Left == {json_items[k] : k \in 1..Len(json_items)}

\* The items are those created and those left, each of them once.
Parted ==
    /\ \A a, b \in 1..Len(created) : created[a] = created[b] => a = b
    /\ \A a, b \in 1..Len(json_items) : json_items[a] = json_items[b] => a = b
    /\ \A a \in 1..Len(created), b \in 1..Len(json_items) : created[a] # json_items[b]
    /\ Len(created) + Len(json_items) = doc.n
    /\ \A x \in Items : x \in Created \/ x \in Left
    /\ phase \in {"initialize", "train", "test", "done"} => json_items = <<>>

\* An input is set to a component that had been created before.
InputsBefore ==
    \A q \in 1..Len(created) : \A k \in bound[created[q]] :
       /\ k \in 1..Len(doc.refs[created[q]])
       /\ \E j \in 1..(q - 1) : created[j] = Named(doc.refs[created[q]][k])

\* The global dataset is a data set, if there is one.
DatasetKnown ==
    IF dataset = None THEN \A x \in Created : doc.class[x] # "DataSet"
                      ELSE dataset \in Created /\ doc.class[dataset] = "DataSet"

\* What run_train handed to the session is what it would hand to it still.
RanRoots == phase \in {"test", "done"} => ran["train"] = ComponentsToRun("train")

RanType ==
    /\ phase \in {"create", "initialize", "train", "test", "done", "raised"}
    /\ DOMAIN ran = {"train", "test"}

GraphInv ==
    /\ Shape /\ IndexInRange /\ Parted /\ InputsBefore /\ DatasetKnown /\ RanRoots /\ RanType
    /\ DependencesFirst /\ CleanNeverRaises

\* The elements that are left, in their order.
LEMMA RemovedElements ==
    ASSUME NEW S, NEW s \in Seq(S), NEW n \in Nat, n < Len(s),
           NEW k \in 1..(Len(s) - 1)
    PROVE  (SubSeq(s, 1, n) \o SubSeq(s, n + 2, Len(s)))[k] = IF k <= n THEN s[k] ELSE s[k + 1]
<1> DEFINE a == SubSeq(s, 1, n)
           b == SubSeq(s, n + 2, Len(s))
<1>a. /\ a \in Seq(S) /\ Len(a) = n /\ \A j \in 1..n : a[j] = s[j]
      /\ b \in Seq(S) /\ Len(b) = Len(s) - n - 1
      /\ Len(s) \in Nat
    OBVIOUS
<1>b. ASSUME NEW j \in 1..(Len(s) - n - 1) PROVE b[j] = s[n + 1 + j]
    <2>1. b[j] = s[(n + 2) + j - 1]
        BY <1>a
    <2>2. (n + 2) + j - 1 = n + 1 + j
        BY <1>a
    <2> QED
        BY <2>1, <2>2
<1> HIDE DEF a, b
<1>1. /\ a \in Seq(S) /\ Len(a) = n /\ \A j \in 1..n : a[j] = s[j]
      /\ b \in Seq(S) /\ Len(b) = Len(s) - n - 1 /\ \A j \in 1..(Len(s) - n - 1) : b[j] = s[n + 1 + j]
      /\ Len(s) \in Nat
    BY <1>a, <1>b
<1>2. (a \o b)[k] = IF k <= n THEN a[k] ELSE b[k - n]
    BY <1>1
<1>3. k <= n => (a \o b)[k] = s[k]
    BY <1>1, <1>2
<1>4. ASSUME k > n PROVE (a \o b)[k] = s[k + 1]
    <2>1. k - n \in 1..(Len(s) - n - 1) /\ n + 1 + (k - n) = k + 1
        BY <1>1, <1>4
    <2>2. b[k - n] = s[k + 1]
        BY <1>1, <2>1
    <2> QED
        BY <1>2, <1>4, <2>2
<1>5. k <= n \/ k > n
    OBVIOUS
<1> QED
    BY <1>3, <1>4, <1>5, Zenon DEF a, b

\* What a creation does to the two lists.
LEMMA CreateEffect ==
    ASSUME Shape, IndexInRange, Create
    PROVE  /\ Item \in Items /\ Item = json_items[i + 1] /\ i + 1 \in 1..Len(json_items)
           /\ Len(json_items) \in Nat /\ Len(created) \in Nat
           /\ Len(json_items') = Len(json_items) - 1
           /\ \A k \in 1..Len(json_items') :
                 json_items'[k] = IF k <= i THEN json_items[k] ELSE json_items[k + 1]
           /\ Len(created') = Len(created) + 1
           /\ created'[Len(created) + 1] = Item
           /\ \A m \in 1..Len(created) : created'[m] = created[m] /\ created[m] \in Items
           /\ Created' = Created \cup {Item}
           /\ i \in Nat
<1>1. Item \in Items /\ i < Len(json_items) /\ Len(json_items) \in Nat /\ i \in Nat
    BY TurnItem DEF Create, Shape
<1>2. Item = json_items[i + 1] /\ i + 1 \in 1..Len(json_items)
    BY <1>1 DEF Item
<1>3. json_items \in Seq(Items) /\ created \in Seq(Items)
    BY DEF Shape
<1>4. json_items' = SubSeq(json_items, 1, i) \o SubSeq(json_items, i + 2, Len(json_items))
    BY DEF Create
<1>5. Len(json_items') = Len(json_items) - 1
    BY <1>1, <1>3, <1>4, Removed
<1>6. \A k \in 1..Len(json_items') :
         json_items'[k] = IF k <= i THEN json_items[k] ELSE json_items[k + 1]
    <2> TAKE k \in 1..Len(json_items')
    <2>1. k \in 1..(Len(json_items) - 1)
        BY <1>5
    <2>2. (SubSeq(json_items, 1, i) \o SubSeq(json_items, i + 2, Len(json_items)))[k]
             = IF k <= i THEN json_items[k] ELSE json_items[k + 1]
        BY <1>1, <1>3, <2>1, RemovedElements
    <2> QED
        BY <1>4, <2>2, Zenon
<1>7. created' = Append(created, Item)
    BY DEF Create
<1>8. /\ Len(created') = Len(created) + 1 /\ Len(created) \in Nat
      /\ created'[Len(created) + 1] = Item
      /\ \A m \in 1..Len(created) : created'[m] = created[m] /\ created[m] \in Items
    BY <1>1, <1>3, <1>7
<1>9. Created' = Created \cup {Item}
    <2>1. Created' = {created'[k] : k \in 1..Len(created')}
        BY DEF Created
    <2>2. \A x \in Created' : x \in Created \cup {Item}
        BY <1>8, <2>1 DEF Created
    <2>3. \A x \in Created \cup {Item} : x \in Created'
        BY <1>8, <2>1 DEF Created
    <2> QED
        BY <2>2, <2>3
<1> QED
    BY <1>1, <1>2, <1>5, <1>6, <1>8, <1>9

\* The steps that are no creation leave what was built alone.
LEMMA OtherSteps ==
    ASSUME [Next]_vars, ~Create
    PROVE  UNCHANGED <<doc, json_items, created, bound, dataset>>
BY DEF Next, vars, Postpone, CheckRaises, CreateRaises, Raise, AllCreated, InitializerRaises,
       Initialize, RunRaises,
       RunTrain, RunTest, Run

\* Every step keeps the items parted.
LEMMA PartedStep ==
    ASSUME Shape, IndexInRange, RanType, Parted, [Next]_vars
    PROVE  Parted'
<1>1. CASE ~Create
    <2>1. UNCHANGED <<doc, json_items, created>>
        BY <1>1, OtherSteps
    <2>2. phase' \in {"initialize", "train", "test", "done"} => json_items = <<>>
        BY DEF Next, vars, Postpone, CheckRaises, CreateRaises, Create, Raise, AllCreated,
               InitializerRaises, Initialize, RunRaises,
               RunTrain, RunTest, Run, Parted
    <2> QED
        BY <2>1, <2>2 DEF Parted, Items, Created, Left
<1>2. CASE Create
    <2>0. UNCHANGED <<doc, phase>> /\ phase = "create"
        BY <1>2 DEF Create, Turn
    <2>1. /\ Item \in Items /\ Item = json_items[i + 1] /\ i + 1 \in 1..Len(json_items)
          /\ Len(json_items) \in Nat /\ Len(created) \in Nat
          /\ Len(json_items') = Len(json_items) - 1
          /\ \A k \in 1..Len(json_items') :
                 json_items'[k] = IF k <= i THEN json_items[k] ELSE json_items[k + 1]
          /\ Len(created') = Len(created) + 1
          /\ created'[Len(created) + 1] = Item
          /\ \A m \in 1..Len(created) : created'[m] = created[m] /\ created[m] \in Items
          /\ Created' = Created \cup {Item}
          /\ i \in Nat
        BY <1>2, CreateEffect
    <2>2. \A a, b \in 1..Len(json_items) : json_items[a] = json_items[b] => a = b
        BY DEF Parted
    <2>3. \A a \in 1..Len(created), b \in 1..Len(json_items) : created[a] # json_items[b]
        BY DEF Parted
    <2>4. \A a, b \in 1..Len(created') : created'[a] = created'[b] => a = b
        <3> TAKE a, b \in 1..Len(created')
        <3>1. \A c \in 1..Len(created) : created[c] # Item
            BY <2>1, <2>3
        <3> QED
            BY <2>1, <3>1 DEF Parted
    <2>5. \A a, b \in 1..Len(json_items') : json_items'[a] = json_items'[b] => a = b
        <3> TAKE a, b \in 1..Len(json_items')
        <3>1. /\ a \in 1..Len(json_items) /\ a + 1 \in 1..Len(json_items)
              /\ b \in 1..Len(json_items) /\ b + 1 \in 1..Len(json_items)
            BY <2>1
        <3> QED
            BY <2>1, <2>2, <3>1
    <2>6. \A b \in 1..Len(json_items') : json_items'[b] # Item /\ json_items'[b] \in Left
        <3> TAKE b \in 1..Len(json_items')
        <3>1. b \in 1..Len(json_items) /\ b + 1 \in 1..Len(json_items)
            BY <2>1
        <3> QED
            BY <2>1, <2>2, <3>1 DEF Left
    <2>7. \A a \in 1..Len(created'), b \in 1..Len(json_items') : created'[a] # json_items'[b]
        <3> TAKE a \in 1..Len(created'), b \in 1..Len(json_items')
        <3>1. json_items'[b] # Item /\ json_items'[b] \in Left
            BY <2>6
        <3>2. PICK c \in 1..Len(json_items) : json_items'[b] = json_items[c]
            BY <3>1 DEF Left
        <3>3. CASE a = Len(created) + 1
            BY <2>1, <3>1, <3>3
        <3>4. CASE a # Len(created) + 1
            <4>1. a \in 1..Len(created)
                BY <2>1, <3>4
            <4>2. created'[a] = created[a]
                BY <2>1, <4>1
            <4>3. created[a] # json_items[c]
                BY <2>3, <4>1
            <4> QED
                BY <3>2, <4>2, <4>3
        <3> QED
            BY <3>3, <3>4
    <2>8. Len(created') + Len(json_items') = doc.n
        BY <2>1 DEF Parted
    <2>9. \A x \in Items : x \in Created' \/ x \in Left'
        <3> TAKE x \in Items
        <3>1. CASE x \in Created \/ x = Item
            BY <2>1, <3>1
        <3>2. CASE x \notin Created /\ x # Item
            <4>1. PICK k \in 1..Len(json_items) : x = json_items[k]
                BY <3>2 DEF Parted, Left
            <4>2. k # i + 1
                BY <2>1, <3>2, <4>1
            <4>3. CASE k <= i
                <5>1. k \in 1..Len(json_items') /\ json_items'[k] = x
                    BY <2>1, <4>1, <4>3
                <5> QED
                    BY <5>1 DEF Left
            <4>4. CASE k > i
                <5>1. k - 1 \in 1..Len(json_items') /\ ~(k - 1 <= i) /\ (k - 1) + 1 = k
                    BY <2>1, <4>2, <4>4
                <5>2. json_items'[k - 1] = x
                    BY <2>1, <4>1, <5>1
                <5> QED
                    BY <5>1, <5>2 DEF Left
            <4> QED
                BY <2>1, <4>3, <4>4
        <3> QED
            BY <3>1, <3>2
    <2> QED
        BY <2>0, <2>4, <2>5, <2>7, <2>8, <2>9 DEF Parted, Items
<1> QED
    BY <1>1, <1>2

\* Every step keeps the order in which inputs are set.
LEMMA InputsStep ==
    ASSUME Shape, IndexInRange, Parted, InputsBefore, [Next]_vars
    PROVE  InputsBefore'
<1>1. CASE ~Create
    <2>1. doc' = doc /\ created' = created /\ bound' = bound
        BY <1>1, OtherSteps
    <2> QED
        BY <2>1, Zenon DEF InputsBefore
<1>2. CASE Create
    <2>0. doc' = doc /\ bound' = [bound EXCEPT ![Item] = SetInputs(Item)]
        BY <1>2 DEF Create
    <2>1. /\ Item \in Items /\ Item = json_items[i + 1] /\ i + 1 \in 1..Len(json_items)
          /\ Len(created) \in Nat
          /\ Len(created') = Len(created) + 1
          /\ created'[Len(created) + 1] = Item
          /\ \A m \in 1..Len(created) : created'[m] = created[m] /\ created[m] \in Items
        BY <1>2, CreateEffect
    <2> SUFFICES ASSUME NEW q \in 1..Len(created'), NEW k \in bound'[created'[q]]
                 PROVE  /\ k \in 1..Len(doc.refs[created'[q]])
                        /\ \E j \in 1..(q - 1) : created'[j] = Named(doc.refs[created'[q]][k])
        BY <2>0, Zenon DEF InputsBefore
    <2>2. CASE q = Len(created) + 1
        <3>1. created'[q] = Item /\ bound'[Item] = SetInputs(Item)
            BY <2>0, <2>1, <2>2 DEF Shape
        <3>2. k \in 1..Len(doc.refs[Item]) /\ Named(doc.refs[Item][k]) \in Created
            BY <3>1 DEF SetInputs
        <3>3. PICK j \in 1..Len(created) : created[j] = Named(doc.refs[Item][k])
            BY <3>2 DEF Created
        <3>4. j \in 1..(q - 1) /\ created'[j] = created[j]
            BY <2>1, <2>2, <3>3
        <3> QED
            BY <3>1, <3>2, <3>3, <3>4
    <2>3. CASE q # Len(created) + 1
        <3>1. q \in 1..Len(created) /\ created'[q] = created[q] /\ created[q] \in Items
            BY <2>1, <2>3
        <3>2. created[q] # Item
            BY <2>1, <3>1 DEF Parted
        <3>3. bound'[created[q]] = bound[created[q]]
            BY <2>0, <3>1, <3>2 DEF Shape
        <3>4. /\ k \in 1..Len(doc.refs[created[q]])
              /\ \E j \in 1..(q - 1) : created[j] = Named(doc.refs[created[q]][k])
            BY <3>1, <3>3 DEF InputsBefore
        <3>5. \A j \in 1..(q - 1) : created'[j] = created[j]
            BY <2>1, <3>1
        <3> QED
            BY <3>1, <3>4, <3>5
    <2> QED
        BY <2>2, <2>3
<1> QED
    BY <1>1, <1>2

\* Every step keeps track of the data set.
LEMMA DatasetStep ==
    ASSUME Shape, IndexInRange, DatasetKnown, [Next]_vars
    PROVE  DatasetKnown'
<1>1. CASE ~Create
    <2>1. doc' = doc /\ created' = created /\ dataset' = dataset
        BY <1>1, OtherSteps
    <2> QED
        BY <2>1 DEF DatasetKnown, Created
<1>2. CASE Create
    <2>1. doc' = doc /\ dataset' = IF doc.class[Item] = "DataSet" THEN Item ELSE dataset
        BY <1>2 DEF Create
    <2>2. Created' = Created \cup {Item} /\ Item \in Items
        BY <1>2, CreateEffect
    <2>3. Item # None
        BY <2>2 DEF Items, None
    <2> QED
        BY <2>1, <2>2, <2>3 DEF DatasetKnown
<1> QED
    BY <1>1, <1>2

\* Every step keeps the record of the run.
LEMMA RanStep ==
    ASSUME RanType, RanRoots, [Next]_vars
    PROVE  RanType' /\ RanRoots'
<1>1. RanType'
    BY DEF RanType, Next, vars, Postpone, CheckRaises, CreateRaises, Create, Raise, AllCreated,
           InitializerRaises, Initialize, RunRaises,
           RunTrain, RunTest, Run
<1>2. CASE Create
    <2>1. phase' = "create"
        BY <1>2 DEF Create, Turn
    <2> QED
        BY <1>1, <2>1 DEF RanRoots
<1>3. CASE ~Create
    <2>1. doc' = doc /\ created' = created
        BY <1>3, OtherSteps
    <2>2. ComponentsToRun("train")' = ComponentsToRun("train")
        BY <2>1 DEF ComponentsToRun, OfType, DependenceNames, Created, Named
    <2>3. phase' \in {"test", "done"} => ran'["train"] = ComponentsToRun("train")
        BY DEF RanType, RanRoots, Next, vars, Postpone, CheckRaises, CreateRaises, Create, Raise,
               AllCreated, InitializerRaises, Initialize, RunRaises, RunTrain, RunTest, Run
    <2> QED
        BY <1>1, <2>2, <2>3 DEF RanRoots
<1> QED
    BY <1>2, <1>3

\* The inputs of a component are components that were created before it.
LEMMA InputsCreated ==
    ASSUME Shape, Parted, InputsBefore, NEW q \in 1..Len(created), NEW x \in Inputs(created[q])
    PROVE  \E j \in 1..(q - 1) : created[j] = x
<1>1. PICK k \in bound[created[q]] : x = doc.refs[created[q]][k].obj
    BY DEF Inputs, Sources, Counting
<1>2. PICK j \in 1..(q - 1) : created[j] = Named(doc.refs[created[q]][k])
    BY DEF InputsBefore
<1>3. j \in 1..Len(created) /\ created[j] \in Items
    BY <1>2 DEF Shape
<1>4. created[j] # None
    BY <1>3 DEF Items, None
<1> QED
    BY <1>1, <1>2, <1>4 DEF Named

\* What m steps reach is what m - 1 steps reach and what is next to it.
Layered(w, n, R, G) ==
    /\ w[0] = R
    /\ \A m \in 1..n : w[m] = UNION {{x} \cup G[x] : x \in w[m - 1]}

LEMMA WithinIs ==
    ASSUME NEW d, d.n \in Nat, NEW S, NEW R \in SUBSET S, NEW G, \A x \in S : G[x] \subseteq S
    PROVE  /\ Within(d, R, G) \in [0..d.n -> SUBSET S]
           /\ Layered(Within(d, R, G), d.n, R, G)
<1> DEFINE n == d.n
           U(X) == UNION {{x} \cup G[x] : x \in X}
           P(g) == g = [m \in 0..d.n |-> IF m = 0 THEN R ELSE U(g[m - 1])]
           step == [p \in Nat \X SUBSET S |-> U(p[2])]
<1>0. n \in Nat
    OBVIOUS
<1>1. \A X \in SUBSET S : U(X) \in SUBSET S
    OBVIOUS
<1>2. step \in [Nat \X SUBSET S -> SUBSET S]
    BY <1>1
<1> HIDE DEF step, U
<1>3. PICK f : /\ f = [m \in 0..n |-> IF m = 0 THEN R ELSE step[<<m, f[m - 1]>>]]
               /\ f \in [0..n -> SUBSET S]
    <2>1. \E f : Recurs(f, n, SUBSET S, R, step)
        <3> HIDE DEF n
        <3> QED
            BY <1>0, <1>2, Recursion, Zenon
    <2> QED
        BY <2>1, Zenon DEF Recurs
<1>4. \A m \in 0..n : m # 0 => step[<<m, f[m - 1]>>] = U(f[m - 1])
    <2> TAKE m \in 0..n
    <2> HAVE m # 0
    <2>1. m \in Nat /\ m - 1 \in 0..n
        BY <1>0
    <2>2. <<m, f[m - 1]>> \in Nat \X SUBSET S
        BY <1>3, <2>1
    <2> QED
        BY <2>2 DEF step
<1>5. P(f)
    <2>1. \A m \in 0..n : f[m] = IF m = 0 THEN R ELSE U(f[m - 1])
        BY <1>3, <1>4
    <2>2. f = [m \in 0..n |-> f[m]]
        BY <1>3
    <2> QED
        BY <2>1, <2>2, Zenon
<1>6. Within(d, R, G) = CHOOSE g : P(g)
    BY Zenon DEF Within, U
<1> DEFINE w == Within(d, R, G)
<1> HIDE DEF P
<1>7. P(w)
    BY <1>5, <1>6, Zenon
<1> HIDE DEF w
<1> USE DEF P
<1>8. w[0] = R /\ \A m \in 0..n : m # 0 => w[m] = U(w[m - 1])
    BY <1>0, <1>7
<1> DEFINE T == {m \in 0..n : w[m] \in SUBSET S}
<1>9. \A m \in 0..n : m \in T
    <2> HIDE DEF n
    <2>1. 0 \in T
        BY <1>0, <1>8
    <2>2. ASSUME NEW m \in 0..n, m \in T, m < n PROVE m + 1 \in T
        <3>1. m + 1 \in 0..n /\ m + 1 # 0 /\ (m + 1) - 1 = m
            BY <1>0, <2>2
        <3>2. w[m + 1] = U(w[m])
            BY <1>8, <3>1
        <3>3. w[m] \in SUBSET S
            BY <2>2
        <3> QED
            BY <1>1, <3>1, <3>2, <3>3
    <2> HIDE DEF T
    <2> QED
        BY <1>0, <2>1, <2>2, Induction
<1>10. w \in [0..n -> SUBSET S]
    BY <1>7, <1>9
<1>11. \A m \in 1..n : m \in 0..n /\ m # 0
    BY <1>0
<1> QED
    BY <1>8, <1>10, <1>11, Zenon DEF w, U, Layered

\* What m steps reach is reached.
LEMMA WithinGrows ==
    ASSUME NEW d, d.n \in Nat, NEW S, NEW R \in SUBSET S, NEW G, \A x \in S : G[x] \subseteq S,
           NEW m \in 0..d.n, NEW x \in Within(d, R, G)[m]
    PROVE  x \in Reach(d, R, G)
<1> DEFINE n == d.n
           w == Within(d, R, G)
           T == {e \in 0..(n - m) : x \in w[m + e]}
<1>0. n \in Nat /\ n - m \in Nat /\ m \in 0..n
    OBVIOUS
<1>a. Layered(w, n, R, G)
    BY WithinIs, Zenon
<1>1. \A k \in 1..n : w[k] = UNION {{y} \cup G[y] : y \in w[k - 1]}
    BY <1>a, Zenon DEF Layered
<1>2. x \in w[m]
    OBVIOUS
<1> HIDE DEF w, n
<1>3. 0 \in T
    BY <1>0, <1>2
<1>4. ASSUME NEW e \in 0..(n - m), e \in T, e < n - m PROVE e + 1 \in T
    <2>1. m + (e + 1) \in 1..n /\ (m + (e + 1)) - 1 = m + e /\ e + 1 \in 0..(n - m)
        BY <1>0, <1>4
    <2>2. x \in w[m + e]
        BY <1>4
    <2>3. w[m + (e + 1)] = UNION {{y} \cup G[y] : y \in w[m + e]}
        BY <1>1, <2>1
    <2> QED
        BY <2>1, <2>2, <2>3
<1>5. n - m \in T
    <2> HIDE DEF T
    <2>1. \A k \in 0..(n - m) : k \in T
        BY <1>0, <1>3, <1>4, Induction
    <2> QED
        BY <1>0, <2>1
<1>6. m + (n - m) = n
    BY <1>0
<1> QED
    BY <1>5, <1>6 DEF Reach, w, n

\* What is reached along a part of a graph is reached along the graph, if the
\* part does not leave S.
LEMMA ReachMonotone ==
    ASSUME NEW d, d.n \in Nat, NEW S, NEW D, NEW P, NEW R \in SUBSET D, NEW G, NEW H,
           P \subseteq R, P \subseteq S, S \subseteq D,
           \A x \in S : G[x] \subseteq H[x] /\ G[x] \subseteq S,
           \A x \in D : H[x] \subseteq D
    PROVE  Reach(d, P, G) \subseteq Reach(d, R, H)
<1> DEFINE n == d.n
           v == Within(d, P, G)
           w == Within(d, R, H)
           T == {m \in 0..n : v[m] \subseteq w[m]}
<1>0. n \in Nat
    OBVIOUS
<1>a. v \in [0..n -> SUBSET S] /\ Layered(v, n, P, G)
    <2>1. P \in SUBSET S /\ \A x \in S : G[x] \subseteq S
        OBVIOUS
    <2> QED
        BY <2>1, WithinIs, Zenon
<1>b. Layered(w, n, R, H)
    BY WithinIs, Zenon
<1>1. /\ v \in [0..n -> SUBSET S] /\ v[0] = P
      /\ \A m \in 1..n : v[m] = UNION {{x} \cup G[x] : x \in v[m - 1]}
    BY <1>a, Zenon DEF Layered
<1>2. /\ w[0] = R
      /\ \A m \in 1..n : w[m] = UNION {{x} \cup H[x] : x \in w[m - 1]}
    BY <1>b, Zenon DEF Layered
<1>3. Reach(d, P, G) = v[n] /\ Reach(d, R, H) = w[n]
    BY DEF Reach
<1> HIDE DEF n, v, w
<1>4. 0 \in T
    BY <1>0, <1>1, <1>2
<1>5. ASSUME NEW m \in 0..n, m \in T, m < n PROVE m + 1 \in T
    <2>1. m + 1 \in 1..n /\ m + 1 \in 0..n /\ (m + 1) - 1 = m
        BY <1>0, <1>5
    <2>2. v[m + 1] = UNION {{x} \cup G[x] : x \in v[m]} /\ v[m] \subseteq S
        BY <1>1, <2>1
    <2>3. w[m + 1] = UNION {{x} \cup H[x] : x \in w[m]}
        BY <1>2, <2>1
    <2>4. v[m] \subseteq w[m]
        BY <1>5
    <2>5. v[m + 1] \subseteq w[m + 1]
        BY <2>2, <2>3, <2>4
    <2> QED
        BY <2>1, <2>5
<1>6. n \in T
    <2> HIDE DEF T
    <2> QED
        BY <1>0, <1>4, <1>5, Induction
<1> QED
    BY <1>3, <1>6

\* The program's graphs stay among what was created.
LEMMA GraphsCreated ==
    ASSUME Shape, Parted, InputsBefore
    PROVE  /\ doc.n \in Nat /\ Created \subseteq Items
           /\ \A x \in Created : /\ Inputs(x) \subseteq Created
                               /\ Operands[x] \subseteq Inputs(x)
                               /\ Gradients[x] \subseteq Inputs(x)
           /\ InitialValues \subseteq Created
<1>1. doc.n \in Nat /\ Created \subseteq Items
    BY DEF Shape, IsDocument, Created
<1>2. ASSUME NEW x \in Created, NEW y \in Inputs(x) PROVE y \in Created
    <2>1. PICK q \in 1..Len(created) : created[q] = x
        BY DEF Created
    <2>2. PICK j \in 1..(q - 1) : created[j] = y
        BY <2>1, InputsCreated
    <2>3. j \in 1..Len(created)
        BY <2>2 DEF Shape
    <2> QED
        BY <2>2, <2>3 DEF Created
<1>3. ASSUME NEW x \in Created
      PROVE  Operands[x] \subseteq Inputs(x) /\ Gradients[x] \subseteq Inputs(x)
    <2>1. x \in Items
        BY <1>1
    <2> QED
        BY <2>1 DEF Operands, Gradients, GradientSources, Inputs, Sources
<1>4. InitialValues \subseteq Created
    BY <1>2 DEF InitialValues
<1> QED
    BY <1>1, <1>2, <1>3, <1>4

\* A component of a type that is not handed to the session is an input of one that
\* was created after it.
LEMMA NamedByLater ==
    ASSUME Shape, Parted, InputsBefore, NEW t, AllInputs(t),
           NEW p \in 1..Len(created), created[p] \in OfType(t),
           created[p] \notin ComponentsToRun(t)
    PROVE  \E q \in 1..Len(created) :
              q > p /\ created[q] \in OfType(t) /\ created[p] \in Inputs(created[q])
<1> DEFINE x == created[p]
<1>1. x \in DependenceNames(t)
    BY DEF ComponentsToRun
<1>2. PICK y \in OfType(t) : \E k \in 1..Len(doc.refs[y]) : x = Named(doc.refs[y][k])
    BY <1>1 DEF DependenceNames
<1>3. PICK k \in 1..Len(doc.refs[y]) : x = Named(doc.refs[y][k])
    BY <1>2
<1>4. x # None
    BY SMTT(30) DEF Shape, Items, None
<1>5. doc.refs[y][k].obj = x
    BY <1>3, <1>4 DEF Named
<1>6. x \in Inputs(y)
    BY <1>3, <1>5 DEF AllInputs
<1>7. PICK q \in 1..Len(created) : created[q] = y
    BY <1>2 DEF OfType, Created
<1>8. PICK j \in 1..(q - 1) : created[j] = x
    BY <1>6, <1>7, InputsCreated
<1>9. Len(created) \in Nat /\ j \in 1..Len(created)
    BY <1>8 DEF Shape
<1>10. j = p
    BY <1>8, <1>9 DEF Parted
<1> QED
    BY <1>2, <1>6, <1>7, <1>8, <1>10

\* Every component of a type is computed from those the session is handed, or
\* from the initial values.
LEMMA AllComputed ==
    ASSUME Shape, Parted, InputsBefore, NEW t, AllInputs(t)
    PROVE  OfType(t) \subseteq Computed(ComponentsToRun(t) \cup InitialValues)
<1> DEFINE R == ComponentsToRun(t) \cup InitialValues
           w == Within(doc, R, Operands)
           n == doc.n
           L == Len(created)
           Found(p) == created[p] \in OfType(t) => \E m \in 0..(L - p) : created[p] \in w[m]
           T == {d \in 0..L : \A p \in 1..L : p > L - d => Found(p)}
<1>0. n \in Nat /\ L \in Nat /\ L <= n
    BY DEF Shape, IsDocument, Parted
<1>a. /\ doc.n \in Nat /\ R \in SUBSET Created /\ Created \subseteq Items
      /\ \A x \in Created : Operands[x] \subseteq Created
    BY GraphsCreated DEF ComponentsToRun, OfType
<1>b. Layered(w, n, R, Operands)
    BY <1>a, WithinIs, Zenon
<1>2. /\ w[0] = R
      /\ \A m \in 1..n : w[m] = UNION {{x} \cup Operands[x] : x \in w[m - 1]}
    BY <1>b, Zenon DEF Layered
<1>3. \A p \in 1..L : Found(p)
    <2> HIDE DEF w
    <2>1. 0 \in T
        BY <1>0
    <2>2. ASSUME NEW d \in 0..L, d \in T, d < L PROVE d + 1 \in T
        <3> SUFFICES ASSUME NEW p \in 1..L, p > L - (d + 1), created[p] \in OfType(t)
                     PROVE  \E m \in 0..(L - p) : created[p] \in w[m]
            BY <1>0, <2>2
        <3>1. CASE p > L - d
            BY <2>2, <3>1
        <3>2. CASE created[p] \in R
            BY <1>0, <1>2, <3>2
        <3>3. CASE ~(p > L - d) /\ created[p] \notin R
            <4>1. PICK q \in 1..L :
                     q > p /\ created[q] \in OfType(t) /\ created[p] \in Inputs(created[q])
                BY <3>3, NamedByLater
            <4>2. q > L - d
                BY <1>0, <3>3, <4>1
            <4>3. PICK m \in 0..(L - q) : created[q] \in w[m]
                BY <2>2, <4>1, <4>2
            <4>4. m + 1 \in 1..n /\ (m + 1) - 1 = m /\ m + 1 \in 0..(L - p)
                BY <1>0, <4>1, <4>3
            <4>5. w[m + 1] = UNION {{x} \cup Operands[x] : x \in w[m]}
                BY <1>2, <4>4
            <4>6. created[q] \in Created /\ created[q] \in Items
                BY <1>a DEF Created
            <4>7. doc.class[created[q]] # "Variable"
                BY <3>3, <4>1, <4>6 DEF InitialValues
            <4>8. Operands[created[q]] = Inputs(created[q])
                BY <4>6, <4>7 DEF Operands
            <4>9. created[p] \in w[m + 1]
                BY <4>1, <4>3, <4>5, <4>8
            <4> QED
                BY <4>4, <4>9
        <3> QED
            BY <3>1, <3>2, <3>3
    <2>3. L \in T
        <3> HIDE DEF T, L
        <3>1. \A m \in 0..L : m \in T
            BY <1>0, <2>1, <2>2, Induction
        <3> QED
            BY <1>0, <3>1
    <2> QED
        BY <1>0, <2>3
<1>4. ASSUME NEW x \in OfType(t) PROVE x \in Computed(R)
    <2>1. PICK p \in 1..L : created[p] = x
        BY DEF OfType, Created
    <2>2. PICK m \in 0..(L - p) : x \in w[m]
        BY <1>3, <2>1
    <2>3. m \in 0..doc.n
        BY <1>0, <2>2
    <2>4. x \in Reach(doc, R, Operands)
        BY <1>a, <2>2, <2>3, WithinGrows
    <2> QED
        BY <2>4 DEF Computed
<1> QED
    BY <1>4

\* What the session computes has been created.
LEMMA ComputedCreated ==
    ASSUME Shape, Parted, InputsBefore, NEW R \in SUBSET Created
    PROVE  Computed(R) \subseteq Created
<1>1. doc.n \in 0..doc.n /\ doc.n \in Nat
    BY DEF Shape, IsDocument
<1>2. \A x \in Created : Operands[x] \subseteq Created
    BY GraphsCreated
<1>3. Within(doc, R, Operands) \in [0..doc.n -> SUBSET Created]
    BY <1>1, <1>2, WithinIs
<1> QED
    BY <1>1, <1>3 DEF Computed, Reach

\* A well-formed document has one data set.
LEMMA OneDataSet ==
    ASSUME Shape, Clean(doc)
    PROVE  \E s \in Items : \A x \in Items : doc.class[x] = "DataSet" <=> x = s
<1> DEFINE D == {x \in 1..doc.n : doc.class[x] = "DataSet"}
<1>1. doc.n \in Nat
    BY DEF Shape, IsDocument
<1>2. IsFiniteSet(1..doc.n)
    BY <1>1, FS_Interval
<1>3. IsFiniteSet(D)
    BY <1>2, FS_Subset
<1>4. Cardinality(D) = 1
    BY DEF Clean
<1> HIDE DEF D
<1>5. PICK s : D = {s}
    BY <1>3, <1>4, FS_Singleton
<1> QED
    BY <1>5 DEF D, Items

LEMMA CreatedItems == Shape => Created \subseteq Items /\ 0 \notin Created
<1>1. 0 \notin Items
    BY DEF Items
<1> QED
    BY <1>1 DEF Shape, Created

\* check_dependences does not raise for an item of a well-formed document.
LEMMA CleanChecks ==
    ASSUME Shape, Clean(doc), NEW x \in Items
    PROVE  ~Raises(x)
<1> SUFFICES ASSUME NEW k \in 1..Len(doc.refs[x]), Lacking(doc.refs[x][k]) PROVE FALSE
    BY DEF Raises
<1>1. doc.refs[x][k].obj \in Created
    BY DEF Lacking
<1>2. doc.refs[x][k].obj # 0
    BY <1>1, CreatedItems
<1>3. doc.refs[x][k].var \in Outputs(doc.class[doc.refs[x][k].obj])
    BY <1>2 DEF Clean, WellReferred, Items
<1> QED
    BY <1>3 DEF Lacking

\* What an input is set to is a component the document names there.
LEMMA SourcesNamed ==
    ASSUME Shape, NEW x \in Items
    PROVE  /\ Sources(x, SetInputs(x)) \subseteq Created \cap Referred(doc, x)
           /\ GradientSources(x, SetInputs(x)) \subseteq Created
<1>1. ASSUME NEW k \in SetInputs(x)
      PROVE  doc.refs[x][k].obj \in Created \cap Referred(doc, x)
    <2>1. k \in 1..Len(doc.refs[x]) /\ Named(doc.refs[x][k]) \in Created
        BY DEF SetInputs
    <2>2. Named(doc.refs[x][k]) # None /\ Created \subseteq 1..doc.n
        BY <2>1, CreatedItems DEF None, Items
    <2>3. doc.refs[x][k].obj = Named(doc.refs[x][k])
        BY <2>2 DEF Named
    <2> QED
        BY <2>1, <2>2, <2>3 DEF Referred
<1> QED
    BY <1>1 DEF Sources, GradientSources, Counting

LEMMA InputsReferred ==
    ASSUME Shape, Parted, InputsBefore, NEW x \in Created
    PROVE  Inputs(x) \subseteq Referred(doc, x)
<1> SUFFICES ASSUME NEW k \in Counting(x, bound[x]) PROVE doc.refs[x][k].obj \in Referred(doc, x)
    BY DEF Inputs, Sources
<1>1. PICK q \in 1..Len(created) : created[q] = x
    BY DEF Created
<1>2. k \in 1..Len(doc.refs[x])
    BY <1>1 DEF Counting, InputsBefore
<1>3. doc.refs[x][k].obj \in Inputs(x)
    BY DEF Inputs, Sources
<1>4. doc.refs[x][k].obj \in 1..doc.n
    BY <1>3, GraphsCreated DEF Items
<1> QED
    BY <1>2, <1>4 DEF Referred

\* An important plain input that is set once is followed, in an item that is
\* ready and in one that was created.
LEMMA FollowedReady ==
    ASSUME Shape, NEW x \in Items, Ready(x)
    PROVE  Follows(doc)[x] \subseteq GradientSources(x, SetInputs(x))
<1> SUFFICES ASSUME NEW k \in SurelyFollowed(doc, x)
             PROVE  doc.refs[x][k].obj \in GradientSources(x, SetInputs(x))
    BY DEF Follows, Items
<1>1. /\ k \in 1..Len(doc.refs[x]) /\ doc.refs[x][k].important /\ doc.refs[x][k].form = "plain"
      /\ doc.refs[x][k].name \in Differentiable(doc.class[x])
      /\ \A later \in (k + 1)..Len(doc.refs[x]) : doc.refs[x][later].name # doc.refs[x][k].name
    BY DEF SurelyFollowed
<1>2. k \in SetInputs(x)
    BY <1>1, ReadySets
<1>3. \A later \in SetInputs(x) : later > k => later \in (k + 1)..Len(doc.refs[x])
    BY <1>1 DEF SetInputs
<1>4. k \in Counting(x, SetInputs(x))
    BY <1>1, <1>2, <1>3 DEF Counting
<1> QED
    BY <1>1, <1>4 DEF GradientSources

LEMMA FollowedCreated ==
    ASSUME Shape, Parted, InputsBefore, DependencesFirst, NEW x \in Created
    PROVE  Follows(doc)[x] \subseteq Gradients[x] /\ Follows(doc)[x] \subseteq Created
<1>0. x \in Items
    BY CreatedItems
<1> SUFFICES ASSUME NEW k \in SurelyFollowed(doc, x)
             PROVE  doc.refs[x][k].obj \in GradientSources(x, bound[x]) \cap Created
    BY <1>0 DEF Follows, Items, Gradients
<1>1. /\ k \in 1..Len(doc.refs[x]) /\ doc.refs[x][k].important /\ doc.refs[x][k].form = "plain"
      /\ doc.refs[x][k].name \in Differentiable(doc.class[x])
      /\ \A later \in (k + 1)..Len(doc.refs[x]) : doc.refs[x][later].name # doc.refs[x][k].name
    BY DEF SurelyFollowed
<1>2. PICK q \in 1..Len(created) : created[q] = x
    BY DEF Created
<1>3. k \in bound[x] /\ \E j \in 1..(q - 1) : created[j] = doc.refs[x][k].obj
    BY <1>1, <1>2 DEF DependencesFirst
<1>4. doc.refs[x][k].obj \in Created
    <2>1. PICK j \in 1..(q - 1) : created[j] = doc.refs[x][k].obj
        BY <1>3
    <2>2. j \in 1..Len(created)
        BY <2>1 DEF Shape
    <2> QED
        BY <2>1, <2>2 DEF Created
<1>5. \A later \in bound[x] : later \in 1..Len(doc.refs[x])
    BY <1>2 DEF InputsBefore
<1>6. \A later \in bound[x] : later > k => later \in (k + 1)..Len(doc.refs[x])
    BY <1>1, <1>5
<1>7. k \in Counting(x, bound[x])
    BY <1>1, <1>3, <1>6 DEF Counting
<1> QED
    BY <1>1, <1>4, <1>7 DEF GradientSources

\* A ready optimizer of a well-formed document has something to train.
LEMMA CleanTrains ==
    ASSUME Shape, Parted, InputsBefore, DependencesFirst, Clean(doc), NEW x \in Items, Ready(x)
    PROVE  ~NothingToTrain(x)
<1> SUFFICES ASSUME doc.class[x] \in Optimizers
             PROVE  \E v \in Reach(doc, GradientSources(x, SetInputs(x)), Gradients) :
                       Trainable(doc, v)
    BY DEF NothingToTrain
<1>1. PICK v \in Reach(doc, Follows(doc)[x], Follows(doc)) : Trainable(doc, v)
    BY DEF Clean, Items
<1>2. doc.n \in Nat /\ \A y \in Created : Gradients[y] \subseteq Created
    BY GraphsCreated
<1>3. Follows(doc)[x] \subseteq GradientSources(x, SetInputs(x))
    BY FollowedReady
<1>4. GradientSources(x, SetInputs(x)) \in SUBSET Created
    BY SourcesNamed
<1>5. \A y \in Created : Follows(doc)[y] \subseteq Gradients[y] /\ Follows(doc)[y] \subseteq Created
    BY FollowedCreated
<1>6. Follows(doc)[x] \subseteq Created /\ Created \subseteq Created
    BY <1>3, <1>4
<1>7. Reach(doc, Follows(doc)[x], Follows(doc))
        \subseteq Reach(doc, GradientSources(x, SetInputs(x)), Gradients)
    BY <1>2, <1>3, <1>4, <1>5, <1>6, ReachMonotone, Zenon
<1> QED
    BY <1>1, <1>7

\* Behind an initial value there is neither a placeholder nor a variable.
LEMMA CleanInitials ==
    ASSUME Shape, Parted, InputsBefore, Clean(doc), NEW P \in SUBSET Created,
           P \subseteq InitialNeeds(doc)
    PROVE  \A x \in Computed(P) : doc.class[x] \notin {"DataSet", "Variable"}
<1>1. /\ doc.n \in Nat /\ Created \subseteq Items
      /\ \A x \in Created : Operands[x] \subseteq Created
    BY GraphsCreated
<1>2. InitialNeeds(doc) \in SUBSET Items
    BY DEF InitialNeeds, Referred, Items
<1>3. ASSUME NEW x \in Created PROVE Operands[x] \subseteq MayNeed(doc)[x]
    <2>1. x \in Items
        BY <1>1
    <2>2. Inputs(x) \subseteq Referred(doc, x)
        BY InputsReferred
    <2> QED
        BY <2>1, <2>2 DEF Operands, MayNeed, Items
<1>4. \A x \in Items : MayNeed(doc)[x] \subseteq Items
    BY DEF MayNeed, Referred, Items
<1>5. /\ P \subseteq Created
      /\ \A x \in Created : Operands[x] \subseteq MayNeed(doc)[x] /\ Operands[x] \subseteq Created
    BY <1>1, <1>3
<1>6. Reach(doc, P, Operands) \subseteq Reach(doc, InitialNeeds(doc), MayNeed(doc))
    BY <1>1, <1>2, <1>4, <1>5, ReachMonotone, Zenon
<1>7. \A x \in Reach(doc, InitialNeeds(doc), MayNeed(doc)) :
         doc.class[x] \notin {"DataSet", "Variable"}
    BY DEF Clean
<1> QED
    BY <1>6, <1>7 DEF Computed

\* TensorFlow does not refuse an item of it.
LEMMA CleanFits ==
    ASSUME Shape, Parted, InputsBefore, Clean(doc), NEW x \in Items
    PROVE  ~MayRefuse(x)
<1>1. doc.fits[x]
    BY DEF Clean, Items
<1>2. ASSUME doc.class[x] = "Variable" PROVE ~Unfed(Sources(x, SetInputs(x)), {})
    <2>1. Sources(x, SetInputs(x)) \in SUBSET Created
        BY SourcesNamed
    <2>2. Sources(x, SetInputs(x)) \subseteq InitialNeeds(doc)
        BY <1>2, SourcesNamed DEF InitialNeeds, Items
    <2>3. \A y \in Computed(Sources(x, SetInputs(x))) : doc.class[y] \notin {"DataSet", "Variable"}
        BY <2>1, <2>2, CleanInitials
    <2> QED
        BY <2>3 DEF Unfed
<1> QED
    BY <1>1, <1>2 DEF MayRefuse

\* The initializer runs.
LEMMA CleanInitializes ==
    ASSUME Shape, Parted, InputsBefore, Clean(doc)
    PROVE  ~InitializerRaises
<1>1. /\ InitialValues \in SUBSET Created /\ Created \subseteq Items
      /\ \A x \in Created : Inputs(x) \subseteq Referred(doc, x)
    BY GraphsCreated, InputsReferred
<1>2. InitialValues \subseteq InitialNeeds(doc)
    BY <1>1 DEF InitialValues, InitialNeeds, Items
<1>3. \A x \in Computed(InitialValues) : doc.class[x] \notin {"DataSet", "Variable"}
    BY <1>1, <1>2, CleanInitials
<1>4. \A x \in Computed(InitialValues) : doc.fits[x]
    BY <1>1, ComputedCreated DEF Clean, Items
<1> QED
    BY <1>3, <1>4 DEF InitializerRaises, Unfed, Misfit

\* Its item is created when it is ready.
LEMMA CleanCreates ==
    ASSUME Shape, Parted, InputsBefore, DependencesFirst, Clean(doc), NEW x \in Items, Ready(x)
    PROVE  Creatable(x)
<1>1. ~NoInstance(x)
    BY DEF NoInstance, Clean, Items
<1>2. WellReferred(doc, x) /\ x \in 1..doc.n
    BY DEF Clean, Items
<1>3. ~SetInputsRaises(x)
    <2>1. \A k \in 1..Len(doc.refs[x]) : doc.refs[x][k].form # "part"
        BY <1>2 DEF WellReferred
    <2>2. ASSUME NEW k \in SetInputs(x)
          PROVE  Passes(doc.refs[x][k]) /\ HasInput(doc.class[x], doc.refs[x][k].name)
        <3>1. k \in 1..Len(doc.refs[x]) /\ Named(doc.refs[x][k]) \in Created
            BY DEF SetInputs
        <3>2. Named(doc.refs[x][k]) # 0
            BY <3>1, CreatedItems
        <3>3. doc.refs[x][k].obj = Named(doc.refs[x][k])
            BY <3>2 DEF Named, None
        <3>4. /\ doc.refs[x][k].var \in Outputs(doc.class[doc.refs[x][k].obj])
              /\ doc.refs[x][k].name \in Loaded[doc.class[x]].inputs
            BY <1>2, <3>1, <3>2, <3>3 DEF WellReferred
        <3> QED
            BY <3>1, <3>3, <3>4 DEF Passes, HasInput
    <2> QED
        BY <2>1, <2>2 DEF SetInputsRaises
<1>4. ~ItemInitRaises(x)
    <2> DEFINE class == doc.class[x]
               set   == {doc.refs[x][k].name : k \in SetInputs(x)}
               has   == Parameters(class, doc.given[x], doc.nulls[x])
    <2>1. ~ReadRaises(doc.train, ValidationSize)
        BY DEF Clean
    <2>2. set \cap Loaded[class].tested = {}
        BY <1>2 DEF WellReferred, SetInputs
    <2>3. Provided(doc, x) \subseteq set \cup has
        <3> SUFFICES ASSUME NEW m \in 1..Len(doc.refs[x]), doc.refs[x][m].important,
                            doc.refs[x][m].form = "plain"
                     PROVE  doc.refs[x][m].name \in set
            BY DEF Provided
        <3>1. m \in SetInputs(x)
            BY ReadySets
        <3> QED
            BY <3>1
    <2>4. \A need \in Loaded[class].needs : need \cap Provided(doc, x) # {}
        BY <1>2 DEF Clean
    <2>5. \A need \in Loaded[class].needs : need \cap (set \cup has) # {}
        BY <2>3, <2>4, Zenon
    <2>6. ~InitRaises(class, set, doc.given[x], doc.nulls[x])
        BY <2>2, <2>5, Zenon DEF InitRaises
    <2> QED
        BY <2>1, <2>6, Zenon DEF ItemInitRaises
<1>5. ~NothingToTrain(x)
    BY CleanTrains
<1> QED
    BY <1>1, <1>3, <1>4, <1>5 DEF Creatable

\* When every item has been created, its runs have their data.
LEMMA CleanRuns ==
    ASSUME Shape, Parted, InputsBefore, DatasetKnown, Clean(doc), json_items = <<>>, NEW t
    PROVE  CanRun(t) /\ ~Misfit(ComponentsToRun(t))
<1>1. Created = Items
    <2>1. Created \subseteq Items
        BY DEF Created, Shape
    <2>2. Left = {}
        BY DEF Left
    <2> QED
        BY <2>1, <2>2 DEF Parted
<1>2. PICK s \in Items : \A x \in Items : doc.class[x] = "DataSet" <=> x = s
    BY OneDataSet
<1>3. dataset = s
    BY <1>1, <1>2 DEF DatasetKnown
<1>4. s # None
    BY DEF Items, None
<1>5. ComponentsToRun(t) \in SUBSET Created
    BY DEF ComponentsToRun, OfType
<1>6. Computed(ComponentsToRun(t)) \subseteq Items
    BY <1>1, <1>5, ComputedCreated
<1> QED
    BY <1>2, <1>3, <1>4, <1>6 DEF CanRun, Unfed, Misfit, Clean, Items

\* Every step keeps a well-formed document from raising.
LEMMA CleanStep ==
    ASSUME Shape, IndexInRange, Parted, InputsBefore, DatasetKnown, DependencesFirst,
           CleanNeverRaises, [Next]_vars
    PROVE  CleanNeverRaises'
<1> SUFFICES ASSUME Clean(doc)', phase' = "raised" PROVE FALSE
    BY DEF CleanNeverRaises
<1>1. doc' = doc
    BY OtherSteps DEF Create
<1>2. Clean(doc)
    BY <1>1
<1>3. phase # "raised"
    BY <1>2 DEF CleanNeverRaises
<1>4. CheckRaises \/ CreateRaises \/ InitializerRaises \/ RunRaises
    BY <1>3
    DEF Next, vars, Postpone, Create, Turn, AllCreated, Initialize, RunTrain, RunTest, Run
<1>5. CASE CheckRaises
    BY <1>2, <1>5, TurnItem, CleanChecks DEF CheckRaises
<1>6. CASE CreateRaises
    BY <1>2, <1>6, TurnItem, CleanCreates, CleanFits DEF CreateRaises
<1>7. CASE RunRaises
    <2>1. phase \in {"train", "test"}
        BY <1>7 DEF RunRaises
    <2>2. json_items = <<>>
        BY <2>1 DEF Parted
    <2>3. CanRun(phase) /\ ~Misfit(ComponentsToRun(phase))
        BY <1>2, <2>2, CleanRuns
    <2> QED
        BY <1>7, <2>3 DEF RunRaises
<1>8. CASE InitializerRaises
    BY <1>2, <1>8, CleanInitializes
<1> QED
    BY <1>4, <1>5, <1>6, <1>7, <1>8

LEMMA GraphInvInit == Init => GraphInv
<1> SUFFICES ASSUME Init PROVE GraphInv
    OBVIOUS
<1>1. Shape /\ IndexInRange
    BY InitShape
<1>2. /\ json_items = [k \in 1..doc.n |-> k] /\ created = <<>> /\ doc.n \in Nat
      /\ dataset = None /\ phase = "create" /\ ran = [t \in {"train", "test"} |-> {}]
    BY <1>1 DEF Init, Shape, IsDocument
<1>3. Len(json_items) = doc.n /\ Len(created) = 0 /\ Created = {}
    BY <1>2 DEF Created
<1>4. Parted
    BY <1>2, <1>3 DEF Parted, Left, Items
<1>5. /\ InputsBefore /\ DatasetKnown /\ RanRoots /\ RanType /\ DependencesFirst
      /\ CleanNeverRaises
    BY <1>2, <1>3 DEF InputsBefore, DependencesFirst, DatasetKnown, RanRoots, RanType,
           CleanNeverRaises
<1> QED
    BY <1>1, <1>4, <1>5 DEF GraphInv

\* The builder's invariant, for any documents.
THEOREM GraphInvCorrect == TSpec => []GraphInv
<1>1. Init => GraphInv
    BY GraphInvInit
<1>2. GraphInv /\ [Next]_vars => GraphInv'
    <2> SUFFICES ASSUME GraphInv, [Next]_vars PROVE GraphInv'
        OBVIOUS
    <2>1. /\ Shape /\ IndexInRange /\ Parted /\ InputsBefore /\ DatasetKnown /\ RanRoots /\ RanType
          /\ DependencesFirst /\ CleanNeverRaises
        BY DEF GraphInv
    <2>2. Shape' /\ IndexInRange'
        BY <2>1, ShapeStep
    <2>3. Parted' /\ InputsBefore' /\ DatasetKnown' /\ RanRoots' /\ RanType'
        BY <2>1, PartedStep, InputsStep, DatasetStep, RanStep
    <2>4. DependencesFirst' /\ CleanNeverRaises'
        BY <2>1, OrderStep, CleanStep
    <2> QED
        BY <2>2, <2>3, <2>4 DEF GraphInv
<1> QED
    BY <1>1, <1>2, TrainingImplementsBuilder, PTL

\* No exception stops the building and the running of a well-formed document,
\* whatever its size, the order of its items and its optional inputs.
THEOREM CleanRunsThrough == TSpec => []CleanNeverRaises
<1>1. GraphInv => CleanNeverRaises
    BY DEF GraphInv
<1> QED
    BY <1>1, GraphInvCorrect, PTL

\* A training step computes every "train" component whose references to one another
\* are set: what run_train leaves to the session is found by it.
THEOREM TrainingIsComplete == TSpec => []TrainingComplete
<1>1. GraphInv => TrainingComplete
    BY AllComputed DEF GraphInv, TrainingComplete, RanRoots
<1> QED
    BY <1>1, GraphInvCorrect, PTL

(***************************************************************************)
(* Numbers: quotients, and the examples of all batches counted from 0.     *)
(***************************************************************************)

LEMMA DivIs ==
    ASSUME NEW n \in Nat \ {0}, NEW s \in Nat, NEW e \in Nat, e * n <= s, s < e * n + n
    PROVE  s \div n = e
OBVIOUS

LEMMA DivLess ==
    ASSUME NEW n \in Nat \ {0}, NEW s \in Nat, NEW e \in Nat, s < e * n
    PROVE  s \div n < e
OBVIOUS

LEMMA Times ==
    ASSUME NEW n \in Nat, NEW s \in Nat
    PROVE  s * n \in Nat /\ (s + 1) * n = s * n + n
OBVIOUS

LEMMA TimesMonotone ==
    ASSUME NEW n \in Nat, NEW s \in Nat, NEW t \in Nat, t < s
    PROVE  t * n + n <= s * n
OBVIOUS

\* The number of the k-th example of the m-th batch of B.
Place(m, k, B) == (m - 1) * B + (k - 1)

LEMMA PlaceIs ==
    ASSUME NEW B \in Nat \ {0}, NEW m \in Nat \ {0}, NEW k \in 1..B, NEW T \in Nat, m <= T
    PROVE  Place(m, k, B) \in Nat /\ Place(m, k, B) < T * B
<1>1. m - 1 \in Nat /\ m - 1 < T
    OBVIOUS
<1>2. (m - 1) * B \in Nat /\ T * B \in Nat /\ (m - 1) * B + B <= T * B
    BY <1>1, Times, TimesMonotone
<1> QED
    BY <1>2 DEF Place

LEMMA PlaceOnce ==
    ASSUME NEW B \in Nat \ {0}, NEW m1 \in Nat \ {0}, NEW m2 \in Nat \ {0},
           NEW k1 \in 1..B, NEW k2 \in 1..B, Place(m1, k1, B) = Place(m2, k2, B)
    PROVE  m1 = m2 /\ k1 = k2
<1>1. m1 - 1 \in Nat /\ m2 - 1 \in Nat
    OBVIOUS
<1>2. (m1 - 1) * B \in Nat /\ (m2 - 1) * B \in Nat
    BY <1>1, Times
<1>3. ~(m1 < m2)
    <2> SUFFICES ASSUME m1 < m2 PROVE FALSE
        OBVIOUS
    <2>1. (m1 - 1) * B + B <= (m2 - 1) * B
        BY <1>1, TimesMonotone
    <2> QED
        BY <1>2, <2>1 DEF Place
<1>4. ~(m2 < m1)
    <2> SUFFICES ASSUME m2 < m1 PROVE FALSE
        OBVIOUS
    <2>1. (m2 - 1) * B + B <= (m1 - 1) * B
        BY <1>1, TimesMonotone
    <2> QED
        BY <1>2, <2>1 DEF Place
<1>5. m1 = m2
    BY <1>3, <1>4
<1> QED
    BY <1>2, <1>5 DEF Place

(***************************************************************************)
(* next_batch.                                                             *)
(***************************************************************************)

\* No element comes twice.
Once(s) == \A a, b \in 1..Len(s) : s[a] = s[b] => a = b

DataSetsOf(S) ==
    [images : Seq(S), labels : Seq(S), index_in_epoch : Nat, epochs_completed : Nat]

\* A data set whose images go with their labels.
Paired(ds, S) == ds \in DataSetsOf(S) /\ ds.labels = ds.images

LEMMA SliceIs ==
    ASSUME NEW S, NEW s \in Seq(S), NEW from \in Nat, NEW to \in Nat
    PROVE  /\ Slice(s, from, to) \in Seq(S)
           /\ to <= Len(s) /\ from <= to => Len(Slice(s, from, to)) = to - from
           /\ \A k \in 1..Len(Slice(s, from, to)) : Slice(s, from, to)[k] = s[from + k]
<1> DEFINE end == IF to < Len(s) THEN to ELSE Len(s)
           a   == from + 1
<1>1. end \in Nat /\ a \in Nat \ {0} /\ end <= Len(s) /\ Len(s) \in Nat
    OBVIOUS
<1>2. Slice(s, from, to) = SubSeq(s, a, end)
    BY DEF Slice
<1>3. to <= Len(s) => end = to
    BY <1>1
<1> HIDE DEF end
<1>4. CASE a <= end
    <2>1. SubSeq(s, a, end) \in Seq(S) /\ Len(SubSeq(s, a, end)) = end - a + 1
        BY <1>1, <1>4
    <2>2. \A k \in 1..(end - a + 1) : SubSeq(s, a, end)[k] = s[a + k - 1]
        BY <1>1, <1>4
    <2>3. \A k \in 1..(end - a + 1) : a + k - 1 = from + k
        BY <1>1, <1>4
    <2> QED
        BY <1>1, <1>2, <1>3, <2>1, <2>2, <2>3
<1>5. CASE ~(a <= end)
    <2>1. SubSeq(s, a, end) = <<>>
        BY <1>1, <1>5
    <2> QED
        BY <1>1, <1>2, <1>3, <1>5, <2>1
<1> QED
    BY <1>4, <1>5

\* An order that next_batch may put its examples into.
LEMMA OrdersAre ==
    ASSUME NEW S, NEW ds \in DataSetsOf(S), NEW shuffles \in BOOLEAN, NEW perm \in Orders(ds, shuffles)
    PROVE  /\ perm \in [1..Len(ds.images) -> 1..Len(ds.images)]
           /\ \A a, b \in 1..Len(ds.images) : perm[a] = perm[b] => a = b
<1>1. CASE shuffles
    BY <1>1 DEF Orders, NumExamples, Bijection, Injection, IsInjective
<1>2. CASE ~shuffles
    BY <1>2 DEF Orders, NumExamples
<1> QED
    BY <1>1, <1>2

\* A shuffle keeps the pairs, and each example once.
LEMMA ShuffledIs ==
    ASSUME NEW S, NEW ds, Paired(ds, S), NEW perm \in [1..Len(ds.images) -> 1..Len(ds.images)],
           \A a, b \in 1..Len(ds.images) : perm[a] = perm[b] => a = b
    PROVE  /\ Paired(Shuffled(ds, perm), S)
           /\ Len(Shuffled(ds, perm).images) = Len(ds.images)
           /\ Shuffled(ds, perm).index_in_epoch = ds.index_in_epoch
           /\ Shuffled(ds, perm).epochs_completed = ds.epochs_completed
           /\ Once(ds.images) => Once(Shuffled(ds, perm).images)
<1> DEFINE n == Len(ds.images)
           p == Permuted(ds.images, perm)
<1>1. ds.images \in Seq(S) /\ n \in Nat /\ ds.labels = ds.images
    BY DEF Paired, DataSetsOf
<1>2. p = [k \in 1..n |-> ds.images[perm[k]]]
    BY DEF Permuted
<1>a. \A k \in 1..n : perm[k] \in 1..n /\ ds.images[perm[k]] \in S
    BY <1>1
<1>b. p \in [1..n -> S]
    BY <1>2, <1>a
<1>3. p \in Seq(S) /\ Len(p) = n /\ \A k \in 1..n : p[k] = ds.images[perm[k]]
    <2>1. \A k \in 1..n : p[k] = ds.images[perm[k]]
        BY <1>2
    <2> HIDE DEF p, n
    <2> QED
        BY <1>1, <1>b, <2>1
<1>4. Shuffled(ds, perm) = [ds EXCEPT !.images = p, !.labels = p]
    BY <1>1 DEF Shuffled
<1> HIDE DEF p
<1>5. Once(ds.images) => Once(p)
    <2> SUFFICES ASSUME Once(ds.images), NEW a \in 1..n, NEW b \in 1..n, p[a] = p[b] PROVE a = b
        BY <1>3 DEF Once
    <2>1. ds.images[perm[a]] = ds.images[perm[b]] /\ perm[a] \in 1..n /\ perm[b] \in 1..n
        BY <1>3, <1>a
    <2> QED
        BY <2>1 DEF Once
<1> QED
    BY <1>1, <1>3, <1>4, <1>5 DEF Paired, DataSetsOf

\* What next_batch returns, of a data set that was put into the order `served`.
Serves(ds, B, S, r, served) ==
    /\ Paired(served, S) /\ Len(served.images) = Len(ds.images)
    /\ ~FirstBatch(ds) => served = ds
    /\ Paired(r.ds, S) /\ Len(r.ds.images) = Len(ds.images)
    /\ r.images \in Seq(S) /\ r.labels = r.images
    /\ Once(ds.images) => Once(served.images) /\ Once(r.ds.images)
    /\ IF EndsEpoch(ds, B)
       THEN LET end == B - (Len(ds.images) - ds.index_in_epoch)
            IN  /\ r.ds.index_in_epoch = end
                /\ r.ds.epochs_completed = ds.epochs_completed + 1
                /\ r.images = Slice(served.images, ds.index_in_epoch, Len(ds.images))
                              \o Slice(r.ds.images, 0, end)
       ELSE /\ r.ds.index_in_epoch = ds.index_in_epoch + B
            /\ r.ds.epochs_completed = ds.epochs_completed
            /\ r.ds.images = served.images
            /\ r.images = Slice(served.images, ds.index_in_epoch, ds.index_in_epoch + B)

LEMMA NextBatchServes ==
    ASSUME NEW S, NEW ds, Paired(ds, S), NEW B \in Nat \ {0},
           NEW perm0 \in Orders(ds, FirstBatch(ds)), NEW perm \in Orders(ds, EndsEpoch(ds, B))
    PROVE  \E served : Serves(ds, B, S, NextBatch(ds, B, perm0, perm), served)
<1> DEFINE n      == Len(ds.images)
           start  == ds.index_in_epoch
           served == IF FirstBatch(ds) THEN Shuffled(ds, perm0) ELSE ds
           next   == Shuffled(served, perm)
           end    == B - (n - start)
           r      == NextBatch(ds, B, perm0, perm)
<1>1. ds \in DataSetsOf(S) /\ n \in Nat /\ start \in Nat /\ ds.epochs_completed \in Nat
    BY DEF Paired, DataSetsOf
<1>2. FirstBatch(ds) \in BOOLEAN /\ EndsEpoch(ds, B) \in BOOLEAN
    BY DEF FirstBatch, EndsEpoch
<1>3. /\ perm0 \in [1..n -> 1..n] /\ \A a, b \in 1..n : perm0[a] = perm0[b] => a = b
      /\ perm \in [1..n -> 1..n] /\ \A a, b \in 1..n : perm[a] = perm[b] => a = b
    BY <1>1, <1>2, OrdersAre
<1>4. /\ Paired(served, S) /\ Len(served.images) = n
      /\ served.index_in_epoch = start /\ served.epochs_completed = ds.epochs_completed
      /\ Once(ds.images) => Once(served.images)
      /\ ~FirstBatch(ds) => served = ds
    <2>1. CASE FirstBatch(ds)
        BY <1>3, <2>1, ShuffledIs
    <2>2. CASE ~FirstBatch(ds)
        BY <2>2
    <2> QED
        BY <2>1, <2>2
<1> HIDE DEF served
<1>5. /\ Paired(next, S) /\ Len(next.images) = n
      /\ next.epochs_completed = ds.epochs_completed
      /\ Once(ds.images) => Once(next.images)
    BY <1>3, <1>4, ShuffledIs
<1> HIDE DEF next
<1>6. /\ served.images \in Seq(S) /\ served.labels = served.images
      /\ next.images \in Seq(S) /\ next.labels = next.images
      /\ served \in DataSetsOf(S) /\ next \in DataSetsOf(S)
    BY <1>4, <1>5 DEF Paired, DataSetsOf
<1>7. CASE EndsEpoch(ds, B)
    <2>1. r = [ds     |-> [next EXCEPT !.index_in_epoch = end, !.epochs_completed = @ + 1],
               images |-> Slice(served.images, start, n) \o Slice(next.images, 0, end),
               labels |-> Slice(served.labels, start, n) \o Slice(next.labels, 0, end)]
        BY <1>7, Zenon DEF NextBatch, NumExamples, next, served
    <2>2. end \in Nat
        BY <1>1, <1>7 DEF EndsEpoch, NumExamples
    <2>3. /\ Slice(served.images, start, n) \in Seq(S)
          /\ Slice(next.images, 0, end) \in Seq(S)
        BY <1>1, <1>6, <2>2, SliceIs
    <2>4. Slice(served.images, start, n) \o Slice(next.images, 0, end) \in Seq(S)
        BY <2>3, ConcatProperties
    <2>5. /\ r.ds = [next EXCEPT !.index_in_epoch = end, !.epochs_completed = @ + 1]
          /\ r.images = Slice(served.images, start, n) \o Slice(next.images, 0, end)
          /\ r.labels = r.images
        BY <1>6, <2>1
    <2> HIDE DEF r, end
    <2>6. /\ r.ds \in DataSetsOf(S) /\ r.ds.images = next.images /\ r.ds.labels = next.images
          /\ r.ds.index_in_epoch = end
          /\ r.ds.epochs_completed = ds.epochs_completed + 1
        <3>1. r.ds = [next EXCEPT !.index_in_epoch = end,
                                  !.epochs_completed = ds.epochs_completed + 1]
            BY <1>5, <2>5
        <3>2. ds.epochs_completed + 1 \in Nat
            BY <1>1
        <3> QED
            BY <1>6, <2>2, <3>1, <3>2 DEF DataSetsOf
    <2>7. Serves(ds, B, S, r, served)
        BY <1>4, <1>5, <1>7, <2>4, <2>5, <2>6 DEF Serves, Paired, end
    <2> QED
        BY <2>7, Zenon DEF r
<1>8. CASE ~EndsEpoch(ds, B)
    <2>1. r = [ds     |-> [served EXCEPT !.index_in_epoch = start + B],
               images |-> Slice(served.images, start, start + B),
               labels |-> Slice(served.labels, start, start + B)]
        BY <1>8, Zenon DEF NextBatch, served
    <2>2. start + B \in Nat
        BY <1>1
    <2>3. Slice(served.images, start, start + B) \in Seq(S)
        BY <1>1, <1>6, <2>2, SliceIs
    <2>4. /\ r.ds = [served EXCEPT !.index_in_epoch = start + B]
          /\ r.images = Slice(served.images, start, start + B)
          /\ r.labels = r.images
        BY <1>6, <2>1
    <2> HIDE DEF r
    <2>5. /\ r.ds \in DataSetsOf(S) /\ r.ds.images = served.images /\ r.ds.labels = served.images
          /\ r.ds.index_in_epoch = start + B
          /\ r.ds.epochs_completed = ds.epochs_completed
        BY <1>4, <1>6, <2>2, <2>4 DEF DataSetsOf
    <2>6. Serves(ds, B, S, r, served)
        BY <1>4, <1>8, <2>3, <2>4, <2>5 DEF Serves, Paired
    <2> QED
        BY <2>6, Zenon DEF r
<1> QED
    BY <1>7, <1>8

\* A batch that is no larger than the data set is full, and made of what is left of
\* this epoch and, past its end, of the next one.
LEMMA FullBatch ==
    ASSUME NEW S, NEW ds, Paired(ds, S), NEW B \in Nat \ {0}, NEW r, NEW served,
           Serves(ds, B, S, r, served),
           B <= Len(ds.images), ds.index_in_epoch <= Len(ds.images)
    PROVE  /\ Len(r.images) = B
           /\ \A k \in 1..B :
                 r.images[k] = IF ds.index_in_epoch + k <= Len(ds.images)
                               THEN served.images[ds.index_in_epoch + k]
                               ELSE r.ds.images[ds.index_in_epoch + k - Len(ds.images)]
<1> DEFINE n   == Len(ds.images)
           x   == ds.index_in_epoch
           end == B - (n - x)
           a   == served.images
           b   == r.ds.images
<1>1. n \in Nat /\ x \in Nat /\ x <= n /\ B <= n
    BY DEF Paired, DataSetsOf
<1>2. a \in Seq(S) /\ b \in Seq(S) /\ Len(a) = n /\ Len(b) = n
    BY DEF Serves, Paired, DataSetsOf
<1> HIDE DEF a, b, n, x
<1>3. CASE EndsEpoch(ds, B)
    <2>1. x + B > n
        BY <1>3 DEF EndsEpoch, NumExamples, n, x
    <2>2. end \in Nat /\ end <= n
        BY <1>1, <2>1
    <2> DEFINE c == Slice(a, x, n)
               d == Slice(b, 0, end)
    <2>3. r.images = c \o d
        BY <1>3 DEF Serves, a, b, n, x
    <2> HIDE DEF end
    <2>4. c \in Seq(S) /\ Len(c) = n - x /\ \A k \in 1..Len(c) : c[k] = a[x + k]
        <3>1. /\ Slice(a, x, n) \in Seq(S)
              /\ n <= Len(a) /\ x <= n => Len(Slice(a, x, n)) = n - x
              /\ \A k \in 1..Len(Slice(a, x, n)) : Slice(a, x, n)[k] = a[x + k]
            BY <1>1, <1>2, SliceIs, ZenonT(30)
        <3>2. n <= Len(a) /\ x <= n
            BY <1>1, <1>2
        <3> QED
            BY <3>1, <3>2, Zenon
    <2>5. d \in Seq(S) /\ Len(d) = end - 0 /\ \A k \in 1..Len(d) : d[k] = b[0 + k]
        <3>1. end <= Len(b) /\ 0 <= end /\ 0 \in Nat
            BY <1>2, <2>2
        <3>2. /\ Slice(b, 0, end) \in Seq(S)
              /\ end <= Len(b) /\ 0 <= end => Len(Slice(b, 0, end)) = end - 0
              /\ \A k \in 1..Len(Slice(b, 0, end)) : Slice(b, 0, end)[k] = b[0 + k]
            BY <1>2, <2>2, <3>1, SliceIs
        <3> QED
            BY <3>1, <3>2, Zenon
    <2> USE DEF end
    <2> HIDE DEF c, d
    <2>6. Len(c \o d) = B
        <3>1. Len(c \o d) = Len(c) + Len(d)
            BY <2>4, <2>5, ConcatProperties
        <3> QED
            BY <1>1, <2>4, <2>5, <3>1
    <2>7. ASSUME NEW k \in 1..B
          PROVE  (c \o d)[k] = IF x + k <= n THEN a[x + k] ELSE b[x + k - n]
        <3>1. CASE x + k <= n
            <4>1. k \in 1..Len(c)
                BY <1>1, <2>4, <3>1
            <4>2. (c \o d)[k] = c[k]
                BY <2>4, <2>5, <4>1
            <4> QED
                BY <2>4, <3>1, <4>1, <4>2
        <3>2. CASE ~(x + k <= n)
            <4>1. k - Len(c) \in 1..Len(d) /\ k = Len(c) + (k - Len(c)) /\ 0 + (k - Len(c)) = x + k - n
                BY <1>1, <2>4, <2>5, <3>2
            <4>2. (c \o d)[k] = d[k - Len(c)]
                BY <2>4, <2>5, <4>1
            <4>3. d[k - Len(c)] = b[0 + (k - Len(c))]
                BY <2>5, <4>1
            <4> QED
                BY <3>2, <4>1, <4>2, <4>3
        <3> QED
            BY <3>1, <3>2
    <2> QED
        BY <2>3, <2>6, <2>7 DEF a, b, n, x
<1>4. CASE ~EndsEpoch(ds, B)
    <2>1. x + B <= n /\ x + B \in Nat
        BY <1>1, <1>4 DEF EndsEpoch, NumExamples, n, x
    <2> DEFINE y == x + B
               c == Slice(a, x, y)
    <2>2. r.images = c
        BY <1>4 DEF Serves, a, x
    <2>3. y \in Nat /\ y <= Len(a) /\ x <= y /\ y - x = B
        BY <1>1, <1>2, <2>1
    <2> HIDE DEF y
    <2>5. Len(c) = y - x /\ \A k \in 1..Len(c) : c[k] = a[x + k]
        <3>1. a \in Seq(S) /\ x \in Nat /\ y \in Nat
            BY <1>1, <1>2, <2>3
        <3>2. y <= Len(a) /\ x <= y => Len(Slice(a, x, y)) = y - x
            BY <3>1, SliceIs
        <3>3. \A k \in 1..Len(Slice(a, x, y)) : Slice(a, x, y)[k] = a[x + k]
            BY <3>1, SliceIs
        <3> QED
            BY <2>3, <3>2, <3>3
    <2> HIDE DEF c
    <2>4. Len(c) = B /\ \A k \in 1..B : x + k <= n /\ c[k] = a[x + k]
        BY <1>1, <2>1, <2>3, <2>5
    <2> QED
        BY <2>2, <2>4 DEF a, n, x
<1> QED
    BY <1>3, <1>4

(***************************************************************************)
(* Epochs, over the batches f[1], ..., f[T] of B examples from a data set  *)
(* of n.                                                                   *)
(***************************************************************************)

\* No epoch has an example twice.
Distinct(f, T, n, B) ==
    \A m1, m2 \in 1..T, k1, k2 \in 1..B :
       (m1 # m2 \/ k1 # k2) /\ Place(m1, k1, B) \div n = Place(m2, k2, B) \div n =>
          f[m1].images[k1] # f[m2].images[k2]

\* What was served since epoch e began is what the data set s begins with.
Current(f, T, n, B, e, s) ==
    \A m \in 1..T, k \in 1..B :
       e * n <= Place(m, k, B) => f[m].images[k] = s[Place(m, k, B) - e * n + 1]

\* A batch g[T + 1] after those of f, from the order a of this epoch and, past its end,
\* from the order b of the next one; cur is the order this epoch had.
AfterBatch(n, B, T, e, x, f, g, a, b, cur) ==
    /\ Distinct(g, T + 1, n, B)
    /\ x + B <= n => /\ Current(g, T + 1, n, B, e, a)
                     /\ (T + 1) * B = e * n + (x + B)
    /\ x + B > n  => /\ Current(g, T + 1, n, B, e + 1, b)
                     /\ (T + 1) * B = (e + 1) * n + (B - (n - x))

LEMMA EpochStep ==
    ASSUME NEW n \in Nat \ {0}, NEW B \in 1..n, NEW T \in Nat, NEW e \in Nat, NEW x \in 0..n,
           T * B = e * n + x,
           NEW f, NEW g, \A m \in 1..T : g[m] = f[m],
           NEW a, Len(a) = n, Once(a), NEW b, Len(b) = n, Once(b),
           NEW cur, T # 0 => a = cur,
           Distinct(f, T, n, B), Current(f, T, n, B, e, cur),
           \A k \in 1..B : g[T + 1].images[k] = IF x + k <= n THEN a[x + k] ELSE b[x + k - n]
    PROVE  AfterBatch(n, B, T, e, x, f, g, a, b, cur)
<1> SUFFICES /\ Distinct(g, T + 1, n, B)
             /\ x + B <= n => /\ Current(g, T + 1, n, B, e, a)
                              /\ (T + 1) * B = e * n + (x + B)
             /\ x + B > n  => /\ Current(g, T + 1, n, B, e + 1, b)
                              /\ (T + 1) * B = (e + 1) * n + (B - (n - x))
    BY Zenon DEF AfterBatch
<1> DEFINE E == e * n
           P(m, k) == Place(m, k, B)
<1>1. /\ E \in Nat /\ T * B \in Nat /\ (T + 1) * B = E + x + B
      /\ (e + 1) * n = E + n /\ B \in Nat \ {0}
    BY Times
<1>a. T * B = E + x /\ T + 1 \in Nat /\ e + 1 \in Nat
    OBVIOUS
<1> HIDE DEF E
<1>2. ASSUME NEW m \in 1..(T + 1), NEW k \in 1..B
      PROVE  /\ P(m, k) \in Nat /\ P(m, k) < E + x + B
             /\ m = T + 1 => P(m, k) = E + x + (k - 1)
             /\ m # T + 1 => m \in 1..T /\ P(m, k) < E + x
    <2>0. m \in Nat \ {0} /\ m <= T + 1 /\ (m # T + 1 => m <= T /\ m \in 1..T)
        OBVIOUS
    <2>1. P(m, k) \in Nat /\ P(m, k) < (T + 1) * B
        BY <1>1, <1>a, <2>0, PlaceIs
    <2>2. m # T + 1 => m \in 1..T /\ P(m, k) < T * B
        BY <1>1, <2>0, PlaceIs
    <2>3. m = T + 1 => P(m, k) = T * B + (k - 1)
        BY <1>1, SMTT(30) DEF Place
    <2> QED
        BY <1>1, <1>a, <2>1, <2>2, <2>3
<1>3. ASSUME NEW m \in 1..(T + 1), NEW k \in 1..B, E <= P(m, k)
      PROVE  /\ P(m, k) < E + n  => g[m].images[k] = a[P(m, k) - E + 1]
             /\ P(m, k) >= E + n => g[m].images[k] = b[P(m, k) - E - n + 1]
    <2>1. CASE m = T + 1
        <3>1. P(m, k) = E + x + (k - 1)
            BY <1>2, <2>1
        <3>2. P(m, k) - E + 1 = x + k /\ P(m, k) - E - n + 1 = x + k - n
            BY <1>1, <3>1
        <3>3. (P(m, k) < E + n <=> x + k <= n) /\ (P(m, k) >= E + n <=> ~(x + k <= n))
            BY <1>1, <3>1
        <3> HIDE DEF P
        <3> QED
            BY <2>1, <3>2, <3>3
    <2>2. CASE m # T + 1
        <3>1. m \in 1..T /\ P(m, k) < E + x /\ P(m, k) \in Nat
            BY <1>2, <2>2
        <3>2. T # 0
            BY <3>1
        <3>3. f[m].images[k] = cur[P(m, k) - E + 1]
            BY <1>3, <3>1 DEF Current, E
        <3>4. ~(P(m, k) >= E + n)
            BY <1>1, <3>1
        <3> HIDE DEF P
        <3> QED
            BY <3>1, <3>2, <3>3, <3>4
    <2> QED
        BY <2>1, <2>2
<1>4. Distinct(g, T + 1, n, B)
    <2> SUFFICES ASSUME NEW m1 \in 1..(T + 1), NEW m2 \in 1..(T + 1), NEW k1 \in 1..B, NEW k2 \in 1..B,
                        (m1 # m2 \/ k1 # k2),
                        Place(m1, k1, B) \div n = Place(m2, k2, B) \div n
                 PROVE  g[m1].images[k1] # g[m2].images[k2]
        BY SMTT(30) DEF Distinct
    <2> DEFINE p1 == P(m1, k1)
               p2 == P(m2, k2)
    <2>1. p1 # p2
        <3>1. m1 \in Nat \ {0} /\ m2 \in Nat \ {0}
            OBVIOUS
        <3> QED
            BY <1>1, <3>1, PlaceOnce
    <2>2. /\ p1 \in Nat /\ p1 < E + x + B
          /\ m1 = T + 1 => E <= p1
          /\ m1 # T + 1 => m1 \in 1..T
        <3>1. /\ p1 \in Nat /\ p1 < E + x + B
              /\ m1 = T + 1 => p1 = E + x + (k1 - 1)
              /\ m1 # T + 1 => m1 \in 1..T
            BY <1>2
        <3> HIDE DEF p1
        <3> QED
            BY <1>1, <3>1
    <2>3. /\ p2 \in Nat /\ p2 < E + x + B
          /\ m2 = T + 1 => E <= p2
          /\ m2 # T + 1 => m2 \in 1..T
        <3>1. /\ p2 \in Nat /\ p2 < E + x + B
              /\ m2 = T + 1 => p2 = E + x + (k2 - 1)
              /\ m2 # T + 1 => m2 \in 1..T
            BY <1>2
        <3> HIDE DEF p2
        <3> QED
            BY <1>1, <3>1
    <2>4. /\ p1 < E => p1 \div n < e
          /\ E <= p1 /\ p1 < E + n => p1 \div n = e
          /\ E + n <= p1 => p1 \div n = e + 1
        <3>1. p1 < E => p1 \div n < e
            BY <2>2, DivLess DEF E
        <3>2. E <= p1 /\ p1 < E + n => p1 \div n = e
            BY <2>2, DivIs DEF E
        <3>3. E + n <= p1 => (e + 1) * n <= p1 /\ p1 < (e + 1) * n + n
            <4> DEFINE F == (e + 1) * n
            <4>1. F = E + n /\ E \in Nat /\ n \in Nat /\ x <= n /\ x \in Nat /\ B \in Nat /\ B <= n
                BY <1>1
            <4> HIDE DEF F, E, p1
            <4>2. E + n <= p1 => F <= p1 /\ p1 < F + n
                BY <2>2, <4>1
            <4> QED
                BY <4>2 DEF F
        <3>4. E + n <= p1 => p1 \div n = e + 1
            <4> HIDE DEF p1
            <4> QED
                BY <1>a, <2>2, <3>3, DivIs
        <3> QED
            BY <3>1, <3>2, <3>4
    <2>5. /\ p2 < E => p2 \div n < e
          /\ E <= p2 /\ p2 < E + n => p2 \div n = e
          /\ E + n <= p2 => p2 \div n = e + 1
        <3>1. p2 < E => p2 \div n < e
            BY <2>3, DivLess DEF E
        <3>2. E <= p2 /\ p2 < E + n => p2 \div n = e
            BY <2>3, DivIs DEF E
        <3>3. E + n <= p2 => (e + 1) * n <= p2 /\ p2 < (e + 1) * n + n
            <4> DEFINE F == (e + 1) * n
            <4>1. F = E + n /\ E \in Nat /\ n \in Nat /\ x <= n /\ x \in Nat /\ B \in Nat /\ B <= n
                BY <1>1
            <4> HIDE DEF F, E, p2
            <4>2. E + n <= p2 => F <= p2 /\ p2 < F + n
                BY <2>3, <4>1
            <4> QED
                BY <4>2 DEF F
        <3>4. E + n <= p2 => p2 \div n = e + 1
            <4> HIDE DEF p2
            <4> QED
                BY <1>a, <2>3, <3>3, DivIs
        <3> QED
            BY <3>1, <3>2, <3>4
    <2>6. \/ p1 < E /\ p2 < E
          \/ E <= p1 /\ p1 < E + n /\ E <= p2 /\ p2 < E + n
          \/ E + n <= p1 /\ E + n <= p2
        <3>1. p1 \div n = p2 \div n
            OBVIOUS
        <3> DEFINE q1 == p1 \div n
                   q2 == p2 \div n
        <3>2. q1 = q2 /\ q1 \in Int
            BY <2>2, <3>1
        <3>3. /\ p1 < E => q1 < e
              /\ E <= p1 /\ p1 < E + n => q1 = e
              /\ E + n <= p1 => q1 = e + 1
            BY <2>4
        <3>4. /\ p2 < E => q2 < e
              /\ E <= p2 /\ p2 < E + n => q2 = e
              /\ E + n <= p2 => q2 = e + 1
            BY <2>5
        <3> HIDE DEF q1, q2, p1, p2
        <3> QED
            BY <1>1, <2>2, <2>3, <3>2, <3>3, <3>4
    <2>7. CASE p1 < E /\ p2 < E
        <3>1. m1 \in 1..T /\ m2 \in 1..T
            BY <1>1, <2>2, <2>3, <2>7
        <3>2. f[m1].images[k1] # f[m2].images[k2]
            BY <3>1, SMTT(30) DEF Distinct
        <3> QED
            BY <3>1, <3>2
    <2>8. CASE E <= p1 /\ p1 < E + n /\ E <= p2 /\ p2 < E + n
        <3>1. g[m1].images[k1] = a[p1 - E + 1] /\ g[m2].images[k2] = a[p2 - E + 1]
            BY <1>3, <2>8
        <3> HIDE DEF p1, p2
        <3>2. p1 - E + 1 \in 1..n /\ p2 - E + 1 \in 1..n /\ p1 - E + 1 # p2 - E + 1
            BY <1>1, <2>1, <2>2, <2>3, <2>8
        <3> QED
            BY <3>1, <3>2 DEF Once
    <2>9. CASE E + n <= p1 /\ E + n <= p2
        <3>1. g[m1].images[k1] = b[p1 - E - n + 1] /\ g[m2].images[k2] = b[p2 - E - n + 1]
            BY <1>1, <1>3, <2>2, <2>3, <2>9, SMTT(30)
        <3> HIDE DEF p1, p2
        <3>2. p1 - E - n + 1 \in 1..n /\ p2 - E - n + 1 \in 1..n /\ p1 - E - n + 1 # p2 - E - n + 1
            BY <1>1, <2>1, <2>2, <2>3, <2>9
        <3> QED
            BY <3>1, <3>2 DEF Once
    <2> QED
        BY <2>6, <2>7, <2>8, <2>9
<1>5. ASSUME x + B <= n
      PROVE  Current(g, T + 1, n, B, e, a) /\ (T + 1) * B = e * n + (x + B)
    <2>1. ASSUME NEW m \in 1..(T + 1), NEW k \in 1..B, E <= P(m, k)
          PROVE  g[m].images[k] = a[P(m, k) - E + 1]
        <3>1. P(m, k) < E + n
            BY <1>1, <1>2, <1>5, SMTT(30)
        <3> QED
            BY <1>3, <2>1, <3>1
    <2>2. Current(g, T + 1, n, B, e, a)
        BY <2>1, Zenon DEF Current, E
    <2>3. (T + 1) * B = e * n + (x + B)
        BY <1>1 DEF E
    <2> QED
        BY <2>2, <2>3
<1>6. ASSUME x + B > n
      PROVE  Current(g, T + 1, n, B, e + 1, b) /\ (T + 1) * B = (e + 1) * n + (B - (n - x))
    <2>1. ASSUME NEW m \in 1..(T + 1), NEW k \in 1..B, (e + 1) * n <= P(m, k)
          PROVE  g[m].images[k] = b[P(m, k) - (e + 1) * n + 1]
        <3>0. P(m, k) \in Nat
            BY <1>2
        <3>1. E + n <= P(m, k) /\ E <= P(m, k) /\ P(m, k) \in Nat
            BY <1>1, <2>1, <3>0
        <3>2. g[m].images[k] = b[P(m, k) - E - n + 1]
            BY <1>3, <3>1
        <3>3. P(m, k) - E - n + 1 = P(m, k) - (e + 1) * n + 1
            BY <1>1, <3>1, SMTT(30)
        <3> HIDE DEF P
        <3> QED
            BY <3>2, <3>3
    <2>2. Current(g, T + 1, n, B, e + 1, b)
        BY <2>1, Zenon DEF Current
    <2>3. (T + 1) * B = (e + 1) * n + (B - (n - x))
        <3> DEFINE L == (T + 1) * B
                   R == (e + 1) * n
        <3>1. E \in Nat /\ R = E + n
            BY <1>1
        <3>2. L = E + x + B
            BY <1>1
        <3>3. n \in Nat /\ x \in Nat /\ B \in Nat
            BY <1>1
        <3> HIDE DEF L, R, E
        <3>4. L = R + (B - (n - x))
            BY <3>1, <3>2, <3>3
        <3> QED
            BY <3>4 DEF L, R
    <2> QED
        BY <2>2, <2>3
<1> QED
    BY <1>4, <1>5, <1>6

(***************************************************************************)
(* The inductive invariant of the training.                                *)
(***************************************************************************)

TrainExamples == (ValidationSize + 1)..doc.train
TestExamples  == {x \in Nat : x > doc.train}

\* The data sets hold their own examples, in pairs, and each of them once.
DataInv ==
    /\ DOMAIN datasets = {"train", "validation", "test"}
    /\ Paired(datasets["train"], TrainExamples) /\ Once(datasets["train"].images)
    /\ Paired(datasets["test"], TestExamples)

\* Where the runs are with their batches.
FedInv ==
    /\ fed \in Seq([split : {"train", "test"}, images : Seq(Nat), labels : Seq(Nat)])
    /\ phase \in {"create", "initialize"} => fed = <<>>
    /\ phase = "train" => Len(fed) < Iterations
    /\ phase = "test" => Len(fed) = Iterations

\* The data set has begun epoch epochs_completed, and served index_in_epoch of it.
EpochInv ==
    LET ds == datasets["train"]
        n  == Len(ds.images)
    IN  BatchSize <= n =>
          /\ ds.index_in_epoch <= n
          /\ Trained * BatchSize = ds.epochs_completed * n + ds.index_in_epoch
          /\ \A m \in 1..Trained : Len(fed[m].images) = BatchSize
          /\ Distinct(fed, Trained, n, BatchSize)
          /\ Current(fed, Trained, n, BatchSize, ds.epochs_completed, ds.images)

TrainingInv == Shape /\ DataInv /\ FedInv /\ FedFromItsSplit /\ EpochInv

LEMMA EpochsAreExact == TrainingInv => EpochsExact
<1> SUFFICES ASSUME TrainingInv, BatchSize <= Len(datasets["train"].images)
             PROVE  /\ \A m \in 1..Trained : Len(fed[m].images) = BatchSize
                    /\ \A m1, m2 \in 1..Trained, k1, k2 \in 1..BatchSize :
                          (m1 # m2 \/ k1 # k2) /\ Epoch(m1, k1) = Epoch(m2, k2) =>
                             fed[m1].images[k1] # fed[m2].images[k2]
    BY DEF TrainingInv, EpochsExact, NumExamples
<1>1. /\ \A m \in 1..Trained : Len(fed[m].images) = BatchSize
      /\ Distinct(fed, Trained, Len(datasets["train"].images), BatchSize)
    BY DEF TrainingInv, EpochInv
<1> QED
    BY <1>1 DEF Distinct, Place, Epoch, NumExamples

\* Data sets that were just read.
LEMMA ReadIs ==
    ASSUME NEW train \in Nat, NEW test \in Nat, NEW v \in Nat
    PROVE  LET r == ReadDataSets(train, test, v)
           IN  /\ DOMAIN r = {"train", "validation", "test"}
               /\ Paired(r["train"], (v + 1)..train) /\ Once(r["train"].images)
               /\ r["train"].index_in_epoch = 0 /\ r["train"].epochs_completed = 0
               /\ Paired(r["test"], {x \in Nat : x > train})
<1> DEFINE a == Numbers(v, train)
           b == Numbers(train, train + test)
           r == ReadDataSets(train, test, v)
           A == (v + 1)..train
           C == {x \in Nat : x > train}
<1>1. a \in Seq(A) /\ Once(a)
    <2>1. a = [k \in 1..(train - v) |-> v + k]
        BY DEF Numbers
    <2>2. CASE train - v \in Nat
        <3> DEFINE d == train - v
        <3>1. a \in [1..d -> A] /\ \A k \in 1..d : a[k] = v + k
            BY <2>1
        <3>2. d \in Nat
            BY <2>2
        <3> HIDE DEF d, a, A
        <3>3. a \in Seq(A) /\ Len(a) = d
            BY <3>1, <3>2
        <3>4. Once(a)
            BY <3>1, <3>2, <3>3 DEF Once
        <3> QED
            BY <3>3, <3>4
    <2>3. CASE train - v \notin Nat
        <3>1. 1..(train - v) = {}
            BY <2>3
        <3>2. a = <<>>
            BY <2>1, <3>1
        <3> QED
            BY <3>2 DEF Once
    <2> QED
        BY <2>2, <2>3
<1>2. b \in Seq(C)
    <2> DEFINE d == (train + test) - train
    <2>1. b = [k \in 1..d |-> train + k]
        BY DEF Numbers
    <2>2. d \in Nat
        OBVIOUS
    <2> HIDE DEF d
    <2>3. b \in [1..d -> C]
        BY <2>1, <2>2
    <2> HIDE DEF b, C
    <2> QED
        BY <2>2, <2>3
<1> HIDE DEF a, b, A, C
<1>3. /\ r = [train |-> NewDataSet(a), validation |-> NewDataSet(Numbers(0, v)), test |-> NewDataSet(b)]
    BY DEF ReadDataSets, a, b
<1>4. /\ DOMAIN r = {"train", "validation", "test"}
      /\ r["train"] = NewDataSet(a) /\ r["test"] = NewDataSet(b)
    BY <1>3
<1>5. /\ Paired(NewDataSet(a), A) /\ NewDataSet(a).images = a
      /\ NewDataSet(a).index_in_epoch = 0 /\ NewDataSet(a).epochs_completed = 0
      /\ Paired(NewDataSet(b), C)
    BY <1>1, <1>2 DEF NewDataSet, Paired, DataSetsOf
<1> HIDE DEF r
<1>6. /\ DOMAIN r = {"train", "validation", "test"}
      /\ Paired(r["train"], A) /\ Once(r["train"].images)
      /\ r["train"].index_in_epoch = 0 /\ r["train"].epochs_completed = 0
      /\ Paired(r["test"], C)
    BY <1>1, <1>4, <1>5
<1> QED
    BY <1>6 DEF r, A, C

\* A batch that is fed to the session.
LEMMA FeedIs ==
    ASSUME NEW S, S \subseteq Nat, NEW split \in {"train", "test"}, Paired(datasets[split], S),
           DataInv, FedInv, Feed(split)
    PROVE  \E r, served :
              /\ Serves(datasets[split], BatchSize, S, r, served)
              /\ datasets' = [datasets EXCEPT ![split] = r.ds]
              /\ DOMAIN datasets' = {"train", "validation", "test"}
              /\ datasets'[split] = r.ds
              /\ \A other \in {"train", "test"} : other # split => datasets'[other] = datasets[other]
              /\ fed' \in Seq([split : {"train", "test"}, images : Seq(Nat), labels : Seq(Nat)])
              /\ Len(fed') = Len(fed) + 1
              /\ \A m \in 1..Len(fed) : fed'[m] = fed[m]
              /\ fed'[Len(fed) + 1].images = r.images
              /\ fed'[Len(fed) + 1].labels = r.images
<1> DEFINE ds == datasets[split]
           Batches == [split : {"train", "test"}, images : Seq(Nat), labels : Seq(Nat)]
<1>1. PICK perm0 \in Orders(ds, FirstBatch(ds)), perm \in Orders(ds, EndsEpoch(ds, BatchSize)) :
         LET next == NextBatch(ds, BatchSize, perm0, perm)
         IN  /\ datasets' = [datasets EXCEPT ![split] = next.ds]
             /\ fed' = Append(fed, [split |-> split, images |-> next.images, labels |-> next.labels])
    BY Zenon DEF Feed
<1> DEFINE r == NextBatch(ds, BatchSize, perm0, perm)
           batch == [split |-> split, images |-> r.images, labels |-> r.labels]
<1>2. datasets' = [datasets EXCEPT ![split] = r.ds] /\ fed' = Append(fed, batch)
    BY <1>1, Zenon
<1>3. PICK served : Serves(ds, BatchSize, S, r, served)
    BY NextBatchServes, TrainingAssumption
<1> HIDE DEF r, ds
<1>4. r.images \in Seq(S) /\ r.labels = r.images
    BY <1>3 DEF Serves
<1>5. r.images \in Seq(Nat)
    BY <1>4, SeqMonotonic
<1>6. batch \in Batches /\ batch.images = r.images /\ batch.labels = r.images
    BY <1>4, <1>5
<1>7. fed \in Seq(Batches)
    BY DEF FedInv
<1> HIDE DEF batch, Batches
<1>8. /\ fed' \in Seq(Batches) /\ Len(fed') = Len(fed) + 1
      /\ \A m \in 1..Len(fed) : fed'[m] = fed[m]
      /\ fed'[Len(fed) + 1] = batch
    BY <1>2, <1>6, <1>7
<1>9. /\ DOMAIN datasets' = {"train", "validation", "test"}
      /\ datasets'[split] = r.ds
      /\ \A other \in {"train", "test"} : other # split => datasets'[other] = datasets[other]
    BY <1>2 DEF DataInv
<1> QED
    BY <1>2, <1>3, <1>6, <1>8, <1>9 DEF ds, Batches

\* A step that feeds nothing keeps the invariant of the training.
LEMMA QuietStep ==
    ASSUME TrainingInv, Shape', doc' = doc, UNCHANGED <<datasets, fed>>,
           phase' # phase => \/ phase = "create" /\ phase' = "initialize"
                             \/ phase = "initialize" /\ phase' = "train"
                             \/ phase' = "raised"
    PROVE  TrainingInv'
<1>1. Shape /\ DataInv /\ FedInv /\ FedFromItsSplit /\ EpochInv
    BY DEF TrainingInv
<1>2. DataInv'
    BY <1>1 DEF DataInv, TrainExamples, TestExamples
<1>3. FedInv'
    <2>1. Len(<<>>) < Iterations
        BY TrainingAssumption
    <2> QED
        BY <1>1, <2>1 DEF FedInv
<1>4. FedFromItsSplit'
    BY <1>1 DEF FedFromItsSplit
<1>5. EpochInv'
    <2>1. datasets' = datasets /\ fed' = fed
        OBVIOUS
    <2> QED
        BY <1>1, <2>1, Zenon DEF EpochInv, Trained
<1> QED
    BY <1>2, <1>3, <1>4, <1>5 DEF TrainingInv

\* The invariant of data sets that were just read, when nothing has been fed.
LEMMA FreshSets ==
    ASSUME NEW s, Once(s.images), s.index_in_epoch = 0, s.epochs_completed = 0,
           NEW T, T = 0, NEW f, Len(s.images) \in Nat
    PROVE  LET n == Len(s.images)
           IN  BatchSize <= n =>
                 /\ s.index_in_epoch <= n
                 /\ T * BatchSize = s.epochs_completed * n + s.index_in_epoch
                 /\ \A m \in 1..T : Len(f[m].images) = BatchSize
                 /\ Distinct(f, T, n, BatchSize)
                 /\ Current(f, T, n, BatchSize, s.epochs_completed, s.images)
<1>1. 1..T = {}
    OBVIOUS
<1>2. T * BatchSize = s.epochs_completed * Len(s.images) + s.index_in_epoch
    BY TrainingAssumption
<1> QED
    BY <1>1, <1>2 DEF Distinct, Current

\* The creation of a component.
LEMMA TCreateStep ==
    ASSUME TrainingInv, Shape', TCreate
    PROVE  TrainingInv'
<1>1. Shape /\ DataInv /\ FedInv /\ FedFromItsSplit /\ EpochInv
    BY DEF TrainingInv
<1>2. doc' = doc /\ phase' = phase /\ phase = "create" /\ fed' = fed
    BY DEF TCreate, Create, Turn
<1>3. CASE UNCHANGED datasets
    BY <1>2, <1>3, QuietStep
<1>4. CASE datasets' = ReadDataSets(doc.train, doc.test, ValidationSize)
    <2>1. doc.train \in Nat /\ doc.test \in Nat /\ ValidationSize \in Nat
        BY <1>1, DocumentsAssumption DEF Shape, IsDocument
    <2> DEFINE r == ReadDataSets(doc.train, doc.test, ValidationSize)
    <2>2. /\ DOMAIN r = {"train", "validation", "test"}
          /\ Paired(r["train"], (ValidationSize + 1)..doc.train) /\ Once(r["train"].images)
          /\ r["train"].index_in_epoch = 0 /\ r["train"].epochs_completed = 0
          /\ Paired(r["test"], {x \in Nat : x > doc.train})
        BY <2>1, ReadIs
    <2> HIDE DEF r
    <2>3. DataInv'
        BY <1>2, <1>4, <2>2 DEF DataInv, TrainExamples, TestExamples, r
    <2>4. fed = <<>> /\ Trained' = 0
        BY <1>1, <1>2, TrainingAssumption DEF FedInv, Trained
    <2>5. FedInv'
        BY <1>1, <1>2 DEF FedInv
    <2>6. FedFromItsSplit'
        BY <1>2, <2>4 DEF FedFromItsSplit
    <2>7. EpochInv'
        <3>1. datasets'["train"] = r["train"] /\ Len(r["train"].images) \in Nat
            BY <1>4, <2>2 DEF r, Paired, DataSetsOf
        <3> QED
            BY <2>2, <2>4, <3>1, FreshSets DEF EpochInv
    <2> QED
        BY <2>3, <2>5, <2>6, <2>7 DEF TrainingInv
<1> QED
    BY <1>3, <1>4 DEF TCreate

\* What is in a batch comes from its data set.
LEMMA BatchElements ==
    ASSUME NEW S, NEW ds, NEW B, NEW r, NEW served, Serves(ds, B, S, r, served),
           NEW k \in 1..Len(r.images)
    PROVE  r.images[k] \in S
BY DEF Serves

\* A turn of run_train's loop.
LEMMA TrainStepKeeps ==
    ASSUME TrainingInv, Shape', TrainStep
    PROVE  TrainingInv'
<1>1. Shape /\ DataInv /\ FedInv /\ FedFromItsSplit /\ EpochInv
    BY DEF TrainingInv
<1>2. phase = "train" /\ Feed("train") /\ doc' = doc
      /\ IF Len(fed) + 1 = Iterations THEN phase' = "test" ELSE phase' = phase
    BY DEF TrainStep, SwitchIteration, RunTrain, Run, vars
<1> DEFINE ds == datasets["train"]
           n  == Len(ds.images)
           T  == Len(fed)
           B  == BatchSize
<1>3. Paired(ds, TrainExamples) /\ Once(ds.images) /\ TrainExamples \subseteq Nat
    BY <1>1, DocumentsAssumption DEF DataInv, TrainExamples, Shape, IsDocument
<1>4. PICK r, served :
         /\ Serves(ds, B, TrainExamples, r, served)
         /\ datasets' = [datasets EXCEPT !["train"] = r.ds]
         /\ DOMAIN datasets' = {"train", "validation", "test"}
         /\ datasets'["train"] = r.ds
         /\ \A other \in {"train", "test"} : other # "train" => datasets'[other] = datasets[other]
         /\ fed' \in Seq([split : {"train", "test"}, images : Seq(Nat), labels : Seq(Nat)])
         /\ Len(fed') = T + 1
         /\ \A m \in 1..T : fed'[m] = fed[m]
         /\ fed'[T + 1].images = r.images
         /\ fed'[T + 1].labels = r.images
    BY <1>1, <1>2, <1>3, FeedIs
<1>5. T \in Nat /\ T < Iterations /\ Iterations \in Nat /\ B \in Nat \ {0}
    BY <1>1, <1>2, TrainingAssumption DEF FedInv
<1>6. TrainExamples' = TrainExamples /\ TestExamples' = TestExamples
    BY <1>2 DEF TrainExamples, TestExamples
<1>7. DataInv'
    <2>1. Paired(r.ds, TrainExamples) /\ Once(r.ds.images)
        BY <1>3, <1>4 DEF Serves
    <2>2. datasets'["test"] = datasets["test"]
        BY <1>4
    <2> QED
        BY <1>1, <1>4, <1>6, <2>1, <2>2 DEF DataInv
<1>8. FedInv'
    BY <1>2, <1>4, <1>5 DEF FedInv
<1>9. Trained = T /\ Trained' = T + 1
    BY <1>4, <1>5 DEF Trained
<1>10. FedFromItsSplit'
    <2> SUFFICES ASSUME NEW m \in 1..(T + 1)
                 PROVE  /\ fed'[m].images = fed'[m].labels
                        /\ \A k \in 1..Len(fed'[m].images) :
                              IF m <= Iterations
                              THEN fed'[m].images[k] \in (ValidationSize + 1)..doc.train
                              ELSE fed'[m].images[k] > doc.train
        BY <1>2, <1>4 DEF FedFromItsSplit
    <2>1. CASE m = T + 1
        <3>1. fed'[m].images = r.images /\ fed'[m].labels = r.images /\ m <= Iterations
            BY <1>4, <1>5, <2>1
        <3>2. \A k \in 1..Len(r.images) : r.images[k] \in TrainExamples
            BY <1>4, BatchElements
        <3> QED
            BY <3>1, <3>2 DEF TrainExamples
    <2>2. CASE m # T + 1
        <3>1. m \in 1..T /\ fed'[m] = fed[m]
            BY <1>4, <1>5, <2>2
        <3> QED
            BY <1>1, <3>1 DEF FedFromItsSplit
    <2> QED
        BY <2>1, <2>2
<1>11. EpochInv'
    <2>0. r.ds.images = datasets'["train"].images /\ Len(r.ds.images) = n /\ n \in Nat
        BY <1>3, <1>4 DEF Serves, Paired, DataSetsOf
    <2> SUFFICES ASSUME B <= n
                 PROVE  /\ r.ds.index_in_epoch <= n
                        /\ (T + 1) * B = r.ds.epochs_completed * n + r.ds.index_in_epoch
                        /\ \A m \in 1..(T + 1) : Len(fed'[m].images) = B
                        /\ Distinct(fed', T + 1, n, B)
                        /\ Current(fed', T + 1, n, B, r.ds.epochs_completed, r.ds.images)
        BY <1>4, <1>9, <2>0 DEF EpochInv
    <2> DEFINE x == ds.index_in_epoch
               e == ds.epochs_completed
    <2>1. /\ x \in 0..n /\ e \in Nat /\ T * B = e * n + x
          /\ \A m \in 1..T : Len(fed[m].images) = B
          /\ Distinct(fed, T, n, B) /\ Current(fed, T, n, B, e, ds.images)
        <3>1. x \in Nat /\ e \in Nat
            BY <1>3 DEF Paired, DataSetsOf
        <3>2. /\ x <= n /\ T * B = e * n + x
              /\ \A m \in 1..T : Len(fed[m].images) = B
              /\ Distinct(fed, T, n, B) /\ Current(fed, T, n, B, e, ds.images)
            BY <1>1, <1>9 DEF EpochInv
        <3> HIDE DEF n, x, e
        <3>3. x \in 0..n
            BY <2>0, <3>1, <3>2
        <3> QED
            BY <3>1, <3>2, <3>3
    <2>2. /\ Len(r.images) = B
          /\ \A k \in 1..B : r.images[k] = IF x + k <= n THEN served.images[x + k]
                                                         ELSE r.ds.images[x + k - n]
        BY <1>3, <1>4, <1>5, <2>1, FullBatch
    <2>3. \A m \in 1..(T + 1) : Len(fed'[m].images) = B
        <3> SUFFICES ASSUME NEW m \in 1..(T + 1) PROVE Len(fed'[m].images) = B
            OBVIOUS
        <3>1. CASE m = T + 1
            <4>1. fed'[m].images = r.images
                BY <1>4, <3>1
            <4> QED
                BY <2>2, <4>1
        <3>2. CASE m # T + 1
            <4>1. m \in 1..T
                BY <1>5, <3>2
            <4>2. fed'[m] = fed[m] /\ Len(fed[m].images) = B
                BY <1>4, <2>1, <4>1
            <4> QED
                BY <4>2
        <3> QED
            BY <3>1, <3>2
    <2>4. /\ Len(served.images) = n /\ Once(served.images) /\ Once(r.ds.images)
          /\ ~FirstBatch(ds) => served = ds
        BY <1>3, <1>4 DEF Serves
    <2>5. T # 0 => served.images = ds.images
        <3> SUFFICES ASSUME T # 0 PROVE ~FirstBatch(ds)
            BY <2>4
        <3> SUFFICES ASSUME x = 0, e = 0 PROVE FALSE
            BY DEF FirstBatch
        <3>1. T * B = 0
            BY <2>0, <2>1
        <3> HIDE DEF T, B
        <3> QED
            BY <1>5, <3>1
    <2>6. B \in 1..n /\ n \in Nat \ {0}
        BY <1>5, <2>0
    <2>7. \A k \in 1..B : fed'[T + 1].images[k] = IF x + k <= n THEN served.images[x + k]
                                                               ELSE r.ds.images[x + k - n]
        BY <1>4, <2>2
    <2>8. IF x + B > n
          THEN r.ds.index_in_epoch = B - (n - x) /\ r.ds.epochs_completed = e + 1
          ELSE /\ r.ds.index_in_epoch = x + B /\ r.ds.epochs_completed = e
               /\ r.ds.images = served.images
        BY <1>4 DEF Serves, EndsEpoch, NumExamples
    <2> DEFINE a == served.images
               b == r.ds.images
               f == fed
               g == fed'
               c == ds.images
    <2> HIDE DEF a, b, f, g, c, n, T, B, x, e
    <2>9. /\ Distinct(g, T + 1, n, B)
          /\ x + B <= n => /\ Current(g, T + 1, n, B, e, a)
                           /\ (T + 1) * B = e * n + (x + B)
          /\ x + B > n  => /\ Current(g, T + 1, n, B, e + 1, b)
                           /\ (T + 1) * B = (e + 1) * n + (B - (n - x))
        <3>1. \A m \in 1..T : g[m] = f[m]
            BY <1>4 DEF f, g
        <3>2. Len(a) = n /\ Once(a) /\ Len(b) = n /\ Once(b) /\ (T # 0 => a = c)
            BY <2>0, <2>4, <2>5 DEF a, b, c
        <3>3. Distinct(f, T, n, B) /\ Current(f, T, n, B, e, c)
            BY <2>1 DEF f, c
        <3>4. \A k \in 1..B : g[T + 1].images[k] = IF x + k <= n THEN a[x + k] ELSE b[x + k - n]
            BY <2>7 DEF g, a, b
        <3>5. T * B = e * n + x /\ x \in 0..n /\ e \in Nat /\ T \in Nat
            BY <1>5, <2>1
        <3>6. AfterBatch(n, B, T, e, x, f, g, a, b, c)
            BY <2>6, <3>1, <3>2, <3>3, <3>4, <3>5, EpochStep, Zenon
        <3> QED
            BY <3>6, Zenon DEF AfterBatch
    <2>10. CASE x + B <= n
        <3>1. r.ds.index_in_epoch = x + B /\ r.ds.epochs_completed = e
            <4> HIDE DEF EpochInv
            <4> QED
                BY <1>5, <2>1, <2>6, <2>8, <2>10
        <3>2. r.ds.images = a
            BY <1>5, <2>1, <2>6, <2>8, <2>10 DEF a
        <3>3. /\ Distinct(g, T + 1, n, B)
              /\ Current(g, T + 1, n, B, e, a)
              /\ (T + 1) * B = e * n + (x + B)
            BY <2>9, <2>10
        <3> QED
            BY <2>3, <2>10, <3>1, <3>2, <3>3 DEF g
    <2>11. CASE x + B > n
        <3>1. r.ds.index_in_epoch = B - (n - x) /\ r.ds.epochs_completed = e + 1
            BY <2>8, <2>11
        <3>2. B - (n - x) <= n
            BY <1>5, <2>1, <2>6
        <3> QED
            BY <2>3, <2>9, <2>11, <3>1, <3>2 DEF b, g
    <2>12. x + B <= n \/ x + B > n
        BY <1>5, <2>1, <2>6
    <2> QED
        BY <2>10, <2>11, <2>12
<1> QED
    BY <1>7, <1>8, <1>10, <1>11 DEF TrainingInv

\* run_test's batch.
LEMMA TestStepKeeps ==
    ASSUME TrainingInv, Shape', TestStep
    PROVE  TrainingInv'
<1>1. Shape /\ DataInv /\ FedInv /\ FedFromItsSplit /\ EpochInv
    BY DEF TrainingInv
<1>2. phase = "test" /\ Feed("test") /\ doc' = doc /\ phase' = "done"
    BY DEF TestStep, SwitchIteration, RunTest, Run
<1> DEFINE ds == datasets["test"]
           T  == Len(fed)
<1>3. Paired(ds, TestExamples) /\ TestExamples \subseteq Nat
    BY <1>1 DEF DataInv, TestExamples
<1>4. PICK r, served :
         /\ Serves(ds, BatchSize, TestExamples, r, served)
         /\ datasets' = [datasets EXCEPT !["test"] = r.ds]
         /\ DOMAIN datasets' = {"train", "validation", "test"}
         /\ datasets'["test"] = r.ds
         /\ \A other \in {"train", "test"} : other # "test" => datasets'[other] = datasets[other]
         /\ fed' \in Seq([split : {"train", "test"}, images : Seq(Nat), labels : Seq(Nat)])
         /\ Len(fed') = T + 1
         /\ \A m \in 1..T : fed'[m] = fed[m]
         /\ fed'[T + 1].images = r.images
         /\ fed'[T + 1].labels = r.images
    BY <1>1, <1>2, <1>3, FeedIs
<1>5. T = Iterations /\ Iterations \in Nat \ {0} /\ T \in Nat
    BY <1>1, <1>2, TrainingAssumption DEF FedInv
<1>6. datasets'["train"] = datasets["train"]
    BY <1>4
<1>7. DataInv'
    <2>1. TrainExamples' = TrainExamples /\ TestExamples' = TestExamples
        BY <1>2 DEF TrainExamples, TestExamples
    <2>2. Paired(r.ds, TestExamples)
        BY <1>4 DEF Serves
    <2> QED
        BY <1>1, <1>4, <1>6, <2>1, <2>2 DEF DataInv
<1>8. FedInv'
    BY <1>2, <1>4 DEF FedInv
<1>9. FedFromItsSplit'
    <2> SUFFICES ASSUME NEW m \in 1..(T + 1)
                 PROVE  /\ fed'[m].images = fed'[m].labels
                        /\ \A k \in 1..Len(fed'[m].images) :
                              IF m <= Iterations
                              THEN fed'[m].images[k] \in (ValidationSize + 1)..doc.train
                              ELSE fed'[m].images[k] > doc.train
        BY <1>2, <1>4 DEF FedFromItsSplit
    <2>1. CASE m = T + 1
        <3>1. fed'[m].images = r.images /\ fed'[m].labels = r.images /\ ~(m <= Iterations)
            BY <1>4, <1>5, <2>1
        <3>2. \A k \in 1..Len(r.images) : r.images[k] \in TestExamples
            BY <1>4, BatchElements
        <3> QED
            BY <3>1, <3>2 DEF TestExamples
    <2>2. CASE m # T + 1
        <3>1. m \in 1..T /\ fed'[m] = fed[m]
            BY <1>4, <1>5, <2>2
        <3> QED
            BY <1>1, <3>1 DEF FedFromItsSplit
    <2> QED
        BY <2>1, <2>2
<1>10. EpochInv'
    <2>1. Trained = Iterations /\ Trained' = Iterations
        BY <1>4, <1>5 DEF Trained
    <2>2. \A m \in 1..Iterations : fed'[m] = fed[m]
        BY <1>4, <1>5
    <2> DEFINE d == datasets["train"]
               n == Len(d.images)
    <2> SUFFICES ASSUME BatchSize <= n
                 PROVE  /\ d.index_in_epoch <= n
                        /\ Iterations * BatchSize = d.epochs_completed * n + d.index_in_epoch
                        /\ \A m \in 1..Iterations : Len(fed'[m].images) = BatchSize
                        /\ Distinct(fed', Iterations, n, BatchSize)
                        /\ Current(fed', Iterations, n, BatchSize, d.epochs_completed, d.images)
        BY <1>6, <2>1 DEF EpochInv
    <2>3. /\ d.index_in_epoch <= n
          /\ Iterations * BatchSize = d.epochs_completed * n + d.index_in_epoch
          /\ \A m \in 1..Iterations : Len(fed[m].images) = BatchSize
          /\ Distinct(fed, Iterations, n, BatchSize)
          /\ Current(fed, Iterations, n, BatchSize, d.epochs_completed, d.images)
        BY <1>1, <2>1 DEF EpochInv
    <2> HIDE DEF n, d
    <2>4. Distinct(fed', Iterations, n, BatchSize)
        <3> DEFINE f == fed
                   g == fed'
        <3> HIDE DEF f, g
        <3>1. \A m \in 1..Iterations : g[m] = f[m]
            BY <2>2 DEF f, g
        <3>2. Distinct(f, Iterations, n, BatchSize)
            BY <2>3 DEF f
        <3>3. Distinct(g, Iterations, n, BatchSize)
            BY <3>1, <3>2 DEF Distinct
        <3> QED
            BY <3>3 DEF g
    <2>5. Current(fed', Iterations, n, BatchSize, d.epochs_completed, d.images)
        BY <2>2, <2>3, Zenon DEF Current
    <2> QED
        BY <2>2, <2>3, <2>4, <2>5
<1> QED
    BY <1>7, <1>8, <1>9, <1>10 DEF TrainingInv

LEMMA TrainingInvInit == TInit => TrainingInv
<1> SUFFICES ASSUME TInit PROVE TrainingInv
    OBVIOUS
<1>1. Shape /\ phase = "create"
    BY InitShape DEF TInit, Init
<1> DEFINE r == ReadDataSets(0, 0, 0)
<1>2. datasets = r /\ fed = <<>>
    BY DEF TInit
<1>3. /\ DOMAIN r = {"train", "validation", "test"}
      /\ Paired(r["train"], (0 + 1)..0) /\ Once(r["train"].images)
      /\ r["train"].index_in_epoch = 0 /\ r["train"].epochs_completed = 0
      /\ Paired(r["test"], {x \in Nat : x > 0})
    BY ReadIs
<1>4. r["test"].images = <<>>
    BY DEF ReadDataSets, NewDataSet, Numbers
<1> HIDE DEF r
<1>5. Paired(r["train"], TrainExamples) /\ Paired(r["test"], TestExamples)
    <2>1. (0 + 1)..0 = {}
        OBVIOUS
    <2>2. r["train"] \in DataSetsOf({}) /\ r["train"].labels = r["train"].images
        BY <1>3, <2>1 DEF Paired
    <2>3. r["train"] \in DataSetsOf(TrainExamples)
        BY <2>2, SeqMonotonic DEF DataSetsOf
    <2>4. r["test"] \in DataSetsOf(TestExamples)
        BY <1>3, <1>4 DEF Paired, DataSetsOf
    <2> QED
        BY <1>3, <2>2, <2>3, <2>4 DEF Paired
<1>6. DataInv
    BY <1>2, <1>3, <1>5 DEF DataInv
<1>7. FedInv /\ FedFromItsSplit
    BY <1>1, <1>2 DEF FedInv, FedFromItsSplit
<1>8. Trained = 0
    BY <1>2, TrainingAssumption DEF Trained
<1>9. EpochInv
    <2>1. Len(r["train"].images) \in Nat
        BY <1>3 DEF Paired, DataSetsOf
    <2> QED
        BY <1>2, <1>3, <1>8, <2>1, FreshSets DEF EpochInv
<1> QED
    BY <1>1, <1>6, <1>7, <1>9 DEF TrainingInv

\* The invariant of the training, for any documents, sizes, batches and shuffles.
THEOREM TrainingInvCorrect == TSpec => []TrainingInv
<1>1. TInit => TrainingInv
    BY TrainingInvInit
<1>2. TrainingInv /\ Shape' /\ [TNext]_tvars => TrainingInv'
    <2> SUFFICES ASSUME TrainingInv, Shape', [TNext]_tvars PROVE TrainingInv'
        OBVIOUS
    <2>1. CASE Elsewhere
        <3>1. doc' = doc /\ UNCHANGED <<datasets, fed>>
            BY <2>1 DEF Elsewhere, Postpone, CheckRaises, CreateRaises, AllCreated,
                   InitializerRaises, Initialize, RunRaises, Raise
        <3>2. phase' # phase => \/ phase = "create" /\ phase' = "initialize"
                                \/ phase = "initialize" /\ phase' = "train"
                                \/ phase' = "raised"
            BY <2>1 DEF Elsewhere, Postpone, CheckRaises, CreateRaises, AllCreated,
                   InitializerRaises, Initialize, RunRaises, Raise
        <3> QED
            BY <3>1, <3>2, QuietStep
    <2>2. CASE UNCHANGED tvars
        BY <2>2, QuietStep DEF tvars, vars
    <2>3. CASE TCreate
        BY <2>3, TCreateStep
    <2>4. CASE TrainStep
        BY <2>4, TrainStepKeeps
    <2>5. CASE TestStep
        BY <2>5, TestStepKeeps
    <2> QED
        BY <2>1, <2>2, <2>3, <2>4, <2>5 DEF TNext
<1>3. TSpec => []Shape
    <2>1. GraphInv => Shape
        BY DEF GraphInv
    <2> QED
        BY <2>1, GraphInvCorrect, PTL
<1> QED
    BY <1>1, <1>2, <1>3, PTL DEF TSpec

\* Whatever the sizes of the data sets, the batches and the shuffles, every batch is
\* from its own split, and no epoch serves an example twice.
THEOREM EpochsServeOnce == TSpec => []EpochsExact
    BY TrainingInvCorrect, EpochsAreExact, PTL

=============================================================================
