---------------------------- MODULE GraphBuilder ----------------------------
(***************************************************************************)
(* The model builder (tensorflow/main.py): create_components turns a JSON  *)
(* document into components by cycling through its items until every one   *)
(* has been created, postponing those whose important inputs are not there *)
(* yet; run_model gives the variables their initial values, and run_train  *)
(* and run_test pick the components to hand to the TensorFlow session.     *)
(*                                                                         *)
(* A document is chosen by Init and read only.  Its items are named by     *)
(* their position in the file and 0 is a name no item has.  refs[x] lists  *)
(* the references "object.variable" among the inputs of x, in file order;  *)
(* a reference is the whole value of its input ("plain"), the one member   *)
(* of a list ("single") or a member of a longer list ("part").  An absent  *)
(* "important" key counts as TRUE, as in the code.  given[x] and nulls[x]  *)
(* are the parameters that x sets to a value and to null (or, "trainable", *)
(* to false).  fits[x] says that TensorFlow takes the types and the shapes *)
(* of what x is given; if not, it raises when x is created or, where a     *)
(* shape is not known before, when x is computed.  train and test are the  *)
(* numbers of examples in the files that the data set reads.               *)
(*                                                                         *)
(* The classes are those of Components; Unknown stands for a class and     *)
(* version that ComponentLoader has not loaded.                            *)
(***************************************************************************)
EXTENDS Integers, Sequences, FiniteSets, Components, DataSets

CONSTANTS
    MaxItems,       \* bound: items in a document
    Documents,      \* the documents that may be read, by kind
    ValidationSize  \* validation_size of read_data_sets

Types  == {"train", "test", "other"}
Forms  == {"plain", "single", "part"}
Names  == 0..MaxItems
None   == 0

Ref == [obj : Names, var : STRING, name : STRING, important : BOOLEAN, form : Forms]

IsDocument(d) ==
    /\ d.n \in 1..MaxItems
    /\ d.refs \in [1..d.n -> Seq(Ref)]
    /\ d.class \in [1..d.n -> DOMAIN Loaded \cup {"Unknown"}]
    /\ d.type \in [1..d.n -> Types]
    /\ d.given \in [1..d.n -> SUBSET STRING]
    /\ d.nulls \in [1..d.n -> SUBSET STRING]
    /\ d.fits \in [1..d.n -> BOOLEAN]
    /\ d.train \in Nat /\ d.test \in Nat

ASSUME DocumentsAssumption ==
    /\ MaxItems \in Nat \ {0}
    /\ ValidationSize \in Nat
    /\ \A kind \in Documents : \A d \in kind : IsDocument(d)

VARIABLES
    doc,            \* js_data
    json_items,     \* the items that are still to be created
    i,              \* create_components' index into json_items, from 0
    created,        \* the keys of created_components_outputs, oldest first
    bound,          \* bound[x]: the positions of refs[x] that set_inputs has set
    dataset,        \* the global dataset, None before one is created
    phase,          \* "create", "initialize", "train", "test", "done" or "raised"
    ran             \* ran[t]: what the run of type t gave to the session

vars == <<doc, json_items, i, created, bound, dataset, phase, ran>>

Items == 1..doc.n
Created == {created[k] : k \in 1..Len(created)}

Init ==
    /\ \E kind \in Documents : doc \in kind
    /\ json_items = [k \in 1..doc.n |-> k]
    /\ i = 0
    /\ created = << >>
    /\ bound = [x \in 1..doc.n |-> {}]
    /\ dataset = None
    /\ phase = "create"
    /\ ran = [t \in {"train", "test"} |-> {}]

-----------------------------------------------------------------------------
(* Items.                                                                  *)

\* get_component_instance finds no class of that name and version.
NoInstance(x) == doc.class[x] \notin DOMAIN Loaded

\* The component that a whole value, read as "object.variable", names.  A list
\* of one member is printed with its brackets and names no component.
Named(r) == IF r.form = "plain" THEN r.obj ELSE None

\* The components that the inputs of x are set to: of two references set under
\* one name the later counts.
Counting(x, set) ==
    {k \in set : \A later \in set :
        later > k => doc.refs[x][later].name # doc.refs[x][k].name}

Sources(x, set) == {doc.refs[x][k].obj : k \in Counting(x, set)}

\* Those of them along which an optimizer looks for variables.
GradientSources(x, set) ==
    {doc.refs[x][k].obj : k \in {c \in Counting(x, set) :
        doc.refs[x][c].name \in Differentiable(doc.class[x])}}

Inputs(x) == Sources(x, bound[x])

\* External: a session computes the components it is given and, step by step,
\* what they are computed from.  A Variable has its value: the initial one is
\* not computed again.  Within(d, R, G)[m] is what m steps along G reach from R.
Within(d, R, G) ==
    LET Below[m \in 0..d.n] ==
          IF m = 0 THEN R ELSE UNION {{x} \cup G[x] : x \in Below[m - 1]}
    IN  Below

Reach(d, R, G) == Within(d, R, G)[d.n]

Operands  == [x \in Items |-> IF doc.class[x] = "Variable" THEN {} ELSE Inputs(x)]
Gradients == [x \in Items |-> GradientSources(x, bound[x])]

Computed(R) == Reach(doc, R, Operands)

\* A run raises for a placeholder without a value: fed are the data sets that
\* get one.
Unfed(R, fed) == \E x \in Computed(R) : doc.class[x] = "DataSet" /\ x \notin fed

-----------------------------------------------------------------------------
(* create_components.                                                      *)

\* check_dependences goes through the important references in order and stops
\* at the first whose component is not there (the item is postponed) or lacks
\* the variable (an exception).
Lacking(r) == r.obj \in Created /\ r.var \notin Outputs(doc.class[r.obj])
Passes(r)  == r.obj \in Created /\ r.var \in Outputs(doc.class[r.obj])

\* Mutant: the scan ends with the first reference.
ReadyFirst(x) ==
    Len(doc.refs[x]) > 0 /\ doc.refs[x][1].important => Passes(doc.refs[x][1])

Ready(x) ==
    \A k \in 1..Len(doc.refs[x]) : doc.refs[x][k].important => Passes(doc.refs[x][k])

Raises(x) ==
    \E k \in 1..Len(doc.refs[x]) :
       /\ doc.refs[x][k].important /\ Lacking(doc.refs[x][k])
       /\ \A j \in 1..(k - 1) : doc.refs[x][j].important => Passes(doc.refs[x][j])

\* set_inputs sets an input if the named component is there; it raises for a
\* list that does not split in two, for a variable the component lacks, and
\* for an input the class does not have.
SetInputs(x) == {k \in 1..Len(doc.refs[x]) : Named(doc.refs[x][k]) \in Created}

\* Mutant: the exception belongs to the outer condition.
SetInputsRaisesUncreated(x) ==
    \/ \E k \in 1..Len(doc.refs[x]) : doc.refs[x][k].form = "part"
    \/ \E k \in SetInputs(x) : ~Passes(doc.refs[x][k]) \/ ~HasInput(doc.class[x], doc.refs[x][k].name)
    \/ \E k \in 1..Len(doc.refs[x]) : Named(doc.refs[x][k]) \notin Created

SetInputsRaises(x) ==
    \/ \E k \in 1..Len(doc.refs[x]) : doc.refs[x][k].form = "part"
    \/ \E k \in SetInputs(x) : ~Passes(doc.refs[x][k]) \/ ~HasInput(doc.class[x], doc.refs[x][k].name)

\* init raises for what is missing, a DataSet's also for files that are too short.
ItemInitRaises(x) ==
    \/ InitRaises(doc.class[x], {doc.refs[x][k].name : k \in SetInputs(x)},
                  doc.given[x], doc.nulls[x])
    \/ doc.class[x] = "DataSet" /\ ReadRaises(doc.train, ValidationSize)

\* External: minimize raises if no variable that may be trained is behind the
\* loss ("No variables to optimize", "No gradients provided").
Trainable(d, v) == d.class[v] = "Variable" /\ "trainable" \notin d.nulls[v]

NothingToTrain(x) ==
    /\ doc.class[x] \in Optimizers
    /\ \A v \in Reach(doc, GradientSources(x, SetInputs(x)), Gradients) : ~Trainable(doc, v)

Creatable(x) ==
    ~NoInstance(x) /\ ~SetInputsRaises(x) /\ ~ItemInitRaises(x) /\ ~NothingToTrain(x)

\* External: what TensorFlow may refuse when x is created or later: types and
\* shapes that do not fit; an initial value computed from placeholders, whose
\* shape may be unknown as the number of their examples is.
MayRefuse(x) ==
    \/ ~doc.fits[x]
    \/ doc.class[x] = "Variable" /\ Unfed(Sources(x, SetInputs(x)), {})

\* Mutant: the index stops at the last item.
NextIndexStays(left) ==
    IF i < left - 1 THEN i + 1 ELSE IF left > 0 THEN left - 1 ELSE 0

\* The index after a turn that left `left` items.
NextIndex(left) == IF i < left - 1 THEN i + 1 ELSE 0

Item == json_items[i + 1]
Turn == phase = "create" /\ json_items # << >>

Raise ==
    /\ phase' = "raised"
    /\ UNCHANGED <<doc, json_items, i, created, bound, dataset, ran>>

Postpone ==
    /\ Turn
    /\ ~Ready(Item) /\ ~Raises(Item)
    /\ i' = NextIndex(Len(json_items))
    /\ UNCHANGED <<doc, json_items, created, bound, dataset, phase, ran>>

CheckRaises == Turn /\ Raises(Item) /\ Raise

CreateRaises ==
    /\ Turn
    /\ Ready(Item)
    /\ ~Creatable(Item) \/ MayRefuse(Item)
    /\ Raise

Create ==
    /\ Turn
    /\ Ready(Item)
    /\ Creatable(Item)
    /\ bound' = [bound EXCEPT ![Item] = SetInputs(Item)]
    /\ created' = Append(created, Item)
    /\ dataset' = IF doc.class[Item] = "DataSet" THEN Item ELSE dataset
    /\ json_items' = SubSeq(json_items, 1, i) \o SubSeq(json_items, i + 2, Len(json_items))
    /\ i' = NextIndex(Len(json_items) - 1)
    /\ UNCHANGED <<doc, phase, ran>>

AllCreated ==
    /\ phase = "create" /\ json_items = << >>
    /\ phase' = "initialize"
    /\ UNCHANGED <<doc, json_items, i, created, bound, dataset, ran>>

-----------------------------------------------------------------------------
(* run_model.                                                              *)

\* What global_variables_initializer computes, without a feed.
InitialValues == UNION {Inputs(v) : v \in {x \in Created : doc.class[x] = "Variable"}}

\* A session may raise for what does not fit.
Misfit(R) == \E x \in Computed(R) : ~doc.fits[x]

\* External: initializers run in no given order, so that an initial value may
\* find the variable it is computed from without one.
InitializerRaises ==
    /\ phase = "initialize"
    /\ \/ Unfed(InitialValues, {}) \/ Misfit(InitialValues)
       \/ \E v \in Computed(InitialValues) : doc.class[v] = "Variable"
    /\ Raise

Initialize ==
    /\ phase = "initialize" /\ ~Unfed(InitialValues, {})
    /\ phase' = "train"
    /\ UNCHANGED <<doc, json_items, i, created, bound, dataset, ran>>

OfType(t) == {x \in Created : doc.type[x] = t}

\* Mutant: over all components.
DependenceNamesOfAll(t) ==
    UNION {{Named(doc.refs[x][k]) : k \in 1..Len(doc.refs[x])} : x \in Created}

\* get_dependence_names over the components of a type.
DependenceNames(t) ==
    UNION {{Named(doc.refs[x][k]) : k \in 1..Len(doc.refs[x])} : x \in OfType(t)}

ComponentsToRun(t) == OfType(t) \ DependenceNames(t)

\* Without a dataset get_handler is called on None.  Only the last data set
\* that was created is fed.
CanRun(t) == dataset # None /\ ~Unfed(ComponentsToRun(t), {dataset})

RunRaises ==
    /\ phase \in {"train", "test"}
    /\ ~CanRun(phase) \/ Misfit(ComponentsToRun(phase))
    /\ Raise

Run(t, next) ==
    /\ phase = t /\ CanRun(t)
    /\ ran' = [ran EXCEPT ![t] = ComponentsToRun(t)]
    /\ phase' = next
    /\ UNCHANGED <<doc, json_items, i, created, bound, dataset>>

RunTrain == Run("train", "test")
RunTest  == Run("test", "done")

Next ==
    \/ Postpone \/ CheckRaises \/ CreateRaises \/ Create \/ AllCreated
    \/ InitializerRaises \/ Initialize \/ RunRaises \/ RunTrain \/ RunTest

(* One thread; the session's calls return. *)
Spec == Init /\ [][Next]_vars /\ WF_vars(Next)

-----------------------------------------------------------------------------
(* Properties.                                                             *)

TypeOK ==
    /\ IsDocument(doc)
    /\ json_items \in Seq(Items)
    /\ created \in Seq(Items)
    /\ i \in Nat
    /\ bound \in [Items -> SUBSET Nat]
    /\ dataset \in Items \cup {None}
    /\ phase \in {"create", "initialize", "train", "test", "done", "raised"}
    /\ ran \in [{"train", "test"} -> SUBSET Items]

(* create_components never indexes past the shrinking list it cycles       *)
(* through: the index is recomputed after the removal of the item it names *)
(* (main.py, the last line of the loop).                                   *)
IndexInRange == json_items # << >> => i < Len(json_items)

(* A component is created after every component that one of its important  *)
(* inputs names, whatever the order of the items in the file; a plain      *)
(* important input has then been set.  This is what check_dependences and  *)
(* set_inputs, which read the value in two different ways, are for.        *)
DependencesFirst ==
    \A m \in 1..Len(created) : \A k \in 1..Len(doc.refs[created[m]]) :
       doc.refs[created[m]][k].important =>
          /\ \E j \in 1..(m - 1) : created[j] = doc.refs[created[m]][k].obj
          /\ doc.refs[created[m]][k].form = "plain" => k \in bound[created[m]]

(* Every "train" component is computed, by a training step or, if it is    *)
(* needed for nothing but the initial value of a variable, by the          *)
(* initializer, though only the ones no other "train" component names are  *)
(* handed to the session; provided each of their plain references to one   *)
(* another is an input of theirs (an optional one is not if the item it    *)
(* names is created later).                                                *)
AllInputs(t) ==
    \A x \in OfType(t) : \A k \in 1..Len(doc.refs[x]) :
       Named(doc.refs[x][k]) \in OfType(t) => doc.refs[x][k].obj \in Inputs(x)

TrainingComplete ==
    phase \in {"test", "done"} /\ AllInputs("train") =>
       OfType("train") \subseteq Computed(ran["train"] \cup InitialValues)

(* A well-formed document: loaded classes, one data set with enough        *)
(* examples, types and shapes that fit, no list of several references,     *)
(* inputs the classes have, of variables their components have, and for    *)
(* everything a class needs a parameter or an important plain input;       *)
(* initial values that no placeholder and no other variable is behind;     *)
(* and a trainable variable behind every loss, along important inputs that *)
(* are set once.                                                           *)
WellReferred(d, x) ==
    \A k \in 1..Len(d.refs[x]) :
       LET r == d.refs[x][k]
       IN  /\ r.form # "part"
           /\ r.name \in Loaded[d.class[x]].inputs \ Loaded[d.class[x]].tested
           /\ r.obj # 0 => r.var \in Outputs(d.class[r.obj])

Provided(d, x) ==
    Parameters(d.class[x], d.given[x], d.nulls[x])
    \cup {d.refs[x][k].name : k \in {m \in 1..Len(d.refs[x]) :
             d.refs[x][m].important /\ d.refs[x][m].form = "plain"}}

\* The items x may be computed from, and those its gradient is sure to follow.
Referred(d, x) == {d.refs[x][k].obj : k \in 1..Len(d.refs[x])} \cap (1..d.n)

MayNeed(d) ==
    [x \in 1..d.n |-> IF d.class[x] = "Variable" THEN {} ELSE Referred(d, x)]

InitialNeeds(d) == UNION {Referred(d, v) : v \in {x \in 1..d.n : d.class[x] = "Variable"}}

SurelyFollowed(d, x) ==
    {k \in 1..Len(d.refs[x]) :
       /\ d.refs[x][k].important /\ d.refs[x][k].form = "plain"
       /\ d.refs[x][k].name \in Differentiable(d.class[x])
       /\ \A later \in (k + 1)..Len(d.refs[x]) : d.refs[x][later].name # d.refs[x][k].name}

Follows(d) ==
    [x \in 1..d.n |-> {d.refs[x][k].obj : k \in SurelyFollowed(d, x)} \cap (1..d.n)]

Clean(d) ==
    /\ \A x \in 1..d.n : d.class[x] \in DOMAIN Loaded /\ d.fits[x]
    /\ Cardinality({x \in 1..d.n : d.class[x] = "DataSet"}) = 1
    /\ ~ReadRaises(d.train, ValidationSize)
    /\ \A x \in 1..d.n :
          /\ WellReferred(d, x)
          /\ \A need \in Loaded[d.class[x]].needs : need \cap Provided(d, x) # {}
          /\ d.class[x] \in Optimizers =>
                \E v \in Reach(d, Follows(d)[x], Follows(d)) : Trainable(d, v)
    /\ \A x \in Reach(d, InitialNeeds(d), MayNeed(d)) : d.class[x] \notin {"DataSet", "Variable"}

(* No exception stops the building, the initializing and the running of a  *)
(* well-formed document: optional inputs may name components that are not  *)
(* there, or not there yet, and cyclic ones only make create_components go *)
(* on for ever.                                                            *)
CleanNeverRaises == Clean(doc) => phase # "raised"

(* The important inputs can be put in an order: layer by layer every item  *)
(* is reached.                                                             *)
Acyclic(d) ==
    LET Layer[l \in 0..d.n] ==
          IF l = 0 THEN {}
          ELSE LET lower == Layer[l - 1]
               IN  {x \in 1..d.n : \A k \in 1..Len(d.refs[x]) :
                      d.refs[x][k].important => d.refs[x][k].obj \in lower}
    IN  Layer[d.n] = 1..d.n

(* create_components ends, with every component or with an exception, for  *)
(* every document without a cycle or an unknown name among its important   *)
(* inputs: the index may skip the item that moves into a removed one's     *)
(* place, but never for ever.                                              *)
BuildEnds == (phase = "create" /\ Acyclic(doc)) ~> (phase # "create")

=============================================================================
