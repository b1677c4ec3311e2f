------------------------------ MODULE Training ------------------------------
(***************************************************************************)
(* The model builder with the data it trains on: GraphBuilder, whose runs  *)
(* are one step each, with run_train's loop over batches and run_test's    *)
(* one batch, fed from the data set that create_components left in the     *)
(* global `dataset`.  The handler's three data sets belong to it: a second *)
(* DataSet item brings its own and replaces them.                          *)
(***************************************************************************)
EXTENDS GraphBuilder

CONSTANTS
    Iterations,     \* run_train's 1000
    BatchSize       \* the 100 of both runs

ASSUME TrainingAssumption == Iterations \in Nat \ {0} /\ BatchSize \in Nat \ {0}

VARIABLES
    datasets,       \* the handler's data sets
    cur_dataset,    \* the name of its current one
    fed             \* history: the batches given to the session, oldest first

tvars == <<vars, datasets, cur_dataset, fed>>

TInit ==
    /\ Init
    /\ datasets = ReadDataSets(0, 0, 0)
    /\ cur_dataset = "train"
    /\ fed = << >>

\* switch_iteration; the enumeration has no member VALIDATION, so any other
\* value than these two raises.  No run asks for one.
SwitchIteration(iteration) == IF iteration = "TRAIN" THEN "train" ELSE "test"

\* A new handler begins with its training set.
TCreate ==
    /\ Create
    /\ IF doc.class[Item] = "DataSet"
       THEN /\ datasets' = ReadDataSets(doc.train, doc.test, ValidationSize)
            /\ cur_dataset' = SwitchIteration("TRAIN")
       ELSE UNCHANGED <<datasets, cur_dataset>>
    /\ fed' = fed

\* fill_next_feed_dict on a data set, and the session's run on what it returns.
Feed(split) ==
    \E perm0 \in Orders(datasets[split], FirstBatch(datasets[split])),
       perm \in Orders(datasets[split], EndsEpoch(datasets[split], BatchSize)) :
       LET next == NextBatch(datasets[split], BatchSize, perm0, perm)
       IN  /\ datasets' = [datasets EXCEPT ![split] = next.ds]
           /\ fed' = Append(fed, [split |-> split, images |-> next.images,
                                  labels |-> next.labels])

\* One turn of run_train's loop; the last one ends the run.
TrainStep ==
    /\ phase = "train" /\ CanRun("train")
    /\ cur_dataset' = SwitchIteration("TRAIN")
    /\ Feed(cur_dataset')
    /\ IF Len(fed) + 1 = Iterations THEN RunTrain ELSE UNCHANGED vars

TestStep ==
    /\ RunTest
    /\ cur_dataset' = SwitchIteration("TEST")
    /\ Feed(cur_dataset')

Elsewhere ==
    /\ \/ Postpone \/ CheckRaises \/ CreateRaises \/ AllCreated
       \/ InitializerRaises \/ Initialize \/ RunRaises
    /\ UNCHANGED <<datasets, cur_dataset, fed>>

TNext == Elsewhere \/ TCreate \/ TrainStep \/ TestStep

TSpec == TInit /\ [][TNext]_tvars /\ WF_tvars(TNext)

-----------------------------------------------------------------------------
(* Properties.                                                             *)

(* Whatever the sizes, an image goes with its own label, no batch of       *)
(* run_train holds an example kept for validation or from the test files,  *)
(* and the batch of run_test holds test examples only.                     *)
FedFromItsSplit ==
    \A m \in 1..Len(fed) :
       /\ fed[m].images = fed[m].labels
       /\ \A k \in 1..Len(fed[m].images) :
             IF m <= Iterations THEN fed[m].images[k] \in (ValidationSize + 1)..doc.train
                                ELSE fed[m].images[k] > doc.train

(* How many of the batches were run_train's, and the epoch of the k-th     *)
(* example of the m-th of them, if they are full: its number, counted from *)
(* 0 over all batches, divided by the size of the data set.                *)
Trained == IF Len(fed) < Iterations THEN Len(fed) ELSE Iterations

Epoch(m, k) == ((m - 1) * BatchSize + (k - 1)) \div NumExamples(datasets["train"])

(* Every batch of next_batch is from its own split.  If a batch is no      *)
(* larger than the data set, it is full and no epoch serves an example     *)
(* twice, across the batches that span two epochs and the shuffle between  *)
(* them.                                                                   *)
EpochsExact ==
    /\ FedFromItsSplit
    /\ BatchSize <= NumExamples(datasets["train"]) =>
          /\ \A m \in 1..Trained : Len(fed[m].images) = BatchSize
          /\ \A m1, m2 \in 1..Trained, k1, k2 \in 1..BatchSize :
                (m1 # m2 \/ k1 # k2) /\ Epoch(m1, k1) = Epoch(m2, k2) =>
                   fed[m1].images[k1] # fed[m2].images[k2]

=============================================================================
