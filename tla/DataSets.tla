------------------------------ MODULE DataSets ------------------------------
(***************************************************************************)
(* The data sets of a model (tensorflow/dataset): the MNIST files read     *)
(* into a training, a validation and a test set, each of which serves its  *)
(* examples in batches and shuffles them between epochs.                   *)
(*                                                                         *)
(* An example is a number; images and labels are two sequences of them, so *)
(* that a batch pairs an image with its label when both are of one number. *)
(* Training examples are 1..n, those of the test files n + 1, ...  What    *)
(* the files contain, their conversion to floats and the one-hot encoding  *)
(* are left out.                                                           *)
(***************************************************************************)
EXTENDS Integers, Sequences, Functions

\* A data set before its first batch.
NewDataSet(examples) ==
    [images |-> examples, labels |-> examples, index_in_epoch |-> 0, epochs_completed |-> 0]

\* A sequence of the numbers after a up to b.
Numbers(a, b) == [k \in 1..(b - a) |-> a + k]

\* read_data_sets: the first validation_size training examples are kept apart.
ReadDataSets(train, test, validation_size) ==
    [train      |-> NewDataSet(Numbers(validation_size, train)),
     validation |-> NewDataSet(Numbers(0, validation_size)),
     test       |-> NewDataSet(Numbers(train, train + test))]

ReadRaises(train, validation_size) == validation_size > train

\* Python's s[from:to], for from >= 0 and to >= 0.
Slice(s, from, to) == SubSeq(s, from + 1, IF to < Len(s) THEN to ELSE Len(s))

\* s[perm]
Permuted(s, perm) == [k \in 1..Len(s) |-> s[perm[k]]]

Shuffled(ds, perm) ==
    [ds EXCEPT !.images = Permuted(@, perm), !.labels = Permuted(@, perm)]

NumExamples(ds) == Len(ds.images)

\* Whether next_batch shuffles before it begins, and whether it ends an epoch.
FirstBatch(ds) == ds.epochs_completed = 0 /\ ds.index_in_epoch = 0
EndsEpoch(ds, batch_size) == ds.index_in_epoch + batch_size > NumExamples(ds)

\* The outcomes of numpy.random.shuffle, where it is called.
Orders(ds, shuffles) ==
    IF shuffles THEN Bijection(1..NumExamples(ds), 1..NumExamples(ds))
                ELSE {[k \in 1..NumExamples(ds) |-> k]}

\* Mutant: the new epoch begins with a full batch.
NextBatchRestarts(ds, batch_size, perm0, perm) ==
    LET served == Shuffled(ds, IF EndsEpoch(ds, batch_size) THEN perm ELSE perm0)
        start  == IF EndsEpoch(ds, batch_size) THEN 0 ELSE ds.index_in_epoch
    IN  [ds     |-> [served EXCEPT !.index_in_epoch = start + batch_size],
         images |-> Slice(served.images, start, start + batch_size),
         labels |-> Slice(served.labels, start, start + batch_size)]

\* next_batch: the data set afterwards and what it returns.  perm0 and perm
\* are the results of its two shuffles.
NextBatch(ds, batch_size, perm0, perm) ==
    LET start  == ds.index_in_epoch
        served == IF FirstBatch(ds) THEN Shuffled(ds, perm0) ELSE ds
    IN  IF EndsEpoch(ds, batch_size)
        THEN LET end  == batch_size - (NumExamples(ds) - start)
                 next == Shuffled(served, perm)
             IN  [ds     |-> [next EXCEPT !.index_in_epoch = end, !.epochs_completed = @ + 1],
                  images |-> Slice(served.images, start, NumExamples(ds))
                             \o Slice(next.images, 0, end),
                  labels |-> Slice(served.labels, start, NumExamples(ds))
                             \o Slice(next.labels, 0, end)]
        ELSE [ds     |-> [served EXCEPT !.index_in_epoch = start + batch_size],
              images |-> Slice(served.images, start, start + batch_size),
              labels |-> Slice(served.labels, start, start + batch_size)]
=============================================================================
