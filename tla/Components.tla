----------------------------- MODULE Components -----------------------------
(***************************************************************************)
(* The component classes (tensorflow/components).  A class is described by *)
(* what the rest of the program sees of it: the inputs and the parameters  *)
(* its constructor adds, the parameters that have a value from the start,  *)
(* what init cannot do without (every member of "needs" is a set of names  *)
(* of which one must have a value) and the inputs that init tests as a     *)
(* boolean, which a tensor refuses.                                        *)
(*                                                                         *)
(* What TensorFlow does with a missing argument is external: it raises for *)
(* a tensor, a shape, a type, an optimizer's coefficient, an initial value *)
(* or a class dimension that is None and takes None for every other one.   *)
(* External too is which inputs of an operation an optimizer follows back  *)
(* to the variables it trains.                                             *)
(* The "important" flags of the classes are not here: no code reads them.  *)
(***************************************************************************)

Class(inputs, params, defaults, needs, tested) ==
    [inputs |-> inputs, params |-> params, defaults |-> defaults,
     needs |-> needs, tested |-> tested]

OwnName == {"name"}

\* Element-wise operations of two tensors.
Add      == Class({"x", "y"}, OwnName, OwnName, {{"x"}, {"y"}}, {})
Subtract == Class({"x", "y"}, OwnName, OwnName, {{"x"}, {"y"}}, {})
Multiply == Class({"x", "y"}, OwnName, OwnName, {{"x"}, {"y"}}, {})
Equal    == Class({"x", "y"}, OwnName, OwnName, {{"x"}, {"y"}}, {})
Square   == Class({"x"}, OwnName, OwnName, {{"x"}}, {})

\* cast is named after its type: init reads DTYPE twice.
Cast == Class({"x"}, {"name", "dtype"}, OwnName, {{"x"}, {"dtype"}}, {})

Argmax == Class({"input"}, {"axis", "name", "output_type"}, OwnName, {{"input"}}, {})

Matmul ==
    Class({"a", "b"},
          {"transpose_a", "transpose_b", "adjoint_a", "adjoint_b",
           "a_is_sparse", "b_is_sparse", "name"},
          OwnName, {{"a"}, {"b"}}, {})

Reduction == {"axis", "keep_dims", "name", "reduction_indices"}
ReduceMean == Class({"input_tensor"}, Reduction, {"keep_dims", "name"}, {{"input_tensor"}}, {})
ReduceSum  == Class({"x"}, Reduction, {"keep_dims", "name"}, {{"x"}}, {})

SoftmaxCrossEntropyWithLogits ==
    Class({"labels", "logits"}, {"_sentinel", "name", "dim"}, OwnName,
          {{"labels"}, {"logits"}, {"dim"}}, {})

\* The input, or the parameter when the input is None.
Variable ==
    Class({"x"},
          {"initial_value", "trainable", "collections", "validate_shape", "caching_device",
           "variable_def", "dtype", "expected_shape", "import_scope", "name"},
          {"trainable", "validate_shape", "name"},
          {{"x", "initial_value"}}, {})

Zeros == Class({}, {"shape", "dtype", "name"}, {"dtype", "name"}, {{"shape"}, {"dtype"}}, {})

\* No setter is called for the arguments of minimize: they keep their defaults.
GradientDescentOptimizer ==
    Class({"x"}, {"learning_rate", "use_locking", "name"}, OwnName,
          {{"x"}, {"learning_rate"}}, {})

AdamOptimizer ==
    Class({"input_tensor", "iteration_count"},
          {"iteration_count", "learning_rate", "beta1", "beta2", "epsilon", "use_locking", "name"},
          {"iteration_count", "learning_rate", "beta1", "beta2", "epsilon", "use_locking", "name"},
          {{"input_tensor"}, {"learning_rate"}, {"beta1"}, {"beta2"}, {"epsilon"}},
          {"iteration_count"})

DataSet ==
    Class({}, {"git_link", "folder", "name", "outputs_description", "handler"}, {},
          {{"folder"}, {"handler"}}, {})

\* The classes ComponentLoader has loaded, by name; Base is passed over.
Loaded ==
    [Add |-> Add, Subtract |-> Subtract, Multiply |-> Multiply, Equal |-> Equal,
     Square |-> Square, Cast |-> Cast, Argmax |-> Argmax, Matmul |-> Matmul,
     ReduceMean |-> ReduceMean, ReduceSum |-> ReduceSum,
     SoftmaxCrossEntropyWithLogits |-> SoftmaxCrossEntropyWithLogits,
     Variable |-> Variable, Zeros |-> Zeros,
     GradientDescentOptimizer |-> GradientDescentOptimizer,
     AdamOptimizer |-> AdamOptimizer, DataSet |-> DataSet]

\* minimize of an optimizer: its loss is the first input.
Optimizers == {"GradientDescentOptimizer", "AdamOptimizer"}

\* External: the inputs along which an operation passes a gradient on.  A
\* Variable is where the gradient ends, whatever its initial value came from.
Differentiable(class) ==
    CASE class \in {"Variable", "Argmax", "Equal"} -> {}
      [] class = "SoftmaxCrossEntropyWithLogits"  -> {"logits"}
      [] class = "AdamOptimizer"                  -> {"input_tensor"}
      [] OTHER                                    -> Loaded[class].inputs

\* The outputs init returns: the placeholders of the data set's handler, or
\* the one result of an operation.
Outputs(class) == IF class = "DataSet" THEN {"image", "labels"} ELSE {"result"}

\* Base.set_input raises for a name the constructor did not add.
HasInput(class, name) == name \in Loaded[class].inputs

\* The parameters with a value, after the document has given some a value and
\* set some to null.  set_param raises for a name that was not added, and
\* set_params of main.py catches the exception and goes on.
Parameters(class, given, nulls) ==
    (given \cap Loaded[class].params) \cup (Loaded[class].defaults \ nulls)

\* init, with tensors for the inputs `set`.
InitRaises(class, set, given, nulls) ==
    \/ \E need \in Loaded[class].needs : need \cap (set \cup Parameters(class, given, nulls)) = {}
    \/ set \cap Loaded[class].tested # {}
=============================================================================
