----------------------------- MODULE MCTraining -----------------------------
(* Small documents for TLC, and the one that comes with the program. *)
EXTENDS Training

(* References that are written out, as pairs of an item and a reference; the *)
(* name of the input is added below.                                         *)
Plain(n)  == [obj : 1..n, var : {"result"}, important : BOOLEAN, form : {"plain"}]
Strict(n) == [obj : 1..n, var : {"result"}, important : {TRUE}, form : {"plain"}]
Odd(n)    == [obj : 0..n, var : {"result", "image"}, important : BOOLEAN, form : {"plain"}]
             \cup [obj : 1..n, var : {"result"}, important : BOOLEAN, form : {"single", "part"}]

(* At most L references shared out over n items, in file order. *)
Written(n, L, R) ==
    UNION {{e \in [1..m -> (1..n) \X R] : \A k \in 2..m : e[k - 1][1] <= e[k][1]} : m \in 0..L}

(* The k-th input of an item is x, the second y, and a third one x again. *)
RefsOf(n, e) ==
    [x \in 1..n |->
       LET mine == SelectSeq(e, LAMBDA p : p[1] = x)
       IN  [k \in 1..Len(mine) |->
              [obj |-> mine[k][2].obj, var |-> mine[k][2].var, form |-> mine[k][2].form,
               important |-> mine[k][2].important, name |-> IF k = 2 THEN "y" ELSE "x"]]]

(* An item "Op" is a Zeros, a Variable, a Square or an Add by its inputs; a  *)
(* Variable has an initial value, so that an optional input that is not set  *)
(* is made up for.                                                           *)
OpClass(refs) ==
    CASE Len(refs) = 0 -> "Zeros"
      [] Len(refs) = 1 -> IF refs[1].important THEN "Square" ELSE "Variable"
      [] OTHER         -> "Add"

Given == {"initial_value", "shape", "folder", "handler", "no_such_parameter"}

Document(refs, class, type, train) ==
    [n |-> Len(class), refs |-> refs,
     class |-> [x \in 1..Len(class) |-> IF class[x] = "Op" THEN OpClass(refs[x]) ELSE class[x]],
     type |-> type, given |-> [x \in 1..Len(class) |-> Given],
     nulls |-> [x \in 1..Len(class) |-> {"name"}], fits |-> [x \in 1..Len(class) |-> TRUE],
     train |-> train, test |-> 1]

Documented(n, L, R, C, T) ==
    {Document(RefsOf(n, e), c, t, ValidationSize + 1) : e \in Written(n, L, R), c \in C, t \in T}

C3 == {<<"Op", "Op", "DataSet">>, <<"DataSet", "Op", "Op">>, <<"Op", "Op", "Op">>,
       <<"DataSet", "Op", "DataSet">>, <<"Op", "DataSet", "Unknown">>}
T3 == {<<"train", "train", "train">>, <<"train", "test", "other">>}

(* math_model.json. *)
R(o, v, nm) == [obj |-> o, var |-> v, name |-> nm, important |-> TRUE, form |-> "plain"]
MathModel(train) ==
    [n |-> 15,
     refs |-> << << >>, << >>, <<R(2, "result", "x")>>, << >>,
                 <<[R(4, "result", "x") EXCEPT !.important = FALSE]>>,
                 <<R(1, "image", "a"), R(3, "result", "b")>>,
                 <<R(6, "result", "x"), R(5, "result", "y")>>,
                 <<R(1, "labels", "labels"), R(7, "result", "logits")>>,
                 <<R(8, "result", "input_tensor")>>, <<R(9, "result", "x")>>,
                 <<R(7, "result", "input")>>, <<R(1, "labels", "input")>>,
                 <<R(11, "result", "x"), R(12, "result", "y")>>,
                 <<R(13, "result", "x")>>, <<R(14, "result", "input_tensor")>> >>,
     class |-> <<"DataSet", "Zeros", "Variable", "Zeros", "Variable", "Matmul", "Add",
                 "SoftmaxCrossEntropyWithLogits", "ReduceMean", "GradientDescentOptimizer",
                 "Argmax", "Argmax", "Equal", "Cast", "ReduceMean">>,
     type |-> [x \in 1..15 |-> IF x < 8 THEN "other" ELSE IF x < 11 THEN "train" ELSE "test"],
     given |-> [x \in 1..15 |-> {"folder", "handler", "shape", "dtype", "initial_value",
                                 "dim", "learning_rate"}],
     nulls |-> [x \in 1..15 |-> {"name"}], fits |-> [x \in 1..15 |-> TRUE],
     train |-> train, test |-> 2]

(* A graph written backwards in its middle, with classes the program does    *)
(* not use.  The loss has the variable 4 behind it if "class" is Variable;   *)
(* its initial value may be computed from others.                            *)
Regression(class, initial, adam, given, nulls) ==
    [n |-> 7,
     refs |-> << <<R(2, "result", "input_tensor")>> \o adam, <<R(3, "result", "x")>>,
                 <<R(4, "result", "x"), R(5, "image", "y")>>,
                 IF class = "Variable" THEN initial
                                       ELSE <<R(5, "image", "x"), R(5, "labels", "y")>>,
                 << >>, <<R(7, "result", "x")>>, << >> >>,
     class |-> <<"AdamOptimizer", "ReduceSum", "Subtract", class, "DataSet", "Square", "Zeros">>,
     type |-> <<"train", "train", "train", "train", "other", "train", "train">>,
     given |-> [x \in 1..7 |-> given], nulls |-> [x \in 1..7 |-> nulls],
     fits |-> [x \in 1..7 |-> TRUE], train |-> ValidationSize + 3, test |-> 1]

All == {"folder", "handler", "shape", "initial_value"}

(* With and without a gradient or something to train, and initial values     *)
(* computed from zeros, from the data set and from nothing.                  *)
Regressions ==
    {Regression("Variable", initial, << >>, All, nulls) :
        initial \in {<<R(6, "result", "x")>>, <<R(5, "image", "x")>>, << >>},
        nulls \in {{"use_locking"}, {"trainable"}}}
    \cup {Regression(class, << >>, << >>, All, {}) : class \in {"Multiply", "Equal"}}
    \cup {Regression("Variable", << >>, << >>, {"folder"}, {}),
          Regression("Variable", << >>, <<R(6, "result", "iteration_count")>>, All, {}),
          [Regression("Variable", << >>, << >>, All, {}) EXCEPT !.fits[3] = FALSE]}

Whole == {MathModel(ValidationSize + k) : k \in {0, 3}} \cup Regressions
         \cup {[MathModel(ValidationSize - 1) EXCEPT !.nulls = [x \in 1..15 |-> {}]]}

MCDocuments ==
    {\* every pair of references over three items, faulty ones included
     Documented(3, 2, Odd(3), C3, {<<"train", "train", "test">>}),
     \* every triple of well-formed ones
     Documented(3, 3, Plain(3), {<<"Op", "Op", "DataSet">>, <<"DataSet", "Op", "Op">>}, T3),
     \* longer chains of important ones, beside the data set
     Documented(4, 3, Strict(4), {<<"Op", "DataSet", "Op", "Op">>},
                {<<"train", "other", "train", "train">>}),
     Whole}
=============================================================================
