---------------------------- MODULE GraphOptimizer ----------------------------
(***************************************************************************)
(* Graphs of the Python runtime, what NumpyBackend computes for them, and  *)
(* the passes of optimize_graph.                                           *)
(*                                                                         *)
(* A value's name is a number: names sort like their numbers.  A node is   *)
(* [op, in, out, attr, act]: attr its numbers (axes, a shape, ...), act    *)
(* the activation of a FusedLinear.  A graph is [inputs, constants, nodes, *)
(* outputs].  An array is its element type, its shape and a term: the      *)
(* operators it went through.  a + b and b + a are the same array.         *)
(*                                                                         *)
(* Element types are the numeric ones of supported_dtypes.  Booleans are   *)
(* left out: NumPy refuses them the minus of Sub, Sigmoid and Softmax.     *)
(***************************************************************************)
EXTENDS Integers, Sequences, FiniteSets, SequencesExt, FiniteSetsExt, Functions, TLC

NoAct       == "none"
Activations == {"Relu", "Gelu", "Sigmoid", "Tanh"}
Commutative == {"Add", "Mul"}
Elementwise == Commutative \cup {"Sub", "Div"}

Array(term, shape, dtype) == [term |-> term, shape |-> shape, dtype |-> dtype]

Product(s) == FoldLeft(LAMBDA a, b : a * b, 1, s)

------------------------------------------------------------------------------
(* NumPy: the shape of a result.                                              *)

\* s with ones before it, up to n dimensions.
Padded(s, n) == [i \in 1 .. n - Len(s) |-> 1] \o s

Broadcast(a, b) ==
  LET n == Max({Len(a), Len(b)})
  IN  [i \in 1 .. n |-> Max({Padded(a, n)[i], Padded(b, n)[i]})]

\* A vector is a matrix of one row on the left, of one column on the right.
MatMulShape(a, b) ==
  Broadcast(SubSeq(a, 1, Len(a) - 2), SubSeq(b, 1, Len(b) - 2))
    \o (IF Len(a) = 1 THEN <<>> ELSE <<a[Len(a) - 1]>>)
    \o (IF Len(b) = 1 THEN <<>> ELSE <<b[Len(b)]>>)

\* The dimension asked for as -1 takes what the others leave.
Reshaped(s, asked) ==
  [i \in DOMAIN asked |->
     IF asked[i] # -1 THEN asked[i]
     ELSE Product(s) \div Product(SelectSeq(asked, LAMBDA d : d # -1))]

\* The indices range(dim)[from:to:step]: negative bounds count from the end.
Indices(dim, from, to, step) ==
  LET at(k)  == IF k < 0 THEN k + dim ELSE k
      in(k)  == step > 0 /\ at(from) <= k /\ k < at(to)
      out(k) == step < 0 /\ at(to) < k /\ k <= at(from)
      met    == {k \in 0 .. dim - 1 : in(k) \/ out(k)}
      first  == IF step > 0 THEN Min(met) ELSE Max(met)
  IN  {k \in met : (k - first) % Max({step, -step}) = 0}

\* The places of a window of k elements, d apart, s apart, on n elements.
Windows(n, k, s, d) == {i \in 0 .. n - 1 : i * s + (k - 1) * d + 1 <= n}

Axis(axis, s) == IF axis < 0 THEN axis + Len(s) + 1 ELSE axis + 1

\* A matrix of each batch turned.
Swapped(s) == SubSeq(s, 1, Len(s) - 2) \o <<Last(s), s[Len(s) - 1]>>

\* A parameter of each channel, where x has n dimensions.
PerChannel(s, n) == <<1>> \o s \o [i \in 1 .. n - 2 |-> 1]

\* The half of each row that cosines and sines are applied to.
Halved(s) == [s EXCEPT ![Len(s)] = @ \div 2]

\* _rope, with the first elements of rows of cosines and sines: those of a result
\* written into an array like x, or of two halves put side by side.
RoPEShape(interleaved, s) ==
  LET half   == Last(s[1]) \div 2
      cut(c) == [c EXCEPT ![Len(c)] = Min({@, half})]
      turned == Broadcast(Broadcast(Halved(s[1]), cut(s[2])), cut(s[3]))
  IN  IF interleaved THEN s[1] ELSE [turned EXCEPT ![Len(turned)] = 2 * @]

\* attr of a Slice is <<start, end, axis, step>>, of a MaxPool the kernel, the
\* pads (top, left, bottom, right), the strides and the dilations, of a RoPE <<1>>
\* if it is interleaved and <<0>> if not, of a Cast its target.
ShapeOf(op, a, s) ==
  CASE op \in Elementwise -> Broadcast(s[1], s[2])
    [] op = "BatchNormalization" ->
         FoldLeft(LAMBDA x, i : Broadcast(x, PerChannel(s[i], Len(s[1]))), s[1], <<4, 5, 2, 3>>)
    [] op = "LayerNorm" -> FoldLeft(Broadcast, s[1], Tail(s))
    [] op = "MatMul"    -> MatMulShape(s[1], s[2])
    [] op = "Reshape"   -> Reshaped(s[1], a)
    [] op = "Transpose" -> [i \in DOMAIN a |-> s[1][a[i] + 1]]
    [] op = "Concat"    -> [s[1] EXCEPT ![Axis(a[1], s[1])] =
                              FoldLeft(LAMBDA n, t : n + t[Axis(a[1], t)], 0, s)]
    [] op = "Slice"     -> [s[1] EXCEPT ![Axis(a[3], s[1])] = Cardinality(Indices(@, a[1], a[2], a[4]))]
    [] op = "MaxPool"   -> <<s[1][1], s[1][2],
                             Cardinality(Windows(s[1][3] + a[3] + a[5], a[1], a[7], a[9])),
                             Cardinality(Windows(s[1][4] + a[4] + a[6], a[2], a[8], a[10]))>>
    [] op = "Embedding" -> s[1] \o <<Last(s[2])>>
    [] op = "SDPA"      -> MatMulShape(MatMulShape(s[1], Swapped(s[2])), s[3])
    [] op = "RoPE"      -> RoPEShape(a = <<1>>, s)
    [] OTHER            -> s[1]

------------------------------------------------------------------------------
(* NumPy: the element type of a result (NumPy 2, where a scalar such as       *)
(* np.sqrt(2.0) counts with its own type and a Python number does not).       *)

Integral == {"int32", "int64"}

\* numpy.result_type: float32 does not hold the integers.
Promoted(types) ==
  IF Cardinality(types) = 1 THEN CHOOSE d \in types : TRUE
  ELSE IF types \subseteq Integral THEN "int64" ELSE "float64"

\* True division, means, exp, tanh and products with a Python float.
Floating(d) == IF d \in Integral THEN "float64" ELSE d

\* The target types of a Cast, by their numbers in ONNX.
_ONNX_ELEM_TO_NP == (1 :> "float32") @@ (6 :> "int32") @@ (7 :> "int64") @@ (11 :> "float64")

\* d: the types of the operands.  _gelu has a factor np.sqrt(2.0 / np.pi), or divides
\* by np.sqrt(2.0); interleaved rows are written into an array like the first operand.
TypeOf(op, a, d) ==
  CASE op = "Cast"      -> _ONNX_ELEM_TO_NP[a[1]]
    [] op = "Embedding" -> d[2]
    [] op = "Gelu"      -> "float64"
    [] op = "RoPE" /\ a = <<1>> -> d[1]
    [] op \in {"Sigmoid", "Tanh", "Softmax", "LeakyRelu"} -> Floating(d[1])
    [] op = "Div"       -> Floating(Promoted(Range(d)))
    [] op = "LayerNorm" -> Promoted({Floating(d[1])} \cup Range(Tail(d)))
    [] op = "BatchNormalization" -> Promoted({Floating(d[5])} \cup Range(d))
    [] op = "SDPA"      -> Promoted({Floating(Promoted({d[1], d[2]})), d[3]})
    [] OTHER            -> Promoted(Range(d))

Apply(op, a, xs) ==
  Array([op |-> op, attr |-> a,
         args |-> {<<IF op \in Commutative THEN 0 ELSE i, xs[i].term>> : i \in DOMAIN xs}],
        ShapeOf(op, a, [i \in DOMAIN xs |-> xs[i].shape]),
        TypeOf(op, a, [i \in DOMAIN xs |-> xs[i].dtype]))

\* _eval of a FusedLinear: matrix product, then the bias, then the activation.
Linear(n, xs) ==
  LET product == Apply("MatMul", <<>>, SubSeq(xs, 1, 2))
      biased  == IF Len(xs) > 2 THEN Apply("Add", <<>>, <<product, xs[3]>>) ELSE product
  IN  IF n.act # NoAct THEN Apply(n.act, n.attr, <<biased>>) ELSE biased

\* vals holds the arrays of n's inputs.
Evaluated(n, vals) ==
  LET xs == [i \in DOMAIN n.in |-> vals[n.in[i]]]
  IN  IF n.op = "Identity" THEN xs[1]
      ELSE IF n.op = "FusedLinear" THEN Linear(n, xs)
      ELSE Apply(n.op, n.attr, xs)

\* What the graph g means, given arrays for its inputs: every value's array.
Meaning(g, fed) ==
  FoldLeft(LAMBDA vals, n : vals @@ (n.out :> Evaluated(n, vals)), g.constants @@ fed, g.nodes)

------------------------------------------------------------------------------
(* optimize_graph                                                             *)

PURE_NUMPY == {"Add", "Sub", "Mul", "Div", "MatMul", "BatchNormalization", "Relu", "Gelu",
               "Sigmoid", "Tanh", "Softmax", "Reshape", "Transpose", "Concat", "LayerNorm",
               "Identity"}

\* Pass 1: a node whose inputs are all constants becomes one.
constant_folding(g) ==
  FoldLeft(LAMBDA h, n :
             IF n.op \in PURE_NUMPY /\ Range(n.in) \subseteq DOMAIN h.constants
             THEN [h EXCEPT !.constants = @ @@ (n.out :> Evaluated(n, @))]
             ELSE [h EXCEPT !.nodes = Append(@, n)],
           [g EXCEPT !.nodes = <<>>], g.nodes)

_replace_input(ns, old, new) ==
  [j \in DOMAIN ns |->
     [ns[j] EXCEPT !.in = [i \in DOMAIN @ |-> IF @[i] = old THEN new ELSE @[i]]]]

Eliminated(g, n) == n.op = "Identity" /\ n.out \notin g.outputs

\* Pass 2: the readers of an Identity read what it reads.
identity_elimination(g) ==
  LET rerouted == FoldLeft(LAMBDA ns, i :
                             IF Eliminated(g, ns[i]) THEN _replace_input(ns, ns[i].out, ns[i].in[1]) ELSE ns,
                           g.nodes, [i \in DOMAIN g.nodes |-> i])
  IN  [g EXCEPT !.nodes = SelectSeq(rerouted, LAMBDA n : ~Eliminated(g, n))]

\* How many inputs of nodes the value is.
_consumer_count(ns, v) ==
  FoldLeft(LAMBDA c, n : c + Cardinality({i \in DOMAIN n.in : n.in[i] = v}), 0, ns)

\* The places of the Adds and of the activations that read v.
Adds(ns, v) == {j \in DOMAIN ns : ns[j].op = "Add" /\ v \in Range(ns[j].in)}
Acts(ns, v) == {j \in DOMAIN ns : ns[j].op \in Activations /\ ns[j].in = <<v>>}

\* (mutant of Claimed: whether others read v, too, does not matter)
Claimed_Shared(ns, v, readers) == IF readers # {} THEN {Min(readers)} ELSE {}

\* The only reader of v, if it is one of readers.
Claimed(ns, v, readers) ==
  IF _consumer_count(ns, v) = 1 /\ readers # {} THEN {Min(readers)} ELSE {}

\* The nodes that are fused into the MatMul at i.
FusedAdd(ns, i) == Claimed(ns, ns[i].out, Adds(ns, ns[i].out))
SumOf(ns, i)    == IF FusedAdd(ns, i) = {} THEN ns[i].out ELSE ns[Min(FusedAdd(ns, i))].out
FusedAct(ns, i) == Claimed(ns, SumOf(ns, i), Acts(ns, SumOf(ns, i)))
Consumed(ns, i) == FusedAdd(ns, i) \cup FusedAct(ns, i)

Fuses(g, i) == /\ g.nodes[i].op = "MatMul" /\ g.nodes[i].out \notin g.outputs
               /\ Consumed(g.nodes, i) # {}

\* The operand of the Add that is not the product.
Bias(ns, i, add) == IF ns[add].in[1] = ns[i].out THEN <<ns[add].in[2]>> ELSE <<ns[add].in[1]>>

FusedLinear(ns, i) ==
  LET sum == FusedAdd(ns, i)
      act == FusedAct(ns, i)
  IN  [op   |-> "FusedLinear",
       in   |-> ns[i].in \o (IF sum = {} THEN <<>> ELSE Bias(ns, i, Min(sum))),
       out  |-> IF act = {} THEN SumOf(ns, i) ELSE ns[Min(act)].out,
       attr |-> IF act = {} THEN <<>> ELSE ns[Min(act)].attr,
       act  |-> IF act = {} THEN NoAct ELSE ns[Min(act)].op]

\* Pass 3: each MatMul takes its bias and its activation to its own place.
fusion(g) ==
  LET skip(i) == \E j \in 1 .. i - 1 : Fuses(g, j) /\ i \in Consumed(g.nodes, j)
      kept    == SelectSeq([i \in DOMAIN g.nodes |-> i], LAMBDA i : ~skip(i))
  IN  [g EXCEPT !.nodes = [p \in DOMAIN kept |->
         IF Fuses(g, kept[p]) THEN FusedLinear(g.nodes, kept[p]) ELSE g.nodes[kept[p]]]]

Cleaned(g)        == identity_elimination(constant_folding(g))
optimize_graph(g) == fusion(Cleaned(g))
================================================================================
