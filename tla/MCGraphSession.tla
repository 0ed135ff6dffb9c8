---------------------------- MODULE MCGraphSession ----------------------------
(* Graphs of matrices of two by two for the optimizer, of chains and branches  *)
(* under several names for the allocator, and of every operator for the specs. *)
EXTENDS GraphSession

N(op, out, in) == [op |-> op, in |-> in, out |-> out, attr |-> <<>>, act |-> NoAct]

With(op, out, in, attr) == [N(op, out, in) EXCEPT !.attr = attr]

Const(v, shape, dtype) == Array([op |-> "constant", attr |-> <<v>>, args |-> {}], shape, dtype)

F == "float32"

\* Value 1 is the input, value 2 a constant, both of two by two.
Square(nodes, outputs) ==
  [inputs |-> (1 :> SpecOf(<<2, 2>>, F)), constants |-> (2 :> Const(2, <<2, 2>>, F)),
   nodes |-> nodes, outputs |-> outputs]

\* Every graph of three nodes of these operators, the last value its output and
\* one of the others, too.
Op(out) ==
  {N(op, out, <<a>>) : op \in {"Relu", "Identity"}, a \in 1 .. out - 1}
    \cup {N(op, out, <<a, b>>) : op \in {"Add", "MatMul"}, a \in 1 .. out - 1, b \in 1 .. out - 1}

Small ==
  {Square(<<a, b, c>>, {5} \cup o) : a \in Op(3), b \in Op(4), c \in Op(5), o \in {{}, {3}, {4}}}

\* Nodes that read one earlier value each, named in the order p.
Chain(reads, p) ==
  LET name(i) == IF i = 0 THEN 1 ELSE 2 + p[i]
  IN  Square([i \in DOMAIN reads |-> N("Relu", name(i), <<name(reads[i])>>)], {name(Len(reads))})

Trees ==
  {Chain(r, p) : r \in {f \in [1 .. 5 -> 0 .. 4] : \A i \in 1 .. 5 : f[i] < i},
                 p \in {<<1, 2, 3, 4, 5>>, <<5, 4, 3, 2, 1>>, <<3, 1, 5, 2, 4>>, <<2, 5, 1, 4, 3>>}}

Fusions ==
  { \* the sum of two products
    Square(<<N("MatMul", 3, <<1, 2>>), N("MatMul", 4, <<2, 1>>), N("Add", 5, <<3, 4>>), N("Relu", 6, <<5>>)>>, {6}),
    \* a bias made between the product and the sum, and one made before both
    Square(<<N("MatMul", 3, <<1, 2>>), N("Sigmoid", 4, <<1>>), N("Add", 5, <<4, 3>>), N("Gelu", 6, <<5>>)>>, {6}),
    Square(<<N("Sigmoid", 3, <<1>>), N("MatMul", 4, <<1, 2>>), N("Add", 5, <<3, 4>>), N("Gelu", 6, <<5>>)>>, {6}),
    \* a bias that fusing makes earlier
    Square(<<N("MatMul", 3, <<1, 2>>), N("MatMul", 4, <<2, 1>>), N("Tanh", 5, <<3>>), N("Add", 6, <<4, 5>>)>>, {6}),
    \* a sum that is an output, and one that is read twice
    Square(<<N("MatMul", 3, <<1, 2>>), N("Add", 4, <<3, 2>>), N("Relu", 5, <<4>>)>>, {4, 5}),
    Square(<<N("MatMul", 3, <<1, 2>>), N("Add", 4, <<3, 2>>), N("Relu", 5, <<4>>), N("Mul", 6, <<4, 5>>)>>, {6}),
    \* two layers with a folded weight and identities between them
    Square(<<N("MatMul", 3, <<2, 2>>), N("MatMul", 4, <<1, 3>>), N("Identity", 5, <<4>>), N("Add", 6, <<2, 5>>),
             N("Relu", 7, <<6>>), N("Identity", 8, <<7>>), N("MatMul", 9, <<8, 2>>), N("Tanh", 10, <<9>>),
             N("Identity", 11, <<10>>)>>, {11}),
    \* a residual branch around two layers
    Square(<<N("MatMul", 3, <<1, 2>>), N("Relu", 4, <<3>>), N("MatMul", 5, <<4, 2>>), N("Add", 6, <<5, 1>>),
             N("Softmax", 7, <<6>>), N("Add", 8, <<7, 4>>)>>, {8}) }

Graph(inputs, constants, nodes, outputs) ==
  [inputs |-> inputs, constants |-> constants, nodes |-> nodes, outputs |-> outputs]

Operators ==
  { \* values of sizes that are not known, before and between others
    Graph(1 :> SpecOf(<<4, 4>>, F), 2 :> Const(2, <<4, 4>>, F),
          <<N("LeakyRelu", 3, <<1>>), N("Relu", 4, <<1>>), N("Add", 5, <<3, 4>>), With("Cast", 6, <<4>>, <<11>>),
            N("Relu", 7, <<6>>), N("MatMul", 8, <<5, 2>>), N("Add", 9, <<7, 8>>)>>, {9}),
    \* a batch that is not known, vectors and matrices
    Graph(1 :> SpecOf(<<-1, 2>>, F), (2 :> Const(2, <<2, 3>>, F)) @@ (3 :> Const(3, <<3>>, F)),
          <<N("MatMul", 4, <<1, 2>>), N("Add", 5, <<4, 3>>), N("Relu", 6, <<5>>), N("MatMul", 7, <<6, 3>>),
            With("Reshape", 8, <<6>>, <<-1, 1>>), With("Transpose", 9, <<6>>, <<1, 0>>)>>, {7, 8, 9}),
    \* products over batches, both ways
    Graph((1 :> SpecOf(<<2, 1, 2, 3>>, F)) @@ (2 :> SpecOf(<<4, 3, 2>>, F)), <<>>,
          <<N("MatMul", 3, <<1, 2>>), N("MatMul", 4, <<2, 1>>), N("MatMul", 5, <<3, 4>>)>>, {5}),
    \* a bias that is wider than the product, and one of a wider type
    Graph((1 :> SpecOf(<<1, 2>>, F)), (2 :> Const(2, <<2, 2>>, F)) @@ (3 :> Const(3, <<3, 2>>, F)) @@ (4 :> Const(4, <<2>>, "float64")),
          <<N("MatMul", 5, <<1, 2>>), N("Add", 6, <<5, 3>>), N("MatMul", 7, <<6, 2>>), N("Add", 8, <<4, 7>>),
            N("Sigmoid", 9, <<8>>)>>, {9}),
    \* layouts
    Graph(1 :> SpecOf(<<2, 3, 4>>, F), 2 :> Const(2, <<1, 3, 4>>, F),
          <<With("Reshape", 3, <<1>>, <<4, -1>>), With("Transpose", 4, <<1>>, <<2, 0, 1>>), With("Concat", 5, <<1, 1, 2>>, <<0>>),
            With("Slice", 6, <<5>>, <<1, 9, -1, 2>>), With("Slice", 7, <<5>>, <<1, 3, 0, 1>>),
            With("Reshape", 8, <<4>>, <<6, 4>>), With("Concat", 9, <<3, 8>>, <<-2>>), With("Concat", 10, <<6, 7>>, <<2>>)>>, {9}),
    \* bounds of a slice that count from the end, and one backwards
    Graph(1 :> SpecOf(<<5, 2>>, F), <<>>,
          <<With("Slice", 2, <<1>>, <<0, -1, 0, 1>>), With("Slice", 3, <<1>>, <<-2, 9, 0, 1>>),
            With("Slice", 4, <<1>>, <<4, 0, 0, -1>>), N("Relu", 5, <<2>>), N("Relu", 6, <<3>>), N("Relu", 7, <<4>>),
            N("Mul", 8, <<1, 1>>)>>, {5, 6, 7, 8}),
    \* windows with and without pads
    Graph(1 :> SpecOf(<<1, 2, 5, 6>>, F), <<>>,
          <<With("MaxPool", 2, <<1>>, <<2, 2, 0, 0, 0, 0, 2, 2, 1, 1>>), With("MaxPool", 3, <<1>>, <<3, 3, 1, 1, 1, 1, 2, 1, 1, 1>>),
            With("MaxPool", 4, <<3>>, <<2, 2, 0, 0, 1, 1, 1, 3, 2, 2>>), N("Relu", 5, <<2>>)>>, {4, 5}),
    \* a block of a transformer
    Graph(1 :> SpecOf(<<3>>, "int64"), (2 :> Const(2, <<5, 4>>, F)) @@ (3 :> Const(3, <<4, 4>>, F)) @@ (4 :> Const(4, <<4>>, F)),
          <<N("Embedding", 5, <<1, 2>>), N("LayerNorm", 6, <<5, 4, 4>>), N("MatMul", 7, <<6, 3>>), N("MatMul", 8, <<6, 3>>),
            N("SDPA", 9, <<7, 8, 6>>), N("MatMul", 10, <<9, 3>>), N("Add", 11, <<10, 4>>), N("Add", 12, <<11, 5>>),
            N("Softmax", 13, <<12>>)>>, {13}),
    \* integers: what keeps them, and what makes them real
    Graph(1 :> SpecOf(<<2, 2>>, "int32"), (2 :> Const(2, <<2, 2>>, "int32")) @@ (3 :> Const(3, <<2>>, "int64")),
          <<N("Add", 4, <<1, 2>>), N("Relu", 5, <<4>>), N("Sub", 6, <<3, 5>>), N("MatMul", 7, <<1, 2>>),
            N("Div", 8, <<7, 2>>), N("Sigmoid", 9, <<5>>), N("Tanh", 10, <<6>>), N("Softmax", 11, <<7>>),
            N("LayerNorm", 12, <<1, 2>>), N("Mul", 13, <<5, 3>>), N("SDPA", 14, <<1, 2, 7>>)>>, {8, 9, 10, 11, 12, 13, 14}),
    \* integers, a bias and an activation
    Graph(1 :> SpecOf(<<2, 2>>, "int64"), (2 :> Const(2, <<2, 2>>, "int64")) @@ (3 :> Const(3, <<2>>, F)),
          <<N("MatMul", 4, <<1, 2>>), N("Sigmoid", 5, <<4>>), N("MatMul", 6, <<1, 2>>), N("Add", 7, <<6, 3>>),
            N("Relu", 8, <<7>>), N("MatMul", 9, <<1, 2>>), N("Add", 10, <<9, 1>>), N("Tanh", 11, <<10>>)>>, {5, 8, 11}),
    \* short and long integers and reals
    Graph((1 :> SpecOf(<<2>>, "int32")) @@ (2 :> SpecOf(<<2>>, F)) @@ (3 :> SpecOf(<<2>>, "float64")), <<>>,
          <<N("Add", 4, <<1, 2>>), N("Mul", 5, <<2, 1>>), N("Sub", 6, <<3, 1>>), N("Div", 7, <<3, 2>>),
            With("Concat", 8, <<2, 3>>, <<0>>), N("Gelu", 9, <<2>>), N("Gelu", 10, <<3>>), N("Div", 11, <<2, 2>>),
            N("LeakyRelu", 12, <<1>>), N("Tanh", 13, <<2>>)>>, {4, 5, 6, 7, 8, 9, 10, 11, 12, 13}),
    \* normalisation over channels, with folded parameters, integral ones and more channels
    Graph(1 :> SpecOf(<<-1, 1, 3>>, F),
          (2 :> Const(2, <<1>>, F)) @@ (3 :> Const(3, <<1>>, "int32")) @@ (4 :> Const(4, <<2>>, F)),
          <<N("Sub", 5, <<2, 2>>), N("BatchNormalization", 6, <<1, 5, 2, 2, 2>>), N("BatchNormalization", 7, <<6, 2, 2, 2, 3>>),
            N("BatchNormalization", 8, <<6, 4, 4, 4, 4>>), N("Relu", 9, <<6>>)>>, {7, 8, 9}),
    \* rotary embeddings in halves and in pairs, of another type and over more rows
    Graph((1 :> SpecOf(<<2, 1, 4>>, F)) @@ (2 :> SpecOf(<<1, 2>>, F)) @@ (3 :> SpecOf(<<1, 4>>, "float64"))
            @@ (4 :> SpecOf(<<3, 2>>, F)), <<>>,
          <<With("RoPE", 5, <<1, 2, 2>>, <<0>>), With("RoPE", 6, <<5, 3, 3>>, <<0>>), With("RoPE", 7, <<5, 3, 3>>, <<1>>),
            With("RoPE", 8, <<1, 4, 4>>, <<0>>), With("RoPE", 9, <<7, 2, 2>>, <<1>>)>>, {6, 8, 9}),
    \* operands of more rows and of more batches than the first
    Graph((1 :> SpecOf(<<2, 1>>, F)) @@ (2 :> SpecOf(<<3>>, F)) @@ (3 :> SpecOf(<<2, 2, 3>>, F)) @@ (4 :> SpecOf(<<4, 3>>, F)), <<>>,
          <<N("LayerNorm", 5, <<1, 2, 2>>), N("SDPA", 6, <<4, 3, 3>>), N("SDPA", 7, <<3, 4, 4>>), N("LayerNorm", 8, <<4, 2>>)>>,
          {5, 6, 7, 8}) }

MCGraphs == Small \cup Trees \cup Fusions \cup Operators
================================================================================
