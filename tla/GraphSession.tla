----------------------------- MODULE GraphSession -----------------------------
(***************************************************************************)
(* An InferenceSession on the NumPy backend: the graph is optimized and    *)
(* planned when the session is opened, then run node by node.              *)
(*                                                                         *)
(* The memory plan is what the session hands to a backend with an arena:   *)
(* every value at its place in one piece of memory, constants from the     *)
(* start, the others written when they are made.  intact follows which     *)
(* bytes would still hold their value.                                     *)
(***************************************************************************)
EXTENDS MemoryPlan

CONSTANTS
  Graphs,   \* the graphs sessions are opened on
  Batches,  \* what a dimension a graph leaves open may be in a run
  MaxRuns   \* bound: runs of the session

ASSUME SessionAssumption == Batches \subseteq Nat \ {0} /\ MaxRuns \in Nat

VARIABLES
  source,   \* the graph the session is opened on
  graph,    \* the graph it runs
  specs,    \* infer_value_specs of it
  plan,     \* its memory plan
  run,      \* runs so far
  stage,    \* new, ready, running
  step,     \* the node to evaluate next
  vals,     \* the arrays of this run
  intact,   \* the values whose bytes in the arena hold them
  outcome   \* of the last run: none, returned or raised

sessionVars == <<source, graph, specs, plan>>
vars == <<sessionVars, run, stage, step, vals, intact, outcome>>

Init ==
  /\ source \in Graphs /\ graph = source
  /\ specs = <<>> /\ plan = <<>>
  /\ run = 0 /\ stage = "new" /\ step = 0
  /\ vals = <<>> /\ intact = {} /\ outcome = "none"

\* InferenceSession(source, optimize).
Open(optimize) ==
  /\ stage = "new" /\ stage' = "ready"
  /\ graph' = IF optimize THEN optimize_graph(source) ELSE source
  /\ specs' = infer_value_specs(graph')
  /\ plan' = build_memory_plan(graph', specs')
  /\ vals' = graph'.constants /\ intact' = DOMAIN graph'.constants
  /\ UNCHANGED <<source, run, step, outcome>>

Bytes(array) == Product(array.shape) * _DTYPE_NBYTES[array.dtype]

\* The bytes of x and of y, holding these arrays, meet.
Meet(x, y, arrays) ==
  LET end(v) == plan.start[v] + Bytes(arrays[v])
  IN  plan.start[x] < end(y) /\ plan.start[y] < end(x)

\* What is intact when the values W are written.
Writing(before, W, arrays) ==
  {x \in before : \A w \in W : ~Meet(x, w, arrays)} \cup W

\* The arrays a caller may pass for the inputs.
Feeds ==
  {[v \in DOMAIN graph.inputs |->
      Array([op |-> "input", attr |-> <<v>>, args |-> {}],
            [i \in DOMAIN graph.inputs[v].shape |->
               IF graph.inputs[v].shape[i] < 0 THEN batch ELSE graph.inputs[v].shape[i]],
            graph.inputs[v].dtype)] : batch \in Batches}

\* NumpyBackend.run, up to its loop.
Run ==
  /\ stage = "ready" /\ run < MaxRuns
  /\ run' = run + 1 /\ stage' = "running" /\ step' = 1
  /\ \E fed \in Feeds :
       /\ vals' = graph.constants @@ fed
       /\ intact' = Writing(intact \cap DOMAIN graph.constants, DOMAIN fed, vals')
  /\ UNCHANGED <<sessionVars, outcome>>

\* One node of the loop: its inputs are looked up by name.
Evaluate ==
  /\ stage = "running" /\ step <= Len(graph.nodes)
  /\ LET n == graph.nodes[step]
     IN  \/ /\ Range(n.in) \subseteq DOMAIN vals
            /\ vals' = vals @@ (n.out :> Evaluated(n, vals))
            /\ intact' = Writing(intact, {n.out}, vals')
            /\ step' = step + 1 /\ UNCHANGED <<stage, outcome>>
         \/ /\ ~(Range(n.in) \subseteq DOMAIN vals)
            /\ stage' = "ready" /\ outcome' = "raised"
            /\ UNCHANGED <<vals, intact, step>>
  /\ UNCHANGED <<sessionVars, run>>

\* The outputs are looked up, too.
Return ==
  /\ stage = "running" /\ step = Len(graph.nodes) + 1
  /\ stage' = "ready"
  /\ outcome' = IF graph.outputs \subseteq DOMAIN vals THEN "returned" ELSE "raised"
  /\ UNCHANGED <<sessionVars, run, step, vals, intact>>

Next == (\E optimize \in BOOLEAN : Open(optimize)) \/ Run \/ Evaluate \/ Return

Spec == Init /\ [][Next]_vars

------------------------------------------------------------------------------
(* Properties                                                                *)

\* Where the value of node k is made once its node is fused.
Place(g, k) == Min({k} \cup {j \in DOMAIN g.nodes : Fuses(g, j) /\ k \in Consumed(g.nodes, j)})

\* A product is given a bias that is made later.
BiasMadeLater(g) ==
  \E i, k \in DOMAIN g.nodes : \E add \in FusedAdd(g.nodes, i) :
    Fuses(g, i) /\ Bias(g.nodes, i, add) = <<g.nodes[k].out>> /\ Place(g, k) > i

\* A sum that is an output and is read by an activation only.
SumIsAnOutput(g) ==
  \E i \in DOMAIN g.nodes :
    /\ Fuses(g, i)
    /\ FusedAct(g.nodes, i) # {} /\ SumOf(g.nodes, i) \in g.outputs

\* A run returns what the graph the caller wrote means for its inputs, whatever
\* was folded, rerouted and fused.  It raises in exactly two cases: optimize_graph
\* has put a product before its bias, or has fused away a sum that is an output
\* (optimizer.py 121-136 looks for neither).
RunsComputeTheGraph ==
  stage = "ready" =>
    /\ outcome = "returned" =>
         \A v \in source.outputs :
           vals[v] = Meaning(source, Restrict(vals, DOMAIN source.inputs))[v]
    /\ outcome # "none" =>
         (outcome = "raised" <=>
            /\ graph # source
            /\ BiasMadeLater(Cleaned(source)) \/ SumIsAnOutput(Cleaned(source)))

\* A spec is what the array turns out to be, in its element type and in its shape.
TypeHolds(v)  == v \in DOMAIN specs => specs[v].dtype = vals[v].dtype
ShapeHolds(v) ==
  v \in DOMAIN specs =>
    /\ Len(specs[v].shape) = Len(vals[v].shape)
    /\ \A i \in DOMAIN specs[v].shape : specs[v].shape[i] \in {-1, vals[v].shape[i]}

\* What infer_value_specs does not look at: a bound of a slice that counts from the end,
CountsFromTheEnd(n) == n.op = "Slice" /\ \E i \in {1, 2, 4} : n.attr[i] < 0

\* an operand that stretches what it is applied to,
Stretched(n) ==
  LET s          == [i \in DOMAIN n.in |-> vals[n.in[i]].shape]
      batch(i)   == SubSeq(s[i], 1, Len(s[i]) - 2)
      over(a, b) == Broadcast(a, b) # a
  IN  CASE n.op = "FusedLinear" -> Len(s) > 2 /\ over(MatMulShape(s[1], s[2]), s[3])
        [] n.op = "LayerNorm" -> \E i \in 2 .. Len(s) : over(s[1], s[i])
        [] n.op = "BatchNormalization" -> \E i \in 2 .. 5 : over(s[1], PerChannel(s[i], Len(s[1])))
        [] n.op = "RoPE" -> n.attr = <<0>> /\ \E i \in 2 .. 3 : over(Front(s[1]), Front(s[i]))
        [] n.op = "SDPA" -> \E i \in 2 .. 3 : over(batch(1), batch(i))
        [] OTHER -> FALSE

\* operands whose common type is not the first one's, operators that leave the integers,
\* and Gelu, which computes in float64.
Retyped(n) ==
  LET type         == Promoted({vals[v].dtype : v \in Range(n.in)})
      computes     == {"Div", "Sigmoid", "Tanh", "Softmax", "LayerNorm", "BatchNormalization", "SDPA"}
      applies(ops) == {n.op, n.act} \cap ops # {}
  IN  \/ type # vals[n.in[1]].dtype /\ n.op # "Embedding" /\ ~(n.op = "RoPE" /\ n.attr = <<1>>)
      \/ type \in Integral /\ applies(computes)
      \/ type # "float64" /\ applies({"Gelu"})

\* What is planned of the value of a node whose operands are as planned: the shape is the
\* one the array gets, but for slices that count from the end and for operands that
\* stretch others; the element type is the array's exactly if the node is not Retyped.
\* Of every operator infer_value_specs knows and the NumPy backend has, also when folded
\* and fused (execution.py 253-375 and numpy_backend.py 79-134 say it twice).
InferredSpecsHold ==
  \A i \in 1 .. step - 1 :
    LET n == graph.nodes[i]
    IN  n.out \in DOMAIN specs /\ (\A j \in DOMAIN n.in : TypeHolds(n.in[j]) /\ ShapeHolds(n.in[j])) =>
          /\ ShapeHolds(n.out) \/ CountsFromTheEnd(n) \/ Stretched(n)
          /\ TypeHolds(n.out) <=> ~Retyped(n)

\* Whether x is read when the nodes from i on are run, or afterwards.
ReadFrom(x, i) ==
  \/ x \in graph.outputs \cup DOMAIN graph.constants
  \/ plan.values[x].last_use >= i

\* The bytes of a value that is still read are written over only by a value
\* given the same allocation while one of the two waits for its first reader
\* (_allocate_buffers asks when a value is read, not when it is made), or when a
\* size of the two was not known or wrong.
OnlyWaitingValuesCollide ==
  [][step' = step + 1 =>
       LET w == graph.nodes[step].out
       IN  \A x \in intact \ intact' :
             ReadFrom(x, step) =>
               \/ \E v \in {x, w} : plan.values[v].nbytes # Bytes(vals'[v])
               \/ /\ plan.block[x] = plan.block[w]
                  /\ \/ step < plan.values[x].first_use
                     \/ plan.values[x].last_use < plan.values[w].first_use]_vars
================================================================================
